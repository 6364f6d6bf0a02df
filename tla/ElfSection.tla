----------------------------- MODULE ElfSection -----------------------------
(***************************************************************************)
(* section_impl (elfio_section.hpp): the bytes of one section in a buffer   *)
(* that doubles as it grows, read from the file at once or, lazily, when    *)
(* they are first asked for; and string_section_accessor over it.           *)
(*                                                                         *)
(* The buffer is "data", all of its bytes; dataSize is what the code says    *)
(* of it and size is the sh_size of the header.  Streams are not translated, *)
(* allocations succeed and nothing is compressed.                           *)
(***************************************************************************)
EXTENDS Integers, Sequences

CONSTANTS
    Bytes,     \* the values of a byte
    Zero,      \* the byte that ends a string
    Junk,      \* what an allocation holds before it is written
    Files,     \* what may be loaded: [bytes, offset, size, nobits], the whole stream
    Inputs,    \* what callers set and insert: strings of bytes
    Words,     \* what callers add to a string table: strings without Zero
    Ops,       \* the operations callers use
    ReadFirst, \* TRUE: callers edit what was loaded only once get_data() has given it
    MaxSize,   \* bound: the size of the section
    MaxWord    \* the largest Elf_Word

NoFile == [bytes |-> <<>>, offset |-> 0, size |-> 0, nobits |-> FALSE]

SectionAssumption ==
    /\ Zero \in Bytes /\ Junk \notin Bytes
    /\ Inputs \subseteq Seq(Bytes) /\ Words \subseteq Seq(Bytes \ {Zero})
    /\ \A f \in Files : /\ f.bytes \in Seq(Bytes) /\ f.offset \in Nat /\ f.size \in Nat
                        /\ f.nobits \in BOOLEAN /\ f # NoFile
    /\ ReadFirst \in BOOLEAN /\ MaxSize \in Nat /\ MaxWord \in Nat

VARIABLES
    fresh,      \* the section has not been loaded and not been used
    file,       \* the stream and place it was loaded from; sh_type
    lazy,       \* is_lazy
    size,       \* header.sh_size
    have, data, \* whether data is not null; its bytes
    dataSize,   \* data_size
    streamSize, \* stream_size
    loaded,     \* is_loaded
    canLoad,    \* can_be_loaded
    crashed,    \* TRUE: a copy went through the null pointer
    written,    \* [bytes, shown]: what the last save() wrote, what callers saw (observation)
    given,      \* the strings add_string has placed: <<position, word>>
    edited      \* TRUE: set or inserted into since it was loaded

flags == <<fresh, file, lazy, loaded, canLoad>>
buffer == <<size, have, data, dataSize, streamSize, crashed>>
vars == <<flags, buffer, written, given, edited>>

NotWritten == [bytes |-> <<>>, shown |-> <<>>]

Init ==
    /\ fresh = TRUE /\ file = NoFile /\ lazy = FALSE /\ size = 0 /\ have = FALSE /\ data = <<>>
    /\ dataSize = 0 /\ streamSize = 0 /\ loaded = FALSE /\ canLoad = TRUE
    /\ crashed = FALSE /\ written = NotWritten /\ given = {} /\ edited = FALSE

-----------------------------------------------------------------------------
(* load_data: st is [have, data, dataSize, loaded, ok].                     *)
InStream(f, sz, limit) == f.offset <= limit /\ sz <= limit - f.offset

\* The stream holds all the bytes the header speaks of.
ReadWhole(f, sz) == sz > 0 => f.offset + sz <= Len(f.bytes)

Read(f, sz) == [i \in 1..(sz + 1) |->
                  IF sz = 0 THEN Junk
                  ELSE IF i <= sz /\ f.offset + i <= Len(f.bytes) THEN f.bytes[f.offset + i]
                  ELSE Zero]

LoadData(f, sz, limit) ==
    IF ~InStream(f, sz, limit)
      THEN [have |-> have, data |-> data, dataSize |-> dataSize, loaded |-> loaded, ok |-> FALSE]
    ELSE IF have \/ f.nobits
      THEN [have |-> have, data |-> data, dataSize |-> dataSize,
            loaded |-> TRUE, ok |-> TRUE]
    ELSE IF ReadWhole(f, sz)
      THEN [have |-> TRUE, data |-> Read(f, sz), dataSize |-> sz, loaded |-> TRUE, ok |-> TRUE]
      ELSE [have |-> FALSE, data |-> <<>>, dataSize |-> 0, loaded |-> loaded, ok |-> FALSE]

\* get_data: whether it asks load_data.
Asked == ~loaded /\ canLoad

GetWith(f, sz, limit) ==
    IF Asked
      THEN LET st == LoadData(f, sz, limit) IN
           /\ have' = st.have /\ data' = st.data /\ dataSize' = st.dataSize
           /\ loaded' = st.loaded /\ canLoad' = st.ok
      ELSE UNCHANGED <<have, data, dataSize, loaded, canLoad>>

Load(f, lazily) ==
    /\ fresh /\ fresh' = FALSE
    /\ file' = f /\ lazy' = lazily /\ size' = f.size /\ streamSize' = Len(f.bytes)
    /\ IF lazily THEN UNCHANGED <<have, data, dataSize, loaded, canLoad>>
                   ELSE GetWith(f, f.size, Len(f.bytes))
    /\ UNCHANGED <<crashed, written, given, edited>>

GetData ==
    /\ GetWith(file, size, streamSize)
    /\ fresh' = FALSE
    /\ UNCHANGED <<file, lazy, size, streamSize, crashed, written, given, edited>>

\* Faulty: the section still counts as loaded.
FreeKeepsFlag ==
    /\ lazy
    /\ have' = FALSE /\ data' = <<>>
    /\ UNCHANGED <<flags, size, dataSize, streamSize, crashed, written, given, edited>>

FreeData ==
    /\ lazy
    /\ have' = FALSE /\ data' = <<>> /\ loaded' = FALSE
    /\ UNCHANGED <<fresh, file, lazy, size, dataSize, streamSize, canLoad, crashed, written,
                   given, edited>>

-----------------------------------------------------------------------------
MayEdit == ReadFirst /\ file # NoFile /\ ~file.nobits => have

SetData(s) ==
    /\ MayEdit
    /\ fresh' = FALSE /\ given' = {} /\ edited' = TRUE
    /\ IF file.nobits
         THEN UNCHANGED <<have, data, dataSize>>
         ELSE have' = TRUE /\ data' = s /\ dataSize' = Len(s)
    /\ size' = dataSize' /\ streamSize' = dataSize'
    /\ UNCHANGED <<file, lazy, loaded, canLoad, crashed, written>>

(* insert_data on a buffer b: [size, have, data, dataSize, streamSize,      *)
(* crashed].                                                                *)
Buffer == [size |-> size, have |-> have, data |-> data, dataSize |-> dataSize,
           streamSize |-> streamSize, crashed |-> crashed]

\* Faulty: the bytes behind the place are left where they were.
OpenedFront(b, pos, s, length) ==
    [i \in 1..length |->
       IF i <= pos THEN b.data[i] ELSE IF i <= pos + Len(s) THEN s[i - pos] ELSE Junk]

\* The bytes of b with s put in behind the first pos, length bytes long.
Opened(b, pos, s, length) ==
    [i \in 1..length |->
       IF i <= pos THEN b.data[i] ELSE IF i <= pos + Len(s) THEN s[i - pos]
       ELSE IF i <= b.size + Len(s) THEN b.data[i - Len(s)] ELSE Junk]

GrownSize(b, s) == 2 * b.dataSize + Len(s)

\* What was there is copied through data, null or not.
Unread(b) == b.size > 0 /\ ~b.have

(* In the buffer there is if it is large enough; else in a new one of twice *)
(* the size and the room for s.                                             *)
Inserted(b, pos, s) ==
    IF b.size + Len(s) <= b.dataSize
      THEN [size |-> b.size + Len(s), streamSize |-> b.streamSize + Len(s),
            have |-> b.have, dataSize |-> b.dataSize,
            data |-> Opened(b, pos, s, Len(b.data)), crashed |-> b.crashed]
    ELSE IF Unread(b) THEN [b EXCEPT !.crashed = TRUE]
    ELSE [size |-> b.size + Len(s), streamSize |-> b.streamSize + Len(s),
          have |-> TRUE, dataSize |-> GrownSize(b, s),
          data |-> Opened(b, pos, s, GrownSize(b, s)), crashed |-> b.crashed]

Use(b) ==
    /\ size' = b.size /\ have' = b.have /\ data' = b.data /\ dataSize' = b.dataSize
    /\ streamSize' = b.streamSize /\ crashed' = b.crashed

\* append_data is Insert at the end; sizes stay far below 2^64.
Insert(pos, s) ==
    /\ MayEdit /\ size + Len(s) <= MaxSize
    /\ ~file.nobits /\ pos <= size
    /\ Use(Inserted(Buffer, pos, s))
    /\ fresh' = FALSE /\ given' = {} /\ edited' = TRUE
    /\ UNCHANGED <<file, lazy, loaded, canLoad, written>>

-----------------------------------------------------------------------------
(* add_string: behind all there is, and behind an empty string at 0.        *)
PlaceOf == IF size = 0 THEN 1 ELSE size

\* The buffer with the empty string at 0.
Begun == IF size = 0 THEN Inserted(Buffer, 0, <<Zero>>) ELSE Buffer

AddString(w) ==
    /\ MayEdit /\ ~file.nobits /\ PlaceOf + Len(w) + 1 <= MaxSize
    /\ fresh' = FALSE /\ edited' = TRUE
    /\ IF Len(w) + 1 > MaxWord - PlaceOf
         THEN Use(Begun) /\ UNCHANGED given
         ELSE /\ Use(Inserted(Begun, Begun.size, w \o <<Zero>>))
              /\ given' = given \cup {<<PlaceOf, w>>}
    /\ UNCHANGED <<file, lazy, loaded, canLoad, written>>

(* get_string: up to the next zero byte, <<>> with no end for none.         *)
GetString(at) ==
    LET ends == {i \in (at + 1)..size : data[i] = Zero} IN
    IF at >= size \/ ~have \/ ends = {} THEN [found |-> FALSE, word |-> <<>>]
    ELSE LET end == CHOOSE i \in ends : \A k \in ends : i <= k
         IN  [found |-> TRUE, word |-> SubSeq(data, at + 1, end - 1)]

-----------------------------------------------------------------------------
(* What the section's callers see: its first size bytes, or those it will   *)
(* read from the file when they are asked for.                              *)
Loadable == ~have /\ canLoad /\ ~loaded /\ file # NoFile /\ ~edited
            /\ InStream(file, size, streamSize)

Content ==
    IF file.nobits THEN <<>>
    ELSE IF have THEN [i \in 1..size |-> data[i]]
    ELSE IF Loadable THEN [i \in 1..size |-> Read(file, size)[i]]
    ELSE <<>>

(* save: the bytes the data section of the file gets.                       *)
Written == IF size # 0 /\ have /\ ~file.nobits THEN SubSeq(data, 1, size) ELSE <<>>

Save ==
    /\ written' = [bytes |-> Written, shown |-> Content]
    /\ UNCHANGED <<flags, buffer, given, edited>>

Next ==
    /\ ~crashed
    /\ \/ \E f \in Files, lazily \in BOOLEAN : "load" \in Ops /\ Load(f, lazily)
       \/ "get" \in Ops /\ GetData
       \/ "free" \in Ops /\ FreeData
       \/ \E s \in Inputs : "set" \in Ops /\ SetData(s)
       \/ \E s \in Inputs, pos \in 0..size : "insert" \in Ops /\ Insert(pos, s)
       \/ \E w \in Words : "string" \in Ops /\ AddString(w)
       \/ "save" \in Ops /\ Save

Spec == Init /\ [][Next]_vars

-----------------------------------------------------------------------------
\* Every field keeps its kind, and the buffer holds what data_size says.
TypeOK ==
    /\ fresh \in BOOLEAN /\ file \in Files \cup {NoFile} /\ lazy \in BOOLEAN /\ size \in Nat
    /\ have \in BOOLEAN /\ data \in Seq(Bytes \cup {Junk}) /\ dataSize \in Nat
    /\ streamSize \in Nat /\ loaded \in BOOLEAN /\ canLoad \in BOOLEAN
    /\ crashed \in BOOLEAN /\ edited \in BOOLEAN
    /\ have /\ ~file.nobits => size <= dataSize /\ dataSize <= Len(data)

(* No edit copies through a null pointer: a section that has a size has its *)
(* bytes when they are moved.                                               *)
NoCrash == ~crashed

(* None of the bytes callers see is what the allocation happened to hold.   *)
NoJunk == \A i \in DOMAIN Content : Content[i] # Junk

(* Every position add_string has given out reads back as its string, as     *)
(* long as only strings are added and nothing is freed.                     *)
StringsStay ==
    ~lazy => \A g \in given : GetString(g[1]) = [found |-> TRUE, word |-> g[2]]

(* save() writes what callers see of a section that is not lazy.            *)
SavesAll == ~lazy => written.bytes = written.shown

(* A section that was not edited shows what the file holds, and comes back  *)
(* from it as it was however often it is freed.                             *)
FreeKeeps ==
    file # NoFile /\ ~edited /\ ~file.nobits /\ InStream(file, file.size, Len(file.bytes))
      => Content = [i \in 1..file.size |-> Read(file, file.size)[i]]

(* Freed bytes are read back when they are asked for (the test              *)
(* test_free_data compares them).                                           *)
FreeLosesNothing == [][FreeData => Content' = Content]_vars

(* The section keeps the promise of ElfBytes, whatever the buffer does: it   *)
(* is set to what a caller or the file gives, and edits open it at a place. *)
Strings == {<<Zero>>} \cup {w \o <<Zero>> : w \in Words} \cup {<<Zero>> \o w \o <<Zero>> : w \in Words}
InFiles == {[i \in 1..f.size |-> Read(f, f.size)[i]] : f \in Files}

Abstract == INSTANCE ElfBytes WITH
                content <- Content, Wholes <- Inputs \cup InFiles, Pieces <- Inputs \cup Strings
AbstractSpec == Abstract!Spec
=============================================================================
