------------------------------ MODULE Transfer ------------------------------
(***************************************************************************)
(* The watch panel and the memory of the target: DasClient::read and write  *)
(* move kMaxTransfer bytes in one transaction of the DAS API                *)
(* (TasGui/src/das_client.cpp), poll_reads and write_item go through the    *)
(* watch list (TasGui/src/main.cpp).  All of it runs on the UI thread; the  *)
(* target runs on between two transactions, and each may fail.              *)
(***************************************************************************)
EXTENDS Integers, Sequences

CONSTANTS
    Items,       \* the variables that can be watched
    AddrOf,      \* their addresses
    SizeOf,      \* their byte sizes, 0 if unknown
    AddrSpace,   \* the size of the target's memory
    Bytes,       \* the values of a byte
    Encodings,   \* what the user's texts encode to
    Chunk,       \* kMaxTransfer, 1024 in the code
    MaxWatch,    \* bound: entries of the watch list, by whether the target runs
    Targets      \* the targets looked at: TRUE one that runs, FALSE one at rest

ASSUME LayoutAssumption ==
    /\ AddrSpace \in Nat
    /\ AddrOf \in [Items -> Nat]
    /\ SizeOf \in [Items -> Nat]
    /\ \A x \in Items : AddrOf[x] + SizeOf[x] <= AddrSpace
ASSUME EncodingsAssumption == Encodings \subseteq Seq(Bytes)
ASSUME ChunkAssumption ==
    Chunk \in Nat \ {0} /\ MaxWatch \in [BOOLEAN -> Nat] /\ Targets \subseteq BOOLEAN

VARIABLES
    running,     \* the target writes its variables while we look
    mem,         \* the target's memory
    connected,   \* app.connected
    watch,       \* app.watch: item, shown bytes, error
    pc,          \* what the UI thread is at
    mode,        \* "poll" through the list, or "one" entry written
    cur,         \* the entry it is at
    off,         \* offset
    buf,         \* out: the bytes read so far
    data,        \* the bytes to write
    held         \* (history) what each address held since read or write was called

callVars == <<pc, mode, cur, off, buf, data, held>>
vars == <<running, mem, connected, watch, pc, mode, cur, off, buf, data, held>>

Addresses == 0..(AddrSpace - 1)

\* WatchItem; a value is shown as its bytes.
Entries == [item: Items, shown: Seq(Bytes), error: BOOLEAN]

NothingHeld == [a \in Addresses |-> {}]
Now == [a \in Addresses |-> {mem[a]}]

Init ==
    /\ running \in Targets
    /\ mem \in [Addresses -> Bytes]
    /\ connected = FALSE
    /\ watch = <<>>
    /\ pc = "idle"
    /\ mode = "poll"
    /\ cur = 0
    /\ off = 0
    /\ buf = <<>>
    /\ data = <<>>
    /\ held = NothingHeld

Item == watch[cur].item
Size == SizeOf[Item]

\* The bytes of the next transaction.
Length == IF Chunk <= Size - off THEN Chunk ELSE Size - off

Calling == pc \in {"read", "write"}

\* The memory becomes m.
MemoryBecomes(m) ==
    /\ mem' = m
    /\ held' = [a \in Addresses |-> IF Calling THEN held[a] \cup {m[a]} ELSE {}]

-----------------------------------------------------------------------------
(* The target stores a byte of one of its variables.                        *)
TargetStores ==
    /\ running
    /\ \E x \in Items, b \in Bytes : \E k \in 0..(SizeOf[x] - 1) :
         MemoryBecomes([mem EXCEPT ![AddrOf[x] + k] = b])
    /\ UNCHANGED <<connected, watch, pc, mode, cur, off, buf, data>>

(* The connection panel; what connect() does is the subject of TasGui.      *)
Reconnect ==
    /\ pc = "idle"
    /\ connected' = ~connected
    /\ UNCHANGED <<mem, watch, callVars>>

-----------------------------------------------------------------------------
(* The watch list.                                                          *)

\* add_watch_from_entry, add_watch_expr.  A variable may be watched twice.
AddWatch ==
    /\ pc = "idle" /\ Len(watch) < MaxWatch[running]
    /\ \E x \in Items :
         watch' = Append(watch, [item |-> x, shown |-> <<>>, error |-> FALSE])
    /\ UNCHANGED <<mem, connected, callVars>>

\* The "x" buttons, and "Clear".
RemoveWatch ==
    /\ pc = "idle"
    /\ \E i \in 1..Len(watch) :
         watch' = SubSeq(watch, 1, i - 1) \o SubSeq(watch, i + 1, Len(watch))
    /\ UNCHANGED <<mem, connected, callVars>>

ClearWatch ==
    /\ pc = "idle"
    /\ watch' = <<>>
    /\ UNCHANGED <<mem, connected, callVars>>

Finish ==
    /\ pc' = "idle"
    /\ mode' = "poll"
    /\ cur' = 0
    /\ off' = 0
    /\ buf' = <<>>
    /\ data' = <<>>
    /\ held' = NothingHeld

-----------------------------------------------------------------------------
(* poll_reads.                                                              *)

\* "Read once", or the poll interval has passed.
StartPoll ==
    /\ pc = "idle" /\ connected
    /\ pc' = "item"
    /\ mode' = "poll"
    /\ cur' = 1
    /\ UNCHANGED <<mem, connected, watch, off, buf, data, held>>

\* The exception is caught per entry: the poll goes on with the next one.
NextItem ==
    /\ pc' = "item"
    /\ cur' = cur + 1
    /\ off' = 0
    /\ buf' = <<>>
    /\ held' = NothingHeld
    /\ UNCHANGED <<mode, data>>

NextOrFinish == IF mode = "poll" THEN NextItem ELSE Finish

SetError == watch' = [watch EXCEPT ![cur].error = TRUE]

BeginItem ==
    /\ pc = "item"
    /\ \/ /\ cur > Len(watch)
          /\ Finish
          /\ UNCHANGED <<mem, watch>>
       \/ /\ cur <= Len(watch)
          /\ IF Size = 0
               THEN SetError /\ NextItem
               ELSE /\ pc' = "read"
                    /\ held' = Now
                    /\ UNCHANGED <<watch, mode, cur, off, buf, data>>
          /\ UNCHANGED mem
    /\ UNCHANGED connected

\* Faulty: the second transaction reads from the start again.
ReadChunkRestarts ==
    /\ pc = "read" /\ off < Size
    /\ buf' = buf \o [k \in 1..Length |-> mem[AddrOf[Item] + k - 1]]
    /\ off' = off + Length
    /\ UNCHANGED <<mem, connected, watch, pc, mode, cur, data, held>>

\* One transaction of DasClient::read.
ReadChunk ==
    /\ pc = "read" /\ off < Size
    /\ buf' = buf \o [k \in 1..Length |-> mem[AddrOf[Item] + off + k - 1]]
    /\ off' = off + Length
    /\ UNCHANGED <<mem, connected, watch, pc, mode, cur, data, held>>

\* Faulty: the entry is passed over, its error column as it was.
ReadFailsSilently ==
    /\ pc = "read" /\ off < Size
    /\ NextOrFinish
    /\ UNCHANGED <<mem, connected, watch>>

ReadFails ==
    /\ pc = "read" /\ off < Size
    /\ SetError
    /\ NextOrFinish
    /\ UNCHANGED <<mem, connected>>

\* Faulty: the loop over the entries never moves on.
ReadDoneOnce ==
    /\ pc = "read" /\ off >= Size
    /\ watch' = [watch EXCEPT ![cur].shown = buf, ![cur].error = FALSE]
    /\ UNCHANGED <<mem, connected, callVars>>

\* it.value and it.hex are set and it.error is cleared.
ReadDone ==
    /\ pc = "read" /\ off >= Size
    /\ watch' = [watch EXCEPT ![cur].shown = buf, ![cur].error = FALSE]
    /\ NextOrFinish
    /\ UNCHANGED <<mem, connected>>

-----------------------------------------------------------------------------
(* write_item: encode, write, read back.                                    *)

StartWrite ==
    /\ pc = "idle"
    /\ \E i \in 1..Len(watch) :
         \/ /\ connected
            /\ \E d \in Encodings :
                 /\ Len(d) = SizeOf[watch[i].item]
                 /\ data' = d
            /\ pc' = "write"
            /\ mode' = "one"
            /\ cur' = i
            /\ held' = Now
            /\ UNCHANGED <<mem, watch, off, buf>>
         \/ \* not connected, or the text does not encode
            /\ watch' = [watch EXCEPT ![i].error = TRUE]
            /\ UNCHANGED <<mem, callVars>>
    /\ UNCHANGED connected

Stored == [a \in Addresses |->
             IF AddrOf[Item] + off <= a /\ a < AddrOf[Item] + off + Length
               THEN data[a - AddrOf[Item] + 1] ELSE mem[a]]

\* One transaction of DasClient::write.
WriteChunk ==
    /\ pc = "write" /\ off < Size
    /\ MemoryBecomes(Stored)
    /\ off' = off + Length
    /\ UNCHANGED <<connected, watch, pc, mode, cur, buf, data>>

\* A transaction that reports an error may have stored its bytes.
WriteFails ==
    /\ pc = "write" /\ off < Size
    /\ mem' \in {mem, Stored}
    /\ SetError
    /\ Finish
    /\ UNCHANGED connected

WriteDone ==
    /\ pc = "write" /\ off >= Size
    /\ pc' = "read"
    /\ off' = 0
    /\ held' = Now
    /\ UNCHANGED <<mem, connected, watch, mode, cur, buf, data>>

-----------------------------------------------------------------------------
UiThread ==
    \/ BeginItem \/ ReadChunk \/ ReadFails \/ ReadDone
    \/ WriteChunk \/ WriteFails \/ WriteDone

User == AddWatch \/ RemoveWatch \/ ClearWatch \/ StartPoll \/ StartWrite

Next ==
    /\ UNCHANGED running
    /\ TargetStores \/ Reconnect \/ User \/ UiThread

(* Every transaction returns (DAS_DEFAULT_TIMEOUT), and the UI thread runs. *)
Spec == Init /\ [][Next]_vars /\ WF_vars(UiThread /\ UNCHANGED running)

-----------------------------------------------------------------------------

(* The watch list's entries are what the code keeps of them.                *)
TypeOK ==
    /\ running \in BOOLEAN
    /\ mem \in [Addresses -> Bytes]
    /\ connected \in BOOLEAN
    /\ watch \in Seq(Entries)
    /\ pc \in {"idle", "item", "read", "write"}
    /\ mode \in {"poll", "one"}
    /\ cur \in Nat
    /\ Calling => cur \in 1..Len(watch)
    /\ off \in Nat
    /\ Calling => off <= Size
    /\ buf \in Seq(Bytes)
    /\ data \in Seq(Bytes)
    /\ held \in [Addresses -> SUBSET Bytes]

(* With the target at rest, a write under way has stored exactly the bytes  *)
(* up to its offset and has changed nothing outside its variable, over any  *)
(* number of transactions (das_client.cpp 291-303).                         *)
WritesItsPrefix ==
    ~running /\ pc = "write" =>
        \A a \in Addresses :
            IF AddrOf[Item] <= a /\ a < AddrOf[Item] + off
              THEN mem[a] = data[a - AddrOf[Item] + 1]
              ELSE held[a] = {mem[a]}

(* Each byte read is one its own address held during this very call, while  *)
(* the target stores as it likes (das_client.cpp 275-289): no byte is left  *)
(* over from another entry or the last poll, or from another offset.        *)
ReadsRecent ==
    pc = "read" =>
        \A k \in 1..Len(buf) : buf[k] \in held[AddrOf[Item] + k - 1]

(* With the target at rest, the read back of write_item can only show what  *)
(* was written (main.cpp 176-183).                                          *)
ReadsBackWritten ==
    ~running /\ pc = "read" /\ mode = "one" => buf = SubSeq(data, 1, off)

(* With the target at rest, each entry a poll has passed shows the memory,  *)
(* or an error (main.cpp 157-170): one entry's failure costs no other's     *)
(* value.                                                                   *)
PolledIsCurrent ==
    ~running /\ mode = "poll" /\ pc # "idle" =>
        \A i \in 1..Len(watch) :
            i < cur /\ ~watch[i].error =>
                watch[i].shown = [k \in 1..SizeOf[watch[i].item] |->
                                    mem[AddrOf[watch[i].item] + k - 1]]

(* What an entry shows is a whole value of its variable, also after a read  *)
(* that failed half-way (main.cpp 162-168).                                 *)
ShownIsWhole ==
    \A i \in 1..Len(watch) : Len(watch[i].shown) \in {0, SizeOf[watch[i].item]}

(* What is transferred in several transactions is, byte for byte, what was  *)
(* given and what was there, in its place.                                  *)
ChunksRight == WritesItsPrefix /\ ReadsRecent

(* The watch list shows whole values, and after a poll those of the target  *)
(* or an error, entry by entry.                                             *)
WatchRight == PolledIsCurrent /\ ShownIsWhole

(* A poll or a write comes to its end, whatever fails.                      *)
CallEnds == (pc # "idle") ~> (pc = "idle")
=============================================================================
