----------------------------- MODULE ElfTables -----------------------------
(***************************************************************************)
(* The accessors of ELFIO for sections that are tables: arrays, .dynamic,   *)
(* notes, .modinfo and the symbol versions (elfio_array.hpp,                *)
(* elfio_dynamic.hpp, elfio_note.hpp, elfio_modinfo.hpp, elfio_versym.hpp). *)
(* Each accessor keeps something of the section from when it was made: how  *)
(* many entries there are, where they begin, or all of them; the section    *)
(* itself grows under all of them.                                          *)
(*                                                                         *)
(* The section's data is a sequence of cells.  A cell of a note or a        *)
(* .modinfo is a byte, the first byte of a word standing for the word; of   *)
(* the others it is a field.  A constructor that scans and a call that      *)
(* walks are steps of their own, nothing else goes on meanwhile.            *)
(***************************************************************************)
EXTENDS Integers, Sequences

CONSTANTS
    Accs,      \* the accessors callers make of the section
    Tables,    \* the sections: [kind, foreign, sized, dynamic, cells, table]
    Numbers,   \* the values of a cell
    Entries, Notes, Attributes, \* what callers add: [tag, value], [type, name, desc],
               \* [field, value]
    Swap,      \* the bytes of a value the other way round
    Valueless, \* the tags whose entries have no value, 0 (DT_NULL) first of all
    CountTag,  \* DT_VERNEEDNUM, DT_VERDEFNUM
    MaxEntries \* bound: the entries of the section

Word == 4      \* sizeof(Elf_Word), and the alignment of notes
Equals == 61   \* '='

VARIABLES
    section, \* what was loaded of it: kind, byte order, whether its entries have a size
    cells,   \* its data
    table,   \* the entries put there: [at, entry], at the cells before it (observation)
    accs,    \* accessor -> [open, num, list, missed], missed: another one has added since
    call,    \* the call at work: [acc, at, left]
    answer   \* the entry of a version last asked for, and its number (observation)

vars == <<section, cells, table, accs, call, answer>>

-----------------------------------------------------------------------------
(* endianness_convertor: there and back the same.                           *)
Conv(v) == IF section.foreign THEN Swap[v] ELSE v

Zeros(n) == [i \in 1..n |-> 0]
WordOf(v) == <<Conv(v)>> \o Zeros(Word - 1)
Padded(n) == Word * ((n + Word - 1) \div Word)
Padding(n) == Zeros(Padded(n) - n)

\* Faulty: the name is not padded.
NoteUnpadded(e) ==
    WordOf(Len(e.name) + 1) \o WordOf(Len(e.desc)) \o WordOf(e.type)
    \o e.name \o <<0>> \o e.desc \o Padding(Len(e.desc))

\* add_note: three words, the name with a zero, the description, both padded.
Note(e) ==
    WordOf(Len(e.name) + 1) \o WordOf(Len(e.desc)) \o WordOf(e.type)
    \o e.name \o <<0>> \o Padding(Len(e.name) + 1) \o e.desc \o Padding(Len(e.desc))

\* add_attribute
Text(e) == e.field \o <<Equals>> \o e.value \o <<0>>

\* A dynamic entry with the value its tag has.
Meant(e) == IF e.tag \in Valueless THEN [e EXCEPT !.value = 0] ELSE e

-----------------------------------------------------------------------------
Kind == section.kind
Extent == Len(cells)
Read(i) == Conv(cells[i])

\* get_entry of .dynamic, counted from 1.
DynamicAt(i) ==
    LET tag == Read(2 * i - 1)
    IN  [tag |-> tag, value |-> IF tag \in Valueless THEN 0 ELSE Read(2 * i)]

\* get_entries_num of .dynamic: up to the first DT_NULL.
Counted ==
    LET n == Extent \div 2
        nulls == {i \in 1..n : DynamicAt(i).tag = 0}
    IN  IF ~section.sized THEN 0
        ELSE IF nulls = {} THEN n ELSE CHOOSE i \in nulls : \A k \in nulls : i <= k

DynamicNum(a) == IF accs[a].num = 0 THEN Counted ELSE accs[a].num

\* get_note of the note that begins behind p cells.
NameSize(p) == Read(p + 1)
DescSize(p) == Read(p + 1 + Word)
NoteAt(p) ==
    LET at == p + 3 * Word
    IN  [type |-> Read(p + 1 + 2 * Word), name |-> SubSeq(cells, at + 1, at + NameSize(p) - 1),
         desc |-> SubSeq(cells, at + Padded(NameSize(p)) + 1, at + Padded(NameSize(p)) + DescSize(p))]

\* get_note refuses a note without a name, and one larger than what remains.
Refused(p) == NameSize(p) < 1 \/ NameSize(p) + DescSize(p) > Extent - p

(* What an accessor shows, entry by entry.                                  *)
Shown(a) ==
    IF Kind = "array" THEN [i \in 1..Extent |-> Read(i)]
    ELSE IF Kind = "versym" THEN [i \in 1..accs[a].num |-> cells[i]]
    ELSE IF Kind = "dynamic" THEN [i \in 1..DynamicNum(a) |-> DynamicAt(i)]
    ELSE IF Kind = "note"
      THEN LET told == SelectSeq(accs[a].list, LAMBDA p : ~Refused(p))
           IN  [i \in DOMAIN told |-> NoteAt(told[i])]
    ELSE accs[a].list

-----------------------------------------------------------------------------
Idle == [acc |-> {}, at |-> 0, left |-> 0]
Closed == [open |-> FALSE, num |-> 0, list |-> <<>>, missed |-> FALSE]

Init ==
    \E s \in Tables :
      /\ section = [kind |-> s.kind, foreign |-> s.foreign, sized |-> s.sized, dynamic |-> s.dynamic]
      /\ cells = s.cells /\ table = s.table
      /\ accs = [a \in Accs |-> Closed] /\ call = Idle /\ answer = Idle

(* The number of versions is that .dynamic speaks of, before its DT_NULL.   *)
VersionNum ==
    LET d == section.dynamic
        before == {i \in DOMAIN d : \A k \in 1..(i - 1) : d[k].tag # 0}
        counts == {i \in before : d[i].tag = CountTag}
    IN  IF counts = {} THEN 0 ELSE d[CHOOSE i \in counts : \A k \in counts : i <= k].value

Open(a) ==
    /\ call = Idle /\ ~accs[a].open
    /\ accs' = [accs EXCEPT ![a] =
         [Closed EXCEPT !.open = TRUE,
                        !.num = IF Kind = "versym" THEN Extent
                                ELSE IF Kind = "versions" THEN VersionNum ELSE 0]]
    /\ call' = IF Kind \in {"note", "modinfo"} THEN [Idle EXCEPT !.acc = {a}] ELSE Idle
    /\ UNCHANGED <<section, cells, table, answer>>

Close(a) ==
    /\ call = Idle /\ accs[a].open
    /\ accs' = [accs EXCEPT ![a] = Closed]
    /\ UNCHANGED <<section, cells, table, call, answer>>

(* process_section of notes, one turn of its loop.                          *)
Advance(p) == 3 * Word + Padded(NameSize(p)) + Padded(DescSize(p))
IsNote(p) == NameSize(p) < Extent /\ DescSize(p) < Extent /\ p + Advance(p) <= Extent

ScanNote(a) ==
    /\ Kind = "note" /\ call.acc = {a}
    /\ IF call.at + 3 * Word <= Extent /\ IsNote(call.at)
         THEN /\ accs' = [accs EXCEPT ![a].list = Append(@, call.at)]
              /\ call' = [call EXCEPT !.at = @ + Advance(@)]
         ELSE call' = Idle /\ UNCHANGED accs
    /\ UNCHANGED <<section, cells, table, answer>>

(* process_section of .modinfo: the next text that is not empty, split at   *)
(* its first '='; without one it is field and value.                        *)
Attribute(info) ==
    LET at == {i \in DOMAIN info : info[i] = Equals}
        loc == CHOOSE i \in at : \A k \in at : i <= k
    IN  IF at = {} THEN [field |-> info, value |-> info]
        ELSE [field |-> SubSeq(info, 1, loc - 1), value |-> SubSeq(info, loc + 1, Len(info))]

ScanAttribute(a) ==
    /\ Kind = "modinfo" /\ call.acc = {a}
    /\ LET begins == {i \in (call.at + 1)..Extent : cells[i] # 0}
           begin == CHOOSE i \in begins : \A k \in begins : i <= k
           ends == {i \in begin..(Extent + 1) : i = Extent + 1 \/ cells[i] = 0}
           end == CHOOSE i \in ends : \A k \in ends : i <= k
       IN  IF begins = {} THEN call' = Idle /\ UNCHANGED accs
           ELSE /\ accs' = [accs EXCEPT ![a].list =
                              Append(@, Attribute(SubSeq(cells, begin, end - 1)))]
                /\ call' = [call EXCEPT !.at = end - 1]
    /\ UNCHANGED <<section, cells, table, answer>>

(* append_data: what the other accessors keep is not told.                  *)
Stale(acc) == acc.open /\ (IF Kind = "dynamic" THEN acc.num # 0 ELSE Kind # "array")

Put(a, what, entry, kept) ==
    /\ call = Idle /\ accs[a].open /\ Len(table) < MaxEntries
    /\ cells' = cells \o what
    /\ table' = Append(table, [at |-> Extent, entry |-> entry])
    /\ accs' = [b \in Accs |-> IF b = a THEN kept
                               ELSE [accs[b] EXCEPT !.missed = @ \/ Stale(accs[b])]]
    /\ UNCHANGED <<section, call, answer>>

AddAddress(a, v) == Kind = "array" /\ Put(a, <<Conv(v)>>, v, accs[a])

\* The bytes of versions are not swapped.
AddVersion(a, v) ==
    Kind = "versym" /\ Put(a, <<v>>, v, [accs[a] EXCEPT !.num = @ + 1])

\* The count stays as it is.
AddDynamic(a, e) ==
    /\ Kind = "dynamic"
    /\ Put(a, <<Conv(e.tag), Conv(Meant(e).value)>>, Meant(e),
           [accs[a] EXCEPT !.missed = @ \/ Stale(accs[a])])

AddNote(a, e) ==
    Kind = "note" /\ Put(a, Note(e), e, [accs[a] EXCEPT !.list = Append(@, Extent)])

AddAttribute(a, e) ==
    Kind = "modinfo" /\ Put(a, Text(e), e, [accs[a] EXCEPT !.list = Append(@, e)])

\* modify_entry of symbol versions.
Modify(a, no, v) ==
    /\ call = Idle /\ accs[a].open /\ Kind = "versym" /\ no \in 1..accs[a].num
    /\ cells' = [cells EXCEPT ![no] = v]
    /\ table' = [table EXCEPT ![no].entry = v]
    /\ UNCHANGED <<section, accs, call, answer>>

\* The first question keeps the count, unless it is 0.
Count(a) ==
    /\ call = Idle /\ accs[a].open /\ Kind = "dynamic"
    /\ accs' = [accs EXCEPT ![a].num = DynamicNum(a)]
    /\ UNCHANGED <<section, cells, table, call, answer>>

(* get_entry of required and defined versions: no steps along the chain,    *)
(* each entry [next, aux, its own fields], the name behind aux cells.       *)
Look(a, no) ==
    /\ call = Idle /\ accs[a].open /\ Kind = "versions" /\ no \in 1..accs[a].num
    /\ call' = [acc |-> {a}, at |-> 0, left |-> no - 1]
    /\ answer' = [acc |-> {}, at |-> 0, left |-> no]
    /\ UNCHANGED <<section, cells, table, accs>>

Walk(a) ==
    /\ Kind = "versions" /\ call.acc = {a}
    /\ IF call.left > 0
         THEN /\ call' = [call EXCEPT !.at = @ + cells[@ + 1], !.left = @ - 1]
              /\ UNCHANGED answer
         ELSE /\ call' = Idle
              /\ answer' = [acc |-> {a}, left |-> answer.left,
                            at |-> [file |-> cells[call.at + 3],
                                    name |-> cells[call.at + cells[call.at + 2] + 1]]]
    /\ UNCHANGED <<section, cells, table, accs>>

Next ==
    \E a \in Accs :
      \/ Open(a) \/ Close(a) \/ Count(a)
      \/ ScanNote(a) \/ ScanAttribute(a) \/ Walk(a)
      \/ \E v \in Numbers : AddAddress(a, v) \/ AddVersion(a, v)
      \/ \E e \in Entries : AddDynamic(a, e)
      \/ \E e \in Notes : AddNote(a, e)
      \/ \E e \in Attributes : AddAttribute(a, e)
      \/ \E no \in 1..Extent, v \in Numbers : Modify(a, no, v)
      \/ \E no \in 1..Extent : Look(a, no)

Spec == Init /\ [][Next]_vars

-----------------------------------------------------------------------------
\* All that was put there; of .dynamic what comes up to its end, if its
\* entries have a size.
Hidden(k) ==
    /\ Kind = "dynamic"
    /\ ~section.sized \/ \E i \in 1..(k - 1) : table[i].entry.tag = 0

Told ==
    LET n == {k \in 0..Len(table) : \A i \in 1..k : ~Hidden(i)}
    IN  [i \in 1..(CHOOSE k \in n : \A j \in n : j <= k) |-> table[i].entry]

(* An accessor shows what is in the table, of every entry what was put       *)
(* there, and misses none unless another one has added to the section, or   *)
(* .dynamic has grown since it was first counted.  A note without a name    *)
(* is no entry, and stands in nobody's way.                                 *)
TablesRead ==
    /\ \A a \in Accs : accs[a].open /\ call.acc # {a} /\ Kind # "versions" =>
         /\ \A i \in DOMAIN Shown(a) : \E k \in DOMAIN table : Shown(a)[i] = table[k].entry
         /\ ~accs[a].missed => Shown(a) = Told
    /\ answer.acc # {} => answer.at = table[answer.left].entry
=============================================================================
