----------------------------- MODULE ElfLayout -----------------------------
(***************************************************************************)
(* elfio.hpp, elfio::save(): the headers first, then the segments with their *)
(* sections, the other sections, and the section table; edited and saved    *)
(* again, on one object.                                                    *)
(*                                                                         *)
(* Offsets, sizes and addresses are the real unsigned numbers, with         *)
(* differences taken modulo Wrap as Elf_Xword takes them.  The NULL section  *)
(* 0 is left out: nothing here moves it.                                    *)
(***************************************************************************)
EXTENDS Integers, Sequences, FiniteSets

CONSTANTS
    Sections,   \* the indices of the sections
    Segments,   \* the indices of the segments
    Objects,    \* the objects a run may start from: [sec, seg]
    HeaderSize, EntrySize,
    Wrap,       \* 2^64
    MaxPos,     \* bound: the largest position in the file, and size of what is appended to
    MaxSaves, MaxEdits  \* bounds: calls of save(), edits

ASSUME LayoutAssumption ==
    /\ Sections \subseteq Nat \ {0}
    /\ IsFiniteSet(Segments) /\ Segments = 1..Cardinality(Segments)
    /\ HeaderSize \in Nat \ {0} /\ EntrySize \in Nat \ {0}
    /\ Wrap \in Nat \ {0} /\ MaxPos \in Nat /\ MaxSaves \in Nat /\ MaxEdits \in Nat
    /\ MaxPos < Wrap

(* What an object consists of.  No section asks for an alignment so large   *)
(* that rounding a position up to it would pass 2^64.                       *)
SectionRecord ==
    [type: {"bits", "nobits", "null"}, size: 0..(Wrap - 1), align: 0..(Wrap - MaxPos),
     addr: 0..(Wrap - 1), addrSet: BOOLEAN, offset: 0..(Wrap - 1), alloc: BOOLEAN, tls: BOOLEAN]
SegmentRecord ==
    [type: {"load", "phdr", "tls"}, align: Nat, vaddr: 0..(Wrap - 1), filesz: 0..(Wrap - 1),
     memsz: 0..(Wrap - 1), offset: 0..(Wrap - 1), offsetSet: BOOLEAN, list: Seq(Sections)]

ASSUME ObjectsAssumption ==
    \A o \in Objects : o.sec \in [Sections -> SectionRecord] /\ o.seg \in [Segments -> SegmentRecord]

VARIABLES
    sec,     \* section -> [type, size, align, addr, addrSet, offset, alloc, tls]
    seg,     \* segment -> [type, align, vaddr, filesz, memsz, offset, offsetSet, list]
    phase,   \* "idle", "zeros", "order", "segment", "section", "loose", "failed"
    pos,     \* current_file_pos
    generated, \* section_generated, as a set
    worklist,\* the segments still to be put in order, or still to be laid out
    ordered, \* get_ordered_segments' res
    cur, j, start, fsz, msz, \* the segment in hand, its next section, its sizes
    table,   \* header->get_sections_offset(), 0 until it is known
    home,    \* section -> the segment it was laid out in, 0 for none (observation)
    before,  \* the offsets after each save since the last edit or failure (observation)
    below,   \* TRUE: in this save a section lay before its segment's address (observation)
    saves, edits

saving == <<pos, generated, worklist, ordered, cur, j, start, fsz, msz, table, home, before>>
vars == <<sec, seg, phase, saving, below, saves, edits>>

Minus(a, b) == IF a >= b THEN a - b ELSE (a - b) + Wrap
Plus(a, b) == IF a + b < Wrap THEN a + b ELSE (a + b) - Wrap
PadTo(n, align) == IF align > 1 THEN (align - (n % align)) % align ELSE 0

(* Where the data may start: behind the ELF header and the segment table.   *)
HeadersEnd == HeaderSize + EntrySize * Cardinality(Segments)

ASSUME HeadersFit == HeadersEnd <= MaxPos

\* The sections that take room in the file.
Stored(s) == sec[s].type \notin {"nobits", "null"} /\ sec[s].size > 0

Init ==
    /\ \E o \in Objects : sec = o.sec /\ seg = o.seg
    /\ phase = "idle" /\ below = FALSE /\ saves = 0 /\ edits = 0
    /\ pos = 0 /\ generated = {} /\ worklist = <<>> /\ ordered = <<>>
    /\ cur = 0 /\ j = 0 /\ start = 0 /\ fsz = 0 /\ msz = 0 /\ table = 0
    /\ home = [s \in Sections |-> 0] /\ before = <<>>

-----------------------------------------------------------------------------
(* Between two saves.                                                       *)
Edit ==
    /\ phase = "idle" /\ edits < MaxEdits
    /\ edits' = edits + 1 /\ before' = <<>> /\ generated' = {}
    /\ UNCHANGED <<phase, pos, worklist, ordered, cur, j, start, fsz, msz, table,
                   home, below, saves>>

\* append_data on one section.
AppendData(s) ==
    /\ Edit /\ sec[s].type # "nobits" /\ sec[s].size < MaxPos
    /\ sec' = [sec EXCEPT ![s].size = @ + 1]
    /\ UNCHANGED seg

\* segment::add_section
AddSection(g, s) ==
    /\ Edit /\ \A i \in DOMAIN seg[g].list : seg[g].list[i] # s
    /\ seg' = [seg EXCEPT ![g].list = Append(@, s),
                          ![g].align = IF sec[s].align > @ THEN sec[s].align ELSE @]
    /\ UNCHANGED sec

-----------------------------------------------------------------------------
(* get_ordered_segments *)

(* The segments that start at offset 0, or say so because nobody has set    *)
(* their offset, go to the front.  cur goes through the list and j is       *)
(* nextSlot.                                                                *)
ZeroOffset(g) == seg[g].offset = 0

ZerosFirst ==
    LET to == IF ZeroOffset(worklist[j]) THEN j + 1 ELSE j IN
    /\ phase = "zeros" /\ cur <= Len(worklist)
    /\ cur' = cur + 1
    /\ IF cur # j /\ seg[worklist[cur]].offsetSet /\ ZeroOffset(worklist[cur])
         THEN /\ worklist' = [worklist EXCEPT ![cur] = worklist[to], ![to] = worklist[cur]]
              /\ j' = to + 1
         ELSE UNCHANGED <<worklist, j>>
    /\ UNCHANGED <<sec, seg, phase, pos, generated, ordered, start, fsz, msz, table, home,
                   before, below, saves, edits>>

ZerosDone ==
    /\ phase = "zeros" /\ cur > Len(worklist)
    /\ phase' = "order" /\ cur' = 0 /\ j' = 0
    /\ UNCHANGED <<sec, seg, pos, generated, worklist, ordered, start, fsz, msz, table, home,
                   before, below, saves, edits>>

(* std::includes over two lists it takes to be sorted.                      *)
Includes(all, some) ==
    LET f[i \in 1..(Len(all) + 1), k \in 1..(Len(some) + 1)] ==
          IF k > Len(some) THEN TRUE
          ELSE /\ i <= Len(all)
               /\ some[k] >= all[i]
               /\ f[i + 1, IF all[i] < some[k] THEN k ELSE k + 1]
    IN  f[1, 1]

is_subsequence_of(g, h) ==
    Len(seg[g].list) < Len(seg[h].list) /\ Includes(seg[h].list, seg[g].list)

\* The first of the list waits while another one holds all its sections.
OrderOne(g, rest) ==
    IF \E i \in DOMAIN rest : is_subsequence_of(g, rest[i])
      THEN worklist' = Append(rest, g) /\ UNCHANGED ordered
      ELSE worklist' = rest /\ ordered' = Append(ordered, g)

-----------------------------------------------------------------------------
(* save() *)

\* calc_segment_alignment
Aligned(g) ==
    LET aligns == {sec[seg[g].list[i]].align : i \in DOMAIN seg[g].list} \cup {seg[g].align}
    IN  CHOOSE a \in aligns : \A b \in aligns : b <= a

FirstPos == HeadersEnd

Save ==
    /\ phase = "idle" /\ saves < MaxSaves
    /\ saves' = saves + 1
    /\ phase' = "zeros" /\ cur' = 1 /\ j' = 1
    /\ pos' = FirstPos
    /\ table' = 0
    /\ seg' = [g \in Segments |-> [seg[g] EXCEPT !.align = Aligned(g)]]
    /\ worklist' = [i \in 1..Cardinality(Segments) |-> i]
    /\ ordered' = <<>> /\ generated' = {} /\ home' = [s \in Sections |-> 0]
    /\ below' = FALSE
    /\ UNCHANGED <<sec, start, fsz, msz, before, edits>>

Order ==
    /\ phase = "order"
    /\ IF worklist = <<>>
         THEN /\ phase' = "segment" /\ worklist' = ordered /\ UNCHANGED ordered
         ELSE /\ OrderOne(Head(worklist), Tail(worklist)) /\ UNCHANGED phase
    /\ UNCHANGED <<sec, seg, pos, generated, cur, j, start, fsz, msz, table, home, before,
                   below, saves, edits>>

\* How far a segment of sections not laid out yet is moved to meet its address.
ToItsAddress(g) ==
    LET align == IF seg[g].align > 0 THEN seg[g].align ELSE 1 IN
    Plus(seg[g].align, Minus(seg[g].vaddr % align, pos % align)) % align

\* Faulty: a nested segment starts where the file ends.
NestedStart(g) == pos

\* A nested segment starts where its first section already is.
FirstOffset(g) == sec[seg[g].list[1]].offset

\* layout_segments_and_their_sections: the next segment is taken.
StartSegment ==
    /\ phase = "segment" /\ worklist # <<>>
    /\ LET g == Head(worklist)
           some == seg[g].list # <<>>
       IN
       /\ cur' = g /\ j' = 1
       /\ worklist' = Tail(worklist)
       /\ \/ /\ seg[g].type = "phdr" /\ ~some
             /\ start' = HeaderSize
             /\ fsz' = EntrySize * Cardinality(Segments) /\ msz' = fsz'
             /\ UNCHANGED pos
          \/ /\ ~(seg[g].type = "phdr" /\ ~some)
             /\ seg[g].offsetSet /\ seg[g].offset = 0
             /\ start' = 0
             /\ fsz' = (IF some THEN pos ELSE 0) /\ msz' = fsz'
             /\ UNCHANGED pos
          \/ /\ ~(seg[g].type = "phdr" /\ ~some)
             /\ ~(seg[g].offsetSet /\ seg[g].offset = 0)
             /\ fsz' = 0 /\ msz' = 0
             /\ IF some /\ seg[g].list[1] \notin generated
                  THEN /\ pos' = pos + ToItsAddress(g) /\ pos' <= MaxPos
                       /\ start' = pos'
                  ELSE /\ start' = (IF some THEN FirstOffset(g) ELSE pos)
                       /\ UNCHANGED pos
    /\ phase' = "section"
    /\ UNCHANGED <<sec, seg, generated, ordered, table, home, before, below, saves, edits>>

-----------------------------------------------------------------------------
(* write_segment_data, one section at a time.                               *)
Current == seg[cur].list[j]
MoreSections == j <= Len(seg[cur].list)

Fresh(s) == s \notin generated
Pinned(s) == Fresh(s) /\ sec[s].addrSet /\ Stored(s)
Wanted(s) == Minus(sec[s].addr, seg[cur].vaddr)
Reached == Minus(pos, start)

(* The address of the section is before the segment's, or so far behind it  *)
(* that no file could hold the distance.                                    *)
Before(s) == Pinned(s) /\ Wanted(s) + MaxPos >= Wrap

\* Faulty: a section whose address is behind is laid out all the same.
AbortsNever(s) == FALSE

\* "something has gone awfully wrong, abort!"
Aborts(s) == Pinned(s) /\ Wanted(s) < Reached

\* Faulty: a section starts where the last one ends, whatever its address.
GapAligned(s) == PadTo(pos, sec[s].align)

\* section_align: the bytes in front of the section.
Gap(s) ==
    CASE Pinned(s) -> Minus(Wanted(s), Reached)
      [] Fresh(s) /\ ~sec[s].addrSet -> PadTo(pos, sec[s].align)
      [] ~Fresh(s) -> Minus(Minus(sec[s].offset, start), fsz)
      [] Fresh(s) /\ sec[s].addrSet /\ ~Stored(s) -> 0

InMemory(s) ==
    sec[s].alloc /\ ~(sec[s].tls /\ seg[cur].type # "tls" /\ sec[s].type = "nobits")

Placed(s, at) ==
    [sec EXCEPT ![s].addr = IF sec[s].addrSet THEN @ ELSE Minus(Plus(seg[cur].vaddr, at), start),
                ![s].addrSet = TRUE, ![s].offset = at]

Room(s) == IF sec[s].type \in {"nobits", "null"} THEN 0 ELSE sec[s].size

LaySection ==
    /\ phase = "section" /\ MoreSections
    /\ LET s == Current IN
       \/ /\ sec[s].type = "null"
          /\ generated' = generated \cup {s} /\ j' = j + 1
          /\ UNCHANGED <<sec, phase, pos, fsz, msz, home, below>>
       \/ /\ sec[s].type # "null" /\ Aborts(s)
          /\ phase' = "failed"
          /\ UNCHANGED <<sec, generated, pos, j, fsz, msz, home, below>>
       \/ /\ sec[s].type # "null" /\ ~Aborts(s)
          /\ j' = j + 1
          /\ below' = (below \/ Before(s))
          /\ msz' = (IF InMemory(s) THEN Plus(msz, Plus(sec[s].size, Gap(s))) ELSE msz)
          /\ fsz' = (IF sec[s].type # "nobits" THEN Plus(fsz, Plus(sec[s].size, Gap(s))) ELSE fsz)
          /\ IF Fresh(s)
               THEN LET at == Plus(pos, Gap(s)) IN
                    /\ at + Room(s) <= MaxPos
                    /\ sec' = Placed(s, at)
                    /\ pos' = at + Room(s)
                    /\ generated' = generated \cup {s}
                    /\ home' = [home EXCEPT ![s] = cur]
               ELSE UNCHANGED <<sec, pos, generated, home>>
          /\ UNCHANGED phase
    /\ UNCHANGED <<seg, worklist, ordered, cur, start, table, before, saves, edits>>

\* The segment is finished; the memory size never shrinks.
EndSegment ==
    /\ phase = "section" /\ ~MoreSections
    /\ seg' = [seg EXCEPT ![cur].filesz = fsz,
                          ![cur].memsz = IF @ < msz THEN msz ELSE @,
                          ![cur].offset = start, ![cur].offsetSet = TRUE]
    /\ phase' = "segment"
    /\ UNCHANGED <<sec, pos, generated, worklist, ordered, cur, j, start, fsz, msz, table,
                   home, before, below, saves, edits>>

LastSegment ==
    /\ phase = "segment" /\ worklist = <<>>
    /\ phase' = "loose" /\ j' = 0
    /\ UNCHANGED <<sec, seg, pos, generated, worklist, ordered, cur, start, fsz, msz, table,
                   home, before, below, saves, edits>>

-----------------------------------------------------------------------------
is_section_without_segment(s) ==
    \A g \in Segments : \A i \in DOMAIN seg[g].list : seg[g].list[i] # s

LooseLeft == {s \in Sections : is_section_without_segment(s) /\ s >= j}

\* layout_sections_without_segments: the next of them, by index.
LayLoose ==
    /\ phase = "loose" /\ LooseLeft # {}
    /\ LET s == CHOOSE x \in LooseLeft : \A y \in LooseLeft : x <= y
           at == pos + PadTo(pos, sec[s].align)
       IN
       /\ at + Room(s) <= MaxPos
       /\ sec' = [sec EXCEPT ![s].offset = at]
       /\ pos' = at + Room(s)
       /\ generated' = generated \cup {s}
       /\ j' = s + 1
    /\ UNCHANGED <<seg, phase, worklist, ordered, cur, start, fsz, msz, table, home, before,
                   below, saves, edits>>

\* layout_section_table; then the bytes are written and save() is through.
LayTable ==
    /\ phase = "loose" /\ LooseLeft = {}
    /\ table' = pos + (16 - (pos % 16))
    /\ pos' = table'
    /\ phase' = "idle"
    /\ before' = Append(before, [s \in Sections |-> sec[s].offset])
    /\ UNCHANGED <<sec, seg, generated, worklist, ordered, cur, j, start, fsz, msz, home,
                   below, saves, edits>>

\* The caller sees the failure; the object is as the save left it.
Failed ==
    /\ phase = "failed"
    /\ phase' = "idle" /\ before' = <<>> /\ generated' = {}
    /\ UNCHANGED <<sec, seg, pos, worklist, ordered, cur, j, start, fsz, msz, table, home,
                   below, saves, edits>>

InSave == ZerosFirst \/ ZerosDone \/ Order \/ StartSegment \/ LaySection \/ EndSegment
          \/ LastSegment \/ LayLoose \/ LayTable \/ Failed
Step == Save \/ InSave
Next == Step \/ (\E s \in Sections : AppendData(s))
             \/ (\E g \in Segments, s \in Sections : AddSection(g, s))

\* save() is one call: once begun it goes on.
Spec == Init /\ [][Next]_vars /\ WF_vars(InSave)

-----------------------------------------------------------------------------
Saved == phase = "idle" /\ before # <<>>

\* The records and counters stay what they are, and positions fit the file.
TypeOK ==
    /\ sec \in [Sections -> SectionRecord]
    /\ seg \in [Segments -> SegmentRecord]
    /\ phase \in {"idle", "zeros", "order", "segment", "section", "loose", "failed"}
    /\ pos \in Nat
    /\ phase # "idle" => pos <= MaxPos /\ (~below => HeadersEnd <= pos)
    /\ generated \subseteq Sections /\ start \in 0..(Wrap - 1) /\ table \in Nat
    /\ below \in BOOLEAN

(* Of the sections laid out so far no two share a byte of the file, none    *)
(* lies over the headers or the section table: what validate() calls         *)
(* "explicitly forbidden by ELF specification".                             *)
Apart(s, t) ==
    \/ sec[s].offset + sec[s].size <= sec[t].offset
    \/ sec[t].offset + sec[t].size <= sec[s].offset

Laid == {s \in generated : Stored(s)}

NoOverlap ==
    /\ \A s \in Laid : sec[s].offset >= HeadersEnd
    /\ \A s, t \in Laid : s # t => Apart(s, t)
    /\ Saved => \A s \in Laid : sec[s].offset + sec[s].size <= table

\* The same where no section lies before the address of its segment.
NoOverlapAbove == ~below => NoOverlap

(* After a save every section of a segment lies in the part of the file the *)
(* segment claims ("Determine the segment file and memory sizes").          *)
InTheirSegment ==
    Saved =>
      \A g \in Segments : \A i \in DOMAIN seg[g].list :
        LET s == seg[g].list[i] IN
        Stored(s) => /\ seg[g].offset <= sec[s].offset
                     /\ sec[s].offset + sec[s].size <= seg[g].offset + seg[g].filesz

(* A section that is stored is as far from the start of its segment in the  *)
(* file as it is in memory, also round the end of the address space: the    *)
(* loader that maps the segment finds it at its address ("this is what      *)
(* matters for execution"), however the segments share their sections.      *)
AtTheirAddress ==
    Saved =>
      \A s \in Sections :
        Stored(s) /\ home[s] # 0 =>
          Minus(sec[s].offset, seg[home[s]].offset) = Minus(sec[s].addr, seg[home[s]].vaddr)

(* No segment is laid out before one that holds all its sections and more   *)
(* ("segments which contain a sub sequence of other segments are located at  *)
(* the end").                                                               *)
NestedLater ==
    phase = "segment" =>
      \A a, b \in DOMAIN ordered :
        LET one == {seg[ordered[a]].list[i] : i \in DOMAIN seg[ordered[a]].list}
            two == {seg[ordered[b]].list[i] : i \in DOMAIN seg[ordered[b]].list}
        IN  a < b => ~(one \subseteq two /\ one # two)

(* A save is given up only for a section whose own address is taken: by     *)
(* sections already in the file from the segment's start on.                *)
FailsOnlyIfTaken ==
    phase = "failed" =>
      \E t \in generated \cup {0} :
        LET end == IF t = 0 THEN HeadersEnd ELSE sec[t].offset + Room(t) IN
        start + (sec[Current].addr - seg[cur].vaddr) < end

(* Saving settles: the first save gives sections their addresses, which may *)
(* move what comes behind a section without data once more; from the second *)
(* save on every section stays where it is.                                 *)
Settles == \A i \in 2..(Len(before) - 1) : before[i + 1] = before[i]

(* The segments that wait for each other while they are put in order never  *)
(* wait for ever: the worklist of get_ordered_segments runs empty.          *)
OrderEnds == phase \in {"zeros", "order"} ~> phase \notin {"zeros", "order"}

\* save() comes to its end, with the file written or a section in the way.
SaveEnds == phase # "idle" ~> phase = "idle"

=============================================================================
