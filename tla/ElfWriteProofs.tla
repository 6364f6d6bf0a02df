-------------------------- MODULE ElfWriteProofs ---------------------------
(***************************************************************************)
(* Proofs about ElfLayout for every object: any number of sections and      *)
(* segments, of any sizes, alignments and addresses, edited and saved any   *)
(* number of times; and about ElfSymbols for every table, hash table and    *)
(* number of relocations, within the composition ElfWrite.                  *)
(***************************************************************************)
EXTENDS ElfWrite, FiniteSetTheorems, WellFoundedInduction, SequenceTheorems, TLAPS

-----------------------------------------------------------------------------
(* Arithmetic of unsigned numbers.                                          *)

Word == 0..(Wrap - 1)

LEMMA Products == \A a, b \in Nat : a * b \in Nat
OBVIOUS

LEMMA Remainders == \A a \in Int, b \in Nat \ {0} : a % b \in 0..(b - 1)
OBVIOUS

\* Where the headers are, and that positions fit a word.
LEMMA HeaderFacts ==
    /\ Wrap \in Nat /\ MaxPos \in Nat /\ MaxPos < Wrap /\ 0 \in Word
    /\ HeaderSize \in Nat /\ EntrySize * Cardinality(Segments) \in Nat
    /\ HeadersEnd \in Nat /\ HeadersEnd <= MaxPos
    /\ HeaderSize <= HeadersEnd /\ EntrySize * Cardinality(Segments) <= HeadersEnd
    /\ HeaderSize \in Word /\ EntrySize * Cardinality(Segments) \in Word
<1>1. Cardinality(Segments) \in Nat
  BY LayoutAssumption, FS_CardinalityType
<1>2. EntrySize * Cardinality(Segments) \in Nat
  BY <1>1, Products, LayoutAssumption
<1>3. QED
  BY <1>2, LayoutAssumption, HeadersFit DEF HeadersEnd, Word

\* Differences and sums of words are words.
LEMMA MinusWord ==
    ASSUME NEW a \in Word, NEW b \in Word
    PROVE  Minus(a, b) \in Word /\ (b <= a => Minus(a, b) = a - b)
BY HeaderFacts DEF Minus, Word

LEMMA PlusWord ==
    ASSUME NEW a \in Word, NEW b \in Word
    PROVE  Plus(a, b) \in Word /\ (a + b < Wrap => Plus(a, b) = a + b)
BY HeaderFacts DEF Plus, Word

\* Rounding a position up never leaves the word.
LEMMA PadToFacts ==
    ASSUME NEW n \in Nat, NEW align \in 0..(Wrap - MaxPos)
    PROVE  /\ PadTo(n, align) \in Word
           /\ PadTo(n, align) + MaxPos < Wrap
<1>1. CASE align > 1
  <2>1. align - (n % align) \in Int
    BY <1>1, Remainders, HeaderFacts
  <2>2. (align - (n % align)) % align \in 0..(align - 1)
    BY <1>1, <2>1, Remainders, HeaderFacts
  <2>3. QED
    BY <1>1, <2>2, HeaderFacts DEF PadTo, Word
<1>2. CASE ~(align > 1)
  BY <1>2, HeaderFacts DEF PadTo, Word
<1>3. QED
  BY <1>1, <1>2

\* Every set of numbers has a least one.
LEMMA LeastNumber ==
    ASSUME NEW S \in SUBSET Nat, S # {}
    PROVE  \E m \in S : \A k \in S : m <= k
<1> DEFINE R == OpToRel(<, Nat)
<1>1. IsWellFoundedOn(R, Nat)
  BY NatLessThanWellFounded
<1>2. \A x, y \in Nat : <<y, x>> \in R <=> y < x
  BY DEF OpToRel
<1> HIDE DEF R
<1>3. PICK m \in S : \A k \in S : ~(<<k, m>> \in R)
  BY <1>1, WFMin
<1>4. \A k \in S : ~(k < m)
  BY <1>2, <1>3
<1>5. \A k \in S : m <= k
  BY <1>4
<1>6. QED
  BY <1>5

\* The largest of finitely many numbers.
LEMMA PrefixBound ==
    ASSUME NEW n \in Nat, NEW f, \A i \in 1..n : f[i] \in Nat
    PROVE  \E m \in Nat : \A i \in 1..n : f[i] <= m
<1> DEFINE Bounded(k) == \E m \in Nat : \A i \in 1..k : f[i] <= m
           Bad == {k \in 0..n : ~Bounded(k)}
<1>1. Bounded(0)
  OBVIOUS
<1>2. ASSUME Bad # {}
      PROVE  FALSE
  <2>1. Bad \subseteq Nat
    OBVIOUS
  <2>2. PICK k \in Bad : \A l \in Bad : k <= l
    BY <1>2, <2>1, LeastNumber
  <2>3. k \in 1..n /\ ~Bounded(k)
    BY <1>1, <2>2
  <2>4. k - 1 \in 0..n /\ ~(k <= k - 1)
    BY <2>3
  <2>4a. k - 1 \notin Bad
    BY <2>2, <2>4
  <2>4b. Bounded(k - 1)
    BY <2>4, <2>4a
  <2>5. PICK m \in Nat : \A i \in 1..(k - 1) : f[i] <= m
    BY <2>4b
  <2> DEFINE b == IF f[k] <= m THEN m ELSE f[k]
  <2>6. f[k] \in Nat /\ b \in Nat
    BY <2>3
  <2>7. \A i \in 1..k : f[i] <= b
    <3> TAKE i \in 1..k
    <3>1. CASE i = k
      BY <2>3, <2>6, <3>1
    <3>2. CASE i # k
      <4>1. i \in 1..(k - 1) /\ i \in 1..n
        BY <2>3, <3>2
      <4>2. f[i] <= m /\ f[i] \in Nat
        BY <2>5, <4>1
      <4>3. QED
        BY <2>5, <2>6, <4>2
    <3>3. QED
      BY <3>1, <3>2
  <2>8. QED
    BY <2>3, <2>6, <2>7
<1>3. n \in 0..n
  OBVIOUS
<1>3a. Bounded(n)
  <2> HIDE DEF Bounded
  <2>1. QED
    BY <1>2, <1>3
<1>4. QED
  BY <1>3a

LEMMA LargestExists ==
    ASSUME NEW S \in SUBSET Nat, S # {}, NEW m \in Nat, \A x \in S : x <= m
    PROVE  \E x \in S : \A y \in S : y <= x
<1> DEFINE D == {m - x : x \in S}
<1>1. D \subseteq Nat /\ D # {}
  <2>1. \A x \in S : m - x \in Nat
    OBVIOUS
  <2>2. QED
    BY <2>1
<1>2. PICK d \in D : \A e \in D : d <= e
  BY <1>1, LeastNumber
<1>3. PICK x \in S : d = m - x
  BY <1>2
<1>4. \A y \in S : m - x <= m - y
  BY <1>2, <1>3
<1>5. \A y \in S : y <= x
  BY <1>3, <1>4
<1>6. QED
  BY <1>5

-----------------------------------------------------------------------------
(* The inductive invariant.                                                 *)

\* The locals of save() while it runs.
Locals ==
    /\ worklist \in Seq(Segments) /\ ordered \in Seq(Segments)
    /\ phase = "zeros" => cur \in Nat /\ j \in Nat /\ 1 <= j /\ j <= cur
    /\ phase = "section" => cur \in Segments /\ j \in Nat /\ 1 <= j
    /\ fsz \in Word /\ msz \in Word

\* What has been laid out ends here.
End == IF phase = "idle" THEN table ELSE pos

LaidBelowEnd ==
    ~below =>
      /\ \A s \in Laid : HeadersEnd <= sec[s].offset /\ sec[s].offset + sec[s].size <= End
      /\ \A s, t \in Laid : s # t => Apart(s, t)

TInv == TypeOK /\ Locals
IInv == TInv /\ LaidBelowEnd

-----------------------------------------------------------------------------
(* The records.                                                             *)

LEMMA SectionFacts ==
    ASSUME TypeOK, NEW s \in Sections
    PROVE  /\ sec[s] \in SectionRecord
           /\ sec[s].size \in Word /\ sec[s].addr \in Word /\ sec[s].offset \in Word
           /\ sec[s].align \in 0..(Wrap - MaxPos) /\ sec[s].align \in Nat
           /\ sec[s].addrSet \in BOOLEAN
           /\ Room(s) \in Word
<1>1. sec[s] \in SectionRecord
  BY DEF TypeOK
<1>2. QED
  BY <1>1, HeaderFacts DEF SectionRecord, Word, Room

LEMMA SegmentFacts ==
    ASSUME TypeOK, NEW g \in Segments
    PROVE  /\ seg[g] \in SegmentRecord
           /\ seg[g].align \in Nat /\ seg[g].vaddr \in Word /\ seg[g].memsz \in Word
           /\ seg[g].offset \in Word
           /\ seg[g].list \in Seq(Sections) /\ Len(seg[g].list) \in Nat
           /\ \A i \in 1..Len(seg[g].list) : seg[g].list[i] \in Sections
<1>1. seg[g] \in SegmentRecord
  BY DEF TypeOK
<1>2. /\ seg[g].align \in Nat /\ seg[g].vaddr \in Word /\ seg[g].memsz \in Word
      /\ seg[g].offset \in Word /\ seg[g].list \in Seq(Sections)
  BY <1>1 DEF SegmentRecord, Word
<1>3. QED
  BY <1>1, <1>2, ElementOfSeq, LenProperties

\* calc_segment_alignment finds a largest alignment.
LEMMA AlignedType ==
    ASSUME TypeOK, NEW g \in Segments
    PROVE  Aligned(g) \in Nat
<1> DEFINE n == Len(seg[g].list)
           f == [i \in 1..n |-> sec[seg[g].list[i]].align]
           aligns == {sec[seg[g].list[i]].align : i \in DOMAIN seg[g].list} \cup {seg[g].align}
<1>1. n \in Nat /\ DOMAIN seg[g].list = 1..n /\ seg[g].align \in Nat
  BY SegmentFacts
<1>2. \A i \in 1..n : f[i] \in Nat /\ f[i] = sec[seg[g].list[i]].align
  BY SegmentFacts, SectionFacts
<1>3. PICK m \in Nat : \A i \in 1..n : f[i] <= m
  <2> HIDE DEF f, n
  <2>1. QED
    BY <1>1, <1>2, PrefixBound
<1>4. aligns \subseteq Nat /\ aligns # {}
  BY <1>1, <1>2
<1> DEFINE b == IF m <= seg[g].align THEN seg[g].align ELSE m
<1>5. b \in Nat /\ \A x \in aligns : x <= b
  <2>1. b \in Nat /\ m <= b /\ seg[g].align <= b
    BY <1>1
  <2>2. \A i \in 1..n : sec[seg[g].list[i]].align \in Nat /\ sec[seg[g].list[i]].align <= m
    BY <1>2, <1>3
  <2>3. ASSUME NEW x \in aligns
        PROVE  x <= b
    <3>1. CASE x = seg[g].align
      BY <2>1, <3>1
    <3>2. CASE \E i \in 1..n : x = sec[seg[g].list[i]].align
      <4>1. x \in Nat /\ x <= m
        BY <2>2, <3>2
      <4> HIDE DEF b
      <4>2. QED
        BY <2>1, <4>1
    <3>3. QED
      BY <1>1, <3>1, <3>2
  <2>4. QED
    BY <2>1, <2>3
<1>6. \E x \in aligns : \A y \in aligns : y <= x
  <2> HIDE DEF aligns, b
  <2>1. QED
    BY <1>4, <1>5, LargestExists
<1>7. Aligned(g) = CHOOSE a \in aligns : \A y \in aligns : y <= a
  BY DEF Aligned
<1>8. Aligned(g) \in aligns
  <2> HIDE DEF aligns
  <2>1. QED
    BY <1>6, <1>7
<1>9. QED
  BY <1>4, <1>8

\* How far a segment is moved is never negative.
LEMMA ToItsAddressType ==
    ASSUME TypeOK, NEW g \in Segments, phase # "idle"
    PROVE  ToItsAddress(g) \in Nat
<1> DEFINE align == IF seg[g].align > 0 THEN seg[g].align ELSE 1
<1>1. align \in Nat \ {0}
  BY SegmentFacts
<1>2. seg[g].vaddr % align \in Int /\ pos % align \in Int
  <2>1. seg[g].vaddr \in Int /\ pos \in Int
    BY SegmentFacts, HeaderFacts DEF TypeOK, Word
  <2>2. QED
    BY <1>1, <2>1, Remainders
<1>3. Plus(seg[g].align, Minus(seg[g].vaddr % align, pos % align)) \in Int
  BY <1>2, SegmentFacts, HeaderFacts DEF Plus, Minus
<1>4. Plus(seg[g].align, Minus(seg[g].vaddr % align, pos % align)) % align \in 0..(align - 1)
  BY <1>1, <1>3, Remainders
<1>5. QED
  BY <1>1, <1>4 DEF ToItsAddress

\* The bytes in front of a section are a word.
LEMMA GapWord ==
    ASSUME TypeOK, Locals, phase = "section", NEW s \in Sections
    PROVE  /\ Gap(s) \in Word /\ Wanted(s) \in Word /\ Reached \in Word
<1>1. /\ pos \in Word /\ pos \in Nat /\ start \in Word /\ fsz \in Word
  BY HeaderFacts DEF TypeOK, Locals, Word
<1>2. Wanted(s) \in Word /\ Reached \in Word
  BY <1>1, MinusWord, SectionFacts, SegmentFacts DEF Wanted, Reached, Locals
<1>3. PadTo(pos, sec[s].align) \in Word
  BY <1>1, SectionFacts, PadToFacts
<1>4. Minus(Minus(sec[s].offset, start), fsz) \in Word
  BY <1>1, MinusWord, SectionFacts
<1>5. Minus(Wanted(s), Reached) \in Word
  BY <1>2, MinusWord
<1>6. Gap(s) \in Word
  <2>1. \/ Pinned(s)
        \/ Fresh(s) /\ ~sec[s].addrSet
        \/ ~Fresh(s)
        \/ Fresh(s) /\ sec[s].addrSet /\ ~Stored(s)
    BY DEF Pinned
  <2>2. QED
    BY <1>3, <1>4, <1>5, <2>1, HeaderFacts DEF Gap, Pinned
<1>7. QED
  BY <1>2, <1>6

(* A section that is neither behind its place nor before its segment goes   *)
(* where the file ends or farther on, and no sum overflows.                 *)
LEMMA GapForward ==
    ASSUME TypeOK, Locals, phase = "section", NEW s \in Sections,
           Fresh(s), ~Aborts(s), ~Before(s)
    PROVE  Plus(pos, Gap(s)) = pos + Gap(s)
<1>1. pos \in Word /\ pos <= MaxPos
  BY HeaderFacts DEF TypeOK, Word
<1>2. Gap(s) \in Word /\ Wanted(s) \in Word /\ Reached \in Word
  BY GapWord
<1>3. pos + Gap(s) < Wrap
  <2>1. CASE Pinned(s)
    <3>1. Gap(s) = Minus(Wanted(s), Reached)
      BY <2>1 DEF Gap, Pinned
    <3>2. Reached <= Wanted(s)
      BY <1>2, <2>1 DEF Aborts, Word
    <3>3. Gap(s) = Wanted(s) - Reached
      BY <1>2, <3>1, <3>2, MinusWord
    <3>4. ~(Wanted(s) + MaxPos >= Wrap)
      BY <2>1 DEF Before
    <3>5. QED
      BY <1>1, <1>2, <3>3, <3>4, HeaderFacts DEF Word
  <2>2. CASE ~sec[s].addrSet
    <3>1. Gap(s) = PadTo(pos, sec[s].align)
      BY <2>2 DEF Gap, Pinned
    <3>2. Gap(s) + MaxPos < Wrap
      BY <1>1, <3>1, PadToFacts, SectionFacts DEF TypeOK
    <3>3. QED
      BY <1>1, <1>2, <3>2, HeaderFacts DEF Word
  <2>3. CASE sec[s].addrSet /\ ~Stored(s)
    <3>1. Gap(s) = 0
      BY <2>3 DEF Gap, Pinned
    <3>2. QED
      BY <1>1, <3>1, HeaderFacts DEF Word
  <2>4. QED
    BY <2>1, <2>2, <2>3 DEF Pinned
<1>4. QED
  BY <1>1, <1>2, <1>3, PlusWord

-----------------------------------------------------------------------------
(* Every step keeps the types.                                              *)

LEMMA TypeInit == Init => TInv
<1> SUFFICES ASSUME Init PROVE TInv
  OBVIOUS
<1>1. sec \in [Sections -> SectionRecord] /\ seg \in [Segments -> SegmentRecord]
  BY ObjectsAssumption DEF Init
<1>2. 0 \in Word
  BY HeaderFacts
<1>3. TypeOK
  BY <1>1, <1>2 DEF Init, TypeOK, Word
<1>4. Locals
  <2>1. <<>> \in Seq(Segments)
    OBVIOUS
  <2>2. QED
    BY <1>2, <2>1 DEF Init, Locals
<1>5. QED
  BY <1>3, <1>4 DEF TInv

LEMMA TypeEdit ==
    ASSUME TInv, NEW s \in Sections,
           AppendData(s) \/ \E g \in Segments : AddSection(g, s)
    PROVE  TInv'
<1>1. Edit
  BY DEF AppendData, AddSection
<1>2. generated' \subseteq Sections /\ phase = "idle" /\ phase' = "idle"
  BY <1>1 DEF Edit
<1>3. Locals'
  BY <1>1, <1>2 DEF TInv, Locals, Edit
<1>4. sec' \in [Sections -> SectionRecord] /\ seg' \in [Segments -> SegmentRecord]
  <2>1. CASE AppendData(s)
    <3>1. sec[s] \in SectionRecord /\ sec[s].size \in Word /\ sec[s].size < MaxPos
      BY <2>1, SectionFacts DEF TInv, AppendData
    <3>2. sec[s].size + 1 \in 0..(Wrap - 1)
      BY <3>1, HeaderFacts DEF Word
    <3>3. [sec[s] EXCEPT !.size = sec[s].size + 1] \in SectionRecord
      BY <3>1, <3>2 DEF SectionRecord
    <3>4. sec' = [sec EXCEPT ![s] = [sec[s] EXCEPT !.size = sec[s].size + 1]]
      BY <2>1 DEF AppendData
    <3>5. QED
      BY <2>1, <3>3, <3>4 DEF TInv, TypeOK, AppendData
  <2>2. CASE \E g \in Segments : AddSection(g, s)
    <3>1. PICK g \in Segments : AddSection(g, s)
      BY <2>2
    <3> DEFINE r == [seg[g] EXCEPT !.list = Append(seg[g].list, s),
                                   !.align = IF sec[s].align > seg[g].align
                                               THEN sec[s].align ELSE seg[g].align]
    <3>2. seg[g] \in SegmentRecord /\ seg[g].align \in Nat /\ sec[s].align \in Nat
      BY SectionFacts, SegmentFacts DEF TInv
    <3>3. Append(seg[g].list, s) \in Seq(Sections)
      BY SegmentFacts, AppendProperties DEF TInv
    <3>4. r \in SegmentRecord
      BY <3>2, <3>3 DEF SegmentRecord
    <3>5. seg' = [seg EXCEPT ![g] = r] /\ UNCHANGED sec
      BY <3>1 DEF AddSection
    <3>6. QED
      BY <3>4, <3>5 DEF TInv, TypeOK
  <2>3. QED
    BY <2>1, <2>2
<1>5. QED
  BY <1>1, <1>2, <1>3, <1>4 DEF TInv, TypeOK, Edit

LEMMA TypeSave ==
    ASSUME TInv, Save PROVE TInv'
<1>1. seg' \in [Segments -> SegmentRecord]
  <2>1. ASSUME NEW g \in Segments
        PROVE  [seg[g] EXCEPT !.align = Aligned(g)] \in SegmentRecord
    <3>1. seg[g] \in SegmentRecord /\ Aligned(g) \in Nat
      BY SegmentFacts, AlignedType DEF TInv
    <3>2. QED
      BY <3>1 DEF SegmentRecord
  <2>2. QED
    BY <2>1 DEF Save
<1>2. worklist' \in Seq(Segments)
  <2>1. Cardinality(Segments) \in Nat /\ Segments = 1..Cardinality(Segments)
    BY LayoutAssumption, FS_CardinalityType
  <2>2. \A i \in 1..Cardinality(Segments) : i \in Segments
    BY <2>1
  <2>3. worklist' = [i \in 1..Cardinality(Segments) |-> i]
    BY DEF Save
  <2>4. QED
    BY ONLY <2>1, <2>2, <2>3
<1>3. Locals'
  <2>1. <<>> \in Seq(Segments)
    OBVIOUS
  <2>2. QED
    BY <1>2, <2>1 DEF Save, TInv, Locals
<1>4. TypeOK'
  <2>1. pos' \in Nat /\ pos' <= MaxPos /\ (HeadersEnd <= pos)'
    BY HeaderFacts DEF Save, FirstPos, HeadersEnd
  <2>2. generated' \subseteq Sections /\ start' \in 0..(Wrap - 1) /\ table' \in Nat
    BY DEF Save, TInv, TypeOK
  <2>3. QED
    BY <1>1, <2>1, <2>2 DEF Save, TInv, TypeOK
<1>5. QED
  BY <1>3, <1>4 DEF TInv

LEMMA TypeZeros ==
    ASSUME TInv, ZerosFirst \/ ZerosDone PROVE TInv'
<1>1. CASE ZerosDone
  BY <1>1 DEF ZerosDone, TInv, TypeOK, Locals
<1>2. CASE ZerosFirst
  <2> DEFINE to == IF ZeroOffset(worklist[j]) THEN j + 1 ELSE j
             swaps == cur # j /\ seg[worklist[cur]].offsetSet /\ ZeroOffset(worklist[cur])
  <2>1. /\ worklist \in Seq(Segments) /\ cur \in Nat /\ j \in Nat /\ 1 <= j /\ j <= cur
        /\ cur <= Len(worklist) /\ cur' = cur + 1 /\ phase = "zeros" /\ phase' = "zeros"
    BY <1>2 DEF ZerosFirst, TInv, Locals
  <2>2. CASE swaps
    <3>1. /\ worklist' = [worklist EXCEPT ![cur] = worklist[to], ![to] = worklist[cur]]
          /\ j' = to + 1
      BY <1>2, <2>2 DEF ZerosFirst
    <3>2. to \in Nat /\ 1 <= to /\ to <= cur
      BY <2>1, <2>2
    <3>3. Len(worklist) \in Nat /\ to \in 1..Len(worklist) /\ cur \in 1..Len(worklist)
      BY <2>1, <3>2, LenProperties
    <3> HIDE DEF to, swaps
    <3>4. worklist[to] \in Segments /\ worklist[cur] \in Segments
      BY <2>1, <3>3, ElementOfSeq
    <3>5. worklist' \in Seq(Segments)
      <4>1. [worklist EXCEPT ![cur] = worklist[to]] \in Seq(Segments)
        BY <2>1, <3>3, <3>4, ExceptSeq
      <4>2. Len([worklist EXCEPT ![cur] = worklist[to]]) = Len(worklist)
        BY <2>1, <3>3, <3>4, ExceptSeq
      <4>3. [[worklist EXCEPT ![cur] = worklist[to]] EXCEPT ![to] = worklist[cur]]
              \in Seq(Segments)
        BY <3>3, <3>4, <4>1, <4>2, ExceptSeq
      <4>4. QED
        BY <3>1, <4>3
    <3>6. QED
      BY <1>2, <2>1, <3>1, <3>2, <3>5 DEF ZerosFirst, TInv, TypeOK, Locals
  <2>3. CASE ~swaps
    <3>1. UNCHANGED <<worklist, j>>
      BY <1>2, <2>3 DEF ZerosFirst
    <3>2. QED
      BY <1>2, <2>1, <3>1 DEF ZerosFirst, TInv, TypeOK, Locals
  <2>4. QED
    BY <2>2, <2>3
<1>3. QED
  BY <1>1, <1>2

\* A worklist taken from gives a segment and a worklist.
LEMMA HeadOfWork ==
    ASSUME Locals, worklist # <<>>
    PROVE  Head(worklist) \in Segments /\ Tail(worklist) \in Seq(Segments)
BY HeadTailProperties DEF Locals

LEMMA TypeOrder ==
    ASSUME TInv, Order PROVE TInv'
<1>1. worklist' \in Seq(Segments) /\ ordered' \in Seq(Segments)
  <2>1. CASE worklist = <<>>
    <3>1. <<>> \in Seq(Segments)
      OBVIOUS
    <3>2. QED
      BY <2>1, <3>1 DEF Order, TInv, Locals
  <2>2. CASE worklist # <<>>
    <3>1. Head(worklist) \in Segments /\ Tail(worklist) \in Seq(Segments)
      BY <2>2, HeadOfWork DEF TInv
    <3>2. OrderOne(Head(worklist), Tail(worklist)) /\ ordered \in Seq(Segments)
      BY <2>2 DEF Order, TInv, Locals
    <3>3. /\ Append(Tail(worklist), Head(worklist)) \in Seq(Segments)
          /\ Append(ordered, Head(worklist)) \in Seq(Segments)
      BY <3>1, <3>2, AppendProperties
    <3>4. QED
      BY <3>1, <3>2, <3>3 DEF OrderOne
  <2>3. QED
    BY <2>1, <2>2
<1>2. phase = "order" /\ phase' \in {"order", "segment"}
  BY DEF Order
<1>3. Locals'
  BY <1>1, <1>2 DEF TInv, Locals, Order
<1>4. TypeOK'
  BY <1>2 DEF TInv, TypeOK, Order
<1>5. QED
  BY <1>3, <1>4 DEF TInv

LEMMA TypeStart ==
    ASSUME TInv, StartSegment PROVE TInv'
<1> DEFINE g == Head(worklist)
<1>1. /\ g \in Segments /\ Tail(worklist) \in Seq(Segments)
      /\ phase = "segment" /\ phase' = "section" /\ cur' = g /\ j' = 1
      /\ worklist' = Tail(worklist)
      /\ UNCHANGED <<sec, seg, generated, ordered, table, below>>
  BY HeadOfWork DEF StartSegment, TInv
<1> HIDE DEF g
<1>2. pos \in Nat /\ pos \in Word /\ pos <= MaxPos /\ (~below => HeadersEnd <= pos)
  BY <1>1, HeaderFacts DEF TInv, TypeOK, Word
<1>3. /\ pos' \in Nat /\ pos' <= MaxPos /\ (~below => HeadersEnd <= pos')
      /\ start' \in Word /\ fsz' \in Word /\ msz' \in Word
  <2>1. CASE UNCHANGED pos /\ start' = HeaderSize
             /\ fsz' = EntrySize * Cardinality(Segments) /\ msz' = fsz'
    BY <1>2, <2>1, HeaderFacts
  <2>2. CASE UNCHANGED pos /\ start' = 0 /\ fsz' \in {pos, 0} /\ msz' = fsz'
    BY <1>2, <2>2, HeaderFacts
  <2>3. CASE fsz' = 0 /\ msz' = 0 /\ pos' = pos + ToItsAddress(g) /\ pos' <= MaxPos
             /\ start' = pos'
    <3>1. ToItsAddress(g) \in Nat
      BY <1>1, ToItsAddressType DEF TInv
    <3>2. QED
      BY <1>2, <2>3, <3>1, HeaderFacts DEF Word
  <2>4. CASE fsz' = 0 /\ msz' = 0 /\ UNCHANGED pos /\ start' = pos
    BY <1>2, <2>4, HeaderFacts
  <2>5. CASE fsz' = 0 /\ msz' = 0 /\ UNCHANGED pos /\ seg[g].list # <<>>
             /\ start' = FirstOffset(g)
    <3>1. seg[g].list[1] \in Sections
      <4>1. seg[g].list \in Seq(Sections) /\ Len(seg[g].list) \in Nat
        BY <1>1, SegmentFacts DEF TInv
      <4>2. Len(seg[g].list) # 0
        BY <2>5, <4>1, EmptySeq
      <4>3. 1 \in 1..Len(seg[g].list)
        BY <4>1, <4>2
      <4>4. QED
        BY <4>1, <4>3, ElementOfSeq
    <3>2. start' \in Word
      BY <2>5, <3>1, SectionFacts DEF FirstOffset, TInv
    <3>3. QED
      BY <1>2, <2>5, <3>2, HeaderFacts
  <2>6. QED
    BY <2>1, <2>2, <2>3, <2>4, <2>5 DEF StartSegment, g
<1>4. Locals'
  BY <1>1, <1>3 DEF TInv, Locals
<1>5. TypeOK'
  BY <1>1, <1>3 DEF TInv, TypeOK, Word
<1>6. QED
  BY <1>4, <1>5 DEF TInv

LEMMA CurrentType ==
    ASSUME TInv, phase = "section", MoreSections PROVE Current \in Sections
<1>1. cur \in Segments /\ j \in Nat /\ 1 <= j
  BY DEF TInv, Locals
<1>2. seg[cur].list \in Seq(Sections) /\ j \in 1..Len(seg[cur].list)
  BY <1>1, SegmentFacts DEF TInv, MoreSections
<1>3. QED
  BY <1>2, ElementOfSeq DEF Current

(* A section that is laid out goes to a place of the file, and the end of   *)
(* the file moves behind it: forward, unless it is before its segment.      *)
LEMMA LaidAt ==
    ASSUME TInv, LaySection, NEW s, s = Current, Fresh(s), sec[s].type # "null", ~Aborts(s)
    PROVE  \E at \in 0..MaxPos :
              /\ sec' = Placed(s, at) /\ pos' = at + Room(s) /\ pos' <= MaxPos
              /\ generated' = generated \cup {s} /\ phase' = "section"
              /\ below' = (below \/ Before(s))
              /\ ~below' => pos <= at
<1>1. s \in Sections /\ phase = "section"
  BY CurrentType DEF LaySection
<1>2. pos \in Word /\ Gap(s) \in Word /\ Room(s) \in Word
  BY <1>1, GapWord, SectionFacts, HeaderFacts DEF TInv, TypeOK, Word
<1> DEFINE at == Plus(pos, Gap(s))
<1>3. /\ at + Room(s) <= MaxPos /\ sec' = Placed(s, at) /\ pos' = at + Room(s)
      /\ generated' = generated \cup {s} /\ phase' = "section"
      /\ below' = (below \/ Before(s))
  BY <1>1 DEF LaySection
<1>4. at \in 0..MaxPos
  <2>1. at \in Word
    BY <1>2, PlusWord
  <2> HIDE DEF at
  <2>2. QED
    BY <1>2, <1>3, <2>1, HeaderFacts DEF Word
<1>5. ~below' => pos <= at
  <2>1. ASSUME ~below' PROVE at = pos + Gap(s)
    BY <1>1, <1>3, <2>1, GapForward DEF TInv
  <2> HIDE DEF at
  <2>2. QED
    BY <1>2, <2>1 DEF Word
<1>6. QED
  <2> HIDE DEF at
  <2>1. QED
    BY <1>3, <1>4, <1>5

LEMMA PlacedType ==
    ASSUME TInv, phase = "section", NEW s \in Sections, NEW at \in 0..MaxPos
    PROVE  /\ Placed(s, at) \in [Sections -> SectionRecord]
           /\ Placed(s, at)[s].offset = at /\ Placed(s, at)[s].size = sec[s].size
           /\ Placed(s, at)[s].type = sec[s].type
           /\ \A t \in Sections \ {s} : Placed(s, at)[t] = sec[t]
<1> DEFINE a == IF sec[s].addrSet THEN sec[s].addr ELSE Minus(Plus(seg[cur].vaddr, at), start)
           r == [sec[s] EXCEPT !.addr = a, !.addrSet = TRUE, !.offset = at]
<1>1. sec \in [Sections -> SectionRecord] /\ sec[s] \in SectionRecord
  BY DEF TInv, TypeOK
<1>2. at \in Word
  BY HeaderFacts DEF Word
<1>3. a \in Word
  <2>1. seg[cur].vaddr \in Word /\ start \in Word
    BY SegmentFacts DEF TInv, TypeOK, Locals, Word
  <2>2. QED
    BY <1>2, <2>1, SectionFacts, PlusWord, MinusWord DEF TInv
<1>4. Placed(s, at) = [sec EXCEPT ![s] = r]
  BY DEF Placed
<1>5. r \in SectionRecord /\ r.offset = at /\ r.size = sec[s].size /\ r.type = sec[s].type
  <2> HIDE DEF a
  <2>1. QED
    BY <1>1, <1>2, <1>3 DEF SectionRecord, Word
<1> HIDE DEF r
<1>6. QED
  BY <1>1, <1>4, <1>5

LEMMA TypeLay ==
    ASSUME TInv, LaySection PROVE TInv'
<1> DEFINE s == Current
<1>1. /\ phase = "section" /\ cur \in Segments /\ j \in Nat /\ 1 <= j
      /\ s \in Sections
      /\ UNCHANGED <<seg, worklist, ordered, cur, start, table>>
  BY CurrentType DEF LaySection, TInv, Locals
<1>2. j' \in Nat /\ 1 <= j' /\ fsz' \in Word /\ msz' \in Word
  <2>1. Plus(sec[s].size, Gap(s)) \in Word
    BY <1>1, GapWord, SectionFacts, PlusWord DEF TInv
  <2>2. /\ Plus(fsz, Plus(sec[s].size, Gap(s))) \in Word
        /\ Plus(msz, Plus(sec[s].size, Gap(s))) \in Word
    BY <2>1, PlusWord DEF TInv, Locals
  <2>3. j' \in {j, j + 1}
    BY DEF LaySection
  <2>4. /\ fsz' = fsz \/ fsz' = Plus(fsz, Plus(sec[s].size, Gap(s)))
        /\ msz' = msz \/ msz' = Plus(msz, Plus(sec[s].size, Gap(s)))
    BY DEF LaySection
  <2>5. QED
    BY <1>1, <2>2, <2>3, <2>4 DEF TInv, Locals
<1>3. /\ sec' \in [Sections -> SectionRecord] /\ phase' \in {"section", "failed"}
      /\ pos' \in Nat /\ pos' <= MaxPos /\ (~below' => HeadersEnd <= pos')
      /\ generated' \subseteq Sections /\ below' \in BOOLEAN
  <2>1. CASE UNCHANGED <<sec, pos>> /\ (~below' => ~below) /\ generated' \subseteq Sections
             /\ phase' \in {"section", "failed"} /\ below' \in BOOLEAN
    BY <1>1, <2>1 DEF TInv, TypeOK
  <2>2. CASE Fresh(s) /\ sec[s].type # "null" /\ ~Aborts(s)
    <3> HIDE DEF s
    <3>0. s = Current
      BY DEF s
    <3>1. PICK at \in 0..MaxPos :
              /\ sec' = Placed(s, at) /\ pos' = at + Room(s) /\ pos' <= MaxPos
              /\ generated' = generated \cup {s} /\ phase' = "section"
              /\ below' = (below \/ Before(s))
              /\ ~below' => pos <= at
      BY <2>2, <3>0, LaidAt
    <3>2. Room(s) \in Nat
      BY <1>1, SectionFacts DEF TInv, Word
    <3>3. pos \in Nat /\ (~below => HeadersEnd <= pos)
      BY <1>1 DEF TInv, TypeOK
    <3>4. below' \in BOOLEAN /\ (~below' => ~below)
      BY <3>1 DEF TInv, TypeOK, Before, Pinned
    <3>5. pos' \in Nat /\ (~below' => HeadersEnd <= pos')
      BY <3>1, <3>2, <3>3, <3>4, HeaderFacts
    <3>6. QED
      BY <1>1, <3>1, <3>4, <3>5, PlacedType DEF TInv, TypeOK
  <2>3. QED
    <3>1. below' \in BOOLEAN /\ (~below' => ~below)
      <4>1. below' = below \/ below' = (below \/ Before(s))
        BY DEF LaySection
      <4>2. (below \/ Before(s)) \in BOOLEAN /\ below \in BOOLEAN
        BY DEF TInv, TypeOK
      <4>3. QED
        BY <4>1, <4>2
    <3>2. \/ sec[s].type = "null" /\ UNCHANGED <<sec, phase, pos, below>>
             /\ generated' = generated \cup {s}
          \/ phase' = "failed" /\ UNCHANGED <<sec, generated, pos, below>>
          \/ sec[s].type # "null" /\ ~Aborts(s) /\ Fresh(s)
          \/ ~Fresh(s) /\ UNCHANGED <<sec, pos, generated, phase>>
      BY DEF LaySection
    <3>3. generated \subseteq Sections
      BY DEF TInv, TypeOK
    <3> HIDE DEF s
    <3>4. QED
      BY <1>1, <2>1, <2>2, <3>1, <3>2, <3>3
<1>4. Locals'
  BY <1>1, <1>2, <1>3 DEF TInv, Locals
<1>5. TypeOK'
  BY <1>1, <1>3 DEF TInv, TypeOK
<1>6. QED
  BY <1>4, <1>5 DEF TInv

LEMMA TypeSegments ==
    ASSUME TInv, EndSegment \/ LastSegment PROVE TInv'
<1>1. CASE LastSegment
  BY <1>1 DEF LastSegment, TInv, TypeOK, Locals
<1>2. CASE EndSegment
  <2> DEFINE m == IF seg[cur].memsz < msz THEN msz ELSE seg[cur].memsz
             r == [seg[cur] EXCEPT !.filesz = fsz, !.memsz = m, !.offset = start,
                                   !.offsetSet = TRUE]
  <2>1. cur \in Segments /\ fsz \in Word /\ msz \in Word /\ start \in Word
    BY <1>2 DEF EndSegment, TInv, TypeOK, Locals, Word
  <2>2. seg[cur] \in SegmentRecord /\ m \in Word
    BY <2>1, SegmentFacts DEF TInv
  <2>3. r \in SegmentRecord
    <3> HIDE DEF m
    <3>1. QED
      BY <2>1, <2>2 DEF SegmentRecord, Word
  <2>4. seg' = [seg EXCEPT ![cur] = r]
    BY <1>2 DEF EndSegment
  <2> HIDE DEF r
  <2>5. seg' \in [Segments -> SegmentRecord]
    BY <2>1, <2>3, <2>4 DEF TInv, TypeOK
  <2>6. QED
    BY <1>2, <2>5 DEF EndSegment, TInv, TypeOK, Locals
<1>3. QED
  BY <1>1, <1>2

\* The next of the loose sections goes behind everything else.
LEMMA LooseAt ==
    ASSUME TInv, LayLoose
    PROVE  \E s \in Sections, at \in 0..MaxPos :
              /\ pos <= at
              /\ sec' = [sec EXCEPT ![s].offset = at] /\ pos' = at + Room(s)
              /\ pos' <= MaxPos
              /\ generated' = generated \cup {s}
              /\ j' = s + 1 /\ s \in Nat
<1> DEFINE s == CHOOSE x \in LooseLeft : \A y \in LooseLeft : x <= y
           at == pos + PadTo(pos, sec[s].align)
<1>1. s \in LooseLeft
  <2>1. LooseLeft \subseteq Nat /\ LooseLeft # {}
    BY LayoutAssumption DEF LooseLeft, LayLoose
  <2>2. \E x \in LooseLeft : \A y \in LooseLeft : x <= y
    BY <2>1, LeastNumber
  <2>3. QED
    BY <2>2
<1>2. /\ at + Room(s) <= MaxPos /\ sec' = [sec EXCEPT ![s].offset = at]
      /\ pos' = at + Room(s) /\ generated' = generated \cup {s} /\ j' = s + 1
  BY DEF LayLoose
<1> HIDE DEF s
<1>3. s \in Sections /\ s \in Nat
  BY <1>1, LayoutAssumption DEF LooseLeft
<1>4. pos \in Nat
  BY DEF TInv, TypeOK
<1>5. PadTo(pos, sec[s].align) \in Word /\ Room(s) \in Word
  BY <1>3, <1>4, PadToFacts, SectionFacts DEF TInv
<1>6. at \in 0..MaxPos /\ pos <= at
  BY <1>2, <1>4, <1>5, HeaderFacts DEF Word
<1> HIDE DEF at
<1>7. QED
  BY <1>2, <1>3, <1>6

LEMMA TypeLoose ==
    ASSUME TInv, LayLoose PROVE TInv'
<1>1. PICK s \in Sections, at \in 0..MaxPos :
          /\ pos <= at
          /\ sec' = [sec EXCEPT ![s].offset = at] /\ pos' = at + Room(s)
          /\ pos' <= MaxPos
          /\ generated' = generated \cup {s}
          /\ j' = s + 1 /\ s \in Nat
  BY LooseAt
<1>2. /\ phase = "loose" /\ phase' = "loose"
      /\ UNCHANGED <<seg, worklist, ordered, cur, start, fsz, msz, table, below>>
  BY DEF LayLoose
<1>3. sec' \in [Sections -> SectionRecord]
  <2>1. sec[s] \in SectionRecord /\ at \in Word
    BY SectionFacts, HeaderFacts DEF TInv, Word
  <2>2. [sec[s] EXCEPT !.offset = at] \in SectionRecord
    BY <2>1 DEF SectionRecord, Word
  <2>3. QED
    BY <1>1, <2>2 DEF TInv, TypeOK
<1>4. pos' \in Nat /\ (~below => HeadersEnd <= pos')
  <2>1. Room(s) \in Nat
    BY SectionFacts DEF TInv, Word
  <2>2. pos \in Nat /\ (~below => HeadersEnd <= pos)
    BY <1>2 DEF TInv, TypeOK
  <2>3. QED
    BY <1>1, <2>1, <2>2, HeaderFacts
<1>5. Locals'
  BY <1>1, <1>2 DEF TInv, Locals
<1>6. TypeOK'
  BY <1>1, <1>2, <1>3, <1>4 DEF TInv, TypeOK
<1>7. QED
  BY <1>5, <1>6 DEF TInv

LEMMA TypeEnd ==
    ASSUME TInv, LayTable \/ Failed PROVE TInv'
<1>1. CASE LayTable
  <2>1. pos \in Nat /\ pos % 16 \in 0..15
    BY <1>1 DEF LayTable, TInv, TypeOK
  <2>2. table' \in Nat /\ pos' \in Nat
    BY <1>1, <2>1 DEF LayTable
  <2>3. QED
    BY <1>1, <2>2 DEF LayTable, TInv, TypeOK, Locals
<1>2. CASE Failed
  BY <1>2 DEF Failed, TInv, TypeOK, Locals
<1>3. QED
  BY <1>1, <1>2

LEMMA TypeStep == TInv /\ [Next]_vars => TInv'
<1> SUFFICES ASSUME TInv, [Next]_vars PROVE TInv'
  OBVIOUS
<1>1. CASE UNCHANGED vars
  BY <1>1 DEF vars, saving, TInv, TypeOK, Locals
<1>2. CASE Step
  BY <1>2, TypeSave, TypeZeros, TypeOrder, TypeStart, TypeLay, TypeSegments, TypeLoose, TypeEnd
  DEF Step, InSave
<1>3. CASE \E s \in Sections : AppendData(s) \/ \E g \in Segments : AddSection(g, s)
  BY <1>3, TypeEdit
<1>4. QED
  BY <1>1, <1>2, <1>3 DEF Next

(* Sections, segments, positions and the state of a save stay what they are *)
(* through every save and edit: elfio::save and the setters it uses.        *)
THEOREM TypeCorrect == Spec => []TypeOK
<1>1. Spec => []TInv
  BY TypeInit, TypeStep, PTL DEF Spec
<1>2. TInv => TypeOK
  BY DEF TInv
<1>3. QED
  BY <1>1, <1>2, PTL

-----------------------------------------------------------------------------
(* Nothing overlaps.                                                        *)

\* What is laid out keeps its place while the end of the file moves on.
LEMMA LaidKept ==
    ASSUME TInv, TInv', LaidBelowEnd, UNCHANGED sec,
           ~below' => ~below, generated' \subseteq generated \cup {s \in Sections : sec[s].type = "null"},
           End <= End'
    PROVE  LaidBelowEnd'
<1> SUFFICES ASSUME ~below' PROVE
      /\ \A s \in Laid' : HeadersEnd <= sec[s].offset /\ sec[s].offset + sec[s].size <= End'
      /\ \A s, t \in Laid' : s # t => Apart(s, t)
  BY DEF LaidBelowEnd, Apart, HeadersEnd
<1>1. Laid' \subseteq Laid /\ Laid \subseteq Sections
  BY DEF Laid, Stored, TInv, TypeOK
<1>2. End \in Nat /\ End' \in Nat
  BY DEF End, TInv, TypeOK
<1>3. ASSUME NEW s \in Laid'
      PROVE  HeadersEnd <= sec[s].offset /\ sec[s].offset + sec[s].size <= End'
  <2>1. sec[s].offset \in Nat /\ sec[s].size \in Nat
    BY <1>1, SectionFacts DEF TInv, Word
  <2>2. HeadersEnd <= sec[s].offset /\ sec[s].offset + sec[s].size <= End
    BY <1>1 DEF LaidBelowEnd
  <2>3. QED
    BY <1>2, <2>1, <2>2
<1>4. QED
  BY <1>1, <1>3 DEF LaidBelowEnd

\* A section put at or behind the end lies clear of all the others.
LEMMA LaidBehind ==
    ASSUME TInv, TInv', LaidBelowEnd, phase # "idle", phase' # "idle",
           NEW s \in Sections, NEW at \in Nat, ~below' => ~below /\ pos <= at,
           sec'[s].offset = at, sec'[s].size = sec[s].size, sec'[s].type = sec[s].type,
           \A t \in Sections \ {s} : sec'[t] = sec[t],
           generated' = generated \cup {s}, pos' = at + Room(s)
    PROVE  LaidBelowEnd'
<1> SUFFICES ASSUME ~below' PROVE
      /\ \A t \in Laid' : HeadersEnd <= sec'[t].offset /\ sec'[t].offset + sec'[t].size <= pos'
      /\ \A t, u \in Laid' : t # u => Apart(t, u)'
  BY DEF LaidBelowEnd, HeadersEnd, End
<1>1. pos \in Nat /\ HeadersEnd <= pos /\ pos <= at /\ Room(s) \in Nat /\ HeadersEnd \in Nat
  BY SectionFacts, HeaderFacts DEF TInv, TypeOK, Word
<1>2. ASSUME NEW t \in Laid', t # s
      PROVE  /\ t \in Laid /\ sec'[t] = sec[t]
             /\ sec[t].offset \in Nat /\ sec[t].size \in Nat
             /\ HeadersEnd <= sec[t].offset /\ sec[t].offset + sec[t].size <= pos
  <2>1. t \in generated /\ t \in Sections /\ sec'[t] = sec[t]
    BY <1>2 DEF Laid, TInv, TypeOK
  <2>2. t \in Laid
    BY <2>1 DEF Laid, Stored
  <2>3. QED
    BY <2>1, <2>2, SectionFacts DEF LaidBelowEnd, End, TInv, Word
<1>3. ASSUME s \in Laid'
      PROVE  sec'[s].offset = at /\ pos' = at + sec'[s].size /\ sec'[s].size \in Nat
  <2>1. Room(s) = sec[s].size
    BY <1>3 DEF Laid, Stored, Room
  <2>2. QED
    BY <1>1, <2>1
<1>4. ASSUME NEW t \in Laid'
      PROVE  HeadersEnd <= sec'[t].offset /\ sec'[t].offset + sec'[t].size <= pos'
  <2>1. CASE t = s
    BY <1>1, <1>3, <2>1
  <2>2. CASE t # s
    BY <1>1, <1>2, <2>2
  <2>3. QED
    BY <2>1, <2>2
<1>5. ASSUME NEW t \in Laid', NEW u \in Laid', t # u
      PROVE  Apart(t, u)'
  <2>1. CASE t # s /\ u # s
    <3>1. Apart(t, u)
      BY <1>2, <1>5, <2>1 DEF LaidBelowEnd
    <3>2. QED
      BY <1>2, <2>1, <3>1 DEF Apart
  <2>2. CASE t = s
    <3>1. sec'[u].offset + sec'[u].size <= sec'[t].offset
      BY <1>1, <1>2, <1>3, <1>5, <2>2
    <3>2. QED
      BY <3>1 DEF Apart
  <2>3. CASE u = s
    <3>1. sec'[t].offset + sec'[t].size <= sec'[u].offset
      BY <1>1, <1>2, <1>3, <1>5, <2>3
    <3>2. QED
      BY <3>1 DEF Apart
  <2>4. QED
    BY <2>1, <2>2, <2>3
<1>6. QED
  BY <1>4, <1>5

LEMMA LaidSection ==
    ASSUME TInv, TInv', LaidBelowEnd, LaySection
    PROVE  LaidBelowEnd'
<1> DEFINE s == Current
<1>1. phase = "section" /\ s \in Sections
  BY CurrentType DEF LaySection
<1>2. ~below' => ~below
  <2>1. below' = below \/ below' = (below \/ Before(s))
    BY DEF LaySection
  <2>2. QED
    BY <2>1 DEF TInv, TypeOK
<1>3. CASE \/ sec[s].type = "null" /\ UNCHANGED <<sec, phase, pos>>
              /\ generated' = generated \cup {s}
           \/ phase' = "failed" /\ UNCHANGED <<sec, generated, pos>>
           \/ UNCHANGED <<sec, pos, generated, phase>>
  <2>1. UNCHANGED <<sec, pos>> /\ phase' # "idle" /\ pos \in Nat
    BY <1>1, <1>3 DEF TInv, TypeOK
  <2>2. End <= End'
    BY <1>1, <2>1 DEF End
  <2>3. generated' \subseteq generated \cup {t \in Sections : sec[t].type = "null"}
    BY <1>1, <1>3
  <2> HIDE DEF s
  <2>4. QED
    BY <1>2, <2>1, <2>2, <2>3, LaidKept
<1>4. CASE Fresh(s) /\ sec[s].type # "null" /\ ~Aborts(s)
  <2> HIDE DEF s
  <2>0. s = Current
    BY DEF s
  <2>1. PICK at \in 0..MaxPos :
            /\ sec' = Placed(s, at) /\ pos' = at + Room(s)
            /\ generated' = generated \cup {s} /\ phase' = "section"
            /\ ~below' => pos <= at
    BY <1>4, <2>0, LaidAt
  <2>2. /\ sec'[s].offset = at /\ sec'[s].size = sec[s].size /\ sec'[s].type = sec[s].type
        /\ \A t \in Sections \ {s} : sec'[t] = sec[t]
    BY <1>1, <2>1, PlacedType
  <2>3. at \in Nat /\ (~below' => ~below /\ pos <= at) /\ phase # "idle" /\ phase' # "idle"
    BY <1>1, <1>2, <2>1
  <2>4. QED
    BY <1>1, <2>1, <2>2, <2>3, LaidBehind
<1>5. QED
  <2>1. \/ sec[s].type = "null" /\ UNCHANGED <<sec, phase, pos>>
           /\ generated' = generated \cup {s}
        \/ phase' = "failed" /\ UNCHANGED <<sec, generated, pos>>
        \/ sec[s].type # "null" /\ ~Aborts(s) /\ Fresh(s)
        \/ UNCHANGED <<sec, pos, generated, phase>>
    BY DEF LaySection
  <2> HIDE DEF s
  <2>2. QED
    BY <1>3, <1>4, <2>1

LEMMA LaidLoose ==
    ASSUME TInv, TInv', LaidBelowEnd, LayLoose
    PROVE  LaidBelowEnd'
<1>1. PICK s \in Sections, at \in 0..MaxPos :
          /\ pos <= at
          /\ sec' = [sec EXCEPT ![s].offset = at] /\ pos' = at + Room(s)
          /\ generated' = generated \cup {s}
  BY LooseAt
<1>2. phase # "idle" /\ phase' # "idle" /\ UNCHANGED below
  BY DEF LayLoose
<1>3. /\ sec'[s].offset = at /\ sec'[s].size = sec[s].size /\ sec'[s].type = sec[s].type
      /\ \A t \in Sections \ {s} : sec'[t] = sec[t]
  <2>1. sec \in [Sections -> SectionRecord] /\ sec[s] \in SectionRecord
    BY DEF TInv, TypeOK
  <2>2. QED
    BY <1>1, <2>1 DEF SectionRecord
<1>4. at \in Nat
  BY <1>1
<1>5. QED
  BY <1>1, <1>2, <1>3, <1>4, LaidBehind

LEMMA LaidStep == IInv /\ [Next]_vars => IInv'
<1> SUFFICES ASSUME IInv, [Next]_vars PROVE IInv'
  OBVIOUS
<1>1. TInv /\ TInv' /\ LaidBelowEnd
  BY TypeStep DEF IInv
<1> SUFFICES LaidBelowEnd'
  BY <1>1 DEF IInv
<1>2. pos \in Nat /\ table \in Nat
  BY <1>1 DEF TInv, TypeOK
<1>3. generated' = {} => LaidBelowEnd'
  BY DEF LaidBelowEnd, Laid
<1>4. UNCHANGED <<sec, generated, below>> /\ End <= End' => LaidBelowEnd'
  BY <1>1, LaidKept
<1>5. CASE UNCHANGED vars
  <2>1. UNCHANGED <<sec, generated, below>> /\ End <= End'
    BY <1>2, <1>5 DEF vars, saving, End
  <2>2. QED
    BY <1>4, <2>1
<1>6. CASE Save \/ Failed \/ \E s \in Sections : AppendData(s) \/ \E g \in Segments : AddSection(g, s)
  <2>1. generated' = {}
    BY <1>6 DEF Save, Failed, AppendData, AddSection, Edit
  <2>2. QED
    BY <1>3, <2>1
<1>7. CASE ZerosFirst \/ ZerosDone \/ Order \/ EndSegment \/ LastSegment
  <2>1. /\ UNCHANGED <<sec, generated, below, pos>>
        /\ phase # "idle" /\ phase' # "idle"
    BY <1>7 DEF ZerosFirst, ZerosDone, Order, EndSegment, LastSegment
  <2>2. End <= End'
    BY <1>2, <2>1 DEF End
  <2>3. QED
    BY <1>4, <2>1, <2>2
<1>8. CASE StartSegment
  <2>1. /\ UNCHANGED <<sec, generated, below>> /\ phase = "segment" /\ phase' = "section"
        /\ worklist # <<>>
        /\ pos' = pos \/ pos' = pos + ToItsAddress(Head(worklist))
    BY <1>8 DEF StartSegment
  <2>2. ToItsAddress(Head(worklist)) \in Nat
    BY <1>1, <2>1, HeadOfWork, ToItsAddressType DEF TInv
  <2>3. pos <= pos'
    BY <1>2, <2>1, <2>2
  <2>4. End <= End'
    BY <2>1, <2>3 DEF End
  <2>5. QED
    BY <1>4, <2>1, <2>4
<1>9. CASE LayTable
  <2>1. /\ UNCHANGED <<sec, generated, below>> /\ phase = "loose" /\ phase' = "idle"
        /\ table' = pos + (16 - (pos % 16))
    BY <1>9 DEF LayTable
  <2>2. pos <= table'
    BY <1>2, <2>1
  <2>3. End <= End'
    BY <2>1, <2>2 DEF End
  <2>4. QED
    BY <1>4, <2>1, <2>3
<1>10. QED
  BY <1>1, <1>5, <1>6, <1>7, <1>8, <1>9, LaidSection, LaidLoose DEF Next, Step, InSave

(* However often the object is edited and saved, no two sections a save has *)
(* laid out share a byte, none lies over the headers or the section table:  *)
(* layout_segments_and_their_sections with layout_sections_without_segments *)
(* as long as no section lies before the address of its segment.            *)
THEOREM NothingOverlaps == Spec => []NoOverlapAbove
<1>1. Init => IInv
  <2>1. Init => LaidBelowEnd
    BY DEF Init, LaidBelowEnd, Laid
  <2>2. QED
    BY <2>1, TypeInit DEF IInv
<1>2. IInv => NoOverlapAbove
  BY DEF IInv, LaidBelowEnd, NoOverlapAbove, NoOverlap, Saved, End
<1>3. QED
  BY <1>1, <1>2, LaidStep, PTL DEF Spec

-----------------------------------------------------------------------------
(* Every section of a segment meets its address.                            *)

Distinct(w) == \A a, b \in DOMAIN w : w[a] = w[b] => a = b

\* Each segment is taken once: it is in one of the lists, and there once.
TakenOnce ==
    /\ Distinct(worklist)
    /\ phase = "zeros" => ordered = <<>>
    /\ phase = "order" =>
         Distinct(ordered) /\ \A a \in DOMAIN worklist, b \in DOMAIN ordered : worklist[a] # ordered[b]
    /\ phase = "section" => \A a \in DOMAIN worklist : worklist[a] # cur

\* Where a segment that was taken starts.
StartOf(g) == IF phase = "section" /\ g = cur THEN start ELSE seg[g].offset

\* A section that is laid out in segment g meets its address there.
Meets(s, g) == Minus(sec[s].offset, StartOf(g)) = Minus(sec[s].addr, seg[g].vaddr)

AtHome(s) ==
    /\ home[s] \in Segments
    /\ \E i \in DOMAIN seg[home[s]].list : seg[home[s]].list[i] = s
    /\ \A a \in DOMAIN worklist : worklist[a] # home[s]
    /\ Stored(s) => Meets(s, home[s])

Homes ==
    /\ home \in [Sections -> Nat]
    /\ phase \in {"zeros", "order"} => \A s \in Sections : home[s] = 0
    /\ phase \in {"segment", "section", "loose"} \/ Saved =>
         \A s \in Sections : home[s] # 0 => AtHome(s)

AInv == TInv /\ TakenOnce /\ Homes

\* Where a section is put so far behind the segment's start as its address is
\* behind the segment's, it meets it.
LEMMA MeetsWhere ==
    ASSUME NEW a \in Word, NEW v \in Word, NEW p \in Word, NEW st \in Word
    PROVE  /\ Minus(Plus(p, Minus(Minus(a, v), Minus(p, st))), st) = Minus(a, v)
           /\ Minus(Minus(Plus(v, p), st), v) = Minus(p, st)
<1>1. Minus(Plus(p, Minus(Minus(a, v), Minus(p, st))), st) = Minus(a, v)
  BY HeaderFacts DEF Minus, Plus, Word
<1>2. Minus(Minus(Plus(v, p), st), v) = Minus(p, st)
  BY HeaderFacts DEF Minus, Plus, Word
<1>3. QED
  BY <1>1, <1>2

\* A section that is laid out meets its address.
LEMMA LaidMeets ==
    ASSUME TInv, LaySection, NEW s, s = Current, Fresh(s), sec[s].type # "null", ~Aborts(s)
    PROVE  Stored(s)' => Meets(s, cur)'
<1> SUFFICES ASSUME Stored(s)' PROVE Meets(s, cur)'
  OBVIOUS
<1>1. s \in Sections /\ phase = "section" /\ cur \in Segments
  BY CurrentType DEF LaySection, TInv, Locals
<1> DEFINE at == Plus(pos, Gap(s))
           v == seg[cur].vaddr
<1>2. /\ sec' = Placed(s, at) /\ phase' = "section" /\ UNCHANGED <<seg, cur, start>>
      /\ at + Room(s) <= MaxPos
  BY <1>1 DEF LaySection
<1>3. /\ pos \in Word /\ start \in Word /\ v \in Word /\ Gap(s) \in Word
      /\ sec[s].addr \in Word /\ Room(s) \in Word
  BY <1>1, GapWord, SectionFacts, SegmentFacts, HeaderFacts DEF TInv, TypeOK, Word
<1>4. at \in Word
  BY <1>3, PlusWord
<1> HIDE DEF at
<1>5. at \in 0..MaxPos
  BY <1>2, <1>3, <1>4, HeaderFacts DEF Word
<1>6. sec'[s].offset = at /\ Stored(s)
  BY <1>1, <1>2, <1>5, PlacedType DEF Stored
<1>7. sec'[s].addr = IF sec[s].addrSet THEN sec[s].addr ELSE Minus(Plus(v, at), start)
  <2>1. sec \in [Sections -> SectionRecord] /\ sec[s] \in SectionRecord
    BY <1>1 DEF TInv, TypeOK
  <2>2. QED
    BY <1>1, <1>2, <2>1 DEF Placed, SectionRecord
<1>8. Minus(at, start) = Minus(sec'[s].addr, v)
  <2>1. CASE sec[s].addrSet
    <3>1. at = Plus(pos, Minus(Minus(sec[s].addr, v), Minus(pos, start)))
      BY <1>6, <2>1 DEF at, Gap, Pinned, Wanted, Reached
    <3>2. QED
      BY <1>3, <1>7, <2>1, <3>1, MeetsWhere
  <2>2. CASE ~sec[s].addrSet
    BY <1>3, <1>4, <1>7, <2>2, MeetsWhere
  <2>3. QED
    BY <2>1, <2>2
<1>9. QED
  BY <1>2, <1>6, <1>8 DEF Meets, StartOf, Minus

LEMMA TakenInit == Init => TakenOnce /\ Homes
<1> SUFFICES ASSUME Init PROVE TakenOnce /\ Homes
  OBVIOUS
<1>1. TakenOnce
  BY DEF Init, TakenOnce, Distinct
<1>2. Homes
  BY DEF Init, Homes, Saved
<1>3. QED
  BY <1>1, <1>2

\* Two places of a list change their segments, which leaves each there once.
LEMMA DistinctSwapped ==
    ASSUME NEW w \in Seq(Segments), Distinct(w),
           NEW a \in 1..Len(w), NEW b \in 1..Len(w)
    PROVE  Distinct([w EXCEPT ![a] = w[b], ![b] = w[a]])
<1> DEFINE v == [w EXCEPT ![a] = w[b], ![b] = w[a]]
           to(i) == IF i = b THEN a ELSE IF i = a THEN b ELSE i
<1>1. DOMAIN w = 1..Len(w) /\ DOMAIN v = DOMAIN w
  BY LenProperties
<1>2. \A i \in DOMAIN w : v[i] = w[to(i)] /\ to(i) \in DOMAIN w
  BY <1>1
<1>3. \A i, k \in DOMAIN w : to(i) = to(k) => i = k
  OBVIOUS
<1> HIDE DEF v, to
<1>4. \A i, k \in DOMAIN v : v[i] = v[k] => i = k
  BY <1>1, <1>2, <1>3 DEF Distinct
<1>5. QED
  BY <1>4 DEF Distinct, v

\* What is taken from the front of a list is not in it any more.
LEMMA DistinctTail ==
    ASSUME NEW w \in Seq(Segments), Distinct(w), w # <<>>
    PROVE  /\ Distinct(Tail(w))
           /\ \A i \in DOMAIN Tail(w) : Tail(w)[i] # Head(w) /\ \E k \in DOMAIN w : Tail(w)[i] = w[k]
           /\ \E k \in DOMAIN w : Head(w) = w[k]
<1>1. /\ Len(w) \in Nat /\ Len(w) > 0 /\ DOMAIN w = 1..Len(w) /\ Head(w) = w[1]
  BY LenProperties, EmptySeq
<1>2. /\ DOMAIN Tail(w) = 1..(Len(w) - 1)
      /\ \A i \in 1..(Len(w) - 1) : Tail(w)[i] = w[i + 1]
  BY <1>1, HeadTailProperties
<1>3. \A i \in 1..(Len(w) - 1) : i + 1 \in 1..Len(w) /\ i + 1 # 1
  BY <1>1
<1>4. QED
  BY <1>1, <1>2, <1>3 DEF Distinct

LEMMA DistinctAppend ==
    ASSUME NEW w \in Seq(Segments), Distinct(w), NEW g \in Segments,
           \A i \in DOMAIN w : w[i] # g
    PROVE  /\ Distinct(Append(w, g))
           /\ \A k \in DOMAIN Append(w, g) :
                Append(w, g)[k] = g \/ \E i \in DOMAIN w : Append(w, g)[k] = w[i]
<1>1. /\ Len(w) \in Nat /\ DOMAIN w = 1..Len(w) /\ DOMAIN Append(w, g) = 1..(Len(w) + 1)
      /\ \A i \in 1..Len(w) : Append(w, g)[i] = w[i]
      /\ Append(w, g)[Len(w) + 1] = g
  BY LenProperties, AppendProperties
<1>2. QED
  BY <1>1 DEF Distinct

\* get_ordered_segments moves segments, it neither drops nor doubles one.
LEMMA TakenOrdering ==
    ASSUME TInv, TakenOnce, ZerosFirst \/ ZerosDone \/ Order
    PROVE  TakenOnce'
<1>1. CASE ZerosDone
  BY <1>1 DEF ZerosDone, TakenOnce, Distinct
<1>2. CASE ZerosFirst
  <2> DEFINE to == IF ZeroOffset(worklist[j]) THEN j + 1 ELSE j
             swaps == cur # j /\ seg[worklist[cur]].offsetSet /\ ZeroOffset(worklist[cur])
  <2>1. /\ worklist \in Seq(Segments) /\ Len(worklist) \in Nat
        /\ cur \in Nat /\ j \in Nat /\ 1 <= j /\ j <= cur /\ cur <= Len(worklist)
        /\ phase = "zeros" /\ phase' = "zeros" /\ ordered = <<>> /\ ordered' = <<>>
    BY <1>2, LenProperties DEF ZerosFirst, TInv, Locals, TakenOnce
  <2>2. CASE swaps
    <3>1. worklist' = [worklist EXCEPT ![cur] = worklist[to], ![to] = worklist[cur]]
      BY <1>2, <2>2 DEF ZerosFirst
    <3>2. to \in 1..Len(worklist) /\ cur \in 1..Len(worklist)
      BY <2>1, <2>2
    <3> HIDE DEF to
    <3>3. Distinct(worklist')
      BY <2>1, <3>1, <3>2, DistinctSwapped DEF TakenOnce
    <3>4. QED
      BY <2>1, <3>3 DEF TakenOnce, Distinct
  <2>3. CASE ~swaps
    <3>1. worklist' = worklist
      BY <1>2, <2>3 DEF ZerosFirst
    <3>2. QED
      BY <2>1, <3>1 DEF TakenOnce, Distinct
  <2>4. QED
    BY <2>2, <2>3
<1>3. CASE Order
  <2>1. /\ phase = "order" /\ worklist \in Seq(Segments) /\ ordered \in Seq(Segments)
        /\ Distinct(worklist) /\ Distinct(ordered)
        /\ \A a \in DOMAIN worklist, b \in DOMAIN ordered : worklist[a] # ordered[b]
    BY <1>3 DEF Order, TInv, Locals, TakenOnce
  <2>2. CASE worklist = <<>>
    BY <1>3, <2>1, <2>2 DEF Order, TakenOnce, Distinct
  <2>3. CASE worklist # <<>>
    <3> DEFINE g == Head(worklist)
               rest == Tail(worklist)
    <3>1. g \in Segments /\ rest \in Seq(Segments) /\ phase' = "order"
      BY <1>3, <2>1, <2>3, HeadOfWork DEF TInv, Order
    <3>2. /\ Distinct(rest)
          /\ \A i \in DOMAIN rest : rest[i] # g /\ \E k \in DOMAIN worklist : rest[i] = worklist[k]
          /\ \E k \in DOMAIN worklist : g = worklist[k]
      BY <2>1, <2>3, DistinctTail
    <3>3. OrderOne(g, rest)
      BY <1>3, <2>3 DEF Order
    <3> HIDE DEF g, rest
    <3>4. CASE worklist' = Append(rest, g) /\ ordered' = ordered
      <4>1. /\ Distinct(worklist')
            /\ \A k \in DOMAIN worklist' :
                 worklist'[k] = g \/ \E i \in DOMAIN rest : worklist'[k] = rest[i]
        BY <3>1, <3>2, <3>4, DistinctAppend
      <4>2. \A k \in DOMAIN worklist' : \E i \in DOMAIN worklist : worklist'[k] = worklist[i]
        BY <3>2, <4>1
      <4>3. QED
        BY <2>1, <3>1, <3>4, <4>1, <4>2 DEF TakenOnce, Distinct
    <3>5. CASE worklist' = rest /\ ordered' = Append(ordered, g)
      <4>1. \A b \in DOMAIN ordered : ordered[b] # g
        BY <2>1, <3>2
      <4>2. /\ Distinct(ordered')
            /\ \A k \in DOMAIN ordered' :
                 ordered'[k] = g \/ \E i \in DOMAIN ordered : ordered'[k] = ordered[i]
        BY <2>1, <3>1, <3>5, <4>1, DistinctAppend
      <4>3. QED
        BY <2>1, <3>1, <3>2, <3>5, <4>2 DEF TakenOnce
    <3>6. QED
      BY <3>3, <3>4, <3>5 DEF OrderOne
  <2>4. QED
    BY <2>2, <2>3
<1>4. QED
  BY <1>1, <1>2, <1>3

LEMMA TakenStep ==
    ASSUME TInv, TakenOnce, [Next]_vars
    PROVE  TakenOnce'
<1>1. CASE UNCHANGED vars
  BY <1>1 DEF vars, saving, TakenOnce, Distinct
<1>2. CASE Save
  <2>1. /\ worklist' = [i \in 1..Cardinality(Segments) |-> i] /\ ordered' = <<>>
        /\ phase' = "zeros"
    BY <1>2 DEF Save
  <2>2. QED
    BY <2>1 DEF TakenOnce, Distinct
<1>3. CASE ZerosFirst \/ ZerosDone \/ Order
  BY <1>3, TakenOrdering
<1>4. CASE StartSegment
  <2>1. /\ worklist # <<>> /\ worklist \in Seq(Segments) /\ phase' = "section"
        /\ cur' = Head(worklist) /\ worklist' = Tail(worklist)
    BY <1>4 DEF StartSegment, TInv, Locals
  <2>2. Distinct(worklist') /\ \A i \in DOMAIN worklist' : worklist'[i] # cur'
    BY <2>1, DistinctTail DEF TakenOnce
  <2>3. QED
    BY <2>1, <2>2 DEF TakenOnce
<1>5. CASE LaySection
  <2>1. UNCHANGED <<worklist, ordered, cur>> /\ phase = "section" /\ phase' \in {"section", "failed"}
    BY <1>5 DEF LaySection
  <2>2. QED
    BY <2>1 DEF TakenOnce, Distinct
<1>6. CASE EndSegment \/ LastSegment \/ LayLoose \/ LayTable \/ Failed
  <2>1. UNCHANGED <<worklist, ordered>> /\ phase' \notin {"zeros", "order", "section"}
    BY <1>6 DEF EndSegment, LastSegment, LayLoose, LayTable, Failed
  <2>2. QED
    BY <2>1 DEF TakenOnce, Distinct
<1>7. CASE \E s \in Sections : AppendData(s) \/ \E g \in Segments : AddSection(g, s)
  <2>1. UNCHANGED <<worklist, ordered, phase>> /\ phase = "idle"
    BY <1>7 DEF AppendData, AddSection, Edit
  <2>2. QED
    BY <2>1 DEF TakenOnce, Distinct
<1>8. QED
  BY <1>1, <1>2, <1>3, <1>4, <1>5, <1>6, <1>7 DEF Next, Step, InSave

\* While a save lays out its sections, and after it.
LayingOut == phase \in {"segment", "section", "loose"} \/ Saved

\* A step that moves no section that is at home, nor its segment.
LEMMA HomeStays ==
    ASSUME AInv, LayingOut, UNCHANGED home,
           NEW s \in Sections, home[s] # 0,
           sec'[s] = sec[s],
           seg'[home[s]].list = seg[home[s]].list, seg'[home[s]].vaddr = seg[home[s]].vaddr,
           StartOf(home[s])' = StartOf(home[s]),
           \A a \in DOMAIN worklist' : \E b \in DOMAIN worklist : worklist'[a] = worklist[b]
    PROVE  AtHome(s)'
<1>1. AtHome(s)
  BY DEF AInv, Homes, LayingOut
<1>2. \A a \in DOMAIN worklist' : worklist'[a] # home'[s]
  BY <1>1 DEF AtHome
<1>3. Stored(s)' => Meets(s, home[s])
  BY <1>1 DEF AtHome, Stored
<1>4. Stored(s)' => Meets(s, home[s])'
  BY <1>3 DEF Meets, Minus
<1>5. QED
  BY <1>1, <1>2, <1>4 DEF AtHome

LEMMA HomesLay ==
    ASSUME AInv, TInv', LaySection
    PROVE  Homes'
<1>0. PICK s \in Sections : s = Current
  BY CurrentType DEF LaySection, AInv
<1>1. /\ phase = "section" /\ cur \in Segments /\ s \in Sections
      /\ j \in 1..Len(seg[cur].list) /\ DOMAIN seg[cur].list = 1..Len(seg[cur].list)
      /\ UNCHANGED <<seg, worklist, cur, start, before>>
  <2>1. /\ phase = "section" /\ cur \in Segments /\ j \in Nat /\ 1 <= j
        /\ j <= Len(seg[cur].list) /\ UNCHANGED <<seg, worklist, cur, start, before>>
    BY DEF LaySection, MoreSections, AInv, TInv, Locals
  <2>2. Len(seg[cur].list) \in Nat /\ DOMAIN seg[cur].list = 1..Len(seg[cur].list)
    BY <2>1, SegmentFacts, LenProperties DEF AInv, TInv
  <2>3. QED
    BY <2>1, <2>2
<1>2. s = seg[cur].list[j] /\ (\A a \in DOMAIN worklist : worklist[a] # cur)
  BY <1>0, <1>1 DEF Current, AInv, TakenOnce
<1>3. LayingOut /\ home \in [Sections -> Nat]
  BY <1>1 DEF LayingOut, AInv, Homes
<1>4. CASE UNCHANGED <<sec, home>> /\ phase' = "section"
  <2>1. ASSUME NEW t \in Sections, home[t] # 0 PROVE AtHome(t)'
    BY <1>1, <1>3, <1>4, <2>1, HomeStays DEF StartOf
  <2>2. QED
    BY <1>3, <1>4, <2>1 DEF Homes
<1>5. CASE phase' = "failed" /\ UNCHANGED home
  BY <1>3, <1>5 DEF Homes, Saved
<1>6. CASE Fresh(s) /\ sec[s].type # "null" /\ ~Aborts(s)
  <2>1. PICK at \in 0..MaxPos : sec' = Placed(s, at) /\ phase' = "section"
    BY <1>6, <1>0, LaidAt DEF AInv
  <2>2. home' = [home EXCEPT ![s] = cur]
    BY <1>6, <1>0 DEF LaySection
  <2>3. \A t \in Sections \ {s} : sec'[t] = sec[t]
    BY <1>1, <2>1, PlacedType DEF AInv
  <2>4. home' \in [Sections -> Nat] /\ home'[s] = cur /\ \A t \in Sections \ {s} : home'[t] = home[t]
    <3>1. cur \in Nat
      <4>1. Cardinality(Segments) \in Nat /\ Segments = 1..Cardinality(Segments)
        BY LayoutAssumption, FS_CardinalityType
      <4>2. QED
        BY <1>1, <4>1
    <3>2. QED
      BY <1>1, <1>3, <2>2, <3>1
  <2>5. AtHome(s)'
    <3>1. Stored(s)' => Meets(s, cur)'
      BY <1>6, <1>0, LaidMeets DEF AInv
    <3>2. Stored(s)' => Meets(s, home[s])'
      BY <1>1, <2>4, <3>1 DEF Meets, StartOf
    <3>3. QED
      BY <1>1, <1>2, <2>4, <3>2 DEF AtHome
  <2>6. ASSUME NEW t \in Sections \ {s}, home[t] # 0 PROVE AtHome(t)'
    <3>1. AtHome(t)
      BY <1>3, <2>6 DEF AInv, Homes, LayingOut
    <3>2. Stored(t)' => Stored(t) /\ Meets(t, home[t])
      BY <2>3, <3>1 DEF AtHome, Stored
    <3>3. Stored(t)' => Meets(t, home[t])'
      BY <1>1, <2>1, <2>3, <2>4, <3>2 DEF Meets, StartOf, Minus
    <3>4. QED
      BY <1>1, <2>4, <3>1, <3>3 DEF AtHome
  <2>7. \A t \in Sections : home'[t] # 0 => AtHome(t)'
    BY <2>4, <2>5, <2>6
  <2>8. QED
    BY <2>1, <2>4, <2>7 DEF Homes
<1>7. QED
  <2>2. \/ phase' = phase /\ UNCHANGED <<sec, home>>
        \/ phase' = "failed" /\ UNCHANGED home
        \/ sec[s].type # "null" /\ ~Aborts(s) /\ Fresh(s)
    BY <1>0 DEF LaySection
  <2>3. QED
    BY <1>1, <1>4, <1>5, <1>6, <2>2

LEMMA HomesSegments ==
    ASSUME AInv, StartSegment \/ EndSegment \/ LastSegment
    PROVE  Homes'
<1>1. LayingOut /\ home \in [Sections -> Nat] /\ UNCHANGED <<sec, home>>
  BY DEF LayingOut, AInv, Homes, StartSegment, EndSegment, LastSegment
<1>2. phase' \in {"segment", "section", "loose"}
  BY DEF StartSegment, EndSegment, LastSegment
<1>3. ASSUME NEW s \in Sections, home[s] # 0
      PROVE  AtHome(s)'
  <2>1. AtHome(s) /\ home[s] \in Segments
    BY <1>1, <1>3 DEF AInv, Homes, LayingOut, AtHome
  <2>2. CASE StartSegment
    <3>1. /\ worklist \in Seq(Segments) /\ worklist # <<>> /\ UNCHANGED seg
          /\ phase = "segment" /\ cur' = Head(worklist) /\ worklist' = Tail(worklist)
      BY <2>2 DEF StartSegment, AInv, TInv, Locals
    <3>2. /\ \E k \in DOMAIN worklist : cur' = worklist[k]
          /\ \A a \in DOMAIN worklist' : \E b \in DOMAIN worklist : worklist'[a] = worklist[b]
      BY <3>1, DistinctTail DEF AInv, TakenOnce
    <3>3. home[s] # cur'
      BY <2>1, <3>2 DEF AtHome
    <3>4. StartOf(home[s])' = StartOf(home[s])
      BY <1>1, <3>1, <3>3 DEF StartOf
    <3>5. QED
      BY <1>1, <1>3, <3>1, <3>2, <3>4, HomeStays
  <2>3. CASE EndSegment
    <3>1. /\ phase = "section" /\ phase' = "segment" /\ UNCHANGED worklist
          /\ cur \in Segments
          /\ seg' = [seg EXCEPT ![cur].filesz = fsz,
                                ![cur].memsz = IF @ < msz THEN msz ELSE @,
                                ![cur].offset = start, ![cur].offsetSet = TRUE]
      BY <2>3 DEF EndSegment, AInv, TInv, Locals
    <3>2. /\ seg \in [Segments -> SegmentRecord] /\ seg[cur] \in SegmentRecord
      BY <3>1 DEF AInv, TInv, TypeOK
    <3>3. /\ seg'[home[s]].list = seg[home[s]].list /\ seg'[home[s]].vaddr = seg[home[s]].vaddr
          /\ seg'[cur].offset = start
          /\ home[s] # cur => seg'[home[s]].offset = seg[home[s]].offset
      BY <2>1, <3>1, <3>2 DEF SegmentRecord
    <3>4. StartOf(home[s])' = StartOf(home[s])
      BY <1>1, <3>1, <3>3 DEF StartOf
    <3>5. QED
      BY <1>1, <1>3, <3>1, <3>3, <3>4, HomeStays
  <2>4. CASE LastSegment
    <3>1. UNCHANGED <<seg, worklist>> /\ phase = "segment" /\ phase' = "loose"
      BY <2>4 DEF LastSegment
    <3>2. StartOf(home[s])' = StartOf(home[s])
      BY <1>1, <3>1 DEF StartOf
    <3>3. QED
      BY <1>1, <1>3, <3>1, <3>2, HomeStays
  <2>5. QED
    BY <2>2, <2>3, <2>4
<1>4. QED
  BY <1>1, <1>2, <1>3 DEF Homes

\* A section without a segment is nowhere at home, so it moves without harm.
LEMMA HomesLoose ==
    ASSUME AInv, LayLoose \/ LayTable
    PROVE  Homes'
<1>1. /\ phase = "loose" /\ phase' \in {"loose", "idle"} /\ LayingOut
      /\ home \in [Sections -> Nat] /\ UNCHANGED <<home, seg, worklist>>
  BY DEF LayingOut, AInv, Homes, LayLoose, LayTable
<1>2. ASSUME NEW s \in Sections, home[s] # 0
      PROVE  AtHome(s)'
  <2>1. AtHome(s)
    BY <1>1, <1>2 DEF AInv, Homes, LayingOut
  <2>2. ~is_section_without_segment(s)
    BY <2>1 DEF AtHome, is_section_without_segment
  <2>3. sec'[s] = sec[s]
    <3>1. CASE LayTable
      BY <3>1 DEF LayTable
    <3>2. CASE LayLoose
      <4> DEFINE t == CHOOSE x \in LooseLeft : \A y \in LooseLeft : x <= y
                 at == pos + PadTo(pos, sec[t].align)
      <4>1. t \in LooseLeft
        <5>1. LooseLeft \subseteq Nat /\ LooseLeft # {}
          BY <3>2, LayoutAssumption DEF LooseLeft, LayLoose
        <5>2. \E x \in LooseLeft : \A y \in LooseLeft : x <= y
          BY <5>1, LeastNumber
        <5>3. QED
          BY <5>2
      <4>2. sec' = [sec EXCEPT ![t].offset = at]
        BY <3>2 DEF LayLoose
      <4> HIDE DEF t, at
      <4>3. t # s
        BY <2>2, <4>1 DEF LooseLeft
      <4>4. sec \in [Sections -> SectionRecord]
        BY DEF AInv, TInv, TypeOK
      <4>5. QED
        BY <4>2, <4>3, <4>4
    <3>3. QED
      BY <3>1, <3>2
  <2>4. StartOf(home[s])' = StartOf(home[s])
    BY <1>1 DEF StartOf
  <2>5. QED
    BY <1>1, <1>2, <2>3, <2>4, HomeStays
<1>3. QED
  BY <1>1, <1>2 DEF Homes

LEMMA AddressStep == AInv /\ [Next]_vars => AInv'
<1> SUFFICES ASSUME AInv, [Next]_vars PROVE AInv'
  OBVIOUS
<1>1. TInv' /\ TakenOnce'
  BY TypeStep, TakenStep DEF AInv
<1> SUFFICES Homes'
  BY <1>1 DEF AInv
<1>2. home \in [Sections -> Nat]
  BY DEF AInv, Homes
<1>3. CASE UNCHANGED vars
  <2>1. UNCHANGED <<sec, seg, phase, worklist, home, cur, start, before>>
    BY <1>3 DEF vars, saving
  <2>2. QED
    BY <2>1 DEF AInv, Homes, AtHome, Meets, StartOf, Stored, Saved, Minus
<1>4. CASE Save
  <2>1. home' = [s \in Sections |-> 0] /\ phase' = "zeros"
    BY <1>4 DEF Save
  <2>2. QED
    BY <2>1 DEF Homes, Saved
<1>5. CASE ZerosFirst \/ ZerosDone \/ (Order /\ phase' = "order")
  <2>1. UNCHANGED home /\ phase \in {"zeros", "order"} /\ phase' \in {"zeros", "order"}
    BY <1>5 DEF ZerosFirst, ZerosDone, Order
  <2>2. QED
    BY <1>2, <2>1 DEF AInv, Homes, Saved
<1>6. CASE Order /\ phase' # "order"
  <2>1. UNCHANGED home /\ phase = "order" /\ phase' = "segment"
    BY <1>6 DEF Order
  <2>2. \A s \in Sections : home'[s] = 0
    BY <2>1 DEF AInv, Homes
  <2>3. QED
    BY <1>2, <2>1, <2>2 DEF Homes
<1>7. CASE Failed \/ \E s \in Sections : AppendData(s) \/ \E g \in Segments : AddSection(g, s)
  <2>1. UNCHANGED home /\ phase' = "idle" /\ before' = <<>>
    BY <1>7 DEF Failed, AppendData, AddSection, Edit
  <2>2. QED
    BY <1>2, <2>1 DEF Homes, Saved
<1>8. QED
  BY <1>1, <1>3, <1>4, <1>5, <1>6, <1>7, HomesLay, HomesSegments, HomesLoose
  DEF Next, Step, InSave

(* However segments share and nest their sections, and however often the    *)
(* object is edited and saved: after each save every stored section is as   *)
(* far from the start of the segment it was laid out in as in memory        *)
(* (layout_segments_and_their_sections, write_segment_data).                *)
THEOREM SectionsMeetAddresses == Spec => []AtTheirAddress
<1>1. Init => AInv
  BY TypeInit, TakenInit DEF AInv
<1>2. AInv => AtTheirAddress
  <2> SUFFICES ASSUME AInv, Saved, NEW s \in Sections, Stored(s), home[s] # 0
               PROVE  Minus(sec[s].offset, seg[home[s]].offset)
                        = Minus(sec[s].addr, seg[home[s]].vaddr)
    BY DEF AtTheirAddress
  <2>1. AtHome(s) /\ phase = "idle"
    BY DEF AInv, Homes, Saved
  <2>2. QED
    BY <2>1 DEF AtHome, Meets, StartOf
<1>3. QED
  BY <1>1, <1>2, AddressStep, PTL DEF Spec

-----------------------------------------------------------------------------
(* The symbol table and its relocations, of any size.                       *)

SymbolRecord == [name : Names \cup {NoName}, value : Nat, bind : {"local", "global"}, id : Nat]

\* The null symbol is in front.
FirstIsNull(s) == \A i \in DOMAIN s : i = 1 => s[i].name = NoName /\ s[i].bind = "local"

\* The symbols are numbered, each number is there, and once.
Numbered(s) ==
    /\ \A i \in DOMAIN s : s[i].id < Len(s)
    /\ \A i, k \in DOMAIN s : s[i].id = s[k].id => i = k
    /\ \A id \in 0..(Len(s) - 1) : \E i \in DOMAIN s : s[i].id = id

\* What the loop has behind it is local.
LocalsBehind == stage = "arranging" => \A i \in DOMAIN syms : i <= first => syms[i].bind = "local"

RelocRecord == [offset : Offsets, info : 0..(InfoSpan - 1), addend : Addends \cup {0}, meant : Nat]

HashEnds == hash = NoHash \/ Symbols!ChainsEnd(hash)

SymbolShape ==
    /\ syms \in Seq(SymbolRecord) /\ Len(syms) <= MaxSymbols
    /\ relocs \in Seq(RelocRecord)
    /\ info \in Nat /\ first \in Nat \ {0} /\ stage \in {"idle", "arranging"}
    /\ arranged \in BOOLEAN /\ answer \in Nat
    /\ HashEnds

SymbolInv ==
    /\ SymbolShape /\ FirstIsNull(syms) /\ Numbered(syms) /\ LocalsBehind
    /\ Symbols!RelocsFollow /\ Symbols!LocalsFirst

-----------------------------------------------------------------------------
\* What division finds is the quotient.
LEMMA DivideIs ==
    ASSUME NEW a \in Int, NEW b \in Nat \ {0}, NEW q \in Int, NEW r \in 0..(b - 1), a = q * b + r
    PROVE  a \div b = q /\ a % b = r
OBVIOUS

\* A product with a factor that is larger by one.
LEMMA NextTimes ==
    ASSUME NEW q \in Nat, NEW m \in Nat, NEW b \in Nat, q < m
    PROVE  q * b \in Nat /\ q * b + b <= m * b
<1>1. PICK d \in Nat : m = q + 1 + d
  <2>1. m - q - 1 \in Nat /\ m = q + 1 + (m - q - 1)
    OBVIOUS
  <2>2. QED
    BY <2>1
<1>2. q * b \in Nat /\ d * b \in Nat
  OBVIOUS
<1>3. m * b = q * b + b + d * b
  BY <1>1
<1>4. QED
  BY <1>2, <1>3

\* r_info takes a symbol and a type apart as it put them together.
LEMMA InfoTakenApart ==
    ASSUME NEW sym \in Nat, sym < MaxSymbols, NEW type \in 0..(TypeSpan - 1)
    PROVE  /\ Symbols!R_INFO(sym, type) \in 0..(InfoSpan - 1)
           /\ Symbols!R_INFO(sym, type) \div TypeSpan = sym
           /\ Symbols!R_INFO(sym, type) % TypeSpan = type
<1>1. /\ TypeSpan \in Nat \ {0} /\ InfoSpan \in Nat /\ MaxSymbols \in Nat
      /\ MaxSymbols * TypeSpan <= InfoSpan
  BY TablesAssumption DEF Symbols!SymbolsAssumption
<1>2. sym * TypeSpan \in Nat /\ sym * TypeSpan + TypeSpan <= MaxSymbols * TypeSpan
  BY <1>1, NextTimes
<1>3. MaxSymbols * TypeSpan \in Nat
  BY <1>1
<1> DEFINE whole == sym * TypeSpan + type
<1>4. whole \in 0..(InfoSpan - 1)
  BY <1>1, <1>2, <1>3
<1>5. whole % InfoSpan = whole
  <2> HIDE DEF whole
  <2>1. QED
    BY <1>1, <1>4
<1>6. whole \div TypeSpan = sym /\ whole % TypeSpan = type
  BY <1>1, <1>4, DivideIs
<1>7. QED
  BY <1>4, <1>5, <1>6 DEF Symbols!R_INFO

\* The type of an entry that is there.
LEMMA TypeIn ==
    ASSUME NEW r \in RelocRecord
    PROVE  Symbols!TypeOf(r) \in 0..(TypeSpan - 1) /\ Symbols!SymOf(r) \in Nat
<1>1. r.info \in Nat
  BY TablesAssumption DEF Symbols!SymbolsAssumption, RelocRecord
<1>2. TypeSpan \in Nat \ {0}
  BY TablesAssumption DEF Symbols!SymbolsAssumption
<1>3. QED
  BY <1>1, <1>2 DEF Symbols!TypeOf, Symbols!SymOf

-----------------------------------------------------------------------------
\* What the loop looks for is the next of its kind, or there is none.
LEMMA FirstNotLocalIs ==
    ASSUME SymbolShape
    PROVE  LET a == Symbols!FirstNotLocal IN
           /\ a \in Nat /\ first <= a
           /\ a < Symbols!Count => ~Symbols!Local(a)
           /\ \A i \in first..(a - 1) : i < Symbols!Count => Symbols!Local(i)
<1> DEFINE n == Symbols!Count
           S == {i \in first..(n - 1) : ~Symbols!Local(i)}
           L(i) == ~Symbols!Local(i)
<1>1. n \in Nat /\ first \in Nat
  BY LenProperties DEF SymbolShape, Symbols!Count
<1>2. Symbols!FirstNotLocal =
        IF \E i \in first..(n - 1) : L(i)
          THEN CHOOSE i \in first..(n - 1) : L(i) /\ \A k \in first..(i - 1) : ~L(k)
          ELSE IF first > n THEN first ELSE n
  BY DEF Symbols!FirstNotLocal, Symbols!From
<1>3. CASE \E i \in first..(n - 1) : L(i)
  <2>1. S \in SUBSET Nat /\ S # {}
    BY <1>1, <1>3
  <2>2. PICK m \in S : \A k \in S : m <= k
    BY <2>1, LeastNumber
  <2> HIDE DEF n, L
  <2>3. m \in first..(n - 1) /\ L(m)
    BY <2>2 DEF L
  <2>4. \A k \in first..(m - 1) : ~L(k)
    BY <1>1, <2>2, <2>3 DEF L
  <2>5. \E i \in first..(n - 1) : L(i) /\ \A k \in first..(i - 1) : ~L(k)
    BY <2>3, <2>4
  <2>6. /\ Symbols!FirstNotLocal \in first..(n - 1)
        /\ L(Symbols!FirstNotLocal)
        /\ \A k \in first..(Symbols!FirstNotLocal - 1) : ~L(k)
    BY <1>2, <1>3, <2>5
  <2>7. QED
    BY <1>1, <2>6 DEF n, L
<1>4. CASE ~\E i \in first..(n - 1) : L(i)
  <2>1. Symbols!FirstNotLocal = IF first > n THEN first ELSE n
    BY <1>2, <1>4
  <2>2. \A i \in first..(n - 1) : Symbols!Local(i)
    BY <1>4
  <2> HIDE DEF n
  <2>3. Symbols!FirstNotLocal \in Nat /\ first <= Symbols!FirstNotLocal /\ ~(Symbols!FirstNotLocal < n)
    BY <1>1, <2>1
  <2>4. \A i \in first..(Symbols!FirstNotLocal - 1) : i < n => Symbols!Local(i)
    BY <1>1, <2>2, <2>3
  <2>5. QED
    BY <2>3, <2>4 DEF n
<1>5. QED
  BY <1>3, <1>4

\* The next local behind the place the loop has reached.
LEMMA NextLocalIs ==
    ASSUME SymbolShape, NEW a \in Nat
    PROVE  LET b == Symbols!NextLocal(a + 1) IN
           /\ b \in Nat /\ a < b
           /\ b < Symbols!Count => Symbols!Local(b)
           /\ \A i \in (a + 1)..(b - 1) : i < Symbols!Count => ~Symbols!Local(i)
<1> DEFINE n == Symbols!Count
           S == {i \in (a + 1)..(n - 1) : Symbols!Local(i)}
           L(i) == Symbols!Local(i)
<1>1. n \in Nat
  BY LenProperties DEF SymbolShape, Symbols!Count
<1>2. Symbols!NextLocal(a + 1) =
        IF \E i \in (a + 1)..(n - 1) : L(i)
          THEN CHOOSE i \in (a + 1)..(n - 1) : L(i) /\ \A k \in (a + 1)..(i - 1) : ~L(k)
          ELSE IF a + 1 > n THEN a + 1 ELSE n
  BY DEF Symbols!NextLocal, Symbols!From
<1>3. CASE \E i \in (a + 1)..(n - 1) : L(i)
  <2>1. S \in SUBSET Nat /\ S # {}
    BY <1>1, <1>3
  <2>2. PICK m \in S : \A k \in S : m <= k
    BY <2>1, LeastNumber
  <2> HIDE DEF n, L
  <2>3. m \in (a + 1)..(n - 1) /\ L(m)
    BY <2>2 DEF L
  <2>4. \A k \in (a + 1)..(m - 1) : ~L(k)
    BY <1>1, <2>2, <2>3 DEF L
  <2>5. \E i \in (a + 1)..(n - 1) : L(i) /\ \A k \in (a + 1)..(i - 1) : ~L(k)
    BY <2>3, <2>4
  <2>6. /\ Symbols!NextLocal(a + 1) \in (a + 1)..(n - 1)
        /\ L(Symbols!NextLocal(a + 1))
        /\ \A k \in (a + 1)..(Symbols!NextLocal(a + 1) - 1) : ~L(k)
    BY <1>2, <1>3, <2>5
  <2>7. QED
    BY <1>1, <2>6 DEF n, L
<1>4. CASE ~\E i \in (a + 1)..(n - 1) : L(i)
  <2>1. Symbols!NextLocal(a + 1) = IF a + 1 > n THEN a + 1 ELSE n
    BY <1>2, <1>4
  <2>2. \A i \in (a + 1)..(n - 1) : ~Symbols!Local(i)
    BY <1>4
  <2> HIDE DEF n
  <2>3. /\ Symbols!NextLocal(a + 1) \in Nat /\ a < Symbols!NextLocal(a + 1)
        /\ ~(Symbols!NextLocal(a + 1) < n)
    BY <1>1, <2>1
  <2>4. \A i \in (a + 1)..(Symbols!NextLocal(a + 1) - 1) : i < n => ~Symbols!Local(i)
    BY <1>1, <2>2, <2>3
  <2>5. QED
    BY <2>3, <2>4 DEF n
<1>5. QED
  BY <1>3, <1>4

-----------------------------------------------------------------------------
\* The null symbol alone is a table.
LEMMA NullFacts ==
    /\ Symbols!NullSymbol \in SymbolRecord
    /\ Symbols!NullSymbol.name = NoName /\ Symbols!NullSymbol.bind = "local"
    /\ Symbols!NullSymbol.id = 0
BY DEF Symbols!NullSymbol, SymbolRecord

\* What add_symbol leaves is a table again, with the new symbol at its end.
LEMMA AddedFacts ==
    ASSUME SymbolShape, FirstIsNull(syms), Numbered(syms),
           NEW name \in Names, NEW value \in Nat, NEW bind \in {"local", "global"}
    PROVE  LET s == Symbols!Added(name, value, bind) IN
           /\ s \in Seq(SymbolRecord) /\ FirstIsNull(s) /\ Numbered(s)
           /\ Len(s) = Len(Symbols!WithNull(syms)) + 1 /\ Len(s) > Len(syms)
           /\ Len(s) >= 2 /\ s[Len(s)].id = Len(s) - 1
           /\ \A i \in DOMAIN syms : i \in DOMAIN s /\ s[i] = syms[i]
<1> DEFINE w == Symbols!WithNull(syms)
           new == [name |-> name, value |-> value, bind |-> bind, id |-> Len(w)]
           s == Append(w, new)
<1>1. syms \in Seq(SymbolRecord)
  BY DEF SymbolShape
<1>2. /\ w \in Seq(SymbolRecord) /\ Len(w) \in Nat /\ Len(w) >= 1 /\ Len(w) >= Len(syms)
      /\ FirstIsNull(w) /\ Numbered(w)
      /\ \A i \in DOMAIN syms : i \in DOMAIN w /\ w[i] = syms[i]
  <2>1. CASE syms = <<>>
    <3>1. w = <<Symbols!NullSymbol>>
      BY <2>1 DEF Symbols!WithNull
    <3>2. w \in Seq(SymbolRecord) /\ Len(w) = 1 /\ w[1] = Symbols!NullSymbol /\ DOMAIN w = {1}
      BY <3>1, NullFacts
    <3>3. Len(syms) = 0 /\ DOMAIN syms = {}
      BY <2>1
    <3> HIDE DEF w
    <3>4. QED
      BY <3>2, <3>3, NullFacts DEF FirstIsNull, Numbered
  <2>2. CASE syms # <<>>
    <3>1. w = syms
      BY <2>2 DEF Symbols!WithNull
    <3>2. Len(syms) \in Nat /\ Len(syms) >= 1
      BY <1>1, <2>2, EmptySeq, LenProperties
    <3> HIDE DEF w
    <3>3. QED
      BY <1>1, <3>1, <3>2
  <2>3. QED
    BY <2>1, <2>2
<1> HIDE DEF w
<1>3. new \in SymbolRecord /\ new.id = Len(w)
  BY <1>2, TablesAssumption DEF SymbolRecord, Symbols!SymbolsAssumption
<1>4. Symbols!Added(name, value, bind) = s
  BY DEF Symbols!Added, w
<1> HIDE DEF new
<1>5. /\ s \in Seq(SymbolRecord) /\ Len(s) = Len(w) + 1
      /\ \A i \in 1..Len(w) : s[i] = w[i]
      /\ s[Len(w) + 1] = new
  BY <1>2, <1>3, AppendProperties
<1>6. DOMAIN w = 1..Len(w) /\ DOMAIN s = 1..(Len(w) + 1)
  BY <1>2, <1>5, LenProperties
<1> HIDE DEF s
<1>7. FirstIsNull(s)
  BY <1>2, <1>3, <1>5, <1>6 DEF FirstIsNull
<1>8. Numbered(s)
  <2>1. \A i \in DOMAIN w : w[i].id \in Nat
    <3>1. \A i \in DOMAIN w : w[i] \in SymbolRecord
      BY <1>2, <1>6
    <3>2. QED
      BY <3>1 DEF SymbolRecord
  <2>2. \A i \in DOMAIN s : s[i].id < Len(s)
    BY <1>2, <1>3, <1>5, <1>6, <2>1 DEF Numbered
  <2>3. \A i, k \in DOMAIN s : s[i].id = s[k].id => i = k
    BY <1>2, <1>3, <1>5, <1>6, <2>1 DEF Numbered
  <2>4. \A id \in 0..(Len(s) - 1) : \E i \in DOMAIN s : s[i].id = id
    <3> TAKE id \in 0..(Len(s) - 1)
    <3>1. CASE id = Len(w)
      BY <1>2, <1>3, <1>5, <1>6, <3>1
    <3>2. CASE id # Len(w)
      <4>1. id \in 0..(Len(w) - 1)
        BY <1>2, <1>5, <3>2
      <4>2. PICK i \in DOMAIN w : w[i].id = id
        BY <1>2, <4>1 DEF Numbered
      <4>3. QED
        BY <1>2, <1>5, <1>6, <4>2
    <3>3. QED
      BY <3>1, <3>2
  <2>5. QED
    BY <2>2, <2>3, <2>4 DEF Numbered
<1>9. \A i \in DOMAIN syms : i \in DOMAIN s /\ s[i] = syms[i]
  BY <1>2, <1>5, <1>6
<1>10. Len(syms) \in Nat
  BY <1>1
<1>11. Len(s) > Len(syms) /\ Len(s) >= 2 /\ s[Len(s)].id = Len(s) - 1
  BY <1>2, <1>3, <1>5, <1>10
<1>12. QED
  BY <1>4, <1>5, <1>7, <1>8, <1>9, <1>11 DEF w

\* Two symbols change places.
LEMMA ExchangeFacts ==
    ASSUME SymbolShape, FirstIsNull(syms), Numbered(syms),
           NEW a \in Nat, NEW b \in Nat, 1 <= a, a < b, b < Symbols!Count
    PROVE  LET s == Symbols!Exchanged(a, b) IN
           /\ s \in Seq(SymbolRecord) /\ FirstIsNull(s) /\ Numbered(s) /\ Len(s) = Len(syms)
           /\ s[a + 1] = syms[b + 1] /\ s[b + 1] = syms[a + 1]
           /\ \A i \in DOMAIN syms \ {a + 1, b + 1} : s[i] = syms[i]
<1> DEFINE s == Symbols!Exchanged(a, b)
           to(i) == IF i = a + 1 THEN b + 1 ELSE IF i = b + 1 THEN a + 1 ELSE i
<1>1. syms \in Seq(SymbolRecord) /\ Len(syms) \in Nat /\ DOMAIN syms = 1..Len(syms)
  BY LenProperties DEF SymbolShape
<1>2. a + 1 \in DOMAIN syms /\ b + 1 \in DOMAIN syms /\ a + 1 # 1 /\ b + 1 # 1 /\ a # b
  BY <1>1 DEF Symbols!Count
<1>3. s = [i \in DOMAIN syms |-> syms[to(i)]]
  BY <1>2 DEF Symbols!Exchanged, Symbols!Sym
<1>4. \A i \in DOMAIN syms : to(i) \in DOMAIN syms /\ to(to(i)) = i /\ ((to(i) = 1) = (i = 1))
  BY <1>2
<1>5. \A i \in DOMAIN syms : syms[i] \in SymbolRecord
  BY <1>1, ElementOfSeq
<1>6. /\ DOMAIN s = DOMAIN syms /\ \A i \in DOMAIN syms : s[i] = syms[to(i)]
      /\ s[a + 1] = syms[b + 1] /\ s[b + 1] = syms[a + 1]
      /\ \A i \in DOMAIN syms \ {a + 1, b + 1} : s[i] = syms[i]
  BY <1>2, <1>3, <1>4
<1> HIDE DEF to
<1>7. s \in [1..Len(syms) -> SymbolRecord]
  BY <1>1, <1>3, <1>4, <1>5
<1>8. s \in Seq(SymbolRecord) /\ Len(s) = Len(syms)
  <2> HIDE DEF s
  <2>1. s \in Seq(SymbolRecord)
    BY <1>1, <1>7, SeqDef
  <2>2. QED
    BY <1>1, <1>6, <2>1, LenProperties
<1> HIDE DEF s
<1>9. FirstIsNull(s)
  BY <1>4, <1>6 DEF FirstIsNull
<1>10. Numbered(s)
  <2>1. \A i \in DOMAIN s : s[i].id < Len(s)
    BY <1>4, <1>6, <1>8 DEF Numbered
  <2>2. \A i, k \in DOMAIN s : s[i].id = s[k].id => i = k
    <3> TAKE i, k \in DOMAIN s
    <3> HAVE s[i].id = s[k].id
    <3>1. to(i) = to(k)
      BY <1>4, <1>6 DEF Numbered
    <3>2. QED
      BY <1>4, <1>6, <3>1
  <2>3. \A id \in 0..(Len(s) - 1) : \E i \in DOMAIN s : s[i].id = id
    <3> TAKE id \in 0..(Len(s) - 1)
    <3>1. PICK i \in DOMAIN syms : syms[i].id = id
      BY <1>8 DEF Numbered
    <3>2. to(i) \in DOMAIN s /\ s[to(i)] = syms[i]
      BY <1>4, <1>6
    <3>3. QED
      BY <3>1, <3>2
  <2>4. QED
    BY <2>1, <2>2, <2>3 DEF Numbered
<1>11. QED
  BY <1>6, <1>8, <1>9, <1>10 DEF s

-----------------------------------------------------------------------------
\* What the proofs use of the assumptions on the constants.
LEMMA SymbolConstants ==
    /\ MaxSymbols \in Nat /\ Types \subseteq 0..(TypeSpan - 1) /\ Values \subseteq Nat
    /\ NoName \notin Names
    /\ \A o \in Loaded : Symbols!IsTable(o.syms) /\ (o.hash = NoHash \/ Symbols!ChainsEnd(o.hash))
BY TablesAssumption DEF Symbols!SymbolsAssumption, Symbols!LoadedAssumption

\* The tables that are loaded, or empty, satisfy the invariant.
LEMMA SymbolsStart == WriteInit => SymbolInv
<1> SUFFICES ASSUME WriteInit PROVE SymbolInv
  OBVIOUS
<1>1. /\ info = 0 /\ relocs = <<>> /\ stage = "idle" /\ first = 1
      /\ arranged = FALSE /\ answer = 0
  BY DEF WriteInit, NoSymbols, Symbols!Init
<1>2. relocs \in Seq(RelocRecord) /\ DOMAIN relocs = {}
  BY <1>1
<1>3. Symbols!RelocsFollow /\ Symbols!LocalsFirst /\ LocalsBehind
  BY <1>1, <1>2 DEF Symbols!RelocsFollow, Symbols!LocalsFirst, LocalsBehind
<1>4. CASE NoSymbols
  <2>1. syms = <<>> /\ HashEnds
    BY <1>4 DEF NoSymbols, HashEnds
  <2>2. syms \in Seq(SymbolRecord) /\ Len(syms) = 0 /\ DOMAIN syms = {}
    BY <2>1
  <2>3. SymbolShape
    <3>1. arranged \in BOOLEAN /\ stage \in {"idle", "arranging"}
      BY <1>1
    <3>2. info \in Nat /\ first \in Nat \ {0} /\ answer \in Nat
      BY <1>1
    <3>3. Len(syms) <= MaxSymbols
      BY <2>2, SymbolConstants
    <3>4. QED
      BY <1>2, <2>1, <2>2, <3>1, <3>2, <3>3 DEF SymbolShape
  <2>4. FirstIsNull(syms) /\ Numbered(syms)
    BY <2>2 DEF FirstIsNull, Numbered
  <2>5. QED
    BY <1>3, <2>3, <2>4 DEF SymbolInv
<1>5. CASE Symbols!Init
  <2>1. PICK o \in Loaded : syms = o.syms /\ hash = o.hash
    BY <1>5 DEF Symbols!Init
  <2>2. Symbols!IsTable(syms) /\ HashEnds
    BY <2>1, SymbolConstants DEF HashEnds
  <2>3. syms \in Seq(SymbolRecord) /\ Len(syms) <= MaxSymbols
    BY <2>2 DEF Symbols!IsTable, SymbolRecord
  <2>4. DOMAIN syms = 1..Len(syms) /\ Len(syms) \in Nat
    BY <2>3, LenProperties
  <2>5. \A i \in DOMAIN syms :
          /\ syms[i].id = i - 1
          /\ i = 1 => syms[i].name = NoName /\ syms[i].bind = "local"
    BY <2>2 DEF Symbols!IsTable
  <2>6. FirstIsNull(syms)
    BY <2>5, SymbolConstants DEF FirstIsNull
  <2>7. Numbered(syms)
    <3>1. \A id \in 0..(Len(syms) - 1) : id + 1 \in DOMAIN syms /\ syms[id + 1].id = id
      BY <2>4, <2>5
    <3>2. QED
      BY <2>4, <2>5, <3>1 DEF Numbered
  <2>8. QED
    <3>1. SymbolShape
      <4>1. arranged \in BOOLEAN /\ stage \in {"idle", "arranging"}
        BY <1>1
      <4>2. info \in Nat /\ first \in Nat \ {0} /\ answer \in Nat
        BY <1>1
      <4>3. QED
        BY <1>2, <2>2, <2>3, <4>1, <4>2 DEF SymbolShape
    <3>2. QED
      BY <1>3, <2>6, <2>7, <3>1 DEF SymbolInv
<1>6. QED
  BY <1>4, <1>5 DEF WriteInit

-----------------------------------------------------------------------------
\* The symbol an entry refers to.
LEMMA MeantIs ==
    ASSUME SymbolShape, NEW r \in RelocRecord, Symbols!SymOf(r) < Symbols!Count
    PROVE  /\ Symbols!SymOf(r) + 1 \in DOMAIN syms
           /\ Symbols!Sym(Symbols!SymOf(r)) = syms[Symbols!SymOf(r) + 1]
<1>1. Symbols!SymOf(r) \in Nat
  BY TypeIn
<1>2. QED
  BY <1>1, LenProperties DEF SymbolShape, Symbols!Count, Symbols!Sym

\* Entries keep to their symbols while the table grows.
LEMMA FollowGrown ==
    ASSUME SymbolShape, Symbols!RelocsFollow, NEW r \in RelocRecord,
           Symbols!SymOf(r) < Symbols!Count, Symbols!Sym(Symbols!SymOf(r)).id = r.meant,
           syms' \in Seq(SymbolRecord),
           \A i \in DOMAIN syms : i \in DOMAIN syms' /\ syms'[i] = syms[i]
    PROVE  Symbols!SymOf(r) < Len(syms') /\ syms'[Symbols!SymOf(r) + 1].id = r.meant
<1>1. Symbols!SymOf(r) + 1 \in DOMAIN syms' /\ Symbols!SymOf(r) \in Nat
  BY MeantIs, TypeIn
<1>2. DOMAIN syms' = 1..Len(syms')
  BY LenProperties
<1>3. QED
  BY <1>1, <1>2, MeantIs

\* A hash table stays as it was loaded.
LEMMA HashStays == HashEnds /\ UNCHANGED hash => HashEnds'
BY DEF HashEnds, Symbols!ChainsEnd, Symbols!SysvEnds, Symbols!GnuEnds

\* The invariant is kept by add_symbol,
LEMMA AddSymbolStep ==
    ASSUME SymbolInv, NEW n \in Names, NEW v \in Values, NEW b \in {"local", "global"},
           Symbols!AddSymbol(n, v, b)
    PROVE  SymbolInv'
<1>1. /\ SymbolShape /\ FirstIsNull(syms) /\ Numbered(syms) /\ Symbols!RelocsFollow
      /\ v \in Nat /\ MaxSymbols \in Nat
  BY SymbolConstants DEF SymbolInv
<1>2. /\ syms' = Symbols!Added(n, v, b) /\ answer' = Len(syms') - 1 /\ arranged' = FALSE
      /\ Len(Symbols!WithNull(syms)) < MaxSymbols
      /\ stage = "idle"
      /\ UNCHANGED <<info, hash, rela, relocs, stage, first>>
  BY DEF Symbols!AddSymbol, Symbols!LastIndex
<1>3. /\ syms' \in Seq(SymbolRecord) /\ FirstIsNull(syms') /\ Numbered(syms')
      /\ Len(syms') = Len(Symbols!WithNull(syms)) + 1 /\ Len(syms') >= 2
      /\ \A i \in DOMAIN syms : i \in DOMAIN syms' /\ syms'[i] = syms[i]
  BY <1>1, <1>2, AddedFacts
<1>4. Len(syms') \in Nat /\ Len(syms') <= MaxSymbols
  <2>1. Len(syms') \in Nat
    BY <1>3
  <2>2. Symbols!WithNull(syms) \in Seq(SymbolRecord)
    BY <1>1, NullFacts DEF Symbols!WithNull, SymbolShape
  <2>3. Len(Symbols!WithNull(syms)) \in Nat
    BY <2>2
  <2>4. QED
    BY <1>1, <1>2, <1>3, <2>1, <2>3
<1>5. SymbolShape'
  <2>1. arranged' \in BOOLEAN
    BY <1>2
  <2>2. answer' \in Nat
    BY <1>2, <1>3, <1>4
  <2>3. /\ relocs' \in Seq(RelocRecord) /\ HashEnds'
        /\ info' \in Nat /\ first' \in Nat \ {0} /\ stage' \in {"idle", "arranging"}
    BY <1>1, <1>2, HashStays DEF SymbolShape
  <2>4. QED
    BY <1>3, <1>4, <2>1, <2>2, <2>3 DEF SymbolShape
<1>6. Symbols!RelocsFollow'
  <2>1. \A i \in DOMAIN relocs :
          /\ relocs[i] \in RelocRecord
          /\ Symbols!SymOf(relocs[i]) < Symbols!Count
          /\ Symbols!Sym(Symbols!SymOf(relocs[i])).id = relocs[i].meant
    BY <1>1 DEF Symbols!RelocsFollow, SymbolShape
  <2>2. \A i \in DOMAIN relocs :
          /\ Symbols!SymOf(relocs[i]) < Len(syms')
          /\ syms'[Symbols!SymOf(relocs[i]) + 1].id = relocs[i].meant
    BY <1>1, <1>3, <2>1, FollowGrown
  <2>3. QED
    BY <1>2, <2>2 DEF Symbols!RelocsFollow, Symbols!Count, Symbols!Sym, Symbols!SymOf
<1>7. Symbols!LocalsFirst' /\ LocalsBehind'
  BY <1>2 DEF Symbols!LocalsFirst, LocalsBehind
<1>8. QED
  BY <1>3, <1>5, <1>6, <1>7 DEF SymbolInv

\* An entry is made for the symbol it is given.
LEMMA EntryFacts ==
    ASSUME NEW o \in Offsets, NEW sym \in Nat, sym < MaxSymbols, NEW t \in Types,
           NEW a \in Addends \cup {0}, NEW meant \in Nat
    PROVE  LET r == Symbols!Entry(o, sym, t, a, meant) IN
           r \in RelocRecord /\ Symbols!SymOf(r) = sym /\ r.meant = meant
<1>1. t \in 0..(TypeSpan - 1)
  BY SymbolConstants
<1>2. QED
  BY <1>1, InfoTakenApart DEF Symbols!Entry, RelocRecord, Symbols!SymOf

\* by add_entry,
LEMMA AddEntryStep ==
    ASSUME SymbolInv, NEW o \in Offsets, NEW k \in 0..(MaxSymbols - 1), NEW t \in Types,
           NEW a \in Addends, Symbols!AddEntry(o, k, t, a)
    PROVE  SymbolInv'
<1> DEFINE r == Symbols!Entry(o, k, t, a, Symbols!Sym(k).id)
<1>1. SymbolShape /\ FirstIsNull(syms) /\ Numbered(syms) /\ LocalsBehind
      /\ Symbols!RelocsFollow /\ Symbols!LocalsFirst
  BY DEF SymbolInv
<1>2. /\ k < Symbols!Count /\ relocs' = Append(relocs, r)
      /\ UNCHANGED <<syms, info, hash, rela, stage, first, arranged, answer>>
  BY DEF Symbols!AddEntry
<1>3. k \in Nat /\ k < MaxSymbols
  BY SymbolConstants
<1>4. Symbols!Sym(k).id \in Nat
  <2>1. syms \in Seq(SymbolRecord) /\ k + 1 \in 1..Len(syms)
    BY <1>1, <1>2, <1>3 DEF SymbolShape, Symbols!Count
  <2>2. syms[k + 1] \in SymbolRecord
    BY <2>1, ElementOfSeq
  <2>3. QED
    BY <2>2 DEF SymbolRecord, Symbols!Sym
<1>5. r \in RelocRecord /\ Symbols!SymOf(r) = k /\ r.meant = Symbols!Sym(k).id
  BY <1>3, <1>4, EntryFacts
<1> HIDE DEF r
<1>6. relocs \in Seq(RelocRecord)
  BY <1>1 DEF SymbolShape
<1>7. /\ relocs' \in Seq(RelocRecord) /\ DOMAIN relocs' = 1..(Len(relocs) + 1)
      /\ DOMAIN relocs = 1..Len(relocs) /\ Len(relocs) \in Nat
      /\ \A i \in DOMAIN relocs : relocs'[i] = relocs[i]
      /\ relocs'[Len(relocs) + 1] = r
  BY <1>2, <1>5, <1>6, AppendProperties, LenProperties
<1>8. SymbolShape'
  <2>1. HashEnds'
    BY <1>1, <1>2, HashStays DEF SymbolShape
  <2>2. QED
    BY <1>1, <1>2, <1>7, <2>1 DEF SymbolShape
<1>9. Symbols!RelocsFollow'
  <2>1. \A i \in DOMAIN relocs' :
          /\ Symbols!SymOf(relocs'[i]) < Symbols!Count
          /\ Symbols!Sym(Symbols!SymOf(relocs'[i])).id = relocs'[i].meant
    <3> TAKE i \in DOMAIN relocs'
    <3>1. CASE i = Len(relocs) + 1
      BY <1>2, <1>5, <1>7, <3>1
    <3>2. CASE i # Len(relocs) + 1
      <4>1. i \in DOMAIN relocs /\ relocs'[i] = relocs[i]
        BY <1>7, <3>2
      <4>2. QED
        BY <1>1, <4>1 DEF Symbols!RelocsFollow
    <3>3. QED
      BY <3>1, <3>2
  <2>2. QED
    BY <1>2, <2>1 DEF Symbols!RelocsFollow, Symbols!Count, Symbols!Sym, Symbols!SymOf
<1>10. Symbols!LocalsFirst' /\ LocalsBehind'
  BY <1>1, <1>2 DEF Symbols!LocalsFirst, LocalsBehind, Symbols!Count, Symbols!Local, Symbols!Sym
<1>11. FirstIsNull(syms)' /\ Numbered(syms)'
  BY <1>1, <1>2 DEF FirstIsNull, Numbered
<1>12. QED
  BY <1>8, <1>9, <1>10, <1>11 DEF SymbolInv

\* by add_entry with a name, which adds both a symbol and an entry,
LEMMA AddNamedStep ==
    ASSUME SymbolInv, NEW n \in Names, NEW v \in Values, NEW o \in Offsets, NEW t \in Types,
           Symbols!AddNamed(n, v, o, t)
    PROVE  SymbolInv'
<1> DEFINE r == Symbols!Entry(o, Len(syms') - 1, t, 0, Len(syms') - 1)
<1>1. /\ SymbolShape /\ FirstIsNull(syms) /\ Numbered(syms) /\ Symbols!RelocsFollow
      /\ v \in Nat /\ MaxSymbols \in Nat
  BY SymbolConstants DEF SymbolInv
<1>2. /\ syms' = Symbols!Added(n, v, "global") /\ arranged' = FALSE
      /\ Len(Symbols!WithNull(syms)) < MaxSymbols
      /\ relocs' = Append(relocs, r)
      /\ stage = "idle"
      /\ UNCHANGED <<info, hash, rela, stage, first, answer>>
  BY DEF Symbols!AddNamed, Symbols!LastIndex
<1>3. /\ syms' \in Seq(SymbolRecord) /\ FirstIsNull(syms') /\ Numbered(syms')
      /\ Len(syms') = Len(Symbols!WithNull(syms)) + 1 /\ Len(syms') >= 2
      /\ syms'[Len(syms')].id = Len(syms') - 1
      /\ \A i \in DOMAIN syms : i \in DOMAIN syms' /\ syms'[i] = syms[i]
  BY <1>1, <1>2, AddedFacts
<1>4. Len(syms') \in Nat /\ Len(syms') <= MaxSymbols
  <2>1. Len(syms') \in Nat
    BY <1>3
  <2>2. Symbols!WithNull(syms) \in Seq(SymbolRecord)
    BY <1>1, NullFacts DEF Symbols!WithNull, SymbolShape
  <2>3. Len(Symbols!WithNull(syms)) \in Nat
    BY <2>2
  <2>4. QED
    BY <1>1, <1>2, <1>3, <2>1, <2>3
<1>5. r \in RelocRecord /\ Symbols!SymOf(r) = Len(syms') - 1 /\ r.meant = Len(syms') - 1
  <2>1. Len(syms') - 1 \in Nat /\ Len(syms') - 1 < MaxSymbols
    BY <1>1, <1>3, <1>4
  <2> HIDE DEF r
  <2>2. 0 \in Addends \cup {0}
    OBVIOUS
  <2>3. QED
    BY <2>1, <2>2, EntryFacts DEF r
<1> HIDE DEF r
<1>6. relocs \in Seq(RelocRecord)
  BY <1>1 DEF SymbolShape
<1>7. /\ relocs' \in Seq(RelocRecord) /\ DOMAIN relocs' = 1..(Len(relocs) + 1)
      /\ DOMAIN relocs = 1..Len(relocs) /\ Len(relocs) \in Nat
      /\ \A i \in DOMAIN relocs : relocs'[i] = relocs[i] /\ relocs[i] \in RelocRecord
      /\ relocs'[Len(relocs) + 1] = r
  BY <1>2, <1>5, <1>6, AppendProperties, LenProperties, ElementOfSeq
<1>8. SymbolShape'
  <2>1. arranged' \in BOOLEAN
    BY <1>2
  <2>2. /\ HashEnds' /\ answer' \in Nat
        /\ info' \in Nat /\ first' \in Nat \ {0} /\ stage' \in {"idle", "arranging"}
    BY <1>1, <1>2, HashStays DEF SymbolShape
  <2>3. QED
    BY <1>3, <1>4, <1>7, <2>1, <2>2 DEF SymbolShape
<1>9. Symbols!RelocsFollow'
  <2>1. \A i \in DOMAIN relocs' :
          /\ Symbols!SymOf(relocs'[i]) < Len(syms')
          /\ syms'[Symbols!SymOf(relocs'[i]) + 1].id = relocs'[i].meant
    <3> TAKE i \in DOMAIN relocs'
    <3>1. CASE i = Len(relocs) + 1
      <4>1. Symbols!SymOf(relocs'[i]) = Len(syms') - 1 /\ relocs'[i].meant = Len(syms') - 1
        BY <1>5, <1>7, <3>1
      <4>2. Symbols!SymOf(relocs'[i]) + 1 = Len(syms')
        BY <1>4, <4>1
      <4>3. QED
        BY <1>3, <1>4, <4>1, <4>2
    <3>2. CASE i # Len(relocs) + 1
      <4>1. i \in DOMAIN relocs /\ relocs'[i] = relocs[i] /\ relocs[i] \in RelocRecord
        BY <1>7, <3>2
      <4>2. /\ Symbols!SymOf(relocs[i]) < Symbols!Count
            /\ Symbols!Sym(Symbols!SymOf(relocs[i])).id = relocs[i].meant
        BY <1>1, <4>1 DEF Symbols!RelocsFollow
      <4>3. QED
        BY <1>1, <1>3, <4>1, <4>2, FollowGrown
    <3>3. QED
      BY <3>1, <3>2
  <2>2. QED
    BY <2>1 DEF Symbols!RelocsFollow, Symbols!Count, Symbols!Sym, Symbols!SymOf
<1>10. Symbols!LocalsFirst' /\ LocalsBehind'
  BY <1>2 DEF Symbols!LocalsFirst, LocalsBehind
<1>11. QED
  BY <1>3, <1>8, <1>9, <1>10 DEF SymbolInv

-----------------------------------------------------------------------------
\* by the start of arrange_local_symbols,
LEMMA ArrangeStarts ==
    ASSUME SymbolInv, Symbols!Arrange
    PROVE  SymbolInv'
<1>1. SymbolShape /\ FirstIsNull(syms) /\ Numbered(syms)
      /\ Symbols!RelocsFollow /\ Symbols!LocalsFirst
  BY DEF SymbolInv
<1>2. /\ stage' = "arranging" /\ first' = 1
      /\ UNCHANGED <<syms, info, hash, rela, relocs, arranged, answer>>
  BY DEF Symbols!Arrange
<1>3. SymbolShape'
  <2>1. HashEnds' /\ stage' \in {"idle", "arranging"} /\ first' \in Nat \ {0}
    BY <1>1, <1>2, HashStays DEF SymbolShape
  <2>2. QED
    BY <1>1, <1>2, <2>1 DEF SymbolShape
<1>4. LocalsBehind'
  <2>1. DOMAIN syms = 1..Len(syms) /\ Len(syms) \in Nat
    BY <1>1, LenProperties DEF SymbolShape
  <2>2. \A i \in DOMAIN syms : i <= 1 => i = 1
    BY <2>1
  <2>3. QED
    BY <1>1, <1>2, <2>2 DEF LocalsBehind, FirstIsNull
<1>5. Symbols!RelocsFollow' /\ Symbols!LocalsFirst'
  BY <1>1, <1>2 DEF Symbols!RelocsFollow, Symbols!LocalsFirst, Symbols!Count, Symbols!Local,
                    Symbols!Sym, Symbols!SymOf
<1>6. FirstIsNull(syms)' /\ Numbered(syms)'
  BY <1>1, <1>2 DEF FirstIsNull, Numbered
<1>7. QED
  BY <1>3, <1>4, <1>5, <1>6 DEF SymbolInv

\* swap_symbols takes the entries of one symbol to the other.
LEMMA SwappedFacts ==
    ASSUME NEW r \in RelocRecord, NEW a \in Nat, a < MaxSymbols, NEW b \in Nat, b < MaxSymbols
    PROVE  LET t == Symbols!Swapped(r, a, b) IN
           /\ t \in RelocRecord /\ t.meant = r.meant /\ t.offset = r.offset /\ t.addend = r.addend
           /\ Symbols!TypeOf(t) = Symbols!TypeOf(r)
           /\ Symbols!SymOf(t) = IF Symbols!SymOf(r) = a THEN b
                                 ELSE IF Symbols!SymOf(r) = b THEN a ELSE Symbols!SymOf(r)
<1>1. Symbols!TypeOf(r) \in 0..(TypeSpan - 1)
  BY TypeIn
<1>2. ASSUME NEW k \in Nat, k < MaxSymbols
      PROVE  LET t == [r EXCEPT !.info = Symbols!R_INFO(k, Symbols!TypeOf(r))] IN
             /\ t \in RelocRecord /\ t.meant = r.meant /\ t.offset = r.offset /\ t.addend = r.addend
             /\ Symbols!TypeOf(t) = Symbols!TypeOf(r) /\ Symbols!SymOf(t) = k
  <2> DEFINE i == Symbols!R_INFO(k, Symbols!TypeOf(r))
             t == [r EXCEPT !.info = i]
  <2>1. i \in 0..(InfoSpan - 1) /\ i \div TypeSpan = k /\ i % TypeSpan = Symbols!TypeOf(r)
    BY <1>1, <1>2, InfoTakenApart
  <2> HIDE DEF i
  <2>2. t \in RelocRecord /\ t.meant = r.meant /\ t.offset = r.offset /\ t.addend = r.addend
        /\ t.info = i
    BY <2>1 DEF RelocRecord
  <2> HIDE DEF t
  <2>3. Symbols!TypeOf(t) = Symbols!TypeOf(r) /\ Symbols!SymOf(t) = k
    <3>1. Symbols!TypeOf(t) = i % TypeSpan /\ Symbols!SymOf(t) = i \div TypeSpan
      BY <2>2 DEF Symbols!TypeOf, Symbols!SymOf
    <3>2. QED
      BY <2>1, <3>1
  <2>4. QED
    BY <2>2, <2>3 DEF t, i
<1>3. CASE Symbols!SymOf(r) = a
  BY <1>2, <1>3 DEF Symbols!Swapped
<1>4. CASE Symbols!SymOf(r) # a /\ Symbols!SymOf(r) = b
  BY <1>2, <1>4 DEF Symbols!Swapped
<1>5. CASE Symbols!SymOf(r) # a /\ Symbols!SymOf(r) # b
  BY <1>5 DEF Symbols!Swapped
<1>6. QED
  BY <1>3, <1>4, <1>5

\* What a round of the loop does: it swaps two symbols, or it is the last.
SwapRound(a, b) ==
    /\ first' = a /\ b < Symbols!Count /\ a < b /\ 1 <= a
    /\ syms[a + 1].bind # "local" /\ syms[b + 1].bind = "local"
    /\ syms' = Symbols!Exchanged(a, b)
    /\ relocs' = [i \in DOMAIN relocs |-> Symbols!Swapped(relocs[i], a, b)]
    /\ UNCHANGED <<info, stage, arranged, hash, rela, answer>>
LastRound(a) ==
    /\ first' = a /\ info' = a /\ stage' = "idle" /\ arranged' = TRUE
    /\ \A i \in DOMAIN syms : (i <= a) <=> (syms[i].bind = "local")
    /\ UNCHANGED <<syms, relocs, hash, rela, answer>>

\* A round of the loop swaps two symbols or is the last.
LEMMA Rounds ==
    ASSUME SymbolInv, Symbols!ArrangeStep
    PROVE  \E a \in Nat \ {0} :
             /\ \A i \in DOMAIN syms : i <= a => syms[i].bind = "local"
             /\ LastRound(a) \/ \E b \in Nat : SwapRound(a, b)
<1> DEFINE a == Symbols!FirstNotLocal
           b == Symbols!NextLocal(a + 1)
           n == Symbols!Count
<1>1. SymbolShape /\ LocalsBehind /\ stage = "arranging"
  BY DEF SymbolInv, Symbols!ArrangeStep
<1>2. n = Len(syms) /\ DOMAIN syms = 1..Len(syms) /\ Len(syms) \in Nat /\ first \in Nat /\ 1 <= first
  BY <1>1, LenProperties DEF SymbolShape, Symbols!Count
<1>3. /\ a \in Nat /\ first <= a
      /\ a < n => ~Symbols!Local(a)
      /\ \A i \in first..(a - 1) : i < n => Symbols!Local(i)
  BY <1>1, FirstNotLocalIs
<1>4. /\ b \in Nat /\ a < b
      /\ b < n => Symbols!Local(b)
      /\ \A i \in (a + 1)..(b - 1) : i < n => ~Symbols!Local(i)
  BY <1>1, <1>3, NextLocalIs
<1>5. /\ first' = a
      /\ IF a < n /\ b < n
           THEN /\ syms' = Symbols!Exchanged(a, b)
                /\ relocs' = [i \in DOMAIN relocs |-> Symbols!Swapped(relocs[i], a, b)]
                /\ UNCHANGED <<info, stage, arranged>>
           ELSE /\ info' = a /\ stage' = "idle" /\ arranged' = TRUE
                /\ UNCHANGED <<syms, relocs>>
      /\ UNCHANGED <<hash, rela, answer>>
  BY DEF Symbols!ArrangeStep
<1>6. \A i \in Nat : Symbols!Local(i) <=> syms[i + 1].bind = "local"
  BY DEF Symbols!Local, Symbols!Sym
<1> HIDE DEF a, b, n
<1>7. \A i \in DOMAIN syms : i <= a => syms[i].bind = "local"
  <2> TAKE i \in DOMAIN syms
  <2> HAVE i <= a
  <2>1. i \in Nat /\ i - 1 \in Nat /\ i - 1 < n /\ (i - 1) + 1 = i
    BY <1>2
  <2>2. CASE i <= first
    BY <1>1, <2>2 DEF LocalsBehind
  <2>3. CASE ~(i <= first)
    <3>1. i - 1 \in first..(a - 1)
      BY <1>2, <1>3, <2>1, <2>3
    <3>2. Symbols!Local(i - 1)
      BY <1>3, <2>1, <3>1
    <3>3. QED
      BY <1>6, <2>1, <3>2
  <2>4. QED
    BY <2>2, <2>3
<1>8. CASE a < n /\ b < n
  <2>1. syms[a + 1].bind # "local" /\ syms[b + 1].bind = "local"
    BY <1>3, <1>4, <1>6, <1>8
  <2>2. SwapRound(a, b)
    BY <1>2, <1>3, <1>4, <1>5, <1>8, <2>1 DEF SwapRound, n
  <2>3. a \in Nat \ {0}
    BY <1>2, <1>3
  <2>4. QED
    BY <1>4, <1>7, <2>2, <2>3
<1>9. CASE ~(a < n /\ b < n)
  <2>1. \A i \in DOMAIN syms : (i <= a) <=> (syms[i].bind = "local")
    <3> TAKE i \in DOMAIN syms
    <3>1. i \in Nat /\ i - 1 \in Nat /\ i - 1 < n /\ (i - 1) + 1 = i
      BY <1>2
    <3>2. CASE i <= a
      BY <1>7, <3>2
    <3>3. CASE ~(i <= a)
      <4>1. a < n /\ ~(b < n)
        BY <1>2, <1>3, <1>9, <3>1, <3>3
      <4>2. CASE i - 1 = a
        BY <1>3, <1>6, <3>1, <3>3, <4>1, <4>2
      <4>3. CASE i - 1 # a
        <5>1. i - 1 \in (a + 1)..(b - 1)
          BY <1>2, <1>3, <1>4, <3>1, <3>3, <4>1, <4>3
        <5>2. ~Symbols!Local(i - 1)
          BY <1>4, <3>1, <5>1
        <5>3. QED
          BY <1>6, <3>1, <3>3, <5>2
      <4>4. QED
        BY <4>2, <4>3
    <3>4. QED
      BY <3>2, <3>3
  <2>2. LastRound(a)
    BY <1>5, <1>9, <2>1 DEF LastRound
  <2>3. a \in Nat \ {0}
    BY <1>2, <1>3
  <2>4. QED
    BY <1>7, <2>2, <2>3
<1>10. QED
  BY <1>8, <1>9

\* After a swap each entry refers to the symbol it did, at its new place.
LEMMA SwapFollows ==
    ASSUME SymbolInv, NEW a \in Nat, NEW b \in Nat, SwapRound(a, b), NEW i \in DOMAIN relocs
    PROVE  /\ relocs[i] \in RelocRecord /\ relocs'[i] \in RelocRecord
           /\ relocs'[i].meant = relocs[i].meant /\ relocs'[i].offset = relocs[i].offset
           /\ relocs'[i].addend = relocs[i].addend
           /\ Symbols!TypeOf(relocs'[i]) = Symbols!TypeOf(relocs[i])
           /\ Symbols!SymOf(relocs'[i]) < Len(syms')
           /\ syms'[Symbols!SymOf(relocs'[i]) + 1] = syms[Symbols!SymOf(relocs[i]) + 1]
<1> DEFINE r == relocs[i]
           t == Symbols!Swapped(r, a, b)
           k == Symbols!SymOf(r)
<1>1. SymbolShape /\ FirstIsNull(syms) /\ Numbered(syms) /\ Symbols!RelocsFollow
      /\ MaxSymbols \in Nat
  BY SymbolConstants DEF SymbolInv
<1>2. /\ Symbols!Count = Len(syms) /\ Len(syms) \in Nat /\ Len(syms) <= MaxSymbols
      /\ DOMAIN syms = 1..Len(syms)
  BY <1>1, LenProperties DEF SymbolShape, Symbols!Count
<1>3. 1 <= a /\ a < b /\ b < Len(syms) /\ a < MaxSymbols /\ b < MaxSymbols
  BY <1>1, <1>2 DEF SwapRound
<1>4. r \in RelocRecord /\ k < Len(syms)
  <2>1. relocs \in Seq(RelocRecord)
    BY <1>1 DEF SymbolShape
  <2>2. r \in RelocRecord
    BY <2>1, ElementOfSeq, LenProperties
  <2>3. QED
    BY <1>1, <1>2, <2>2 DEF Symbols!RelocsFollow
<1>5. relocs'[i] = t
  BY DEF SwapRound
<1>6. /\ t \in RelocRecord /\ t.meant = r.meant /\ t.offset = r.offset /\ t.addend = r.addend
      /\ Symbols!TypeOf(t) = Symbols!TypeOf(r)
      /\ Symbols!SymOf(t) = IF k = a THEN b ELSE IF k = b THEN a ELSE k
  BY <1>3, <1>4, SwappedFacts
<1>7. /\ Len(syms') = Len(syms)
      /\ syms'[a + 1] = syms[b + 1] /\ syms'[b + 1] = syms[a + 1]
      /\ \A x \in DOMAIN syms \ {a + 1, b + 1} : syms'[x] = syms[x]
  BY <1>1, <1>2, <1>3, ExchangeFacts DEF SwapRound
<1>8. k \in Nat
  BY <1>4, TypeIn
<1> HIDE DEF t, k
<1>9. Symbols!SymOf(t) < Len(syms') /\ syms'[Symbols!SymOf(t) + 1] = syms[k + 1]
  <2>1. CASE k = a
    BY <1>3, <1>6, <1>7, <2>1
  <2>2. CASE k = b
    BY <1>3, <1>6, <1>7, <2>2
  <2>3. CASE k # a /\ k # b
    <3>1. k + 1 \in DOMAIN syms \ {a + 1, b + 1}
      BY <1>2, <1>4, <1>8, <2>3 DEF k
    <3>2. QED
      BY <1>4, <1>6, <1>7, <2>3, <3>1 DEF k
  <2>4. QED
    BY <2>1, <2>2, <2>3
<1>10. QED
  BY <1>4, <1>5, <1>6, <1>9 DEF k

\* by a round that swaps,
LEMMA SwapStep ==
    ASSUME SymbolInv, NEW a \in Nat, NEW b \in Nat, SwapRound(a, b),
           \A i \in DOMAIN syms : i <= a => syms[i].bind = "local"
    PROVE  SymbolInv'
<1>1. SymbolShape /\ FirstIsNull(syms) /\ Numbered(syms)
      /\ Symbols!RelocsFollow /\ Symbols!LocalsFirst
  BY DEF SymbolInv
<1>2. /\ Symbols!Count = Len(syms) /\ Len(syms) \in Nat /\ DOMAIN syms = 1..Len(syms)
      /\ 1 <= a /\ a < b /\ b < Len(syms)
  BY <1>1, LenProperties DEF SymbolShape, Symbols!Count, SwapRound
<1>3. /\ syms' \in Seq(SymbolRecord) /\ FirstIsNull(syms') /\ Numbered(syms')
      /\ Len(syms') = Len(syms) /\ DOMAIN syms' = DOMAIN syms
      /\ \A x \in DOMAIN syms \ {a + 1, b + 1} : syms'[x] = syms[x]
  BY <1>1, <1>2, ExchangeFacts, LenProperties DEF SwapRound
<1>4. /\ first' = a /\ UNCHANGED <<info, stage, arranged, hash, rela, answer>>
      /\ relocs' = [i \in DOMAIN relocs |-> Symbols!Swapped(relocs[i], a, b)]
  BY DEF SwapRound
<1>5. relocs' \in Seq(RelocRecord) /\ DOMAIN relocs' = DOMAIN relocs
  <2>1. relocs \in Seq(RelocRecord)
    BY <1>1 DEF SymbolShape
  <2>2. DOMAIN relocs = 1..Len(relocs) /\ Len(relocs) \in Nat
    BY <2>1, LenProperties
  <2>3. \A i \in DOMAIN relocs : relocs'[i] \in RelocRecord
    BY SwapFollows
  <2>4. relocs' \in [1..Len(relocs) -> RelocRecord]
    BY <1>4, <2>2, <2>3
  <2>5. QED
    BY <1>4, <2>2, <2>4, SeqDef
<1>6. SymbolShape'
  <2>1. HashEnds' /\ first' \in Nat \ {0}
    BY <1>1, <1>2, <1>4, HashStays DEF SymbolShape
  <2>2. QED
    BY <1>1, <1>3, <1>4, <1>5, <2>1 DEF SymbolShape
<1>7. LocalsBehind'
  <2>1. \A i \in DOMAIN syms : i <= a => i \notin {a + 1, b + 1}
    BY <1>2
  <2>2. \A i \in DOMAIN syms' : i <= first' => syms'[i].bind = "local"
    BY <1>3, <1>4, <2>1
  <2>3. QED
    BY <2>2 DEF LocalsBehind
<1>8. Symbols!RelocsFollow'
  <2>1. \A i \in DOMAIN relocs' :
          /\ Symbols!SymOf(relocs'[i]) < Len(syms')
          /\ syms'[Symbols!SymOf(relocs'[i]) + 1].id = relocs'[i].meant
    <3> TAKE i \in DOMAIN relocs'
    <3>1. /\ Symbols!SymOf(relocs'[i]) < Len(syms') /\ relocs'[i].meant = relocs[i].meant
          /\ syms'[Symbols!SymOf(relocs'[i]) + 1] = syms[Symbols!SymOf(relocs[i]) + 1]
      BY <1>5, SwapFollows
    <3>2. syms[Symbols!SymOf(relocs[i]) + 1].id = relocs[i].meant
      BY <1>1, <1>5 DEF Symbols!RelocsFollow, Symbols!Sym
    <3>3. QED
      BY <3>1, <3>2
  <2>2. QED
    BY <2>1 DEF Symbols!RelocsFollow, Symbols!Count, Symbols!Sym, Symbols!SymOf
<1>9. ~arranged
  <2>1. SUFFICES ASSUME arranged PROVE FALSE
    OBVIOUS
  <2>2. \A i \in 0..(Len(syms) - 1) : (i < info) <=> syms[i + 1].bind = "local"
    BY <1>1, <1>2, <2>1 DEF Symbols!LocalsFirst, Symbols!Local, Symbols!Sym
  <2>3. a \in 0..(Len(syms) - 1) /\ b \in 0..(Len(syms) - 1)
    BY <1>2
  <2>4. ~(a < info) /\ b < info
    BY <2>2, <2>3 DEF SwapRound
  <2>5. info \in Nat
    BY <1>1 DEF SymbolShape
  <2>6. QED
    BY <1>2, <2>4, <2>5
<1>10. Symbols!LocalsFirst'
  BY <1>4, <1>9 DEF Symbols!LocalsFirst
<1>11. QED
  BY <1>3, <1>6, <1>7, <1>8, <1>10 DEF SymbolInv

\* and by the last one.
LEMMA LastStep ==
    ASSUME SymbolInv, NEW a \in Nat \ {0}, LastRound(a)
    PROVE  SymbolInv'
<1>1. SymbolShape /\ FirstIsNull(syms) /\ Numbered(syms) /\ Symbols!RelocsFollow
  BY DEF SymbolInv
<1>2. /\ first' = a /\ info' = a /\ stage' = "idle" /\ arranged' = TRUE
      /\ \A i \in DOMAIN syms : (i <= a) <=> (syms[i].bind = "local")
      /\ UNCHANGED <<syms, relocs, hash, rela, answer>>
  BY DEF LastRound
<1>3. SymbolShape'
  <2>1. HashEnds' /\ stage' \in {"idle", "arranging"} /\ arranged' \in BOOLEAN
    BY <1>1, <1>2, HashStays DEF SymbolShape
  <2>2. QED
    BY <1>1, <1>2, <2>1 DEF SymbolShape
<1>4. LocalsBehind'
  BY <1>2 DEF LocalsBehind
<1>5. Symbols!LocalsFirst'
  <2>1. DOMAIN syms = 1..Len(syms) /\ Len(syms) \in Nat
    BY <1>1, LenProperties DEF SymbolShape
  <2>2. \A i \in 0..(Len(syms) - 1) : (i < a) <=> (syms[i + 1].bind = "local")
    <3> TAKE i \in 0..(Len(syms) - 1)
    <3>1. i + 1 \in DOMAIN syms /\ ((i < a) <=> (i + 1 <= a))
      BY <2>1
    <3>2. QED
      BY <1>2, <3>1
  <2>3. QED
    BY <1>2, <2>2 DEF Symbols!LocalsFirst, Symbols!Count, Symbols!Local, Symbols!Sym
<1>6. Symbols!RelocsFollow'
  BY <1>1, <1>2 DEF Symbols!RelocsFollow, Symbols!Count, Symbols!Sym, Symbols!SymOf
<1>7. FirstIsNull(syms)' /\ Numbered(syms)'
  BY <1>1, <1>2 DEF FirstIsNull, Numbered
<1>8. QED
  BY <1>3, <1>4, <1>5, <1>6, <1>7 DEF SymbolInv

\* Saving an object leaves the symbols alone.
LEMMA SymbolsStay == SymbolInv /\ UNCHANGED symbolVars => SymbolInv'
<1> SUFFICES ASSUME SymbolInv, UNCHANGED symbolVars PROVE SymbolInv'
  OBVIOUS
<1>1. UNCHANGED <<syms, info, hash, relocs, stage, first, arranged, answer>>
  BY DEF symbolVars
<1>2. SymbolShape'
  BY <1>1, HashStays DEF SymbolInv, SymbolShape
<1>3. FirstIsNull(syms)' /\ Numbered(syms)' /\ LocalsBehind'
  BY <1>1 DEF SymbolInv, FirstIsNull, Numbered, LocalsBehind
<1>4. Symbols!RelocsFollow' /\ Symbols!LocalsFirst'
  BY <1>1 DEF SymbolInv, Symbols!RelocsFollow, Symbols!LocalsFirst, Symbols!Count,
              Symbols!Local, Symbols!Sym, Symbols!SymOf
<1>5. QED
  BY <1>2, <1>3, <1>4 DEF SymbolInv

\* Every step keeps the invariant.
LEMMA SymbolsStep == SymbolInv /\ [WriteNext]_writeVars => SymbolInv'
<1> SUFFICES ASSUME SymbolInv, [WriteNext]_writeVars PROVE SymbolInv'
  OBVIOUS
<1>1. CASE UNCHANGED symbolVars
  BY <1>1, SymbolsStay
<1>2. CASE SymbolStep(Symbols!Next)
  <2>1. Symbols!Next
    BY <1>2 DEF SymbolStep
  <2>2. CASE Symbols!ArrangeStep
    BY <2>2, Rounds, SwapStep, LastStep
  <2>3. QED
    BY <2>1, <2>2, AddSymbolStep, AddEntryStep, AddNamedStep, ArrangeStarts DEF Symbols!Next
<1>3. QED
  BY <1>1, <1>2 DEF WriteNext, LayStep, writeVars, symbolVars

-----------------------------------------------------------------------------
\* The instance's finite sets and their sizes are the library's.
LEMMA SymbolFinite == ASSUME NEW S PROVE Symbols!IsFiniteSet(S) <=> IsFiniteSet(S)
BY DEF Symbols!IsFiniteSet, IsFiniteSet

LEMMA SymbolCardinality == ASSUME NEW S PROVE Symbols!Cardinality(S) = Cardinality(S)
BY Zenon DEF Symbols!Cardinality, Cardinality

(* Looking up a name: a walk along a chain, which ends.                     *)

\* rank(y) steps at most from y on; a walk from y ends there or goes on.
WalksDown(next, ends, rank, D, n) ==
    /\ n \in Nat /\ ends \subseteq D
    /\ rank \in [D -> 0..n] /\ next \in [D -> D]
    /\ \A y \in D \ ends : rank[next[y]] < rank[y]
Walks(f, next, ends, result, D) ==
    f = [y \in D |-> IF y \in ends THEN result[y] ELSE f[next[y]]]

\* The numbers below a rank.
LEMMA UpTo ==
    ASSUME NEW n \in Nat, NEW P \in SUBSET (0..n), 0 \in P,
           \A k \in 1..n : k - 1 \in P => k \in P
    PROVE  n \in P
<1> SUFFICES ASSUME n \notin P PROVE FALSE
  OBVIOUS
<1> DEFINE S == (0..n) \ P
<1>1. S \in SUBSET Nat /\ S # {}
  OBVIOUS
<1>2. PICK m \in S : \A k \in S : m <= k
  BY <1>1, LeastNumber
<1>3. m \in 1..n /\ m - 1 \in 0..n
  BY <1>2
<1>4. m - 1 \notin S
  BY <1>2, <1>3
<1>5. QED
  BY <1>2, <1>3, <1>4

\* A walk along a chain exists: a function that meets the equation of the
\* definition, which CHOOSE picks.
LEMMA WalkExists ==
    ASSUME NEW next, NEW ends, NEW rank, NEW D, NEW n, NEW result,
           WalksDown(next, ends, rank, D, n)
    PROVE  \E f : Walks(f, next, ends, result, D)
<1> USE DEF WalksDown
<1> DEFINE Low(k) == {y \in D : rank[y] <= k}
           Follows(f, k) == \A y \in Low(k) : f[y] = IF y \in ends THEN result[y] ELSE f[next[y]]
           P == {k \in 0..n : \E f : f = [y \in D |-> f[y]] /\ Follows(f, k)}
<1>1. 0 \in P
  <2> DEFINE f == [y \in D |-> result[y]]
  <2>1. \A y \in Low(0) : y \in ends
    OBVIOUS
  <2>2. Follows(f, 0)
    BY <2>1
  <2>3. f = [y \in D |-> f[y]]
    OBVIOUS
  <2>4. 0 \in 0..n
    OBVIOUS
  <2>5. QED
    BY <2>2, <2>3, <2>4
<1>2. ASSUME NEW k \in 1..n, k - 1 \in P
      PROVE  k \in P
  <2>1. PICK f : f = [y \in D |-> f[y]] /\ Follows(f, k - 1)
    BY <1>2
  <2> DEFINE g == [y \in D |-> IF rank[y] <= k - 1 THEN f[y]
                               ELSE IF y \in ends THEN result[y] ELSE f[next[y]]]
  <2>2. g = [y \in D |-> g[y]]
    OBVIOUS
  <2>3. \A y \in Low(k) \ ends : g[next[y]] = f[next[y]]
    <3> TAKE y \in Low(k) \ ends
    <3>1. next[y] \in D /\ rank[next[y]] < rank[y] /\ rank[next[y]] \in 0..n /\ rank[y] \in 0..n
          /\ rank[y] <= k
      OBVIOUS
    <3>2. rank[next[y]] <= k - 1
      BY <3>1
    <3>3. QED
      BY <3>1, <3>2
  <2>4. \A y \in Low(k) : g[y] = IF y \in ends THEN result[y] ELSE f[next[y]]
    <3> TAKE y \in Low(k)
    <3>1. CASE rank[y] <= k - 1
      <4>1. y \in Low(k - 1) /\ g[y] = f[y]
        BY <3>1
      <4>2. QED
        BY <2>1, <4>1
    <3>2. CASE ~(rank[y] <= k - 1)
      BY <3>2
    <3>3. QED
      BY <3>1, <3>2
  <2> HIDE DEF g
  <2>5. Follows(g, k)
    BY <2>3, <2>4
  <2>6. k \in 0..n
    OBVIOUS
  <2>7. QED
    BY <2>2, <2>5, <2>6
<1>3. n \in P
  <2> HIDE DEF P
  <2>1. P \in SUBSET (0..n)
    BY DEF P
  <2>2. QED
    BY <1>1, <1>2, <2>1, UpTo
<1>4. PICK f : f = [y \in D |-> f[y]] /\ Follows(f, n)
  BY <1>3
<1>5. \A y \in D : f[y] = IF y \in ends THEN result[y] ELSE f[next[y]]
  BY <1>4
<1>6. f = [y \in D |-> IF y \in ends THEN result[y] ELSE f[next[y]]]
  BY <1>4, <1>5
<1>7. QED
  BY <1>6 DEF Walks

\* What such a walk comes to is what one of its ends gives.
LEMMA WalkEnds ==
    ASSUME NEW next, NEW ends, NEW rank, NEW D, NEW n, NEW result,
           WalksDown(next, ends, rank, D, n), NEW f, Walks(f, next, ends, result, D),
           NEW y \in D
    PROVE  \E e \in ends : f[y] = result[e]
<1> USE DEF WalksDown, Walks
<1> DEFINE Bad == {x \in D : ~\E e \in ends : f[x] = result[e]}
           S == {rank[x] : x \in Bad}
<1> SUFFICES ASSUME y \in Bad PROVE FALSE
  OBVIOUS
<1>1. S \in SUBSET Nat /\ S # {}
  OBVIOUS
<1>2. PICK m \in S : \A k \in S : m <= k
  BY <1>1, LeastNumber
<1>3. PICK x \in Bad : rank[x] = m
  BY <1>2
<1>4. \A z \in D : f[z] = IF z \in ends THEN result[z] ELSE f[next[z]]
  OBVIOUS
<1>5. x \notin ends
  BY <1>3, <1>4
<1>6. next[x] \in Bad /\ rank[next[x]] < m
  BY <1>3, <1>4, <1>5
<1>7. rank[next[x]] \in S /\ rank[next[x]] \in Nat /\ m \in Nat
  BY <1>1, <1>2, <1>6
<1>8. m <= rank[next[x]]
  <2> HIDE DEF S
  <2>1. QED
    BY <1>2, <1>7
<1>9. QED
  BY <1>6, <1>7, <1>8

\* A walk along a chain comes to the symbol with the name or gives up.
LEMMA HashLookupIs ==
    ASSUME SymbolShape, hash # NoHash, hash.kind = "sysv", NEW n \in Names
    PROVE  \/ Symbols!HashLookup(n) \in Nat /\ Symbols!Named(Symbols!HashLookup(n), n)
           \/ Symbols!HashLookup(n) = Symbols!Count
<1> DEFINE D == 0..(hash.nchain - 1)
           ends == {y \in D : y = 0 \/ Symbols!Named(y, n)}
           result == [y \in D |-> IF Symbols!Named(y, n) THEN y ELSE Symbols!Count]
           next == [y \in D |-> IF y = 0 THEN 0 ELSE hash.chain[y]]
           walk == CHOOSE f : f = [y \in D |-> IF Symbols!Named(y, n) THEN y
                                               ELSE IF y = 0 THEN Symbols!Count
                                               ELSE f[hash.chain[y]]]
           at == hash.bucket[HashOf[n] % hash.nbucket]
<1>1. Symbols!ChainsEnd(hash)
  BY DEF SymbolShape, HashEnds
<1>2. /\ hash.nchain \in Nat /\ hash.nchain > 0 /\ hash.nbucket \in Nat /\ hash.nbucket > 0
      /\ hash.bucket \in [0..(hash.nbucket - 1) -> 0..(hash.nchain - 1)]
      /\ \E left \in [0..(hash.nchain - 1) -> 0..(hash.nchain - 1)] :
           \A y \in 1..(hash.nchain - 1) :
             hash.chain[y] \in 0..(hash.nchain - 1) /\ left[hash.chain[y]] < left[y]
  BY <1>1 DEF Symbols!ChainsEnd, Symbols!SysvEnds
<1>3. PICK left \in [D -> D] :
        \A y \in 1..(hash.nchain - 1) : hash.chain[y] \in D /\ left[hash.chain[y]] < left[y]
  BY <1>2
<1>4. WalksDown(next, ends, left, D, hash.nchain - 1)
  <2>1. hash.nchain - 1 \in Nat /\ \A y \in D : y # 0 => y \in 1..(hash.nchain - 1)
    BY <1>2
  <2>2. next \in [D -> D]
    BY <1>2, <1>3, <2>1
  <2>3. \A y \in D \ ends : left[next[y]] < left[y]
    BY <1>3, <2>1
  <2>4. left \in [D -> 0..(hash.nchain - 1)] /\ ends \subseteq D
    BY <1>3
  <2> HIDE DEF D, next, ends
  <2>5. QED
    BY <2>1, <2>2, <2>3, <2>4 DEF WalksDown
<1>5. ASSUME NEW f
      PROVE  Walks(f, next, ends, result, D) <=>
               f = [y \in D |-> IF Symbols!Named(y, n) THEN y
                                ELSE IF y = 0 THEN Symbols!Count ELSE f[hash.chain[y]]]
  <2>1. \A y \in D : (IF y \in ends THEN result[y] ELSE f[next[y]]) =
                     (IF Symbols!Named(y, n) THEN y
                      ELSE IF y = 0 THEN Symbols!Count ELSE f[hash.chain[y]])
    OBVIOUS
  <2> HIDE DEF D, ends, result, next
  <2>2. QED
    BY <2>1 DEF Walks
<1>6. Walks(walk, next, ends, result, D)
  <2>1. \E f : Walks(f, next, ends, result, D)
    BY <1>4, WalkExists
  <2>2. \E f : f = [y \in D |-> IF Symbols!Named(y, n) THEN y
                                ELSE IF y = 0 THEN Symbols!Count ELSE f[hash.chain[y]]]
    BY <1>5, <2>1
  <2>3. walk = [y \in D |-> IF Symbols!Named(y, n) THEN y
                            ELSE IF y = 0 THEN Symbols!Count ELSE walk[hash.chain[y]]]
    <3> HIDE DEF D
    <3>1. QED
      BY <2>2
  <2> HIDE DEF walk
  <2>4. QED
    BY <1>5, <2>3
<1>7. Symbols!HashLookup(n) = walk[at]
  BY DEF Symbols!HashLookup
<1>8. at \in D
  <2>1. HashOf[n] \in Nat
    BY TablesAssumption DEF Symbols!SymbolsAssumption
  <2>2. HashOf[n] % hash.nbucket \in 0..(hash.nbucket - 1)
    BY <1>2, <2>1
  <2>3. QED
    BY <1>2, <2>2
<1>9. PICK e \in ends : walk[at] = result[e]
  <2> HIDE DEF D, ends, result, next, walk, at
  <2>1. QED
    BY <1>4, <1>6, <1>8, WalkEnds
<1>10. QED
  <2> HIDE DEF walk, at
  <2>1. e \in Nat /\ ((result[e] = e /\ Symbols!Named(e, n)) \/ result[e] = Symbols!Count)
    OBVIOUS
  <2>2. QED
    BY <1>7, <1>9, <2>1

\* The same for a chain of a gnu hash table.
LEMMA GnuLookupIs ==
    ASSUME SymbolShape, hash # NoHash, hash.kind = "gnu", NEW n \in Names
    PROVE  \/ Symbols!GnuLookup(n) \in Nat /\ Symbols!Named(Symbols!GnuLookup(n), n)
           \/ Symbols!GnuLookup(n) = Symbols!Count
<1> DEFINE h == HashOf[n]
           D == DOMAIN hash.chain
           last == hash.symoffset + Symbols!Cardinality(D) - 1
           right(y) == hash.chain[y] \div 2 = h \div 2 /\ Symbols!Named(y, n)
           ends == {y \in D : right(y) \/ hash.chain[y] % 2 = 1}
           result == [y \in D |-> IF right(y) THEN y ELSE Symbols!Count]
           next == [y \in D |-> IF y = last THEN y ELSE y + 1]
           rank == [y \in D |-> last - y]
           walk == CHOOSE f : f = [y \in D |-> IF right(y) THEN y
                                               ELSE IF hash.chain[y] % 2 = 1 THEN Symbols!Count
                                               ELSE f[y + 1]]
           at == hash.bucket[h % hash.nbucket]
<1>1. Symbols!ChainsEnd(hash)
  BY DEF SymbolShape, HashEnds
<1>2. /\ hash.symoffset \in Nat /\ hash.nbucket \in Nat /\ hash.nbucket > 0
      /\ Symbols!IsFiniteSet(D) /\ hash.chain \in [hash.symoffset..last -> Nat]
      /\ D # {} => hash.chain[last] % 2 = 1
      /\ \A b \in 0..(hash.nbucket - 1) : hash.bucket[b] >= hash.symoffset => hash.bucket[b] \in D
  BY <1>1 DEF Symbols!ChainsEnd, Symbols!GnuEnds
<1>3. D = hash.symoffset..last /\ last \in Int
  <2>1. Symbols!Cardinality(D) \in Nat
    BY <1>2, SymbolFinite, SymbolCardinality, FS_CardinalityType
  <2>2. QED
    BY <1>2, <2>1
<1>4. Symbols!GnuLookup(n) = IF Symbols!InBloom(h) /\ at >= hash.symoffset THEN walk[at]
                             ELSE Symbols!Count
  BY DEF Symbols!GnuLookup
<1>5. CASE ~(Symbols!InBloom(h) /\ at >= hash.symoffset)
  BY <1>4, <1>5
<1>6. CASE Symbols!InBloom(h) /\ at >= hash.symoffset
  <2>1. at \in D
    <3>1. h \in Nat
      BY TablesAssumption DEF Symbols!SymbolsAssumption
    <3>2. h % hash.nbucket \in 0..(hash.nbucket - 1)
      BY <1>2, <3>1
    <3>3. QED
      BY <1>2, <1>6, <3>2
  <2> HIDE DEF at, h
  <2>2. last \in D /\ last - hash.symoffset \in Nat
    <3> HIDE DEF last, D
    <3>1. QED
      BY <1>2, <1>3, <2>1
  <2>3. WalksDown(next, ends, rank, D, last - hash.symoffset)
    <3>1. \A y \in D : last - y \in 0..(last - hash.symoffset) /\ (y # last => y + 1 \in D)
      <4> HIDE DEF last, D
      <4>1. QED
        BY <1>2, <1>3, <2>2
    <3>2. last \in ends
      BY <1>2, <2>2
    <3>3. next \in [D -> D] /\ rank \in [D -> 0..(last - hash.symoffset)] /\ ends \subseteq D
      <4> HIDE DEF last, D
      <4>1. QED
        BY <2>2, <3>1
    <3>4. \A y \in D \ ends : rank[next[y]] < rank[y]
      <4> TAKE y \in D \ ends
      <4> HIDE DEF last, D
      <4>1. y # last /\ y + 1 \in D /\ y \in D
        BY <3>1, <3>2
      <4>2. next[y] = y + 1 /\ rank[y + 1] = last - (y + 1) /\ rank[y] = last - y
        BY <4>1
      <4>3. y \in Int /\ last \in Int
        BY <1>2, <1>3
      <4>4. QED
        BY <4>2, <4>3
    <3> HIDE DEF last, D, next, rank, ends
    <3>5. QED
      BY <2>2, <3>3, <3>4 DEF WalksDown
  <2>4. ASSUME NEW f
        PROVE  Walks(f, next, ends, result, D) <=>
                 f = [y \in D |-> IF right(y) THEN y
                                  ELSE IF hash.chain[y] % 2 = 1 THEN Symbols!Count ELSE f[y + 1]]
    <3>1. \A y \in D \ ends : next[y] = y + 1
      BY <1>2, <2>2
    <3>2. \A y \in D : (IF y \in ends THEN result[y] ELSE f[next[y]]) =
                       (IF right(y) THEN y
                        ELSE IF hash.chain[y] % 2 = 1 THEN Symbols!Count ELSE f[y + 1])
      <4> TAKE y \in D
      <4>1. CASE y \in ends
        <5> HIDE DEF D, last, right
        <5>1. QED
          BY <4>1
      <4>2. CASE y \notin ends
        <5>1. next[y] = y + 1
          BY <3>1, <4>2
        <5> HIDE DEF D, last, right, next
        <5>2. QED
          BY <4>2, <5>1
      <4>3. QED
        BY <4>1, <4>2
    <3> HIDE DEF D, ends, result, next, right
    <3>3. QED
      BY <3>2 DEF Walks
  <2>5. Walks(walk, next, ends, result, D)
    <3>1. \E f : Walks(f, next, ends, result, D)
      <4> HIDE DEF D, ends, result, next, rank
      <4>1. QED
        BY <2>3, WalkExists
    <3>2. \E f : f = [y \in D |-> IF right(y) THEN y
                                  ELSE IF hash.chain[y] % 2 = 1 THEN Symbols!Count ELSE f[y + 1]]
      <4> HIDE DEF D, ends, result, next, right
      <4>1. QED
        BY <2>4, <3>1
    <3>3. walk = [y \in D |-> IF right(y) THEN y
                              ELSE IF hash.chain[y] % 2 = 1 THEN Symbols!Count ELSE walk[y + 1]]
      <4> HIDE DEF D, right
      <4>1. QED
        BY <3>2
    <3> HIDE DEF walk, D, ends, result, next, right
    <3>4. QED
      BY <2>4, <3>3
  <2>6. PICK e \in ends : walk[at] = result[e]
    <3> HIDE DEF D, ends, result, next, rank, walk
    <3>1. QED
      BY <2>1, <2>3, <2>5, WalkEnds
  <2>7. e \in D /\ ((result[e] = e /\ Symbols!Named(e, n)) \/ result[e] = Symbols!Count)
    <3> HIDE DEF D
    <3>1. QED
      OBVIOUS
  <2>8. e \in Nat
    <3> HIDE DEF D, last
    <3>1. QED
      BY <1>2, <1>3, <2>7
  <2> HIDE DEF walk, ends, result
  <2>9. QED
    BY <1>4, <1>6, <2>6, <2>7, <2>8
<1>7. QED
  BY <1>5, <1>6

\* Every symbol is looked at from the first on.
LEMMA FirstNamedIs ==
    ASSUME SymbolShape, NEW n \in Names
    PROVE  LET i == Symbols!From(0, LAMBDA x : Symbols!Sym(x).name = n) IN
           IF \E k \in DOMAIN syms : syms[k].name = n THEN Symbols!Named(i, n)
                                                      ELSE i = Symbols!Count
<1> DEFINE c == Symbols!Count
           L(x) == Symbols!Sym(x).name = n
           S == {x \in 0..(c - 1) : L(x)}
           i == Symbols!From(0, LAMBDA x : Symbols!Sym(x).name = n)
<1>1. c = Len(syms) /\ Len(syms) \in Nat /\ DOMAIN syms = 1..Len(syms)
  BY LenProperties DEF SymbolShape, Symbols!Count
<1>2. i = IF \E x \in 0..(c - 1) : L(x)
            THEN CHOOSE x \in 0..(c - 1) : L(x) /\ \A k \in 0..(x - 1) : ~L(k)
            ELSE IF 0 > c THEN 0 ELSE c
  BY DEF Symbols!From
<1>3. (\E k \in DOMAIN syms : syms[k].name = n) <=> \E x \in 0..(c - 1) : L(x)
  <2>1. \A k \in DOMAIN syms : k - 1 \in 0..(c - 1) /\ (L(k - 1) <=> syms[k].name = n)
    BY <1>1 DEF Symbols!Sym
  <2>2. \A x \in 0..(c - 1) : x + 1 \in DOMAIN syms /\ (L(x) <=> syms[x + 1].name = n)
    BY <1>1 DEF Symbols!Sym
  <2> HIDE DEF L, c
  <2>3. QED
    BY <2>1, <2>2
<1>4. CASE \E x \in 0..(c - 1) : L(x)
  <2>1. S \in SUBSET Nat /\ S # {}
    BY <1>1, <1>4
  <2>2. PICK m \in S : \A k \in S : m <= k
    BY <2>1, LeastNumber
  <2>3. m \in 0..(c - 1) /\ L(m)
    BY <2>2
  <2> HIDE DEF c, L
  <2>4. \A k \in 0..(m - 1) : ~L(k)
    <3>1. c \in Nat
      BY <1>1
    <3>2. \A k \in 0..(m - 1) : k \in 0..(c - 1) /\ ~(m <= k)
      BY <2>3, <3>1
    <3>3. QED
      BY <2>2, <3>2
  <2>5. \E x \in 0..(c - 1) : L(x) /\ \A k \in 0..(x - 1) : ~L(k)
    BY <2>3, <2>4
  <2> HIDE DEF i
  <2>6. i \in 0..(c - 1) /\ L(i)
    BY <1>2, <1>4, <2>5
  <2>7. Symbols!Named(i, n)
    BY <1>1, <2>6 DEF Symbols!Named, c, L
  <2>8. QED
    BY <1>3, <1>4, <2>7 DEF i
<1>5. CASE ~\E x \in 0..(c - 1) : L(x)
  <2>1. i = c
    <3> HIDE DEF i, c, L
    <3>1. QED
      BY <1>1, <1>2, <1>5
  <2>2. QED
    BY <1>3, <1>5, <2>1
<1>6. QED
  BY <1>4, <1>5

\* A name is found where some symbol has it: by hash or from the first on.
LEMMA NameIsFound == SymbolShape => Symbols!FoundByName
<1> SUFFICES ASSUME SymbolShape, NEW n \in Names
             PROVE  IF \E k \in DOMAIN syms : syms[k].name = n
                      THEN Symbols!Named(Symbols!ByName(n), n)
                      ELSE Symbols!ByName(n) >= Symbols!Count
  BY DEF Symbols!FoundByName
<1> DEFINE hashed == CASE hash = NoHash -> Symbols!Count
                       [] hash # NoHash /\ hash.kind = "sysv" -> Symbols!HashLookup(n)
                       [] hash # NoHash /\ hash.kind = "gnu" -> Symbols!GnuLookup(n)
           i == Symbols!From(0, LAMBDA x : Symbols!Sym(x).name = n)
<1>1. Symbols!Count \in Nat /\ Symbols!Count = Len(syms) /\ DOMAIN syms = 1..Len(syms)
  BY LenProperties DEF SymbolShape, Symbols!Count
<1>2. Symbols!ByName(n) = IF hashed < Symbols!Count THEN hashed ELSE i
  BY DEF Symbols!ByName
<1>3. (hashed \in Nat /\ Symbols!Named(hashed, n)) \/ hashed = Symbols!Count
  <2>1. CASE hash = NoHash
    BY <2>1
  <2>2. CASE hash # NoHash
    <3>1. hash.kind \in {"sysv", "gnu"}
      <4>1. Symbols!ChainsEnd(hash)
        BY <2>2 DEF SymbolShape, HashEnds
      <4>2. QED
        BY <4>1 DEF Symbols!ChainsEnd
    <3>2. CASE hash.kind = "sysv"
      <4>1. hashed = Symbols!HashLookup(n)
        BY <2>2, <3>2
      <4>2. QED
        BY <2>2, <3>2, <4>1, HashLookupIs
    <3>3. CASE hash.kind = "gnu"
      <4>1. hashed = Symbols!GnuLookup(n)
        BY <2>2, <3>3
      <4>2. QED
        BY <2>2, <3>3, <4>1, GnuLookupIs
    <3>4. QED
      BY <3>1, <3>2, <3>3
  <2>3. QED
    BY <2>1, <2>2
<1>4. IF \E k \in DOMAIN syms : syms[k].name = n THEN Symbols!Named(i, n) ELSE i = Symbols!Count
  BY FirstNamedIs
<1> HIDE DEF hashed, i
<1>5. CASE hashed < Symbols!Count
  <2>1. hashed \in Nat /\ Symbols!Named(hashed, n)
    BY <1>1, <1>3, <1>5
  <2>2. hashed + 1 \in DOMAIN syms /\ syms[hashed + 1].name = n
    BY <1>1, <1>5, <2>1 DEF Symbols!Named, Symbols!Sym
  <2>3. Symbols!ByName(n) = hashed
    BY <1>2, <1>5
  <2>4. QED
    BY <2>1, <2>2, <2>3
<1>6. CASE ~(hashed < Symbols!Count)
  <2>1. Symbols!ByName(n) = i
    BY <1>2, <1>6
  <2>2. i = Symbols!Count => i >= Symbols!Count
    BY <1>1
  <2>3. CASE \E k \in DOMAIN syms : syms[k].name = n
    BY <1>4, <2>1, <2>3 DEF Symbols!Named
  <2>4. CASE ~\E k \in DOMAIN syms : syms[k].name = n
    <3>1. i = Symbols!Count
      BY <1>4, <2>4
    <3>2. QED
      BY <2>1, <2>2, <2>4, <3>1
  <2>5. QED
    BY <2>3, <2>4
<1>7. QED
  BY <1>5, <1>6

-----------------------------------------------------------------------------
\* The symbols' numbers are all there, so none is lost.
LEMMA NoneIsLost == SymbolInv => Symbols!NoneLost
<1> SUFFICES ASSUME SymbolInv, NEW id \in 0..(Symbols!Count - 1)
             PROVE  Symbols!Cardinality({i \in DOMAIN syms : syms[i].id = id}) = 1
  BY DEF Symbols!NoneLost
<1>1. PICK i \in DOMAIN syms : syms[i].id = id
  BY DEF SymbolInv, Numbered, Symbols!Count
<1>2. {k \in DOMAIN syms : syms[k].id = id} = {i}
  BY <1>1 DEF SymbolInv, Numbered
<1>3. QED
  BY <1>2, SymbolCardinality, FS_Singleton

\* The invariant implies the type invariant.
LEMMA SymbolTypes == SymbolInv => Symbols!TypeOK
<1> SUFFICES ASSUME SymbolInv PROVE Symbols!TypeOK
  OBVIOUS
<1>1. SymbolShape /\ FirstIsNull(syms)
  BY DEF SymbolInv
<1>2. \A i \in DOMAIN syms : syms[i] \in SymbolRecord
  BY <1>1, ElementOfSeq, LenProperties DEF SymbolShape
<1>3. \A i \in DOMAIN relocs : relocs[i] \in RelocRecord
  BY <1>1, ElementOfSeq, LenProperties DEF SymbolShape
<1>4. \A i \in DOMAIN syms :
        /\ syms[i].name \in Names \cup {NoName} /\ syms[i].bind \in {"local", "global"}
        /\ i = 1 => syms[i].name = NoName
  BY <1>1, <1>2 DEF SymbolRecord, FirstIsNull
<1>5. \A i \in DOMAIN relocs : relocs[i].info \in 0..(InfoSpan - 1)
  BY <1>3 DEF RelocRecord
<1>6. QED
  BY <1>1, <1>4, <1>5 DEF Symbols!TypeOK, SymbolShape

\* What get_entry works out depends on the symbol, not on its place.
LEMMA CalcStays ==
    ASSUME SymbolInv, [WriteNext]_writeVars, Symbols!Arrange \/ Symbols!ArrangeStep,
           NEW i \in DOMAIN relocs
    PROVE  Symbols!CalcValue(relocs[i])' = Symbols!CalcValue(relocs[i])
<1>1. UNCHANGED rela
  BY DEF Symbols!Arrange, Symbols!ArrangeStep
<1>2. CASE UNCHANGED <<syms, relocs>>
  BY <1>1, <1>2 DEF Symbols!CalcValue, Symbols!TypeOf, Symbols!SymOf, Symbols!Sym,
                    Symbols!AddendOf
<1>3. ASSUME NEW a \in Nat, NEW b \in Nat, SwapRound(a, b)
      PROVE  Symbols!CalcValue(relocs[i])' = Symbols!CalcValue(relocs[i])
  <2> DEFINE r == relocs[i]
             t == relocs'[i]
  <2>1. /\ t.offset = r.offset /\ t.addend = r.addend
        /\ t.info % TypeSpan = r.info % TypeSpan
        /\ syms'[(t.info \div TypeSpan) + 1] = syms[(r.info \div TypeSpan) + 1]
    BY <1>3, SwapFollows DEF Symbols!TypeOf, Symbols!SymOf
  <2>2. QED
    BY <1>1, <2>1 DEF Symbols!CalcValue, Symbols!TypeOf, Symbols!SymOf, Symbols!Sym,
                      Symbols!AddendOf
<1>4. CASE Symbols!Arrange
  BY <1>2, <1>4 DEF Symbols!Arrange
<1>5. CASE Symbols!ArrangeStep
  <2>1. ASSUME NEW a \in Nat, LastRound(a)
        PROVE  Symbols!CalcValue(relocs[i])' = Symbols!CalcValue(relocs[i])
    BY <1>2, <2>1 DEF LastRound
  <2>2. QED
    BY <1>3, <1>5, <2>1, Rounds
<1>6. QED
  BY <1>4, <1>5

\* add_symbol returns the place of the symbol it made.
LEMMA AnswerIsLast ==
    ASSUME SymbolInv, [WriteNext]_writeVars, answer' # answer
    PROVE  answer' < Symbols!Count' /\ Symbols!Sym(answer)'.id = Symbols!Count' - 1
<1>1. SymbolStep(Symbols!Next)
  BY DEF WriteNext, LayStep, writeVars, symbolVars
<1>2. PICK n \in Names, v \in Values, b \in {"local", "global"} : Symbols!AddSymbol(n, v, b)
  BY <1>1 DEF SymbolStep, Symbols!Next, Symbols!AddEntry, Symbols!AddNamed, Symbols!Arrange,
              Symbols!ArrangeStep
<1>3. /\ syms' = Symbols!Added(n, v, b) /\ answer' = Len(syms') - 1
  BY <1>2 DEF Symbols!AddSymbol, Symbols!LastIndex
<1>4. /\ syms' \in Seq(SymbolRecord) /\ syms'[Len(syms')].id = Len(syms') - 1
  <2>1. SymbolShape /\ FirstIsNull(syms) /\ Numbered(syms) /\ v \in Nat
    BY SymbolConstants DEF SymbolInv
  <2>2. QED
    BY <1>3, <2>1, AddedFacts
<1>5. Len(syms') \in Nat /\ answer' + 1 = Len(syms')
  BY <1>3, <1>4
<1>6. QED
  BY <1>3, <1>4, <1>5 DEF Symbols!Count, Symbols!Sym

\* The invariant holds throughout.
LEMMA SymbolsAlways == WriteSpec => []SymbolInv
BY SymbolsStart, SymbolsStep, PTL DEF WriteSpec

(* Whatever table is loaded, whatever is added to it and however often it   *)
(* is arranged: relocations refer to the symbols they were made for and     *)
(* come to the same values, between two swaps, too (swap_symbols and        *)
(* get_entry, elfio_relocation.hpp 177-285, 387-415); no symbol is lost, a  *)
(* name is found where some symbol has it, an arrangement leaves the locals *)
(* in front of sh_info, and add_symbol returns the symbol's place           *)
(* (elfio_symbols.hpp 122-162, 392-520, 622-700).                           *)
THEOREM SymbolsAreFollowed == WriteSpec => SymbolsFollow
<1>1. SymbolInv => /\ Symbols!TypeOK /\ Symbols!RelocsFollow /\ Symbols!NoneLost
                   /\ part = "symbols" => Symbols!LocalsFirst /\ Symbols!FoundByName
  BY SymbolTypes, NoneIsLost, NameIsFound DEF SymbolInv
<1>2. SymbolInv /\ [WriteNext]_writeVars =>
        [Symbols!Arrange \/ Symbols!ArrangeStep =>
           \A i \in DOMAIN relocs :
             Symbols!CalcValue(relocs[i])' = Symbols!CalcValue(relocs[i])]_(Symbols!vars)
  BY CalcStays
<1>3. SymbolInv /\ [WriteNext]_writeVars =>
        [answer' # answer =>
           answer' < Symbols!Count' /\ Symbols!Sym(answer)'.id = Symbols!Count' - 1]_(Symbols!vars)
  BY AnswerIsLast
<1>4. QED
  BY <1>1, <1>2, <1>3, SymbolsAlways, PTL
  DEF WriteSpec, SymbolsFollow, Symbols!CalcKept, Symbols!AnswerIsIt
=============================================================================
