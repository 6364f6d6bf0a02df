-------------------------- MODULE WatchPanelProofs --------------------------
(***************************************************************************)
(* Proofs about the watch panel.  First Transfer, for every layout of the   *)
(* variables, every set of bytes, every transaction size and every length   *)
(* of the watch list, with the target at rest or running; then ValueCodec,  *)
(* for every size of a word and of a variable and every number.             *)
(***************************************************************************)
EXTENDS WatchPanel, SequenceTheorems, NaturalsInduction, WellFoundedInduction, TLAPS

-----------------------------------------------------------------------------
(* The inductive invariant.                                                 *)

\* Where the UI thread is, and what its local variables then hold.
Shape ==
    /\ pc \in {"idle", "item"} => mode = "poll" /\ off = 0 /\ buf = <<>>
    /\ pc = "item" => cur >= 1
    /\ pc = "write" => mode = "one" /\ buf = <<>>
    /\ pc = "read" => Len(buf) = off
    /\ mode = "one" => Len(data) = Size

\* The history knows the present.
HeldHasNow == Calling => \A a \in Addresses : mem[a] \in held[a]

\* Nothing moves under a read if the target is at rest.
ReadAtRest ==
    ~running /\ pc = "read" => \A a \in Addresses : held[a] = {mem[a]}

\* What write_item reads back is there.
WrittenIsThere ==
    ~running /\ pc = "read" /\ mode = "one" =>
        \A k \in 1..Size : mem[AddrOf[Item] + k - 1] = data[k]

TInv == TypeOK /\ Shape

MInv ==
    /\ HeldHasNow
    /\ ReadAtRest
    /\ WrittenIsThere
    /\ WritesItsPrefix
    /\ ReadsRecent

WInv == PolledIsCurrent /\ ShownIsWhole

-----------------------------------------------------------------------------
(* The entry a call is at, and its transactions.                            *)
LEMMA ItemFacts ==
    ASSUME TypeOK, cur \in 1..Len(watch)
    PROVE  /\ watch[cur] \in Entries
           /\ Item \in Items
           /\ Size \in Nat
           /\ AddrOf[Item] \in Nat
           /\ AddrOf[Item] + Size <= AddrSpace
           /\ AddrSpace \in Nat
<1>1. watch[cur] \in Entries
  BY ElementOfSeq DEF TypeOK
<1>2. QED
  BY <1>1, LayoutAssumption DEF Entries, Item, Size

LEMMA LengthFacts ==
    ASSUME TypeOK, Calling, off < Size
    PROVE  /\ off \in Nat /\ Size \in Nat
           /\ Length \in Nat
           /\ 1 <= Length /\ off + Length <= Size
<1>1. Size \in Nat /\ off \in Nat
  BY ItemFacts DEF TypeOK
<1>2. QED
  BY <1>1, ChunkAssumption DEF Length

\* An address of the variable is an address of the target.
LEMMA InLayout ==
    ASSUME TypeOK, cur \in 1..Len(watch), NEW k \in 1..Size
    PROVE  AddrOf[Item] + k - 1 \in Addresses
BY ItemFacts DEF Addresses

\* An assignment to an element of a sequence.
LEMMA SetAt ==
    ASSUME NEW S, NEW w \in Seq(S), NEW i \in 1..Len(w), NEW e \in S,
           NEW v, v = [w EXCEPT ![i] = e]
    PROVE  /\ v \in Seq(S)
           /\ Len(v) = Len(w)
           /\ v[i] = e
           /\ \A j \in 1..Len(w) : j # i => v[j] = w[j]
BY ExceptSeq

SomeOf(v, w) == \A j \in 1..Len(v) : \E k \in 1..Len(w) : v[j] = w[k]

\* Taking an element out of a sequence.
LEMMA TakeOut ==
    ASSUME NEW S, NEW w \in Seq(S), NEW i \in 1..Len(w),
           NEW v, v = SubSeq(w, 1, i - 1) \o SubSeq(w, i + 1, Len(w))
    PROVE  /\ v \in Seq(S)
           /\ Len(v) = Len(w) - 1
           /\ SomeOf(v, w)
<1>1. /\ Len(w) \in Nat
      /\ i \in 1..Len(w)
      /\ \A j \in 1..Len(w) : w[j] \in S
  BY LenProperties, ElementOfSeq
<1> DEFINE a == SubSeq(w, 1, i - 1)
           b == SubSeq(w, i + 1, Len(w))
<1>2. /\ a \in Seq(S)
      /\ Len(a) = i - 1
      /\ \A j \in 1..(i - 1) : a[j] = w[j]
  BY <1>1
<1>3. /\ b \in Seq(S)
      /\ Len(b) = Len(w) - i
      /\ \A j \in 1..(Len(w) - i) : b[j] = w[i + j]
  BY <1>1
<1>4. v = a \o b
  OBVIOUS
<1> HIDE DEF a, b
<1>5. /\ v \in Seq(S)
      /\ Len(v) = Len(w) - 1
      /\ \A j \in 1..(Len(w) - 1) : v[j] = IF j <= i - 1 THEN a[j] ELSE b[j - (i - 1)]
  <2>1. a \in Seq(S) /\ b \in Seq(S)
    BY <1>2, <1>3
  <2>2. /\ a \o b \in Seq(S)
        /\ Len(a \o b) = Len(a) + Len(b)
        /\ \A j \in 1..(Len(a) + Len(b)) :
              (a \o b)[j] = IF j <= Len(a) THEN a[j] ELSE b[j - Len(a)]
    BY ONLY <2>1
  <2>3. Len(a) = i - 1 /\ Len(b) = Len(w) - i /\ Len(a) + Len(b) = Len(w) - 1
    BY ONLY <1>1, <1>2, <1>3
  <2>4. QED
    BY ONLY <1>4, <2>2, <2>3
<1>6. ASSUME NEW j \in 1..(Len(w) - 1)
      PROVE  v[j] = IF j <= i - 1 THEN w[j] ELSE w[j + 1]
  <2>1. CASE j <= i - 1
    BY ONLY <1>1, <1>2, <1>5, <2>1, j \in 1..(Len(w) - 1)
  <2>2. CASE j > i - 1
    <3>1. j - (i - 1) \in 1..(Len(w) - i) /\ i + (j - (i - 1)) = j + 1
      BY ONLY <1>1, <2>2, j \in 1..(Len(w) - 1)
    <3>2. QED
      BY ONLY <1>1, <1>3, <1>5, <2>2, <3>1, j \in 1..(Len(w) - 1)
  <2>3. QED
    BY ONLY <1>1, <2>1, <2>2, j \in 1..(Len(w) - 1)
<1>7. \A j \in 1..(Len(w) - 1) : j \in 1..Len(w) /\ j + 1 \in 1..Len(w)
  BY ONLY <1>1
<1>8. QED
  BY ONLY <1>5, <1>6, <1>7 DEF SomeOf

\* An error sets nothing but the error.
LEMMA ErrorEntry ==
    ASSUME TypeOK, NEW i \in 1..Len(watch),
           watch' = [watch EXCEPT ![i].error = TRUE]
    PROVE  /\ watch' \in Seq(Entries)
           /\ Len(watch') = Len(watch)
           /\ \A j \in 1..Len(watch) :
                /\ watch'[j].item = watch[j].item
                /\ watch'[j].shown = watch[j].shown
                /\ j # i => watch'[j] = watch[j]
           /\ watch'[i].error
<1> DEFINE e == [watch[i] EXCEPT !.error = TRUE]
<1>1. watch \in Seq(Entries) /\ watch[i] \in Entries
  BY ElementOfSeq DEF TypeOK
<1>2. /\ e \in Entries
      /\ e.item = watch[i].item
      /\ e.shown = watch[i].shown
      /\ e.error
  BY <1>1 DEF Entries
<1>3. watch' = [watch EXCEPT ![i] = e]
  OBVIOUS
<1> HIDE DEF e
<1>4. /\ watch' \in Seq(Entries)
      /\ Len(watch') = Len(watch)
      /\ watch'[i] = e
      /\ \A j \in 1..Len(watch) : j # i => watch'[j] = watch[j]
  BY ONLY <1>1, <1>2, <1>3, i \in 1..Len(watch), SetAt
<1>5. QED
  BY ONLY <1>2, <1>4, i \in 1..Len(watch)

\* A value read sets what is shown and clears the error.
LEMMA ShownEntry ==
    ASSUME TypeOK, NEW i \in 1..Len(watch),
           watch' = [watch EXCEPT ![i].shown = buf, ![i].error = FALSE]
    PROVE  /\ watch' \in Seq(Entries)
           /\ Len(watch') = Len(watch)
           /\ \A j \in 1..Len(watch) :
                /\ watch'[j].item = watch[j].item
                /\ j # i => watch'[j] = watch[j]
           /\ watch'[i].shown = buf
<1> DEFINE e == [watch[i] EXCEPT !.shown = buf, !.error = FALSE]
<1>1. watch \in Seq(Entries) /\ watch[i] \in Entries /\ buf \in Seq(Bytes)
  BY ElementOfSeq DEF TypeOK
<1>2. /\ e \in Entries
      /\ e.item = watch[i].item
      /\ e.shown = buf
  BY <1>1 DEF Entries
<1>3. watch' = [watch EXCEPT ![i] = e]
  BY <1>1
<1> HIDE DEF e
<1>4. /\ watch' \in Seq(Entries)
      /\ Len(watch') = Len(watch)
      /\ watch'[i] = e
      /\ \A j \in 1..Len(watch) : j # i => watch'[j] = watch[j]
  BY ONLY <1>1, <1>2, <1>3, i \in 1..Len(watch), SetAt
<1>5. QED
  BY ONLY <1>2, <1>4, i \in 1..Len(watch)

-----------------------------------------------------------------------------
(* Types, and the local variables of the calls.                             *)
LEMMA TInit == Init => TInv
<1> SUFFICES ASSUME Init PROVE TInv
  OBVIOUS
<1>1. watch \in Seq(Entries) /\ Len(watch) = 0 /\ buf \in Seq(Bytes) /\ data \in Seq(Bytes)
  BY EmptySeq DEF Init
<1>2. held \in [Addresses -> SUBSET Bytes]
  BY DEF Init, NothingHeld
<1>3. /\ mem \in [Addresses -> Bytes]
      /\ connected = FALSE
      /\ pc = "idle" /\ mode = "poll" /\ cur = 0 /\ off = 0
  BY DEF Init
<1>4. TypeOK
  <2>1. ~Calling
    BY <1>3 DEF Calling
  <2>2. running \in BOOLEAN
    BY ChunkAssumption DEF Init
  <2>3. QED
    BY ONLY <1>1, <1>2, <1>3, <2>1, <2>2 DEF TypeOK
<1>5. Shape
  <2>1. buf = <<>>
    BY DEF Init
  <2>2. QED
    BY ONLY <1>1, <1>3, <2>1, ChunkAssumption DEF Shape
<1>6. QED
  BY <1>4, <1>5 DEF TInv

\* The end of a call, whatever becomes of the watch list.
LEMMA FinishTypes ==
    ASSUME TInv, Finish,
           mem' \in [Addresses -> Bytes], connected' = connected,
           watch' \in Seq(Entries), running' = running
    PROVE  TInv'
<1>1. buf' \in Seq(Bytes) /\ data' \in Seq(Bytes)
  BY EmptySeq DEF Finish
<1>2. held' \in [Addresses -> SUBSET Bytes]
  BY DEF Finish, NothingHeld
<1>3. QED
  BY <1>1, <1>2, ChunkAssumption DEF Finish, TInv, TypeOK, Shape, Calling

\* On to the next entry.
LEMMA NextItemTypes ==
    ASSUME TInv, NextItem, cur \in 1..Len(watch), mode = "poll",
           mem' = mem, connected' = connected, running' = running,
           watch' \in Seq(Entries), Len(watch') = Len(watch)
    PROVE  TInv'
<1>1. buf' \in Seq(Bytes)
  BY EmptySeq DEF NextItem
<1>2. held' \in [Addresses -> SUBSET Bytes]
  BY DEF NextItem, NothingHeld
<1>3. Len(watch) \in Nat
  BY LenProperties DEF TInv, TypeOK
<1>4. QED
  BY <1>1, <1>2, <1>3, ChunkAssumption DEF NextItem, TInv, TypeOK, Shape, Calling

LEMMA NextOrFinishTypes ==
    ASSUME TInv, NextOrFinish, cur \in 1..Len(watch),
           mem' = mem, connected' = connected, running' = running,
           watch' \in Seq(Entries), Len(watch') = Len(watch)
    PROVE  TInv'
<1>1. CASE mode = "poll"
  BY <1>1, NextItemTypes DEF NextOrFinish
<1>2. CASE mode # "poll"
  BY <1>2, FinishTypes DEF NextOrFinish, TInv, Shape, TypeOK
<1>3. QED
  BY <1>1, <1>2

\* The memory only ever holds bytes.
LEMMA MemoryTypes ==
    ASSUME TypeOK, NEW m \in [Addresses -> Bytes], MemoryBecomes(m)
    PROVE  /\ mem' \in [Addresses -> Bytes]
           /\ held' \in [Addresses -> SUBSET Bytes]
BY DEF TypeOK, MemoryBecomes

LEMMA StoredTypes ==
    ASSUME TInv, pc = "write", off < Size
    PROVE  Stored \in [Addresses -> Bytes]
<1>1. /\ cur \in 1..Len(watch) /\ mem \in [Addresses -> Bytes]
      /\ data \in Seq(Bytes) /\ Len(data) = Size
      /\ Calling
  BY DEF TInv, TypeOK, Shape, Calling
<1>2. /\ AddrOf[Item] \in Nat
      /\ off \in Nat /\ Size \in Nat /\ Length \in Nat
      /\ off + Length <= Size
  BY <1>1, ItemFacts, LengthFacts DEF TInv
<1>3. ASSUME NEW a \in Addresses,
             AddrOf[Item] + off <= a, a < AddrOf[Item] + off + Length
      PROVE  data[a - AddrOf[Item] + 1] \in Bytes
  <2>1. a \in Int
    BY DEF Addresses
  <2>2. a - AddrOf[Item] + 1 \in 1..Len(data)
    BY <2>1, <1>1, <1>2, <1>3
  <2>3. QED
    BY <2>2, <1>1, ElementOfSeq
<1>4. QED
  BY <1>1, <1>3 DEF Stored

-----------------------------------------------------------------------------
LEMMA TStep == TInv /\ [Next]_vars => TInv'
<1> SUFFICES ASSUME TInv, [Next]_vars PROVE TInv'
  OBVIOUS
<1> USE DEF TInv
<1>0. running' = running
  BY DEF Next, vars
<1> USE <1>0
<1>1. CASE TargetStores
  <2>1. PICK x \in Items, b \in Bytes :
           \E k \in 0..(SizeOf[x] - 1) : MemoryBecomes([mem EXCEPT ![AddrOf[x] + k] = b])
    BY <1>1 DEF TargetStores
  <2>2. \A a : [mem EXCEPT ![a] = b] \in [Addresses -> Bytes]
    BY DEF TypeOK
  <2>3. mem' \in [Addresses -> Bytes] /\ held' \in [Addresses -> SUBSET Bytes]
    BY <2>1, <2>2, MemoryTypes
  <2>4. QED
    BY <1>1, <2>3 DEF TargetStores, TypeOK, Shape, Calling, Size, Item
<1>2. CASE Reconnect
  BY <1>2 DEF Reconnect, callVars, TypeOK, Shape, Calling, Size, Item
<1>3. CASE AddWatch
  <2>1. PICK x \in Items :
           watch' = Append(watch, [item |-> x, shown |-> <<>>, error |-> FALSE])
    BY <1>3 DEF AddWatch
  <2>2. [item |-> x, shown |-> <<>>, error |-> FALSE] \in Entries
    BY EmptySeq DEF Entries
  <2>3. watch' \in Seq(Entries) /\ Len(watch') = Len(watch) + 1 /\ Len(watch) \in Nat
    BY <2>1, <2>2, AppendProperties, LenProperties DEF TypeOK
  <2>4. QED
    BY <1>3, <2>3, ChunkAssumption DEF AddWatch, callVars, TypeOK, Shape, Calling
<1>4. CASE RemoveWatch
  <2>1. PICK i \in 1..Len(watch) :
           watch' = SubSeq(watch, 1, i - 1) \o SubSeq(watch, i + 1, Len(watch))
    BY <1>4 DEF RemoveWatch
  <2>2. watch \in Seq(Entries) /\ Len(watch) \in Nat
    BY LenProperties DEF TypeOK
  <2>3. watch' \in Seq(Entries) /\ Len(watch') = Len(watch) - 1
    BY ONLY <2>1, <2>2, i \in 1..Len(watch), TakeOut
  <2>4. pc = "idle" /\ UNCHANGED <<mem, connected, callVars>>
    BY <1>4 DEF RemoveWatch
  <2>5. running' = running
    BY <1>0
  <2>6. QED
    BY ONLY <2>3, <2>4, <2>5, TInv DEF TInv, callVars, TypeOK, Shape, Calling
<1>5. CASE ClearWatch
  <2>1. watch' \in Seq(Entries) /\ Len(watch') = 0
    BY <1>5, EmptySeq DEF ClearWatch
  <2>2. QED
    BY <1>5, <2>1, ChunkAssumption DEF ClearWatch, callVars, TypeOK, Shape, Calling
<1>6. CASE StartPoll
  BY <1>6, ChunkAssumption DEF StartPoll, TypeOK, Shape, Calling
<1>7. CASE StartWrite
  <2>1. PICK i \in 1..Len(watch) :
           \/ /\ connected
              /\ \E d \in Encodings :
                   /\ Len(d) = SizeOf[watch[i].item]
                   /\ data' = d
              /\ pc' = "write"
              /\ mode' = "one"
              /\ cur' = i
              /\ held' = Now
              /\ UNCHANGED <<mem, watch, off, buf>>
           \/ /\ watch' = [watch EXCEPT ![i].error = TRUE]
              /\ UNCHANGED <<mem, callVars>>
    BY <1>7 DEF StartWrite
  <2>2. CASE watch' = [watch EXCEPT ![i].error = TRUE] /\ UNCHANGED <<mem, callVars>>
    <3>1. watch' \in Seq(Entries) /\ Len(watch') = Len(watch)
      BY <2>2, ErrorEntry
    <3>2. QED
      BY <1>7, <2>2, <3>1 DEF StartWrite, callVars, TypeOK, Shape, Calling
  <2>3. CASE /\ \E d \in Encodings : Len(d) = SizeOf[watch[i].item] /\ data' = d
             /\ pc' = "write" /\ mode' = "one" /\ cur' = i /\ held' = Now
             /\ UNCHANGED <<mem, watch, off, buf>>
    <3>1. data' \in Seq(Bytes) /\ Len(data') = SizeOf[watch[i].item]
      BY <2>3, EncodingsAssumption
    <3>2. Size' = SizeOf[watch[i].item] /\ Size' \in Nat
      <4>1. watch[i] \in Entries
        BY ElementOfSeq DEF TypeOK
      <4>2. QED
        BY <2>3, <4>1, LayoutAssumption DEF Size, Item, Entries
    <3>3. held' \in [Addresses -> SUBSET Bytes]
      BY <2>3 DEF Now, TypeOK
    <3>4. off = 0 /\ buf = <<>> /\ Len(watch) \in Nat
      BY <1>7, LenProperties DEF StartWrite, Shape, TypeOK
    <3>5. TypeOK'
      BY <1>7, <2>3, <3>1, <3>2, <3>3, <3>4, ChunkAssumption DEF StartWrite, TypeOK, Calling
    <3>6. QED
      BY <2>3, <3>1, <3>2, <3>4, <3>5 DEF Shape
  <2>4. QED
    BY <2>1, <2>2, <2>3
<1>8. CASE BeginItem
  <2>1. Len(watch) \in Nat /\ watch \in Seq(Entries)
    BY LenProperties DEF TypeOK, Shape
  <2>2. CASE Finish /\ UNCHANGED watch
    BY <1>8, <2>1, <2>2, FinishTypes DEF BeginItem, TypeOK
  <2>3. CASE cur <= Len(watch) /\ Size = 0 /\ SetError /\ NextItem
    <3>1. cur \in 1..Len(watch) /\ mode = "poll"
      BY <1>8, <2>1, <2>3 DEF BeginItem, TypeOK, Shape
    <3>2. watch' \in Seq(Entries) /\ Len(watch') = Len(watch)
      BY <2>3, <3>1, ErrorEntry DEF SetError
    <3>3. QED
      BY <1>8, <2>3, <3>1, <3>2, NextItemTypes DEF BeginItem
  <2>4. CASE /\ cur <= Len(watch) /\ pc' = "read" /\ held' = Now
             /\ UNCHANGED <<watch, mode, cur, off, buf, data>>
    <3>1. cur \in 1..Len(watch) /\ mode = "poll" /\ off = 0 /\ buf = <<>>
      BY <1>8, <2>1, <2>4 DEF BeginItem, TypeOK, Shape
    <3>2. Size' = Size /\ Size \in Nat
      BY <2>4, <3>1, ItemFacts DEF Size, Item
    <3>3. held' \in [Addresses -> SUBSET Bytes]
      BY <2>4 DEF Now, TypeOK
    <3>4. TypeOK'
      BY <1>8, <2>4, <3>1, <3>2, <3>3 DEF BeginItem, TypeOK, Calling
    <3>5. QED
      BY <2>1, <2>4, <3>1, <3>2, <3>4, EmptySeq DEF Shape
  <2>5. QED
    BY <1>8, <2>2, <2>3, <2>4 DEF BeginItem
<1>9. CASE ReadChunk
  <2>1. Calling /\ pc = "read" /\ cur \in 1..Len(watch)
    BY <1>9 DEF ReadChunk, Calling, TypeOK
  <2>2. /\ AddrOf[Item] \in Nat /\ Size \in Nat /\ off \in Nat /\ Length \in Nat
        /\ AddrOf[Item] + Size <= AddrSpace /\ AddrSpace \in Nat
        /\ off + Length <= Size
    BY <1>9, <2>1, ItemFacts, LengthFacts DEF ReadChunk
  <2> DEFINE got == [k \in 1..Length |-> mem[AddrOf[Item] + off + k - 1]]
  <2>3. \A k \in 1..Length : mem[AddrOf[Item] + off + k - 1] \in Bytes
    <3>1. \A k \in 1..Length : AddrOf[Item] + off + k - 1 \in Addresses
      BY <2>2 DEF Addresses
    <3>2. QED
      BY <3>1 DEF TypeOK
  <2>4. got \in Seq(Bytes) /\ Len(got) = Length
    BY <2>2, <2>3
  <2> HIDE DEF got
  <2>5. buf' = buf \o got
    BY <1>9 DEF ReadChunk, got
  <2>6. buf' \in Seq(Bytes) /\ Len(buf') = off + Length
    <3>1. buf \in Seq(Bytes) /\ Len(buf) = off
      BY <2>1 DEF TypeOK, Shape
    <3>2. QED
      BY ONLY <3>1, <2>2, <2>4, <2>5, ConcatProperties
  <2>7. Size' = Size
    BY <1>9 DEF ReadChunk, Size, Item
  <2>8. TypeOK'
    BY <1>9, <2>1, <2>2, <2>6, <2>7 DEF ReadChunk, TypeOK, Calling
  <2>9. QED
    BY <1>9, <2>1, <2>6, <2>7, <2>8 DEF ReadChunk, Shape
<1>10. CASE ReadFails
  <2>1. cur \in 1..Len(watch)
    BY <1>10 DEF ReadFails, Calling, TypeOK
  <2>2. watch' \in Seq(Entries) /\ Len(watch') = Len(watch)
    BY <1>10, <2>1, ErrorEntry DEF ReadFails, SetError
  <2>3. QED
    BY <1>10, <2>1, <2>2, NextOrFinishTypes DEF ReadFails
<1>11. CASE ReadDone
  <2>1. cur \in 1..Len(watch)
    BY <1>11 DEF ReadDone, Calling, TypeOK
  <2>2. watch' \in Seq(Entries) /\ Len(watch') = Len(watch)
    BY <1>11, <2>1, ShownEntry DEF ReadDone
  <2>3. QED
    BY <1>11, <2>1, <2>2, NextOrFinishTypes DEF ReadDone
<1>12. CASE WriteChunk
  <2>1. Calling /\ cur \in 1..Len(watch)
    BY <1>12 DEF WriteChunk, Calling, TypeOK
  <2>2. /\ mem' \in [Addresses -> Bytes]
        /\ held' \in [Addresses -> SUBSET Bytes]
    BY <1>12, StoredTypes, MemoryTypes DEF WriteChunk
  <2>3. Size' = Size
    BY <1>12 DEF WriteChunk, Size, Item
  <2>4. off' \in Nat /\ off' <= Size
    BY <1>12, <2>1, LengthFacts DEF WriteChunk
  <2>5. TypeOK'
    BY <1>12, <2>1, <2>2, <2>3, <2>4 DEF WriteChunk, TypeOK, Calling
  <2>6. QED
    BY <1>12, <2>3, <2>5 DEF WriteChunk, Shape
<1>13. CASE WriteFails
  <2>1. cur \in 1..Len(watch)
    BY <1>13 DEF WriteFails, Calling, TypeOK, Shape
  <2>2. watch' \in Seq(Entries) /\ Len(watch') = Len(watch)
    BY <1>13, <2>1, ErrorEntry DEF WriteFails, SetError
  <2>3. mem' \in [Addresses -> Bytes]
    BY <1>13, StoredTypes DEF WriteFails, TypeOK
  <2>4. QED
    BY <1>13, <2>1, <2>2, <2>3, FinishTypes DEF WriteFails
<1>14. CASE WriteDone
  <2>1. Calling /\ cur \in 1..Len(watch) /\ buf = <<>>
    BY <1>14 DEF WriteDone, Calling, TypeOK, Shape
  <2>2. Size' = Size /\ Size \in Nat
    BY <1>14, <2>1, ItemFacts DEF WriteDone, Size, Item
  <2>3. held' \in [Addresses -> SUBSET Bytes]
    BY <1>14 DEF WriteDone, Now, TypeOK
  <2>4. TypeOK'
    BY <1>14, <2>1, <2>2, <2>3 DEF WriteDone, TypeOK, Calling
  <2>5. QED
    BY <1>14, <2>1, <2>2, <2>4, EmptySeq DEF WriteDone, Shape
<1>15. CASE UNCHANGED vars
  BY <1>15 DEF vars, TypeOK, Shape, Calling, Size, Item
<1>16. QED
  BY <1>1, <1>2, <1>3, <1>4, <1>5, <1>6, <1>7, <1>8, <1>9, <1>10, <1>11,
     <1>12, <1>13, <1>14, <1>15 DEF Next, User, UiThread

-----------------------------------------------------------------------------
(* The memory and the calls.                                                *)
LEMMA MQuiet ==
    ASSUME pc' \notin {"read", "write"}
    PROVE  MInv'
BY DEF MInv, HeldHasNow, ReadAtRest, WrittenIsThere, WritesItsPrefix, ReadsRecent, Calling

LEMMA MemoryGrows ==
    ASSUME TypeOK, Calling, NEW m \in [Addresses -> Bytes], MemoryBecomes(m)
    PROVE  \A a \in Addresses : mem'[a] = m[a] /\ held'[a] = held[a] \cup {m[a]}
BY DEF MemoryBecomes

\* A call begins.
LEMMA NowHeld ==
    ASSUME held' = Now, mem' = mem
    PROVE  \A a \in Addresses : held'[a] = {mem'[a]}
BY DEF Now

LEMMA MStep ==
    ASSUME TInv, TInv', MInv, [Next]_vars
    PROVE  MInv'
<1> USE DEF MInv
<1>0. running' = running
  BY DEF Next, vars
<1> USE <1>0
<1>1. CASE TargetStores
  <2>1. CASE ~Calling
    BY <1>1, <2>1, MQuiet DEF TargetStores, Calling
  <2>2. CASE Calling
    <3>1. PICK x \in Items, b \in Bytes :
             \E k \in 0..(SizeOf[x] - 1) : MemoryBecomes([mem EXCEPT ![AddrOf[x] + k] = b])
      BY <1>1 DEF TargetStores
    <3>2. \A a : [mem EXCEPT ![a] = b] \in [Addresses -> Bytes]
      BY DEF TInv, TypeOK
    <3>3. \A a \in Addresses : held'[a] = held[a] \cup {mem'[a]}
      BY <2>2, <3>1, <3>2, MemoryGrows DEF TInv
    <3>4. running /\ UNCHANGED <<watch, pc, mode, cur, off, buf, data>>
      BY <1>1 DEF TargetStores
    <3>5. ReadsRecent'
      <4>1. SUFFICES ASSUME pc = "read", NEW k \in 1..Len(buf)
                     PROVE  buf[k] \in held'[AddrOf[Item] + k - 1]
        BY <3>4 DEF ReadsRecent, Item
      <4>2. k \in 1..Size /\ cur \in 1..Len(watch)
        <5>1. Size \in Nat /\ off <= Size /\ Len(buf) = off /\ cur \in 1..Len(watch)
          BY <2>2, <4>1, ItemFacts DEF TInv, TypeOK, Shape
        <5>2. QED
          BY <5>1
      <4>3. AddrOf[Item] + k - 1 \in Addresses
        BY <4>2, InLayout DEF TInv
      <4>4. QED
        BY <3>3, <4>1, <4>3 DEF ReadsRecent
    <3>6. QED
      BY <3>3, <3>4, <3>5 DEF HeldHasNow, ReadAtRest, WrittenIsThere, WritesItsPrefix
  <2>3. QED
    BY <2>1, <2>2
<1>2. CASE Reconnect \/ AddWatch \/ RemoveWatch \/ ClearWatch \/ StartPoll
  <2>1. pc' \notin {"read", "write"}
    BY <1>2 DEF Reconnect, AddWatch, RemoveWatch, ClearWatch, StartPoll, callVars
  <2>2. QED
    BY <2>1, MQuiet
<1>3. CASE StartWrite
  <2>1. CASE pc' \notin {"read", "write"}
    BY <2>1, MQuiet
  <2>2. CASE pc' \in {"read", "write"}
    <3>1. pc' = "write" /\ held' = Now /\ mem' = mem /\ off' = off /\ off = 0
      BY <1>3, <2>2 DEF StartWrite, callVars, TInv, Shape
    <3>2. \A a \in Addresses : held'[a] = {mem'[a]}
      BY <3>1, NowHeld
    <3>3. \A a \in Addresses : ~(AddrOf[Item'] <= a /\ a < AddrOf[Item'] + off')
      <4>1. cur' \in 1..Len(watch')
        BY <3>1 DEF TInv, TypeOK, Calling
      <4>2. watch'[cur'] \in Entries
        BY <4>1, ElementOfSeq DEF TInv, TypeOK
      <4>3. AddrOf[Item'] \in Nat
        BY <4>2, LayoutAssumption DEF Item, Entries
      <4>4. QED
        BY <3>1, <4>3 DEF Addresses
    <3>4. QED
      BY <3>1, <3>2, <3>3 DEF HeldHasNow, ReadAtRest, WrittenIsThere, WritesItsPrefix, ReadsRecent
  <2>3. QED
    BY <2>1, <2>2
<1>4. CASE BeginItem
  <2>1. CASE pc' \notin {"read", "write"}
    BY <2>1, MQuiet
  <2>2. CASE pc' \in {"read", "write"}
    <3>1. /\ pc' = "read" /\ held' = Now /\ mem' = mem
          /\ mode' = "poll" /\ buf' = <<>>
      BY <1>4, <2>2 DEF BeginItem, Finish, NextItem, TInv, Shape
    <3>2. \A a \in Addresses : held'[a] = {mem'[a]}
      BY <3>1, NowHeld
    <3>3. QED
      BY <3>1, <3>2, EmptySeq DEF HeldHasNow, ReadAtRest, WrittenIsThere, WritesItsPrefix, ReadsRecent
  <2>3. QED
    BY <2>1, <2>2
<1>5. CASE ReadChunk
  <2>1. Calling /\ pc = "read" /\ pc' = pc /\ cur \in 1..Len(watch)
    BY <1>5 DEF ReadChunk, Calling, TInv, TypeOK
  <2>2. UNCHANGED <<mem, watch, mode, cur, data, held>> /\ Item' = Item /\ Size' = Size
    BY <1>5 DEF ReadChunk, Item, Size
  <2>3. /\ AddrOf[Item] \in Nat /\ Size \in Nat /\ off \in Nat /\ Length \in Nat
        /\ off + Length <= Size
        /\ buf \in Seq(Bytes) /\ Len(buf) = off
    BY <1>5, <2>1, ItemFacts, LengthFacts DEF ReadChunk, TInv, TypeOK, Shape
  <2> DEFINE got == [k \in 1..Length |-> mem[AddrOf[Item] + off + k - 1]]
  <2>4. \A k \in 1..Length : mem[AddrOf[Item] + (off + k) - 1] \in held[AddrOf[Item] + (off + k) - 1]
    <3>1. \A k \in 1..Length : off + k \in 1..Size
      BY <2>3
    <3>2. \A k \in 1..Length : AddrOf[Item] + (off + k) - 1 \in Addresses
      BY <2>1, <3>1, InLayout DEF TInv
    <3>3. QED
      BY <2>1, <3>2 DEF HeldHasNow
  <2>5. \A k \in 1..Length : got[k] \in held[AddrOf[Item] + (off + k) - 1]
    <3>1. \A k \in 1..Length : AddrOf[Item] + off + k - 1 = AddrOf[Item] + (off + k) - 1
      BY <2>3
    <3>2. QED
      BY <2>4, <3>1
  <2>6. \A k \in 1..Length : mem[AddrOf[Item] + off + k - 1] \in Bytes
    <3>1. \A k \in 1..Length : AddrOf[Item] + off + k - 1 \in Addresses
      BY <2>1, <2>3, ItemFacts DEF TInv, Addresses
    <3>2. QED
      BY <3>1 DEF TInv, TypeOK
  <2>7. got \in Seq(Bytes) /\ Len(got) = Length
    BY <2>3, <2>6
  <2>8. buf' = buf \o got
    BY <1>5 DEF ReadChunk
  <2> HIDE DEF got
  <2>9. /\ Len(buf') = off + Length
        /\ \A k \in 1..(off + Length) : buf'[k] = IF k <= off THEN buf[k] ELSE got[k - off]
    BY ONLY <2>3, <2>7, <2>8, ConcatProperties
  <2>10. ASSUME NEW k \in 1..(off + Length)
         PROVE  buf'[k] \in held[AddrOf[Item] + k - 1]
    <3>1. CASE k <= off
      BY <2>1, <2>3, <2>9, <3>1 DEF ReadsRecent
    <3>2. CASE k > off
      <4>1. k - off \in 1..Length /\ off + (k - off) = k
        BY <2>3, <3>2
      <4>2. got[k - off] \in held[AddrOf[Item] + k - 1]
        BY <2>5, <4>1
      <4>3. QED
        BY <2>3, <2>9, <3>2, <4>2
    <3>3. QED
      BY <2>3, <3>1, <3>2
  <2>11. ReadsRecent'
    BY <2>2, <2>9, <2>10 DEF ReadsRecent
  <2>12. QED
    BY <2>1, <2>2, <2>11 DEF HeldHasNow, ReadAtRest, WrittenIsThere, WritesItsPrefix, Calling
<1>6. CASE ReadFails \/ ReadDone \/ WriteFails
  <2>1. pc' \notin {"read", "write"}
    BY <1>6 DEF ReadFails, ReadDone, WriteFails, NextOrFinish, NextItem, Finish
  <2>2. QED
    BY <2>1, MQuiet
<1>7. CASE WriteChunk
  <2>1. Calling /\ pc = "write" /\ pc' = pc /\ cur \in 1..Len(watch) /\ off < Size
    BY <1>7 DEF WriteChunk, Calling, TInv, TypeOK
  <2>2. UNCHANGED <<watch, mode, cur, data>> /\ Item' = Item /\ off' = off + Length
    BY <1>7 DEF WriteChunk, Item
  <2>3. /\ AddrOf[Item] \in Nat /\ off \in Nat /\ Length \in Nat
    BY <2>1, ItemFacts, LengthFacts DEF TInv
  <2>4. \A a \in Addresses : mem'[a] = Stored[a] /\ held'[a] = held[a] \cup {mem'[a]}
    BY <1>7, <2>1, StoredTypes, MemoryGrows DEF WriteChunk, TInv
  <2>5. ASSUME ~running, NEW a \in Addresses
        PROVE  IF AddrOf[Item] <= a /\ a < AddrOf[Item] + (off + Length)
                 THEN mem'[a] = data[a - AddrOf[Item] + 1]
                 ELSE held'[a] = {mem'[a]}
    <3>1. a \in Int
      BY DEF Addresses
    <3>2. IF AddrOf[Item] <= a /\ a < AddrOf[Item] + off
            THEN mem[a] = data[a - AddrOf[Item] + 1]
            ELSE held[a] = {mem[a]}
      BY <2>1, <2>5 DEF WritesItsPrefix
    <3>3. mem'[a] = IF AddrOf[Item] + off <= a /\ a < AddrOf[Item] + off + Length
                      THEN data[a - AddrOf[Item] + 1] ELSE mem[a]
      BY <2>4 DEF Stored
    <3>4. held'[a] = held[a] \cup {mem'[a]}
      BY <2>4
    <3>5. QED
      BY ONLY <2>3, <3>1, <3>2, <3>3, <3>4
  <2>6. WritesItsPrefix'
    BY <2>2, <2>5 DEF WritesItsPrefix
  <2>7. QED
    BY <2>1, <2>4, <2>6 DEF HeldHasNow, ReadAtRest, WrittenIsThere, ReadsRecent
<1>8. CASE WriteDone
  <2>1. Calling /\ pc = "write" /\ pc' = "read" /\ cur \in 1..Len(watch)
    BY <1>8 DEF WriteDone, Calling, TInv, TypeOK
  <2>2. /\ UNCHANGED <<mem, watch, mode, cur, buf, data>> /\ held' = Now /\ buf = <<>>
        /\ Item' = Item /\ Size' = Size
    BY <1>8 DEF WriteDone, Item, Size, TInv, Shape
  <2>3. \A a \in Addresses : held'[a] = {mem'[a]}
    BY <2>2, NowHeld
  <2>4. AddrOf[Item] \in Nat /\ Size \in Nat /\ off = Size
    BY <1>8, <2>1, ItemFacts DEF WriteDone, TInv, TypeOK
  <2>5. ASSUME ~running, NEW k \in 1..Size
        PROVE  mem[AddrOf[Item] + k - 1] = data[k]
    <3>1. AddrOf[Item] + k - 1 \in Addresses
      BY <2>1, InLayout DEF TInv
    <3>2. /\ AddrOf[Item] <= AddrOf[Item] + k - 1
          /\ AddrOf[Item] + k - 1 < AddrOf[Item] + off
          /\ (AddrOf[Item] + k - 1) - AddrOf[Item] + 1 = k
      BY <2>4
    <3>3. QED
      BY <2>1, <2>5, <3>1, <3>2 DEF WritesItsPrefix
  <2>6. WrittenIsThere'
    BY <2>2, <2>5 DEF WrittenIsThere
  <2>7. QED
    BY <2>1, <2>2, <2>3, <2>6, EmptySeq DEF HeldHasNow, ReadAtRest, WritesItsPrefix, ReadsRecent
<1>9. CASE UNCHANGED vars
  BY <1>9 DEF vars, HeldHasNow, ReadAtRest, WrittenIsThere, WritesItsPrefix, ReadsRecent,
              Calling, Item, Size
<1>10. QED
  BY <1>1, <1>2, <1>3, <1>4, <1>5, <1>6, <1>7, <1>8, <1>9 DEF Next, User, UiThread

-----------------------------------------------------------------------------
(* The watch list.                                                          *)

\* The entries before the one at hand stay as they are.
LEMMA PolledStays ==
    ASSUME TInv, PolledIsCurrent, pc # "idle", mode = "poll", ~running,
           NEW i \in 1..Len(watch), i < cur, mem' = mem,
           watch'[i] = watch[i], ~watch'[i].error
    PROVE  watch'[i].shown = [k \in 1..SizeOf[watch'[i].item] |->
                                 mem'[AddrOf[watch'[i].item] + k - 1]]
BY DEF PolledIsCurrent

\* An error marks its entry and leaves the others.
LEMMA ErrorKeeps ==
    ASSUME TInv, WInv, pc # "idle", cur \in 1..Len(watch), SetError,
           mem' = mem, running' = running, NextOrFinish
    PROVE  WInv'
<1>1. /\ Len(watch') = Len(watch)
      /\ \A j \in 1..Len(watch) :
           /\ watch'[j].item = watch[j].item
           /\ watch'[j].shown = watch[j].shown
           /\ j # cur => watch'[j] = watch[j]
      /\ watch'[cur].error
  BY ErrorEntry DEF SetError, TInv
<1>2. ShownIsWhole'
  BY <1>1 DEF WInv, ShownIsWhole
<1>3. PolledIsCurrent'
  <2>1. CASE mode # "poll"
    BY <2>1 DEF NextOrFinish, Finish, PolledIsCurrent
  <2>2. CASE mode = "poll"
    <3>1. cur' = cur + 1
      BY <2>2 DEF NextOrFinish, NextItem
    <3>2. SUFFICES ASSUME ~running, NEW i \in 1..Len(watch), i < cur + 1, ~watch'[i].error
                   PROVE  watch'[i].shown = [k \in 1..SizeOf[watch'[i].item] |->
                                                mem'[AddrOf[watch'[i].item] + k - 1]]
      BY <1>1, <3>1 DEF PolledIsCurrent
    <3>3. i < cur /\ watch'[i] = watch[i]
      BY <1>1, <3>2
    <3>4. QED
      BY <2>2, <3>2, <3>3, PolledStays DEF WInv
  <2>3. QED
    BY <2>1, <2>2
<1>4. QED
  BY <1>2, <1>3 DEF WInv

\* A value read to its end is the memory's.
LEMMA DoneKeeps ==
    ASSUME TInv, MInv, WInv, ReadDone, running' = running
    PROVE  WInv'
<1>1. pc = "read" /\ cur \in 1..Len(watch) /\ mem' = mem /\ NextOrFinish
  BY DEF ReadDone, TInv, TypeOK, Calling
<1>2. /\ Len(watch') = Len(watch)
      /\ \A j \in 1..Len(watch) :
           /\ watch'[j].item = watch[j].item
           /\ j # cur => watch'[j] = watch[j]
      /\ watch'[cur].shown = buf
  BY <1>1, ShownEntry DEF ReadDone, TInv
<1>3. Size \in Nat /\ off = Size /\ buf \in Seq(Bytes) /\ Len(buf) = Size
  BY <1>1, ItemFacts DEF ReadDone, TInv, TypeOK, Shape, Calling
<1>4. ShownIsWhole'
  BY <1>1, <1>2, <1>3 DEF WInv, ShownIsWhole, Size, Item
<1>5. ASSUME ~running
      PROVE  buf = [k \in 1..Size |-> mem[AddrOf[Item] + k - 1]]
  <2>1. ASSUME NEW k \in 1..Size
        PROVE  buf[k] = mem[AddrOf[Item] + k - 1]
    <3>1. AddrOf[Item] + k - 1 \in Addresses
      BY <1>1, InLayout DEF TInv
    <3>2. QED
      BY <1>1, <1>3, <1>5, <3>1 DEF MInv, ReadAtRest, ReadsRecent
  <2>2. buf \in [1..Size -> Bytes]
    BY <1>3, LenProperties
  <2>3. QED
    BY <2>1, <2>2
<1>6. PolledIsCurrent'
  <2>1. CASE mode # "poll"
    BY <1>1, <2>1 DEF NextOrFinish, Finish, PolledIsCurrent
  <2>2. CASE mode = "poll"
    <3>1. cur' = cur + 1
      BY <1>1, <2>2 DEF NextOrFinish, NextItem
    <3>2. SUFFICES ASSUME ~running, NEW i \in 1..Len(watch), i < cur + 1, ~watch'[i].error
                   PROVE  watch'[i].shown = [k \in 1..SizeOf[watch'[i].item] |->
                                                mem'[AddrOf[watch'[i].item] + k - 1]]
      BY <1>2, <3>1 DEF PolledIsCurrent
    <3>3. CASE i = cur
      <4>1. watch'[i].item = Item /\ watch'[i].shown = buf
        BY <1>1, <1>2, <3>3 DEF Item
      <4>2. QED
        BY <1>1, <1>5, <3>2, <4>1 DEF Size
    <3>4. CASE i # cur
      <4>1. i < cur /\ watch'[i] = watch[i]
        BY <1>1, <1>2, <3>2, <3>4
      <4>2. QED
        BY <1>1, <2>2, <3>2, <4>1, PolledStays DEF WInv
    <3>5. QED
      BY <3>3, <3>4
  <2>3. QED
    BY <2>1, <2>2
<1>7. QED
  BY <1>4, <1>6 DEF WInv

LEMMA WStep ==
    ASSUME TInv, MInv, WInv, [Next]_vars
    PROVE  WInv'
<1>0. running' = running
  BY DEF Next, vars
<1> USE <1>0
<1>1. CASE TargetStores
  BY <1>1 DEF TargetStores, WInv, PolledIsCurrent, ShownIsWhole
<1>2. CASE Reconnect
  BY <1>2 DEF Reconnect, callVars, WInv, PolledIsCurrent, ShownIsWhole
<1>3. CASE AddWatch
  <2>1. PICK x \in Items :
           watch' = Append(watch, [item |-> x, shown |-> <<>>, error |-> FALSE])
    BY <1>3 DEF AddWatch
  <2> DEFINE e == [item |-> x, shown |-> <<>>, error |-> FALSE]
  <2>2. e \in Entries /\ Len(e.shown) = 0
    BY EmptySeq DEF Entries
  <2>3. watch \in Seq(Entries)
    BY DEF TInv, TypeOK
  <2> HIDE DEF e
  <2>4. /\ Len(watch') = Len(watch) + 1
        /\ \A i \in 1..Len(watch) : watch'[i] = watch[i]
        /\ watch'[Len(watch) + 1] = e
        /\ Len(watch) \in Nat
    <3>1. watch' = Append(watch, e)
      BY <2>1 DEF e
    <3>2. QED
      BY ONLY <2>2, <2>3, <3>1, AppendProperties, LenProperties
  <2>5. ShownIsWhole'
    BY <2>2, <2>4 DEF WInv, ShownIsWhole
  <2>6. QED
    BY <1>3, <2>5 DEF AddWatch, callVars, WInv, PolledIsCurrent
<1>4. CASE RemoveWatch
  <2>1. PICK i \in 1..Len(watch) :
           watch' = SubSeq(watch, 1, i - 1) \o SubSeq(watch, i + 1, Len(watch))
    BY <1>4 DEF RemoveWatch
  <2>2. watch \in Seq(Entries)
    BY DEF TInv, TypeOK
  <2>3. SomeOf(watch', watch)
    BY ONLY <2>1, <2>2, i \in 1..Len(watch), TakeOut
  <2>4. ShownIsWhole'
    BY ONLY <2>3, WInv DEF WInv, ShownIsWhole, SomeOf
  <2>5. pc' = "idle"
    BY <1>4 DEF RemoveWatch, callVars
  <2>6. QED
    BY <2>4, <2>5 DEF WInv, PolledIsCurrent
<1>5. CASE ClearWatch
  <2>1. Len(watch') = 0 /\ pc' = "idle"
    BY <1>5, EmptySeq DEF ClearWatch, callVars
  <2>2. QED
    BY <2>1 DEF WInv, PolledIsCurrent, ShownIsWhole
<1>6. CASE StartPoll
  BY <1>6 DEF StartPoll, WInv, PolledIsCurrent, ShownIsWhole
<1>7. CASE StartWrite
  <2>1. CASE watch' = watch
    BY <1>7, <2>1 DEF StartWrite, callVars, WInv, PolledIsCurrent, ShownIsWhole
  <2>2. CASE watch' # watch
    <3>1. PICK i \in 1..Len(watch) : watch' = [watch EXCEPT ![i].error = TRUE]
      BY <1>7, <2>2 DEF StartWrite
    <3>2. /\ Len(watch') = Len(watch)
          /\ \A j \in 1..Len(watch) :
               /\ watch'[j].item = watch[j].item
               /\ watch'[j].shown = watch[j].shown
      BY <3>1, ErrorEntry DEF TInv
    <3>3. pc' = "idle"
      BY <1>7, <2>2 DEF StartWrite, callVars
    <3>4. QED
      BY <3>2, <3>3 DEF WInv, PolledIsCurrent, ShownIsWhole
  <2>3. QED
    BY <2>1, <2>2
<1>8. CASE BeginItem
  <2>1. CASE Finish /\ UNCHANGED watch
    BY <2>1 DEF Finish, WInv, PolledIsCurrent, ShownIsWhole
  <2>2. CASE cur <= Len(watch) /\ SetError /\ NextItem
    <3>1. /\ cur \in 1..Len(watch) /\ mode = "poll" /\ pc # "idle" /\ mem' = mem
          /\ NextOrFinish
      BY <1>8, <2>2, LenProperties DEF BeginItem, TInv, TypeOK, Shape, NextOrFinish
    <3>2. QED
      BY <2>2, <3>1, ErrorKeeps
  <2>3. CASE pc' = "read" /\ UNCHANGED <<watch, mode, cur>>
    BY <1>8, <2>3 DEF BeginItem, WInv, PolledIsCurrent, ShownIsWhole
  <2>4. QED
    BY <1>8, <2>1, <2>2, <2>3 DEF BeginItem
<1>9. CASE ReadChunk
  BY <1>9 DEF ReadChunk, WInv, PolledIsCurrent, ShownIsWhole
<1>10. CASE ReadFails
  <2>1. pc # "idle" /\ cur \in 1..Len(watch) /\ SetError /\ mem' = mem /\ NextOrFinish
    BY <1>10 DEF ReadFails, TInv, TypeOK, Calling
  <2>2. QED
    BY <2>1, ErrorKeeps
<1>11. CASE ReadDone
  BY <1>11, DoneKeeps
<1>12. CASE WriteChunk
  BY <1>12 DEF WriteChunk, TInv, Shape, WInv, PolledIsCurrent, ShownIsWhole
<1>13. CASE WriteFails
  <2>1. cur \in 1..Len(watch)
    BY <1>13 DEF WriteFails, TInv, TypeOK, Calling
  <2>2. /\ Len(watch') = Len(watch)
        /\ \A j \in 1..Len(watch) :
             /\ watch'[j].item = watch[j].item
             /\ watch'[j].shown = watch[j].shown
    BY <1>13, <2>1, ErrorEntry DEF WriteFails, SetError, TInv
  <2>3. QED
    BY <1>13, <2>2 DEF WriteFails, Finish, WInv, PolledIsCurrent, ShownIsWhole
<1>14. CASE WriteDone
  BY <1>14 DEF WriteDone, TInv, Shape, WInv, PolledIsCurrent, ShownIsWhole
<1>15. CASE UNCHANGED vars
  BY <1>15 DEF vars, WInv, PolledIsCurrent, ShownIsWhole
<1>16. QED
  BY <1>1, <1>2, <1>3, <1>4, <1>5, <1>6, <1>7, <1>8, <1>9, <1>10, <1>11,
     <1>12, <1>13, <1>14, <1>15 DEF Next, User, UiThread

-----------------------------------------------------------------------------
IInv == TInv /\ MInv /\ WInv

LEMMA Inductive == PanelSpec => []IInv
<1>1. Init => IInv
  <2> SUFFICES ASSUME Init PROVE IInv
    OBVIOUS
  <2>1. pc = "idle" /\ Len(watch) = 0
    BY EmptySeq DEF Init
  <2>2. MInv
    BY <2>1 DEF MInv, HeldHasNow, ReadAtRest, WrittenIsThere, WritesItsPrefix, ReadsRecent, Calling
  <2>3. WInv
    BY <2>1 DEF WInv, PolledIsCurrent, ShownIsWhole
  <2>4. QED
    BY <2>2, <2>3, TInit DEF IInv
<1>2. IInv /\ [Next]_vars => IInv'
  BY TStep, MStep, WStep DEF IInv
<1>3. PanelInit => Init
  BY DEF PanelInit
<1>4. [PanelNext]_panelVars => [Next]_vars
  BY DEF PanelNext, TransferStep, CodecStep, panelVars
<1>5. QED
  BY <1>1, <1>2, <1>3, <1>4, PTL DEF PanelSpec

(* Types, and the offsets of a transfer stay within its variable            *)
(* (das_client.cpp 275-304).                                                *)
THEOREM TypeCorrect == PanelSpec => []TypeOK
<1>1. IInv => TypeOK
  BY DEF IInv, TInv
<1>2. QED
  BY <1>1, Inductive, PTL

(* DasClient::write stores what it was given, in place and nowhere else,    *)
(* whatever the sizes of variables and transactions; DasClient::read        *)
(* returns only bytes their own addresses held during the call, whatever    *)
(* the target stores meanwhile.                                             *)
THEOREM ChunksAreRight == PanelSpec => []ChunksRight
<1>1. IInv => ChunksRight
  BY DEF IInv, MInv, ChunksRight
<1>2. QED
  BY <1>1, Inductive, PTL

(* write_item reads back what it wrote, from a target at rest.              *)
THEOREM ReadBack == PanelSpec => []ReadsBackWritten
<1>1. ASSUME IInv, ~running, pc = "read", mode = "one"
      PROVE  buf = SubSeq(data, 1, off)
  <2>1. /\ cur \in 1..Len(watch) /\ buf \in Seq(Bytes) /\ data \in Seq(Bytes)
        /\ off \in Nat /\ off <= Size /\ Len(buf) = off /\ Len(data) = Size
    BY <1>1 DEF IInv, TInv, TypeOK, Shape, Calling
  <2>2. Size \in Nat
    BY <1>1, <2>1, ItemFacts DEF IInv, TInv
  <2>3. ASSUME NEW k \in 1..off
        PROVE  buf[k] = data[k]
    <3>1. k \in 1..Size
      BY <2>1, <2>2
    <3>2. AddrOf[Item] + k - 1 \in Addresses
      BY <1>1, <2>1, <3>1, InLayout DEF IInv, TInv
    <3>3. QED
      BY <1>1, <2>1, <3>1, <3>2 DEF IInv, MInv, ReadAtRest, ReadsRecent, WrittenIsThere
  <2>4. \A k \in 1..off : data[k] \in Bytes
    BY <2>1, <2>2, ElementOfSeq
  <2>5. /\ SubSeq(data, 1, off) \in Seq(Bytes)
        /\ Len(SubSeq(data, 1, off)) = off
        /\ \A k \in 1..off : SubSeq(data, 1, off)[k] = data[k]
    BY ONLY <2>1, <2>4
  <2>6. QED
    BY ONLY <2>1, <2>3, <2>5, SeqEqual
<1>2. IInv => ReadsBackWritten
  BY <1>1 DEF ReadsBackWritten
<1>3. QED
  BY <1>2, Inductive, PTL

(* A poll's failures are each their own entry's: every other one shows the  *)
(* memory of a target at rest, and none ever a part of a value.             *)
THEOREM WatchIsRight == PanelSpec => []WatchRight
<1>1. IInv => WatchRight
  BY DEF IInv, WInv, WatchRight
<1>2. QED
  BY <1>1, Inductive, PTL

-----------------------------------------------------------------------------
(* Numbers, and functions by recursion.                                     *)

\* Every set of numbers has a least one.
LEMMA LeastNumber ==
    ASSUME NEW S \in SUBSET Nat, S # {}
    PROVE  \E m \in S : \A k \in S : m <= k
<1> DEFINE R == OpToRel(<, Nat)
<1>1. IsWellFoundedOn(R, Nat)
  BY NatLessThanWellFounded
<1>2. \A x, y \in Nat : <<y, x>> \in R <=> y < x
  BY DEF OpToRel
<1> HIDE DEF R
<1>3. PICK m \in S : \A k \in S : ~(<<k, m>> \in R)
  BY <1>1, WFMin
<1>4. \A k \in S : ~(k < m)
  BY <1>2, <1>3
<1>5. \A k \in S : m <= k
  BY <1>4
<1>6. QED
  BY <1>5

\* Induction up to n, for a set of numbers.
LEMMA UpTo ==
    ASSUME NEW n \in Nat, NEW P, 0 \in P, \A i \in 1..n : i - 1 \in P => i \in P
    PROVE  \A i \in 0..n : i \in P
<1> DEFINE Bad == {i \in 0..n : i \notin P}
<1>1. ASSUME Bad # {} PROVE FALSE
  <2>1. Bad \in SUBSET Nat
    OBVIOUS
  <2>2. PICK m \in Bad : \A k \in Bad : m <= k
    BY <1>1, <2>1, LeastNumber
  <2>3. m \in 1..n /\ m - 1 \in 0..n /\ ~(m <= m - 1)
    OBVIOUS
  <2>4. m - 1 \in P
    BY <2>2, <2>3
  <2>5. QED
    BY <2>3, <2>4
<1>2. QED
  BY <1>1

\* A function over 0..n by recursion with a given step, and its existence.
Steps(step, n, S, first) ==
    n \in Nat /\ first \in S /\ step \in [(1..n) \X S -> S]
Iterates(f, step, n, S, first) ==
    /\ f \in [0..n -> S] /\ f[0] = first
    /\ \A i \in 1..n : f[i] = step[<<i, f[i - 1]>>]

\* There is a function for every step.
LEMMA RecursionExists ==
    ASSUME NEW n, NEW S, NEW first, NEW step, Steps(step, n, S, first)
    PROVE  \E f : Iterates(f, step, n, S, first)
<1> USE DEF Steps
<1> DEFINE Follows(k, f) == f[0] = first /\ \A i \in 1..k : f[i] = step[<<i, f[i - 1]>>]
           P == {k \in 0..n : \E f \in [0..k -> S] : Follows(k, f)}
<1>1. 0 \in P
  <2> DEFINE g == [i \in 0..0 |-> first]
  <2>1. g \in [0..0 -> S] /\ g[0] = first
    OBVIOUS
  <2>2. Follows(0, g)
    BY <2>1
  <2>3. \E f \in [0..0 -> S] : Follows(0, f)
    BY <2>1, <2>2
  <2>4. 0 \in 0..n
    OBVIOUS
  <2>5. QED
    BY <2>3, <2>4
<1>2. ASSUME NEW k \in 1..n, k - 1 \in P
      PROVE  k \in P
  <2>1. PICK f \in [0..(k - 1) -> S] : Follows(k - 1, f)
    BY <1>2
  <2> DEFINE g == [i \in 0..k |-> IF i = k THEN step[<<k, f[k - 1]>>] ELSE f[i]]
  <2>2. f[k - 1] \in S /\ step[<<k, f[k - 1]>>] \in S
    OBVIOUS
  <2>3. g \in [0..k -> S]
    BY <2>2
  <2>4. \A i \in 0..(k - 1) : g[i] = f[i]
    OBVIOUS
  <2>5. g[k] = step[<<k, g[k - 1]>>]
    <3>1. k \in 0..k /\ k - 1 \in 0..(k - 1)
      OBVIOUS
    <3>2. g[k - 1] = f[k - 1]
      BY <2>4, <3>1
    <3>3. g[k] = step[<<k, f[k - 1]>>]
      BY <3>1
    <3>4. QED
      BY <3>2, <3>3
  <2>6. \A i \in 1..k : g[i] = step[<<i, g[i - 1]>>]
    <3> TAKE i \in 1..k
    <3>1. CASE i = k
      BY <2>5, <3>1
    <3>2. CASE i # k
      <4>1. i \in 1..(k - 1) /\ i - 1 \in 0..(k - 1) /\ i \in 0..(k - 1)
        BY <3>2
      <4>2. QED
        BY <2>1, <2>4, <4>1
    <3>3. QED
      BY <3>1, <3>2
  <2>7. g[0] = first
    <3>1. 0 \in 0..(k - 1)
      OBVIOUS
    <3>2. QED
      BY <2>1, <2>4, <3>1
  <2>8. k \in 0..n
    OBVIOUS
  <2> HIDE DEF g
  <2>9. QED
    BY <2>3, <2>6, <2>7, <2>8
<1>3. n \in P
  <2> HIDE DEF P
  <2>1. QED
    BY <1>1, <1>2, UpTo
<1>4. QED
  BY <1>3 DEF Iterates

-----------------------------------------------------------------------------
(* Powers.                                                                  *)

\* What the recursive function that defines a power is.
LEMMA PowerIs ==
    ASSUME NEW b \in Nat \ {0}, NEW n \in Nat
    PROVE  \E f \in [0..n -> Nat] :
             /\ f[0] = 1 /\ \A i \in 1..n : f[i] = b * f[i - 1]
             /\ Codec!Power(b, n) = f[n]
<1> DEFINE step == [x \in (1..n) \X Nat |-> b * x[2]]
           Eq(f) == f = [i \in 0..n |-> IF i = 0 THEN 1 ELSE b * f[i - 1]]
           p == CHOOSE f : Eq(f)
<1>1. PICK f : Iterates(f, step, n, Nat, 1)
  <2>1. Steps(step, n, Nat, 1)
    BY DEF Steps
  <2> HIDE DEF step
  <2>2. QED
    BY <2>1, RecursionExists
<1>2. f \in [0..n -> Nat] /\ f[0] = 1 /\ \A i \in 1..n : f[i] = b * f[i - 1]
  <2>1. f \in [0..n -> Nat] /\ f[0] = 1 /\ \A i \in 1..n : f[i] = step[<<i, f[i - 1]>>]
    <3> HIDE DEF step
    <3>1. QED
      BY <1>1 DEF Iterates
  <2>2. ASSUME NEW i \in 1..n PROVE f[i] = b * f[i - 1]
    <3>1. f[i - 1] \in Nat
      BY <2>1
    <3>2. step[<<i, f[i - 1]>>] = b * f[i - 1]
      BY <3>1
    <3>3. QED
      BY <2>1, <3>2
  <2>3. QED
    BY <2>1, <2>2
<1>3. Eq(f)
  <2>1. \A i \in 0..n : f[i] = IF i = 0 THEN 1 ELSE b * f[i - 1]
    BY <1>2
  <2>2. f = [i \in 0..n |-> f[i]]
    BY <1>2
  <2>3. QED
    BY <2>1, <2>2
<1>4. Eq(p)
  <2> HIDE DEF Eq
  <2>1. QED
    BY <1>3
<1>5. Codec!Power(b, n) = p[n]
  BY DEF Codec!Power
<1> HIDE DEF p
<1>6. p[0] = 1 /\ \A i \in 1..n : p[i] = b * p[i - 1]
  <2>1. \A i \in 0..n : p[i] = IF i = 0 THEN 1 ELSE b * p[i - 1]
    BY <1>4
  <2>2. QED
    BY <2>1
<1>7. \A i \in 0..n : p[i] \in Nat
  <2> DEFINE P == {i \in 0..n : p[i] \in Nat}
  <2>1. 0 \in P
    BY <1>6
  <2>2. ASSUME NEW i \in 1..n, i - 1 \in P PROVE i \in P
    <3>1. p[i - 1] \in Nat /\ p[i] = b * p[i - 1] /\ i \in 0..n
      BY <1>6, <2>2
    <3>2. QED
      BY <3>1
  <2> HIDE DEF P
  <2>3. \A i \in 0..n : i \in P
    BY <2>1, <2>2, UpTo
  <2>4. QED
    BY <2>3 DEF P
<1>8. p \in [0..n -> Nat]
  <2>1. p = [i \in 0..n |-> p[i]]
    BY <1>4
  <2>2. QED
    BY <1>7, <2>1
<1>9. QED
  BY <1>5, <1>6, <1>8

\* The next power.
LEMMA PowerNext ==
    ASSUME NEW b \in Nat \ {0}, NEW n \in Nat
    PROVE  /\ Codec!Power(b, 0) = 1 /\ Codec!Power(b, n) \in Nat
           /\ Codec!Power(b, n + 1) = b * Codec!Power(b, n)
<1>1. Codec!Power(b, 0) = 1
  BY PowerIs, 0 \in Nat
<1>2. PICK f \in [0..n -> Nat] :
        f[0] = 1 /\ (\A i \in 1..n : f[i] = b * f[i - 1]) /\ Codec!Power(b, n) = f[n]
  BY PowerIs
<1>3. PICK g \in [0..(n + 1) -> Nat] :
        g[0] = 1 /\ (\A i \in 1..(n + 1) : g[i] = b * g[i - 1]) /\ Codec!Power(b, n + 1) = g[n + 1]
  BY PowerIs, n + 1 \in Nat
<1> DEFINE P == {i \in 0..n : f[i] = g[i]}
<1>4. 0 \in P
  BY <1>2, <1>3
<1>5. ASSUME NEW i \in 1..n, i - 1 \in P PROVE i \in P
  <2>1. f[i] = b * f[i - 1] /\ g[i] = b * g[i - 1] /\ f[i - 1] = g[i - 1]
    BY <1>2, <1>3, <1>5
  <2>2. QED
    BY <2>1
<1> HIDE DEF P
<1>6. n \in P
  <2>1. \A i \in 0..n : i \in P
    BY <1>4, <1>5, UpTo
  <2>2. QED
    BY <2>1
<1>7. f[n] = g[n] /\ g[n + 1] = b * g[n] /\ f[n] \in Nat
  BY <1>2, <1>3, <1>6 DEF P
<1>8. QED
  BY <1>1, <1>2, <1>3, <1>7

\* A power is positive, and the powers grow.
LEMMA PowerPositive ==
    ASSUME NEW b \in Nat \ {0}, NEW n \in Nat
    PROVE  Codec!Power(b, n) \in Nat \ {0}
<1> DEFINE P == {i \in 0..n : Codec!Power(b, i) # 0}
<1>1. 0 \in P
  BY PowerNext, 0 \in Nat
<1>2. ASSUME NEW i \in 1..n, i - 1 \in P PROVE i \in P
  <2>1. i - 1 \in Nat /\ (i - 1) + 1 = i
    OBVIOUS
  <2>2. Codec!Power(b, i) = b * Codec!Power(b, i - 1) /\ Codec!Power(b, i - 1) \in Nat
    BY <2>1, PowerNext
  <2>3. Codec!Power(b, i - 1) # 0
    BY <1>2
  <2>4. \A x \in Nat : x # 0 => b * x # 0
    OBVIOUS
  <2>5. QED
    BY <2>2, <2>3, <2>4
<1> HIDE DEF P
<1>3. n \in P
  BY <1>1, <1>2, UpTo
<1>4. QED
  BY <1>3, PowerNext DEF P

\* The power of a sum is the product.
LEMMA PowerSum ==
    ASSUME NEW b \in Nat \ {0}, NEW m \in Nat, NEW n \in Nat
    PROVE  Codec!Power(b, m + n) = Codec!Power(b, m) * Codec!Power(b, n)
<1> DEFINE pm == Codec!Power(b, m)
           P == {i \in 0..n : Codec!Power(b, m + i) = pm * Codec!Power(b, i)}
<1>1. pm \in Nat
  BY PowerNext
<1>2. 0 \in P
  <2>1. Codec!Power(b, 0) = 1 /\ m + 0 = m
    BY PowerNext
  <2>2. pm = pm * 1
    BY <1>1
  <2>3. QED
    BY <2>1, <2>2
<1>3. ASSUME NEW i \in 1..n, i - 1 \in P PROVE i \in P
  <2> DEFINE x == Codec!Power(b, i - 1)
             y == Codec!Power(b, m + (i - 1))
  <2>1. i - 1 \in Nat /\ (i - 1) + 1 = i /\ m + (i - 1) \in Nat /\ (m + (i - 1)) + 1 = m + i
    OBVIOUS
  <2>2. Codec!Power(b, i) = b * x /\ x \in Nat
    BY <2>1, PowerNext
  <2>3. Codec!Power(b, m + i) = b * y /\ y \in Nat
    BY <2>1, PowerNext
  <2>4. y = pm * x
    BY <1>3
  <2> HIDE DEF x, y, pm
  <2>5. b * (pm * x) = pm * (b * x)
    BY <1>1, <2>2
  <2>6. QED
    BY <2>2, <2>3, <2>4, <2>5
<1> HIDE DEF P
<1>4. n \in P
  BY <1>2, <1>3, UpTo
<1>5. QED
  BY <1>4 DEF P

-----------------------------------------------------------------------------
(* Numbers and their bytes.                                                 *)

\* Quotient and remainder are what the sum says.
LEMMA DivideIs ==
    ASSUME NEW a \in Int, NEW b \in Nat \ {0}, NEW q \in Int, NEW r \in 0..(b - 1), a = q * b + r
    PROVE  a \div b = q /\ a % b = r
OBVIOUS

\* Products of integers.
LEMMA Commute ==
    ASSUME NEW a \in Int, NEW b \in Int
    PROVE  a * b \in Int /\ a * b = b * a
OBVIOUS

\* A number is its quotient and its remainder.
LEMMA Divided ==
    ASSUME NEW a \in Int, NEW b \in Nat \ {0}
    PROVE  /\ a \div b \in Int /\ a % b \in 0..(b - 1)
           /\ a = (a \div b) * b + (a % b)
<1>1. /\ a \div b \in Int /\ a % b \in 0..(b - 1)
      /\ a = b * (a \div b) + (a % b)
  OBVIOUS
<1>2. b * (a \div b) = (a \div b) * b
  BY <1>1, Commute
<1>3. QED
  BY <1>1, <1>2

\* The products of a byte.
LEMMA ByteTimes ==
    ASSUME NEW d \in 0..255, NEW p \in Nat
    PROVE  d * p \in Nat /\ d * p <= 255 * p
OBVIOUS

\* The bytes of a sequence of bytes.
LEMMA ByteOf ==
    ASSUME NEW d \in Seq(0..255), NEW i \in 1..Len(d)
    PROVE  d[i] \in 0..255 /\ i - 1 \in Nat
BY ElementOfSeq

\* The powers of 256.
LEMMA PowFacts ==
    ASSUME NEW n \in Nat
    PROVE  /\ Codec!Pow(n) \in Nat \ {0} /\ Codec!Pow(0) = 1
           /\ Codec!Pow(n + 1) = 256 * Codec!Pow(n)
<1>1. 256 \in Nat \ {0}
  OBVIOUS
<1>2. QED
  BY <1>1, PowerNext, PowerPositive DEF Codec!Pow

\* A power of 256 is the product of two.
LEMMA PowSplit ==
    ASSUME NEW n \in Nat, NEW i \in 0..n
    PROVE  Codec!Pow(n) = Codec!Pow(i) * Codec!Pow(n - i)
<1>1. 256 \in Nat \ {0} /\ i \in Nat /\ n - i \in Nat /\ i + (n - i) = n
  OBVIOUS
<1>2. QED
  BY <1>1, PowerSum DEF Codec!Pow

\* Numbers that differ by what lies above n bytes.
Alike(a, r, n) == \E q \in Int : a = q * Codec!Pow(n) + r
ByteAt(a, i) == (a \div Codec!Pow(i)) % 256

\* The byte at a place is not changed by what lies above it.
LEMMA ByteBelow ==
    ASSUME NEW n \in Nat, NEW i \in Nat, i < n, NEW a \in Int, NEW r \in Int, Alike(a, r, n)
    PROVE  ByteAt(a, i) = ByteAt(r, i)
<1>0. PICK q \in Int : a = q * Codec!Pow(n) + r
  BY DEF Alike
<1> DEFINE p == Codec!Pow(i)
           c == Codec!Pow(n - (i + 1))
           s == r \div p
           t == r % p
<1>1. i + 1 \in 0..n /\ n - (i + 1) \in Nat /\ i + 1 \in Nat
  OBVIOUS
<1>2. p \in Nat \ {0} /\ c \in Nat \ {0} /\ Codec!Pow(n) = (256 * p) * c
  <2>1. Codec!Pow(i + 1) = 256 * p /\ p \in Nat \ {0}
    BY PowFacts
  <2>2. c \in Nat \ {0}
    BY <1>1, PowFacts
  <2> DEFINE k == i + 1
  <2>3. Codec!Pow(n) = Codec!Pow(k) * Codec!Pow(n - k)
    <3>1. k \in 0..n
      OBVIOUS
    <3> HIDE DEF k
    <3>2. QED
      BY <3>1, PowSplit
  <2>4. QED
    BY <2>1, <2>2, <2>3
<1>3. s \in Int /\ t \in 0..(p - 1) /\ r = s * p + t
  <2> HIDE DEF p
  <2>1. QED
    BY <1>2, Divided
<1> HIDE DEF p, c, s, t
<1> DEFINE u == (q * c) * 256 + s
<1>4. a = u * p + t /\ u \in Int
  <2>1. q * ((256 * p) * c) + (s * p + t) = u * p + t /\ u \in Int
    BY <1>2, <1>3
  <2> HIDE DEF u
  <2>2. QED
    BY <1>0, <1>2, <1>3, <2>1
<1> HIDE DEF u
<1>5. a \div p = u
  BY <1>2, <1>3, <1>4, DivideIs
<1> DEFINE x == s \div 256
           y == s % 256
           w == q * c
<1>7. x \in Int /\ y \in 0..(256 - 1) /\ s = x * 256 + y
  BY <1>3, Divided, 256 \in Nat \ {0}
<1>8. w \in Int /\ u = w * 256 + s
  BY <1>2 DEF u
<1> HIDE DEF x, w
<1>9. u % 256 = s % 256
  <2> HIDE DEF y
  <2>1. u = (w + x) * 256 + y /\ w + x \in Int
    BY <1>7, <1>8
  <2>2. u % 256 = y
    BY <1>4, <1>7, <2>1
  <2>3. QED
    BY <2>2 DEF y
<1>10. QED
  BY <1>5, <1>9 DEF p, s, ByteAt

\* Numbers with the same remainder have the same bytes.
LEMMA SameRemainder ==
    ASSUME NEW n \in Nat, NEW a \in Int, NEW r \in Int, Alike(a, r, n)
    PROVE  Codec!BytesOf(a, n) = Codec!BytesOf(r, n)
<1>1. ASSUME NEW i \in 1..n
      PROVE  (a \div Codec!Pow(i - 1)) % 256 = (r \div Codec!Pow(i - 1)) % 256
  <2> DEFINE j == i - 1
  <2>1. j \in Nat /\ j < n
    OBVIOUS
  <2> HIDE DEF j
  <2>2. ByteAt(a, j) = ByteAt(r, j)
    BY <2>1, ByteBelow
  <2>3. QED
    BY <2>2 DEF j, ByteAt
<1>2. QED
  BY <1>1 DEF Codec!BytesOf

\* Bytes makes as many bytes as it is asked for.
LEMMA BytesAre ==
    ASSUME NEW v \in Int, NEW n \in Nat
    PROVE  /\ Codec!BytesOf(v, n) \in [1..n -> 0..255] /\ Codec!BytesOf(v, n) \in Seq(0..255)
           /\ Len(Codec!BytesOf(v, n)) = n
<1>1. ASSUME NEW i \in 1..n PROVE (v \div Codec!Pow(i - 1)) % 256 \in 0..255
  <2>1. Codec!Pow(i - 1) \in Nat \ {0}
    BY PowFacts, i - 1 \in Nat
  <2>2. v \div Codec!Pow(i - 1) \in Int
    BY <2>1, Divided
  <2>3. QED
    BY <2>2
<1>2. Codec!BytesOf(v, n) \in [1..n -> 0..255]
  BY <1>1 DEF Codec!BytesOf
<1>3. QED
  BY <1>2

\* bytes_to_uint of at most a word.
LEMMA UintIs ==
    ASSUME NEW d \in Seq(0..255), Len(d) <= Word
    PROVE  \E f \in [0..Len(d) -> Nat] :
             /\ f[0] = 0 /\ \A i \in 1..Len(d) : f[i] = f[i - 1] + d[i] * Codec!Pow(i - 1)
             /\ Codec!Uint(d) = f[Len(d)]
<1> DEFINE n == Len(d)
           step == [x \in (1..n) \X Nat |-> x[2] + d[x[1]] * Codec!Pow(x[1] - 1)]
           Eq(f) == f = [i \in 0..n |-> IF i = 0 THEN 0 ELSE f[i - 1] + d[i] * Codec!Pow(i - 1)]
           p == CHOOSE f : Eq(f)
<1>1. n \in Nat /\ \A i \in 1..n : d[i] * Codec!Pow(i - 1) \in Nat
  <2>1. ASSUME NEW i \in 1..n PROVE d[i] * Codec!Pow(i - 1) \in Nat
    <3>1. i - 1 \in Nat /\ d[i] \in 0..255
      BY ByteOf
    <3>2. Codec!Pow(i - 1) \in Nat
      BY <3>1, PowFacts
    <3>3. QED
      BY <3>1, <3>2, ByteTimes
  <2>2. QED
    BY <2>1
<1>2. PICK f : Iterates(f, step, n, Nat, 0)
  <2>1. step \in [(1..n) \X Nat -> Nat]
    BY <1>1
  <2>2. Steps(step, n, Nat, 0)
    <3> HIDE DEF step
    <3>1. QED
      BY <1>1, <2>1 DEF Steps
  <2> HIDE DEF step
  <2>3. QED
    BY <2>2, RecursionExists
<1>3. f \in [0..n -> Nat] /\ f[0] = 0 /\ \A i \in 1..n : f[i] = f[i - 1] + d[i] * Codec!Pow(i - 1)
  <2>1. f \in [0..n -> Nat] /\ f[0] = 0 /\ \A i \in 1..n : f[i] = step[<<i, f[i - 1]>>]
    <3> HIDE DEF step
    <3>1. QED
      BY <1>2 DEF Iterates
  <2>2. ASSUME NEW i \in 1..n PROVE f[i] = f[i - 1] + d[i] * Codec!Pow(i - 1)
    <3>1. f[i - 1] \in Nat
      BY <2>1
    <3>2. step[<<i, f[i - 1]>>] = f[i - 1] + d[i] * Codec!Pow(i - 1)
      BY <3>1
    <3>3. QED
      BY <2>1, <3>2
  <2>3. QED
    BY <2>1, <2>2
<1>4. Eq(f)
  <2> HIDE DEF n
  <2>1. \A i \in 0..n : f[i] = IF i = 0 THEN 0 ELSE f[i - 1] + d[i] * Codec!Pow(i - 1)
    BY <1>3, <1>1
  <2>2. f = [i \in 0..n |-> f[i]]
    BY <1>3
  <2>3. QED
    BY <2>1, <2>2
<1>5. Eq(p)
  <2> HIDE DEF Eq
  <2>1. QED
    BY <1>4
<1>6. Word \in Nat
  BY ValuesAssumption DEF Codec!CodecAssumption
<1>7. Codec!Uint(d) = p[n]
  <2>1. (IF Len(d) < Word THEN Len(d) ELSE Word) = n
    BY <1>1, <1>6
  <2>2. QED
    BY <2>1 DEF Codec!Uint
<1> HIDE DEF p, n
<1>8. p[0] = 0 /\ \A i \in 1..n : p[i] = p[i - 1] + d[i] * Codec!Pow(i - 1)
  <2>1. \A i \in 0..n : p[i] = IF i = 0 THEN 0 ELSE p[i - 1] + d[i] * Codec!Pow(i - 1)
    BY <1>5
  <2>2. 0 \in 0..n /\ \A i \in 1..n : i \in 0..n /\ i # 0
    BY <1>1
  <2>3. QED
    BY <2>1, <2>2
<1>9. \A i \in 0..n : p[i] \in Nat
  <2> DEFINE P == {i \in 0..n : p[i] \in Nat}
  <2>1. 0 \in P
    BY <1>1, <1>8
  <2>2. ASSUME NEW i \in 1..n, i - 1 \in P PROVE i \in P
    BY <1>1, <1>8, <2>2
  <2> HIDE DEF P
  <2>3. \A i \in 0..n : i \in P
    BY <1>1, <2>1, <2>2, UpTo
  <2>4. QED
    BY <2>3 DEF P
<1>10. p \in [0..n -> Nat]
  <2>1. p = [i \in 0..n |-> p[i]]
    BY <1>5
  <2>2. QED
    BY <1>9, <2>1
<1>11. QED
  BY <1>7, <1>8, <1>10 DEF n

\* The number is below the power, and its bytes are the ones it was made of.
LEMMA UintDigits ==
    ASSUME NEW d \in Seq(0..255), Len(d) <= Word
    PROVE  /\ Codec!Uint(d) \in 0..(Codec!Pow(Len(d)) - 1)
           /\ \A i \in 1..Len(d) : (Codec!Uint(d) \div Codec!Pow(i - 1)) % 256 = d[i]
<1> DEFINE n == Len(d)
<1>1. n \in Nat /\ \A i \in 1..n : d[i] \in 0..255
  BY ByteOf
<1>2. PICK f \in [0..n -> Nat] :
         /\ f[0] = 0 /\ \A i \in 1..n : f[i] = f[i - 1] + d[i] * Codec!Pow(i - 1)
         /\ Codec!Uint(d) = f[n]
  BY UintIs
<1> DEFINE Right(k) == /\ f[k] < Codec!Pow(k)
                       /\ \A i \in 1..k : (f[k] \div Codec!Pow(i - 1)) % 256 = d[i]
           P == {k \in 0..n : Right(k)}
<1> HIDE DEF n
<1>3. 0 \in P
  <2>1. Codec!Pow(0) = 1
    BY PowFacts, 0 \in Nat
  <2>2. QED
    BY <1>1, <1>2, <2>1
<1>4. ASSUME NEW k \in 1..n, k - 1 \in P PROVE k \in P
  <2> DEFINE p == Codec!Pow(k - 1)
             x == f[k - 1]
  <2>1. k - 1 \in Nat /\ (k - 1) + 1 = k /\ k - 1 \in 0..n /\ k \in 0..n
    BY <1>1
  <2>2. p \in Nat \ {0} /\ Codec!Pow(k) = 256 * p
    BY <2>1, PowFacts
  <2> DEFINE b == d[k]
             e == b * p
  <2>3. x \in Nat /\ x < p /\ b \in 0..255 /\ f[k] = e + x
    <3>1. x \in Nat /\ x < p /\ b \in 0..255 /\ f[k] = x + d[k] * p
      BY <1>1, <1>2, <1>4, <2>1
    <3>2. e \in Nat
      <4> HIDE DEF p, b
      <4>1. QED
        BY <2>2, <3>1
    <3>3. QED
      BY <3>1, <3>2
  <2> HIDE DEF p, x, b
  <2>4. e \in Nat /\ e <= 255 * p
    BY <2>2, <2>3
  <2> HIDE DEF e
  <2>5. f[k] < Codec!Pow(k)
    BY <2>2, <2>3, <2>4
  <2>6. ASSUME NEW i \in 1..k PROVE (f[k] \div Codec!Pow(i - 1)) % 256 = d[i]
    <3>1. CASE i = k
      <4>1. f[k] = b * p + x /\ f[k] \in Int /\ x \in 0..(p - 1) /\ b \in Int
        BY <2>2, <2>3, <2>4 DEF e
      <4>2. f[k] \div p = b
        BY <2>2, <4>1, DivideIs
      <4>3. b % 256 = b
        BY <2>3
      <4>4. QED
        BY <3>1, <4>2, <4>3 DEF b, p
    <3>2. CASE i # k
      <4> DEFINE j == i - 1
                 m == k - 1
      <4>1. j \in Nat /\ j < m /\ i \in 1..m /\ m \in Nat
        BY <3>2
      <4>2. b \in Int /\ x \in Int /\ p = Codec!Pow(m)
        BY <2>3 DEF p
      <4>3. (x \div Codec!Pow(j)) % 256 = d[i]
        BY <1>4, <4>1 DEF x
      <4> HIDE DEF j, m
      <4>4. Alike(f[k], x, m) /\ f[k] \in Int
        <5>1. f[k] = b * Codec!Pow(m) + x
          BY <2>3, <4>2 DEF e
        <5>2. QED
          BY <2>3, <2>4, <4>2, <5>1 DEF Alike
      <4>5. (f[k] \div Codec!Pow(j)) % 256 = (x \div Codec!Pow(j)) % 256
        <5> DEFINE y == f[k]
        <5>1. y \in Int /\ Alike(y, x, m)
          BY <4>4
        <5> HIDE DEF y
        <5>2. ByteAt(y, j) = ByteAt(x, j)
          BY <4>1, <4>2, <5>1, ByteBelow
        <5>3. QED
          BY <5>2 DEF y, ByteAt
      <4>6. QED
        BY <4>3, <4>5 DEF j
    <3>3. QED
      BY <3>1, <3>2
  <2>7. QED
    BY <2>1, <2>5, <2>6
<1> HIDE DEF P, Right
<1>5. n \in P
  <2>1. \A k \in 0..n : k \in P
    BY <1>1, <1>3, <1>4, UpTo
  <2>2. QED
    BY <1>1, <2>1
<1>6. Right(n)
  BY <1>5 DEF P
<1>7. Codec!Pow(n) \in Nat
  BY <1>1, PowFacts
<1>8. QED
  BY <1>1, <1>2, <1>6, <1>7 DEF Right, n

\* The bytes of a number give its remainder.
LEMMA UintOfBytes ==
    ASSUME NEW v \in Int, NEW n \in Nat, n <= Word
    PROVE  Codec!Uint(Codec!BytesOf(v, n)) = v % Codec!Pow(n)
<1> DEFINE d == Codec!BytesOf(v, n)
<1>1. d \in Seq(0..255) /\ Len(d) = n
  BY BytesAre
<1>2. \A i \in 1..n : d[i] = (v \div Codec!Pow(i - 1)) % 256
  BY DEF Codec!BytesOf
<1> HIDE DEF d
<1>3. PICK f \in [0..n -> Nat] :
         /\ f[0] = 0 /\ \A i \in 1..n : f[i] = f[i - 1] + d[i] * Codec!Pow(i - 1)
         /\ Codec!Uint(d) = f[n]
  BY <1>1, UintIs
<1> DEFINE P == {k \in 0..n : f[k] = v % Codec!Pow(k)}
<1>4. 0 \in P
  <2>1. Codec!Pow(0) = 1 /\ v % 1 = 0
    BY PowFacts
  <2>2. QED
    BY <1>3, <2>1
<1>5. ASSUME NEW k \in 1..n, k - 1 \in P PROVE k \in P
  <2> DEFINE p == Codec!Pow(k - 1)
             q == v \div p
             r == v % p
             a == q \div 256
             b == q % 256
             e == b * p
             c == 256 * p
  <2>1. k - 1 \in Nat /\ (k - 1) + 1 = k
    OBVIOUS
  <2>2. p \in Nat \ {0} /\ Codec!Pow(k) = c
    BY <2>1, PowFacts
  <2>3. q \in Int /\ r \in 0..(p - 1) /\ v = q * p + r
    BY <2>2, Divided
  <2>4. d[k] = b /\ f[k] = f[k - 1] + d[k] * p /\ f[k - 1] = r
    BY <1>2, <1>3, <1>5
  <2> HIDE DEF p, q, r
  <2>5. a \in Int /\ b \in 0..(256 - 1) /\ q = a * 256 + b
    BY <2>3, Divided, 256 \in Nat \ {0}
  <2> HIDE DEF a, b
  <2>6. (a * 256 + b) * p + r = a * (256 * p) + (b * p + r)
    BY <2>2, <2>3, <2>5
  <2>7. e \in Nat /\ e <= 255 * p /\ c \in Nat \ {0}
    BY <2>2, <2>5
  <2>8. v = a * c + (e + r)
    BY <2>3, <2>5, <2>6
  <2>9. e + r \in 0..(c - 1)
    <3> HIDE DEF e
    <3>1. QED
      BY <2>2, <2>3, <2>7
  <2>10. v % c = e + r
    <3> HIDE DEF e, c
    <3>1. QED
      BY <2>5, <2>7, <2>8, <2>9, DivideIs
  <2>11. QED
    <3> HIDE DEF c
    <3>1. f[k] = e + r
      <4> HIDE DEF e
      <4>1. f[k] = r + e
        BY <2>4 DEF e
      <4>2. QED
        BY <2>3, <2>7, <4>1
    <3>2. QED
      BY <2>2, <2>10, <3>1
<1> HIDE DEF P
<1>6. n \in P
  <2>1. \A k \in 0..n : k \in P
    BY <1>4, <1>5, UpTo
  <2>2. QED
    BY <2>1
<1>7. QED
  BY <1>3, <1>6 DEF P, d

-----------------------------------------------------------------------------
(* Numbers and their digits.                                                *)

\* The power of a larger base is no smaller.
LEMMA PowerBase ==
    ASSUME NEW n \in Nat
    PROVE  Codec!Power(10, n) <= Codec!Power(16, n)
<1> DEFINE P == {i \in 0..n : Codec!Power(10, i) <= Codec!Power(16, i)}
<1>0. 10 \in Nat \ {0} /\ 16 \in Nat \ {0}
  OBVIOUS
<1>1. 0 \in P
  <2>1. Codec!Power(10, 0) = 1 /\ Codec!Power(16, 0) = 1
    BY <1>0, PowerNext, 0 \in Nat
  <2>2. QED
    BY <2>1
<1>2. ASSUME NEW i \in 1..n, i - 1 \in P PROVE i \in P
  <2> DEFINE x == Codec!Power(10, i - 1)
             y == Codec!Power(16, i - 1)
  <2>1. i - 1 \in Nat /\ (i - 1) + 1 = i
    OBVIOUS
  <2>2. x \in Nat /\ y \in Nat /\ Codec!Power(10, i) = 10 * x /\ Codec!Power(16, i) = 16 * y
    BY <1>0, <2>1, PowerNext
  <2>3. x <= y
    BY <1>2
  <2> HIDE DEF x, y
  <2>4. 10 * x <= 16 * y
    BY <2>2, <2>3
  <2>5. QED
    BY <2>2, <2>4
<1> HIDE DEF P
<1>3. n \in P
  BY <1>1, <1>2, UpTo
<1>4. QED
  BY <1>3 DEF P

\* A larger exponent gives no smaller power.
LEMMA PowerGrows ==
    ASSUME NEW m \in Nat, NEW n \in Nat, m <= n
    PROVE  Codec!Power(16, m) <= Codec!Power(16, n)
<1> DEFINE x == Codec!Power(16, m)
           k == n - m
           y == Codec!Power(16, k)
<1>1. k \in Nat /\ m + k = n /\ 16 \in Nat \ {0}
  OBVIOUS
<1> HIDE DEF k
<1>2. x \in Nat \ {0} /\ y \in Nat \ {0}
  BY <1>1, PowerPositive
<1>3. Codec!Power(16, m + k) = x * y
  BY <1>1, PowerSum
<1> HIDE DEF x, y
<1>4. x <= x * y
  BY <1>2
<1>5. QED
  BY <1>1, <1>3, <1>4 DEF x

\* Two digits of a base are one of its square.
LEMMA PowerOfSquare ==
    ASSUME NEW n \in Nat
    PROVE  Codec!Power(16, 2 * n) = Codec!Pow(n)
<1> DEFINE P == {i \in 0..n : Codec!Power(16, 2 * i) = Codec!Pow(i)}
<1>0. 16 \in Nat \ {0}
  OBVIOUS
<1>1. 0 \in P
  <2>1. Codec!Power(16, 0) = 1 /\ Codec!Pow(0) = 1 /\ 2 * 0 = 0
    BY <1>0, PowerNext, PowFacts, 0 \in Nat
  <2>2. QED
    BY <2>1
<1>2. ASSUME NEW i \in 1..n, i - 1 \in P PROVE i \in P
  <2> DEFINE j == i - 1
             a == 2 * j
             x == Codec!Power(16, a)
  <2>1. j \in Nat /\ j + 1 = i /\ a \in Nat /\ a + 1 \in Nat /\ (a + 1) + 1 = 2 * i
    OBVIOUS
  <2>2. x = Codec!Pow(j)
    BY <1>2
  <2> HIDE DEF a, j
  <2>3. x \in Nat /\ Codec!Power(16, a + 1) = 16 * x
    BY <1>0, <2>1, PowerNext
  <2>4. Codec!Power(16, (a + 1) + 1) = 16 * Codec!Power(16, a + 1)
    BY <1>0, <2>1, PowerNext
  <2>5. Codec!Pow(j + 1) = 256 * Codec!Pow(j)
    BY <2>1, PowFacts
  <2> HIDE DEF x
  <2>6. 16 * (16 * x) = 256 * x
    BY <2>3
  <2>7. Codec!Power(16, 2 * i) = Codec!Pow(i)
    BY <2>1, <2>2, <2>3, <2>4, <2>5, <2>6
  <2>8. QED
    BY <2>7
<1> HIDE DEF P
<1>3. n \in P
  BY <1>1, <1>2, UpTo
<1>4. QED
  BY <1>3 DEF P

\* Every number is below some power.
LEMMA PowerAbove ==
    ASSUME NEW b \in Nat, b > 1, NEW m \in Nat
    PROVE  m < Codec!Power(b, m + 1)
<1> DEFINE P == {i \in 0..m : i < Codec!Power(b, i + 1)}
<1>0. b \in Nat \ {0}
  OBVIOUS
<1>1. 0 \in P
  <2>1. Codec!Power(b, 0 + 1) = b * 1 
    BY <1>0, PowerNext, 0 \in Nat
  <2>2. 0 < Codec!Power(b, 0 + 1)
    BY <2>1
  <2>3. QED
    BY <2>2
<1>2. ASSUME NEW i \in 1..m, i - 1 \in P PROVE i \in P
  <2> DEFINE j == i + 0
             x == Codec!Power(b, j)
  <2>1. i - 1 < x
    <3>1. (i - 1) + 1 = j
      OBVIOUS
    <3>2. QED
      BY <1>2, <3>1
  <2>2. j \in Nat /\ j = i
    OBVIOUS
  <2> HIDE DEF j
  <2>3. x \in Nat \ {0} /\ Codec!Power(b, j + 1) = b * x
    BY <1>0, <2>2, PowerNext, PowerPositive
  <2> HIDE DEF x
  <2>4. b * x >= 2 * x
    BY <2>3
  <2>5. i < b * x
    BY <2>1, <2>3, <2>4
  <2>6. QED
    BY <2>2, <2>3, <2>5
<1> HIDE DEF P
<1>3. m \in P
  BY <1>1, <1>2, UpTo
<1>4. QED
  BY <1>3 DEF P

\* The count of a number's digits, and what it says of the number.
Below(m, n, b) == n \in Nat \ {0} /\ m < Codec!Power(b, n)

\* Dividing by the base takes one digit off.
LEMMA BelowNext ==
    ASSUME NEW b \in Nat, b > 1, NEW m \in Nat, NEW n \in Nat \ {0}
    PROVE  /\ m \div b \in Nat /\ (m >= b => m \div b < m)
           /\ Below(m, n + 1, b) <=> Below(m \div b, n, b)
           /\ Below(m, 1, b) <=> m < b
<1> DEFINE q == m \div b
           r == m % b
           x == Codec!Power(b, n)
<1>1. q \in Int /\ r \in 0..(b - 1) /\ m = q * b + r
  BY Divided, b \in Nat \ {0}
<1>2. x \in Nat \ {0} /\ Codec!Power(b, n + 1) = b * x
  BY PowerNext, PowerPositive, b \in Nat \ {0}, n \in Nat
<1>3. Codec!Power(b, 1) = b
  <2>1. Codec!Power(b, 0 + 1) = b * Codec!Power(b, 0) /\ Codec!Power(b, 0) = 1
    BY PowerNext, b \in Nat \ {0}, 0 \in Nat
  <2>2. QED
    BY <2>1
<1> HIDE DEF q, r, x
<1>4. q \in Nat
  <2>1. ASSUME q < 0 PROVE FALSE
    <3>1. q * b <= (-1) * b
      BY <1>1, <2>1
    <3>2. QED
      BY <1>1, <3>1
  <2>2. QED
    BY <1>1, <2>1
<1>5. m >= b => q < m
  <2>1. ASSUME m >= b PROVE q < m
    <3>1. q # 0
      BY <1>1, <2>1
    <3>2. q * b >= 2 * q
      BY <1>4
    <3>3. QED
      BY <1>1, <1>4, <3>1, <3>2
  <2>2. QED
    BY <2>1
<1>6. m < b * x <=> q < x
  <2>1. ASSUME q < x PROVE m < b * x
    <3>1. (q + 1) * b <= x * b /\ (q + 1) * b = q * b + b /\ x * b = b * x
      BY <1>2, <1>4, <2>1
    <3> DEFINE e == q * b
               g == b * x
    <3>2. e \in Int /\ g \in Int /\ e + b <= g /\ m = e + r
      BY <1>1, <1>2, <1>4, <3>1
    <3> HIDE DEF e, g
    <3>3. m < g
      BY <1>1, <3>2
    <3>4. QED
      BY <3>3 DEF g
  <2>2. ASSUME q >= x PROVE m >= b * x
    <3>1. q * b >= x * b /\ x * b = b * x /\ b * x \in Nat
      BY <1>2, <1>4, <2>2
    <3>2. QED
      BY <1>1, <3>1
  <2>3. QED
    BY <1>1, <1>2, <1>4, <2>1, <2>2
<1>7. QED
  BY <1>2, <1>3, <1>4, <1>5, <1>6 DEF Below, q, x

\* A number is below its base to the power of its digits.
LEMMA DigitCountIs ==
    ASSUME NEW b \in Nat, b > 1, NEW mag \in Nat
    PROVE  Below(mag, Codec!DigitCount(mag, b), b)
<1> DEFINE Least(m, n) == Below(m, n, b) /\ \A k \in Nat : Below(m, k, b) => n <= k
           count == [m \in 0..mag |-> CHOOSE n \in Nat : Least(m, n)]
           Eq(f) == f = [m \in 0..mag |-> IF m < b THEN 1 ELSE 1 + f[m \div b]]
           c == CHOOSE f : Eq(f)
<1>1. ASSUME NEW m \in 0..mag PROVE count[m] \in Nat /\ Least(m, count[m])
  <2> DEFINE S == {n \in Nat : Below(m, n, b)}
  <2>1. m + 1 \in S
    <3>1. m < Codec!Power(b, m + 1)
      BY PowerAbove
    <3>2. QED
      BY <3>1 DEF Below
  <2>2. PICK n \in S : \A k \in S : n <= k
    <3> HIDE DEF S
    <3>1. S \in SUBSET Nat
      BY DEF S
    <3>2. QED
      BY <2>1, <3>1, LeastNumber
  <2>3. n \in Nat /\ Least(m, n)
    BY <2>2
  <2> HIDE DEF Least
  <2>4. QED
    BY <2>3
<1>2. ASSUME NEW m \in 0..mag PROVE count[m] = IF m < b THEN 1 ELSE 1 + count[m \div b]
  <2> DEFINE q == m \div b
             x == count[m]
             y == count[q]
  <2>1. q \in Nat /\ (m >= b => q < m)
    BY BelowNext, 1 \in Nat \ {0}
  <2>2. x \in Nat /\ Least(m, x)
    BY <1>1
  <2>3. CASE m < b
    <3>1. Below(m, 1, b)
      BY <2>3, BelowNext, 1 \in Nat \ {0}
    <3>2. x <= 1 /\ x # 0
      BY <2>2, <3>1, 1 \in Nat DEF Below
    <3>3. QED
      BY <2>2, <2>3, <3>2
  <2>4. CASE m >= b
    <3>1. q \in 0..mag
      BY <2>1, <2>4
    <3>2. y \in Nat /\ Least(q, y)
      BY <1>1, <3>1
    <3> HIDE DEF count, q, x, y
    <3>3. x <= y + 1
      <4>1. y \in Nat \ {0} /\ Below(q, y, b)
        BY <3>2 DEF Below
      <4>2. Below(m, y + 1, b)
        BY <4>1, BelowNext DEF q
      <4>3. QED
        BY <2>2, <3>2, <4>2, y + 1 \in Nat
    <3>4. x # 1 /\ x # 0
      BY <2>2, <2>4, BelowNext DEF Below
    <3>5. y <= x - 1
      <4> DEFINE z == x - 1
      <4>1. z \in Nat \ {0} /\ z + 1 = x
        BY <2>2, <3>4
      <4> HIDE DEF z
      <4>2. Below(m, z + 1, b)
        BY <2>2, <4>1
      <4>3. Below(q, z, b)
        BY <4>1, <4>2, BelowNext DEF q
      <4>4. y <= z
        BY <3>2, <4>1, <4>3
      <4>5. QED
        BY <4>4 DEF z
    <3>6. x = 1 + y
      BY <2>2, <3>2, <3>3, <3>5
    <3>7. QED
      BY <2>4, <3>6 DEF x, y, q
  <2>5. m < b \/ m >= b
    OBVIOUS
  <2> HIDE DEF count, q, x, y
  <2>6. QED
    BY <2>3, <2>4, <2>5
<1>3. Eq(count)
  <2>1. count = [m \in 0..mag |-> count[m]]
    OBVIOUS
  <2> HIDE DEF count
  <2>2. QED
    BY <1>2, <2>1
<1>4. Eq(c)
  <2> HIDE DEF Eq, count
  <2>1. QED
    BY <1>3
<1>5. Codec!DigitCount(mag, b) = c[mag]
  BY DEF Codec!DigitCount
<1> HIDE DEF c, count
<1>6. \A m \in 0..mag : c[m] = IF m < b THEN 1 ELSE 1 + c[m \div b]
  BY <1>4
<1> DEFINE Bad == {m \in 0..mag : ~Below(m, c[m], b)}
<1>7. ASSUME Bad # {} PROVE FALSE
  <2>1. Bad \in SUBSET Nat
    OBVIOUS
  <2> HIDE DEF Bad
  <2>2. PICK m \in Bad : \A k \in Bad : m <= k
    BY <1>7, <2>1, LeastNumber
  <2>3. m \in 0..mag /\ ~Below(m, c[m], b)
    BY <2>2 DEF Bad
  <2>4. CASE m < b
    <3>1. Below(m, 1, b)
      BY <2>3, <2>4, BelowNext, 1 \in Nat \ {0}
    <3>2. QED
      BY <1>6, <2>3, <2>4, <3>1
  <2>5. CASE m >= b
    <3> DEFINE q == m \div b
    <3>1. q \in Nat /\ q < m
      BY <2>3, <2>5, BelowNext, 1 \in Nat \ {0}
    <3>2. c[m] = 1 + c[q]
      BY <1>6, <2>3, <2>5
    <3> HIDE DEF q
    <3>3. Below(q, c[q], b)
      BY <2>2, <2>3, <3>1 DEF Bad
    <3> DEFINE k == c[q]
    <3>4. k \in Nat \ {0} /\ Below(q, k, b) /\ c[m] = k + 1
      BY <3>2, <3>3 DEF Below
    <3> HIDE DEF k
    <3>5. Below(m, k + 1, b)
      BY <2>3, <3>4, BelowNext DEF q
    <3>6. QED
      BY <2>3, <3>4, <3>5
  <2>6. QED
    BY <2>3, <2>4, <2>5
<1>8. mag \in 0..mag
  OBVIOUS
<1>9. QED
  BY <1>5, <1>7, <1>8

\* A number is below sixteen to the power of its digits.
LEMMA DigitsBound ==
    ASSUME NEW t \in Codec!Numbers
    PROVE  /\ Codec!Digits(t) \in Nat \ {0}
           /\ \A k \in Nat : Codec!Digits(t) <= k => t.mag < Codec!Power(16, k)
<1> DEFINE b == Codec!Base(t)
           n == Codec!DigitCount(t.mag, b)
<1>1. b \in Nat /\ b > 1 /\ b \in {10, 16} /\ t.mag \in Nat /\ t.zeros \in Nat
  BY DEF Codec!Base, Codec!Numbers
<1> HIDE DEF b
<1>2. n \in Nat \ {0} /\ t.mag < Codec!Power(b, n)
  BY <1>1, DigitCountIs DEF Below
<1>3. Codec!Digits(t) = t.zeros + n
  BY DEF Codec!Digits, b
<1> HIDE DEF n
<1>4. Codec!Power(b, n) <= Codec!Power(16, n) /\ Codec!Power(b, n) \in Nat /\ Codec!Power(16, n) \in Nat
  <2>1. Codec!Power(16, n) \in Nat /\ Codec!Power(10, n) \in Nat
    BY <1>2, PowerPositive, 16 \in Nat \ {0}, 10 \in Nat \ {0}
  <2>2. Codec!Power(10, n) <= Codec!Power(16, n)
    BY <1>2, PowerBase
  <2>3. QED
    BY <1>1, <2>1, <2>2
<1>5. ASSUME NEW k \in Nat, t.zeros + n <= k PROVE t.mag < Codec!Power(16, k)
  <2>1. n \in Nat /\ n <= k
    BY <1>1, <1>2, <1>5
  <2>2. Codec!Power(16, n) <= Codec!Power(16, k) /\ Codec!Power(16, k) \in Nat
    BY <2>1, PowerGrows, PowerPositive, 16 \in Nat \ {0}
  <2>3. QED
    BY <1>1, <1>2, <1>4, <2>2
<1>6. QED
  BY <1>1, <1>2, <1>3, <1>5

-----------------------------------------------------------------------------
(* What is typed and its bytes.                                             *)

\* A text is a number or a run of bytes.
LEMMA TextIs ==
    ASSUME NEW t \in CodecTexts
    PROVE  \/ t \in Codec!Numbers /\ Codec!IsNumber(t)
           \/ t \in Codec!Runs /\ ~Codec!IsNumber(t)
<1>1. t \in Codec!Numbers \/ t \in Codec!Runs
  BY ValuesAssumption DEF Codec!CodecAssumption
<1>2. QED
  BY <1>1 DEF Codec!Numbers, Codec!Runs, Codec!IsNumber

\* A byte text is made of bytes.
LEMMA BlobBytes ==
    ASSUME NEW t \in CodecTexts
    PROVE  Codec!BlobOf(t) \in Seq(0..255)
<1>1. CASE t \in Codec!Runs /\ ~Codec!IsNumber(t)
  <2> DEFINE s == t.bytes
  <2>1. s \in Seq(0..9) /\ Codec!BlobOf(t) = s
    BY <1>1 DEF Codec!Runs, Codec!BlobOf
  <2> HIDE DEF s
  <2>2. s \in [1..Len(s) -> 0..9] /\ Len(s) \in Nat
    BY <2>1
  <2>3. 0..9 \subseteq 0..255
    OBVIOUS
  <2>4. s \in [1..Len(s) -> 0..255]
    BY <2>2, <2>3
  <2>5. QED
    BY <2>1, <2>2, <2>4
<1>2. CASE t \in Codec!Numbers /\ Codec!IsNumber(t)
  <2> DEFINE n == Codec!DigitPairs(t)
  <2>1. n \in Nat
    <3> DEFINE x == Codec!Digits(t)
    <3>1. x \in Nat
      BY <1>2, DigitsBound
    <3> HIDE DEF x
    <3>2. (x + 1) \div 2 \in Nat
      BY <3>1
    <3>3. QED
      BY <3>2 DEF Codec!DigitPairs, x
  <2> HIDE DEF n
  <2>2. ASSUME NEW k \in Nat PROVE Codec!Digit(t, k) \in 0..15
    <3> DEFINE b == Codec!Base(t)
               p == Codec!Power(b, k)
               x == t.mag \div p
    <3>1. b \in {10, 16} /\ b \in Nat \ {0} /\ t.mag \in Int
      BY <1>2 DEF Codec!Base, Codec!Numbers
    <3> HIDE DEF b
    <3>2. p \in Nat \ {0}
      BY <3>1, PowerPositive
    <3> HIDE DEF p
    <3>3. x \in Int
      BY <3>1, <3>2, Divided
    <3> HIDE DEF x
    <3>4. x % b \in 0..15
      BY <3>1, <3>3
    <3>5. QED
      BY <3>4 DEF Codec!Digit, b, p, x
  <2>3. ASSUME NEW i \in 1..n
        PROVE  16 * Codec!Digit(t, 2 * (n - i) + 1) + Codec!Digit(t, 2 * (n - i)) \in 0..255
    <3> DEFINE x == Codec!Digit(t, 2 * (n - i) + 1)
               y == Codec!Digit(t, 2 * (n - i))
    <3>1. x \in 0..15
      BY <2>1, <2>2, 2 * (n - i) + 1 \in Nat
    <3>2. y \in 0..15
      BY <2>1, <2>2, 2 * (n - i) \in Nat
    <3> HIDE DEF x, y
    <3>3. 16 * x + y \in 0..255
      BY <3>1, <3>2
    <3>4. QED
      BY <3>3 DEF x, y
  <2>4. Codec!BlobOf(t) =
          [i \in 1..n |-> 16 * Codec!Digit(t, 2 * (n - i) + 1) + Codec!Digit(t, 2 * (n - i))]
    BY <1>2 DEF Codec!BlobOf, n
  <2>5. Codec!BlobOf(t) \in [1..n -> 0..255]
    BY <2>3, <2>4
  <2>6. QED
    BY <2>1, <2>5
<1>3. QED
  BY <1>1, <1>2, TextIs

\* The word is as large as any variable it holds.
LEMMA WordFacts ==
    /\ Word \in Nat \ {0}
    /\ \A n \in Nat \ {0} : n <= Word => \E q \in Nat \ {0} : Codec!Pow(Word) = q * Codec!Pow(n)
<1>1. Word \in Nat \ {0}
  BY ValuesAssumption DEF Codec!CodecAssumption
<1>2. ASSUME NEW n \in Nat \ {0}, n <= Word
      PROVE  \E q \in Nat \ {0} : Codec!Pow(Word) = q * Codec!Pow(n)
  <2> DEFINE k == Word - n
             q == Codec!Pow(k)
             p == Codec!Pow(n)
  <2>1. n \in 0..Word /\ k \in Nat /\ Word \in Nat
    BY <1>1, <1>2
  <2>2. Codec!Pow(Word) = p * q
    BY <2>1, PowSplit
  <2> HIDE DEF k
  <2>3. p \in Nat \ {0} /\ q \in Nat \ {0}
    BY <2>1, PowFacts
  <2> HIDE DEF p, q
  <2>4. p * q = q * p
    BY <2>3
  <2>5. Codec!Pow(Word) = q * p
    BY <2>2, <2>4
  <2>6. QED
    BY <2>3, <2>5 DEF p
<1>3. QED
  BY <1>1, <1>2

\* Half a power of 256, and what has one digit less than it.
LEMMA HalfPow ==
    ASSUME NEW n \in Nat \ {0}
    PROVE  /\ Codec!Pow(n) \div 2 \in Nat \ {0} /\ Codec!Pow(n) = 2 * (Codec!Pow(n) \div 2)
           /\ 16 * Codec!Power(16, 2 * n - 1) = Codec!Pow(n)
<1> DEFINE k == n - 1
           p == Codec!Pow(k)
<1>1. k \in Nat /\ k + 1 = n
  OBVIOUS
<1> HIDE DEF k
<1>2. p \in Nat \ {0} /\ Codec!Pow(n) = 256 * p
  BY <1>1, PowFacts
<1> HIDE DEF p
<1>3. (256 * p) \div 2 = 128 * p
  BY <1>2
<1> DEFINE j == 2 * n - 1
<1>4. j \in Nat /\ j + 1 = 2 * n
  OBVIOUS
<1> HIDE DEF j
<1>5. Codec!Power(16, j + 1) = 16 * Codec!Power(16, j)
  BY <1>4, PowerNext, 16 \in Nat \ {0}
<1>6. Codec!Power(16, 2 * n) = Codec!Pow(n)
  BY PowerOfSquare
<1>7. QED
  BY <1>2, <1>3, <1>4, <1>5, <1>6 DEF j

\* A text that encode_value takes gives as many bytes as the variable has.
LEMMA EncodeBytes ==
    ASSUME NEW t \in CodecTexts, NEW n \in Nat \ {0}, Codec!Encode(t, n).ok
    PROVE  /\ Codec!Encode(t, n) = Codec!Gives(Codec!Encode(t, n).data)
           /\ Codec!Encode(t, n).data \in Seq(0..255) /\ Len(Codec!Encode(t, n).data) = n
<1> DEFINE v == (IF Codec!Negative(t) THEN Codec!Pow(Word) - Codec!Magnitude(t)
                 ELSE Codec!Magnitude(t)) % Codec!Pow(Word)
<1>1. CASE n > Word \/ Codec!LooksLikeBlob(t, n)
  <2>1. Codec!Encode(t, n) = Codec!Blob(t, n)
    BY <1>1 DEF Codec!Encode
  <2>2. Codec!Blob(t, n) = Codec!Gives(Codec!BlobOf(t)) /\ Len(Codec!BlobOf(t)) = n
    BY <2>1 DEF Codec!Blob, Codec!Threw
  <2>3. QED
    BY <2>1, <2>2, BlobBytes DEF Codec!Gives
<1>2. CASE ~(n > Word \/ Codec!LooksLikeBlob(t, n))
  <2>1. Codec!Encode(t, n) = Codec!Gives(Codec!BytesOf(v, n))
    BY <1>2 DEF Codec!Encode, Codec!Threw
  <2>2. Codec!Magnitude(t) \in Int
    <3>1. CASE t \in Codec!Numbers /\ Codec!IsNumber(t)
      BY <3>1 DEF Codec!Magnitude, Codec!Numbers
    <3>2. CASE t \in Codec!Runs /\ ~Codec!IsNumber(t)
      <4> DEFINE s == t.bytes
      <4>1. s \in Seq(0..9) /\ s # <<>>
        BY <3>2 DEF Codec!Runs
      <4> HIDE DEF s
      <4>2. 1 \in 1..Len(s)
        BY <4>1
      <4>3. s[1] \in 0..9
        BY <4>1, <4>2, ElementOfSeq
      <4>4. QED
        BY <3>2, <4>3 DEF Codec!Magnitude, s
    <3>3. QED
      BY <3>1, <3>2, TextIs
  <2>3. v \in Int
    <3> DEFINE p == Codec!Pow(Word)
               m == Codec!Magnitude(t)
    <3>1. p \in Nat \ {0} /\ m \in Int
      BY <2>2, WordFacts, PowFacts
    <3> HIDE DEF p, m
    <3>2. \A x \in Int : x % p \in Int
      BY <3>1, Divided
    <3>3. p - m \in Int
      BY <3>1
    <3>4. QED
      BY <3>1, <3>2, <3>3 DEF p, m
  <2> HIDE DEF v
  <2>4. QED
    BY <2>1, <2>3, BytesAre DEF Codec!Gives
<1>3. QED
  BY <1>1, <1>2

\* A number that is accepted has room, and its bytes are the number's own.
LEMMA NumberEncoded ==
    ASSUME NEW t \in Codec!Numbers, Codec!IsNumber(t),
           NEW n \in Nat \ {0}, n <= Word, Codec!Encode(t, n).ok
    PROVE  /\ Codec!Value(t) \in Int
           /\ Codec!Value(t) >= -(Codec!Pow(n) \div 2) /\ Codec!Value(t) < Codec!Pow(n)
           /\ Codec!Encode(t, n).data = Codec!BytesOf(Codec!Value(t), n)
<1> DEFINE w == Codec!Pow(Word)
           p == Codec!Pow(n)
           h == p \div 2
           m == t.mag
           neg == t.neg
           v == IF neg THEN -m ELSE m
           x == (IF neg THEN w - m ELSE m) % w
           dgs == Codec!Digits(t)
<1>1. /\ m \in Nat /\ neg \in BOOLEAN /\ Codec!Negative(t) = neg
      /\ Codec!Magnitude(t) = m /\ Codec!Value(t) = v
  BY DEF Codec!Numbers, Codec!Magnitude, Codec!Negative, Codec!Value
<1>2. w \in Nat \ {0} /\ p \in Nat \ {0} /\ h \in Nat \ {0} /\ p = 2 * h
  BY WordFacts, PowFacts, HalfPow
<1>3. dgs \in Nat \ {0} /\ \A k \in Nat : dgs <= k => m < Codec!Power(16, k)
  BY DigitsBound
<1>4. /\ Codec!Chars(t) \in Nat /\ Codec!Chars(t) >= dgs
      /\ neg => Codec!Chars(t) >= dgs + 1
      /\ ~neg => Codec!Chars(t) = dgs
  <2> HIDE DEF dgs
  <2>1. Codec!Chars(t) = dgs + (IF ~neg THEN 0 ELSE IF t.kind = "hex" THEN 3 ELSE 1)
    BY DEF Codec!Chars, dgs
  <2>2. QED
    BY <1>1, <1>3, <2>1
<1>5. ~Codec!LooksLikeBlob(t, n)
  <2>1. ASSUME Codec!LooksLikeBlob(t, n) PROVE FALSE
    <3> DEFINE c == Codec!DigitPairs(t)
    <3>1. Codec!Encode(t, n) = Codec!Blob(t, n) /\ Codec!Chars(t) > 2 * n
      BY <2>1 DEF Codec!Encode, Codec!LooksLikeBlob
    <3>2. ~neg /\ Len(Codec!BlobOf(t)) = n
      BY <1>1, <3>1 DEF Codec!Blob, Codec!Threw
    <3>3. dgs > 2 * n
      BY <1>1, <1>4, <3>1, <3>2
    <3>4. c \in Nat /\ c > n
      <4> HIDE DEF dgs
      <4>1. (dgs + 1) \div 2 \in Nat /\ (dgs + 1) \div 2 > n
        BY <1>3, <3>3
      <4>2. QED
        BY <4>1 DEF Codec!DigitPairs, dgs
    <3> HIDE DEF c
    <3> DEFINE f == [i \in 1..c |-> 16 * Codec!Digit(t, 2 * (c - i) + 1) + Codec!Digit(t, 2 * (c - i))]
    <3>5. Codec!BlobOf(t) = f
      BY DEF Codec!BlobOf, c
    <3>6. Len(f) = c
      BY <3>4
    <3>7. QED
      BY <3>2, <3>4, <3>5, <3>6
  <2>2. QED
    BY <2>1
<1>6. Codec!Chars(t) <= 2 * n
  BY <1>4, <1>5 DEF Codec!LooksLikeBlob
<1>7. m < p /\ (neg => m < h)
  <2>1. Codec!Power(16, 2 * n) = p
    BY PowerOfSquare
  <2>2. 16 * Codec!Power(16, 2 * n - 1) = p
    BY HalfPow
  <2>3. 2 * n \in Nat /\ 2 * n - 1 \in Nat
    OBVIOUS
  <2>4. m < p
    <3> HIDE DEF dgs, m, p
    <3>1. dgs <= 2 * n
      BY <1>3, <1>4, <1>6
    <3>2. QED
      BY <1>3, <2>1, <2>3, <3>1
  <2>5. ASSUME neg PROVE m < h
    <3> DEFINE y == Codec!Power(16, 2 * n - 1)
    <3>1. m < y
      <4> HIDE DEF dgs, m
      <4>1. dgs <= 2 * n - 1
        BY <1>3, <1>4, <1>6, <2>5
      <4>2. QED
        BY <1>3, <2>3, <4>1
    <3>2. y \in Nat
      BY <2>3, PowerNext, 16 \in Nat \ {0}
    <3> HIDE DEF y, h, m, p
    <3>3. QED
      BY <1>1, <1>2, <2>2, <3>1, <3>2 DEF y
  <2>6. QED
    BY <2>4, <2>5
<1>8. Codec!Encode(t, n) = Codec!Gives(Codec!BytesOf(x, n)) /\ m < w
  <2>1. ~(n > Word \/ Codec!LooksLikeBlob(t, n))
    BY <1>5, WordFacts
  <2> HIDE DEF m, neg
  <2>2. Codec!Encode(t, n) = IF m >= w THEN Codec!Threw ELSE Codec!Gives(Codec!BytesOf(x, n))
    BY <1>1, <2>1 DEF Codec!Encode
  <2> HIDE DEF w, x
  <2>3. ~(m >= w)
    BY <2>2 DEF Codec!Threw
  <2>4. QED
    BY <1>1, <1>2, <2>2, <2>3
<1>9. PICK q \in Nat \ {0} : w = q * p
  BY WordFacts
<1> HIDE DEF w, p, h, m, neg
<1>10. x = v \/ x = w + v
  <2>1. CASE neg /\ m # 0
    <3>1. x = w - m
      BY <1>1, <1>2, <1>8, <2>1
    <3>2. QED
      BY <1>1, <1>2, <2>1, <3>1
  <2>2. CASE neg /\ m = 0
    <3>1. w % w = 0
      BY <1>2
    <3>2. QED
      BY <1>1, <1>2, <2>2, <3>1
  <2>3. CASE ~neg
    BY <1>1, <1>2, <1>8, <2>3
  <2>4. QED
    BY <1>1, <2>1, <2>2, <2>3
<1>11. v \in Int /\ x \in Int
  BY <1>1, <1>2, <1>10
<1> HIDE DEF x
<1>12. Alike(x, v, n)
  <2>1. 0 * p = 0
    BY <1>2
  <2>2. x = 0 * p + v \/ x = q * p + v
    <3> HIDE DEF v
    <3>1. QED
      BY <1>2, <1>9, <1>10, <1>11, <2>1
  <2>3. QED
    BY <2>2, 0 \in Int, q \in Int DEF Alike, p
<1> HIDE DEF v
<1>13. Codec!BytesOf(x, n) = Codec!BytesOf(v, n)
  BY <1>11, <1>12, SameRemainder, n \in Nat
<1>14. v >= -h /\ v < p
  BY <1>1, <1>2, <1>7 DEF v
<1>15. QED
  BY <1>1, <1>8, <1>11, <1>13, <1>14 DEF Codec!Gives, h, p

\* What is shown of bytes: their number or what it is less the power, in the
\* range of the type, and of the same bytes.
LEMMA DecodeIs ==
    ASSUME NEW d \in Seq(0..255), NEW n \in Nat \ {0}, Len(d) = n, n <= Word, NEW s \in BOOLEAN
    PROVE  /\ Codec!Decode(d, s) \in {Codec!Uint(d), Codec!Uint(d) - Codec!Pow(n)}
           /\ Codec!Decode(d, s) >= (IF s THEN -(Codec!Pow(n) \div 2) ELSE 0)
           /\ Codec!Decode(d, s) < (IF s THEN Codec!Pow(n) \div 2 ELSE Codec!Pow(n))
           /\ \A i \in 1..n : ((Codec!Decode(d, s) + Codec!Pow(n)) \div Codec!Pow(i - 1)) % 256 = d[i]
<1> DEFINE p == Codec!Pow(n)
           h == p \div 2
           u == Codec!Uint(d)
           x == Codec!Decode(d, s)
<1>1. p \in Nat \ {0} /\ h \in Nat \ {0} /\ p = 2 * h
  BY PowFacts, HalfPow
<1>2. u \in 0..(p - 1) /\ \A i \in 1..n : ByteAt(u, i - 1) = d[i]
  BY UintDigits DEF ByteAt
<1>3. x = IF s /\ u >= h THEN u - p ELSE u
  BY DEF Codec!Decode
<1> HIDE DEF p, h, u, x
<1>4. /\ x \in {u, u - p} /\ x \in Int
      /\ x >= (IF s THEN -h ELSE 0) /\ x < (IF s THEN h ELSE p)
  BY <1>1, <1>2, <1>3
<1>5. Alike(x + p, u, n) /\ x + p \in Int /\ u \in Int
  <2>1. x + p = 0 * p + u \/ x + p = 1 * p + u
    BY <1>1, <1>2, <1>4
  <2>2. \E q \in Int : x + p = q * p + u
    BY <2>1, 0 \in Int, 1 \in Int, Zenon
  <2>3. Alike(x + p, u, n)
    BY <2>2, Zenon DEF Alike, p
  <2>4. QED
    BY <1>1, <1>2, <1>4, <2>3
<1>6. ASSUME NEW i \in 1..n PROVE ByteAt(x + p, i - 1) = d[i]
  <2> DEFINE j == i - 1
             y == x + p
  <2>1. j \in Nat /\ j < n /\ n \in Nat
    OBVIOUS
  <2>2. y \in Int /\ Alike(y, u, n)
    BY <1>5
  <2> HIDE DEF j, y
  <2>3. ByteAt(y, j) = ByteAt(u, j)
    BY <1>5, <2>1, <2>2, ByteBelow
  <2>4. QED
    BY <1>2, <2>3 DEF j, y
<1>7. QED
  BY <1>4, <1>6 DEF p, h, u, x, ByteAt

\* A number that has room is shown as it is, or as the other of its bytes.
LEMMA NumberShown ==
    ASSUME NEW v \in Int, NEW n \in Nat \ {0}, n <= Word, NEW s \in BOOLEAN,
           v >= -(Codec!Pow(n) \div 2), v < Codec!Pow(n)
    PROVE  Codec!Decode(Codec!BytesOf(v, n), s) \in {v, v - Codec!Pow(n), v + Codec!Pow(n)}
<1> DEFINE p == Codec!Pow(n)
           h == p \div 2
           d == Codec!BytesOf(v, n)
           x == Codec!Decode(d, s)
<1>1. p \in Nat \ {0} /\ h \in Nat \ {0} /\ p = 2 * h
  BY PowFacts, HalfPow
<1>2. d \in Seq(0..255) /\ Len(d) = n
  BY BytesAre, n \in Nat
<1>3. Codec!Uint(d) = v % p
  BY UintOfBytes, n \in Nat
<1> HIDE DEF d
<1>4. x \in {Codec!Uint(d), Codec!Uint(d) - p}
  BY <1>2, DecodeIs
<1> HIDE DEF x, p, h
<1>5. v % p = v \/ v % p = v + p
  <2>1. CASE v >= 0
    BY <1>1, <2>1 DEF p
  <2>2. CASE v < 0
    <3>1. v = (-1) * p + (v + p) /\ v + p \in 0..(p - 1)
      BY <1>1, <2>2 DEF p, h
    <3> DEFINE y == v + p
    <3>2. y \in 0..(p - 1) /\ v = (-1) * p + y /\ -1 \in Int
      BY <3>1
    <3> HIDE DEF y
    <3>3. v % p = y
      BY <1>1, <3>2, DivideIs
    <3>4. QED
      BY <3>3 DEF y
  <2>3. QED
    BY <2>1, <2>2
<1>6. x \in {v, v - p, v + p}
  BY <1>1, <1>3, <1>4, <1>5
<1>7. QED
  BY <1>6 DEF x, d, p

\* Python's bytes of a number are its own, too.
LEMMA PythonEncoded ==
    ASSUME NEW t \in Codec!Numbers, Codec!IsNumber(t), NEW n \in Nat \ {0},
           Codec!Value(t) \in Int, Codec!PythonEncode(t, n).ok
    PROVE  Codec!PythonEncode(t, n).data = Codec!BytesOf(Codec!Value(t), n)
<1> DEFINE v == Codec!Value(t)
           p == Codec!Pow(n)
           x == IF v < 0 THEN v + p ELSE v
<1>1. v = IF t.neg THEN -t.mag ELSE t.mag
  BY DEF Codec!Value, Codec!Negative, Codec!Magnitude
<1>2. Codec!PythonEncode(t, n) = Codec!Gives(Codec!BytesOf(x, n))
  BY <1>1 DEF Codec!PythonEncode, Codec!Threw
<1>3. p \in Nat \ {0}
  BY PowFacts
<1> HIDE DEF v
<1>4. x = 0 * p + v \/ x = 1 * p + v
  <2> HIDE DEF p
  <2>1. QED
    BY <1>3 DEF v
<1>5. x \in Int /\ v \in Int
  BY <1>3 DEF v
<1> HIDE DEF x
<1>6. Alike(x, v, n)
  BY <1>4, 0 \in Int, 1 \in Int DEF Alike
<1>7. Codec!BytesOf(x, n) = Codec!BytesOf(v, n)
  BY <1>5, <1>6, SameRemainder, n \in Nat
<1>8. QED
  BY <1>2, <1>7 DEF Codec!Gives, v

-----------------------------------------------------------------------------
(* The inductive invariant of the codec: the bytes are as many as the       *)
(* variable has, what is shown was made of them, and they are what the text *)
(* last typed gave, unless it was refused.                                  *)
CodecInv ==
    part = "codec" =>
      /\ type \in CodecTypes /\ error \in BOOLEAN
      /\ bytes \in Seq(0..255) /\ Len(bytes) = type.size
      /\ shown \subseteq {Codec!Decode(bytes, type.signed)}
      /\ \A t \in typed : t \in CodecTexts /\ (~error => Codec!Encode(t, type.size) = Codec!Gives(bytes))

\* A variable has bytes and a sign or none.
LEMMA TypeIs ==
    ASSUME type \in CodecTypes
    PROVE  type.size \in Nat \ {0} /\ type.signed \in BOOLEAN
BY ValuesAssumption DEF Codec!CodecAssumption

\* It holds at first,
LEMMA CInit == PanelInit => CodecInv
<1>1. ASSUME PanelInit, part = "codec" PROVE Codec!Init
  BY <1>1 DEF PanelInit
<1>2. CodecDatas \subseteq Seq(0..255)
  BY ValuesAssumption DEF Codec!CodecAssumption
<1>3. QED
  BY <1>1, <1>2 DEF CodecInv, Codec!Init

\* every step keeps it,
LEMMA CStep == CodecInv /\ [PanelNext]_panelVars => CodecInv'
<1> SUFFICES ASSUME CodecInv, [PanelNext]_panelVars, part' = "codec" PROVE CodecInv'
  BY DEF CodecInv
<1>1. CASE UNCHANGED <<part, codecVars>>
  BY <1>1 DEF CodecInv, codecVars
<1>2. CASE CodecStep(Codec!Show)
  BY <1>2 DEF CodecInv, CodecStep, Codec!Show
<1>3. ASSUME NEW t \in CodecTexts, CodecStep(Codec!Type(t)) PROVE CodecInv'
  <2> DEFINE e == Codec!Encode(t, type.size)
  <2>1. /\ part = "codec" /\ part' = "codec" /\ type' = type
        /\ typed' = {t} /\ error' = ~e.ok /\ shown' = {}
        /\ bytes' = IF e.ok THEN e.data ELSE bytes
    BY <1>3 DEF CodecStep, Codec!Type
  <2>2. type.size \in Nat \ {0} /\ type \in CodecTypes
    BY <2>1, TypeIs DEF CodecInv
  <2>3. ASSUME e.ok PROVE e = Codec!Gives(e.data) /\ e.data \in Seq(0..255) /\ Len(e.data) = type.size
    BY <2>2, <2>3, EncodeBytes
  <2>4. error' \in BOOLEAN
    BY <2>1
  <2> HIDE DEF e
  <2>5. bytes' \in Seq(0..255) /\ Len(bytes') = type'.size
    BY <2>1, <2>3 DEF CodecInv
  <2>6. ASSUME ~error' PROVE e = Codec!Gives(bytes')
    BY <2>1, <2>3, <2>6
  <2>7. \A y \in typed' : y \in CodecTexts /\ (~error' => Codec!Encode(y, type'.size) = Codec!Gives(bytes'))
    BY <2>1, <2>6 DEF e
  <2>8. QED
    BY <2>1, <2>2, <2>4, <2>5, <2>7 DEF CodecInv
<1>4. QED
  <2>1. UNCHANGED panelVars => UNCHANGED <<part, codecVars>>
    BY DEF panelVars
  <2>2. TransferStep(Next) => UNCHANGED <<part, codecVars>>
    BY DEF TransferStep
  <2>3. CodecStep(Codec!Next) => CodecStep(Codec!Show) \/ \E t \in CodecTexts : CodecStep(Codec!Type(t))
    BY DEF CodecStep, Codec!Next
  <2>4. QED
    BY <1>1, <1>2, <1>3, <2>1, <2>2, <2>3 DEF PanelNext

\* and so it always holds.
LEMMA CodecInductive == PanelSpec => []CodecInv
BY CInit, CStep, PTL DEF PanelSpec

(* The number that is shown is the one its bytes stand for, a number that   *)
(* is typed is shown again or refused, and Python writes the bytes the GUI  *)
(* does, of every size up to a word (value_codec.cpp 70-75, 102-178;        *)
(* base_tas.py _value_to_bytes).                                            *)
THEOREM CodecIsRight == PanelSpec => []CodecRight
<1> DEFINE n == type.size
<1>1. ASSUME CodecInv, part = "codec"
      PROVE  /\ type \in CodecTypes /\ error \in BOOLEAN /\ n \in Nat \ {0} /\ type.signed \in BOOLEAN
             /\ bytes \in Seq(0..255) /\ Len(bytes) = n
             /\ shown \subseteq {Codec!Decode(bytes, type.signed)}
             /\ \A t \in typed : t \in CodecTexts /\ (~error => Codec!Encode(t, n) = Codec!Gives(bytes))
  BY <1>1, TypeIs DEF CodecInv
<1>2. ASSUME CodecInv, part = "codec" PROVE Codec!TypeOK
  <2> HIDE DEF n
  <2>1. bytes \in [1..n -> 0..255]
    <3>1. bytes \in Seq(0..255) /\ Len(bytes) = n
      BY <1>1, <1>2
    <3>2. bytes \in [1..Len(bytes) -> 0..255]
      BY <3>1, LenProperties
    <3>3. QED
      BY <3>1, <3>2, Zenon
  <2>2. QED
    BY <1>1, <1>2, <2>1 DEF Codec!TypeOK, n
<1>3. ASSUME CodecInv, part = "codec" PROVE Codec!ShownRight
  <2>1. ASSUME n <= Word, NEW x \in shown PROVE x = Codec!Decode(bytes, type.signed)
    BY <1>1, <1>3, <2>1
  <2> HIDE DEF n
  <2>2. ASSUME n <= Word, NEW x \in shown
        PROVE  /\ x >= (IF type.signed THEN -(Codec!Pow(n) \div 2) ELSE 0)
               /\ x < (IF type.signed THEN Codec!Pow(n) \div 2 ELSE Codec!Pow(n))
               /\ \A i \in 1..n : ((x + Codec!Pow(n)) \div Codec!Pow(i - 1)) % 256 = bytes[i]
    BY <1>1, <1>3, <2>1, <2>2, DecodeIs
  <2>3. QED
    BY <2>2 DEF Codec!ShownRight, n
<1>4. ASSUME CodecInv, part = "codec", n <= Word,
             NEW t \in typed, ~error, Codec!IsNumber(t)
      PROVE  /\ t \in Codec!Numbers /\ Codec!Value(t) \in Int
             /\ Codec!Value(t) >= -(Codec!Pow(n) \div 2) /\ Codec!Value(t) < Codec!Pow(n)
             /\ bytes = Codec!BytesOf(Codec!Value(t), n)
  <2>1. t \in CodecTexts /\ Codec!Encode(t, n) = Codec!Gives(bytes)
    BY <1>1, <1>4
  <2>2. t \in Codec!Numbers
    BY <1>4, <2>1, TextIs
  <2>3. Codec!Encode(t, n).ok /\ Codec!Encode(t, n).data = bytes
    BY <2>1 DEF Codec!Gives
  <2>4. n \in Nat \ {0}
    BY <1>1, <1>4
  <2> HIDE DEF n
  <2>5. QED
    BY <1>4, <2>2, <2>3, <2>4, NumberEncoded
<1>5. ASSUME CodecInv, part = "codec" PROVE Codec!RefusesOthers
  BY <1>1, <1>4, <1>5 DEF Codec!RefusesOthers, Codec!Fits
<1>6. ASSUME CodecInv, part = "codec" PROVE Codec!ShownIsTyped
  <2>1. ASSUME NEW t \in typed, NEW x \in shown, ~error, Codec!IsNumber(t), n <= Word
        PROVE  x \in {Codec!Value(t), Codec!Value(t) - Codec!Pow(n), Codec!Value(t) + Codec!Pow(n)}
    <3>1. /\ Codec!Value(t) \in Int /\ bytes = Codec!BytesOf(Codec!Value(t), n)
          /\ Codec!Value(t) >= -(Codec!Pow(n) \div 2) /\ Codec!Value(t) < Codec!Pow(n)
      BY <1>4, <1>6, <2>1
    <3>2. x = Codec!Decode(bytes, type.signed) /\ n \in Nat \ {0} /\ type.signed \in BOOLEAN
      BY <1>1, <1>6
    <3> HIDE DEF n
    <3>3. QED
      BY <2>1, <3>1, <3>2, NumberShown
  <2>2. QED
    BY <2>1 DEF Codec!ShownIsTyped
<1>7. ASSUME CodecInv, part = "codec" PROVE Codec!PythonSame
  <2>1. ASSUME NEW t \in typed, ~error, Codec!IsNumber(t), n <= Word, Codec!PythonEncode(t, n).ok
        PROVE  Codec!PythonEncode(t, n).data = bytes
    <3>1. t \in Codec!Numbers /\ Codec!Value(t) \in Int /\ bytes = Codec!BytesOf(Codec!Value(t), n)
      BY <1>4, <1>7, <2>1
    <3>2. n \in Nat \ {0}
      BY <1>1, <1>7
    <3> HIDE DEF n
    <3>3. QED
      BY <2>1, <3>1, <3>2, PythonEncoded
  <2>2. QED
    BY <2>1 DEF Codec!PythonSame, Codec!SameBytes
<1>8. CodecInv => CodecRight
  BY <1>2, <1>3, <1>5, <1>6, <1>7 DEF CodecRight
<1>9. QED
  BY <1>8, CodecInductive, PTL
=============================================================================
