-------------------------- MODULE DownloaderProofs --------------------------
(***************************************************************************)
(* Proofs about Downloader for every catalog of the server, every package   *)
(* and every number of attempts, with or without a Content-Length, and a    *)
(* crash at any step.                                                       *)
(***************************************************************************)
EXTENDS Downloads, FiniteSetTheorems, SequenceTheorems, WellFoundedInduction, TLAPS

-----------------------------------------------------------------------------
(* The inductive invariant.                                                 *)

\* A name of an ELF: neither it nor its .keep collides with the download.
ElfName(n) == {n, Keep(n)} \cap {Part, Package} = {}

\* The ELFs of the output directory are whole and out of the download's way.
DirElves == \A f \in dir : f.what = "elf" => f.name \notin {Part, Package} /\ f.from # "cut"

\* Below _extract an ELF may be cut off, but not after it has been cleaned.
TreeElves ==
    /\ \A f \in tree : f.what = "elf" => ElfName(f.name)
    /\ pc \in {"unpack", "find"} => \A f \in tree : f.what = "elf" => f.from # "cut"

\* The ELF that was found, and where it is while the rest is deleted.
FoundElf ==
    /\ pc \in {"move", "delete", "replace"} =>
         found.what = "elf" /\ ElfName(found.name) /\ found.from # "cut"
    /\ pc = "delete" => \E f \in dir : f.what = "elf" /\ f.name = Keep(found.name)
    /\ pc = "replace" => tree = {} /\ \A f \in dir : f.name = Keep(found.name)
    /\ pc = "done" => tree = {} /\ dir = {found} /\ found.what = "elf"

\* The part file exists only while something is being downloaded.
NoPart == \A f \in dir : f.name # Part
PartGone ==
    /\ pc \in {"clean", "unpack", "find", "move", "delete", "replace", "done"} => NoPart
    /\ pc \in {"login", "list"} => archive = None
    /\ pc = "raised" /\ archive # None => NoPart

\* The archive is one of the version asked for.
OfVersion ==
    \E catalog \in Catalogs : \E i \in DOMAIN catalog :
        catalog[i].id = archive /\ catalog[i].version = asked
ArchiveAsked ==
    /\ archive # None => OfVersion
    /\ pc \in {"fetch", "stream", "retry", "clean", "unpack", "find", "move",
               "delete", "replace", "done"} => archive # None

IInv == TypeOK /\ DirElves /\ TreeElves /\ FoundElf /\ PartGone /\ ArchiveAsked

-----------------------------------------------------------------------------
(* Writing files.                                                           *)

\* Writing a file keeps names unique.
LEMMA WriteUnique ==
    ASSUME NEW files, \A f, g \in files : f.name = g.name => f = g, NEW new
    PROVE  \A f, g \in Write(files, new) : f.name = g.name => f = g
BY DEF Write

\* So does unpacking an archive whose members have different names.
LEMMA UnpackUnique ==
    ASSUME NEW files, \A f, g \in files : f.dir = g.dir /\ f.name = g.name => f = g,
           NEW path, NEW members, \A f, g \in members : f.name = g.name => f = g
    PROVE  \A f, g \in WriteBelow(files, {Below(path, m) : m \in members}) :
              f.dir = g.dir /\ f.name = g.name => f = g
<1> DEFINE news == {Below(path, m) : m \in members}
<1>1. \A f, g \in news : f.name = g.name => f = g
  BY DEF Below
<1> HIDE DEF news
<1>2. \A f, g \in WriteBelow(files, news) : f.dir = g.dir /\ f.name = g.name => f = g
  BY <1>1 DEF WriteBelow
<1>3. QED
  BY <1>2 DEF news

\* What an archive holds, known or not.
LEMMA HoldsFacts ==
    ASSUME NEW a
    PROVE  /\ \A f, g \in Holds(a) : f.name = g.name => f = g
           /\ \A f \in Holds(a) : f.what = "elf" => ElfName(f.name) /\ f.from # "cut"
BY NamesAssumption, FilesAssumption DEF Holds, ElfName

\* The ELFs below _extract after an archive has been unpacked.
LEMMA UnpackElves ==
    ASSUME NEW path, NEW members, NEW f \in WriteBelow(tree, {Below(path, m) : m \in members}),
           f.what = "elf"
    PROVE  f \in tree \/ \E m \in members : m.what = "elf" /\ f.name = m.name /\ f.from = m.from
BY DEF WriteBelow, Below

-----------------------------------------------------------------------------
LEMMA TypeInit == Init => TypeOK
BY AttemptsAssumption, FilesAssumption DEF Init, TypeOK

LEMMA TypeStep ==
    ASSUME TypeOK, [Next]_vars
    PROVE  TypeOK'
<1> USE AttemptsAssumption DEF TypeOK, Working, Raise, Goto
<1>1. CASE Start
  BY <1>1 DEF Start
<1>2. CASE Login
  <2>1. CASE attempt < Attempts /\ Goto("login") /\ attempt' = attempt + 1
    BY <2>1
  <2>2. QED
    BY <1>2, <2>1 DEF Login
<1>3. CASE GetArchiveUrl
  <2>1. CASE Raise
    BY <2>1
  <2>2. CASE \E catalog \in Catalogs : \E r \in Select(Flatten(catalog, asked)) :
               /\ archive' = r.id
               /\ attempt' = 1
               /\ pc' = "fetch"
               /\ UNCHANGED <<dir, tree, asked, pending, processed, found>>
    <3>1. PICK catalog \in Catalogs : \E r \in Select(Flatten(catalog, asked)) :
               /\ archive' = r.id
               /\ attempt' = 1
               /\ pc' = "fetch"
               /\ UNCHANGED <<dir, tree, asked, pending, processed, found>>
      BY <2>2
    <3>2. \A r \in Select(Flatten(catalog, asked)) : r.id \in DOMAIN Members
      BY CatalogsAssumption DEF Select, Flatten
    <3>3. QED
      BY <3>1, <3>2
  <2>3. QED
    BY <1>3, <2>1, <2>2 DEF GetArchiveUrl
<1>4. CASE Fetch
  BY <1>4, WriteUnique DEF Fetch
<1>5. CASE Stream
  <2>1. \A f, g \in {h \in dir : h.name # Part} : f.name = g.name => f = g
    OBVIOUS
  <2>2. \A new : \A f, g \in Write({h \in dir : h.name # Part}, new) : f.name = g.name => f = g
    BY <2>1, WriteUnique
  <2>3. QED
    BY <1>5, <2>2 DEF Stream
<1>6. CASE Retry
  BY <1>6 DEF Retry
<1>7. CASE Clean
  BY <1>7 DEF Clean
<1>8. CASE Unpack
  <2>1. CASE UNCHANGED <<dir, tree, pc, asked, archive, attempt>> \/ Raise
    BY <2>1
  <2>2. CASE \E members \in SUBSET Holds(At(Head(pending)).from) :
               /\ tree' = WriteBelow(tree, {Below(Head(pending), f) : f \in members})
               /\ UNCHANGED <<dir, pc, asked, archive, attempt>>
    BY <2>2, HoldsFacts, UnpackUnique
  <2>3. QED
    BY <1>8, <2>1, <2>2 DEF Unpack
<1>9. CASE UnpackDone
  BY <1>9 DEF UnpackDone
<1>10. CASE FindElf
  BY <1>10 DEF FindElf
<1>11. CASE MoveElf
  BY <1>11, WriteUnique DEF MoveElf
<1>12. CASE DeleteOne
  BY <1>12 DEF DeleteOne
<1>13. CASE ReplaceElf
  <2>1. \A f, g \in {h \in dir : h.name # Keep(found.name)} : f.name = g.name => f = g
    OBVIOUS
  <2>2. QED
    BY <1>13, <2>1, WriteUnique DEF ReplaceElf
<1>14. CASE Crash
  <2>1. \A new : \A f, g \in WriteBelow(tree, {new}) : f.dir = g.dir /\ f.name = g.name => f = g
    BY DEF WriteBelow
  <2>2. QED
    BY <1>14, <2>1 DEF Crash
<1>15. CASE UNCHANGED vars
  BY <1>15 DEF vars
<1>16. QED
  BY <1>1, <1>2, <1>3, <1>4, <1>5, <1>6, <1>7, <1>8, <1>9, <1>10, <1>11, <1>12, <1>13,
     <1>14, <1>15 DEF Next, Step

(* A name in a directory stands for one file, and attempts are counted      *)
(* within their bound.                                                      *)
THEOREM TypeCorrect == Spec => []TypeOK
BY TypeInit, TypeStep, PTL DEF Spec

-----------------------------------------------------------------------------
(* The invariant, one action at a time.                                     *)

Parts == DirElves /\ TreeElves /\ FoundElf /\ PartGone /\ ArchiveAsked

LEMMA InvInit == Init => Parts
BY NamesAssumption, FilesAssumption
   DEF Init, Parts, DirElves, TreeElves, FoundElf, PartGone, ArchiveAsked

\* The archive that is chosen is of the version asked for.
LEMMA ChosenIsAsked ==
    ASSUME NEW catalog \in Catalogs, NEW r \in Select(Flatten(catalog, asked))
    PROVE  \E i \in DOMAIN catalog : catalog[i].id = r.id /\ catalog[i].version = asked
BY DEF Select, Flatten

LEMMA BeginInv ==
    ASSUME Parts, Start \/ Login \/ GetArchiveUrl
    PROVE  Parts'
<1> USE DEF Parts, DirElves, TreeElves, FoundElf, PartGone, ArchiveAsked, OfVersion,
        NoPart, Raise, Goto
<1>1. CASE Start
  BY <1>1 DEF Start
<1>2. CASE Login
  BY <1>2 DEF Login
<1>3. CASE GetArchiveUrl
  <2>1. CASE Raise
    BY <1>3, <2>1 DEF GetArchiveUrl
  <2>2. CASE \E catalog \in Catalogs : \E r \in Select(Flatten(catalog, asked)) :
               /\ archive' = r.id
               /\ attempt' = 1
               /\ pc' = "fetch"
               /\ UNCHANGED <<dir, tree, asked, pending, processed, found>>
    <3>1. /\ pc' = "fetch"
          /\ UNCHANGED <<dir, tree, asked, pending, processed, found>>
          /\ OfVersion'
      BY <2>2, ChosenIsAsked
    <3>2. archive' # None
      BY <2>2, CatalogsAssumption, FilesAssumption DEF Select, Flatten
    <3>3. QED
      BY <3>1, <3>2
  <2>3. QED
    BY <1>3, <2>1, <2>2 DEF GetArchiveUrl
<1>4. QED
  BY <1>1, <1>2, <1>3

LEMMA FetchInv ==
    ASSUME Parts, Fetch \/ Stream \/ Retry
    PROVE  Parts'
<1> USE NamesAssumption DEF Parts, DirElves, TreeElves, FoundElf, PartGone, ArchiveAsked,
        OfVersion, NoPart, Raise, Goto, Write, File
<1>1. CASE Fetch
  BY <1>1 DEF Fetch
<1>2. CASE Stream
  BY <1>2 DEF Stream
<1>3. CASE Retry
  BY <1>3 DEF Retry
<1>4. QED
  BY <1>1, <1>2, <1>3

LEMMA UnpackInv ==
    ASSUME Parts, Clean \/ Unpack \/ UnpackDone
    PROVE  Parts'
<1> USE DEF Parts, DirElves, FoundElf, PartGone, ArchiveAsked, OfVersion, NoPart, Raise, Goto
<1>1. CASE Clean
  BY <1>1 DEF Clean, TreeElves
<1>2. CASE Unpack
  <2>1. CASE UNCHANGED <<dir, tree, pc, asked, archive, attempt, processed, found>>
    BY <1>2, <2>1 DEF TreeElves
  <2>2. CASE Raise
    BY <1>2, <2>2 DEF Unpack, TreeElves
  <2>3. CASE /\ \E members \in SUBSET Holds(At(Head(pending)).from) :
                  tree' = WriteBelow(tree, {Below(Head(pending), f) : f \in members})
             /\ UNCHANGED <<dir, pc, asked, archive, attempt, found>>
    <3>1. PICK members \in SUBSET Holds(At(Head(pending)).from) :
                  tree' = WriteBelow(tree, {Below(Head(pending), f) : f \in members})
      BY <2>3
    <3>2. \A f \in tree' : f.what = "elf" =>
             f \in tree \/ (ElfName(f.name) /\ f.from # "cut")
      BY <3>1, UnpackElves, HoldsFacts
    <3>3. TreeElves'
      BY <1>2, <2>3, <3>2 DEF TreeElves, Unpack
    <3>4. QED
      BY <1>2, <2>3, <3>3 DEF Unpack
  <2>4. QED
    BY <1>2, <2>1, <2>2, <2>3 DEF Unpack
<1>3. CASE UnpackDone
  BY <1>3 DEF UnpackDone, TreeElves
<1>4. QED
  BY <1>1, <1>2, <1>3

LEMMA KeepInv ==
    ASSUME Parts, FindElf \/ MoveElf \/ DeleteOne \/ ReplaceElf
    PROVE  Parts'
<1> USE DEF Parts, DirElves, TreeElves, FoundElf, PartGone, ArchiveAsked, OfVersion,
        NoPart, Raise, Goto, Write, File
<1>1. CASE FindElf
  BY <1>1 DEF FindElf
<1>2. CASE MoveElf
  <2>1. PICK keep : /\ keep.name = Keep(found.name) /\ keep.what = "elf"
                    /\ keep.from = found.from
                    /\ dir' = {f \in dir : f.name # keep.name} \cup {keep}
    BY <1>2 DEF MoveElf
  <2>2. /\ keep.name \notin {Part, Package} /\ keep.from # "cut"
        /\ pc = "move" /\ pc' = "delete"
        /\ tree' \subseteq tree
        /\ UNCHANGED <<asked, archive, found>>
    BY <1>2, <2>1 DEF MoveElf, ElfName
  <2>3. DirElves'
    BY <2>1, <2>2
  <2>4. FoundElf'
    BY <2>1, <2>2
  <2>5. TreeElves' /\ PartGone' /\ ArchiveAsked'
    BY <2>1, <2>2
  <2>6. QED
    BY <2>3, <2>4, <2>5
<1>3. CASE DeleteOne
  BY <1>3 DEF DeleteOne
<1>4. CASE ReplaceElf
  <2>1. pc = "replace" /\ pc' = "done" /\ UNCHANGED <<tree, asked, archive, found>>
    BY <1>4 DEF ReplaceElf
  <2>2. {f \in dir : f.name # Keep(found.name)} = {}
    BY <2>1
  <2>3. dir' = {found}
    BY <1>4, <2>2 DEF ReplaceElf
  <2>4. found.name \notin {Part, Package} /\ found.what = "elf" /\ found.from # "cut"
    BY <2>1 DEF ElfName
  <2>5. QED
    BY <2>1, <2>3, <2>4
<1>5. QED
  BY <1>1, <1>2, <1>3, <1>4

LEMMA CrashInv ==
    ASSUME Parts, Crash
    PROVE  Parts'
<1> USE DEF Parts, DirElves, FoundElf, PartGone, ArchiveAsked, OfVersion, NoPart
<1>1. /\ pc' = "dead"
      /\ UNCHANGED <<dir, asked, archive, found>>
  BY DEF Crash
<1>2. \A f \in tree' : f.what = "elf" => ElfName(f.name)
  <2>1. CASE UNCHANGED tree
    BY <2>1 DEF TreeElves
  <2>2. ASSUME NEW f \in Holds(At(Head(pending)).from),
               tree' = WriteBelow(tree, {[Below(Head(pending), f) EXCEPT !.from = "cut"]})
        PROVE  \A g \in tree' : g.what = "elf" => ElfName(g.name)
    BY <2>2, HoldsFacts DEF TreeElves, WriteBelow, Below
  <2>3. QED
    BY <2>1, <2>2 DEF Crash
<1>3. QED
  BY <1>1, <1>2 DEF TreeElves

LEMMA Invariance == Spec => []IInv
<1>1. Init => IInv
  BY TypeInit, InvInit DEF IInv, Parts
<1>2. ASSUME IInv, [Next]_vars
      PROVE  IInv'
  <2>1. Parts
    BY <1>2 DEF IInv, Parts
  <2>2. CASE Next
    BY <2>1, <2>2, BeginInv, FetchInv, UnpackInv, KeepInv, CrashInv, <1>2, TypeStep
       DEF Next, Step, IInv, Parts
  <2>3. CASE UNCHANGED vars
    BY <1>2, <2>3 DEF vars, IInv, TypeOK, DirElves, TreeElves, FoundElf, PartGone,
       ArchiveAsked, OfVersion, NoPart
  <2>4. QED
    BY <1>2, <2>2, <2>3
<1>3. QED
  BY <1>1, <1>2, PTL DEF Spec

-----------------------------------------------------------------------------
(* What follows for the properties.                                         *)

(* An ELF that a crash cut off never reaches the output directory.          *)
THEOREM NoCut == Spec => []NoCutElf
<1>1. IInv => NoCutElf
  BY DEF IInv, DirElves, NoCutElf
<1>2. QED
  BY <1>1, Invariance, PTL

(* A download that failed leaves no part file behind.                       *)
THEOREM PartRemoved == Spec => []NoPartLeft
<1>1. IInv => NoPartLeft
  BY DEF IInv, PartGone, NoPart, NoPartLeft
<1>2. QED
  BY <1>1, Invariance, PTL

(* A download that returns leaves the ELF it found as the only file, from   *)
(* an archive of the version that was asked for.                            *)
OneElf == pc = "done" => tree = {} /\ dir = {found} /\ found.what = "elf" /\ OfVersion
THEOREM LeavesOneElf == Spec => []OneElf
<1>1. IInv => OneElf
  BY DEF IInv, FoundElf, ArchiveAsked, OneElf
<1>2. QED
  BY <1>1, Invariance, PTL

-----------------------------------------------------------------------------
(* Where the ELF comes from.                                                *)

Outer == [dir |-> "out", name |-> Package]

\* What an unpacking finds is in the archive, at some depth.
InArchive(f) ==
    /\ f.from \in DOMAIN Members => f.from \in Nested(archive)
    /\ f.what = "elf" => f.from \in ElvesIn(archive)

\* The package is in place until it has been unpacked; below _extract there is
\* only what it holds; each path to unpack leads to a file; and the ELF that
\* was found is one of the package.
Unpacking == {"unpack", "find"}
FromArchive ==
    /\ pc \in {"clean", "unpack"} => \E f \in dir : f.name = Package /\ f.from = archive
    /\ pc \in Unpacking =>
         /\ IsFiniteSet(tree)
         /\ \A f \in tree :
              InArchive(f) /\ f.dir # "out" /\ (f.what = "zip" => f.name # "out")
         /\ pending \in Seq({p \in PathsOf(tree) \cup {Outer} : p.name # "out"})
    /\ pc \in {"move", "delete", "replace", "done"} => found.from \in ElvesIn(archive)

\* An archive holds itself, the archives in what it holds, and their ELFs.
LEMMA NestedFacts ==
    ASSUME NEW a
    PROVE  /\ a \in DOMAIN Members => a \in Nested(a)
           /\ \A b \in Nested(a) : \A f \in Members[b] :
                /\ f.from \in DOMAIN Members => f.from \in Nested(a)
                /\ f.what = "elf" => f.from \in ElvesIn(a)
<1>1. a \in DOMAIN Members => a \in Nested(a)
  BY DEF Nested
<1>2. ASSUME NEW b \in Nested(a), NEW f \in Members[b], f.from \in DOMAIN Members
      PROVE  f.from \in Nested(a)
  BY <1>2 DEF Nested, Closed
<1>3. ASSUME NEW b \in Nested(a), NEW f \in Members[b], f.what = "elf"
      PROVE  f.from \in ElvesIn(a)
  BY <1>3 DEF ElvesIn
<1>4. QED
  BY <1>1, <1>2, <1>3

\* Sequences that visit every element of a finite set once.
LEMMA QueuesType ==
    ASSUME NEW S, IsFiniteSet(S), NEW q \in Queues(S)
    PROVE  q \in Seq(S)
<1>1. Cardinality(S) \in Nat
  BY FS_CardinalityType
<1>2. QED
  BY <1>1 DEF Queues

\* What is read of a file of the archive is in the archive.
LEMMA HoldsInArchive ==
    ASSUME NEW file, InArchive(file), NEW m \in Holds(file.from)
    PROVE  InArchive(m) /\ (m.what = "zip" => m.name # "out")
<1>1. file.from \in DOMAIN Members /\ m \in Members[file.from]
  BY DEF Holds
<1>2. file.from \in Nested(archive)
  BY <1>1 DEF InArchive
<1>3. QED
  BY <1>1, <1>2, NestedFacts, NamesAssumption DEF InArchive

\* The file at the head of the queue.
LEMMA AtFacts ==
    ASSUME IInv, FromArchive, pc = "unpack", pending # <<>>
    PROVE  /\ InArchive(At(Head(pending)))
           /\ Head(pending).name # "out"
<1> DEFINE path == Head(pending)
<1>1. path \in PathsOf(tree) \cup {Outer} /\ path.name # "out"
  BY DEF FromArchive, Unpacking
<1>2. CASE path = Outer
  <2>1. PICK f \in dir : f.name = Package /\ f.from = archive
    BY DEF FromArchive
  <2>2. At(path) = CHOOSE g \in dir : g.name = Package
    BY <1>2 DEF At, Outer
  <2>3. At(path) \in dir /\ At(path).name = Package
    BY <2>1, <2>2
  <2>4. At(path) = f
    BY <2>1, <2>3 DEF IInv, TypeOK
  <2>5. f.what # "elf"
    BY <2>1 DEF IInv, DirElves
  <2>6. archive \in DOMAIN Members
    BY DEF IInv, TypeOK, ArchiveAsked
  <2>7. QED
    BY <1>1, <2>1, <2>4, <2>5, <2>6, NestedFacts DEF InArchive
<1>3. CASE path \in PathsOf(tree)
  <2>1. PICK f \in tree : path = [dir |-> f.dir, name |-> f.name]
    BY <1>3 DEF PathsOf
  <2>2. path.dir = f.dir /\ path.name = f.name /\ f.dir # "out"
    BY <2>1 DEF FromArchive, Unpacking
  <2>3. At(path) = CHOOSE g \in tree : g.dir = path.dir /\ g.name = path.name
    BY <2>2 DEF At
  <2>4. At(path) \in tree
    BY <2>2, <2>3
  <2>5. QED
    BY <1>1, <2>4 DEF FromArchive, Unpacking
<1>4. QED
  BY <1>1, <1>2, <1>3

\* As many values as arguments, or fewer.
LEMMA FiniteImage ==
    ASSUME NEW g, IsFiniteSet(DOMAIN g)
    PROVE  IsFiniteSet({g[x] : x \in DOMAIN g})
<1> DEFINE T == {g[x] : x \in DOMAIN g}
           h == [x \in DOMAIN g |-> g[x]]
<1>1. h \in Surjection(DOMAIN g, T)
  BY DEF Surjection
<1>2. QED
  BY <1>1, FS_Surjection

\* Unpacking one archive.
LEMMA UnpackFrom ==
    ASSUME IInv, FromArchive, Unpack
    PROVE  FromArchive'
<1> DEFINE path == Head(pending)
           file == At(path)
           Safe(T) == {p \in PathsOf(T) \cup {Outer} : p.name # "out"}
<1>1. pc = "unpack" /\ pending # <<>> /\ pending \in Seq(Safe(tree))
  BY DEF Unpack, FromArchive, Unpacking
<1>2. CASE UNCHANGED <<dir, tree, pc, archive, found>> /\ pending' = Tail(pending)
  <2>1. Tail(pending) \in Seq(Safe(tree))
    BY <1>1
  <2>2. QED
    BY <1>1, <1>2, <2>1 DEF FromArchive, Unpacking, InArchive, PathsOf
<1>3. CASE Raise
  BY <1>3 DEF Raise, FromArchive, Unpacking
<1>4. ASSUME NEW members \in SUBSET Holds(file.from),
             NEW news, news = {Below(path, f) : f \in members},
             tree' = WriteBelow(tree, news),
             NEW walked, walked = {f \in WriteBelow(tree, news) : f.dir = path.name},
             NEW q \in Queues(PathsOf({f \in walked : f.what = "zip"})),
             pending' = Tail(pending) \o q,
             UNCHANGED <<dir, pc, archive, found>>
      PROVE  FromArchive'
  <2> DEFINE zips == {f \in walked : f.what = "zip"}
  <2>1. InArchive(file) /\ path.name # "out"
    BY <1>1, AtFacts
  <2>2. \A m \in members : InArchive(m) /\ (m.what = "zip" => m.name # "out")
    BY <2>1, HoldsInArchive
  <2>3. \A f \in news : InArchive(f) /\ f.dir # "out" /\ (f.what = "zip" => f.name # "out")
    BY <1>4, <2>1, <2>2 DEF Below, InArchive
  <2>4. \A f \in tree' : InArchive(f) /\ f.dir # "out" /\ (f.what = "zip" => f.name # "out")
    BY <1>1, <1>4, <2>3 DEF WriteBelow, FromArchive, Unpacking
  <2>5. IsFiniteSet(tree')
    <3>1. IsFiniteSet(members)
      <4>1. IsFiniteSet(Holds(file.from))
        BY FilesAssumption, FS_EmptySet DEF Holds
      <4>2. QED
        BY <4>1, FS_Subset
    <3>2. IsFiniteSet(news)
      <4> DEFINE g == [f \in members |-> Below(path, f)]
      <4>1. news = {g[f] : f \in DOMAIN g}
        BY <1>4
      <4>2. QED
        BY <3>1, <4>1, FiniteImage
    <3>3. IsFiniteSet({g \in tree : ~\E f \in news : f.dir = g.dir /\ f.name = g.name})
      BY <1>1, FS_Subset DEF FromArchive, Unpacking
    <3>4. QED
      BY <1>4, <3>2, <3>3, FS_Union DEF WriteBelow
  <2>6. PathsOf(tree) \subseteq PathsOf(tree')
    <3>1. ASSUME NEW f \in tree
          PROVE  \E g \in tree' : g.dir = f.dir /\ g.name = f.name
      BY <1>4 DEF WriteBelow
    <3>2. QED
      BY <3>1 DEF PathsOf
  <2>7. PathsOf(zips) \subseteq Safe(tree')
    BY <1>4, <2>4 DEF PathsOf
  <2>8. IsFiniteSet(PathsOf(zips))
    <3>1. IsFiniteSet(zips)
      BY <1>4, <2>5, FS_Subset
    <3>2. QED
      <4> DEFINE g == [f \in zips |-> [dir |-> f.dir, name |-> f.name]]
      <4>1. PathsOf(zips) = {g[f] : f \in DOMAIN g}
        BY DEF PathsOf
      <4>2. QED
        BY <3>1, <4>1, FiniteImage
  <2>9. pending' \in Seq(Safe(tree'))
    <3>1. q \in Seq(PathsOf(zips))
      BY <1>4, <2>8, QueuesType
    <3>2. q \in Seq(Safe(tree'))
      BY <2>7, <3>1
    <3>3. pending \in Seq(Safe(tree'))
      BY <1>1, <2>6
    <3>4. QED
      BY <1>1, <1>4, <3>2, <3>3
  <2>10. QED
    BY <1>1, <1>4, <2>4, <2>5, <2>9 DEF FromArchive, Unpacking, InArchive
<1>5. QED
  BY <1>2, <1>3, <1>4 DEF Unpack

LEMMA FromStep ==
    ASSUME IInv, FromArchive, [Next]_vars
    PROVE  FromArchive'
<1> USE DEF FromArchive, Unpacking, InArchive, Raise, Goto
<1>1. CASE Start \/ Login \/ GetArchiveUrl \/ Fetch \/ Retry
  BY <1>1 DEF Start, Login, GetArchiveUrl, Fetch, Retry
<1>2. CASE Stream
  <2>1. CASE Goto("retry")
    BY <1>2, <2>1 DEF Stream
  <2>2. ASSUME NEW what,
               dir' = Write({f \in dir : f.name # Part}, File(Package, what, archive)),
               pc' = "clean", UNCHANGED <<tree, archive, pending, found>>
        PROVE  FromArchive'
    <3>1. File(Package, what, archive) \in dir'
      BY <2>2 DEF Write
    <3>2. QED
      BY <2>2, <3>1 DEF File
  <2>3. QED
    BY <1>2, <2>1, <2>2 DEF Stream
<1>3. CASE Clean
  <2>1. /\ pc = "clean" /\ pc' = "unpack" /\ tree' = {} /\ UNCHANGED <<dir, archive>>
        /\ pending' = <<Outer>>
    BY <1>3 DEF Clean, Outer
  <2>2. Outer \in {p \in PathsOf(tree') \cup {Outer} : p.name # "out"}
    BY NamesAssumption DEF Outer
  <2>3. QED
    BY <2>1, <2>2, FS_EmptySet
<1>4. CASE Unpack
  BY <1>4, UnpackFrom
<1>5. CASE UnpackDone
  BY <1>5 DEF UnpackDone
<1>6. CASE FindElf
  BY <1>6 DEF FindElf, File
<1>7. CASE MoveElf \/ DeleteOne \/ ReplaceElf
  BY <1>7 DEF MoveElf, DeleteOne, ReplaceElf
<1>8. CASE Crash
  BY <1>8 DEF Crash
<1>9. CASE UNCHANGED vars
  BY <1>9 DEF vars, PathsOf
<1>10. QED
  BY <1>1, <1>2, <1>3, <1>4, <1>5, <1>6, <1>7, <1>8, <1>9 DEF Next, Step

(* A download that returns leaves one file, an ELF that is somewhere in an  *)
(* archive of the version asked for, whatever failed or died before, and    *)
(* however deep archives are nested.                                        *)
THEOREM LeavesTheAsked == Spec => []LeavesTheElf
<1>1. IInv /\ FromArchive => LeavesTheElf
  <2>1. SUFFICES ASSUME IInv, FromArchive, pc = "done"
                 PROVE  LeavesTheElf
    BY DEF LeavesTheElf
  <2>2. tree = {} /\ dir = {found} /\ found.what = "elf" /\ OfVersion
    BY <2>1 DEF IInv, FoundElf, ArchiveAsked
  <2>3. found.from \in ElvesIn(archive)
    BY <2>1 DEF FromArchive
  <2>4. QED
    BY <2>2, <2>3 DEF LeavesTheElf, OfVersion
<1>2. Init => FromArchive
  BY DEF Init, FromArchive, Unpacking
<1>3. IInv /\ FromArchive /\ [Next]_vars => FromArchive'
  BY FromStep
<1>4. QED
  BY <1>1, <1>2, <1>3, Invariance, PTL DEF Spec

-----------------------------------------------------------------------------
\* No step takes the last ELF away.
LEMMA ElfStays ==
    ASSUME IInv, Next, Elves # {}
    PROVE  Elves' # {}
<1> USE DEF IInv, DirElves, FoundElf, Elves, Raise, Goto, Write, File
<1>1. CASE Start \/ Login \/ GetArchiveUrl \/ Clean \/ Unpack \/ UnpackDone \/ FindElf \/ Crash
  BY <1>1 DEF Start, Login, GetArchiveUrl, Clean, Unpack, UnpackDone, FindElf, Crash
<1>2. CASE Fetch \/ Stream \/ Retry
  <2>1. \A f \in dir : f.what = "elf" => f \in dir'
    BY <1>2 DEF Fetch, Stream, Retry
  <2>2. QED
    BY <2>1
<1>3. CASE MoveElf
  <2>1. PICK keep : keep.what = "elf" /\ dir' = {f \in dir : f.name # keep.name} \cup {keep}
    BY <1>3 DEF MoveElf
  <2>2. keep \in dir'
    BY <2>1
  <2>3. QED
    BY <2>1, <2>2
<1>4. CASE DeleteOne
  BY <1>4 DEF DeleteOne
<1>5. CASE ReplaceElf
  BY <1>5 DEF ReplaceElf
<1>6. QED
  BY <1>1, <1>2, <1>3, <1>4, <1>5 DEF Next, Step

(* Once there is an ELF in the output directory there is one for ever, at   *)
(* every instant, crashes included.                                         *)
THEOREM ElfSurvives == Spec => SomeElfSurvives
<1>1. IInv /\ [Next]_vars => [Elves # {} => Elves' # {}]_vars
  BY ElfStays
<1>2. QED
  BY <1>1, Invariance, PTL DEF Spec, SomeElfSurvives

-----------------------------------------------------------------------------
(* Recursion over the positions of a sequence.                              *)

\* Every set of numbers has a least one.
LEMMA LeastNumber ==
    ASSUME NEW S \in SUBSET Nat, S # {}
    PROVE  \E m \in S : \A k \in S : m <= k
<1> DEFINE R == OpToRel(<, Nat)
<1>1. IsWellFoundedOn(R, Nat)
  BY NatLessThanWellFounded
<1>2. \A x, y \in Nat : <<y, x>> \in R <=> y < x
  BY DEF OpToRel
<1> HIDE DEF R
<1>3. PICK m \in S : \A k \in S : ~(<<k, m>> \in R)
  BY <1>1, WFMin
<1>4. \A k \in S : ~(k < m)
  BY <1>2, <1>3
<1>5. \A k \in S : m <= k
  BY <1>4
<1>6. QED
  BY <1>5

\* Induction up to n, for a set of numbers.
LEMMA UpTo ==
    ASSUME NEW n \in Nat, NEW P, 0 \in P, \A i \in 1..n : i - 1 \in P => i \in P
    PROVE  \A i \in 0..n : i \in P
<1> DEFINE Bad == {i \in 0..n : i \notin P}
<1>1. ASSUME Bad # {} PROVE FALSE
  <2>1. Bad \in SUBSET Nat
    OBVIOUS
  <2>2. PICK m \in Bad : \A k \in Bad : m <= k
    BY <1>1, <2>1, LeastNumber
  <2>3. m \in 1..n /\ m - 1 \in 0..n /\ ~(m <= m - 1)
    OBVIOUS
  <2>4. m - 1 \in P
    BY <2>2, <2>3
  <2>5. QED
    BY <2>3, <2>4
<1>2. QED
  BY <1>1

\* A function over 0..n by recursion with a given step, and its existence.
Steps(step, n, S, first) ==
    n \in Nat /\ first \in S /\ step \in [(1..n) \X S -> S]
Iterates(f, step, n, S, first) ==
    /\ f \in [0..n -> S] /\ f[0] = first
    /\ \A i \in 1..n : f[i] = step[<<i, f[i - 1]>>]

LEMMA RecursionExists ==
    ASSUME NEW n, NEW S, NEW first, NEW step, Steps(step, n, S, first)
    PROVE  \E f : Iterates(f, step, n, S, first)
<1> USE DEF Steps
<1> DEFINE Follows(k, f) == f[0] = first /\ \A i \in 1..k : f[i] = step[<<i, f[i - 1]>>]
           P == {k \in 0..n : \E f \in [0..k -> S] : Follows(k, f)}
<1>1. 0 \in P
  <2> DEFINE g == [i \in 0..0 |-> first]
  <2>1. g \in [0..0 -> S] /\ g[0] = first
    OBVIOUS
  <2>2. Follows(0, g)
    BY <2>1
  <2>3. \E f \in [0..0 -> S] : Follows(0, f)
    BY <2>1, <2>2
  <2>4. 0 \in 0..n
    OBVIOUS
  <2>5. QED
    BY <2>3, <2>4
<1>2. ASSUME NEW k \in 1..n, k - 1 \in P
      PROVE  k \in P
  <2>1. PICK f \in [0..(k - 1) -> S] : Follows(k - 1, f)
    BY <1>2
  <2> DEFINE g == [i \in 0..k |-> IF i = k THEN step[<<k, f[k - 1]>>] ELSE f[i]]
  <2>2. f[k - 1] \in S /\ step[<<k, f[k - 1]>>] \in S
    OBVIOUS
  <2>3. g \in [0..k -> S]
    BY <2>2
  <2>4. \A i \in 0..(k - 1) : g[i] = f[i]
    OBVIOUS
  <2>5. g[k] = step[<<k, g[k - 1]>>]
    <3>1. k \in 0..k /\ k - 1 \in 0..(k - 1)
      OBVIOUS
    <3>2. g[k - 1] = f[k - 1]
      BY <2>4, <3>1
    <3>3. g[k] = step[<<k, f[k - 1]>>]
      BY <3>1
    <3>4. QED
      BY <3>2, <3>3
  <2>6. \A i \in 1..k : g[i] = step[<<i, g[i - 1]>>]
    <3> TAKE i \in 1..k
    <3>1. CASE i = k
      BY <2>5, <3>1
    <3>2. CASE i # k
      <4>1. i \in 1..(k - 1) /\ i - 1 \in 0..(k - 1) /\ i \in 0..(k - 1)
        BY <3>2
      <4>2. QED
        BY <2>1, <2>4, <4>1
    <3>3. QED
      BY <3>1, <3>2
  <2>7. g[0] = first
    <3>1. 0 \in 0..(k - 1)
      OBVIOUS
    <3>2. QED
      BY <2>1, <2>4, <3>1
  <2>8. k \in 0..n
    OBVIOUS
  <2> HIDE DEF g
  <2>9. QED
    BY <2>3, <2>6, <2>7, <2>8
<1>3. n \in P
  <2> HIDE DEF P
  <2>1. QED
    BY <1>1, <1>2, UpTo
<1>4. QED
  BY <1>3 DEF Iterates

-----------------------------------------------------------------------------
(* What is kept of a sequence.                                              *)

\* Kept obeys its equation, and keeps elements of the sequence.
LEMMA KeptFacts ==
    ASSUME NEW s, Len(s) \in Nat, NEW T, \A i \in 1..Len(s) : s[i] \in T, NEW K
    PROVE  /\ Novel!Kept(s, K) \in [0..Len(s) -> Seq(T)]
           /\ Novel!Kept(s, K)[0] = <<>>
           /\ \A i \in 1..Len(s) : Novel!Kept(s, K)[i] =
                IF i \in K THEN Append(Novel!Kept(s, K)[i - 1], s[i])
                           ELSE Novel!Kept(s, K)[i - 1]
<1> DEFINE n == Len(s)
           step == [x \in (1..n) \X Seq(T) |->
                      IF x[1] \in K THEN Append(x[2], s[x[1]]) ELSE x[2]]
           Eq(f) == f = [i \in 0..n |->
                           IF i = 0 THEN <<>>
                           ELSE IF i \in K THEN Append(f[i - 1], s[i]) ELSE f[i - 1]]
           f0 == Novel!Kept(s, K)
<1>1. <<>> \in Seq(T)
  OBVIOUS
<1>2. step \in [(1..n) \X Seq(T) -> Seq(T)]
  <2>1. ASSUME NEW x \in (1..n) \X Seq(T)
        PROVE  (IF x[1] \in K THEN Append(x[2], s[x[1]]) ELSE x[2]) \in Seq(T)
    <3>1. x[1] \in 1..n /\ x[2] \in Seq(T) /\ s[x[1]] \in T
      OBVIOUS
    <3>2. Append(x[2], s[x[1]]) \in Seq(T)
      BY <3>1
    <3>3. QED
      BY <3>1, <3>2
  <2>2. QED
    BY <2>1
<1>2a. n \in Nat
  OBVIOUS
<1>3. PICK f \in [0..n -> Seq(T)] :
         f[0] = <<>> /\ \A i \in 1..n : f[i] = step[<<i, f[i - 1]>>]
  <2>1. Steps(step, n, Seq(T), <<>>)
    <3> HIDE DEF step, n
    <3>1. QED
      BY <1>1, <1>2, <1>2a DEF Steps
  <2> HIDE DEF step, n
  <2>2. PICK f : Iterates(f, step, n, Seq(T), <<>>)
    BY <2>1, RecursionExists
  <2>3. QED
    BY <2>2 DEF Iterates
<1>4. \A i \in 1..n : f[i - 1] \in Seq(T)
  OBVIOUS
<1>5. \A i \in 1..n : step[<<i, f[i - 1]>>] = IF i \in K THEN Append(f[i - 1], s[i]) ELSE f[i - 1]
  BY <1>4
<1>6. Eq(f)
  <2>1. \A i \in 0..n : f[i] = IF i = 0 THEN <<>>
                               ELSE IF i \in K THEN Append(f[i - 1], s[i]) ELSE f[i - 1]
    <3> TAKE i \in 0..n
    <3>1. CASE i = 0
      BY <1>3, <3>1
    <3>2. CASE i # 0
      <4>1. i \in 1..n
        BY <3>2
      <4> HIDE DEF step
      <4>2. f[i] = step[<<i, f[i - 1]>>]
        BY <1>3, <4>1
      <4>3. QED
        BY <1>5, <3>2, <4>1, <4>2
    <3>3. QED
      BY <3>1, <3>2
  <2>2. f = [i \in 0..n |-> f[i]]
    OBVIOUS
  <2>3. QED
    BY <2>1, <2>2
<1>7. f0 = CHOOSE g : Eq(g)
  BY DEF Novel!Kept
<1>8. Eq(f0)
  <2> HIDE DEF f0, Eq
  <2>1. QED
    BY <1>6, <1>7
<1>9. f0[0] = <<>> /\ \A i \in 1..n : f0[i] = IF i \in K THEN Append(f0[i - 1], s[i]) ELSE f0[i - 1]
  <2>1. \A i \in 0..n : f0[i] = IF i = 0 THEN <<>>
                                ELSE IF i \in K THEN Append(f0[i - 1], s[i]) ELSE f0[i - 1]
    <3> HIDE DEF f0
    <3>1. QED
      BY <1>8
  <2> HIDE DEF f0
  <2>2. QED
    BY <2>1
<1> HIDE DEF f0
<1>10. \A i \in 0..n : f0[i] \in Seq(T)
  <2> DEFINE P == {i \in 0..n : f0[i] \in Seq(T)}
  <2>1. 0 \in P
    <3>1. 0 \in 0..n /\ f0[0] \in Seq(T)
      BY <1>1, <1>9
    <3>2. QED
      BY <3>1
  <2>2. ASSUME NEW i \in 1..n, i - 1 \in P
        PROVE  i \in P
    <3>1. f0[i - 1] \in Seq(T) /\ s[i] \in T
      BY <2>2
    <3>2. Append(f0[i - 1], s[i]) \in Seq(T)
      BY <3>1
    <3>2a. f0[i] = IF i \in K THEN Append(f0[i - 1], s[i]) ELSE f0[i - 1]
      BY <1>9
    <3>3. f0[i] \in Seq(T) /\ i \in 0..n
      BY <3>1, <3>2, <3>2a
    <3>4. QED
      BY <3>3
  <2>3. \A i \in 0..n : i \in P
    <3> HIDE DEF P
    <3>1. QED
      BY <2>1, <2>2, UpTo
  <2>4. QED
    BY <2>3
<1>11. f0 = [i \in 0..n |-> f0[i]]
  BY <1>8
<1>12. QED
  BY <1>9, <1>10, <1>11 DEF f0

\* Kept looks no further than where it stands.
LEMMA KeptAgrees ==
    ASSUME NEW s, NEW t, Len(s) \in Nat, Len(t) \in Nat, NEW K, NEW L,
           NEW n \in 0..Len(s), n <= Len(t),
           \A i \in 1..n : s[i] = t[i] /\ (i \in K <=> i \in L)
    PROVE  Novel!Kept(s, K)[n] = Novel!Kept(t, L)[n]
<1> DEFINE T == {s[i] : i \in 1..Len(s)} \cup {t[i] : i \in 1..Len(t)}
           P == {i \in 0..n : Novel!Kept(s, K)[i] = Novel!Kept(t, L)[i]}
<1>1. (\A i \in 1..Len(s) : s[i] \in T) /\ (\A i \in 1..Len(t) : t[i] \in T)
  OBVIOUS
<1> HIDE DEF T
<1>2. /\ Novel!Kept(s, K)[0] = <<>> /\ Novel!Kept(t, L)[0] = <<>>
      /\ \A i \in 1..Len(s) : Novel!Kept(s, K)[i] =
                IF i \in K THEN Append(Novel!Kept(s, K)[i - 1], s[i])
                           ELSE Novel!Kept(s, K)[i - 1]
      /\ \A i \in 1..Len(t) : Novel!Kept(t, L)[i] =
                IF i \in L THEN Append(Novel!Kept(t, L)[i - 1], t[i])
                           ELSE Novel!Kept(t, L)[i - 1]
  BY <1>1, KeptFacts
<1>3. 0 \in P
  BY <1>2
<1>4. ASSUME NEW i \in 1..n, i - 1 \in P
      PROVE  i \in P
  <2>1. Novel!Kept(s, K)[i - 1] = Novel!Kept(t, L)[i - 1] /\ s[i] = t[i] /\ (i \in K <=> i \in L)
    BY <1>4
  <2>2. i \in 1..Len(s) /\ i \in 1..Len(t)
    OBVIOUS
  <2>3. Novel!Kept(s, K)[i] = Novel!Kept(t, L)[i]
    BY <1>2, <2>1, <2>2
  <2>4. QED
    BY <2>3
<1>5. n \in Nat /\ n \in 0..n
  OBVIOUS
<1>6. n \in P
  <2> HIDE DEF P
  <2>1. \A i \in 0..n : i \in P
    BY <1>3, <1>4, <1>5, UpTo
  <2>2. QED
    BY <1>5, <2>1
<1>7. QED
  BY <1>6

\* What is kept stands in the sequence at kept positions, in their order.
Places(s, K, t, m) ==
    /\ \A n \in 1..Len(t) : \E j \in 1..m : j \in K /\ t[n] = s[j]
    /\ \A n \in 1..Len(t) : \A l \in 1..(n - 1) :
         \E j, k \in 1..m : j < k /\ j \in K /\ k \in K /\ t[l] = s[j] /\ t[n] = s[k]

LEMMA AtPlaces ==
    ASSUME NEW s, Len(s) \in Nat, NEW T, \A i \in 1..Len(s) : s[i] \in T, NEW K
    PROVE  Novel!At(s, K) \in Seq(T) /\ Places(s, K, Novel!At(s, K), Len(s))
<1> DEFINE f == Novel!Kept(s, K)
           P == {i \in 0..Len(s) : Places(s, K, f[i], i)}
<1>1. /\ f \in [0..Len(s) -> Seq(T)]
      /\ f[0] = <<>>
      /\ \A i \in 1..Len(s) : f[i] = IF i \in K THEN Append(f[i - 1], s[i]) ELSE f[i - 1]
  BY KeptFacts
<1> HIDE DEF f
<1>2. 0 \in P
  <2>1. Len(f[0]) = 0
    BY <1>1
  <2>2. Places(s, K, f[0], 0)
    BY <2>1 DEF Places
  <2>3. QED
    BY <2>2
<1>3. ASSUME NEW i \in 1..Len(s), i - 1 \in P
      PROVE  i \in P
  <2>1. f[i - 1] \in Seq(T) /\ s[i] \in T /\ Places(s, K, f[i - 1], i - 1)
    BY <1>1, <1>3
  <2>2. \A j \in 1..(i - 1) : j \in 1..i /\ j < i
    OBVIOUS
  <2>3. CASE i \notin K
    <3>1. f[i] = f[i - 1]
      BY <1>1, <2>3
    <3>2. Places(s, K, f[i], i)
      BY <2>1, <2>2, <3>1 DEF Places
    <3>3. QED
      BY <3>2
  <2>4. CASE i \in K
    <3> DEFINE t == f[i - 1]
               u == Append(t, s[i])
    <3>1. f[i] = u
      BY <1>1, <2>4
    <3>2. /\ Len(t) \in Nat /\ Len(u) = Len(t) + 1 /\ u[Len(t) + 1] = s[i]
          /\ \A n \in 1..Len(t) : u[n] = t[n]
      BY <2>1, AppendProperties, LenProperties
    <3> HIDE DEF t, u
    <3>3. \A n \in 1..Len(t) : \E j \in 1..(i - 1) : j \in K /\ t[n] = s[j]
      BY <2>1 DEF Places, t
    <3>4. \A n \in 1..Len(t) : \A l \in 1..(n - 1) :
             \E j, k \in 1..(i - 1) : j < k /\ j \in K /\ k \in K /\ t[l] = s[j] /\ t[n] = s[k]
      BY <2>1 DEF Places, t
    <3>5. ASSUME NEW n \in 1..Len(u)
          PROVE  \E j \in 1..i : j \in K /\ u[n] = s[j]
      <4>1. CASE n = Len(t) + 1
        BY <2>4, <3>2, <4>1
      <4>2. CASE n # Len(t) + 1
        <5>1. n \in 1..Len(t)
          BY <3>2, <4>2
        <5>2. QED
          BY <2>2, <3>2, <3>3, <5>1
      <4>3. QED
        BY <4>1, <4>2
    <3>6. ASSUME NEW n \in 1..Len(u), NEW l \in 1..(n - 1)
          PROVE  \E j, k \in 1..i : j < k /\ j \in K /\ k \in K /\ u[l] = s[j] /\ u[n] = s[k]
      <4>1. l \in 1..Len(t)
        BY <3>2
      <4>2. CASE n = Len(t) + 1
        <5>1. PICK j \in 1..(i - 1) : j \in K /\ t[l] = s[j]
          BY <3>3, <4>1
        <5>2. j \in 1..i /\ i \in 1..i /\ j < i /\ u[l] = s[j] /\ u[n] = s[i]
          BY <3>2, <4>1, <4>2, <5>1
        <5>3. QED
          BY <2>4, <5>1, <5>2
      <4>3. CASE n # Len(t) + 1
        <5>1. n \in 1..Len(t)
          BY <3>2, <4>3
        <5>2. PICK j \in 1..(i - 1), k \in 1..(i - 1) :
                 j < k /\ j \in K /\ k \in K /\ t[l] = s[j] /\ t[n] = s[k]
          BY <3>4, <5>1
        <5>3. QED
          BY <2>2, <3>2, <4>1, <5>1, <5>2
      <4>4. QED
        BY <4>2, <4>3
    <3>7. Places(s, K, u, i)
      BY <3>5, <3>6 DEF Places
    <3>8. QED
      BY <3>1, <3>7
  <2>5. QED
    BY <2>3, <2>4
<1>4. Len(s) \in 0..Len(s)
  OBVIOUS
<1>5. Len(s) \in P
  <2> HIDE DEF P
  <2>1. QED
    BY <1>2, <1>3, <1>4, UpTo
<1>6. QED
  BY <1>1, <1>4, <1>5 DEF Novel!At, f

\* A sequence over one set whose elements are in another is one over that.
LEMMA SeqOver ==
    ASSUME NEW T, NEW s \in Seq(T), NEW S, \A i \in 1..Len(s) : s[i] \in S
    PROVE  s \in Seq(S)
<1>1. Len(s) \in Nat /\ s = [i \in 1..Len(s) |-> s[i]]
  BY LenProperties, SeqDef
<1>2. s \in [1..Len(s) -> S]
  BY <1>1
<1>3. QED
  BY <1>1, <1>2, SeqDef

LEMMA DistinctFacts ==
    ASSUME NEW T, NEW s \in Seq(T)
    PROVE  /\ Novel!Distinct(s) \in Seq(T)
           /\ \A n \in 1..Len(Novel!Distinct(s)) : \A l \in 1..(n - 1) :
                Novel!Distinct(s)[l] # Novel!Distinct(s)[n]
<1> DEFINE K == {i \in 1..Len(s) : \A j \in 1..(i - 1) : s[j] # s[i]}
           t == Novel!At(s, K)
<1>1. Len(s) \in Nat /\ \A i \in 1..Len(s) : s[i] \in T
  BY LenProperties, ElementOfSeq
<1>2. t \in Seq(T) /\ Places(s, K, t, Len(s))
  <2> HIDE DEF K
  <2>1. QED
    BY <1>1, AtPlaces
<1>3. Novel!Distinct(s) = t
  BY DEF Novel!Distinct
<1> HIDE DEF t
<1>4. ASSUME NEW n \in 1..Len(t), NEW l \in 1..(n - 1)
      PROVE  t[l] # t[n]
  <2>1. PICK j \in 1..Len(s), k \in 1..Len(s) :
           j < k /\ j \in K /\ k \in K /\ t[l] = s[j] /\ t[n] = s[k]
    BY <1>2 DEF Places
  <2>2. j \in 1..(k - 1)
    BY <1>1, <2>1
  <2>3. QED
    BY <2>1, <2>2
<1>5. QED
  BY <1>2, <1>3, <1>4

\* The links of a directory page lead to chapters.
LEMMA ExtractType ==
    ASSUME NEW links, Novel!IsSequence(links)
    PROVE  Novel!Extract(links) \in Seq(Chapters)
<1> DEFINE targets == Novel!Targets(links)
           chapters == {i \in 1..Len(links) : links[i].to \in Chapters}
           body == {i \in chapters : \E j \in 1..i : links[j].body}
           K == IF body # {} THEN body ELSE chapters
           T == {links[i].to : i \in 1..Len(links)}
<1>1. Len(links) \in Nat
  BY DEF Novel!IsSequence
<1>2. targets \in [1..Len(links) -> T] /\ \A i \in 1..Len(links) : targets[i] = links[i].to
  BY DEF Novel!Targets
<1>3. targets \in Seq(T)
  BY <1>1, <1>2, SeqDef
<1>4. Len(targets) = Len(links)
  BY <1>1, <1>2, <1>3, LenProperties
<1>5. K \subseteq chapters
  OBVIOUS
<1>6. Novel!Extract(links) = Novel!Distinct(Novel!At(targets, K))
  BY DEF Novel!Extract
<1> HIDE DEF targets, T, K
<1>7. /\ Novel!At(targets, K) \in Seq(T)
      /\ Places(targets, K, Novel!At(targets, K), Len(targets))
  BY <1>1, <1>2, <1>4, AtPlaces
<1>8. \A n \in 1..Len(Novel!At(targets, K)) : Novel!At(targets, K)[n] \in Chapters
  BY <1>2, <1>4, <1>5, <1>7 DEF Places
<1>9. Novel!At(targets, K) \in Seq(Chapters)
  BY <1>7, <1>8, SeqOver
<1>10. QED
  BY <1>6, <1>9, DistinctFacts

LEMMA JoinedType ==
    ASSUME NEW pages \in Directories
    PROVE  Novel!Joined(pages)[Len(pages)] \in Seq(Chapters)
<1> DEFINE n == Len(pages)
           C == Seq(Chapters)
           E(i) == Novel!Extract(pages[i])
           step == [x \in (1..n) \X C |-> x[2] \o E(x[1])]
           Eq(f) == f = [i \in 0..n |-> IF i = 0 THEN <<>> ELSE f[i - 1] \o E(i)]
           f0 == Novel!Joined(pages)
<1>1. n \in Nat /\ \A i \in 1..n : E(i) \in C
  <2>1. n \in Nat /\ \A i \in 1..n : Novel!IsSequence(pages[i])
    BY ChaptersAssumption DEF Novel!NovelAssumption, Novel!IsSequence
  <2>2. QED
    BY <2>1, ExtractType
<1>2. \A x \in C, y \in C : x \o y \in C
  OBVIOUS
<1>3. <<>> \in C
  OBVIOUS
<1> HIDE DEF E, C
<1>4. Steps(step, n, C, <<>>)
  <2>1. \A x \in (1..n) \X C : x[2] \o E(x[1]) \in C
    BY <1>1, <1>2
  <2>2. step \in [(1..n) \X C -> C]
    BY <2>1
  <2> HIDE DEF step, n
  <2>3. QED
    BY <1>1, <1>3, <2>2 DEF Steps
<1>5. PICK f : Iterates(f, step, n, C, <<>>)
  <2> HIDE DEF step, n
  <2>1. QED
    BY <1>4, RecursionExists
<1>6. /\ f \in [0..n -> C] /\ f[0] = <<>>
      /\ \A i \in 1..n : f[i] = step[<<i, f[i - 1]>>]
  <2> HIDE DEF step, n
  <2>1. QED
    BY <1>5 DEF Iterates
<1>7. \A i \in 1..n : f[i] = f[i - 1] \o E(i)
  <2> TAKE i \in 1..n
  <2>1. f[i - 1] \in C
    BY <1>6
  <2>2. step[<<i, f[i - 1]>>] = f[i - 1] \o E(i)
    BY <2>1
  <2>3. QED
    BY <1>6, <2>2
<1>8. Eq(f)
  <2>1. \A i \in 0..n : f[i] = IF i = 0 THEN <<>> ELSE f[i - 1] \o E(i)
    <3> TAKE i \in 0..n
    <3>1. CASE i = 0
      BY <1>6, <3>1
    <3>2. CASE i # 0
      <4>1. i \in 1..n
        BY <3>2
      <4>2. QED
        BY <1>7, <3>2, <4>1
    <3>3. QED
      BY <3>1, <3>2
  <2>2. f = [i \in 0..n |-> f[i]]
    BY <1>6
  <2>3. QED
    BY <2>1, <2>2
<1>9. f0 = CHOOSE g : Eq(g)
  BY DEF Novel!Joined, E
<1>10. Eq(f0)
  <2> HIDE DEF f0, Eq
  <2>1. QED
    BY <1>8, <1>9
<1>11. f0[0] = <<>> /\ \A i \in 1..n : f0[i] = f0[i - 1] \o E(i)
  <2>1. \A i \in 0..n : f0[i] = IF i = 0 THEN <<>> ELSE f0[i - 1] \o E(i)
    <3> HIDE DEF f0
    <3>1. QED
      BY <1>10
  <2> HIDE DEF f0, n
  <2>2. 0 \in 0..n /\ \A i \in 1..n : i \in 0..n /\ i # 0
    BY <1>1
  <2>3. QED
    BY <2>1, <2>2
<1> HIDE DEF f0
<1>12. \A i \in 0..n : f0[i] \in C
  <2> DEFINE P == {i \in 0..n : f0[i] \in C}
  <2>1. 0 \in P
    BY <1>1, <1>3, <1>11
  <2>2. ASSUME NEW i \in 1..n, i - 1 \in P
        PROVE  i \in P
    <3>1. f0[i - 1] \in C /\ E(i) \in C
      BY <1>1, <2>2
    <3>2. f0[i] \in C
      BY <1>2, <1>11, <3>1
    <3>3. QED
      BY <3>2
  <2> HIDE DEF P, n
  <2>3. \A i \in 0..n : i \in P
    BY <1>1, <2>1, <2>2, UpTo
  <2>4. QED
    BY <2>3 DEF P
<1>13. n \in 0..n
  BY <1>1
<1>14. QED
  BY <1>12, <1>13 DEF f0, C

\* The directory: chapters, each once.
LEMMA JoinFacts ==
    ASSUME NEW pages \in Directories
    PROVE  /\ Novel!Join(pages) \in Seq(Chapters)
           /\ \A n \in 1..Len(Novel!Join(pages)) : \A l \in 1..(n - 1) :
                Novel!Join(pages)[l] # Novel!Join(pages)[n]
BY JoinedType, DistinctFacts DEF Novel!Join

-----------------------------------------------------------------------------
(* The pages of a chapter.                                                  *)

\* What has text of a walk that goes one page further.
LEMMA OnePageMore ==
    ASSUME NEW T, NEW w \in Seq(T), NEW p \in T
    PROVE  Novel!WithText(Append(w, p)) =
             IF p \in Blank THEN Novel!WithText(w) ELSE Append(Novel!WithText(w), p)
<1> DEFINE v == Append(w, p)
           n == Len(w)
           K == {i \in 1..Len(w) : w[i] \notin Blank}
           L == {i \in 1..Len(v) : v[i] \notin Blank}
<1>1. /\ n \in Nat /\ Len(v) = n + 1 /\ v \in Seq(T)
      /\ v[n + 1] = p /\ \A i \in 1..n : v[i] = w[i]
  BY AppendProperties, LenProperties
<1>2. (\A i \in 1..Len(v) : v[i] \in T) /\ Len(v) \in Nat
  BY <1>1, ElementOfSeq
<1>3. Novel!WithText(w) = Novel!Kept(w, K)[n] /\ Novel!WithText(v) = Novel!Kept(v, L)[n + 1]
  BY <1>1 DEF Novel!WithText, Novel!At
<1> HIDE DEF v
<1>4. (\A i \in 1..n : i \in K <=> i \in L) /\ (n + 1 \in L <=> p \notin Blank)
  BY <1>1
<1> HIDE DEF K, L
<1>5. n + 1 \in 1..Len(v) /\ n \in 0..Len(w) /\ n <= Len(v) /\ (n + 1) - 1 = n
  BY <1>1
<1>6. Novel!Kept(v, L)[n + 1] = IF n + 1 \in L THEN Append(Novel!Kept(v, L)[n], v[n + 1])
                                             ELSE Novel!Kept(v, L)[n]
  BY <1>2, <1>5, KeptFacts
<1>7. Novel!Kept(w, K)[n] = Novel!Kept(v, L)[n]
  BY <1>1, <1>2, <1>4, <1>5, KeptAgrees
<1>8. QED
  BY <1>1, <1>3, <1>4, <1>6, <1>7 DEF v

\* The pages a chapter's download has been through: its first one and on
\* along its links, none twice.
Chain(c, w) ==
    /\ w \in Seq(Novel!PagesIn(c))
    /\ Len(w) > 0 => w[1] = <<c, 1>>
    /\ \A i \in 2..Len(w) : /\ Novel!FollowUp(<<c, 1>>, NextPage[w[i - 1]])
                            /\ w[i] = NextPage[w[i - 1]]

\* Where it goes on.
Ahead(c, w) ==
    IF Len(w) = 0 THEN <<c, 1>>
    ELSE IF Novel!FollowUp(<<c, 1>>, NextPage[w[Len(w)]]) THEN NextPage[w[Len(w)]] ELSE NoPage

\* The finite sets of NovelDownload are those of FiniteSets.
LEMMA NovelFinite ==
    \A S : (Novel!IsFiniteSet(S) <=> IsFiniteSet(S)) /\ Novel!Cardinality(S) = Cardinality(S)
<1> TAKE S
<1>1. Novel!IsFiniteSet(S) <=> IsFiniteSet(S)
  BY DEF Novel!IsFiniteSet, IsFiniteSet
<1>2. Novel!Cardinality(S) = Cardinality(S)
  BY DEF Novel!Cardinality, Cardinality
<1>3. QED
  BY <1>1, <1>2

\* Two chains agree as far as both go.
LEMMA ChainsAgree ==
    ASSUME NEW c, NEW w, NEW v, Chain(c, w), Chain(c, v), NEW n \in Nat, n <= Len(w), n <= Len(v)
    PROVE  \A i \in 1..n : w[i] = v[i]
<1> DEFINE P == {i \in 0..n : i > 0 => w[i] = v[i]}
<1>1. Len(w) \in Nat /\ Len(v) \in Nat
  BY LenProperties DEF Chain
<1>2. 0 \in P
  OBVIOUS
<1>3. ASSUME NEW i \in 1..n, i - 1 \in P
      PROVE  i \in P
  <2>1. CASE i = 1
    <3>1. Len(w) > 0 /\ Len(v) > 0 /\ i \in 0..n
      BY <1>1, <2>1
    <3>2. w[1] = v[1]
      BY <3>1 DEF Chain
    <3>3. QED
      BY <2>1, <3>1, <3>2
  <2>2. CASE i # 1
    <3>1. i \in 2..Len(w) /\ i \in 2..Len(v) /\ w[i - 1] = v[i - 1]
      BY <1>1, <1>3, <2>2
    <3>2. w[i] = v[i]
      BY <3>1 DEF Chain
    <3>3. QED
      BY <3>2
  <2>3. QED
    BY <2>1, <2>2
<1>4. \A i \in 0..n : i \in P
  <2> HIDE DEF P
  <2>1. QED
    BY <1>2, <1>3, UpTo
<1>5. QED
  BY <1>4

\* A walk is a chain to the end.
LEMMA WalkIsChain ==
    ASSUME NEW c, NEW w \in Novel!Walks(c)
    PROVE  /\ Chain(c, w) /\ Len(w) \in Nat \ {0}
           /\ ~Novel!FollowUp(<<c, 1>>, NextPage[w[Len(w)]])
<1>1. PICK n \in 1..Novel!Cardinality(Novel!PagesIn(c)) : w \in [1..n -> Novel!PagesIn(c)]
  BY DEF Novel!Walks
<1>2. n \in Nat \ {0}
  <2>1. \A m : \A k \in 1..m : k \in Nat \ {0}
    OBVIOUS
  <2>2. QED
    BY <2>1
<1>3. w \in Seq(Novel!PagesIn(c)) /\ Len(w) = n
  BY <1>1, <1>2, SeqDef, LenProperties
<1>4. Novel!IsWalk(c, w)
  BY DEF Novel!Walks
<1>5. QED
  BY <1>2, <1>3, <1>4 DEF Novel!IsWalk, Chain

\* There is at most one walk.
LEMMA OneWalk ==
    ASSUME NEW c, NEW w \in Novel!Walks(c), NEW v \in Novel!Walks(c)
    PROVE  w = v
<1>1. /\ Chain(c, w) /\ Len(w) \in Nat \ {0}
      /\ ~Novel!FollowUp(<<c, 1>>, NextPage[w[Len(w)]])
      /\ Chain(c, v) /\ Len(v) \in Nat \ {0}
      /\ ~Novel!FollowUp(<<c, 1>>, NextPage[v[Len(v)]])
  BY WalkIsChain
<1>2. ~(Len(w) < Len(v))
  <2>1. SUFFICES ASSUME Len(w) < Len(v) PROVE FALSE
    OBVIOUS
  <2>2. Len(w) \in 1..Len(w) /\ Len(w) <= Len(v) /\ Len(w) + 1 \in 2..Len(v)
        /\ (Len(w) + 1) - 1 = Len(w)
    BY <1>1, <2>1
  <2>3. w[Len(w)] = v[Len(w)]
    BY <1>1, <2>2, ChainsAgree
  <2>4. Novel!FollowUp(<<c, 1>>, NextPage[v[Len(w)]])
    BY <1>1, <2>2 DEF Chain
  <2>5. QED
    BY <1>1, <2>3, <2>4
<1>3. ~(Len(v) < Len(w))
  <2>1. SUFFICES ASSUME Len(v) < Len(w) PROVE FALSE
    OBVIOUS
  <2>2. Len(v) \in 1..Len(v) /\ Len(v) <= Len(w) /\ Len(v) + 1 \in 2..Len(w)
        /\ (Len(v) + 1) - 1 = Len(v)
    BY <1>1, <2>1
  <2>3. w[Len(v)] = v[Len(v)]
    BY <1>1, <2>2, ChainsAgree
  <2>4. Novel!FollowUp(<<c, 1>>, NextPage[w[Len(v)]])
    BY <1>1, <2>2 DEF Chain
  <2>5. QED
    BY <1>1, <2>3, <2>4
<1>4. Len(w) = Len(v)
  BY <1>1, <1>2, <1>3
<1>5. \A i \in 1..Len(w) : w[i] = v[i]
  BY <1>1, <1>4, ChainsAgree
<1>6. w = [i \in 1..Len(w) |-> w[i]] /\ v = [i \in 1..Len(v) |-> v[i]]
  BY <1>1, LenProperties, SeqDef DEF Chain
<1>7. QED
  BY <1>4, <1>5, <1>6

\* A chain of different pages that goes no further is the walk.
LEMMA ChainIsWalk ==
    ASSUME NEW c, NEW w, Chain(c, w), Len(w) > 0,
           \A i, j \in 1..Len(w) : w[i] = w[j] => i = j,
           ~Novel!FollowUp(<<c, 1>>, NextPage[w[Len(w)]])
    PROVE  Novel!Walks(c) # {} /\ Novel!WithText(w) = Novel!PagesOf(c)
<1> DEFINE n == Len(w)
           S == Novel!PagesIn(c)
<1>1. n \in Nat /\ w \in [1..n -> S]
  BY LenProperties DEF Chain
<1>2. IsFiniteSet(S)
  <2>1. S \subseteq DOMAIN NextPage
    BY DEF Novel!PagesIn
  <2>2. QED
    BY <2>1, ChaptersAssumption, NovelFinite, FS_Subset DEF Novel!NovelAssumption
<1>3. IsFiniteSet(1..n) /\ Cardinality(1..n) = n
  BY <1>1, FS_Interval
<1>4. n <= Cardinality(S) /\ Cardinality(S) \in Nat
  <2>1. w \in Injection(1..n, S)
    BY <1>1 DEF Injection, IsInjective
  <2>2. QED
    BY <1>2, <1>3, <2>1, FS_Injection, FS_CardinalityType
<1>5. Novel!IsWalk(c, w)
  BY DEF Chain, Novel!IsWalk
<1>6. w \in Novel!Walks(c)
  <2>1. n \in 1..Cardinality(S)
    BY <1>1, <1>4
  <2>2. QED
    BY <1>1, <1>5, <2>1, NovelFinite DEF Novel!Walks
<1>7. (CHOOSE v \in Novel!Walks(c) : TRUE) = w
  BY <1>6, OneWalk
<1>8. QED
  BY <1>6, <1>7 DEF Novel!PagesOf

-----------------------------------------------------------------------------
(* The invariant of the chapter downloader.                                 *)

\* Every text is that of a chapter, and the whole of it.
AreWhole(d, t) ==
    /\ d = DOMAIN t /\ d \subseteq Chapters
    /\ \A c \in d : Novel!Walks(c) # {} /\ t[c] = Novel!PagesOf(c)

ListOK ==
    /\ list \in Seq(Chapters)
    /\ \A n \in 1..Len(list) : \A l \in 1..(n - 1) : list[l] # list[n]

Looping == {"loop", "page", "save", "saving", "write", "last"}
AtChapter == {"save", "saving", "write"}

\* The chapters before the index have their texts; the run knows what
\* progress.json holds.
LoopOK ==
    npc \in Looping =>
        /\ index \in Nat \ {0}
        /\ \A i \in 1..Len(list) : i < index => list[i] \in completed
        /\ progress.state = "whole" => progress.done \subseteq completed
        /\ npc = "page" => index <= Len(list)
        /\ npc \in AtChapter => index <= Len(list) /\ list[index] \in completed
        /\ npc = "last" => index > Len(list)

\* The pages fetched so far are a chain, and its texts are kept.
PageOK ==
    npc = "page" =>
        \E w : /\ Chain(list[index], w)
               /\ \A i, j \in 1..Len(w) : w[i] = w[j] => i = j
               /\ visited = {w[i] : i \in 1..Len(w)}
               /\ parts = Novel!WithText(w)
               /\ page = Ahead(list[index], w)

DoneOK ==
    npc = "done" =>
        (\A i \in 1..Len(list) : list[i] \in completed) /\ output = Novel!TextFile

NovelInv ==
    /\ npc \in Novel!Running \cup {"idle", "done", "failed", "interrupted"}
    /\ index \in Nat
    /\ progress.state \in {"none", "half", "whole"}
    /\ AreWhole(progress.done, progress.texts)
    /\ AreWhole(completed, texts)
    /\ ListOK /\ LoopOK /\ PageOK /\ DoneOK

\* A chapter of the loop is one of the site.
LEMMA ChapterInList ==
    ASSUME ListOK, NEW i \in 1..Len(list)
    PROVE  list[i] \in Chapters
BY ElementOfSeq DEF ListOK

\* The invariant says what NovelIsKept says.
LEMMA NovelInvKeeps ==
    ASSUME NovelInv
    PROVE  Novel!TypeOK /\ Novel!SavedAreWhole /\ Novel!TextIsComplete /\ Novel!KeepsTheSaved
<1>1. Novel!TypeOK
  <2>1. \A i \in DOMAIN list : list[i] \in Chapters
    <3>1. DOMAIN list = 1..Len(list)
      BY LenProperties DEF NovelInv, ListOK
    <3>2. QED
      BY <3>1, ChapterInList DEF NovelInv
  <2>2. QED
    BY <2>1 DEF NovelInv, AreWhole, Novel!TypeOK
<1>2. Novel!SavedAreWhole
  BY DEF NovelInv, AreWhole, Novel!SavedAreWhole
<1>3. Novel!KeepsTheSaved
  <2>1. SUFFICES ASSUME npc \in Looping, progress.state = "whole"
                 PROVE  /\ progress.done \subseteq completed
                        /\ \A c \in progress.done :
                             c \in DOMAIN texts /\ texts[c] = progress.texts[c]
    BY DEF Novel!KeepsTheSaved, Novel!Valid, Novel!Running, Looping
  <2>2. progress.done \subseteq completed
    BY <2>1 DEF NovelInv, LoopOK
  <2>3. QED
    BY <2>2 DEF NovelInv, AreWhole
<1>4. Novel!TextIsComplete
  <2> SUFFICES ASSUME npc = "done"
               PROVE  /\ \A i \in 1..Len(list) : Novel!Walks(list[i]) # {}
                      /\ [i \in DOMAIN output |-> output[i].chapter]
                           = Novel!At(list, {i \in 1..Len(list) :
                                               Novel!PagesOf(list[i]) # <<>>})
                      /\ \A i \in DOMAIN output :
                           output[i].text = Novel!PagesOf(output[i].chapter)
                      /\ \A i, j \in DOMAIN output :
                           i # j => output[i].chapter # output[j].chapter
    BY DEF Novel!TextIsComplete
  <2> DEFINE K == {i \in 1..Len(list) : Novel!Has(list[i])}
             L == {i \in 1..Len(list) : Novel!PagesOf(list[i]) # <<>>}
             told == Novel!At(list, K)
  <2>1. \A i \in 1..Len(list) : /\ list[i] \in DOMAIN texts
                                /\ Novel!Walks(list[i]) # {}
                                /\ texts[list[i]] = Novel!PagesOf(list[i])
    BY DEF NovelInv, DoneOK, AreWhole
  <2>2. K = L
    BY <2>1 DEF Novel!Has
  <2>3. list \in Seq(Chapters) /\ Len(list) \in Nat /\ \A i \in 1..Len(list) : list[i] \in Chapters
    BY ChapterInList, LenProperties DEF NovelInv, ListOK
  <2>4. told \in Seq(Chapters) /\ Places(list, K, told, Len(list))
    <3> HIDE DEF K
    <3>1. QED
      BY <2>3, AtPlaces
  <2>5. output = [i \in 1..Len(told) |-> [chapter |-> told[i], text |-> texts[told[i]]]]
    BY DEF NovelInv, DoneOK, Novel!TextFile
  <2> HIDE DEF K, L, told
  <2>6. Len(told) \in Nat /\ told = [i \in 1..Len(told) |-> told[i]]
    BY <2>4, LenProperties, SeqDef
  <2>7. /\ DOMAIN output = 1..Len(told)
        /\ \A i \in 1..Len(told) : output[i].chapter = told[i] /\ output[i].text = texts[told[i]]
    BY <2>5
  <2>8. \A i \in 1..Len(told) : \E j \in 1..Len(list) : told[i] = list[j]
    BY <2>4 DEF Places
  <2>9. \A i \in 1..Len(told) : texts[told[i]] = Novel!PagesOf(told[i])
    BY <2>1, <2>8
  <2>10. \A n \in 1..Len(told) : \A l \in 1..(n - 1) : told[l] # told[n]
    <3> TAKE n \in 1..Len(told)
    <3> TAKE l \in 1..(n - 1)
    <3>1. PICK j \in 1..Len(list), k \in 1..Len(list) : j < k /\ told[l] = list[j] /\ told[n] = list[k]
      BY <2>4 DEF Places
    <3>2. j \in 1..(k - 1)
      BY <2>3, <3>1
    <3>3. QED
      BY <3>1, <3>2 DEF NovelInv, ListOK
  <2>11. \A i, j \in 1..Len(told) : i # j => told[i] # told[j]
    <3> TAKE i, j \in 1..Len(told)
    <3>1. CASE i < j
      <4>1. i \in 1..(j - 1)
        BY <2>6, <3>1
      <4>2. QED
        BY <2>10, <4>1
    <3>2. CASE j < i
      <4>1. j \in 1..(i - 1)
        BY <2>6, <3>2
      <4>2. QED
        BY <2>10, <4>1
    <3>3. QED
      BY <2>6, <3>1, <3>2
  <2>12. [i \in DOMAIN output |-> output[i].chapter] = told
    <3>1. [i \in DOMAIN output |-> output[i].chapter] = [i \in 1..Len(told) |-> told[i]]
      BY <2>7
    <3>2. QED
      BY <2>6, <3>1
  <2>13. told = Novel!At(list, L)
    BY <2>2 DEF told
  <2>14. \A i, j \in DOMAIN output : i # j => output[i].chapter # output[j].chapter
    BY <2>7, <2>11
  <2>15. \A i \in DOMAIN output : output[i].text = Novel!PagesOf(output[i].chapter)
    BY <2>7, <2>9
  <2>16. [i \in DOMAIN output |-> output[i].chapter] = Novel!At(list, L)
    BY <2>12, <2>13
  <2>17. QED
    BY <2>1, <2>14, <2>15, <2>16 DEF L
<1>5. QED
  BY <1>1, <1>2, <1>3, <1>4

\* A step that leaves all but the step and the text file as they are, and
\* does not go on with the loop.
LEMMA NovelStops ==
    ASSUME NovelInv,
           UNCHANGED <<progress, list, index, completed, texts>>,
           npc' \in {"directory", "failed", "interrupted"}
    PROVE  NovelInv'
BY DEF NovelInv, AreWhole, ListOK, LoopOK, PageOK, DoneOK, Looping, AtChapter, Novel!Running,
       Novel!PagesOf, Novel!Walks, Novel!PagesIn, Novel!IsWalk

LEMMA NovelFetchesDirectory ==
    ASSUME NovelInv, Novel!FetchDirectory
    PROVE  NovelInv'
<1>1. CASE Novel!Fail
  BY <1>1, NovelStops DEF Novel!Fail
<1>2. ASSUME NEW pages \in Directories, NEW limit \in Limits,
             list' = SubSeq(Novel!Join(pages), 1, Novel!Smaller(limit, Len(Novel!Join(pages)))),
             npc' = "resume",
             UNCHANGED <<progress, output, index, completed, texts>>
      PROVE  NovelInv'
  <2> DEFINE all == Novel!Join(pages)
             m == Novel!Smaller(limit, Len(all))
  <2>1. /\ all \in Seq(Chapters) /\ Len(all) \in Nat
        /\ \A n \in 1..Len(all) : \A l \in 1..(n - 1) : all[l] # all[n]
    BY JoinFacts, LenProperties
  <2>2. limit \in Nat
    BY ChaptersAssumption DEF Novel!NovelAssumption
  <2> HIDE DEF all
  <2>3. m \in 0..Len(all)
    BY <2>1, <2>2 DEF Novel!Smaller
  <2> HIDE DEF m
  <2>4. list' = SubSeq(all, 1, m)
    BY <1>2 DEF all, m
  <2>5. /\ SubSeq(all, 1, m) \in Seq(Chapters)
        /\ Len(SubSeq(all, 1, m)) = m
        /\ \A i \in 1..m : SubSeq(all, 1, m)[i] = all[i]
    <3>1. \A i \in 1..m : all[i] \in Chapters
      BY <2>1, <2>3, ElementOfSeq
    <3>2. QED
      BY <2>1, <2>3, <3>1, SubSeqProperties
  <2>6. ListOK'
    <3>1. \A n \in 1..m : \A l \in 1..(n - 1) : l \in 1..m /\ n \in 1..Len(all)
      BY <2>1, <2>3
    <3>2. \A n \in 1..m : \A l \in 1..(n - 1) : all[l] # all[n]
      BY <2>1, <3>1
    <3>3. QED
      BY <2>4, <2>5, <3>1, <3>2 DEF ListOK
  <2>7. QED
    BY <1>2, <2>6 DEF NovelInv, AreWhole, LoopOK, PageOK, DoneOK, Looping, AtChapter,
                      Novel!Running, Novel!PagesOf, Novel!Walks, Novel!PagesIn, Novel!IsWalk
<1>3. QED
  BY <1>1, <1>2 DEF Novel!FetchDirectory

LEMMA NovelLoads ==
    ASSUME NovelInv, Novel!LoadProgress
    PROVE  NovelInv'
<1>1. CASE Novel!Fail
  BY <1>1, NovelStops DEF Novel!Fail
<1>2. CASE /\ completed' = progress.done /\ texts' = progress.texts /\ index' = 1
           /\ npc' = "loop" /\ UNCHANGED <<progress, output, list>>
  <2>1. LoopOK'
    <3>1. \A i \in 1..Len(list) : ~(i < 1)
      OBVIOUS
    <3>2. QED
      BY <1>2, <3>1 DEF LoopOK, AtChapter
  <2>2. ListOK' /\ PageOK' /\ DoneOK'
    BY <1>2 DEF NovelInv, ListOK, PageOK, DoneOK
  <2>3. AreWhole(progress.done, progress.texts)' /\ AreWhole(completed, texts)'
    BY <1>2 DEF NovelInv, AreWhole
  <2>4. QED
    BY <1>2, <2>1, <2>2, <2>3 DEF NovelInv, Novel!Running
<1>3. QED
  BY <1>1, <1>2 DEF Novel!LoadProgress

\* A chapter's download begins: the empty chain.
LEMMA NovelNextChapter ==
    ASSUME NovelInv, Novel!NextChapter
    PROVE  NovelInv'
<1>1. /\ UNCHANGED <<progress, output, list, completed, texts>>
      /\ npc = "loop" /\ npc \in Looping
  BY DEF Novel!NextChapter, Looping
<1>2. /\ index \in Nat \ {0} /\ Len(list) \in Nat
      /\ \A i \in 1..Len(list) : i < index => list[i] \in completed
      /\ progress.state = "whole" => progress.done \subseteq completed
  BY <1>1, LenProperties DEF NovelInv, ListOK, LoopOK
<1>3. /\ ListOK' /\ AreWhole(progress.done, progress.texts)' /\ AreWhole(completed, texts)'
      /\ progress'.state \in {"none", "half", "whole"}
  BY <1>1 DEF NovelInv, ListOK, AreWhole
<1>4. CASE /\ index <= Len(list) /\ list[index] \in completed
           /\ index' = index + 1 /\ npc' = npc
  <2>1. \A i \in 1..Len(list) : i < index + 1 => i < index \/ i = index
    BY <1>2
  <2>2. LoopOK'
    BY <1>1, <1>2, <1>4, <2>1 DEF LoopOK, AtChapter
  <2>3. PageOK' /\ DoneOK'
    BY <1>1, <1>4 DEF PageOK, DoneOK
  <2>4. QED
    BY <1>1, <1>2, <1>3, <1>4, <2>2, <2>3 DEF NovelInv, Novel!Running
<1>5. CASE /\ index <= Len(list) /\ index' = index /\ npc' = "page"
           /\ page' = <<list[index], 1>> /\ parts' = <<>> /\ visited' = {}
  <2>1. LoopOK'
    BY <1>1, <1>2, <1>5 DEF LoopOK, AtChapter
  <2> DEFINE c == list[index]
  <2>2. Chain(c, <<>>) /\ Len(<<>>) = 0 /\ page' = Ahead(c, <<>>)
    BY <1>5 DEF Chain, Ahead
  <2>3. Novel!WithText(<<>>) = <<>>
    <3>1. /\ Len(<<>>) = 0 /\ Len(<<>>) \in Nat
          /\ \A i \in 1..Len(<<>>) : <<>>[i] \in Chapters
      OBVIOUS
    <3>2. \A K : Novel!Kept(<<>>, K)[0] = <<>>
      BY <3>1, KeptFacts
    <3>3. QED
      BY <3>1, <3>2 DEF Novel!WithText, Novel!At
  <2>4. PageOK'
    <3>1. visited' = {<<>>[i] : i \in 1..Len(<<>>)} /\ \A i \in 1..Len(<<>>) : FALSE
      BY <1>5, <2>2
    <3>2. list'[index'] = c
      BY <1>1, <1>5
    <3> HIDE DEF c
    <3>3. QED
      BY <1>5, <2>2, <2>3, <3>1, <3>2 DEF PageOK
  <2>5. DoneOK'
    BY <1>5 DEF DoneOK
  <2>6. QED
    BY <1>1, <1>2, <1>3, <1>5, <2>1, <2>4, <2>5 DEF NovelInv, Novel!Running
<1>6. CASE index > Len(list) /\ npc' = "last" /\ index' = index
  <2>1. LoopOK'
    BY <1>1, <1>2, <1>6 DEF LoopOK, AtChapter
  <2>2. PageOK' /\ DoneOK'
    BY <1>6 DEF PageOK, DoneOK
  <2>3. QED
    BY <1>1, <1>2, <1>3, <1>6, <2>1, <2>2 DEF NovelInv, Novel!Running
<1>7. QED
  BY <1>4, <1>5, <1>6 DEF Novel!NextChapter

\* One page more is one more of the chain, or the chain is the walk.
LEMMA NovelFetchesPage ==
    ASSUME NovelInv, Novel!FetchPage
    PROVE  NovelInv'
<1> DEFINE c == list[index]
<1>1. /\ npc = "page" /\ npc \in Looping /\ index \in 1..Len(list) /\ c \in Chapters
  <2>1. npc = "page" /\ npc \in Looping
    BY DEF Novel!FetchPage, Looping
  <2>2. index \in 1..Len(list)
    BY <2>1, LenProperties DEF NovelInv, LoopOK, ListOK
  <2>3. QED
    BY <2>1, <2>2, ChapterInList DEF NovelInv
<1>2. PICK w : /\ Chain(c, w)
               /\ \A i, j \in 1..Len(w) : w[i] = w[j] => i = j
               /\ visited = {w[i] : i \in 1..Len(w)}
               /\ parts = Novel!WithText(w)
               /\ page = Ahead(c, w)
  BY <1>1 DEF NovelInv, PageOK
<1>3. w \in Seq(Novel!PagesIn(c)) /\ Len(w) \in Nat
  BY <1>2, LenProperties DEF Chain
<1>4. CASE Novel!Fail
  BY <1>4, NovelStops DEF Novel!Fail
<1>5. CASE /\ page \in DOMAIN NextPage \ visited
           /\ visited' = visited \cup {page}
           /\ parts' = IF page \in Blank THEN parts ELSE Append(parts, page)
           /\ page' = IF Novel!FollowUp(<<c, 1>>, NextPage[page]) THEN NextPage[page]
                                                                  ELSE NoPage
           /\ UNCHANGED <<progress, output, npc, list, index, completed, texts>>
  <2> DEFINE v == Append(w, page)
             n == Len(w)
  <2>1. page[1] = c
    <3>1. CASE n = 0
      BY <1>2, <3>1 DEF Ahead
    <3>2. CASE n # 0
      <4>1. page # NoPage
        BY <1>5, ChaptersAssumption DEF Novel!NovelAssumption
      <4>2. Novel!FollowUp(<<c, 1>>, NextPage[w[n]]) /\ page = NextPage[w[n]]
        BY <1>2, <3>2, <4>1 DEF Ahead
      <4>3. QED
        BY <4>2 DEF Novel!FollowUp
    <3>3. QED
      BY <3>1, <3>2
  <2>2. page \in Novel!PagesIn(c)
    BY <1>5, <2>1 DEF Novel!PagesIn
  <2>3. /\ v \in Seq(Novel!PagesIn(c)) /\ Len(v) = n + 1 /\ v[n + 1] = page
        /\ \A i \in 1..n : v[i] = w[i]
    BY <1>3, <2>2, AppendProperties
  <2> HIDE DEF v
  <2>4. \A i \in 1..Len(v) : i \in 1..n \/ i = n + 1
    BY <1>3, <2>3
  <2>5. Chain(c, v)
    <3>1. v[1] = <<c, 1>>
      <4>1. CASE n = 0
        BY <1>2, <2>3, <4>1 DEF Ahead
      <4>2. CASE n # 0
        <5>1. n > 0 /\ 1 \in 1..n
          BY <1>3, <4>2
        <5>2. w[1] = <<c, 1>>
          BY <1>2, <5>1 DEF Chain
        <5>3. QED
          BY <2>3, <5>1, <5>2
      <4>3. QED
        BY <4>1, <4>2
    <3>2. ASSUME NEW i \in 2..Len(v)
          PROVE  Novel!FollowUp(<<c, 1>>, NextPage[v[i - 1]]) /\ v[i] = NextPage[v[i - 1]]
      <4>1. CASE i = n + 1
        <5>1. n # 0 /\ i - 1 = n /\ v[n] = w[n] /\ v[i] = page
          BY <1>3, <2>3, <4>1
        <5>2. page # NoPage
          BY <1>5, ChaptersAssumption DEF Novel!NovelAssumption
        <5>3. Novel!FollowUp(<<c, 1>>, NextPage[w[n]]) /\ page = NextPage[w[n]]
          BY <1>2, <5>1, <5>2 DEF Ahead
        <5>4. QED
          BY <5>1, <5>3
      <4>2. CASE i # n + 1
        <5>1. i \in 2..n /\ i \in 1..n /\ i - 1 \in 1..n
          BY <1>3, <2>3, <4>2
        <5>2. v[i] = w[i] /\ v[i - 1] = w[i - 1]
          BY <2>3, <5>1
        <5>3. QED
          BY <1>2, <5>1, <5>2 DEF Chain
      <4>3. QED
        BY <4>1, <4>2
    <3>3. QED
      BY <2>3, <3>1, <3>2 DEF Chain
  <2>6. page \notin {w[i] : i \in 1..n}
    BY <1>2, <1>5
  <2>7. ASSUME NEW i \in 1..Len(v), NEW j \in 1..Len(v), v[i] = v[j]
        PROVE  i = j
    <3>1. CASE i = n + 1 /\ j = n + 1
      BY <3>1
    <3>2. CASE i = n + 1 /\ j \in 1..n
      BY <2>3, <2>6, <2>7, <3>2
    <3>3. CASE j = n + 1 /\ i \in 1..n
      BY <2>3, <2>6, <2>7, <3>3
    <3>4. CASE i \in 1..n /\ j \in 1..n
      BY <1>2, <2>3, <2>7, <3>4
    <3>5. QED
      BY <2>4, <3>1, <3>2, <3>3, <3>4
  <2>8. visited' = {v[i] : i \in 1..Len(v)}
    <3>1. visited' = {w[i] : i \in 1..n} \cup {page}
      BY <1>2, <1>5
    <3>2. ASSUME NEW p \in {v[i] : i \in 1..Len(v)}
          PROVE  p \in {w[i] : i \in 1..n} \cup {page}
      BY <2>3, <2>4
    <3>3. ASSUME NEW p \in {w[i] : i \in 1..n} \cup {page}
          PROVE  p \in {v[i] : i \in 1..Len(v)}
      <4>1. \A i \in 1..n : i \in 1..Len(v)
        BY <1>3, <2>3
      <4>2. n + 1 \in 1..Len(v)
        BY <1>3, <2>3
      <4>3. QED
        BY <2>3, <4>1, <4>2
    <3>4. QED
      BY <3>1, <3>2, <3>3
  <2>9. parts' = Novel!WithText(v)
    <3>1. Novel!WithText(Append(w, page)) =
            IF page \in Blank THEN Novel!WithText(w) ELSE Append(Novel!WithText(w), page)
      BY <1>3, <2>2, OnePageMore
    <3>2. QED
      BY <1>2, <1>5, <3>1 DEF v
  <2>10. page' = Ahead(c, v)
    BY <1>3, <1>5, <2>3 DEF Ahead
  <2>11. PageOK'
    <3>1. list'[index'] = c
      BY <1>5
    <3> HIDE DEF c
    <3>2. QED
      BY <2>5, <2>7, <2>8, <2>9, <2>10, <3>1 DEF PageOK
  <2>12. LoopOK' /\ ListOK' /\ DoneOK'
    BY <1>1, <1>5 DEF NovelInv, LoopOK, ListOK, DoneOK
  <2>13. AreWhole(progress.done, progress.texts)' /\ AreWhole(completed, texts)'
    BY <1>5 DEF NovelInv, AreWhole
  <2>14. QED
    BY <1>5, <2>11, <2>12, <2>13 DEF NovelInv
<1>6. CASE /\ page = NoPage
           /\ texts' = [d \in DOMAIN texts \cup {c} |-> IF d = c THEN parts ELSE texts[d]]
           /\ completed' = completed \cup {c}
           /\ npc' = "save"
           /\ UNCHANGED <<progress, output, list, index>>
  <2>1. Len(w) > 0
    <3>1. Len(w) # 0
      BY <1>1, <1>2, <1>6, ChaptersAssumption DEF Ahead, Novel!NovelAssumption
    <3>2. QED
      BY <1>3, <3>1
  <2>2. ~Novel!FollowUp(<<c, 1>>, NextPage[w[Len(w)]])
    <3>1. ASSUME Novel!FollowUp(<<c, 1>>, NextPage[w[Len(w)]]) PROVE FALSE
      <4>1. page = NextPage[w[Len(w)]]
        BY <1>2, <2>1, <3>1 DEF Ahead
      <4>2. page # NoPage
        BY <3>1, <4>1 DEF Novel!FollowUp
      <4>3. QED
        BY <1>6, <4>2
    <3>2. QED
      BY <3>1
  <2>3. Novel!Walks(c) # {} /\ parts = Novel!PagesOf(c)
    BY <1>2, <2>1, <2>2, ChainIsWalk
  <2>4. AreWhole(completed, texts)'
    <3> HIDE DEF c
    <3>1. DOMAIN texts' = DOMAIN texts \cup {c}
      BY <1>6
    <3>2. ASSUME NEW d \in DOMAIN texts'
          PROVE  Novel!Walks(d) # {} /\ texts'[d] = Novel!PagesOf(d)
      BY <1>6, <2>3, <3>1 DEF NovelInv, AreWhole
    <3>3. QED
      BY <1>1, <1>6, <3>1, <3>2 DEF NovelInv, AreWhole
  <2>5. AreWhole(progress.done, progress.texts)' /\ ListOK'
    BY <1>6 DEF NovelInv, AreWhole, ListOK
  <2>6. LoopOK'
    BY <1>1, <1>6 DEF NovelInv, LoopOK, AtChapter
  <2>7. PageOK' /\ DoneOK'
    BY <1>6 DEF PageOK, DoneOK
  <2>8. QED
    BY <1>6, <2>4, <2>5, <2>6, <2>7 DEF NovelInv, Novel!Running
<1>7. QED
  BY <1>4, <1>5, <1>6 DEF Novel!FetchPage

\* What is written to progress.json is what the run knows.
LEMMA NovelSaves ==
    ASSUME NovelInv, Novel!OpenProgress \/ Novel!SaveProgress
    PROVE  NovelInv'
<1>1. CASE Novel!OpenProgress
  <2>1. /\ npc = "save" /\ npc' = "saving"
        /\ progress' = [state |-> "half", done |-> {}, texts |-> <<>>]
        /\ UNCHANGED <<output, list, index, completed, texts>>
    BY <1>1 DEF Novel!OpenProgress, Novel!File, Novel!NoTexts
  <2>2. AreWhole(progress.done, progress.texts)'
    BY <2>1 DEF AreWhole
  <2>3. LoopOK'
    BY <2>1 DEF NovelInv, LoopOK, Looping, AtChapter
  <2>4. AreWhole(completed, texts)' /\ ListOK' /\ PageOK' /\ DoneOK'
    BY <2>1 DEF NovelInv, AreWhole, ListOK, PageOK, DoneOK
  <2>5. QED
    BY <2>1, <2>2, <2>3, <2>4 DEF NovelInv, Novel!Running
<1>2. CASE Novel!SaveProgress
  <2>1. /\ npc = "saving" /\ npc' = "write"
        /\ progress' = [state |-> "whole", done |-> completed, texts |-> texts]
        /\ UNCHANGED <<output, list, index, completed, texts>>
    BY <1>2 DEF Novel!SaveProgress, Novel!File
  <2>2. AreWhole(progress.done, progress.texts)'
    BY <2>1 DEF NovelInv, AreWhole
  <2>3. LoopOK'
    BY <2>1 DEF NovelInv, LoopOK, Looping, AtChapter
  <2>4. AreWhole(completed, texts)' /\ ListOK' /\ PageOK' /\ DoneOK'
    BY <2>1 DEF NovelInv, AreWhole, ListOK, PageOK, DoneOK
  <2>5. QED
    BY <2>1, <2>2, <2>3, <2>4 DEF NovelInv, Novel!Running
<1>3. QED
  BY <1>1, <1>2

LEMMA NovelWrites ==
    ASSUME NovelInv, Novel!WriteText
    PROVE  NovelInv'
<1>1. UNCHANGED <<progress, list, completed, texts>> /\ output' = Novel!TextFile
  BY DEF Novel!WriteText
<1>2. /\ ListOK' /\ AreWhole(progress.done, progress.texts)' /\ AreWhole(completed, texts)'
      /\ progress'.state \in {"none", "half", "whole"}
  BY <1>1 DEF NovelInv, ListOK, AreWhole
<1>3. Len(list) \in Nat
  BY LenProperties DEF NovelInv, ListOK
<1>4. CASE npc = "write"
  <2>1. npc' = "loop" /\ index' = index + 1
    BY <1>4 DEF Novel!WriteText
  <2>2. LoopOK'
    BY <1>1, <1>3, <1>4, <2>1 DEF NovelInv, LoopOK, Looping, AtChapter
  <2>3. PageOK' /\ DoneOK'
    BY <2>1 DEF PageOK, DoneOK
  <2>4. QED
    BY <1>2, <2>1, <2>2, <2>3 DEF NovelInv, Novel!Running
<1>5. CASE npc = "last"
  <2>1. npc' = "done" /\ index' = index
    BY <1>5 DEF Novel!WriteText
  <2>2. \A i \in 1..Len(list) : list[i] \in completed
    BY <1>3, <1>5 DEF NovelInv, LoopOK, Looping
  <2>3. (Novel!TextFile)' = Novel!TextFile
    BY <1>1 DEF Novel!TextFile, Novel!At, Novel!Kept, Novel!Has
  <2>4. DoneOK'
    BY <1>1, <2>2, <2>3 DEF DoneOK
  <2>5. LoopOK' /\ PageOK'
    BY <2>1 DEF LoopOK, PageOK, Looping
  <2>6. QED
    BY <1>2, <2>1, <2>4, <2>5 DEF NovelInv
<1>6. QED
  BY <1>4, <1>5 DEF Novel!WriteText

LEMMA NovelStays ==
    ASSUME NovelInv, UNCHANGED novelVars
    PROVE  NovelInv'
<1> USE DEF novelVars
<1>1. (Novel!TextFile)' = Novel!TextFile
  BY DEF Novel!TextFile, Novel!At, Novel!Kept, Novel!Has
<1>2. AreWhole(progress.done, progress.texts)' /\ AreWhole(completed, texts)' /\ ListOK' /\ LoopOK'
  BY DEF NovelInv, AreWhole, ListOK, LoopOK
<1>3. PageOK'
  BY DEF NovelInv, PageOK
<1>4. DoneOK'
  BY <1>1 DEF NovelInv, DoneOK
<1>5. QED
  BY <1>2, <1>3, <1>4 DEF NovelInv

LEMMA NovelStarts == Novel!Init => NovelInv
<1> SUFFICES ASSUME Novel!Init PROVE NovelInv
  OBVIOUS
<1>1. /\ npc = "idle" /\ index = 0 /\ completed = {} /\ texts = <<>> /\ list = <<>>
      /\ progress = [state |-> "none", done |-> {}, texts |-> <<>>]
  BY DEF Novel!Init, Novel!File, Novel!NoTexts
<1>2. ListOK
  BY <1>1 DEF ListOK
<1>3. AreWhole(progress.done, progress.texts) /\ AreWhole(completed, texts)
  BY <1>1 DEF AreWhole
<1>4. LoopOK /\ PageOK /\ DoneOK
  BY <1>1 DEF LoopOK, PageOK, DoneOK, Looping
<1>5. QED
  BY <1>1, <1>2, <1>3, <1>4 DEF NovelInv

LEMMA NovelInvariance == NovelInv /\ [BothNext]_bothVars => NovelInv'
<1> SUFFICES ASSUME NovelInv, [BothNext]_bothVars PROVE NovelInv'
  OBVIOUS
<1>1. CASE UNCHANGED novelVars
  BY <1>1, NovelStays
<1>2. CASE Novel!Next
  <2>1. CASE Novel!Start
    BY <2>1, NovelStops DEF Novel!Start
  <2>2. CASE Novel!Interrupt
    BY <2>2, NovelStops DEF Novel!Interrupt
  <2>3. CASE Novel!FetchDirectory
    BY <2>3, NovelFetchesDirectory
  <2>4. CASE Novel!LoadProgress
    BY <2>4, NovelLoads
  <2>5. CASE Novel!NextChapter
    BY <2>5, NovelNextChapter
  <2>6. CASE Novel!FetchPage
    BY <2>6, NovelFetchesPage
  <2>7. CASE Novel!OpenProgress \/ Novel!SaveProgress
    BY <2>7, NovelSaves
  <2>8. CASE Novel!WriteText
    BY <2>8, NovelWrites
  <2>9. QED
    BY <1>2, <2>1, <2>2, <2>3, <2>4, <2>5, <2>6, <2>7, <2>8 DEF Novel!Next, Novel!Step
<1>3. QED
  BY <1>1, <1>2 DEF BothNext, McuStep, NovelStep, bothVars

(* A chapter in progress.json is the whole of it, later runs keep it, and a *)
(* run that ends well leaves the text of every chapter of its list, once    *)
(* and in order.                                                            *)
THEOREM ChaptersAreKept == BothSpec => []NovelIsKept
<1>1. BothInit => NovelInv
  BY NovelStarts DEF BothInit
<1>2. NovelInv /\ [BothNext]_bothVars => NovelInv'
  BY NovelInvariance
<1>3. NovelInv => NovelIsKept
  BY NovelInvKeeps DEF NovelIsKept
<1>4. QED
  BY <1>1, <1>2, <1>3, PTL DEF BothSpec
=============================================================================
