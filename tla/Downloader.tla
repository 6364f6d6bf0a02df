----------------------------- MODULE Downloader -----------------------------
(***************************************************************************)
(* ZPIMcuDownloader (scripts/base_tas.py): log in, choose an archive of the *)
(* version, download it with retries, unpack it and the archives inside it, *)
(* and leave nothing in the output directory but its one MCU*.elf.          *)
(*                                                                         *)
(* A file is [name, what, from]: its name, what it is, and the archive or   *)
(* ELF it holds.  The process may die at any step; the files stay.          *)
(***************************************************************************)
EXTENDS Integers, Sequences, FiniteSets

CONSTANTS
    Versions,    \* the MCU versions asked for
    Catalogs,    \* answers of the server: sequences of archive records
    Members,     \* what an archive holds: archive -> set of files
    Package,     \* the file name the download URL ends in
    OldFiles,    \* what the output directory may hold at the start
    Attempts,    \* retries of a download and of a login (3)
    LengthKnown  \* TRUE: the server sends a Content-Length

ASSUME AttemptsAssumption == Attempts \in Nat \ {0} /\ LengthKnown \in BOOLEAN
ASSUME CatalogsAssumption ==
    \A c \in Catalogs : \A i \in DOMAIN c :
        c[i].id \in DOMAIN Members /\ c[i].size \in Nat

VARIABLES
    dir,      \* files of the output directory
    tree,     \* files below _extract: sets of [dir, name, what, from]
    pc,       \* the step download_mcu is at
    asked,    \* mcu_version
    archive,  \* the archive the URL leads to
    attempt,  \* attempts made
    pending,  \* archives found and not yet unpacked, as paths
    processed,
    found     \* the ELF _find_unique_mcu_elf returned

vars == <<dir, tree, pc, asked, archive, attempt, pending, processed, found>>

Working == {"login", "list", "fetch", "stream", "retry", "clean", "unpack",
            "find", "move", "delete", "replace"}

None == "none"
NoFile == [name |-> "", what |-> "", from |-> None]
File(name, what, from) == [name |-> name, what |-> what, from |-> from]

(* Writing a file replaces the one of that name.                            *)
Write(files, f) == {g \in files : g.name # f.name} \cup {f}
Part == Package \o ".part"
Keep(name) == name \o ".keep"

\* The ELFs are called MCU*.elf, the package and what is nested in it .zip or
\* .tar, so that "out" names no archive.
ASSUME NamesAssumption ==
    /\ Part # Package /\ Package # "out"
    /\ \A a \in DOMAIN Members : \A f \in Members[a] : f.what = "zip" => f.name # "out"
    /\ \A a \in DOMAIN Members : \A f \in Members[a] :
         f.what = "elf" => {f.name, Keep(f.name)} \cap {Part, Package} = {}
    /\ \A files \in OldFiles : \A f \in files :
         f.what = "elf" => f.name \notin {Part, Package}

\* A name stands for one file, and no ELF to start with is a cut one.
ASSUME FilesAssumption ==
    /\ \A files \in OldFiles \cup {Members[a] : a \in DOMAIN Members} :
         /\ \A f, g \in files : f.name = g.name => f = g
         /\ \A f \in files : f.what = "elf" => f.from # "cut"
    /\ None \notin DOMAIN Members
    /\ \A a \in DOMAIN Members : IsFiniteSet(Members[a])

Init ==
    /\ dir \in OldFiles
    /\ tree = {}
    /\ pc = "idle"
    /\ asked \in Versions
    /\ archive = None
    /\ attempt = 0
    /\ pending = <<>>
    /\ processed = {}
    /\ found = NoFile

Raise == pc' = "raised" /\ UNCHANGED <<dir, tree, asked, archive, attempt, pending, processed, found>>
Goto(step) == pc' = step /\ UNCHANGED <<dir, tree, asked, archive, pending, processed, found>>

(* download_mcu: a script, or the next one, asks for a version.             *)
Start ==
    /\ pc \in {"idle", "done", "raised", "dead"}
    /\ asked' \in Versions
    /\ pc' = "login"
    /\ attempt' = 0
    /\ archive' = None
    /\ pending' = <<>>
    /\ processed' = {}
    /\ found' = NoFile
    /\ UNCHANGED <<dir, tree>>

(* _login: a refused token is asked for again, any other error is raised.   *)
Login ==
    /\ pc = "login"
    /\ \/ Goto("list") /\ attempt' = 0
       \/ attempt < Attempts /\ Goto("login") /\ attempt' = attempt + 1
       \/ Raise

-----------------------------------------------------------------------------
(* _get_mcu_archive_url.                                                    *)

\* Faulty: a record of another version is taken for a candidate.
FlattenAny(catalog, version) ==
    {catalog[i] : i \in {j \in DOMAIN catalog : catalog[j].packed}}

(* _flatten_mcu_archives: archives of exactly that version, each once.      *)
Flatten(catalog, version) ==
    {catalog[i] : i \in {j \in DOMAIN catalog :
        catalog[j].version = version /\ catalog[j].packed}}

(* _select_mcu_archive: those marked "mcu", or all; of these the first of   *)
(* the best by base name, no performance configuration, size.               *)
Score(r) == (IF r.base THEN 4 ELSE 0) + (IF r.perf THEN 0 ELSE 2)
Better(r, s) == Score(r) > Score(s) \/ (Score(r) = Score(s) /\ r.size > s.size)
Select(archives) ==
    LET marked == {r \in archives : r.mcu}
        candidates == IF marked = {} THEN archives ELSE marked
    IN  {r \in candidates : \A s \in candidates : ~Better(s, r)}

GetArchiveUrl ==
    /\ pc = "list"
    /\ \/ \E catalog \in Catalogs : \E r \in Select(Flatten(catalog, asked)) :
            /\ archive' = r.id
            /\ attempt' = 1
            /\ pc' = "fetch"
            /\ UNCHANGED <<dir, tree, asked, pending, processed, found>>
       \/ Raise

-----------------------------------------------------------------------------
(* _download_file.                                                          *)

(* The request is answered and the part file opened.                        *)
Fetch ==
    /\ pc = "fetch"
    /\ \/ /\ dir' = Write(dir, File(Part, "short", archive))
          /\ pc' = "stream"
          /\ UNCHANGED <<tree, asked, archive, attempt, pending, processed, found>>
       \/ Goto("retry") /\ UNCHANGED attempt

(* The connection may end early: with a Content-Length that is an error,    *)
(* without one the short file is put in place like a whole one.             *)
Stream ==
    /\ pc = "stream"
    /\ \/ /\ \E what \in IF LengthKnown THEN {"zip"} ELSE {"zip", "short"} :
               dir' = Write({f \in dir : f.name # Part}, File(Package, what, archive))
          /\ pc' = "clean"
          /\ UNCHANGED <<tree, asked, archive, attempt, pending, processed, found>>
       \/ Goto("retry") /\ UNCHANGED attempt

Retry ==
    /\ pc = "retry"
    /\ dir' = {f \in dir : f.name # Part}
    /\ IF attempt < Attempts THEN pc' = "fetch" /\ attempt' = attempt + 1
                             ELSE pc' = "raised" /\ UNCHANGED attempt
    /\ UNCHANGED <<tree, asked, archive, pending, processed, found>>

-----------------------------------------------------------------------------
(* _extract_recursive.  A path below _extract is <<directory, name>>; the   *)
(* directory of an archive is named after its base name alone.              *)

\* Faulty: what an earlier attempt left below _extract stays.
CleanNothing ==
    /\ pc = "clean"
    /\ pending' = <<[dir |-> "out", name |-> Package]>>
    /\ processed' = {}
    /\ pc' = "unpack"
    /\ UNCHANGED <<dir, tree, asked, archive, attempt, found>>

Clean ==
    /\ pc = "clean"
    /\ tree' = {}
    /\ pending' = <<[dir |-> "out", name |-> Package]>>
    /\ processed' = {}
    /\ pc' = "unpack"
    /\ UNCHANGED <<dir, asked, archive, attempt, found>>

\* The file a path leads to.
At(path) ==
    IF path.dir = "out"
      THEN CHOOSE f \in dir : f.name = path.name
      ELSE CHOOSE f \in tree : f.dir = path.dir /\ f.name = path.name

\* What can be read of an archive; nothing of one that was cut off.
Holds(a) == IF a \in DOMAIN Members THEN Members[a] ELSE {}
Below(path, f) == [dir |-> path.name, name |-> f.name, what |-> f.what, from |-> f.from]
WriteBelow(files, news) ==
    {g \in files : ~\E f \in news : f.dir = g.dir /\ f.name = g.name} \cup news

PathsOf(S) == {[dir |-> f.dir, name |-> f.name] : f \in S}
Queues(S) == {q \in [1..Cardinality(S) -> S] : \A i, j \in DOMAIN q : i # j => q[i] # q[j]}

(* One archive.  A short one, or a member with an unsafe path, raises; a    *)
(* short tar may also yield the members before its end.                     *)
Unpack ==
    /\ pc = "unpack" /\ pending # <<>>
    /\ LET path == Head(pending)
           file == At(path)
       IN  \/ /\ path \in processed
              /\ pending' = Tail(pending)
              /\ UNCHANGED <<dir, tree, pc, asked, archive, attempt, processed, found>>
           \/ /\ path \notin processed
              /\ \E members \in SUBSET Holds(file.from) :
                   /\ file.what = "zip" => members = Holds(file.from)
                   /\ LET news == {Below(path, f) : f \in members}
                          walked == {f \in WriteBelow(tree, news) : f.dir = path.name}
                      IN  /\ tree' = WriteBelow(tree, news)
                          /\ \E q \in Queues(PathsOf({f \in walked : f.what = "zip"})) :
                               pending' = Tail(pending) \o q
              /\ processed' = processed \cup {path}
              /\ UNCHANGED <<dir, pc, asked, archive, attempt, found>>
           \/ path \notin processed /\ Raise

UnpackDone ==
    /\ pc = "unpack" /\ pending = <<>>
    /\ Goto("find") /\ UNCHANGED attempt

(* _find_unique_mcu_elf.                                                    *)
FindElf ==
    LET elves == {f \in tree : f.what = "elf"} IN
    /\ pc = "find"
    /\ \/ /\ Cardinality(elves) = 1
          /\ \E f \in elves : found' = File(f.name, "elf", f.from)
          /\ pc' = "move"
          /\ UNCHANGED <<dir, tree, asked, archive, attempt, pending, processed>>
       \/ Cardinality(elves) # 1 /\ Raise

-----------------------------------------------------------------------------
(* _keep_only_target_elf.                                                   *)

\* Faulty: the ELF is moved only after the rest is deleted.
MoveElfLast ==
    /\ pc = "move"
    /\ \E f \in dir : dir' = dir \ {f}
    /\ pc' = IF dir' = {} THEN "delete" ELSE "move"
    /\ UNCHANGED <<tree, asked, archive, attempt, pending, processed, found>>

MoveElf ==
    /\ pc = "move"
    /\ dir' = Write(dir, File(Keep(found.name), "elf", found.from))
    /\ tree' = {f \in tree : f.what # "elf"}
    /\ pc' = "delete"
    /\ UNCHANGED <<asked, archive, attempt, pending, processed, found>>

(* One entry of the directory; _extract goes as a whole.                    *)
DeleteOne ==
    LET rest == {f \in dir : f.name # Keep(found.name)} IN
    /\ pc = "delete"
    /\ \/ \E f \in rest : dir' = dir \ {f} /\ UNCHANGED <<tree, pc>>
       \/ tree # {} /\ tree' = {} /\ UNCHANGED <<dir, pc>>
       \/ rest = {} /\ tree = {} /\ pc' = "replace" /\ UNCHANGED <<dir, tree>>
    /\ UNCHANGED <<asked, archive, attempt, pending, processed, found>>

ReplaceElf ==
    /\ pc = "replace"
    /\ dir' = Write({f \in dir : f.name # Keep(found.name)}, found)
    /\ pc' = "done"
    /\ UNCHANGED <<tree, asked, archive, attempt, pending, processed, found>>

(* The process dies; a file being unpacked may be cut off.                  *)
Crash ==
    /\ pc \in Working
    /\ pc' = "dead"
    /\ \/ UNCHANGED tree
       \/ /\ pc = "unpack" /\ pending # <<>>
          /\ \E f \in Holds(At(Head(pending)).from) :
               tree' = WriteBelow(tree,
                         {[Below(Head(pending), f) EXCEPT !.from = "cut"]})
    /\ UNCHANGED <<dir, asked, archive, attempt, pending, processed, found>>

Step == Login \/ GetArchiveUrl \/ Fetch \/ Stream \/ Retry \/ Clean \/ Unpack
          \/ UnpackDone \/ FindElf \/ MoveElf \/ DeleteOne \/ ReplaceElf

Next == Start \/ Step \/ Crash

Spec == Init /\ [][Next]_vars /\ WF_vars(Step)

-----------------------------------------------------------------------------
Elves == {f \in dir : f.what = "elf"}

TypeOK ==
    /\ \A f, g \in dir : f.name = g.name => f = g
    /\ \A f, g \in tree : (f.dir = g.dir /\ f.name = g.name) => f = g
    /\ pc \in Working \cup {"idle", "done", "raised", "dead"}
    /\ asked \in Versions
    /\ archive \in DOMAIN Members \cup {None}
    /\ attempt \in 0..Attempts

(* The archives inside an archive, at any depth, and the ELFs in them.      *)
Closed(S) == \A a \in S : \A f \in Members[a] : f.from \in DOMAIN Members => f.from \in S
Nested(a) ==
    {b \in DOMAIN Members :
        \A S \in SUBSET DOMAIN Members : a \in S /\ Closed(S) => b \in S}
ElvesIn(a) ==
    UNION {{f.from : f \in {g \in Members[b] : g.what = "elf"}} : b \in Nested(a)}

(* A download that returns leaves one file in the directory, an ELF that is *)
(* in a package of the version asked for, whatever earlier downloads that   *)
(* failed or died had left there (base_tas.py 764, 833-857, 931-949).       *)
LeavesTheElf ==
    pc = "done" =>
        /\ tree = {}
        /\ \E f \in dir : dir = {f} /\ f.what = "elf" /\ f.from \in ElvesIn(archive)
        /\ \E c \in Catalogs : \E i \in DOMAIN c :
             c[i].id = archive /\ c[i].version = asked

(* Once the directory holds an ELF it holds one at every instant, also when *)
(* the process dies anywhere, under its name or with .keep: the new one is  *)
(* in place before the old one is deleted (base_tas.py 939-948).            *)
SomeElfSurvives == [][Elves # {} => Elves' # {}]_vars

(* No part of an ELF that was cut off by a crash ever leaves _extract       *)
(* (base_tas.py 759-762).                                                   *)
NoCutElf == \A f \in dir : f.what = "elf" => f.from # "cut"

(* A download that failed leaves no part file, however it failed            *)
(* (base_tas.py 879).                                                       *)
NoPartLeft == (pc = "raised" /\ archive # None) => \A f \in dir : f.name # Part

(* A download ends unless the process dies: attempts are counted and no     *)
(* path is unpacked twice (base_tas.py 861, 888-894).                       *)
DownloadEnds == (pc \in Working) ~> (pc \in {"done", "raised", "dead"})

(* "找到多个 MCU*.elf" (base_tas.py 928: several MCU*.elf found) is an error:  *)
(* a package that returns an ELF has only one in it.                        *)
SeveralRefused == pc = "done" => Cardinality(ElvesIn(archive)) = 1
=============================================================================
