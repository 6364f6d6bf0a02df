-------------------------- MODULE IndexFilesProofs --------------------------
(***************************************************************************)
(* Proofs about IndexFiles for every set of builds and versions and every   *)
(* bound on the clock, with one program or both.                            *)
(***************************************************************************)
EXTENDS IndexFiles, TLAPS

-----------------------------------------------------------------------------
(* The inductive invariant.                                                 *)

\* No file is newer than the clock.
TimesPassed == elfTime <= clock /\ jsonTime <= clock

\* A resolver call under way holds a build, the current one unless disturbed.
CallKnowsElf ==
    \A p \in Programs :
        /\ step[p] \in {"create", "write"} => built[p] \in Builds
        /\ step[p] \in {"create", "write"} /\ ~disturbed[p] /\ elf # NoFile =>
               built[p] = elf

\* What mtimes say of an unmixed JSON is true.
JsonTimeTells ==
    json \in Builds /\ ~jsonMixed /\ elf # NoFile /\ elfTime <= jsonTime => json = elf

\* load() reads the JSON only if it is no older than the ELF.
ReadIsFresh ==
    step["gui"] = "read" /\ quiet["gui"] /\ elf # NoFile => elfTime <= jsonTime

\* What load() has read stays right until the ELF changes.
EntriesKnowElf ==
    /\ step["gui"] = "handle" => entries \in Builds
    /\ step["gui"] = "handle" /\ quiet["gui"] /\ ~entriesMixed /\ elf # NoFile =>
           entries = elf

\* The same once it has returned; loaded_ is FALSE while it runs.
LoadedKnowsElf ==
    /\ loaded => step["gui"] = "idle"
    /\ loaded /\ quiet["gui"] /\ ~entriesMixed /\ elf # NoFile =>
           entries = elf /\ handle \in {entries, NoFile}

IInv ==
    /\ TypeOK
    /\ TimesPassed
    /\ CallKnowsElf
    /\ JsonTimeTells
    /\ ReadIsFresh
    /\ EntriesKnowElf
    /\ LoadedKnowsElf

-----------------------------------------------------------------------------
LEMMA TypeInit == Init => TypeOK
<1> SUFFICES ASSUME Init PROVE TypeOK
  OBVIOUS
<1>1. step \in [Programs -> Steps]
  BY DEF Init, Steps
<1>2. /\ built \in [Programs -> Builds \cup {NoFile}]
      /\ disturbed \in [Programs -> BOOLEAN]
      /\ quiet \in [Programs -> BOOLEAN]
  BY DEF Init
<1>3. QED
  BY <1>1, <1>2 DEF Init, TypeOK, Contents

LEMMA TypeElf ==
    ASSUME TypeOK, Tick \/ ReplaceElf \/ RemoveElf
    PROVE  TypeOK'
<1>1. CASE Tick
  BY <1>1 DEF Tick, TypeOK, elfVars, jsonVars, genVars, guiVars, pyVars
<1>2. CASE ReplaceElf
  BY <1>2 DEF ReplaceElf, ElfChanged, TypeOK, jsonVars, guiVars, pyVars
<1>3. CASE RemoveElf
  BY <1>3 DEF RemoveElf, ElfChanged, TypeOK, jsonVars, guiVars, pyVars
<1>4. QED
  BY <1>1, <1>2, <1>3

LEMMA TypeGenerate ==
    ASSUME TypeOK, NEW p \in Programs, Generate(p)
    PROVE  TypeOK'
<1>1. CASE ReadElf(p)
  <2>1. step' \in [Programs -> Steps]
    BY <1>1 DEF ReadElf, Goto, TypeOK, Steps
  <2>2. /\ built' \in [Programs -> Builds \cup {NoFile}]
        /\ disturbed' \in [Programs -> BOOLEAN]
    BY <1>1 DEF ReadElf, TypeOK
  <2>3. QED
    BY <1>1, <2>1, <2>2 DEF ReadElf, TypeOK, elfVars, jsonVars, guiVars, pyVars
<1>2. CASE CreateJson(p)
  <2>1. /\ step' \in [Programs -> Steps]
        /\ built' \in [Programs -> Builds \cup {NoFile}]
        /\ disturbed' \in [Programs -> BOOLEAN]
    BY <1>2 DEF CreateJson, Goto, Forget, TypeOK, Steps
  <2>2. /\ json' \in Contents
        /\ jsonVersion' \in Versions \cup {NoVersion}
        /\ jsonTime' \in Nat
    BY <1>2 DEF CreateJson, TypeOK, Contents, jsonVars
  <2>3. jsonMixed' \in BOOLEAN /\ overlap' \in BOOLEAN
    <3>1. CASE UNCHANGED jsonVars
      BY <3>1 DEF TypeOK, jsonVars
    <3>2. CASE jsonMixed' = FALSE /\ overlap' = (step[Other(p)] = "write")
      BY <3>2
    <3>3. QED
      BY <1>2, <3>1, <3>2 DEF CreateJson
  <2>4. QED
    BY <1>2, <2>1, <2>2, <2>3 DEF CreateJson, TypeOK, elfVars, guiVars, pyVars
<1>3. CASE WriteJson(p)
  <2>1. /\ step' \in [Programs -> Steps]
        /\ built' \in [Programs -> Builds \cup {NoFile}]
        /\ disturbed' \in [Programs -> BOOLEAN]
    BY <1>3 DEF WriteJson, AfterWrite, Goto, Forget, TypeOK, Steps
  <2>2. VersionOf(p) \in Versions \cup {NoVersion}
    BY DEF VersionOf, TypeOK
  <2>3. built[p] \in Contents /\ (disturbed[p] \/ overlap) \in BOOLEAN
    BY DEF TypeOK, Contents
  <2>4. /\ json' \in Contents
        /\ jsonVersion' \in Versions \cup {NoVersion}
        /\ jsonTime' \in Nat
        /\ jsonMixed' \in BOOLEAN
    BY <1>3, <2>2, <2>3 DEF WriteJson, TypeOK, Contents
  <2>5. QED
    BY <1>3, <2>1, <2>4 DEF WriteJson, TypeOK, elfVars, guiVars, pyVars
<1>4. QED
  BY <1>1, <1>2, <1>3 DEF Generate

LEMMA TypeGui ==
    ASSUME TypeOK, ClickLoad \/ CheckFresh \/ ParseJson \/ OpenHandle \/ CrashGui
    PROVE  TypeOK'
<1>1. CASE ClickLoad
  BY <1>1 DEF ClickLoad, Goto, TypeOK, Steps, jsonVars, pyVars
<1>2. CASE CheckFresh
  BY <1>2 DEF CheckFresh, Goto, TypeOK, Steps, elfVars, jsonVars, guiVars, pyVars
<1>3. CASE ParseJson
  BY <1>3 DEF ParseJson, Goto, TypeOK, Steps, elfVars, jsonVars, pyVars
<1>4. CASE OpenHandle
  BY <1>4 DEF OpenHandle, Goto, TypeOK, Steps, elfVars, jsonVars, pyVars
<1>5. CASE CrashGui
  BY <1>5 DEF CrashGui, Goto, Forget, TypeOK, Steps, Contents, elfVars, jsonVars, pyVars
<1>6. QED
  BY <1>1, <1>2, <1>3, <1>4, <1>5

LEMMA TypePython ==
    ASSUME TypeOK,
           Prepare \/ LookForElf \/ CompareVersion \/ OpenIndex \/ NewBaseTas
    PROVE  TypeOK'
<1>1. CASE Prepare
  BY <1>1 DEF Prepare, Goto, TypeOK, Steps, jsonVars, guiVars, pyVars
<1>2. CASE LookForElf
  BY <1>2 DEF LookForElf, Goto, TypeOK, Steps, elfVars, jsonVars, guiVars, pyVars
<1>3. CASE CompareVersion
  BY <1>3 DEF CompareVersion, Goto, TypeOK, Steps, elfVars, jsonVars, guiVars, pyVars
<1>4. CASE OpenIndex
  BY <1>4 DEF OpenIndex, Goto, TypeOK, Steps, elfVars, jsonVars, guiVars
<1>5. CASE NewBaseTas
  BY <1>5 DEF NewBaseTas, Goto, Forget, TypeOK, Steps, elfVars, jsonVars, guiVars
<1>6. QED
  BY <1>1, <1>2, <1>3, <1>4, <1>5

LEMMA TypeStep == TypeOK /\ [Next]_vars => TypeOK'
<1> SUFFICES ASSUME TypeOK, [Next]_vars PROVE TypeOK'
  OBVIOUS
<1>1. CASE Tick \/ ReplaceElf \/ RemoveElf
  BY <1>1, TypeElf
<1>2. CASE Gui
  BY <1>2, TypeGenerate, TypeGui DEF Gui, Programs
<1>3. CASE Python
  BY <1>3, TypeGenerate, TypePython DEF Python, Programs
<1>4. CASE UNCHANGED vars
  BY <1>4 DEF vars, TypeOK
<1>5. QED
  BY <1>1, <1>2, <1>3, <1>4 DEF Next

(* Every variable keeps its type; in particular no index or handle in       *)
(* memory is ever that of a JSON cut short.                                 *)
THEOREM TypeCorrect == Spec => []TypeOK
<1>1. QED
  BY TypeInit, TypeStep, PTL DEF Spec

-----------------------------------------------------------------------------
(* The invariant, one action at a time.                                     *)

LEMMA InvInit == Init => IInv
<1> SUFFICES ASSUME Init PROVE IInv
  OBVIOUS
<1>1. \A p \in Programs : step[p] = "idle"
  BY DEF Init
<1>2. TimesPassed /\ JsonTimeTells
  BY NamesAssumption DEF Init, TimesPassed, JsonTimeTells
<1>3. CallKnowsElf
  BY <1>1 DEF CallKnowsElf
<1>4. ReadIsFresh /\ EntriesKnowElf /\ LoadedKnowsElf
  BY <1>1 DEF Init, ReadIsFresh, EntriesKnowElf, LoadedKnowsElf, Programs
<1>5. QED
  BY TypeInit, <1>2, <1>3, <1>4 DEF IInv

\* A changed ELF makes every statement about the old one conditional.
LEMMA ElfInv ==
    ASSUME touch, IInv, Tick \/ ReplaceElf \/ RemoveElf
    PROVE  IInv'
<1>1. TypeOK'
  BY TypeElf DEF IInv
<1>2. CASE Tick
  <2>1. TimesPassed'
    BY <1>2 DEF Tick, IInv, TimesPassed, TypeOK, elfVars, jsonVars
  <2>2. UNCHANGED <<elfVars, jsonVars, genVars, guiVars, pyVars>>
    BY <1>2 DEF Tick
  <2>3. QED
    BY <1>1, <2>1, <2>2 DEF IInv, CallKnowsElf, JsonTimeTells, ReadIsFresh, EntriesKnowElf,
       LoadedKnowsElf, elfVars, jsonVars, genVars, guiVars, pyVars
<1>3. CASE ReplaceElf \/ RemoveElf
  <2>1. /\ UNCHANGED <<jsonVars, step, built, guiVars, pyVars>>
        /\ quiet' = [p \in Programs |-> FALSE]
        /\ disturbed' = [p \in Programs |-> built[p] # NoFile]
    BY <1>3 DEF ReplaceElf, RemoveElf, ElfChanged
  <2>2. quiet'["gui"] = FALSE
    BY <2>1 DEF Programs
  <2>3. TimesPassed' /\ JsonTimeTells'
    <3>1. CASE ReplaceElf
      <4>1. elfTime' = clock + 1 /\ clock' = clock + 1 /\ jsonTime' = jsonTime
        BY <3>1, <2>1 DEF ReplaceElf, jsonVars
      <4>2. QED
        BY <4>1 DEF IInv, TypeOK, TimesPassed, JsonTimeTells
    <3>2. CASE RemoveElf
      BY <3>2 DEF RemoveElf, IInv, TimesPassed, JsonTimeTells, jsonVars
    <3>3. QED
      BY <1>3, <3>1, <3>2
  <2>4. CallKnowsElf'
    <3>1. ASSUME NEW p \in Programs, step'[p] \in {"create", "write"}
          PROVE  built'[p] \in Builds /\ disturbed'[p]
      <4>1. step[p] \in {"create", "write"} /\ built'[p] = built[p]
        BY <3>1, <2>1
      <4>2. built[p] \in Builds
        BY <4>1 DEF IInv, CallKnowsElf
      <4>3. QED
        BY <4>1, <4>2, <2>1, NamesAssumption
    <3>2. QED
      BY <3>1 DEF CallKnowsElf
  <2>5. ReadIsFresh' /\ EntriesKnowElf' /\ LoadedKnowsElf'
    BY <2>1, <2>2 DEF IInv, ReadIsFresh, EntriesKnowElf, LoadedKnowsElf, guiVars
  <2>6. QED
    BY <1>1, <2>3, <2>4, <2>5 DEF IInv
<1>4. QED
  BY <1>2, <1>3

\* A generation by either program, with the GUI's part untouched unless it is
\* the GUI's own.
LEMMA GenerateInv ==
    ASSUME IInv, NEW p \in Programs, Generate(p)
    PROVE  IInv'
<1>1. TypeOK'
  BY TypeGenerate DEF IInv
<1>2. UNCHANGED <<clock, elfVars, guiVars>>
  BY DEF Generate, ReadElf, CreateJson, WriteJson
<1>3. TimesPassed' /\ jsonTime <= jsonTime'
  <2>1. jsonTime' = jsonTime \/ jsonTime' = clock
    BY DEF Generate, ReadElf, CreateJson, WriteJson, jsonVars
  <2>2. QED
    BY <1>2, <2>1 DEF IInv, TypeOK, TimesPassed, elfVars
<1>4. \A q \in Programs : q # p =>
         step'[q] = step[q] /\ built'[q] = built[q] /\ disturbed'[q] = disturbed[q]
  BY DEF Generate, ReadElf, CreateJson, WriteJson, Goto, Forget, IInv, TypeOK, jsonVars
<1>5. CASE ReadElf(p)
  <2>1. UNCHANGED jsonVars
    BY <1>5 DEF ReadElf
  <2>2. JsonTimeTells'
    BY <1>2, <2>1 DEF IInv, JsonTimeTells, elfVars, jsonVars
  <2>3. /\ step[p] = "gen" /\ step'[p] \in {"create", "idle"}
        /\ step'[p] = "create" => built'[p] = elf /\ elf \in Builds
    BY <1>5 DEF ReadElf, Goto, IInv, TypeOK
  <2>4. CallKnowsElf'
    BY <1>2, <1>4, <2>3 DEF IInv, CallKnowsElf, elfVars
  <2>5. ReadIsFresh' /\ EntriesKnowElf' /\ LoadedKnowsElf'
    BY <1>2, <1>4, <2>1, <2>3
       DEF IInv, ReadIsFresh, EntriesKnowElf, LoadedKnowsElf, elfVars, jsonVars, guiVars, Programs
  <2>6. QED
    BY <1>1, <1>3, <2>2, <2>4, <2>5 DEF IInv
<1>6. CASE CreateJson(p)
  <2>1. JsonTimeTells'
    <3>1. json' = Half \/ UNCHANGED jsonVars
      BY <1>6 DEF CreateJson
    <3>2. QED
      BY <1>2, <3>1, NamesAssumption DEF IInv, JsonTimeTells, elfVars, jsonVars
  <2>2. /\ step[p] = "create"
        /\ \/ step'[p] = "write" /\ UNCHANGED <<built, disturbed>>
           \/ step'[p] = "idle"
    BY <1>6 DEF CreateJson, Goto, IInv, TypeOK
  <2>3. CallKnowsElf'
    BY <1>2, <1>4, <2>2 DEF IInv, CallKnowsElf, elfVars
  <2>4. ReadIsFresh' /\ EntriesKnowElf' /\ LoadedKnowsElf'
    <3>1. step'["gui"] = step["gui"]
          \/ (step["gui"] = "create" /\ step'["gui"] \in {"write", "idle"})
      BY <1>4, <2>2 DEF Programs
    <3>2. QED
      <4>1. jsonTime' \in Nat /\ elfTime' = elfTime /\ elf' = elf /\ quiet' = quiet
        BY <1>1, <1>2 DEF TypeOK, elfVars
      <4>2. ReadIsFresh'
        BY <1>3, <3>1, <4>1 DEF IInv, TypeOK, ReadIsFresh
      <4>3. EntriesKnowElf' /\ LoadedKnowsElf'
        BY <1>2, <3>1, <4>1 DEF IInv, EntriesKnowElf, LoadedKnowsElf, guiVars
      <4>4. QED
        BY <4>2, <4>3
  <2>5. QED
    BY <1>1, <1>3, <2>1, <2>3, <2>4 DEF IInv
<1>7. CASE WriteJson(p)
  <2>1. /\ step[p] = "write" /\ step'[p] \in {"read", "open", "idle"}
        /\ jsonTime' = clock
        /\ \/ json' = built[p] /\ jsonMixed' = (disturbed[p] \/ overlap)
           \/ json' = Half
    BY <1>7 DEF WriteJson, Goto, AfterWrite, IInv, TypeOK
  <2>2. JsonTimeTells'
    <3>1. CASE json' = Half
      BY <3>1, NamesAssumption DEF JsonTimeTells
    <3>2. CASE json' = built[p] /\ jsonMixed' = (disturbed[p] \/ overlap)
      <4>1. ~jsonMixed' => ~disturbed[p]
        BY <3>2
      <4>2. ~disturbed[p] /\ elf # NoFile => built[p] = elf
        BY <2>1 DEF IInv, CallKnowsElf
      <4>3. QED
        BY <1>2, <3>2, <4>1, <4>2 DEF JsonTimeTells, elfVars
    <3>3. QED
      BY <2>1, <3>1, <3>2
  <2>3. CallKnowsElf'
    BY <1>2, <1>4, <2>1 DEF IInv, CallKnowsElf, elfVars
  <2>4. ReadIsFresh'
    BY <1>2, <2>1 DEF IInv, TimesPassed, ReadIsFresh, elfVars
  <2>5. EntriesKnowElf' /\ LoadedKnowsElf'
    <3>1. step'["gui"] = step["gui"]
          \/ (step["gui"] = "write" /\ step'["gui"] \in {"read", "open", "idle"})
      BY <1>4, <2>1 DEF Programs
    <3>2. QED
      BY <1>2, <3>1 DEF IInv, EntriesKnowElf, LoadedKnowsElf, elfVars, guiVars
  <2>6. QED
    BY <1>1, <1>3, <2>2, <2>3, <2>4, <2>5 DEF IInv
<1>8. QED
  BY <1>5, <1>6, <1>7 DEF Generate

\* load() outside the resolver.
LEMMA GuiInv ==
    ASSUME IInv, ClickLoad \/ CheckFresh \/ ParseJson \/ OpenHandle \/ CrashGui
    PROVE  IInv'
<1>1. TypeOK'
  BY TypeGui DEF IInv
<1>2. UNCHANGED <<clock, elf, elfTime, jsonVars>>
  BY DEF ClickLoad, CheckFresh, ParseJson, OpenHandle, CrashGui, elfVars
<1>3. TimesPassed' /\ JsonTimeTells'
  BY <1>2 DEF IInv, TimesPassed, JsonTimeTells, jsonVars
<1>4. /\ step'["gui"] \in {"check", "gen", "read", "handle", "idle"}
      /\ \A q \in Programs : q # "gui" =>
           step'[q] = step[q] /\ built'[q] = built[q] /\ disturbed'[q] = disturbed[q]
  BY DEF ClickLoad, CheckFresh, ParseJson, OpenHandle, CrashGui, Goto, Forget, IInv, TypeOK, Programs
<1>5. CallKnowsElf'
  <2>1. ASSUME NEW q \in Programs, step'[q] \in {"create", "write"}
        PROVE  q # "gui"
    BY <1>4, <2>1
  <2>2. QED
    BY <1>2, <1>4, <2>1 DEF IInv, CallKnowsElf
<1>6. ReadIsFresh' /\ EntriesKnowElf' /\ LoadedKnowsElf'
  <2>1. CASE ClickLoad
    <3>1. step'["gui"] = "check" /\ ~loaded'
      BY <2>1 DEF ClickLoad, Goto, IInv, TypeOK, Programs
    <3>2. QED
      BY <3>1 DEF ReadIsFresh, EntriesKnowElf, LoadedKnowsElf
  <2>2. CASE CheckFresh
    <3>1. /\ step["gui"] = "check" /\ step'["gui"] \in {"gen", "read"}
          /\ step'["gui"] = "read" /\ elf # NoFile => ~(jsonTime < elfTime)
          /\ UNCHANGED guiVars
      BY <2>2 DEF CheckFresh, Goto, IInv, TypeOK, Programs
    <3>2. QED
      BY <1>2, <3>1 DEF IInv, TypeOK, ReadIsFresh, EntriesKnowElf, LoadedKnowsElf, guiVars, jsonVars
  <2>3. CASE ParseJson
    <3>1. /\ step["gui"] = "read" /\ step'["gui"] \in {"handle", "idle"}
          /\ step'["gui"] = "handle" => json \in Builds
          /\ UNCHANGED <<quiet, loaded, handle>>
      BY <2>3 DEF ParseJson, Goto, IInv, TypeOK, Programs, elfVars
    <3>2. json \in Builds => entries' = json /\ entriesMixed' = jsonMixed
      BY <2>3, NamesAssumption DEF ParseJson
    <3>3. quiet["gui"] /\ ~jsonMixed /\ elf # NoFile /\ json \in Builds => json = elf
      BY <3>1 DEF IInv, ReadIsFresh, JsonTimeTells
    <3>4. ~loaded'
      BY <3>1 DEF IInv, LoadedKnowsElf
    <3>5. QED
      BY <1>2, <3>1, <3>2, <3>3, <3>4 DEF ReadIsFresh, EntriesKnowElf, LoadedKnowsElf
  <2>4. CASE OpenHandle
    <3>1. /\ step["gui"] = "handle" /\ step'["gui"] = "idle"
          /\ elf # NoFile => handle' \in {elf, NoFile}
          /\ UNCHANGED <<quiet, entries, entriesMixed>>
      BY <2>4 DEF OpenHandle, Goto, IInv, TypeOK, Programs, elfVars
    <3>2. QED
      BY <1>2, <3>1 DEF IInv, ReadIsFresh, EntriesKnowElf, LoadedKnowsElf
  <2>5. CASE CrashGui
    <3>1. step'["gui"] = "idle" /\ ~loaded'
      BY <2>5 DEF CrashGui, Goto, IInv, TypeOK, Programs
    <3>2. QED
      BY <3>1 DEF ReadIsFresh, EntriesKnowElf, LoadedKnowsElf
  <2>6. QED
    BY <2>1, <2>2, <2>3, <2>4, <2>5
<1>7. QED
  BY <1>1, <1>3, <1>5, <1>6 DEF IInv

\* BaseTas outside the resolver.
LEMMA PythonInv ==
    ASSUME IInv, Prepare \/ LookForElf \/ CompareVersion \/ OpenIndex \/ NewBaseTas
    PROVE  IInv'
<1>1. TypeOK'
  BY TypePython DEF IInv
<1>2. UNCHANGED <<clock, elf, elfTime, jsonVars, guiVars>>
  BY DEF Prepare, LookForElf, CompareVersion, OpenIndex, NewBaseTas, elfVars
<1>3. /\ step'["gui"] = step["gui"] /\ built'["gui"] = built["gui"]
      /\ disturbed'["gui"] = disturbed["gui"] /\ quiet'["gui"] = quiet["gui"]
      /\ step'["python"] \in {"look", "compare", "gen", "open", "idle"}
  BY DEF Prepare, LookForElf, CompareVersion, OpenIndex, NewBaseTas, Goto, Forget,
         IInv, TypeOK, Programs, elfVars
<1>4. TimesPassed' /\ JsonTimeTells'
  BY <1>2 DEF IInv, TimesPassed, JsonTimeTells, jsonVars
<1>5. CallKnowsElf'
  BY <1>2, <1>3 DEF IInv, CallKnowsElf, Programs
<1>6. ReadIsFresh' /\ EntriesKnowElf' /\ LoadedKnowsElf'
  BY <1>2, <1>3 DEF IInv, ReadIsFresh, EntriesKnowElf, LoadedKnowsElf, guiVars, jsonVars
<1>7. QED
  BY <1>1, <1>4, <1>5, <1>6 DEF IInv

LEMMA InvStep == touch /\ IInv /\ [Next]_vars => IInv'
<1> SUFFICES ASSUME touch, IInv, [Next]_vars PROVE IInv'
  OBVIOUS
<1>1. CASE Tick \/ ReplaceElf \/ RemoveElf
  BY <1>1, ElfInv
<1>2. CASE Gui
  BY <1>2, GenerateInv, GuiInv DEF Gui, Programs
<1>3. CASE Python
  BY <1>3, GenerateInv, PythonInv DEF Python, Programs
<1>4. CASE UNCHANGED vars
  BY <1>4 DEF vars, IInv, TypeOK, TimesPassed, CallKnowsElf, JsonTimeTells, ReadIsFresh,
              EntriesKnowElf, LoadedKnowsElf
<1>5. QED
  BY <1>1, <1>2, <1>3, <1>4 DEF Next

(* Modification times that are honest (touch) make a quiet, successful load *)
(* current, its handle with it, however many crashes, half files and other  *)
(* programs came before.                                                    *)
THEOREM LoadIsCurrent == Spec => []LoadedIsCurrent
<1>1. (touch => IInv) /\ [Next]_vars => (touch => IInv)'
  BY InvStep DEF Next, vars
<1>2. (touch => IInv) => LoadedIsCurrent
  BY DEF IInv, LoadedKnowsElf, LoadedIsCurrent
<1>3. QED
  BY InvInit, <1>1, <1>2, PTL DEF Spec

-----------------------------------------------------------------------------
(* One program on its own.                                                  *)

\* The other program is not there to overlap with.
Alone(p) == step[Other(p)] = "idle" /\ ~overlap

LEMMA AloneStep ==
    ASSUME NEW p \in Programs, procs = {p}, TypeOK, Alone(p), [Next]_vars
    PROVE  Alone(p)'
<1>1. Other(p) \in Programs /\ Other(p) # p /\ Other(Other(p)) = p
  BY DEF Programs, Other
<1>2. CASE Tick \/ ReplaceElf \/ RemoveElf \/ UNCHANGED vars
  BY <1>2 DEF Tick, ReplaceElf, RemoveElf, vars, genVars, jsonVars, Alone
<1>3. CASE p = "gui" /\ Gui
  <2>1. step'["python"] = step["python"]
    BY <1>3 DEF Gui, Generate, ReadElf, CreateJson, WriteJson, ClickLoad, CheckFresh,
                ParseJson, OpenHandle, CrashGui, Goto, TypeOK, Programs
  <2>2. overlap' => overlap \/ step["python"] = "write"
    BY <1>3 DEF Gui, Generate, ReadElf, CreateJson, WriteJson, ClickLoad, CheckFresh,
                ParseJson, OpenHandle, CrashGui, Other, jsonVars
  <2>3. QED
    <3>1. Other(p) = "python"
      BY <1>3 DEF Other
    <3>2. QED
      BY <2>1, <2>2, <3>1 DEF Alone
<1>4. CASE p = "python" /\ Python
  <2>1. step'["gui"] = step["gui"]
    BY <1>4 DEF Python, Generate, ReadElf, CreateJson, WriteJson, Prepare, LookForElf,
                CompareVersion, OpenIndex, NewBaseTas, Goto, TypeOK, Programs
  <2>2. overlap' => overlap \/ step["gui"] = "write"
    BY <1>4 DEF Python, Generate, ReadElf, CreateJson, WriteJson, Prepare, LookForElf,
                CompareVersion, OpenIndex, NewBaseTas, Other, jsonVars
  <2>3. QED
    <3>1. Other(p) = "gui"
      BY <1>4 DEF Other
    <3>2. QED
      BY <2>1, <2>2, <3>1 DEF Alone
<1>5. QED
  BY <1>2, <1>3, <1>4 DEF Next

\* What Python compared and wrote still stands when it opens the JSON.
PythonInv2 ==
    /\ TypeOK
    /\ Alone("python")
    /\ step["python"] \in {"create", "write"} => built["python"] \in Builds
    /\ OpenFindsAsked

LEMMA PythonAloneStep ==
    ASSUME procs = {"python"}, PythonInv2, [Next]_vars
    PROVE  PythonInv2'
<1>1. TypeOK' /\ Alone("python")'
  BY TypeStep, AloneStep DEF PythonInv2, Programs
<1>2. CASE Tick
  BY <1>1, <1>2 DEF Tick, PythonInv2, OpenFindsAsked, elfVars, jsonVars, genVars, pyVars
<1>3. CASE ReplaceElf \/ RemoveElf
  <2>1. quiet'["python"] = FALSE /\ UNCHANGED <<step, built>>
    BY <1>3 DEF ReplaceElf, RemoveElf, ElfChanged, Programs
  <2>2. QED
    BY <1>1, <2>1 DEF PythonInv2, OpenFindsAsked
<1>4. CASE ReadElf("python")
  <2>1. \/ step'["python"] = "create" /\ built'["python"] \in Builds
        \/ step'["python"] = "idle"
    BY <1>4 DEF ReadElf, Goto, PythonInv2, TypeOK, Programs
  <2>2. QED
    BY <1>1, <2>1 DEF PythonInv2, OpenFindsAsked
<1>5. CASE CreateJson("python")
  <2>1. \/ step'["python"] = "write" /\ UNCHANGED built
        \/ step'["python"] = "idle"
    BY <1>5 DEF CreateJson, Goto, PythonInv2, TypeOK, Programs
  <2>2. step["python"] = "create"
    BY <1>5 DEF CreateJson
  <2>3. QED
    BY <1>1, <2>1, <2>2 DEF PythonInv2, OpenFindsAsked
<1>6. CASE WriteJson("python")
  <2>1. /\ step["python"] = "write"
        /\ \/ /\ json' = built["python"] /\ jsonVersion' = asked /\ asked' = asked
              /\ step'["python"] = "open"
           \/ step'["python"] = "idle"
    BY <1>6 DEF WriteJson, VersionOf, AfterWrite, Goto, PythonInv2, Alone, TypeOK, Programs, pyVars
  <2>2. QED
    BY <1>1, <2>1 DEF PythonInv2, OpenFindsAsked
<1>7. CASE Prepare
  <2>1. step'["python"] = "look"
    BY <1>7 DEF Prepare, Goto, PythonInv2, TypeOK, Programs
  <2>2. QED
    BY <1>1, <2>1 DEF PythonInv2, OpenFindsAsked
<1>8. CASE LookForElf
  <2>1. /\ step'["python"] \in {"open", "compare"}
        /\ step'["python"] = "open" => elf' = NoFile
    BY <1>8 DEF LookForElf, Goto, PythonInv2, TypeOK, Programs, elfVars
  <2>2. QED
    BY <1>1, <2>1 DEF PythonInv2, OpenFindsAsked
<1>9. CASE CompareVersion
  <2>1. /\ step'["python"] \in {"open", "gen"}
        /\ step'["python"] = "open" => VersionFound = asked
        /\ UNCHANGED <<json, jsonVersion, asked>>
    BY <1>9 DEF CompareVersion, Goto, PythonInv2, TypeOK, Programs, jsonVars, pyVars
  <2>2. QED
    BY <1>1, <2>1 DEF PythonInv2, OpenFindsAsked, VersionFound
<1>10. CASE OpenIndex \/ NewBaseTas
  <2>1. step'["python"] = "idle"
    BY <1>10 DEF OpenIndex, NewBaseTas, Goto, PythonInv2, TypeOK, Programs
  <2>2. QED
    BY <1>1, <2>1 DEF PythonInv2, OpenFindsAsked
<1>11. CASE UNCHANGED vars
  BY <1>1, <1>11 DEF vars, PythonInv2, OpenFindsAsked
<1>12. QED
  BY <1>2, <1>3, <1>4, <1>5, <1>6, <1>7, <1>8, <1>9, <1>10, <1>11
     DEF Next, Python, Generate

(* BaseTas on its own recovers from any crash or full disk: with a version  *)
(* and an ELF that stays, it opens a whole JSON of that version or raises   *)
(* before it opens one.                                                     *)
THEOREM PythonFindsAsked == Spec => []OpenFindsAsked
<1>1. Init => PythonInv2
  BY TypeInit DEF Init, PythonInv2, Alone, Other, OpenFindsAsked, Programs
<1>2. (procs = {"python"} => PythonInv2) /\ [Next]_vars => (procs = {"python"} => PythonInv2)'
  BY PythonAloneStep DEF Next, vars
<1>3. (procs = {"python"} => PythonInv2) => OpenFindsAsked
  BY DEF PythonInv2, OpenFindsAsked
<1>4. QED
  BY <1>1, <1>2, <1>3, PTL DEF Spec

\* In a call that nothing disturbs, the resolver's build is the ELF's.
GuiInv2 ==
    /\ TypeOK
    /\ Alone("gui")
    /\ step["gui"] \in {"create", "write"} /\ quiet["gui"] => built["gui"] = elf
    /\ ForceReadsCurrent

LEMMA GuiAloneStep ==
    ASSUME procs = {"gui"}, GuiInv2, [Next]_vars
    PROVE  GuiInv2'
<1>1. TypeOK' /\ Alone("gui")'
  BY TypeStep, AloneStep DEF GuiInv2, Programs
<1>2. CASE Tick \/ UNCHANGED vars
  BY <1>1, <1>2 DEF Tick, vars, GuiInv2, ForceReadsCurrent, elfVars, jsonVars, genVars, guiVars
<1>3. CASE ReplaceElf \/ RemoveElf
  <2>1. quiet'["gui"] = FALSE
    BY <1>3 DEF ReplaceElf, RemoveElf, ElfChanged, Programs
  <2>2. QED
    BY <1>1, <2>1 DEF GuiInv2, ForceReadsCurrent
<1>4. CASE ReadElf("gui")
  <2>1. \/ step'["gui"] = "create" /\ built'["gui"] = elf'
        \/ step'["gui"] = "idle"
    BY <1>4 DEF ReadElf, Goto, GuiInv2, TypeOK, Programs, elfVars
  <2>2. QED
    BY <1>1, <2>1 DEF GuiInv2, ForceReadsCurrent
<1>5. CASE CreateJson("gui")
  <2>1. /\ step["gui"] = "create"
        /\ \/ step'["gui"] = "write" /\ UNCHANGED built
           \/ step'["gui"] = "idle"
        /\ UNCHANGED <<elf, quiet>>
    BY <1>5 DEF CreateJson, Goto, GuiInv2, TypeOK, Programs, elfVars
  <2>2. QED
    BY <1>1, <2>1 DEF GuiInv2, ForceReadsCurrent
<1>6. CASE WriteJson("gui")
  <2>1. /\ step["gui"] = "write"
        /\ \/ json' = built["gui"] /\ step'["gui"] = "read"
           \/ step'["gui"] = "idle"
        /\ UNCHANGED <<elf, quiet>>
    BY <1>6 DEF WriteJson, AfterWrite, Goto, GuiInv2, Alone, TypeOK, Programs, elfVars
  <2>2. QED
    BY <1>1, <2>1 DEF GuiInv2, ForceReadsCurrent
<1>7. CASE CheckFresh
  <2>1. /\ step'["gui"] \in {"gen", "read"}
        /\ step'["gui"] = "read" => ~force
        /\ force' = force
    BY <1>7 DEF CheckFresh, Goto, GuiInv2, TypeOK, Programs, guiVars
  <2>2. QED
    BY <1>1, <2>1 DEF GuiInv2, ForceReadsCurrent
<1>8. CASE ClickLoad \/ ParseJson \/ OpenHandle \/ CrashGui
  <2>1. step'["gui"] \in {"check", "handle", "idle"}
    BY <1>8 DEF ClickLoad, ParseJson, OpenHandle, CrashGui, Goto, GuiInv2, TypeOK, Programs
  <2>2. QED
    BY <1>1, <2>1 DEF GuiInv2, ForceReadsCurrent
<1>9. QED
  BY <1>2, <1>3, <1>4, <1>5, <1>6, <1>7, <1>8 DEF Next, Gui, Generate

(* The GUI on its own: whatever a crash or a full disk left on disk, "Force *)
(* regen" reads a JSON of the ELF that is there.                            *)
THEOREM ForceRecovers == Spec => []ForceReadsCurrent
<1>1. Init => GuiInv2
  BY TypeInit DEF Init, GuiInv2, Alone, Other, ForceReadsCurrent, Programs
<1>2. (procs = {"gui"} => GuiInv2) /\ [Next]_vars => (procs = {"gui"} => GuiInv2)'
  BY GuiAloneStep DEF Next, vars
<1>3. (procs = {"gui"} => GuiInv2) => ForceReadsCurrent
  BY DEF GuiInv2, ForceReadsCurrent
<1>4. QED
  BY <1>1, <1>2, <1>3, PTL DEF Spec
=============================================================================
