----------------------------- MODULE IndexFiles -----------------------------
(***************************************************************************)
(* The ELF and its member-index JSON on disk, and the two programs that     *)
(* keep the JSON: ElfIndex::load of the GUI (TasGui/src/elf_index.cpp) and  *)
(* prepare_index of BaseTas (scripts/base_tas.py), both through             *)
(* write_member_index_json (cpp/tc397_elfio_resolver.cpp), which truncates  *)
(* the JSON and writes it in place.  Both default to the same paths.        *)
(*                                                                         *)
(* The content of an ELF is the build it comes from, that of a JSON the     *)
(* build it was generated from, or Half if it does not parse.  A read of a  *)
(* file is one step; a write is two, and a crash may come between.          *)
(***************************************************************************)
EXTENDS Naturals

CONSTANTS
    Builds,      \* the builds of the firmware
    Versions,    \* MCU version names
    NoFile,      \* no such file; no index, no handle in memory
    Half,        \* a JSON cut short
    NoVersion,   \* null
    Settings,    \* the settings looked at: values of procs and touch
    MaxClock     \* bound on the clock, by the programs that run

ASSUME NamesAssumption ==
    /\ NoFile \notin Builds \cup {Half}
    /\ Half \notin Builds
    /\ NoVersion \notin Versions
ASSUME SettingsAssumption ==
    Settings \subseteq [procs: SUBSET {"gui", "python"}, touch: BOOLEAN]
ASSUME ClockAssumption == MaxClock \in [SUBSET {"gui", "python"} -> Nat]

VARIABLES
    procs,        \* the programs that run: "gui", "python" or both
    touch,        \* a new ELF is newer than anything written before it
    clock,        \* whole seconds
    elf,          \* the build in the ELF file
    elfTime,      \* its modification time
    json,         \* the build indexed by the JSON file
    jsonVersion,  \* its mcu_version
    jsonTime,     \* its modification time
    jsonMixed,    \* it does not come from one undisturbed generation
    overlap,      \* two writers have had the JSON open at once
    step,         \* the step each program is at
    built,        \* the build the resolver call under way has read
    disturbed,    \* the ELF has changed since that read
    quiet,        \* the ELF has not changed since the program's call began
    force,        \* load()'s force_regen
    loaded,       \* loaded_
    entries,      \* entries_, as the build they come from
    entriesMixed, \* jsonMixed when they were read
    handle,       \* the build handle_ was opened on
    asked,        \* BaseTas.mcu_version
    index,        \* BaseTas.index, as the build it comes from
    indexVersion  \* mcu_version of that JSON

elfVars == <<elf, elfTime, quiet>>
jsonVars == <<json, jsonVersion, jsonTime, jsonMixed, overlap>>
genVars == <<step, built, disturbed>>
guiVars == <<force, loaded, entries, entriesMixed, handle>>
pyVars == <<asked, index, indexVersion>>
vars == <<procs, touch, clock, elf, elfTime, quiet, json, jsonVersion, jsonTime, jsonMixed,
          overlap, step, built, disturbed, force, loaded, entries,
          entriesMixed, handle, asked, index, indexVersion>>

Programs == {"gui", "python"}
Steps == {"idle", "check", "look", "compare", "gen", "create", "write",
          "read", "open", "handle"}
Contents == Builds \cup {NoFile, Half}

Other(p) == IF p = "gui" THEN "python" ELSE "gui"

Init ==
    /\ \E s \in Settings : procs = s.procs /\ touch = s.touch
    /\ clock = 0
    /\ elf \in Builds \cup {NoFile}
    /\ elfTime = 0
    /\ json = NoFile
    /\ jsonVersion = NoVersion
    /\ jsonTime = 0
    /\ jsonMixed = FALSE
    /\ overlap = FALSE
    /\ step = [p \in Programs |-> "idle"]
    /\ built = [p \in Programs |-> NoFile]
    /\ disturbed = [p \in Programs |-> FALSE]
    /\ quiet = [p \in Programs |-> TRUE]
    /\ force = FALSE
    /\ loaded = FALSE
    /\ entries = NoFile
    /\ entriesMixed = FALSE
    /\ handle = NoFile
    /\ asked \in Versions \cup {NoVersion}
    /\ index = NoFile
    /\ indexVersion = NoVersion

Goto(p, s) == step' = [step EXCEPT ![p] = s]

\* The resolver call is over.
Forget(p) ==
    /\ built' = [built EXCEPT ![p] = NoFile]
    /\ disturbed' = [disturbed EXCEPT ![p] = FALSE]

-----------------------------------------------------------------------------
(* Time, and the firmware build, which replaces or removes the ELF.         *)

Tick ==
    /\ clock < MaxClock[procs]
    /\ clock' = clock + 1
    /\ UNCHANGED <<elfVars, jsonVars, genVars, guiVars, pyVars>>

ElfChanged ==
    /\ quiet' = [p \in Programs |-> FALSE]
    /\ disturbed' = [p \in Programs |-> built[p] # NoFile]

(* A copy or an extracted archive may carry an older time (~touch).         *)
ReplaceElf ==
    /\ \E b \in Builds : elf' = b
    /\ \/ touch /\ clock < MaxClock[procs] /\ clock' = clock + 1 /\ elfTime' = clock + 1
       \/ ~touch /\ elfTime' \in 0..clock /\ UNCHANGED clock
    /\ ElfChanged
    /\ UNCHANGED <<jsonVars, step, built, guiVars, pyVars>>

RemoveElf ==
    /\ elf # NoFile
    /\ elf' = NoFile
    /\ ElfChanged
    /\ UNCHANGED <<clock, elfTime, jsonVars, step, built, guiVars, pyVars>>

-----------------------------------------------------------------------------
(* write_member_index_json, called by either program.                       *)

(* The resolver reads the whole ELF; or there is none, or it has no DWARF.  *)
ReadElf(p) ==
    /\ step[p] = "gen"
    /\ \/ /\ elf # NoFile
          /\ built' = [built EXCEPT ![p] = elf]
          /\ disturbed' = [disturbed EXCEPT ![p] = FALSE]
          /\ Goto(p, "create")
       \/ Goto(p, "idle") /\ UNCHANGED <<built, disturbed>>
    /\ UNCHANGED <<clock, elfVars, jsonVars, guiVars, pyVars>>

VersionOf(p) == IF p = "gui" THEN NoVersion ELSE asked

(* The ofstream truncates the file; or it cannot be opened.                 *)
CreateJson(p) ==
    /\ step[p] = "create"
    /\ \/ /\ json' = Half
          /\ jsonVersion' = NoVersion
          /\ jsonTime' = clock
          /\ jsonMixed' = FALSE
          /\ overlap' = (step[Other(p)] = "write")
          /\ Goto(p, "write")
          /\ UNCHANGED <<built, disturbed>>
       \/ Goto(p, "idle") /\ Forget(p) /\ UNCHANGED jsonVars
    /\ UNCHANGED <<clock, elfVars, guiVars, pyVars>>

AfterWrite(p) == IF p = "gui" THEN "read" ELSE "open"

(* The text is written; or the disk is full and the file stays short.  Two  *)
(* writers leave what they happen to leave.                                 *)
WriteJson(p) ==
    /\ step[p] = "write"
    /\ jsonTime' = clock
    /\ \/ /\ json' = built[p]
          /\ jsonVersion' = VersionOf(p)
          /\ jsonMixed' = (disturbed[p] \/ overlap)
          /\ Goto(p, AfterWrite(p))
       \/ /\ json' = Half
          /\ jsonVersion' = NoVersion
          /\ Goto(p, "idle")
          /\ UNCHANGED jsonMixed
       \/ /\ overlap
          /\ json' = Half
          /\ jsonVersion' = NoVersion
          /\ Goto(p, AfterWrite(p))
          /\ UNCHANGED jsonMixed
    /\ Forget(p)
    /\ UNCHANGED <<clock, elfVars, overlap, guiVars, pyVars>>

Generate(p) == ReadElf(p) \/ CreateJson(p) \/ WriteJson(p)

-----------------------------------------------------------------------------
(* ElfIndex::load.                                                          *)

ClickLoad ==
    /\ step["gui"] = "idle"
    /\ \E f \in BOOLEAN : force' = f
    /\ loaded' = FALSE
    /\ quiet' = [quiet EXCEPT !["gui"] = TRUE]
    /\ Goto("gui", "check")
    /\ UNCHANGED <<clock, elf, elfTime, jsonVars, built, disturbed, entries,
                   entriesMixed, handle, pyVars>>

\* Faulty: an older JSON is taken for the newer one; force is an afterthought.
CheckFreshSwapped ==
    /\ step["gui"] = "check"
    /\ Goto("gui", IF force \/ json = NoFile \/ (elf # NoFile /\ elfTime < jsonTime)
                     THEN "gen" ELSE "read")
    /\ UNCHANGED <<clock, elfVars, jsonVars, built, disturbed, guiVars, pyVars>>
CheckFreshUnforced ==
    /\ step["gui"] = "check"
    /\ Goto("gui", IF json = NoFile \/ (elf # NoFile /\ jsonTime < elfTime)
                     THEN "gen" ELSE "read")
    /\ UNCHANGED <<clock, elfVars, jsonVars, built, disturbed, guiVars, pyVars>>

CheckFresh ==
    /\ step["gui"] = "check"
    /\ Goto("gui", IF \/ force
                      \/ json = NoFile
                      \/ elf # NoFile /\ jsonTime < elfTime
                     THEN "gen" ELSE "read")
    /\ UNCHANGED <<clock, elfVars, jsonVars, built, disturbed, guiVars, pyVars>>

(* A text that does not parse leaves the entries read so far behind.        *)
ParseJson ==
    /\ step["gui"] = "read"
    /\ IF json = NoFile
         THEN UNCHANGED <<entries, entriesMixed>>
         ELSE entries' = json /\ entriesMixed' = jsonMixed
    /\ Goto("gui", IF json \in Builds THEN "handle" ELSE "idle")
    /\ UNCHANGED <<clock, elfVars, jsonVars, built, disturbed, force, loaded,
                   handle, pyVars>>

(* The handle is replaced only if there is an ELF to open.                  *)
OpenHandle ==
    /\ step["gui"] = "handle"
    /\ handle' \in IF elf # NoFile THEN {elf, NoFile} ELSE {handle}
    /\ loaded' = TRUE
    /\ Goto("gui", "idle")
    /\ UNCHANGED <<clock, elfVars, jsonVars, built, disturbed, force, entries,
                   entriesMixed, pyVars>>

(* The GUI dies, and comes back with nothing in memory.                     *)
CrashGui ==
    /\ Goto("gui", "idle")
    /\ loaded' = FALSE
    /\ entries' = NoFile
    /\ entriesMixed' = FALSE
    /\ handle' = NoFile
    /\ force' = FALSE
    /\ Forget("gui")
    /\ UNCHANGED <<clock, elfVars, jsonVars, pyVars>>

Gui ==
    \/ Generate("gui")
    \/ ClickLoad \/ CheckFresh \/ ParseJson \/ OpenHandle \/ CrashGui

-----------------------------------------------------------------------------
(* BaseTas.prepare_index.                                                   *)

(* resolve_variable on an object without an index, or prepare_index itself. *)
Prepare ==
    /\ step["python"] = "idle"
    /\ quiet' = [quiet EXCEPT !["python"] = TRUE]
    /\ Goto("python", "look")
    /\ UNCHANGED <<clock, elf, elfTime, jsonVars, built, disturbed, guiVars, pyVars>>

(* Without an ELF, a usable JSON will do.                                   *)
LookForElf ==
    /\ step["python"] = "look"
    /\ Goto("python", IF elf = NoFile /\ json \in Builds THEN "open" ELSE "compare")
    /\ UNCHANGED <<clock, elfVars, jsonVars, built, disturbed, guiVars, pyVars>>

(* A JSON that is missing or does not parse has the version None.           *)
VersionFound == IF json \in Builds THEN jsonVersion ELSE NoVersion

\* Faulty: only the existence of the JSON counts.
CompareExistence ==
    /\ step["python"] = "compare"
    /\ Goto("python", IF json = NoFile THEN "gen" ELSE "open")
    /\ UNCHANGED <<clock, elfVars, jsonVars, built, disturbed, guiVars, pyVars>>

CompareVersion ==
    /\ step["python"] = "compare"
    /\ Goto("python", IF VersionFound # asked THEN "gen" ELSE "open")
    /\ UNCHANGED <<clock, elfVars, jsonVars, built, disturbed, guiVars, pyVars>>

(* VariableIndex opens the JSON, or raises.                                 *)
OpenIndex ==
    /\ step["python"] = "open"
    /\ IF json \in Builds
         THEN index' = json /\ indexVersion' = jsonVersion
         ELSE UNCHANGED <<index, indexVersion>>
    /\ Goto("python", "idle")
    /\ UNCHANGED <<clock, elfVars, jsonVars, built, disturbed, guiVars, asked>>

(* The script dies at any step; the next one asks for a version of its own. *)
NewBaseTas ==
    /\ Goto("python", "idle")
    /\ asked' \in Versions \cup {NoVersion}
    /\ index' = NoFile
    /\ indexVersion' = NoVersion
    /\ Forget("python")
    /\ UNCHANGED <<clock, elfVars, jsonVars, guiVars>>

Python ==
    \/ Generate("python")
    \/ Prepare \/ LookForElf \/ CompareVersion \/ OpenIndex \/ NewBaseTas

-----------------------------------------------------------------------------
Next ==
    /\ UNCHANGED <<procs, touch>>
    /\ \/ Tick
       \/ ReplaceElf
       \/ RemoveElf
       \/ "gui" \in procs /\ Gui
       \/ "python" \in procs /\ Python

Spec == Init /\ [][Next]_vars

-----------------------------------------------------------------------------
\* Besides procs and touch, which no step changes.
TypeOK ==
    /\ clock \in Nat
    /\ elf \in Builds \cup {NoFile}
    /\ elfTime \in Nat
    /\ json \in Contents
    /\ jsonVersion \in Versions \cup {NoVersion}
    /\ jsonTime \in Nat
    /\ jsonMixed \in BOOLEAN
    /\ overlap \in BOOLEAN
    /\ step \in [Programs -> Steps]
    /\ built \in [Programs -> Builds \cup {NoFile}]
    /\ disturbed \in [Programs -> BOOLEAN]
    /\ quiet \in [Programs -> BOOLEAN]
    /\ force \in BOOLEAN
    /\ loaded \in BOOLEAN
    /\ entries \in Contents
    /\ entriesMixed \in BOOLEAN
    /\ handle \in Builds \cup {NoFile}
    /\ asked \in Versions \cup {NoVersion}
    /\ index \in Builds \cup {NoFile}
    /\ indexVersion \in Versions \cup {NoVersion}

(* Where a new ELF is newer than everything before it, a load that reports  *)
(* success has the entries of the ELF that is there, and a handle on it if   *)
(* any, so that table and live lookups speak of the same firmware; unless    *)
(* the ELF changed while the load ran or while its JSON was being generated, *)
(* or two programs wrote the JSON at once (elf_index.cpp 241-275).           *)
LoadedIsCurrent ==
    touch /\ loaded /\ quiet["gui"] /\ ~entriesMixed /\ elf # NoFile =>
        entries = elf /\ handle \in {entries, NoFile}

(* With no script on the same files, "Force regen" gets to read the JSON     *)
(* only with a whole and current one in place, whatever a crash or a full    *)
(* disk left there (elf_index.cpp 241).                                      *)
ForceReadsCurrent ==
    procs = {"gui"} /\ step["gui"] = "read" /\ force /\ quiet["gui"] => json = elf

(* With a version and no GUI on the same files, prepare_index opens a JSON  *)
(* that parses and carries that version, whatever a crash left on disk      *)
(* (base_tas.py 434-440).                                                   *)
OpenFindsAsked ==
    /\ procs = {"python"} /\ quiet["python"] /\ elf # NoFile
    /\ step["python"] = "open" /\ asked # NoVersion
    => json \in Builds /\ jsonVersion = asked

(* With an ELF there, prepare_index opens a JSON that parses (base_tas.py   *)
(* 5: "call scripts/libtc397_elfio_resolver.so to generate MCU_A.json from  *)
(* ELF").                                                                   *)
OpenFindsIndex ==
    step["python"] = "open" /\ quiet["python"] /\ elf # NoFile => json \in Builds

(* With an ELF there, what prepare_index opens was generated from it        *)
(* (base_tas.py 6: "regenerate JSON when it does not match the ELF or is    *)
(* older than the ELF").                                                    *)
OpenFindsCurrent ==
    step["python"] = "open" /\ quiet["python"] /\ elf # NoFile /\ json \in Builds =>
        json = elf
=============================================================================
