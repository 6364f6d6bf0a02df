------------------------------ MODULE ElfData ------------------------------
(* The parts of ELFIO and ARIO that hold what is read from a file and give  *)
(* it back, each in behaviours of its own: a section read at once or        *)
(* lazily, objects with their files, archives, and the accessors of         *)
(* sections that are tables.  part says which, the variables of the others  *)
(* stay as they were constructed.                                           *)
EXTENDS ElfSection, FiniteSets

CONSTANTS
    Objs, DiskFiles, Disk, Missing, NoStream, Texts, LazyModes, MaxParts, MaxSaves,  \* ElfObject
    Given, Targets, Garbage, NoName, Absent, NameLength, SymbolLength, Size,
    MaxMembers, MaxReloads,                                                   \* ArioArchive
    Accs, Tables, Numbers, Entries, Notes, Attributes, Swap, Valueless,
    CountTag, MaxEntries                                                      \* ElfTables

VARIABLES
    part,
    objs, fs, crash, saves,                                                   \* ElfObject
    disk, members, symtab, dir, stream, reading, reloads, owner, saved,       \* ArioArchive
    section, cells, table, accs, call, answer                                 \* ElfTables

objectVars == <<objs, fs, crash, saves>>
archiveVars == <<disk, members, symtab, dir, stream, reading, reloads, owner, saved>>
tableVars == <<section, cells, table, accs, call, answer>>
dataVars == <<part, vars, objectVars, archiveVars, tableVars>>

Object == INSTANCE ElfObject WITH Files <- DiskFiles
Archive == INSTANCE ArioArchive WITH
    Files <- DOMAIN Given, Overwrite <- FALSE, loaded <- reading
Table == INSTANCE ElfTables

ASSUME SectionsAssumption == SectionAssumption
ASSUME ObjectsAssumption == Object!ObjectAssumption
ASSUME ArchiveAssumption == Archive!ArioAssumption

-----------------------------------------------------------------------------
NoTable ==
    /\ section = {} /\ cells = <<>> /\ table = <<>> /\ accs = {}
    /\ call = {} /\ answer = {}

DataInit ==
    /\ part \in {"section", "object", "archive", "table"}
    /\ Init /\ Object!Init /\ Archive!Init
    /\ IF part = "table" THEN Table!Init ELSE NoTable

SectionStep(A) == part = "section" /\ A /\ UNCHANGED <<part, objectVars, archiveVars, tableVars>>
ObjectStep(A) == part = "object" /\ A /\ UNCHANGED <<part, vars, archiveVars, tableVars>>
ArchiveStep(A) == part = "archive" /\ A /\ UNCHANGED <<part, vars, objectVars, tableVars>>
TableStep(A) == part = "table" /\ A /\ UNCHANGED <<part, vars, objectVars, archiveVars>>

DataNext ==
    \/ SectionStep(Next)
    \/ ObjectStep(Object!Next)
    \/ ArchiveStep(Archive!Next)
    \/ TableStep(Table!Next)

DataSpec == DataInit /\ [][DataNext]_dataVars

-----------------------------------------------------------------------------
(* What callers see of a section is bytes somebody gave it, what save()     *)
(* writes is what they see, what they have not edited comes back from the   *)
(* file however often it is freed, and no edit copies through the null      *)
(* pointer (elfio_section.hpp 251-470).                                     *)
SectionKept ==
    part = "section" => TypeOK /\ NoCrash /\ NoJunk /\ StringsStay /\ SavesAll /\ FreeKeeps

(* What get_data() gives is what the file held when it was loaded, all of   *)
(* it from one load, and never from that of another object; and it reads    *)
(* from no stream that is gone.  An object with lazy parts of which it is   *)
(* known that they lost their stream or their place (it was moved, saved,   *)
(* loaded again from a missing file, or its file was saved over) is         *)
(* excepted from the first and the last; whatever is done to an object, the *)
(* others stay right (elfio.hpp 89-260).                                    *)
ObjectReadsRight ==
    part = "object" =>
        /\ Object!TypeOK /\ Object!NoCrash
        /\ Object!ReadsRight /\ Object!OneLoad /\ Object!NotShared

(* An archive that was saved is read back, also by way of an object that    *)
(* held others before; whole, unless its members could not be read when it  *)
(* was saved, which comes only of a load that failed (inside a header or a  *)
(* symbol table); and the symbols lead to the members they were added for,  *)
(* as find_symbol() says (ario.hpp 84-110, 320-362, 587-741).               *)
ArchiveReadsBack ==
    part = "archive" =>
        /\ Archive!TypeOK /\ Archive!HeldWhole /\ Archive!SavedReadsBack
        /\ Archive!FoundIsOwner /\ Archive!LongSymbolsReadBack

(* What an accessor of a table shows was put there, entry by entry, and none *)
(* is missed but by the accessors that keep what they once counted or found, *)
(* when the table grows behind their back (elfio_note.hpp 50-195,           *)
(* elfio_dynamic.hpp 38-285, elfio_array.hpp, elfio_versym.hpp,             *)
(* elfio_modinfo.hpp).                                                      *)
TablesRead == part = "table" => Table!TablesRead

(* A section that is not lazy keeps the promise of ElfBytes through each    *)
(* growth of its buffer: it is set to what a caller or the file gives, and  *)
(* edits open it (elfio_section.hpp 262-372).                               *)
SectionImplements ==
    /\ Abstract!Init
    /\ [][part = "section" /\ ~lazy' => [Abstract!Next]_Content]_dataVars
=============================================================================
