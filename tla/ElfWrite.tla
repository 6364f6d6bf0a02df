------------------------------ MODULE ElfWrite ------------------------------
(* The parts of ELFIO that arrange what is written: save() laying out the   *)
(* sections and segments of one object that is saved again, or edited       *)
(* between two saves; and a symbol table with the relocations that refer to *)
(* it.  part says which, the variables of the others are not used.          *)
EXTENDS ElfLayout

CONSTANTS
    EditedObjects,  \* the objects that are edited
    EditedSaves, EditedEdits,  \* bounds: their saves and edits
    Names, HashOf, Loaded, NoHash, NoName, Values, Offsets, Addends, Types,
    TypeSpan, InfoSpan, WordBits, MaxSymbols, MaxRelocs                     \* ElfSymbols

VARIABLES
    part,
    syms, info, hash, rela, relocs, stage, first, arranged, answer          \* ElfSymbols

symbolVars == <<syms, info, hash, rela, relocs, stage, first, arranged, answer>>
writeVars == <<part, vars, symbolVars>>

Edited == INSTANCE ElfLayout WITH
    Objects <- EditedObjects, MaxSaves <- EditedSaves, MaxEdits <- EditedEdits
Symbols == INSTANCE ElfSymbols WITH Callback <- TRUE, phase <- stage

ASSUME TablesAssumption == Symbols!SymbolsAssumption /\ Symbols!LoadedAssumption

-----------------------------------------------------------------------------
NoSymbols ==
    /\ syms = <<>> /\ info = 0 /\ hash = NoHash /\ rela = FALSE /\ relocs = <<>>
    /\ stage = "idle" /\ first = 1 /\ arranged = FALSE /\ answer = 0

NullSection ==
    [type |-> "null", size |-> 0, align |-> 0, addr |-> 0, addrSet |-> FALSE,
     offset |-> 0, alloc |-> TRUE, tls |-> FALSE]
NoSegment ==
    [type |-> "phdr", align |-> 4, vaddr |-> 0, filesz |-> 0, memsz |-> 0, offset |-> 0,
     offsetSet |-> FALSE, list |-> <<>>]

NoLayout ==
    /\ sec = [s \in Sections |-> NullSection] /\ seg = [g \in Segments |-> NoSegment]
    /\ phase = "idle" /\ below = FALSE /\ saves = 0 /\ edits = 0
    /\ pos = 0 /\ generated = {} /\ worklist = <<>> /\ ordered = <<>>
    /\ cur = 0 /\ j = 0 /\ start = 0 /\ fsz = 0 /\ msz = 0 /\ table = 0
    /\ home = [s \in Sections |-> 0] /\ before = <<>>

WriteInit ==
    \/ part = "layout" /\ Init /\ NoSymbols
    \/ part = "edit" /\ Edited!Init /\ NoSymbols
    \/ part = "symbols" /\ Symbols!Init /\ NoLayout

LayStep(p, A) == part = p /\ A /\ UNCHANGED <<part, symbolVars>>
SymbolStep(A) == part = "symbols" /\ A /\ UNCHANGED <<part, vars>>

WriteNext ==
    \/ LayStep("layout", Next)
    \/ LayStep("edit", Edited!Next)
    \/ SymbolStep(Symbols!Next)

(* save() and arrange_local_symbols() are single calls: once begun they go  *)
(* on.                                                                      *)
WriteSpec ==
    /\ WriteInit /\ [][WriteNext]_writeVars
    /\ WF_writeVars(LayStep("layout", InSave)) /\ WF_writeVars(LayStep("edit", Edited!InSave))
    /\ WF_writeVars(SymbolStep(Symbols!ArrangeStep))

-----------------------------------------------------------------------------
(* After a save every section of a segment lies within it; saving again     *)
(* moves nothing any more; nested segments come behind those that hold      *)
(* them; and a save is only given up for a section whose address is taken   *)
(* (save(), elfio.hpp).                                                      *)
PlacedRight ==
    /\ part = "layout" => InTheirSegment /\ NestedLater /\ Settles
    /\ part \in {"layout", "edit"} => FailsOnlyIfTaken

(* Relocations refer to the symbol they were made for also between two      *)
(* swaps, the local symbols end up in front, none is lost, and each is      *)
(* found by its name also through an older hash table; what get_entry works *)
(* out for a relocation is kept, and add_symbol returns the symbol's index  *)
(* (elfio_symbols.hpp, elfio_relocation.hpp).                               *)
SymbolsFollow ==
    /\ [](/\ Symbols!TypeOK
         /\ Symbols!RelocsFollow /\ Symbols!NoneLost
         /\ part = "symbols" => Symbols!LocalsFirst /\ Symbols!FoundByName)
    /\ Symbols!CalcKept /\ Symbols!AnswerIsIt

(* A save comes to its end, and so does putting the segments of an edited   *)
(* object in order, whose sections may end up beyond MaxPos; and an         *)
(* arrangement of symbols (elfio.hpp 241, elfio_symbols.hpp 329).           *)
WritesEnd ==
    /\ part = "layout" => SaveEnds
    /\ part = "edit" => OrderEnds
    /\ Symbols!ArrangeEnds
=============================================================================
