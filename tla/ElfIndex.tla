------------------------------ MODULE ElfIndex ------------------------------
(***************************************************************************)
(* ElfIndex::load as the rest of the GUI sees it: what it does to the       *)
(* entries in memory and to loaded(), step by step, on a worker thread.     *)
(* (TasGui/src/elf_index.cpp.  What it decides from the files on disk is    *)
(* the subject of IndexFiles.)                                              *)
(*                                                                         *)
(* An entry is a member of Names: what a filter text can tell apart.        *)
(***************************************************************************)
EXTENDS Naturals, Sequences

CONSTANTS
    Names,       \* classes of variables that filters distinguish
    MaxEntries   \* bound: variables of one index

ASSUME MaxEntriesAssumption == MaxEntries \in Nat

VARIABLES
    entries,   \* entries_
    loaded,    \* loaded_
    lpc        \* the step load() is at

indexVars == <<entries, loaded, lpc>>

Loading == {"enter", "regen", "read", "parse"}
LoadReturned == {"ok", "failed"}

IndexInit ==
    /\ entries = <<>>
    /\ loaded = FALSE
    /\ lpc = "idle"

(* load() forgets the last result first, and keeps the last entries.        *)
LoadEnter ==
    /\ lpc = "enter"
    /\ loaded' = FALSE
    /\ lpc' \in {"regen", "read"}     \* need_regen, from the files
    /\ UNCHANGED entries

(* No ELF to index, or the resolver fails: the old entries stay.            *)
Regenerate ==
    /\ lpc = "regen"
    /\ lpc' \in {"read", "failed"}
    /\ UNCHANGED <<entries, loaded>>

(* The JSON opens, and parse_index_json clears the entries; or it does not. *)
ReadJson ==
    /\ lpc = "read"
    /\ \/ entries' = <<>> /\ lpc' = "parse"
       \/ lpc' = "failed" /\ UNCHANGED entries
    /\ UNCHANGED loaded

ParseEntry ==
    /\ lpc = "parse"
    /\ Len(entries) < MaxEntries
    /\ \E n \in Names : entries' = Append(entries, n)
    /\ UNCHANGED <<loaded, lpc>>

(* The end of the text, or a token that is not JSON: the entries read so    *)
(* far stay in both cases.                                                  *)
ParseEnd ==
    /\ lpc = "parse"
    /\ \/ loaded' = TRUE /\ lpc' = "ok"
       \/ lpc' = "failed" /\ UNCHANGED loaded
    /\ UNCHANGED entries

LoadStep == LoadEnter \/ Regenerate \/ ReadJson \/ ParseEntry \/ ParseEnd

IndexTypeOK ==
    /\ entries \in Seq(Names)
    /\ Len(entries) <= MaxEntries
    /\ loaded \in BOOLEAN
    /\ lpc \in Loading \cup LoadReturned \cup {"idle"}
=============================================================================
