----------------------------- MODULE SigRunner -----------------------------
(***************************************************************************)
(* One testcase of test_zpi_sigaccess_e2e_template.py: a variant of the     *)
(* signal is chosen for the platform and version at hand; each of its       *)
(* values is driven into one end of the ECU and awaited at the other: from  *)
(* the bus (or SOME/IP) to a variable, or from a variable to the bus.       *)
(*                                                                         *)
(* External: the ECU, which passes a signal on when it gets to it, and the  *)
(* helpers buscomm, someip and ssh, which either do what they are asked or  *)
(* raise.                                                                   *)
(***************************************************************************)
EXTENDS Integers, Sequences, FiniteSets

CONSTANTS
    Cases,       \* [direction, variants], variants a sequence of records
    Configs,     \* [platform, rules, default, hints]
    Alike,       \* <<hint, model>> of which one is part of the other, once normalised
    Accepts,     \* variable -> the values it can hold; other names do not resolve
    None

IsSequence(s) == Len(s) \in Nat /\ s = [i \in 1..Len(s) |-> s[i]]

RunnerAssumption ==
    /\ \A c \in Configs : IsSequence(c.rules) /\ IsSequence(c.hints)
    /\ \A c \in Cases :
         /\ IsSequence(c.variants)
         /\ \A i \in DOMAIN c.variants :
              /\ c.variants[i] # None
              /\ IsSequence(c.variants[i].values) /\ IsSequence(c.variants[i].candidates)

VARIABLES
    case, config,
    flaky,       \* TRUE: a single access to the target may fail, in this testcase
    pc,          \* "select", "connect", "drive", "read", "check", "finally", "done"
    variant,     \* the chosen one, or None
    at,          \* which of its values
    tas,         \* TRUE between connect() and disconnect()
    servers,     \* _zpi_someip_servers
    mem,         \* variable -> value
    bus,         \* what the signal carries, None before it was ever sent
    result,      \* "none", "pass", "fail" (an assertion) or "error"
    drove, got,  \* history: the variable written and read for the value, the value
    moved,       \* history: the ECU has passed the value on since it was driven
    passed       \* history: [value, drove, got, moved] of the values gone through

vars == <<case, config, flaky, pc, variant, at, tas, servers, mem, bus, result, drove, got, moved, passed>>
test == <<case, config, flaky>>

Variables == DOMAIN Accepts
Input == case.direction = "READ"
Value == variant.values[at]
FirstOf(S) == CHOOSE i \in S : \A k \in S : i <= k

\* The candidates of the variant that resolve, by their place, and their name.
Resolved == {i \in DOMAIN variant.candidates : variant.candidates[i] \in Variables}
Name(i) == variant.candidates[i]

-----------------------------------------------------------------------------
(* _select_variant; variants, rules and hints are known by their place.     *)
Candidates == {i \in DOMAIN case.variants : case.variants[i].platform = config.platform}
OfModel(m) == {i \in Candidates : case.variants[i].model = m}
LikeHint(h) == {i \in Candidates : <<h, case.variants[i].model>> \in Alike}

(* _configured_models: the models of the rules that match some hint, or the *)
(* default where no rule does.                                              *)
Hit == {k \in DOMAIN config.rules :
            \E i \in DOMAIN config.hints : config.hints[i] \in config.rules[k].contains}
Matched ==
    IF Hit # {} THEN {config.rules[k].model : k \in Hit} ELSE {config.default} \ {None}

\* The first rule, or hint, that leads to a variant counts.
UsefulRules == {k \in Hit : OfModel(config.rules[k].model) # {}}
UsefulHints == {k \in DOMAIN config.hints : LikeHint(config.hints[k]) # {}}
Select ==
    IF UsefulRules # {} THEN FirstOf(OfModel(config.rules[FirstOf(UsefulRules)].model))
    ELSE IF Hit = {} /\ config.default # None /\ OfModel(config.default) # {}
      THEN FirstOf(OfModel(config.default))
    ELSE IF UsefulHints # {} THEN FirstOf(LikeHint(config.hints[FirstOf(UsefulHints)]))
    ELSE FirstOf(Candidates)

SelectVariant ==
    /\ pc = "select"
    /\ \/ /\ Candidates = {}
          /\ result' = "fail" /\ pc' = "done" /\ UNCHANGED variant
       \/ /\ Candidates # {}
          /\ variant' = case.variants[Select] /\ pc' = "connect" /\ UNCHANGED result
    /\ UNCHANGED <<test, at, tas, servers, mem, bus, drove, got, moved, passed>>

Leave(why) == result' = why /\ pc' = "finally"

\* The head of the loop over the values.
Loop(next) ==
    IF next > Len(variant.values) THEN Leave("pass") ELSE pc' = "drive" /\ UNCHANGED result

\* tas.connect() is outside of the try.
Connect ==
    /\ pc = "connect"
    /\ \/ tas' = TRUE /\ Loop(1)
       \/ result' = "error" /\ pc' = "done" /\ UNCHANGED tas
    /\ UNCHANGED <<test, variant, at, servers, mem, bus, drove, got, moved, passed>>

-----------------------------------------------------------------------------
Driven(name) == pc' = "read" /\ drove' = name /\ moved' = FALSE /\ UNCHANGED result

\* _drive_input_signal; a SOME/IP server is started once for an interface.
DriveInput ==
    /\ pc = "drive" /\ Input
    /\ \/ /\ bus' = Value /\ Driven(None)
          /\ servers' = IF variant.family = "someip" THEN servers \cup {variant.interface} ELSE servers
       \/ Leave("error") /\ UNCHANGED <<bus, servers, drove, moved>>
    /\ UNCHANGED <<test, variant, at, tas, mem, got, passed>>

\* The loops over the candidates: the first one that does not raise.
Tried(S) == IF flaky \/ S = {} THEN S ELSE {FirstOf(S)}

\* _write_tas_value: a name must resolve and the variable hold the value.
WriteTo == Tried({i \in Resolved : Value \in Accepts[Name(i)]})

DriveOutput ==
    /\ pc = "drive" /\ ~Input
    /\ \/ /\ variant.topic  \* _drive_topic_output is not implemented
          /\ Leave("error") /\ UNCHANGED <<mem, drove, moved>>
       \/ \E i \in WriteTo :
            /\ ~variant.topic
            /\ mem' = [mem EXCEPT ![Name(i)] = Value] /\ Driven(Name(i))
       \/ /\ ~variant.topic /\ (flaky \/ WriteTo = {})
          /\ Leave("fail") /\ UNCHANGED <<mem, drove, moved>>
    /\ UNCHANGED <<test, variant, at, tas, servers, bus, got, passed>>

\* _read_tas_value.
ReadFrom == Tried(Resolved)

Asserted(name) ==
    /\ got' = [name |-> name, value |-> mem[name]]
    /\ IF mem[name] = Value THEN pc' = "check" /\ UNCHANGED result ELSE Leave("fail")

Read ==
    /\ pc = "read"
    /\ \/ \E i \in ReadFrom : Asserted(Name(i))
       \/ (flaky \/ ReadFrom = {}) /\ Leave("fail") /\ UNCHANGED got
    /\ UNCHANGED <<test, variant, at, tas, servers, mem, bus, drove, moved, passed>>

Entry == [value |-> Value, drove |-> drove, got |-> got, moved |-> moved]

\* Faulty: the last value is left out.
NextValueShort == passed' = Append(passed, Entry) /\ at' = at + 1 /\ Loop(at + 2)

NextValue == passed' = Append(passed, Entry) /\ at' = at + 1 /\ Loop(at + 1)

(* _check_topics when the variant has some, _check_output_signal; both wait *)
(* for the value up to a timeout.                                           *)
Check ==
    /\ pc = "check"
    /\ \/ /\ ~Input => bus = Value
          /\ NextValue
          /\ servers' = IF ~Input /\ variant.family = "someip" THEN servers \cup {variant.interface} ELSE servers
       \/ /\ ~Input \/ variant.topic
          /\ Leave("fail") /\ UNCHANGED <<at, servers, passed>>
    /\ UNCHANGED <<test, variant, tas, mem, bus, drove, got, moved>>

Finally ==
    /\ pc = "finally"
    /\ tas' = FALSE /\ pc' = "done"
    /\ UNCHANGED <<test, variant, at, servers, mem, bus, result, drove, got, moved, passed>>

\* The ECU: a signal from the bus into its variable, or the other way round.
Ecu ==
    /\ variant # None /\ Resolved # {} /\ pc # "done"
    /\ LET var == Name(FirstOf(Resolved)) IN
       IF Input
         THEN /\ bus \in Accepts[var] /\ mem[var] # bus
              /\ mem' = [mem EXCEPT ![var] = bus] /\ UNCHANGED bus
         ELSE /\ bus # mem[var]
              /\ bus' = mem[var] /\ UNCHANGED mem
    /\ moved' = TRUE
    /\ UNCHANGED <<test, pc, variant, at, tas, servers, result, drove, got, passed>>

Memory == {m \in [Variables -> UNION {Accepts[v] : v \in Variables}] :
               \A v \in Variables : m[v] \in Accepts[v]}

Init ==
    /\ case \in Cases /\ config \in Configs /\ flaky \in BOOLEAN
    /\ pc = "select" /\ variant = None /\ at = 1
    /\ tas = FALSE /\ servers = {}
    /\ mem \in Memory
    /\ bus = None /\ result = "none" /\ drove = None /\ got = None
    /\ moved = FALSE /\ passed = <<>>

Runner ==
    SelectVariant \/ Connect \/ DriveInput \/ DriveOutput \/ Read \/ Check \/ Finally

Next == Runner \/ Ecu
Spec == Init /\ [][Next]_vars /\ WF_vars(Runner)

-----------------------------------------------------------------------------
\* The variables keep to their types.
TypeOK ==
    /\ pc \in {"select", "connect", "drive", "read", "check", "finally", "done"}
    /\ variant = None \/ \E i \in DOMAIN case.variants : variant = case.variants[i]
    /\ tas \in BOOLEAN /\ result \in {"none", "pass", "fail", "error"}
    /\ mem \in Memory

(* A testcase that passes has been through every value of its variant, in   *)
(* order, and has read each of them.                                        *)
PassTestsAll ==
    result = "pass" =>
      /\ [i \in DOMAIN passed |-> passed[i].value] = variant.values
      /\ \A i \in DOMAIN passed : passed[i].got.value = passed[i].value

(* Where accesses do not fail, the variable that was read for a value is    *)
(* the one that was written, although each of the two may fall back on      *)
(* other candidates.                                                        *)
PassReadsWritten ==
    ~flaky => \A i \in DOMAIN passed : ~Input => passed[i].got.name = passed[i].drove

(* A value that differs from the one before it passes only when the ECU has *)
(* passed it on; that a variable still held what an earlier value left      *)
(* there is not taken for it.                                               *)
FreshValues ==
    ~flaky => \A i \in 2..Len(passed) :
                 passed[i].value # passed[i - 1].value => passed[i].moved

\* TAS is used while it is connected, and left disconnected, however it ends.
ClosedAtEnd ==
    /\ pc \in {"drive", "read", "check", "finally"} => tas
    /\ pc = "done" => ~tas

(* The variant is one of the platform; of the models the version is matched *)
(* with, when the case has one.                                             *)
VariantFits ==
    variant # None =>
      /\ variant.platform = config.platform
      /\ (\E m \in Matched : OfModel(m) # {}) => variant.model \in Matched

(* A testcase that passes has been through every value of a fitting         *)
(* variant, each of which the ECU passed on; where accesses do not fail, it *)
(* reads the variable it wrote; and it never leaves TAS connected           *)
(* (test_zpi_sigaccess_e2e_template.py).                                    *)
PassMeansPassed ==
    TypeOK /\ PassTestsAll /\ VariantFits /\ ClosedAtEnd /\ PassReadsWritten /\ FreshValues

\* Every testcase ends, disconnected.
TestEnds == <>(pc = "done" /\ ~tas)

(* zpi_sigaccess_version_config.json on optional_model_hint_order: when the *)
(* hints match different models, the first hint counts.                     *)
HintOrder ==
    variant # None =>
      LET of(k) == {config.rules[i].model :
                      i \in {i \in DOMAIN config.rules : config.hints[k] \in config.rules[i].contains}}
          useful == {k \in DOMAIN config.hints : \E m \in of(k) : OfModel(m) # {}}
      IN  useful # {} => variant.model \in of(FirstOf(useful))
=============================================================================
