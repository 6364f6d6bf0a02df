------------------------------- MODULE Bench -------------------------------
(* What scripts do with a target on the bench, each in behaviours of its    *)
(* own: switch its power with the relay; read and write the record of       *)
(* signals, of a target at rest or one that runs; go through a testcase.    *)
(* part says which, the variables of the others are not used.               *)
EXTENDS Relay

CONSTANTS
    Types, Lists, Tails, Ids, Values, Bytes, Chunk,       \* as in Signals
    Cases, Configs, Alike, Accepts                        \* as in SigRunner

VARIABLES
    part,
    running, list, mem, data, spc, off, buf, out, sig, val, outcome, meant, behind, behindBuf,  \* Signals
    case, config, flaky, tpc, variant, at, tas, servers, values, bus, verdict, drove, got,
    moved, passed                                                                     \* SigRunner

signalVars ==
    <<running, list, mem, data, spc, off, buf, out, sig, val, outcome, meant, behind, behindBuf>>
testVars == <<case, config, flaky, tpc, variant, at, tas, servers, values, bus, verdict, drove,
              got, moved, passed>>
benchVars == <<part, vars, signalVars, testVars>>

Record == INSTANCE Signals WITH pc <- spc, result <- outcome
T == INSTANCE SigRunner WITH pc <- tpc, mem <- values, result <- verdict

ASSUME RecordAssumption == Record!SignalsAssumption
ASSUME TestAssumption == T!RunnerAssumption

-----------------------------------------------------------------------------
NoRelay ==
    /\ isOpen = FALSE /\ pc = "idle" /\ cmd = None /\ attempt = 1 /\ calls = 0
    /\ wire = <<>> /\ back = <<>> /\ input = <<>> /\ relay = None /\ result = "none"
    /\ answered = {} /\ acked = [c \in Channels |-> None]
NoRecord ==
    /\ running = FALSE /\ list = <<>> /\ mem = <<>> /\ data = <<>> /\ spc = "idle" /\ off = 0 /\ buf = <<>>
    /\ out = <<>> /\ sig = 0 /\ val = None /\ outcome = "none" /\ meant = <<>>
    /\ behind = {} /\ behindBuf = {}
NoTest ==
    /\ case = None /\ config = None /\ flaky = FALSE /\ tpc = "done" /\ variant = None /\ at = 1 /\ tas = FALSE
    /\ servers = {} /\ values = None /\ bus = None /\ verdict = "none" /\ drove = None
    /\ got = None /\ moved = FALSE /\ passed = <<>>

BenchInit ==
    \/ part = "relay" /\ Init /\ NoRecord /\ NoTest
    \/ part = "record" /\ Record!Init /\ NoRelay /\ NoTest
    \/ part = "test" /\ T!Init /\ NoRelay /\ NoRecord

RelayStep(A) == part = "relay" /\ A /\ UNCHANGED <<part, signalVars, testVars>>
RecordStep(A) == part = "record" /\ A /\ UNCHANGED <<part, vars, testVars>>
TestStep(A) == part = "test" /\ A /\ UNCHANGED <<part, vars, signalVars>>

BenchNext ==
    \/ RelayStep(Next)
    \/ RecordStep(Record!Next)
    \/ TestStep(T!Next)

(* Serial reads, transactions and waits for a signal have timeouts.         *)
BenchSpec ==
    /\ BenchInit /\ [][BenchNext]_benchVars
    /\ WF_benchVars(RelayStep(Send \/ Read \/ Again \/ GiveUp)) /\ WF_benchVars(RelayStep(Line))
    /\ WF_benchVars(RecordStep(Record!InCall))
    /\ WF_benchVars(TestStep(T!Runner))

-----------------------------------------------------------------------------
(* Whatever is read, written, written in part or stored by the target at    *)
(* any moment, the variable still parses to its record; what a write asked  *)
(* for is there, it refuses no signal the record has, and it undoes no      *)
(* store but those the script had not seen (base_tas.py 1140-1231).         *)
RecordIsKept ==
    part = "record" =>
        /\ Record!TypeOK /\ Record!ParsesToRecord /\ Record!RefusesUnknown
        /\ Record!WriteShows /\ Record!LosesOnlyTheUnseen

(* A testcase that passes has been through every value of a fitting         *)
(* variant, each of which the ECU passed on; where accesses do not fail, it *)
(* reads the variable it wrote; and it never leaves TAS connected           *)
(* (test_zpi_sigaccess_e2e_template.py).                                    *)
PassMeansPassed == part = "test" => T!PassMeansPassed

(* Every call on the relay and of a signal ends, and so does every testcase,*)
(* disconnected.                                                            *)
BenchCallsEnd ==
    /\ part = "relay" => CallEnds
    /\ part = "record" => (spc # "idle" ~> spc = "idle")
    /\ part = "test" => T!TestEnds
=============================================================================
