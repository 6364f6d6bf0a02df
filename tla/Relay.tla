------------------------------- MODULE Relay -------------------------------
(***************************************************************************)
(* USBRelay of test_com.py, one script at one serial port: a command is     *)
(* written, a tenth of a second later whatever has come in by then is       *)
(* taken for the answer; without any, the command is written once more.     *)
(*                                                                         *)
(* External: the line and the relay, which does the commands it gets in     *)
(* their order and answers each with what it did; both take their time, and *)
(* commands and answers may be lost.                                        *)
(***************************************************************************)
EXTENDS Integers, Sequences, FiniteSets

CONSTANTS
    Channels, \* ChnIdx
    Retry,    \* the attempts of __write_and_read
    MaxCalls, \* bound: the calls of a script
    Paced,    \* TRUE: a call comes only after all of the last one has got through, as with
              \* the sleeps of main()
    None

ASSUME RelayAssumption ==
    Retry \in Nat \ {0} /\ MaxCalls \in Nat /\ Paced \in BOOLEAN /\ None \notin Channels

VARIABLES
    isOpen,
    pc,       \* "idle", "send", "wait"
    cmd,      \* [chn, op] of the call that is on
    attempt,
    calls,    \* calls so far
    wire,     \* commands on their way: [chn, op, call]
    back,     \* answers on their way: [op, call]
    input,    \* the input buffer
    relay,    \* channel -> "on" or "off"
    result,   \* of the last call: "none", "yes", "no" or "raised"
    answered, \* history: the calls whose answers the last call took
    acked     \* history: channel -> what the last call for it was told

vars == <<isOpen, pc, cmd, attempt, calls, wire, back, input, relay, result, answered, acked>>
line == <<wire, back, relay>>
port == <<isOpen, cmd, calls>>

Ops == {"on", "off"}
Some(s) == {s[i] : i \in DOMAIN s}

(* connect and disconnect; a closed port drops what comes in, a connect     *)
(* that raises changes nothing.                                             *)
Connect ==
    /\ pc = "idle" /\ ~isOpen
    /\ isOpen' = TRUE /\ input' = <<>>
    /\ UNCHANGED <<pc, cmd, attempt, calls, line, result, answered, acked>>

Disconnect ==
    /\ pc = "idle" /\ isOpen
    /\ isOpen' = FALSE /\ input' = <<>>
    /\ UNCHANGED <<pc, cmd, attempt, calls, line, result, answered, acked>>

\* poweron and poweroff, up to __write_and_read.
Call(chn, op) ==
    /\ pc = "idle" /\ isOpen /\ calls < MaxCalls
    /\ Paced => wire = <<>> /\ back = <<>>
    /\ pc' = "send" /\ cmd' = [chn |-> chn, op |-> op] /\ attempt' = 1
    /\ calls' = calls + 1 /\ result' = "none" /\ answered' = {}
    /\ acked' = [acked EXCEPT ![chn] = None]
    /\ UNCHANGED <<isOpen, line, input>>

\* Faulty: what is left of an earlier answer stays in the input buffer.
ResetNot == input
Reset == <<>>

\* reset_output_buffer drops what has not left yet: a Lose just before.
Send ==
    /\ pc = "send"
    /\ input' = Reset
    /\ wire' = Append(wire, [chn |-> cmd.chn, op |-> cmd.op, call |-> calls])
    /\ pc' = "wait"
    /\ UNCHANGED <<port, attempt, back, relay, result, answered, acked>>

\* .find("ON") or .find("OFF") in the text that came in.
Says(op) == \E a \in Some(input) : a.op = op

Read ==
    /\ pc = "wait" /\ input # <<>>
    /\ result' = IF Says(cmd.op) THEN "yes" ELSE "no"
    /\ answered' = {a.call : a \in Some(input)}
    /\ acked' = IF Says(cmd.op) THEN [acked EXCEPT ![cmd.chn] = cmd.op] ELSE acked
    /\ input' = <<>> /\ pc' = "idle"
    /\ UNCHANGED <<port, attempt, line>>

\* Without an answer by now: once more, or None, which has no find().
Again ==
    /\ pc = "wait" /\ input = <<>> /\ attempt < Retry
    /\ attempt' = attempt + 1 /\ pc' = "send"
    /\ UNCHANGED <<port, line, input, result, answered, acked>>

\* Faulty: the last attempt waits for its answer.
GiveUpNot ==
    /\ pc = "wait" /\ input = <<>> /\ attempt > Retry
    /\ result' = "raised" /\ pc' = "idle"
    /\ UNCHANGED <<port, attempt, line, input, answered, acked>>

GiveUp ==
    /\ pc = "wait" /\ input = <<>> /\ attempt >= Retry
    /\ result' = "raised" /\ pc' = "idle"
    /\ UNCHANGED <<port, attempt, line, input, answered, acked>>

-----------------------------------------------------------------------------
Execute ==
    /\ wire # <<>>
    /\ relay' = [relay EXCEPT ![Head(wire).chn] = Head(wire).op]
    /\ back' = Append(back, [op |-> Head(wire).op, call |-> Head(wire).call])
    /\ wire' = Tail(wire)
    /\ UNCHANGED <<port, pc, attempt, input, result, answered, acked>>

Arrive ==
    /\ back # <<>>
    /\ input' = IF isOpen THEN Append(input, Head(back)) ELSE input
    /\ back' = Tail(back)
    /\ UNCHANGED <<port, pc, attempt, wire, relay, result, answered, acked>>

Lose ==
    /\ \/ wire # <<>> /\ wire' = Tail(wire) /\ UNCHANGED back
       \/ back # <<>> /\ back' = Tail(back) /\ UNCHANGED wire
    /\ UNCHANGED <<port, pc, attempt, input, relay, result, answered, acked>>

Init ==
    /\ isOpen = FALSE /\ pc = "idle" /\ cmd = [chn |-> None, op |-> "off"]
    /\ attempt = 1 /\ calls = 0
    /\ wire = <<>> /\ back = <<>> /\ input = <<>>
    /\ relay \in [Channels -> Ops]
    /\ result = "none" /\ answered = {} /\ acked = [c \in Channels |-> None]

Script == Connect \/ Disconnect \/ (\E c \in Channels, op \in Ops : Call(c, op)) \/ Send \/ Read \/ Again \/ GiveUp
Line == Execute \/ Arrive \/ Lose
Next == Script \/ Line
Spec == Init /\ [][Next]_vars /\ WF_vars(Send \/ Read \/ Again \/ GiveUp) /\ WF_vars(Line)

-----------------------------------------------------------------------------
\* The variables keep to their types; a call makes at most Retry attempts.
TypeOK ==
    /\ pc \in {"idle", "send", "wait"} /\ (pc # "idle" => isOpen)
    /\ attempt \in 1..Retry
    /\ Len(wire) + Len(back) + Len(input) <= Retry * MaxCalls
    /\ relay \in [Channels -> Ops] /\ acked \in [Channels -> Ops \cup {None}]

(* What a call was told holds until the next call for its channel: however  *)
(* many copies of earlier commands are still under way, none of them undoes *)
(* it.                                                                      *)
ToldHolds == \A c \in Channels : acked[c] # None => relay[c] = acked[c]

\* The answer that a call takes is one to a command of its own.
OwnAnswer == answered \subseteq {calls}

\* Every call comes to an end.
CallEnds == (pc # "idle") ~> (pc = "idle")

\* __write_and_read, test_com.py, says it returns None without an answer; poweron says yes or no.
NeverRaises == result # "raised"
=============================================================================
