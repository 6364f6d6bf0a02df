----------------------------- MODULE BenchProofs -----------------------------
(***************************************************************************)
(* Proofs about what scripts do on the bench.  Relay, for any channels,     *)
(* attempts and number of calls, while commands and answers are late or     *)
(* lost: a script that lets the line drain between its calls, as main()     *)
(* does, can trust what poweron() and poweroff() tell it.  SigRunner, for   *)
(* any testcases, configurations and variables: what a pass means.          *)
(* Signals, for any records, data types and transactions, of a target that  *)
(* stores values at any moment: that the record stays one, and what reads   *)
(* and writes of its signals can be trusted to do.                          *)
(***************************************************************************)
EXTENDS Bench, SequenceTheorems, FiniteSetTheorems, NaturalsInduction, WellFoundedInduction, TLAPS

-----------------------------------------------------------------------------
(* The relay.                                                               *)

\* What the call that is on sends, and what the relay answers to it.
OwnCommand == [chn |-> cmd.chn, op |-> cmd.op, call |-> calls]
OwnReply == [op |-> cmd.op, call |-> calls]
Quiet == wire = <<>> /\ back = <<>> /\ pc = "idle"

\* All that is under way belongs to the last call.
OwnLine ==
    /\ wire \in Seq({OwnCommand}) /\ back \in Seq({OwnReply})
    /\ input \in Seq([op : Ops, call : Nat])
    /\ pc = "wait" => input \in Seq({OwnReply})
    /\ calls \in Nat /\ pc \in {"idle", "send", "wait"}
    /\ cmd.op \in Ops
    /\ cmd.chn \in Channels \/ Quiet

\* An answer to the last call comes after the relay has done it.
Done ==
    /\ relay \in [Channels -> Ops]
    /\ back # <<>> \/ (pc = "wait" /\ input # <<>>) => relay[cmd.chn] = cmd.op

\* What a call was told is what its channel was last asked for.
Told ==
    /\ acked \in [Channels -> Ops \cup {None}]
    /\ \A c \in Channels : acked[c] # None =>
         relay[c] = acked[c] /\ (c = cmd.chn => acked[c] = cmd.op)

IInv == OwnLine /\ Done /\ Told /\ OwnAnswer

-----------------------------------------------------------------------------
LEMMA InvInit == Init => IInv
<1> SUFFICES ASSUME Init PROVE IInv
  OBVIOUS
<1>1. \A S : <<>> \in Seq(S)
  OBVIOUS
<1>2. OwnLine
  BY <1>1 DEF Init, OwnLine, Quiet, Ops
<1>3. Done /\ Told /\ OwnAnswer
  BY DEF Init, Done, Told, OwnAnswer
<1>4. QED
  BY <1>2, <1>3 DEF IInv

\* The port is opened, closed, or an attempt is over without an answer.
LEMMA PortStep ==
    ASSUME IInv, Connect \/ Disconnect \/ Again \/ GiveUp
    PROVE  IInv'
<1>1. \A S : <<>> \in Seq(S)
  OBVIOUS
<1>2. /\ UNCHANGED <<wire, back, relay, cmd, calls, acked, answered>>
      /\ pc' \in {"idle", "send"}
      /\ input' = <<>> \/ input' = input
      /\ pc # "idle" => cmd.chn \in Channels
      /\ pc = "idle" => pc' = "idle"
  BY DEF Connect, Disconnect, Again, GiveUp, line, port, IInv, OwnLine, Quiet
<1>3. OwnLine'
  BY <1>1, <1>2 DEF IInv, OwnLine, OwnCommand, OwnReply, Quiet
<1>4. Done' /\ Told' /\ OwnAnswer'
  BY <1>2 DEF IInv, Done, Told, OwnAnswer
<1>5. QED
  BY <1>3, <1>4 DEF IInv

\* A call finds the line drained.
LEMMA CallStep ==
    ASSUME Paced, IInv, NEW c \in Channels, NEW op \in Ops, Call(c, op)
    PROVE  IInv'
<1>1. \A S : <<>> \in Seq(S)
  OBVIOUS
<1>2. /\ wire = <<>> /\ back = <<>> /\ UNCHANGED <<wire, back, relay, input>>
      /\ pc' = "send" /\ cmd' = [chn |-> c, op |-> op] /\ calls' = calls + 1
      /\ answered' = {} /\ acked' = [acked EXCEPT ![c] = None]
  BY DEF Call, line
<1>3. OwnLine'
  BY <1>1, <1>2 DEF IInv, OwnLine
<1>4. Done' /\ Told' /\ OwnAnswer'
  BY <1>2 DEF IInv, Done, Told, OwnAnswer
<1>5. QED
  BY <1>3, <1>4 DEF IInv

\* Before a command is written, the input buffer is emptied.
LEMMA SendStep ==
    ASSUME IInv, Send
    PROVE  IInv'
<1>1. \A S : <<>> \in Seq(S)
  OBVIOUS
<1>2. /\ input' = <<>> /\ wire' = Append(wire, OwnCommand) /\ pc = "send" /\ pc' = "wait"
      /\ UNCHANGED <<cmd, calls, back, relay, answered, acked>>
  BY DEF Send, Reset, port, OwnCommand
<1>3. wire' \in Seq({OwnCommand})
  BY <1>2, AppendProperties DEF IInv, OwnLine
<1>4. OwnLine'
  BY <1>1, <1>2, <1>3 DEF IInv, OwnLine, OwnCommand, OwnReply, Quiet
<1>5. Done' /\ Told' /\ OwnAnswer'
  BY <1>2 DEF IInv, Done, Told, OwnAnswer
<1>6. QED
  BY <1>4, <1>5 DEF IInv

\* What is read in answer to a command is its own answer.
LEMMA ReadStep ==
    ASSUME IInv, Read
    PROVE  IInv'
<1>1. \A S : <<>> \in Seq(S)
  OBVIOUS
<1>2. /\ pc = "wait" /\ pc' = "idle" /\ input # <<>> /\ input' = <<>>
      /\ UNCHANGED <<cmd, calls, wire, back, relay>>
      /\ answered' = {a.call : a \in Some(input)}
      /\ acked' = [acked EXCEPT ![cmd.chn] = cmd.op] \/ acked' = acked
  BY DEF Read, port, line
<1>3. cmd.chn \in Channels /\ cmd.op \in Ops
  BY <1>2 DEF IInv, OwnLine, Quiet
<1>4. Some(input) \subseteq {OwnReply}
  <2>1. input \in Seq({OwnReply}) /\ DOMAIN input = 1..Len(input)
    BY <1>2 DEF IInv, OwnLine
  <2>2. \A i \in 1..Len(input) : input[i] = OwnReply
    BY <2>1, ElementOfSeq
  <2>3. QED
    BY <2>1, <2>2 DEF Some
<1>5. OwnAnswer'
  BY <1>2, <1>4 DEF OwnAnswer, OwnReply
<1>6. OwnLine'
  BY <1>1, <1>2, <1>3 DEF IInv, OwnLine, OwnCommand, OwnReply
<1>7. relay[cmd.chn] = cmd.op
  BY <1>2 DEF IInv, Done
<1>8. Done'
  BY <1>2 DEF IInv, Done
<1>9. Told'
  BY <1>2, <1>3, <1>7 DEF IInv, Told
<1>10. QED
  BY <1>5, <1>6, <1>8, <1>9 DEF IInv

\* The line only brings and loses what belongs to the last call.
LEMMA LineStep ==
    ASSUME IInv, Line
    PROVE  IInv'
<1>1. ASSUME NEW S, NEW s \in Seq(S), s # <<>>
      PROVE  Head(s) \in S /\ Tail(s) \in Seq(S)
  BY <1>1, HeadTailProperties
<1>2. /\ UNCHANGED <<cmd, calls, pc, answered, acked>>
      /\ wire # <<>> \/ back # <<>>
  BY DEF Line, Execute, Arrive, Lose, port
<1>3. cmd.chn \in Channels
  BY <1>2 DEF IInv, OwnLine, Quiet
<1>4. CASE Execute
  <2>0. wire \in Seq({OwnCommand}) /\ wire # <<>>
    BY <1>4 DEF Execute, IInv, OwnLine
  <2>1. Head(wire) = OwnCommand /\ Tail(wire) \in Seq({OwnCommand})
    BY ONLY <1>1, <2>0
  <2>2. /\ relay' = [relay EXCEPT ![cmd.chn] = cmd.op] /\ UNCHANGED input
        /\ back' = Append(back, OwnReply) /\ wire' = Tail(wire)
    <3>1. Head(wire).chn = cmd.chn /\ Head(wire).op = cmd.op /\ Head(wire).call = calls
      BY <2>1 DEF OwnCommand
    <3>2. QED
      BY <1>4, <3>1 DEF Execute, OwnReply
  <2>3. back' \in Seq({OwnReply})
    <3>1. back \in Seq({OwnReply}) /\ OwnReply \in {OwnReply}
      BY DEF IInv, OwnLine
    <3>2. Append(back, OwnReply) \in Seq({OwnReply})
      BY ONLY <3>1, AppendProperties
    <3>3. QED
      BY <2>2, <3>2
  <2>4. OwnLine'
    BY <1>2, <1>3, <2>1, <2>2, <2>3 DEF IInv, OwnLine, OwnCommand, OwnReply
  <2>5. relay' \in [Channels -> Ops] /\ relay'[cmd.chn] = cmd.op
    BY <1>3, <2>2 DEF IInv, Done, OwnLine
  <2>6. Done'
    BY <1>2, <2>5 DEF Done
  <2>7. Told'
    BY <1>2, <1>3, <2>2, <2>5 DEF IInv, Told, Done
  <2>8. QED
    BY <1>2, <2>4, <2>6, <2>7 DEF IInv, OwnAnswer
<1>5. CASE Arrive
  <2>0. back \in Seq({OwnReply}) /\ back # <<>>
    BY <1>5 DEF Arrive, IInv, OwnLine
  <2>1. Head(back) = OwnReply /\ Tail(back) \in Seq({OwnReply})
    BY ONLY <1>1, <2>0
  <2>2. /\ input' = Append(input, OwnReply) \/ input' = input
        /\ back' = Tail(back) /\ UNCHANGED <<wire, relay>>
    BY <1>5, <2>1 DEF Arrive
  <2>3. OwnReply \in [op : Ops, call : Nat]
    BY DEF IInv, OwnLine, OwnReply
  <2>4. /\ input' \in Seq([op : Ops, call : Nat])
        /\ pc = "wait" => input' \in Seq({OwnReply})
    <3>1. /\ input \in Seq([op : Ops, call : Nat])
          /\ pc = "wait" => input \in Seq({OwnReply})
      BY DEF IInv, OwnLine
    <3>2. ASSUME NEW S, input \in Seq(S), OwnReply \in S
          PROVE  Append(input, OwnReply) \in Seq(S)
      BY ONLY <3>2, AppendProperties
    <3>3. OwnReply \in {OwnReply}
      OBVIOUS
    <3> HIDE DEF OwnReply
    <3>4. QED
      BY <2>2, <2>3, <3>1, <3>2, <3>3
  <2>5. OwnLine'
    BY <1>2, <1>3, <2>1, <2>2, <2>4 DEF IInv, OwnLine, OwnCommand, OwnReply
  <2>6. relay[cmd.chn] = cmd.op
    BY <2>0 DEF IInv, Done
  <2>7. Done' /\ Told' /\ OwnAnswer'
    BY <1>2, <2>2, <2>6 DEF IInv, Done, Told, OwnAnswer
  <2>8. QED
    BY <2>5, <2>7 DEF IInv
<1>6. CASE Lose
  <2>1. /\ UNCHANGED <<relay, input>>
        /\ \/ wire # <<>> /\ wire' = Tail(wire) /\ UNCHANGED back
           \/ back # <<>> /\ back' = Tail(back) /\ UNCHANGED wire
    BY <1>6 DEF Lose
  <2>2. wire' \in Seq({OwnCommand}) /\ back' \in Seq({OwnReply})
    BY <1>1, <2>1 DEF IInv, OwnLine
  <2>3. OwnLine'
    BY <1>2, <1>3, <2>1, <2>2 DEF IInv, OwnLine, OwnCommand, OwnReply
  <2>4. back' # <<>> => back # <<>>
    BY <2>1
  <2>5. Done' /\ Told' /\ OwnAnswer'
    BY <1>2, <2>1, <2>4 DEF IInv, Done, Told, OwnAnswer
  <2>6. QED
    BY <2>3, <2>5 DEF IInv
<1>7. QED
  BY <1>4, <1>5, <1>6 DEF Line

LEMMA InvStep ==
    ASSUME Paced
    PROVE  IInv /\ [Next]_vars => IInv'
<1> SUFFICES ASSUME IInv, [Next]_vars PROVE IInv'
  OBVIOUS
<1>1. CASE UNCHANGED vars
  <2>1. UNCHANGED <<pc, cmd, calls, wire, back, input, relay, answered, acked>>
    BY <1>1 DEF vars
  <2>2. QED
    BY <2>1 DEF IInv, OwnLine, OwnCommand, OwnReply, Quiet, Done, Told, OwnAnswer
<1>2. QED
  BY <1>1, PortStep, CallStep, SendStep, ReadStep, LineStep DEF Next, Script

(* What poweron() or poweroff() said holds until the next call for the      *)
(* channel: no copy of a command that is still on the line undoes it.       *)
THEOREM ToldIsDone ==
    ASSUME Paced
    PROVE  Spec => []ToldHolds
<1>1. IInv => ToldHolds
  BY DEF IInv, Told, ToldHolds
<1>2. IInv /\ [Next]_vars => IInv'
  BY InvStep
<1>3. QED
  BY InvInit, <1>1, <1>2, PTL DEF Spec

(* No call takes the answer to an earlier one for its own.                  *)
THEOREM AnswerIsOwn ==
    ASSUME Paced
    PROVE  Spec => []OwnAnswer
<1>1. IInv => OwnAnswer
  BY DEF IInv
<1>2. IInv /\ [Next]_vars => IInv'
  BY InvStep
<1>3. QED
  BY InvInit, <1>1, <1>2, PTL DEF Spec

-----------------------------------------------------------------------------
(* Testcases: the inductive invariant.                                      *)

InLoop == {"drive", "read", "check"}

\* What has been chosen, and how far the testcase is.
TestShape ==
    /\ case \in Cases /\ config \in Configs /\ flaky \in BOOLEAN
    /\ T!TypeOK /\ T!VariantFits /\ T!ClosedAtEnd
    /\ tpc \in InLoop \cup {"connect", "finally"} => variant # None
    /\ tpc \in InLoop \cup {"select", "connect"} => verdict = "none"
    /\ tpc = "finally" => verdict # "none"
    /\ at \in Nat /\ at >= 1
    /\ tpc \in {"select", "connect"} => at = 1 /\ ~tas
    /\ tpc \in InLoop => at <= Len(variant.values)

\* Every value before the one at hand has been read where it was due.
Behind ==
    /\ T!IsSequence(passed) /\ Len(passed) = at - 1
    /\ verdict = "pass" => variant # None /\ at - 1 = Len(variant.values)
    /\ variant # None => \A i \in 1..(at - 1) :
         passed[i].value = variant.values[i] /\ passed[i].got.value = variant.values[i]
    /\ tpc = "check" => got.value = T!Value

\* The variable that is read where accesses do not fail.
FirstName == T!Name(T!FirstOf(T!Resolved))

\* Both ends agree between two values; from the drive on, the end that is
\* not driven holds the value before, unless the ECU has moved.
Ends ==
    /\ tpc = "drive" /\ at > 1 =>
         /\ values[FirstName] = variant.values[at - 1]
         /\ bus = variant.values[at - 1]
    /\ tpc \in {"read", "check"} /\ at > 1 /\ ~moved =>
         IF T!Input THEN values[FirstName] = variant.values[at - 1]
                    ELSE bus = variant.values[at - 1]
    /\ tpc \in {"read", "check"} /\ T!Input => bus = T!Value
    /\ tpc = "read" /\ ~T!Input => drove = FirstName \/ T!Value \notin Accepts[FirstName]
    /\ tpc = "check" =>
         /\ T!Resolved # {} /\ values[FirstName] = T!Value /\ got.name = FirstName
         /\ ~T!Input => drove = FirstName

\* What is true of the entries of passed.
Fresh ==
    /\ \A i \in 1..(at - 1) : ~T!Input => passed[i].got.name = passed[i].drove
    /\ \A i \in 2..(at - 1) : passed[i].value # passed[i - 1].value => passed[i].moved

TestInv == TestShape /\ Behind /\ (~flaky => Ends /\ Fresh)

-----------------------------------------------------------------------------
(* Choices and sequences.                                                   *)

\* A set of numbers has a least one.
LEMMA FirstLeast ==
    ASSUME NEW S \in SUBSET Nat, S # {}
    PROVE  T!FirstOf(S) \in S /\ \A k \in S : T!FirstOf(S) <= k
<1> DEFINE R == OpToRel(<, Nat)
<1>1. IsWellFoundedOn(R, Nat)
  BY NatLessThanWellFounded
<1>2. \A x, y \in Nat : <<y, x>> \in R <=> y < x
  BY DEF OpToRel
<1> HIDE DEF R
<1>3. PICK m \in S : \A k \in S : ~(<<k, m>> \in R)
  BY <1>1, WFMin
<1>4. \A k \in S : ~(k < m)
  BY <1>2, <1>3
<1>5. \A k \in S : m <= k
  BY <1>4
<1>6. QED
  BY <1>3, <1>5 DEF T!FirstOf

LEMMA AppendFacts ==
    ASSUME NEW s, T!IsSequence(s), NEW e
    PROVE  /\ T!IsSequence(Append(s, e)) /\ Len(Append(s, e)) = Len(s) + 1
           /\ \A i \in 1..Len(s) : Append(s, e)[i] = s[i]
           /\ Append(s, e)[Len(s) + 1] = e
<1> DEFINE S == {s[i] : i \in 1..Len(s)} \cup {e}
<1>1. s = [i \in 1..Len(s) |-> s[i]] /\ Len(s) \in Nat
  BY DEF T!IsSequence
<1>2. \A i \in 1..Len(s) : s[i] \in S
  OBVIOUS
<1>3. s \in [1..Len(s) -> S]
  BY <1>1, <1>2
<1>4. s \in Seq(S) /\ e \in S
  BY <1>1, <1>3
<1> HIDE DEF S
<1>5. Append(s, e) \in Seq(S) /\ Len(Append(s, e)) = Len(s) + 1
  BY <1>4
<1>6. ASSUME NEW t \in Seq(S)
      PROVE  t = [i \in 1..Len(t) |-> t[i]]
  BY SeqDef
<1>7. T!IsSequence(Append(s, e))
  <2>1. \A t : t \in Seq(S) => T!IsSequence(t)
    BY <1>6, LenProperties DEF T!IsSequence
  <2>2. QED
    BY <1>5, <2>1
<1>8. QED
  BY <1>1, <1>4, <1>5, <1>7

\* The cases and configurations are made of sequences.
LEMMA TestFacts ==
    ASSUME NEW c \in Cases, NEW g \in Configs
    PROVE  /\ T!IsSequence(c.variants) /\ DOMAIN c.variants \in SUBSET Nat
           /\ DOMAIN g.rules \in SUBSET Nat /\ DOMAIN g.hints \in SUBSET Nat
           /\ \A i \in DOMAIN c.variants :
                /\ c.variants[i] # None
                /\ T!IsSequence(c.variants[i].values)
                /\ DOMAIN c.variants[i].candidates \in SUBSET Nat
<1>1. \A s : T!IsSequence(s) => DOMAIN s \in SUBSET Nat
  <2> SUFFICES ASSUME NEW s, T!IsSequence(s) PROVE DOMAIN s \in SUBSET Nat
    OBVIOUS
  <2>1. DOMAIN s = 1..Len(s) /\ Len(s) \in Nat
    BY DEF T!IsSequence
  <2>2. QED
    BY <2>1
<1>2. T!IsSequence(g.rules) /\ T!IsSequence(g.hints)
  BY TestAssumption DEF T!RunnerAssumption
<1>3. /\ T!IsSequence(c.variants)
      /\ \A i \in DOMAIN c.variants :
           /\ c.variants[i] # None
           /\ T!IsSequence(c.variants[i].values) /\ T!IsSequence(c.variants[i].candidates)
  BY ONLY TestAssumption, c \in Cases DEF T!RunnerAssumption
<1>4. QED
  BY <1>1, <1>2, <1>3

\* Where some candidate resolves, the first one is a variable.
LEMMA FirstResolves ==
    ASSUME TestShape, variant # None, T!Resolved # {}
    PROVE  T!FirstOf(T!Resolved) \in T!Resolved /\ FirstName \in T!Variables
<1>1. T!Resolved \in SUBSET Nat
  BY TestFacts DEF TestShape, T!TypeOK, T!Resolved
<1>2. QED
  BY <1>1, FirstLeast DEF FirstName, T!Name, T!Resolved

-----------------------------------------------------------------------------
LEMMA TestInit == T!Init => TestInv
<1> SUFFICES ASSUME T!Init PROVE TestInv
  OBVIOUS
<1>1. TestShape
  <2>1. T!TypeOK
    BY DEF T!Init, T!TypeOK
  <2>2. T!VariantFits /\ T!ClosedAtEnd
    BY DEF T!Init, T!VariantFits, T!ClosedAtEnd
  <2>3. QED
    BY <2>1, <2>2 DEF T!Init, TestShape, InLoop
<1>2. T!IsSequence(passed) /\ Len(passed) = at - 1
  BY DEF T!Init, T!IsSequence
<1>3. Behind
  BY <1>2 DEF T!Init, Behind
<1>4. Ends /\ Fresh
  BY DEF T!Init, Ends, Fresh
<1>5. QED
  BY <1>1, <1>3, <1>4 DEF TestInv

\* The choice of a variant.
LEMMA SelectFits ==
    ASSUME case \in Cases, config \in Configs, T!Candidates # {},
           variant' = case.variants[T!Select], UNCHANGED <<case, config>>
    PROVE  /\ \E i \in DOMAIN case.variants : variant' = case.variants[i]
           /\ T!VariantFits'
<1>1. /\ \A m : T!OfModel(m) \in SUBSET Nat /\ T!OfModel(m) \subseteq T!Candidates
      /\ \A h : T!LikeHint(h) \in SUBSET Nat /\ T!LikeHint(h) \subseteq T!Candidates
      /\ T!Candidates \in SUBSET Nat
      /\ T!UsefulRules \in SUBSET Nat /\ T!UsefulHints \in SUBSET Nat
  BY TestFacts DEF T!OfModel, T!LikeHint, T!Candidates, T!UsefulRules, T!UsefulHints, T!Hit
<1>2. /\ T!Select \in T!Candidates
      /\ (\E m \in T!Matched : T!OfModel(m) # {})
           => case.variants[T!Select].model \in T!Matched
  <2>1. CASE T!UsefulRules # {}
    <3> DEFINE k == T!FirstOf(T!UsefulRules)
    <3>1. k \in T!UsefulRules
      BY <1>1, <2>1, FirstLeast
    <3> HIDE DEF k
    <3>2. k \in T!Hit /\ T!OfModel(config.rules[k].model) # {}
      BY <3>1 DEF T!UsefulRules
    <3>3. T!Select = T!FirstOf(T!OfModel(config.rules[k].model))
      BY <2>1 DEF T!Select, k
    <3>4. T!Select \in T!OfModel(config.rules[k].model)
      BY <1>1, <3>2, <3>3, FirstLeast
    <3>5. config.rules[k].model \in T!Matched
      BY <3>2 DEF T!Matched
    <3>6. QED
      BY <3>4, <3>5 DEF T!OfModel
  <2>2. CASE /\ T!UsefulRules = {} /\ T!Hit = {}
             /\ config.default # None /\ T!OfModel(config.default) # {}
    <3>1. T!Select = T!FirstOf(T!OfModel(config.default))
      BY <2>2 DEF T!Select
    <3>2. T!Select \in T!OfModel(config.default)
      BY <1>1, <2>2, <3>1, FirstLeast
    <3>3. config.default \in T!Matched
      BY <2>2 DEF T!Matched
    <3>4. QED
      BY <3>2, <3>3 DEF T!OfModel
  <2>3. CASE /\ T!UsefulRules = {}
             /\ ~(T!Hit = {} /\ config.default # None /\ T!OfModel(config.default) # {})
    <3>1. ~\E m \in T!Matched : T!OfModel(m) # {}
      BY <2>3 DEF T!Matched, T!UsefulRules
    <3>2. CASE T!UsefulHints # {}
      <4> DEFINE k == T!FirstOf(T!UsefulHints)
      <4>1. k \in T!UsefulHints
        BY <1>1, <3>2, FirstLeast
      <4> HIDE DEF k
      <4>2. T!Select = T!FirstOf(T!LikeHint(config.hints[k]))
        BY <2>3, <3>2 DEF T!Select, k
      <4>3. T!LikeHint(config.hints[k]) # {}
        BY <4>1 DEF T!UsefulHints
      <4>4. T!Select \in T!LikeHint(config.hints[k])
        BY <1>1, <4>2, <4>3, FirstLeast
      <4>5. QED
        BY <1>1, <3>1, <4>4
    <3>3. CASE T!UsefulHints = {}
      <4>1. T!Select = T!FirstOf(T!Candidates)
        BY <2>3, <3>3 DEF T!Select
      <4>2. QED
        BY <1>1, <3>1, <4>1, FirstLeast
    <3>4. QED
      BY <3>2, <3>3
  <2>4. QED
    BY <2>1, <2>2, <2>3
<1>3. variant'.platform = config.platform /\ T!Select \in DOMAIN case.variants
  BY <1>2 DEF T!Candidates
<1>4. T!Matched' = T!Matched /\ \A m : T!OfModel(m)' = T!OfModel(m)
  BY DEF T!Matched, T!Hit, T!OfModel, T!Candidates
<1>5. QED
  BY <1>2, <1>3, <1>4 DEF T!VariantFits

\* What a step that leaves the choice alone keeps of it.
LEMMA ChoiceKept ==
    ASSUME TestShape, UNCHANGED <<case, config, flaky, variant>>
    PROVE  /\ case' \in Cases /\ config' \in Configs /\ flaky' \in BOOLEAN
           /\ T!VariantFits'
           /\ variant' = None \/ \E i \in DOMAIN case'.variants : variant' = case'.variants[i]
           /\ T!Resolved' = T!Resolved /\ FirstName' = FirstName
           /\ T!Input' = T!Input
<1>1. /\ T!Resolved' = T!Resolved /\ FirstName' = FirstName
      /\ T!Input' = T!Input
  BY DEF T!Resolved, FirstName, T!Name, T!Input
<1>2. T!Matched' = T!Matched /\ \A m : T!OfModel(m)' = T!OfModel(m)
  BY DEF T!Matched, T!Hit, T!OfModel, T!Candidates
<1>3. T!VariantFits'
  BY <1>2 DEF TestShape, T!VariantFits
<1>4. QED
  BY <1>1, <1>3 DEF TestShape, T!TypeOK

LEMMA TestSelect ==
    ASSUME TestInv, T!SelectVariant
    PROVE  TestInv'
<1> USE DEF T!SelectVariant, T!test, TestInv
<1>1. /\ tpc = "select" /\ at = 1 /\ verdict = "none" /\ ~tas
      /\ tpc' \in {"connect", "done"} /\ verdict' \in {"none", "fail"}
      /\ UNCHANGED <<case, config, flaky, at, tas, values, passed>>
  BY DEF TestShape
<1>2. TestShape'
  <2>1. CASE T!Candidates = {}
    BY <1>1, <2>1, ChoiceKept DEF TestShape, T!TypeOK, T!ClosedAtEnd, InLoop
  <2>2. CASE T!Candidates # {}
    <3>1. /\ \E i \in DOMAIN case.variants : variant' = case.variants[i]
          /\ T!VariantFits'
      BY <2>2, SelectFits DEF TestShape
    <3>2. variant' # None
      BY <3>1, TestFacts DEF TestShape
    <3>3. QED
      BY <1>1, <2>2, <3>1, <3>2 DEF TestShape, T!TypeOK, T!ClosedAtEnd, InLoop
  <2>3. QED
    BY <2>1, <2>2
<1>3. Behind'
  BY <1>1 DEF Behind
<1>4. Ends' /\ Fresh'
  BY <1>1 DEF Ends, Fresh
<1>5. QED
  BY <1>2, <1>3, <1>4

\* The loop goes on, or the testcase has passed.
LEMMA LoopHead ==
    ASSUME TestShape, variant # None, NEW n \in Nat, T!Loop(n), verdict = "none"
    PROVE  /\ Len(variant.values) \in Nat
           /\ \/ n <= Len(variant.values) /\ tpc' = "drive" /\ verdict' = "none"
              \/ n > Len(variant.values) /\ tpc' = "finally" /\ verdict' = "pass"
<1>1. Len(variant.values) \in Nat
  BY TestFacts DEF TestShape, T!TypeOK, T!IsSequence
<1>2. QED
  BY <1>1 DEF T!Loop, T!Leave

LEMMA TestConnect ==
    ASSUME TestInv, T!Connect
    PROVE  TestInv'
<1> USE DEF T!Connect, T!test, TestInv
<1>1. /\ tpc = "connect" /\ at = 1 /\ verdict = "none" /\ ~tas /\ variant # None
      /\ UNCHANGED <<case, config, flaky, variant, at, values, passed, bus, moved>>
  BY DEF TestShape
<1>2. /\ Len(variant.values) \in Nat
      /\ \/ 1 <= Len(variant.values) /\ tpc' = "drive" /\ verdict' = "none" /\ tas'
         \/ Len(variant.values) = 0 /\ tpc' = "finally" /\ verdict' = "pass" /\ tas'
         \/ tpc' = "done" /\ verdict' = "error" /\ ~tas'
  <2>1. Len(variant.values) \in Nat
    BY <1>1, TestFacts DEF TestShape, T!TypeOK, T!IsSequence
  <2>2. QED
    BY <1>1, <2>1, LoopHead
<1>2a. tas' \in BOOLEAN
  BY DEF TestShape, T!TypeOK
<1>3. TestShape'
  BY <1>1, <1>2, <1>2a, ChoiceKept DEF TestShape, T!TypeOK, T!ClosedAtEnd, InLoop
<1>4. Behind'
  BY <1>1, <1>2 DEF Behind
<1>5. Ends' /\ Fresh'
  BY <1>1, <1>2 DEF Ends, Fresh
<1>6. QED
  BY <1>3, <1>4, <1>5

\* A step that leaves for the end, or is the end.
LEMMA TestLeave ==
    ASSUME TestInv, tpc \in InLoop \cup {"finally"},
           \/ tpc' = "finally" /\ verdict' \in {"fail", "error"} /\ tas' = tas
           \/ tpc = "finally" /\ tpc' = "done" /\ tas' = FALSE /\ verdict' = verdict,
           UNCHANGED <<case, config, flaky, variant, at, passed>>,
           values' \in T!Memory
    PROVE  TestInv'
<1> USE DEF TestInv
<1>1. TestShape'
  BY ChoiceKept DEF TestShape, T!TypeOK, T!ClosedAtEnd, InLoop
<1>2. Behind'
  BY DEF Behind
<1>3. ~flaky => Ends' /\ Fresh'
  BY ChoiceKept DEF Ends, Fresh
<1>4. QED
  BY <1>1, <1>2, <1>3

LEMMA TestDriveInput ==
    ASSUME TestInv, T!DriveInput
    PROVE  TestInv'
<1> USE DEF T!DriveInput, T!test, TestInv
<1>1. /\ tpc = "drive" /\ T!Input /\ verdict = "none" /\ variant # None
      /\ UNCHANGED <<case, config, flaky, variant, at, tas, values, got, passed>>
  BY DEF TestShape, InLoop
<1>2. values' \in T!Memory
  BY <1>1 DEF TestShape, T!TypeOK
<1>3. CASE T!Leave("error")
  BY <1>1, <1>2, <1>3, TestLeave DEF T!Leave, InLoop
<1>4. CASE bus' = T!Value /\ T!Driven(None)
  <2>1. tpc' = "read" /\ moved' = FALSE /\ verdict' = verdict
    BY <1>4 DEF T!Driven
  <2>2. TestShape'
    <3>0. T!VariantFits'
      BY <1>1, ChoiceKept
    <3>1. T!ClosedAtEnd'
      BY <1>1, <2>1 DEF TestShape, T!ClosedAtEnd
    <3>2. T!TypeOK'
      BY <1>1, <1>2, <2>1, ChoiceKept DEF TestShape, T!TypeOK
    <3>3. QED
      BY <1>1, <2>1, <3>0, <3>1, <3>2 DEF TestShape, InLoop
  <2>3. Behind'
    BY <1>1, <2>1 DEF Behind
  <2>4. T!Value' = T!Value
    BY <1>1 DEF T!Value
  <2>5. ~flaky => Ends'
    BY <1>1, <1>4, <2>1, <2>4, ChoiceKept DEF Ends
  <2>6. ~flaky => Fresh'
    BY <1>1, ChoiceKept DEF Fresh
  <2>7. QED
    BY <1>1, <2>2, <2>3, <2>5, <2>6
<1>5. QED
  BY <1>3, <1>4

\* What a loop over the candidates comes to.
LEMMA TriedFacts ==
    ASSUME TestShape, variant # None, NEW S \in SUBSET T!Resolved, NEW i \in T!Tried(S)
    PROVE  i \in S /\ (~flaky => i = T!FirstOf(S))
<1>1. S \in SUBSET Nat
  BY TestFacts DEF TestShape, T!TypeOK, T!Resolved
<1>2. S # {} => T!FirstOf(S) \in S
  BY <1>1, FirstLeast
<1>3. QED
  BY <1>2 DEF T!Tried

\* The first candidate that can hold a value is the first of all, or that one
\* cannot hold it.
LEMMA FirstThatHolds ==
    ASSUME TestShape, variant # None, NEW v,
           NEW S, S = {k \in T!Resolved : v \in Accepts[T!Name(k)]}, S # {}
    PROVE  T!FirstOf(S) = T!FirstOf(T!Resolved) \/ v \notin Accepts[FirstName]
<1>1. T!Resolved \in SUBSET Nat /\ S \in SUBSET Nat
  BY TestFacts DEF TestShape, T!TypeOK, T!Resolved
<1> DEFINE f == T!FirstOf(T!Resolved)
           g == T!FirstOf(S)
<1>2. SUFFICES ASSUME v \in Accepts[FirstName]
               PROVE  g = f
  OBVIOUS
<1>3. f \in T!Resolved /\ \A k \in T!Resolved : f <= k
  BY <1>1, FirstLeast
<1>4. f \in S /\ FirstName = T!Name(f)
  BY <1>2, <1>3 DEF FirstName
<1>5. g \in S /\ \A k \in S : g <= k
  BY <1>1, FirstLeast
<1> HIDE DEF f, g
<1>6. f <= g /\ g <= f /\ f \in Nat /\ g \in Nat
  BY <1>1, <1>3, <1>4, <1>5
<1>7. QED
  BY <1>6

LEMMA TestDriveOutput ==
    ASSUME TestInv, T!DriveOutput
    PROVE  TestInv'
<1> USE DEF T!DriveOutput, T!test, TestInv
<1>1. /\ tpc = "drive" /\ ~T!Input /\ verdict = "none" /\ variant # None
      /\ UNCHANGED <<case, config, flaky, variant, at, tas, bus, got, passed>>
  BY DEF TestShape, InLoop
<1>2. CASE UNCHANGED values /\ (T!Leave("error") \/ T!Leave("fail"))
  <2>1. values' \in T!Memory
    BY <1>2 DEF TestShape, T!TypeOK
  <2>2. QED
    BY <1>1, <1>2, <2>1, TestLeave DEF T!Leave, InLoop
<1>3. ASSUME NEW i \in T!WriteTo,
             values' = [values EXCEPT ![T!Name(i)] = T!Value], T!Driven(T!Name(i))
      PROVE  TestInv'
  <2> DEFINE S == {k \in T!Resolved : T!Value \in Accepts[T!Name(k)]}
  <2>1. i \in S /\ (~flaky => i = T!FirstOf(S))
    <3>1. S \in SUBSET T!Resolved /\ i \in T!Tried(S)
      BY <1>3 DEF T!WriteTo
    <3> HIDE DEF S
    <3>2. QED
      BY <1>1, <3>1, TriedFacts
  <2>2. T!Name(i) \in T!Variables /\ T!Value \in Accepts[T!Name(i)]
    BY <2>1 DEF T!Resolved, T!Name
  <2>3. values' \in T!Memory
    <3>1. values \in T!Memory
      BY DEF TestShape, T!TypeOK
    <3>2. QED
      BY <1>3, <2>2, <3>1 DEF T!Memory
  <2>4. tpc' = "read" /\ drove' = T!Name(i) /\ moved' = FALSE /\ verdict' = verdict
    BY <1>3 DEF T!Driven
  <2>5. TestShape'
    BY <1>1, <2>3, <2>4, ChoiceKept DEF TestShape, T!TypeOK, T!ClosedAtEnd, InLoop
  <2>6. Behind'
    BY <1>1, <2>4 DEF Behind
  <2>7. T!Value' = T!Value
    BY <1>1 DEF T!Value
  <2>8. ~flaky => Ends'
    <3>1. ~flaky => drove' = FirstName \/ T!Value \notin Accepts[FirstName]
      <4> HIDE DEF S
      <4>1. S = {k \in T!Resolved : T!Value \in Accepts[T!Name(k)]}
        BY DEF S
      <4>2. T!FirstOf(S) = T!FirstOf(T!Resolved) \/ T!Value \notin Accepts[FirstName]
        BY <1>1, <2>1, <4>1, FirstThatHolds
      <4>3. QED
        BY <2>1, <2>4, <4>2 DEF FirstName
    <3>2. QED
      BY <1>1, <2>4, <2>7, <3>1, ChoiceKept DEF Ends
  <2>9. ~flaky => Fresh'
    BY <1>1, ChoiceKept DEF Fresh
  <2>10. QED
    BY <1>1, <2>5, <2>6, <2>8, <2>9
<1>4. QED
  BY <1>2, <1>3

LEMMA TestRead ==
    ASSUME TestInv, T!Read
    PROVE  TestInv'
<1> USE DEF T!Read, T!test, TestInv
<1>1. /\ tpc = "read" /\ verdict = "none" /\ variant # None
      /\ UNCHANGED <<case, config, flaky, variant, at, tas, values, bus, drove, moved, passed>>
      /\ values' \in T!Memory /\ values \in T!Memory
  BY DEF TestShape, T!TypeOK, InLoop
<1>2. CASE T!Leave("fail")
  BY <1>1, <1>2, TestLeave DEF T!Leave, InLoop
<1>3. ASSUME NEW i \in T!ReadFrom, T!Asserted(T!Name(i)), ~T!Leave("fail")
      PROVE  TestInv'
  <2>1. i \in T!Resolved /\ (~flaky => i = T!FirstOf(T!Resolved))
    BY <1>1, <1>3, TriedFacts DEF T!ReadFrom
  <2>2. /\ tpc' = "check" /\ verdict' = verdict
        /\ got' = [name |-> T!Name(i), value |-> values[T!Name(i)]]
        /\ values[T!Name(i)] = T!Value
    BY <1>3 DEF T!Asserted
  <2>3. TestShape'
    BY <1>1, <2>2, ChoiceKept DEF TestShape, T!TypeOK, T!ClosedAtEnd, InLoop
  <2>4. T!Value' = T!Value
    BY <1>1 DEF T!Value
  <2>5. Behind'
    BY <1>1, <2>2, <2>4 DEF Behind
  <2>6. ~flaky => Ends'
    <3> SUFFICES ASSUME ~flaky PROVE Ends'
      OBVIOUS
    <3>1. T!Name(i) = FirstName
      BY <2>1 DEF FirstName
    <3>2. FirstName \in T!Variables /\ values[FirstName] \in Accepts[FirstName]
      BY <1>1, <2>1, FirstResolves DEF T!Memory
    <3>3. T!Value \in Accepts[FirstName]
      BY <2>2, <3>1, <3>2
    <3>4. QED
      BY <1>1, <2>1, <2>2, <2>4, <3>1, <3>3, ChoiceKept DEF Ends
  <2>7. ~flaky => Fresh'
    BY <1>1, ChoiceKept DEF Fresh
  <2>8. QED
    BY <1>1, <2>3, <2>5, <2>6, <2>7
<1>4. QED
  BY <1>2, <1>3

\* A value has passed: its entry is added to the history.
LEMMA TestNextValue ==
    ASSUME TestInv, tpc = "check", T!NextValue, ~T!Input => bus = T!Value,
           UNCHANGED <<case, config, flaky, variant, tas, values, bus, drove, got, moved>>
    PROVE  TestInv'
<1> USE DEF T!NextValue, TestInv
<1>1. /\ verdict = "none" /\ variant # None /\ at \in Nat /\ at >= 1 /\ at' = at + 1
      /\ T!IsSequence(passed) /\ Len(passed) = at - 1 /\ got.value = T!Value
  BY DEF TestShape, Behind, InLoop
<1>2. /\ T!IsSequence(passed') /\ Len(passed') = at
      /\ \A i \in 1..(at - 1) : passed'[i] = passed[i]
      /\ passed'[at] = T!Entry
  <2>1. passed' = Append(passed, T!Entry) /\ Len(passed) + 1 = at
    BY <1>1
  <2>2. QED
    BY <1>1, <2>1, AppendFacts
<1>3. /\ Len(variant.values) \in Nat
      /\ \/ at + 1 <= Len(variant.values) /\ tpc' = "drive" /\ verdict' = "none"
         \/ at + 1 > Len(variant.values) /\ tpc' = "finally" /\ verdict' = "pass"
  BY <1>1, LoopHead
<1>4. at <= Len(variant.values) /\ tas = TRUE
  BY DEF TestShape, InLoop, T!ClosedAtEnd, T!TypeOK
<1>5. TestShape'
  <2>1. at' \in Nat /\ at' >= 1
    BY <1>1
  <2>2. T!TypeOK' /\ T!ClosedAtEnd' /\ T!VariantFits'
    BY <1>3, <1>4, ChoiceKept DEF TestShape, T!TypeOK, T!ClosedAtEnd
  <2>3. case' \in Cases /\ config' \in Configs /\ flaky' \in BOOLEAN
    BY DEF TestShape
  <2>4. QED
    BY <1>1, <1>3, <2>1, <2>2, <2>3 DEF TestShape, InLoop
<1>6. /\ T!Entry.value = variant.values[at] /\ T!Entry.got = got
      /\ T!Entry.drove = drove /\ T!Entry.moved = moved
  BY DEF T!Entry, T!Value
<1>7. \A i \in 1..at : i \in 1..(at - 1) \/ i = at
  BY <1>1
<1>8. \A i \in 1..at :
        passed'[i].value = variant.values[i] /\ passed'[i].got.value = variant.values[i]
  BY <1>1, <1>2, <1>6, <1>7 DEF Behind, T!Value
<1>9. Behind'
  <2>1. at' - 1 = at
    BY <1>1
  <2>2. verdict' = "pass" => at = Len(variant.values)
    BY <1>1, <1>3, <1>4
  <2>3. QED
    BY <1>1, <1>2, <1>3, <1>8, <2>1, <2>2 DEF Behind
<1>10. ~flaky => Ends'
  <2> SUFFICES ASSUME ~flaky PROVE Ends'
    OBVIOUS
  <2>1. values[FirstName] = variant.values[at] /\ bus = variant.values[at]
    BY DEF Ends, T!Value
  <2>2. at' - 1 = at
    BY <1>1
  <2>3. QED
    BY <1>3, <2>1, <2>2, ChoiceKept DEF Ends
<1>11. ~flaky => Fresh'
  <2> SUFFICES ASSUME ~flaky PROVE Fresh'
    OBVIOUS
  <2>1. ~T!Input => got.name = drove
    BY DEF Ends
  <2>2. at > 1 /\ ~moved => variant.values[at] = variant.values[at - 1]
    BY DEF Ends, T!Value
  <2>3. \A i \in 1..at : ~T!Input => passed'[i].got.name = passed'[i].drove
    BY <1>2, <1>6, <1>7, <2>1 DEF Fresh
  <2>4. \A i \in 2..at : passed'[i].value # passed'[i - 1].value => passed'[i].moved
    <3> SUFFICES ASSUME NEW i \in 2..at, passed'[i].value # passed'[i - 1].value
                 PROVE  passed'[i].moved
      OBVIOUS
    <3>1. CASE i \in 2..(at - 1)
      <4>1. i \in 1..(at - 1) /\ i - 1 \in 1..(at - 1)
        BY <1>1, <3>1
      <4>2. QED
        BY <1>2, <3>1, <4>1 DEF Fresh
    <3>2. CASE i = at
      <4>1. at > 1 /\ i - 1 \in 1..at /\ i \in 1..at
        BY <1>1, <3>2
      <4>2. variant.values[at] # variant.values[at - 1]
        BY <1>8, <3>2, <4>1
      <4>3. moved
        BY <2>2, <4>1, <4>2
      <4>4. QED
        BY <1>2, <1>6, <3>2, <4>3
    <3>3. QED
      BY <1>1, <3>1, <3>2
  <2>5. at' - 1 = at /\ T!Input' = T!Input
    BY <1>1, ChoiceKept
  <2>6. QED
    BY <2>3, <2>4, <2>5 DEF Fresh
<1>12. QED
  BY <1>5, <1>9, <1>10, <1>11

LEMMA TestCheck ==
    ASSUME TestInv, T!Check
    PROVE  TestInv'
<1> USE DEF T!Check, T!test
<1>1. /\ tpc = "check"
      /\ UNCHANGED <<case, config, flaky, variant, tas, values, bus, drove, got, moved>>
  OBVIOUS
<1>2. CASE (~T!Input => bus = T!Value) /\ T!NextValue
  BY <1>1, <1>2, TestNextValue
<1>3. CASE T!Leave("fail") /\ UNCHANGED <<at, passed>>
  <2>1. values' \in T!Memory
    BY <1>1 DEF TestInv, TestShape, T!TypeOK
  <2>2. QED
    BY <1>1, <1>3, <2>1, TestLeave DEF T!Leave, InLoop
<1>4. QED
  BY <1>2, <1>3

LEMMA TestFinally ==
    ASSUME TestInv, T!Finally
    PROVE  TestInv'
<1>1. values' \in T!Memory
  BY DEF T!Finally, TestInv, TestShape, T!TypeOK
<1>2. QED
  BY <1>1, TestLeave DEF T!Finally, T!test

\* The ECU takes the value to the other end.
LEMMA TestEcu ==
    ASSUME TestInv, T!Ecu
    PROVE  TestInv'
<1> USE DEF T!Ecu, T!test, TestInv
<1>1. /\ variant # None /\ T!Resolved # {} /\ tpc # "done" /\ moved'
      /\ UNCHANGED <<case, config, flaky, tpc, variant, at, tas, verdict, drove, got, passed>>
      /\ IF T!Input
           THEN /\ bus \in Accepts[FirstName] /\ bus' = bus
                /\ values' = [values EXCEPT ![FirstName] = bus]
           ELSE bus' = values[FirstName] /\ values' = values
  BY DEF FirstName
<1>2. values \in T!Memory /\ FirstName \in T!Variables
  BY <1>1, FirstResolves DEF TestShape, T!TypeOK
<1>3. values' \in T!Memory /\ (T!Input => values'[FirstName] = bus)
  BY <1>1, <1>2 DEF T!Memory
<1>4. TestShape'
  BY <1>1, <1>3, ChoiceKept DEF TestShape, T!TypeOK, T!ClosedAtEnd
<1>5. T!Value' = T!Value
  BY <1>1 DEF T!Value
<1>6. Behind'
  BY <1>1, <1>5 DEF Behind
<1>7. ~flaky => Ends'
  <2> SUFFICES ASSUME ~flaky PROVE Ends'
    OBVIOUS
  <2>1. CASE T!Input
    BY <1>1, <1>3, <1>5, <2>1, ChoiceKept DEF Ends
  <2>2. CASE ~T!Input
    BY <1>1, <1>5, <2>2, ChoiceKept DEF Ends
  <2>3. QED
    BY <2>1, <2>2
<1>8. ~flaky => Fresh'
  BY <1>1, ChoiceKept DEF Fresh
<1>9. QED
  BY <1>1, <1>4, <1>6, <1>7, <1>8

LEMMA TestStays ==
    ASSUME TestInv, UNCHANGED testVars
    PROVE  TestInv'
<1>1. UNCHANGED <<case, config, flaky, tpc, variant, at, tas, values, bus, verdict, drove,
                  got, moved, passed>>
  BY DEF testVars
<1>2. TestShape' /\ T!Value' = T!Value
  BY <1>1, ChoiceKept DEF TestInv, TestShape, T!TypeOK, T!ClosedAtEnd, T!Value
<1>3. Behind' /\ (~flaky => Ends' /\ Fresh')
  BY <1>1, <1>2, ChoiceKept DEF TestInv, Behind, Ends, Fresh
<1>4. QED
  BY <1>1, <1>2, <1>3 DEF TestInv

\* What it comes to at the end.
LEMMA TestMeans ==
    ASSUME TestInv
    PROVE  T!PassMeansPassed
<1>1. Len(passed) = at - 1 /\ DOMAIN passed = 1..(at - 1) /\ at \in Nat
  BY DEF TestInv, TestShape, Behind, T!IsSequence
<1>2. T!PassTestsAll
  <2> SUFFICES ASSUME verdict = "pass"
               PROVE  /\ [i \in DOMAIN passed |-> passed[i].value] = variant.values
                      /\ \A i \in DOMAIN passed : passed[i].got.value = passed[i].value
    BY DEF T!PassTestsAll
  <2>1. variant # None /\ at - 1 = Len(variant.values)
    BY DEF TestInv, Behind
  <2>2. variant.values = [i \in 1..Len(variant.values) |-> variant.values[i]]
    <3>1. PICK i \in DOMAIN case.variants : variant = case.variants[i]
      BY <2>1 DEF TestInv, TestShape, T!TypeOK
    <3>2. T!IsSequence(variant.values)
      BY <3>1, TestFacts DEF TestInv, TestShape
    <3>3. QED
      BY <3>2 DEF T!IsSequence
  <2>3. \A i \in 1..(at - 1) :
          passed[i].value = variant.values[i] /\ passed[i].got.value = variant.values[i]
    BY <2>1 DEF TestInv, Behind
  <2>4. QED
    BY <1>1, <2>1, <2>2, <2>3
<1>3. T!PassReadsWritten
  BY <1>1 DEF T!PassReadsWritten, TestInv, Fresh
<1>4. T!FreshValues
  BY <1>1 DEF T!FreshValues, TestInv, Fresh
<1>5. QED
  BY <1>2, <1>3, <1>4 DEF T!PassMeansPassed, TestInv, TestShape

(* What a pass of a testcase means, for any cases and configurations and    *)
(* whatever the ECU, the bus and the accesses do.                           *)
THEOREM PassIsMeant == BenchSpec => []PassMeansPassed
<1> DEFINE Inv == part = "test" => TestInv
<1>1. BenchInit => Inv
  BY TestInit DEF BenchInit
<1>2. Inv /\ [BenchNext]_benchVars => Inv'
  <2> SUFFICES ASSUME Inv, [BenchNext]_benchVars, part' = "test"
               PROVE  TestInv'
    OBVIOUS
  <2>1. CASE T!Next /\ part = "test"
    BY <2>1, TestSelect, TestConnect, TestDriveInput, TestDriveOutput, TestRead,
       TestCheck, TestFinally, TestEcu DEF T!Next, T!Runner
  <2>2. CASE UNCHANGED testVars /\ part = "test"
    BY <2>2, TestStays
  <2>3. QED
    BY <2>1, <2>2 DEF BenchNext, RelayStep, RecordStep, TestStep, benchVars
<1>3. Inv => PassMeansPassed
  BY TestMeans DEF PassMeansPassed
<1> HIDE DEF Inv
<1>4. QED
  BY <1>1, <1>2, <1>3, PTL DEF BenchSpec

-----------------------------------------------------------------------------
(* Records: recursion over the positions of a sequence.                     *)

\* Every set of numbers has a least one.
LEMMA LeastNumber ==
    ASSUME NEW S \in SUBSET Nat, S # {}
    PROVE  \E m \in S : \A k \in S : m <= k
<1> DEFINE R == OpToRel(<, Nat)
<1>1. IsWellFoundedOn(R, Nat)
  BY NatLessThanWellFounded
<1>2. \A x, y \in Nat : <<y, x>> \in R <=> y < x
  BY DEF OpToRel
<1> HIDE DEF R
<1>3. PICK m \in S : \A k \in S : ~(<<k, m>> \in R)
  BY <1>1, WFMin
<1>4. \A k \in S : ~(k < m)
  BY <1>2, <1>3
<1>5. \A k \in S : m <= k
  BY <1>4
<1>6. QED
  BY <1>5

\* Induction up to n, for a set of numbers.
LEMMA UpTo ==
    ASSUME NEW n \in Nat, NEW P, 0 \in P, \A i \in 1..n : i - 1 \in P => i \in P
    PROVE  \A i \in 0..n : i \in P
<1> DEFINE Bad == {i \in 0..n : i \notin P}
<1>1. ASSUME Bad # {} PROVE FALSE
  <2>1. Bad \in SUBSET Nat
    OBVIOUS
  <2>2. PICK m \in Bad : \A k \in Bad : m <= k
    BY <1>1, <2>1, LeastNumber
  <2>3. m \in 1..n /\ m - 1 \in 0..n /\ ~(m <= m - 1)
    OBVIOUS
  <2>4. m - 1 \in P
    BY <2>2, <2>3
  <2>5. QED
    BY <2>3, <2>4
<1>2. QED
  BY <1>1

\* A function over 0..n by recursion with a given step, and its existence.
Steps(step, n, S, first) ==
    n \in Nat /\ first \in S /\ step \in [(1..n) \X S -> S]
Iterates(f, step, n, S, first) ==
    /\ f \in [0..n -> S] /\ f[0] = first
    /\ \A i \in 1..n : f[i] = step[<<i, f[i - 1]>>]

LEMMA RecursionExists ==
    ASSUME NEW n, NEW S, NEW first, NEW step, Steps(step, n, S, first)
    PROVE  \E f : Iterates(f, step, n, S, first)
<1> USE DEF Steps
<1> DEFINE Follows(k, f) == f[0] = first /\ \A i \in 1..k : f[i] = step[<<i, f[i - 1]>>]
           P == {k \in 0..n : \E f \in [0..k -> S] : Follows(k, f)}
<1>1. 0 \in P
  <2> DEFINE g == [i \in 0..0 |-> first]
  <2>1. g \in [0..0 -> S] /\ g[0] = first
    OBVIOUS
  <2>2. Follows(0, g)
    BY <2>1
  <2>3. \E f \in [0..0 -> S] : Follows(0, f)
    BY <2>1, <2>2
  <2>4. 0 \in 0..n
    OBVIOUS
  <2>5. QED
    BY <2>3, <2>4
<1>2. ASSUME NEW k \in 1..n, k - 1 \in P
      PROVE  k \in P
  <2>1. PICK f \in [0..(k - 1) -> S] : Follows(k - 1, f)
    BY <1>2
  <2> DEFINE g == [i \in 0..k |-> IF i = k THEN step[<<k, f[k - 1]>>] ELSE f[i]]
  <2>2. f[k - 1] \in S /\ step[<<k, f[k - 1]>>] \in S
    OBVIOUS
  <2>3. g \in [0..k -> S]
    BY <2>2
  <2>4. \A i \in 0..(k - 1) : g[i] = f[i]
    OBVIOUS
  <2>5. g[k] = step[<<k, g[k - 1]>>]
    <3>1. k \in 0..k /\ k - 1 \in 0..(k - 1)
      OBVIOUS
    <3>2. g[k - 1] = f[k - 1]
      BY <2>4, <3>1
    <3>3. g[k] = step[<<k, f[k - 1]>>]
      BY <3>1
    <3>4. QED
      BY <3>2, <3>3
  <2>6. \A i \in 1..k : g[i] = step[<<i, g[i - 1]>>]
    <3> TAKE i \in 1..k
    <3>1. CASE i = k
      BY <2>5, <3>1
    <3>2. CASE i # k
      <4>1. i \in 1..(k - 1) /\ i - 1 \in 0..(k - 1) /\ i \in 0..(k - 1)
        BY <3>2
      <4>2. QED
        BY <2>1, <2>4, <4>1
    <3>3. QED
      BY <3>1, <3>2
  <2>7. g[0] = first
    <3>1. 0 \in 0..(k - 1)
      OBVIOUS
    <3>2. QED
      BY <2>1, <2>4, <3>1
  <2>8. k \in 0..n
    OBVIOUS
  <2> HIDE DEF g
  <2>9. QED
    BY <2>3, <2>6, <2>7, <2>8
<1>3. n \in P
  <2> HIDE DEF P
  <2>1. QED
    BY <1>1, <1>2, UpTo
<1>4. QED
  BY <1>3 DEF Iterates

-----------------------------------------------------------------------------
(* Where the entries of a record stand.                                     *)

SizeOf(es, k) == Len(es[k].value)
EndOf(es) == Record!Starts(es)[Len(es)]

\* What the assumptions say of an entry.
LEMMA EntryFacts ==
    ASSUME NEW es, Record!ListOf(es)
    PROVE  /\ Len(es) \in Nat /\ DOMAIN es = 1..Len(es)
           /\ \A k \in 1..Len(es) :
                /\ es[k].id \in Nat /\ es[k].id > 0 /\ es[k].id < 65536 /\ es[k].type \in DOMAIN Types /\ es[k].type \in Record!Byte
                /\ es[k].value \in Seq(Record!Byte)
                /\ SizeOf(es, k) \in Nat \ {0} /\ SizeOf(es, k) = Types[es[k].type].size
<1>1. \A t \in DOMAIN Types : t \in Record!Byte /\ Types[t].size \in Nat \ {0}
  BY RecordAssumption DEF Record!SignalsAssumption
<1>2. QED
  BY <1>1 DEF SizeOf, Record!ListOf, Record!ValidId

LEMMA StartsFacts ==
    ASSUME NEW es, Record!ListOf(es)
    PROVE  /\ Record!Starts(es) \in [0..Len(es) -> Nat]
           /\ Record!Starts(es)[0] = 0
           /\ \A k \in 1..Len(es) :
                Record!Starts(es)[k] = Record!Starts(es)[k - 1] + 4 + SizeOf(es, k)
<1> DEFINE n == Len(es)
           step == [x \in (1..n) \X Nat |-> x[2] + 4 + SizeOf(es, x[1])]
           Eq(f) == f = [k \in 0..n |-> IF k = 0 THEN 0 ELSE f[k - 1] + 4 + SizeOf(es, k)]
           f0 == Record!Starts(es)
<1>1. n \in Nat /\ \A k \in 1..n : SizeOf(es, k) \in Nat
  BY EntryFacts
<1>2. step \in [(1..n) \X Nat -> Nat]
  BY <1>1
<1>3. PICK f : Iterates(f, step, n, Nat, 0)
  <2>1. Steps(step, n, Nat, 0)
    <3> HIDE DEF step, n
    <3>1. QED
      BY <1>1, <1>2 DEF Steps
  <2> HIDE DEF step, n
  <2>2. QED
    BY <2>1, RecursionExists
<1>4. /\ f \in [0..n -> Nat] /\ f[0] = 0
      /\ \A k \in 1..n : f[k] = step[<<k, f[k - 1]>>]
  <2> HIDE DEF step, n
  <2>1. QED
    BY <1>3 DEF Iterates
<1>5. \A k \in 1..n : f[k] = f[k - 1] + 4 + SizeOf(es, k)
  <2> TAKE k \in 1..n
  <2>1. f[k - 1] \in Nat
    BY <1>1, <1>4
  <2>2. step[<<k, f[k - 1]>>] = f[k - 1] + 4 + SizeOf(es, k)
    BY <2>1
  <2>3. QED
    BY <1>4, <2>2
<1>6. Eq(f)
  <2> HIDE DEF n
  <2>1. \A k \in 0..n : f[k] = IF k = 0 THEN 0 ELSE f[k - 1] + 4 + SizeOf(es, k)
    BY <1>1, <1>4, <1>5
  <2>2. f = [k \in 0..n |-> f[k]]
    BY <1>4
  <2>3. QED
    BY <2>1, <2>2
<1>7. f0 = CHOOSE g : Eq(g)
  BY DEF Record!Starts, Record!HeaderSize, SizeOf
<1>8. Eq(f0)
  <2> HIDE DEF f0, Eq
  <2>1. QED
    BY <1>6, <1>7
<1> HIDE DEF f0, n
<1>9. f0[0] = 0 /\ \A k \in 1..n : f0[k] = f0[k - 1] + 4 + SizeOf(es, k)
  <2>1. \A k \in 0..n : f0[k] = IF k = 0 THEN 0 ELSE f0[k - 1] + 4 + SizeOf(es, k)
    BY <1>8
  <2>2. 0 \in 0..n /\ \A k \in 1..n : k \in 0..n /\ k # 0
    BY <1>1
  <2>3. QED
    BY <2>1, <2>2
<1>10. \A k \in 0..n : f0[k] \in Nat
  <2> DEFINE P == {k \in 0..n : f0[k] \in Nat}
  <2>1. 0 \in P
    BY <1>1, <1>9
  <2>2. ASSUME NEW k \in 1..n, k - 1 \in P
        PROVE  k \in P
    BY <1>1, <1>9, <2>2
  <2> HIDE DEF P
  <2>3. \A k \in 0..n : k \in P
    BY <1>1, <2>1, <2>2, UpTo
  <2>4. QED
    BY <2>3 DEF P
<1>11. f0 = [k \in 0..n |-> f0[k]]
  BY <1>8
<1>12. QED
  BY <1>9, <1>10, <1>11 DEF f0, n

\* One entry stands after the other.
LEMMA StartsGrow ==
    ASSUME NEW es, Record!ListOf(es)
    PROVE  /\ \A k \in 0..Len(es) : \A j \in 0..k :
                Record!Starts(es)[j] + 5 * (k - j) <= Record!Starts(es)[k]
<1> DEFINE f == Record!Starts(es)
           P == {k \in 0..Len(es) : \A j \in 0..k : f[j] + 5 * (k - j) <= f[k]}
<1>1. /\ Len(es) \in Nat /\ f \in [0..Len(es) -> Nat]
      /\ \A k \in 1..Len(es) : f[k] = f[k - 1] + 4 + SizeOf(es, k) /\ SizeOf(es, k) \in Nat \ {0}
  BY EntryFacts, StartsFacts
<1> HIDE DEF f
<1>2. 0 \in P
  BY <1>1
<1>3. ASSUME NEW k \in 1..Len(es), k - 1 \in P
      PROVE  k \in P
  <2>1. f[k] >= f[k - 1] + 5 /\ f[k - 1] \in Nat /\ f[k] \in Nat
    BY <1>1
  <2>2. ASSUME NEW j \in 0..k
        PROVE  f[j] + 5 * (k - j) <= f[k]
    <3>1. CASE j = k
      BY <1>1, <3>1
    <3>2. CASE j # k
      <4>1. j \in 0..(k - 1) /\ f[j] \in Nat
        BY <1>1, <3>2
      <4>2. f[j] + 5 * ((k - 1) - j) <= f[k - 1]
        BY <1>3, <4>1
      <4>3. QED
        BY <1>1, <2>1, <4>1, <4>2
    <3>3. QED
      BY <3>1, <3>2
  <2>3. QED
    BY <1>1, <2>2
<1>4. \A k \in 0..Len(es) : k \in P
  <2> HIDE DEF P
  <2>1. QED
    BY <1>1, <1>2, <1>3, UpTo
<1>5. QED
  BY <1>4 DEF f

\* The bytes of the values; all others say what the record is.
Valued(es) ==
    {i \in 1..EndOf(es) : \E k \in 1..Len(es) :
       Record!Starts(es)[k - 1] + 4 < i /\ i <= Record!Starts(es)[k]}

LEMMA HeadersAreNot ==
    ASSUME NEW es, Record!ListOf(es)
    PROVE  /\ \A k \in 1..Len(es) : \A c \in 1..4 : Record!Starts(es)[k - 1] + c \notin Valued(es)
           /\ \A i \in Nat : i > EndOf(es) => i \notin Valued(es)
           /\ \A k \in 1..Len(es) :
                \A i \in (Record!Starts(es)[k - 1] + 5)..Record!Starts(es)[k] :
                  i \in Valued(es) /\ i <= EndOf(es)
<1> DEFINE f == Record!Starts(es)
<1>1. /\ Len(es) \in Nat /\ f \in [0..Len(es) -> Nat]
      /\ \A k \in 1..Len(es) : f[k] = f[k - 1] + 4 + SizeOf(es, k) /\ SizeOf(es, k) \in Nat \ {0}
  BY EntryFacts, StartsFacts
<1>0. Len(es) \in Nat /\ \A k \in 0..Len(es) : f[k] \in Nat
  BY <1>1
<1>2. \A k \in 0..Len(es) : \A j \in 0..k : f[j] <= f[k]
  <2> TAKE k \in 0..Len(es)
  <2> TAKE j \in 0..k
  <2>1. f[j] + 5 * (k - j) <= f[k]
    BY StartsGrow
  <2>2. f[j] \in Nat /\ f[k] \in Nat /\ 5 * (k - j) >= 0
    BY <1>1
  <2>3. QED
    BY <2>1, <2>2
<1> HIDE DEF f
<1>3. ASSUME NEW k \in 1..Len(es), NEW c \in 1..4, f[k - 1] + c \in Valued(es)
      PROVE  FALSE
  <2>1. PICK j \in 1..Len(es) : f[j - 1] + 4 < f[k - 1] + c /\ f[k - 1] + c <= f[j]
    BY <1>3 DEF Valued, f
  <2>2. f[j - 1] \in Nat /\ f[k - 1] \in Nat /\ f[j] \in Nat /\ f[k] \in Nat
    <3>1. {j - 1, k - 1, j, k} \subseteq 0..Len(es)
      BY <1>0
    <3>2. QED
      BY <1>0, <3>1
  <2>3. CASE j < k
    <3>1. j \in 0..(k - 1) /\ k - 1 \in 0..Len(es)
      BY <1>0, <2>3
    <3>2. f[j] <= f[k - 1]
      BY <1>2, <3>1
    <3>3. QED
      BY <2>1, <2>2, <3>2
  <2>4. CASE j = k
    BY <2>1, <2>2, <2>4
  <2>5. CASE j > k
    <3>1. k \in 0..(j - 1) /\ j - 1 \in 0..Len(es)
      BY <1>0, <2>5
    <3>2. f[k] <= f[j - 1]
      BY <1>2, <3>1
    <3>3. f[k] > f[k - 1] + 4
      <4>1. f[k] = f[k - 1] + 4 + SizeOf(es, k) /\ SizeOf(es, k) \in Nat \ {0}
        BY <1>1
      <4>2. QED
        BY <2>2, <4>1
    <3>4. c \in Nat /\ c <= 4
      OBVIOUS
    <3> HIDE <1>3
    <3>5. f[j - 1] + 4 < f[k - 1] + c
      BY <2>1
    <3>6. QED
      BY <2>2, <3>2, <3>3, <3>4, <3>5
  <2>6. QED
    BY <2>3, <2>4, <2>5
<1>4. EndOf(es) \in Nat
  BY <1>1 DEF EndOf, f
<1>5. \A i \in Nat : i > EndOf(es) => i \notin Valued(es)
  BY <1>4 DEF Valued
<1>6. ASSUME NEW k \in 1..Len(es), NEW i \in (f[k - 1] + 5)..f[k]
      PROVE  i \in Valued(es) /\ i <= EndOf(es)
  <2>1. k \in 0..Len(es) /\ Len(es) \in 0..Len(es) /\ k \in 0..Len(es) /\ k - 1 \in 0..Len(es)
    BY <1>1
  <2>2. f[k] <= EndOf(es) /\ f[k - 1] \in Nat /\ f[k] \in Nat
    BY <1>1, <1>2, <2>1 DEF EndOf, f
  <2>3. i \in 1..EndOf(es) /\ f[k - 1] + 4 < i /\ i <= f[k]
    BY <1>4, <2>2
  <2>4. QED
    BY <1>4, <2>3 DEF Valued, f
<1>7. QED
  BY <1>3, <1>5, <1>6 DEF f

-----------------------------------------------------------------------------
(* A record in memory.                                                      *)

\* raw is laid out as the record es.
Laid(raw, es) ==
    /\ raw \in Seq(Record!Byte)
    /\ EndOf(es) <= Len(raw)
    /\ \A k \in 1..Len(es) : /\ Record!IdAt(raw, Record!Starts(es)[k - 1]) = es[k].id
                             /\ Record!TypeAt(raw, Record!Starts(es)[k - 1]) = es[k].type
    /\ ~Record!IsEntry(raw, EndOf(es))

\* The loop's offsets, by recursion.
LEMMA OffsetsFacts ==
    ASSUME NEW raw \in Seq(Record!Byte)
    PROVE  /\ Record!Most(raw) \in Nat
           /\ Record!Offsets(raw) \in [0..Record!Most(raw) -> Nat]
           /\ Record!Offsets(raw)[0] = 0
           /\ \A i \in 1..Record!Most(raw) : Record!Offsets(raw)[i] =
                IF Record!IsEntry(raw, Record!Offsets(raw)[i - 1])
                THEN Record!ValueEnd(raw, Record!Offsets(raw)[i - 1])
                ELSE Record!Offsets(raw)[i - 1]
<1> DEFINE n == Record!Most(raw)
           Further(o) == IF Record!IsEntry(raw, o) THEN Record!ValueEnd(raw, o) ELSE o
           step == [x \in (1..n) \X Nat |-> Further(x[2])]
           Eq(f) == f = [i \in 0..n |-> IF i = 0 THEN 0 ELSE Further(f[i - 1])]
           f0 == Record!Offsets(raw)
<1>1. n \in Nat
  BY LenProperties DEF Record!Most, Record!HeaderSize
<1>2. \A o \in Nat : Further(o) \in Nat
  <2> TAKE o \in Nat
  <2>1. CASE Record!IsEntry(raw, o)
    <3>1. Types[Record!TypeAt(raw, o)].size \in Nat
      BY <2>1, RecordAssumption DEF Record!SignalsAssumption, Record!IsEntry
    <3>2. Record!ValueEnd(raw, o) \in Nat
      BY <3>1 DEF Record!ValueEnd, Record!HeaderSize
    <3>3. QED
      BY <2>1, <3>2
  <2>2. CASE ~Record!IsEntry(raw, o)
    BY <2>2
  <2>3. QED
    BY <2>1, <2>2
<1> HIDE DEF Further
<1>3. PICK f : Iterates(f, step, n, Nat, 0)
  <2>1. step \in [(1..n) \X Nat -> Nat]
    BY <1>2
  <2>2. Steps(step, n, Nat, 0)
    <3> HIDE DEF step, n
    <3>1. QED
      BY <1>1, <2>1 DEF Steps
  <2> HIDE DEF step, n
  <2>3. QED
    BY <2>2, RecursionExists
<1>4. /\ f \in [0..n -> Nat] /\ f[0] = 0
      /\ \A i \in 1..n : f[i] = step[<<i, f[i - 1]>>]
  <2> HIDE DEF step, n
  <2>1. QED
    BY <1>3 DEF Iterates
<1>5. \A i \in 1..n : f[i] = Further(f[i - 1])
  <2> HIDE DEF n
  <2> TAKE i \in 1..n
  <2>1. f[i - 1] \in Nat
    BY <1>1, <1>4
  <2>2. step[<<i, f[i - 1]>>] = Further(f[i - 1])
    BY <2>1
  <2>3. QED
    BY <1>4, <2>2
<1>6. Eq(f)
  <2> HIDE DEF n
  <2>1. \A i \in 0..n : f[i] = IF i = 0 THEN 0 ELSE Further(f[i - 1])
    BY <1>1, <1>4, <1>5
  <2>2. f = [i \in 0..n |-> f[i]]
    BY <1>4
  <2>3. QED
    BY <2>1, <2>2
<1>7. f0 = CHOOSE g : Eq(g)
  BY DEF Record!Offsets, Further
<1>8. Eq(f0)
  <2> HIDE DEF f0, Eq
  <2>1. QED
    BY <1>6, <1>7
<1> HIDE DEF f0, n
<1>9. f0[0] = 0 /\ \A i \in 1..n : f0[i] = Further(f0[i - 1])
  <2>1. \A i \in 0..n : f0[i] = IF i = 0 THEN 0 ELSE Further(f0[i - 1])
    BY <1>8
  <2>2. 0 \in 0..n /\ \A i \in 1..n : i \in 0..n /\ i # 0
    BY <1>1
  <2>3. QED
    BY <2>1, <2>2
<1>10. \A i \in 0..n : f0[i] \in Nat
  <2> DEFINE P == {i \in 0..n : f0[i] \in Nat}
  <2>1. 0 \in P
    BY <1>1, <1>9
  <2>2. ASSUME NEW i \in 1..n, i - 1 \in P
        PROVE  i \in P
    <3>1. f0[i - 1] \in Nat /\ f0[i] = Further(f0[i - 1]) /\ i \in 0..n
      BY <1>1, <1>9, <2>2
    <3>2. QED
      BY <1>2, <3>1
  <2> HIDE DEF P
  <2>3. \A i \in 0..n : i \in P
    BY <1>1, <2>1, <2>2, UpTo
  <2>4. QED
    BY <2>3 DEF P
<1>11. f0 = [i \in 0..n |-> f0[i]]
  BY <1>8
<1>12. f0 \in [0..n -> Nat]
  BY <1>10, <1>11
<1>13. QED
  BY <1>1, <1>9, <1>12 DEF f0, n, Further

\* The loop comes to every entry, one after the other, and to nothing else.
LEMMA LaidEntries ==
    ASSUME NEW es, NEW raw, Record!ListOf(es), Laid(raw, es)
    PROVE  /\ \A k \in 1..Len(es) :
                /\ Record!IsEntry(raw, Record!Starts(es)[k - 1])
                /\ Record!ValueEnd(raw, Record!Starts(es)[k - 1]) = Record!Starts(es)[k]
           /\ Record!Entries(raw) = {Record!Starts(es)[k - 1] : k \in 1..Len(es)}
<1> DEFINE f == Record!Starts(es)
           n == Len(es)
           place == Record!Offsets(raw)
           m == Record!Most(raw)
<1>0. /\ n \in Nat /\ f[0] = 0 /\ \A k \in 0..n : f[k] \in Nat
  <2>1. n \in Nat /\ f \in [0..n -> Nat] /\ f[0] = 0
    BY EntryFacts, StartsFacts
  <2>2. QED
    BY <2>1
<1>1. \A k \in 1..n : f[k] = f[k - 1] + 4 + SizeOf(es, k) /\ SizeOf(es, k) \in Nat \ {0}
  BY EntryFacts, StartsFacts
<1>a. \A k \in 1..n : es[k].id > 0 /\ es[k].type \in DOMAIN Types
  BY EntryFacts
<1>b. \A k \in 1..n : SizeOf(es, k) = Types[es[k].type].size
  BY EntryFacts
<1>2. raw \in Seq(Record!Byte) /\ Len(raw) \in Nat /\ f[n] <= Len(raw) /\ ~Record!IsEntry(raw, f[n])
  BY LenProperties DEF Laid, EndOf
<1>3. \A k \in 0..n : \A j \in 0..k : f[j] + 5 * (k - j) <= f[k]
  BY StartsGrow
<1> HIDE DEF f
<1>4. ASSUME NEW k \in 1..n
      PROVE  Record!IsEntry(raw, f[k - 1]) /\ Record!ValueEnd(raw, f[k - 1]) = f[k]
  <2>1. Record!IdAt(raw, f[k - 1]) = es[k].id /\ Record!TypeAt(raw, f[k - 1]) = es[k].type
    BY DEF Laid, f
  <2>2. /\ f[k - 1] \in Nat /\ f[k] \in Nat /\ f[n] \in Nat
        /\ f[k] = f[k - 1] + 4 + SizeOf(es, k) /\ SizeOf(es, k) \in Nat
    <3>1. f[k] = f[k - 1] + 4 + SizeOf(es, k) /\ SizeOf(es, k) \in Nat \ {0}
      BY <1>1
    <3>2. f[k - 1] \in Nat /\ f[k] \in Nat /\ f[n] \in Nat
      BY <1>0
    <3>3. QED
      BY <3>1, <3>2
  <2>3. Record!ValueEnd(raw, f[k - 1]) = f[k]
    BY <1>b, <2>1, <2>2 DEF Record!ValueEnd, Record!HeaderSize
  <2>4. f[k] <= f[n]
    <3>1. n \in 0..n /\ k \in 0..n
      BY <1>0
    <3>2. f[k] + 5 * (n - k) <= f[n] /\ 5 * (n - k) >= 0
      <4>1. f[k] + 5 * (n - k) <= f[n]
        BY <1>3, <3>1
      <4>2. QED
        BY <1>0, <4>1
    <3>3. QED
      BY <2>2, <3>2
  <2>5. f[k - 1] + 4 <= Len(raw) /\ f[k] <= Len(raw)
    BY <1>2, <2>2, <2>4
  <2>6. es[k].id # 0 /\ es[k].type \in DOMAIN Types
    BY <1>a
  <2>7. QED
    BY <2>1, <2>3, <2>5, <2>6 DEF Record!IsEntry, Record!HeaderSize
<1>5. /\ m \in Nat /\ place \in [0..m -> Nat] /\ place[0] = 0
      /\ \A i \in 1..m : place[i] = IF Record!IsEntry(raw, place[i - 1])
                                 THEN Record!ValueEnd(raw, place[i - 1]) ELSE place[i - 1]
  BY <1>2, OffsetsFacts
<1>6. n <= m
  <2>1. f[0] + 5 * (n - 0) <= f[n] /\ f[n] \in Nat
    <3>1. 0 \in 0..n /\ n \in 0..n
      BY <1>0
    <3>2. QED
      BY <1>0, <1>3, <3>1
  <2>2. 4 * n <= Len(raw)
    BY <1>0, <1>2, <2>1
  <2>3. QED
    BY <1>0, <1>2, <2>2 DEF Record!Most, Record!HeaderSize
<1> HIDE DEF place, m, n
<1>7. \A i \in 0..m : place[i] = f[IF i <= n THEN i ELSE n]
  <2> DEFINE P == {i \in 0..m : place[i] = f[IF i <= n THEN i ELSE n]}
  <2>1. 0 \in P
    BY <1>0, <1>5
  <2>2. ASSUME NEW i \in 1..m, i - 1 \in P
        PROVE  i \in P
    <3>1. CASE i <= n
      <4>1. place[i - 1] = f[i - 1] /\ i \in 1..n
        BY <1>0, <1>5, <2>2, <3>1
      <4>2. place[i] = f[i]
        BY <1>4, <1>5, <4>1
      <4>3. QED
        BY <1>5, <3>1, <4>2
    <3>2. CASE i > n
      <4>1. place[i - 1] = f[n]
        <5>1. place[i - 1] = f[IF i - 1 <= n THEN i - 1 ELSE n]
          BY <2>2
        <5>2. i - 1 <= n => i - 1 = n
          BY <1>0, <1>5, <3>2
        <5>3. QED
          BY <5>1, <5>2
      <4>2. place[i] = f[n]
        BY <1>2, <1>5, <4>1
      <4>3. QED
        BY <1>0, <1>5, <3>2, <4>2
    <3>3. QED
      BY <1>0, <1>5, <3>1, <3>2
  <2> HIDE DEF P
  <2>3. \A i \in 0..m : i \in P
    BY <1>5, <2>1, <2>2, UpTo
  <2>4. QED
    BY <2>3 DEF P
<1>8. Record!Entries(raw) = {o \in {place[i] : i \in 0..m} : Record!IsEntry(raw, o)}
  BY DEF Record!Entries, place, m
<1>9. ASSUME NEW o \in Record!Entries(raw)
      PROVE  o \in {f[k - 1] : k \in 1..n}
  <2>1. PICK i \in 0..m : o = place[i]
    BY <1>8
  <2>2. Record!IsEntry(raw, o)
    BY <1>8
  <2>3. i < n
    <3>1. CASE i >= n
      <4>1. o = f[n]
        BY <1>0, <1>7, <2>1, <3>1
      <4>2. QED
        BY <1>2, <2>2, <4>1
    <3>2. QED
      BY <1>0, <1>5, <3>1
  <2>4. o = f[i] /\ i + 1 \in 1..n /\ (i + 1) - 1 = i
    BY <1>0, <1>5, <1>7, <2>1, <2>3
  <2>5. QED
    BY <2>4
<1>10. ASSUME NEW k \in 1..n
       PROVE  f[k - 1] \in Record!Entries(raw)
  <2>1. k - 1 \in 0..m /\ k - 1 <= n
    BY <1>0, <1>5, <1>6
  <2>2. place[k - 1] = f[k - 1]
    BY <1>7, <2>1
  <2>3. QED
    BY <1>4, <1>8, <2>1, <2>2
<1>11. Record!Entries(raw) = {f[k - 1] : k \in 1..n}
  BY <1>9, <1>10
<1>12. QED
  BY <1>4, <1>11 DEF f, n

LEMMA LaidEntriesOf ==
    ASSUME NEW es, NEW raw, Record!ListOf(es), Laid(raw, es), NEW id
    PROVE  Record!EntriesOf(raw, id) = {Record!Starts(es)[k - 1] : k \in Record!Positions(es, id)}
<1>1. DOMAIN es = 1..Len(es)
  BY EntryFacts
<1>2. Record!Entries(raw) = {Record!Starts(es)[k - 1] : k \in 1..Len(es)}
  BY LaidEntries
<1>3. \A k \in 1..Len(es) : Record!IdAt(raw, Record!Starts(es)[k - 1]) = es[k].id
  BY DEF Laid
<1>4. QED
  BY <1>1, <1>2, <1>3 DEF Record!EntriesOf, Record!Positions

\* The first and the last of some positions.
LEMMA Extremes ==
    ASSUME NEW n \in Nat, NEW K \in SUBSET (1..n), K # {}
    PROVE  (\E k \in K : \A j \in K : k <= j) /\ (\E k \in K : \A j \in K : j <= k)
<1>1. \E k \in K : \A j \in K : k <= j
  <2>1. K \in SUBSET Nat
    OBVIOUS
  <2>2. QED
    BY <2>1, LeastNumber
<1>2. \E k \in K : \A j \in K : j <= k
  <2> DEFINE L == {n - k : k \in K}
  <2>1. L \in SUBSET Nat /\ L # {}
    <3>1. \A k \in K : n - k \in Nat
      OBVIOUS
    <3>2. QED
      BY <3>1
  <2>2. PICK l \in L : \A x \in L : l <= x
    BY <2>1, LeastNumber
  <2>3. PICK k \in K : l = n - k
    OBVIOUS
  <2>4. ASSUME NEW j \in K
        PROVE  j <= k
    <3>1. n - j \in L /\ j \in Nat /\ k \in Nat
      OBVIOUS
    <3>2. n - k <= n - j
      BY <2>2, <2>3, <3>1
    <3>3. QED
      BY <3>1, <3>2
  <2>5. QED
    BY <2>4
<1>3. QED
  BY <1>1, <1>2

LEMMA StartsOrdered ==
    ASSUME NEW es, Record!ListOf(es), NEW j \in 1..Len(es), NEW k \in 1..Len(es), j <= k
    PROVE  /\ Record!Starts(es)[j - 1] \in Nat /\ Record!Starts(es)[k - 1] \in Nat
           /\ Record!Starts(es)[j - 1] <= Record!Starts(es)[k - 1]
<1>1. Len(es) \in Nat /\ Record!Starts(es) \in [0..Len(es) -> Nat]
  BY EntryFacts, StartsFacts
<1>2. k - 1 \in 0..Len(es) /\ j - 1 \in 0..(k - 1) /\ j - 1 \in 0..Len(es)
  BY <1>1
<1>3. Record!Starts(es)[j - 1] + 5 * ((k - 1) - (j - 1)) <= Record!Starts(es)[k - 1]
  BY <1>2, StartsGrow
<1>4. Record!Starts(es)[j - 1] \in Nat /\ Record!Starts(es)[k - 1] \in Nat
  BY <1>1, <1>2
<1>5. 5 * ((k - 1) - (j - 1)) >= 0
  BY <1>2
<1>6. QED
  BY <1>3, <1>4, <1>5

\* parse_signal_id_value_by_data gives the last value of every id of the record.
LEMMA LaidParses ==
    ASSUME NEW es, NEW raw, Record!ListOf(es), Laid(raw, es)
    PROVE  /\ DOMAIN Record!Parse(raw) = Record!IdsOf(es)
           /\ \A id \in Record!IdsOf(es) :
                \E k \in Record!Positions(es, id) :
                  /\ \A j \in Record!Positions(es, id) : j <= k
                  /\ Record!Parse(raw)[id] = Record!ValueIn(raw, es, k)
<1>1. /\ Len(es) \in Nat /\ DOMAIN es = 1..Len(es)
      /\ \A k \in 1..Len(es) : Record!Starts(es)[k] =
            Record!Starts(es)[k - 1] + 4 + Len(es[k].value)
  BY EntryFacts, StartsFacts DEF SizeOf
<1>2. /\ Record!Entries(raw) = {Record!Starts(es)[k - 1] : k \in 1..Len(es)}
      /\ \A k \in 1..Len(es) :
           Record!ValueEnd(raw, Record!Starts(es)[k - 1]) = Record!Starts(es)[k]
  BY LaidEntries
<1>3. \A k \in 1..Len(es) : Record!IdAt(raw, Record!Starts(es)[k - 1]) = es[k].id
  BY DEF Laid
<1>4. {Record!IdAt(raw, o) : o \in Record!Entries(raw)} = Record!IdsOf(es)
  BY <1>1, <1>2, <1>3 DEF Record!IdsOf
<1>5. ASSUME NEW id \in Record!IdsOf(es)
      PROVE  \E k \in Record!Positions(es, id) :
               /\ \A j \in Record!Positions(es, id) : j <= k
               /\ Record!Parse(raw)[id] = Record!ValueIn(raw, es, k)
  <2> DEFINE K == Record!Positions(es, id)
             S == Record!EntriesOf(raw, id)
  <2>1. K \in SUBSET (1..Len(es)) /\ K # {}
    BY <1>1 DEF Record!Positions, Record!IdsOf
  <2>2. S = {Record!Starts(es)[k - 1] : k \in K}
    BY LaidEntriesOf
  <2> HIDE DEF K, S
  <2>3. PICK k \in K : \A j \in K : j <= k
    BY <1>1, <2>1, Extremes
  <2> DEFINE o == Record!Starts(es)[k - 1]
  <2>4. o \in S /\ \A p \in S : p <= o
    <3>1. \A j \in K : Record!Starts(es)[j - 1] <= o
      <4> TAKE j \in K
      <4>1. j \in 1..Len(es) /\ k \in 1..Len(es) /\ j <= k
        BY <2>1, <2>3
      <4>2. QED
        BY <4>1, StartsOrdered
    <3>2. QED
      BY <2>2, <3>1
  <2>5. S \subseteq Nat
    <3>1. \A j \in 1..Len(es) : Record!Starts(es)[j - 1] \in Nat
      BY <1>1, StartsOrdered
    <3>2. QED
      BY <2>1, <2>2, <3>1
  <2> HIDE DEF o
  <2>6. \A p \in S : (\A q \in S : q <= p) => p = o
    <3> TAKE p \in S
    <3> HAVE \A q \in S : q <= p
    <3>1. o <= p /\ p <= o /\ o \in Nat /\ p \in Nat
      BY <2>4, <2>5
    <3>2. QED
      BY <3>1
  <2>7. Record!LastOf(S) = o
    BY <2>4, <2>6 DEF Record!LastOf
  <2>8. Record!Parse(raw)[id] = Record!ValueAt(raw, o)
    BY <1>4, <2>7 DEF Record!Parse, S
  <2>9. Record!ValueAt(raw, o) = Record!ValueIn(raw, es, k)
    <3>1. k \in 1..Len(es)
      BY <2>1
    <3>2. Record!ValueEnd(raw, o) = o + 4 + Len(es[k].value)
      BY <1>1, <1>2, <3>1 DEF o
    <3>3. QED
      BY <3>2 DEF Record!ValueAt, Record!ValueIn, Record!StartOf, Record!HeaderSize, o
  <2>10. QED
    BY <2>3, <2>8, <2>9 DEF K
<1>6. QED
  BY <1>4, <1>5 DEF Record!Parse

\* write_variable_by_signal_id_value finds the first entry of an id, if any.
LEMMA LaidSearch ==
    ASSUME NEW es, NEW raw, Record!ListOf(es), Laid(raw, es), NEW id
    PROVE  /\ id \notin Record!IdsOf(es) => Record!Search(raw, id) = Record!NotFound
           /\ id \in Record!IdsOf(es) =>
                \E k \in Record!Positions(es, id) :
                  /\ Record!Search(raw, id) = Record!Starts(es)[k - 1]
                  /\ Record!Search(raw, id) # Record!NotFound
<1> DEFINE K == Record!Positions(es, id)
           S == Record!EntriesOf(raw, id)
<1>1. Len(es) \in Nat /\ DOMAIN es = 1..Len(es)
  BY EntryFacts
<1>2. K \in SUBSET (1..Len(es)) /\ (K = {} <=> id \notin Record!IdsOf(es))
  BY <1>1 DEF Record!Positions, Record!IdsOf
<1>3. S = {Record!Starts(es)[k - 1] : k \in K}
  BY LaidEntriesOf
<1>4. Record!Search(raw, id) = IF S = {} THEN Record!NotFound ELSE Record!FirstOf(S)
  BY DEF Record!Search
<1> HIDE DEF K, S
<1>5. CASE K = {}
  BY <1>2, <1>3, <1>4, <1>5
<1>6. CASE K # {}
  <2>1. PICK k \in K : \A j \in K : k <= j
    BY <1>1, <1>2, <1>6, Extremes
  <2> DEFINE o == Record!Starts(es)[k - 1]
  <2>2. \A j \in K : Record!Starts(es)[j - 1] \in Nat /\ o \in Nat /\ o <= Record!Starts(es)[j - 1]
    <3> TAKE j \in K
    <3>1. j \in 1..Len(es) /\ k \in 1..Len(es) /\ k <= j
      BY <1>2, <2>1
    <3>2. QED
      BY <3>1, StartsOrdered
  <2>3. o \in S /\ o \in Nat /\ \A p \in S : p \in Nat /\ o <= p
    BY <1>3, <2>1, <2>2
  <2> HIDE DEF o
  <2>4. \A p \in S : (\A q \in S : p <= q) => p = o
    <3> TAKE p \in S
    <3> HAVE \A q \in S : p <= q
    <3>1. o <= p /\ p <= o /\ o \in Nat /\ p \in Nat
      BY <2>3
    <3>2. QED
      BY <3>1
  <2>5. Record!FirstOf(S) = o
    BY <2>3, <2>4 DEF Record!FirstOf
  <2>6. Record!Search(raw, id) = o /\ o # Record!NotFound
    BY <1>4, <2>3, <2>5 DEF Record!NotFound
  <2>7. QED
    BY <1>2, <1>6, <2>6 DEF o, K
<1>7. QED
  BY <1>5, <1>6

-----------------------------------------------------------------------------
(* Bytes, and sequences of them.                                            *)

LEMMA ByteFacts == \A b \in Int : b \in Record!Byte <=> 0 <= b /\ b <= 255
  BY DEF Record!Byte

LEMMA ByteOf ==
    ASSUME NEW x \in Int, NEW n \in Nat
    PROVE  (x \div 256 ^ n) % 256 \in 0..255
  OBVIOUS

LEMMA TwoBytes ==
    ASSUME NEW x \in Nat, x < 65536
    PROVE  /\ x % 256 \in Record!Byte /\ x \div 256 \in Record!Byte
           /\ (x % 256) + 256 * (x \div 256) = x
<1>1. x % 256 \in Int /\ 0 <= x % 256 /\ x % 256 <= 255
  OBVIOUS
<1>2. x \div 256 \in Int /\ (x % 256) + 256 * (x \div 256) = x
  OBVIOUS
<1>3. 0 <= x \div 256 /\ x \div 256 <= 255
  BY <1>1, <1>2
<1>4. QED
  BY <1>1, <1>2, <1>3, ByteFacts

LEMMA SeqOf ==
    ASSUME NEW S, NEW n \in Nat, NEW f \in [1..n -> S]
    PROVE  f \in Seq(S) /\ Len(f) = n
<1>1. f \in Seq(S)
  BY SeqDef
<1>2. Len(f) \in Nat /\ DOMAIN f = 1..Len(f)
  BY <1>1, LenProperties
<1>3. DOMAIN f = 1..n
  OBVIOUS
<1>4. QED
  BY <1>1, <1>2, <1>3

LEMMA JoinFacts ==
    ASSUME NEW S, NEW a \in Seq(S), NEW b \in Seq(S)
    PROVE  /\ a \o b \in Seq(S) /\ Len(a) \in Nat /\ Len(b) \in Nat
           /\ Len(a \o b) = Len(a) + Len(b)
           /\ \A i \in 1..Len(a) : (a \o b)[i] = a[i]
           /\ \A i \in 1..Len(b) : (a \o b)[Len(a) + i] = b[i]
<1>1. Len(a) \in Nat /\ Len(b) \in Nat
  BY LenProperties
<1>2. /\ a \o b \in Seq(S) /\ Len(a \o b) = Len(a) + Len(b)
      /\ \A i \in 1..(Len(a) + Len(b)) : (a \o b)[i] = IF i <= Len(a) THEN a[i] ELSE b[i - Len(a)]
  BY ConcatProperties
<1>3. ASSUME NEW i \in 1..Len(b)
      PROVE  (a \o b)[Len(a) + i] = b[i]
  <2>1. Len(a) + i \in 1..(Len(a) + Len(b)) /\ ~(Len(a) + i <= Len(a)) /\ (Len(a) + i) - Len(a) = i
    BY <1>1
  <2>2. QED
    BY <1>2, <2>1
<1>4. ASSUME NEW i \in 1..Len(a)
      PROVE  (a \o b)[i] = a[i]
  <2>1. i \in 1..(Len(a) + Len(b)) /\ i <= Len(a)
    BY <1>1
  <2>2. QED
    BY <1>2, <2>1
<1>5. QED
  BY <1>1, <1>2, <1>3, <1>4

\* Four bytes that are alike say the same id and type.
LEMMA HeadOf ==
    ASSUME NEW a, NEW b, NEW p, NEW q, \A c \in 1..4 : a[p + c] = b[q + c]
    PROVE  Record!IdAt(a, p) = Record!IdAt(b, q) /\ Record!TypeAt(a, p) = Record!TypeAt(b, q)
<1>1. a[p + 1] = b[q + 1] /\ a[p + 2] = b[q + 2] /\ a[p + 4] = b[q + 4]
  OBVIOUS
<1>2. QED
  BY <1>1 DEF Record!IdAt, Record!TypeAt

LEMMA HeadKept ==
    ASSUME NEW a \in Seq(Record!Byte), NEW b \in Seq(Record!Byte), NEW o \in Nat, o + 4 <= Len(a)
    PROVE  /\ Record!IdAt(a \o b, o) = Record!IdAt(a, o)
           /\ Record!TypeAt(a \o b, o) = Record!TypeAt(a, o)
<1>1. Len(a) \in Nat /\ \A i \in 1..Len(a) : (a \o b)[i] = a[i]
  BY JoinFacts
<1>2. \A c \in 1..4 : o + c \in 1..Len(a)
  BY <1>1
<1> DEFINE both == a \o b
<1>3. \A c \in 1..4 : both[o + c] = a[o + c]
  BY <1>1, <1>2
<1> HIDE DEF both
<1>4. /\ Record!IdAt(both, o) = Record!IdAt(a, o)
      /\ Record!TypeAt(both, o) = Record!TypeAt(a, o)
  <2>1. /\ both[o + 1] = a[o + 1] /\ both[o + 2] = a[o + 2]
        /\ both[o + 4] = a[o + 4]
    BY <1>3
  <2>2. QED
    BY <2>1 DEF Record!IdAt, Record!TypeAt
<1>5. QED
  BY <1>4 DEF both

LEMMA HeadBehind ==
    ASSUME NEW a \in Seq(Record!Byte), NEW b \in Seq(Record!Byte), 4 <= Len(b)
    PROVE  /\ Record!IdAt(a \o b, Len(a)) = Record!IdAt(b, 0)
           /\ Record!TypeAt(a \o b, Len(a)) = Record!TypeAt(b, 0)
<1>1. Len(b) \in Nat /\ \A i \in 1..Len(b) : (a \o b)[Len(a) + i] = b[i]
  BY JoinFacts
<1>2. \A c \in 1..4 : c \in 1..Len(b) /\ 0 + c = c
  BY <1>1
<1> DEFINE both == a \o b
<1>3. \A c \in 1..4 : both[Len(a) + c] = b[0 + c]
  BY <1>1, <1>2
<1> HIDE DEF both
<1>4. /\ Record!IdAt(both, Len(a)) = Record!IdAt(b, 0)
      /\ Record!TypeAt(both, Len(a)) = Record!TypeAt(b, 0)
  <2>1. /\ both[Len(a) + 1] = b[0 + 1] /\ both[Len(a) + 2] = b[0 + 2]
        /\ both[Len(a) + 4] = b[0 + 4]
    BY <1>3
  <2>2. QED
    BY <2>1 DEF Record!IdAt, Record!TypeAt
<1>5. QED
  BY <1>4 DEF both

LEMMA StartTypes ==
    ASSUME NEW es, Record!ListOf(es)
    PROVE  /\ Len(es) \in Nat /\ EndOf(es) \in Nat
           /\ Record!Starts(es)[0] = 0
           /\ \A k \in 0..Len(es) : Record!Starts(es)[k] \in Nat
<1>1. Len(es) \in Nat /\ Record!Starts(es) \in [0..Len(es) -> Nat] /\ Record!Starts(es)[0] = 0
  BY EntryFacts, StartsFacts
<1>2. QED
  BY <1>1 DEF EndOf

\* Where the k-th entry stands.
LEMMA PlaceOf ==
    ASSUME NEW es, Record!ListOf(es), NEW k \in 1..Len(es)
    PROVE  /\ Record!Starts(es)[k - 1] \in Nat /\ Record!Starts(es)[k] \in Nat
           /\ SizeOf(es, k) \in Nat \ {0} /\ EndOf(es) \in Nat
           /\ Record!Starts(es)[k] = Record!Starts(es)[k - 1] + 4 + SizeOf(es, k)
           /\ Record!Starts(es)[k] <= EndOf(es)
<1> DEFINE f == Record!Starts(es)
           n == Len(es)
<1>1. n \in Nat /\ EndOf(es) \in Nat /\ \A j \in 0..n : f[j] \in Nat
  BY StartTypes
<1>2. f[k] = f[k - 1] + 4 + SizeOf(es, k)
  BY StartsFacts
<1>3. SizeOf(es, k) \in Nat \ {0}
  BY EntryFacts
<1>4. \A i \in 0..n : \A j \in 0..i : f[j] + 5 * (i - j) <= f[i]
  BY StartsGrow
<1>5. EndOf(es) = f[n]
  BY DEF EndOf
<1> HIDE DEF f, n
<1>6. n \in 0..n /\ k \in 0..n /\ k - 1 \in 0..n /\ k <= n
  BY <1>1 DEF n
<1>7. f[k] \in Nat /\ f[k - 1] \in Nat /\ f[n] \in Nat
  BY <1>1, <1>6
<1>8. f[k] + 5 * (n - k) <= f[n]
  BY <1>4, <1>6
<1>9. f[k] <= EndOf(es)
  BY <1>1, <1>5, <1>6, <1>7, <1>8
<1>10. QED
  BY <1>1, <1>2, <1>3, <1>7, <1>9 DEF f, n

\* Outside the values of es's signals, a and b are alike.
Same(a, b, es) ==
    /\ a \in Seq(Record!Byte) /\ b \in Seq(Record!Byte) /\ Len(a) = Len(b)
    /\ \A i \in 1..Len(a) : i \notin Valued(es) => a[i] = b[i]

\* What differs in values only is the same record.
LEMMA LaidSame ==
    ASSUME NEW es, NEW a, NEW b, Record!ListOf(es), Laid(a, es), Same(a, b, es)
    PROVE  Laid(b, es)
<1> DEFINE f == Record!Starts(es)
           e == EndOf(es)
<1>1. e \in Nat
  BY StartTypes
<1>2. /\ Len(a) \in Nat /\ Len(b) = Len(a) /\ e <= Len(a) /\ ~Record!IsEntry(a, e)
      /\ b \in Seq(Record!Byte)
      /\ \A i \in 1..Len(a) : i \notin Valued(es) => a[i] = b[i]
  BY LenProperties DEF Laid, Same
<1>3. /\ \A k \in 1..Len(es) : \A c \in 1..4 : f[k - 1] + c \notin Valued(es)
      /\ \A i \in Nat : i > e => i \notin Valued(es)
  BY HeadersAreNot
<1> HIDE DEF f, e
<1>4. ASSUME NEW k \in 1..Len(es)
      PROVE  /\ Record!IdAt(b, f[k - 1]) = Record!IdAt(a, f[k - 1])
             /\ Record!TypeAt(b, f[k - 1]) = Record!TypeAt(a, f[k - 1])
  <2>1. f[k - 1] + 4 <= Len(a) /\ f[k - 1] \in Nat
    <3>1. f[k - 1] \in Nat /\ f[k] <= e /\ f[k] \in Nat /\ f[k - 1] + 4 <= f[k]
      <4>1. /\ f[k - 1] \in Nat /\ f[k] <= e /\ f[k] \in Nat
            /\ f[k] = f[k - 1] + 4 + SizeOf(es, k) /\ SizeOf(es, k) \in Nat \ {0}
        BY PlaceOf DEF f, e
      <4>2. QED
        BY <4>1
    <3>2. QED
      BY <1>1, <1>2, <3>1
  <2>2. \A c \in 1..4 : b[f[k - 1] + c] = a[f[k - 1] + c]
    <3> TAKE c \in 1..4
    <3>1. f[k - 1] + c \in 1..Len(a)
      BY <1>2, <2>1
    <3>2. QED
      BY <1>2, <1>3, <3>1
  <2>3. QED
    BY <2>2, HeadOf
<1>5. ~Record!IsEntry(b, e)
  <2> SUFFICES ASSUME Record!IsEntry(b, e) PROVE FALSE
    OBVIOUS
  <2>1. e + 4 <= Len(a)
    BY <1>2 DEF Record!IsEntry, Record!HeaderSize
  <2>2. \A c \in 1..4 : b[e + c] = a[e + c]
    <3> TAKE c \in 1..4
    <3>1. e + c \in 1..Len(a) /\ e + c \in Nat /\ e + c > e
      BY <1>1, <1>2, <2>1
    <3>2. QED
      BY <1>2, <1>3, <3>1
  <2>4. Record!IdAt(b, e) = Record!IdAt(a, e) /\ Record!TypeAt(b, e) = Record!TypeAt(a, e)
    BY <2>2, HeadOf
  <2>5. Record!IsEntry(a, e)
    BY <1>2, <2>4 DEF Record!IsEntry, Record!ValueEnd
  <2>6. QED
    BY <1>2, <2>5
<1>6. /\ \A k \in 1..Len(es) : /\ Record!IdAt(b, f[k - 1]) = es[k].id
                               /\ Record!TypeAt(b, f[k - 1]) = es[k].type
  BY <1>4 DEF Laid, f
<1>7. QED
  BY <1>2, <1>5, <1>6 DEF Laid, f, e

\* The value of an entry, byte by byte.
LEMMA ValueInFacts ==
    ASSUME NEW es, Record!ListOf(es), NEW raw \in Seq(Record!Byte), EndOf(es) <= Len(raw),
           NEW k \in 1..Len(es)
    PROVE  /\ Record!ValueIn(raw, es, k) \in Seq(Record!Byte)
           /\ Len(Record!ValueIn(raw, es, k)) = SizeOf(es, k)
           /\ \A c \in 1..SizeOf(es, k) :
                Record!ValueIn(raw, es, k)[c] = raw[Record!Starts(es)[k - 1] + 4 + c]
<1> DEFINE o == Record!Starts(es)[k - 1]
           n == SizeOf(es, k)
<1>1. o \in Nat /\ n \in Nat \ {0} /\ Record!Starts(es)[k] = o + 4 + n
  BY PlaceOf
<1>2. \A i \in (o + 5)..(o + 4 + n) : i \in 1..Len(raw)
  <2>1. Len(raw) \in Nat /\ EndOf(es) \in Nat
    BY LenProperties, StartTypes
  <2>2. \A i \in (o + 5)..Record!Starts(es)[k] : i <= EndOf(es)
    BY HeadersAreNot
  <2> HIDE DEF o, n
  <2>3. QED
    BY <1>1, <2>1, <2>2
<1>3. Record!ValueIn(raw, es, k) = SubSeq(raw, o + 5, o + 4 + n)
  <2>1. o + 4 + 1 = o + 5 /\ o + 4 + Len(es[k].value) = o + 4 + n
    BY <1>1 DEF SizeOf
  <2>2. QED
    BY <2>1 DEF Record!ValueIn, Record!StartOf, Record!HeaderSize
<1> HIDE DEF o, n
<1>4. \A i \in (o + 5)..(o + 4 + n) : raw[i] \in Record!Byte
  BY <1>2, ElementOfSeq
<1>5. o + 5 \in Int /\ o + 4 + n \in Int /\ (o + 4 + n) - (o + 5) + 1 = n /\ o + 5 <= o + 4 + n
  BY <1>1
<1>6. /\ SubSeq(raw, o + 5, o + 4 + n) \in Seq(Record!Byte)
      /\ Len(SubSeq(raw, o + 5, o + 4 + n)) = n
      /\ \A i \in 1..((o + 4 + n) - (o + 5) + 1) :
           SubSeq(raw, o + 5, o + 4 + n)[i] = raw[(o + 5) + i - 1]
  BY <1>4, <1>5, SubSeqProperties
<1>7. \A c \in 1..n : (o + 5) + c - 1 = o + 4 + c
  BY <1>1
<1>8. QED
  BY <1>3, <1>5, <1>6, <1>7 DEF o, n

\* Two memories that agree on an entry's bytes hold the same value there.
LEMMA SameValue ==
    ASSUME NEW es, Record!ListOf(es), NEW k \in 1..Len(es),
           NEW a \in Seq(Record!Byte), EndOf(es) <= Len(a),
           NEW b \in Seq(Record!Byte), EndOf(es) <= Len(b),
           \A i \in 1..Len(a) : a[i] = b[i]
    PROVE  Record!ValueIn(a, es, k) = Record!ValueIn(b, es, k)
<1> DEFINE o == Record!Starts(es)[k - 1]
           n == SizeOf(es, k)
<1>1. o \in Nat /\ n \in Nat \ {0} /\ Record!Starts(es)[k] = o + 4 + n
  BY PlaceOf
<1>2. Len(a) \in Nat /\ EndOf(es) \in Nat
  BY LenProperties, StartTypes
<1>3. \A i \in (o + 5)..Record!Starts(es)[k] : i <= EndOf(es)
  BY HeadersAreNot
<1>4. \A c \in 1..n : o + 4 + c \in 1..Len(a)
  <2> HIDE DEF o, n
  <2> TAKE c \in 1..n
  <2>1. o + 4 + c \in (o + 5)..(o + 4 + n)
    BY <1>1
  <2>2. o + 4 + c <= EndOf(es)
    BY <1>1, <1>3, <2>1
  <2>3. QED
    BY <1>1, <1>2, <2>2
<1>5. /\ Record!ValueIn(a, es, k) \in Seq(Record!Byte) /\ Record!ValueIn(b, es, k) \in Seq(Record!Byte)
      /\ Len(Record!ValueIn(a, es, k)) = n /\ Len(Record!ValueIn(b, es, k)) = n
      /\ \A c \in 1..n : Record!ValueIn(a, es, k)[c] = a[o + 4 + c]
      /\ \A c \in 1..n : Record!ValueIn(b, es, k)[c] = b[o + 4 + c]
  BY ValueInFacts
<1> HIDE DEF o, n
<1>6. \A c \in 1..n : Record!ValueIn(a, es, k)[c] = Record!ValueIn(b, es, k)[c]
  BY <1>4, <1>5
<1>7. QED
  BY <1>5, <1>6, SeqEqual

\* A value put in place of an entry's.
LEMMA PatchFacts ==
    ASSUME NEW es, NEW raw \in Seq(Record!Byte), Record!ListOf(es), EndOf(es) <= Len(raw),
           NEW k \in 1..Len(es), NEW bytes \in Seq(Record!Byte), Len(bytes) = SizeOf(es, k)
    PROVE  LET new == Record!Patch(raw, Record!Starts(es)[k - 1], bytes) IN
           /\ Same(raw, new, es)
           /\ Record!ValueIn(new, es, k) = bytes
<1> DEFINE o == Record!Starts(es)[k - 1]
           n == SizeOf(es, k)
           new == Record!Patch(raw, o, bytes)
<1>1. o \in Nat /\ n \in Nat \ {0} /\ Record!Starts(es)[k] = o + 4 + n /\ Len(bytes) = n
  BY PlaceOf
<1>2. Len(raw) \in Nat /\ DOMAIN raw = 1..Len(raw) /\ EndOf(es) \in Nat /\ EndOf(es) <= Len(raw)
  BY LenProperties, StartTypes
<1>3. \A i \in (o + 5)..(o + 4 + n) : i \in Valued(es) /\ i <= EndOf(es)
  BY <1>1, HeadersAreNot
<1>4. new = [i \in 1..Len(raw) |-> IF i > o + 4 /\ i <= o + 4 + n
                                   THEN bytes[i - o - 4] ELSE raw[i]]
  BY <1>1, <1>2 DEF Record!Patch, Record!HeaderSize
<1> HIDE DEF o, n, new
<1>5. \A i \in 1..Len(raw) :
        /\ i > o + 4 /\ i <= o + 4 + n => new[i] = bytes[i - o - 4]
        /\ ~(i > o + 4 /\ i <= o + 4 + n) => new[i] = raw[i]
  BY <1>4
<1>6. \A i \in 1..Len(raw) : new[i] \in Record!Byte
  <2> TAKE i \in 1..Len(raw)
  <2>1. raw[i] \in Record!Byte
    BY ElementOfSeq
  <2>2. i > o + 4 /\ i <= o + 4 + n => i - o - 4 \in 1..Len(bytes)
    BY <1>1, <1>2
  <2>3. i - o - 4 \in 1..Len(bytes) => bytes[i - o - 4] \in Record!Byte
    BY ElementOfSeq
  <2>4. QED
    BY <1>5, <2>1, <2>2, <2>3
<1>7. new \in [1..Len(raw) -> Record!Byte]
  BY <1>4, <1>6
<1>8. new \in Seq(Record!Byte) /\ Len(new) = Len(raw)
  BY <1>2, <1>7, SeqOf
<1>9. \A i \in 1..Len(raw) : i \notin Valued(es) => raw[i] = new[i]
  <2> TAKE i \in 1..Len(raw)
  <2> HAVE i \notin Valued(es)
  <2>1. ~(i > o + 4 /\ i <= o + 4 + n)
    BY <1>1, <1>2, <1>3
  <2>2. QED
    BY <1>5, <2>1
<1>10. Same(raw, new, es)
  BY <1>8, <1>9 DEF Same
<1>11. /\ Record!ValueIn(new, es, k) \in Seq(Record!Byte)
       /\ Len(Record!ValueIn(new, es, k)) = n
       /\ \A c \in 1..n : Record!ValueIn(new, es, k)[c] = new[o + 4 + c]
  BY <1>2, <1>8, ValueInFacts DEF o, n
<1>12. \A c \in 1..n : Record!ValueIn(new, es, k)[c] = bytes[c]
  <2> TAKE c \in 1..n
  <2>1. o + 4 + c \in (o + 5)..(o + 4 + n)
    BY <1>1
  <2>2. o + 4 + c \in 1..Len(raw)
    BY <1>1, <1>2, <1>3, <2>1
  <2>3. o + 4 + c > o + 4 /\ o + 4 + c <= o + 4 + n /\ (o + 4 + c) - o - 4 = c
    BY <1>1
  <2>4. new[o + 4 + c] = bytes[(o + 4 + c) - o - 4]
    BY <1>5, <2>2, <2>3
  <2>5. QED
    BY <1>11, <2>3, <2>4
<1>13. Record!ValueIn(new, es, k) = bytes
  BY <1>1, <1>11, <1>12, SeqEqual
<1>14. QED
  BY <1>10, <1>13 DEF new, o

\* The values scripts write.
IsValue(v) == IF Record!IsRaw(v) THEN v.raw \in Seq(Record!Byte) ELSE v.num \in Int

LEMMA EncodeFacts ==
    ASSUME NEW v, IsValue(v), NEW t \in DOMAIN Types, Record!Fits(v, t)
    PROVE  Record!Encode(v, t) \in Seq(Record!Byte) /\ Len(Record!Encode(v, t)) = Types[t].size
<1> DEFINE n == Types[t].size
<1>1. n \in Nat
  BY RecordAssumption DEF Record!SignalsAssumption
<1>2. CASE Record!IsRaw(v)
  BY <1>2 DEF Record!Fits, Record!Encode, IsValue
<1>3. CASE ~Record!IsRaw(v)
  <2> DEFINE bytes == [i \in 1..n |-> (v.num \div 256 ^ (i - 1)) % 256]
  <2>1. v.num \in Int
    BY <1>3 DEF IsValue
  <2>2. \A i \in 1..n : bytes[i] \in Record!Byte
    <3> HIDE DEF n
    <3> TAKE i \in 1..n
    <3>0. i - 1 \in Nat
      OBVIOUS
    <3>1. (v.num \div 256 ^ (i - 1)) % 256 \in 0..255
      BY <2>1, <3>0, ByteOf
    <3>a. (v.num \div 256 ^ (i - 1)) % 256 \in Record!Byte
      BY <3>1, ByteFacts
    <3>2. QED
      BY <3>a
  <2>3. bytes \in [1..n -> Record!Byte]
    BY <2>2
  <2>4. Record!Encode(v, t) = bytes
    BY <1>3 DEF Record!Encode
  <2> HIDE DEF bytes, n
  <2>5. bytes \in Seq(Record!Byte) /\ Len(bytes) = n
    BY <1>1, <2>3, SeqOf
  <2>6. QED
    BY <2>4, <2>5 DEF n
<1>4. QED
  BY <1>2, <1>3

\* The bytes of one entry.
LEMMA EntryBytesFacts ==
    ASSUME NEW es, Record!ListOf(es), NEW k \in 1..Len(es)
    PROVE  LET b == Record!EntryBytes(es[k]) IN
           /\ b \in Seq(Record!Byte) /\ Len(b) = 4 + SizeOf(es, k)
           /\ Record!IdAt(b, 0) = es[k].id /\ Record!TypeAt(b, 0) = es[k].type
<1> DEFINE low == es[k].id % 256
           high == es[k].id \div 256
           h == <<low, high, 3, es[k].type>>
           v == es[k].value
           b == Record!EntryBytes(es[k])
<1>1. /\ es[k].id \in Nat /\ es[k].id < 65536 /\ es[k].type \in Record!Byte
      /\ v \in Seq(Record!Byte) /\ SizeOf(es, k) \in Nat /\ SizeOf(es, k) = Len(v)
  BY EntryFacts DEF SizeOf
<1>2. low \in Record!Byte /\ high \in Record!Byte /\ low + 256 * high = es[k].id
  BY <1>1, TwoBytes
<1>3. b = h \o v
  BY DEF Record!EntryBytes
<1>4. 3 \in Record!Byte
  BY ByteFacts
<1> HIDE DEF low, high, v, b
<1>5. h \in Seq(Record!Byte) /\ Len(h) = 4
  BY <1>1, <1>2, <1>4
<1>6. h[0 + 1] = low /\ h[0 + 2] = high /\ h[0 + 4] = es[k].type
  OBVIOUS
<1>7. Record!IdAt(h, 0) = es[k].id /\ Record!TypeAt(h, 0) = es[k].type
  BY <1>2, <1>6 DEF Record!IdAt, Record!TypeAt
<1> HIDE DEF h
<1>8. b \in Seq(Record!Byte) /\ Len(b) = 4 + SizeOf(es, k)
  <2>0. h \in Seq(Record!Byte) /\ v \in Seq(Record!Byte)
    BY <1>1, <1>5
  <2>1. h \o v \in Seq(Record!Byte) /\ Len(h \o v) = Len(h) + Len(v)
    BY <2>0, JoinFacts
  <2>2. QED
    BY <1>1, <1>3, <1>5, <2>1
<1>9. Record!IdAt(b, 0) = Record!IdAt(h, 0) /\ Record!TypeAt(b, 0) = Record!TypeAt(h, 0)
  <2>1. 0 \in Nat /\ 0 + 4 <= Len(h)
    BY <1>5
  <2>2. /\ Record!IdAt(h \o v, 0) = Record!IdAt(h, 0)
        /\ Record!TypeAt(h \o v, 0) = Record!TypeAt(h, 0)
    <3>1. h \in Seq(Record!Byte) /\ v \in Seq(Record!Byte)
      BY <1>1, <1>5
    <3>2. QED
      BY <2>1, <3>1, HeadKept
  <2>3. QED
    BY <1>3, <2>2
<1>10. QED
  BY <1>7, <1>8, <1>9 DEF b

LEMMA ComposedFacts ==
    ASSUME NEW es, Record!ListOf(es)
    PROVE  /\ Record!Composed(es) \in [0..Len(es) -> Seq(Record!Byte)]
           /\ Record!Composed(es)[0] = <<>>
           /\ \A k \in 1..Len(es) :
                Record!Composed(es)[k] = Record!Composed(es)[k - 1] \o Record!EntryBytes(es[k])
<1> DEFINE n == Len(es)
           S == Seq(Record!Byte)
           step == [x \in (1..n) \X S |-> x[2] \o Record!EntryBytes(es[x[1]])]
           Eq(f) == f = [k \in 0..n |-> IF k = 0 THEN <<>>
                                        ELSE f[k - 1] \o Record!EntryBytes(es[k])]
           f0 == Record!Composed(es)
<1>1. n \in Nat /\ <<>> \in S
  BY EntryFacts
<1>2. \A k \in 1..n : \A s \in S : s \o Record!EntryBytes(es[k]) \in S
  BY EntryBytesFacts, ConcatProperties
<1>3. PICK f : Iterates(f, step, n, S, <<>>)
  <2>1. step \in [(1..n) \X S -> S]
    BY <1>2
  <2>2. Steps(step, n, S, <<>>)
    <3> HIDE DEF step, n, S
    <3>1. QED
      BY <1>1, <2>1 DEF Steps
  <2> HIDE DEF step, n, S
  <2>3. QED
    BY <2>2, RecursionExists
<1> HIDE DEF S
<1>4. /\ f \in [0..n -> S] /\ f[0] = <<>>
      /\ \A k \in 1..n : f[k] = step[<<k, f[k - 1]>>]
  <2> HIDE DEF step, n
  <2>1. QED
    BY <1>3 DEF Iterates
<1>5. \A k \in 1..n : f[k] = f[k - 1] \o Record!EntryBytes(es[k])
  <2> HIDE DEF n
  <2> TAKE k \in 1..n
  <2>1. f[k - 1] \in S
    BY <1>1, <1>4
  <2>2. step[<<k, f[k - 1]>>] = f[k - 1] \o Record!EntryBytes(es[k])
    BY <2>1
  <2>3. QED
    BY <1>4, <2>2
<1>6. Eq(f)
  <2> HIDE DEF n
  <2>1. \A k \in 0..n : f[k] = IF k = 0 THEN <<>> ELSE f[k - 1] \o Record!EntryBytes(es[k])
    BY <1>1, <1>4, <1>5
  <2>2. f = [k \in 0..n |-> f[k]]
    BY <1>4
  <2>3. QED
    BY <2>1, <2>2
<1>7. f0 = CHOOSE g : Eq(g)
  BY DEF Record!Composed
<1>8. Eq(f0)
  <2> HIDE DEF f0, Eq
  <2>1. QED
    BY <1>6, <1>7
<1> HIDE DEF f0, n
<1>9. f0[0] = <<>> /\ \A k \in 1..n : f0[k] = f0[k - 1] \o Record!EntryBytes(es[k])
  <2>1. \A k \in 0..n : f0[k] = IF k = 0 THEN <<>> ELSE f0[k - 1] \o Record!EntryBytes(es[k])
    BY <1>8
  <2>2. 0 \in 0..n /\ \A k \in 1..n : k \in 0..n /\ k # 0
    BY <1>1
  <2>3. QED
    BY <2>1, <2>2
<1>10. \A k \in 0..n : f0[k] \in S
  <2> DEFINE P == {k \in 0..n : f0[k] \in S}
  <2>1. 0 \in P
    BY <1>1, <1>9
  <2>2. ASSUME NEW k \in 1..n, k - 1 \in P
        PROVE  k \in P
    <3>1. f0[k - 1] \in S
      BY <2>2
    <3>a. f0[k] = f0[k - 1] \o Record!EntryBytes(es[k])
      BY <1>9
    <3>2. f0[k] \in S
      BY <1>2, <3>1, <3>a
    <3>3. QED
      BY <3>1, <3>2
  <2> HIDE DEF P
  <2>3. \A k \in 0..n : k \in P
    BY <1>1, <2>1, <2>2, UpTo
  <2>4. QED
    BY <2>3 DEF P
<1>11. f0 = [k \in 0..n |-> f0[k]]
  BY <1>8
<1>12. f0 \in [0..n -> S]
  BY <1>10, <1>11
<1>13. QED
  BY <1>9, <1>12 DEF f0, n, S

\* The target's layout of a record, whatever follows it that is no entry.
LEMMA ComposeLaid ==
    ASSUME NEW es, Record!ListOf(es),
           NEW tail \in Seq(Record!Byte), ~Record!IsEntry(tail, 0)
    PROVE  Laid(Record!Compose(es) \o tail, es)
<1> DEFINE n == Len(es)
           f == Record!Starts(es)
           g == Record!Composed(es)
           raw == Record!Compose(es) \o tail
           Head4(s, k) == /\ Record!IdAt(s, f[k - 1]) = es[k].id
                          /\ Record!TypeAt(s, f[k - 1]) = es[k].type
           P == {k \in 0..n : Len(g[k]) = f[k] /\ \A j \in 1..k : Head4(g[k], j)}
<1>1. n \in Nat /\ f[0] = 0 /\ EndOf(es) = f[n] /\ f[n] \in Nat
  BY StartTypes DEF EndOf
<1>2. g \in [0..n -> Seq(Record!Byte)] /\ g[0] = <<>>
  BY ComposedFacts
<1>3. \A k \in 1..n : g[k] = g[k - 1] \o Record!EntryBytes(es[k])
  BY ComposedFacts
<1>4. 0 \in P
  <2> HIDE DEF f, g, n
  <2>1. 0 \in 0..n /\ Len(g[0]) = f[0] /\ 1..0 = {}
    BY <1>1, <1>2
  <2> HIDE DEF Head4
  <2>2. QED
    BY <2>1
<1>5. ASSUME NEW k \in 1..n, k - 1 \in P
      PROVE  k \in P
  <2> DEFINE a == g[k - 1]
             b == Record!EntryBytes(es[k])
  <2>1. a \in Seq(Record!Byte)
    <3> HIDE DEF g, n
    <3>1. k - 1 \in 0..n
      BY <1>1
    <3>2. QED
      BY <1>2, <3>1
  <2>2. Len(a) = f[k - 1] /\ \A j \in 1..(k - 1) : Head4(a, j)
    <3> HIDE DEF a, f, n, Head4
    <3>1. QED
      BY <1>5 DEF a
  <2>3. /\ b \in Seq(Record!Byte) /\ Len(b) = 4 + SizeOf(es, k)
        /\ Record!IdAt(b, 0) = es[k].id /\ Record!TypeAt(b, 0) = es[k].type
    BY EntryBytesFacts
  <2>4. g[k] = a \o b
    BY <1>3
  <2>5. /\ f[k - 1] \in Nat /\ SizeOf(es, k) \in Nat \ {0}
        /\ f[k] = f[k - 1] + 4 + SizeOf(es, k)
    BY PlaceOf
  <2>6. ASSUME NEW j \in 1..(k - 1)
        PROVE  f[j - 1] \in Nat /\ f[j - 1] + 4 <= f[k - 1]
    <3>1. j \in 1..n /\ j <= k - 1 /\ k - 1 \in 0..n /\ j \in 0..(k - 1)
      BY <1>1
    <3>2. /\ f[j - 1] \in Nat /\ f[j] \in Nat /\ SizeOf(es, j) \in Nat \ {0}
          /\ f[j] = f[j - 1] + 4 + SizeOf(es, j)
      BY <3>1, PlaceOf
    <3>3. f[j] + 5 * ((k - 1) - j) <= f[k - 1]
      BY <3>1, StartsGrow
    <3> HIDE DEF f, n
    <3>4. 5 * ((k - 1) - j) >= 0
      BY <1>1
    <3>5. QED
      BY <2>5, <3>2, <3>3, <3>4
  <2> HIDE DEF a, b, f, g, n
  <2>7. Len(g[k]) = f[k]
    <3>1. Len(a \o b) = Len(a) + Len(b)
      BY <2>1, <2>3, JoinFacts
    <3>2. Len(g[k]) = Len(a) + Len(b)
      BY <2>4, <3>1
    <3>3. Len(a) = f[k - 1]
      BY <2>2
    <3>4. Len(b) = 4 + SizeOf(es, k)
      BY <2>3
    <3>5. QED
      BY <2>5, <3>2, <3>3, <3>4
  <2>8. Head4(g[k], k)
    <3>1. 4 <= Len(b)
      BY <2>3, <2>5
    <3>2. /\ Record!IdAt(a \o b, Len(a)) = Record!IdAt(b, 0)
          /\ Record!TypeAt(a \o b, Len(a)) = Record!TypeAt(b, 0)
      BY <2>1, <2>3, <3>1, HeadBehind
    <3>3. QED
      BY <2>2, <2>3, <2>4, <3>2
  <2>9. ASSUME NEW j \in 1..(k - 1)
        PROVE  Head4(g[k], j)
    <3>1. f[j - 1] \in Nat /\ f[j - 1] + 4 <= Len(a)
      BY <2>2, <2>6
    <3>2. /\ Record!IdAt(a \o b, f[j - 1]) = Record!IdAt(a, f[j - 1])
          /\ Record!TypeAt(a \o b, f[j - 1]) = Record!TypeAt(a, f[j - 1])
      BY <2>1, <2>3, <3>1, HeadKept
    <3>3. Head4(a, j)
      BY <2>2
    <3>4. QED
      BY <2>4, <3>2, <3>3
  <2> HIDE DEF Head4
  <2>10. \A j \in 1..k : Head4(g[k], j)
    <3> TAKE j \in 1..k
    <3>1. j = k \/ j \in 1..(k - 1)
      BY <1>1
    <3>2. QED
      BY <2>8, <2>9, <3>1
  <2>11. k \in 0..n
    BY <1>1
  <2>12. QED
    BY <2>7, <2>10, <2>11
<1> HIDE DEF f, g, n
<1>6. n \in P
  <2> HIDE DEF P
  <2>1. n \in 0..n
    BY <1>1
  <2>2. QED
    BY <1>1, <1>4, <1>5, <2>1, UpTo
<1> DEFINE s == g[n]
<1>7. s \in Seq(Record!Byte)
  BY <1>1, <1>2
<1>8. Len(s) = f[n] /\ \A j \in 1..n : Head4(s, j)
  <2> HIDE DEF Head4
  <2>1. QED
    BY <1>6
<1>9. raw = s \o tail
  BY DEF Record!Compose, s, g, n
<1> HIDE DEF s, raw, P
<1>10. raw \in Seq(Record!Byte) /\ Len(tail) \in Nat /\ Len(raw) = f[n] + Len(tail)
  BY <1>7, <1>8, <1>9, JoinFacts
<1>11. ASSUME NEW k \in 1..n
       PROVE  Head4(raw, k)
  <2>1. f[k - 1] \in Nat /\ f[k - 1] + 4 <= f[n]
    <3>1. /\ f[k - 1] \in Nat /\ f[k] \in Nat /\ SizeOf(es, k) \in Nat \ {0}
          /\ f[k] = f[k - 1] + 4 + SizeOf(es, k) /\ f[k] <= EndOf(es)
      BY PlaceOf DEF f, n
    <3>2. QED
      BY <1>1, <3>1
  <2>2. /\ Record!IdAt(s \o tail, f[k - 1]) = Record!IdAt(s, f[k - 1])
        /\ Record!TypeAt(s \o tail, f[k - 1]) = Record!TypeAt(s, f[k - 1])
    BY <1>7, <1>8, <2>1, HeadKept
  <2>3. Head4(s, k)
    BY <1>8
  <2>4. QED
    BY <1>9, <2>2, <2>3
<1>12. ~Record!IsEntry(raw, f[n])
  <2> SUFFICES ASSUME Record!IsEntry(raw, f[n]) PROVE FALSE
    OBVIOUS
  <2>1. f[n] + 4 <= Len(raw)
    BY DEF Record!IsEntry, Record!HeaderSize
  <2>2. 4 <= Len(tail)
    BY <1>1, <1>10, <2>1
  <2>3. /\ Record!IdAt(raw, f[n]) = Record!IdAt(tail, 0)
        /\ Record!TypeAt(raw, f[n]) = Record!TypeAt(tail, 0)
    BY <1>7, <1>8, <1>9, <2>2, HeadBehind
  <2>4. /\ Record!IdAt(tail, 0) # 0 /\ Record!TypeAt(tail, 0) \in DOMAIN Types
        /\ Record!ValueEnd(raw, f[n]) <= Len(raw)
    BY <2>3 DEF Record!IsEntry
  <2>5. Types[Record!TypeAt(tail, 0)].size \in Nat
    BY <2>4, RecordAssumption DEF Record!SignalsAssumption
  <2>6. f[n] + 4 + Types[Record!TypeAt(tail, 0)].size <= f[n] + Len(tail)
    BY <1>10, <2>3, <2>4 DEF Record!ValueEnd, Record!HeaderSize
  <2>7. 0 + 4 + Types[Record!TypeAt(tail, 0)].size <= Len(tail) /\ 0 + 4 <= Len(tail)
    BY <1>1, <1>10, <2>2, <2>5, <2>6
  <2>8. Record!IsEntry(tail, 0)
    BY <2>4, <2>7 DEF Record!IsEntry, Record!ValueEnd, Record!HeaderSize
  <2>9. QED
    BY <2>8
<1>13. /\ EndOf(es) <= Len(raw) /\ ~Record!IsEntry(raw, EndOf(es))
  BY <1>1, <1>10, <1>12
<1>14. \A k \in 1..Len(es) : Head4(raw, k)
  BY <1>11 DEF n
<1>15. QED
  BY <1>10, <1>13, <1>14 DEF Laid, raw, f

-----------------------------------------------------------------------------
(* The inductive invariant of a record.                                     *)

\* The signal id has the value v in raw.
Holds(raw, es, id, v) ==
    \E k \in Record!Positions(es, id) : Record!ValueIn(raw, es, k) = Record!Encode(v, es[k].type)

\* The record is where the target laid it out, and the script has it.
Layout ==
    /\ running \in BOOLEAN /\ Record!ListOf(list)
    /\ Laid(mem, list) /\ Same(mem, data, list)
    /\ meant \in Seq(Record!Byte) /\ Len(meant) = Len(mem)
    /\ spc \in {"idle", "read", "write"} /\ off \in 0..Len(mem)
    /\ outcome \in {"none", "read", "written", "DasError", "KeyError", "ValueError"}

\* What has been read is what the memory holds, but for values stored since.
Reading == spc = "read" =>
    /\ buf \in Seq(Record!Byte) /\ Len(buf) = off
    /\ \A i \in 1..off : i \notin Valued(list) \/ i \notin behindBuf => buf[i] = mem[i]

\* What is being written is the record, with the value asked for; the memory
\* is that up to off, and what the script had behind, but for values stored.
Writing == spc = "write" =>
    /\ Same(mem, out, list)
    /\ sig \in Record!IdsOf(list) /\ Holds(out, list, sig, val)
    /\ ~running => \A i \in 1..off : mem[i] = out[i]
    /\ \A i \in 1..Len(mem) : i \notin behind =>
         out[i] = meant[i] /\ mem[i] = IF i <= off THEN out[i] ELSE data[i]

\* Between writes the script has what the memory holds, but for values stored.
Resting == spc # "write" =>
    meant = mem /\ \A i \in 1..Len(mem) : i \notin behind => data[i] = mem[i]

\* What the last call told.
Reported ==
    /\ spc # "idle" => outcome = "none"
    /\ outcome = "KeyError" => sig \notin Record!IdsOf(list)
    /\ outcome = "written" => sig \in Record!IdsOf(list) /\ (~running => Holds(mem, list, sig, val))

RecordInv == Layout /\ Reading /\ Writing /\ Resting /\ Reported

-----------------------------------------------------------------------------
(* What it says, in parts.                                                  *)

LEMMA SameFacts ==
    ASSUME NEW es, NEW a, NEW b
    PROVE  /\ a \in Seq(Record!Byte) => Same(a, a, es)
           /\ Same(a, b, es) => Same(b, a, es)
           /\ \A c : Same(a, b, es) /\ Same(b, c, es) => Same(a, c, es)
  BY DEF Same

\* The assumptions, part by part.
LEMMA RecordFacts ==
    /\ Chunk \in Nat \ {0} /\ Bytes \subseteq Record!Byte
    /\ \A r \in BOOLEAN :
         /\ \A es \in Lists[r] : Record!ListOf(es)
         /\ \A tail \in Tails[r] : tail \in Seq(Record!Byte) /\ ~Record!IsEntry(tail, 0)
         /\ \A v \in Values[r] : IsValue(v)
  BY RecordAssumption DEF Record!SignalsAssumption, IsValue

LEMMA PositionFacts ==
    ASSUME NEW es, Record!ListOf(es), NEW id
    PROVE  /\ \A k \in Record!Positions(es, id) : k \in 1..Len(es)
           /\ id \in Record!IdsOf(es) <=> Record!Positions(es, id) # {}
  BY EntryFacts DEF Record!Positions, Record!IdsOf

\* The memory and what is read or written have the lengths and bytes they should.
LEMMA LayoutFacts ==
    ASSUME Layout
    PROVE  /\ mem \in Seq(Record!Byte) /\ data \in Seq(Record!Byte)
           /\ Len(mem) \in Nat /\ Len(data) = Len(mem)
           /\ DOMAIN mem = 1..Len(mem) /\ DOMAIN data = 1..Len(data) /\ DOMAIN meant = 1..Len(meant)
           /\ EndOf(list) \in Nat /\ EndOf(list) <= Len(mem)
           /\ off \in Nat /\ off <= Len(mem)
<1>1. mem \in Seq(Record!Byte) /\ data \in Seq(Record!Byte) /\ Len(data) = Len(mem)
  BY DEF Layout, Same
<1>2. meant \in Seq(Record!Byte) /\ Record!ListOf(list) /\ off \in 0..Len(mem)
  BY DEF Layout
<1>3. Len(mem) \in Nat /\ DOMAIN mem = 1..Len(mem) /\ DOMAIN data = 1..Len(data)
  BY <1>1, LenProperties
<1>4. DOMAIN meant = 1..Len(meant)
  BY <1>2, LenProperties
<1>5. EndOf(list) \in Nat
  BY <1>2, StartTypes
<1>6. EndOf(list) <= Len(mem)
  BY DEF Layout, Laid
<1>7. off \in Nat /\ off <= Len(mem)
  BY <1>2, <1>3
<1>8. QED
  BY <1>1, <1>3, <1>4, <1>5, <1>6, <1>7

-----------------------------------------------------------------------------
(* It holds at first, and every step keeps it.                              *)

LEMMA RecordInit == Record!Init => RecordInv
<1> SUFFICES ASSUME Record!Init PROVE RecordInv
  OBVIOUS
<1>1. /\ running \in BOOLEAN /\ list \in Lists[running] /\ data = mem /\ spc = "idle" /\ off = 0
      /\ outcome = "read" /\ meant = mem
  BY DEF Record!Init
<1>2. PICK tail \in Tails[running] : mem = Record!Compose(list) \o tail
  BY DEF Record!Init
<1>3. Record!ListOf(list) /\ tail \in Seq(Record!Byte) /\ ~Record!IsEntry(tail, 0)
  BY <1>1, RecordFacts
<1>4. Laid(mem, list)
  BY <1>2, <1>3, ComposeLaid
<1>5. mem \in Seq(Record!Byte)
  BY <1>4 DEF Laid
<1>6. Len(mem) \in Nat
  BY <1>5, LenProperties
<1>7. Same(mem, data, list)
  BY <1>1, <1>5, SameFacts
<1>8. Layout
  BY <1>1, <1>3, <1>4, <1>5, <1>6, <1>7 DEF Layout
<1>9. Reading /\ Writing /\ Resting /\ Reported
  BY <1>1 DEF Reading, Writing, Resting, Reported
<1>10. QED
  BY <1>8, <1>9 DEF RecordInv

\* The target stores a byte of a value.
LEMMA RecordStores ==
    ASSUME RecordInv, Record!TargetStores
    PROVE  RecordInv'
<1>1. Layout /\ Reading /\ Writing /\ Resting /\ Reported
  BY DEF RecordInv
<1>2. running /\ UNCHANGED <<running, list, data, spc, off, buf, out, sig, val, outcome>>
  BY DEF Record!TargetStores
<1>3. PICK k \in DOMAIN list, b \in Bytes :
        \E i \in (Record!StartOf(list, k) + 4 + 1)
                 ..(Record!StartOf(list, k) + 4 + Len(list[k].value)) :
          /\ mem' = [mem EXCEPT ![i] = b] /\ meant' = [meant EXCEPT ![i] = b]
          /\ behind' = behind \cup {i} /\ behindBuf' = behindBuf \cup {i}
  BY DEF Record!TargetStores, Record!HeaderSize
<1>4. PICK i \in (Record!StartOf(list, k) + 4 + 1)
                 ..(Record!StartOf(list, k) + 4 + Len(list[k].value)) :
          /\ mem' = [mem EXCEPT ![i] = b] /\ meant' = [meant EXCEPT ![i] = b]
          /\ behind' = behind \cup {i} /\ behindBuf' = behindBuf \cup {i}
  BY <1>3
<1>5. Record!ListOf(list) /\ Laid(mem, list) /\ Same(mem, data, list)
  BY <1>1 DEF Layout
<1>6. /\ mem \in Seq(Record!Byte) /\ Len(mem) \in Nat /\ Len(data) = Len(mem)
      /\ EndOf(list) \in Nat /\ EndOf(list) <= Len(mem)
      /\ meant \in Seq(Record!Byte) /\ Len(meant) = Len(mem)
      /\ off \in Nat /\ off <= Len(mem)
  <2>1. meant \in Seq(Record!Byte) /\ Len(meant) = Len(mem)
    BY <1>1 DEF Layout
  <2>2. QED
    BY <1>1, <2>1, LayoutFacts
<1>7. i \in Valued(list) /\ i \in 1..Len(mem)
  <2>1. k \in 1..Len(list)
    BY <1>5, EntryFacts
  <2>2. /\ Record!Starts(list)[k - 1] \in Nat /\ SizeOf(list, k) \in Nat \ {0}
        /\ Record!Starts(list)[k] = Record!Starts(list)[k - 1] + 4 + SizeOf(list, k)
    BY <1>5, <2>1, PlaceOf
  <2>3. i \in (Record!Starts(list)[k - 1] + 5)..Record!Starts(list)[k]
    BY <2>2 DEF Record!StartOf, SizeOf
  <2>4. i \in Valued(list) /\ i <= EndOf(list)
    BY <1>5, <2>1, <2>3, HeadersAreNot
  <2>5. i \in Nat /\ i >= 1
    BY <2>2, <2>3
  <2>6. QED
    BY <1>6, <2>4, <2>5
<1>8. b \in Record!Byte
  BY RecordFacts
<1>9. /\ mem' \in Seq(Record!Byte) /\ Len(mem') = Len(mem)
      /\ \A j \in 1..Len(mem) : j # i => mem'[j] = mem[j]
  BY <1>4, <1>6, <1>7, <1>8, ExceptSeq
<1>10. /\ meant' \in Seq(Record!Byte) /\ Len(meant') = Len(mem)
       /\ \A j \in 1..Len(mem) : j # i => meant'[j] = meant[j]
  BY <1>4, <1>6, <1>7, <1>8, ExceptSeq
<1>11. Same(mem, mem', list)
  BY <1>6, <1>7, <1>9 DEF Same
<1>12. Laid(mem', list) /\ Same(mem', data, list)
  BY <1>5, <1>11, LaidSame, SameFacts
<1>13. Layout'
  BY <1>1, <1>2, <1>5, <1>9, <1>10, <1>12 DEF Layout
<1>14. Reading'
  <2> SUFFICES ASSUME spc = "read"
               PROVE  /\ buf \in Seq(Record!Byte) /\ Len(buf) = off
                      /\ \A j \in 1..off :
                           j \notin Valued(list) \/ j \notin behindBuf' => buf[j] = mem'[j]
    BY <1>2 DEF Reading
  <2>1. /\ buf \in Seq(Record!Byte) /\ Len(buf) = off
        /\ \A j \in 1..off : j \notin Valued(list) \/ j \notin behindBuf => buf[j] = mem[j]
    BY <1>1 DEF Reading
  <2>2. ASSUME NEW j \in 1..off, j \notin Valued(list) \/ j \notin behindBuf'
        PROVE  buf[j] = mem'[j]
    <3>1. j # i /\ (j \notin Valued(list) \/ j \notin behindBuf)
      BY <1>4, <1>7, <2>2
    <3>2. j \in 1..Len(mem)
      BY <1>6
    <3>3. QED
      BY <1>9, <2>1, <3>1, <3>2
  <2>3. QED
    BY <2>1, <2>2
<1>15. Writing'
  <2> SUFFICES ASSUME spc = "write"
               PROVE  /\ Same(mem', out, list)
                      /\ sig \in Record!IdsOf(list) /\ Holds(out, list, sig, val)
                      /\ ~running => \A j \in 1..off : mem'[j] = out[j]
                      /\ \A j \in 1..Len(mem') : j \notin behind' =>
                           out[j] = meant'[j] /\ mem'[j] = IF j <= off THEN out[j] ELSE data[j]
    BY <1>2 DEF Writing
  <2>1. /\ Same(mem, out, list) /\ sig \in Record!IdsOf(list) /\ Holds(out, list, sig, val)
        /\ \A j \in 1..Len(mem) : j \notin behind =>
             out[j] = meant[j] /\ mem[j] = IF j <= off THEN out[j] ELSE data[j]
    BY <1>1 DEF Writing
  <2>2. Same(mem', out, list)
    BY <1>11, <2>1, SameFacts
  <2>3. ASSUME NEW j \in 1..Len(mem'), j \notin behind'
        PROVE  out[j] = meant'[j] /\ mem'[j] = IF j <= off THEN out[j] ELSE data[j]
    <3>1. j # i /\ j \notin behind /\ j \in 1..Len(mem)
      BY <1>4, <1>9, <2>3
    <3>2. QED
      BY <1>9, <1>10, <2>1, <3>1
  <2>4. QED
    BY <1>2, <2>1, <2>2, <2>3
<1>16. Resting'
  <2> SUFFICES ASSUME spc # "write"
               PROVE  /\ meant' = mem'
                      /\ \A j \in 1..Len(mem') : j \notin behind' => data[j] = mem'[j]
    BY <1>2 DEF Resting
  <2>1. meant = mem /\ \A j \in 1..Len(mem) : j \notin behind => data[j] = mem[j]
    BY <1>1 DEF Resting
  <2>2. meant' = mem'
    BY <1>4, <2>1
  <2>3. ASSUME NEW j \in 1..Len(mem'), j \notin behind'
        PROVE  data[j] = mem'[j]
    <3>1. j # i /\ j \notin behind /\ j \in 1..Len(mem)
      BY <1>4, <1>9, <2>3
    <3>2. QED
      BY <1>9, <2>1, <3>1
  <2>4. QED
    BY <2>2, <2>3
<1>17. Reported'
  BY <1>1, <1>2 DEF Reported
<1>18. QED
  BY <1>13, <1>14, <1>15, <1>16, <1>17 DEF RecordInv

LEMMA RecordStartRead ==
    ASSUME RecordInv, Record!StartRead
    PROVE  RecordInv'
<1>1. Layout /\ Resting
  BY DEF RecordInv
<1>2. /\ spc = "idle" /\ spc' = "read" /\ off' = 0 /\ buf' = <<>> /\ outcome' = "none"
      /\ UNCHANGED <<running, list, mem, meant, data, out, sig, val, behind>>
  BY DEF Record!StartRead, Record!targetVars
<1>3. Layout'
  <2>1. 0 \in 0..Len(mem)
    BY <1>1, LayoutFacts
  <2>2. QED
    BY <1>1, <1>2, <2>1 DEF Layout
<1>4. Reading'
  <2>1. <<>> \in Seq(Record!Byte) /\ Len(<<>>) = 0 /\ 1..0 = {}
    OBVIOUS
  <2>2. QED
    BY <1>2, <2>1 DEF Reading
<1>5. Writing' /\ Resting' /\ Reported'
  BY <1>1, <1>2 DEF Writing, Resting, Reported
<1>6. QED
  BY <1>3, <1>4, <1>5 DEF RecordInv

\* What a transaction takes on, or leaves to do, lies within the record.
LEMMA SizeFacts ==
    ASSUME NEW n \in Nat, off \in Nat, off < n
    PROVE  LET size == Record!Smaller(Chunk, n - off) IN
           size \in Nat \ {0} /\ off + size <= n
  BY RecordFacts DEF Record!Smaller

LEMMA RecordReadChunk ==
    ASSUME RecordInv, Record!ReadChunk
    PROVE  RecordInv'
<1> DEFINE size == Record!Smaller(Chunk, Len(mem) - off)
           part2 == SubSeq(mem, off + 1, off + size)
<1>1. Layout /\ Reading /\ Resting /\ Reported
  BY DEF RecordInv
<1>2. /\ spc = "read" /\ off < Len(mem)
      /\ buf' = buf \o part2 /\ off' = off + size
      /\ behindBuf' = behindBuf \ ((off + 1)..(off + size))
      /\ UNCHANGED <<running, list, mem, meant, data, spc, out, sig, val, outcome, behind>>
  BY DEF Record!ReadChunk, Record!targetVars
<1>3. mem \in Seq(Record!Byte) /\ Len(mem) \in Nat /\ off \in Nat
  BY <1>1, LayoutFacts
<1>4. size \in Nat \ {0} /\ off + size <= Len(mem)
  BY <1>2, <1>3, SizeFacts
<1>5. /\ buf \in Seq(Record!Byte) /\ Len(buf) = off
      /\ \A i \in 1..off : i \notin Valued(list) \/ i \notin behindBuf => buf[i] = mem[i]
  BY <1>1, <1>2 DEF Reading
<1> HIDE DEF size
<1>6. /\ part2 \in Seq(Record!Byte) /\ Len(part2) = size
      /\ \A i \in 1..size : part2[i] = mem[off + i]
  <2>1. \A i \in (off + 1)..(off + size) : i \in 1..Len(mem)
    BY <1>3, <1>4
  <2>2. \A i \in (off + 1)..(off + size) : mem[i] \in Record!Byte
    BY <1>3, <2>1, ElementOfSeq
  <2>3. /\ off + 1 \in Int /\ off + size \in Int /\ off + 1 <= off + size
        /\ (off + size) - (off + 1) + 1 = size
    BY <1>3, <1>4
  <2>4. /\ part2 \in Seq(Record!Byte) /\ Len(part2) = (off + size) - (off + 1) + 1
        /\ \A i \in 1..((off + size) - (off + 1) + 1) : part2[i] = mem[(off + 1) + i - 1]
    BY <2>2, <2>3, SubSeqProperties
  <2>5. \A i \in 1..size : (off + 1) + i - 1 = off + i
    BY <1>3, <1>4
  <2> HIDE DEF part2
  <2>6. QED
    BY <2>3, <2>4, <2>5
<1> HIDE DEF part2
<1>7. /\ buf' \in Seq(Record!Byte) /\ Len(buf') = off + size
      /\ \A i \in 1..off : buf'[i] = buf[i]
      /\ \A i \in 1..size : buf'[off + i] = mem[off + i]
  <2> DEFINE both == buf \o part2
  <2>0. buf \in Seq(Record!Byte) /\ part2 \in Seq(Record!Byte)
    BY <1>5, <1>6
  <2>1. /\ both \in Seq(Record!Byte) /\ Len(both) = Len(buf) + Len(part2)
        /\ \A i \in 1..Len(buf) : both[i] = buf[i]
        /\ \A i \in 1..Len(part2) : both[Len(buf) + i] = part2[i]
    BY <2>0, JoinFacts
  <2>2. buf' = both
    BY <1>2
  <2> HIDE DEF both
  <2>3. QED
    BY <1>5, <1>6, <2>1, <2>2
<1>8. \A i \in 1..(off + size) : i \notin Valued(list) \/ i \notin behindBuf' => buf'[i] = mem[i]
  <2> SUFFICES ASSUME NEW i \in 1..(off + size), i \notin Valued(list) \/ i \notin behindBuf'
               PROVE  buf'[i] = mem[i]
    OBVIOUS
  <2>1. CASE i <= off
    <3>1. i \in 1..off /\ i \notin (off + 1)..(off + size)
      BY <1>3, <2>1
    <3>2. i \notin Valued(list) \/ i \notin behindBuf
      BY <1>2, <3>1
    <3>3. QED
      BY <1>5, <1>7, <3>1, <3>2
  <2>2. CASE i > off
    <3>1. i - off \in 1..size /\ off + (i - off) = i
      BY <1>3, <1>4, <2>2
    <3>2. buf'[off + (i - off)] = mem[off + (i - off)]
      BY <1>7, <3>1
    <3>3. QED
      BY <3>1, <3>2
  <2>3. QED
    BY <1>3, <1>4, <2>1, <2>2
<1>9. Layout'
  <2>1. off' \in 0..Len(mem)
    BY <1>2, <1>3, <1>4
  <2>2. QED
    BY <1>1, <1>2, <2>1 DEF Layout
<1>10. Reading'
  BY <1>2, <1>7, <1>8 DEF Reading
<1>11. Writing' /\ Resting' /\ Reported'
  BY <1>1, <1>2 DEF Writing, Resting, Reported
<1>12. QED
  BY <1>9, <1>10, <1>11 DEF RecordInv

LEMMA RecordReadDone ==
    ASSUME RecordInv, Record!ReadDone
    PROVE  RecordInv'
<1>1. Layout /\ Reading /\ Resting /\ Reported
  BY DEF RecordInv
<1>2. /\ spc = "read" /\ off = Len(mem) /\ data' = buf /\ behind' = behindBuf /\ outcome' = "read"
      /\ spc' = "idle" /\ off' = 0
      /\ UNCHANGED <<running, list, mem, meant, sig, val>>
  BY DEF Record!ReadDone, Record!Return, Record!targetVars
<1>3. mem \in Seq(Record!Byte) /\ Len(mem) \in Nat
  BY <1>1, LayoutFacts
<1>4. /\ buf \in Seq(Record!Byte) /\ Len(buf) = Len(mem)
      /\ \A i \in 1..Len(mem) : i \notin Valued(list) \/ i \notin behindBuf => buf[i] = mem[i]
  BY <1>1, <1>2 DEF Reading
<1>5. Same(mem, buf, list)
  BY <1>3, <1>4 DEF Same
<1>6. Layout'
  <2>1. 0 \in 0..Len(mem)
    BY <1>3
  <2>2. QED
    BY <1>1, <1>2, <1>5, <2>1 DEF Layout
<1>7. Resting'
  BY <1>1, <1>2, <1>4 DEF Resting
<1>8. Reading' /\ Writing' /\ Reported'
  BY <1>1, <1>2 DEF Reading, Writing, Reported
<1>9. QED
  BY <1>6, <1>7, <1>8 DEF RecordInv

LEMMA RecordReadFails ==
    ASSUME RecordInv, Record!ReadFails
    PROVE  RecordInv'
<1>1. Layout /\ Resting /\ Reported
  BY DEF RecordInv
<1>2. /\ spc = "read" /\ outcome' = "DasError" /\ spc' = "idle" /\ off' = 0
      /\ UNCHANGED <<running, list, mem, meant, data, sig, val, behind>>
  BY DEF Record!ReadFails, Record!Return, Record!targetVars
<1>3. 0 \in 0..Len(mem)
  BY <1>1, LayoutFacts
<1>4. Layout'
  BY <1>1, <1>2, <1>3 DEF Layout
<1>5. Reading' /\ Writing' /\ Resting' /\ Reported'
  BY <1>1, <1>2 DEF Reading, Writing, Resting, Reported
<1>6. QED
  BY <1>4, <1>5 DEF RecordInv

\* A write of a signal: refused, or what it will write is worked out.
LEMMA RecordWriteSignal ==
    ASSUME RecordInv, NEW s \in Ids[running], NEW v \in Values[running], Record!WriteSignal(s, v)
    PROVE  RecordInv'
<1> DEFINE o == Record!Search(data, s)
           t == Record!TypeAt(data, o)
           bytes == Record!Encode(v, t)
           Known == s \in Record!IdsOf(list)
<1>1. Layout /\ Reading /\ Resting /\ Reported
  BY DEF RecordInv
<1>2. /\ spc = "idle" /\ sig' = s /\ val' = v
      /\ \/ ~Record!ValidId(s) /\ Record!Refuse("ValueError")
         \/ o = Record!NotFound /\ Record!Refuse("KeyError")
         \/ Record!Refuse("ValueError")
         \/ /\ o # Record!NotFound /\ Record!Fits(v, t)
            /\ out' = Record!Patch(data, o, bytes) /\ meant' = Record!Patch(meant, o, bytes)
            /\ off' = 0 /\ spc' = "write" /\ outcome' = "none"
            /\ UNCHANGED <<running, list, mem, data, buf, behind, behindBuf>>
  BY DEF Record!WriteSignal
<1>3. /\ Record!ListOf(list) /\ Laid(data, list) /\ running \in BOOLEAN
      /\ Laid(mem, list) /\ Same(mem, data, list)
  BY <1>1, LaidSame DEF Layout
<1>4. /\ mem \in Seq(Record!Byte) /\ data \in Seq(Record!Byte)
      /\ Len(mem) \in Nat /\ Len(data) = Len(mem) /\ EndOf(list) <= Len(mem)
      /\ DOMAIN mem = 1..Len(mem) /\ DOMAIN data = 1..Len(mem)
  BY <1>1, LayoutFacts
<1>5. meant = mem /\ \A i \in 1..Len(mem) : i \notin behind => data[i] = mem[i]
  BY <1>1, <1>2 DEF Resting
<1>6. Known => \E k \in Record!Positions(list, s) : /\ o = Record!Starts(list)[k - 1]
                                                    /\ o # Record!NotFound
  BY <1>3, LaidSearch
<1>7. ~Known => o = Record!NotFound
  BY <1>3, LaidSearch
<1> HIDE DEF o, Known
<1>8. ASSUME NEW error \in {"KeyError", "ValueError"}, Record!Refuse(error),
             error = "KeyError" => o = Record!NotFound
      PROVE  RecordInv'
  <2>1. /\ outcome' = error /\ UNCHANGED <<running, list, mem, meant, data, spc, off, buf, out>>
        /\ UNCHANGED <<behind, behindBuf>>
    BY <1>8 DEF Record!Refuse, Record!targetVars
  <2>2. Layout'
    BY <1>1, <2>1 DEF Layout
  <2>3. Reading' /\ Writing' /\ Resting'
    BY <1>1, <1>2, <2>1 DEF Reading, Writing, Resting
  <2>4. error = "KeyError" => ~Known
    BY <1>6, <1>8
  <2>5. Reported'
    BY <1>2, <2>1, <2>4 DEF Reported, Known
  <2>6. QED
    BY <2>2, <2>3, <2>5 DEF RecordInv
<1>9. ASSUME o # Record!NotFound, Record!Fits(v, t),
             out' = Record!Patch(data, o, bytes), meant' = Record!Patch(meant, o, bytes),
             off' = 0, spc' = "write", outcome' = "none",
             UNCHANGED <<running, list, mem, data, buf, behind, behindBuf>>
      PROVE  RecordInv'
  <2>1. Known
    BY <1>7, <1>9
  <2>2. PICK k \in Record!Positions(list, s) : o = Record!Starts(list)[k - 1]
    BY <1>6, <2>1
  <2>3. k \in 1..Len(list)
    BY <1>3, PositionFacts
  <2>4. t = list[k].type
    BY <1>3, <2>2, <2>3 DEF Laid
  <2>5. list[k].type \in DOMAIN Types /\ SizeOf(list, k) = Types[list[k].type].size
    BY <1>3, <2>3, EntryFacts
  <2>6. IsValue(v)
    BY <1>3, RecordFacts
  <2> HIDE DEF t
  <2>7. bytes \in Seq(Record!Byte) /\ Len(bytes) = SizeOf(list, k)
    BY <1>9, <2>4, <2>5, <2>6, EncodeFacts
  <2> HIDE DEF bytes
  <2>8. Same(data, out', list) /\ Record!ValueIn(out', list, k) = bytes
    BY <1>3, <1>4, <1>9, <2>2, <2>3, <2>7, PatchFacts
  <2>9. Same(mem, meant', list)
    BY <1>3, <1>4, <1>5, <1>9, <2>2, <2>3, <2>7, PatchFacts
  <2>10. Holds(out', list, s, v)
    BY <2>4, <2>8 DEF Holds, bytes
  <2>11. ASSUME NEW i \in 1..Len(mem), i \notin behind
         PROVE  out'[i] = meant'[i] /\ mem[i] = data[i]
    <3>1. data[i] = mem[i]
      BY <1>5, <2>11
    <3>2. /\ out'[i] = IF i > o + 4 /\ i <= o + 4 + Len(bytes) THEN bytes[i - o - 4] ELSE data[i]
          /\ meant'[i] = IF i > o + 4 /\ i <= o + 4 + Len(bytes) THEN bytes[i - o - 4] ELSE mem[i]
      BY <1>4, <1>5, <1>9 DEF Record!Patch, Record!HeaderSize
    <3>3. QED
      BY <3>1, <3>2
  <2>12. Same(mem, out', list)
    BY <1>3, <2>8, SameFacts
  <2>13. meant' \in Seq(Record!Byte) /\ Len(meant') = Len(mem)
    BY <2>9 DEF Same
  <2>14. 0 \in 0..Len(mem) /\ 1..0 = {}
    BY <1>4
  <2>15. Layout'
    BY <1>1, <1>9, <2>13, <2>14 DEF Layout
  <2>16. Writing'
    <3>1. \A i \in 1..Len(mem) : ~(i <= 0)
      OBVIOUS
    <3>2. s \in Record!IdsOf(list)
      BY <2>1 DEF Known
    <3>3. /\ Same(mem', out', list') /\ sig' \in Record!IdsOf(list') /\ Holds(out', list', sig', val')
      BY <1>2, <1>9, <2>10, <2>12, <3>2
    <3>4. \A i \in 1..off' : mem'[i] = out'[i]
      BY <1>9, <2>14
    <3>5. \A i \in 1..Len(mem') : i \notin behind' =>
            out'[i] = meant'[i] /\ mem'[i] = IF i <= off' THEN out'[i] ELSE data'[i]
      BY <1>9, <2>11, <3>1
    <3>6. QED
      BY <3>3, <3>4, <3>5 DEF Writing
  <2>17. Reading' /\ Resting' /\ Reported'
    BY <1>9 DEF Reading, Resting, Reported
  <2>18. QED
    BY <2>15, <2>16, <2>17 DEF RecordInv
<1>10. QED
  BY <1>2, <1>8, <1>9

\* What a transaction of a write leaves: what is written up to its end.
LEMMA StoredFacts ==
    ASSUME Layout, Same(mem, out, list), NEW size \in Nat, off + size <= Len(mem)
    PROVE  /\ Same(mem, Record!Stored(size), list)
           /\ \A i \in 1..Len(mem) : Record!Stored(size)[i] =
                IF i > off /\ i <= off + size THEN out[i] ELSE mem[i]
<1> DEFINE new == Record!Stored(size)
<1>1. mem \in Seq(Record!Byte) /\ Len(mem) \in Nat /\ DOMAIN mem = 1..Len(mem) /\ off \in Nat
  BY LayoutFacts
<1>2. /\ out \in Seq(Record!Byte) /\ Len(out) = Len(mem)
      /\ \A i \in 1..Len(mem) : i \notin Valued(list) => mem[i] = out[i]
  BY DEF Same
<1>3. new = [i \in 1..Len(mem) |-> IF i > off /\ i <= off + size THEN out[i] ELSE mem[i]]
  BY <1>1 DEF Record!Stored
<1> HIDE DEF new
<1>4. \A i \in 1..Len(mem) : new[i] = IF i > off /\ i <= off + size THEN out[i] ELSE mem[i]
  BY <1>3
<1>5. \A i \in 1..Len(mem) : mem[i] \in Record!Byte /\ out[i] \in Record!Byte
  BY <1>1, <1>2, ElementOfSeq
<1>6. new \in [1..Len(mem) -> Record!Byte]
  BY <1>3, <1>4, <1>5
<1>7. new \in Seq(Record!Byte) /\ Len(new) = Len(mem)
  BY <1>1, <1>6, SeqOf
<1>8. Same(mem, new, list)
  BY <1>1, <1>2, <1>4, <1>7 DEF Same
<1>9. QED
  BY <1>4, <1>8 DEF new

LEMMA RecordWriteChunk ==
    ASSUME RecordInv, Record!WriteChunk
    PROVE  RecordInv'
<1> DEFINE size == Record!Smaller(Chunk, Len(out) - off)
<1>1. Layout /\ Writing /\ Reported
  BY DEF RecordInv
<1>2. /\ spc = "write" /\ off < Len(out) /\ mem' = Record!Stored(size) /\ off' = off + size
      /\ UNCHANGED <<running, list, data, spc, buf, out, sig, val, outcome, meant, behind, behindBuf>>
  BY DEF Record!WriteChunk
<1>3. /\ Same(mem, out, list) /\ sig \in Record!IdsOf(list) /\ Holds(out, list, sig, val)
      /\ ~running => \A i \in 1..off : mem[i] = out[i]
      /\ \A i \in 1..Len(mem) : i \notin behind =>
           out[i] = meant[i] /\ mem[i] = IF i <= off THEN out[i] ELSE data[i]
  BY <1>1, <1>2 DEF Writing
<1>4. mem \in Seq(Record!Byte) /\ Len(mem) \in Nat /\ off \in Nat /\ off <= Len(mem)
  BY <1>1, LayoutFacts
<1>5. Len(out) = Len(mem)
  BY <1>3 DEF Same
<1>6. size \in Nat \ {0} /\ off + size <= Len(mem)
  BY <1>2, <1>4, <1>5, SizeFacts
<1> HIDE DEF size
<1>7. /\ Same(mem, mem', list)
      /\ \A i \in 1..Len(mem) : mem'[i] = IF i > off /\ i <= off + size THEN out[i] ELSE mem[i]
  BY <1>1, <1>2, <1>3, <1>6, StoredFacts
<1>8. Len(mem') = Len(mem)
  BY <1>7 DEF Same
<1>9. Layout'
  <2>1. Laid(mem', list) /\ Same(mem', data, list)
    BY <1>1, <1>7, LaidSame, SameFacts DEF Layout
  <2>2. off' \in 0..Len(mem')
    BY <1>2, <1>4, <1>6, <1>8
  <2>3. QED
    BY <1>1, <1>2, <1>8, <2>1, <2>2 DEF Layout
<1>10. Same(mem', out, list)
  BY <1>3, <1>7, SameFacts
<1>11. ~running => \A i \in 1..off' : mem'[i] = out[i]
  <2> SUFFICES ASSUME ~running, NEW i \in 1..off' PROVE mem'[i] = out[i]
    OBVIOUS
  <2>1. i \in 1..Len(mem) /\ i \in Nat /\ i <= off + size
    BY <1>2, <1>4, <1>6
  <2>2. CASE i > off
    BY <1>7, <2>1, <2>2
  <2>3. CASE i <= off
    <3>1. i \in 1..off /\ ~(i > off)
      BY <1>4, <2>1, <2>3
    <3>2. QED
      BY <1>3, <1>7, <2>1, <3>1
  <2>4. QED
    BY <1>4, <2>1, <2>2, <2>3
<1>12. \A i \in 1..Len(mem') : i \notin behind =>
         out[i] = meant[i] /\ mem'[i] = IF i <= off' THEN out[i] ELSE data[i]
  <2> SUFFICES ASSUME NEW i \in 1..Len(mem), i \notin behind
               PROVE  out[i] = meant[i] /\ mem'[i] = IF i <= off' THEN out[i] ELSE data[i]
    BY <1>8
  <2>1. /\ out[i] = meant[i] /\ mem[i] = IF i <= off THEN out[i] ELSE data[i]
        /\ mem'[i] = IF i > off /\ i <= off + size THEN out[i] ELSE mem[i]
    BY <1>3, <1>7
  <2>2. QED
    BY <1>2, <1>4, <1>6, <2>1
<1>13. Writing'
  BY <1>2, <1>3, <1>10, <1>11, <1>12 DEF Writing
<1>14. Reading' /\ Resting' /\ Reported'
  BY <1>1, <1>2 DEF Reading, Resting, Reported
<1>15. QED
  BY <1>9, <1>13, <1>14 DEF RecordInv

LEMMA RecordWriteFails ==
    ASSUME RecordInv, Record!WriteFails
    PROVE  RecordInv'
<1> DEFINE size == Record!Smaller(Chunk, Len(out) - off)
<1>1. Layout /\ Writing /\ Reported
  BY DEF RecordInv
<1>2. /\ spc = "write" /\ off < Len(out) /\ mem' \in {mem, Record!Stored(size)} /\ meant' = mem'
      /\ behind' = behind \cup Record!Changed(out, data) /\ outcome' = "DasError"
      /\ spc' = "idle" /\ off' = 0 /\ UNCHANGED <<running, list, data, sig, val>>
  BY DEF Record!WriteFails, Record!Return
<1>3. /\ Same(mem, out, list)
      /\ \A i \in 1..Len(mem) : i \notin behind =>
           mem[i] = IF i <= off THEN out[i] ELSE data[i]
  BY <1>1, <1>2 DEF Writing
<1>4. mem \in Seq(Record!Byte) /\ Len(mem) \in Nat /\ off \in Nat /\ off <= Len(mem)
  BY <1>1, LayoutFacts
<1>5. out \in Seq(Record!Byte) /\ Len(out) = Len(mem) /\ DOMAIN out = 1..Len(mem)
  <2>1. out \in Seq(Record!Byte) /\ Len(out) = Len(mem)
    BY <1>3 DEF Same
  <2>2. QED
    BY <2>1, LenProperties
<1>6. size \in Nat \ {0} /\ off + size <= Len(mem)
  BY <1>2, <1>4, <1>5, SizeFacts
<1> HIDE DEF size
<1>7. /\ Same(mem, mem', list)
      /\ \A i \in 1..Len(mem) : mem'[i] = mem[i] \/ mem'[i] = out[i]
  <2>1. CASE mem' = mem
    BY <1>4, <2>1, SameFacts
  <2>2. CASE mem' = Record!Stored(size)
    BY <1>1, <1>3, <1>6, <2>2, StoredFacts
  <2>3. QED
    BY <1>2, <2>1, <2>2
<1>8. Len(mem') = Len(mem) /\ mem' \in Seq(Record!Byte)
  BY <1>7 DEF Same
<1>9. Layout'
  <2>1. Laid(mem', list) /\ Same(mem', data, list)
    BY <1>1, <1>7, LaidSame, SameFacts DEF Layout
  <2>2. off' \in 0..Len(mem')
    BY <1>2, <1>4, <1>8
  <2>3. QED
    BY <1>1, <1>2, <1>8, <2>1, <2>2 DEF Layout
<1>10. Resting'
  <2>1. ASSUME NEW i \in 1..Len(mem'), i \notin behind'
        PROVE  data[i] = mem'[i]
    <3>1. i \in 1..Len(mem) /\ i \notin behind /\ out[i] = data[i]
      BY <1>2, <1>5, <1>8, <2>1 DEF Record!Changed
    <3>2. QED
      BY <1>3, <1>7, <3>1
  <2>2. QED
    BY <1>2, <2>1 DEF Resting
<1>11. Reading' /\ Writing' /\ Reported'
  BY <1>2 DEF Reading, Writing, Reported
<1>12. QED
  BY <1>9, <1>10, <1>11 DEF RecordInv

\* The same bytes hold the same values.
LEMMA HoldsSame ==
    ASSUME NEW es, Record!ListOf(es), NEW id, NEW v, NEW a, NEW b,
           Same(a, b, es), EndOf(es) <= Len(a), \A i \in 1..Len(a) : a[i] = b[i],
           Holds(a, es, id, v)
    PROVE  Holds(b, es, id, v)
<1>1. a \in Seq(Record!Byte) /\ b \in Seq(Record!Byte) /\ Len(b) = Len(a)
  BY DEF Same
<1>2. PICK k \in Record!Positions(es, id) : Record!ValueIn(a, es, k) = Record!Encode(v, es[k].type)
  BY DEF Holds
<1>3. k \in 1..Len(es)
  BY PositionFacts
<1>4. Record!ValueIn(a, es, k) = Record!ValueIn(b, es, k)
  BY <1>1, <1>3, SameValue
<1>5. QED
  BY <1>2, <1>4 DEF Holds

LEMMA RecordWriteDone ==
    ASSUME RecordInv, Record!WriteDone
    PROVE  RecordInv'
<1>1. Layout /\ Writing /\ Reported
  BY DEF RecordInv
<1>2. /\ spc = "write" /\ off = Len(out) /\ meant' = mem /\ outcome' = "written"
      /\ spc' = "idle" /\ off' = 0 /\ UNCHANGED <<running, list, mem, sig, val>>
      /\ \/ data' = out /\ UNCHANGED behind
         \/ UNCHANGED data /\ behind' = behind \cup Record!Changed(out, data)
  BY DEF Record!WriteDone, Record!Return
<1>3. /\ Same(mem, out, list) /\ sig \in Record!IdsOf(list) /\ Holds(out, list, sig, val)
      /\ ~running => \A i \in 1..off : mem[i] = out[i]
      /\ \A i \in 1..Len(mem) : i \notin behind =>
           mem[i] = IF i <= off THEN out[i] ELSE data[i]
  BY <1>1, <1>2 DEF Writing
<1>4. mem \in Seq(Record!Byte) /\ Len(mem) \in Nat /\ EndOf(list) <= Len(mem)
  BY <1>1, LayoutFacts
<1>5. out \in Seq(Record!Byte) /\ Len(out) = Len(mem) /\ DOMAIN out = 1..Len(mem)
  <2>1. out \in Seq(Record!Byte) /\ Len(out) = Len(mem)
    BY <1>3 DEF Same
  <2>2. QED
    BY <2>1, LenProperties
<1>6. \A i \in 1..Len(mem) : i \notin behind => mem[i] = out[i]
  BY <1>2, <1>3, <1>5
<1>7. Same(mem, data', list)
  BY <1>1, <1>2, <1>3 DEF Layout
<1>8. Layout'
  <2>1. 0 \in 0..Len(mem)
    BY <1>4
  <2>2. QED
    BY <1>1, <1>2, <1>4, <1>7, <2>1 DEF Layout
<1>9. Resting'
  <2>1. ASSUME NEW i \in 1..Len(mem), i \notin behind'
        PROVE  data'[i] = mem[i]
    <3>1. CASE data' = out /\ UNCHANGED behind
      BY <1>6, <2>1, <3>1
    <3>2. CASE UNCHANGED data /\ behind' = behind \cup Record!Changed(out, data)
      <4>1. i \notin behind /\ out[i] = data[i]
        BY <1>5, <2>1, <3>2 DEF Record!Changed
      <4>2. QED
        BY <1>6, <3>2, <4>1
    <3>3. QED
      BY <1>2, <3>1, <3>2
  <2>2. QED
    BY <1>2, <2>1 DEF Resting
<1>10. Reported'
  <2>1. ASSUME ~running
        PROVE  Holds(mem, list, sig, val)
    <3>1. \A i \in 1..Len(out) : out[i] = mem[i]
      BY <1>2, <1>3, <2>1
    <3>2. Same(out, mem, list) /\ EndOf(list) <= Len(out) /\ Record!ListOf(list)
      BY <1>1, <1>3, <1>4, <1>5, SameFacts DEF Layout
    <3>3. QED
      BY <1>3, <3>1, <3>2, HoldsSame
  <2>2. QED
    BY <1>2, <1>3, <2>1 DEF Reported
<1>11. Reading' /\ Writing'
  BY <1>2 DEF Reading, Writing
<1>12. QED
  BY <1>8, <1>9, <1>10, <1>11 DEF RecordInv

LEMMA RecordNext ==
    ASSUME RecordInv, Record!Next
    PROVE  RecordInv'
<1>1. CASE Record!TargetStores
  BY <1>1, RecordStores
<1>2. CASE Record!StartRead
  BY <1>2, RecordStartRead
<1>3. CASE \E s \in Ids[running], v \in Values[running] : Record!WriteSignal(s, v)
  BY <1>3, RecordWriteSignal
<1>4. CASE Record!InCall
  BY <1>4, RecordReadChunk, RecordReadDone, RecordReadFails, RecordWriteChunk,
     RecordWriteFails, RecordWriteDone DEF Record!InCall
<1>5. QED
  BY <1>1, <1>2, <1>3, <1>4 DEF Record!Next

LEMMA RecordStays ==
    ASSUME RecordInv, UNCHANGED signalVars
    PROVE  RecordInv'
<1>1. UNCHANGED <<running, list, mem, data, spc, off, buf, out, sig, val, outcome, meant, behind, behindBuf>>
  BY DEF signalVars
<1>2. Layout' /\ Reading' /\ Writing' /\ Resting' /\ Reported'
  BY <1>1 DEF RecordInv, Layout, Reading, Writing, Resting, Reported
<1>3. QED
  BY <1>2 DEF RecordInv

\* Where a signal is in the record once, holding a value is showing it.
LEMMA OncePlaced ==
    ASSUME NEW es, Record!ListOf(es), NEW id, Record!Cardinality(Record!Positions(es, id)) = 1
    PROVE  \A j, k \in Record!Positions(es, id) : j = k
<1> DEFINE K == Record!Positions(es, id)
<1>1. Record!Cardinality(K) = Cardinality(K)
  BY DEF Record!Cardinality, Cardinality
<1>2. K \subseteq 1..Len(es) /\ Len(es) \in Nat
  BY EntryFacts, PositionFacts
<1>3. IsFiniteSet(K)
  <2> HIDE DEF K
  <2>1. IsFiniteSet(1..Len(es))
    BY <1>2, FS_Interval
  <2>2. QED
    BY <1>2, <2>1, FS_Subset
<1>4. Cardinality(K) = 1
  BY <1>1
<1> HIDE DEF K
<1>5. PICK k : K = {k}
  BY <1>3, <1>4, FS_Singleton
<1>6. QED
  BY <1>5 DEF K

\* What it comes to.
LEMMA RecordMeans ==
    ASSUME RecordInv
    PROVE  /\ Record!TypeOK /\ Record!ParsesToRecord /\ Record!RefusesUnknown
           /\ Record!WriteShows /\ Record!LosesOnlyTheUnseen
<1>1. Layout /\ Reading /\ Writing /\ Reported
  BY DEF RecordInv
<1>2. Record!ListOf(list) /\ Laid(mem, list)
  BY <1>1 DEF Layout
<1>3. /\ mem \in Seq(Record!Byte) /\ data \in Seq(Record!Byte) /\ Len(data) = Len(mem)
      /\ DOMAIN mem = 1..Len(mem) /\ Len(mem) \in Nat
  BY <1>1, LayoutFacts
<1>4. Record!TypeOK
  <2>1. spc = "write" => Len(out) = Len(mem)
    BY <1>1 DEF Writing, Same
  <2>2. spc = "read" => Len(buf) = off
    BY <1>1 DEF Reading
  <2>3. QED
    BY <1>1, <1>3, <2>1, <2>2 DEF Record!TypeOK, Layout
<1>5. Record!ParsesToRecord
  BY <1>2, LaidParses DEF Record!ParsesToRecord
<1>6. Record!RefusesUnknown
  BY <1>1 DEF Record!RefusesUnknown, Reported
<1>7. Record!WriteShows
  <2> SUFFICES ASSUME outcome = "written", ~running,
                      Record!Cardinality(Record!Positions(list, sig)) = 1,
                      NEW k \in Record!Positions(list, sig)
               PROVE  Record!ValueIn(mem, list, k) = Record!Encode(val, list[k].type)
    BY DEF Record!WriteShows
  <2>1. PICK j \in Record!Positions(list, sig) :
          Record!ValueIn(mem, list, j) = Record!Encode(val, list[j].type)
    BY <1>1 DEF Reported, Holds
  <2>2. j = k
    BY <1>2, OncePlaced
  <2>3. QED
    BY <2>1, <2>2
<1>8. Record!LosesOnlyTheUnseen
  <2> SUFFICES ASSUME spc = "write", off = Len(out), NEW i \in 1..Len(mem), mem[i] # meant[i]
               PROVE  i \in behind
    BY <1>3 DEF Record!LosesOnlyTheUnseen, Record!Changed
  <2>1. /\ Len(out) = Len(mem)
        /\ i \notin behind => out[i] = meant[i] /\ mem[i] = IF i <= off THEN out[i] ELSE data[i]
    BY <1>1 DEF Writing, Same
  <2>2. QED
    BY <2>1
<1>9. QED
  BY <1>4, <1>5, <1>6, <1>7, <1>8

(* What a script can rely on with records of signals, for any records, data *)
(* types and chunks, of a target at rest and of one that stores values      *)
(* between any two transactions.                                            *)
THEOREM RecordStands == BenchSpec => []RecordIsKept
<1> DEFINE Inv == part = "record" => RecordInv
<1>1. BenchInit => Inv
  BY RecordInit DEF BenchInit
<1>2. Inv /\ [BenchNext]_benchVars => Inv'
  <2> SUFFICES ASSUME Inv, [BenchNext]_benchVars, part' = "record"
               PROVE  RecordInv'
    OBVIOUS
  <2>1. CASE Record!Next /\ part = "record"
    BY <2>1, RecordNext
  <2>2. CASE UNCHANGED signalVars /\ part = "record"
    BY <2>2, RecordStays
  <2>3. QED
    BY <2>1, <2>2 DEF BenchNext, RelayStep, RecordStep, TestStep, benchVars
<1>3. Inv => RecordIsKept
  BY RecordMeans DEF RecordIsKept
<1> HIDE DEF Inv
<1>4. QED
  BY <1>1, <1>2, <1>3, PTL DEF BenchSpec
=============================================================================
