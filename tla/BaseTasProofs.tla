--------------------------- MODULE BaseTasProofs ---------------------------
(***************************************************************************)
(* Proofs about BaseTas for every set of wigglers and handles and every     *)
(* number of servers and polls.                                             *)
(***************************************************************************)
EXTENDS BaseTas, FiniteSetTheorems, TLAPS

-----------------------------------------------------------------------------
(* The inductive invariant.                                                 *)

\* What the session holds, and nothing else is open.
Held == IF client = NoPort THEN {} ELSE {client}

\* The books of the session and of the API, step by step of connect().
Books ==
    /\ FlagMeansPort
    /\ pc \in {"idle", "probe", "spawn", "wait", "drop"} => open = Held
    /\ pc \in {"probe", "spawn", "wait", "drop"} => before = client /\ fresh = NoPort
    /\ pc \in {"new"} \cup Opening => ~connected
    /\ pc \in {"new", "servers", "select", "open"} => open = {} /\ fresh = NoPort
    /\ pc \in {"map", "attach", "init"} => fresh # NoPort /\ open = {fresh}
    /\ pc = "close" => open = IF fresh = NoPort THEN {} ELSE {fresh}
    /\ pc = "caught" => open = {}
    /\ ConnectAllOrNothing

\* While the bus is still, the position means the wiggler asked for.
Asked ==
    ~moved /\ serial # NoDevice =>
        /\ pc \in {"open", "map"} => serial \in usb /\ portSel = PositionOf(serial, usb)
        /\ pc \in {"attach", "init"} => mapped[fresh] = serial
        /\ pc = "ok" => mapped[client] = serial

IInv == TypeOK /\ Books /\ Asked

-----------------------------------------------------------------------------
\* A position is a natural number.
LEMMA PositionType ==
    ASSUME NEW S \in SUBSET Devices, NEW d
    PROVE  /\ IsFiniteSet({e \in S : e < d})
           /\ PositionOf(d, S) \in Nat
<1>1. IsFiniteSet(S)
  BY DevicesAssumption, FS_Subset
<1>2. {e \in S : e < d} \subseteq S
  OBVIOUS
<1>3. IsFiniteSet({e \in S : e < d})
  BY <1>1, <1>2, FS_Subset
<1>4. QED
  BY <1>3, FS_CardinalityType DEF PositionOf

\* Of two wigglers the one that sorts first has the smaller position.
LEMMA PositionMonotone ==
    ASSUME NEW S \in SUBSET Devices, NEW d \in S, NEW e \in S, d < e
    PROVE  PositionOf(d, S) # PositionOf(e, S)
<1> DEFINE A == {x \in S : x < d}
           B == {x \in S : x < e}
<1>1. d \in Nat /\ e \in Nat /\ \A x \in S : x \in Nat
  BY DevicesAssumption
<1>1a. \A x \in S : x < d => x < e
  BY <1>1
<1>1b. ~(d < d)
  BY <1>1
<1>2. A \subseteq B /\ d \in B /\ d \notin A
  BY <1>1a, <1>1b
<1>3. IsFiniteSet(B)
  BY PositionType
<1>4. Cardinality(A) = Cardinality(B) => A = B
  BY <1>2, <1>3, FS_Subset
<1>5. QED
  BY <1>2, <1>4 DEF PositionOf

(* Two wigglers on the bus never share a position: map_port reaches the one *)
(* the position was made from.                                              *)
LEMMA PositionInjective ==
    ASSUME NEW S \in SUBSET Devices, NEW d \in S, NEW e \in S,
           PositionOf(d, S) = PositionOf(e, S)
    PROVE  d = e
<1>1. d \in Nat /\ e \in Nat
  BY DevicesAssumption
<1>2. ~(d < e) /\ ~(e < d)
  BY PositionMonotone
<1>3. QED
  BY <1>1, <1>2

-----------------------------------------------------------------------------
LEMMA TypeInit == Init => TypeOK
<1> SUFFICES ASSUME Init PROVE TypeOK
  OBVIOUS
<1>1. servers \in Nat /\ starting \in Nat /\ polls \in Nat /\ portSel \in Nat
  BY BoundsAssumption DEF Init
<1>2. mapped \in [Ports -> Devices \cup {NoDevice}]
  BY DEF Init
<1>3. QED
  BY <1>1, <1>2 DEF Init, TypeOK, Connecting, Opening

LEMMA TypeStep ==
    ASSUME TypeOK, [Next]_vars
    PROVE  TypeOK'
<1> USE BoundsAssumption DEF TypeOK, Opening, Connecting, Returned,
        envVars, sessVars, callVars, Goto
<1>1. CASE ChangeUsb
  BY <1>1 DEF ChangeUsb
<1>1a. CASE ServerAnswers \/ ServerDies
  BY <1>1a DEF ServerAnswers, ServerDies
<1>2. CASE CallConnect \/ TakeResult \/ CallDisconnect
  BY <1>2 DEF CallConnect, TakeResult, CallDisconnect, Disconnect
<1>3. CASE ConnectStep
  <2>1. CASE ProbeServer
    BY <2>1 DEF ProbeServer
  <2>2. CASE SpawnServer
    BY <2>2 DEF SpawnServer
  <2>3. CASE WaitServer
    BY <2>3 DEF WaitServer
  <2>4. CASE DropOld
    BY <2>4 DEF DropOld, Disconnect
  <2>5. CASE NewClient
    BY <2>5 DEF NewClient
  <2>6. CASE QueryServers
    BY <2>6 DEF QueryServers
  <2>7. CASE SelectPort
    <3>1. PositionOf(serial, usb) \in Nat
      BY PositionType
    <3>2. portSel' \in Nat
      BY <2>7, <3>1 DEF SelectPort
    <3>3. QED
      BY <2>7, <3>2 DEF SelectPort
  <2>8. CASE OpenPort
    BY <2>8 DEF OpenPort
  <2>9. CASE MapPort
    BY <2>9 DEF MapPort
  <2>10. CASE ConnectToDevice
    BY <2>10 DEF ConnectToDevice
  <2>11. CASE InitDevice
    BY <2>11 DEF InitDevice
  <2>12. CASE CloseFresh
    BY <2>12 DEF CloseFresh
  <2>13. CASE Reraise
    BY <2>13 DEF Reraise
  <2>14. QED
    BY <1>3, <2>1, <2>2, <2>3, <2>4, <2>5, <2>6, <2>7, <2>8, <2>9, <2>10,
       <2>11, <2>12, <2>13 DEF ConnectStep
<1>4. CASE UNCHANGED vars
  BY <1>4 DEF vars
<1>5. QED
  BY <1>1, <1>1a, <1>2, <1>3, <1>4 DEF Next

(* The session's variables keep their types, whatever fails.                *)
THEOREM TypeCorrect == Spec => []TypeOK
BY TypeInit, TypeStep, PTL DEF Spec

-----------------------------------------------------------------------------
LEMMA BooksInit == Init => Books
BY PortsAssumption DEF Init, Books, FlagMeansPort, ConnectAllOrNothing, Held, Opening

\* Every step of connect() keeps the books.
LEMMA BooksConnect ==
    ASSUME TypeOK, Books, ConnectStep
    PROVE  Books'
<1> USE PortsAssumption DEF TypeOK, Books, FlagMeansPort, ConnectAllOrNothing, Held,
        Opening, envVars, sessVars, callVars, Goto
<1>1. CASE ProbeServer
  BY <1>1 DEF ProbeServer
<1>2. CASE SpawnServer
  BY <1>2 DEF SpawnServer
<1>3. CASE WaitServer
  BY <1>3 DEF WaitServer
<1>4. CASE DropOld
  BY <1>4 DEF DropOld, Disconnect
<1>5. CASE NewClient
  BY <1>5 DEF NewClient
<1>6. CASE QueryServers
  BY <1>6 DEF QueryServers
<1>7. CASE SelectPort
  BY <1>7 DEF SelectPort
<1>8. CASE OpenPort
  BY <1>8 DEF OpenPort
<1>9. CASE MapPort
  BY <1>9 DEF MapPort
<1>10. CASE ConnectToDevice
  BY <1>10 DEF ConnectToDevice
<1>11. CASE InitDevice
  BY <1>11 DEF InitDevice
<1>12. CASE CloseFresh
  BY <1>12 DEF CloseFresh
<1>13. CASE Reraise
  BY <1>13 DEF Reraise
<1>14. QED
  BY <1>1, <1>2, <1>3, <1>4, <1>5, <1>6, <1>7, <1>8, <1>9, <1>10, <1>11, <1>12, <1>13
     DEF ConnectStep

LEMMA BooksStep ==
    ASSUME TypeOK, Books, [Next]_vars
    PROVE  Books'
<1> USE PortsAssumption DEF TypeOK, Books, FlagMeansPort, ConnectAllOrNothing, Held,
        Opening, envVars, sessVars, callVars
<1>1. CASE ChangeUsb \/ ServerAnswers \/ ServerDies
  BY <1>1 DEF ChangeUsb, ServerAnswers, ServerDies
<1>2. CASE CallConnect
  BY <1>2 DEF CallConnect
<1>3. CASE TakeResult
  BY <1>3 DEF TakeResult, Returned, Goto
<1>4. CASE CallDisconnect
  BY <1>4 DEF CallDisconnect, Disconnect
<1>5. CASE UNCHANGED vars
  BY <1>5 DEF vars
<1>6. QED
  BY <1>1, <1>2, <1>3, <1>4, <1>5, BooksConnect DEF Next

-----------------------------------------------------------------------------
LEMMA AskedInit == Init => Asked
BY DEF Init, Asked

LEMMA AskedStep ==
    ASSUME TypeOK, Books, Asked, [Next]_vars
    PROVE  Asked'
<1> USE DEF Asked, envVars, sessVars, callVars, Goto
<1>1. CASE ChangeUsb
  BY <1>1 DEF ChangeUsb
<1>2. CASE ServerAnswers \/ ServerDies \/ CallConnect \/ TakeResult
  BY <1>2 DEF ServerAnswers, ServerDies, CallConnect, TakeResult, PositionOf
<1>3. CASE CallDisconnect
  BY <1>3 DEF CallDisconnect, Disconnect
<1>4. CASE ProbeServer \/ SpawnServer \/ WaitServer \/ DropOld \/ NewClient \/ QueryServers
  BY <1>4 DEF ProbeServer, SpawnServer, WaitServer, DropOld, Disconnect, NewClient, QueryServers
<1>5. CASE SelectPort
  BY <1>5 DEF SelectPort
<1>6. CASE OpenPort
  BY <1>6 DEF OpenPort
<1>7. CASE MapPort
  <2>1. CASE pc' = "close"
    BY <2>1
  <2>2. CASE \E d \in usb : /\ PositionOf(d, usb) = portSel
                            /\ mapped' = [mapped EXCEPT ![fresh] = d]
                            /\ pc = "map" /\ pc' = "attach"
                            /\ UNCHANGED <<usb, serial, client, fresh, portSel, moved>>
    <3>1. PICK d \in usb : /\ PositionOf(d, usb) = portSel
                           /\ mapped' = [mapped EXCEPT ![fresh] = d]
                           /\ pc = "map" /\ pc' = "attach"
                           /\ UNCHANGED <<usb, serial, client, fresh, portSel, moved>>
      BY <2>2
    <3>2. fresh \in Ports
      BY <3>1 DEF TypeOK, Books
    <3>3. mapped'[fresh'] = d
      BY <3>1, <3>2 DEF TypeOK
    <3>4. ~moved /\ serial # NoDevice => d = serial
      BY <3>1, PositionInjective DEF TypeOK
    <3>5. QED
      BY <3>1, <3>3, <3>4
  <2>3. QED
    BY <1>7, <2>1, <2>2 DEF MapPort
<1>8. CASE ConnectToDevice \/ InitDevice
  BY <1>8 DEF ConnectToDevice, InitDevice
<1>9. CASE CloseFresh \/ Reraise
  BY <1>9 DEF CloseFresh, Reraise
<1>10. CASE UNCHANGED vars
  BY <1>10 DEF vars
<1>11. QED
  BY <1>1, <1>2, <1>3, <1>4, <1>5, <1>6, <1>7, <1>8, <1>9, <1>10 DEF Next, ConnectStep

-----------------------------------------------------------------------------
LEMMA Invariance == Spec => []IInv
<1>1. Init => IInv
  BY TypeInit, BooksInit, AskedInit DEF IInv
<1>2. IInv /\ [Next]_vars => IInv'
  BY TypeStep, BooksStep, AskedStep DEF IInv
<1>3. QED
  BY <1>1, <1>2, PTL DEF Spec

(* A connect() that returned has its one port open; one that raised left    *)
(* nothing behind, or all of the earlier session.                           *)
THEOREM AllOrNothing == Spec => []ConnectAllOrNothing
<1>1. IInv => ConnectAllOrNothing
  BY DEF IInv, Books
<1>2. QED
  BY <1>1, Invariance, PTL

(* is_connected is set exactly while the session holds an open port, inside *)
(* connect() too.                                                           *)
THEOREM FlagIsRight == Spec => []FlagMeansPort
<1>1. IInv => FlagMeansPort
  BY DEF IInv, Books
<1>2. QED
  BY <1>1, Invariance, PTL

(* Whatever else is plugged in, the wiggler attached is the one whose       *)
(* serial was asked for, as long as the bus is still.                       *)
THEOREM AttachesTheAsked == Spec => []AttachedToAsked
<1>1. IInv => AttachedToAsked
  BY DEF IInv, Asked, AttachedToAsked
<1>2. QED
  BY <1>1, Invariance, PTL

-----------------------------------------------------------------------------
(* The refinement.                                                          *)

LEMMA SessionStart == Init => Session!SessionInit
BY DEF Init, Session!SessionInit, Phase, Opening

LEMMA SessionStep ==
    ASSUME IInv, [Next]_vars
    PROVE  [Session!SessionNext]_(Session!sessionVars)
<1> USE PortsAssumption DEF IInv, TypeOK, Books, FlagMeansPort, Held, Phase, Opening,
        envVars, sessVars, callVars, Goto, Session!sessionVars
<1>1. CASE \/ ChangeUsb \/ ServerAnswers \/ ServerDies \/ CallConnect \/ TakeResult
           \/ ProbeServer \/ SpawnServer \/ WaitServer \/ QueryServers \/ SelectPort
           \/ MapPort \/ ConnectToDevice \/ UNCHANGED vars
  <2>1. UNCHANGED <<connected, open>>
    BY <1>1 DEF ChangeUsb, ServerAnswers, ServerDies, CallConnect, TakeResult, ProbeServer,
       SpawnServer, WaitServer, QueryServers, SelectPort, MapPort, ConnectToDevice, vars
  <2>2. connected \/ (pc \in Opening <=> pc' \in Opening)
    BY <1>1 DEF ChangeUsb, ServerAnswers, ServerDies, CallConnect, TakeResult, Returned,
       ProbeServer, SpawnServer, WaitServer, QueryServers, SelectPort, MapPort,
       ConnectToDevice, vars
  <2>3. QED
    BY <2>1, <2>2
<1>2. CASE CallDisconnect \/ DropOld
  BY <1>2 DEF CallDisconnect, DropOld, Disconnect, Session!SessionNext, Session!Disconnect
<1>3. CASE NewClient
  BY <1>3 DEF NewClient, Session!SessionNext, Session!Request
<1>4. CASE OpenPort
  BY <1>4 DEF OpenPort, Session!SessionNext, Session!Acquire
<1>5. CASE InitDevice
  BY <1>5 DEF InitDevice, Session!SessionNext, Session!Succeed
<1>6. CASE CloseFresh
  BY <1>6 DEF CloseFresh, Session!SessionNext, Session!Release
<1>7. CASE Reraise
  BY <1>7 DEF Reraise, Session!SessionNext, Session!GiveUp
<1>8. QED
  BY <1>1, <1>2, <1>3, <1>4, <1>5, <1>6, <1>7 DEF Next, ConnectStep

(* The Python session is the session the GUI implements too: no port taken  *)
(* while one is held, none left by a failed attempt.                        *)
THEOREM Refinement == Spec => ImplementsSession
<1>1. Init => Session!SessionInit
  BY SessionStart
<1>2. IInv /\ [Next]_vars => [Session!SessionNext]_(Session!sessionVars)
  BY SessionStep
<1>3. QED
  BY <1>1, <1>2, Invariance, PTL DEF Spec, ImplementsSession, Session!SessionSpec
=============================================================================
