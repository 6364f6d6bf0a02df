---------------------------- MODULE TasGuiProofs ----------------------------
(***************************************************************************)
(* Proofs about the GUI's DAS client with one user of the class at a time   *)
(* (ClientSpec), and about the GUI's threads around it (Spec), for every    *)
(* set of wigglers and handles and every number of servers, polls, requests *)
(* and entries.                                                             *)
(***************************************************************************)
EXTENDS TasGui, FiniteSetTheorems, TLAPS

-----------------------------------------------------------------------------
(* Types of the client's variables, one action at a time.                   *)

\* disconnect() leaves well-typed books.
LEMMA ClosePortType ==
    ASSUME ClientTypeOK, ClosePort
    PROVE  /\ portState' \in [Ports -> {"free", "open"}]
           /\ mapped' \in [Ports -> Devices \cup {NoDevice}]
           /\ port' \in Ports \cup {NoPort}
BY DEF ClientTypeOK, ClosePort

\* The size of the bus is a natural number.
LEMMA UsbSize ==
    ASSUME NEW S \in SUBSET Devices
    PROVE  Cardinality(S) \in Nat /\ \A d : PositionOf(d, S) \in Nat
<1>1. IsFiniteSet(S)
  BY DevicesAssumption, FS_Subset
<1>2. ASSUME NEW d
      PROVE  Cardinality({e \in S : e < d}) \in Nat
  <2>1. {e \in S : e < d} \subseteq S
    OBVIOUS
  <2>2. IsFiniteSet({e \in S : e < d})
    BY <1>1, <2>1, FS_Subset
  <2>3. QED
    BY <2>2, FS_CardinalityType
<1>3. QED
  BY <1>1, <1>2, FS_CardinalityType DEF PositionOf

LEMMA ConnectStepType ==
    ASSUME ClientTypeOK, ConnectStep
    PROVE  ClientTypeOK'
<1> USE BoundsAssumption DEF ClientTypeOK, Connecting, Returned, Fail,
        clientVars, envVars, portVars, callVars
<1>1. CASE ConnectEnter
  BY <1>1, ClosePortType DEF ConnectEnter
<1>2. CASE LoadApi
  BY <1>2 DEF LoadApi
<1>3. CASE ProbeServer
  BY <1>3 DEF ProbeServer
<1>4. CASE SpawnServer
  BY <1>4 DEF SpawnServer
<1>5. CASE WaitServer
  BY <1>5 DEF WaitServer
<1>6. CASE QueryServers
  BY <1>6, UsbSize DEF QueryServers
<1>7. CASE SelectPort
  <2>1. req.portSel \in Int /\ \A d : PositionOf(d, usb) \in Nat
    BY RequestsAssumption, UsbSize DEF NoRequest
  <2>2. QED
    BY <1>7, <2>1 DEF SelectPort
<1>8. CASE OpenPort
  BY <1>8 DEF OpenPort
<1>9. CASE MapPort
  BY <1>9 DEF MapPort
<1>10. CASE ConnectToDevice
  BY <1>10 DEF ConnectToDevice
<1>11. CASE InitDevice
  BY <1>11 DEF InitDevice
<1>12. CASE ErrorTestsPort
  BY <1>12 DEF ErrorTestsPort
<1>13. CASE ErrorClosesPort
  BY <1>13, ClosePortType DEF ErrorClosesPort
<1>5a. QED
  BY <1>1, <1>2, <1>3, <1>4, <1>5, <1>6, <1>7, <1>8, <1>9, <1>10, <1>11,
     <1>12, <1>13 DEF ConnectStep

LEMMA ClientEnvType ==
    ASSUME ClientTypeOK, ClientEnv
    PROVE  ClientTypeOK'
<1> USE DEF ClientTypeOK, envVars, portVars, callVars
<1>1. CASE ChangeUsb
  BY <1>1 DEF ChangeUsb
<1>2. CASE ServerAnswers
  BY <1>2 DEF ServerAnswers
<1>3. CASE ServerDies
  BY <1>3 DEF ServerDies
<1>4. QED
  BY <1>1, <1>2, <1>3 DEF ClientEnv

LEMMA CallType ==
    ASSUME ClientTypeOK, NEW r \in Requests \cup {NoRequest},
           CallConnect(r) \/ TakeResult \/ CallDisconnect
    PROVE  ClientTypeOK'
<1>1. CASE CallConnect(r)
  BY <1>1 DEF CallConnect, ClientTypeOK, Connecting, envVars, portVars
<1>2. CASE TakeResult
  BY <1>2 DEF TakeResult, ClientTypeOK, envVars, portVars
<1>3. CASE CallDisconnect
  BY <1>3, ClosePortType DEF CallDisconnect, ClientTypeOK, envVars, callVars
<1>4. QED
  BY <1>1, <1>2, <1>3


LEMMA ClientTypeInit == ClientInit => ClientTypeOK
<1> SUFFICES ASSUME ClientInit PROVE ClientTypeOK
  OBVIOUS
<1>1. portState \in [Ports -> {"free", "open"}]
  BY DEF ClientInit
<1>2. mapped \in [Ports -> Devices \cup {NoDevice}]
  BY DEF ClientInit
<1>3. servers \in Nat
  BY BoundsAssumption DEF ClientInit
<1>4. /\ usb \in SUBSET Devices
      /\ starting \in Nat /\ tries \in Nat /\ seenPorts \in Nat /\ sel \in Int
  BY DEF ClientInit
<1>5. QED
  BY <1>1, <1>2, <1>3, <1>4 DEF ClientInit, ClientTypeOK

LEMMA ClientTypeStep ==
    ASSUME ClientTypeOK, [ClientNext]_clientVars
    PROVE  ClientTypeOK'
<1>1. CASE ClientNext
  BY <1>1, ClientEnvType, ConnectStepType, CallType DEF ClientNext
<1>2. CASE UNCHANGED clientVars
  BY <1>2 DEF clientVars, ClientTypeOK
<1>3. QED
  BY <1>1, <1>2

(* Every variable of the client keeps its type, whatever the API answers.   *)
THEOREM ClientTypeCorrect == ClientSpec => []ClientTypeOK
BY ClientTypeInit, ClientTypeStep, PTL DEF ClientSpec

-----------------------------------------------------------------------------
(* The inductive invariant.                                                 *)

\* The handle and the API's books agree at every instant.
HandleBooks ==
    /\ \A p \in Ports : portState[p] = "open" => p = port
    /\ port # NoPort => portState[port] = "open" /\ api

\* What connect() holds, step by step.
CallBooks ==
    /\ pc \in Connecting \ {"enter", "api"} => api
    /\ pc \in {"api", "probe", "spawn", "wait", "query", "select", "open", "failed"}
         => port = NoPort
    /\ pc \in {"map", "attach", "init", "ok", "errCheck", "errClose"}
         => lport = port /\ port # NoPort
    /\ pc \in {"attach", "init", "ok"} => mapped[port] # NoDevice

ClientInv == ClientTypeOK /\ HandleBooks /\ CallBooks

LEMMA ClientInvInit == ClientInit => HandleBooks /\ CallBooks
BY PortsAssumption DEF ClientInit, HandleBooks, CallBooks, Connecting

\* disconnect() leaves no port open.
LEMMA ClosePortFrees ==
    ASSUME ClientTypeOK, HandleBooks, ClosePort
    PROVE  port' = NoPort /\ \A p \in Ports : portState'[p] = "free"
<1>1. port' = NoPort
  BY DEF ClosePort
<1>2. ASSUME NEW p \in Ports
      PROVE  portState'[p] = "free"
  <2>1. portState'[p] = IF p = port /\ api THEN "free" ELSE portState[p]
    BY DEF ClosePort
  <2>2. portState[p] \in {"free", "open"}
    BY DEF ClientTypeOK
  <2>3. portState[p] = "open" => p = port /\ api
    BY PortsAssumption DEF HandleBooks
  <2>4. QED
    BY <2>1, <2>2, <2>3
<1>3. QED
  BY <1>1, <1>2

LEMMA ConnectStepBooks ==
    ASSUME ClientInv, ConnectStep
    PROVE  HandleBooks' /\ CallBooks'
<1> USE DEF ClientInv, HandleBooks, CallBooks, Fail, envVars, portVars, callVars
<1>1. CASE ConnectEnter
  BY <1>1, ClosePortFrees DEF ConnectEnter, Connecting
<1>2. CASE LoadApi
  BY <1>2 DEF LoadApi, Connecting
<1>3. CASE ProbeServer \/ SpawnServer \/ WaitServer \/ QueryServers \/ SelectPort
  <2>1. UNCHANGED <<portState, mapped, port, lport, api>>
    BY <1>3 DEF ProbeServer, SpawnServer, WaitServer, QueryServers, SelectPort
  <2>2. /\ pc \in {"probe", "spawn", "wait", "query", "select"}
        /\ pc' \in {"spawn", "wait", "query", "select", "open", "failed"}
    BY <1>3 DEF ProbeServer, SpawnServer, WaitServer, QueryServers, SelectPort
  <2>3. QED
    BY <2>1, <2>2 DEF Connecting
<1>4. CASE OpenPort
  <2>1. CASE pc' = "failed" /\ UNCHANGED <<portState, mapped, port, lport, api>>
    BY <1>4, <2>1 DEF OpenPort, Connecting
  <2>2. ASSUME NEW p \in Ports,
               portState' = [portState EXCEPT ![p] = "open"],
               port' = p, lport' = p, pc' = "map", api' = api
        PROVE  HandleBooks' /\ CallBooks'
    <3>1. \A q \in Ports : portState'[q] = IF q = p THEN "open" ELSE portState[q]
      BY <2>2 DEF ClientTypeOK
    <3>2. \A q \in Ports : portState[q] # "open"
      BY <1>4, PortsAssumption DEF OpenPort
    <3>3. api
      BY <1>4 DEF OpenPort, Connecting
    <3>4. HandleBooks'
      BY <2>2, <3>1, <3>2, <3>3
    <3>5. CallBooks'
      BY <2>2, <3>3, PortsAssumption
    <3>6. QED
      BY <3>4, <3>5
  <2>3. QED
    BY <1>4, <2>1, <2>2 DEF OpenPort
<1>5. CASE MapPort
  <2>1. UNCHANGED <<portState, port, lport, api>> /\ pc = "map" /\ api
    BY <1>5 DEF MapPort, Connecting
  <2>2. portState[lport] = "open" /\ lport \in Ports
    BY <2>1 DEF ClientTypeOK
  <2>3. CASE pc' = "errCheck"
    BY <2>1, <2>3
  <2>4. CASE pc' = "attach"
    <3>1. PICK d \in usb : mapped' = [mapped EXCEPT ![lport] = d]
      BY <1>5, <2>2, <2>4 DEF MapPort
    <3>2. d # NoDevice
      BY DevicesAssumption DEF ClientTypeOK
    <3>3. mapped'[port'] # NoDevice
      BY <2>1, <2>2, <3>1, <3>2 DEF ClientTypeOK
    <3>4. QED
      BY <2>1, <2>4, <3>3
  <2>5. QED
    BY <1>5, <2>3, <2>4 DEF MapPort
<1>6. CASE ConnectToDevice \/ InitDevice
  BY <1>6 DEF ConnectToDevice, InitDevice, Connecting
<1>7. CASE ErrorTestsPort
  BY <1>7 DEF ErrorTestsPort, Connecting
<1>8. CASE ErrorClosesPort
  BY <1>8, ClosePortFrees DEF ErrorClosesPort, Connecting
<1>9. QED
  BY <1>1, <1>2, <1>3, <1>4, <1>5, <1>6, <1>7, <1>8 DEF ConnectStep

LEMMA ClientInvStep ==
    ASSUME ClientInv, [ClientNext]_clientVars
    PROVE  ClientInv'
<1>1. ClientTypeOK'
  BY ClientTypeStep DEF ClientInv
<1> USE DEF HandleBooks, CallBooks, envVars, portVars, callVars
<1>2. CASE ClientEnv
  BY <1>1, <1>2 DEF ClientInv, ClientEnv, ChangeUsb, ServerAnswers, ServerDies
<1>3. CASE ConnectStep
  BY <1>1, <1>3, ConnectStepBooks DEF ClientInv
<1>4. ASSUME NEW r \in Requests, CallConnect(r)
      PROVE  ClientInv'
  BY <1>1, <1>4 DEF ClientInv, CallConnect
<1>5. CASE TakeResult
  BY <1>1, <1>5 DEF ClientInv, TakeResult, Connecting
<1>6. CASE CallDisconnect
  BY <1>1, <1>6, ClosePortFrees DEF ClientInv, CallDisconnect, Connecting
<1>7. CASE UNCHANGED clientVars
  BY <1>1, <1>7 DEF ClientInv, clientVars
<1>8. QED
  BY <1>2, <1>3, <1>4, <1>5, <1>6, <1>7 DEF ClientNext

LEMMA ClientInvariance == ClientSpec => []ClientInv
<1>1. ClientInit => ClientInv
  BY ClientTypeInit, ClientInvInit DEF ClientInv
<1>2. QED
  BY <1>1, ClientInvStep, PTL DEF ClientSpec

(* A connect() that returned holds its one open, mapped port; one that      *)
(* threw holds none and none is open.                                       *)
THEOREM AllOrNothing == ClientSpec => []ConnectAllOrNothing
<1>1. ClientInv => ConnectAllOrNothing
  BY PortsAssumption
     DEF ClientInv, HandleBooks, CallBooks, ClientTypeOK, ConnectAllOrNothing, OpenPorts
<1>2. QED
  BY <1>1, ClientInvariance, PTL

(* Every port that is open is the one the client can still close.           *)
THEOREM NothingLeaks == ClientSpec => []NoLeakedPort
<1>1. ClientInv => NoLeakedPort
  BY DEF ClientInv, HandleBooks, NoLeakedPort, OpenPorts
<1>2. QED
  BY <1>1, ClientInvariance, PTL

-----------------------------------------------------------------------------
(* The inductive invariant, in the terms of who may touch what.             *)

\* The task names the worker's code; a worker past its end stays there.
TaskRunsCode ==
    /\ ui # "dead" => (task = "connect" <=> pc # "idle")
                      /\ (task = "load" <=> lpc # "idle")
    /\ ui = "dead" => pc \in Returned \cup {"idle"} /\ port = NoPort /\ task = "none"
    /\ ui = "frame" => (busy <=> task # "none")

\* Past its start, connect() has the API.
LoadedApi == pc \in Connecting \ {"enter", "api"} => api

\* Before open_port there is no port; after it connect() holds its own, which
\* only the end of main() can take away.
CallHoldsPort ==
    /\ pc \in {"enter", "api", "probe", "spawn", "wait", "query", "select",
               "open", "failed"} => port = NoPort
    /\ ui = "frame" /\ pc \in {"map", "attach", "init", "ok", "errCheck", "errClose"} =>
           lport = port /\ port # NoPort

\* The flag follows the port, except while connect() is at work.
FlagFollowsPort ==
    ui = "frame" =>
        /\ task = "connect" => ~connected
        /\ task # "connect" => (connected <=> port # NoPort)

\* The table follows the index, except while load() is at work.
TableFollowsIndex ==
    /\ lpc \in {"regen", "read", "parse", "failed"} => ~loaded
    /\ ui = "frame" /\ loaded /\ task # "load" =>
           lastFilter = filter /\ filtered = Matching(filter)

IInv ==
    /\ TypeOK
    /\ HandleBooks
    /\ LoadedApi
    /\ TaskRunsCode
    /\ CallHoldsPort
    /\ FlagFollowsPort
    /\ TableFollowsIndex

-----------------------------------------------------------------------------
(* Types of the index's variables, one action at a time.                    *)

\* An index without entries is an index.
LEMMA NoEntries == <<>> \in Seq(Names) /\ Len(<<>>) <= MaxEntries
<1>1. <<>> \in Seq(Names)
  OBVIOUS
<1>2. Len(<<>>) = 0
  OBVIOUS
<1>3. QED
  BY <1>1, <1>2, MaxEntriesAssumption

LEMMA LoadStepType ==
    ASSUME IndexTypeOK, LoadStep
    PROVE  IndexTypeOK'
<1> USE MaxEntriesAssumption DEF IndexTypeOK, Loading, LoadReturned
<1>1. CASE LoadEnter
  BY <1>1 DEF LoadEnter
<1>2. CASE Regenerate
  BY <1>2 DEF Regenerate
<1>3. CASE ReadJson
  BY <1>3, NoEntries DEF ReadJson
<1>4. CASE ParseEntry
  <2>1. PICK n \in Names : entries' = Append(entries, n)
    BY <1>4 DEF ParseEntry
  <2>2. entries' \in Seq(Names) /\ Len(entries') = Len(entries) + 1
    BY <2>1
  <2>3. QED
    BY <1>4, <2>2 DEF ParseEntry
<1>5. CASE ParseEnd
  BY <1>5 DEF ParseEnd
<1>6. QED
  BY <1>1, <1>2, <1>3, <1>4, <1>5 DEF LoadStep

\* The rows are positions in the entries.
LEMMA RowsType ==
    ASSUME IndexTypeOK, NEW f
    PROVE  Matching(f) \in SUBSET Nat
BY DEF Matching, IndexTypeOK

-----------------------------------------------------------------------------
LEMMA TypeInit == Init => TypeOK
<1> SUFFICES ASSUME Init PROVE TypeOK
  OBVIOUS
<1>1. ClientTypeOK
  BY ClientTypeInit DEF Init, PanelInit
<1>2. IndexTypeOK
  BY NoEntries DEF Init, PanelInit, IndexInit, IndexTypeOK
<1>3. filter \in Filters /\ lastFilter \in Filters \cup {NoFilter}
  BY FiltersAssumption DEF Init, PanelInit
<1>4. QED
  BY <1>1, <1>2, <1>3 DEF Init, PanelInit, TypeOK

LEMMA TypeStep ==
    ASSUME TypeOK, [Next]_vars
    PROVE  TypeOK'
<1> USE DEF TypeOK
<1>1. CASE Env
  BY <1>1, ClientEnvType DEF Env, IndexTypeOK, indexVars, uiVars, filterVars
<1>2. CASE ConnectWorker
  BY <1>2, ConnectStepType DEF ConnectWorker, IndexTypeOK, indexVars, uiVars, filterVars
<1>3. CASE LoadWorker
  BY <1>3, LoadStepType DEF LoadWorker, ClientTypeOK, clientVars, uiVars, filterVars
<1>4. CASE User
  <2> USE DEF IndexTypeOK, indexVars, uiVars, filterVars
  <2>1. CASE EditRequest
    BY <2>1 DEF EditRequest, ClientTypeOK, clientVars
  <2>2. CASE ClickConnect
    BY <2>2, CallType DEF ClickConnect
  <2>3. CASE ClickDisconnect
    <3>1. ClientTypeOK'
      BY <2>3, CallType DEF ClickDisconnect
    <3>2. QED
      BY <2>3, <3>1 DEF ClickDisconnect
  <2>4. CASE ClickLoad
    BY <2>4 DEF ClickLoad, ClientTypeOK, clientVars, Loading
  <2>5. CASE TypeFilter
    BY <2>5, RowsType DEF TypeFilter, ClientTypeOK, clientVars
  <2>6. CASE CloseWindow
    BY <2>6 DEF CloseWindow, ClientTypeOK, clientVars
  <2>7. QED
    BY <1>4, <2>1, <2>2, <2>3, <2>4, <2>5, <2>6 DEF User
<1>5. CASE Pump
  <2>1. CASE PumpConnect
    <3>1. ClientTypeOK'
      BY <2>1, CallType DEF PumpConnect
    <3>2. QED
      BY <2>1, <3>1, RowsType
         DEF PumpConnect, RebuildFilter, IndexTypeOK, indexVars, filterVars
  <2>2. CASE PumpLoad
    BY <2>2, RowsType DEF PumpLoad, RebuildFilter, IndexTypeOK, ClientTypeOK,
       clientVars, filterVars, LoadReturned
  <2>3. QED
    BY <1>5, <2>1, <2>2 DEF Pump
<1>6. CASE Exit
  <2> USE DEF IndexTypeOK, indexVars, filterVars
  <2>1. CASE ExitTestsPort
    BY <2>1 DEF ExitTestsPort, ClientTypeOK, clientVars
  <2>2. CASE ExitClosesPort
    BY <2>2, ClosePortType DEF ExitClosesPort, ClientTypeOK, envVars, callVars
  <2>3. CASE Teardown
    BY <2>3, ClosePortType DEF Teardown, ClientTypeOK, envVars, callVars
  <2>4. QED
    BY <1>6, <2>1, <2>2, <2>3 DEF Exit
<1>7. CASE UNCHANGED vars
  BY <1>7 DEF vars, clientVars, indexVars, uiVars, filterVars, ClientTypeOK, IndexTypeOK
<1>8. QED
  BY <1>1, <1>2, <1>3, <1>4, <1>5, <1>6, <1>7 DEF Next, Worker

(* Every variable of the GUI, its client and its index keeps its type.      *)
THEOREM TypeCorrect == Spec => []TypeOK
<1>1. QED
  BY TypeInit, TypeStep, PTL DEF Spec

-----------------------------------------------------------------------------
(* The invariant, one action at a time.                                     *)

\* disconnect() leaves no port open, wherever it is called.
LEMMA ClosePortCloses ==
    ASSUME TypeOK, HandleBooks, ClosePort
    PROVE  port' = NoPort /\ \A p \in Ports : portState'[p] = "free"
BY ClosePortFrees DEF TypeOK

LEMMA InvInit == Init => IInv
BY TypeInit, PortsAssumption
   DEF Init, PanelInit, ClientInit, IndexInit, IInv, HandleBooks, LoadedApi, Connecting, TaskRunsCode, CallHoldsPort,
       FlagFollowsPort, TableFollowsIndex, Returned

LEMMA ConnectWorkerInv ==
    ASSUME IInv, ConnectWorker
    PROVE  /\ HandleBooks' /\ LoadedApi' /\ TaskRunsCode' /\ CallHoldsPort'
           /\ FlagFollowsPort' /\ TableFollowsIndex'
<1> USE DEF IInv, ConnectWorker, indexVars, uiVars, filterVars, Fail,
        envVars, portVars, callVars
<1>1. pc \in Connecting /\ pc' # "idle"
  BY DEF ConnectStep, ConnectEnter, LoadApi, ProbeServer, SpawnServer, WaitServer,
     QueryServers, SelectPort, OpenPort, MapPort, ConnectToDevice, InitDevice,
     ErrorTestsPort, ErrorClosesPort, Connecting
<1>2. ui # "dead" /\ task = "connect" /\ pc # "idle" /\ lpc = "idle"
  BY <1>1 DEF TaskRunsCode, Connecting, Returned
<1>3. TaskRunsCode'
  BY <1>1, <1>2 DEF TaskRunsCode
<1>4. FlagFollowsPort'
  BY <1>2 DEF FlagFollowsPort
<1>5. TableFollowsIndex'
  BY DEF TableFollowsIndex, Matching
<1>5a. LoadedApi'
  BY DEF LoadedApi, Connecting, ConnectStep, ConnectEnter, LoadApi, ProbeServer,
     SpawnServer, WaitServer, QueryServers, SelectPort, OpenPort, MapPort,
     ConnectToDevice, InitDevice, ErrorTestsPort, ErrorClosesPort
<1>6. CASE ConnectEnter
  BY <1>3, <1>4, <1>5, <1>5a, <1>6, ClosePortCloses
     DEF ConnectEnter, HandleBooks, CallHoldsPort
<1>7. CASE OpenPort
  <2>1. CASE Fail
    BY <1>3, <1>4, <1>5, <1>5a, <1>7, <2>1 DEF OpenPort, HandleBooks, CallHoldsPort
  <2>2. ASSUME NEW p \in Ports,
               portState' = [portState EXCEPT ![p] = "open"],
               port' = p, lport' = p, pc' = "map", api' = api
        PROVE  HandleBooks' /\ CallHoldsPort'
    <3>1. \A q \in Ports : portState'[q] = IF q = p THEN "open" ELSE portState[q]
      BY <2>2 DEF TypeOK, ClientTypeOK
    <3>2. \A q \in Ports : portState[q] # "open"
      BY <1>7, PortsAssumption DEF HandleBooks, CallHoldsPort, OpenPort
    <3>3. api
      BY <1>7 DEF LoadedApi, OpenPort, Connecting
    <3>4. HandleBooks'
      BY <2>2, <3>1, <3>2, <3>3 DEF HandleBooks
    <3>5. CallHoldsPort'
      BY <2>2, PortsAssumption DEF CallHoldsPort
    <3>6. QED
      BY <3>4, <3>5
  <2>3. QED
    BY <1>3, <1>4, <1>5, <1>5a, <1>7, <2>1, <2>2 DEF OpenPort
<1>8. CASE ErrorTestsPort
  BY <1>3, <1>4, <1>5, <1>5a, <1>8 DEF ErrorTestsPort, HandleBooks, CallHoldsPort
<1>9. CASE ErrorClosesPort
  BY <1>3, <1>4, <1>5, <1>5a, <1>9, ClosePortCloses
     DEF ErrorClosesPort, HandleBooks, CallHoldsPort
<1>10. CASE LoadApi
  BY <1>3, <1>4, <1>5, <1>5a, <1>10 DEF LoadApi, HandleBooks, CallHoldsPort
<1>11. CASE ProbeServer \/ SpawnServer \/ WaitServer \/ QueryServers \/ SelectPort
  <2>1. UNCHANGED <<portState, port, lport, api>>
    BY <1>11 DEF ProbeServer, SpawnServer, WaitServer, QueryServers, SelectPort
  <2>2. /\ pc \in {"probe", "spawn", "wait", "query", "select"}
        /\ pc' \in {"spawn", "wait", "query", "select", "open", "failed"}
    BY <1>11 DEF ProbeServer, SpawnServer, WaitServer, QueryServers, SelectPort
  <2>3. QED
    BY <1>3, <1>4, <1>5, <1>5a, <2>1, <2>2 DEF HandleBooks, CallHoldsPort
<1>12. CASE MapPort \/ ConnectToDevice \/ InitDevice
  <2>1. UNCHANGED <<portState, port, lport, api>>
    BY <1>12 DEF MapPort, ConnectToDevice, InitDevice
  <2>2. /\ pc \in {"map", "attach", "init"}
        /\ pc' \in {"attach", "init", "ok", "errCheck"}
    BY <1>12 DEF MapPort, ConnectToDevice, InitDevice
  <2>3. QED
    BY <1>3, <1>4, <1>5, <1>5a, <2>1, <2>2 DEF HandleBooks, CallHoldsPort
<1>13. QED
  BY <1>6, <1>7, <1>8, <1>9, <1>10, <1>11, <1>12 DEF ConnectStep

LEMMA LoadWorkerInv ==
    ASSUME IInv, LoadWorker
    PROVE  /\ HandleBooks' /\ LoadedApi' /\ TaskRunsCode' /\ CallHoldsPort'
           /\ FlagFollowsPort' /\ TableFollowsIndex'
<1> USE DEF IInv, LoadWorker, clientVars, uiVars, filterVars
<1>1. lpc \in Loading /\ lpc' \in Loading \cup LoadReturned
  BY DEF LoadStep, LoadEnter, Regenerate, ReadJson, ParseEntry, ParseEnd,
     Loading, LoadReturned
<1>2. ui # "dead" => task = "load"
  BY <1>1 DEF TaskRunsCode, Loading
<1>3. TaskRunsCode'
  BY <1>1, <1>2 DEF TaskRunsCode, Loading, LoadReturned
<1>4. TableFollowsIndex'
  BY <1>2 DEF TableFollowsIndex, LoadStep, LoadEnter, Regenerate, ReadJson,
     ParseEntry, ParseEnd
<1>5. QED
  BY <1>3, <1>4 DEF HandleBooks, LoadedApi, CallHoldsPort, FlagFollowsPort

LEMMA UserInv ==
    ASSUME IInv, User
    PROVE  /\ HandleBooks' /\ LoadedApi' /\ TaskRunsCode' /\ CallHoldsPort'
           /\ FlagFollowsPort' /\ TableFollowsIndex'
<1> USE DEF IInv
<1>1. CASE EditRequest \/ CloseWindow
  BY <1>1 DEF EditRequest, CloseWindow, HandleBooks, LoadedApi, TaskRunsCode,
     CallHoldsPort, FlagFollowsPort, TableFollowsIndex, Matching,
     clientVars, indexVars, filterVars
<1>2. CASE ClickConnect
  BY <1>2 DEF ClickConnect, CallConnect, HandleBooks, LoadedApi, TaskRunsCode,
     CallHoldsPort, FlagFollowsPort, TableFollowsIndex, Matching,
     indexVars, filterVars, portVars
<1>3. CASE ClickDisconnect
  BY <1>3, ClosePortCloses DEF ClickDisconnect, CallDisconnect, HandleBooks, LoadedApi,
     TaskRunsCode, CallHoldsPort, FlagFollowsPort, TableFollowsIndex, Matching,
     indexVars, filterVars, callVars
<1>4. CASE ClickLoad
  BY <1>4 DEF ClickLoad, HandleBooks, LoadedApi, TaskRunsCode, CallHoldsPort,
     FlagFollowsPort, TableFollowsIndex, Matching, clientVars, filterVars
<1>5. CASE TypeFilter
  BY <1>5 DEF TypeFilter, HandleBooks, LoadedApi, TaskRunsCode, CallHoldsPort,
     FlagFollowsPort, TableFollowsIndex, Matching, clientVars, indexVars, uiVars
<1>6. QED
  BY <1>1, <1>2, <1>3, <1>4, <1>5 DEF User

LEMMA PumpInv ==
    ASSUME IInv, Pump
    PROVE  /\ HandleBooks' /\ LoadedApi' /\ TaskRunsCode' /\ CallHoldsPort'
           /\ FlagFollowsPort' /\ TableFollowsIndex'
<1> USE DEF IInv
<1>1. CASE PumpConnect
  BY <1>1 DEF PumpConnect, TakeResult, RebuildFilter, Returned, Connecting,
     HandleBooks, LoadedApi, TaskRunsCode, CallHoldsPort, FlagFollowsPort,
     TableFollowsIndex, Matching, indexVars, filterVars, portVars
<1>2. CASE PumpLoad
  BY <1>2 DEF PumpLoad, RebuildFilter, LoadReturned, HandleBooks, LoadedApi,
     TaskRunsCode, CallHoldsPort, FlagFollowsPort, TableFollowsIndex, Matching,
     clientVars, filterVars
<1>3. QED
  BY <1>1, <1>2 DEF Pump

LEMMA ExitInv ==
    ASSUME IInv, Exit
    PROVE  /\ HandleBooks' /\ LoadedApi' /\ TaskRunsCode' /\ CallHoldsPort'
           /\ FlagFollowsPort' /\ TableFollowsIndex'
<1> USE DEF IInv
<1>1. CASE ExitTestsPort
  BY <1>1 DEF ExitTestsPort, HandleBooks, LoadedApi, TaskRunsCode, CallHoldsPort,
     FlagFollowsPort, TableFollowsIndex, clientVars, indexVars, filterVars
<1>2. CASE ExitClosesPort
  BY <1>2, ClosePortCloses DEF ExitClosesPort, HandleBooks, LoadedApi, TaskRunsCode,
     CallHoldsPort, FlagFollowsPort, TableFollowsIndex, indexVars, filterVars, callVars
<1>3. CASE Teardown
  <2>1. pc' \in Returned \cup {"idle"}
    BY <1>3 DEF Teardown, WorkerDone, TaskRunsCode
  <2>2. QED
    BY <1>3, <2>1, ClosePortCloses DEF Teardown, HandleBooks, LoadedApi, TaskRunsCode,
       CallHoldsPort, FlagFollowsPort, TableFollowsIndex, indexVars, filterVars, callVars
<1>4. QED
  BY <1>1, <1>2, <1>3 DEF Exit

LEMMA EnvInv ==
    ASSUME IInv, Env
    PROVE  /\ HandleBooks' /\ LoadedApi' /\ TaskRunsCode' /\ CallHoldsPort'
           /\ FlagFollowsPort' /\ TableFollowsIndex'
BY DEF IInv, Env, ClientEnv, ChangeUsb, ServerAnswers, ServerDies, HandleBooks,
   LoadedApi, TaskRunsCode, CallHoldsPort, FlagFollowsPort, TableFollowsIndex, Matching,
   portVars, callVars, indexVars, uiVars, filterVars

LEMMA InvStep ==
    ASSUME IInv, [Next]_vars
    PROVE  IInv'
<1>1. TypeOK'
  BY TypeStep DEF IInv
<1>2. CASE Next
  BY <1>1, <1>2, EnvInv, ConnectWorkerInv, LoadWorkerInv, UserInv, PumpInv, ExitInv
     DEF Next, Worker, IInv
<1>3. CASE UNCHANGED vars
  BY <1>1, <1>3 DEF IInv, HandleBooks, LoadedApi, TaskRunsCode, CallHoldsPort,
     FlagFollowsPort, TableFollowsIndex, Matching,
     vars, clientVars, indexVars, uiVars, filterVars
<1>4. QED
  BY <1>2, <1>3

LEMMA Invariance == Spec => []IInv
BY InvInit, InvStep, PTL DEF Spec

-----------------------------------------------------------------------------
(* What follows for the properties.                                         *)

\* The open ports are the held one, or none.
LEMMA OpenIsHeld ==
    ASSUME IInv
    PROVE  OpenPorts = {port} \ {NoPort}
BY PortsAssumption DEF IInv, HandleBooks, OpenPorts, TypeOK, ClientTypeOK

(* The flag the panels go by agrees with the port whenever no worker runs.  *)
THEOREM FlagIsRight == Spec => []FlagMatchesPort
<1>1. IInv => FlagMatchesPort
  BY OpenIsHeld DEF IInv, FlagFollowsPort, TaskRunsCode, FlagMatchesPort
<1>2. QED
  BY <1>1, Invariance, PTL

(* While connect() runs, connected is FALSE and the panels stay off the     *)
(* client.                                                                  *)
THEOREM WorkerIsAlone == Spec => []WorkerAloneOnClient
<1>1. IInv => WorkerAloneOnClient
  BY DEF IInv, TaskRunsCode, FlagFollowsPort, WorkerAloneOnClient
<1>2. QED
  BY <1>1, Invariance, PTL

(* connect() never uses a port that has been closed, as long as the window  *)
(* is open.                                                                 *)
THEOREM NoUseAfterClose == Spec => []PortUsedWhileOpen
<1>1. IInv => PortUsedWhileOpen
  BY OpenIsHeld DEF IInv, CallHoldsPort, PortUsedWhileOpen
<1>2. QED
  BY <1>1, Invariance, PTL

(* Whatever the threads were doing when the window closed, the program ends *)
(* with no port open and the worker joined.                                 *)
THEOREM CleanExit == Spec => []NothingOpenAtExit
<1>1. IInv => NothingOpenAtExit
  BY OpenIsHeld DEF IInv, TaskRunsCode, NothingOpenAtExit
<1>2. QED
  BY <1>1, Invariance, PTL

\* As long as the window is open, the port of a connect() past map_port is
\* mapped.
HeldIsMapped ==
    ui = "frame" /\ pc \in {"attach", "init", "ok"} => mapped[port] # NoDevice

LEMMA MappedStep ==
    ASSUME IInv, HeldIsMapped, [Next]_vars
    PROVE  HeldIsMapped'
<1> USE DEF HeldIsMapped, Fail, envVars, portVars, callVars, clientVars, uiVars
<1>1. CASE ConnectWorker
  <2>1. CASE MapPort
    <3>1. pc = "map" /\ UNCHANGED <<port, lport, portState, ui>>
      BY <1>1, <2>1 DEF ConnectWorker, MapPort
    <3>2. SUFFICES ASSUME ui = "frame", pc' = "attach"
                   PROVE  mapped'[port] # NoDevice
      BY <2>1, <3>1 DEF MapPort
    <3>3. lport = port /\ port \in Ports /\ portState[port] = "open"
      BY <3>1, <3>2 DEF IInv, CallHoldsPort, HandleBooks, TypeOK, ClientTypeOK
    <3>4. PICK d \in usb : mapped' = [mapped EXCEPT ![lport] = d]
      BY <2>1, <3>2, <3>3 DEF MapPort
    <3>5. QED
      BY <3>3, <3>4, DevicesAssumption DEF IInv, TypeOK, ClientTypeOK
  <2>2. CASE ConnectToDevice \/ InitDevice
    BY <1>1, <2>2 DEF ConnectWorker, ConnectToDevice, InitDevice
  <2>3. CASE ConnectStep /\ ~MapPort /\ ~ConnectToDevice /\ ~InitDevice
    <3>1. pc' \notin {"attach", "init", "ok"}
      BY <2>3 DEF ConnectStep, ConnectEnter, LoadApi, ProbeServer, SpawnServer, WaitServer,
         QueryServers, SelectPort, OpenPort, ErrorTestsPort, ErrorClosesPort
    <3>2. QED
      BY <3>1
  <2>4. QED
    BY <1>1, <2>1, <2>2, <2>3 DEF ConnectWorker
<1>2. CASE Env \/ LoadWorker
  BY <1>2 DEF Env, ClientEnv, ChangeUsb, ServerAnswers, ServerDies, LoadWorker
<1>3. CASE User
  BY <1>3 DEF User, EditRequest, ClickConnect, CallConnect, ClickDisconnect,
     CallDisconnect, ClickLoad, TypeFilter, CloseWindow
<1>4. CASE Pump
  BY <1>4 DEF Pump, PumpConnect, TakeResult, PumpLoad
<1>5. CASE Exit
  BY <1>5 DEF Exit, ExitTestsPort, ExitClosesPort, Teardown
<1>6. CASE UNCHANGED vars
  BY <1>6 DEF vars
<1>7. QED
  BY <1>1, <1>2, <1>3, <1>4, <1>5, <1>6 DEF Next, Worker

(* In the GUI as in the hands of one caller (AllOrNothing, NothingLeaks),   *)
(* connect() ends with its one port open and mapped or with none, and the   *)
(* client can close whatever is open, as long as the window is.             *)
THEOREM HoldsOnePort == Spec => []ClientHoldsOnePort
<1>1. IInv /\ HeldIsMapped => ClientHoldsOnePort
  <2>1. SUFFICES ASSUME IInv, HeldIsMapped, ui = "frame"
                 PROVE  ConnectAllOrNothing /\ NoLeakedPort
    BY DEF ClientHoldsOnePort
  <2>2. OpenPorts = {port} \ {NoPort}
    BY <2>1, OpenIsHeld
  <2>3. QED
    BY <2>1, <2>2 DEF HeldIsMapped, IInv, CallHoldsPort, ConnectAllOrNothing, NoLeakedPort
<1>2. Init => HeldIsMapped
  BY DEF Init, ClientInit, HeldIsMapped
<1>3. IInv /\ HeldIsMapped /\ [Next]_vars => HeldIsMapped'
  BY MappedStep
<1>4. QED
  BY <1>1, <1>2, <1>3, InvInit, InvStep, PTL DEF Spec

(* The flag, the worker and the end of the program agree about the port.    *)
THEOREM PortIsLookedAfter == Spec => []PortLookedAfter
BY FlagIsRight, NoUseAfterClose, CleanExit, PTL DEF PortLookedAfter

(* The rows of the table are exactly the matching entries of the index.     *)
THEOREM RowsAreRight == Spec => []RowsMatchIndex
<1>1. IInv => RowsMatchIndex
  BY DEF IInv, TaskRunsCode, TableFollowsIndex, RowsMatchIndex
<1>2. QED
  BY <1>1, Invariance, PTL

-----------------------------------------------------------------------------
(* Whom the port is connected to.                                           *)

\* Of two wigglers the one that sorts first has the smaller position.
LEMMA PositionMonotone ==
    ASSUME NEW S \in SUBSET Devices, NEW d \in S, NEW e \in S, d < e
    PROVE  PositionOf(d, S) # PositionOf(e, S)
<1> DEFINE A == {x \in S : x < d}
           B == {x \in S : x < e}
<1>1. d \in Nat /\ e \in Nat /\ \A x \in S : x \in Nat
  BY DevicesAssumption
<1>2. A \subseteq B /\ d \in B /\ d \notin A
  <2>1. \A x \in S : x < d => x < e
    BY <1>1
  <2>2. ~(d < d)
    BY <1>1
  <2>3. QED
    BY <2>1, <2>2
<1>3. IsFiniteSet(B)
  <2>1. IsFiniteSet(S) /\ B \subseteq S
    BY DevicesAssumption, FS_Subset
  <2>2. QED
    BY <2>1, FS_Subset
<1>4. Cardinality(A) = Cardinality(B) => A = B
  BY <1>2, <1>3, FS_Subset
<1>5. QED
  BY <1>2, <1>4 DEF PositionOf

(* Two wigglers on the bus never share a position: map_port reaches the one *)
(* the position was made from.                                              *)
LEMMA PositionInjective ==
    ASSUME NEW S \in SUBSET Devices, NEW d \in S, NEW e \in S,
           PositionOf(d, S) = PositionOf(e, S)
    PROVE  d = e
<1>1. d \in Nat /\ e \in Nat
  BY DevicesAssumption
<1>2. ~(d < e) /\ ~(e < d)
  BY PositionMonotone
<1>3. QED
  BY <1>1, <1>2

\* From the choice of the port on, the position, then the wiggler behind the
\* port, are those of the serial asked for.
Asked ==
    req.serial # NoDevice =>
        /\ pc \in {"open", "map"} =>
               req.serial \in usb /\ sel = PositionOf(req.serial, usb)
        /\ ui = "frame" /\ (connected \/ pc \in {"attach", "init", "ok"}) =>
               mapped[port] = req.serial

LEMMA AskedInit == Init => Asked
BY DEF Init, PanelInit, ClientInit, Asked

\* The steps of connect().
LEMMA AskedConnect ==
    ASSUME IInv, Asked, ConnectWorker
    PROVE  Asked'
<1> USE DEF ConnectWorker, Fail, envVars, portVars, callVars, uiVars
<1>1. pc # "idle" /\ (ui = "frame" => task = "connect" /\ ~connected)
  <2>1. pc # "idle" /\ pc \notin Returned
    BY DEF ConnectStep, ConnectEnter, LoadApi, ProbeServer, SpawnServer, WaitServer,
       QueryServers, SelectPort, OpenPort, MapPort, ConnectToDevice, InitDevice,
       ErrorTestsPort, ErrorClosesPort, Returned
  <2>2. QED
    BY <2>1 DEF IInv, TaskRunsCode, FlagFollowsPort
<1>2. UNCHANGED <<req, usb, ui, connected>>
  BY DEF ConnectStep, ConnectEnter, LoadApi, ProbeServer, SpawnServer, WaitServer,
     QueryServers, SelectPort, OpenPort, MapPort, ConnectToDevice, InitDevice,
     ErrorTestsPort, ErrorClosesPort
<1>3. CASE ConnectEnter \/ LoadApi \/ ProbeServer \/ SpawnServer \/ WaitServer
           \/ QueryServers \/ ErrorTestsPort \/ ErrorClosesPort
  <2>1. pc' \notin {"open", "map", "attach", "init", "ok"}
    BY <1>3 DEF ConnectEnter, LoadApi, ProbeServer, SpawnServer, WaitServer,
       QueryServers, ErrorTestsPort, ErrorClosesPort
  <2>2. QED
    BY <1>1, <1>2, <2>1 DEF Asked
<1>4. CASE SelectPort
  BY <1>1, <1>2, <1>4 DEF SelectPort, Asked
<1>5. CASE OpenPort
  <2>1. pc = "open" /\ pc' \in {"map", "failed"} /\ sel' = sel
    BY <1>5 DEF OpenPort
  <2>2. QED
    BY <1>1, <1>2, <2>1 DEF Asked
<1>6. CASE MapPort
  <2>1. pc = "map" /\ pc' \in {"attach", "errCheck"} /\ port' = port
    BY <1>6 DEF MapPort
  <2>2. CASE ui = "frame" /\ pc' = "attach" /\ req.serial # NoDevice
    <3>1. lport = port /\ port \in Ports /\ portState[port] = "open"
      BY <2>1, <2>2 DEF IInv, CallHoldsPort, HandleBooks, TypeOK, ClientTypeOK
    <3>2. PICK d \in usb : PositionOf(d, usb) = sel /\ mapped' = [mapped EXCEPT ![lport] = d]
      BY <1>6, <2>2, <3>1 DEF MapPort
    <3>3. d = req.serial
      BY <2>1, <2>2, <3>2, PositionInjective DEF Asked, IInv, TypeOK, ClientTypeOK
    <3>4. mapped'[port'] = req.serial
      BY <2>1, <3>1, <3>2, <3>3 DEF IInv, TypeOK, ClientTypeOK
    <3>5. QED
      BY <1>2, <2>1, <3>4 DEF Asked
  <2>3. QED
    BY <1>1, <1>2, <2>1, <2>2 DEF Asked
<1>7. CASE ConnectToDevice \/ InitDevice
  <2>1. /\ pc \in {"attach", "init"} /\ pc' \in {"init", "ok", "errCheck"}
        /\ UNCHANGED <<mapped, port>>
    BY <1>7 DEF ConnectToDevice, InitDevice
  <2>2. QED
    BY <1>1, <1>2, <2>1 DEF Asked
<1>8. QED
  BY <1>3, <1>4, <1>5, <1>6, <1>7 DEF ConnectStep

\* The other threads, and a bus that is still while connect() runs.
LEMMA AskedStep ==
    ASSUME ~HotPlug, IInv, Asked, [Next]_vars
    PROVE  Asked'
<1> USE DEF envVars, portVars, callVars, uiVars, clientVars
<1>1. CASE Env
  <2>1. UNCHANGED <<req, pc, ui, connected, mapped, port, sel>>
    BY <1>1 DEF Env, ClientEnv, ChangeUsb, ServerAnswers, ServerDies
  <2>2. usb' = usb \/ pc \notin Connecting
    BY <1>1 DEF Env, ClientEnv, ChangeUsb, ServerAnswers, ServerDies
  <2>3. QED
    BY <2>1, <2>2 DEF Asked, Connecting
<1>2. CASE LoadWorker
  BY <1>2 DEF LoadWorker, Asked
<1>3. CASE EditRequest \/ ClickLoad \/ TypeFilter \/ CloseWindow
  BY <1>3 DEF EditRequest, ClickLoad, TypeFilter, CloseWindow, Asked
<1>4. CASE ClickConnect
  <2>1. pc' = "enter" /\ ~connected'
    BY <1>4 DEF ClickConnect, CallConnect
  <2>2. QED
    BY <2>1 DEF Asked
<1>5. CASE ClickDisconnect
  <2>1. pc' = "idle" /\ ~connected'
    BY <1>5 DEF ClickDisconnect, CallDisconnect
  <2>2. QED
    BY <2>1 DEF Asked
<1>6. CASE PumpConnect
  <2>1. UNCHANGED <<req, mapped, port, ui>> /\ pc' = "idle"
    BY <1>6 DEF PumpConnect, TakeResult
  <2>2. connected' => connected \/ pc = "ok"
    BY <1>6 DEF PumpConnect
  <2>3. QED
    BY <2>1, <2>2 DEF Asked
<1>7. CASE PumpLoad
  <2>1. UNCHANGED <<req, mapped, port, ui, pc, usb, sel>>
    BY <1>7 DEF PumpLoad
  <2>2. connected' => connected
    BY <1>7 DEF PumpLoad, IInv, FlagFollowsPort
  <2>3. QED
    BY <2>1, <2>2 DEF Asked
<1>8. CASE Exit
  <2>1. ui' # "frame" /\ UNCHANGED <<req, pc, usb, sel>>
    BY <1>8 DEF Exit, ExitTestsPort, ExitClosesPort, Teardown
  <2>2. QED
    BY <2>1 DEF Asked
<1>9. CASE UNCHANGED vars
  BY <1>9 DEF vars, Asked
<1>10. QED
  BY <1>1, <1>2, <1>3, <1>4, <1>5, <1>6, <1>7, <1>8, <1>9, AskedConnect
     DEF Next, Worker, User, Pump

(* A session that is up on a serial holds the wiggler with that serial,     *)
(* however many are plugged in and whatever is edited in the panel, as long *)
(* as the bus is still while connect() runs.                                *)
THEOREM ConnectsTheAsked ==
    ASSUME ~HotPlug
    PROVE  Spec => []ConnectedToRequest
<1>1. IInv /\ Asked => ConnectedToRequest
  BY DEF Asked, ConnectedToRequest
<1>2. IInv /\ Asked /\ [Next]_vars => Asked'
  BY AskedStep
<1>3. QED
  BY <1>1, <1>2, AskedInit, Invariance, InvInit, InvStep, PTL DEF Spec

-----------------------------------------------------------------------------
(* Refinement: each step of the GUI is a step of the session or none.       *)

LEMMA SessionStarts == Init => Session!SessionInit
BY DEF Init, PanelInit, ClientInit, Session!SessionInit, Phase, OpenPorts

LEMMA StepImplements ==
    ASSUME IInv, IInv', [Next]_vars
    PROVE  [Session!SessionNext]_(Session!sessionVars)
<1>1. OpenPorts = {port} \ {NoPort} /\ OpenPorts' = {port'} \ {NoPort}
  <2>1. OpenPorts' = {port'} \ {NoPort}
    BY PortsAssumption DEF IInv, HandleBooks, OpenPorts, TypeOK, ClientTypeOK
  <2>2. QED
    BY <2>1, OpenIsHeld
<1>2. port \in Ports \cup {NoPort} /\ port' \in Ports \cup {NoPort}
  BY DEF IInv, TypeOK, ClientTypeOK
<1>3. ui \in {"frame", "exit", "exitClose", "teardown", "dead"}
  BY DEF IInv, TypeOK
<1> USE DEF Session!SessionNext, Session!sessionVars
<1>4. CASE Env
  <2>1. UNCHANGED <<Phase, OpenPorts>>
    BY <1>1, <1>4 DEF Env, ClientEnv, ChangeUsb, ServerAnswers, ServerDies,
       portVars, uiVars, Phase
  <2>2. QED
    BY <2>1
<1>5. CASE ConnectWorker
  <2>1. pc \in Connecting
    BY <1>5 DEF ConnectWorker, ConnectStep, ConnectEnter, LoadApi, ProbeServer,
       SpawnServer, WaitServer, QueryServers, SelectPort, OpenPort, MapPort,
       ConnectToDevice, InitDevice, ErrorTestsPort, ErrorClosesPort, Connecting
  <2>2. task = "connect" /\ ui # "dead"
    BY <2>1 DEF IInv, TaskRunsCode, Connecting, Returned
  <2>3. Phase \in {"opening", "quitting"} /\ Phase' = Phase
    BY <1>3, <1>5, <2>2 DEF ConnectWorker, uiVars, Phase
  <2>4. CASE port' = port
    BY <1>1, <2>3, <2>4
  <2>5. CASE port' # port
    <3>1. \/ port = NoPort /\ port' # NoPort
          \/ port' = NoPort
      BY <1>5, <2>5 DEF ConnectWorker, ConnectStep, ConnectEnter, LoadApi, ProbeServer,
         SpawnServer, WaitServer, QueryServers, SelectPort, OpenPort, MapPort,
         ConnectToDevice, InitDevice, ErrorTestsPort, ErrorClosesPort, Fail, portVars,
         ClosePort, IInv, CallHoldsPort
    <3>2. QED
      BY <1>1, <1>2, <2>3, <3>1 DEF Session!Acquire, Session!Release
  <2>6. QED
    BY <2>4, <2>5
<1>6. CASE LoadWorker
  <2>1. UNCHANGED <<Phase, OpenPorts>>
    BY <1>1, <1>6 DEF LoadWorker, clientVars, uiVars, Phase
  <2>2. QED
    BY <2>1
<1>7. CASE User
  <2>1. CASE EditRequest \/ TypeFilter
    BY <1>1, <2>1 DEF EditRequest, TypeFilter, clientVars, uiVars, Phase
  <2>2. CASE ClickConnect
    BY <1>1, <2>2 DEF ClickConnect, CallConnect, portVars, Phase, Session!Request,
       IInv, TaskRunsCode
  <2>3. CASE ClickDisconnect
    BY <1>1, <2>3 DEF ClickDisconnect, CallDisconnect, ClosePort, Phase,
       Session!Disconnect, IInv, TaskRunsCode
  <2>4. CASE ClickLoad
    BY <1>1, <2>4 DEF ClickLoad, clientVars, Phase, IInv, TaskRunsCode
  <2>5. CASE CloseWindow
    BY <1>1, <2>5 DEF CloseWindow, clientVars, Phase, Session!Quit, IInv, TypeOK
  <2>6. QED
    BY <1>7, <2>1, <2>2, <2>3, <2>4, <2>5 DEF User
<1>8. CASE Pump
  <2>1. CASE PumpConnect
    BY <1>1, <2>1 DEF PumpConnect, TakeResult, portVars, Returned, Phase,
       Session!Succeed, Session!GiveUp, IInv, CallHoldsPort, FlagFollowsPort
  <2>2. CASE PumpLoad
    BY <1>1, <2>2 DEF PumpLoad, clientVars, Phase, IInv, FlagFollowsPort, TypeOK
  <2>3. QED
    BY <1>8, <2>1, <2>2 DEF Pump
<1>9. CASE Exit
  <2>1. CASE ExitTestsPort
    BY <1>1, <2>1 DEF ExitTestsPort, clientVars, Phase
  <2>2. CASE ExitClosesPort
    BY <1>1, <2>2 DEF ExitClosesPort, ClosePort, Phase, Session!Release
  <2>3. CASE Teardown
    BY <1>1, <2>3 DEF Teardown, ClosePort, Phase, Session!Finish
  <2>4. QED
    BY <1>9, <2>1, <2>2, <2>3 DEF Exit
<1>10. CASE UNCHANGED vars
  <2>1. UNCHANGED <<Phase, OpenPorts>>
    BY <1>1, <1>10 DEF vars, clientVars, uiVars, Phase
  <2>2. QED
    BY <2>1
<1>11. QED
  BY <1>4, <1>5, <1>6, <1>7, <1>8, <1>9, <1>10 DEF Next, Worker

(* The GUI implements the abstract session: a session that is up holds one  *)
(* open port, one that is down none, and nothing is open once it is gone.   *)
THEOREM Refinement == Spec => ImplementsSession
<1>1. IInv /\ IInv' /\ [Next]_vars => [Session!SessionNext]_(Session!sessionVars)
  BY StepImplements
<1>2. QED
  BY <1>1, SessionStarts, Invariance, PTL DEF Spec, ImplementsSession, Session!SessionSpec
=============================================================================
