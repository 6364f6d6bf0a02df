----------------------------- MODULE DasClient -----------------------------
(***************************************************************************)
(* The GUI's client of the DAS API (TasGui/src/das_client.cpp).  One call   *)
(* of connect() is a sequence of steps, each around one call of the API or  *)
(* one test of its result; disconnect() closes the port the client holds.   *)
(* The DAS servers, the USB bus and the ports of the API are external and   *)
(* change between any two steps.                                            *)
(*                                                                         *)
(* A wiggler is a natural number: its place in the (busnum, devnum, serial) *)
(* order list_dap_devices sorts by.                                         *)
(***************************************************************************)
EXTENDS Integers, FiniteSets

CONSTANTS
    Devices,     \* the DAP wigglers that may be plugged in
    NoDevice,    \* "no serial chosen" and "not mapped"
    Ports,       \* the handles open_port may return
    NoPort,      \* the null handle
    Requests,    \* the configurations connect() is called with
    MaxServers,  \* bound: DAS servers running or starting at one time
    MaxTries,    \* polls of a starting server (25 in the code)
    HotPlug      \* TRUE: wigglers come and go while connect() runs

ASSUME DevicesAssumption ==
    Devices \subseteq Nat /\ IsFiniteSet(Devices) /\ NoDevice \notin Devices
ASSUME PortsAssumption == NoPort \notin Ports
ASSUME BoundsAssumption ==
    MaxServers \in Nat /\ MaxTries \in Nat /\ HotPlug \in BOOLEAN
ASSUME RequestsAssumption ==
    Requests \subseteq [serial: Devices \cup {NoDevice},
                        portSel: Int, serverIndex: Int]

VARIABLES
    usb,        \* the wigglers plugged in
    servers,    \* the number of DAS servers that answer
    starting,   \* tas_server processes spawned and not answering yet
    portState,  \* "free" or "open", per handle of the API
    mapped,     \* the wiggler each open port is mapped to
    api,        \* api_ is loaded
    port,       \* port_
    pc,         \* the step connect() is at
    req,        \* its argument
    tries,      \* polls of the starting server left
    seenPorts,  \* server->ports, as get_das_servers reported it
    sel,        \* the local cfg.port_sel
    lport       \* the local port

envVars == <<usb, servers, starting>>
portVars == <<portState, mapped, port>>
callVars == <<req, tries, seenPorts, sel, lport>>
clientVars == <<usb, servers, starting, portState, mapped, api, port,
                pc, req, tries, seenPorts, sel, lport>>

Connecting == {"enter", "api", "probe", "spawn", "wait", "query", "select",
               "open", "map", "attach", "init", "errCheck", "errClose"}
Returned == {"ok", "failed"}

NoRequest == [serial |-> NoDevice, portSel |-> 0, serverIndex |-> 0]

(* The position of wiggler d in the sorted list of the wigglers in S.       *)
PositionOf(d, S) == Cardinality({e \in S : e < d})

ClientInit ==
    /\ usb \in SUBSET Devices
    /\ servers \in 0..MaxServers
    /\ starting = 0
    /\ portState = [p \in Ports |-> "free"]
    /\ mapped = [p \in Ports |-> NoDevice]
    /\ api = FALSE
    /\ port = NoPort
    /\ pc = "idle"
    /\ req = NoRequest
    /\ tries = 0
    /\ seenPorts = 0
    /\ sel = 0
    /\ lport = NoPort

-----------------------------------------------------------------------------
(* External steps.                                                          *)

ChangeUsb ==
    /\ HotPlug \/ pc \notin Connecting
    /\ \E d \in Devices :
         usb' = IF d \in usb THEN usb \ {d} ELSE usb \cup {d}
    /\ UNCHANGED <<servers, starting, portVars, api, pc, callVars>>

ServerAnswers ==
    /\ starting > 0
    /\ starting' = starting - 1
    /\ servers' = servers + 1
    /\ UNCHANGED <<usb, portVars, api, pc, callVars>>

ServerDies ==
    /\ \/ servers > 0 /\ servers' = servers - 1 /\ UNCHANGED starting
       \/ starting > 0 /\ starting' = starting - 1 /\ UNCHANGED servers
    /\ UNCHANGED <<usb, portVars, api, pc, callVars>>

ClientEnv == ChangeUsb \/ ServerAnswers \/ ServerDies

-----------------------------------------------------------------------------
(* disconnect(): close the port if there is one and forget it.              *)
ClosePort ==
    LET closed == {p \in Ports : p = port /\ api} IN
    /\ portState' = [p \in Ports |-> IF p \in closed THEN "free" ELSE portState[p]]
    /\ mapped' = [p \in Ports |-> IF p \in closed THEN NoDevice ELSE mapped[p]]
    /\ port' = NoPort

Fail == pc' = "failed" /\ UNCHANGED <<envVars, portVars, api, callVars>>

\* Faulty: a live port is forgotten, not closed.
ConnectEnterKeepsPort ==
    pc = "enter" /\ pc' = "api" /\ UNCHANGED <<envVars, portVars, api, callVars>>

(* connect() opens with disconnect().                                       *)
ConnectEnter ==
    /\ pc = "enter"
    /\ ClosePort
    /\ pc' = "api"
    /\ UNCHANGED <<envVars, api, callVars>>

(* das_api_load and api->init, on the first call only; either may fail.     *)
LoadApi ==
    /\ pc = "api"
    /\ \/ /\ api' = TRUE
          /\ pc' = "probe"
          /\ UNCHANGED <<envVars, portVars, callVars>>
       \/ ~api /\ Fail

(* ensure_server: a server that answers ends it; no server, or an error of  *)
(* get_das_servers, leads to a spawn.                                       *)
ProbeServer ==
    /\ pc = "probe"
    /\ \/ servers > 0 /\ pc' = "query"
       \/ pc' = "spawn"
    /\ UNCHANGED <<envVars, portVars, api, callVars>>

SpawnServer ==
    /\ pc = "spawn"
    /\ \/ /\ starting' = IF servers + starting < MaxServers THEN starting + 1
                                                            ELSE starting
          /\ tries' = MaxTries
          /\ pc' = "wait"
          /\ UNCHANGED <<usb, servers, portVars, api, req, seenPorts, sel, lport>>
       \/ Fail

WaitServer ==
    /\ pc = "wait"
    /\ \/ /\ tries > 0
          /\ tries' = tries - 1
          /\ \/ servers > 0 /\ pc' = "query"
             \/ UNCHANGED pc
          /\ UNCHANGED <<envVars, portVars, api, req, seenPorts, sel, lport>>
       \/ tries = 0 /\ Fail

(* The second get_das_servers: its snapshot is what connect() goes on with. *)
QueryServers ==
    /\ pc = "query"
    /\ \/ /\ req.serverIndex >= 0 /\ req.serverIndex < servers
          /\ seenPorts' = Cardinality(usb)
          /\ pc' = "select"
          /\ UNCHANGED <<envVars, portVars, api, req, tries, sel, lport>>
       \/ Fail

(* The serial becomes a position in the USB enumeration of this moment,     *)
(* and a position is checked against the snapshot of the server's ports.    *)
SelectPort ==
    LET found == req.serial = NoDevice \/ req.serial \in usb
        choice == IF req.serial = NoDevice THEN req.portSel
                                           ELSE PositionOf(req.serial, usb)
    IN
    /\ pc = "select"
    /\ IF found /\ 0 <= choice /\ choice < seenPorts
         THEN /\ sel' = choice
              /\ pc' = "open"
              /\ UNCHANGED <<envVars, portVars, api, req, tries, seenPorts, lport>>
         ELSE Fail

\* Of the API it is assumed that a call with an error has opened no port.
OpenPort ==
    /\ pc = "open"
    /\ \/ \E p \in Ports :
            /\ portState[p] = "free"
            /\ portState' = [portState EXCEPT ![p] = "open"]
            /\ port' = p
            /\ lport' = p
            /\ pc' = "map"
            /\ UNCHANGED <<envVars, mapped, api, req, tries, seenPorts, sel>>
       \/ Fail

(* map_port attaches the wiggler that is at position sel now.  Where the    *)
(* port has been closed under connect() the call may answer anything.       *)
MapPort ==
    /\ pc = "map"
    /\ \/ /\ portState[lport] = "open"
          /\ \E d \in usb :
               PositionOf(d, usb) = sel /\ mapped' = [mapped EXCEPT ![lport] = d]
          /\ pc' = "attach"
       \/ portState[lport] = "free" /\ pc' = "attach" /\ UNCHANGED mapped
       \/ pc' = "errCheck" /\ UNCHANGED mapped
    /\ UNCHANGED <<envVars, portState, port, api, callVars>>

ConnectToDevice ==
    /\ pc = "attach"
    /\ pc' \in {"init", "errCheck"}
    /\ UNCHANGED <<envVars, portVars, api, callVars>>

InitDevice ==
    /\ pc = "init"
    /\ pc' \in {"ok", "errCheck"}
    /\ UNCHANGED <<envVars, portVars, api, callVars>>

\* Faulty: an error path throws without disconnecting.
ErrorLeavesPort == pc = "errCheck" /\ Fail

(* disconnect() on an error path: its test of port_, then its close.        *)
ErrorTestsPort ==
    /\ pc = "errCheck"
    /\ IF port # NoPort
         THEN pc' = "errClose" /\ UNCHANGED <<envVars, portVars, api, callVars>>
         ELSE Fail

ErrorClosesPort ==
    /\ pc = "errClose"
    /\ ClosePort
    /\ pc' = "failed"
    /\ UNCHANGED <<envVars, api, callVars>>

ConnectStep ==
    \/ ConnectEnter \/ LoadApi \/ ProbeServer \/ SpawnServer \/ WaitServer
    \/ QueryServers \/ SelectPort \/ OpenPort \/ MapPort \/ ConnectToDevice
    \/ InitDevice \/ ErrorTestsPort \/ ErrorClosesPort

-----------------------------------------------------------------------------
(* What a caller does: connect(cfg), take its result, disconnect().         *)

CallConnect(r) ==
    /\ pc = "idle"
    /\ pc' = "enter"
    /\ req' = r
    /\ UNCHANGED <<envVars, portVars, api, tries, seenPorts, sel, lport>>

TakeResult ==
    /\ pc \in Returned
    /\ pc' = "idle"
    /\ tries' = 0
    /\ seenPorts' = 0
    /\ sel' = 0
    /\ lport' = NoPort
    /\ UNCHANGED <<envVars, portVars, api, req>>

CallDisconnect ==
    /\ pc = "idle"
    /\ ClosePort
    /\ UNCHANGED <<envVars, api, pc, callVars>>

(* A single-threaded user of the class.                                     *)
ClientNext ==
    \/ ClientEnv
    \/ ConnectStep
    \/ \E r \in Requests : CallConnect(r)
    \/ TakeResult
    \/ CallDisconnect

ClientSpec == ClientInit /\ [][ClientNext]_clientVars /\ WF_clientVars(ConnectStep)

-----------------------------------------------------------------------------
ClientTypeOK ==
    /\ usb \in SUBSET Devices
    /\ servers \in Nat
    /\ starting \in Nat
    /\ portState \in [Ports -> {"free", "open"}]
    /\ mapped \in [Ports -> Devices \cup {NoDevice}]
    /\ api \in BOOLEAN
    /\ port \in Ports \cup {NoPort}
    /\ pc \in Connecting \cup Returned \cup {"idle"}
    /\ req \in Requests \cup {NoRequest}
    /\ tries \in Nat
    /\ seenPorts \in Nat
    /\ sel \in Int
    /\ lport \in Ports \cup {NoPort}

OpenPorts == {p \in Ports : portState[p] = "open"}

(* However connect() ends, it leaves exactly what it promises: the port it  *)
(* returned is open and mapped, and a call that threw holds none            *)
(* (das_client.cpp 206-224: every error after open_port disconnects first). *)
ConnectAllOrNothing ==
    /\ pc = "ok" => OpenPorts = {port} /\ mapped[port] # NoDevice
    /\ pc = "failed" => OpenPorts = {} /\ port = NoPort

(* No port the API has open is out of the client's reach, also when         *)
(* connect() is called again on a live connection (das_client.cpp 169,231). *)
NoLeakedPort == OpenPorts \subseteq {port}

(* connect() always returns or throws: the wait for a server is bounded.    *)
ConnectReturns == (pc \in Connecting) ~> (pc \in Returned)
=============================================================================
