------------------------------ MODULE BaseTas ------------------------------
(***************************************************************************)
(* The Python session (scripts/base_tas.py): BaseTas.connect() probes for a *)
(* server and may spawn one, drops the session it has, makes a new          *)
(* DasClient and opens it; disconnect() closes.  Every call of the DAS API  *)
(* may fail, servers and wigglers come and go between any two steps.        *)
(*                                                                         *)
(* A wiggler is a natural number: its place in the (busnum, devnum, serial) *)
(* order _list_infineon_dap_usb_devices sorts by.                           *)
(***************************************************************************)
EXTENDS Integers, FiniteSets

CONSTANTS
    Devices,     \* the DAP wigglers that may be plugged in
    NoDevice,    \* "no serial given" and "not mapped"
    Ports,       \* the handles open_port may return
    NoPort,      \* None
    MaxServers,  \* bound: DAS servers answering or starting at one time
    MaxPolls     \* polls of a spawned server within the deadline (25: 5 s by 0.2 s)

ASSUME DevicesAssumption ==
    Devices \subseteq Nat /\ IsFiniteSet(Devices) /\ NoDevice \notin Devices
ASSUME PortsAssumption == NoPort \notin Ports
ASSUME BoundsAssumption == MaxServers \in Nat /\ MaxPolls \in Nat

VARIABLES
    usb,        \* the wigglers plugged in
    servers,    \* DAS servers that answer
    starting,   \* tas_server processes spawned that do not answer yet
    open,       \* the ports the API has open
    mapped,     \* the wiggler each port is mapped to
    serial,     \* self.dap_serial
    client,     \* self.client, as the port it holds
    connected,  \* self.is_connected
    pc,         \* the step connect() is at
    polls,      \* polls left before the deadline
    fresh,      \* the port of the local client of connect()
    portSel,    \* its port_sel
    moved,      \* history: the USB bus changed since the serial was looked up
    before      \* history: self.client when connect() was called

envVars == <<usb, servers, starting>>
sessVars == <<open, mapped, client, connected, serial>>
callVars == <<polls, fresh, portSel, moved, before>>
vars == <<usb, servers, starting, open, mapped, serial, client, connected,
          pc, polls, fresh, portSel, moved, before>>

Opening == {"servers", "select", "open", "map", "attach", "init", "close", "caught"}
Connecting == {"probe", "spawn", "wait", "drop", "new"} \cup Opening
Returned == {"ok", "raised"}

PositionOf(d, S) == Cardinality({e \in S : e < d})

Init ==
    /\ usb \in SUBSET Devices
    /\ servers \in 0..MaxServers
    /\ starting = 0
    /\ open = {}
    /\ mapped = [p \in Ports |-> NoDevice]
    /\ serial \in Devices \cup {NoDevice}
    /\ client = NoPort
    /\ connected = FALSE
    /\ pc = "idle"
    /\ polls = 0
    /\ fresh = NoPort
    /\ portSel = 0
    /\ moved = FALSE
    /\ before = NoPort

-----------------------------------------------------------------------------
(* External steps.                                                          *)

ChangeUsb ==
    /\ \E d \in Devices :
         usb' = IF d \in usb THEN usb \ {d} ELSE usb \cup {d}
    /\ moved' = TRUE
    /\ UNCHANGED <<servers, starting, sessVars, pc, polls, fresh, portSel, before>>

ServerAnswers ==
    /\ starting > 0
    /\ starting' = starting - 1
    /\ servers' = servers + 1
    /\ UNCHANGED <<usb, sessVars, pc, callVars>>

ServerDies ==
    /\ \/ servers > 0 /\ servers' = servers - 1 /\ UNCHANGED starting
       \/ starting > 0 /\ starting' = starting - 1 /\ UNCHANGED servers
    /\ UNCHANGED <<usb, sessVars, pc, callVars>>

-----------------------------------------------------------------------------
(* Steps of connect().                                                      *)

Goto(step) == pc' = step /\ UNCHANGED <<envVars, sessVars, callVars>>

CallConnect ==
    /\ pc = "idle"
    /\ pc' = "probe"
    /\ before' = client
    /\ fresh' = NoPort
    /\ UNCHANGED <<envVars, sessVars, polls, portSel, moved>>

(* _ensure_tas_server: making the probe client may raise, and then the old  *)
(* session stays; a server that answers ends it.                            *)
ProbeServer ==
    /\ pc = "probe"
    /\ \/ servers > 0 /\ Goto("drop")
       \/ Goto("spawn")
       \/ Goto("raised")

SpawnServer ==
    /\ pc = "spawn"
    /\ \/ /\ starting' = IF servers + starting < MaxServers THEN starting + 1
                                                            ELSE starting
          /\ polls' = MaxPolls
          /\ pc' = "wait"
          /\ UNCHANGED <<usb, servers, sessVars, fresh, portSel, moved, before>>
       \/ Goto("raised")

\* Faulty: the deadline is taken anew at each poll.
WaitServerAnew ==
    /\ pc = "wait"
    /\ \/ servers > 0 /\ Goto("drop")
       \/ Goto("wait")

(* One turn of the loop; any number of polls may use the time up.           *)
WaitServer ==
    /\ pc = "wait"
    /\ \/ /\ polls > 0
          /\ polls' \in 0..(polls - 1)
          /\ \/ servers > 0 /\ pc' = "drop"
             \/ UNCHANGED pc
          /\ UNCHANGED <<envVars, sessVars, fresh, portSel, moved, before>>
       \/ polls = 0 /\ Goto("raised")

\* Faulty: the client is forgotten, not closed.
DisconnectForgets ==
    client' = NoPort /\ connected' = FALSE /\ UNCHANGED <<open, mapped, serial>>

(* disconnect(): it closes only what the flag says is connected.            *)
Disconnect ==
    /\ open' = IF connected THEN open \ {client} ELSE open
    /\ client' = NoPort
    /\ connected' = FALSE
    /\ UNCHANGED <<mapped, serial>>

DropOld ==
    /\ pc = "drop"
    /\ Disconnect
    /\ pc' = "new"
    /\ UNCHANGED <<envVars, callVars>>

(* DasClient(...): das_api_load and init; it starts with port_sel = 0.      *)
NewClient ==
    /\ pc = "new"
    /\ \/ /\ pc' = "servers"
          /\ portSel' = 0
          /\ UNCHANGED <<envVars, sessVars, polls, fresh, moved, before>>
       \/ Goto("raised")

(* open(): the first server of the list, if there is one.                   *)
QueryServers ==
    /\ pc = "servers"
    /\ \/ servers > 0 /\ Goto("select")
       \/ Goto("close")

\* Faulty: a serial that is not plugged in falls back to the first port.
SelectPortFallsBack ==
    /\ pc = "select"
    /\ portSel' = IF serial \in usb THEN PositionOf(serial, usb) ELSE 0
    /\ moved' = FALSE
    /\ pc' = IF portSel' < Cardinality(usb) THEN "open" ELSE "close"
    /\ UNCHANGED <<envVars, sessVars, polls, fresh, before>>

(* The serial becomes its position of this moment; the number of ports is   *)
(* the one the server reported.                                             *)
SelectPort ==
    /\ pc = "select"
    /\ \/ /\ serial \in usb \cup {NoDevice}
          /\ portSel' = IF serial = NoDevice THEN 0 ELSE PositionOf(serial, usb)
          /\ pc' \in {"open", "close"}
          /\ moved' = FALSE
          /\ UNCHANGED <<envVars, sessVars, polls, fresh, before>>
       \/ Goto("close")

\* Faulty: the error is raised before the port is stored.
OpenPortUnstored ==
    /\ pc = "open"
    /\ \E p \in Ports \ open :
         /\ open' = open \cup {p}
         /\ \/ fresh' = p /\ pc' = "map"
            \/ fresh' = NoPort /\ pc' = "close"
    /\ UNCHANGED <<envVars, mapped, client, connected, serial, polls, portSel, moved, before>>

(* open_port: the port is stored before the error is looked at.             *)
OpenPort ==
    /\ pc = "open"
    /\ \/ /\ \E p \in Ports \ open : open' = open \cup {p} /\ fresh' = p
          /\ pc' \in {"map", "close"}
          /\ UNCHANGED <<envVars, mapped, client, connected, serial,
                         polls, portSel, moved, before>>
       \/ Goto("close")

MapPort ==
    /\ pc = "map"
    /\ \/ /\ \E d \in usb :
               PositionOf(d, usb) = portSel /\ mapped' = [mapped EXCEPT ![fresh] = d]
          /\ pc' = "attach"
          /\ UNCHANGED <<envVars, open, client, connected, serial, callVars>>
       \/ Goto("close")

ConnectToDevice == pc = "attach" /\ (Goto("init") \/ Goto("close"))

InitDevice ==
    /\ pc = "init"
    /\ \/ /\ client' = fresh
          /\ connected' = TRUE
          /\ pc' = "ok"
          /\ UNCHANGED <<envVars, open, mapped, serial, callVars>>
       \/ Goto("close")

(* The except clause: close() what the local client holds, if anything.     *)
CloseFresh ==
    /\ pc = "close"
    /\ open' = open \ {fresh}
    /\ pc' = "caught"
    /\ UNCHANGED <<envVars, mapped, client, connected, serial, callVars>>

Reraise ==
    /\ pc = "caught"
    /\ client' = NoPort
    /\ connected' = FALSE
    /\ pc' = "raised"
    /\ UNCHANGED <<envVars, open, mapped, serial, callVars>>

ConnectStep ==
    \/ ProbeServer \/ SpawnServer \/ WaitServer \/ DropOld \/ NewClient
    \/ QueryServers \/ SelectPort \/ OpenPort \/ MapPort \/ ConnectToDevice
    \/ InitDevice \/ CloseFresh \/ Reraise

-----------------------------------------------------------------------------
(* A script: connect(), take what it returns or catch it, disconnect().     *)

TakeResult ==
    /\ pc \in Returned
    /\ Goto("idle")

CallDisconnect ==
    /\ pc = "idle"
    /\ Disconnect
    /\ UNCHANGED <<envVars, pc, callVars>>

Next ==
    \/ ChangeUsb \/ ServerAnswers \/ ServerDies
    \/ CallConnect \/ ConnectStep \/ TakeResult \/ CallDisconnect

Spec == Init /\ [][Next]_vars /\ WF_vars(ConnectStep)

-----------------------------------------------------------------------------
TypeOK ==
    /\ usb \in SUBSET Devices
    /\ servers \in Nat
    /\ starting \in Nat
    /\ open \in SUBSET Ports
    /\ mapped \in [Ports -> Devices \cup {NoDevice}]
    /\ serial \in Devices \cup {NoDevice}
    /\ client \in Ports \cup {NoPort}
    /\ connected \in BOOLEAN
    /\ pc \in Connecting \cup Returned \cup {"idle"}
    /\ polls \in Nat
    /\ fresh \in Ports \cup {NoPort}
    /\ portSel \in Nat
    /\ moved \in BOOLEAN
    /\ before \in Ports \cup {NoPort}

(* However connect() ends: it returned with one port open, its own; or it   *)
(* raised and there is no session, or, where the search for a server        *)
(* raised, the earlier session as it was (base_tas.py 1074-1096).           *)
ConnectAllOrNothing ==
    /\ pc = "ok" => open = {client} /\ client = fresh
    /\ pc = "raised" => \/ client = NoPort /\ open = {}
                        \/ client = before /\ open = {before}

(* The flag, the client and the API agree at every instant, also inside     *)
(* connect(): read and write test the client, disconnect() tests both       *)
(* (base_tas.py 1098-1102, 1117, 1242).                                     *)
FlagMeansPort ==
    /\ connected <=> client # NoPort
    /\ connected => client \in open

(* The session is with the wiggler whose serial was asked for, unless the   *)
(* bus changed between the look-up and now (base_tas.py 564, 577).          *)
AttachedToAsked ==
    (pc = "ok" /\ ~moved /\ serial # NoDevice) => mapped[client] = serial

(* connect() returns or raises: the wait for tas_server has a deadline      *)
(* (base_tas.py 1302-1311).                                                 *)
ConnectEnds == (pc \in Connecting) ~> (pc \in Returned)

-----------------------------------------------------------------------------
(* The abstract session: still up while connect() looks for a server, down  *)
(* once the old client is dropped, opening while the new one opens.         *)
Phase ==
    IF connected THEN "up" ELSE IF pc \in Opening THEN "opening" ELSE "down"

Session == INSTANCE TasSession WITH phase <- Phase

(* BaseTas implements the session the GUI implements: no port is taken      *)
(* while another is held, none is left by a failed attempt (base_tas.py     *)
(* 1073-1102).                                                              *)
ImplementsSession == Session!SessionSpec
=============================================================================
