---------------------------- MODULE MCTasGuiLive ----------------------------
(* What must eventually happen in the GUI, with one wiggler, asked for by   *)
(* serial, one handle and the empty filter text; and, apart from it, its    *)
(* DAS client in the hands of a single caller, on two wigglers and handles. *)
(* part says which of the two runs.                                         *)
EXTENDS TasGui

CONSTANTS
    Panel   \* the wigglers and the handles of the GUI's part

VARIABLE part

(* For the client: requests by serial and by position (good and out of      *)
(* range), and with a server index that exists only once two servers run,   *)
(* or never.                                                                *)
MCRequests ==
    [serial: Devices, portSel: {0}, serverIndex: {0}]
        \cup [serial: {NoDevice}, portSel: {-1, 1}, serverIndex: {0}]
        \cup [serial: {2}, portSel: {0}, serverIndex: {-1, 1}]
MCFilters == {Names}

guiVars == <<indexVars, uiVars, filterVars>>
liveVars == <<part, vars>>

(* The bounds of the GUI's part, on states.                                 *)
InPanel ==
    /\ usb \subseteq Panel
    /\ cfg \in [serial: Panel, portSel: {0}, serverIndex: {0}] \cup {NoRequest}
    /\ OpenPorts \subseteq Panel

LiveInit ==
    /\ part \in {"gui", "client"}
    /\ Init
    /\ part = "gui" => InPanel

GuiStep(A) == part = "gui" /\ A /\ InPanel' /\ UNCHANGED part
ClientStep(A) == part = "client" /\ A /\ UNCHANGED <<part, guiVars>>

LiveNext == GuiStep(Next) \/ ClientStep(ClientNext)

(* As in TasGui and DasClient: fair threads, API calls that return.         *)
LiveSpec ==
    /\ LiveInit /\ [][LiveNext]_liveVars
    /\ WF_liveVars(GuiStep(Worker)) /\ WF_liveVars(GuiStep(Pump)) /\ WF_liveVars(GuiStep(Exit))
    /\ WF_liveVars(ClientStep(ConnectStep))

-----------------------------------------------------------------------------
(* Every call ends: a busy panel becomes usable again, a closed window ends *)
(* the program whatever the worker was doing, and connect() returns or      *)
(* throws, since the wait for a server is bounded (das_client.cpp 159-166). *)
CallsEnd ==
    /\ part = "gui" => BusyEnds /\ ExitEnds
    /\ part = "client" => ConnectReturns
=============================================================================
