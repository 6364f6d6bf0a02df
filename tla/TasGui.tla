------------------------------- MODULE TasGui -------------------------------
(***************************************************************************)
(* TasGui/src/main.cpp: the UI thread draws a frame at a time; one worker   *)
(* thread at most runs DasClient::connect or ElfIndex::load (std::async);   *)
(* pump_async collects its result.  Closing the window runs the end of      *)
(* main() on the UI thread while the worker may still be at work.           *)
(***************************************************************************)
EXTENDS DasClient, ElfIndex

CONSTANTS
    Filters,   \* the filter texts, each as the set of Names it matches
    NoFilter   \* the initial last_filter, equal to no text

ASSUME FiltersAssumption ==
    Filters \subseteq SUBSET Names /\ Names \in Filters /\ NoFilter \notin Filters

VARIABLES
    ui,          \* "frame" loop, then "exit", "exitClose", "teardown", "dead"
    busy,        \* app.busy
    task,        \* what app.task runs: "none", "connect" or "load"
    connected,   \* app.connected
    cfg,         \* app.cfg, as edited in the panel
    filter,      \* app.filter
    lastFilter,  \* app.last_filter
    filtered     \* app.filtered: indices into entries

uiVars == <<ui, busy, task, connected, cfg>>
filterVars == <<filter, lastFilter, filtered>>
vars == <<clientVars, indexVars, uiVars, filterVars>>

PanelInit ==
    /\ IndexInit
    /\ ui = "frame"
    /\ busy = FALSE
    /\ task = "none"
    /\ connected = FALSE
    /\ cfg = NoRequest
    /\ filter = Names          \* the empty text matches every entry
    /\ lastFilter = NoFilter
    /\ filtered = {}

Init == ClientInit /\ PanelInit

-----------------------------------------------------------------------------
(* The rows rebuild_filter selects.                                         *)
Matching(f) == {i \in 1..Len(entries) : entries[i] \in f}

WorkerDone ==
    \/ task = "none"
    \/ task = "connect" /\ pc \in Returned
    \/ task = "load" /\ lpc \in LoadReturned

(* The panels.  Every button but the text fields is disabled while busy.    *)

\* Faulty: the lambda sees the panel's configuration, not a copy.
EditRequestByReference ==
    /\ ui = "frame"
    /\ cfg' \in Requests \ {cfg}
    /\ req' = IF task = "connect" THEN cfg' ELSE req
    /\ UNCHANGED <<envVars, portVars, api, pc, tries, seenPorts, sel, lport,
                   indexVars, filterVars, ui, busy, task, connected>>

EditRequest ==
    /\ ui = "frame"
    /\ cfg' \in Requests \ {cfg}
    /\ UNCHANGED <<clientVars, indexVars, filterVars, ui, busy, task, connected>>

\* Faulty: the button is offered on a live session too.
ClickConnectWhileUp ==
    /\ ui = "frame" /\ ~busy
    /\ busy' = TRUE
    /\ task' = "connect"
    /\ CallConnect(cfg)
    /\ UNCHANGED <<indexVars, filterVars, ui, connected, cfg>>

\* "Connect": the lambda gets a copy of the configuration.
ClickConnect ==
    /\ ui = "frame" /\ ~busy /\ ~connected
    /\ busy' = TRUE
    /\ task' = "connect"
    /\ CallConnect(cfg)
    /\ UNCHANGED <<indexVars, filterVars, ui, connected, cfg>>

\* Faulty: the flag stays up.
ClickDisconnectKeepsFlag ==
    /\ ui = "frame" /\ ~busy /\ connected
    /\ CallDisconnect
    /\ UNCHANGED <<indexVars, uiVars, filterVars>>

ClickDisconnect ==
    /\ ui = "frame" /\ ~busy /\ connected
    /\ CallDisconnect
    /\ connected' = FALSE
    /\ UNCHANGED <<indexVars, filterVars, ui, busy, task, cfg>>

\* "Load / Index" and "Force regen".
ClickLoad ==
    /\ ui = "frame" /\ ~busy
    /\ busy' = TRUE
    /\ task' = "load"
    /\ lpc' = "enter"
    /\ UNCHANGED <<clientVars, entries, loaded, filterVars, ui, connected, cfg>>

\* The Variables panel is drawn only for a loaded index and an idle worker.
TypeFilter ==
    /\ ui = "frame" /\ ~busy /\ loaded
    /\ \E f \in Filters :
         /\ filter' = f
         /\ lastFilter' = f
         /\ filtered' = IF lastFilter # f THEN Matching(f) ELSE filtered
    /\ UNCHANGED <<clientVars, indexVars, uiVars>>

(* pump_async, at the start of a frame.                                     *)
RebuildFilter ==
    /\ filtered' = Matching(filter)
    /\ lastFilter' = filter
    /\ UNCHANGED filter

PumpConnect ==
    /\ ui = "frame" /\ busy /\ task = "connect"
    /\ TakeResult
    /\ busy' = FALSE
    /\ task' = "none"
    /\ IF pc = "ok"
         THEN /\ connected' = (connected \/ port # NoPort)
              /\ RebuildFilter
         ELSE UNCHANGED <<connected, filterVars>>
    /\ UNCHANGED <<indexVars, ui, cfg>>

\* Faulty: the rows of the last index stay.
PumpLoadKeepsRows ==
    /\ ui = "frame" /\ busy /\ task = "load"
    /\ lpc \in LoadReturned
    /\ lpc' = "idle"
    /\ busy' = FALSE
    /\ task' = "none"
    /\ UNCHANGED <<clientVars, entries, loaded, ui, connected, cfg, filterVars>>

PumpLoad ==
    /\ ui = "frame" /\ busy /\ task = "load"
    /\ lpc \in LoadReturned
    /\ lpc' = "idle"
    /\ busy' = FALSE
    /\ task' = "none"
    /\ IF lpc = "ok"
         THEN /\ connected' = (connected \/ port # NoPort)
              /\ RebuildFilter
         ELSE UNCHANGED <<connected, filterVars>>
    /\ UNCHANGED <<clientVars, entries, loaded, ui, cfg>>

(* The end of main().                                                       *)

CloseWindow ==
    /\ ui = "frame"
    /\ ui' = "exit"
    /\ UNCHANGED <<clientVars, indexVars, filterVars, busy, task, connected, cfg>>

\* `if (app.client.connected())`
ExitTestsPort ==
    /\ ui = "exit"
    /\ ui' = IF port # NoPort THEN "exitClose" ELSE "teardown"
    /\ UNCHANGED <<clientVars, indexVars, filterVars, busy, task, connected, cfg>>

\* `app.client.disconnect();`, with the worker possibly inside connect()
ExitClosesPort ==
    /\ ui = "exitClose"
    /\ ClosePort
    /\ ui' = "teardown"
    /\ UNCHANGED <<envVars, api, pc, callVars, indexVars, filterVars,
                   busy, task, connected, cfg>>

\* Faulty: the client goes before the worker is joined; the join waits for a
\* flag that only the frame loop clears.
TeardownUnjoined ==
    /\ ui = "teardown"
    /\ ClosePort
    /\ ui' = "dead"
    /\ task' = "none"
    /\ UNCHANGED <<envVars, api, pc, callVars, indexVars, filterVars,
                   busy, connected, cfg>>
TeardownAwaitsFlag == TeardownUnjoined /\ ~busy

\* ~App: members go in reverse order, so ~future joins the worker before
\* ~DasClient disconnects.
Teardown ==
    /\ ui = "teardown"
    /\ WorkerDone
    /\ ClosePort
    /\ ui' = "dead"
    /\ task' = "none"
    /\ UNCHANGED <<envVars, api, pc, callVars, indexVars, filterVars,
                   busy, connected, cfg>>

-----------------------------------------------------------------------------
Env == ClientEnv /\ UNCHANGED <<indexVars, uiVars, filterVars>>
ConnectWorker == ConnectStep /\ UNCHANGED <<indexVars, uiVars, filterVars>>
LoadWorker == LoadStep /\ UNCHANGED <<clientVars, uiVars, filterVars>>
Worker == ConnectWorker \/ LoadWorker

User == EditRequest \/ ClickConnect \/ ClickDisconnect \/ ClickLoad \/ TypeFilter \/ CloseWindow
Pump == PumpConnect \/ PumpLoad
Exit == ExitTestsPort \/ ExitClosesPort \/ Teardown

Next == Env \/ Worker \/ User \/ Pump \/ Exit

(* The operating system runs both threads, every API call returns, and the  *)
(* frame loop calls pump_async again and again.  The user owes nothing.     *)
Spec == Init /\ [][Next]_vars /\ WF_vars(Worker) /\ WF_vars(Pump) /\ WF_vars(Exit)

-----------------------------------------------------------------------------
TypeOK ==
    /\ ClientTypeOK
    /\ IndexTypeOK
    /\ ui \in {"frame", "exit", "exitClose", "teardown", "dead"}
    /\ busy \in BOOLEAN
    /\ task \in {"none", "connect", "load"}
    /\ connected \in BOOLEAN
    /\ cfg \in Requests \cup {NoRequest}
    /\ filter \in Filters
    /\ lastFilter \in Filters \cup {NoFilter}
    /\ filtered \in SUBSET Nat

(* The flag the panels and the reads go by and the port the client holds    *)
(* agree whenever no worker runs (main.cpp 158, 174, 251, 451), and the     *)
(* held port is open.                                                       *)
FlagMatchesPort ==
    ui = "frame" /\ ~busy =>
        /\ connected <=> port # NoPort
        /\ OpenPorts = {port} \ {NoPort}

(* A connect that runs finds no other user of the client: connected is      *)
(* FALSE, so "Read once" and "W", which are not disabled while busy, do     *)
(* nothing (main.cpp 158, 174, 379, 420).                                   *)
WorkerAloneOnClient == ui = "frame" /\ pc # "idle" => busy /\ ~connected

(* While the window is open, every API call connect() makes on its port,    *)
(* and the close on its error path, finds that port open and still its own  *)
(* (das_client.cpp 211-224).                                                *)
PortUsedWhileOpen ==
    ui = "frame" /\ pc \in {"map", "attach", "init", "errCheck", "errClose"} =>
        lport = port /\ lport \in OpenPorts

(* Whoever calls it, connect() ends with its one port open and mapped, or   *)
(* with none, and no open port is ever out of the client's reach            *)
(* (das_client.cpp 168-239).                                                *)
ClientHoldsOnePort == ui = "frame" => ConnectAllOrNothing /\ NoLeakedPort

(* The program is gone only with every port closed, wherever connect() was  *)
(* when the window closed (main.cpp 544, das_client.cpp 112).               *)
NothingOpenAtExit == ui = "dead" => OpenPorts = {} /\ task = "none"

(* The port is looked after from connect() to the end of main(): the flag   *)
(* tells of it, the worker uses it while it is open, nothing is left of it. *)
PortLookedAfter == FlagMatchesPort /\ PortUsedWhileOpen /\ NothingOpenAtExit

(* The rows of the Variables table are exactly the entries of the loaded    *)
(* index that match the filter, so that entries[filtered[row]] is in range  *)
(* and is the variable shown (main.cpp 319, 339).                           *)
RowsMatchIndex ==
    ui = "frame" /\ ~busy /\ loaded =>
        lastFilter = filter /\ filtered = Matching(filter)

(* A session that came up on a serial holds the wiggler with that serial,   *)
(* although the panel's choice may be edited meanwhile (main.cpp 238).      *)
ConnectedToRequest ==
    ui = "frame" /\ connected /\ req.serial # NoDevice => mapped[port] = req.serial

(* A busy panel becomes usable again, or the window has been closed.        *)
BusyEnds == busy ~> (~busy \/ ui # "frame")

(* Closing the window ends the program, with the worker joined.             *)
ExitEnds == (ui = "exit") ~> (ui = "dead")

Phase ==
    CASE ui = "dead" -> "gone"
      [] ui \in {"exit", "exitClose", "teardown"} -> "quitting"
      [] ui = "frame" /\ task = "connect" -> "opening"
      [] ui = "frame" /\ task # "connect" /\ connected -> "up"
      [] ui = "frame" /\ task # "connect" /\ ~connected -> "down"

Session == INSTANCE TasSession WITH phase <- Phase, open <- OpenPorts

(* The GUI implements the abstract session.                                 *)
ImplementsSession == Session!SessionSpec
=============================================================================
