----------------------------- MODULE TasSession -----------------------------
(***************************************************************************)
(* What the GUI promises about its session with the target, whatever the    *)
(* threads do: a session that is up holds exactly one port, one that is     *)
(* down holds none, and a program that is gone has left none open.          *)
(***************************************************************************)
CONSTANT Ports

VARIABLES
    phase,   \* "down", "opening", "up", "quitting" or "gone"
    open     \* the ports the API has open

sessionVars == <<phase, open>>

SessionInit == phase = "down" /\ open = {}

\* The user asks for a session.
Request == phase = "down" /\ phase' = "opening" /\ UNCHANGED open

\* A port is taken and given back only on the way up or on the way out.
Acquire ==
    /\ phase \in {"opening", "quitting"}
    /\ open = {}
    /\ \E p \in Ports : open' = {p}
    /\ UNCHANGED phase
Release ==
    /\ phase \in {"opening", "quitting"}
    /\ open' = {}
    /\ UNCHANGED phase

Succeed == phase = "opening" /\ open # {} /\ phase' = "up" /\ UNCHANGED open
GiveUp == phase = "opening" /\ open = {} /\ phase' = "down" /\ UNCHANGED open

Disconnect == phase = "up" /\ phase' = "down" /\ open' = {}

Quit == phase \in {"down", "opening", "up"} /\ phase' = "quitting" /\ UNCHANGED open
Finish == phase = "quitting" /\ phase' = "gone" /\ open' = {}

SessionNext ==
    Request \/ Acquire \/ Release \/ Succeed \/ GiveUp \/ Disconnect \/ Quit \/ Finish

SessionSpec == SessionInit /\ [][SessionNext]_sessionVars
=============================================================================
