----------------------------- MODULE MCBaseTas -----------------------------
(* Two wigglers, two handles, one server, two polls.                         *)
EXTENDS BaseTas
=============================================================================
