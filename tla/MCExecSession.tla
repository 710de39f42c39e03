--------------------------- MODULE MCExecSession ---------------------------
(* ExecSession for TLC: two runs or submissions, one of which may be running, *)
(* cancelled or orphaned when the other starts.                               *)
EXTENDS ExecSession
============================================================================
