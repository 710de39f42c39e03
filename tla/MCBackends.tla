----------------------------- MODULE MCBackends -----------------------------
(* Backends for TLC: three runs, so that each backend can have one and what  *)
(* two of them left would meet the third.                                    *)
EXTENDS Backends
=============================================================================
