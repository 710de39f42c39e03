----------------------------- MODULE MCProcess -----------------------------
(***************************************************************************)
(* The instances of Process that TLC checks.  Three threads let an output, *)
(* a waiting handler and the end of the process come from three sides; the *)
(* two created by thread_spawn are interchangeable.  Two threads, for      *)
(* liveness, are enough for handlers that wait in turn and for two readers *)
(* of one input.                                                           *)
(***************************************************************************)
EXTENDS Process, TLC

CONSTANTS t2, t3

ThreeThreads == {Main, t2, t3}
TwoThreads == {Main, t2}

PlainCalls == {"write", "read", "sleep", "spawn", "exit", "invalid"}
SafetyCalls == {"write", "read", "sleep", "spawn", "exit", "pread_past", "read_past"}

SpawnedSymmetry == Permutations({t2, t3})
=============================================================================
