------------------------------- MODULE MCPipe -------------------------------
(***************************************************************************)
(* The instance of Pipe that TLC checks: two readers, so that one can own  *)
(* the mutex while the other waits for it, is cancelled or barges in; an   *)
(* alphabet of the delimiter and one other byte.                           *)
(***************************************************************************)
EXTENDS Pipe

TwoReaders == {"r1", "r2"}
TwoBytes == {"x", "nl"}
=============================================================================
