------------------------------ MODULE Channel ------------------------------
(***************************************************************************)
(* What a pipe of the coordinator promises to the rest of the system: a    *)
(* first-in first-out channel of bytes with any number of readers.  A      *)
(* reader that asks is served as long as there are bytes, and is told of   *)
(* the end once the channel is shut and drained.  Sending on a shut        *)
(* channel breaks it for good.  There are no locks, no wakers and no polls *)
(* here; module Pipe has them and implements this one.                     *)
(***************************************************************************)
EXTENDS Naturals, Sequences

CONSTANTS Reader, Byte

VARIABLES
  queue,    \* the bytes sent and not yet received
  shut,     \* nothing may be sent any more
  waiting,  \* the readers that asked and were not answered
  broken    \* something was sent after shut

cvars == <<queue, shut, waiting, broken>>

CInit == queue = <<>> /\ shut = FALSE /\ waiting = {} /\ broken = FALSE

\* The queue grows at its end by a (possibly empty) chunk.
Send ==
  /\ ~shut /\ ~broken
  /\ Len(queue') >= Len(queue)
  /\ SubSeq(queue', 1, Len(queue)) = queue
  /\ \A i \in 1..Len(queue') : queue'[i] \in Byte
  /\ UNCHANGED <<shut, waiting, broken>>

Break == shut /\ ~broken /\ broken' = TRUE /\ UNCHANGED <<queue, shut, waiting>>

Shut == ~broken /\ shut' = TRUE /\ UNCHANGED <<queue, waiting, broken>>

Ask(r) ==
  /\ ~broken /\ r \notin waiting
  /\ waiting' = waiting \cup {r}
  /\ UNCHANGED <<queue, shut, broken>>

\* Hands a non-empty prefix to r.  A reader that wants a whole frame goes on
\* waiting only when it took everything there was.
Serve(r) ==
  /\ ~broken /\ r \in waiting
  /\ \E n \in 1..Len(queue) :
       /\ queue' = SubSeq(queue, n + 1, Len(queue))
       /\ \/ waiting' = waiting \ {r}
          \/ n = Len(queue) /\ waiting' = waiting
  /\ UNCHANGED <<shut, broken>>

\* r learns that nothing is left.
EndOfFile(r) ==
  /\ ~broken /\ r \in waiting /\ shut /\ queue = <<>>
  /\ waiting' = waiting \ {r}
  /\ UNCHANGED <<queue, shut, broken>>

\* r gives up, or asked for no byte at all.
Leave(r) ==
  /\ ~broken /\ r \in waiting
  /\ waiting' = waiting \ {r}
  /\ UNCHANGED <<queue, shut, broken>>

CNext ==
  \/ Send \/ Break \/ Shut
  \/ \E r \in Reader : Ask(r) \/ Serve(r) \/ EndOfFile(r) \/ Leave(r)

ChannelSafe == CInit /\ [][CNext]_cvars

\* Fair to every reader: one that can be served or told of the end is.
ChannelSpec ==
  ChannelSafe /\ \A r \in Reader : WF_cvars(Serve(r) \/ EndOfFile(r))
============================================================================
