-------------------------------- MODULE Pipe --------------------------------
(***************************************************************************)
(* The in-memory pipe of the coordinator, worker/src/os/pipe.rs.           *)
(*                                                                         *)
(* Readers are tasks of a single-threaded executor.  A reader first takes  *)
(* reader_mutex, then polls the cell; while the cell is empty and open it  *)
(* sleeps, holding the mutex, with its waker stored in the only waker slot *)
(* of the cell.  A task runs until it has to sleep, so one action Poll(r)  *)
(* is everything a reader does between two sleeps: taking the mutex, every *)
(* turn of the loops of read_exact and read_until, and the release of the  *)
(* mutex.  write and close are synchronous.                                *)
(***************************************************************************)
EXTENDS Naturals, Sequences

CONSTANTS
  Reader,     \* the tasks that read
  Byte,       \* the alphabet
  Delim,      \* the byte read_until stops at
  NoReader,   \* no task: an empty waker slot, a free mutex
  MaxBytes,   \* bound on the bytes ever written
  MaxLen      \* bound on the length of one write and of one read buffer

ASSUME PipeAssumption ==
  /\ Delim \in Byte
  /\ NoReader \notin Reader
  /\ MaxBytes \in Nat
  /\ MaxLen \in Nat

VARIABLES
  buf,        \* PipeCell.buf
  closed,     \* PipeCell.closed
  waker,      \* PipeCell.reader: the task to wake, or NoReader
  holder,     \* the owner of reader_mutex, or NoReader
  waiters,    \* the tasks registered in the wait list of reader_mutex
  pc,         \* what each reader task is doing
  op,         \* the call each reader is in
  got,        \* the bytes the call obtained so far
  poisoned,   \* write panicked with the cell borrowed: every later use panics
  eof,        \* history: readers that were told of the end of the stream
  written,    \* history: all bytes written
  delivered   \* history: all bytes taken by readers, in order

cell == <<buf, closed, waker>>
mutex == <<holder, waiters>>
task == <<pc, op, got>>
history == <<eof, written, delivered>>
vars == <<cell, mutex, task, poisoned, history>>

(***************************************************************************)
(* "read" takes at most want bytes, "fill" is fill_buf with a callback that *)
(* consumes all it is shown, "exact" and "until" are the looping calls.     *)
(***************************************************************************)
Op ==
  [kind : {"read"}, want : 0..MaxLen]
    \cup [kind : {"fill"}, want : {1}]
    \cup [kind : {"exact"}, want : 1..MaxLen]
    \cup [kind : {"until"}, want : {1}]

\* idle: in no call; ready: scheduled to be polled; queued: asleep in the wait
\* list of the mutex; parked: asleep on the cell, holding the mutex.
PC == {"idle", "ready", "queued", "parked"}

\* Every variable has its type, and no call holds more bytes than its caller's
\* buffer has room for (read and read_exact copy into a slice of length want).
TypeOK ==
  /\ buf \in Seq(Byte)
  /\ closed \in BOOLEAN
  /\ waker \in Reader \cup {NoReader}
  /\ holder \in Reader \cup {NoReader}
  /\ waiters \subseteq Reader
  /\ pc \in [Reader -> PC]
  /\ op \in [Reader -> Op]
  /\ got \in [Reader -> Seq(Byte)]
  /\ \A r \in Reader : op[r].kind \in {"read", "exact"} => Len(got[r]) <= op[r].want
  /\ poisoned \in BOOLEAN
  /\ eof \subseteq Reader
  /\ written \in Seq(Byte)
  /\ delivered \in Seq(Byte)

Init ==
  /\ buf = <<>> /\ closed = FALSE /\ waker = NoReader
  /\ holder = NoReader /\ waiters = {}
  /\ pc = [r \in Reader |-> "idle"]
  /\ op = [r \in Reader |-> [kind |-> "fill", want |-> 1]]
  /\ got = [r \in Reader |-> <<>>]
  /\ poisoned = FALSE
  /\ eof = {} /\ written = <<>> /\ delivered = <<>>

----------------------------------------------------------------------------

\* The tasks of W are scheduled if they sleep; waking an idle or an already
\* scheduled task does nothing.
Woken(p, W) ==
  [q \in Reader |-> IF q \in W /\ p[q] \in {"queued", "parked"} THEN "ready" ELSE p[q]]

\* futures::lock::Mutex wakes the first entry of its wait list, whose slots are
\* reused: any registered task may be the first, even one that is awake already.
OneOf(W) == IF W = {} THEN {{}} ELSE {{w} : w \in W}

\* read_exact reads into &mut buf[offset..]; TakeForgetsOffset passes all of buf.
TakeForgetsOffset(r) == IF Len(buf) <= op[r].want THEN Len(buf) ELSE op[r].want
ExactTake(r) ==
  LET room == op[r].want - Len(got[r]) IN IF Len(buf) <= room THEN Len(buf) ELSE room

\* How many bytes of buf one poll of r may consume.  VecDeque::read and
\* as_slices().0 see only the front slice of the ring buffer, whose length the
\* model does not track; the looping calls go on to the next slice at once.
Takes(r) ==
  IF buf = <<>> THEN {0}
  ELSE CASE op[r].kind = "read"  -> IF op[r].want = 0 THEN {0}
                                    ELSE {n \in 1..Len(buf) : n <= op[r].want}
         [] op[r].kind = "fill"  -> 1..Len(buf)
         [] op[r].kind = "exact" -> {ExactTake(r)}
         [] op[r].kind = "until" ->
              {n \in 1..Len(buf) : /\ \A i \in 1..(n - 1) : buf[i] # Delim
                                   /\ buf[n] = Delim \/ n = Len(buf)}

\* Whether the call of r has what it asked for once it holds the bytes g.
Complete(r, g) ==
  CASE op[r].kind = "read"  -> op[r].want = 0 \/ g # <<>>
    [] op[r].kind = "fill"  -> g # <<>>
    [] op[r].kind = "exact" -> Len(g) = op[r].want
    [] op[r].kind = "until" -> g # <<>> /\ g[Len(g)] = Delim

----------------------------------------------------------------------------
(* The reader's side.                                                      *)

Begin(r) ==
  /\ pc[r] = "idle" /\ ~poisoned
  /\ \E o \in Op : op' = [op EXCEPT ![r] = o]
  /\ pc' = [pc EXCEPT ![r] = "ready"]
  /\ got' = [got EXCEPT ![r] = <<>>]
  /\ UNCHANGED <<cell, mutex, poisoned, history>>

\* The mutex is taken: r registers and sleeps.
PollLocked(r) ==
  /\ pc[r] = "ready" /\ ~poisoned
  /\ holder \notin {r, NoReader}
  /\ waiters' = waiters \cup {r}
  /\ pc' = [pc EXCEPT ![r] = "queued"]
  /\ UNCHANGED <<cell, holder, op, got, poisoned, history>>

\* Faulty variant: the guard is dropped without waking a waiter.
ReturnSilently(r) ==
  /\ holder' = NoReader
  /\ waiters' = waiters \ {r}
  /\ pc' = [pc EXCEPT ![r] = "idle"]
  /\ UNCHANGED waker

\* The call ends; dropping the guard frees the mutex and wakes a waiter.
Return(r) ==
  /\ holder' = NoReader
  /\ waiters' = waiters \ {r}
  /\ \E W \in OneOf(waiters') : pc' = Woken([pc EXCEPT ![r] = "idle"], W)
  /\ UNCHANGED waker

\* The call sleeps on the cell with the mutex held.
Park(r) ==
  /\ holder' = r
  /\ waiters' = waiters \ {r}
  /\ pc' = [pc EXCEPT ![r] = "parked"]
  /\ waker' = r

PollCell(r) ==
  /\ pc[r] = "ready" /\ ~poisoned
  /\ holder \in {r, NoReader}
  /\ \E n \in Takes(r) :
       LET g == got[r] \o SubSeq(buf, 1, n)
           rest == SubSeq(buf, n + 1, Len(buf))
           done == buf # <<>> /\ Complete(r, g)
       IN  /\ buf' = rest
           /\ delivered' = delivered \o SubSeq(buf, 1, n)
           /\ got' = [got EXCEPT ![r] = g]
           /\ IF done \/ closed THEN Return(r) ELSE Park(r)
           /\ eof' = IF ~done /\ closed THEN eof \cup {r} ELSE eof
  /\ UNCHANGED <<closed, op, poisoned, written>>

\* The future of the call is dropped (a select! took another branch).  The cell
\* keeps a waker of r that wakes nobody.
Cancel(r) ==
  /\ pc[r] # "idle" /\ ~poisoned
  /\ waiters' = waiters \ {r}
  /\ holder' = IF holder = r THEN NoReader ELSE holder
  /\ LET gone == [pc EXCEPT ![r] = "idle"] IN
     IF holder = r \/ (r \in waiters /\ pc[r] = "ready")
     THEN \E W \in OneOf(waiters') : pc' = Woken(gone, W)
     ELSE pc' = gone
  /\ UNCHANGED <<cell, op, got, poisoned, history>>

----------------------------------------------------------------------------
(* The writer's side.                                                      *)

\* Taking the waker out of the slot and waking its task.
WakeReader ==
  /\ pc' = Woken(pc, {waker} \cap Reader)
  /\ waker' = NoReader

\* Faulty variant: the panic on a closed pipe is missing.
WriteUnchecked ==
  /\ ~poisoned
  /\ \E n \in 0..MaxLen : \E s \in [1..n -> Byte] :
       /\ Len(written) + n <= MaxBytes
       /\ buf' = buf \o s
       /\ written' = written \o s
  /\ WakeReader
  /\ UNCHANGED <<closed, mutex, op, got, poisoned, eof, delivered>>

Write ==
  /\ ~closed /\ ~poisoned
  /\ \E n \in 0..MaxLen : \E s \in [1..n -> Byte] :
       /\ Len(written) + n <= MaxBytes
       /\ buf' = buf \o s
       /\ written' = written \o s
  /\ WakeReader
  /\ UNCHANGED <<closed, mutex, op, got, poisoned, eof, delivered>>

\* assert!(!inner.closed) fails while the cell is mutably borrowed; a panic in
\* the WebAssembly build does not unwind, so the borrow is never given back.
WriteClosed ==
  /\ closed /\ ~poisoned
  /\ poisoned' = TRUE
  /\ UNCHANGED <<cell, mutex, task, history>>

\* Faulty variant: close forgets the sleeping reader.
CloseSilently ==
  /\ ~poisoned
  /\ closed' = TRUE
  /\ UNCHANGED <<buf, waker, mutex, task, poisoned, history>>

Close ==
  /\ ~poisoned
  /\ closed' = TRUE
  /\ WakeReader
  /\ UNCHANGED <<buf, mutex, op, got, poisoned, history>>

Next ==
  \/ Write \/ WriteClosed \/ Close
  \/ \E r \in Reader : Begin(r) \/ PollLocked(r) \/ PollCell(r) \/ Cancel(r)

SafeSpec == Init /\ [][Next]_vars

\* The executor polls every task that was woken; nothing else is fair: no
\* reader has to read, nobody has to write or to close.
Spec == SafeSpec /\ \A r \in Reader : WF_vars(PollLocked(r) \/ PollCell(r))

----------------------------------------------------------------------------
(* What makes the pipe correct.                                            *)

\* A reader sleeps on the cell only while there is nothing to read and the pipe is
\* open, and then the one waker slot holds its waker, whoever read, was cancelled
\* or queued before.
CellWakes ==
  \A r \in Reader : pc[r] = "parked" => buf = <<>> /\ ~closed /\ waker = r

\* While a reader sleeps in the wait list of the mutex, the mutex has an owner that
\* will free it, or a registered reader is scheduled.
MutexHandedOn ==
  \A r \in Reader :
    pc[r] = "queued" => \/ holder \in {q \in Reader : pc[q] \in {"ready", "parked"}}
                        \/ \E w \in waiters : pc[w] = "ready"

\* No wakeup is lost, neither on the cell nor on the mutex.
NoLostWakeup == CellWakes /\ MutexHandedOn

\* Bytes leave in the order they came, none twice, none lost, across chunk
\* boundaries, several readers and dropped reads.
Fifo == delivered \o buf = written

\* A reader told of the end has missed nothing: the pipe is closed, every byte
\* ever written went to some reader and none will be added.
EofMeansAll == eof # {} => closed /\ delivered = written

\* The readers together get the stream that was written: its bytes in order, then
\* its end.
StreamIntact == Fifo /\ EofMeansAll

IsSuffix(s, t) == \E i \in 0..Len(t) : s = SubSeq(t, i + 1, Len(t))

\* read_exact and read_until give a contiguous piece of the stream even when
\* other tasks read the same pipe: the frames of the language server cannot be
\* torn.  Both calls free the mutex between two turns of their loop.  (Today one task
\* reads them, so this is proved, in PipeProofs, and no run of its own checks it.)
FramesAreContiguous ==
  [][\A r \in Reader : got'[r] # got[r] => IsSuffix(got'[r], delivered')]_vars

Chan ==
  INSTANCE Channel WITH queue <- buf, shut <- closed, broken <- poisoned,
                        waiting <- {r \in Reader : pc[r] # "idle"}

\* The pipe implements the fair channel: a reader is served although only one
\* waker is kept and the mutex makes no promise of order.
ImplementsChannel == Chan!ChannelSpec
============================================================================
