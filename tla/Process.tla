------------------------------ MODULE Process ------------------------------
(***************************************************************************)
(* One WASI process of the coordinator: worker/src/os/process.rs, the      *)
(* message loop of worker/src/os/syscall.rs and the thread side of it,     *)
(* worker/src/os/start_proc.js.                                            *)
(*                                                                         *)
(* Every thread of the program is a Web Worker.  A system call stores -1   *)
(* in a shared cell, posts a message and sleeps on the cell.  The          *)
(* coordinator is one event loop: an event (a message, a timer, a request  *)
(* of the page) schedules tasks, and all tasks run, in order, before the   *)
(* next event.  Each handler task holds an Rc of the process, as does the  *)
(* task that waits for its end; when the last Rc goes the process is       *)
(* killed.  terminate() also discards the messages a thread had posted.    *)
(*                                                                         *)
(* A handler may panic.  WebAssembly does not unwind: the handler never    *)
(* answers, never gives back its Rc, nor the borrow of ProcessInner that   *)
(* it had, and whoever borrows against it panics in turn.                  *)
(***************************************************************************)
EXTENDS Naturals, Sequences, FiniteSets

CONSTANTS
  Thread,     \* the workers the program may create: bounds thread_spawn
  Main,       \* the one that runs _start
  Calls,      \* the kinds of system calls the program makes
  None        \* no status, no result

\* "write" stands for every call that is answered at once and leaves the pipes
\* alone; the last five are raise and a clock or subscription that is not
\* implemented; fd_pread and fd_read past the end of a file; fd_write to the
\* input and fd_read from the output.
AllCalls == {"write", "read", "sleep", "spawn", "exit", "invalid",
             "raise", "pread_past", "read_past", "write_stdin", "read_stdout"}

ASSUME ProcessAssumption == Main \in Thread /\ Calls \subseteq AllCalls

VARIABLES
  th,         \* what each thread is doing
  call,       \* the system call it is in, or the last one
  chan,       \* the shared cell: "pending" (-1) or "done"
  port,       \* the message it posted and the coordinator did not take yet
  ready,      \* the tasks of the coordinator scheduled to run
  pend,       \* the handler of each thread that has not ended: what it waits for,
              \* or "dead" after a panic; "none"
  threads,    \* ProcessInner.threads
  status,     \* ProcessInner.status_code
  closed,     \* termination_recv was closed
  lock,       \* the borrow of ProcessInner a panic left: "free", "shared", "exclusive"
  owned,      \* the task of the execution still holds its ProcessHandle
  stopReq,    \* the stop channel of the execution was resolved
  result,     \* what that task reported: a status, "cancelled", or None
  timer,      \* the time limit is armed
  stdin,      \* the input pipe: whether bytes are there, whether it is closed
  cause,      \* history: the status of the first kill
  late        \* history: the program wrote output after the result

jsvars == <<th, call, chan, port>>
kernel == <<ready, pend, threads, status, closed, lock, owned>>
env == <<stopReq, result, timer, stdin>>
history == <<cause, late>>
vars == <<jsvars, kernel, env, history>>

Messages == AllCalls \cup {"trap"}
Status == {"exited", "runtime_error", "signaled"}
Live == {"running", "stored", "posted", "asleep"}

ASSUME NoneAssumption == None \notin Status \cup Messages \cup {"cancelled"}

Task ==
  [kind : {"handle"}, t : Thread, msg : Messages]
    \cup [kind : {"resume"}, t : Thread] \cup [kind : {"run"}]

Handle(t, m) == [kind |-> "handle", t |-> t, msg |-> m]
Resume(t) == [kind |-> "resume", t |-> t]
Run == [kind |-> "run"]

\* Types; and no task is scheduled twice, none to resume a handler that is done.
TypeOK ==
  /\ th \in [Thread -> Live \cup {"none", "closed", "terminated"}]
  /\ call \in [Thread -> AllCalls]
  /\ chan \in [Thread -> {"pending", "done"}]
  /\ port \in [Thread -> Messages \cup {None}]
  /\ ready \in Seq(Task)
  /\ \A i, j \in 1..Len(ready) : ready[i] = ready[j] => i = j
  /\ \A i \in 1..Len(ready) : ready[i].kind = "resume" => pend[ready[i].t] # "none"
  /\ pend \in [Thread -> {"none", "read", "sleep", "output", "dead"}]
  /\ threads \subseteq Thread
  /\ status \in Status
  /\ closed \in BOOLEAN /\ owned \in BOOLEAN /\ stopReq \in BOOLEAN /\ timer \in BOOLEAN
  /\ lock \in {"free", "shared", "exclusive"}
  /\ result \in Status \cup {"cancelled", None}
  /\ stdin \in [data : BOOLEAN, closed : BOOLEAN]
  /\ cause \in Status \cup {None}
  /\ late \in BOOLEAN

\* spawn_with_module: the main thread exists, the time limit may be armed, and
\* the input of a batch run was written and closed before the start.
Init ==
  /\ th = [t \in Thread |-> IF t = Main THEN "running" ELSE "none"]
  /\ call = [t \in Thread |-> "write"]
  /\ chan = [t \in Thread |-> "done"]
  /\ port = [t \in Thread |-> None]
  /\ ready = <<>>
  /\ pend = [t \in Thread |-> "none"]
  /\ threads = {Main}
  /\ status = "signaled"
  /\ closed = FALSE
  /\ lock = "free"
  /\ owned = TRUE
  /\ stopReq = FALSE
  /\ result = None
  /\ timer \in BOOLEAN
  /\ stdin \in {s \in [data : BOOLEAN, closed : BOOLEAN] : s.data => s.closed}
  /\ cause = None
  /\ late = FALSE

----------------------------------------------------------------------------
(* The threads (start_proc.js).                                            *)

\* Slots of Thread that no request in flight is going to use.
Free == {t \in Thread : th[t] = "none"}
Spawning == {t \in Thread : th[t] \in {"stored", "posted", "asleep"} /\ call[t] = "spawn"
                            /\ chan[t] = "pending" /\ pend[t] # "dead"}

\* Atomics.store(array, 0, -1).
Store(t) ==
  /\ th[t] = "running"
  /\ \E c \in Calls :
       /\ c = "spawn" => Cardinality(Free) > Cardinality(Spawning)
       /\ call' = [call EXCEPT ![t] = c]
  /\ chan' = [chan EXCEPT ![t] = "pending"]
  /\ th' = [th EXCEPT ![t] = "stored"]
  /\ UNCHANGED <<port, kernel, env, history>>

\* postMessage({ kind, args }).
Post(t) ==
  /\ th[t] = "stored"
  /\ port' = [port EXCEPT ![t] = call[t]]
  /\ th' = [th EXCEPT ![t] = "posted"]
  /\ UNCHANGED <<call, chan, kernel, env, history>>

\* Faulty variant: the thread sleeps whatever the cell holds.
SleepAlways(t) ==
  /\ th[t] = "posted"
  /\ th' = [th EXCEPT ![t] = "asleep"]
  /\ UNCHANGED <<call, chan, port, kernel, env, history>>

\* Atomics.wait(array, 0, -1): sleeps only while the cell holds -1.
Wait(t) ==
  /\ th[t] = "posted"
  /\ th' = [th EXCEPT ![t] = IF chan[t] = "pending" THEN "asleep" ELSE "running"]
  /\ UNCHANGED <<call, chan, port, kernel, env, history>>

\* _start or wasi_thread_start returns; only _start announces it.
Finish(t) ==
  /\ th[t] = "running"
  /\ port' = [port EXCEPT ![t] = IF t = Main THEN "exit" ELSE None]
  /\ th' = [th EXCEPT ![t] = "closed"]
  /\ UNCHANGED <<call, chan, kernel, env, history>>

\* An exception of the WebAssembly code is posted as { re }.
Trap(t) ==
  /\ th[t] = "running"
  /\ port' = [port EXCEPT ![t] = "trap"]
  /\ th' = [th EXCEPT ![t] = "closed"]
  /\ UNCHANGED <<call, chan, kernel, env, history>>

----------------------------------------------------------------------------
(* The coordinator.  Every step below ends in Settle.                      *)

\* An Rc of the process is held by the execution, by each handler that waits or
\* panicked, for ever by one that panicked with a borrow, and by each handler that
\* is still to run.
Held(own, pd, rd) ==
  \/ own
  \/ lock # "free"
  \/ \E t \in Thread : pd[t] # "none"
  \/ \E i \in 1..Len(rd) : rd[i].kind = "handle"

\* worker.terminate() for every worker of T.
KillThreads(T, th0) ==
  /\ th' = [t \in Thread |-> IF t \in T THEN "terminated" ELSE th0[t]]
  /\ port' = [t \in Thread |-> IF t \in T THEN None ELSE port[t]]
  /\ threads' = {}

\* Closing termination_recv wakes the task in wait(), once.
WakeWait(by, own) == IF by # None /\ own /\ ~closed THEN <<Run>> ELSE <<>>

\* The end of a step: it may have killed the process (by is its status), and
\* if it gave back the last Rc, Drop kills it.
Settle(th0, T, own, pd, rd, by) ==
  LET dropped == ~Held(own, pd, rd) IN
  /\ owned' = own
  /\ pend' = pd
  /\ ready' = rd \o WakeWait(by, own)
  /\ IF dropped \/ by # None
     THEN /\ KillThreads(T, th0)
          /\ closed' = TRUE
          /\ status' = IF dropped THEN "signaled" ELSE by
          /\ cause' = IF cause # None THEN cause ELSE IF by # None THEN by ELSE "signaled"
     ELSE /\ th' = th0 /\ threads' = T
          /\ UNCHANGED <<port, closed, status, cause>>

\* Atomics.store and notify: the thread of a finished handler goes on.
Woken(t) == [th EXCEPT ![t] = IF @ = "asleep" THEN "running" ELSE @]
Answer(t) == chan' = [chan EXCEPT ![t] = "done"]

----------------------------------------------------------------------------
(* Events; none is taken while a task is ready.                            *)

\* The message of t becomes a task if the Weak of its port can be upgraded.
Deliver(t) ==
  /\ ready = <<>>
  /\ port[t] # None
  /\ ready' = IF Held(owned, pend, ready) THEN <<Handle(t, port[t])>> ELSE <<>>
  /\ port' = [port EXCEPT ![t] = None]
  /\ UNCHANGED <<th, call, chan, pend, threads, status, closed, lock, owned, env, history>>

\* The timeout of poll_oneoff fires.
TimerFires(t) ==
  /\ ready = <<>>
  /\ pend[t] = "sleep"
  /\ ready' = <<Resume(t)>>
  /\ UNCHANGED <<jsvars, pend, threads, status, closed, lock, owned, env, history>>

\* Faulty variant: a handler just served still counts as waiting.
WakeOneReaderStale(pd) ==
  LET readers == {t \in Thread : pend[t] = "read"} IN
  IF readers = {} THEN {<<>>} ELSE {<<Resume(t)>> : t \in readers}

\* One of the handlers that wait for input owns the mutex of the pipe.
WakeOneReader(pd) ==
  LET readers == {t \in Thread : pd[t] = "read"} IN
  IF readers = {} THEN {<<>>} ELSE {<<Resume(t)>> : t \in readers}

\* exec::stdin_chunk on the open pipe of the execution.
Input ==
  /\ ready = <<>>
  /\ ~stdin.closed
  /\ stdin' = [stdin EXCEPT !.data = TRUE]
  /\ ready' \in WakeOneReader(pend)
  /\ UNCHANGED <<jsvars, pend, threads, status, closed, lock, owned, stopReq, result, timer, history>>

\* The timer holds a Weak: it kills only a process somebody still holds, and
\* one whose ProcessInner it can borrow.
TimeLimit ==
  /\ ready = <<>>
  /\ timer /\ timer' = FALSE
  /\ IF Held(owned, pend, ready) /\ lock = "free"
     THEN Settle(th, threads, owned, pend, ready, "signaled")
     ELSE UNCHANGED <<th, port, kernel, cause>>
  /\ UNCHANGED <<call, chan, lock, stopReq, result, stdin, late>>

\* Faulty variant: the input is left open.
CancelKeepsInput ==
  /\ ready = <<>>
  /\ ~stopReq
  /\ stopReq' = TRUE
  /\ ready' = IF owned THEN <<Run>> ELSE <<>>
  /\ UNCHANGED <<jsvars, pend, threads, status, closed, lock, owned, result, timer, stdin, history>>

\* exec::cancel: resolves the stop channel, then closes the input.
Cancel ==
  /\ ready = <<>>
  /\ ~stopReq
  /\ stopReq' = TRUE
  /\ stdin' = [stdin EXCEPT !.closed = TRUE]
  /\ \E w \in WakeOneReader(pend) : ready' = (IF owned THEN <<Run>> ELSE <<>>) \o w
  /\ UNCHANGED <<jsvars, pend, threads, status, closed, lock, owned, result, timer, history>>

----------------------------------------------------------------------------
(* Tasks, run from the head of the queue.                                  *)

Rest == Tail(ready)
IsHandler(t, m) == ready # <<>> /\ Head(ready) = Handle(t, m)

\* The handler of t panics; lk is the borrow it leaves.
Panic(t, lk) ==
  /\ lock' = lk
  /\ Settle(th, threads, owned, [pend EXCEPT ![t] = "dead"], Rest, None)
  /\ UNCHANGED <<call, chan, env, late>>

\* fd_write to a pipe or a callback, standing for every call that is answered
\* at once; of a ProcessInner left borrowed, only those that do not write.
HandleWrite(t) ==
  /\ IsHandler(t, "write")
  /\ late' = (late \/ (result # None /\ lock = "free"))
  /\ Answer(t)
  /\ Settle(Woken(t), threads, owned, pend, Rest, None)
  /\ UNCHANGED <<call, env, lock>>

Readable == stdin.data \/ stdin.closed
\* A read takes some or all of the bytes there are.
ReadSome == \E left \in BOOLEAN :
  (left => stdin.data) /\ stdin' = [stdin EXCEPT !.data = left]

\* fd_read from the input pipe: an empty open pipe makes the handler wait.
HandleRead(t) ==
  /\ IsHandler(t, "read") /\ lock = "free"
  /\ IF ~Readable
     THEN /\ Settle(th, threads, owned, [pend EXCEPT ![t] = "read"], Rest, None)
          /\ UNCHANGED <<chan, stdin>>
     ELSE /\ Answer(t) /\ ReadSome
          /\ Settle(Woken(t), threads, owned, pend, Rest, None)
  /\ UNCHANGED <<call, lock, stopReq, result, timer, late>>

\* fd_write to the open input pipe, where it wakes a reader.
HandleWriteStdin(t) ==
  /\ IsHandler(t, "write_stdin") /\ lock = "free" /\ ~stdin.closed
  /\ stdin' = [stdin EXCEPT !.data = TRUE]
  /\ Answer(t)
  /\ \E w \in WakeOneReader(pend) : Settle(Woken(t), threads, owned, pend, Rest \o w, None)
  /\ UNCHANGED <<call, lock, stopReq, result, timer, late>>

\* fd_read from the output pipe: the task that drains it waits for bytes with the
\* mutex of the readers, and takes it again before this handler is polled.
HandleReadStdout(t) ==
  /\ IsHandler(t, "read_stdout") /\ lock = "free"
  /\ Settle(th, threads, owned, [pend EXCEPT ![t] = "output"], Rest, None)
  /\ UNCHANGED <<call, chan, lock, env, late>>

\* poll_oneoff on a clock always waits for a timer event.
HandleSleep(t) ==
  /\ IsHandler(t, "sleep")
  /\ Settle(th, threads, owned, [pend EXCEPT ![t] = "sleep"], Rest, None)
  /\ UNCHANGED <<call, chan, lock, env, late>>

\* Faulty variant: the new worker is not entered in the list of threads.
HandleSpawnUnlisted(t) ==
  /\ IsHandler(t, "spawn") /\ lock = "free"
  /\ Answer(t)
  /\ \E n \in Free :
       Settle([Woken(t) EXCEPT ![n] = "running"], threads, owned, pend, Rest, None)
  /\ UNCHANGED <<call, lock, env, late>>

\* thread_spawn.
HandleSpawn(t) ==
  /\ IsHandler(t, "spawn") /\ lock = "free"
  /\ Answer(t)
  /\ \E n \in Free :
       Settle([Woken(t) EXCEPT ![n] = "running"], threads \cup {n}, owned, pend, Rest, None)
  /\ UNCHANGED <<call, lock, env, late>>

\* thread_spawn in a ProcessInner left borrowed to read: the worker is created
\* and the push that would list it panics.
HandleSpawnPanics(t) ==
  /\ IsHandler(t, "spawn") /\ lock = "shared"
  /\ \E n \in Free :
       Settle([th EXCEPT ![n] = "running"], threads, owned, [pend EXCEPT ![t] = "dead"], Rest, None)
  /\ UNCHANGED <<call, chan, lock, env, late>>

\* proc_exit, a trap, or a call with ill-formed arguments: the process is
\* killed and the caller is not answered.
HandleEnd(t) ==
  /\ lock = "free"
  /\ \/ IsHandler(t, "exit") /\ Settle(th, threads, owned, pend, Rest, "exited")
     \/ (IsHandler(t, "trap") \/ IsHandler(t, "invalid"))
        /\ Settle(th, threads, owned, pend, Rest, "runtime_error")
  /\ UNCHANGED <<call, chan, lock, env, late>>

\* The calls that panic by themselves, each with the borrow it had.
HandlePanic(t) ==
  \/ IsHandler(t, "raise") /\ Panic(t, lock)
  \/ IsHandler(t, "pread_past") /\ Panic(t, IF lock = "free" THEN "shared" ELSE lock)
  \/ IsHandler(t, "read_past") /\ Panic(t, IF lock = "free" THEN "exclusive" ELSE lock)
  \/ IsHandler(t, "write_stdin") /\ lock = "free" /\ stdin.closed /\ Panic(t, "exclusive")

\* The calls that cannot borrow what a panic left borrowed; kill is one.
HandleBorrowFails(t) ==
  /\ \E m \in Messages \ {"sleep", "raise", "pread_past", "read_past"} :
       IsHandler(t, m) /\ (m = "spawn" => lock = "exclusive")
  /\ lock # "free"
  /\ Panic(t, lock)

\* The timer of t fired: its handler answers and drops its Rc.
ResumeSleep(t) ==
  /\ ready # <<>> /\ Head(ready) = Resume(t) /\ pend[t] = "sleep"
  /\ Answer(t)
  /\ Settle(Woken(t), threads, owned, [pend EXCEPT ![t] = "none"], Rest, None)
  /\ UNCHANGED <<call, lock, env, late>>

\* Faulty variant: the next reader of the pipe is not woken.
ResumeReadAlone(t) ==
  /\ ready # <<>> /\ Head(ready) = Resume(t) /\ pend[t] = "read"
  /\ Answer(t) /\ ReadSome
  /\ Settle(Woken(t), threads, owned, [pend EXCEPT ![t] = "none"], Rest, None)
  /\ UNCHANGED <<call, lock, stopReq, result, timer, late>>

\* A reader was woken: if there is something to read, or nothing will come, it
\* takes some of it, answers and hands the mutex of the pipe on.
ResumeRead(t) ==
  /\ ready # <<>> /\ Head(ready) = Resume(t) /\ pend[t] = "read"
  /\ IF ~Readable
     THEN /\ Settle(th, threads, owned, pend, Rest, None)
          /\ UNCHANGED <<chan, stdin>>
     ELSE /\ Answer(t) /\ ReadSome
          /\ LET pd == [pend EXCEPT ![t] = "none"] IN
             \E w \in WakeOneReader(pd) :
               Settle(Woken(t), threads, owned, pd, Rest \o w, None)
  /\ UNCHANGED <<call, lock, stopReq, result, timer, late>>

\* Faulty variant: the handle is dropped before the status is read.
RunTaskDropsFirst ==
  /\ ready # <<>> /\ Head(ready) = Run
  /\ IF owned /\ (closed \/ stopReq)
     THEN /\ \/ closed /\ result' = IF Held(FALSE, pend, Rest) THEN status ELSE "signaled"
             \/ stopReq /\ result' = "cancelled"
          /\ Settle(th, threads, FALSE, pend, Rest, None)
     ELSE Settle(th, threads, owned, pend, Rest, None) /\ UNCHANGED result
  /\ UNCHANGED <<call, chan, lock, stopReq, timer, stdin, late>>

\* The select! of exec::run: wait() has its status, or the stop channel is
\* resolved.  With both, either branch is taken.  The task then drops its handle.
RunTask ==
  /\ ready # <<>> /\ Head(ready) = Run
  /\ IF owned /\ (closed \/ stopReq)
     THEN /\ \/ closed /\ result' = status
             \/ stopReq /\ result' = "cancelled"
          /\ Settle(th, threads, FALSE, pend, Rest, None)
     ELSE Settle(th, threads, owned, pend, Rest, None) /\ UNCHANGED result
  /\ UNCHANGED <<call, chan, lock, stopReq, timer, stdin, late>>

ThreadStep(t) == Store(t) \/ Post(t) \/ Wait(t) \/ Finish(t) \/ Trap(t)

Tasks ==
  \/ RunTask
  \/ \E t \in Thread :
       \/ HandleWrite(t) \/ HandleRead(t) \/ HandleSleep(t) \/ HandleSpawn(t) \/ HandleEnd(t)
       \/ HandleWriteStdin(t) \/ HandleReadStdout(t)
       \/ HandlePanic(t) \/ HandleBorrowFails(t) \/ HandleSpawnPanics(t)
       \/ ResumeSleep(t) \/ ResumeRead(t)

Next ==
  \/ Tasks
  \/ Input \/ TimeLimit \/ Cancel
  \/ \E t \in Thread : ThreadStep(t) \/ Deliver(t) \/ TimerFires(t)

SafeSpec == Init /\ [][Next]_vars

\* What runs by itself: scheduled tasks, messages and timers of the event loop,
\* and a thread between its post and its sleep.  The event loop starves no
\* message and no timer although each must find the queue empty, hence SF.  The
\* program, the page, the time limit and the user owe nothing.
Fairness ==
  /\ WF_vars(Tasks)
  /\ \A t \in Thread : /\ WF_vars(Post(t) \/ Wait(t))
                       /\ SF_vars(Deliver(t))
                       /\ SF_vars(TimerFires(t))

Spec == SafeSpec /\ Fairness

----------------------------------------------------------------------------
(* What makes the process correct.                                         *)

\* The handshake loses no answer: a thread never sleeps on its cell once its
\* handler has stored the result, whichever of the two was faster.
NoLostAnswer == \A t \in Thread : th[t] = "asleep" => chan[t] = "pending"

\* Every worker that runs, or has a message under way, can still be stopped: it
\* is in the list kill() goes through.  So no thread survives a kill and none is
\* created after it, however thread_spawn and proc_exit cross.  The one way to
\* a worker outside the list is a thread_spawn after a reading call panicked with
\* ProcessInner borrowed; no kill follows such a panic.
NoOrphanThread ==
  /\ lock # "shared" => \A t \in Thread : th[t] \in Live \/ port[t] # None => t \in threads
  /\ closed => lock = "free" /\ threads = {}

\* The execution reports what ended the process first, never a later kill: not
\* the time limit after the exit, nor the Drop of the handle.
\* And once it was reported as finished, the program writes no more.
EndIsFinal == result \in Status => result = cause /\ ~late

\* A thread asleep in a call that needs nothing from the user, and none that
\* panics by itself or reads the output of its own program, goes on or is stopped;
\* so does one that reads when the input is closed, with any number of other
\* threads reading.  Only a panic that left ProcessInner borrowed can prevent it,
\* and then of a handler that started later: never of one that waited already.
\* And the end of the process reaches the task that waits for it.
EveryWaitEnds ==
  /\ \A t \in Thread :
       /\ (th[t] = "asleep" /\ (call[t] = "sleep" \/ (pend[t] = "read" /\ stdin.closed)))
            ~> th[t] # "asleep"
       /\ (th[t] = "asleep" /\ (call[t] \in {"write", "spawn", "exit", "invalid"}
                                \/ (call[t] = "read" /\ stdin.closed)))
            ~> (th[t] # "asleep" \/ (pend[t] = "dead" /\ lock # "free"))
  /\ (closed /\ owned) ~> result # None

\* "Cancel the current compilation or execution.": a stop request eventually
\* leaves no thread running.
CancelStops == stopReq ~> (\A t \in Thread : th[t] \notin Live)

\* That much is true of a program that never creates a thread, none of whose calls
\* panics or reads its own output: closing the input ends its read, its timer ends
\* its sleep, and then nobody holds the process.
CancelStopsOneThread ==
  []( /\ \A t \in Thread \ {Main} : th[t] = "none"
      /\ pend[Main] \notin {"dead", "output"} ) => CancelStops
=============================================================================
