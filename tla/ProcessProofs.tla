--------------------------- MODULE ProcessProofs ---------------------------
(* The handshake, the list of threads and the end of a process, for any    *)
(* number of threads.                                                      *)
EXTENDS Process, TLAPS, SequenceTheorems

ThreadState == Live \cup {"none", "closed", "terminated"}
Waiting == {"none", "read", "sleep", "output", "dead"}
Locks == {"free", "shared", "exclusive"}

\* An event finds the queue empty, so what is scheduled is one of these.
Shape(rd, pd) ==
  \/ rd = <<>> \/ rd = <<Run>>
  \/ \E t \in Thread, m \in Messages : rd = <<Handle(t, m)>>
  \/ \E t \in Thread : pd[t] # "none" /\ rd \in {<<Resume(t)>>, <<Run, Resume(t)>>}

\* The handler of a message runs before the process can end.
Queue ==
  /\ Shape(ready, pend)
  /\ ready # <<>> /\ Head(ready).kind = "handle" => ~ closed

\* Of a process that ended, the task that waits for it is the next to run, and
\* reads the status of the first kill; it reports once.
Ending ==
  /\ closed <=> cause # None
  /\ closed /\ owned => status = cause /\ ready # <<>> /\ Head(ready) = Run
  /\ owned => result = None /\ ~ late
  /\ result \in Status => closed /\ result = cause /\ ~ late

IInv == TypeOK /\ Queue /\ NoLostAnswer /\ NoOrphanThread /\ Ending

\* A process that ended was not left borrowed.
LEMMA LockFacts == IInv => lock \in Locks /\ (closed => lock = "free")
  BY DEF IInv, TypeOK, NoOrphanThread, Locks

\* The tasks are different records.
LEMMA Tasks3 ==
  ASSUME NEW t \in Thread, NEW m \in Messages
  PROVE  /\ Handle(t, m) \in Task /\ Handle(t, m).kind = "handle"
         /\ Handle(t, m).t = t /\ Handle(t, m).msg = m
         /\ Resume(t) \in Task /\ Resume(t).kind = "resume" /\ Resume(t).t = t
         /\ Run \in Task /\ Run.kind = "run"
  BY DEF Handle, Resume, Run, Task

\* A queue of that shape has its type.
LEMMA ShapeTyped ==
  ASSUME NEW pd, NEW rd, Shape(rd, pd)
  PROVE  /\ rd \in Seq(Task)
         /\ \A i, j \in 1..Len(rd) : rd[i] = rd[j] => i = j
         /\ \A i \in 1..Len(rd) : rd[i].kind = "resume" => pd[rd[i].t] # "none"
<1>1. Run \in Task /\ Run.kind = "run"
  BY DEF Run, Task
<1>2. CASE rd = <<>> \/ rd = <<Run>>
  <2>1. CASE rd = <<>>
    BY <2>1
  <2>2. CASE rd = <<Run>>
    BY <1>1, <2>2
  <2> QED
    BY <1>2, <2>1, <2>2
<1>3. CASE \E t \in Thread, m \in Messages : rd = <<Handle(t, m)>>
  <2>1. PICK t \in Thread, m \in Messages : rd = <<Handle(t, m)>>
    BY <1>3
  <2>2. Handle(t, m) \in Task /\ Handle(t, m).kind = "handle"
    BY Tasks3
  <2> QED
    BY <2>1, <2>2
<1>4. CASE \E t \in Thread : pd[t] # "none" /\ rd \in {<<Resume(t)>>, <<Run, Resume(t)>>}
  <2>1. PICK t \in Thread : pd[t] # "none" /\ rd \in {<<Resume(t)>>, <<Run, Resume(t)>>}
    BY <1>4
  <2>2. Resume(t) \in Task /\ Resume(t).kind = "resume" /\ Resume(t).t = t
    BY DEF Resume, Task
  <2>3. Resume(t) # Run
    BY <1>1, <2>2
  <2>4. CASE rd = <<Resume(t)>>
    BY <2>1, <2>2, <2>4
  <2>5. CASE rd = <<Run, Resume(t)>>
    <3>1. Len(rd) = 2 /\ rd[1] = Run /\ rd[2] = Resume(t) /\ 1..Len(rd) = {1, 2}
      BY <2>5
    <3>2. rd \in Seq(Task)
      BY <1>1, <2>2, <2>5
    <3> QED
      BY <1>1, <2>1, <2>2, <2>3, <3>1, <3>2
  <2> QED
    BY <2>1, <2>4, <2>5
<1> QED
  BY <1>2, <1>3, <1>4 DEF Shape

\* The inductive invariant holds at first.
LEMMA InitIInv == Init => IInv
<1> SUFFICES ASSUME Init PROVE IInv
  OBVIOUS
<1>1. Shape(ready, pend)
  BY DEF Init, Shape
<1>2. stdin \in [data : BOOLEAN, closed : BOOLEAN]
  BY DEF Init
<1>3. th \in [Thread -> ThreadState]
  BY DEF Init, ThreadState, Live
<1>4. TypeOK
  <2>1. /\ ready \in Seq(Task)
        /\ \A i, j \in 1..Len(ready) : ready[i] = ready[j] => i = j
        /\ \A i \in 1..Len(ready) : ready[i].kind = "resume" => pend[ready[i].t] # "none"
    BY <1>1, ShapeTyped
  <2>2. call \in [Thread -> AllCalls] /\ chan \in [Thread -> {"pending", "done"}]
    BY DEF Init, AllCalls
  <2>3. /\ port \in [Thread -> Messages \cup {None}]
        /\ pend \in [Thread -> {"none", "read", "sleep", "output", "dead"}]
    BY DEF Init
  <2>4. status \in Status /\ threads \subseteq Thread /\ lock \in {"free", "shared", "exclusive"}
    BY ProcessAssumption DEF Init, Status
  <2> QED
    BY <1>2, <1>3, <2>1, <2>2, <2>3, <2>4 DEF Init, TypeOK, ThreadState
<1>5. Queue
  BY <1>1 DEF Queue, Init
<1>6. NoLostAnswer /\ NoOrphanThread
  BY DEF Init, NoLostAnswer, NoOrphanThread, Live
<1>7. Ending
  BY NoneAssumption DEF Init, Ending
<1> QED
  BY <1>4, <1>5, <1>6, <1>7 DEF IInv

\* A step of the coordinator: it keeps who is in the list and has run what it found
\* in the queue; only a process that goes on is killed with nothing else to run.
Step(th0, T, own, pd, rd, by) ==
  /\ th0 \in [Thread -> ThreadState] /\ T \subseteq Thread /\ own \in BOOLEAN
  /\ pd \in [Thread -> Waiting] /\ by \in Status \cup {None}
  /\ Settle(th0, T, own, pd, rd, by)
  /\ own => owned
  /\ closed => ~ own /\ T = {}
  /\ lock' \in Locks /\ (lock' = lock \/ \E t \in Thread : pd[t] = "dead")
  /\ closed \/ by # None => lock' = "free"
  /\ lock' # "shared" => \A t \in Thread : th0[t] \in Live \/ port[t] # None => t \in T
  /\ Shape(rd, pd) /\ (rd = <<>> \/ Head(rd).kind # "handle")
  /\ by # None => rd = <<>>

\* What a step of the coordinator leaves, whether it ends the process or not.
LEMMA Settled ==
  ASSUME IInv,
         NEW th0, NEW T, NEW own, NEW pd, NEW rd, NEW by, Step(th0, T, own, pd, rd, by)
  PROVE  /\ th' \in [Thread -> ThreadState] /\ threads' \subseteq Thread
         /\ port' \in [Thread -> Messages \cup {None}]
         /\ owned' = own /\ pend' = pd /\ closed' \in BOOLEAN
         /\ status' \in Status /\ cause' \in Status \cup {None}
         /\ \A t \in Thread : th'[t] = "asleep" => th0[t] = "asleep"
         /\ (closed' <=> cause' # None) /\ (closed => closed' /\ cause' = cause)
         /\ closed' /\ owned' => status' = cause' /\ ready' # <<>> /\ Head(ready') = Run
         /\ Shape(ready', pend') /\ (ready' # <<>> => Head(ready').kind # "handle")
         /\ NoOrphanThread'
<1> USE DEF Step
<1>1. Run.kind = "run"
  BY DEF Run
<1>2. owned' = own /\ pend' = pd /\ ready' = rd \o WakeWait(by, own)
  BY DEF Settle
<1>3. rd \in Seq(Task)
  BY ShapeTyped
<1>4. /\ by # None /\ own /\ ~ closed => ready' = <<Run>>
      /\ ready' = rd \/ ready' = <<Run>>
  <2>1. CASE by # None /\ own /\ ~ closed
    <3>1. ready' = <<>> \o <<Run>>
      BY <1>2, <2>1 DEF WakeWait
    <3> QED
      BY <3>1
  <2>2. CASE ~ (by # None /\ own /\ ~ closed)
    <3>1. ready' = rd \o <<>>
      BY <1>2, <2>2 DEF WakeWait
    <3> QED
      BY <1>3, <2>2, <3>1
  <2> QED
    BY <2>1, <2>2
<1>5. Shape(ready', pend') /\ (ready' # <<>> => Head(ready').kind # "handle")
  <2>1. CASE ready' = rd
    BY <1>2, <2>1
  <2>2. CASE ready' = <<Run>>
    <3>1. Head(ready') = Run
      BY <2>2
    <3> QED
      BY <1>1, <2>2, <3>1 DEF Shape
  <2> QED
    BY <1>4, <2>1, <2>2
<1>6. /\ port \in [Thread -> Messages \cup {None}] /\ closed \in BOOLEAN
      /\ status \in Status /\ cause \in Status \cup {None} /\ (closed <=> cause # None)
  BY DEF IInv, TypeOK, Ending
<1>7. CASE ~ Held(own, pd, rd) \/ by # None
  <2>1. /\ KillThreads(T, th0) /\ closed' = TRUE
        /\ status' = IF ~ Held(own, pd, rd) THEN "signaled" ELSE by
        /\ cause' = IF cause # None THEN cause ELSE IF by # None THEN by ELSE "signaled"
    BY <1>7 DEF Settle
  <2>2. /\ th' \in [Thread -> ThreadState] /\ threads' = {}
        /\ port' \in [Thread -> Messages \cup {None}]
        /\ \A t \in Thread : th'[t] = "asleep" => th0[t] = "asleep"
    BY <1>6, <2>1 DEF KillThreads, ThreadState
  <2>3. NoOrphanThread'
    <3>1. lock' = "free"
      BY <1>7 DEF Held
    <3> QED
      BY <2>1, <2>2, <3>1 DEF KillThreads, NoOrphanThread, Live
  <2>4. status' \in Status /\ cause' \in Status /\ cause' # None /\ (closed => cause' = cause)
    BY <1>6, <1>7, <2>1, NoneAssumption DEF Status
  <2>5. closed' /\ owned' => status' = cause' /\ ready' # <<>> /\ Head(ready') = Run
    <3> SUFFICES ASSUME own PROVE status' = cause' /\ ready' = <<Run>>
      <4>1. ready' = <<Run>> => ready' # <<>> /\ Head(ready') = Run
        OBVIOUS
      <4> QED
        BY <1>2, <4>1
    <3>1. Held(own, pd, rd) /\ by # None /\ ~ closed
      BY <1>7 DEF Held
    <3>2. ready' = <<Run>>
      BY <1>4, <3>1
    <3>3. status' = by /\ cause' = by
      BY <1>6, <2>1, <3>1
    <3> QED
      BY <3>2, <3>3
  <2> QED
    BY <1>2, <1>5, <2>1, <2>2, <2>3, <2>4, <2>5
<1>8. CASE Held(own, pd, rd) /\ by = None
  <2>1. th' = th0 /\ threads' = T /\ UNCHANGED <<port, closed, status, cause>>
    BY <1>8 DEF Settle
  <2>2. NoOrphanThread'
    BY <1>2, <2>1 DEF NoOrphanThread
  <2> QED
    BY <1>2, <1>5, <1>6, <2>1, <2>2
<1> QED
  BY <1>7, <1>8

\* A step of a thread: it posts, sleeps or ends while it is in the list.
LEMMA ThreadInv ==
  ASSUME IInv, NEW t \in Thread, ThreadStep(t)
  PROVE  IInv'
<1>1. UNCHANGED <<kernel, env, history>>
  BY DEF ThreadStep, Store, Post, Wait, Finish, Trap
<1>2. th[t] \in Live /\ (lock # "shared" => t \in threads)
  BY DEF ThreadStep, Store, Post, Wait, Finish, Trap, Live, IInv, NoOrphanThread
<1>3. PICK s \in Live \cup {"closed"} :
        th' = [th EXCEPT ![t] = s] /\ (s = "asleep" => chan[t] = "pending" /\ chan' = chan)
  BY DEF ThreadStep, Store, Post, Wait, Finish, Trap, Live
<1>4. chan' = chan \/ (chan' = [chan EXCEPT ![t] = "pending"] /\ th' = [th EXCEPT ![t] = "stored"])
  BY DEF ThreadStep, Store, Post, Wait, Finish, Trap
<1>5. \E m \in Messages \cup {None} : port' = port \/ port' = [port EXCEPT ![t] = m]
  BY DEF ThreadStep, Store, Post, Wait, Finish, Trap, IInv, TypeOK, Messages, AllCalls
<1>6. call' \in [Thread -> AllCalls]
  BY ProcessAssumption DEF ThreadStep, Store, Post, Wait, Finish, Trap, IInv, TypeOK
<1>7. th' \in [Thread -> ThreadState] /\ chan' \in [Thread -> {"pending", "done"}]
  BY <1>3, <1>4 DEF IInv, TypeOK, ThreadState
<1>8. port' \in [Thread -> Messages \cup {None}]
  BY <1>5 DEF IInv, TypeOK
<1>9. TypeOK'
  BY <1>1, <1>6, <1>7, <1>8 DEF IInv, TypeOK, ThreadState, kernel, env, history
<1>10. Queue' /\ Ending'
  BY <1>1 DEF IInv, Queue, Ending, kernel, env, history
<1>11. NoLostAnswer'
  BY <1>3, <1>4 DEF IInv, TypeOK, NoLostAnswer
<1>12. NoOrphanThread'
  BY <1>1, <1>2, <1>3, <1>5 DEF IInv, TypeOK, NoOrphanThread, kernel
<1> QED
  BY <1>9, <1>10, <1>11, <1>12 DEF IInv

\* Between the events, the process did not end without the task that waits for it.
LEMMA Idle == IInv /\ ready = <<>> => ~ (closed /\ owned)
  BY DEF IInv, Ending

\* An event schedules tasks and leaves the rest.
LEMMA Scheduled ==
  ASSUME IInv, ready = <<>>, Shape(ready', pend),
         ready' # <<>> /\ Head(ready').kind = "handle" => ~ closed,
         UNCHANGED <<th, call, chan, pend, threads, status, closed, lock, owned, result, history>>,
         port' \in [Thread -> Messages \cup {None}],
         \A t \in Thread : port'[t] # None => port[t] # None,
         stopReq' \in BOOLEAN, timer' \in BOOLEAN,
         stdin' \in [data : BOOLEAN, closed : BOOLEAN]
  PROVE  IInv'
<1>1. /\ ready' \in Seq(Task)
      /\ \A i, j \in 1..Len(ready') : ready'[i] = ready'[j] => i = j
      /\ \A i \in 1..Len(ready') : ready'[i].kind = "resume" => pend[ready'[i].t] # "none"
  BY ShapeTyped
<1>2. TypeOK'
  BY <1>1 DEF IInv, TypeOK, history
<1>3. Queue'
  BY DEF Queue, Shape
<1>4. NoLostAnswer' /\ NoOrphanThread'
  BY DEF IInv, NoLostAnswer, NoOrphanThread
<1>5. Ending'
  BY Idle DEF IInv, Ending, history
<1> QED
  BY <1>2, <1>3, <1>4, <1>5 DEF IInv

\* A message becomes a handler: its sender is in the list, so the process goes on.
LEMMA DeliverInv ==
  ASSUME IInv, NEW t \in Thread, Deliver(t)
  PROVE  IInv'
<1>1. ~ closed /\ port[t] \in Messages
  BY DEF Deliver, IInv, TypeOK, NoOrphanThread
<1>2. ready' = <<>> \/ ready' = <<Handle(t, port[t])>>
  BY DEF Deliver
<1>3. Shape(ready', pend)
  BY <1>1, <1>2 DEF Shape
<1>4. port' = [port EXCEPT ![t] = None]
  BY DEF Deliver
<1> QED
  BY <1>1, <1>3, <1>4, Scheduled DEF Deliver, IInv, TypeOK, env, history

\* The readers that may be woken.
LEMMA Woke ==
  ASSUME NEW pd, NEW w \in WakeOneReader(pd)
  PROVE  w = <<>> \/ \E t \in Thread : pd[t] = "read" /\ w = <<Resume(t)>>
  BY DEF WakeOneReader

\* A timer fires, or input arrives.
LEMMA TimerInv == IInv /\ (Input \/ \E t \in Thread : TimerFires(t)) => IInv'
<1> SUFFICES ASSUME IInv, Input \/ \E t \in Thread : TimerFires(t) PROVE IInv'
  OBVIOUS
<1>1. ready' = <<>> \/ \E t \in Thread : pend[t] # "none" /\ ready' = <<Resume(t)>>
  <2>1. CASE Input
    BY <2>1, Woke DEF Input
  <2>2. CASE \E t \in Thread : TimerFires(t)
    BY <2>2 DEF TimerFires
  <2> QED
    BY <2>1, <2>2
<1>2. Shape(ready', pend)
  BY <1>1 DEF Shape
<1>3. ready' # <<>> => Head(ready').kind # "handle"
  <2>1. \A t \in Thread : Head(<<Resume(t)>>).kind = "resume"
    BY DEF Resume
  <2> QED
    BY <1>1, <2>1
<1>4. stdin' \in [data : BOOLEAN, closed : BOOLEAN]
  BY DEF Input, TimerFires, env, IInv, TypeOK
<1>5. UNCHANGED <<jsvars, pend, threads, status, closed, lock, owned, stopReq, result, timer, history>>
      /\ ready = <<>>
  BY DEF Input, TimerFires, env
<1> QED
  BY <1>2, <1>3, <1>4, <1>5, Scheduled DEF jsvars, IInv, TypeOK

\* Two queues of one task.
LEMMA Joined == ASSUME NEW a, NEW b PROVE <<a>> \o <<b>> = <<a, b>> /\ <<>> \o <<b>> = <<b>>
<1> DEFINE S == {a, b}
<1>1. <<a>> \in Seq(S) /\ <<b>> \in Seq(S) /\ <<>> \in Seq(S)
  OBVIOUS
<1>2. <<a>> \o <<b>> = <<a, b>>
  <2> DEFINE s == <<a>> \o <<b>>
  <2>1. s \in Seq(S) /\ <<a, b>> \in Seq(S)
    BY <1>1
  <2>2. Len(s) = 2 /\ s[1] = a /\ s[2] = b
    BY <1>1
  <2> HIDE DEF s
  <2>3. \A i \in 1..Len(s) : s[i] = <<a, b>>[i]
    BY <2>2
  <2>4. s = <<a, b>>
    BY <2>1, <2>2, <2>3, SeqEqual
  <2> QED
    BY <2>4 DEF s
<1>3. <<>> \o <<b>> = <<b>>
  BY <1>1
<1> QED
  BY <1>2, <1>3

\* Cancel wakes the execution and closes the input.
LEMMA CancelInv == IInv /\ Cancel => IInv'
<1> SUFFICES ASSUME IInv, Cancel PROVE IInv'
  OBVIOUS
<1>1. PICK w \in WakeOneReader(pend) : ready' = (IF owned THEN <<Run>> ELSE <<>>) \o w
  BY DEF Cancel
<1>2. \/ ready' = <<>> \/ ready' = <<Run>>
      \/ \E t \in Thread : pend[t] = "read" /\ ready' \in {<<Resume(t)>>, <<Run, Resume(t)>>}
  <2>1. CASE w = <<>>
    BY <1>1, <2>1
  <2>2. CASE \E t \in Thread : pend[t] = "read" /\ w = <<Resume(t)>>
    <3>1. PICK t \in Thread : pend[t] = "read" /\ w = <<Resume(t)>>
      BY <2>2
    <3>2. <<Run>> \o <<Resume(t)>> = <<Run, Resume(t)>> /\ <<>> \o <<Resume(t)>> = <<Resume(t)>>
      BY Joined
    <3> QED
      BY <1>1, <3>1, <3>2
  <2> QED
    BY <2>1, <2>2, Woke
<1>3. Shape(ready', pend)
  BY <1>2 DEF Shape
<1>4. ready' # <<>> => Head(ready').kind # "handle"
  <2>1. Head(<<Run>>).kind = "run"
    BY DEF Run
  <2>2. \A t \in Thread : Head(<<Resume(t)>>).kind = "resume" /\ Head(<<Run, Resume(t)>>).kind = "run"
    BY DEF Resume, Run
  <2> QED
    BY <1>2, <2>1, <2>2
<1>5. stdin' \in [data : BOOLEAN, closed : BOOLEAN]
  BY DEF Cancel, IInv, TypeOK
<1>6. /\ ready = <<>> /\ stopReq' = TRUE
      /\ UNCHANGED <<jsvars, pend, threads, status, closed, lock, owned, result, timer, history>>
  BY DEF Cancel
<1> QED
  BY <1>3, <1>4, <1>5, <1>6, Scheduled DEF jsvars, IInv, TypeOK

\* A step that ends in Settle and answers nobody who could still sleep.
LEMMA StepInv ==
  ASSUME IInv,
         NEW th0, NEW T, NEW own, NEW pd, NEW rd, NEW by, Step(th0, T, own, pd, rd, by),
         call' = call, chan' \in [Thread -> {"pending", "done"}],
         \A t \in Thread : th0[t] = "asleep" => chan'[t] = "pending",
         stopReq' \in BOOLEAN, timer' \in BOOLEAN, late' \in BOOLEAN,
         stdin' \in [data : BOOLEAN, closed : BOOLEAN],
         result' \in Status \cup {"cancelled", None},
         own => result' = None /\ ~ late',
         result' \in Status => closed /\ result' = cause /\ ~ late'
  PROVE  IInv'
<1>1. /\ th' \in [Thread -> ThreadState] /\ threads' \subseteq Thread
      /\ port' \in [Thread -> Messages \cup {None}]
      /\ owned' = own /\ pend' = pd /\ closed' \in BOOLEAN
      /\ status' \in Status /\ cause' \in Status \cup {None}
      /\ \A t \in Thread : th'[t] = "asleep" => th0[t] = "asleep"
      /\ (closed' <=> cause' # None) /\ (closed => closed' /\ cause' = cause)
      /\ closed' /\ owned' => status' = cause' /\ ready' # <<>> /\ Head(ready') = Run
      /\ Shape(ready', pend') /\ (ready' # <<>> => Head(ready').kind # "handle")
      /\ NoOrphanThread'
  BY Settled
<1>2. /\ ready' \in Seq(Task)
      /\ \A i, j \in 1..Len(ready') : ready'[i] = ready'[j] => i = j
      /\ \A i \in 1..Len(ready') : ready'[i].kind = "resume" => pend'[ready'[i].t] # "none"
  BY <1>1, ShapeTyped
<1>3. TypeOK'
  BY <1>1, <1>2 DEF Step, IInv, TypeOK, ThreadState, Waiting, Locks
<1>4. Queue'
  BY <1>1 DEF Queue, Shape
<1>5. NoLostAnswer'
  BY <1>1 DEF NoLostAnswer
<1>6. Ending'
  BY <1>1 DEF Ending
<1> QED
  BY <1>1, <1>3, <1>4, <1>5, <1>6 DEF IInv

\* A handler is alone in the queue of a process that goes on.
LEMMA HandlerAlone ==
  ASSUME IInv, NEW t \in Thread, NEW m, IsHandler(t, m)
  PROVE  Rest = <<>> /\ ~ closed
<1>1. ready # <<>> /\ Head(ready).kind = "handle"
  BY DEF IsHandler, Handle
<1>2. ~ closed
  BY <1>1 DEF IInv, Queue
<1>3. ready # <<Run>> /\ \A u \in Thread : ready \notin {<<Resume(u)>>, <<Run, Resume(u)>>}
  BY <1>1 DEF Run, Resume
<1>4. \E u \in Thread, n \in Messages : ready = <<Handle(u, n)>>
  BY <1>1, <1>3 DEF IInv, Queue, Shape
<1> QED
  BY <1>2, <1>4 DEF Rest

\* So is a handler that goes on after its await.
LEMMA ResumedAlone ==
  ASSUME IInv, NEW t \in Thread, ready # <<>>, Head(ready) = Resume(t)
  PROVE  Rest = <<>> /\ (closed => ~ owned)
<1>1. Head(ready).kind = "resume" /\ Head(ready) # Run
  BY DEF Resume, Run
<1>2. ready # <<Run>> /\ \A u \in Thread : ready # <<Run, Resume(u)>>
  BY <1>1
<1>3. \A u \in Thread, n \in Messages : ready # <<Handle(u, n)>>
  BY <1>1 DEF Handle
<1>4. \E u \in Thread : ready = <<Resume(u)>>
  BY <1>2, <1>3 DEF IInv, Queue, Shape
<1> QED
  BY <1>1, <1>4 DEF Rest, IInv, Ending

\* Between the two, what the task of the execution leaves.
LEMMA RunsFirst ==
  ASSUME IInv, ready # <<>>, Head(ready) = Run
  PROVE  Shape(Rest, pend) /\ (Rest = <<>> \/ Head(Rest).kind # "handle")
<1>1. Head(ready).kind = "run"
  BY DEF Run
<1>2. \A u \in Thread : ready # <<Resume(u)>>
  BY <1>1 DEF Resume
<1>3. \A u \in Thread, n \in Messages : ready # <<Handle(u, n)>>
  BY <1>1 DEF Handle
<1>4. CASE ready = <<Run>>
  <2>1. Rest = <<>>
    BY <1>4 DEF Rest
  <2> QED
    BY <2>1 DEF Shape
<1>5. CASE \E u \in Thread : pend[u] # "none" /\ ready = <<Run, Resume(u)>>
  <2>1. PICK u \in Thread : pend[u] # "none" /\ ready = <<Run, Resume(u)>>
    BY <1>5
  <2>2. Rest = <<Resume(u)>>
    BY <2>1 DEF Rest
  <2>3. Head(Rest).kind = "resume"
    BY <2>2 DEF Resume
  <2> QED
    BY <2>1, <2>2, <2>3 DEF Shape
<1> QED
  BY <1>2, <1>3, <1>4, <1>5 DEF IInv, Queue, Shape

\* Waking a thread, with the answer in its cell.
LEMMA Answered ==
  ASSUME IInv, NEW t \in Thread, Answer(t)
  PROVE  /\ Woken(t) \in [Thread -> ThreadState]
         /\ chan' \in [Thread -> {"pending", "done"}]
         /\ \A u \in Thread : Woken(t)[u] = "asleep" => chan'[u] = "pending"
         /\ lock # "shared" =>
              \A u \in Thread : Woken(t)[u] \in Live \/ port[u] # None => u \in threads
<1>1. th \in [Thread -> ThreadState] /\ chan \in [Thread -> {"pending", "done"}]
  BY DEF IInv, TypeOK, ThreadState
<1>2. chan' = [chan EXCEPT ![t] = "done"]
  BY DEF Answer
<1>3. \A u \in Thread : Woken(t)[u] = IF u = t /\ th[t] = "asleep" THEN "running" ELSE th[u]
  BY <1>1 DEF Woken
<1>4. Woken(t) \in [Thread -> ThreadState]
  BY <1>1 DEF Woken, ThreadState, Live
<1>5. \A u \in Thread : Woken(t)[u] = "asleep" => chan'[u] = "pending"
  BY <1>1, <1>2, <1>3 DEF IInv, NoLostAnswer
<1>6. lock # "shared" =>
        \A u \in Thread : Woken(t)[u] \in Live \/ port[u] # None => u \in threads
  BY <1>3 DEF IInv, NoOrphanThread, Live
<1> QED
  BY <1>1, <1>2, <1>4, <1>5, <1>6

\* The time limit kills a process somebody still holds.
LEMMA TimeLimitInv == IInv /\ TimeLimit => IInv'
<1> SUFFICES ASSUME IInv, TimeLimit PROVE IInv'
  OBVIOUS
<1>1. /\ ready = <<>> /\ timer' = FALSE
      /\ UNCHANGED <<call, chan, lock, stopReq, result, stdin, late>>
  BY DEF TimeLimit
<1>2. CASE lock = "free" /\ Settle(th, threads, owned, pend, ready, "signaled")
  <2>1. Step(th, threads, owned, pend, ready, "signaled")
    BY <1>1, <1>2, Idle, LockFacts DEF Step, IInv, TypeOK, ThreadState, Waiting, NoOrphanThread, Shape, Status
  <2>2. /\ chan \in [Thread -> {"pending", "done"}] /\ stopReq \in BOOLEAN /\ late \in BOOLEAN
        /\ stdin \in [data : BOOLEAN, closed : BOOLEAN]
        /\ result \in Status \cup {"cancelled", None}
    BY DEF IInv, TypeOK
  <2>3. timer' \in BOOLEAN
    BY <1>1
  <2>4. /\ \A t \in Thread : th[t] = "asleep" => chan[t] = "pending"
        /\ owned => result = None /\ ~ late
        /\ result \in Status => closed /\ result = cause /\ ~ late
    BY DEF IInv, NoLostAnswer, Ending
  <2> QED
    BY <1>1, <2>1, <2>2, <2>3, <2>4, StepInv
<1>3. CASE UNCHANGED <<th, port, kernel, cause>>
  <2>1. TypeOK'
    <3>1. timer' \in BOOLEAN
      BY <1>1
    <3>2. UNCHANGED <<ready, pend, threads, status, closed, lock, owned, call, chan, port, th>>
      BY <1>1, <1>3 DEF kernel
    <3> QED
      BY <1>1, <1>3, <3>1, <3>2 DEF IInv, TypeOK
  <2>2. Queue' /\ NoLostAnswer' /\ NoOrphanThread' /\ Ending'
    BY <1>1, <1>3 DEF IInv, Queue, Shape, NoLostAnswer, NoOrphanThread, Ending, kernel
  <2> QED
    BY <2>1, <2>2 DEF IInv
<1> QED
  BY <1>2, <1>3 DEF TimeLimit

\* What a step needs when nobody but its own thread is woken and nothing is left
\* to run.
LEMMA SoloStep ==
  ASSUME IInv, NEW th0 \in [Thread -> ThreadState], NEW T \in SUBSET Thread,
         NEW pd \in [Thread -> Waiting], NEW rd, NEW by \in Status \cup {None},
         Settle(th0, T, owned, pd, rd, by),
         closed => ~ owned /\ T = {},
         lock' \in Locks, lock' = lock \/ \E t \in Thread : pd[t] = "dead",
         closed \/ by # None => lock' = "free",
         lock' # "shared" => \A t \in Thread : th0[t] \in Live \/ port[t] # None => t \in T,
         rd = <<>> \/ (by = None /\ \E t \in Thread : pd[t] # "none" /\ rd = <<Resume(t)>>)
  PROVE  Step(th0, T, owned, pd, rd, by)
<1>1. \A t \in Thread : Head(<<Resume(t)>>).kind = "resume"
  BY DEF Resume
<1>2. Shape(rd, pd) /\ (rd = <<>> \/ Head(rd).kind # "handle")
  BY <1>1 DEF Shape
<1> QED
  BY <1>2 DEF Step, IInv, TypeOK

\* A call that is answered at once.
LEMMA WriteInv ==
  ASSUME IInv, NEW t \in Thread, HandleWrite(t)
  PROVE  IInv'
<1>1. Rest = <<>> /\ ~ closed /\ Answer(t) /\ late' = (late \/ (result # None /\ lock = "free"))
      /\ UNCHANGED <<call, env, lock>> /\ Settle(Woken(t), threads, owned, pend, Rest, None)
  BY HandlerAlone DEF HandleWrite
<1>2. /\ Woken(t) \in [Thread -> ThreadState]
      /\ chan' \in [Thread -> {"pending", "done"}]
      /\ \A u \in Thread : Woken(t)[u] = "asleep" => chan'[u] = "pending"
      /\ lock # "shared" =>
           \A u \in Thread : Woken(t)[u] \in Live \/ port[u] # None => u \in threads
  BY <1>1, Answered
<1>3. Step(Woken(t), threads, owned, pend, Rest, None)
  BY <1>1, <1>2, SoloStep, LockFacts DEF IInv, TypeOK, Waiting
<1> QED
  BY <1>1, <1>2, <1>3, StepInv DEF IInv, TypeOK, Ending, env

\* A call that makes its handler wait.
LEMMA WaitsInv ==
  ASSUME IInv, NEW t \in Thread, NEW p \in Waiting, Rest = <<>>, ~ closed,
         Settle(th, threads, owned, [pend EXCEPT ![t] = p], Rest, None),
         lock' \in Locks, lock' = lock \/ p = "dead", lock = "shared" => lock' = "shared",
         UNCHANGED <<call, chan, env, late>>
  PROVE  IInv'
<1>1. /\ [pend EXCEPT ![t] = p] \in [Thread -> Waiting]
      /\ th \in [Thread -> ThreadState] /\ threads \subseteq Thread
  BY DEF IInv, TypeOK, Waiting, ThreadState
<1>2. lock' # "shared" => \A u \in Thread : th[u] \in Live \/ port[u] # None => u \in threads
  BY DEF IInv, NoOrphanThread
<1>3. Step(th, threads, owned, [pend EXCEPT ![t] = p], Rest, None)
  <2>1. [pend EXCEPT ![t] = p][t] = p /\ owned \in BOOLEAN
    BY DEF IInv, TypeOK
  <2>2. lock' = lock \/ \E u \in Thread : [pend EXCEPT ![t] = p][u] = "dead"
    BY <2>1
  <2> QED
    BY <1>1, <1>2, <2>2, SoloStep, LockFacts
<1> QED
  BY <1>3, StepInv DEF IInv, TypeOK, Ending, NoLostAnswer, env

\* Bytes are taken.
LEMMA Taken == IInv /\ ReadSome => stdin' \in [data : BOOLEAN, closed : BOOLEAN]
  BY DEF IInv, TypeOK, ReadSome

LEMMA ReadInv ==
  ASSUME IInv, NEW t \in Thread, HandleRead(t)
  PROVE  IInv'
<1>1. Rest = <<>> /\ ~ closed /\ UNCHANGED <<call, lock, stopReq, result, timer, late>>
  BY HandlerAlone DEF HandleRead
<1>2. CASE ~ Readable
  <2>1. /\ Settle(th, threads, owned, [pend EXCEPT ![t] = "read"], Rest, None)
        /\ UNCHANGED <<chan, stdin>>
    BY <1>2 DEF HandleRead
  <2> QED
    BY <1>1, <2>1, WaitsInv, LockFacts DEF Waiting, env
<1>3. CASE Readable
  <2>1. /\ Answer(t) /\ ReadSome
        /\ Settle(Woken(t), threads, owned, pend, Rest, None)
    BY <1>3 DEF HandleRead
  <2>2. /\ Woken(t) \in [Thread -> ThreadState]
        /\ chan' \in [Thread -> {"pending", "done"}]
        /\ \A u \in Thread : Woken(t)[u] = "asleep" => chan'[u] = "pending"
        /\ lock # "shared" =>
           \A u \in Thread : Woken(t)[u] \in Live \/ port[u] # None => u \in threads
    BY <2>1, Answered
  <2>3. Step(Woken(t), threads, owned, pend, Rest, None)
    BY <1>1, <2>1, <2>2, SoloStep, LockFacts DEF IInv, TypeOK, Waiting
  <2> QED
    BY <1>1, <2>1, <2>2, <2>3, Taken, StepInv DEF IInv, TypeOK, Ending
<1> QED
  BY <1>2, <1>3

LEMMA SleepInv ==
  ASSUME IInv, NEW t \in Thread, HandleSleep(t)
  PROVE  IInv'
  BY HandlerAlone, WaitsInv, LockFacts DEF HandleSleep, Waiting

\* A thread is created in a process that goes on, and listed.
LEMMA SpawnInv ==
  ASSUME IInv, NEW t \in Thread, HandleSpawn(t)
  PROVE  IInv'
<1>1. Rest = <<>> /\ ~ closed /\ Answer(t) /\ UNCHANGED <<call, lock, env, late>>
  BY HandlerAlone DEF HandleSpawn
<1>2. PICK n \in Free :
        Settle([Woken(t) EXCEPT ![n] = "running"], threads \cup {n}, owned, pend, Rest, None)
  BY DEF HandleSpawn
<1>3. /\ Woken(t) \in [Thread -> ThreadState]
      /\ chan' \in [Thread -> {"pending", "done"}]
      /\ \A u \in Thread : Woken(t)[u] = "asleep" => chan'[u] = "pending"
      /\ lock # "shared" =>
           \A u \in Thread : Woken(t)[u] \in Live \/ port[u] # None => u \in threads
  BY <1>1, Answered
<1> DEFINE th0 == [Woken(t) EXCEPT ![n] = "running"]
<1>4. n \in Thread /\ threads \cup {n} \in SUBSET Thread /\ th0 \in [Thread -> ThreadState]
  BY <1>3 DEF Free, IInv, TypeOK, ThreadState, Live
<1>5. /\ \A u \in Thread : th0[u] = "asleep" => chan'[u] = "pending"
      /\ \A u \in Thread : th0[u] \in Live \/ port[u] # None => u \in threads \cup {n}
  <2>1. lock = "free"
    BY DEF HandleSpawn
  <2> QED
    BY <1>3, <1>4, <2>1
<1> HIDE DEF th0
<1>6. Settle(th0, threads \cup {n}, owned, pend, Rest, None)
  BY <1>2 DEF th0
<1>7. Step(th0, threads \cup {n}, owned, pend, Rest, None)
  BY <1>1, <1>4, <1>5, <1>6, SoloStep, LockFacts DEF IInv, TypeOK, Waiting
<1> QED
  BY <1>1, <1>3, <1>5, <1>7, StepInv DEF IInv, TypeOK, Ending, env

\* A panic leaves the rest of the process as it was, and the borrow.
LEMMA PanicInv ==
  ASSUME IInv, NEW t \in Thread, HandlePanic(t) \/ HandleBorrowFails(t)
  PROVE  IInv'
<1>1. PICK m : IsHandler(t, m)
  BY DEF HandlePanic, HandleBorrowFails
<1>2. PICK lk \in Locks : Panic(t, lk) /\ (lock = "shared" => lk = "shared")
  BY LockFacts DEF HandlePanic, HandleBorrowFails, Locks
<1>3. Rest = <<>> /\ ~ closed
  BY <1>1, HandlerAlone
<1> QED
  BY <1>2, <1>3, WaitsInv DEF Panic, Waiting

\* A worker created where it cannot be listed: no kill follows.
LEMMA SpawnPanicsInv ==
  ASSUME IInv, NEW t \in Thread, HandleSpawnPanics(t)
  PROVE  IInv'
<1>1. /\ Rest = <<>> /\ ~ closed /\ lock = "shared"
      /\ UNCHANGED <<call, chan, lock, env, late>>
  BY HandlerAlone DEF HandleSpawnPanics
<1> DEFINE pd == [pend EXCEPT ![t] = "dead"]
<1>2. PICK n \in Free : Settle([th EXCEPT ![n] = "running"], threads, owned, pd, Rest, None)
  BY DEF HandleSpawnPanics
<1> DEFINE th0 == [th EXCEPT ![n] = "running"]
<1>3. /\ th0 \in [Thread -> ThreadState] /\ threads \subseteq Thread /\ pd \in [Thread -> Waiting]
      /\ \A u \in Thread : th0[u] = "asleep" => chan[u] = "pending"
  BY DEF IInv, TypeOK, Waiting, ThreadState, Live, NoLostAnswer
<1> HIDE DEF th0, pd
<1>4. Settle(th0, threads, owned, pd, Rest, None)
  BY <1>2 DEF th0
<1>5. Step(th0, threads, owned, pd, Rest, None)
  BY <1>1, <1>3, <1>4, SoloStep, LockFacts
<1> QED
  BY <1>1, <1>3, <1>5, StepInv DEF IInv, TypeOK, Ending, env

\* The program writes to its own input and may wake a reader of it.
LEMMA WriteStdinInv ==
  ASSUME IInv, NEW t \in Thread, HandleWriteStdin(t)
  PROVE  IInv'
<1>1. /\ Rest = <<>> /\ ~ closed /\ Answer(t)
      /\ UNCHANGED <<call, lock, stopReq, result, timer, late>>
  BY HandlerAlone DEF HandleWriteStdin
<1>2. PICK w \in WakeOneReader(pend) : Settle(Woken(t), threads, owned, pend, Rest \o w, None)
  BY DEF HandleWriteStdin
<1>3. /\ Woken(t) \in [Thread -> ThreadState]
      /\ chan' \in [Thread -> {"pending", "done"}]
      /\ \A u \in Thread : Woken(t)[u] = "asleep" => chan'[u] = "pending"
      /\ lock # "shared" =>
           \A u \in Thread : Woken(t)[u] \in Live \/ port[u] # None => u \in threads
  BY <1>1, Answered
<1>4. w = <<>> \/ \E u \in Thread : pend[u] = "read" /\ w = <<Resume(u)>>
  BY Woke
<1>5. Rest \o w = w
  <2>1. CASE w = <<>>
    BY <1>1, <2>1
  <2>2. CASE \E u \in Thread : pend[u] = "read" /\ w = <<Resume(u)>>
    BY <1>1, <2>2, Joined
  <2> QED
    BY <1>4, <2>1, <2>2
<1>6. w = <<>> \/ \E u \in Thread : pend[u] # "none" /\ w = <<Resume(u)>>
  BY <1>4
<1>7. pend \in [Thread -> Waiting] /\ threads \subseteq Thread
  BY DEF IInv, TypeOK, Waiting
<1>8. Step(Woken(t), threads, owned, pend, w, None)
  BY <1>1, <1>2, <1>3, <1>5, <1>6, <1>7, SoloStep, LockFacts
<1>9. stdin' \in [data : BOOLEAN, closed : BOOLEAN]
  BY DEF HandleWriteStdin, IInv, TypeOK
<1> QED
  BY <1>1, <1>3, <1>8, <1>9, StepInv DEF IInv, TypeOK, Ending

LEMMA ReadStdoutInv ==
  ASSUME IInv, NEW t \in Thread, HandleReadStdout(t)
  PROVE  IInv'
  BY HandlerAlone, WaitsInv, LockFacts DEF HandleReadStdout, Waiting

\* The program ends the process; what it had going on was the only handler.
LEMMA EndInv ==
  ASSUME IInv, NEW t \in Thread, HandleEnd(t)
  PROVE  IInv'
<1>1. Rest = <<>> /\ ~ closed /\ UNCHANGED <<call, chan, lock, env, late>>
  BY HandlerAlone DEF HandleEnd
<1>2. PICK by \in Status : Settle(th, threads, owned, pend, Rest, by)
  BY DEF HandleEnd, Status
<1>3. th \in [Thread -> ThreadState] /\ threads \subseteq Thread /\ pend \in [Thread -> Waiting]
  BY DEF IInv, TypeOK, Waiting, ThreadState
<1>4. Step(th, threads, owned, pend, Rest, by)
  <2>1. lock = "free" /\ lock' = "free"
    BY <1>1 DEF HandleEnd
  <2> QED
    BY <1>1, <1>2, <1>3, <2>1, SoloStep, LockFacts DEF IInv, NoOrphanThread
<1> QED
  BY <1>1, <1>4, StepInv DEF IInv, TypeOK, Ending, NoLostAnswer, env

\* A timer wakes its handler.
LEMMA ResumeSleepInv ==
  ASSUME IInv, NEW t \in Thread, ResumeSleep(t)
  PROVE  IInv'
<1>1. Rest = <<>> /\ (closed => ~ owned) /\ UNCHANGED <<call, lock, env, late>>
  BY ResumedAlone DEF ResumeSleep
<1>2. Answer(t) /\ Settle(Woken(t), threads, owned, [pend EXCEPT ![t] = "none"], Rest, None)
  BY DEF ResumeSleep
<1>3. /\ Woken(t) \in [Thread -> ThreadState]
      /\ chan' \in [Thread -> {"pending", "done"}]
      /\ \A u \in Thread : Woken(t)[u] = "asleep" => chan'[u] = "pending"
      /\ lock # "shared" =>
           \A u \in Thread : Woken(t)[u] \in Live \/ port[u] # None => u \in threads
  BY <1>2, Answered
<1>4. [pend EXCEPT ![t] = "none"] \in [Thread -> Waiting] /\ threads \subseteq Thread
      /\ (closed => threads = {})
  BY DEF IInv, TypeOK, Waiting, NoOrphanThread
<1>5. Step(Woken(t), threads, owned, [pend EXCEPT ![t] = "none"], Rest, None)
  BY <1>1, <1>2, <1>3, <1>4, SoloStep, LockFacts
<1> QED
  BY <1>1, <1>3, <1>5, StepInv DEF IInv, TypeOK, Ending, env

\* Input wakes a reader, which may wake the next.
LEMMA ResumeReadInv ==
  ASSUME IInv, NEW t \in Thread, ResumeRead(t)
  PROVE  IInv'
<1>1. Rest = <<>> /\ (closed => ~ owned) /\ UNCHANGED <<call, lock, stopReq, result, timer, late>>
  BY ResumedAlone DEF ResumeRead
<1>2. /\ th \in [Thread -> ThreadState] /\ pend \in [Thread -> Waiting]
      /\ threads \subseteq Thread /\ (closed => threads = {})
  BY DEF IInv, TypeOK, Waiting, ThreadState, NoOrphanThread
<1>3. CASE ~ Readable
  <2>1. Settle(th, threads, owned, pend, Rest, None) /\ UNCHANGED <<chan, stdin>>
    BY <1>3 DEF ResumeRead
  <2>2. Step(th, threads, owned, pend, Rest, None)
    BY <1>1, <1>2, <2>1, SoloStep, LockFacts DEF IInv, NoOrphanThread
  <2> QED
    BY <1>1, <2>1, <2>2, StepInv DEF IInv, TypeOK, Ending, NoLostAnswer
<1>4. CASE Readable
  <2> DEFINE pd == [pend EXCEPT ![t] = "none"]
  <2>1. PICK w \in WakeOneReader(pd) : Settle(Woken(t), threads, owned, pd, Rest \o w, None)
    BY <1>4 DEF ResumeRead
  <2>2. Answer(t) /\ ReadSome
    BY <1>4 DEF ResumeRead
  <2>3. /\ Woken(t) \in [Thread -> ThreadState]
        /\ chan' \in [Thread -> {"pending", "done"}]
        /\ \A u \in Thread : Woken(t)[u] = "asleep" => chan'[u] = "pending"
        /\ lock # "shared" =>
           \A u \in Thread : Woken(t)[u] \in Live \/ port[u] # None => u \in threads
    BY <2>2, Answered
  <2>4. pd \in [Thread -> Waiting]
    BY <1>2 DEF Waiting
  <2> HIDE DEF pd
  <2>5. w = <<>> \/ \E u \in Thread : pd[u] = "read" /\ w = <<Resume(u)>>
    BY Woke
  <2>6. Rest \o w = w
    <3>1. CASE w = <<>>
      BY <1>1, <3>1
    <3>2. CASE \E u \in Thread : pd[u] = "read" /\ w = <<Resume(u)>>
      BY <1>1, <3>2, Joined
    <3> QED
      BY <2>5, <3>1, <3>2
  <2>7. w = <<>> \/ \E u \in Thread : pd[u] # "none" /\ w = <<Resume(u)>>
    BY <2>5
  <2>8. Step(Woken(t), threads, owned, pd, w, None)
    BY <1>1, <1>2, <2>1, <2>3, <2>4, <2>6, <2>7, SoloStep, LockFacts
  <2> QED
    BY <1>1, <2>2, <2>3, <2>8, Taken, StepInv DEF IInv, TypeOK, Ending
<1> QED
  BY <1>3, <1>4

\* The task of the execution reports, once, and drops its handle.
LEMMA RunTaskInv == IInv /\ RunTask => IInv'
<1> SUFFICES ASSUME IInv, RunTask PROVE IInv'
  OBVIOUS
<1>1. Shape(Rest, pend) /\ (Rest = <<>> \/ Head(Rest).kind # "handle")
  BY RunsFirst DEF RunTask
<1>2. /\ th \in [Thread -> ThreadState] /\ pend \in [Thread -> Waiting]
      /\ threads \subseteq Thread /\ (closed => threads = {})
      /\ lock # "shared" => \A u \in Thread : th[u] \in Live \/ port[u] # None => u \in threads
      /\ \A u \in Thread : th[u] = "asleep" => chan[u] = "pending"
  BY DEF IInv, TypeOK, Waiting, ThreadState, NoOrphanThread, NoLostAnswer
<1>3. UNCHANGED <<call, chan, lock, stopReq, timer, stdin, late>>
  BY DEF RunTask
<1>4. CASE owned /\ (closed \/ stopReq)
  <2>1. Settle(th, threads, FALSE, pend, Rest, None)
    BY <1>4 DEF RunTask
  <2>2. (closed /\ result' = status) \/ result' = "cancelled"
    BY <1>4 DEF RunTask
  <2>3. Step(th, threads, FALSE, pend, Rest, None)
    BY <1>1, <1>2, <1>3, <2>1, LockFacts DEF Step
  <2>4. /\ result' \in Status \cup {"cancelled", None}
        /\ result' \in Status => closed /\ result' = cause /\ ~ late'
    BY <1>3, <1>4, <2>2 DEF IInv, TypeOK, Ending, Status
  <2> QED
    BY <1>2, <1>3, <2>3, <2>4, StepInv DEF IInv, TypeOK
<1>5. CASE ~ (owned /\ (closed \/ stopReq))
  <2>1. Settle(th, threads, owned, pend, Rest, None) /\ result' = result
    BY <1>5 DEF RunTask
  <2>2. Step(th, threads, owned, pend, Rest, None)
    BY <1>1, <1>2, <1>3, <1>5, <2>1, LockFacts DEF Step, IInv, TypeOK
  <2> QED
    BY <1>2, <1>3, <2>1, <2>2, StepInv DEF IInv, TypeOK, Ending
<1> QED
  BY <1>4, <1>5

\* Every step keeps the inductive invariant.
LEMMA NextIInv == IInv /\ [Next]_vars => IInv'
<1> SUFFICES ASSUME IInv, [Next]_vars PROVE IInv'
  OBVIOUS
<1>1. CASE Tasks
  BY <1>1, RunTaskInv, WriteInv, ReadInv, SleepInv, SpawnInv, EndInv, ResumeSleepInv, ResumeReadInv,
     PanicInv, SpawnPanicsInv, WriteStdinInv, ReadStdoutInv
  DEF Tasks
<1>2. CASE Input \/ \E t \in Thread : TimerFires(t)
  BY <1>2, TimerInv
<1>3. CASE TimeLimit \/ Cancel
  BY <1>3, TimeLimitInv, CancelInv
<1>4. CASE \E t \in Thread : ThreadStep(t) \/ Deliver(t)
  BY <1>4, ThreadInv, DeliverInv
<1>5. CASE UNCHANGED vars
  BY <1>5 DEF vars, jsvars, kernel, env, history, IInv, TypeOK, Queue, Shape, NoLostAnswer,
              NoOrphanThread, Ending
<1> QED
  BY <1>1, <1>2, <1>3, <1>4, <1>5 DEF Next

LEMMA IInvHolds == SafeSpec => []IInv
  BY InitIInv, NextIInv, PTL DEF SafeSpec

\* Threads, cells, handlers and the queue stay in their types; nothing is scheduled
\* twice, and nothing for a handler that is done.
THEOREM TypeCorrect == SafeSpec => []TypeOK
  BY IInvHolds, PTL DEF IInv

\* No thread sleeps on a cell that holds its answer, in any order of store, post,
\* wait and answer.
THEOREM AnswersArrive == SafeSpec => []NoLostAnswer
  BY IInvHolds, PTL DEF IInv

\* Every thread that lives is in the list that kill goes through, and none does
\* once the process ended.
THEOREM NoThreadSurvives == SafeSpec => []NoOrphanThread
  BY IInvHolds, PTL DEF IInv

\* What is reported is the first cause of the end, and no output follows it.
THEOREM FirstEndIsReported == SafeSpec => []EndIsFinal
<1>1. IInv => EndIsFinal
  BY DEF IInv, Ending, EndIsFinal
<1> QED
  BY <1>1, IInvHolds, PTL
=============================================================================
