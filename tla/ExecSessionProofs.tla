------------------------- MODULE ExecSessionProofs -------------------------
(* Every run that goes on can be stopped, and what the page and the proxy  *)
(* of a submission show is theirs, for any number of runs, chunks and      *)
(* clicks.                                                                 *)
EXTENDS ExecSession, FiniteSetTheorems, FunctionTheorems, SequenceTheorems, TLAPS

\* The types the phases depend on: what the page asks for names a run.
Stored ==
  /\ next \in 1..(MaxRuns + 1)
  /\ \A l \in launches : l.run \in RunId
  /\ toWorker \in Seq(ToWorker)
  /\ stop \in RunId \cup {None}
  /\ run \in [RunId -> Phase]

IInv == Stored /\ AliveIsStoppable

\* None is no run.
LEMMA NoneIsNoRun == None \notin RunId
  BY SessionAssumption DEF RunId

\* What is not alive.
LEMMA Ended == /\ {"done", "orphan", "gone", "lost", "panicked", "fetching"} \subseteq Phase
               /\ Alive \subseteq Phase
               /\ {"done", "orphan", "gone", "lost", "panicked"} \cap Alive = {}
  BY DEF Phase, Alive

\* The inductive invariant holds at first.
LEMMA InitIInv == Init => IInv
<1> SUFFICES ASSUME Init PROVE IInv
  OBVIOUS
<1>1. next \in 1..(MaxRuns + 1)
  BY SessionAssumption DEF Init
<1>2. run \in [RunId -> Phase] /\ \A k \in RunId : run[k] \notin Alive
  BY DEF Init, Phase, Alive
<1> QED
  BY <1>1, <1>2 DEF Init, IInv, Stored, AliveIsStoppable

\* What the page may ask for.
LEMMA Requests ==
  /\ \A k \in RunId, b \in BOOLEAN : [type |-> "run", run |-> k, batch |-> b] \in ToWorker
  /\ [type |-> "stdin"] \in ToWorker /\ [type |-> "cancel"] \in ToWorker
  BY DEF ToWorker

\* Requests are queued.
LEMMA Queued ==
  ASSUME NEW q \in Seq(ToWorker), NEW r \in ToWorker, NEW s \in ToWorker
  PROVE  Append(q, r) \in Seq(ToWorker) /\ q \o <<r, s>> \in Seq(ToWorker)
  OBVIOUS

\* The page leaves the coordinator alone.
LEMMA PageInv ==
  IInv /\ (ClickRun \/ SendRun \/ ClickStop \/ TypeInput \/ SetMode \/ ClickSubmit
            \/ SubmitSend \/ SubmitEnd \/ ReceivePage) => IInv'
<1> SUFFICES ASSUME IInv, UNCHANGED coordinator,
                    next' \in 1..(MaxRuns + 1),
                    \A l \in launches' : l.run \in RunId,
                    toWorker' \in Seq(ToWorker)
             PROVE  IInv'
  <2> SUFFICES ASSUME IInv,
                      ClickRun \/ SendRun \/ ClickStop \/ TypeInput \/ SetMode \/ ClickSubmit
                        \/ SubmitSend \/ SubmitEnd \/ ReceivePage
               PROVE  /\ UNCHANGED coordinator
                      /\ next' \in 1..(MaxRuns + 1)
                      /\ \A l \in launches' : l.run \in RunId
                      /\ toWorker' \in Seq(ToWorker)
    OBVIOUS
  <2> USE DEF IInv, Stored
  <2>1. next \in RunId => next + 1 \in 1..(MaxRuns + 1)
    BY SessionAssumption DEF RunId
  <2>2. CASE ClickRun
    <3>1. \A l \in launches' : l \in launches \/ l = [run |-> next, mode |-> mode]
      BY <2>2 DEF ClickRun
    <3>2. [run |-> next, mode |-> mode].run = next /\ next \in RunId
      BY <2>2 DEF ClickRun
    <3>3. \A l \in launches' : l.run \in RunId
      BY <3>1, <3>2
    <3> QED
      BY <2>1, <2>2, <3>3 DEF ClickRun, channels
  <2>3. CASE SendRun
    <3>1. PICK l \in launches :
            LET go == [type |-> "run", run |-> l.run, batch |-> l.mode = "batch"]
                text == [type |-> "stdin"]
            IN  /\ launches' = launches \ {l}
                /\ \/ toWorker' = Append(toWorker, go)
                   \/ toWorker' = toWorker \o <<go, text>>
      BY <2>3 DEF SendRun
    <3> DEFINE go == [type |-> "run", run |-> l.run, batch |-> l.mode = "batch"]
    <3>2. l.run \in RunId /\ (l.mode = "batch") \in BOOLEAN
      OBVIOUS
    <3>3. go \in ToWorker
      BY <3>2, Requests
    <3>4. \/ toWorker' = Append(toWorker, go)
          \/ toWorker' = toWorker \o <<go, [type |-> "stdin"]>>
      BY <3>1
    <3> HIDE DEF go
    <3>5. toWorker' \in Seq(ToWorker)
      BY <3>3, <3>4, Requests, Queued
    <3> QED
      BY <2>3, <3>1, <3>5 DEF SendRun
  <2>4. CASE ClickStop \/ TypeInput
    <3>1. \E r \in ToWorker : toWorker' = Append(toWorker, r)
      BY <2>4, Requests DEF ClickStop, TypeInput
    <3>2. toWorker' \in Seq(ToWorker)
      BY <3>1, Queued
    <3> QED
      BY <2>4, <3>2 DEF ClickStop, TypeInput, page
  <2>5. CASE SetMode \/ ClickSubmit \/ SubmitEnd
    BY <2>5 DEF SetMode, ClickSubmit, SubmitEnd, page, channels
  <2>6. CASE SubmitSend
    <3>1. \E r \in ToWorker : toWorker' = Append(toWorker, r)
      BY <2>6, Requests DEF SubmitSend
    <3>2. toWorker' \in Seq(ToWorker)
      BY <3>1, Queued
    <3> QED
      BY <2>1, <2>6, <3>2 DEF SubmitSend, page
  <2>7. CASE ReceivePage
    <3>1. launches' = launches
      BY <2>7 DEF ReceivePage, ToProxy, ToState, page
    <3> QED
      BY <2>7, <3>1 DEF ReceivePage
  <2> QED
    BY <2>2, <2>3, <2>4, <2>5, <2>6, <2>7
<1> QED
  BY DEF IInv, Stored, AliveIsStoppable, coordinator

\* Once the stored sender resolved, nothing is alive.
LEMMA CancelledEndsAll ==
  ASSUME IInv, NEW r \in Cancelled
  PROVE  r \in [RunId -> Phase] /\ \A k \in RunId : r[k] \notin Alive
<1> USE DEF IInv, Stored
<1>1. CASE ~ Cancellable
  <2>1. r = run
    BY <1>1 DEF Cancelled
  <2>2. \A k \in RunId : run[k] \notin Alive
    BY <1>1, NoneIsNoRun DEF Cancellable, AliveIsStoppable
  <2> QED
    BY <2>1, <2>2
<1>2. CASE Cancellable
  <2>1. PICK p \in {"done", "orphan", "gone"} : r = [run EXCEPT ![stop] = p]
    BY <1>2 DEF Cancelled
  <2>2. stop \in RunId /\ p \in Phase /\ p \notin Alive
    BY <1>2, Ended DEF Cancellable
  <2>3. ASSUME NEW k \in RunId PROVE r[k] \notin Alive
    BY <2>1, <2>2 DEF AliveIsStoppable
  <2> QED
    BY <2>1, <2>2, <2>3
<1> QED
  BY <1>1, <1>2

\* A request of the page.
LEMMA ReceiveWorkerInv == IInv /\ ReceiveWorker => IInv'
<1> SUFFICES ASSUME IInv, ReceiveWorker PROVE IInv'
  OBVIOUS
<1> DEFINE m == Head(toWorker)
<1>1. m \in ToWorker /\ toWorker' \in Seq(ToWorker) /\ UNCHANGED <<next, launches>>
  BY DEF IInv, Stored, ReceiveWorker, page
<1>2. CASE m.type = "run" /\ HandleRun(m.run, m.batch)
  <2>1. m.run \in RunId
    BY <1>1, <1>2 DEF ToWorker
  <2>2. PICK r \in Cancelled :
          run' = [r EXCEPT ![m.run] = IF broken THEN "lost" ELSE "fetching"]
    BY <1>2 DEF HandleRun
  <2>3. r \in [RunId -> Phase] /\ \A k \in RunId : r[k] \notin Alive
    BY CancelledEndsAll
  <2>4. stop' = m.run
    BY <1>2 DEF HandleRun
  <2>5. run' \in [RunId -> Phase]
    BY <2>1, <2>2, <2>3, Ended
  <2>6. AliveIsStoppable'
    BY <2>1, <2>2, <2>3, <2>4 DEF AliveIsStoppable
  <2> QED
    BY <1>1, <2>1, <2>4, <2>5, <2>6 DEF IInv, Stored
<1>3. CASE m.type = "stdin" /\ HandleStdin
  BY <1>1, <1>3 DEF HandleStdin, IInv, Stored, AliveIsStoppable
<1>4. CASE m.type = "cancel" /\ HandleCancel
  <2>1. run' \in Cancelled /\ stop' = None
    BY <1>4 DEF HandleCancel
  <2>2. run' \in [RunId -> Phase] /\ \A k \in RunId : run'[k] \notin Alive
    BY <2>1, CancelledEndsAll
  <2> QED
    BY <1>1, <2>1, <2>2 DEF IInv, Stored, AliveIsStoppable
<1> QED
  BY <1>2, <1>3, <1>4 DEF ReceiveWorker

\* A phase of lang::run ends: a run that was not alive does not come back.
LEMMA PhaseInv ==
  ASSUME IInv, NEW k \in RunId,
         Fetched(k) \/ Compiled(k) \/ Output(k) \/ Exited(k) \/ OrphanEnds(k)
           \/ WriteToInput(k)
  PROVE  IInv'
<1>1. UNCHANGED <<next, launches, toWorker, stop>>
  BY DEF Fetched, Compiled, Output, Exited, OrphanEnds, WriteToInput, Elsewhere, Away, page
<1>2. \E p \in Phase : /\ run' = run \/ run' = [run EXCEPT ![k] = p]
                       /\ p \in Alive => run[k] \in Alive
  <2>1. /\ "done" \in Phase /\ "gone" \in Phase /\ "panicked" \in Phase
        /\ "done" \notin Alive /\ "gone" \notin Alive /\ "panicked" \notin Alive
    BY Ended
  <2>2. /\ {"compiling", "running", "frozen"} \subseteq Phase
        /\ {"fetching", "compiling", "running"} \subseteq Alive
    BY DEF Phase, Alive
  <2>3. CASE Fetched(k) \/ Compiled(k)
    BY <2>1, <2>2, <2>3 DEF Fetched, Compiled, End, Panics
  <2>4. CASE Output(k) \/ Exited(k) \/ OrphanEnds(k) \/ WriteToInput(k)
    BY <2>1, <2>2, <2>4 DEF Output, Exited, OrphanEnds, WriteToInput, End
  <2> QED
    BY <2>3, <2>4
<1> QED
  BY <1>1, <1>2 DEF IInv, Stored, AliveIsStoppable

\* Every step keeps the inductive invariant.
LEMMA NextIInv == IInv /\ [Next]_vars => IInv'
<1> SUFFICES ASSUME IInv, [Next]_vars PROVE IInv'
  OBVIOUS
<1>1. CASE ClickRun \/ SendRun \/ ClickStop \/ TypeInput \/ SetMode \/ ClickSubmit
             \/ SubmitSend \/ SubmitEnd \/ ReceivePage
  BY <1>1, PageInv
<1>2. CASE ReceiveWorker
  BY <1>2, ReceiveWorkerInv
<1>3. CASE \E k \in RunId : Fetched(k) \/ Compiled(k) \/ Output(k) \/ Exited(k) \/ OrphanEnds(k)
                               \/ WriteToInput(k)
  BY <1>3, PhaseInv
<1>4. CASE UNCHANGED vars
  BY <1>4 DEF vars, page, channels, coordinator, IInv, Stored, AliveIsStoppable
<1> QED
  BY <1>1, <1>2, <1>3, <1>4 DEF Next

\* However clicks, messages and the ends of programs interleave, what compiles or
\* runs is the run whose stop sender exec.rs stores, so there is one at most.
THEOREM EveryRunIsStoppable == Spec => []AliveIsStoppable
<1>1. IInv => AliveIsStoppable
  BY DEF IInv
<1> QED
  BY <1>1, InitIInv, NextIInv, PTL DEF Spec, SafeSpec

-----------------------------------------------------------------------------
(***************************************************************************)
(* Whose messages the page gets.  A run is one thing at a time: about to   *)
(* be sent, requested, alive, or reported as ended; and while the page     *)
(* kept running and submitting apart, that one thing is the page's.        *)
(***************************************************************************)

Outlived == {"orphan", "gone"}

\* May have written and is not reported as ended.
Writing == {"running", "frozen"} \cup Outlived

\* Run k is requested in q.
Wanted(q, k) == \E i \in 1..Len(q) : q[i].type = "run" /\ q[i].run = k

\* The end of run k is reported in q.
Reported(q, k) == \E i \in 1..Len(q) : q[i].type \in Final /\ q[i].run = k

\* The chunks of run k in q.
Chunks(q, k) == {i \in 1..Len(q) : q[i].type = "stdout" /\ q[i].run = k}

\* The requests in q are for different runs below n, of which r knows nothing.
Requests1(q, r, n) ==
  \A i \in 1..Len(q) :
    q[i].type = "run" =>
      /\ q[i].run < n /\ r[q[i].run] = "none"
      /\ \A j \in 1..(i - 1) : q[j].type = "run" => q[j].run # q[i].run

RequestedOnce ==
  /\ Requests1(toWorker, run, next)
  /\ \A l \in launches :
       /\ l.run < next /\ run[l.run] = "none" /\ ~ Wanted(toWorker, l.run)
       /\ \A m \in launches : l.run = m.run => l = m
  /\ \A k \in RunId : run[k] # "none" => k < next
  /\ \A k \in RunId : run[k] = "none" => emitted[k] = 0

\* A run is reported as ended once, when it did end, and it was silent since if it
\* ended well; what it wrote before is still followed by that report, unless the
\* run outlived it.
Reports1(q, r) ==
  \A i \in 1..Len(q) :
    /\ r[q[i].run] # "none"
    /\ q[i].type \in Final =>
         /\ r[q[i].run] \notin Alive
         /\ \A j \in 1..(i - 1) : q[j].type \in Final => q[j].run # q[i].run
    /\ q[i].type = "success" => r[q[i].run] = "done"
    /\ \A j \in 1..(i - 1) : q[j].type = "success" => q[j].run # q[i].run
    /\ q[i].type = "stdout" =>
         \/ r[q[i].run] \in Writing
         \/ \E j \in (i + 1)..Len(q) : q[j].type \in Final /\ q[j].run = q[i].run

ReportedOnce == Reports1(toPage, run)

\* The page never has more of a run than it wrote.
Tallied ==
  \A k \in RunId :
    /\ shown[k] + Cardinality(Chunks(toPage, k)) <= emitted[k]
    /\ collected[k] + Cardinality(Chunks(toPage, k)) <= emitted[k]

\* The end of run k is still to come, or on its way.
Ending(q, r, k) == r[k] \in Alive \/ Reported(q, k)

\* Something is still to come of run k.
Open(k) ==
  \/ \E l \in launches : l.run = k
  \/ Wanted(toWorker, k)
  \/ Ending(toPage, run, k)

\* The page waits for run k.
Awaited(k) == (exec = "processing" /\ k = cur) \/ (submit = "proxied" /\ k = sub)

\* What the page shows is of its run.
ShownIsMine ==
  /\ exec = "processing" => shown[cur] + Cardinality(Chunks(toPage, cur)) = emitted[cur]
  /\ exec = "complete" => verdict.run = cur
  /\ exec = "complete" /\ verdict.type = "success" => shown[cur] = emitted[cur] /\ run[cur] = "done"
  /\ \A k \in RunId \ {cur} : shown[k] > 0 => run[k] \in Outlived

\* What the submission collected is of its run.
CollectedIsMine ==
  /\ submit = "proxied" => collected[sub] + Cardinality(Chunks(toPage, sub)) = emitted[sub]
  /\ subverdict # None => subverdict.run = sub
  /\ subverdict # None /\ subverdict.type = "success" =>
       collected[sub] = emitted[sub] /\ run[sub] = "done"
  /\ submit = "preparing" => \A k \in RunId : collected[k] = 0
  /\ \A k \in RunId \ {sub} : collected[k] > 0 => run[k] \in Outlived

\* As long as nothing was run and submitted at once, whatever is still to come is
\* what the page waits for.
Apart ==
  /\ ~ (exec = "processing" /\ Submitting)
  /\ \A k \in RunId : Open(k) => Awaited(k)
  /\ ShownIsMine /\ CollectedIsMine

\* The run in question is there.
Named ==
  /\ exec \in {"processing", "complete"} => cur # None
  /\ submit = "proxied" => sub # None
  /\ submit \in {"preparing", "proxied"} => subverdict = None
  /\ subverdict # None => sub # None

XInv == TypeOK /\ Named /\ RequestedOnce /\ ReportedOnce /\ Tallied /\ (overlap \/ Apart)

-----------------------------------------------------------------------------
(* The two queues. *)

LEMMA AppendAt ==
  ASSUME NEW S, NEW q \in Seq(S), NEW m \in S
  PROVE  /\ Append(q, m) \in Seq(S) /\ Len(q) \in Nat /\ Len(Append(q, m)) = Len(q) + 1
         /\ Append(q, m)[Len(q) + 1] = m
         /\ \A i \in 1..Len(q) : Append(q, m)[i] = q[i] /\ q[i] \in S
OBVIOUS

LEMMA TailAt ==
  ASSUME NEW S, NEW q \in Seq(S), q # <<>>
  PROVE  /\ Tail(q) \in Seq(S) /\ Len(q) \in Nat \ {0} /\ Len(Tail(q)) = Len(q) - 1
         /\ Head(q) = q[1] /\ Head(q) \in S
         /\ \A i \in 1..(Len(q) - 1) : Tail(q)[i] = q[i + 1]
         /\ \A i \in 1..Len(q) : q[i] \in S
OBVIOUS

\* The runs that a queue names.
LEMMA QueueRuns ==
  /\ \A m \in ToPage : m.run \in RunId /\ m.type \in {"stdout"} \cup Final
  /\ \A m \in ToWorker : m.type = "run" => m.run \in RunId
BY DEF ToPage, ToWorker

\* A request for a new run is added.
LEMMA RequestAppend ==
  ASSUME NEW q \in Seq(ToWorker), NEW m \in ToWorker, NEW r, NEW n \in Nat, NEW p \in Nat,
         Requests1(q, r, n), n <= p,
         m.type = "run" => m.run < p /\ r[m.run] = "none" /\ ~ Wanted(q, m.run)
  PROVE  /\ Append(q, m) \in Seq(ToWorker) /\ Requests1(Append(q, m), r, p)
         /\ \A k : Wanted(Append(q, m), k) <=> Wanted(q, k) \/ (m.type = "run" /\ m.run = k)
<1>1. /\ Append(q, m) \in Seq(ToWorker)
      /\ Len(q) \in Nat /\ Len(Append(q, m)) = Len(q) + 1 /\ Append(q, m)[Len(q) + 1] = m
      /\ \A i \in 1..Len(q) : Append(q, m)[i] = q[i] /\ q[i] \in ToWorker
  BY AppendAt
<1>2. \A i \in 1..(Len(q) + 1) : i = Len(q) + 1 \/ i \in 1..Len(q)
  BY <1>1
<1>3. \A i \in 1..Len(q) : q[i].type = "run" => q[i].run \in Nat
  BY <1>1, QueueRuns DEF RunId
<1>4. ASSUME NEW i \in 1..(Len(q) + 1), Append(q, m)[i].type = "run"
      PROVE  /\ Append(q, m)[i].run < p /\ r[Append(q, m)[i].run] = "none"
             /\ \A j \in 1..(i - 1) :
                  Append(q, m)[j].type = "run" => Append(q, m)[j].run # Append(q, m)[i].run
  <2>1. CASE i = Len(q) + 1
    BY <2>1, <1>1, <1>4 DEF Wanted
  <2>2. CASE i \in 1..Len(q)
    BY <2>2, <1>1, <1>3, <1>4 DEF Requests1
  <2> QED
    BY <2>1, <2>2, <1>2
<1>5. ASSUME NEW k
      PROVE  Wanted(Append(q, m), k) <=> Wanted(q, k) \/ (m.type = "run" /\ m.run = k)
  <2>1. Wanted(Append(q, m), k) => Wanted(q, k) \/ (m.type = "run" /\ m.run = k)
    BY <1>1, <1>2 DEF Wanted
  <2>2. Wanted(q, k) => Wanted(Append(q, m), k)
    BY <1>1 DEF Wanted
  <2>3. m.type = "run" /\ m.run = k => Wanted(Append(q, m), k)
    BY <1>1 DEF Wanted
  <2> QED
    BY <2>1, <2>2, <2>3
<1> QED
  BY <1>1, <1>4, <1>5 DEF Requests1

\* The head is handled: the run it asks for is known then, the later ones are not.
LEMMA RequestTail ==
  ASSUME NEW q \in Seq(ToWorker), q # <<>>, NEW r, NEW s, NEW n, Requests1(q, r, n),
         \A k \in RunId :
           s[k] # "none" => r[k] # "none" \/ (Head(q).type = "run" /\ Head(q).run = k)
  PROVE  /\ Requests1(Tail(q), s, n)
         /\ \A k : Wanted(Tail(q), k) =>
                     Wanted(q, k) /\ ~ (Head(q).type = "run" /\ Head(q).run = k)
<1>1. /\ Len(q) \in Nat \ {0} /\ Len(Tail(q)) = Len(q) - 1 /\ Head(q) = q[1]
      /\ \A i \in 1..(Len(q) - 1) : Tail(q)[i] = q[i + 1]
      /\ \A i \in 1..Len(q) : q[i] \in ToWorker
  BY TailAt
<1>2. ASSUME NEW i \in 1..(Len(q) - 1), Tail(q)[i].type = "run"
      PROVE  /\ Tail(q)[i].run < n /\ s[Tail(q)[i].run] = "none"
             /\ \A j \in 1..(i - 1) : Tail(q)[j].type = "run" => Tail(q)[j].run # Tail(q)[i].run
             /\ ~ (Head(q).type = "run" /\ Head(q).run = Tail(q)[i].run)
  <2>1. i + 1 \in 1..Len(q) /\ 1 \in 1..((i + 1) - 1) /\ Tail(q)[i] = q[i + 1]
    BY <1>1
  <2>2. \A j \in 1..(i - 1) : Tail(q)[j] = q[j + 1] /\ j + 1 \in 1..((i + 1) - 1)
    BY <1>1
  <2>3. q[i + 1].run \in RunId
    BY <2>1, <1>1, <1>2, QueueRuns
  <2> QED
    BY <2>1, <2>2, <2>3, <1>1, <1>2 DEF Requests1
<1>3. ASSUME NEW k, Wanted(Tail(q), k)
      PROVE  Wanted(q, k) /\ ~ (Head(q).type = "run" /\ Head(q).run = k)
  <2>1. PICK i \in 1..(Len(q) - 1) : Tail(q)[i].type = "run" /\ Tail(q)[i].run = k
    BY <1>1, <1>3 DEF Wanted
  <2>2. i + 1 \in 1..Len(q) /\ q[i + 1].type = "run" /\ q[i + 1].run = k
    BY <2>1, <1>1
  <2> QED
    BY <2>1, <2>2, <1>2 DEF Wanted
<1> QED
  BY <1>1, <1>2, <1>3 DEF Requests1

\* A live run, or an orphan that only writes, adds a report.
LEMMA ReportAppend ==
  ASSUME NEW q \in Seq(ToPage), NEW m \in ToPage, NEW r, NEW s, Reports1(q, r),
         \A l \in RunId \ {m.run} : s[l] = r[l],
         r[m.run] \in Alive \cup {"orphan"},
         m.type \in Final => r[m.run] \in Alive /\ s[m.run] \in {"done", "orphan", "gone"},
         m.type = "success" => s[m.run] = "done",
         m.type = "stdout" => s[m.run] = r[m.run] /\ r[m.run] \in Writing
  PROVE  Append(q, m) \in Seq(ToPage) /\ Reports1(Append(q, m), s)
<1>1. /\ Append(q, m) \in Seq(ToPage)
      /\ Len(q) \in Nat /\ Len(Append(q, m)) = Len(q) + 1 /\ Append(q, m)[Len(q) + 1] = m
      /\ \A i \in 1..Len(q) : Append(q, m)[i] = q[i] /\ q[i] \in ToPage
  BY AppendAt
<1>2. m.run \in RunId /\ m.type \in {"stdout"} \cup Final
      /\ \A i \in 1..Len(q) : q[i].run \in RunId
  BY <1>1, QueueRuns
<1>3. /\ \A i \in 1..Len(q) : q[i].type \in Final => r[q[i].run] \notin Alive
      /\ \A i \in 1..Len(q) : q[i].type = "success" => r[q[i].run] = "done"
  BY DEF Reports1
<1>4. "done" \notin Alive \cup {"orphan"} /\ "none" \notin Alive \cup {"orphan"}
      /\ {"done", "orphan", "gone"} \cap Alive = {} /\ "stdout" \notin Final /\ "success" \in Final
      /\ "orphan" \in Outlived /\ "none" \notin {"done", "orphan", "gone"}
  BY DEF Alive, Final, Outlived
<1>5. ASSUME NEW i \in 1..(Len(q) + 1)
      PROVE  LET a == Append(q, m) IN
             /\ s[a[i].run] # "none"
             /\ a[i].type \in Final =>
                  /\ s[a[i].run] \notin Alive
                  /\ \A j \in 1..(i - 1) : a[j].type \in Final => a[j].run # a[i].run
             /\ a[i].type = "success" => s[a[i].run] = "done"
             /\ \A j \in 1..(i - 1) : a[j].type = "success" => a[j].run # a[i].run
             /\ a[i].type = "stdout" =>
                  \/ s[a[i].run] \in Writing
                  \/ \E j \in (i + 1)..Len(a) : a[j].type \in Final /\ a[j].run = a[i].run
  <2>. DEFINE a == Append(q, m)
  <2>1. CASE i = Len(q) + 1
    <3>1. a[i] = m /\ \A j \in 1..(i - 1) : a[j] = q[j] /\ j \in 1..Len(q)
      BY <2>1, <1>1
    <3> HIDE DEF a
    <3>2. s[m.run] # "none"
      BY <1>2, <1>4
    <3>3. m.type \in Final =>
            /\ s[m.run] \notin Alive
            /\ \A j \in 1..(i - 1) : a[j].type \in Final => a[j].run # m.run
      BY <3>1, <1>3, <1>4
    <3>4. \A j \in 1..(i - 1) : a[j].type = "success" => a[j].run # m.run
      BY <3>1, <1>3, <1>4
    <3>5. m.type = "stdout" => s[m.run] \in Writing
      BY <1>4
    <3> QED
      BY <3>1, <3>2, <3>3, <3>4, <3>5 DEF a
  <2>2. CASE i \in 1..Len(q)
    <3>1. /\ a[i] = q[i] /\ q[i].run \in RunId
          /\ \A j \in 1..(i - 1) : a[j] = q[j] /\ j \in 1..Len(q)
          /\ \A j \in (i + 1)..Len(q) : a[j] = q[j] /\ j \in (i + 1)..Len(a)
          /\ Len(q) + 1 \in (i + 1)..Len(a) /\ a[Len(q) + 1] = m
      BY <2>2, <1>1, <1>2
    <3> HIDE DEF a
    <3>2. CASE q[i].run # m.run
      <4>1. s[q[i].run] = r[q[i].run]
        BY <3>1, <3>2
      <4> QED
        BY <4>1, <3>1, <2>2 DEF a, Reports1
    <3>3. CASE q[i].run = m.run
      <4>1. q[i].type # "success" /\ s[m.run] # "none"
        BY <3>3, <2>2, <1>2, <1>3, <1>4
      <4>2. q[i].type \in Final =>
              /\ s[m.run] \notin Alive
              /\ \A j \in 1..(i - 1) : q[j].type \in Final => q[j].run # q[i].run
        BY <3>3, <2>2, <1>2, <1>3 DEF Reports1
      <4>3. \A j \in 1..(i - 1) : q[j].type = "success" => q[j].run # q[i].run
        BY <2>2 DEF Reports1
      <4>4. q[i].type = "stdout" =>
              \/ s[m.run] \in Writing
              \/ \E j \in (i + 1)..Len(a) : a[j].type \in Final /\ a[j].run = m.run
        <5>1. m.type = "stdout" => s[m.run] \in Writing
          BY <1>4
        <5>2. m.type \in Final =>
                \E j \in (i + 1)..Len(a) : a[j].type \in Final /\ a[j].run = m.run
          BY <3>1
        <5> QED
          BY <5>1, <5>2, <1>2
      <4> QED
        BY <4>1, <4>2, <4>3, <4>4, <3>1, <3>3 DEF a
    <3> QED
      BY <3>2, <3>3
  <2> QED
    BY <2>1, <2>2, <1>1
<1> QED
  BY <1>1, <1>5 DEF Reports1

\* Phases that move on in silence leave the reports true.
LEMMA ReportsStay ==
  ASSUME NEW q \in Seq(ToPage), NEW r, NEW s, Reports1(q, r),
         \A k \in RunId : r[k] # "none" =>
            /\ s[k] # "none"
            /\ s[k] \in Alive => r[k] \in Alive
            /\ r[k] = "done" => s[k] = "done"
            /\ r[k] \in Writing => s[k] \in Writing
  PROVE  Reports1(q, s)
<1>1. \A i \in 1..Len(q) : q[i] \in ToPage
  OBVIOUS
<1>2. \A i \in 1..Len(q) : q[i].run \in RunId
  BY <1>1, QueueRuns
<1> QED
  BY <1>2 DEF Reports1

\* The page takes the head.
LEMMA ReportTail ==
  ASSUME NEW q \in Seq(ToPage), q # <<>>, NEW r, Reports1(q, r)
  PROVE  /\ Reports1(Tail(q), r)
         /\ \A k : Reported(Tail(q), k) =>
                     Reported(q, k) /\ ~ (Head(q).type \in Final /\ Head(q).run = k)
<1>1. /\ Len(q) \in Nat \ {0} /\ Len(Tail(q)) = Len(q) - 1 /\ Head(q) = q[1]
      /\ \A i \in 1..(Len(q) - 1) : Tail(q)[i] = q[i + 1]
  BY TailAt
<1>2. ASSUME NEW i \in 1..(Len(q) - 1)
      PROVE  LET a == Tail(q) IN
             /\ r[a[i].run] # "none"
             /\ a[i].type \in Final =>
                  /\ r[a[i].run] \notin Alive
                  /\ \A j \in 1..(i - 1) : a[j].type \in Final => a[j].run # a[i].run
                  /\ ~ (Head(q).type \in Final /\ Head(q).run = a[i].run)
             /\ a[i].type = "success" => r[a[i].run] = "done"
             /\ \A j \in 1..(i - 1) : a[j].type = "success" => a[j].run # a[i].run
             /\ a[i].type = "stdout" =>
                  \/ r[a[i].run] \in Writing
                  \/ \E j \in (i + 1)..Len(a) : a[j].type \in Final /\ a[j].run = a[i].run
  <2>1. i + 1 \in 1..Len(q) /\ 1 \in 1..((i + 1) - 1) /\ Tail(q)[i] = q[i + 1]
    BY <1>1
  <2>2. \A j \in 1..(i - 1) : Tail(q)[j] = q[j + 1] /\ j + 1 \in 1..((i + 1) - 1)
    BY <1>1
  <2>3. \A j \in ((i + 1) + 1)..Len(q) : j - 1 \in (i + 1)..Len(Tail(q)) /\ Tail(q)[j - 1] = q[j]
    BY <1>1
  <2>4. q[i + 1].type = "stdout" =>
          \/ r[q[i + 1].run] \in Writing
          \/ \E j \in ((i + 1) + 1)..Len(q) : q[j].type \in Final /\ q[j].run = q[i + 1].run
    BY <2>1 DEF Reports1
  <2>5. q[i + 1].type = "stdout" =>
          \/ r[q[i + 1].run] \in Writing
          \/ \E j \in (i + 1)..Len(Tail(q)) :
               Tail(q)[j].type \in Final /\ Tail(q)[j].run = q[i + 1].run
    BY <2>3, <2>4
  <2>6. /\ r[q[i + 1].run] # "none"
        /\ q[i + 1].type \in Final => r[q[i + 1].run] \notin Alive
        /\ q[i + 1].type = "success" => r[q[i + 1].run] = "done"
    BY <2>1 DEF Reports1
  <2>7. \A j \in 1..((i + 1) - 1) :
          /\ q[i + 1].type \in Final /\ q[j].type \in Final => q[j].run # q[i + 1].run
          /\ q[j].type = "success" => q[j].run # q[i + 1].run
    BY <2>1 DEF Reports1
  <2>8. q[i + 1].type \in Final => ~ (Head(q).type \in Final /\ Head(q).run = q[i + 1].run)
    BY <2>1, <2>7, <1>1
  <2>9. \A j \in 1..(i - 1) :
          /\ q[i + 1].type \in Final /\ Tail(q)[j].type \in Final => Tail(q)[j].run # q[i + 1].run
          /\ Tail(q)[j].type = "success" => Tail(q)[j].run # q[i + 1].run
    BY <2>2, <2>7
  <2> QED
    BY ONLY <2>1, <2>5, <2>6, <2>8, <2>9
<1>3. ASSUME NEW k, Reported(Tail(q), k)
      PROVE  Reported(q, k) /\ ~ (Head(q).type \in Final /\ Head(q).run = k)
  <2>1. PICK i \in 1..(Len(q) - 1) : Tail(q)[i].type \in Final /\ Tail(q)[i].run = k
    BY <1>1, <1>3 DEF Reported
  <2>2. i + 1 \in 1..Len(q) /\ q[i + 1].type \in Final /\ q[i + 1].run = k
    BY <2>1, <1>1
  <2> QED
    BY <2>1, <2>2, <1>2 DEF Reported
<1> QED
  BY <1>1, <1>2, <1>3 DEF Reports1

LEMMA ReportedAppend ==
  ASSUME NEW q \in Seq(ToPage), NEW m \in ToPage, NEW k
  PROVE  Reported(Append(q, m), k) => Reported(q, k) \/ (m.type \in Final /\ m.run = k)
<1>1. /\ Len(q) \in Nat /\ Len(Append(q, m)) = Len(q) + 1 /\ Append(q, m)[Len(q) + 1] = m
      /\ \A i \in 1..Len(q) : Append(q, m)[i] = q[i]
  BY AppendAt
<1>2. \A i \in 1..(Len(q) + 1) : i = Len(q) + 1 \/ i \in 1..Len(q)
  BY <1>1
<1> QED
  BY <1>1, <1>2 DEF Reported

-----------------------------------------------------------------------------
(* Counting the chunks on their way. *)

LEMMA ChunksFinite ==
  ASSUME NEW q \in Seq(ToPage), NEW k
  PROVE  IsFiniteSet(Chunks(q, k)) /\ Cardinality(Chunks(q, k)) \in Nat
<1>1. IsFiniteSet(1..Len(q))
  BY FS_Interval
<1>2. Chunks(q, k) \in SUBSET (1..Len(q))
  BY DEF Chunks
<1> QED
  BY <1>1, <1>2, FS_Subset, FS_CardinalityType

LEMMA ChunksAppend ==
  ASSUME NEW q \in Seq(ToPage), NEW m \in ToPage, NEW k
  PROVE  Cardinality(Chunks(Append(q, m), k))
           = Cardinality(Chunks(q, k)) + (IF m.type = "stdout" /\ m.run = k THEN 1 ELSE 0)
<1>1. /\ Len(q) \in Nat /\ Len(Append(q, m)) = Len(q) + 1 /\ Append(q, m)[Len(q) + 1] = m
      /\ \A i \in 1..Len(q) : Append(q, m)[i] = q[i]
  BY AppendAt
<1>2. \A i : i \in 1..(Len(q) + 1) <=> i = Len(q) + 1 \/ i \in 1..Len(q)
  BY <1>1
<1>3. CASE m.type = "stdout" /\ m.run = k
  <2>1. Chunks(Append(q, m), k) = Chunks(q, k) \cup {Len(q) + 1}
    BY <1>1, <1>2, <1>3 DEF Chunks
  <2>2. Len(q) + 1 \notin Chunks(q, k)
    BY <1>1 DEF Chunks
  <2> QED
    <3>1. IsFiniteSet(Chunks(q, k))
      BY ChunksFinite
    <3>2. Cardinality(Chunks(q, k) \cup {Len(q) + 1}) = Cardinality(Chunks(q, k)) + 1
      BY ONLY <3>1, <2>2, FS_AddElement
    <3> QED
      BY <2>1, <3>2, <1>3
<1>4. CASE ~ (m.type = "stdout" /\ m.run = k)
  <2>1. Chunks(Append(q, m), k) = Chunks(q, k)
    BY <1>1, <1>2, <1>4 DEF Chunks
  <2> QED
    BY <2>1, <1>4, ChunksFinite
<1> QED
  BY <1>3, <1>4

LEMMA ChunksTail ==
  ASSUME NEW q \in Seq(ToPage), q # <<>>, NEW k
  PROVE  Cardinality(Chunks(Tail(q), k))
           + (IF Head(q).type = "stdout" /\ Head(q).run = k THEN 1 ELSE 0)
           = Cardinality(Chunks(q, k))
<1>1. /\ Tail(q) \in Seq(ToPage)
      /\ Len(q) \in Nat \ {0} /\ Len(Tail(q)) = Len(q) - 1 /\ Head(q) = q[1]
      /\ \A i \in 1..(Len(q) - 1) : Tail(q)[i] = q[i + 1]
  BY TailAt
<1>. DEFINE S == Chunks(q, k) \ {1}
            T == Chunks(Tail(q), k)
            f == [i \in S |-> i - 1]
<1>2. IsFiniteSet(Chunks(q, k)) /\ Cardinality(Chunks(q, k)) \in Nat
  BY ChunksFinite
<1>3. IsFiniteSet(S) /\ Cardinality(S) = IF 1 \in Chunks(q, k) THEN Cardinality(Chunks(q, k)) - 1
                                         ELSE Cardinality(Chunks(q, k))
  BY <1>2, FS_RemoveElement
<1>4. \A i \in S : i \in 2..Len(q) /\ q[i].type = "stdout" /\ q[i].run = k
  BY <1>1 DEF Chunks
<1>5. \A i \in S : i - 1 \in T
  BY <1>1, <1>4 DEF Chunks
<1>6. \A j \in T : j + 1 \in S /\ (j + 1) - 1 = j
  BY <1>1 DEF Chunks
<1>7. f \in Bijection(S, T)
  <2>1. f \in [S -> T]
    BY <1>5
  <2>2. \A i, j \in S : f[i] = f[j] => i = j
    BY <1>4
  <2>3. \A j \in T : \E i \in S : f[i] = j
    BY <1>6
  <2> HIDE DEF S, T, f
  <2> QED
    BY <2>1, <2>2, <2>3 DEF Bijection, Injection, Surjection, IsInjective
<1>8. Cardinality(T) = Cardinality(S)
  BY <1>3, <1>7, FS_Bijection DEF ExistsBijection
<1>9. 1 \in Chunks(q, k) <=> Head(q).type = "stdout" /\ Head(q).run = k
  BY <1>1 DEF Chunks
<1> QED
  BY <1>2, <1>3, <1>8, <1>9

\* No chunk of k is on its way after its success.
LEMMA ChunksNone ==
  ASSUME NEW q, NEW k, \A i \in 1..Len(q) : q[i].run # k
  PROVE  Cardinality(Chunks(q, k)) = 0
<1>1. Chunks(q, k) = {}
  BY DEF Chunks
<1> QED
  BY <1>1, FS_EmptySet

-----------------------------------------------------------------------------
(* Steps of the coordinator. *)

\* What every step of the coordinator does: runs move on from none over alive to
\* done or outlived, what is written is sent, and nothing ends that was not open.
LEMMA CoordinatorXInv ==
  ASSUME XInv, UNCHANGED <<page, submission, next, history>>,
         toWorker' \in Seq(ToWorker), toPage' \in Seq(ToPage),
         stop' \in RunId \cup {None}, inp' \in RunId \cup {None},
         pipe' \in [RunId -> {"none", "open", "closed", "jammed"}],
         run' \in [RunId -> Phase], broken' \in BOOLEAN,
         emitted' \in [RunId -> 0..MaxOut],
         inp' # None => run'[inp'] # "none" /\ pipe'[inp'] # "none",
         Requests1(toWorker', run', next),
         \A k : Wanted(toWorker', k) => Wanted(toWorker, k),
         Reports1(toPage', run'),
         \A k \in RunId :
           /\ run'[k] # "none" => run[k] # "none" \/ Wanted(toWorker, k)
           /\ run'[k] = "none" => run[k] = "none" /\ emitted'[k] = emitted[k]
           /\ run[k] = "done" => run'[k] = "done" /\ emitted'[k] = emitted[k]
           /\ run[k] \in Outlived => run'[k] \in Outlived
           /\ emitted[k] + Cardinality(Chunks(toPage', k))
                = emitted'[k] + Cardinality(Chunks(toPage, k))
           /\ Ending(toPage', run', k) => Open(k)
  PROVE  XInv'
<1> USE DEF XInv
<1>1. TypeOK'
  <2>1. TypeOK
    OBVIOUS
  <2>2. /\ exec' = exec /\ stopping' = stopping /\ cur' = cur /\ shown' = shown
        /\ verdict' = verdict /\ mode' = mode /\ launches' = launches /\ submit' = submit
    BY DEF page, submission
  <2>3. /\ sub' = sub /\ collected' = collected /\ subverdict' = subverdict /\ next' = next
        /\ overlap' = overlap /\ early' = early
    BY DEF submission, history
  <2>4. /\ toWorker' \in Seq(ToWorker) /\ toPage' \in Seq(ToPage)
        /\ stop' \in RunId \cup {None} /\ inp' \in RunId \cup {None}
        /\ pipe' \in [RunId -> {"none", "open", "closed", "jammed"}]
        /\ run' \in [RunId -> Phase] /\ broken' \in BOOLEAN
        /\ emitted' \in [RunId -> 0..MaxOut]
        /\ inp' # None => run'[inp'] # "none" /\ pipe'[inp'] # "none"
    OBVIOUS
  <2>5. /\ exec' \in {"ready", "processing", "complete"} /\ stopping' \in BOOLEAN
        /\ cur' \in RunId \cup {None} /\ shown' \in [RunId -> 0..MaxOut]
        /\ verdict' \in ToPage \cup {None} /\ mode' \in Mode
        /\ launches' \subseteq [run : RunId, mode : Mode]
        /\ exec' = "complete" <=> verdict' # None
        /\ submit' \in {"ready", "preparing", "proxied", "uploading"}
    BY ONLY <2>1, <2>2 DEF TypeOK
  <2>6. /\ collected' \in [RunId -> 0..MaxOut] /\ subverdict' \in ToPage \cup {None}
        /\ sub' \in RunId \cup {None} /\ next' \in 1..(MaxRuns + 1)
        /\ overlap' \in BOOLEAN /\ early' \in BOOLEAN
    BY ONLY <2>1, <2>3 DEF TypeOK
  <2> QED
    BY ONLY <2>4, <2>5, <2>6 DEF TypeOK
<1>2. /\ \A k \in RunId : Cardinality(Chunks(toPage, k)) \in Nat
      /\ \A k \in RunId : Cardinality(Chunks(toPage', k)) \in Nat
  <2>1. toPage \in Seq(ToPage)
    BY DEF TypeOK
  <2> QED
    BY <2>1, ChunksFinite
<1>3. /\ \A k \in RunId : emitted[k] \in Nat /\ emitted'[k] \in Nat
      /\ \A k \in RunId : shown[k] \in Nat /\ collected[k] \in Nat
  <2>1. emitted \in [RunId -> 0..MaxOut]
    BY DEF TypeOK
  <2>2. shown \in [RunId -> 0..MaxOut] /\ collected \in [RunId -> 0..MaxOut]
    BY DEF TypeOK
  <2>3. \A i \in 0..MaxOut : i \in Nat
    BY SessionAssumption
  <2> QED
    BY <2>1, <2>2, <2>3
<1>4. Named'
  BY DEF Named, page, submission
<1>5. RequestedOnce'
  <2>1. \A k \in RunId : Wanted(toWorker, k) => k < next /\ run[k] = "none"
    BY DEF RequestedOnce, Requests1, Wanted
  <2>2. \A l \in launches : l.run \in RunId
    BY DEF TypeOK
  <2>3. ASSUME NEW l \in launches
        PROVE  /\ l.run < next /\ run'[l.run] = "none" /\ ~ Wanted(toWorker', l.run)
               /\ \A m \in launches : l.run = m.run => l = m
    BY <2>2 DEF RequestedOnce
  <2>4. ASSUME NEW k \in RunId, run'[k] # "none" PROVE k < next
    BY <2>1, <2>4 DEF RequestedOnce
  <2>5. ASSUME NEW k \in RunId, run'[k] = "none" PROVE emitted'[k] = 0
    BY <2>5 DEF RequestedOnce
  <2>6. launches' = launches /\ next' = next
    BY DEF page
  <2> QED
    BY <2>3, <2>4, <2>5, <2>6 DEF RequestedOnce
<1>6. ReportedOnce'
  BY DEF ReportedOnce
<1>7. shown' = shown /\ collected' = collected
  BY DEF page, submission
<1>8. Tallied'
  <2>1. ASSUME NEW k \in RunId
        PROVE  /\ shown[k] + Cardinality(Chunks(toPage', k)) <= emitted'[k]
               /\ collected[k] + Cardinality(Chunks(toPage', k)) <= emitted'[k]
    <3>1. /\ shown[k] + Cardinality(Chunks(toPage, k)) <= emitted[k]
          /\ collected[k] + Cardinality(Chunks(toPage, k)) <= emitted[k]
          /\ emitted[k] + Cardinality(Chunks(toPage', k))
                = emitted'[k] + Cardinality(Chunks(toPage, k))
      BY DEF Tallied
    <3> DEFINE a == Cardinality(Chunks(toPage, k))
               b == Cardinality(Chunks(toPage', k))
               e == emitted[k]
               f == emitted'[k]
               x == shown[k]
               y == collected[k]
    <3>2. a \in Nat /\ b \in Nat /\ e \in Nat /\ f \in Nat /\ x \in Nat /\ y \in Nat
      BY <1>2, <1>3
    <3>3. x + a <= e /\ y + a <= e /\ e + b = f + a
      BY <3>1
    <3> HIDE DEF a, b, e, f, x, y
    <3>4. x + b <= f /\ y + b <= f
      BY ONLY <3>2, <3>3, SMT
    <3> QED
      BY <3>4 DEF b, f, x, y
  <2> QED
    BY <2>1, <1>7 DEF Tallied
<1>9. ASSUME Apart PROVE Apart'
  <2>1. \A k \in RunId : Open(k)' => Open(k)
    <3>1. launches' = launches
      BY DEF page
    <3> QED
      BY <3>1 DEF Open
  <2>2. (\A k \in RunId : Open(k) => Awaited(k))'
    BY <1>9, <2>1 DEF Apart, Awaited, page, submission
  <2>3. cur \in RunId \cup {None} /\ sub \in RunId \cup {None}
    BY DEF TypeOK
  <2>4. ASSUME NEW k \in RunId, NEW n \in Nat, n + Cardinality(Chunks(toPage, k)) = emitted[k]
        PROVE  n + Cardinality(Chunks(toPage', k)) = emitted'[k]
    <3> DEFINE a == Cardinality(Chunks(toPage, k))
               b == Cardinality(Chunks(toPage', k))
               e == emitted[k]
               f == emitted'[k]
    <3>1. e + b = f + a /\ n + a = e
      BY <2>4
    <3>2. a \in Nat /\ b \in Nat /\ e \in Nat /\ f \in Nat
      BY <1>2, <1>3
    <3> HIDE DEF a, b, e, f
    <3>3. n + b = f
      BY ONLY n \in Nat, <3>1, <3>2, SMT
    <3> QED
      BY <3>3 DEF b, f
  <2>5. ShownIsMine'
    <3>1. UNCHANGED <<exec, cur, shown, verdict>>
      BY DEF page
    <3>2. exec = "processing" => shown[cur] + Cardinality(Chunks(toPage', cur)) = emitted'[cur]
      BY <1>3, <1>9, <2>3, <2>4 DEF Apart, ShownIsMine, Named
    <3>3. exec = "complete" /\ verdict.type = "success" =>
            shown[cur] = emitted'[cur] /\ run'[cur] = "done"
      BY <1>9, <2>3 DEF Apart, ShownIsMine, Named
    <3>4. \A k \in RunId \ {cur} : shown[k] > 0 => run'[k] \in Outlived
      BY <1>9 DEF Apart, ShownIsMine
    <3>5. exec = "complete" => verdict.run = cur
      BY <1>9 DEF Apart, ShownIsMine
    <3> QED
      BY <3>1, <3>2, <3>3, <3>4, <3>5 DEF ShownIsMine
  <2>6. CollectedIsMine'
    <3>1. UNCHANGED <<submit, sub, collected, subverdict>>
      BY DEF submission
    <3>2. submit = "proxied" => collected[sub] + Cardinality(Chunks(toPage', sub)) = emitted'[sub]
      BY <1>3, <1>9, <2>3, <2>4 DEF Apart, CollectedIsMine, Named
    <3>3. subverdict # None /\ subverdict.type = "success" =>
            collected[sub] = emitted'[sub] /\ run'[sub] = "done"
      BY <1>9, <2>3 DEF Apart, CollectedIsMine, Named
    <3>4. /\ subverdict # None => subverdict.run = sub
          /\ submit = "preparing" => \A k \in RunId : collected[k] = 0
      BY <1>9 DEF Apart, CollectedIsMine
    <3>5. \A k \in RunId \ {sub} : collected[k] > 0 => run'[k] \in Outlived
      BY <1>9 DEF Apart, CollectedIsMine
    <3> QED
      BY <3>1, <3>2, <3>3, <3>4, <3>5 DEF CollectedIsMine
  <2>7. (~ (exec = "processing" /\ Submitting))'
    BY <1>9 DEF Apart, Submitting, page, submission
  <2> QED
    BY <2>2, <2>5, <2>6, <2>7 DEF Apart
<1>10. (overlap \/ Apart)'
  BY <1>9 DEF history
<1> QED
  BY <1>1, <1>4, <1>5, <1>6, <1>8, <1>10

\* A report is put at the end.
LEMMA MessageAtEnd ==
  ASSUME toPage \in Seq(ToPage), NEW k \in RunId, NEW type \in {"stdout"} \cup Final
  PROVE  /\ [type |-> type, run |-> k] \in ToPage
         /\ toPage \o Message(k, type) = Append(toPage, [type |-> type, run |-> k])
<1>1. [type |-> type, run |-> k] \in ToPage
  BY DEF ToPage
<1> QED
  BY <1>1, AppendIsConcat DEF Message

\* A phase moves on and says nothing.
LEMMA QuietXInv ==
  ASSUME XInv, NEW k \in RunId, NEW p \in Phase, Away, UNCHANGED <<toPage, emitted>>,
         pipe' = pipe \/ pipe' = [pipe EXCEPT ![k] = "jammed"],
         run' = [run EXCEPT ![k] = p],
         p # "none", run[k] \notin {"none", "done"},
         p \in Alive => run[k] \in Alive,
         run[k] \in Outlived => p \in Outlived,
         run[k] \in Writing => p \in Writing
  PROVE  XInv'
<1>1. TypeOK
  BY DEF XInv
<1>3. /\ run \in [RunId -> Phase] /\ run' \in [RunId -> Phase] /\ run'[k] = p
      /\ \A l \in RunId \ {k} : run'[l] = run[l]
  BY <1>1 DEF TypeOK
<1>4. UNCHANGED <<page, submission, next, history, toWorker, stop, inp, broken>>
  BY DEF Away
<1>5. /\ toWorker' \in Seq(ToWorker) /\ toPage' \in Seq(ToPage)
      /\ stop' \in RunId \cup {None} /\ inp' \in RunId \cup {None}
      /\ pipe' \in [RunId -> {"none", "open", "closed", "jammed"}] /\ broken' \in BOOLEAN
      /\ emitted' \in [RunId -> 0..MaxOut]
  BY <1>1, <1>4 DEF TypeOK
<1>6. inp' # None => run'[inp'] # "none" /\ pipe'[inp'] # "none"
  BY <1>1, <1>3, <1>4 DEF TypeOK
<1>7. Requests1(toWorker', run', next)
  <2>1. \A i \in 1..Len(toWorker) : toWorker[i] \in ToWorker
    BY <1>1 DEF TypeOK
  <2>2. \A i \in 1..Len(toWorker) : toWorker[i].type = "run" => toWorker[i].run \in RunId
    BY <2>1, QueueRuns
  <2>3. Requests1(toWorker, run, next)
    BY DEF XInv, RequestedOnce
  <2> QED
    BY <1>3, <1>4, <2>2, <2>3 DEF Requests1
<1>8. Reports1(toPage', run')
  <2>1. Reports1(toPage, run) /\ toPage \in Seq(ToPage)
    BY <1>1 DEF XInv, ReportedOnce, TypeOK
  <2>2. \A l \in RunId : run[l] # "none" =>
            /\ run'[l] # "none"
            /\ run'[l] \in Alive => run[l] \in Alive
            /\ run[l] = "done" => run'[l] = "done"
            /\ run[l] \in Writing => run'[l] \in Writing
    BY <1>3
  <2> QED
    BY <2>1, <2>2, ReportsStay
<1>9. ASSUME NEW l \in RunId
      PROVE  /\ run'[l] # "none" => run[l] # "none" \/ Wanted(toWorker, l)
             /\ run'[l] = "none" => run[l] = "none" /\ emitted'[l] = emitted[l]
             /\ run[l] = "done" => run'[l] = "done" /\ emitted'[l] = emitted[l]
             /\ run[l] \in Outlived => run'[l] \in Outlived
             /\ emitted[l] + Cardinality(Chunks(toPage', l))
                  = emitted'[l] + Cardinality(Chunks(toPage, l))
             /\ Ending(toPage', run', l) => Open(l)
  <2>1. Ending(toPage', run', l) => Ending(toPage, run, l)
    BY <1>3 DEF Ending
  <2> QED
    BY <1>3, <2>1 DEF Open
<1> QED
  BY <1>3, <1>4, <1>5, <1>6, <1>7, <1>8, <1>9, CoordinatorXInv

\* A phase ends with a message, or the program writes one.
LEMMA ReportXInv ==
  ASSUME XInv, NEW k \in RunId, NEW type \in {"stdout"} \cup Final, Elsewhere,
         toPage' = toPage \o Message(k, type),
         \/ /\ type \in Final /\ run[k] \in Alive
            /\ run' = [run EXCEPT ![k] = "done"] /\ emitted' = emitted
         \/ /\ type = "stdout" /\ run[k] \in {"running", "orphan"} /\ run' = run
            /\ emitted[k] < MaxOut /\ emitted' = [emitted EXCEPT ![k] = @ + 1]
  PROVE  XInv'
<1>1. TypeOK
  BY DEF XInv
<1>2. "none" \notin Alive \cup Outlived /\ Alive \cap Outlived = {} /\ "stdout" \notin Final
      /\ "done" \notin Alive \cup Outlived /\ {"running"} \subseteq Alive /\ "orphan" \in Outlived
      /\ {"running", "orphan"} \subseteq Writing
  BY DEF Alive, Outlived, Writing, Final
<1>3. /\ run \in [RunId -> Phase] /\ run' \in [RunId -> Phase]
      /\ \A l \in RunId \ {k} : run'[l] = run[l]
      /\ type \in Final => run'[k] = "done"
      /\ type = "stdout" => run'[k] = run[k]
  BY <1>1, <1>2, Ended DEF TypeOK
<1>4. UNCHANGED <<page, submission, next, history, toWorker, stop, inp, pipe, broken>>
  BY DEF Elsewhere, Away
<1> DEFINE m == [type |-> type, run |-> k]
<1>5. m \in ToPage /\ toPage \in Seq(ToPage) /\ toPage' = Append(toPage, m)
      /\ m.type = type /\ m.run = k
  BY <1>1, MessageAtEnd DEF TypeOK
<1> HIDE DEF m
<1>6. toPage' \in Seq(ToPage) /\ Reports1(toPage', run')
  <2>1. Reports1(toPage, run)
    BY DEF XInv, ReportedOnce
  <2>2. run[m.run] \in Alive \cup {"orphan"}
    BY <1>2, <1>5
  <2>3. m.type \in Final => run[m.run] \in Alive /\ run'[m.run] \in {"done", "orphan", "gone"}
    BY <1>2, <1>3, <1>5
  <2>4. m.type = "success" => run'[m.run] = "done"
    BY <1>3, <1>5 DEF Final
  <2>5. m.type = "stdout" => run'[m.run] = run[m.run] /\ run[m.run] \in Writing
    BY <1>2, <1>3, <1>5
  <2>6. \A l \in RunId \ {m.run} : run'[l] = run[l]
    BY <1>3, <1>5
  <2> QED
    BY <1>5, <2>1, <2>2, <2>3, <2>4, <2>5, <2>6, ReportAppend
<1>7. /\ emitted \in [RunId -> 0..MaxOut] /\ emitted' \in [RunId -> 0..MaxOut]
      /\ \A l \in RunId : emitted'[l] = emitted[l] + IF type = "stdout" /\ k = l THEN 1 ELSE 0
  <2>1. emitted \in [RunId -> 0..MaxOut]
    BY <1>1 DEF TypeOK
  <2>2. \A i \in 0..MaxOut : i \in Nat /\ i + 0 = i /\ (i < MaxOut => i + 1 \in 0..MaxOut)
    BY SessionAssumption
  <2>3. CASE type = "stdout"
    <3>1. emitted' = [emitted EXCEPT ![k] = @ + 1] /\ emitted[k] + 1 \in 0..MaxOut
      BY <2>1, <2>2, <2>3, <1>2
    <3> QED
      BY <2>1, <2>2, <2>3, <3>1
  <2>4. CASE type # "stdout"
    BY <2>1, <2>2, <2>4
  <2> QED
    BY <2>1, <2>3, <2>4
<1>8. /\ toWorker' \in Seq(ToWorker)
      /\ stop' \in RunId \cup {None} /\ inp' \in RunId \cup {None}
      /\ pipe' \in [RunId -> {"none", "open", "closed", "jammed"}] /\ broken' \in BOOLEAN
  BY <1>1, <1>4 DEF TypeOK
<1>9. \A l \in RunId : run'[l] = "none" <=> run[l] = "none"
  BY <1>2, <1>3
<1>10. inp' # None => run'[inp'] # "none" /\ pipe'[inp'] # "none"
  BY <1>1, <1>4, <1>9 DEF TypeOK
<1>11. Requests1(toWorker', run', next)
  <2>1. \A i \in 1..Len(toWorker) : toWorker[i] \in ToWorker
    BY <1>1 DEF TypeOK
  <2>2. \A i \in 1..Len(toWorker) : toWorker[i].type = "run" => toWorker[i].run \in RunId
    BY <2>1, QueueRuns
  <2>3. Requests1(toWorker, run, next)
    BY DEF XInv, RequestedOnce
  <2> QED
    BY <1>4, <1>9, <2>2, <2>3 DEF Requests1
<1>12. ASSUME NEW l \in RunId
      PROVE  /\ run'[l] # "none" => run[l] # "none" \/ Wanted(toWorker, l)
             /\ run'[l] = "none" => run[l] = "none" /\ emitted'[l] = emitted[l]
             /\ run[l] = "done" => run'[l] = "done" /\ emitted'[l] = emitted[l]
             /\ run[l] \in Outlived => run'[l] \in Outlived
             /\ emitted[l] + Cardinality(Chunks(toPage', l))
                  = emitted'[l] + Cardinality(Chunks(toPage, l))
             /\ Ending(toPage', run', l) => Open(l)
  <2>1. emitted[l] \in Nat
    BY <1>7, SessionAssumption
  <2>2. run[l] \in {"none", "done"} => emitted'[l] = emitted[l]
    BY <1>2, <1>7, <2>1
  <2>3. emitted[l] + Cardinality(Chunks(toPage', l))
                  = emitted'[l] + Cardinality(Chunks(toPage, l))
    <3> DEFINE a == Cardinality(Chunks(toPage, l))
               b == Cardinality(Chunks(toPage', l))
               c == IF type = "stdout" /\ k = l THEN 1 ELSE 0
               e == emitted[l]
               f == emitted'[l]
    <3>1. a \in Nat /\ b = a + c
      BY <1>5, ChunksFinite, ChunksAppend
    <3>2. e \in Nat /\ f = e + c
      BY <1>7, <2>1
    <3>3. c \in Nat
      OBVIOUS
    <3> HIDE DEF a, b, c, e, f
    <3>4. e + b = f + a
      BY ONLY <3>1, <3>2, <3>3, SMT
    <3> QED
      BY <3>4 DEF a, b, e, f
  <2>4. Ending(toPage', run', l) => Ending(toPage, run, l)
    <3>1. Reported(toPage', l) => Reported(toPage, l) \/ (type \in Final /\ k = l)
      BY <1>5, ReportedAppend
    <3>2. run'[l] \in Alive => run[l] \in Alive
      BY <1>2, <1>3
    <3> QED
      BY <3>1, <3>2, <1>2 DEF Ending
  <2> QED
    BY <1>2, <1>3, <1>9, <2>2, <2>3, <2>4 DEF Open
<1> QED
  BY <1>3, <1>4, <1>6, <1>7, <1>8, <1>10, <1>11, <1>12, CoordinatorXInv

\* The phases of lang::run.
LEMMA PhaseXInv ==
  ASSUME XInv, NEW k \in RunId,
         Fetched(k) \/ Compiled(k) \/ Output(k) \/ Exited(k) \/ OrphanEnds(k)
           \/ WriteToInput(k)
  PROVE  XInv'
<1>1. /\ {"fetching", "compiling", "running", "frozen"} \subseteq Alive /\ Alive \subseteq Phase
      /\ {"orphan", "gone"} \subseteq Outlived /\ Outlived \subseteq Phase
      /\ Writing = {"running", "frozen", "orphan", "gone"} /\ Outlived = {"orphan", "gone"}
      /\ "panicked" \in Phase \ Alive
      /\ "error" \in Final
  BY DEF Alive, Phase, Outlived, Writing, Final
<1>2. ASSUME NEW type \in Final, End(k, type), Elsewhere, run[k] \in Alive PROVE XInv'
  BY <1>2, ReportXInv DEF End
<1>3. CASE Fetched(k)
  <2>1. CASE End(k, "error")
    BY <1>1, <1>2, <1>3, <2>1 DEF Fetched
  <2>2. CASE ~ End(k, "error")
    <3>1. PICK p \in {"compiling", "running", "panicked"} :
            /\ run' = [run EXCEPT ![k] = p] /\ UNCHANGED <<toPage, emitted>>
            /\ Away /\ pipe' = pipe /\ run[k] \in {"fetching", "compiling"}
      BY <1>3, <2>2 DEF Fetched, Panics, Elsewhere
    <3> QED
      BY <1>1, <3>1, QuietXInv
  <2> QED
    BY <2>1, <2>2
<1>4. CASE Compiled(k)
  <2>1. CASE End(k, "error")
    BY <1>1, <1>2, <1>4, <2>1 DEF Compiled
  <2>2. CASE ~ End(k, "error")
    <3>1. PICK p \in {"compiling", "running", "panicked"} :
            /\ run' = [run EXCEPT ![k] = p] /\ UNCHANGED <<toPage, emitted>>
            /\ Away /\ pipe' = pipe /\ run[k] \in {"fetching", "compiling"}
      BY <1>4, <2>2 DEF Compiled, Panics, Elsewhere
    <3> QED
      BY <1>1, <3>1, QuietXInv
  <2> QED
    BY <2>1, <2>2
<1>5. CASE Output(k)
  BY <1>5, ReportXInv DEF Output
<1>6. CASE Exited(k)
  BY <1>1, <1>2, <1>6 DEF Exited
<1>7. CASE OrphanEnds(k)
  <2>1. /\ run[k] = "orphan" /\ run' = [run EXCEPT ![k] = "gone"]
        /\ UNCHANGED <<toPage, emitted>> /\ Away /\ pipe' = pipe
    BY <1>7 DEF OrphanEnds, Elsewhere
  <2>2. "gone" \in Phase /\ "gone" \notin Alive /\ "gone" \in Writing
    BY Ended DEF Writing, Outlived
  <2> QED
    BY <1>1, <2>1, <2>2, QuietXInv
<1>8. CASE WriteToInput(k)
  <2>1. /\ \/ run[k] = "running" /\ run' = [run EXCEPT ![k] = "frozen"]
           \/ run[k] = "orphan" /\ run' = [run EXCEPT ![k] = "gone"]
        /\ pipe' = [pipe EXCEPT ![k] = "jammed"]
        /\ UNCHANGED <<toPage, emitted>> /\ Away
    BY <1>8 DEF WriteToInput
  <2>2. {"gone", "frozen"} \subseteq Phase /\ "gone" \notin Alive /\ "running" \notin Outlived
    BY <1>1, Ended DEF Outlived
  <2> QED
    BY <1>1, <2>1, <2>2, QuietXInv
<1> QED
  BY <1>3, <1>4, <1>5, <1>6, <1>7, <1>8

\* The stored stop channel resolves: what it stopped is reported, once.
LEMMA CancelledReport ==
  ASSUME IInv, XInv, NEW r \in Cancelled
  PROVE  LET t == toPage \o CancelReport IN
         /\ t \in Seq(ToPage) /\ Reports1(t, r)
         /\ \A k \in RunId :
              /\ Cardinality(Chunks(t, k)) = Cardinality(Chunks(toPage, k))
              /\ Reported(t, k) => Ending(toPage, run, k)
              /\ r[k] = "none" <=> run[k] = "none"
              /\ run[k] = "done" => r[k] = "done"
              /\ run[k] \in Outlived => r[k] \in Outlived
<1> DEFINE t == toPage \o CancelReport
<1>1. toPage \in Seq(ToPage) /\ run \in [RunId -> Phase] /\ stop \in RunId \cup {None}
  BY DEF XInv, TypeOK
<1>2. Reports1(toPage, run)
  BY DEF XInv, ReportedOnce
<1>3. CASE ~ Cancellable
  <2>1. r = run /\ t = toPage
    BY <1>1, <1>3 DEF Cancelled, CancelReport
  <2> HIDE DEF t
  <2> QED
    BY <1>1, <1>2, <2>1 DEF Ending, t
<1>4. CASE Cancellable
  <2>1. PICK p \in {"done", "orphan", "gone"} :
          r = [run EXCEPT ![stop] = p]
    BY <1>4 DEF Cancelled
  <2>2. stop \in RunId /\ run[stop] \in Alive
    BY <1>1, <1>4 DEF Cancellable
  <2> DEFINE m == [type |-> "error", run |-> stop]
  <2>3. "error" \in Final
    BY DEF Final
  <2>4. m \in ToPage /\ t = Append(toPage, m)
    BY <1>1, <1>4, <2>2, <2>3, MessageAtEnd DEF CancelReport
  <2>5. m.type = "error" /\ m.run = stop
    OBVIOUS
  <2> HIDE DEF m, t
  <2>6. r[stop] = p /\ \A l \in RunId \ {stop} : r[l] = run[l]
    BY <1>1, <2>1, <2>2
  <2>7. "done" \notin Alive /\ "none" \notin Alive /\ "stdout" # "error" /\ "success" # "error"
        /\ Alive \cap Outlived = {}
    BY DEF Alive, Outlived
  <2>8. t \in Seq(ToPage) /\ Reports1(t, r)
    <3>1. \A l \in RunId \ {m.run} : r[l] = run[l]
      BY <2>5, <2>6
    <3>2. /\ run[m.run] \in Alive \cup {"orphan"}
          /\ m.type \in Final => run[m.run] \in Alive /\ r[m.run] \in {"done", "orphan", "gone"}
          /\ m.type # "success" /\ m.type # "stdout"
      BY <2>2, <2>5, <2>6
    <3> QED
      BY <1>1, <1>2, <2>4, <3>1, <3>2, ReportAppend
  <2>9. ASSUME NEW k \in RunId
        PROVE  /\ Cardinality(Chunks(t, k)) = Cardinality(Chunks(toPage, k))
               /\ Reported(t, k) => Ending(toPage, run, k)
               /\ r[k] = "none" <=> run[k] = "none"
               /\ run[k] = "done" => r[k] = "done"
               /\ run[k] \in Outlived => r[k] \in Outlived
    <3>1. Cardinality(Chunks(toPage, k)) \in Nat
      BY <1>1, ChunksFinite
    <3>2. Cardinality(Chunks(t, k)) = Cardinality(Chunks(toPage, k)) + 0
      BY <1>1, <2>4, <2>5, <2>7, ChunksAppend
    <3>3. Reported(t, k) => Reported(toPage, k) \/ k = stop
      BY <1>1, <2>4, <2>5, ReportedAppend
    <3> QED
      BY <2>2, <2>6, <2>7, <3>1, <3>2, <3>3 DEF Ending
  <2> QED
    BY <2>8, <2>9 DEF t
<1> QED
  BY <1>3, <1>4

\* A request of the page.
LEMMA ReceiveWorkerXInv == IInv /\ XInv /\ ReceiveWorker => XInv'
<1> SUFFICES ASSUME IInv, XInv, ReceiveWorker PROVE XInv'
  OBVIOUS
<1> DEFINE m == Head(toWorker)
<1>1. TypeOK
  BY DEF XInv
<1>2. /\ toWorker \in Seq(ToWorker) /\ toPage \in Seq(ToPage)
      /\ stop \in RunId \cup {None} /\ inp \in RunId \cup {None}
      /\ pipe \in [RunId -> {"none", "open", "closed", "jammed"}]
      /\ run \in [RunId -> Phase] /\ broken \in BOOLEAN
      /\ emitted \in [RunId -> 0..MaxOut]
      /\ inp # None => run[inp] # "none" /\ pipe[inp] # "none"
  BY <1>1 DEF TypeOK
<1>3. /\ toWorker # <<>> /\ toWorker' = Tail(toWorker)
      /\ UNCHANGED <<page, submission, next, history>> /\ emitted' = emitted
      /\ \/ m.type = "run" /\ HandleRun(m.run, m.batch)
         \/ m.type = "stdin" /\ HandleStdin
         \/ m.type = "cancel" /\ HandleCancel
  BY DEF ReceiveWorker
<1>4. /\ Tail(toWorker) \in Seq(ToWorker) /\ m \in ToWorker
      /\ Len(toWorker) \in Nat \ {0} /\ m = toWorker[1]
  BY <1>2, <1>3, TailAt
<1>5. Requests1(toWorker, run, next)
  BY DEF XInv, RequestedOnce
<1>6. m.type = "run" => m.run \in RunId /\ run[m.run] = "none" /\ Wanted(toWorker, m.run)
  BY <1>4, <1>5, QueueRuns DEF Requests1, Wanted
<1>7. Reports1(toPage, run)
  BY DEF XInv, ReportedOnce
<1>8. emitted' \in [RunId -> 0..MaxOut]
  BY <1>2, <1>3
<1> HIDE DEF m
<1>9. ASSUME NEW j \in RunId, m.type = "run", m.run = j, HandleRun(j, m.batch)
      PROVE  XInv'
  <2>1. PICK r \in Cancelled :
          run' = [r EXCEPT ![j] = IF broken THEN "lost" ELSE "fetching"]
    BY <1>9 DEF HandleRun
  <2> DEFINE t == toPage \o CancelReport
  <2>2. /\ t \in Seq(ToPage) /\ Reports1(t, r)
        /\ \A k \in RunId :
              /\ Cardinality(Chunks(t, k)) = Cardinality(Chunks(toPage, k))
              /\ Reported(t, k) => Ending(toPage, run, k)
              /\ r[k] = "none" <=> run[k] = "none"
              /\ run[k] = "done" => r[k] = "done"
              /\ run[k] \in Outlived => r[k] \in Outlived
    BY CancelledReport
  <2>3. r \in [RunId -> Phase] /\ \A k \in RunId : r[k] \notin Alive
    BY CancelledEndsAll
  <2>4. t = toPage'
    BY <1>9 DEF HandleRun
  <2> HIDE DEF t
  <2>5. /\ run' \in [RunId -> Phase] /\ run'[j] \in {"lost", "fetching"}
        /\ \A k \in RunId \ {j} : run'[k] = r[k]
    BY <2>1, <2>3, Ended
  <2>6. /\ stop' = j /\ inp' \in {inp, j} /\ broken' = broken
        /\ pipe' \in [RunId -> {"none", "open", "closed", "jammed"}] /\ pipe'[j] # "none"
        /\ \A k \in RunId \ {j} : pipe'[k] = pipe[k]
    BY <1>2, <1>9 DEF HandleRun
  <2>7. run[j] = "none" /\ r[j] = "none" /\ Wanted(toWorker, j)
    BY <1>6, <1>9, <2>2
  <2>8. inp' # None => run'[inp'] # "none" /\ pipe'[inp'] # "none"
    BY <1>2, <2>2, <2>5, <2>6, <2>7
  <2>9. Reports1(toPage', run')
    <3>1. \A k \in RunId : r[k] # "none" => run'[k] = r[k]
      BY <2>5, <2>7
    <3> QED
      BY <2>2, <2>4, <3>1, ReportsStay
  <2>10. /\ Requests1(toWorker', run', next)
         /\ \A k : Wanted(toWorker', k) => Wanted(toWorker, k)
    <3>1. \A k \in RunId :
           run'[k] # "none" => run[k] # "none" \/ (Head(toWorker).type = "run" /\ Head(toWorker).run = k)
      BY <1>9, <2>2, <2>5 DEF m
    <3> QED
      BY <1>2, <1>3, <1>5, <3>1, RequestTail
  <2>11. ASSUME NEW k \in RunId
         PROVE  /\ run'[k] # "none" => run[k] # "none" \/ Wanted(toWorker, k)
                /\ run'[k] = "none" => run[k] = "none" /\ emitted'[k] = emitted[k]
                /\ run[k] = "done" => run'[k] = "done" /\ emitted'[k] = emitted[k]
                /\ run[k] \in Outlived => run'[k] \in Outlived
                /\ emitted[k] + Cardinality(Chunks(toPage', k))
                     = emitted'[k] + Cardinality(Chunks(toPage, k))
                /\ Ending(toPage', run', k) => Open(k)
    <3>1. "none" \notin Outlived
      BY DEF Outlived
    <3>2. Ending(toPage', run', k) => Open(k)
      <4>1. CASE k = j
        BY <2>7, <4>1 DEF Open
      <4>2. CASE k # j
        BY <2>2, <2>3, <2>4, <2>5, <4>2 DEF Open, Ending
      <4> QED
        BY <4>1, <4>2
    <3> QED
      BY <1>3, <2>2, <2>4, <2>5, <2>7, <3>1, <3>2
  <2>12. /\ toWorker' \in Seq(ToWorker) /\ toPage' \in Seq(ToPage)
         /\ stop' \in RunId \cup {None} /\ inp' \in RunId \cup {None} /\ broken' \in BOOLEAN
    BY <1>2, <1>3, <1>4, <2>2, <2>4, <2>6
  <2> QED
    BY <1>3, <1>8, <2>5, <2>6, <2>8, <2>9, <2>10, <2>11, <2>12, CoordinatorXInv
<1>10. CASE m.type = "run" /\ HandleRun(m.run, m.batch)
  BY <1>6, <1>9, <1>10
<1>11. ASSUME m.type # "run", NEW r \in [RunId -> Phase],
              \A k \in RunId : r[k] = "none" <=> run[k] = "none"
       PROVE  /\ Requests1(toWorker', r, next)
              /\ \A k : Wanted(toWorker', k) => Wanted(toWorker, k)
  <2>1. \A k \in RunId :
          r[k] # "none" => run[k] # "none" \/ (Head(toWorker).type = "run" /\ Head(toWorker).run = k)
    BY <1>11
  <2> QED
    BY <1>2, <1>3, <1>5, <2>1, RequestTail
<1>12. CASE m.type = "stdin" /\ HandleStdin
  <2>1. UNCHANGED <<stop, inp, pipe, run, toPage>> /\ broken' \in BOOLEAN
    BY <1>2, <1>12 DEF HandleStdin
  <2>2. \A k \in RunId : Ending(toPage', run', k) => Open(k)
    BY <2>1 DEF Open
  <2>3. /\ Requests1(toWorker', run', next)
        /\ \A k : Wanted(toWorker', k) => Wanted(toWorker, k)
    BY <1>2, <1>11, <1>12, <2>1
  <2>4. /\ toWorker' \in Seq(ToWorker) /\ toPage' \in Seq(ToPage)
        /\ stop' \in RunId \cup {None} /\ inp' \in RunId \cup {None}
        /\ pipe' \in [RunId -> {"none", "open", "closed", "jammed"}]
        /\ run' \in [RunId -> Phase]
        /\ inp' # None => run'[inp'] # "none" /\ pipe'[inp'] # "none"
        /\ Reports1(toPage', run')
    BY <1>2, <1>3, <1>4, <1>7, <2>1
  <2> QED
    BY <1>3, <1>8, <2>1, <2>2, <2>3, <2>4, CoordinatorXInv
<1>13. CASE m.type = "cancel" /\ HandleCancel
  <2> DEFINE t == toPage \o CancelReport
  <2>1. run' \in Cancelled /\ stop' = None /\ t = toPage' /\ broken' \in BOOLEAN
    BY <1>2, <1>13 DEF HandleCancel, CloseInput
  <2>2. /\ t \in Seq(ToPage) /\ Reports1(t, run')
        /\ \A k \in RunId :
              /\ Cardinality(Chunks(t, k)) = Cardinality(Chunks(toPage, k))
              /\ Reported(t, k) => Ending(toPage, run, k)
              /\ run'[k] = "none" <=> run[k] = "none"
              /\ run[k] = "done" => run'[k] = "done"
              /\ run[k] \in Outlived => run'[k] \in Outlived
    BY <2>1, CancelledReport
  <2> HIDE DEF t
  <2>3. run' \in [RunId -> Phase] /\ \A k \in RunId : run'[k] \notin Alive
    BY <2>1, CancelledEndsAll
  <2>4. /\ inp' \in {inp, None} /\ pipe' \in [RunId -> {"none", "open", "closed", "jammed"}]
        /\ inp' = inp => pipe' = pipe
    BY <1>2, <1>13 DEF HandleCancel, CloseInput
  <2>5. inp' # None => run'[inp'] # "none" /\ pipe'[inp'] # "none"
    BY <1>2, <2>2, <2>4
  <2>6. /\ Requests1(toWorker', run', next)
        /\ \A k : Wanted(toWorker', k) => Wanted(toWorker, k)
    BY <1>11, <1>13, <2>2, <2>3
  <2>7. ASSUME NEW k \in RunId
        PROVE  /\ run'[k] # "none" => run[k] # "none" \/ Wanted(toWorker, k)
               /\ run'[k] = "none" => run[k] = "none" /\ emitted'[k] = emitted[k]
               /\ run[k] = "done" => run'[k] = "done" /\ emitted'[k] = emitted[k]
               /\ run[k] \in Outlived => run'[k] \in Outlived
               /\ emitted[k] + Cardinality(Chunks(toPage', k))
                    = emitted'[k] + Cardinality(Chunks(toPage, k))
               /\ Ending(toPage', run', k) => Open(k)
    BY <1>3, <2>1, <2>2, <2>3 DEF Open, Ending
  <2>8. /\ toWorker' \in Seq(ToWorker) /\ toPage' \in Seq(ToPage)
        /\ stop' \in RunId \cup {None} /\ inp' \in RunId \cup {None} /\ broken' \in BOOLEAN
        /\ Reports1(toPage', run')
    BY <1>2, <1>3, <1>4, <2>1, <2>2, <2>4
  <2> QED
    BY <1>3, <1>8, <2>3, <2>4, <2>5, <2>6, <2>7, <2>8, CoordinatorXInv
<1> QED
  BY <1>3, <1>10, <1>12, <1>13

-----------------------------------------------------------------------------
(* Clicks, and the async blocks they start. *)

\* The chunks under way of a run that did not begin.
LEMMA NothingYet ==
  ASSUME XInv, NEW k \in RunId, run[k] = "none"
  PROVE  /\ shown[k] = 0 /\ collected[k] = 0 /\ emitted[k] = 0
         /\ Cardinality(Chunks(toPage, k)) = 0
<1>1. /\ shown \in [RunId -> 0..MaxOut] /\ collected \in [RunId -> 0..MaxOut]
      /\ toPage \in Seq(ToPage)
  BY DEF XInv, TypeOK
<1>2. /\ shown[k] \in Nat /\ collected[k] \in Nat
      /\ Cardinality(Chunks(toPage, k)) \in Nat
  BY <1>1, ChunksFinite, SessionAssumption
<1>3. emitted[k] = 0
  BY DEF XInv, RequestedOnce
<1>4. /\ shown[k] + Cardinality(Chunks(toPage, k)) <= emitted[k]
      /\ collected[k] + Cardinality(Chunks(toPage, k)) <= emitted[k]
  BY DEF XInv, Tallied
<1> DEFINE a == shown[k]
           b == collected[k]
           c == Cardinality(Chunks(toPage, k))
<1>5. a \in Nat /\ b \in Nat /\ c \in Nat /\ a + c <= 0 /\ b + c <= 0
  BY <1>2, <1>3, <1>4
<1> HIDE DEF a, b, c
<1>6. a = 0 /\ b = 0 /\ c = 0
  BY ONLY <1>5, SMT
<1> QED
  BY <1>3, <1>6 DEF a, b, c

\* The next run is new.
LEMMA NextIsNew ==
  ASSUME XInv, next \in RunId
  PROVE  /\ run[next] = "none" /\ ~ Wanted(toWorker, next)
         /\ \A l \in launches : l.run # next
         /\ next + 1 \in 1..(MaxRuns + 1) /\ next \in Nat
         /\ \A k \in RunId : k < next => k < next + 1
<1>1. next \in Nat /\ next + 1 \in 1..(MaxRuns + 1) /\ ~ (next < next)
      /\ \A k \in RunId : k < next => k < next + 1
  BY SessionAssumption DEF RunId
<1>2. run[next] = "none" /\ \A l \in launches : l.run # next
  BY <1>1 DEF XInv, RequestedOnce
<1>3. ~ Wanted(toWorker, next)
  BY <1>1 DEF XInv, RequestedOnce, Requests1, Wanted
<1> QED
  BY <1>1, <1>2, <1>3

\* Zero chunks are as few as possible.
LEMMA Less ==
  ASSUME XInv, NEW k \in RunId
  PROVE  0 + Cardinality(Chunks(toPage, k)) <= emitted[k]
<1>1. /\ shown \in [RunId -> 0..MaxOut] /\ toPage \in Seq(ToPage)
      /\ emitted \in [RunId -> 0..MaxOut]
  BY DEF XInv, TypeOK
<1> DEFINE a == shown[k]
           c == Cardinality(Chunks(toPage, k))
           e == emitted[k]
<1>2. a \in Nat /\ c \in Nat /\ e \in Nat
  BY <1>1, ChunksFinite, SessionAssumption
<1>3. a + c <= e
  BY DEF XInv, Tallied
<1> HIDE DEF a, c, e
<1>4. 0 + c <= e
  BY ONLY <1>2, <1>3, SMT
<1> QED
  BY <1>4 DEF c, e

LEMMA ClickRunXInv == XInv /\ ClickRun => XInv'
<1> SUFFICES ASSUME XInv, ClickRun PROVE XInv'
  OBVIOUS
<1> DEFINE l == [run |-> next, mode |-> mode]
<1>1. /\ exec \in {"ready", "complete"} /\ next \in RunId
      /\ exec' = "processing" /\ stopping' = FALSE /\ cur' = next
      /\ shown' = [k \in RunId |-> 0] /\ verdict' = None
      /\ launches' = launches \cup {l}
      /\ next' = next + 1
      /\ overlap' = (overlap \/ Submitting)
      /\ early' = FALSE
      /\ UNCHANGED <<mode, submission, channels, coordinator>>
  BY DEF ClickRun
<1>2. UNCHANGED <<mode, submit, sub, collected, subverdict, toWorker, toPage, stop, inp, pipe,
                  run, broken, emitted>>
  BY <1>1 DEF submission, channels, coordinator
<1>3. TypeOK
  BY DEF XInv
<1>4. /\ run[next] = "none" /\ ~ Wanted(toWorker, next)
      /\ \A m \in launches : m.run # next
      /\ next + 1 \in 1..(MaxRuns + 1) /\ next \in Nat
      /\ \A k \in RunId : k < next => k < next + 1
  BY <1>1, NextIsNew
<1>5. l \in [run : RunId, mode : Mode] /\ l.run = next
  BY <1>1, <1>3 DEF TypeOK
<1> HIDE DEF l
<1>6. TypeOK'
  <2>1. 0 \in 0..MaxOut
    BY SessionAssumption
  <2>2. shown' \in [RunId -> 0..MaxOut] /\ cur' \in RunId \cup {None} /\ verdict' = None
    BY <1>1, <2>1
  <2>3. launches' \subseteq [run : RunId, mode : Mode]
    BY <1>1, <1>3, <1>5 DEF TypeOK
  <2>4. next' \in 1..(MaxRuns + 1) /\ overlap' \in BOOLEAN /\ early' \in BOOLEAN
        /\ stopping' \in BOOLEAN /\ exec' = "processing"
    BY <1>1, <1>3, <1>4 DEF TypeOK
  <2> QED
    BY <1>2, <1>3, <2>2, <2>3, <2>4 DEF TypeOK
<1>7. Named'
  BY <1>1, <1>2, NoneIsNoRun DEF XInv, Named
<1>8. RequestedOnce'
  <2>1. \A i \in 1..Len(toWorker) : toWorker[i] \in ToWorker
    BY <1>3 DEF TypeOK
  <2>2. \A i \in 1..Len(toWorker) : toWorker[i].type = "run" => toWorker[i].run \in RunId
    BY <2>1, QueueRuns
  <2>3. Requests1(toWorker, run, next + 1)
    BY <1>4, <2>2 DEF XInv, RequestedOnce, Requests1
  <2>4. \A m \in launches : m.run \in RunId
    BY <1>3 DEF TypeOK
  <2>5. ASSUME NEW a \in launches'
        PROVE  /\ a.run < next + 1 /\ run[a.run] = "none" /\ ~ Wanted(toWorker, a.run)
               /\ \A b \in launches' : a.run = b.run => a = b
    <3>1. CASE a \in launches
      BY <1>1, <1>4, <1>5, <2>4, <3>1 DEF XInv, RequestedOnce
    <3>2. CASE a = l
      BY <1>1, <1>4, <1>5, <3>2
    <3> QED
      BY <3>1, <3>2, <1>1
  <2>6. \A k \in RunId : run[k] # "none" => k < next + 1
    BY <1>4 DEF XInv, RequestedOnce
  <2>7. \A k \in RunId : run[k] = "none" => emitted[k] = 0
    BY DEF XInv, RequestedOnce
  <2> QED
    BY <1>1, <1>2, <2>3, <2>5, <2>6, <2>7 DEF RequestedOnce
<1>9. ReportedOnce'
  BY <1>2 DEF XInv, ReportedOnce
<1>10. Tallied'
  <2>1. \A k \in RunId : shown'[k] = 0
    BY <1>1
  <2>2. \A k \in RunId : shown'[k] + Cardinality(Chunks(toPage, k)) <= emitted[k]
    BY <2>1, Less
  <2> QED
    BY <1>2, <2>2 DEF XInv, Tallied
<1>11. ASSUME ~ overlap' PROVE Apart'
  <2>1. submit = "ready" /\ Apart /\ ~ Submitting
    BY <1>1, <1>3, <1>11 DEF Submitting, TypeOK, XInv
  <2>2. \A k \in RunId : ~ Open(k)
    BY <1>1, <2>1 DEF Apart, Awaited
  <2>3. ASSUME NEW k \in RunId, Open(k)' PROVE k = next
    BY <1>1, <1>2, <1>5, <2>2, <2>3 DEF Open
  <2>4. (\A k \in RunId : Open(k) => Awaited(k))'
    BY <1>1, <2>3 DEF Awaited
  <2>5. ShownIsMine'
    <3>1. Cardinality(Chunks(toPage, next)) = 0 /\ emitted[next] = 0
      BY <1>1, <1>4, NothingYet
    <3>2. shown'[next] = 0 /\ 0 + 0 = 0 /\ ~ (0 > 0) /\ \A k \in RunId : shown'[k] = 0
      BY <1>1
    <3>3. shown'[cur'] + Cardinality(Chunks(toPage', cur')) = emitted'[cur']
      BY <1>1, <1>2, <3>1, <3>2
    <3>4. \A k \in RunId : ~ (shown'[k] > 0)
      BY <3>2
    <3> QED
      BY <1>1, <3>3, <3>4 DEF ShownIsMine
  <2>6. CollectedIsMine'
    BY <1>2, <2>1 DEF Apart, CollectedIsMine
  <2> QED
    BY <1>2, <2>1, <2>4, <2>5, <2>6 DEF Apart, Submitting
<1> QED
  BY <1>6, <1>7, <1>8, <1>9, <1>10, <1>11 DEF XInv

\* The page asks, for at most one run that it was about to ask for or that is new;
\* everything else stays.
LEMMA AskXInv ==
  ASSUME XInv, NEW p \in Nat, next <= p, p \in 1..(MaxRuns + 1), next' = p,
         UNCHANGED <<exec, cur, shown, verdict, mode, collected, toPage, coordinator, overlap>>,
         launches' \subseteq launches, stopping' \in BOOLEAN, early' \in BOOLEAN,
         submit' \in {"ready", "preparing", "proxied", "uploading"},
         sub' \in RunId \cup {None}, subverdict' \in ToPage \cup {None},
         toWorker' \in Seq(ToWorker), Requests1(toWorker', run, p),
         \A l \in launches' : ~ Wanted(toWorker', l.run),
         Named', ~ overlap => Apart'
  PROVE  XInv'
<1>1. TypeOK
  BY DEF XInv
<1>2. UNCHANGED <<stop, inp, pipe, run, broken, emitted>>
  BY DEF coordinator
<1>3. launches' \subseteq [run : RunId, mode : Mode]
  BY <1>1 DEF TypeOK
<1>4. TypeOK'
  BY <1>1, <1>2, <1>3 DEF TypeOK
<1>5. RequestedOnce'
  <2>1. \A k \in RunId : k < next => k < p
    <3>1. next \in Nat
      BY <1>1 DEF TypeOK
    <3> QED
      BY ONLY <3>1, p \in Nat, next <= p, SMT DEF RunId
  <2>2. \A l \in launches' : l.run \in RunId
    BY <1>3
  <2>4. /\ \A l \in launches' :
             /\ l.run < p /\ run[l.run] = "none" /\ ~ Wanted(toWorker', l.run)
             /\ \A m \in launches' : l.run = m.run => l = m
        /\ \A k \in RunId : run[k] # "none" => k < p
        /\ \A k \in RunId : run[k] = "none" => emitted[k] = 0
    <3>1. \A k \in RunId : run[k] # "none" => k < p
      BY <2>1 DEF XInv, RequestedOnce
    <3>2. \A k \in RunId : run[k] = "none" => emitted[k] = 0
      BY DEF XInv, RequestedOnce
    <3>3. \A l \in launches' :
             /\ l.run < p /\ run[l.run] = "none" /\ ~ Wanted(toWorker', l.run)
             /\ \A m \in launches' : l.run = m.run => l = m
      BY <2>1, <2>2 DEF XInv, RequestedOnce
    <3> QED
      BY <3>1, <3>2, <3>3
  <2> QED
    BY <1>2, <2>4 DEF RequestedOnce
<1>6. ReportedOnce'
  BY <1>2 DEF XInv, ReportedOnce
<1>7. Tallied'
  BY <1>2 DEF XInv, Tallied
<1> QED
  BY <1>4, <1>5, <1>6, <1>7 DEF XInv

\* Asking without a change of what the page shows or waits for.
LEMMA SameApart ==
  ASSUME Apart, UNCHANGED <<exec, cur, shown, verdict, submit, sub, collected, subverdict, toPage,
                            run, emitted>>,
         \A k \in RunId : Open(k)' => Open(k)
  PROVE  Apart'
<1>1. (\A k \in RunId : Open(k) => Awaited(k))'
  BY DEF Apart, Awaited
<1>2. (~ (exec = "processing" /\ Submitting))'
  BY DEF Apart, Submitting
<1>3. ShownIsMine' /\ CollectedIsMine'
  BY DEF Apart, ShownIsMine, CollectedIsMine
<1> QED
  BY <1>1, <1>2, <1>3 DEF Apart

\* Two requests are one after the other.
LEMMA AppendTwo ==
  ASSUME NEW S, NEW q \in Seq(S), NEW x \in S, NEW y \in S
  PROVE  q \o <<x, y>> = Append(Append(q, x), y)
<1>1. <<x>> \in Seq(S) /\ <<y>> \in Seq(S) /\ q \o <<x>> \in Seq(S)
  OBVIOUS
<1>2. Append(q, x) = q \o <<x>>
  BY AppendIsConcat
<1>3. Append(q \o <<x>>, y) = (q \o <<x>>) \o <<y>>
  BY <1>1, AppendIsConcat
<1>4. (q \o <<x>>) \o <<y>> = q \o (<<x>> \o <<y>>)
  BY <1>1, ConcatAssociative
<1>5. <<x>> \o <<y>> = <<x, y>>
  <2>. DEFINE s == <<x>> \o <<y>>
  <2>1. s \in Seq(S) /\ <<x, y>> \in Seq(S)
    BY <1>1
  <2>2. Len(s) = 2 /\ s[1] = x /\ s[2] = y
    BY <1>1
  <2>. HIDE DEF s
  <2>3. \A i \in 1..Len(s) : s[i] = <<x, y>>[i]
    BY <2>2
  <2>4. s = <<x, y>>
    BY <2>1, <2>2, <2>3, SeqEqual
  <2> QED
    BY <2>4 DEF s
<1> QED
  BY <1>2, <1>3, <1>4, <1>5

LEMMA SendRunXInv == XInv /\ SendRun => XInv'
<1> SUFFICES ASSUME XInv, SendRun PROVE XInv'
  OBVIOUS
<1>1. TypeOK
  BY DEF XInv
<1>2. PICK l \in launches :
        LET go == [type |-> "run", run |-> l.run, batch |-> l.mode = "batch"]
            text == [type |-> "stdin"]
        IN  /\ launches' = launches \ {l}
            /\ \/ toWorker' = Append(toWorker, go)
               \/ toWorker' = toWorker \o <<go, text>>
            /\ UNCHANGED <<exec, stopping, cur, shown, verdict, mode, submission, next, toPage,
                           coordinator, history>>
  BY DEF SendRun
<1> DEFINE go == [type |-> "run", run |-> l.run, batch |-> l.mode = "batch"]
           text == [type |-> "stdin"]
<1>3. l.run \in RunId /\ (l.mode = "batch") \in BOOLEAN
  BY <1>1 DEF TypeOK
<1>4. go \in ToWorker /\ text \in ToWorker
  BY <1>3, Requests
<1>5. go.type = "run" /\ go.run = l.run /\ text.type # "run"
  OBVIOUS
<1>6. \/ toWorker' = Append(toWorker, go)
      \/ toWorker' = toWorker \o <<go, text>>
  BY <1>2
<1>7. launches' = launches \ {l}
  BY <1>2
<1>8. UNCHANGED <<exec, stopping, cur, shown, verdict, mode, submission, next, toPage,
                  coordinator, history>>
  BY <1>2
<1> HIDE DEF go, text
<1>9. toWorker \in Seq(ToWorker) /\ next \in Nat /\ next \in 1..(MaxRuns + 1) /\ next <= next
  BY <1>1 DEF TypeOK
<1>10. Requests1(toWorker, run, next)
  BY DEF XInv, RequestedOnce
<1>11. l.run < next /\ run[l.run] = "none" /\ ~ Wanted(toWorker, l.run)
  BY DEF XInv, RequestedOnce
<1>12. /\ Append(toWorker, go) \in Seq(ToWorker) /\ Requests1(Append(toWorker, go), run, next)
       /\ \A k : Wanted(Append(toWorker, go), k) <=> Wanted(toWorker, k) \/ l.run = k
  BY <1>4, <1>5, <1>9, <1>10, <1>11, RequestAppend
<1>13. /\ toWorker' \in Seq(ToWorker) /\ Requests1(toWorker', run, next)
       /\ \A k : Wanted(toWorker', k) <=> Wanted(toWorker, k) \/ l.run = k
  <2>1. CASE toWorker' = Append(toWorker, go)
    BY <1>12, <2>1
  <2>2. CASE toWorker' = toWorker \o <<go, text>>
    <3>1. toWorker' = Append(Append(toWorker, go), text)
      BY <1>4, <1>9, <2>2, AppendTwo
    <3>2. /\ Append(Append(toWorker, go), text) \in Seq(ToWorker)
          /\ Requests1(Append(Append(toWorker, go), text), run, next)
          /\ \A k : Wanted(Append(Append(toWorker, go), text), k)
                      <=> Wanted(Append(toWorker, go), k)
      BY <1>4, <1>5, <1>9, <1>12, RequestAppend
    <3> QED
      BY <1>12, <3>1, <3>2
  <2> QED
    BY <1>6, <2>1, <2>2
<1>14. \A a \in launches' : ~ Wanted(toWorker', a.run)
  BY <1>7, <1>13 DEF XInv, RequestedOnce
<1>15. UNCHANGED <<submit, sub, collected, subverdict, run, emitted, overlap, early>>
  BY <1>8 DEF submission, coordinator, history
<1>16. Named'
  BY <1>8, <1>15 DEF XInv, Named
<1>17. ASSUME ~ overlap PROVE Apart'
  <2>1. Apart
    BY <1>17 DEF XInv
  <2>2. \A k \in RunId : Open(k)' => Open(k)
    BY <1>7, <1>8, <1>13, <1>15 DEF Open
  <2> QED
    BY <1>8, <1>15, <2>1, <2>2, SameApart
<1>18. launches' \subseteq launches
  BY <1>7
<1> QED
  BY <1>1, <1>8, <1>9, <1>13, <1>14, <1>15, <1>16, <1>17, <1>18, AskXInv DEF TypeOK

\* Stop, what is typed, and the input mode.
LEMMA AsideXInv == XInv /\ (ClickStop \/ TypeInput \/ SetMode) => XInv'
<1>1. TypeOK => next \in Nat /\ next \in 1..(MaxRuns + 1) /\ next <= next
  BY DEF TypeOK
<1>2. ASSUME XInv, ClickStop \/ TypeInput PROVE XInv'
  <2>1. TypeOK
    BY <1>2 DEF XInv
  <2>2. PICK r \in ToWorker : r.type # "run" /\ toWorker' = Append(toWorker, r)
    <3>1. [type |-> "cancel"].type # "run" /\ [type |-> "stdin"].type # "run"
      OBVIOUS
    <3> QED
      BY <1>2, <3>1, Requests DEF ClickStop, TypeInput
  <2>3. /\ UNCHANGED <<exec, cur, shown, verdict, mode, launches, submission, next, toPage,
                       coordinator, overlap>>
        /\ stopping' \in BOOLEAN /\ early' \in BOOLEAN
    BY <1>2, <2>1 DEF ClickStop, TypeInput, page, history, TypeOK
  <2>4. UNCHANGED <<submit, sub, collected, subverdict, run, emitted>>
    BY <2>3 DEF submission, coordinator
  <2>5. toWorker \in Seq(ToWorker) /\ Requests1(toWorker, run, next)
    BY <1>2, <2>1 DEF XInv, RequestedOnce, TypeOK
  <2>6. /\ toWorker' \in Seq(ToWorker) /\ Requests1(toWorker', run, next)
        /\ \A k : Wanted(toWorker', k) <=> Wanted(toWorker, k)
    BY <1>1, <2>1, <2>2, <2>5, RequestAppend
  <2>7. \A l \in launches' : ~ Wanted(toWorker', l.run)
    BY <1>2, <2>3, <2>6 DEF XInv, RequestedOnce
  <2>8. Named'
    BY <1>2, <2>3, <2>4 DEF XInv, Named
  <2>9. ASSUME ~ overlap PROVE Apart'
    <3>1. Apart
      BY <1>2, <2>9 DEF XInv
    <3>2. \A k \in RunId : Open(k)' => Open(k)
      BY <2>3, <2>4, <2>6 DEF Open
    <3> QED
      BY <2>3, <2>4, <3>1, <3>2, SameApart
  <2>10. launches' \subseteq launches
    BY <2>3
  <2> QED
    BY <1>1, <1>2, <2>1, <2>3, <2>4, <2>6, <2>7, <2>8, <2>9, <2>10, AskXInv DEF TypeOK
<1>3. ASSUME XInv, SetMode PROVE XInv'
  <2>1. /\ mode' \in Mode
        /\ UNCHANGED <<exec, stopping, cur, shown, verdict, launches, submit, sub, collected,
                       subverdict, next, toWorker, toPage, stop, inp, pipe, run, broken, emitted,
                       overlap, early>>
    BY <1>3 DEF SetMode, submission, channels, coordinator, history
  <2>2. TypeOK'
    <3>1. TypeOK
      BY <1>3 DEF XInv
    <3>2. /\ exec' \in {"ready", "processing", "complete"} /\ stopping' \in BOOLEAN
          /\ cur' \in RunId \cup {None} /\ shown' \in [RunId -> 0..MaxOut]
          /\ verdict' \in ToPage \cup {None} /\ exec' = "complete" <=> verdict' # None
          /\ launches' \subseteq [run : RunId, mode : Mode]
      BY ONLY <2>1, <3>1 DEF TypeOK
    <3>3. /\ submit' \in {"ready", "preparing", "proxied", "uploading"}
          /\ sub' \in RunId \cup {None} /\ collected' \in [RunId -> 0..MaxOut]
          /\ subverdict' \in ToPage \cup {None} /\ next' \in 1..(MaxRuns + 1)
          /\ toWorker' \in Seq(ToWorker) /\ toPage' \in Seq(ToPage)
      BY ONLY <2>1, <3>1 DEF TypeOK
    <3>4. /\ stop' \in RunId \cup {None} /\ inp' \in RunId \cup {None}
          /\ pipe' \in [RunId -> {"none", "open", "closed", "jammed"}]
          /\ run' \in [RunId -> Phase] /\ broken' \in BOOLEAN
          /\ emitted' \in [RunId -> 0..MaxOut]
          /\ overlap' \in BOOLEAN /\ early' \in BOOLEAN
          /\ inp' # None => run'[inp'] # "none" /\ pipe'[inp'] # "none"
      BY ONLY <2>1, <3>1 DEF TypeOK
    <3> QED
      BY ONLY <2>1, <3>2, <3>3, <3>4 DEF TypeOK
  <2>3. RequestedOnce' /\ ReportedOnce' /\ Tallied' /\ Named'
    BY <1>3, <2>1 DEF XInv, RequestedOnce, ReportedOnce, Tallied, Named
  <2>4. (\A k \in RunId : Open(k)' => Open(k))
    BY <2>1 DEF Open
  <2>5. overlap' \/ Apart'
    BY <1>3, <2>1, <2>4, SameApart DEF XInv
  <2> QED
    BY <2>2, <2>3, <2>5 DEF XInv
<1> QED
  BY <1>2, <1>3

\* The submit button: nothing was open, and nothing is.
LEMMA ClickSubmitXInv == XInv /\ ClickSubmit => XInv'
<1> SUFFICES ASSUME XInv, ClickSubmit PROVE XInv'
  OBVIOUS
<1>1. TypeOK
  BY DEF XInv
<1>2. /\ submit = "ready" /\ exec # "processing"
      /\ submit' = "preparing" /\ collected' = [k \in RunId |-> 0] /\ subverdict' = None
      /\ overlap' = (overlap \/ launches # {})
      /\ UNCHANGED <<exec, stopping, cur, shown, verdict, mode, launches, sub, next, toWorker,
                     toPage, stop, inp, pipe, run, broken, emitted, early>>
  BY DEF ClickSubmit, page, channels, coordinator
<1>3. collected' \in [RunId -> 0..MaxOut] /\ \A k \in RunId : collected'[k] = 0
  BY <1>2, SessionAssumption
<1>4. overlap' \in BOOLEAN
  BY <1>1, <1>2 DEF TypeOK
<1>5. TypeOK'
  BY <1>1, <1>2, <1>3, <1>4 DEF TypeOK
<1>6. Named' /\ RequestedOnce' /\ ReportedOnce'
  BY <1>2 DEF XInv, Named, RequestedOnce, ReportedOnce
<1>7. Tallied'
  <2>1. \A k \in RunId : collected'[k] + Cardinality(Chunks(toPage, k)) <= emitted[k]
    BY <1>3, Less
  <2> QED
    BY <1>2, <2>1 DEF XInv, Tallied
<1>8. ASSUME ~ overlap' PROVE Apart'
  <2>1. Apart
    BY <1>1, <1>2, <1>8 DEF XInv, TypeOK
  <2>2. \A k \in RunId : ~ Open(k)
    BY <1>2, <2>1 DEF Apart, Awaited
  <2>3. (\A k \in RunId : Open(k) => Awaited(k))'
    BY <1>2, <2>2 DEF Open
  <2>4. ShownIsMine' /\ CollectedIsMine'
    <3>1. \A k \in RunId : collected'[k] = 0 /\ ~ (collected'[k] > 0)
      BY <1>3
    <3> QED
      BY <1>2, <2>1, <3>1 DEF Apart, ShownIsMine, CollectedIsMine
  <2> QED
    BY <1>2, <2>3, <2>4 DEF Apart
<1> QED
  BY <1>5, <1>6, <1>7, <1>8 DEF XInv

\* The run of the submission is requested: it is new.
LEMMA SubmitSendXInv == XInv /\ SubmitSend => XInv'
<1> SUFFICES ASSUME XInv, SubmitSend PROVE XInv'
  OBVIOUS
<1> DEFINE go == [type |-> "run", run |-> next, batch |-> TRUE]
<1>1. TypeOK
  BY DEF XInv
<1>2. /\ submit = "preparing" /\ next \in RunId
      /\ submit' = "proxied" /\ sub' = next /\ next' = next + 1
      /\ toWorker' = Append(toWorker, go)
      /\ UNCHANGED <<page, collected, subverdict, toPage, coordinator, history>>
  BY DEF SubmitSend
<1>3. UNCHANGED <<exec, stopping, cur, shown, verdict, mode, launches, run, emitted, overlap,
                  early>>
  BY <1>2 DEF page, coordinator, history
<1>4. /\ run[next] = "none" /\ ~ Wanted(toWorker, next)
      /\ \A m \in launches : m.run # next
      /\ next + 1 \in 1..(MaxRuns + 1) /\ next \in Nat
  BY <1>2, NextIsNew
<1>5. next <= next + 1 /\ next + 1 \in Nat /\ next < next + 1
  BY <1>4
<1>6. go \in ToWorker /\ go.type = "run" /\ go.run = next
  BY <1>2, Requests
<1> HIDE DEF go
<1>7. toWorker \in Seq(ToWorker) /\ Requests1(toWorker, run, next)
  BY <1>1 DEF XInv, RequestedOnce, TypeOK
<1>8. /\ toWorker' \in Seq(ToWorker) /\ Requests1(toWorker', run, next + 1)
      /\ \A k : Wanted(toWorker', k) <=> Wanted(toWorker, k) \/ next = k
  BY <1>2, <1>4, <1>5, <1>6, <1>7, RequestAppend
<1>9. \A l \in launches' : ~ Wanted(toWorker', l.run)
  BY <1>3, <1>4, <1>8 DEF XInv, RequestedOnce
<1>10. Named'
  BY <1>2, <1>3, NoneIsNoRun DEF XInv, Named
<1>11. ASSUME ~ overlap PROVE Apart'
  <2>1. Apart /\ exec # "processing" /\ subverdict = None
    BY <1>2, <1>11 DEF XInv, Apart, Submitting, Named
  <2>2. \A k \in RunId : ~ Open(k)
    BY <1>2, <2>1 DEF Apart, Awaited
  <2>3. \A k \in RunId : Open(k)' => k = next
    BY <1>2, <1>3, <1>8, <2>2 DEF Open
  <2>4. (\A k \in RunId : Open(k) => Awaited(k))'
    BY <1>2, <2>3 DEF Awaited
  <2>5. ShownIsMine'
    BY <1>2, <1>3, <2>1 DEF Apart, ShownIsMine
  <2>6. CollectedIsMine'
    <3>1. /\ collected[next] = 0 /\ emitted[next] = 0
          /\ Cardinality(Chunks(toPage, next)) = 0
      BY <1>2, <1>4, NothingYet
    <3>2. collected'[sub'] + Cardinality(Chunks(toPage', sub')) = emitted'[sub']
      BY <1>2, <1>3, <3>1
    <3>3. \A k \in RunId : ~ (collected[k] > 0)
      BY <1>2, <2>1 DEF Apart, CollectedIsMine
    <3> QED
      BY <1>2, <2>1, <3>2, <3>3 DEF CollectedIsMine
  <2>7. (~ (exec = "processing" /\ Submitting))'
    BY <1>3, <2>1
  <2> QED
    BY <2>4, <2>5, <2>6, <2>7 DEF Apart
<1>12. launches' \subseteq launches
  BY <1>3
<1> QED
  BY <1>1, <1>2, <1>3, <1>4, <1>5, <1>8, <1>9, <1>10, <1>11, <1>12, AskXInv DEF TypeOK

\* The submission ends: it waits for nothing.
LEMMA SubmitEndXInv == XInv /\ SubmitEnd => XInv'
<1> SUFFICES ASSUME XInv, SubmitEnd PROVE XInv'
  OBVIOUS
<1>1. TypeOK
  BY DEF XInv
<1>2. /\ submit \in {"preparing", "uploading"} /\ submit' = "ready"
      /\ UNCHANGED <<exec, stopping, cur, shown, verdict, mode, launches, sub, collected,
                     subverdict, next, toWorker, toPage, stop, inp, pipe, run, broken, emitted,
                     overlap, early>>
  BY DEF SubmitEnd, page, channels, coordinator, history
<1>3. TypeOK'
  <2>1. submit' \in {"ready", "preparing", "proxied", "uploading"}
    BY <1>2
  <2>2. /\ exec' = exec /\ stopping' = stopping /\ cur' = cur /\ shown' = shown
        /\ verdict' = verdict /\ mode' = mode /\ launches' = launches
    BY ONLY <1>2
  <2>3. /\ sub' = sub /\ collected' = collected /\ subverdict' = subverdict /\ next' = next
        /\ toWorker' = toWorker /\ toPage' = toPage /\ stop' = stop
    BY ONLY <1>2
  <2>4. /\ inp' = inp /\ pipe' = pipe /\ run' = run /\ broken' = broken
        /\ emitted' = emitted /\ overlap' = overlap /\ early' = early
    BY ONLY <1>2
  <2>5. /\ exec' \in {"ready", "processing", "complete"} /\ stopping' \in BOOLEAN
        /\ cur' \in RunId \cup {None} /\ shown' \in [RunId -> 0..MaxOut]
        /\ verdict' \in ToPage \cup {None} /\ mode' \in Mode
        /\ launches' \subseteq [run : RunId, mode : Mode]
        /\ exec' = "complete" <=> verdict' # None
    BY ONLY <1>1, <2>2 DEF TypeOK
  <2>6. /\ collected' \in [RunId -> 0..MaxOut] /\ subverdict' \in ToPage \cup {None}
        /\ sub' \in RunId \cup {None} /\ next' \in 1..(MaxRuns + 1)
        /\ toWorker' \in Seq(ToWorker) /\ toPage' \in Seq(ToPage)
        /\ stop' \in RunId \cup {None}
    BY ONLY <1>1, <2>3 DEF TypeOK
  <2>7. /\ inp' \in RunId \cup {None}
        /\ pipe' \in [RunId -> {"none", "open", "closed", "jammed"}]
        /\ run' \in [RunId -> Phase] /\ broken' \in BOOLEAN
        /\ emitted' \in [RunId -> 0..MaxOut]
        /\ overlap' \in BOOLEAN /\ early' \in BOOLEAN
        /\ inp' # None => run'[inp'] # "none" /\ pipe'[inp'] # "none"
    BY ONLY <1>1, <2>4 DEF TypeOK
  <2> QED
    BY ONLY <2>1, <2>5, <2>6, <2>7 DEF TypeOK
<1>4. /\ Named' /\ RequestedOnce' /\ ReportedOnce'
      /\ Tallied'
  <2>1. Named' /\ RequestedOnce'
    BY <1>2 DEF XInv, Named, RequestedOnce
  <2>2. ReportedOnce' /\ Tallied'
    BY <1>2 DEF XInv, ReportedOnce, Tallied
  <2> QED
    BY <2>1, <2>2
<1>5. ASSUME ~ overlap PROVE Apart'
  <2>1. Apart
    BY <1>5 DEF XInv
  <2>2. (\A k \in RunId : Open(k) => Awaited(k))'
    BY <1>2, <2>1 DEF Apart, Open, Awaited
  <2>3. ShownIsMine' /\ CollectedIsMine'
    BY <1>2, <2>1 DEF Apart, ShownIsMine, CollectedIsMine
  <2> QED
    BY <1>2, <2>2, <2>3 DEF Apart, Submitting
<1> QED
  BY <1>2, <1>3, <1>4, <1>5 DEF XInv

-----------------------------------------------------------------------------
(* Messages of the coordinator. *)

\* The head of the page's queue is a report of a run that began.
LEMMA HeadXInv ==
  ASSUME XInv, toPage # <<>>
  PROVE  /\ Head(toPage) \in ToPage /\ Head(toPage).run \in RunId
         /\ Head(toPage).type \in {"stdout"} \cup Final
         /\ Tail(toPage) \in Seq(ToPage) /\ Reports1(Tail(toPage), run)
         /\ \A k : Reported(Tail(toPage), k) =>
              Reported(toPage, k) /\ ~ (Head(toPage).type \in Final /\ Head(toPage).run = k)
         /\ run[Head(toPage).run] # "none"
         /\ Head(toPage).type \in Final =>
              Reported(toPage, Head(toPage).run) /\ run[Head(toPage).run] \notin Alive
         /\ Head(toPage).type = "stdout" =>
              run[Head(toPage).run] \in Outlived \/ Open(Head(toPage).run)
         /\ Head(toPage).type = "success" =>
              /\ run[Head(toPage).run] = "done"
              /\ Cardinality(Chunks(toPage, Head(toPage).run)) = 0
<1> DEFINE m == Head(toPage)
           q == toPage
<1>1. toPage \in Seq(ToPage) /\ Reports1(toPage, run)
  BY DEF XInv, TypeOK, ReportedOnce
<1>2. /\ Tail(q) \in Seq(ToPage) /\ Len(q) \in Nat \ {0} /\ Len(Tail(q)) = Len(q) - 1
      /\ m = q[1] /\ m \in ToPage
      /\ \A i \in 1..(Len(q) - 1) : Tail(q)[i] = q[i + 1]
      /\ 1 \in 1..Len(q)
  BY <1>1, TailAt
<1>3. m.run \in RunId /\ m.type \in {"stdout"} \cup Final
  BY <1>2, QueueRuns
<1>4. /\ Reports1(Tail(q), run)
      /\ \A k : Reported(Tail(q), k) => Reported(q, k) /\ ~ (m.type \in Final /\ m.run = k)
  BY <1>1, ReportTail
<1>5. /\ run[m.run] # "none"
      /\ m.type \in Final => run[m.run] \notin Alive
      /\ m.type = "success" => run[m.run] = "done"
      /\ m.type = "stdout" =>
           \/ run[m.run] \in Writing
           \/ \E j \in 2..Len(q) : q[j].type \in Final /\ q[j].run = m.run
  BY <1>1, <1>2 DEF Reports1
<1>6. m.type \in Final => Reported(q, m.run)
  BY <1>2 DEF Reported
<1>7. m.type = "stdout" => run[m.run] \in Outlived \/ Open(m.run)
  <2>1. (\E j \in 2..Len(q) : q[j].type \in Final /\ q[j].run = m.run) => Reported(q, m.run)
    BY <1>2 DEF Reported
  <2>2. Writing \subseteq Outlived \cup Alive
    BY DEF Writing, Alive
  <2> QED
    BY <1>5, <2>1, <2>2 DEF Open, Ending
<1>8. m.type = "success" => Cardinality(Chunks(q, m.run)) = 0
  <2>1. SUFFICES ASSUME m.type = "success" PROVE Cardinality(Chunks(q, m.run)) = 0
    OBVIOUS
  <2>2. \A i \in 2..Len(q) : 1 \in 1..(i - 1) /\ i \in 1..Len(q)
    BY <1>2
  <2>3. \A i \in 2..Len(q) : q[i].run # m.run
    BY <1>1, <1>2, <2>1, <2>2 DEF Reports1
  <2>4. \A i \in 1..(Len(q) - 1) : i + 1 \in 2..Len(q) /\ Tail(q)[i] = q[i + 1]
    BY <1>2
  <2>5. \A i \in 1..Len(Tail(q)) : Tail(q)[i].run # m.run
    BY <1>2, <2>3, <2>4
  <2>6. Cardinality(Chunks(Tail(q), m.run)) = 0
    BY <2>5, ChunksNone
  <2>7. Cardinality(Chunks(Tail(q), m.run)) + 0 = Cardinality(Chunks(q, m.run))
    BY <1>1, <2>1, ChunksTail
  <2> QED
    BY <2>6, <2>7
<1> QED
  BY <1>2, <1>3, <1>4, <1>5, <1>6, <1>7, <1>8

\* One chunk less is on its way: either it is counted now, or it is lost.
LEMMA TallyTail ==
  ASSUME XInv, toPage # <<>>, NEW k \in RunId, NEW n \in Nat,
         n + Cardinality(Chunks(toPage, k)) <= emitted[k]
  PROVE  /\ n + Cardinality(Chunks(Tail(toPage), k)) <= emitted[k]
         /\ Head(toPage).type = "stdout" /\ Head(toPage).run = k =>
              /\ n + 1 \in 0..MaxOut
              /\ (n + 1) + Cardinality(Chunks(Tail(toPage), k)) <= emitted[k]
              /\ n + Cardinality(Chunks(toPage, k)) = emitted[k] =>
                   (n + 1) + Cardinality(Chunks(Tail(toPage), k)) = emitted[k]
         /\ ~ (Head(toPage).type = "stdout" /\ Head(toPage).run = k) =>
              Cardinality(Chunks(Tail(toPage), k)) = Cardinality(Chunks(toPage, k))
<1>1. toPage \in Seq(ToPage) /\ Tail(toPage) \in Seq(ToPage) /\ emitted \in [RunId -> 0..MaxOut]
  BY TailAt DEF XInv, TypeOK
<1> DEFINE a == Cardinality(Chunks(toPage, k))
           b == Cardinality(Chunks(Tail(toPage), k))
           c == IF Head(toPage).type = "stdout" /\ Head(toPage).run = k THEN 1 ELSE 0
           e == emitted[k]
<1>2. a \in Nat /\ b \in Nat
  BY <1>1, ChunksFinite
<1>3. b + c = a
  BY <1>1, ChunksTail
<1>4. e \in 0..MaxOut /\ MaxOut \in Nat /\ n + a <= e
  BY <1>1, SessionAssumption
<1>5. c \in {0, 1} /\ (c = 1 <=> Head(toPage).type = "stdout" /\ Head(toPage).run = k)
  OBVIOUS
<1> HIDE DEF a, b, c, e
<1>6. /\ n + b <= e
      /\ c = 1 => n + 1 \in 0..MaxOut /\ (n + 1) + b <= e /\ (n + a = e => (n + 1) + b = e)
      /\ c = 0 => b = a
  <2>1. c \in Nat
    BY <1>5
  <2> QED
    BY ONLY <1>2, <1>3, <1>4, <1>5, <2>1, n \in Nat, SMT
<1> QED
  BY <1>5, <1>6 DEF a, b, e

\* What ReceivePage leaves alone.
LEMMA TakeXInv ==
  ASSUME XInv, toPage # <<>>, toPage' = Tail(toPage),
         UNCHANGED <<launches, next, toWorker, coordinator, history>>
  PROVE  /\ UNCHANGED <<launches, next, toWorker, stop, inp, pipe, run, broken, emitted, overlap,
                        early>>
         /\ RequestedOnce' /\ ReportedOnce'
         /\ \A k \in RunId : Open(k)' => Open(k)
         /\ \A k \in RunId : Head(toPage).type \in Final /\ Head(toPage).run = k => ~ Open(k)'
<1> DEFINE m == Head(toPage)
<1>1. UNCHANGED <<launches, next, toWorker, stop, inp, pipe, run, broken, emitted, overlap,
                  early>>
  BY DEF coordinator, history
<1>2. RequestedOnce' /\ ReportedOnce'
  BY <1>1, HeadXInv DEF XInv, RequestedOnce, ReportedOnce
<1>3. \A k \in RunId : Open(k)' => Open(k)
  BY <1>1, HeadXInv DEF Open, Ending
<1>4. ASSUME NEW k \in RunId, m.type \in Final, m.run = k PROVE ~ Open(k)'
  <2>1. run[k] # "none"
    BY <1>4, HeadXInv
  <2>2. \A l \in launches : l.run # k
    BY <2>1 DEF XInv, RequestedOnce
  <2>3. ~ Wanted(toWorker, k)
    BY <2>1 DEF XInv, RequestedOnce, Requests1, Wanted
  <2>4. ~ Ending(Tail(toPage), run, k)
    BY <1>4, HeadXInv DEF Ending
  <2> QED
    BY <1>1, <2>2, <2>3, <2>4 DEF Open
<1> QED
  BY <1>1, <1>2, <1>3, <1>4

\* A message that the page drops: nobody waits for it.
LEMMA DroppedXInv ==
  ASSUME XInv, toPage # <<>>, toPage' = Tail(toPage), UNCHANGED <<next, toWorker, coordinator, history>>,
         UNCHANGED page, UNCHANGED submission,
         submit # "proxied", submit = "uploading" \/ exec # "processing"
  PROVE  XInv'
<1>1. TypeOK
  BY DEF XInv
<1>2. UNCHANGED <<exec, stopping, cur, shown, verdict, mode, launches, submit, sub, collected,
                  subverdict>>
  BY DEF page, submission
<1>3. /\ UNCHANGED <<launches, next, toWorker, stop, inp, pipe, run, broken, emitted, overlap,
                     early>>
      /\ RequestedOnce' /\ ReportedOnce'
      /\ \A k \in RunId : Open(k)' => Open(k)
  BY <1>2, TakeXInv
<1>4. TypeOK'
  <2>1. toPage' \in Seq(ToPage)
    BY HeadXInv
  <2>2. /\ exec' \in {"ready", "processing", "complete"} /\ stopping' \in BOOLEAN
        /\ cur' \in RunId \cup {None} /\ shown' \in [RunId -> 0..MaxOut]
        /\ verdict' \in ToPage \cup {None} /\ mode' \in Mode
        /\ exec' = "complete" <=> verdict' # None
    BY ONLY <1>1, <1>2 DEF TypeOK
  <2>3. /\ submit' \in {"ready", "preparing", "proxied", "uploading"}
        /\ sub' \in RunId \cup {None} /\ collected' \in [RunId -> 0..MaxOut]
        /\ subverdict' \in ToPage \cup {None}
    BY ONLY <1>1, <1>2 DEF TypeOK
  <2>4. /\ launches' \subseteq [run : RunId, mode : Mode]
        /\ next' \in 1..(MaxRuns + 1) /\ toWorker' \in Seq(ToWorker)
        /\ stop' \in RunId \cup {None} /\ inp' \in RunId \cup {None}
        /\ pipe' \in [RunId -> {"none", "open", "closed", "jammed"}]
        /\ run' \in [RunId -> Phase] /\ broken' \in BOOLEAN
        /\ emitted' \in [RunId -> 0..MaxOut]
        /\ overlap' \in BOOLEAN /\ early' \in BOOLEAN
        /\ inp' # None => run'[inp'] # "none" /\ pipe'[inp'] # "none"
    BY ONLY <1>1, <1>3 DEF TypeOK
  <2> QED
    BY ONLY <2>1, <2>2, <2>3, <2>4 DEF TypeOK
<1>5. Named'
  BY <1>2 DEF XInv, Named
<1>6. Tallied'
  <2>1. shown \in [RunId -> 0..MaxOut] /\ collected \in [RunId -> 0..MaxOut]
    BY <1>1 DEF TypeOK
  <2>2. \A k \in RunId : shown[k] \in Nat /\ collected[k] \in Nat
    BY <2>1, SessionAssumption
  <2>3. ASSUME NEW k \in RunId
        PROVE  /\ shown[k] + Cardinality(Chunks(Tail(toPage), k)) <= emitted[k]
               /\ collected[k] + Cardinality(Chunks(Tail(toPage), k)) <= emitted[k]
    BY <2>2, TallyTail DEF XInv, Tallied
  <2> QED
    BY <1>2, <1>3, <2>3 DEF Tallied
<1>7. ASSUME ~ overlap PROVE Apart'
  <2>1. Apart /\ exec # "processing"
    BY <1>7 DEF XInv, Apart, Submitting
  <2>2. (\A k \in RunId : Open(k) => Awaited(k))'
    BY <1>2, <1>3, <2>1 DEF Apart, Awaited
  <2>3. ShownIsMine' /\ CollectedIsMine'
    BY <1>2, <1>3, <2>1 DEF Apart, ShownIsMine, CollectedIsMine
  <2> QED
    BY <1>2, <2>1, <2>2, <2>3 DEF Apart
<1> QED
  BY <1>3, <1>4, <1>5, <1>6, <1>7 DEF XInv

\* The message is for the outcome.
LEMMA ToStateXInv ==
  ASSUME XInv, toPage # <<>>, toPage' = Tail(toPage), UNCHANGED <<next, toWorker, coordinator, history>>,
         ToState(Head(toPage)), exec = "processing"
  PROVE  XInv'
<1> DEFINE m == Head(toPage)
<1>1. TypeOK
  BY DEF XInv
<1>2. /\ UNCHANGED <<submit, sub, collected, subverdict, cur, mode, launches>>
      /\ submit \notin {"proxied", "uploading"}
      /\ \/ /\ m.type = "stdout" /\ shown' = [shown EXCEPT ![m.run] = @ + 1]
            /\ UNCHANGED <<exec, stopping, verdict>>
         \/ /\ m.type # "stdout" /\ exec' = "complete" /\ verdict' = m /\ stopping' = FALSE
            /\ UNCHANGED shown
  BY DEF ToState, submission
<1>3. /\ UNCHANGED <<launches, next, toWorker, stop, inp, pipe, run, broken, emitted, overlap,
                     early>>
      /\ RequestedOnce' /\ ReportedOnce'
      /\ \A k \in RunId : Open(k)' => Open(k)
      /\ \A k \in RunId : m.type \in Final /\ m.run = k => ~ Open(k)'
  BY <1>2, TakeXInv
<1>4. /\ m \in ToPage /\ m.run \in RunId /\ m.type \in {"stdout"} \cup Final
      /\ Tail(toPage) \in Seq(ToPage)
      /\ m.type \in Final => Reported(toPage, m.run)
      /\ m.type = "stdout" => run[m.run] \in Outlived \/ Open(m.run)
      /\ m.type = "success" =>
           run[m.run] = "done" /\ Cardinality(Chunks(toPage, m.run)) = 0
  BY HeadXInv
<1>5. /\ shown \in [RunId -> 0..MaxOut] /\ collected \in [RunId -> 0..MaxOut]
      /\ emitted \in [RunId -> 0..MaxOut]
      /\ cur \in RunId
  BY <1>1 DEF TypeOK, XInv, Named
<1>6. \A k \in RunId : shown[k] \in Nat /\ collected[k] \in Nat /\ emitted[k] \in Nat
  BY <1>5, SessionAssumption
<1>7. ASSUME NEW k \in RunId
      PROVE  /\ shown[k] + Cardinality(Chunks(Tail(toPage), k)) <= emitted[k]
             /\ collected[k] + Cardinality(Chunks(Tail(toPage), k)) <= emitted[k]
             /\ m.type = "stdout" /\ m.run = k =>
                  /\ shown[k] + 1 \in 0..MaxOut
                  /\ (shown[k] + 1) + Cardinality(Chunks(Tail(toPage), k)) <= emitted[k]
                  /\ shown[k] + Cardinality(Chunks(toPage, k)) = emitted[k] =>
                       (shown[k] + 1) + Cardinality(Chunks(Tail(toPage), k)) = emitted[k]
             /\ ~ (m.type = "stdout" /\ m.run = k) =>
                  Cardinality(Chunks(Tail(toPage), k)) = Cardinality(Chunks(toPage, k))
  <2>1. /\ shown[k] + Cardinality(Chunks(toPage, k)) <= emitted[k]
        /\ collected[k] + Cardinality(Chunks(toPage, k)) <= emitted[k]
    BY DEF XInv, Tallied
  <2> QED
    BY <1>6, <2>1, TallyTail
<1> HIDE DEF m
<1>8. shown' \in [RunId -> 0..MaxOut]
  BY <1>2, <1>4, <1>5, <1>7
<1>9. "stdout" \notin Final
  BY DEF Final
<1>10. TypeOK'
  <2>1. exec' \in {"processing", "complete"} /\ stopping' \in BOOLEAN
        /\ verdict' \in ToPage \cup {None} /\ (exec' = "complete" <=> verdict' # None)
    BY <1>1, <1>2, <1>4, ResultAssumption DEF TypeOK
  <2>2. toPage' \in Seq(ToPage)
    BY <1>4
  <2>3. UNCHANGED <<submit, sub, collected, subverdict, cur, mode>>
    BY ONLY <1>2
  <2>4. UNCHANGED <<launches, next, toWorker, stop, inp, pipe, run, broken, emitted, overlap, early>>
    BY ONLY <1>3
  <2>5. /\ cur' \in RunId \cup {None} /\ mode' \in Mode
        /\ submit' \in {"ready", "preparing", "proxied", "uploading"}
        /\ sub' \in RunId \cup {None} /\ collected' \in [RunId -> 0..MaxOut]
        /\ subverdict' \in ToPage \cup {None}
    BY ONLY <1>1, <2>3 DEF TypeOK
  <2>6. /\ launches' \subseteq [run : RunId, mode : Mode]
        /\ next' \in 1..(MaxRuns + 1) /\ toWorker' \in Seq(ToWorker)
        /\ stop' \in RunId \cup {None} /\ inp' \in RunId \cup {None}
        /\ pipe' \in [RunId -> {"none", "open", "closed", "jammed"}]
        /\ run' \in [RunId -> Phase] /\ broken' \in BOOLEAN
        /\ emitted' \in [RunId -> 0..MaxOut]
        /\ overlap' \in BOOLEAN /\ early' \in BOOLEAN
        /\ inp' # None => run'[inp'] # "none" /\ pipe'[inp'] # "none"
    BY ONLY <1>1, <2>4 DEF TypeOK
  <2> QED
    BY ONLY <1>8, <2>1, <2>2, <2>5, <2>6 DEF TypeOK
<1>11. Named'
  BY <1>2, <1>5, NoneIsNoRun DEF XInv, Named
<1>12. Tallied'
  <2>1. ASSUME NEW k \in RunId
        PROVE  shown'[k] + Cardinality(Chunks(Tail(toPage), k)) <= emitted[k]
    <3>1. CASE m.type = "stdout" /\ m.run = k
      <4>1. shown'[k] = shown[k] + 1
        BY <1>2, <1>5, <3>1
      <4> QED
        BY <1>7, <3>1, <4>1
    <3>2. CASE ~ (m.type = "stdout" /\ m.run = k)
      <4>1. shown'[k] = shown[k]
        BY <1>2, <1>5, <3>2
      <4> QED
        BY <1>7, <4>1
    <3> QED
      BY <3>1, <3>2
  <2>2. \A k \in RunId : collected'[k] + Cardinality(Chunks(Tail(toPage), k)) <= emitted[k]
    BY <1>2, <1>7
  <2> QED
    BY <1>3, <2>1, <2>2 DEF Tallied
<1>13. ASSUME ~ overlap PROVE Apart'
  <2>1. Apart
    BY <1>13 DEF XInv
  <2>2. \A k \in RunId : Open(k) => k = cur
    BY <1>2, <2>1 DEF Apart, Awaited
  <2>3. CollectedIsMine' /\ (~ (exec = "processing" /\ Submitting))'
    BY <1>2, <1>3, <2>1 DEF Apart, CollectedIsMine, Submitting
  <2>4. CASE m.type = "stdout"
    <3>1. shown' = [shown EXCEPT ![m.run] = @ + 1] /\ UNCHANGED <<exec, stopping, verdict>>
      BY <1>2, <2>4
    <3>2. (\A k \in RunId : Open(k) => Awaited(k))'
      BY <1>2, <1>3, <2>2, <3>1 DEF Awaited
    <3>3. shown'[cur] + Cardinality(Chunks(Tail(toPage), cur)) = emitted[cur]
      <4>1. shown[cur] + Cardinality(Chunks(toPage, cur)) = emitted[cur]
        BY <2>1 DEF Apart, ShownIsMine
      <4>2. CASE m.run = cur
        <5>1. shown'[cur] = shown[cur] + 1
          BY <1>5, <3>1, <4>2
        <5> QED
          BY <1>5, <1>7, <2>4, <4>1, <4>2, <5>1
      <4>3. CASE m.run # cur
        <5>1. shown'[cur] = shown[cur]
          BY <1>5, <3>1, <4>3
        <5> QED
          BY <1>5, <1>7, <4>1, <4>3, <5>1
      <4> QED
        BY <4>2, <4>3
    <3>4. ASSUME NEW k \in RunId \ {cur}, shown'[k] > 0 PROVE run[k] \in Outlived
      <4>1. CASE k = m.run
        BY <1>4, <2>2, <2>4, <4>1
      <4>2. CASE k # m.run
        <5>1. shown'[k] = shown[k]
          BY <1>5, <3>1, <4>2
        <5> QED
          BY <2>1, <3>4, <5>1 DEF Apart, ShownIsMine
      <4> QED
        BY <4>1, <4>2
    <3>5. ShownIsMine'
      BY <1>2, <1>3, <3>1, <3>3, <3>4 DEF ShownIsMine
    <3> QED
      BY <2>3, <3>2, <3>5 DEF Apart
  <2>5. CASE m.type # "stdout"
    <3>1. /\ exec' = "complete" /\ verdict' = m /\ UNCHANGED shown /\ m.type \in Final
      BY <1>2, <1>4, <2>5
    <3>2. m.run = cur
      BY <1>4, <2>2, <3>1 DEF Open, Ending
    <3>3. \A k \in RunId : ~ Open(k)'
      BY <1>3, <2>2, <3>1, <3>2
    <3>4. m.type = "success" => shown[cur] = emitted[cur] /\ run[cur] = "done"
      <4>1. shown[cur] + Cardinality(Chunks(toPage, cur)) = emitted[cur]
        BY <2>1 DEF Apart, ShownIsMine
      <4>2. m.type = "success" => run[cur] = "done" /\ Cardinality(Chunks(toPage, cur)) = 0
        BY <1>4, <3>2
      <4>3. shown[cur] \in Nat /\ shown[cur] + 0 = shown[cur]
        BY <1>5, <1>6
      <4> QED
        BY <4>1, <4>2, <4>3
    <3>5. ShownIsMine'
      <4>1. \A k \in RunId \ {cur} : shown[k] > 0 => run[k] \in Outlived
        BY <2>1 DEF Apart, ShownIsMine
      <4> QED
        BY <1>2, <1>3, <3>1, <3>2, <3>4, <4>1 DEF ShownIsMine
    <3>6. (\A k \in RunId : Open(k) => Awaited(k))'
      BY <3>3
    <3> QED
      BY <2>3, <3>5, <3>6 DEF Apart
  <2> QED
    BY <2>4, <2>5
<1> QED
  BY <1>3, <1>10, <1>11, <1>12, <1>13 DEF XInv

\* The message is for the submission.
LEMMA ToProxyXInv ==
  ASSUME XInv, toPage # <<>>, toPage' = Tail(toPage), UNCHANGED <<next, toWorker, coordinator, history>>,
         ToProxy(Head(toPage)), submit = "proxied"
  PROVE  XInv'
<1> DEFINE m == Head(toPage)
<1>1. TypeOK
  BY DEF XInv
<1>2. /\ UNCHANGED <<exec, stopping, cur, shown, verdict, mode, launches, sub>>
      /\ \/ /\ m.type = "stdout" /\ collected' = [collected EXCEPT ![m.run] = @ + 1]
            /\ UNCHANGED <<submit, subverdict>>
         \/ /\ m.type # "stdout" /\ subverdict' = m /\ submit' = "uploading"
            /\ UNCHANGED collected
  BY DEF ToProxy, page
<1>3. /\ UNCHANGED <<launches, next, toWorker, stop, inp, pipe, run, broken, emitted, overlap,
                     early>>
      /\ RequestedOnce' /\ ReportedOnce'
      /\ \A k \in RunId : Open(k)' => Open(k)
      /\ \A k \in RunId : m.type \in Final /\ m.run = k => ~ Open(k)'
  BY <1>2, TakeXInv
<1>4. /\ m \in ToPage /\ m.run \in RunId /\ m.type \in {"stdout"} \cup Final
      /\ Tail(toPage) \in Seq(ToPage)
      /\ m.type \in Final => Reported(toPage, m.run)
      /\ m.type = "stdout" => run[m.run] \in Outlived \/ Open(m.run)
      /\ m.type = "success" =>
           run[m.run] = "done" /\ Cardinality(Chunks(toPage, m.run)) = 0
  BY HeadXInv
<1>5. /\ shown \in [RunId -> 0..MaxOut] /\ collected \in [RunId -> 0..MaxOut]
      /\ emitted \in [RunId -> 0..MaxOut]
      /\ sub \in RunId
  BY <1>1 DEF TypeOK, XInv, Named
<1>6. \A k \in RunId : shown[k] \in Nat /\ collected[k] \in Nat /\ emitted[k] \in Nat
  BY <1>5, SessionAssumption
<1>7. ASSUME NEW k \in RunId
      PROVE  /\ shown[k] + Cardinality(Chunks(Tail(toPage), k)) <= emitted[k]
             /\ collected[k] + Cardinality(Chunks(Tail(toPage), k)) <= emitted[k]
             /\ m.type = "stdout" /\ m.run = k =>
                  /\ collected[k] + 1 \in 0..MaxOut
                  /\ (collected[k] + 1) + Cardinality(Chunks(Tail(toPage), k)) <= emitted[k]
                  /\ collected[k] + Cardinality(Chunks(toPage, k)) = emitted[k] =>
                       (collected[k] + 1) + Cardinality(Chunks(Tail(toPage), k)) = emitted[k]
             /\ ~ (m.type = "stdout" /\ m.run = k) =>
                  Cardinality(Chunks(Tail(toPage), k)) = Cardinality(Chunks(toPage, k))
  <2>1. /\ shown[k] + Cardinality(Chunks(toPage, k)) <= emitted[k]
        /\ collected[k] + Cardinality(Chunks(toPage, k)) <= emitted[k]
    BY DEF XInv, Tallied
  <2> QED
    BY <1>6, <2>1, TallyTail
<1> HIDE DEF m
<1>8. collected' \in [RunId -> 0..MaxOut]
  BY <1>2, <1>4, <1>5, <1>7
<1>9. "stdout" \notin Final
  BY DEF Final
<1>10. TypeOK'
  <2>1. submit' \in {"proxied", "uploading"} /\ subverdict' \in ToPage \cup {None}
    BY <1>1, <1>2, <1>4 DEF TypeOK
  <2>2. toPage' \in Seq(ToPage)
    BY <1>4
  <2>3. UNCHANGED <<exec, stopping, cur, shown, verdict, mode, launches, sub, next, toWorker, stop,
                    inp, pipe, run, broken, emitted, overlap, early>>
    BY <1>2, <1>3
  <2>4. /\ submit' \in {"ready", "preparing", "proxied", "uploading"}
        /\ collected' \in [RunId -> 0..MaxOut] /\ subverdict' \in ToPage \cup {None}
    BY <1>8, <2>1
  <2>5. /\ exec' = exec /\ stopping' = stopping /\ cur' = cur /\ shown' = shown
        /\ verdict' = verdict /\ mode' = mode /\ launches' = launches /\ sub' = sub
    BY ONLY <2>3
  <2>6. /\ next' = next /\ toWorker' = toWorker /\ stop' = stop /\ inp' = inp /\ pipe' = pipe
        /\ run' = run /\ broken' = broken /\ emitted' = emitted /\ overlap' = overlap
        /\ early' = early
    BY ONLY <2>3
  <2>7. /\ exec' \in {"ready", "processing", "complete"} /\ stopping' \in BOOLEAN
        /\ cur' \in RunId \cup {None} /\ shown' \in [RunId -> 0..MaxOut]
        /\ verdict' \in ToPage \cup {None} /\ mode' \in Mode
        /\ launches' \subseteq [run : RunId, mode : Mode]
        /\ exec' = "complete" <=> verdict' # None
        /\ sub' \in RunId \cup {None}
    BY ONLY TypeOK, <2>5 DEF TypeOK
  <2>8. /\ next' \in 1..(MaxRuns + 1) /\ toWorker' \in Seq(ToWorker)
        /\ stop' \in RunId \cup {None} /\ inp' \in RunId \cup {None}
        /\ pipe' \in [RunId -> {"none", "open", "closed", "jammed"}]
        /\ run' \in [RunId -> Phase] /\ broken' \in BOOLEAN
        /\ emitted' \in [RunId -> 0..MaxOut]
        /\ overlap' \in BOOLEAN /\ early' \in BOOLEAN
        /\ inp' # None => run'[inp'] # "none" /\ pipe'[inp'] # "none"
    BY ONLY TypeOK, <2>6 DEF TypeOK
  <2> QED
    BY ONLY <2>2, <2>4, <2>7, <2>8 DEF TypeOK
<1>11. Named'
  BY <1>2, <1>5, NoneIsNoRun DEF XInv, Named
<1>12. Tallied'
  <2>1. ASSUME NEW k \in RunId
        PROVE  collected'[k] + Cardinality(Chunks(Tail(toPage), k)) <= emitted[k]
    <3>1. CASE m.type = "stdout" /\ m.run = k
      <4>1. collected'[k] = collected[k] + 1
        BY <1>2, <1>5, <3>1
      <4> QED
        BY <1>7, <3>1, <4>1
    <3>2. CASE ~ (m.type = "stdout" /\ m.run = k)
      <4>1. collected'[k] = collected[k]
        BY <1>2, <1>5, <3>2
      <4> QED
        BY <1>7, <4>1
    <3> QED
      BY <3>1, <3>2
  <2>2. \A k \in RunId : shown'[k] + Cardinality(Chunks(Tail(toPage), k)) <= emitted[k]
    BY <1>2, <1>7
  <2> QED
    BY <1>3, <2>1, <2>2 DEF Tallied
<1>13. ASSUME ~ overlap PROVE Apart'
  <2>1. Apart /\ exec # "processing"
    BY <1>13 DEF XInv, Apart, Submitting
  <2>2. \A k \in RunId : Open(k) => k = sub
    BY <2>1 DEF Apart, Awaited
  <2>3. ShownIsMine' /\ (~ (exec = "processing" /\ Submitting))'
    BY <1>2, <1>3, <2>1 DEF Apart, ShownIsMine
  <2>4. CASE m.type = "stdout"
    <3>1. collected' = [collected EXCEPT ![m.run] = @ + 1] /\ UNCHANGED <<submit, subverdict>>
      BY <1>2, <2>4
    <3>2. (\A k \in RunId : Open(k) => Awaited(k))'
      BY <1>2, <1>3, <2>2, <3>1 DEF Awaited
    <3>3. collected'[sub] + Cardinality(Chunks(Tail(toPage), sub)) = emitted[sub]
      <4>1. collected[sub] + Cardinality(Chunks(toPage, sub)) = emitted[sub]
        BY <2>1 DEF Apart, CollectedIsMine
      <4>2. CASE m.run = sub
        <5>1. collected'[sub] = collected[sub] + 1
          BY <1>5, <3>1, <4>2
        <5> QED
          BY <1>5, <1>7, <2>4, <4>1, <4>2, <5>1
      <4>3. CASE m.run # sub
        <5>1. collected'[sub] = collected[sub]
          BY <1>5, <3>1, <4>3
        <5> QED
          BY <1>5, <1>7, <4>1, <4>3, <5>1
      <4> QED
        BY <4>2, <4>3
    <3>4. subverdict' = None
      BY <3>1 DEF XInv, Named
    <3>6. ASSUME NEW k \in RunId \ {sub}, collected'[k] > 0 PROVE run[k] \in Outlived
      <4>1. CASE k = m.run
        BY <1>4, <2>2, <2>4, <4>1
      <4>2. CASE k # m.run
        <5>1. collected'[k] = collected[k]
          BY <1>5, <3>1, <4>2
        <5> QED
          BY <2>1, <3>6, <5>1 DEF Apart, CollectedIsMine
      <4> QED
        BY <4>1, <4>2
    <3>5. CollectedIsMine'
      BY <1>2, <1>3, <3>1, <3>3, <3>4, <3>6 DEF CollectedIsMine
    <3> QED
      BY <2>3, <3>2, <3>5 DEF Apart
  <2>5. CASE m.type # "stdout"
    <3>1. /\ subverdict' = m /\ submit' = "uploading" /\ UNCHANGED collected /\ m.type \in Final
      BY <1>2, <1>4, <2>5
    <3>2. m.run = sub
      BY <1>4, <2>2, <3>1 DEF Open, Ending
    <3>3. \A k \in RunId : ~ Open(k)'
      BY <1>3, <2>2, <3>1, <3>2
    <3>4. m.type = "success" => collected[sub] = emitted[sub] /\ run[sub] = "done"
      <4>1. collected[sub] + Cardinality(Chunks(toPage, sub)) = emitted[sub]
        BY <2>1 DEF Apart, CollectedIsMine
      <4>2. m.type = "success" => run[sub] = "done" /\ Cardinality(Chunks(toPage, sub)) = 0
        BY <1>4, <3>2
      <4>3. collected[sub] \in Nat /\ collected[sub] + 0 = collected[sub]
        BY <1>5, <1>6
      <4> QED
        BY <4>1, <4>2, <4>3
    <3>5. CollectedIsMine'
      <4>1. \A k \in RunId \ {sub} : collected[k] > 0 => run[k] \in Outlived
        BY <2>1 DEF Apart, CollectedIsMine
      <4> QED
        BY <1>2, <1>3, <3>1, <3>2, <3>4, <4>1 DEF CollectedIsMine
    <3>6. (\A k \in RunId : Open(k) => Awaited(k))'
      BY <3>3
    <3> QED
      BY <2>3, <3>5, <3>6 DEF Apart
  <2> QED
    BY <2>4, <2>5
<1> QED
  BY <1>3, <1>10, <1>11, <1>12, <1>13 DEF XInv

LEMMA ReceivePageXInv == XInv /\ ReceivePage => XInv'
<1> SUFFICES ASSUME XInv, ReceivePage PROVE XInv'
  OBVIOUS
<1>1. /\ toPage # <<>> /\ toPage' = Tail(toPage)
      /\ ToProxy(Head(toPage)) \/ ToState(Head(toPage))
      /\ UNCHANGED <<next, toWorker, coordinator, history>>
  BY DEF ReceivePage
<1>2. CASE ToProxy(Head(toPage)) /\ submit = "proxied"
  BY <1>1, <1>2, ToProxyXInv
<1>3. CASE ToState(Head(toPage)) /\ exec = "processing"
  BY <1>1, <1>3, ToStateXInv
<1>4. CASE ToProxy(Head(toPage)) /\ submit # "proxied"
  <2>1. submit = "uploading" /\ UNCHANGED page /\ UNCHANGED submission
    BY <1>4 DEF ToProxy
  <2> QED
    BY <1>1, <2>1, DroppedXInv
<1>5. CASE ToState(Head(toPage)) /\ exec # "processing"
  <2>1. submit # "proxied" /\ UNCHANGED page /\ UNCHANGED submission
    BY <1>5 DEF ToState
  <2> QED
    BY <1>1, <1>5, <2>1, DroppedXInv
<1> QED
  BY <1>1, <1>2, <1>3, <1>4, <1>5

-----------------------------------------------------------------------------
(* The results. *)

LEMMA InitXInv == Init => XInv
<1> SUFFICES ASSUME Init PROVE XInv
  OBVIOUS
<1>1. 0 \in 0..MaxOut /\ 1 \in 1..(MaxRuns + 1)
  BY SessionAssumption
<1>2. toWorker = <<>> /\ toPage = <<>> /\ Len(toWorker) = 0 /\ Len(toPage) = 0
  BY DEF Init
<1>3. TypeOK
  <2>1. /\ shown \in [RunId -> 0..MaxOut] /\ collected \in [RunId -> 0..MaxOut]
        /\ emitted \in [RunId -> 0..MaxOut]
    BY <1>1 DEF Init
  <2>2. /\ pipe \in [RunId -> {"none", "open", "closed", "jammed"}] /\ run \in [RunId -> Phase]
        /\ launches \subseteq [run : RunId, mode : Mode]
        /\ toWorker \in Seq(ToWorker) /\ toPage \in Seq(ToPage)
    BY DEF Init, Phase
  <2>3. next \in 1..(MaxRuns + 1)
    BY <1>1 DEF Init
  <2> QED
    BY <2>1, <2>2, <2>3 DEF Init, TypeOK
<1>4. Named
  BY DEF Init, Named
<1>5. RequestedOnce /\ ReportedOnce
  BY <1>2 DEF Init, RequestedOnce, ReportedOnce, Requests1, Reports1
<1>6. Tallied
  <2>1. \A k \in RunId : Cardinality(Chunks(toPage, k)) = 0
    BY <1>2, ChunksNone
  <2>2. \A k \in RunId : shown[k] = 0 /\ collected[k] = 0 /\ emitted[k] = 0
    BY DEF Init
  <2> QED
    BY <2>1, <2>2 DEF Tallied
<1>7. Apart
  <2>1. \A k \in RunId : ~ Open(k)
    BY <1>2 DEF Init, Open, Wanted, Ending, Reported, Alive
  <2>2. ShownIsMine /\ CollectedIsMine
    BY DEF Init, ShownIsMine, CollectedIsMine
  <2> QED
    BY <2>1, <2>2 DEF Init, Apart
<1> QED
  BY <1>3, <1>4, <1>5, <1>6, <1>7 DEF XInv

LEMMA NextXInv == IInv /\ XInv /\ [Next]_vars => XInv'
<1> SUFFICES ASSUME IInv, XInv, [Next]_vars PROVE XInv'
  OBVIOUS
<1>1. CASE ClickRun \/ SendRun \/ ClickStop \/ TypeInput \/ SetMode
  BY <1>1, ClickRunXInv, SendRunXInv, AsideXInv
<1>2. CASE ClickSubmit \/ SubmitSend \/ SubmitEnd
  BY <1>2, ClickSubmitXInv, SubmitSendXInv, SubmitEndXInv
<1>3. CASE ReceivePage \/ ReceiveWorker
  BY <1>3, ReceivePageXInv, ReceiveWorkerXInv
<1>4. CASE \E k \in RunId : Fetched(k) \/ Compiled(k) \/ Output(k) \/ Exited(k) \/ OrphanEnds(k)
                               \/ WriteToInput(k)
  BY <1>4, PhaseXInv
<1>5. CASE UNCHANGED vars
  <2>1. UNCHANGED <<exec, stopping, cur, shown, verdict, mode, launches, submit, sub, collected,
                    subverdict, next, toWorker, toPage, stop, inp, pipe, run, broken, emitted,
                    overlap, early>>
    BY <1>5 DEF vars, page, submission, channels, coordinator, history
  <2>2. TypeOK'
    BY <2>1 DEF XInv, TypeOK
  <2>3. Named' /\ RequestedOnce' /\ ReportedOnce' /\ Tallied'
    BY <2>1 DEF XInv, Named, RequestedOnce, ReportedOnce, Tallied
  <2>4. \A k \in RunId : Open(k)' => Open(k)
    BY <2>1 DEF Open
  <2>5. (overlap \/ Apart)'
    BY <2>1, <2>4, SameApart DEF XInv
  <2> QED
    BY <2>2, <2>3, <2>5 DEF XInv
<1> QED
  BY <1>1, <1>2, <1>3, <1>4, <1>5 DEF Next

LEMMA XInvHolds == Spec => []XInv
<1>1. Init => IInv /\ XInv
  BY InitIInv, InitXInv
<1>2. IInv /\ XInv /\ [Next]_vars => IInv' /\ XInv'
  BY NextIInv, NextXInv
<1> QED
  BY <1>1, <1>2, PTL DEF Spec, SafeSpec

\* Page, channels and coordinator keep their types; above all the page has never
\* more of a run than it wrote, and is complete exactly when it has a verdict.
THEOREM SessionTypes == Spec => []TypeOK
<1>1. XInv => TypeOK
  BY DEF XInv
<1> QED
  BY <1>1, XInvHolds, PTL

\* What handle_exec_message makes of the reports: the verdict shown is of the run
\* started last; if that ended well the page has as many of its chunks as it wrote,
\* and chunks of another run only of a stopped program that outlived its run.  For
\* any number of runs, stops and submissions in any order, as long as none was run
\* during a submission.
THEOREM OutcomeOfTheRun == Spec => []ResultIsMine
<1>1. XInv => ResultIsMine
  BY DEF XInv, Apart, ShownIsMine, ResultIsMine, Outlived
<1> QED
  BY <1>1, XInvHolds, PTL

\* The submission proxy of terry.rs takes the end of its own run, has on success as
\* many chunks of it as it wrote, and chunks of another run only of a stopped
\* program that outlived its run, which it then uploads.
THEOREM OutputOfTheSubmission == Spec => []SubmissionIsMine
<1>1. XInv => SubmissionIsMine
  BY DEF XInv, Apart, CollectedIsMine, SubmissionIsMine, Outlived
<1> QED
  BY <1>1, XInvHolds, PTL
=============================================================================
