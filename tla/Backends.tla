------------------------------ MODULE Backends ------------------------------
(***************************************************************************)
(* The backends of frontend/src/backend: which one a request of the page   *)
(* goes to, and how one execution of each begins and ends.  The JS backend *)
(* has a Worker per execution and a timeout, the remote backend a request  *)
(* to a server, the worker backend the coordinator, of which this module   *)
(* has only that a run ends by itself or by a cancel (see ExecSession).    *)
(*                                                                         *)
(* The page sends every request to the backend of the language of the file *)
(* that is open at that moment, and the user may open another file while a *)
(* program runs.  Languages with the same backend are one here.  There are *)
(* no submissions: with Ctrl-Enter during one, two executions overlap.     *)
(* Nor is there typed input: on it the JS and remote backends panic, which *)
(* changes nothing of theirs.                                              *)
(***************************************************************************)
EXTENDS Naturals, Sequences, FiniteSets

CONSTANTS
  MaxRuns,  \* bound on the runs of a session
  None

ASSUME BackendsAssumption == MaxRuns \in Nat \ {0} /\ None \notin Nat

RunId == 1..MaxRuns
Kind == {"worker", "js", "remote"}
DynamicIo(kind) == kind = "worker"

VARIABLES
  \* the page
  lang,      \* the backend of the file that is open
  exec, stopping, cur, next,
  verdict,   \* the run whose end the page shows
  launch,    \* the async block of do_run: the run and whether its input is given whole
  \* the JS backend
  execution, \* whose Worker is stored
  timeout,   \* its timeout is armed
  workers,   \* the Workers that live; posted: the final message is in the queue
  \* the remote backend
  sender,    \* whose stop sender is stored
  requests,  \* the runs whose evaluate is pending
  \* the coordinator
  alive,     \* the run that goes on
  toWorker, toPage,
  \* history
  on,        \* the backend each run was sent to
  ends,      \* final messages of each run that reached the page
  stopOn     \* the backend the last Cancel was sent to, for the run shown

page == <<lang, exec, stopping, cur, next, verdict, launch>>
js == <<execution, timeout, workers>>
remote == <<sender, requests>>
coordinator == <<alive, toWorker, toPage>>
vars == <<page, js, remote, coordinator, on, ends, stopOn>>

JsWorker == [run : RunId, posted : BOOLEAN]

\* Types; the stored execution has its Worker, and only it has a timeout.
TypeOK ==
  /\ lang \in Kind /\ stopping \in BOOLEAN
  /\ exec \in {"ready", "processing", "complete"}
  /\ cur \in RunId \cup {None} /\ next \in 1..(MaxRuns + 1)
  /\ verdict \in RunId \cup {None}
  /\ launch \in [run : RunId, batch : BOOLEAN] \cup {None}
  /\ execution \in RunId \cup {None} /\ timeout \in BOOLEAN
  /\ workers \subseteq JsWorker
  /\ sender \in RunId \cup {None} /\ requests \subseteq RunId
  /\ alive \in RunId \cup {None}
  /\ toWorker \in Seq([type : {"run", "cancel"}, run : RunId \cup {None}])
  /\ toPage \in Seq(RunId)
  /\ on \in [RunId -> Kind \cup {None}] /\ ends \in [RunId -> Nat]
  /\ stopOn \in Kind \cup {None}
  /\ timeout => execution # None
  /\ execution # None => \E w \in workers : w.run = execution

Init ==
  /\ lang \in Kind
  /\ exec = "ready" /\ stopping = FALSE /\ cur = None /\ next = 1
  /\ verdict = None /\ launch = None
  /\ execution = None /\ timeout = FALSE /\ workers = {}
  /\ sender = None /\ requests = {}
  /\ alive = None /\ toWorker = <<>> /\ toPage = <<>>
  /\ on = [k \in RunId |-> None] /\ ends = [k \in RunId |-> 0]
  /\ stopOn = None

----------------------------------------------------------------------------
(* What a request does to each backend.  Final: the callback of the page   *)
(* with Success or Error; a page that does not wait ignores it.            *)

Final(k) ==
  /\ IF exec = "processing"
     THEN exec' = "complete" /\ verdict' = k
     ELSE UNCHANGED <<exec, verdict>>
  /\ ends' = [ends EXCEPT ![k] = @ + 1]

NoFinal == UNCHANGED <<exec, verdict, ends>>

\* finish_execution and terminate: the timeout is dropped with the execution, and
\* with the Worker what it has posted.
FinishExecution ==
  /\ execution' = None /\ timeout' = FALSE
  /\ workers' = {w \in workers : w.run # execution}

\* Run on the JS backend; a time limit may be set.  The input must be there, and so must
\* the primary file, which the user may have removed meanwhile, as UTF-8: or else the
\* async block panics, before the Worker is given the program.
JsRun(k, batch) ==
  \/ /\ batch
     /\ execution' = k /\ timeout' \in BOOLEAN
     /\ workers' = workers \cup {[run |-> k, posted |-> FALSE]}
     /\ on' = [on EXCEPT ![k] = "js"]
  \/ UNCHANGED <<js, on>>

\* Faulty variant: the page is not told.
JsCancelSilently ==
  /\ NoFinal
  /\ IF execution = None THEN UNCHANGED js ELSE FinishExecution

JsCancel ==
  IF execution = None
  THEN NoFinal /\ UNCHANGED js
  ELSE Final(execution) /\ FinishExecution

\* Run on the remote backend: the new sender drops the one before, which cancels.
RemoteRun(k) ==
  /\ sender' = k /\ requests' = (requests \ {sender}) \cup {k}
  /\ on' = [on EXCEPT ![k] = "remote"]
  /\ IF sender \in requests THEN Final(sender) ELSE NoFinal

\* Cancel: the select! of a request that is pending drops it and reports.
RemoteCancel ==
  /\ sender' = None /\ requests' = requests \ {sender}
  /\ IF sender \in requests THEN Final(sender) ELSE NoFinal

ToCoordinator(type, k) == toWorker' = Append(toWorker, [type |-> type, run |-> k])

----------------------------------------------------------------------------
(* The page.                                                               *)

\* Another file is opened, whose language has backend k.
SwitchFile ==
  /\ \E k \in Kind \ {lang} : lang' = k
  /\ UNCHANGED <<exec, stopping, cur, next, verdict, launch, js, remote, coordinator, on, ends, stopOn>>

\* do_run up to its first await: the input mode is the setting, if the backend of
\* the language has dynamic input.
ClickRun ==
  /\ exec \in {"ready", "complete"} /\ launch = None /\ next \in RunId
  /\ exec' = "processing" /\ stopping' = FALSE /\ cur' = next /\ verdict' = None
  /\ next' = next + 1 /\ stopOn' = None
  /\ \E batch \in BOOLEAN :
       /\ batch \/ DynamicIo(lang)
       /\ launch' = [run |-> next, batch |-> batch]
  /\ UNCHANGED <<lang, js, remote, coordinator, on, ends>>

\* The rest of do_run: Run goes to the backend of the language of now.
SendRun ==
  /\ launch # None /\ launch' = None
  /\ \/ /\ lang = "worker" /\ ToCoordinator("run", launch.run)
        /\ on' = [on EXCEPT ![launch.run] = "worker"]
        /\ NoFinal /\ UNCHANGED <<js, remote, alive, toPage>>
     \/ /\ lang = "js" /\ JsRun(launch.run, launch.batch)
        /\ NoFinal /\ UNCHANGED <<remote, coordinator>>
     \/ /\ lang = "remote" /\ RemoteRun(launch.run)
        /\ UNCHANGED <<js, coordinator>>
  /\ UNCHANGED <<lang, stopping, cur, next, stopOn>>

\* do_stop: so does Cancel.  stopOn remembers where, once Run was sent.
ClickStop ==
  /\ exec = "processing" /\ ~ stopping /\ stopping' = TRUE
  /\ stopOn' = IF launch = None THEN lang ELSE None
  /\ \/ /\ lang = "worker" /\ ToCoordinator("cancel", None)
        /\ NoFinal /\ UNCHANGED <<js, remote, alive, toPage>>
     \/ /\ lang = "js" /\ JsCancel
        /\ UNCHANGED <<remote, coordinator>>
     \/ /\ lang = "remote" /\ RemoteCancel
        /\ UNCHANGED <<js, coordinator>>
  /\ UNCHANGED <<lang, cur, next, launch, on>>

----------------------------------------------------------------------------
(* What happens by itself.                                                 *)

Rest == <<lang, stopping, cur, next, launch, on, stopOn>>

\* eval in worker.js returns or throws, and the final message is posted.
JsEnds ==
  /\ \E w \in workers :
       /\ ~ w.posted
       /\ workers' = (workers \ {w}) \cup {[w EXCEPT !.posted = TRUE]}
  /\ UNCHANGED <<page, execution, timeout, remote, coordinator, on, ends, stopOn>>

\* Faulty variant: the execution stays stored, and its timeout armed.
JsDeliverKeeps(w) ==
  /\ workers' = {[v EXCEPT !.posted = FALSE] : v \in workers}
  /\ Final(w.run)
  /\ UNCHANGED <<execution, timeout>>

\* onmessage with Success or Error: with no execution stored it is ignored.
JsDeliver(w) ==
  IF execution # None
  THEN /\ Final(w.run)
       /\ execution' = None /\ timeout' = FALSE
       /\ workers' = {v \in workers \ {w} : v.run # execution}
  ELSE NoFinal /\ workers' = workers \ {w} /\ UNCHANGED <<execution, timeout>>

JsMessage ==
  /\ \E w \in workers : w.posted /\ JsDeliver(w)
  /\ UNCHANGED <<Rest, remote, coordinator>>

\* Faulty variant: the Worker is terminated and stays stored.
JsTimeoutKeeps ==
  /\ timeout /\ Final(execution)
  /\ timeout' = FALSE /\ workers' = {w \in workers : w.run # execution}
  /\ UNCHANGED <<Rest, execution, remote, coordinator>>

JsTimeout ==
  /\ timeout /\ Final(execution) /\ FinishExecution
  /\ UNCHANGED <<Rest, remote, coordinator>>

\* The server answered, or the request failed.
RemoteAnswer ==
  /\ \E k \in requests : requests' = requests \ {k} /\ Final(k)
  /\ UNCHANGED <<Rest, sender, js, coordinator>>

\* exec.rs: run replaces, cancel stops what goes on.
CoordinatorReceives ==
  /\ toWorker # <<>> /\ toWorker' = Tail(toWorker)
  /\ toPage' = IF alive = None THEN toPage ELSE Append(toPage, alive)
  /\ alive' = Head(toWorker).run
  /\ UNCHANGED <<page, js, remote, on, ends, stopOn>>

CoordinatorEnds ==
  /\ alive # None /\ alive' = None /\ toPage' = Append(toPage, alive)
  /\ UNCHANGED <<page, js, remote, toWorker, on, ends, stopOn>>

PageReceives ==
  /\ toPage # <<>> /\ toPage' = Tail(toPage) /\ Final(Head(toPage))
  /\ UNCHANGED <<Rest, js, remote, alive, toWorker>>

Next ==
  \/ SwitchFile \/ ClickRun \/ SendRun \/ ClickStop
  \/ JsEnds \/ JsMessage \/ JsTimeout \/ RemoteAnswer
  \/ CoordinatorReceives \/ CoordinatorEnds \/ PageReceives

\* Posted messages are delivered, an armed timeout fires and the awaits of do_run
\* end.  Programs and servers owe nothing.
Fairness ==
  /\ WF_vars(SendRun) /\ WF_vars(JsMessage) /\ WF_vars(JsTimeout)
  /\ WF_vars(CoordinatorReceives) /\ WF_vars(PageReceives)

Spec == Init /\ [][Next]_vars /\ Fairness

----------------------------------------------------------------------------
(* What should hold.                                                       *)

\* Of the program's own end, the timeout, Cancel and the answer of a server, one is
\* the end of a run, whichever backends the user's files and clicks involve; and
\* the end on the page is that of the run shown.
EndsOnce ==
  /\ \A k \in RunId : ends[k] <= 1
  /\ exec = "complete" => verdict = cur

\* A run ends if Stop was sent to its backend, or if it is the JS backend's and has
\* a time limit, even when Stop went elsewhere.
StoppedOrLimited ==
  \A k \in RunId :
    (exec = "processing" /\ cur = k /\ on[k] # None /\ (stopOn = on[k] \/ (execution = k /\ timeout)))
      ~> (exec # "processing" \/ cur # k)

\* common/src/lib.rs says of Cancel: cancel the current compilation or execution.
\* Refuted by a Stop after another file was opened.
StopReachesItsRun ==
  \A k \in RunId :
    (exec = "processing" /\ cur = k /\ on[k] # None /\ stopOn # None)
      ~> (exec # "processing" \/ cur # k)
=============================================================================
