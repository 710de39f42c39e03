---------------------------- MODULE ExecSession ----------------------------
(***************************************************************************)
(* Running a program from the page: the RunState of frontend/src/main.rs,  *)
(* the submission proxy of frontend/src/contest_api/terry.rs, the channel  *)
(* to the coordinator worker and back, and the coordinator's exec.rs with  *)
(* the phases of lang::run.                                                *)
(*                                                                         *)
(* Page and coordinator are two event loops joined by two ordered message  *)
(* queues.  do_run and do_submit change the state at the click and send    *)
(* Run only after several awaits; clicks and messages fall in between.  An *)
(* event of the coordinator includes the tasks it wakes (see Process): the *)
(* select! of a cancelled run reports before the next event, and what a    *)
(* program wrote has left the output pipe before its end is handled.       *)
(***************************************************************************)
EXTENDS Naturals, Sequences, FiniteSets

CONSTANTS
  MaxRuns,    \* bound on the runs and submissions of a session
  MaxOut,     \* bound on the chunks one program writes
  MaxChunks,  \* bound on the Run and StdinChunk messages of the page in flight
  None

ASSUME SessionAssumption ==
  /\ MaxRuns \in Nat \ {0} /\ MaxOut \in Nat /\ MaxChunks \in Nat
  /\ None \notin Nat

RunId == 1..MaxRuns

VARIABLES
  \* the page
  exec,       \* StateExec: "ready", "processing" or "complete"
  stopping,   \* Processing.stopping
  cur,        \* the run the page shows
  shown,      \* chunks of each run in the outcome
  verdict,    \* Complete: whose final message it was and what it said
  mode,       \* the input mode setting
  launches,   \* the async blocks of do_run that did not send Run yet
  submit,     \* StateSubmit and how far the submission is
  sub,        \* the run of the submission
  collected,  \* chunks of each run the proxy collected
  subverdict, \* the final message the proxy got
  next,       \* the next run id
  \* the channels
  toWorker, toPage,
  \* the coordinator
  stop,       \* whose stop sender is stored
  inp,        \* whose stdin pipe is stored
  pipe,       \* the stdin pipe of each run; jammed: a panic left it borrowed
  run,        \* the phase of lang::run
  broken,     \* a panic left the cell that stores the stdin pipe borrowed
  emitted,    \* history: chunks each program wrote
  overlap,    \* history: do_run and a submission were under way together
  early       \* history: Stop of the current run was clicked before its Run was sent

page == <<exec, stopping, cur, shown, verdict, mode, launches>>
submission == <<submit, sub, collected, subverdict>>
channels == <<toWorker, toPage>>
coordinator == <<stop, inp, pipe, run, broken, emitted>>
history == <<overlap, early>>
vars == <<page, submission, next, channels, coordinator, history>>

Mode == {"batch", "interactive"}
\* Frozen: the program wrote to its own closed input, and that panic lets nobody
\* write, exit or be killed any more (see Process).
Alive == {"fetching", "compiling", "running", "frozen"}
\* Of a cancelled run whose pending handler keeps the process alive: orphan, and
\* gone when that handler ended.  Lost: the request panicked before its spawn.
\* Panicked: the task did, and nothing polls it or its stop channel again.
Phase == {"none", "lost", "panicked", "done", "orphan", "gone"} \cup Alive
Final == {"success", "error"}

ToWorker ==
  [type : {"run"}, run : RunId, batch : BOOLEAN] \cup [type : {"stdin", "cancel"}]
ToPage == [type : {"stdout"} \cup Final, run : RunId]

\* No result yet is not a result.
ASSUME ResultAssumption == None \notin ToPage

\* Types; at most one stop sender and one pipe are stored, of runs that began.
TypeOK ==
  /\ exec \in {"ready", "processing", "complete"} /\ stopping \in BOOLEAN
  /\ cur \in RunId \cup {None}
  /\ shown \in [RunId -> 0..MaxOut] /\ collected \in [RunId -> 0..MaxOut]
  /\ verdict \in ToPage \cup {None} /\ subverdict \in ToPage \cup {None}
  /\ mode \in Mode
  /\ launches \subseteq [run : RunId, mode : Mode]
  /\ submit \in {"ready", "preparing", "proxied", "uploading"}
  /\ sub \in RunId \cup {None}
  /\ next \in 1..(MaxRuns + 1)
  /\ toWorker \in Seq(ToWorker) /\ toPage \in Seq(ToPage)
  /\ stop \in RunId \cup {None} /\ inp \in RunId \cup {None}
  /\ pipe \in [RunId -> {"none", "open", "closed", "jammed"}]
  /\ run \in [RunId -> Phase] /\ broken \in BOOLEAN
  /\ emitted \in [RunId -> 0..MaxOut]
  /\ overlap \in BOOLEAN /\ early \in BOOLEAN
  /\ exec = "complete" <=> verdict # None
  /\ inp # None => run[inp] # "none" /\ pipe[inp] # "none"

Init ==
  /\ exec = "ready" /\ stopping = FALSE /\ cur = None
  /\ shown = [k \in RunId |-> 0] /\ verdict = None
  /\ mode \in Mode
  /\ launches = {}
  /\ submit = "ready" /\ sub = None
  /\ collected = [k \in RunId |-> 0] /\ subverdict = None
  /\ next = 1
  /\ toWorker = <<>> /\ toPage = <<>>
  /\ stop = None /\ inp = None
  /\ pipe = [k \in RunId |-> "none"]
  /\ run = [k \in RunId |-> "none"]
  /\ broken = FALSE
  /\ emitted = [k \in RunId |-> 0]
  /\ overlap = FALSE /\ early = FALSE

----------------------------------------------------------------------------
(* The page: clicks and the async blocks they start.                       *)

Submitting == submit \in {"preparing", "proxied", "uploading"}

\* Faulty variant: the outcome of the previous run stays.
ClickRunKeepsOutcome ==
  /\ exec \in {"ready", "complete"} /\ next \in RunId
  /\ exec' = "processing" /\ stopping' = FALSE /\ cur' = next
  /\ launches' = launches \cup {[run |-> next, mode |-> mode]}
  /\ next' = next + 1
  /\ overlap' = (overlap \/ Submitting)
  /\ early' = FALSE
  /\ UNCHANGED <<shown, verdict, mode, submission, channels, coordinator>>

\* do_run, from the Run button or from Ctrl-Enter in the editor.  The button is
\* disabled while submitting; the key binding is not.
ClickRun ==
  /\ exec \in {"ready", "complete"} /\ next \in RunId
  /\ exec' = "processing" /\ stopping' = FALSE /\ cur' = next
  /\ shown' = [k \in RunId |-> 0] /\ verdict' = None
  /\ launches' = launches \cup {[run |-> next, mode |-> mode]}
  /\ next' = next + 1
  /\ overlap' = (overlap \/ Submitting)
  /\ early' = FALSE
  /\ UNCHANGED <<mode, submission, channels, coordinator>>

\* The end of the async block of do_run.  In an interactive mode the text of the
\* input editor may follow as a chunk (mixed mode) or not (full mode).
SendRun ==
  \E l \in launches :
    /\ launches' = launches \ {l}
    /\ Len(toWorker) < MaxChunks
    /\ LET go == [type |-> "run", run |-> l.run, batch |-> l.mode = "batch"]
           text == [type |-> "stdin"]
       IN  \/ toWorker' = Append(toWorker, go)
           \/ l.mode = "interactive" /\ toWorker' = toWorker \o <<go, text>>
    /\ UNCHANGED <<exec, stopping, cur, shown, verdict, mode, submission, next, toPage,
                   coordinator, history>>

\* do_stop.
ClickStop ==
  /\ exec = "processing" /\ ~stopping
  /\ stopping' = TRUE
  /\ toWorker' = Append(toWorker, [type |-> "cancel"])
  /\ early' = (\E l \in launches : l.run = cur)
  /\ UNCHANGED <<exec, cur, shown, verdict, mode, launches, submission, next, toPage,
                 coordinator, overlap>>

\* add_input of the editor: shown unless the mode is batch, enabled as Stop is.
TypeInput ==
  /\ exec = "processing" /\ ~stopping /\ mode # "batch"
  /\ Len(toWorker) < MaxChunks
  /\ toWorker' = Append(toWorker, [type |-> "stdin"])
  /\ UNCHANGED <<page, submission, next, toPage, coordinator, history>>

\* The mode selector stays enabled during an execution.
SetMode ==
  /\ mode' \in Mode \ {mode}
  /\ UNCHANGED <<exec, stopping, cur, shown, verdict, launches, submission, next, channels,
                 coordinator, history>>

\* Faulty variant: the submit button does not mind a run.
ClickSubmitAnytime ==
  /\ submit = "ready" /\ next \in RunId
  /\ submit' = "preparing"
  /\ collected' = [k \in RunId |-> 0] /\ subverdict' = None
  /\ overlap' = (overlap \/ launches # {})
  /\ UNCHANGED <<page, sub, next, channels, coordinator, early>>

\* do_submit: disabled while submitting and while running.
ClickSubmit ==
  /\ submit = "ready" /\ exec # "processing" /\ next \in RunId
  /\ submit' = "preparing"
  /\ collected' = [k \in RunId |-> 0] /\ subverdict' = None
  /\ overlap' = (overlap \/ launches # {})
  /\ UNCHANGED <<page, sub, next, channels, coordinator, early>>

\* Terry: the proxy is installed and the run of the submission requested.
SubmitSend ==
  /\ submit = "preparing" /\ next \in RunId
  /\ submit' = "proxied" /\ sub' = next /\ next' = next + 1
  /\ toWorker' = Append(toWorker, [type |-> "run", run |-> next, batch |-> TRUE])
  /\ UNCHANGED <<page, collected, subverdict, toPage, coordinator, history>>

\* The request for the input failed, or the uploads ended.
SubmitEnd ==
  /\ submit \in {"preparing", "uploading"}
  /\ submit' = "ready"
  /\ UNCHANGED <<page, sub, collected, subverdict, next, channels, coordinator, history>>

----------------------------------------------------------------------------
(* The page: messages of the coordinator.                                  *)

\* handle_exec_message while the proxy is installed.  After the final message
\* the submission reads no more of them.
ToProxy(m) ==
  /\ submit \in {"proxied", "uploading"}
  /\ IF submit = "uploading" THEN UNCHANGED submission
     ELSE IF m.type = "stdout"
     THEN /\ collected' = [collected EXCEPT ![m.run] = @ + 1]
          /\ UNCHANGED <<submit, sub, subverdict>>
     ELSE /\ subverdict' = m /\ submit' = "uploading"
          /\ UNCHANGED <<sub, collected>>
  /\ UNCHANGED page

\* Faulty variant: once Stop is clicked, messages are dropped.
ToStateUnlessStopping(m) ==
  /\ submit \notin {"proxied", "uploading"}
  /\ IF exec # "processing" \/ stopping THEN UNCHANGED page
     ELSE IF m.type = "stdout"
     THEN /\ shown' = [shown EXCEPT ![m.run] = @ + 1]
          /\ UNCHANGED <<exec, stopping, cur, verdict, mode, launches>>
     ELSE /\ exec' = "complete" /\ verdict' = m /\ stopping' = FALSE
          /\ UNCHANGED <<cur, shown, mode, launches>>
  /\ UNCHANGED submission

\* handle_exec_message on StateExec: whatever comes when nothing is processed is
\* dropped with a warning.
ToState(m) ==
  /\ submit \notin {"proxied", "uploading"}
  /\ IF exec # "processing" THEN UNCHANGED page
     ELSE IF m.type = "stdout"
     THEN /\ shown' = [shown EXCEPT ![m.run] = @ + 1]
          /\ UNCHANGED <<exec, stopping, cur, verdict, mode, launches>>
     ELSE /\ exec' = "complete" /\ verdict' = m /\ stopping' = FALSE
          /\ UNCHANGED <<cur, shown, mode, launches>>
  /\ UNCHANGED submission

ReceivePage ==
  /\ toPage # <<>>
  /\ toPage' = Tail(toPage)
  /\ ToProxy(Head(toPage)) \/ ToState(Head(toPage))
  /\ UNCHANGED <<next, toWorker, coordinator, history>>

----------------------------------------------------------------------------
(* The coordinator: requests (exec.rs).                                    *)

Message(k, type) == <<[type |-> type, run |-> k]>>

\* The stop channel of the stored sender resolves, by a send or because the sender
\* is dropped: select! reports the cancellation and drops lang::run.  A program with
\* a handler that still waits goes on.
Cancellable == stop # None /\ run[stop] \in Alive
Cancelled ==
  IF ~ Cancellable THEN {run}
  ELSE {[run EXCEPT ![stop] = p] :
         p \in IF run[stop] = "frozen" THEN {"gone"}
               ELSE {"done"} \cup (IF run[stop] = "running" THEN {"orphan"} ELSE {})}
CancelReport == IF Cancellable THEN Message(stop, "error") ELSE <<>>

\* Faulty variant: the previous run keeps its stop channel.
HandleRunBeside(k, batch) ==
  /\ run' = [run EXCEPT ![k] = "fetching"]
  /\ pipe' = [pipe EXCEPT ![k] = IF batch THEN "closed" ELSE "open"]
  /\ stop' = k /\ inp' = k
  /\ UNCHANGED <<toPage, broken>>

\* run: storing the new sender drops the one of the previous run.  The pipe of a
\* batch run is written and closed before it is stored.  With the cell borrowed
\* by an earlier panic this panics too, before anything is spawned.
HandleRun(k, batch) ==
  /\ \E r \in Cancelled : run' = [r EXCEPT ![k] = IF broken THEN "lost" ELSE "fetching"]
  /\ toPage' = toPage \o CancelReport
  /\ pipe' = [pipe EXCEPT ![k] = IF batch THEN "closed" ELSE "open"]
  /\ stop' = k
  /\ inp' = IF broken THEN inp ELSE k
  /\ UNCHANGED broken

\* stdin_chunk: writes to the stored pipe, whoever typed; none stored, it warns.
\* Writing to a closed or jammed pipe panics.
HandleStdin ==
  /\ broken' = (broken \/ (inp # None /\ pipe[inp] # "open"))
  /\ UNCHANGED <<stop, inp, pipe, run, toPage>>

\* The stored pipe is taken and closed; closing a jammed one panics.
CloseInput ==
  IF broken \/ inp = None THEN UNCHANGED <<inp, pipe, broken>>
  ELSE /\ inp' = None
       /\ IF pipe[inp] = "jammed" THEN broken' = TRUE /\ UNCHANGED pipe
          ELSE pipe' = [pipe EXCEPT ![inp] = "closed"] /\ UNCHANGED broken

\* Faulty variant: the sender is forgotten unsent (and its channel kept open).
HandleCancelInput ==
  /\ stop' = None
  /\ CloseInput
  /\ UNCHANGED <<run, toPage>>

\* Faulty variant: cancel reports the cancellation itself.
HandleCancelReports ==
  /\ IF stop = None THEN UNCHANGED <<run, toPage>>
     ELSE /\ run' = [run EXCEPT ![stop] = IF @ \in Alive THEN "done" ELSE @]
          /\ toPage' = toPage \o Message(stop, "error")
  /\ stop' = None
  /\ CloseInput

\* cancel: the sender is taken and sent, then the pipe taken and closed; with the
\* cell borrowed the second half does nothing but panic.
HandleCancel ==
  /\ run' \in Cancelled /\ toPage' = toPage \o CancelReport
  /\ stop' = None
  /\ CloseInput

ReceiveWorker ==
  /\ toWorker # <<>>
  /\ toWorker' = Tail(toWorker)
  /\ LET m == Head(toWorker) IN
     \/ m.type = "run" /\ HandleRun(m.run, m.batch)
     \/ m.type = "stdin" /\ HandleStdin
     \/ m.type = "cancel" /\ HandleCancel
  /\ UNCHANGED <<page, submission, next, emitted, history>>

----------------------------------------------------------------------------
(* The coordinator: the phases of lang::run.                               *)

Away == UNCHANGED <<page, submission, next, toWorker, stop, inp, broken, history>>
Elsewhere == Away /\ UNCHANGED pipe

\* The task of the run panics: it reports nothing, then or later.
Panics(k) == run' = [run EXCEPT ![k] = "panicked"] /\ UNCHANGED <<toPage, emitted>>

\* A final message: the branch of select! where lang::run is ready.
End(k, type) ==
  /\ run' = [run EXCEPT ![k] = "done"]
  /\ toPage' = toPage \o Message(k, type)
  /\ UNCHANGED emitted

\* get_fs has the compiler, failed, or panicked on a broken download (CompilerCache
\* has the mutex it keeps).  C, C++ and Rust compile, Python runs; a program whose
\* memory cannot be created panics.
Fetched(k) ==
  /\ run[k] = "fetching"
  /\ \/ \E p \in {"compiling", "running"} : run' = [run EXCEPT ![k] = p]
        /\ UNCHANGED <<toPage, emitted>>
     \/ End(k, "error") \/ Panics(k)
  /\ Elsewhere

\* Compiler and linker exited with success, or one of them did not; or what they
\* made cannot be started.
Compiled(k) ==
  /\ run[k] = "compiling"
  /\ \/ run' = [run EXCEPT ![k] = "running"] /\ UNCHANGED <<toPage, emitted>>
     \/ End(k, "error") \/ Panics(k)
  /\ Elsewhere

\* The program writes: fd_write, the output pipe and the task that drains it.
Output(k) ==
  /\ run[k] \in {"running", "orphan"}
  /\ emitted[k] < MaxOut
  /\ emitted' = [emitted EXCEPT ![k] = @ + 1]
  /\ toPage' = toPage \o Message(k, "stdout")
  /\ UNCHANGED run
  /\ Elsewhere

\* The program writes to its own closed input: the assertion of the pipe fails with
\* the pipe and the process borrowed.
WriteToInput(k) ==
  /\ pipe[k] = "closed" /\ pipe' = [pipe EXCEPT ![k] = "jammed"]
  /\ \/ run[k] = "running" /\ run' = [run EXCEPT ![k] = "frozen"]
     \/ run[k] = "orphan" /\ run' = [run EXCEPT ![k] = "gone"]
  /\ UNCHANGED <<toPage, emitted>>
  /\ Away

\* wait() returned: exit code zero, or anything else.
Exited(k) ==
  /\ run[k] = "running"
  /\ \E type \in Final : End(k, type)
  /\ Elsewhere

\* The last pending handler of a cancelled program ended.
OrphanEnds(k) ==
  /\ run[k] = "orphan"
  /\ run' = [run EXCEPT ![k] = "gone"]
  /\ UNCHANGED <<toPage, emitted>>
  /\ Elsewhere

Next ==
  \/ ClickRun \/ SendRun \/ ClickStop \/ TypeInput \/ SetMode
  \/ ClickSubmit \/ SubmitSend \/ SubmitEnd
  \/ ReceivePage \/ ReceiveWorker
  \/ \E k \in RunId : Fetched(k) \/ Compiled(k) \/ Output(k) \/ Exited(k) \/ OrphanEnds(k)
                         \/ WriteToInput(k)

SafeSpec == Init /\ [][Next]_vars

\* Both event loops go on and the awaits of do_run (reading the editors) end.
\* Clicks, downloads and the user's program owe nothing.
Fairness == WF_vars(SendRun) /\ WF_vars(ReceivePage) /\ WF_vars(ReceiveWorker)

Spec == SafeSpec /\ Fairness

----------------------------------------------------------------------------
(* Properties.  overlap marks the one way a user has to run and submit at  *)
(* once, Ctrl-Enter during a submission; there the page loses track.       *)

\* Whatever is still compiling or running can be stopped: its stop sender is
\* the stored one, so there is at most one such run.
AliveIsStoppable == \A k \in RunId : run[k] \in Alive => stop = k

\* The result shown is of the run shown, never a late answer of an earlier run
\* that was stopped, replaced, or ended while Stop was on its way; a program that
\* ended well has all its output on the page; and output of another run comes only
\* from a stopped program that outlived its run.
ResultIsMine ==
  ~overlap =>
    /\ exec = "complete" => verdict.run = cur
    /\ exec = "complete" /\ verdict.type = "success" => shown[cur] = emitted[cur]
    /\ \A k \in RunId \ {cur} : shown[k] > 0 => run[k] \in {"orphan", "gone"}

\* A submission takes no other run's end for its own, uploads on success all its own
\* run wrote, and other output only of a stopped program that outlived its run.
SubmissionIsMine ==
  ~overlap /\ subverdict # None =>
    /\ subverdict.run = sub
    /\ subverdict.type = "success" => collected[sub] = emitted[sub]
    /\ \A k \in RunId \ {sub} : collected[k] > 0 => run[k] \in {"orphan", "gone"}

\* A run that ended in the coordinator ends on the page.
EndReachesThePage ==
  \A k \in RunId :
    exec = "processing" /\ cur = k /\ run[k] = "done" ~> exec # "processing" \/ overlap

\* Stop ends the execution whatever the program does, if Run was sent before and
\* no panic left the coordinator's cell borrowed or the task of this run dead, as a
\* broken download does.
StopEndsTheRun ==
  exec = "processing" /\ stopping /\ ~early
    ~> exec = "complete" \/ overlap \/ broken
       \/ \E k \in RunId : cur = k /\ run[k] = "panicked"

\* The assertion of Pipe::write: nobody writes to a closed pipe.  Refuted by a
\* chunk typed in an interactive mode while the stored pipe is a batch run's.
NoPanic == ~broken
============================================================================
