----------------------------- MODULE LangServer -----------------------------
(***************************************************************************)
(* The language server of the editor: the Effect of frontend/src/main.rs   *)
(* that asks for one, handle_ls_message and the StateLS it keeps, the LSP  *)
(* client that editor.rs connects, and the coordinator's ls.rs with the    *)
(* phases of lang::run_ls.                                                 *)
(*                                                                         *)
(* As in ExecSession, page and coordinator are event loops joined by two   *)
(* ordered queues, and an event includes the tasks it wakes: a stopped     *)
(* session reports Stopped before the coordinator's next event, and what   *)
(* the page puts in ls_message_chan reaches the client at once.            *)
(*                                                                         *)
(* No message says which session it belongs to.  The field s of a message  *)
(* is what the code does not have: the session that sent it, or for a      *)
(* message of the client the session the page wanted when it was sent.     *)
(***************************************************************************)
EXTENDS Naturals, Sequences, FiniteSets

CONSTANTS
  MaxSessions, \* bound on the Start messages of a page
  MaxTalk,     \* bound on the messages one server sends
  MaxNotes,    \* bound on the client's messages in flight
  None

ASSUME LangServerAssumption ==
  /\ MaxSessions \in Nat \ {0} /\ MaxTalk \in Nat /\ MaxNotes \in Nat
  /\ None \notin Nat

Session == 1..MaxSessions

VARIABLES
  \* the page
  ls,      \* StateLS
  ran,     \* the Effect has run before
  cur,     \* the session the page wants
  conn,    \* the session whose Started connected the client
  next,    \* the next session
  \* the channels
  toWorker, toPage,
  \* the coordinator
  stop,    \* whose stop sender is stored
  inp,     \* whose stdin pipe is stored
  pipe,    \* the stdin pipe of each session
  run,     \* the phase of lang::run_ls
  \* history
  inits,   \* initialize requests in the pipe of each session
  sent,    \* messages each server sent
  heard,   \* the last message the client got: from, to, and conn when it did
  crossed  \* the page took the Error of another session for the one it connected

page == <<ls, ran, cur, conn, next, heard, crossed>>
server == <<stop, inp, pipe, run, inits, sent>>
vars == <<page, toWorker, toPage, server>>

Alive == {"mirroring", "fetching", "running"}
\* Orphan and gone as in ExecSession.  Lost: the session's task panicked, and nothing
\* polls it or its stop channel again.
Phase == {"none", "lost", "done", "failed", "orphan", "gone"} \cup Alive

Client == {"initialize", "note"}
ToWorker == [type : {"start", "stop"} \cup Client, s : Session \cup {None}]
ToPage == [type : {"fetching", "started", "message", "stopped", "error"}, s : Session]

Ask(type, s) == [type |-> type, s |-> s]
Tell(type, s) == [type |-> type, s |-> s]

\* Types; the pipe that is stored belongs to the session whose sender is.
TypeOK ==
  /\ ls \in {"ready", "requested", "fetching", "running", "error"} /\ ran \in BOOLEAN
  /\ cur \in Session \cup {None} /\ conn \in Session \cup {None}
  /\ next \in 1..(MaxSessions + 1)
  /\ toWorker \in Seq(ToWorker) /\ toPage \in Seq(ToPage)
  /\ stop \in Session \cup {None} /\ inp = stop
  /\ pipe \in [Session -> {"none", "open", "closed"}]
  /\ run \in [Session -> Phase]
  /\ inits \in [Session -> Nat] /\ sent \in [Session -> 0..MaxTalk]
  /\ heard \in [from : Session, to : Session, by : Session] \cup {None}
  /\ crossed \in BOOLEAN
  /\ conn # None => cur # None /\ ls \in {"running", "error", "fetching"}

Init ==
  /\ ls = "ready" /\ ran = FALSE /\ cur = None /\ conn = None /\ next = 1
  /\ toWorker = <<>> /\ toPage = <<>>
  /\ stop = None /\ inp = None
  /\ pipe = [k \in Session |-> "none"] /\ run = [k \in Session |-> "none"]
  /\ inits = [k \in Session |-> 0] /\ sent = [k \in Session |-> 0]
  /\ heard = None /\ crossed = FALSE

----------------------------------------------------------------------------
(* The page.                                                               *)

\* Faulty variant: the new server is requested before the old one is stopped.
RetargetStartsFirst ==
  \E dir \in BOOLEAN :
    /\ IF dir THEN next \in Session ELSE cur # None \/ ~ ran  \* a bound
    /\ ran' = TRUE /\ conn' = None
    /\ cur' = IF dir THEN next ELSE None
    /\ ls' = IF dir THEN "requested" ELSE "ready"
    /\ next' = IF dir THEN next + 1 ELSE next
    /\ toWorker' = toWorker
         \o (IF dir THEN <<Ask("start", next)>> ELSE <<>>)
         \o (IF ran THEN <<Ask("stop", None)>> ELSE <<>>)
    /\ UNCHANGED <<toPage, server, heard, crossed>>

\* Faulty variant: the client is not told that its server stops.
RetargetKeepsClient ==
  \E dir \in BOOLEAN :
    /\ IF dir THEN next \in Session ELSE cur # None \/ ~ ran  \* a bound
    /\ ran' = TRUE /\ conn' = conn
    /\ cur' = IF dir THEN next ELSE None
    /\ ls' = IF dir THEN "requested" ELSE "ready"
    /\ next' = IF dir THEN next + 1 ELSE next
    /\ toWorker' = toWorker
         \o (IF ran THEN <<Ask("stop", None)>> ELSE <<>>)
         \o (IF dir THEN <<Ask("start", next)>> ELSE <<>>)
    /\ UNCHANGED <<toPage, server, heard, crossed>>

\* The Effect: the language, the directory or the set of files changed.  The
\* client is told first that the server stops; there may be no directory yet.
Retarget ==
  \E dir \in BOOLEAN :
    /\ IF dir THEN next \in Session ELSE cur # None \/ ~ ran  \* a bound
    /\ ran' = TRUE /\ conn' = None
    /\ cur' = IF dir THEN next ELSE None
    /\ ls' = IF dir THEN "requested" ELSE "ready"
    /\ next' = IF dir THEN next + 1 ELSE next
    /\ toWorker' = toWorker
         \o (IF ran THEN <<Ask("stop", None)>> ELSE <<>>)
         \o (IF dir THEN <<Ask("start", next)>> ELSE <<>>)
    /\ UNCHANGED <<toPage, server, heard, crossed>>

\* LSEventHandler.ready: the client connects, which sends initialize.
OnStarted(m) ==
  IF ls \in {"requested", "fetching"}
  THEN /\ ls' = "running" /\ conn' = m.s
       /\ toWorker' = Append(toWorker, Ask("initialize", cur))
       /\ UNCHANGED <<heard, crossed>>
  ELSE UNCHANGED <<ls, conn, toWorker, heard, crossed>>

\* Faulty variant: a page that shows an error waits for nothing more.
OnFetchingOnce(m) ==
  /\ ls' = IF ls = "requested" THEN "fetching" ELSE ls
  /\ UNCHANGED <<conn, toWorker, heard, crossed>>

\* A page that shows the error of an earlier session takes it as its own.
OnFetching(m) ==
  /\ ls' = IF ls \in {"requested", "error"} THEN "fetching" ELSE ls
  /\ UNCHANGED <<conn, toWorker, heard, crossed>>

OnMessage(m) ==
  /\ heard' = IF ls = "running" /\ conn # None
              THEN [from |-> m.s, to |-> cur, by |-> conn] ELSE heard
  /\ UNCHANGED <<ls, conn, toWorker, crossed>>

\* Faulty variant: only a server that is starting can fail.
OnErrorStarting(m) ==
  /\ ls' = IF ls \in {"requested", "fetching"} THEN "error" ELSE ls
  /\ crossed' = crossed
  /\ UNCHANGED <<conn, toWorker, heard>>

\* The state only: the client is not told, it stays connected.
OnError(m) ==
  /\ ls' = IF ls \in {"requested", "fetching", "running"} THEN "error" ELSE ls
  /\ crossed' = (crossed \/ (ls = "running" /\ m.s # cur))
  /\ UNCHANGED <<conn, toWorker, heard>>

\* handle_ls_message.  Stopped changes nothing in any state.
ReceivePage ==
  /\ toPage # <<>>
  /\ LET m == Head(toPage) IN
       CASE m.type = "fetching" -> OnFetching(m)
         [] m.type = "started" -> OnStarted(m)
         [] m.type = "message" -> OnMessage(m)
         [] m.type = "error" -> OnError(m)
         [] OTHER -> UNCHANGED <<ls, conn, toWorker, heard, crossed>>
  /\ toPage' = Tail(toPage)
  /\ UNCHANGED <<ran, cur, next, server>>

\* The connected client sends what it likes: edits, completion requests.
Note ==
  /\ conn # None
  /\ Len(SelectSeq(toWorker, LAMBDA m : m.type = "note")) < MaxNotes
  /\ toWorker' = Append(toWorker, Ask("note", cur))
  /\ UNCHANGED <<page, toPage, server>>

----------------------------------------------------------------------------
(* The coordinator.                                                        *)

\* What stop() makes of the stored session: its select! drops the future and
\* reports, unless the session is over.  A server with a pending system call
\* outlives its ProcessHandle.
Stopping == stop # None /\ run[stop] \in Alive
StopRuns ==
  IF ~ Stopping THEN {run}
  ELSE {[run EXCEPT ![stop] = e] :
         e \in {"done"} \cup (IF run[stop] = "running" THEN {"orphan"} ELSE {})}
StopReport == IF Stopping THEN <<Tell("stopped", stop)>> ELSE <<>>
StopPipes == IF inp = None THEN pipe ELSE [pipe EXCEPT ![inp] = "closed"]

HandleStart(m) ==
  /\ stop' = m.s /\ inp' = m.s
  /\ pipe' = [StopPipes EXCEPT ![m.s] = "open"]
  /\ \E r \in StopRuns : run' = [r EXCEPT ![m.s] = "mirroring"]
  /\ toPage' = toPage \o StopReport
  /\ UNCHANGED <<inits, sent>>

\* Faulty variant: the server is left to exit at the end of its input.
HandleStopClosesOnly ==
  /\ stop' = None /\ inp' = None
  /\ pipe' = StopPipes /\ run' = run
  /\ UNCHANGED <<toPage, inits, sent>>

\* Faulty variant: the stdin stays stored.
HandleStopKeepsStdin ==
  /\ stop' = None /\ inp' = inp
  /\ pipe' = StopPipes /\ run' \in StopRuns
  /\ toPage' = toPage \o StopReport
  /\ UNCHANGED <<inits, sent>>

HandleStop ==
  /\ stop' = None /\ inp' = None
  /\ pipe' = StopPipes /\ run' \in StopRuns
  /\ toPage' = toPage \o StopReport
  /\ UNCHANGED <<inits, sent>>

\* message(): into the stored pipe, whether or not a server reads it.
HandleMessage(m) ==
  /\ inits' = IF m.type = "initialize" /\ inp # None
              THEN [inits EXCEPT ![inp] = @ + 1] ELSE inits
  /\ UNCHANGED <<stop, inp, pipe, run, sent, toPage>>

\* handle_ls_request.
ReceiveWorker ==
  /\ toWorker # <<>>
  /\ LET m == Head(toWorker) IN
       \/ m.type = "start" /\ HandleStart(m)
       \/ m.type = "stop" /\ HandleStop
       \/ m.type \in Client /\ HandleMessage(m)
  /\ toWorker' = Tail(toWorker)
  /\ UNCHANGED page

Becomes(k, phase, types) ==
  /\ run' = [run EXCEPT ![k] = phase]
  /\ toPage' = toPage \o [i \in DOMAIN types |-> Tell(types[i], k)]
  /\ UNCHANGED <<page, toWorker, stop, inp, pipe, inits, sent>>

\* read_code_dir: common::opfs panics where OPFS refuses, say a file that was
\* removed after the names were listed; nobody reports a panic.  Then lang::run_ls
\* refuses an unknown language or announces the fetch.
Mirrored ==
  \E k \in Session :
    /\ run[k] = "mirroring"
    /\ \/ Becomes(k, "lost", <<>>)
       \/ Becomes(k, "failed", <<"error">>)
       \/ Becomes(k, "fetching", <<"fetching">>)

\* get_fs answered, or panicked on a broken download (as the spawn does without
\* memory); the server is spawned, and run_ls for Rust has none to spawn.
Fetched ==
  \E k \in Session :
    /\ run[k] = "fetching"
    /\ \/ Becomes(k, "lost", <<>>)
       \/ Becomes(k, "failed", <<"error">>)
       \/ Becomes(k, "running", <<"started">>)
       \/ Becomes(k, "done", <<"started", "stopped">>)

\* The server's process ended by itself.
Exited ==
  \E k \in Session :
    /\ run[k] = "running"
    /\ \/ Becomes(k, "done", <<"stopped">>)
       \/ Becomes(k, "failed", <<"error">>)

\* A server answers once it was asked; the task that frames its stdout sends on
\* what an orphan writes too.
Talk ==
  \E k \in Session :
    /\ run[k] \in {"running", "orphan"} /\ inits[k] > 0 /\ sent[k] < MaxTalk
    /\ sent' = [sent EXCEPT ![k] = @ + 1]
    /\ toPage' = Append(toPage, Tell("message", k))
    /\ UNCHANGED <<page, toWorker, stop, inp, pipe, run, inits>>

OrphanEnds ==
  \E k \in Session : run[k] = "orphan" /\ Becomes(k, "gone", <<>>)

Next ==
  \/ Retarget \/ ReceivePage \/ Note
  \/ ReceiveWorker \/ Mirrored \/ Fetched \/ Exited \/ Talk \/ OrphanEnds

\* The browser delivers what is posted; the phases end when they end.
Spec == Init /\ [][Next]_vars /\ WF_vars(ReceivePage) /\ WF_vars(ReceiveWorker)

----------------------------------------------------------------------------
(* What should hold.                                                       *)

\* However fast the page changes its mind, one server at most is being started or
\* runs, the one that stop() can reach (ls.rs start, whose TODO asks whether it
\* should wait for the previous one).
OneServer == \A k \in Session : run[k] \in Alive => stop = k

\* What the client sends is written to the open pipe of the session the page
\* wanted then: no edit for one server reaches another, even when the Started that
\* connected the client was an earlier session's.
\* And a client connected by the Started of the session it is for hears that session
\* only, or the threads of one that the drop did not kill.
NoForeignMessage ==
  /\ (toWorker # <<>> /\ Head(toWorker).type \in Client)
       => inp = Head(toWorker).s /\ pipe[inp] = "open"
  /\ (heard # None /\ heard.by = heard.to)
       => heard.from = heard.to \/ run[heard.from] \in {"orphan", "gone"}

\* No server reads an edit or a question of the client before it was asked to
\* initialize, whichever session's Started connected the client; and none is asked
\* twice, unless the page took an earlier session's Error for the failure of the one
\* it is connected to.
InitializeFirst ==
  /\ toWorker # <<>> /\ Head(toWorker).type = "note" => inp # None /\ inits[inp] > 0
  /\ crossed \/ \A k \in Session : inits[k] <= 1

\* The server the page wants is asked to initialize once it runs, whatever late
\* messages of earlier sessions the page received before its Started.
ServerIsInitialized ==
  \A k \in Session :
    (cur = k /\ run[k] = "running") ~> (inits[k] > 0 \/ cur # k \/ run[k] # "running")

\* The page shows an error when the session it wants has failed, in whatever state
\* the messages of earlier sessions have left it.
FailureIsShown ==
  \A k \in Session : (cur = k /\ run[k] = "failed") ~> (ls = "error" \/ cur # k)
=============================================================================
