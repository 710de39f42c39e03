--------------------------- MODULE BackendsProofs ---------------------------
(* A run ends once, for any number of runs and changes of file.            *)
EXTENDS Backends, TLAPS

Message == [type : {"run", "cancel"}, run : RunId \cup {None}]
Asks(i) == toWorker[i].run # None

Place == {"nowhere", "launch", "js", "remote", "queue", "coordinator", "answer"}

\* What is left of a run is in one place: it waits to be sent, goes on in one
\* backend, or is on its way to the coordinator or back.
At(p) ==
  /\ launch # None => p = "launch" /\ launch.run = cur
  /\ execution # None \/ workers # {} =>
       p = "js" /\ execution = cur /\ \A w \in workers : w.run = cur
  /\ requests # {} => p = "remote" /\ requests = {cur}
  /\ \A i \in 1..Len(toWorker) : Asks(i) => p = "queue" /\ toWorker[i].run = cur
  /\ \A i, j \in 1..Len(toWorker) : Asks(i) /\ Asks(j) => i = j
  /\ alive # None => p = "coordinator" /\ alive = cur
  /\ toPage # <<>> => p = "answer" /\ toPage = <<cur>>
  /\ p # "nowhere" => exec = "processing"

\* The page waits for the end of a run that did not end, and for no other.
Owed ==
  /\ exec = "processing" => cur # None /\ ends[cur] = 0
  /\ cur # None => cur < next
  /\ \A k \in RunId : k >= next => ends[k] = 0

IInv == TypeOK /\ (\E p \in Place : At(p)) /\ Owed /\ EndsOnce

\* None is no run.
LEMMA NoneIsNoRun == None \notin RunId /\ RunId \subseteq Nat
  BY BackendsAssumption DEF RunId

\* The inductive invariant holds at first.
LEMMA InitIInv == Init => IInv
<1> SUFFICES ASSUME Init PROVE IInv
  OBVIOUS
<1>1. next \in 1..(MaxRuns + 1)
  BY BackendsAssumption DEF Init
<1>2. ends \in [RunId -> Nat] /\ on \in [RunId -> Kind \cup {None}]
  BY DEF Init
<1>3. TypeOK
  <2>1. toWorker \in Seq([type : {"run", "cancel"}, run : RunId \cup {None}])
        /\ toPage \in Seq(RunId)
    BY DEF Init
  <2>2. workers \subseteq JsWorker /\ requests \subseteq RunId
    BY DEF Init
  <2> QED
    BY <1>1, <1>2, <2>1, <2>2 DEF Init, TypeOK
<1>4. At("nowhere")
  BY DEF Init, At
<1>5. Owed /\ EndsOnce
  BY DEF Init, Owed, EndsOnce
<1> QED
  BY <1>3, <1>4, <1>5 DEF IInv, Place

\* The end of the run the page waits for: nothing else is left of it.
LEMMA FinalInv ==
  ASSUME IInv, exec = "processing", Final(cur), cur' = cur, next' = next
  PROVE  /\ exec' = "complete" /\ verdict' = cur
         /\ verdict' \in RunId \cup {None} /\ ends' \in [RunId -> Nat]
         /\ Owed' /\ EndsOnce'
<1>1. cur \in RunId /\ ends[cur] = 0 /\ cur < next
  BY NoneIsNoRun DEF IInv, Owed, TypeOK
<1>2. exec' = "complete" /\ verdict' = cur /\ ends' = [ends EXCEPT ![cur] = 1]
  <2>1. ends[cur] + 1 = 1
    BY <1>1
  <2> QED
    BY <2>1 DEF Final
<1>3. ends \in [RunId -> Nat] /\ next \in Nat
  BY BackendsAssumption DEF IInv, TypeOK
<1>4. ends' \in [RunId -> Nat]
  BY <1>2, <1>3
<1>5. ASSUME NEW k \in RunId PROVE ends'[k] <= 1 /\ (k >= next => ends'[k] = 0)
  <2>1. ends[k] <= 1 /\ (k >= next => ends[k] = 0)
    BY DEF IInv, EndsOnce, Owed
  <2>2. k = cur => ~ (k >= next)
    BY <1>1, <1>3, NoneIsNoRun
  <2> QED
    BY <1>1, <1>2, <1>3, <2>1, <2>2
<1>6. Owed'
  BY <1>1, <1>2, <1>5 DEF Owed
<1>7. EndsOnce'
  BY <1>2, <1>5 DEF EndsOnce
<1> QED
  BY <1>1, <1>2, <1>4, <1>6, <1>7

\* Another file is opened: only the language changes.
LEMMA SwitchFileInv == IInv /\ SwitchFile => IInv'
<1> SUFFICES ASSUME IInv, SwitchFile PROVE IInv'
  OBVIOUS
<1>1. /\ exec' = exec /\ stopping' = stopping /\ cur' = cur /\ next' = next /\ verdict' = verdict
      /\ launch' = launch /\ execution' = execution /\ timeout' = timeout /\ workers' = workers
      /\ sender' = sender /\ requests' = requests /\ alive' = alive /\ toWorker' = toWorker
      /\ toPage' = toPage /\ on' = on /\ ends' = ends /\ stopOn' = stopOn /\ lang' \in Kind
  BY DEF SwitchFile, js, remote, coordinator
<1>2. TypeOK'
  BY <1>1 DEF IInv, TypeOK
<1>3. (\E p \in Place : At(p))'
  BY <1>1 DEF IInv, At, Asks
<1>4. Owed' /\ EndsOnce'
  BY <1>1 DEF IInv, Owed, EndsOnce
<1> QED
  BY <1>2, <1>3, <1>4 DEF IInv

\* A run begins: when nothing is processed, nothing is left of an earlier run.
LEMMA ClickRunInv == IInv /\ ClickRun => IInv'
<1> SUFFICES ASSUME IInv, ClickRun PROVE IInv'
  OBVIOUS
<1>1. PICK p \in Place : At(p)
  BY DEF IInv
<1>2. p = "nowhere"
  BY <1>1 DEF At, ClickRun
<1>3. next \in RunId /\ next # None /\ next + 1 \in 1..(MaxRuns + 1)
  BY NoneIsNoRun, BackendsAssumption DEF ClickRun, RunId
<1>4. PICK batch \in BOOLEAN : launch' = [run |-> next, batch |-> batch]
  BY DEF ClickRun
<1>5. TypeOK'
  BY <1>3, <1>4 DEF ClickRun, IInv, TypeOK, js, remote, coordinator
<1>6. At("launch")'
  BY <1>1, <1>2, <1>4 DEF At, Asks, ClickRun, js, remote, coordinator
<1>7. Owed'
  <2>1. cur' = next /\ next' = next + 1 /\ ends' = ends /\ next \in Nat
    BY <1>3, NoneIsNoRun DEF ClickRun
  <2>2. ends[next] = 0 /\ \A k \in RunId : k >= next + 1 => ends[k] = 0
    BY <1>3, <2>1, NoneIsNoRun DEF IInv, Owed
  <2> QED
    BY <1>3, <2>1, <2>2 DEF Owed
<1>8. EndsOnce'
  BY DEF ClickRun, IInv, EndsOnce
<1> QED
  BY <1>5, <1>6, <1>7, <1>8 DEF IInv, Place

\* The rest of the page and the history when nobody ends.
LEMMA QuietInv ==
  ASSUME IInv, NoFinal, UNCHANGED <<cur, next>>
  PROVE  Owed' /\ EndsOnce'
  BY DEF IInv, NoFinal, Owed, EndsOnce

\* Run is sent: what is left of the run moves from the page to a backend.
LEMMA SendRunInv == IInv /\ SendRun => IInv'
<1> SUFFICES ASSUME IInv, SendRun PROVE IInv'
  OBVIOUS
<1>1. PICK p \in Place : At(p)
  BY DEF IInv
<1>2. p = "launch" /\ launch.run = cur /\ cur \in RunId /\ cur # None
  BY <1>1, NoneIsNoRun DEF At, SendRun, IInv, TypeOK
<1>3. /\ launch' = None /\ exec = "processing"
      /\ UNCHANGED <<lang, stopping, cur, next, stopOn>>
  BY <1>1, <1>2 DEF At, SendRun
<1>4. /\ execution = None /\ workers = {} /\ requests = {} /\ alive = None /\ toPage = <<>>
      /\ \A i \in 1..Len(toWorker) : ~ Asks(i)
  BY <1>1, <1>2 DEF At
<1>5. CASE lang = "worker" /\ ToCoordinator("run", launch.run)
           /\ on' = [on EXCEPT ![launch.run] = "worker"]
           /\ NoFinal /\ UNCHANGED <<js, remote, alive, toPage>>
  <2>1. toWorker' = Append(toWorker, [type |-> "run", run |-> cur])
    BY <1>2, <1>5 DEF ToCoordinator
  <2>2. toWorker' \in Seq(Message)
    BY <1>2, <2>1 DEF IInv, TypeOK, Message
  <2>3. /\ Len(toWorker') = Len(toWorker) + 1 /\ Len(toWorker) \in Nat
        /\ \A i \in 1..Len(toWorker) : toWorker'[i] = toWorker[i]
        /\ toWorker'[Len(toWorker) + 1].run = cur
    BY <2>1 DEF IInv, TypeOK
  <2>4. \A i \in 1..Len(toWorker)' : Asks(i)' => i = Len(toWorker) + 1
    BY <1>4, <2>3 DEF Asks
  <2>5. on' \in [RunId -> Kind \cup {None}]
    BY <1>2, <1>5 DEF IInv, TypeOK, Kind
  <2>6. TypeOK'
    BY <1>3, <1>5, <2>2, <2>5 DEF IInv, TypeOK, NoFinal, js, remote, Message
  <2>7. At("queue")'
    BY <1>3, <1>4, <1>5, <2>3, <2>4 DEF At, NoFinal, js, remote
  <2> QED
    BY <1>3, <1>5, <2>6, <2>7, QuietInv DEF IInv, Place
<1>6. CASE lang = "js" /\ JsRun(launch.run, launch.batch)
           /\ NoFinal /\ UNCHANGED <<remote, coordinator>>
  <2>1. on' \in [RunId -> Kind \cup {None}]
    BY <1>2, <1>6 DEF IInv, TypeOK, Kind, JsRun
  <2>2. CASE ~ UNCHANGED <<js, on>>
    <3>1. /\ execution' = cur /\ timeout' \in BOOLEAN
          /\ workers' = {[run |-> cur, posted |-> FALSE]}
          /\ on' = [on EXCEPT ![cur] = "js"]
      BY <1>2, <1>4, <1>6, <2>2 DEF JsRun
    <3>2. TypeOK'
      BY <1>2, <1>3, <1>6, <2>1, <3>1 DEF IInv, TypeOK, NoFinal, remote, coordinator, JsWorker
    <3>3. At("js")'
      BY <1>3, <1>4, <1>6, <3>1 DEF At, Asks, NoFinal, remote, coordinator
    <3> QED
      BY <1>3, <1>6, <3>2, <3>3, QuietInv DEF IInv, Place
  <2>3. CASE UNCHANGED <<js, on>>
    <3>1. UNCHANGED <<js, on>>
      BY <2>3
    <3>2. TypeOK'
      BY <1>3, <1>6, <3>1 DEF IInv, TypeOK, NoFinal, js, remote, coordinator
    <3>3. At("nowhere")'
      BY <1>3, <1>4, <1>6, <3>1 DEF At, Asks, NoFinal, js, remote, coordinator
    <3> QED
      BY <1>3, <1>6, <3>2, <3>3, QuietInv DEF IInv, Place
  <2> QED
    BY <2>2, <2>3
<1>7. CASE lang = "remote" /\ RemoteRun(launch.run) /\ UNCHANGED <<js, coordinator>>
  <2>1. sender' = cur /\ requests' = {cur} /\ NoFinal
        /\ on' = [on EXCEPT ![cur] = "remote"]
    BY <1>2, <1>4, <1>7 DEF RemoteRun
  <2>2. on' \in [RunId -> Kind \cup {None}]
    BY <1>2, <2>1 DEF IInv, TypeOK, Kind
  <2>3. TypeOK'
    BY <1>2, <1>3, <1>7, <2>1, <2>2 DEF IInv, TypeOK, NoFinal, js, coordinator
  <2>4. At("remote")'
    BY <1>3, <1>4, <1>7, <2>1 DEF At, Asks, NoFinal, js, coordinator
  <2> QED
    BY <1>3, <2>1, <2>3, <2>4, QuietInv DEF IInv, Place
<1> QED
  BY <1>5, <1>6, <1>7 DEF SendRun

\* Stop: a backend that has the run ends it; the coordinator is asked to.
LEMMA ClickStopInv == IInv /\ ClickStop => IInv'
<1> SUFFICES ASSUME IInv, ClickStop PROVE IInv'
  OBVIOUS
<1>1. PICK p \in Place : At(p)
  BY DEF IInv
<1>2. /\ exec = "processing" /\ stopping' = TRUE /\ stopOn' \in Kind \cup {None}
      /\ UNCHANGED <<lang, cur, next, launch, on>>
  BY DEF ClickStop, IInv, TypeOK
<1>3. CASE lang = "worker" /\ ToCoordinator("cancel", None)
           /\ NoFinal /\ UNCHANGED <<js, remote, alive, toPage>>
  <2>1. toWorker' = Append(toWorker, [type |-> "cancel", run |-> None])
    BY <1>3 DEF ToCoordinator
  <2>2. toWorker' \in Seq(Message)
    BY <2>1 DEF IInv, TypeOK, Message
  <2>3. /\ Len(toWorker') = Len(toWorker) + 1 /\ Len(toWorker) \in Nat
        /\ \A i \in 1..Len(toWorker) : toWorker'[i] = toWorker[i]
        /\ toWorker'[Len(toWorker) + 1].run = None
    BY <2>1 DEF IInv, TypeOK
  <2>4. \A i \in 1..Len(toWorker)' : Asks(i)' =>
          i \in 1..Len(toWorker) /\ Asks(i) /\ toWorker'[i] = toWorker[i]
    BY <2>3 DEF Asks
  <2>5. TypeOK'
    BY <1>2, <1>3, <2>2 DEF IInv, TypeOK, NoFinal, js, remote, Message
  <2>6. At(p)'
    BY <1>1, <1>2, <1>3, <2>4 DEF At, NoFinal, js, remote
  <2> QED
    BY <1>2, <1>3, <2>5, <2>6, QuietInv DEF IInv
<1>4. CASE lang = "js" /\ JsCancel /\ UNCHANGED <<remote, coordinator>>
  <2>1. CASE execution = None
    <3>1. NoFinal /\ UNCHANGED js
      BY <1>4, <2>1 DEF JsCancel
    <3>2. TypeOK'
      BY <1>2, <1>4, <3>1 DEF IInv, TypeOK, NoFinal, js, remote, coordinator
    <3>3. At(p)'
      BY <1>1, <1>2, <1>4, <3>1 DEF At, Asks, NoFinal, js, remote, coordinator
    <3> QED
      BY <1>2, <3>1, <3>2, <3>3, QuietInv DEF IInv
  <2>2. CASE execution # None
    <3>1. p = "js" /\ execution = cur /\ \A w \in workers : w.run = cur
      BY <1>1, <2>2 DEF At
    <3>2. Final(cur) /\ execution' = None /\ timeout' = FALSE /\ workers' = {}
      BY <1>4, <2>2, <3>1 DEF JsCancel, FinishExecution
    <3>3. /\ exec' = "complete" /\ verdict' \in RunId \cup {None}
          /\ ends' \in [RunId -> Nat] /\ Owed' /\ EndsOnce'
      BY <1>2, <3>2, FinalInv
    <3>4. TypeOK'
      BY <1>2, <1>4, <3>2, <3>3 DEF IInv, TypeOK, remote, coordinator
    <3>5. At("nowhere")'
      BY <1>1, <1>2, <1>4, <3>1, <3>2 DEF At, Asks, remote, coordinator
    <3> QED
      BY <3>3, <3>4, <3>5 DEF IInv, Place
  <2> QED
    BY <2>1, <2>2
<1>5. CASE lang = "remote" /\ RemoteCancel /\ UNCHANGED <<js, coordinator>>
  <2>1. CASE sender \in requests
    <3>1. p = "remote" /\ requests = {cur} /\ sender = cur
      BY <1>1, <2>1 DEF At
    <3>2. Final(cur) /\ sender' = None /\ requests' = {}
      BY <1>5, <3>1 DEF RemoteCancel
    <3>3. /\ exec' = "complete" /\ verdict' \in RunId \cup {None}
          /\ ends' \in [RunId -> Nat] /\ Owed' /\ EndsOnce'
      BY <1>2, <3>2, FinalInv
    <3>4. TypeOK'
      BY <1>2, <1>5, <3>2, <3>3 DEF IInv, TypeOK, js, coordinator
    <3>5. At("nowhere")'
      BY <1>1, <1>2, <1>5, <3>1, <3>2 DEF At, Asks, js, coordinator
    <3> QED
      BY <3>3, <3>4, <3>5 DEF IInv, Place
  <2>2. CASE sender \notin requests
    <3>1. NoFinal /\ sender' = None /\ requests' = requests
      BY <1>5, <2>2 DEF RemoteCancel
    <3>2. TypeOK'
      BY <1>2, <1>5, <3>1 DEF IInv, TypeOK, NoFinal, js, coordinator
    <3>3. At(p)'
      BY <1>1, <1>2, <1>5, <3>1 DEF At, Asks, NoFinal, js, coordinator
    <3> QED
      BY <1>2, <3>1, <3>2, <3>3, QuietInv DEF IInv
  <2> QED
    BY <2>1, <2>2
<1> QED
  BY <1>3, <1>4, <1>5 DEF ClickStop

\* A Worker posts its end; the execution stays stored until the page hears it.
LEMMA JsEndsInv == IInv /\ JsEnds => IInv'
<1> SUFFICES ASSUME IInv, JsEnds PROVE IInv'
  OBVIOUS
<1>1. PICK p \in Place : At(p)
  BY DEF IInv
<1>2. PICK w \in workers :
        workers' = (workers \ {w}) \cup {[w EXCEPT !.posted = TRUE]}
  BY DEF JsEnds
<1>3. /\ w \in JsWorker /\ [w EXCEPT !.posted = TRUE] \in JsWorker
      /\ [w EXCEPT !.posted = TRUE].run = w.run
  BY DEF IInv, TypeOK, JsWorker
<1>4. UNCHANGED <<page, execution, timeout, remote, coordinator, on, ends, stopOn>>
  BY DEF JsEnds
<1>5. /\ workers' \subseteq JsWorker
      /\ execution # None => \E v \in workers' : v.run = execution
  BY <1>2, <1>3 DEF IInv, TypeOK
<1>6. TypeOK'
  BY <1>4, <1>5 DEF IInv, TypeOK, page, remote, coordinator
<1>7. At(p)'
  BY <1>1, <1>2, <1>3, <1>4 DEF At, Asks, page, remote, coordinator
<1>8. NoFinal /\ UNCHANGED <<cur, next>>
  BY <1>4 DEF NoFinal, page
<1> QED
  BY <1>6, <1>7, <1>8, QuietInv DEF IInv

\* The page hears of the end of the JS backend's run, by message or timeout.
LEMMA JsInv == IInv /\ (JsMessage \/ JsTimeout) => IInv'
<1> SUFFICES ASSUME IInv, JsMessage \/ JsTimeout PROVE IInv'
  OBVIOUS
<1>1. PICK p \in Place : At(p)
  BY DEF IInv
<1>2. workers # {} \/ execution # None
  BY DEF JsMessage, JsTimeout, IInv, TypeOK
<1>3. p = "js" /\ execution = cur /\ exec = "processing" /\ \A w \in workers : w.run = cur
  BY <1>1, <1>2 DEF At
<1>4. cur # None
  BY <1>3 DEF IInv, Owed
<1>5. Final(cur) /\ execution' = None /\ timeout' = FALSE /\ workers' = {}
  <2>1. CASE JsMessage
    BY <1>3, <1>4, <2>1 DEF JsMessage, JsDeliver
  <2>2. CASE JsTimeout
    BY <1>3, <1>4, <2>2 DEF JsTimeout, FinishExecution
  <2> QED
    BY <2>1, <2>2
<1>6. UNCHANGED <<Rest, remote, coordinator>>
  BY DEF JsMessage, JsTimeout
<1>7. /\ exec' = "complete" /\ verdict' \in RunId \cup {None}
      /\ ends' \in [RunId -> Nat] /\ Owed' /\ EndsOnce'
  BY <1>3, <1>5, <1>6, FinalInv DEF Rest
<1>8. TypeOK'
  BY <1>5, <1>6, <1>7 DEF IInv, TypeOK, Rest, remote, coordinator
<1>9. At("nowhere")'
  BY <1>1, <1>3, <1>5, <1>6 DEF At, Asks, Rest, remote, coordinator
<1> QED
  BY <1>7, <1>8, <1>9 DEF IInv, Place

\* The server answers.
LEMMA RemoteAnswerInv == IInv /\ RemoteAnswer => IInv'
<1> SUFFICES ASSUME IInv, RemoteAnswer PROVE IInv'
  OBVIOUS
<1>1. PICK p \in Place : At(p)
  BY DEF IInv
<1>2. p = "remote" /\ requests = {cur} /\ exec = "processing"
  BY <1>1 DEF At, RemoteAnswer
<1>3. /\ Final(cur) /\ requests' = {} /\ UNCHANGED <<Rest, sender, js, coordinator>>
  BY <1>2 DEF RemoteAnswer
<1>4. /\ exec' = "complete" /\ verdict' \in RunId \cup {None}
      /\ ends' \in [RunId -> Nat] /\ Owed' /\ EndsOnce'
  BY <1>2, <1>3, FinalInv DEF Rest
<1>5. TypeOK'
  BY <1>3, <1>4 DEF IInv, TypeOK, Rest, js, coordinator
<1>6. At("nowhere")'
  BY <1>1, <1>2, <1>3 DEF At, Asks, Rest, js, coordinator
<1> QED
  BY <1>4, <1>5, <1>6 DEF IInv, Place

\* The coordinator starts or ends what the page asked for.
LEMMA CoordinatorReceivesInv == IInv /\ CoordinatorReceives => IInv'
<1> SUFFICES ASSUME IInv, CoordinatorReceives PROVE IInv'
  OBVIOUS
<1>1. PICK p \in Place : At(p)
  BY DEF IInv
<1>2. /\ toWorker # <<>> /\ toWorker \in Seq(Message) /\ toPage \in Seq(RunId)
      /\ toWorker' = Tail(toWorker) /\ alive' = Head(toWorker).run
      /\ toPage' = IF alive = None THEN toPage ELSE Append(toPage, alive)
      /\ UNCHANGED <<page, js, remote, on, ends, stopOn>>
  BY DEF CoordinatorReceives, IInv, TypeOK, Message
<1>3. /\ Len(toWorker) \in Nat \ {0} /\ Len(toWorker') = Len(toWorker) - 1
      /\ \A i \in 1..Len(toWorker') : toWorker'[i] = toWorker[i + 1]
      /\ Head(toWorker) = toWorker[1] /\ Head(toWorker) \in Message
      /\ toWorker' \in Seq(Message)
  BY <1>2
<1>4. \A i \in 1..Len(toWorker)' : /\ i + 1 \in 1..Len(toWorker) /\ i + 1 # 1
                                   /\ Asks(i)' <=> Asks(i + 1)
  BY <1>3 DEF Asks
<1>5. alive' \in RunId \cup {None} /\ (alive' # None <=> Asks(1)) /\ 1 \in 1..Len(toWorker)
  BY <1>2, <1>3 DEF Message, Asks
<1>6. toPage' \in Seq(RunId)
  BY <1>2 DEF IInv, TypeOK
<1>7. TypeOK'
  BY <1>2, <1>3, <1>5, <1>6 DEF IInv, TypeOK, page, js, remote, Message
<1>8. \E q \in Place : At(q)'
  <2>1. CASE Asks(1)
    <3>1. p = "queue" /\ alive' = cur /\ alive = None /\ toPage = <<>>
      BY <1>1, <1>2, <1>3, <1>5, <2>1 DEF At
    <3>2. \A i \in 1..Len(toWorker)' : ~ Asks(i)'
      BY <1>1, <1>4, <1>5, <2>1 DEF At
    <3>3. At("coordinator")'
      BY <1>1, <1>2, <3>1, <3>2 DEF At, page, js, remote
    <3> QED
      BY <3>3 DEF Place
  <2>2. CASE ~ Asks(1) /\ alive = None
    <3>1. alive' = None /\ toPage' = toPage
      BY <1>2, <1>5, <2>2
    <3>2. /\ \A i \in 1..Len(toWorker)' : Asks(i)' => p = "queue" /\ toWorker'[i].run = cur
          /\ \A i, j \in 1..Len(toWorker)' : Asks(i)' /\ Asks(j)' => i = j
      <4>1. ASSUME NEW i \in 1..Len(toWorker)', Asks(i)'
            PROVE  p = "queue" /\ toWorker'[i].run = cur
        BY <1>1, <1>3, <1>4, <4>1 DEF At
      <4>2. ASSUME NEW i \in 1..Len(toWorker)', NEW j \in 1..Len(toWorker)', Asks(i)', Asks(j)'
            PROVE  i = j
        <5>1. i + 1 = j + 1
          BY <1>1, <1>4, <4>2 DEF At
        <5> QED
          BY <5>1, <1>3
      <4> QED
        BY <4>1, <4>2
    <3>3. At(p)'
      BY <1>1, <1>2, <3>1, <3>2 DEF At, page, js, remote
    <3> QED
      BY <3>3
  <2>3. CASE ~ Asks(1) /\ alive # None
    <3>1. p = "coordinator" /\ alive = cur /\ toPage = <<>>
      BY <1>1, <2>3 DEF At
    <3>2. alive' = None
      BY <1>5, <2>3
    <3>3. toPage' = <<cur>>
      BY <1>2, <2>3, <3>1
    <3>4. \A i \in 1..Len(toWorker)' : ~ Asks(i)'
      BY <1>1, <1>4, <3>1 DEF At
    <3>5. At("answer")'
      BY <1>1, <1>2, <3>1, <3>2, <3>3, <3>4 DEF At, page, js, remote
    <3> QED
      BY <3>5 DEF Place
  <2> QED
    BY <2>1, <2>2, <2>3
<1>9. Owed' /\ EndsOnce'
  BY <1>2, QuietInv DEF NoFinal, page
<1> QED
  BY <1>7, <1>8, <1>9 DEF IInv

\* The run of the coordinator ends and says so.
LEMMA CoordinatorEndsInv == IInv /\ CoordinatorEnds => IInv'
<1> SUFFICES ASSUME IInv, CoordinatorEnds PROVE IInv'
  OBVIOUS
<1>1. PICK p \in Place : At(p)
  BY DEF IInv
<1>2. p = "coordinator" /\ alive = cur /\ cur \in RunId /\ toPage = <<>>
  BY <1>1, NoneIsNoRun DEF At, CoordinatorEnds, IInv, TypeOK
<1>3. /\ alive' = None /\ toPage' = <<cur>>
      /\ UNCHANGED <<page, js, remote, toWorker, on, ends, stopOn>>
  BY <1>2 DEF CoordinatorEnds
<1>4. TypeOK'
  BY <1>2, <1>3 DEF IInv, TypeOK, page, js, remote
<1>5. At("answer")'
  BY <1>1, <1>2, <1>3 DEF At, Asks, page, js, remote
<1>6. Owed' /\ EndsOnce'
  BY <1>3, QuietInv DEF NoFinal, page
<1> QED
  BY <1>4, <1>5, <1>6 DEF IInv, Place

\* The page hears of the end of the coordinator's run.
LEMMA PageReceivesInv == IInv /\ PageReceives => IInv'
<1> SUFFICES ASSUME IInv, PageReceives PROVE IInv'
  OBVIOUS
<1>1. PICK p \in Place : At(p)
  BY DEF IInv
<1>2. p = "answer" /\ toPage = <<cur>> /\ exec = "processing"
  BY <1>1 DEF At, PageReceives
<1>3. Final(cur) /\ toPage' = <<>> /\ UNCHANGED <<Rest, js, remote, alive, toWorker>>
  BY <1>2 DEF PageReceives
<1>4. /\ exec' = "complete" /\ verdict' \in RunId \cup {None}
      /\ ends' \in [RunId -> Nat] /\ Owed' /\ EndsOnce'
  BY <1>2, <1>3, FinalInv DEF Rest
<1>5. TypeOK'
  BY <1>3, <1>4 DEF IInv, TypeOK, Rest, js, remote
<1>6. At("nowhere")'
  BY <1>1, <1>2, <1>3 DEF At, Asks, Rest, js, remote
<1> QED
  BY <1>4, <1>5, <1>6 DEF IInv, Place

\* Every step keeps the inductive invariant.
LEMMA NextIInv == IInv /\ [Next]_vars => IInv'
<1> SUFFICES ASSUME IInv, [Next]_vars PROVE IInv'
  OBVIOUS
<1>1. CASE SwitchFile \/ ClickRun \/ SendRun \/ ClickStop
  BY <1>1, SwitchFileInv, ClickRunInv, SendRunInv, ClickStopInv
<1>2. CASE JsEnds \/ JsMessage \/ JsTimeout \/ RemoteAnswer
  BY <1>2, JsEndsInv, JsInv, RemoteAnswerInv
<1>3. CASE CoordinatorReceives \/ CoordinatorEnds \/ PageReceives
  BY <1>3, CoordinatorReceivesInv, CoordinatorEndsInv, PageReceivesInv
<1>4. CASE UNCHANGED vars
  BY <1>4 DEF vars, page, js, remote, coordinator, IInv, TypeOK, At, Asks, Owed, EndsOnce
<1> QED
  BY <1>1, <1>2, <1>3, <1>4 DEF Next

LEMMA IInvHolds == Spec => []IInv
  BY InitIInv, NextIInv, PTL DEF Spec

\* The state of page and backends keeps its type; an armed timeout is of the stored
\* execution, whose Worker lives.
THEOREM TypeCorrect == Spec => []TypeOK
  BY IInvHolds, PTL DEF IInv

\* Of message, timeout, Cancel and answer one ends a run, and the end the page shows
\* is of the run it shows, whatever files the user opens meanwhile.
THEOREM EveryRunEndsOnce == Spec => []EndsOnce
  BY IInvHolds, PTL DEF IInv
=============================================================================
