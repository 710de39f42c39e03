-------------------------- MODULE LangServerProofs --------------------------
(* At most one language server, for any number of sessions and messages.   *)
EXTENDS LangServer, SequenceTheorems, TLAPS

\* A Start names its session, and the page waits for a server only when it wants
\* one.
Request == {m \in ToWorker : m.type = "start" => m.s \in Session}
Addressed == toWorker \in Seq(Request) /\ (ls # "ready" => cur # None)

IInv == TypeOK /\ Addressed /\ OneServer

\* None is no session.
LEMMA NoneIsNoSession == None \notin Session /\ Session \subseteq Nat
  BY LangServerAssumption DEF Session

\* The inductive invariant holds at first.
LEMMA InitIInv == Init => IInv
<1> SUFFICES ASSUME Init PROVE IInv
  OBVIOUS
<1>1. TypeOK
  <2>1. next \in 1..(MaxSessions + 1)
    BY LangServerAssumption DEF Init
  <2>2. toWorker \in Seq(ToWorker) /\ toPage \in Seq(ToPage)
    BY DEF Init
  <2>3. /\ pipe \in [Session -> {"none", "open", "closed"}]
        /\ run \in [Session -> Phase] /\ inits \in [Session -> Nat]
    BY DEF Init, Phase
  <2>4. sent \in [Session -> 0..MaxTalk]
    BY LangServerAssumption DEF Init
  <2> QED
    BY <2>1, <2>2, <2>3, <2>4 DEF Init, TypeOK
<1>2. Addressed /\ OneServer
  BY DEF Init, Addressed, OneServer, Alive
<1> QED
  BY <1>1, <1>2 DEF IInv

\* What the page asks for is a request, and a request is a message.
LEMMA Requests ==
  /\ Seq(Request) \subseteq Seq(ToWorker)
  /\ \A s \in Session \cup {None} :
       /\ {Ask("stop", None), Ask("initialize", s), Ask("note", s)} \subseteq Request
       /\ s \in Session => Ask("start", s) \in Request
<1>1. Request \subseteq ToWorker
  BY DEF Request
<1>2. Seq(Request) \subseteq Seq(ToWorker)
  BY <1>1
<1>3. ASSUME NEW s \in Session \cup {None}
      PROVE  /\ {Ask("stop", None), Ask("initialize", s), Ask("note", s)} \subseteq Request
             /\ s \in Session => Ask("start", s) \in Request
  <2>1. Ask("stop", None) \in Request
    BY DEF Ask, ToWorker, Client, Request
  <2>2. Ask("initialize", s) \in Request /\ Ask("note", s) \in Request
    BY <1>3 DEF Ask, ToWorker, Client, Request
  <2>3. s \in Session => Ask("start", s) \in Request
    BY <1>3 DEF Ask, ToWorker, Client, Request
  <2> QED
    BY <2>1, <2>2, <2>3
<1> QED
  BY <1>2, <1>3

\* The Effect asks for the next session.
LEMMA RetargetInv == IInv /\ Retarget => IInv'
<1> SUFFICES ASSUME IInv, Retarget PROVE IInv'
  OBVIOUS
<1> USE DEF IInv, Addressed
<1>1. PICK dir \in BOOLEAN :
        /\ IF dir THEN next \in Session ELSE cur # None \/ ~ ran
        /\ ran' = TRUE /\ conn' = None
        /\ cur' = IF dir THEN next ELSE None
        /\ ls' = IF dir THEN "requested" ELSE "ready"
        /\ next' = IF dir THEN next + 1 ELSE next
        /\ toWorker' = toWorker
             \o (IF ran THEN <<Ask("stop", None)>> ELSE <<>>)
             \o (IF dir THEN <<Ask("start", next)>> ELSE <<>>)
        /\ UNCHANGED <<toPage, server, heard, crossed>>
  BY DEF Retarget
<1>2. toWorker' \in Seq(Request)
  <2>1. (IF ran THEN <<Ask("stop", None)>> ELSE <<>>) \in Seq(Request)
    BY Requests
  <2>2. (IF dir THEN <<Ask("start", next)>> ELSE <<>>) \in Seq(Request)
    BY <1>1, Requests
  <2> QED
    BY <1>1, <2>1, <2>2
<1>3. next' \in 1..(MaxSessions + 1)
  BY <1>1, LangServerAssumption DEF TypeOK, Session
<1>4. cur' \in Session \cup {None} /\ (ls' # "ready" => cur' # None)
  BY <1>1, NoneIsNoSession DEF TypeOK
<1>5. TypeOK'
  BY <1>1, <1>2, <1>3, <1>4, Requests DEF TypeOK, server
<1>6. OneServer'
  BY <1>1 DEF OneServer, server
<1> QED
  BY <1>2, <1>4, <1>5, <1>6

\* A message of the coordinator moves StateLS and the client.
LEMMA ReceivePageInv == IInv /\ ReceivePage => IInv'
<1> SUFFICES ASSUME IInv, ReceivePage PROVE IInv'
  OBVIOUS
<1> USE DEF IInv, Addressed
<1> DEFINE m == Head(toPage)
<1>1. m \in ToPage /\ toPage' \in Seq(ToPage)
  BY DEF ReceivePage, TypeOK
<1>2. m.s \in Session
  BY <1>1 DEF ToPage
<1>3. UNCHANGED <<ran, cur, next, server>>
  BY DEF ReceivePage
<1>4. /\ toWorker' \in Seq(Request)
      /\ ls' \in {"ready", "requested", "fetching", "running", "error"}
      /\ conn' \in Session \cup {None} /\ crossed' \in BOOLEAN
      /\ heard' \in [from : Session, to : Session, by : Session] \cup {None}
      /\ ls' # "ready" => cur # None
      /\ conn' # None => cur # None /\ ls' \in {"running", "error", "fetching"}
  <2>1. CASE OnFetching(m)
    BY <2>1 DEF OnFetching, TypeOK
  <2>2. CASE OnStarted(m)
    <3>1. Ask("initialize", cur) \in Request
      BY Requests DEF TypeOK
    <3>2. CASE ls \in {"requested", "fetching"}
      <4>1. /\ ls' = "running" /\ conn' = m.s /\ UNCHANGED <<heard, crossed>>
            /\ toWorker' = Append(toWorker, Ask("initialize", cur))
        BY <2>2, <3>2 DEF OnStarted
      <4>2. toWorker' \in Seq(Request)
        BY <3>1, <4>1
      <4>3. ls # "ready"
        BY <3>2
      <4> QED
        BY <1>2, <1>3, <4>1, <4>2, <4>3 DEF TypeOK
    <3>3. CASE ls \notin {"requested", "fetching"}
      <4>1. UNCHANGED <<ls, conn, toWorker, heard, crossed>>
        BY <2>2, <3>3 DEF OnStarted
      <4> QED
        BY <1>3, <4>1 DEF TypeOK
    <3> QED
      BY <3>2, <3>3
  <2>3. CASE OnMessage(m)
    <3>1. ls = "running" => cur \in Session
      BY DEF TypeOK
    <3>2. conn # None => conn \in Session
      BY DEF TypeOK
    <3> QED
      BY <2>3, <3>1, <3>2, <1>2 DEF OnMessage, TypeOK
  <2>4. CASE OnError(m)
    BY <2>4 DEF OnError, TypeOK
  <2>5. CASE UNCHANGED <<ls, conn, toWorker, heard, crossed>>
    BY <2>5 DEF TypeOK
  <2> QED
    BY <2>1, <2>2, <2>3, <2>4, <2>5 DEF ReceivePage
<1>5. TypeOK'
  BY <1>1, <1>3, <1>4, Requests DEF TypeOK, server
<1>6. OneServer'
  BY <1>3 DEF OneServer, server
<1> QED
  BY <1>3, <1>4, <1>5, <1>6

\* The client writes.
LEMMA NoteInv == IInv /\ Note => IInv'
<1> SUFFICES ASSUME IInv, Note PROVE IInv'
  OBVIOUS
<1> USE DEF IInv, Addressed
<1>1. Ask("note", cur) \in Request
  BY Requests DEF TypeOK
<1>2. toWorker' \in Seq(Request)
  BY <1>1 DEF Note
<1>3. TypeOK'
  BY <1>2, Requests DEF Note, TypeOK, page, server
<1> QED
  BY <1>2, <1>3 DEF Note, OneServer, page, server

\* Stopping a session leaves none alive, and reports of the one that was.
LEMMA StopEnds ==
  ASSUME TypeOK, OneServer, NEW r \in StopRuns
  PROVE  /\ r \in [Session -> Phase] /\ \A k \in Session : r[k] \notin Alive
         /\ StopPipes \in [Session -> {"none", "open", "closed"}]
         /\ toPage \o StopReport \in Seq(ToPage)
<1>1. stop # None => stop \in Session
  BY DEF TypeOK
<1>2. StopPipes \in [Session -> {"none", "open", "closed"}]
  BY <1>1 DEF StopPipes, TypeOK
<1>3. StopReport \in Seq(ToPage)
  <2>1. Stopping => Tell("stopped", stop) \in ToPage
    BY <1>1 DEF Stopping, Tell, ToPage
  <2> QED
    BY <2>1 DEF StopReport
<1>4. toPage \o StopReport \in Seq(ToPage)
  BY <1>3 DEF TypeOK
<1>5. r \in [Session -> Phase] /\ \A k \in Session : r[k] \notin Alive
  <2>1. CASE ~ Stopping
    BY <2>1, NoneIsNoSession DEF StopRuns, Stopping, OneServer, TypeOK
  <2>2. CASE Stopping
    <3>1. PICK e \in {"done", "orphan"} : r = [run EXCEPT ![stop] = e]
      BY <2>2 DEF StopRuns
    <3> QED
      BY <3>1, <1>1, <2>2 DEF TypeOK, OneServer, Phase, Alive, Stopping
  <2> QED
    BY <2>1, <2>2
<1> QED
  BY <1>2, <1>4, <1>5

\* A request: start and stop end what goes on before anything else.
LEMMA ReceiveWorkerInv == IInv /\ ReceiveWorker => IInv'
<1> SUFFICES ASSUME IInv, ReceiveWorker PROVE IInv'
  OBVIOUS
<1> USE DEF IInv, Addressed
<1> DEFINE m == Head(toWorker)
<1>1. m \in Request /\ toWorker' \in Seq(Request) /\ UNCHANGED page
  BY DEF ReceiveWorker
<1>2. CASE m.type = "start" /\ HandleStart(m)
  <2>1. m.s \in Session
    BY <1>1, <1>2 DEF Request
  <2>2. PICK r \in StopRuns : run' = [r EXCEPT ![m.s] = "mirroring"]
    BY <1>2 DEF HandleStart
  <2>3. /\ r \in [Session -> Phase] /\ \A k \in Session : r[k] \notin Alive
        /\ StopPipes \in [Session -> {"none", "open", "closed"}]
        /\ toPage \o StopReport \in Seq(ToPage)
    BY <2>2, StopEnds
  <2>4. run' \in [Session -> Phase] /\ \A k \in Session : run'[k] \in Alive => k = m.s
    BY <2>1, <2>2, <2>3 DEF Phase, Alive
  <2>5. pipe' \in [Session -> {"none", "open", "closed"}]
    BY <1>2, <2>1, <2>3 DEF HandleStart
  <2>6. TypeOK'
    BY <1>1, <1>2, <2>1, <2>3, <2>4, <2>5, Requests DEF HandleStart, TypeOK, page
  <2>7. OneServer'
    BY <1>2, <2>4 DEF HandleStart, OneServer
  <2> QED
    BY <1>1, <2>6, <2>7 DEF page
<1>3. CASE m.type = "stop" /\ HandleStop
  <2>1. run' \in StopRuns
    BY <1>3 DEF HandleStop
  <2>2. /\ run' \in [Session -> Phase] /\ \A k \in Session : run'[k] \notin Alive
        /\ StopPipes \in [Session -> {"none", "open", "closed"}]
        /\ toPage \o StopReport \in Seq(ToPage)
    BY <2>1, StopEnds
  <2>3. TypeOK'
    BY <1>1, <1>3, <2>2, Requests DEF HandleStop, TypeOK, page
  <2> QED
    BY <1>1, <2>2, <2>3 DEF page, OneServer
<1>4. CASE m.type \in Client /\ HandleMessage(m)
  <2>1. inits' \in [Session -> Nat]
    BY <1>4 DEF HandleMessage, TypeOK
  <2>2. TypeOK'
    BY <1>1, <1>4, <2>1, Requests DEF HandleMessage, TypeOK, page
  <2> QED
    BY <1>1, <1>4, <2>2 DEF page, OneServer, HandleMessage
<1> QED
  BY <1>2, <1>3, <1>4 DEF ReceiveWorker

\* What a phase tells the page.
LEMMA Tells ==
  ASSUME NEW k \in Session, NEW types \in Seq({"fetching", "started", "stopped", "error"})
  PROVE  [i \in DOMAIN types |-> Tell(types[i], k)] \in Seq(ToPage)
<1> DEFINE told == [i \in DOMAIN types |-> Tell(types[i], k)]
<1>1. \A i \in 1..Len(types) : Tell(types[i], k) \in ToPage
  BY DEF Tell, ToPage
<1>2. DOMAIN types = 1..Len(types) /\ Len(types) \in Nat
  OBVIOUS
<1>3. told \in [1..Len(types) -> ToPage]
  BY <1>1, <1>2
<1> QED
  BY <1>2, <1>3

\* A phase that is left is left for good, or for the next while the sender stays.
LEMMA BecomesInv ==
  ASSUME IInv, NEW k \in Session, NEW phase \in Phase,
         NEW types \in Seq({"fetching", "started", "stopped", "error"}),
         Becomes(k, phase, types), phase \in Alive => run[k] \in Alive
  PROVE  IInv'
<1> USE DEF IInv, Addressed
<1>1. run' \in [Session -> Phase]
  BY DEF Becomes, TypeOK
<1>2. toPage' \in Seq(ToPage)
  BY Tells DEF Becomes, TypeOK
<1>3. TypeOK'
  BY <1>1, <1>2 DEF Becomes, TypeOK, page
<1>4. OneServer'
  BY DEF Becomes, OneServer, TypeOK
<1> QED
  BY <1>3, <1>4 DEF Becomes, page

\* A server talks.
LEMMA TalkInv == IInv /\ Talk => IInv'
<1> SUFFICES ASSUME IInv, Talk PROVE IInv'
  OBVIOUS
<1> USE DEF IInv, Addressed
<1>1. PICK k \in Session :
        /\ sent[k] < MaxTalk
        /\ sent' = [sent EXCEPT ![k] = @ + 1]
        /\ toPage' = Append(toPage, Tell("message", k))
        /\ UNCHANGED <<page, toWorker, stop, inp, pipe, run, inits>>
  BY DEF Talk
<1>2. Tell("message", k) \in ToPage
  BY DEF Tell, ToPage
<1>3. toPage' \in Seq(ToPage)
  BY <1>1, <1>2 DEF TypeOK
<1>4. sent' \in [Session -> 0..MaxTalk]
  BY <1>1, LangServerAssumption DEF TypeOK
<1>5. TypeOK'
  BY <1>1, <1>3, <1>4 DEF TypeOK, page
<1> QED
  BY <1>1, <1>5 DEF OneServer, page

\* Every step of page, client and coordinator keeps the inductive invariant.
LEMMA NextIInv == IInv /\ [Next]_vars => IInv'
<1> SUFFICES ASSUME IInv, [Next]_vars PROVE IInv'
  OBVIOUS
<1>t. /\ <<>> \in Seq({"fetching", "started", "stopped", "error"})
      /\ <<"fetching">> \in Seq({"fetching", "started", "stopped", "error"})
      /\ <<"started">> \in Seq({"fetching", "started", "stopped", "error"})
      /\ <<"stopped">> \in Seq({"fetching", "started", "stopped", "error"})
      /\ <<"error">> \in Seq({"fetching", "started", "stopped", "error"})
      /\ <<"started", "stopped">> \in Seq({"fetching", "started", "stopped", "error"})
  OBVIOUS
<1>p. {"lost", "failed", "fetching", "running", "done", "gone"} \subseteq Phase
  BY DEF Phase, Alive
<1>1. CASE Mirrored
  BY <1>1, <1>t, <1>p, BecomesInv DEF Mirrored, Alive
<1>2. CASE Fetched
  BY <1>2, <1>t, <1>p, BecomesInv DEF Fetched, Alive
<1>3. CASE Exited
  BY <1>3, <1>t, <1>p, BecomesInv DEF Exited, Alive
<1>4. CASE OrphanEnds
  BY <1>4, <1>t, <1>p, BecomesInv DEF OrphanEnds, Alive
<1>5. CASE UNCHANGED vars
  <2>1. TypeOK'
    BY <1>5 DEF IInv, TypeOK, vars, page, server
  <2> QED
    BY <1>5, <2>1 DEF IInv, Addressed, OneServer, vars, page, server
<1> QED
  BY <1>1, <1>2, <1>3, <1>4, <1>5, RetargetInv, ReceivePageInv, NoteInv, ReceiveWorkerInv,
     TalkInv DEF Next

LEMMA IInvHolds == Spec => []IInv
  BY InitIInv, NextIInv, PTL DEF Spec

\* The state of page, coordinator and queues keeps its type; the stored pipe is of
\* the session whose sender is stored.
THEOREM TypeCorrect == Spec => []TypeOK
  BY IInvHolds, PTL DEF IInv

\* However often the page changes its mind, one server at most is being started or
\* runs, and stop() can reach it.
THEOREM OneServerAtMost == Spec => []OneServer
  BY IInvHolds, PTL DEF IInv

-----------------------------------------------------------------------------
(***************************************************************************)
(* Which session a message is for.  No message says so in the code; it is  *)
(* the order of the two queues that decides, and what keeps edits and      *)
(* answers apart are these facts about that order.                         *)
(***************************************************************************)

\* The session a client message after the first i of q would go to, when f is the one
\* whose pipe is stored: a Start names it, a Stop leaves none.
Target(q, f, i) == IF i = 0 THEN f ELSE q[i].s

\* Every client message of q is for the session its predecessor leaves in charge.
Linked(q, f) ==
  \A i \in 1..Len(q) :
    /\ q[i].type = "stop" <=> q[i].s = None
    /\ q[i].type \in Client => q[i].s = Target(q, f, i - 1)

\* The requests lead from the stored pipe to the session the page wants.
Chained ==
  /\ Linked(toWorker, inp) /\ cur = Target(toWorker, inp, Len(toWorker))
  /\ ~ ran => cur = None
  /\ inp # None => pipe[inp] = "open"

\* The Starts of q are for ever later sessions, none of which is known in r yet.
Fresh(q, r, n) ==
  \A i \in 1..Len(q) :
    /\ q[i].s # None => q[i].s < n
    /\ q[i].type = "start" =>
         /\ \A k \in Session : r[k] # "none" => k < q[i].s
         /\ \A j \in 1..(i - 1) : q[j].type = "start" => q[j].s < q[i].s

\* Sessions are numbered in the order of their Starts, and the page wants the last.
Numbered ==
  /\ cur # None => cur = next - 1
  /\ stop # None => stop < next
  /\ conn # None => run[conn] # "none"
  /\ \A k \in Session : run[k] # "none" => k < next
  /\ \A k, l \in Session : run[k] \in Alive /\ run[l] # "none" => l <= k
  /\ Fresh(toWorker, run, next)

Stale == {"orphan", "gone"}
Starting == {"fetching", "started"}

\* The reports of q come session by session, but for what orphans write; a session
\* ends with its error; and those left when c has connected are c's or later.
Ordered(q, r, c) ==
  \A i \in 1..Len(q) :
    /\ r[q[i].s] # "none"
    /\ q[i].type = "error" => r[q[i].s] = "failed"
    /\ c # None => c <= q[i].s \/ r[q[i].s] \in Stale
    /\ \A j \in 1..(i - 1) :
         /\ q[j].s <= q[i].s \/ r[q[i].s] \in Stale
         /\ q[j].type = "error" /\ q[i].type \in Starting => q[j].s < q[i].s

InOrder == Ordered(toPage, run, conn)

\* The second half of NoForeignMessage.
HeardOK ==
  heard # None /\ heard.by = heard.to =>
    heard.from = heard.to \/ run[heard.from] \in Stale

\* Asked already: c was asked to initialize, or its request is in q.
Asked(q, n, c) == n[c] # 0 \/ \E i \in 1..Len(q) : q[i] = Ask("initialize", c)

\* The session c has failed and no report that q still holds can undo it.
Over(q, r, c) == r[c] = "failed" /\ \A i \in 1..Len(q) : q[i].type \notin Starting

\* Of the initialize requests in q none repeats one that a pipe took or q holds.
Once(q, n) ==
  \A i \in 1..Len(q) :
    q[i].type = "initialize" => n[q[i].s] = 0 /\ \A j \in 1..(i - 1) : q[j] # q[i]

\* As long as the page mistook no error: one initialize at most for every session,
\* in its queue or in its pipe, and none to come for the one the page wants.
OnceOK ==
  /\ \A k \in Session : inits[k] # 0 => k < next
  /\ crossed \/
     /\ \A k \in Session : inits[k] <= 1
     /\ Once(toWorker, inits)
     /\ cur # None /\ Asked(toWorker, inits, cur)
          => ls = "running" \/ (ls = "error" /\ Over(toPage, run, cur))

SInv == Chained /\ Numbered /\ InOrder /\ HeardOK /\ OnceOK

\* What a phase never takes back.
Kept(r, s) ==
  \A k \in Session :
    /\ r[k] # "none" => s[k] # "none"
    /\ r[k] \in Stale => s[k] \in Stale
    /\ r[k] = "failed" => s[k] = "failed"

-----------------------------------------------------------------------------
(* The two queues. *)

LEMMA AppendAt ==
  ASSUME NEW S, NEW q \in Seq(S), NEW m \in S
  PROVE  /\ Append(q, m) \in Seq(S) /\ Len(q) \in Nat /\ Len(Append(q, m)) = Len(q) + 1
         /\ Append(q, m)[Len(q) + 1] = m
         /\ \A i \in 1..Len(q) : Append(q, m)[i] = q[i] /\ q[i] \in S
OBVIOUS

LEMMA TailAt ==
  ASSUME NEW S, NEW q \in Seq(S), q # <<>>
  PROVE  /\ Tail(q) \in Seq(S) /\ Len(q) \in Nat \ {0} /\ Len(Tail(q)) = Len(q) - 1
         /\ Head(q) = q[1] /\ Head(q) \in S
         /\ \A i \in 1..(Len(q) - 1) : Tail(q)[i] = q[i + 1]
         /\ \A i \in 1..Len(q) : q[i] \in S
OBVIOUS

\* A message for the session that the last request leaves in charge fits in.
LEMMA LinkedAppend ==
  ASSUME NEW q \in Seq(ToWorker), NEW m \in ToWorker, NEW f, Linked(q, f),
         m.type = "stop" <=> m.s = None, m.type \in Client => m.s = Target(q, f, Len(q))
  PROVE  /\ Linked(Append(q, m), f)
         /\ Target(Append(q, m), f, Len(Append(q, m))) = m.s
<1>1. /\ Len(q) \in Nat /\ Len(Append(q, m)) = Len(q) + 1 /\ Append(q, m)[Len(q) + 1] = m
      /\ \A i \in 1..Len(q) : Append(q, m)[i] = q[i]
  BY AppendAt
<1>2. \A i \in 0..Len(q) : Target(Append(q, m), f, i) = Target(q, f, i)
  BY <1>1 DEF Target
<1>3. ASSUME NEW i \in 1..(Len(q) + 1)
      PROVE  LET a == Append(q, m)[i] IN
             /\ a.type = "stop" <=> a.s = None
             /\ a.type \in Client => a.s = Target(Append(q, m), f, i - 1)
  <2>1. CASE i = Len(q) + 1
    <3>1. i - 1 = Len(q) /\ Len(q) \in 0..Len(q)
      BY <2>1, <1>1
    <3> QED
      BY <2>1, <3>1, <1>1, <1>2
  <2>2. CASE i \in 1..Len(q)
    <3>1. i - 1 \in 0..Len(q)
      BY <2>2, <1>1
    <3> QED
      BY <2>2, <3>1, <1>1, <1>2 DEF Linked
  <2> QED
    BY <2>1, <2>2, <1>1
<1>4. Linked(Append(q, m), f)
  BY <1>1, <1>3 DEF Linked
<1> QED
  BY <1>1, <1>4 DEF Target

\* When the head was handled, its session is the one whose pipe is stored.
LEMMA LinkedTail ==
  ASSUME NEW q \in Seq(ToWorker), q # <<>>, NEW f, Linked(q, f)
  PROVE  /\ Linked(Tail(q), Head(q).s)
         /\ Target(Tail(q), Head(q).s, Len(Tail(q))) = Target(q, f, Len(q))
         /\ Head(q).type = "stop" <=> Head(q).s = None
         /\ Head(q).type \in Client => Head(q).s = f
<1>1. /\ Len(q) \in Nat \ {0} /\ Len(Tail(q)) = Len(q) - 1 /\ Head(q) = q[1]
      /\ \A i \in 1..(Len(q) - 1) : Tail(q)[i] = q[i + 1]
  BY TailAt
<1>2. \A i \in 0..(Len(q) - 1) : Target(Tail(q), Head(q).s, i) = Target(q, f, i + 1)
  BY <1>1 DEF Target
<1>3. ASSUME NEW i \in 1..(Len(q) - 1)
      PROVE  LET a == Tail(q)[i] IN
             /\ a.type = "stop" <=> a.s = None
             /\ a.type \in Client => a.s = Target(Tail(q), Head(q).s, i - 1)
  <2>1. i + 1 \in 1..Len(q) /\ i - 1 \in 0..(Len(q) - 1) /\ (i + 1) - 1 = (i - 1) + 1
    BY <1>1
  <2>2. /\ q[i + 1].type = "stop" <=> q[i + 1].s = None
        /\ q[i + 1].type \in Client => q[i + 1].s = Target(q, f, (i + 1) - 1)
    BY <2>1 DEF Linked
  <2> QED
    BY <2>1, <2>2, <1>1, <1>2
<1>4. Linked(Tail(q), Head(q).s)
  BY <1>1, <1>3 DEF Linked
<1>5. 1 \in 1..Len(q) /\ Target(q, f, 1 - 1) = f /\ Len(q) - 1 \in 0..(Len(q) - 1)
      /\ (Len(q) - 1) + 1 = Len(q)
  BY <1>1 DEF Target
<1> QED
  BY <1>1, <1>2, <1>4, <1>5 DEF Linked

\* A Start that is appended is for the next number.
LEMMA FreshAppend ==
  ASSUME NEW q \in Seq(Request), NEW m \in Request, NEW r, NEW n \in Nat, NEW p \in Nat,
         Fresh(q, r, n), n <= p, m.s # None => m.s < p,
         m.type = "start" => m.s = n /\ \A k \in Session : r[k] # "none" => k < n
  PROVE  Fresh(Append(q, m), r, p)
<1>1. /\ Len(q) \in Nat /\ Len(Append(q, m)) = Len(q) + 1 /\ Append(q, m)[Len(q) + 1] = m
      /\ \A i \in 1..Len(q) : Append(q, m)[i] = q[i] /\ q[i] \in Request
  BY AppendAt
<1>2. \A i \in 1..Len(q) : q[i].s # None => q[i].s < p
  <2>1. \A i \in 1..Len(q) : q[i].s # None => q[i].s \in Nat
    BY <1>1, NoneIsNoSession DEF Request, ToWorker
  <2> QED
    BY <2>1, <1>1 DEF Fresh
<1>3. \A i \in 1..Len(q) : q[i].type = "start" => q[i].s < n
  BY <1>1, NoneIsNoSession DEF Fresh, Request
<1>4. ASSUME NEW i \in 1..(Len(q) + 1), Append(q, m)[i].type = "start"
      PROVE  /\ \A k \in Session : r[k] # "none" => k < Append(q, m)[i].s
             /\ \A j \in 1..(i - 1) :
                  Append(q, m)[j].type = "start" => Append(q, m)[j].s < Append(q, m)[i].s
  <2>1. CASE i = Len(q) + 1
    BY <2>1, <1>1, <1>3, <1>4
  <2>2. CASE i \in 1..Len(q)
    BY <2>2, <1>1, <1>4 DEF Fresh
  <2> QED
    BY <2>1, <2>2, <1>1
<1>5. \A i \in 1..(Len(q) + 1) : Append(q, m)[i].s # None => Append(q, m)[i].s < p
  BY <1>1, <1>2
<1> QED
  BY <1>1, <1>4, <1>5 DEF Fresh

\* A Start that was handled made its session known, which the later ones exceed.
LEMMA FreshTail ==
  ASSUME NEW q \in Seq(Request), q # <<>>, NEW r, NEW s, NEW n, Fresh(q, r, n),
         \A k \in Session : s[k] # "none" =>
            r[k] # "none" \/ (Head(q).type = "start" /\ k = Head(q).s)
  PROVE  Fresh(Tail(q), s, n)
<1>1. /\ Len(q) \in Nat \ {0} /\ Len(Tail(q)) = Len(q) - 1 /\ Head(q) = q[1]
      /\ \A i \in 1..(Len(q) - 1) : Tail(q)[i] = q[i + 1]
  BY TailAt
<1>2. ASSUME NEW i \in 1..(Len(q) - 1)
      PROVE  LET a == Tail(q)[i] IN
             /\ a.s # None => a.s < n
             /\ a.type = "start" =>
                  /\ \A k \in Session : s[k] # "none" => k < a.s
                  /\ \A j \in 1..(i - 1) : Tail(q)[j].type = "start" => Tail(q)[j].s < a.s
  <2>1. i + 1 \in 1..Len(q) /\ 1 \in 1..((i + 1) - 1) /\ Tail(q)[i] = q[i + 1]
    BY <1>1
  <2>2. \A j \in 1..(i - 1) : Tail(q)[j] = q[j + 1] /\ j + 1 \in 1..((i + 1) - 1)
    BY <1>1
  <2> QED
    BY <2>1, <2>2, <1>1 DEF Fresh
<1> QED
  BY <1>1, <1>2 DEF Fresh

\* A report of the latest session, or of an orphan, comes last.
LEMMA OrderedAppend ==
  ASSUME NEW q \in Seq(ToPage), NEW m \in ToPage, NEW r, NEW c, Ordered(q, r, c),
         r[m.s] # "none", m.type = "error" => r[m.s] = "failed",
         c # None => c <= m.s \/ r[m.s] \in Stale,
         \A j \in 1..Len(q) :
           /\ q[j].s <= m.s \/ r[m.s] \in Stale
           /\ q[j].type = "error" /\ m.type \in Starting => q[j].s < m.s
  PROVE  Append(q, m) \in Seq(ToPage) /\ Ordered(Append(q, m), r, c)
<1>1. /\ Append(q, m) \in Seq(ToPage)
      /\ Len(q) \in Nat /\ Len(Append(q, m)) = Len(q) + 1 /\ Append(q, m)[Len(q) + 1] = m
      /\ \A i \in 1..Len(q) : Append(q, m)[i] = q[i]
  BY AppendAt
<1>2. ASSUME NEW i \in 1..(Len(q) + 1)
      PROVE  LET a == Append(q, m) IN
             /\ r[a[i].s] # "none"
             /\ a[i].type = "error" => r[a[i].s] = "failed"
             /\ c # None => c <= a[i].s \/ r[a[i].s] \in Stale
             /\ \A j \in 1..(i - 1) :
                  /\ a[j].s <= a[i].s \/ r[a[i].s] \in Stale
                  /\ a[j].type = "error" /\ a[i].type \in Starting => a[j].s < a[i].s
  <2>1. CASE i = Len(q) + 1
    BY <2>1, <1>1
  <2>2. CASE i \in 1..Len(q)
    BY <2>2, <1>1 DEF Ordered
  <2> QED
    BY <2>1, <2>2, <1>1
<1> QED
  BY <1>1, <1>2 DEF Ordered

\* What is left is in order, also for a client that the head has connected.
LEMMA OrderedTail ==
  ASSUME NEW q \in Seq(ToPage), q # <<>>, NEW r, NEW c, Ordered(q, r, c)
  PROVE  Ordered(Tail(q), r, c) /\ Ordered(Tail(q), r, Head(q).s)
<1>1. /\ Len(q) \in Nat \ {0} /\ Len(Tail(q)) = Len(q) - 1 /\ Head(q) = q[1]
      /\ \A i \in 1..(Len(q) - 1) : Tail(q)[i] = q[i + 1]
  BY TailAt
<1>2. ASSUME NEW i \in 1..(Len(q) - 1)
      PROVE  LET a == Tail(q) IN
             /\ r[a[i].s] # "none"
             /\ a[i].type = "error" => r[a[i].s] = "failed"
             /\ c # None => c <= a[i].s \/ r[a[i].s] \in Stale
             /\ Head(q).s <= a[i].s \/ r[a[i].s] \in Stale
             /\ \A j \in 1..(i - 1) :
                  /\ a[j].s <= a[i].s \/ r[a[i].s] \in Stale
                  /\ a[j].type = "error" /\ a[i].type \in Starting => a[j].s < a[i].s
  <2>1. i + 1 \in 1..Len(q) /\ 1 \in 1..((i + 1) - 1) /\ Tail(q)[i] = q[i + 1]
    BY <1>1
  <2>2. \A j \in 1..(i - 1) : Tail(q)[j] = q[j + 1] /\ j + 1 \in 1..((i + 1) - 1)
    BY <1>1
  <2> QED
    BY <2>1, <2>2, <1>1 DEF Ordered
<1> QED
  BY <1>1, <1>2 DEF Ordered

\* Phases that move on leave the order as it is.
LEMMA OrderedKept ==
  ASSUME NEW q \in Seq(ToPage), NEW r, NEW s, NEW c, Ordered(q, r, c), Kept(r, s)
  PROVE  Ordered(q, s, c)
<1>1. \A i \in 1..Len(q) : q[i] \in ToPage
  OBVIOUS
<1>2. \A i \in 1..Len(q) : q[i].s \in Session
  BY <1>1 DEF ToPage
<1> QED
  BY <1>2 DEF Ordered, Kept

\* An initialize for a session that was not asked yet may be added.
LEMMA OnceAppend ==
  ASSUME NEW q \in Seq(ToWorker), NEW m \in ToWorker, NEW n, Once(q, n),
         m.type = "initialize" => m = Ask("initialize", m.s) /\ ~ Asked(q, n, m.s)
  PROVE  /\ Once(Append(q, m), n)
         /\ \A c : Asked(Append(q, m), n, c) => Asked(q, n, c) \/ m = Ask("initialize", c)
<1>1. /\ Len(q) \in Nat /\ Len(Append(q, m)) = Len(q) + 1 /\ Append(q, m)[Len(q) + 1] = m
      /\ \A i \in 1..Len(q) : Append(q, m)[i] = q[i]
  BY AppendAt
<1>2. ASSUME NEW i \in 1..(Len(q) + 1), Append(q, m)[i].type = "initialize"
      PROVE  /\ n[Append(q, m)[i].s] = 0
             /\ \A j \in 1..(i - 1) : Append(q, m)[j] # Append(q, m)[i]
  <2>1. CASE i = Len(q) + 1
    BY <2>1, <1>1, <1>2 DEF Asked
  <2>2. CASE i \in 1..Len(q)
    BY <2>2, <1>1, <1>2 DEF Once
  <2> QED
    BY <2>1, <2>2, <1>1
<1>3. ASSUME NEW c, Asked(Append(q, m), n, c)
      PROVE  Asked(q, n, c) \/ m = Ask("initialize", c)
  <2>1. CASE n[c] # 0
    BY <2>1 DEF Asked
  <2>2. CASE \E i \in 1..(Len(q) + 1) : Append(q, m)[i] = Ask("initialize", c)
    <3>1. PICK i \in 1..(Len(q) + 1) : Append(q, m)[i] = Ask("initialize", c)
      BY <2>2
    <3>2. CASE i = Len(q) + 1
      BY <3>1, <3>2, <1>1
    <3>3. CASE i \in 1..Len(q)
      BY <3>1, <3>3, <1>1 DEF Asked
    <3> QED
      BY <3>2, <3>3, <1>1
  <2> QED
    BY <2>1, <2>2, <1>1, <1>3 DEF Asked
<1> QED
  BY <1>1, <1>2, <1>3 DEF Once

\* An initialize goes from the queue to the pipe of its session.
LEMMA OnceTail ==
  ASSUME NEW q \in Seq(ToWorker), q # <<>>, NEW n, NEW p, Once(q, n),
         \A c : p[c] = 0 \/ n[c] # 0 \/ Head(q) = Ask("initialize", c)
  PROVE  Once(Tail(q), p) /\ \A c : Asked(Tail(q), p, c) => Asked(q, n, c)
<1>1. /\ Len(q) \in Nat \ {0} /\ Len(Tail(q)) = Len(q) - 1 /\ Head(q) = q[1]
      /\ \A i \in 1..(Len(q) - 1) : Tail(q)[i] = q[i + 1]
      /\ \A i \in 1..Len(q) : q[i] \in ToWorker
  BY TailAt
<1>2. ASSUME NEW i \in 1..(Len(q) - 1), Tail(q)[i].type = "initialize"
      PROVE  p[Tail(q)[i].s] = 0 /\ \A j \in 1..(i - 1) : Tail(q)[j] # Tail(q)[i]
  <2>1. i + 1 \in 1..Len(q) /\ 1 \in 1..((i + 1) - 1) /\ Tail(q)[i] = q[i + 1]
    BY <1>1
  <2>2. \A j \in 1..(i - 1) : Tail(q)[j] = q[j + 1] /\ j + 1 \in 1..((i + 1) - 1)
    BY <1>1
  <2>3. n[q[i + 1].s] = 0 /\ \A j \in 1..((i + 1) - 1) : q[j] # q[i + 1]
    BY <2>1, <1>2 DEF Once
  <2>4. q[i + 1] = Ask("initialize", q[i + 1].s)
    BY <2>1, <1>1, <1>2 DEF Ask, ToWorker
  <2>5. p[q[i + 1].s] = 0
    BY <2>1, <2>3, <2>4, <1>1
  <2> QED
    BY <2>1, <2>2, <2>3, <2>5
<1>3. ASSUME NEW c, Asked(Tail(q), p, c)
      PROVE  Asked(q, n, c)
  <2>1. CASE p[c] # 0
    BY <2>1, <1>1 DEF Asked
  <2>2. CASE \E i \in 1..(Len(q) - 1) : Tail(q)[i] = Ask("initialize", c)
    <3>1. PICK i \in 1..(Len(q) - 1) : Tail(q)[i] = Ask("initialize", c)
      BY <2>2
    <3>2. i + 1 \in 1..Len(q) /\ q[i + 1] = Ask("initialize", c)
      BY <3>1, <1>1
    <3> QED
      BY <3>2 DEF Asked
  <2> QED
    BY <2>1, <2>2, <1>1, <1>3 DEF Asked
<1> QED
  BY <1>1, <1>2, <1>3 DEF Once

-----------------------------------------------------------------------------
(* What the coordinator reports.                                           *)

\* What a phase or stop() may report in one event.
Told == {<<>>, <<"fetching">>, <<"started">>, <<"stopped">>, <<"error">>, <<"started", "stopped">>}
Reports(k, types) == [i \in DOMAIN types |-> Tell(types[i], k)]

LEMMA AppendTwo ==
  ASSUME NEW S, NEW q \in Seq(S), NEW x \in S, NEW y \in S
  PROVE  q \o <<x, y>> = Append(Append(q, x), y)
<1>1. <<x>> \in Seq(S) /\ <<y>> \in Seq(S) /\ q \o <<x>> \in Seq(S)
  OBVIOUS
<1>2. Append(q, x) = q \o <<x>>
  BY AppendIsConcat
<1>3. Append(q \o <<x>>, y) = (q \o <<x>>) \o <<y>>
  BY <1>1, AppendIsConcat
<1>4. (q \o <<x>>) \o <<y>> = q \o (<<x>> \o <<y>>)
  BY <1>1, ConcatAssociative
<1>5. <<x>> \o <<y>> = <<x, y>>
  <2>. DEFINE s == <<x>> \o <<y>>
  <2>1. s \in Seq(S) /\ <<x, y>> \in Seq(S)
    BY <1>1
  <2>2. Len(s) = 2 /\ s[1] = x /\ s[2] = y
    BY <1>1
  <2>. HIDE DEF s
  <2>3. \A i \in 1..Len(s) : s[i] = <<x, y>>[i]
    BY <2>2
  <2>4. s = <<x, y>>
    BY <2>1, <2>2, <2>3, SeqEqual
  <2> QED
    BY <2>4 DEF s
<1> QED
  BY <1>2, <1>3, <1>4, <1>5

LEMMA ReportsAre ==
  ASSUME NEW q \in Seq(ToPage), NEW k \in Session
  PROVE  /\ q \o Reports(k, <<>>) = q
         /\ \A a \in {"fetching", "started", "stopped", "error"} :
              q \o Reports(k, <<a>>) = Append(q, Tell(a, k))
         /\ q \o Reports(k, <<"started", "stopped">>)
              = Append(Append(q, Tell("started", k)), Tell("stopped", k))
<1>1. Reports(k, <<>>) = <<>>
  BY DEF Reports
<1>2. ASSUME NEW a \in {"fetching", "started", "stopped", "error"}
      PROVE  q \o Reports(k, <<a>>) = Append(q, Tell(a, k))
  <2>1. Reports(k, <<a>>) = <<Tell(a, k)>>
    BY DEF Reports
  <2>2. Tell(a, k) \in ToPage
    BY <1>2 DEF Tell, ToPage
  <2> QED
    BY <2>1, <2>2, AppendIsConcat
<1>3. q \o Reports(k, <<"started", "stopped">>)
        = Append(Append(q, Tell("started", k)), Tell("stopped", k))
  <2>1. Reports(k, <<"started", "stopped">>) = <<Tell("started", k), Tell("stopped", k)>>
    BY DEF Reports
  <2>2. Tell("started", k) \in ToPage /\ Tell("stopped", k) \in ToPage
    BY DEF Tell, ToPage
  <2>3. q \o <<Tell("started", k), Tell("stopped", k)>>
          = Append(Append(q, Tell("started", k)), Tell("stopped", k))
    BY <2>2, AppendTwo
  <2> QED
    BY <2>1, <2>3
<1> QED
  BY <1>1, <1>2, <1>3

\* The one session that is alive is the latest: what it reports comes in order.
LEMMA ReportInOrder ==
  ASSUME IInv, Numbered, NEW k \in Session, run[k] \in Alive,
         NEW s, Kept(run, s), NEW q \in Seq(ToPage), Ordered(q, s, conn),
         NEW a \in {"fetching", "started", "stopped", "error"}, a = "error" => s[k] = "failed",
         \A j \in 1..Len(q) : run[q[j].s] # "none",
         a \in Starting => \A j \in 1..Len(q) : q[j].type = "error" => run[q[j].s] = "failed"
  PROVE  /\ Append(q, Tell(a, k)) \in Seq(ToPage)
         /\ Ordered(Append(q, Tell(a, k)), s, conn)
         /\ \A j \in 1..Len(Append(q, Tell(a, k))) : run[Append(q, Tell(a, k))[j].s] # "none"
<1>1. Tell(a, k) \in ToPage /\ Tell(a, k).s = k /\ Tell(a, k).type = a
  BY DEF Tell, ToPage
<1>2. \A j \in 1..Len(q) : q[j] \in ToPage
  OBVIOUS
<1>3. \A j \in 1..Len(q) : q[j].s \in Session /\ q[j].s <= k
  BY <1>2 DEF Numbered, ToPage
<1>4. \A j \in 1..Len(q) : q[j].type = "error" /\ a \in Starting => q[j].s < k
  <2>1. run[k] # "failed"
    BY DEF Alive
  <2>2. k \in Nat /\ \A j \in 1..Len(q) : q[j].s \in Nat
    BY <1>3, NoneIsNoSession
  <2> QED
    BY <1>3, <2>1, <2>2
<1>5. conn # None => conn <= k
  BY DEF Numbered, IInv, TypeOK
<1>6. s[k] # "none"
  BY DEF Kept, Alive
<1>7. Append(q, Tell(a, k)) \in Seq(ToPage) /\ Ordered(Append(q, Tell(a, k)), s, conn)
  BY <1>1, <1>3, <1>4, <1>5, <1>6, OrderedAppend
<1>8. run[k] # "none"
  BY DEF Alive
<1> QED
  BY <1>1, <1>7, <1>8, AppendAt

LEMMA ReportsInOrder ==
  ASSUME IInv, Numbered, InOrder, NEW k \in Session, run[k] \in Alive,
         NEW s, Kept(run, s), NEW types \in Told, types = <<"error">> => s[k] = "failed"
  PROVE  /\ toPage \o Reports(k, types) \in Seq(ToPage)
         /\ Ordered(toPage \o Reports(k, types), s, conn)
<1>1. toPage \in Seq(ToPage)
  BY DEF IInv, TypeOK
<1>2. Ordered(toPage, s, conn)
  BY <1>1, OrderedKept DEF InOrder
<1>3. \A j \in 1..Len(toPage) :
        run[toPage[j].s] # "none" /\ (toPage[j].type = "error" => run[toPage[j].s] = "failed")
  BY DEF InOrder, Ordered
<1>4. CASE types = <<>>
  BY <1>1, <1>2, <1>4, ReportsAre
<1>5. ASSUME NEW a \in {"fetching", "started", "stopped", "error"}, types = <<a>>
      PROVE  /\ toPage \o Reports(k, types) \in Seq(ToPage)
             /\ Ordered(toPage \o Reports(k, types), s, conn)
  <2>1. a = "error" => s[k] = "failed"
    BY <1>5
  <2>2. toPage \o Reports(k, types) = Append(toPage, Tell(a, k))
    BY <1>1, <1>5, ReportsAre
  <2> QED
    BY <1>1, <1>2, <1>3, <2>1, <2>2, ReportInOrder
<1>6. CASE types = <<"started", "stopped">>
  <2>. DEFINE q == Append(toPage, Tell("started", k))
  <2>1. /\ q \in Seq(ToPage) /\ Ordered(q, s, conn)
        /\ \A j \in 1..Len(q) : run[q[j].s] # "none"
    BY <1>1, <1>2, <1>3, ReportInOrder
  <2>2. "stopped" \notin Starting
    BY DEF Starting
  <2>3. toPage \o Reports(k, types) = Append(q, Tell("stopped", k))
    BY <1>1, <1>6, ReportsAre
  <2> QED
    BY <2>1, <2>2, <2>3, ReportInOrder
<1> QED
  BY <1>4, <1>5, <1>6 DEF Told

\* stop() leaves every other phase, and what it reports comes in order.
LEMMA StopInOrder ==
  ASSUME IInv, Numbered, InOrder, NEW r \in StopRuns
  PROVE  /\ Kept(run, r) /\ \A k \in Session : r[k] # "none" <=> run[k] # "none"
         /\ r \in [Session -> Phase] /\ \A k \in Session : r[k] \notin Alive
         /\ toPage \o StopReport \in Seq(ToPage)
         /\ Ordered(toPage \o StopReport, r, conn)
<1>1. /\ r \in [Session -> Phase] /\ \A k \in Session : r[k] \notin Alive
      /\ toPage \o StopReport \in Seq(ToPage)
  BY StopEnds DEF IInv
<1>2. CASE ~ Stopping
  <2>1. r = run /\ toPage \o StopReport = toPage
    BY <1>2 DEF StopRuns, StopReport, IInv, TypeOK
  <2> QED
    BY <1>1, <2>1 DEF Kept, InOrder
<1>3. CASE Stopping
  <2>1. stop \in Session /\ run[stop] \in Alive
    BY <1>3 DEF Stopping, IInv, TypeOK
  <2>2. PICK e \in {"done", "orphan"} : r = [run EXCEPT ![stop] = e]
    BY <1>3 DEF StopRuns
  <2>3. Kept(run, r) /\ \A k \in Session : r[k] # "none" <=> run[k] # "none"
    BY <2>1, <2>2 DEF Kept, Stale, Alive, IInv, TypeOK
  <2>4. StopReport = Reports(stop, <<"stopped">>)
    <3>1. StopReport = <<Tell("stopped", stop)>>
      BY <1>3 DEF StopReport
    <3>2. Reports(stop, <<"stopped">>) = <<Tell("stopped", stop)>>
      BY DEF Reports
    <3> QED
      BY <3>1, <3>2
  <2>5. <<"stopped">> \in Told /\ <<"stopped">> # <<"error">>
    BY DEF Told
  <2>6. Ordered(toPage \o StopReport, r, conn)
    BY <2>1, <2>3, <2>4, <2>5, ReportsInOrder
  <2> QED
    BY <1>1, <2>3, <2>6
<1> QED
  BY <1>2, <1>3

\* What a phase of the coordinator does to its session.
Turn(k, phase, types) ==
  /\ Becomes(k, phase, types)
  /\ types \in Told /\ phase \in Phase \ {"none"}
  /\ types = <<"error">> => phase = "failed"
  /\ \/ run[k] = "orphan" /\ phase = "gone" /\ types = <<>>
     \/ run[k] \in Alive

LEMMA PhaseTurns ==
  ASSUME Mirrored \/ Fetched \/ Exited \/ OrphanEnds
  PROVE  \E k \in Session : \E phase \in Phase : \E types \in Told : Turn(k, phase, types)
<1>1. /\ {"lost", "failed", "fetching", "running", "done", "gone"} \subseteq Phase
      /\ "none" \notin {"lost", "failed", "fetching", "running", "done", "gone"}
      /\ {"mirroring", "fetching", "running"} \subseteq Alive
  BY DEF Phase, Alive
<1>2. /\ {<<>>, <<"fetching">>, <<"started">>, <<"stopped">>, <<"error">>,
           <<"started", "stopped">>} \subseteq Told
      /\ \A a \in {"fetching", "started", "stopped"} : <<a>> # <<"error">>
      /\ <<>> # <<"error">> /\ <<"started", "stopped">> # <<"error">>
  BY DEF Told
<1>3. CASE Mirrored
  <2>1. PICK k \in Session :
          /\ run[k] = "mirroring"
          /\ \/ Becomes(k, "lost", <<>>)
             \/ Becomes(k, "failed", <<"error">>)
             \/ Becomes(k, "fetching", <<"fetching">>)
    BY <1>3 DEF Mirrored
  <2> QED
    BY <2>1, <1>1, <1>2 DEF Turn
<1>4. CASE Fetched
  <2>1. PICK k \in Session :
          /\ run[k] = "fetching"
          /\ \/ Becomes(k, "lost", <<>>)
             \/ Becomes(k, "failed", <<"error">>)
             \/ Becomes(k, "running", <<"started">>)
             \/ Becomes(k, "done", <<"started", "stopped">>)
    BY <1>4 DEF Fetched
  <2> QED
    BY <2>1, <1>1, <1>2 DEF Turn
<1>5. CASE Exited
  <2>1. PICK k \in Session :
          /\ run[k] = "running"
          /\ \/ Becomes(k, "done", <<"stopped">>)
             \/ Becomes(k, "failed", <<"error">>)
    BY <1>5 DEF Exited
  <2> QED
    BY <2>1, <1>1, <1>2 DEF Turn
<1>6. CASE OrphanEnds
  BY <1>1, <1>2, <1>6 DEF OrphanEnds, Turn
<1> QED
  BY <1>3, <1>4, <1>5, <1>6

-----------------------------------------------------------------------------
(* Every step keeps the queues in order.                                   *)

LEMMA InitSInv == Init => SInv
<1> SUFFICES ASSUME Init PROVE SInv
  OBVIOUS
<1>1. Chained
  BY DEF Init, Chained, Linked, Target
<1>2. Numbered
  BY DEF Init, Numbered, Fresh, Alive
<1>3. InOrder /\ HeardOK
  BY DEF Init, InOrder, Ordered, HeardOK
<1>4. OnceOK
  BY DEF Init, OnceOK, Once
<1> QED
  BY <1>1, <1>2, <1>3, <1>4 DEF SInv

LEMMA RetargetSInv ==
  ASSUME IInv, SInv, Retarget
  PROVE  SInv'
<1>0. TypeOK /\ toWorker \in Seq(Request) /\ toPage \in Seq(ToPage) /\ next \in Nat
  BY LangServerAssumption DEF IInv, Addressed, TypeOK
<1>1. PICK dir \in BOOLEAN :
        /\ dir => next \in Session
        /\ ran' = TRUE /\ conn' = None
        /\ cur' = IF dir THEN next ELSE None
        /\ next' = IF dir THEN next + 1 ELSE next
        /\ toWorker' = toWorker
             \o (IF ran THEN <<Ask("stop", None)>> ELSE <<>>)
             \o (IF dir THEN <<Ask("start", next)>> ELSE <<>>)
        /\ UNCHANGED <<toPage, server, heard, crossed>>
  BY DEF Retarget
<1>2. UNCHANGED <<toPage, stop, inp, pipe, run, inits, sent, heard, crossed>>
  BY <1>1 DEF server
<1>. DEFINE q == IF ran THEN Append(toWorker, Ask("stop", None)) ELSE toWorker
<1>3. /\ Ask("stop", None) \in Request /\ Ask("stop", None).type = "stop"
      /\ Ask("stop", None).s = None /\ "stop" \notin Client
      /\ \A c : Ask("stop", None) # Ask("initialize", c)
  BY Requests DEF Ask, Client
<1>4. dir => /\ Ask("start", next) \in Request /\ Ask("start", next).type = "start"
             /\ Ask("start", next).s = next /\ "start" \notin Client /\ next # None
             /\ \A c : Ask("start", next) # Ask("initialize", c)
  BY <1>1, Requests, NoneIsNoSession DEF Ask, Client
<1>5. toWorker \in Seq(ToWorker) /\ Request \subseteq ToWorker
  BY <1>0, Requests DEF Request
<1>6. /\ q \in Seq(Request) /\ q \in Seq(ToWorker)
      /\ Linked(q, inp) /\ Target(q, inp, Len(q)) = None
      /\ Fresh(q, run, next)
      /\ Once(toWorker, inits) => Once(q, inits)
      /\ Once(toWorker, inits) => \A c : Asked(q, inits, c) => Asked(toWorker, inits, c)
  <2>1. CASE ran
    <3>1. q = Append(toWorker, Ask("stop", None))
      BY <2>1
    <3>2. q \in Seq(Request) /\ q \in Seq(ToWorker)
      BY <3>1, <1>0, <1>3, <1>5, AppendAt
    <3>3. Linked(q, inp) /\ Target(q, inp, Len(q)) = None
      BY <3>1, <1>3, <1>5, LinkedAppend DEF SInv, Chained
    <3>4. Fresh(q, run, next)
      BY <3>1, <1>0, <1>3, FreshAppend DEF SInv, Numbered
    <3>5. Once(toWorker, inits) =>
            Once(q, inits) /\ \A c : Asked(q, inits, c) => Asked(toWorker, inits, c)
      BY <3>1, <1>3, <1>5, OnceAppend
    <3> QED
      BY <3>2, <3>3, <3>4, <3>5
  <2>2. CASE ~ ran
    <3>1. q = toWorker
      BY <2>2
    <3>2. Linked(toWorker, inp) /\ Target(toWorker, inp, Len(toWorker)) = None
          /\ Fresh(toWorker, run, next)
      BY <2>2 DEF SInv, Chained, Numbered
    <3> QED
      BY <3>1, <3>2, <1>0, <1>5
  <2> QED
    BY <2>1, <2>2
<1>7. toWorker' = IF dir THEN Append(q, Ask("start", next)) ELSE q
  <2>1. toWorker \o (IF ran THEN <<Ask("stop", None)>> ELSE <<>>) = q
    BY <1>3, <1>5, AppendIsConcat
  <2>2. q \o <<>> = q
    BY <1>6, ConcatEmptySeq
  <2>3. dir => q \o <<Ask("start", next)>> = Append(q, Ask("start", next))
    BY <1>4, <1>6, AppendIsConcat
  <2> QED
    BY <1>1, <2>1, <2>2, <2>3
<1>. HIDE DEF q
<1>8. /\ Linked(toWorker', inp) /\ Target(toWorker', inp, Len(toWorker')) = cur'
      /\ Fresh(toWorker', run, next')
      /\ Once(toWorker, inits) =>
           Once(toWorker', inits) /\ \A c : Asked(toWorker', inits, c) => Asked(toWorker, inits, c)
  <2>1. CASE dir
    <3>1. toWorker' = Append(q, Ask("start", next))
      BY <2>1, <1>7
    <3>2. Linked(toWorker', inp) /\ Target(toWorker', inp, Len(toWorker')) = next
      BY <2>1, <3>1, <1>4, <1>5, <1>6, LinkedAppend
    <3>3. Fresh(toWorker', run, next + 1)
      BY <2>1, <3>1, <1>0, <1>4, <1>6, FreshAppend DEF SInv, Numbered
    <3>4. Once(q, inits) =>
            Once(toWorker', inits) /\ \A c : Asked(toWorker', inits, c) => Asked(q, inits, c)
      BY <2>1, <3>1, <1>4, <1>5, <1>6, OnceAppend
    <3> QED
      BY <2>1, <3>2, <3>3, <3>4, <1>1, <1>6
  <2>2. CASE ~ dir
    BY <2>2, <1>1, <1>6, <1>7
  <2> QED
    BY <2>1, <2>2
<1>9. Chained'
  BY <1>1, <1>2, <1>8 DEF SInv, Chained
<1>10. Numbered'
  <2>1. next <= next' /\ next' \in Nat
    BY <1>0, <1>1
  <2>2. \A k \in Session : k \in Nat
    BY NoneIsNoSession
  <2>3. stop # None => stop \in Session
    BY <1>0 DEF TypeOK
  <2>4. cur' # None => cur' = next' - 1
    <3>1. (next + 1) - 1 = next
      BY <1>0
    <3>2. dir => cur' = next /\ next' = next + 1
      BY <1>1
    <3>3. ~ dir => cur' = None
      BY <1>1
    <3> QED
      BY <3>1, <3>2, <3>3
  <2> QED
    BY <1>0, <1>1, <1>2, <1>8, <2>1, <2>2, <2>3, <2>4 DEF SInv, Numbered
<1>11. InOrder' /\ HeardOK'
  BY <1>1, <1>2 DEF SInv, InOrder, Ordered, HeardOK
<1>12. OnceOK'
  <2>1. \A k \in Session : inits'[k] # 0 => k < next'
    <3>1. \A k \in Session : inits[k] # 0 => k < next
      BY DEF SInv, OnceOK
    <3> QED
      BY <3>1, <1>0, <1>1, <1>2, NoneIsNoSession
  <2>2. ASSUME ~ crossed', cur' # None
        PROVE  ~ Asked(toWorker', inits', cur')
    <3>1. cur' = next /\ next \in Session /\ dir
      BY <2>2, <1>1
    <3>2. Once(toWorker, inits) /\ ~ (inits[next] # 0)
      BY <2>2, <3>1, <1>0, <1>2 DEF SInv, OnceOK
    <3>3. \A i \in 1..Len(toWorker) : toWorker[i].s # next
      BY <3>1, <1>0, NoneIsNoSession DEF SInv, Numbered, Fresh
    <3>4. ~ Asked(toWorker, inits, next)
      BY <3>2, <3>3 DEF Asked, Ask
    <3> QED
      BY <3>1, <3>2, <3>4, <1>2, <1>8
  <2> QED
    BY <2>1, <2>2, <1>2, <1>8 DEF SInv, OnceOK
<1> QED
  BY <1>9, <1>10, <1>11, <1>12 DEF SInv

\* The client writes to the session the page wants.
LEMMA NoteSInv ==
  ASSUME IInv, SInv, Note
  PROVE  SInv'
<1>0. TypeOK /\ toWorker \in Seq(Request) /\ toWorker \in Seq(ToWorker) /\ next \in Nat
  BY Requests, LangServerAssumption DEF IInv, Addressed, TypeOK
<1>. DEFINE m == Ask("note", cur)
<1>1. toWorker' = Append(toWorker, m) /\ conn # None /\ UNCHANGED <<page, toPage, server>>
  BY DEF Note
<1>2. UNCHANGED <<ls, ran, cur, conn, next, heard, crossed, toPage, stop, inp, pipe, run,
                  inits, sent>>
  BY <1>1 DEF page, server
<1>3. /\ m \in Request /\ m \in ToWorker /\ m.s = cur /\ m.type = "note" /\ "note" \in Client
      /\ \A c : m # Ask("initialize", c)
  BY <1>0, Requests DEF TypeOK, Request, Ask, Client
<1>4. cur \in Session /\ cur # None /\ cur < next
  BY <1>0, <1>1, NoneIsNoSession DEF TypeOK, SInv, Numbered
<1>. HIDE DEF m
<1>5. Linked(toWorker', inp) /\ Target(toWorker', inp, Len(toWorker')) = cur
  BY <1>0, <1>1, <1>3, <1>4, LinkedAppend DEF SInv, Chained
<1>6. Fresh(toWorker', run, next)
  BY <1>0, <1>1, <1>3, <1>4, FreshAppend DEF SInv, Numbered
<1>7. Once(toWorker, inits) =>
        Once(toWorker', inits) /\ \A c : Asked(toWorker', inits, c) => Asked(toWorker, inits, c)
  BY <1>0, <1>1, <1>3, OnceAppend
<1>8. Chained' /\ Numbered'
  BY <1>2, <1>5, <1>6 DEF SInv, Chained, Numbered
<1>9. InOrder' /\ HeardOK'
  BY <1>2 DEF SInv, InOrder, HeardOK
<1>10. OnceOK'
  BY <1>2, <1>7 DEF SInv, OnceOK
<1> QED
  BY <1>8, <1>9, <1>10 DEF SInv

\* The page takes a report.
LEMMA ReceivePageSInv ==
  ASSUME IInv, SInv, ReceivePage
  PROVE  SInv'
<1>. DEFINE m == Head(toPage)
<1>0. /\ TypeOK /\ toWorker \in Seq(Request) /\ toWorker \in Seq(ToWorker)
      /\ next \in Nat /\ toPage \in Seq(ToPage) /\ toPage # <<>> /\ (ls # "ready" => cur # None)
  BY Requests, LangServerAssumption DEF IInv, Addressed, TypeOK, ReceivePage
<1>1. toPage' = Tail(toPage) /\ UNCHANGED <<ran, cur, next, stop, inp, pipe, run, inits, sent>>
  BY DEF ReceivePage, server
<1>2. /\ Len(toPage) \in Nat \ {0} /\ Len(toPage') = Len(toPage) - 1 /\ m = toPage[1]
      /\ m \in ToPage /\ \A i \in 1..Len(toPage') : toPage'[i] = toPage[i + 1] /\ i + 1 \in 1..Len(toPage)
      /\ 1 \in 1..Len(toPage)
  BY <1>0, <1>1, TailAt
<1>. HIDE DEF m
<1>3. /\ m.s \in Session /\ run[m.s] # "none" /\ (m.type = "error" => run[m.s] = "failed")
      /\ Ordered(toPage', run, conn) /\ Ordered(toPage', run, m.s)
  <2>1. m.s \in Session
    BY <1>2 DEF ToPage
  <2>2. Ordered(toPage', run, conn) /\ Ordered(toPage', run, m.s)
    BY <1>0, <1>1, OrderedTail DEF m, SInv, InOrder
  <2>3. run[m.s] # "none" /\ (m.type = "error" => run[m.s] = "failed")
    BY <1>2 DEF SInv, InOrder, Ordered
  <2> QED
    BY <2>1, <2>2, <2>3
<1>4. \A k \in Session : cur # None /\ run[k] # "none" => k <= cur /\ k \in Nat /\ cur \in Nat
  BY <1>0, NoneIsNoSession DEF TypeOK, SInv, Numbered
<1>5. \A c : Over(toPage, run, c) => Over(toPage', run, c) /\ m.type \notin Starting
  BY <1>2 DEF Over
<1>6. \/ m.type = "fetching" /\ OnFetching(m)
      \/ m.type = "started" /\ OnStarted(m)
      \/ m.type = "message" /\ OnMessage(m)
      \/ m.type = "error" /\ OnError(m)
      \/ UNCHANGED <<ls, conn, toWorker, heard, crossed>>
  BY DEF ReceivePage, m
\* Whatever the report is, unless it connects the client, the requests are as before.
<1>7. ASSUME UNCHANGED <<conn, toWorker>>
      PROVE  Chained' /\ Numbered' /\ InOrder'
  BY <1>1, <1>3, <1>7 DEF SInv, Chained, Numbered, InOrder
<1>8. ASSUME UNCHANGED heard PROVE HeardOK'
  BY <1>1, <1>8 DEF SInv, HeardOK
<1>10. CASE m.type = "fetching" /\ OnFetching(m)
  <2>1. UNCHANGED <<conn, toWorker, heard, crossed>>
        /\ ls' = IF ls \in {"requested", "error"} THEN "fetching" ELSE ls
    BY <1>10 DEF OnFetching
  <2>2. m.type \in Starting
    BY <1>10 DEF Starting
  <2>3. OnceOK'
    <3>1. SUFFICES ASSUME ~ crossed, cur # None, Asked(toWorker, inits, cur)
                   PROVE  ls' = "running"
      BY <1>1, <2>1 DEF SInv, OnceOK
    <3>2. ls = "running" \/ (ls = "error" /\ Over(toPage, run, cur))
      BY <3>1 DEF SInv, OnceOK
    <3> QED
      BY <3>2, <2>1, <2>2, <1>5
  <2> QED
    BY <2>1, <2>3, <1>7, <1>8 DEF SInv
<1>11. CASE m.type = "started" /\ OnStarted(m) /\ ls \in {"requested", "fetching"}
  <2>. DEFINE a == Ask("initialize", cur)
  <2>1. /\ ls' = "running" /\ conn' = m.s /\ toWorker' = Append(toWorker, a)
        /\ UNCHANGED <<heard, crossed>>
    BY <1>11 DEF OnStarted
  <2>2. cur # None /\ cur \in Session /\ cur < next
    BY <1>0, <1>11, NoneIsNoSession DEF TypeOK, SInv, Numbered
  <2>3. /\ a \in Request /\ a \in ToWorker /\ a.s = cur /\ a.type = "initialize" /\ a = Ask("initialize", a.s)
        /\ "initialize" \in Client /\ \A c : a = Ask("initialize", c) => c = cur
    BY <2>2, Requests DEF Request, Ask, Client
  <2>. HIDE DEF a
  <2>4. Linked(toWorker', inp) /\ Target(toWorker', inp, Len(toWorker')) = cur
    BY <1>0, <2>1, <2>2, <2>3, LinkedAppend DEF SInv, Chained
  <2>5. Fresh(toWorker', run, next)
    BY <1>0, <2>1, <2>2, <2>3, FreshAppend DEF SInv, Numbered
  <2>6. Chained'
    BY <1>1, <2>4 DEF SInv, Chained
  <2>7. Numbered'
    BY <1>1, <1>3, <2>1, <2>5 DEF SInv, Numbered
  <2>8. InOrder'
    BY <1>1, <1>3, <2>1 DEF InOrder
  <2>9. OnceOK'
    <3>1. CASE crossed
      BY <3>1, <1>1, <2>1 DEF SInv, OnceOK
    <3>2. CASE ~ crossed
      <4>1. Once(toWorker, inits) /\ ~ Asked(toWorker, inits, cur)
        BY <3>2, <1>11, <2>2 DEF SInv, OnceOK
      <4>2. Once(toWorker', inits)
        BY <4>1, <1>0, <2>1, <2>3, OnceAppend
      <4> QED
        BY <3>2, <4>2, <1>1, <2>1 DEF SInv, OnceOK
    <3> QED
      BY <3>1, <3>2
  <2> QED
    BY <2>1, <2>6, <2>7, <2>8, <2>9, <1>8 DEF SInv
<1>12. CASE UNCHANGED <<ls, conn, toWorker, heard, crossed>>
  <2>1. OnceOK'
    BY <1>1, <1>5, <1>12 DEF SInv, OnceOK
  <2> QED
    BY <2>1, <1>7, <1>8, <1>12 DEF SInv
<1>13. CASE m.type = "message" /\ OnMessage(m)
  <2>1. /\ UNCHANGED <<ls, conn, toWorker, crossed>>
        /\ heard' = IF ls = "running" /\ conn # None
                    THEN [from |-> m.s, to |-> cur, by |-> conn] ELSE heard
    BY <1>13 DEF OnMessage
  <2>2. OnceOK'
    BY <1>1, <1>5, <2>1 DEF SInv, OnceOK
  <2>3. HeardOK'
    <3>1. CASE ls = "running" /\ conn # None
      <4>1. heard' = [from |-> m.s, to |-> cur, by |-> conn]
        BY <2>1, <3>1
      <4>2. SUFFICES ASSUME conn = cur PROVE m.s = cur \/ run[m.s] \in Stale
        BY <1>1, <4>1 DEF HeardOK
      <4>3. conn <= m.s \/ run[m.s] \in Stale
        BY <3>1, <1>2 DEF SInv, InOrder, Ordered
      <4>4. m.s <= cur /\ m.s \in Nat /\ cur \in Nat
        BY <3>1, <4>2, <1>3, <1>4
      <4> QED
        BY <4>2, <4>3, <4>4
    <3>2. CASE ~ (ls = "running" /\ conn # None)
      BY <3>2, <2>1, <1>8
    <3> QED
      BY <3>1, <3>2
  <2> QED
    BY <2>1, <2>2, <2>3, <1>7 DEF SInv
<1>14. CASE m.type = "error" /\ OnError(m)
  <2>1. /\ UNCHANGED <<conn, toWorker, heard>>
        /\ ls' = IF ls \in {"requested", "fetching", "running"} THEN "error" ELSE ls
        /\ crossed' = (crossed \/ (ls = "running" /\ m.s # cur))
    BY <1>14 DEF OnError
  <2>2. OnceOK'
    <3>1. SUFFICES ASSUME ~ crossed', cur # None, Asked(toWorker, inits, cur)
                   PROVE  ls' = "error" /\ Over(toPage', run, cur)
      BY <1>1, <2>1 DEF SInv, OnceOK
    <3>2. ls = "running" \/ (ls = "error" /\ Over(toPage, run, cur))
      BY <2>1, <3>1 DEF SInv, OnceOK
    <3>3. CASE ls = "running"
      <4>1. m.s = cur /\ run[cur] = "failed"
        BY <2>1, <3>1, <3>3, <1>3, <1>14
      <4>2. ASSUME NEW i \in 1..Len(toPage'), toPage'[i].type \in Starting
            PROVE  FALSE
        <5>1. cur < toPage[i + 1].s
          BY <4>1, <4>2, <1>2, <1>14 DEF SInv, InOrder, Ordered
        <5>2. toPage[i + 1].s \in Session /\ run[toPage[i + 1].s] # "none"
          <6>1. toPage[i + 1] \in ToPage
            BY <4>2, <1>0, <1>2
          <6> QED
            BY <6>1, <1>2 DEF SInv, InOrder, Ordered, ToPage
        <5>3. toPage[i + 1].s <= cur /\ toPage[i + 1].s \in Nat /\ cur \in Nat
          BY <3>1, <5>2, <1>4
        <5> QED
          BY <5>1, <5>3
      <4> QED
        BY <3>3, <4>1, <4>2, <2>1 DEF Over
    <3>4. CASE ls = "error" /\ Over(toPage, run, cur)
      BY <3>4, <2>1, <1>5
    <3> QED
      BY <3>2, <3>3, <3>4
  <2> QED
    BY <2>1, <2>2, <1>7, <1>8 DEF SInv
<1>15. CASE m.type = "started" /\ OnStarted(m) /\ ls \notin {"requested", "fetching"}
  BY <1>12, <1>15 DEF OnStarted
<1> QED
  BY <1>6, <1>10, <1>11, <1>12, <1>13, <1>14, <1>15

\* The page that knows its session has failed waits for the only one there could be.
LEMMA NoneAliveAfterFailure ==
  ASSUME TypeOK, Numbered, cur # None, run[cur] = "failed", NEW k \in Session
  PROVE  run[k] \notin Alive
<1>1. cur \in Session /\ cur = next - 1 /\ next \in Nat /\ cur \in Nat /\ k \in Nat
  BY NoneIsNoSession, LangServerAssumption DEF TypeOK, Numbered
<1>2. run[k] \in Alive => cur <= k /\ k < next
  BY <1>1 DEF Numbered, Alive
<1>3. run[k] \in Alive => k = cur
  BY <1>1, <1>2
<1> QED
  BY <1>3 DEF Alive

\* A request: what it leaves in charge is what the next client message is for.
LEMMA ReceiveWorkerSInv ==
  ASSUME IInv, SInv, ReceiveWorker
  PROVE  SInv'
<1>. DEFINE m == Head(toWorker)
<1>0. /\ TypeOK /\ toWorker \in Seq(Request) /\ toWorker \in Seq(ToWorker)
      /\ next \in Nat /\ toPage \in Seq(ToPage) /\ toWorker # <<>>
  BY Requests, LangServerAssumption DEF IInv, Addressed, TypeOK, ReceiveWorker
<1>1. toWorker' = Tail(toWorker) /\ UNCHANGED <<ls, ran, cur, conn, next, heard, crossed>>
  BY DEF ReceiveWorker, page
<1>2. /\ m = toWorker[1] /\ m \in Request /\ 1 \in 1..Len(toWorker)
      /\ m \in ToWorker
  BY <1>0, TailAt
<1>3. /\ Linked(toWorker', m.s) /\ Target(toWorker', m.s, Len(toWorker')) = cur
      /\ m.type = "stop" <=> m.s = None
      /\ m.type \in Client => m.s = inp
  BY <1>0, <1>1, LinkedTail DEF SInv, Chained
<1>4. m.s # None => m.s < next
  BY <1>2 DEF SInv, Numbered, Fresh
<1>5. m.type = "start" => m.s \in Session /\ \A k \in Session : run[k] # "none" => k < m.s
  BY <1>2 DEF SInv, Numbered, Fresh, Request
<1>6. \A k \in Session : k \in Nat
  BY NoneIsNoSession
<1>. HIDE DEF m
<1>7. CASE m.type = "start" /\ HandleStart(m)
  <2>1. /\ stop' = m.s /\ inp' = m.s /\ pipe' = [StopPipes EXCEPT ![m.s] = "open"]
        /\ toPage' = toPage \o StopReport /\ inits' = inits
    BY <1>7 DEF HandleStart
  <2>2. PICK r \in StopRuns : run' = [r EXCEPT ![m.s] = "mirroring"]
    BY <1>7 DEF HandleStart
  <2>3. /\ Kept(run, r) /\ \A k \in Session : r[k] # "none" <=> run[k] # "none"
        /\ r \in [Session -> Phase] /\ \A k \in Session : r[k] \notin Alive
        /\ toPage \o StopReport \in Seq(ToPage)
        /\ Ordered(toPage \o StopReport, r, conn)
    BY <2>2, StopInOrder DEF SInv
  <2>4. m.s \in Session /\ run[m.s] = "none" /\ r[m.s] = "none"
    BY <1>5, <1>6, <1>7, <2>3
  <2>5. /\ run'[m.s] = "mirroring" /\ \A k \in Session : k # m.s => run'[k] = r[k]
        /\ Kept(r, run') /\ Kept(run, run')
    BY <2>2, <2>3, <2>4 DEF Kept, Stale
  <2>6. Chained'
    <3>1. StopPipes \in [Session -> {"none", "open", "closed"}]
      BY <2>2, StopEnds DEF IInv
    <3> QED
      BY <3>1, <1>1, <1>3, <2>1, <2>4 DEF SInv, Chained
  <2>7. Numbered'
    <3>1. \A k \in Session : run'[k] # "none" => run[k] # "none" \/ k = m.s
      BY <2>3, <2>5
    <3>2. \A k \in Session : run'[k] \in Alive => k = m.s
      BY <2>3, <2>5
    <3>3. Fresh(toWorker', run', next)
      BY <3>1, <1>0, <1>1, <1>7, FreshTail DEF SInv, Numbered, m
    <3>4. conn # None => conn \in Session
      BY <1>0 DEF TypeOK
    <3>5. \A k \in Session : run'[k] # "none" => k < next /\ k <= m.s
      <4>1. m.s \in Nat /\ m.s < next
        BY <1>4, <1>6, <2>4, NoneIsNoSession
      <4>2. \A k \in Session : run[k] # "none" => k < m.s /\ k < next
        BY <1>5, <1>7 DEF SInv, Numbered
      <4> QED
        BY <3>1, <4>1, <4>2, <1>6
    <3>6. conn # None => run'[conn] # "none"
      BY <3>4, <2>5 DEF SInv, Numbered, Kept
    <3>7. m.s < next
      BY <2>4, <1>4, NoneIsNoSession
    <3> QED
      BY <3>2, <3>3, <3>5, <3>6, <3>7, <1>1, <2>1 DEF SInv, Numbered
  <2>8. InOrder'
    BY <1>1, <2>1, <2>3, <2>5, OrderedKept DEF InOrder
  <2>9. HeardOK'
    BY <1>0, <1>1, <2>5 DEF SInv, HeardOK, Kept, TypeOK
  <2>10. OnceOK'
    <3>1. Once(toWorker, inits) =>
            Once(toWorker', inits) /\ \A c : Asked(toWorker', inits, c) => Asked(toWorker, inits, c)
      BY <1>0, <1>1, OnceTail
    <3>2. ASSUME cur # None, Over(toPage, run, cur) PROVE Over(toPage', run', cur)
      <4>1. cur \in Session /\ run'[cur] = "failed"
        BY <3>2, <1>0, <2>5 DEF Over, Kept, TypeOK
      <4>2. ~ Stopping
        BY <3>2, <1>0, NoneAliveAfterFailure DEF Stopping, SInv, Over, TypeOK
      <4>3. toPage' = toPage
        BY <4>2, <1>0, <2>1, ConcatEmptySeq DEF StopReport
      <4> QED
        BY <3>2, <4>1, <4>3 DEF Over
    <3> QED
      BY <3>1, <3>2, <1>1, <2>1 DEF SInv, OnceOK
  <2> QED
    BY <2>6, <2>7, <2>8, <2>9, <2>10 DEF SInv
<1>8. CASE m.type = "stop" /\ HandleStop
  <2>1. /\ stop' = None /\ inp' = None /\ toPage' = toPage \o StopReport /\ inits' = inits
        /\ run' \in StopRuns /\ m.s = None
    BY <1>3, <1>8 DEF HandleStop
  <2>2. /\ Kept(run, run') /\ \A k \in Session : run'[k] # "none" <=> run[k] # "none"
        /\ \A k \in Session : run'[k] \notin Alive
        /\ Ordered(toPage', run', conn)
    BY <2>1, StopInOrder DEF SInv
  <2>3. Chained'
    BY <1>1, <1>3, <2>1 DEF SInv, Chained
  <2>4. Numbered'
    <3>1. Fresh(toWorker', run', next)
      BY <1>0, <1>1, <2>2, FreshTail DEF SInv, Numbered
    <3>2. conn # None => run'[conn] # "none"
      BY <1>0, <2>2 DEF SInv, Numbered, TypeOK
    <3> QED
      BY <3>1, <3>2, <1>1, <2>1, <2>2 DEF SInv, Numbered
  <2>5. InOrder' /\ HeardOK'
    BY <1>0, <1>1, <2>2 DEF SInv, InOrder, HeardOK, Kept, TypeOK
  <2>6. OnceOK'
    <3>1. Once(toWorker, inits) =>
            Once(toWorker', inits) /\ \A c : Asked(toWorker', inits, c) => Asked(toWorker, inits, c)
      BY <1>0, <1>1, OnceTail
    <3>2. ASSUME cur # None, Over(toPage, run, cur) PROVE Over(toPage', run', cur)
      <4>1. cur \in Session /\ run'[cur] = "failed"
        BY <3>2, <1>0, <2>2 DEF Over, Kept, TypeOK
      <4>2. ~ Stopping
        BY <3>2, <1>0, NoneAliveAfterFailure DEF Stopping, SInv, Over, TypeOK
      <4>3. toPage' = toPage
        BY <4>2, <1>0, <2>1, ConcatEmptySeq DEF StopReport
      <4> QED
        BY <3>2, <4>1, <4>3 DEF Over
    <3> QED
      BY <3>1, <3>2, <1>1, <2>1 DEF SInv, OnceOK
  <2> QED
    BY <2>3, <2>4, <2>5, <2>6 DEF SInv
<1>9. CASE m.type \in Client /\ HandleMessage(m)
  <2>1. /\ UNCHANGED <<stop, inp, pipe, run, toPage>>
        /\ inits' = IF m.type = "initialize" /\ inp # None
                    THEN [inits EXCEPT ![inp] = @ + 1] ELSE inits
    BY <1>9 DEF HandleMessage
  <2>2. m.s = inp /\ inp # None /\ inp \in Session /\ inp < next
    BY <1>0, <1>3, <1>4, <1>9 DEF TypeOK, Client
  <2>3. Chained'
    BY <1>1, <1>3, <2>1, <2>2 DEF SInv, Chained
  <2>4. Fresh(toWorker', run', next)
    BY <1>0, <1>1, <2>1, FreshTail DEF SInv, Numbered
  <2>5. Numbered' /\ InOrder' /\ HeardOK'
    BY <1>1, <2>1, <2>4 DEF SInv, Numbered, InOrder, HeardOK
  <2>6. OnceOK'
    <3>1. m.type = "initialize" => m = Ask("initialize", inp)
      BY <1>2, <2>2 DEF Ask, ToWorker
    <3>2. inits \in [Session -> Nat]
      BY <1>0 DEF TypeOK
    <3>3. \A k \in Session : inits'[k] # 0 => k < next
      BY <3>2, <2>1, <2>2 DEF SInv, OnceOK
    <3>4. \A c : inits'[c] = 0 \/ inits[c] # 0 \/ m = Ask("initialize", c)
      <4>1. CASE m.type = "initialize"
        BY <4>1, <3>1, <3>2, <2>1
      <4>2. CASE m.type # "initialize"
        BY <4>2, <2>1
      <4> QED
        BY <4>1, <4>2
    <3>5. Once(toWorker, inits) =>
            Once(toWorker', inits') /\ \A c : Asked(toWorker', inits', c) => Asked(toWorker, inits, c)
      BY <3>4, <1>0, <1>1, OnceTail DEF m
    <3>6. ~ crossed => \A k \in Session : inits'[k] <= 1
      <4>1. ~ crossed /\ m.type = "initialize" => inits[inp] = 0
        BY <1>2, <2>2 DEF SInv, OnceOK, Once
      <4> QED
        BY <4>1, <3>2, <2>1, <2>2 DEF SInv, OnceOK
    <3> QED
      BY <3>3, <3>5, <3>6, <1>1, <2>1 DEF SInv, OnceOK
  <2> QED
    BY <2>3, <2>5, <2>6 DEF SInv
<1> QED
  BY <1>7, <1>8, <1>9 DEF ReceiveWorker, m

\* A phase ends.
LEMMA TurnSInv ==
  ASSUME IInv, SInv, NEW k \in Session, NEW phase \in Phase, NEW types \in Told,
         Turn(k, phase, types)
  PROVE  SInv'
<1>0. TypeOK /\ toPage \in Seq(ToPage)
  BY DEF IInv, TypeOK
<1>1. /\ run' = [run EXCEPT ![k] = phase] /\ toPage' = toPage \o Reports(k, types)
      /\ UNCHANGED <<ls, ran, cur, conn, next, heard, crossed, toWorker, stop, inp, pipe,
                     inits, sent>>
  BY DEF Turn, Becomes, Reports, page
<1>2. (run[k] = "orphan" /\ phase = "gone" /\ types = <<>>) \/ run[k] \in Alive
  BY DEF Turn
<1>3. /\ run'[k] = phase /\ phase # "none" /\ \A l \in Session : l # k => run'[l] = run[l]
      /\ Kept(run, run') /\ \A l \in Session : run'[l] # "none" <=> run[l] # "none"
      /\ \A l \in Session : run'[l] \in Alive => run[l] \in Alive
  BY <1>0, <1>1, <1>2 DEF Turn, TypeOK, Kept, Stale, Alive
<1>4. Chained'
  BY <1>1 DEF SInv, Chained
<1>5. Numbered'
  <2>1. Fresh(toWorker, run', next)
    BY <1>3 DEF SInv, Numbered, Fresh
  <2>2. conn # None => run'[conn] # "none"
    BY <1>0, <1>3 DEF SInv, Numbered, TypeOK
  <2> QED
    BY <2>1, <2>2, <1>1, <1>3 DEF SInv, Numbered
<1>6. InOrder'
  <2>1. CASE types = <<>>
    <3>1. toPage' = toPage
      BY <2>1, <1>0, <1>1, ReportsAre
    <3> QED
      BY <3>1, <1>0, <1>1, <1>3, OrderedKept DEF SInv, InOrder
  <2>2. CASE types # <<>>
    <3>1. run[k] \in Alive /\ (types = <<"error">> => run'[k] = "failed")
      BY <2>2, <1>2, <1>3 DEF Turn
    <3>2. Ordered(toPage', run', conn)
      BY <3>1, <1>1, <1>3, ReportsInOrder DEF SInv
    <3> QED
      BY <3>2, <1>1 DEF InOrder
  <2> QED
    BY <2>1, <2>2
<1>7. HeardOK'
  BY <1>0, <1>1, <1>3 DEF SInv, HeardOK, Kept, TypeOK
<1>8. OnceOK'
  <2>1. ASSUME cur # None, Over(toPage, run, cur) PROVE Over(toPage', run', cur)
    <3>1. types = <<>>
      BY <2>1, <1>0, <1>2, NoneAliveAfterFailure DEF SInv, Over
    <3>2. toPage' = toPage
      BY <3>1, <1>0, <1>1, ReportsAre
    <3> QED
      BY <2>1, <3>2, <1>0, <1>3 DEF Over, Kept, TypeOK
  <2> QED
    BY <2>1, <1>1 DEF SInv, OnceOK
<1> QED
  BY <1>4, <1>5, <1>6, <1>7, <1>8 DEF SInv

\* A server writes; what an orphan writes is the exception that Ordered makes.
LEMMA TalkSInv ==
  ASSUME IInv, SInv, Talk
  PROVE  SInv'
<1>0. TypeOK /\ toPage \in Seq(ToPage)
  BY DEF IInv, TypeOK
<1>1. PICK k \in Session :
        /\ run[k] \in {"running", "orphan"}
        /\ toPage' = Append(toPage, Tell("message", k))
        /\ UNCHANGED <<page, toWorker, stop, inp, pipe, run, inits>>
  BY DEF Talk
<1>2. UNCHANGED <<ls, ran, cur, conn, next, heard, crossed>>
  BY <1>1 DEF page
<1>. DEFINE m == Tell("message", k)
<1>3. m \in ToPage /\ m.s = k /\ m.type = "message" /\ "message" \notin Starting
  BY DEF Tell, ToPage, Starting
<1>. HIDE DEF m
<1>4. Chained' /\ Numbered' /\ HeardOK'
  BY <1>1, <1>2 DEF SInv, Chained, Numbered, HeardOK
<1>5. InOrder'
  <2>1. \A j \in 1..Len(toPage) : toPage[j].s \in Session /\ run[toPage[j].s] # "none"
    <3>1. \A j \in 1..Len(toPage) : toPage[j] \in ToPage
      BY <1>0
    <3> QED
      BY <3>1 DEF ToPage, SInv, InOrder, Ordered
  <2>2. \A l \in Session : run[l] # "none" => l <= k \/ run[k] \in Stale
    BY <1>1 DEF SInv, Numbered, Alive, Stale
  <2>3. conn # None => conn <= k \/ run[k] \in Stale
    BY <2>2, <1>0 DEF SInv, Numbered, TypeOK
  <2>4. Ordered(Append(toPage, m), run, conn)
    BY <2>1, <2>2, <2>3, <1>0, <1>1, <1>3, OrderedAppend DEF SInv, InOrder
  <2> QED
    BY <2>4, <1>1, <1>2 DEF InOrder, m
<1>6. \A c : Over(toPage, run, c) => Over(toPage', run', c)
  <2>1. /\ Len(toPage) \in Nat /\ Len(toPage') = Len(toPage) + 1 /\ toPage'[Len(toPage) + 1] = m
        /\ \A i \in 1..Len(toPage) : toPage'[i] = toPage[i]
    BY <1>0, <1>1, <1>3, AppendAt DEF m
  <2>2. \A i \in 1..Len(toPage') : i = Len(toPage) + 1 \/ i \in 1..Len(toPage)
    BY <2>1
  <2> QED
    BY <2>1, <2>2, <1>1, <1>3 DEF Over
<1>7. OnceOK'
  BY <1>1, <1>2, <1>6 DEF SInv, OnceOK
<1> QED
  BY <1>4, <1>5, <1>7 DEF SInv

LEMMA NextSInv == IInv /\ SInv /\ [Next]_vars => SInv'
<1> SUFFICES ASSUME IInv, SInv, [Next]_vars PROVE SInv'
  OBVIOUS
<1>1. CASE Mirrored \/ Fetched \/ Exited \/ OrphanEnds
  BY <1>1, PhaseTurns, TurnSInv
<1>2. CASE UNCHANGED vars
  BY <1>2 DEF vars, page, server, SInv, Chained, Numbered, InOrder, HeardOK, OnceOK
<1> QED
  BY <1>1, <1>2, RetargetSInv, ReceivePageSInv, NoteSInv, ReceiveWorkerSInv, TalkSInv DEF Next

LEMMA SInvHolds == Spec => []SInv
  BY IInvHolds, InitSInv, NextSInv, PTL DEF Spec

LEMMA ForeignMessages == IInv /\ SInv => NoForeignMessage
<1> SUFFICES ASSUME IInv, SInv PROVE NoForeignMessage
  OBVIOUS
<1>1. ASSUME toWorker # <<>>, Head(toWorker).type \in Client
      PROVE  inp = Head(toWorker).s /\ pipe[inp] = "open"
  <2>1. toWorker \in Seq(ToWorker)
    BY DEF IInv, TypeOK
  <2>2. Head(toWorker).s = inp /\ Head(toWorker).s # None
    BY <1>1, <2>1, LinkedTail DEF SInv, Chained, Client
  <2> QED
    BY <2>2 DEF SInv, Chained
<1> QED
  BY <1>1 DEF NoForeignMessage, SInv, HeardOK, Stale

\* For any number of sessions, although no message says whose it is: what the client
\* sends is written to the open pipe of the session the page wanted then; and a
\* client that the Started of the session it is for has connected hears only that
\* one, or what the threads of a stopped one that outlives its session write.
THEOREM MessagesStayApart == Spec => []NoForeignMessage
  BY IInvHolds, SInvHolds, ForeignMessages, PTL

-----------------------------------------------------------------------------
(* The client speaks of what it asked to initialize. *)

\* What the client sends follows an initialize for the same session: in its pipe, or
\* before it in q.
Greeted(q, n) ==
  \A i \in 1..Len(q) :
    q[i].type = "note" =>
      n[q[i].s] # 0 \/ \E j \in 1..(i - 1) : q[j] = Ask("initialize", q[i].s)

\* And a connected client sent it for the session the page wants.
GInv == Greeted(toWorker, inits) /\ (conn # None => Asked(toWorker, inits, cur))

\* A message may be added if it is no note, or if its session was asked.
LEMMA GreetedAppend ==
  ASSUME NEW q \in Seq(ToWorker), NEW m \in ToWorker, NEW n, Greeted(q, n),
         m.type = "note" => Asked(q, n, m.s)
  PROVE  /\ Greeted(Append(q, m), n)
         /\ \A c : Asked(q, n, c) => Asked(Append(q, m), n, c)
         /\ \A c : m = Ask("initialize", c) => Asked(Append(q, m), n, c)
<1>1. /\ Len(q) \in Nat /\ Len(Append(q, m)) = Len(q) + 1 /\ Append(q, m)[Len(q) + 1] = m
      /\ \A i \in 1..Len(q) : Append(q, m)[i] = q[i]
  BY AppendAt
<1>2. ASSUME NEW i \in 1..(Len(q) + 1), Append(q, m)[i].type = "note"
      PROVE  \/ n[Append(q, m)[i].s] # 0
             \/ \E j \in 1..(i - 1) : Append(q, m)[j] = Ask("initialize", Append(q, m)[i].s)
  <2>1. CASE i = Len(q) + 1
    BY <2>1, <1>1, <1>2 DEF Asked
  <2>2. CASE i \in 1..Len(q)
    <3>1. \A j \in 1..(i - 1) : Append(q, m)[j] = q[j]
      BY <2>2, <1>1
    <3> QED
      BY <2>2, <3>1, <1>1, <1>2 DEF Greeted
  <2> QED
    BY <2>1, <2>2, <1>1
<1>3. Greeted(Append(q, m), n)
  BY <1>1, <1>2 DEF Greeted
<1>4. ASSUME NEW c, Asked(q, n, c) PROVE Asked(Append(q, m), n, c)
  BY <1>1, <1>4 DEF Asked
<1>5. ASSUME NEW c, m = Ask("initialize", c) PROVE Asked(Append(q, m), n, c)
  <2>1. Len(q) + 1 \in 1..Len(Append(q, m))
    BY <1>1
  <2> QED
    BY <1>1, <1>5, <2>1 DEF Asked
<1> QED
  BY <1>3, <1>4, <1>5

\* The head goes; an initialize is in its pipe then.
LEMMA GreetedTail ==
  ASSUME NEW q \in Seq(ToWorker), q # <<>>, NEW n, NEW p, Greeted(q, n),
         \A c : n[c] # 0 \/ Head(q) = Ask("initialize", c) => p[c] # 0
  PROVE  Greeted(Tail(q), p) /\ \A c : Asked(q, n, c) => Asked(Tail(q), p, c)
<1>1. /\ Len(q) \in Nat \ {0} /\ Len(Tail(q)) = Len(q) - 1 /\ Head(q) = q[1]
      /\ \A i \in 1..(Len(q) - 1) : Tail(q)[i] = q[i + 1]
  BY TailAt
<1>2. ASSUME NEW c, NEW j \in 1..Len(q), q[j] = Ask("initialize", c)
      PROVE  p[c] # 0 \/ (j - 1 \in 1..(Len(q) - 1) /\ Tail(q)[j - 1] = Ask("initialize", c))
  <2>1. CASE j = 1
    BY <2>1, <1>1, <1>2
  <2>2. CASE j # 1
    <3>1. j - 1 \in 1..(Len(q) - 1) /\ (j - 1) + 1 = j
      BY <2>2, <1>1
    <3> QED
      BY <3>1, <1>1, <1>2
  <2> QED
    BY <2>1, <2>2
<1>3. ASSUME NEW i \in 1..(Len(q) - 1), Tail(q)[i].type = "note"
      PROVE  \/ p[Tail(q)[i].s] # 0
             \/ \E j \in 1..(i - 1) : Tail(q)[j] = Ask("initialize", Tail(q)[i].s)
  <2>1. i + 1 \in 1..Len(q) /\ Tail(q)[i] = q[i + 1] /\ (i + 1) - 1 = i
    BY <1>1
  <2>2. n[q[i + 1].s] # 0 \/ \E j \in 1..i : q[j] = Ask("initialize", q[i + 1].s)
    BY <2>1, <1>3 DEF Greeted
  <2>3. ASSUME NEW j \in 1..i, q[j] = Ask("initialize", q[i + 1].s)
        PROVE  p[q[i + 1].s] # 0 \/ \E l \in 1..(i - 1) : Tail(q)[l] = Ask("initialize", q[i + 1].s)
    <3>1. j \in 1..Len(q)
      BY <1>1
    <3>2. j - 1 \in 1..(Len(q) - 1) => j - 1 \in 1..(i - 1)
      BY <1>1
    <3> QED
      BY <2>3, <3>1, <3>2, <1>2
  <2> QED
    BY <2>1, <2>2, <2>3
<1>4. ASSUME NEW c, Asked(q, n, c) PROVE Asked(Tail(q), p, c)
  BY <1>1, <1>2, <1>4 DEF Asked
<1> QED
  BY <1>1, <1>3, <1>4 DEF Greeted

LEMMA NextGInv == IInv /\ SInv /\ GInv /\ [Next]_vars => GInv'
<1> SUFFICES ASSUME IInv, SInv, GInv, [Next]_vars PROVE GInv'
  OBVIOUS
<1>0. /\ toWorker \in Seq(ToWorker) /\ cur \in Session \cup {None} /\ next \in 1..(MaxSessions + 1)
      /\ inits \in [Session -> Nat] /\ inp \in Session \cup {None} /\ inp = stop
  BY DEF IInv, TypeOK
<1>1. CASE Retarget
  <2>1. PICK dir \in BOOLEAN :
          /\ dir => next \in Session
          /\ conn' = None /\ inits' = inits
          /\ toWorker' = toWorker
               \o (IF ran THEN <<Ask("stop", None)>> ELSE <<>>)
               \o (IF dir THEN <<Ask("start", next)>> ELSE <<>>)
    BY <1>1 DEF Retarget, server
  <2>. DEFINE q == IF ran THEN Append(toWorker, Ask("stop", None)) ELSE toWorker
  <2>2. Ask("stop", None) \in ToWorker /\ Ask("stop", None).type # "note"
    BY DEF Ask, ToWorker, Client
  <2>3. dir => Ask("start", next) \in ToWorker /\ Ask("start", next).type # "note"
    BY <2>1 DEF Ask, ToWorker, Client
  <2>4. q \in Seq(ToWorker) /\ Greeted(q, inits)
    BY <1>0, <2>2, GreetedAppend, AppendAt DEF GInv
  <2>5. toWorker \o (IF ran THEN <<Ask("stop", None)>> ELSE <<>>) = q
    BY <1>0, <2>2, AppendIsConcat
  <2>. HIDE DEF q
  <2>6. q \o <<>> = q /\ (dir => q \o <<Ask("start", next)>> = Append(q, Ask("start", next)))
    BY <2>3, <2>4, AppendIsConcat, ConcatEmptySeq
  <2>7. toWorker' = IF dir THEN Append(q, Ask("start", next)) ELSE q
    BY <2>1, <2>5, <2>6
  <2>8. Greeted(toWorker', inits)
    BY <2>3, <2>4, <2>7, GreetedAppend
  <2> QED
    BY <2>1, <2>8 DEF GInv
<1>2. CASE ReceivePage
  <2>1. UNCHANGED <<cur, inits>>
    BY <1>2 DEF ReceivePage, server
  <2>2. \/ UNCHANGED <<conn, toWorker>>
        \/ ls # "ready" /\ toWorker' = Append(toWorker, Ask("initialize", cur))
    BY <1>2 DEF ReceivePage, OnFetching, OnStarted, OnMessage, OnError
  <2>3. CASE UNCHANGED <<conn, toWorker>>
    BY <2>1, <2>3 DEF GInv
  <2>4. CASE ls # "ready" /\ toWorker' = Append(toWorker, Ask("initialize", cur))
    <3>1. Ask("initialize", cur) \in ToWorker /\ Ask("initialize", cur).type # "note"
      BY <1>0 DEF Ask, ToWorker, Client
    <3>2. Greeted(toWorker', inits) /\ Asked(toWorker', inits, cur)
      BY <1>0, <2>4, <3>1, GreetedAppend DEF GInv
    <3> QED
      BY <2>1, <3>2 DEF GInv
  <2> QED
    BY <2>2, <2>3, <2>4
<1>3. CASE Note
  <2>1. /\ conn # None /\ UNCHANGED <<conn, cur, inits>>
        /\ toWorker' = Append(toWorker, Ask("note", cur))
    BY <1>3 DEF Note, page, server
  <2>2. Ask("note", cur) \in ToWorker /\ Ask("note", cur).s = cur
    BY <1>0 DEF Ask, ToWorker, Client
  <2>3. Greeted(toWorker', inits) /\ Asked(toWorker', inits, cur)
    BY <1>0, <2>1, <2>2, GreetedAppend DEF GInv
  <2> QED
    BY <2>1, <2>3 DEF GInv
<1>4. CASE ReceiveWorker
  <2>. DEFINE m == Head(toWorker)
  <2>1. /\ toWorker # <<>> /\ toWorker' = Tail(toWorker) /\ UNCHANGED <<conn, cur>>
        /\ \/ m.type # "initialize" /\ inits' = inits
           \/ m.type = "initialize" /\ HandleMessage(m)
    BY <1>4 DEF ReceiveWorker, HandleStart, HandleStop, HandleMessage, page
  <2>2. m \in ToWorker
    BY <1>0, <2>1, TailAt
  <2>. HIDE DEF m
  <2>3. \A c : inits[c] # 0 \/ m = Ask("initialize", c) => inits'[c] # 0
    <3>1. CASE m.type # "initialize" /\ inits' = inits
      BY <3>1 DEF Ask
    <3>2. CASE m.type = "initialize" /\ HandleMessage(m)
      <4>1. m.type = "stop" <=> m.s = None
        BY <1>0, <2>1, LinkedTail DEF m, SInv, Chained
      <4>2. m.type \in Client => m.s = inp
        BY <1>0, <2>1, LinkedTail DEF m, SInv, Chained
      <4>3. m.s = inp /\ inp \in Session /\ inp # None
        BY <1>0, <3>2, <4>1, <4>2, NoneIsNoSession DEF Client
      <4>4. inits' = [inits EXCEPT ![inp] = @ + 1]
        BY <3>2, <4>3 DEF HandleMessage
      <4>5. \A c : m = Ask("initialize", c) => c = inp
        BY <4>3 DEF Ask
      <4>6. inits'[inp] # 0
        BY <1>0, <4>3, <4>4
      <4>7. \A c : c # inp => inits'[c] = inits[c]
        BY <1>0, <4>4
      <4> QED
        BY <4>5, <4>6, <4>7
    <3> QED
      BY <2>1, <3>1, <3>2
  <2>4. Greeted(toWorker', inits') /\ \A c : Asked(toWorker, inits, c) => Asked(toWorker', inits', c)
    BY <1>0, <2>1, <2>3, GreetedTail DEF m, GInv
  <2> QED
    BY <2>1, <2>4 DEF GInv
<1>5. CASE Mirrored \/ Fetched \/ Exited \/ Talk \/ OrphanEnds \/ UNCHANGED vars
  <2>1. UNCHANGED <<toWorker, inits, conn, cur>>
    BY <1>5 DEF Mirrored, Fetched, Exited, Talk, OrphanEnds, Becomes, vars, page, server
  <2> QED
    BY <2>1 DEF GInv
<1> QED
  BY <1>1, <1>2, <1>3, <1>4, <1>5 DEF Next

\* For any number of sessions and however late the messages that connect the client:
\* a server reads an initialize before anything else the client sends, and no second
\* one, unless the page took an earlier session's Error for that of the one it is
\* connected to.
THEOREM InitializedFirst == Spec => []InitializeFirst
<1>1. Init => GInv
  BY DEF Init, GInv, Greeted
<1>2. ASSUME IInv, SInv, GInv PROVE InitializeFirst
  <2>1. toWorker \in Seq(ToWorker) /\ inits \in [Session -> Nat] /\ inp \in Session \cup {None}
    BY <1>2 DEF IInv, TypeOK
  <2>2. ASSUME toWorker # <<>>, Head(toWorker).type = "note" PROVE inp # None /\ inits[inp] > 0
    <3>1. Head(toWorker) = toWorker[1] /\ 1 \in 1..Len(toWorker)
      BY <2>1, <2>2, TailAt
    <3>2. inits[Head(toWorker).s] # 0
      BY <1>2, <2>2, <3>1 DEF GInv, Greeted
    <3>3. Head(toWorker).s = inp
      BY <1>2, <2>2, ForeignMessages DEF NoForeignMessage, Client
    <3>4. inp # None
      BY <1>2, <2>1, <2>2, <3>3, LinkedTail DEF SInv, Chained
    <3> QED
      BY <2>1, <3>2, <3>3, <3>4
  <2> QED
    BY <1>2, <2>2 DEF InitializeFirst, SInv, OnceOK
<1> QED
  BY <1>1, <1>2, IInvHolds, SInvHolds, NextGInv, PTL DEF Spec
=============================================================================
