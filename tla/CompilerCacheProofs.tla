----------------------- MODULE CompilerCacheProofs -----------------------
(* The safety of the compiler cache, for any number of jobs and compilers. *)
EXTENDS CompilerCache, TLAPS

\* Whoever downloads holds the lock, and downloads what is not there.
HolderFetches ==
  \A j \in Job : pc[j] = "fetching" => holder = j /\ compiler[j] \notin cache

IInv == TypeOK /\ HolderFetches

\* The inductive invariant holds at first.
LEMMA InitIInv == Init => IInv
  BY NoneAssumption, ChunksAssumption DEF Init, IInv, TypeOK, HolderFetches, Message, Ended

\* No step of a job or of the page breaks it: the lock is free when a download
\* begins, and the cache grows only as one ends.
LEMMA NextIInv == IInv /\ [Next]_vars => IInv'
<1> SUFFICES ASSUME IInv, [Next]_vars PROVE IInv'
  OBVIOUS
<1> USE NoneAssumption, ChunksAssumption DEF IInv, TypeOK, HolderFetches, Ended
<1>m. ASSUME NEW m \in Message, Send(m) PROVE mail' \in Seq(Message)
  BY <1>m DEF Send
<1>f. ASSUME NEW c \in Compiler PROVE Fetching(c) \in Message /\ FetchDone(c) \in Message
  BY DEF Fetching, FetchDone, Message
<1>1. ASSUME NEW j \in Job, Ask(j) PROVE IInv'
  BY <1>1 DEF Ask
<1>2. ASSUME NEW j \in Job, Hit(j) PROVE IInv'
  BY <1>2 DEF Hit
<1>3. ASSUME NEW j \in Job, Miss(j) PROVE IInv'
  <2>1. mail' \in Seq(Message)
    BY <1>3, <1>m, <1>f DEF Miss
  <2> QED
    BY <1>3, <2>1 DEF Miss
<1>4. ASSUME NEW j \in Job, Chunk(j) PROVE IInv'
  <2>1. mail' \in Seq(Message)
    BY <1>4, <1>m, <1>f DEF Chunk
  <2> QED
    BY <1>4, <2>1 DEF Chunk
<1>5. ASSUME NEW j \in Job, Arrive(j) PROVE IInv'
  <2>1. mail' \in Seq(Message)
    BY <1>5, <1>m, <1>f DEF Arrive
  <2>2. holder = j
    BY <1>5 DEF Arrive
  <2> QED
    BY <1>5, <2>1, <2>2 DEF Arrive, Leave
<1>6. ASSUME NEW j \in Job, BadTarball(j) PROVE IInv'
  <2>1. mail' \in Seq(Message)
    BY <1>6, <1>m, <1>f DEF BadTarball
  <2> QED
    BY <1>6, <2>1 DEF BadTarball, Leave
<1>7. ASSUME NEW j \in Job, HttpError(j) PROVE IInv'
  BY <1>7 DEF HttpError, Leave
<1>8. ASSUME NEW j \in Job, StreamBreaks(j) PROVE IInv'
  BY <1>8 DEF StreamBreaks
<1>9. ASSUME NEW j \in Job, Stop(j) PROVE IInv'
  BY <1>9 DEF Stop, Leave
<1>10. ASSUME PageReceives PROVE IInv'
  <2>1. Head(mail) \in Message /\ Tail(mail) \in Seq(Message)
    BY <1>10 DEF PageReceives
  <2>2. mail' \in Seq(Message) /\ bars' \subseteq Compiler
    BY <1>10, <2>1 DEF PageReceives, Message
  <2> QED
    BY <1>10, <2>2 DEF PageReceives
<1>11. CASE UNCHANGED vars
  BY <1>11 DEF vars
<1> QED
  BY <1>1, <1>2, <1>3, <1>4, <1>5, <1>6, <1>7, <1>8, <1>9, <1>10, <1>11
  DEF Next, Enter, FetchEnds

\* The cache, the lock, the jobs, the messages and the bars stay in their types,
\* and the lock is held only across a download.
THEOREM TypeCorrect == Spec => []TypeOK
<1>1. IInv => TypeOK
  BY DEF IInv
<1> QED
  BY <1>1, InitIInv, NextIInv, PTL DEF Spec

\* No compiler is downloaded twice at once, nor when the worker has it.
THEOREM NeverFetchedTwice == Spec => []FetchedOnce
<1>1. IInv => FetchedOnce
  BY DEF IInv, HolderFetches, FetchedOnce
<1> QED
  BY <1>1, InitIInv, NextIInv, PTL DEF Spec
-----------------------------------------------------------------------------
(* The bars of the page, once it has read what is on its way.               *)

\* With the messages of q read, a page with the bars of b has one for c: the last
\* of them about c is a report, or none ends the bar it has.
Barred(q, b, c) ==
  \/ \E i \in 1..Len(q) : /\ q[i] = Fetching(c)
                          /\ \A l \in (i + 1)..Len(q) : q[l] # FetchDone(c)
  \/ c \in b /\ \A i \in 1..Len(q) : q[i] # FetchDone(c)

\* The download of c goes on, or was cut off.
Unfinished(c) ==
  /\ c \notin cache
  /\ \E j \in Job : compiler[j] = c /\ pc[j] \in {"fetching"} \union (Ended \ {"served"})

BarsInv == \A c \in Compiler : Barred(mail, bars, c) => Unfinished(c)

\* The two messages about a compiler.
LEMMA MessageKinds ==
  ASSUME NEW c \in Compiler
  PROVE  /\ Fetching(c) \in Message /\ FetchDone(c) \in Message
         /\ \A d : Fetching(c) # FetchDone(d)
         /\ \A d : Fetching(c) = Fetching(d) <=> c = d
         /\ \A d : FetchDone(c) = FetchDone(d) <=> c = d
  BY DEF Fetching, FetchDone, Message

LEMMA MessageIs ==
  ASSUME NEW m \in Message
  PROVE  /\ m.compiler \in Compiler
         /\ m = IF m.type = "fetching" THEN Fetching(m.compiler) ELSE FetchDone(m.compiler)
  BY DEF Fetching, FetchDone, Message

\* A report of the download of c is sent: that compiler has a bar in the end.
LEMMA BarredReport ==
  ASSUME NEW q \in Seq(Message), NEW b, NEW c \in Compiler, NEW d \in Compiler,
         Barred(Append(q, Fetching(d)), b, c)
  PROVE  c = d \/ Barred(q, b, c)
<1> DEFINE a == Append(q, Fetching(d))
<1>1. /\ Len(q) \in Nat /\ Len(a) = Len(q) + 1 /\ a[Len(q) + 1] = Fetching(d)
      /\ \A i \in 1..Len(q) : a[i] = q[i]
  BY MessageKinds
<1> HIDE DEF a
<1>2. CASE \E i \in 1..Len(a) : a[i] = Fetching(c) /\ \A l \in (i + 1)..Len(a) : a[l] # FetchDone(c)
  <2>1. PICK i \in 1..Len(a) : a[i] = Fetching(c) /\ \A l \in (i + 1)..Len(a) : a[l] # FetchDone(c)
    BY <1>2
  <2>2. CASE i = Len(q) + 1
    BY <1>1, <2>1, <2>2, MessageKinds
  <2>3. CASE i \in 1..Len(q)
    <3>1. q[i] = Fetching(c)
      BY <1>1, <2>1, <2>3
    <3>2. \A l \in (i + 1)..Len(q) : q[l] # FetchDone(c)
      <4>1. \A l \in (i + 1)..Len(q) : l \in (i + 1)..Len(a) /\ a[l] = q[l]
        BY <1>1, <2>3
      <4> QED
        BY <2>1, <4>1
    <3> QED
      BY <2>3, <3>1, <3>2 DEF Barred
  <2>4. i = Len(q) + 1 \/ i \in 1..Len(q)
    BY <1>1
  <2> QED
    BY <2>2, <2>3, <2>4
<1>3. CASE c \in b /\ \A i \in 1..Len(a) : a[i] # FetchDone(c)
  <2>1. \A i \in 1..Len(q) : i \in 1..Len(a)
    BY <1>1
  <2> QED
    BY <1>1, <1>3, <2>1 DEF Barred
<1> QED
  BY <1>2, <1>3 DEF Barred, a

\* The end of the download of d is sent: it has no bar in the end.
LEMMA BarredDone ==
  ASSUME NEW q \in Seq(Message), NEW b, NEW c \in Compiler, NEW d \in Compiler,
         Barred(Append(q, FetchDone(d)), b, c)
  PROVE  c # d /\ Barred(q, b, c)
<1> DEFINE a == Append(q, FetchDone(d))
<1>1. /\ Len(q) \in Nat /\ Len(a) = Len(q) + 1 /\ a[Len(q) + 1] = FetchDone(d)
      /\ \A i \in 1..Len(q) : a[i] = q[i]
  BY MessageKinds
<1> HIDE DEF a
<1>2. CASE \E i \in 1..Len(a) : a[i] = Fetching(c) /\ \A l \in (i + 1)..Len(a) : a[l] # FetchDone(c)
  <2>1. PICK i \in 1..Len(a) : a[i] = Fetching(c) /\ \A l \in (i + 1)..Len(a) : a[l] # FetchDone(c)
    BY <1>2
  <2>2. i # Len(q) + 1
    BY <1>1, <2>1, MessageKinds
  <2>3. /\ i \in 1..Len(q) /\ q[i] = Fetching(c) /\ Len(q) + 1 \in (i + 1)..Len(a)
        /\ \A l \in (i + 1)..Len(q) : l \in (i + 1)..Len(a) /\ a[l] = q[l]
    BY <1>1, <2>1, <2>2
  <2>4. \A l \in (i + 1)..Len(q) : q[l] # FetchDone(c)
    BY <2>1, <2>3
  <2>5. c # d
    BY <1>1, <2>1, <2>3
  <2> QED
    BY <2>3, <2>4, <2>5 DEF Barred
<1>3. CASE c \in b /\ \A i \in 1..Len(a) : a[i] # FetchDone(c)
  <2>1. Len(q) + 1 \in 1..Len(a) /\ \A i \in 1..Len(q) : i \in 1..Len(a)
    BY <1>1
  <2> QED
    BY <1>1, <1>3, <2>1 DEF Barred
<1> QED
  BY <1>2, <1>3 DEF Barred, a

\* The page reads a message: what it has in the end does not change.
LEMMA BarredRead ==
  ASSUME NEW q \in Seq(Message), q # <<>>, NEW b, NEW c \in Compiler,
         Barred(Tail(q), IF Head(q).type = "fetching" THEN b \union {Head(q).compiler}
                         ELSE b \ {Head(q).compiler}, c)
  PROVE  Barred(q, b, c)
<1> DEFINE t == Tail(q)
           m == Head(q)
           s == IF m.type = "fetching" THEN b \union {m.compiler} ELSE b \ {m.compiler}
<1>1. /\ Len(q) \in Nat \ {0} /\ Len(t) = Len(q) - 1 /\ m = q[1] /\ m \in Message
      /\ \A i \in 1..(Len(q) - 1) : t[i] = q[i + 1]
  OBVIOUS
<1>2. /\ m.compiler \in Compiler
      /\ m = IF m.type = "fetching" THEN Fetching(m.compiler) ELSE FetchDone(m.compiler)
  BY <1>1, MessageIs
<1>3. Barred(t, s, c)
  OBVIOUS
<1> HIDE DEF t, m
<1>4. CASE \E i \in 1..Len(t) : t[i] = Fetching(c) /\ \A l \in (i + 1)..Len(t) : t[l] # FetchDone(c)
  <2>1. PICK i \in 1..Len(t) : t[i] = Fetching(c) /\ \A l \in (i + 1)..Len(t) : t[l] # FetchDone(c)
    BY <1>4
  <2>2. i + 1 \in 1..Len(q) /\ q[i + 1] = Fetching(c)
    BY <1>1, <2>1
  <2>3. \A l \in ((i + 1) + 1)..Len(q) : l - 1 \in (i + 1)..Len(t) /\ t[l - 1] = q[l]
    BY <1>1, <2>1
  <2> QED
    BY <2>1, <2>2, <2>3 DEF Barred
<1>5. CASE c \in s /\ \A i \in 1..Len(t) : t[i] # FetchDone(c)
  <2>1. \A i \in 2..Len(q) : i - 1 \in 1..Len(t) /\ t[i - 1] = q[i]
    BY <1>1
  <2>2. \A i \in 2..Len(q) : q[i] # FetchDone(c)
    BY <1>5, <2>1
  <2>3. 1 \in 1..Len(q) /\ \A i \in 1..Len(q) : i = 1 \/ i \in 2..Len(q)
    BY <1>1
  <2>4. CASE m = Fetching(c)
    <3>1. 1 + 1 = 2
      OBVIOUS
    <3> QED
      BY <1>1, <2>2, <2>3, <2>4, <3>1 DEF Barred
  <2>5. CASE m # Fetching(c)
    <3>1. c \in b /\ m # FetchDone(c)
      BY <1>2, <1>5, <2>5, MessageKinds
    <3> QED
      BY <1>1, <2>2, <2>3, <3>1 DEF Barred
  <2> QED
    BY <2>4, <2>5
<1> QED
  BY <1>3, <1>4, <1>5 DEF Barred

\* A job is stopped, fails or panics: what was cut off stays so.
LEMMA StillUnfinished ==
  ASSUME IInv, NEW j \in Job, NEW c, Unfinished(c),
         UNCHANGED <<cache, compiler>>, pc' \in [Job -> {"idle", "waiting", "fetching"} \union Ended],
         \A k \in Job \ {j} : pc'[k] = pc[k],
         pc[j] = "fetching" => pc'[j] \in {"fetching"} \union (Ended \ {"served"}),
         pc[j] \notin Ended
  PROVE  Unfinished(c)'
<1>1. PICK k \in Job : compiler[k] = c /\ pc[k] \in {"fetching"} \union (Ended \ {"served"})
  BY DEF Unfinished
<1>2. pc'[k] \in {"fetching"} \union (Ended \ {"served"})
  BY <1>1
<1> QED
  BY <1>1, <1>2 DEF Unfinished

LEMMA BarsInvHolds == IInv /\ BarsInv /\ [Next]_vars => BarsInv'
<1> SUFFICES ASSUME IInv, BarsInv, [Next]_vars, NEW c \in Compiler, Barred(mail', bars', c)
             PROVE  Unfinished(c)'
  BY DEF BarsInv
<1>t. TypeOK /\ mail \in Seq(Message) /\ pc \in [Job -> {"idle", "waiting", "fetching"} \union Ended]
      /\ compiler \in [Job -> Compiler]
  BY DEF IInv, TypeOK
<1>e. {"idle", "waiting", "fetching"} \cap Ended = {}
      /\ {"failed", "dropped", "panicked"} = Ended \ {"served"}
  BY DEF Ended
\* The messages and the cache stay.
<1>s. ASSUME NEW j \in Job, NEW p \in {"waiting", "served", "failed", "dropped", "panicked"},
             pc' = [pc EXCEPT ![j] = p], pc[j] \notin Ended,
             pc[j] = "fetching" => p \notin {"waiting", "served"},
             UNCHANGED <<cache, compiler, mail, bars>>
      PROVE  Unfinished(c)'
  <2>1. /\ pc' \in [Job -> {"idle", "waiting", "fetching"} \union Ended]
        /\ pc'[j] = p /\ \A k \in Job \ {j} : pc'[k] = pc[k]
        /\ pc[j] = "fetching" => pc'[j] \in {"fetching"} \union (Ended \ {"served"})
    BY <1>t, <1>s DEF Ended
  <2> QED
    BY <1>s, <2>1, StillUnfinished DEF BarsInv
\* A report: this job downloads c, which is not there, or c is not concerned.
<1>r. ASSUME NEW j \in Job, Send(Fetching(compiler[j])), pc'[j] = "fetching",
             compiler[j] \notin cache, UNCHANGED <<cache, compiler, bars>>,
             \A k \in Job \ {j} : pc'[k] = pc[k], pc[j] \in {"waiting", "fetching"},
             pc' \in [Job -> {"idle", "waiting", "fetching"} \union Ended]
      PROVE  Unfinished(c)'
  <2>1. compiler[j] \in Compiler /\ Barred(Append(mail, Fetching(compiler[j])), bars, c)
    BY <1>t, <1>r DEF Send
  <2>2. c = compiler[j] \/ Barred(mail, bars, c)
    BY <1>t, <2>1, BarredReport
  <2>3. CASE c = compiler[j]
    BY <1>r, <2>3 DEF Unfinished
  <2>4. CASE Barred(mail, bars, c)
    BY <1>e, <1>r, <2>4, StillUnfinished DEF BarsInv
  <2> QED
    BY <2>2, <2>3, <2>4
\* The end of a download: c is not the compiler that this job asked for.
<1>d. ASSUME NEW j \in Job, Send(FetchDone(compiler[j])), pc[j] = "fetching",
             UNCHANGED <<compiler, bars>>, cache' \subseteq cache \union {compiler[j]},
             \A k \in Job \ {j} : pc'[k] = pc[k]
      PROVE  Unfinished(c)'
  <2>1. compiler[j] \in Compiler /\ Barred(Append(mail, FetchDone(compiler[j])), bars, c)
    BY <1>t, <1>d DEF Send
  <2>2. c # compiler[j] /\ Barred(mail, bars, c)
    BY <1>t, <2>1, BarredDone
  <2>3. PICK k \in Job : compiler[k] = c /\ pc[k] \in {"fetching"} \union (Ended \ {"served"})
    BY <2>2 DEF BarsInv, Unfinished
  <2>4. c \notin cache'
    BY <1>d, <2>2 DEF BarsInv, Unfinished
  <2> QED
    BY <1>d, <2>2, <2>3, <2>4 DEF Unfinished
<1>1. ASSUME NEW j \in Job, Ask(j) PROVE Unfinished(c)'
  BY <1>e, <1>s, <1>1 DEF Ask
<1>2. ASSUME NEW j \in Job, Hit(j) PROVE Unfinished(c)'
  BY <1>e, <1>s, <1>2 DEF Hit
<1>3. ASSUME NEW j \in Job, Miss(j) PROVE Unfinished(c)'
  <2>1. /\ pc' \in [Job -> {"idle", "waiting", "fetching"} \union Ended]
        /\ pc'[j] = "fetching" /\ \A k \in Job \ {j} : pc'[k] = pc[k]
    BY <1>t, <1>3 DEF Miss
  <2> QED
    BY <1>r, <1>3, <2>1 DEF Miss
<1>4. ASSUME NEW j \in Job, Chunk(j) PROVE Unfinished(c)'
  <2>1. compiler[j] \notin cache
    BY <1>4 DEF Chunk, IInv, HolderFetches
  <2> QED
    BY <1>t, <1>r, <1>4, <2>1 DEF Chunk
<1>5. ASSUME NEW j \in Job, Arrive(j) PROVE Unfinished(c)'
  BY <1>t, <1>d, <1>5 DEF Arrive, Leave
<1>6. ASSUME NEW j \in Job, BadTarball(j) PROVE Unfinished(c)'
  <2>1. \A k \in Job \ {j} : pc'[k] = pc[k]
    BY <1>t, <1>6 DEF BadTarball, Leave
  <2> QED
    BY <1>d, <1>6, <2>1 DEF BadTarball
<1>7. ASSUME NEW j \in Job, HttpError(j) PROVE Unfinished(c)'
  BY <1>e, <1>s, <1>7 DEF HttpError, Leave
<1>8. ASSUME NEW j \in Job, StreamBreaks(j) PROVE Unfinished(c)'
  BY <1>e, <1>s, <1>8 DEF StreamBreaks
<1>9. ASSUME NEW j \in Job, Stop(j) PROVE Unfinished(c)'
  BY <1>e, <1>s, <1>9 DEF Stop, Leave
<1>10. ASSUME PageReceives PROVE Unfinished(c)'
  <2>1. Barred(mail, bars, c)
    BY <1>t, <1>10, BarredRead DEF PageReceives
  <2> QED
    BY <1>10, <2>1 DEF PageReceives, BarsInv, Unfinished
<1>11. CASE UNCHANGED vars
  BY <1>11 DEF vars, BarsInv, Unfinished
<1> QED
  BY <1>1, <1>2, <1>3, <1>4, <1>5, <1>6, <1>7, <1>8, <1>9, <1>10, <1>11
  DEF Next, Enter, FetchEnds

\* Whatever is stopped, fails or panics, and however far the page is behind, a bar
\* that remains is of a download that goes on or was cut off.
THEOREM NoStaleBar == Spec => []BarsAreDownloads
<1>1. Init => BarsInv
  BY DEF Init, BarsInv, Barred
<1>2. IInv /\ BarsInv => BarsAreDownloads
  <2> SUFFICES ASSUME IInv, BarsInv, mail = <<>>, NEW c \in bars PROVE Unfinished(c)
    BY DEF BarsAreDownloads, Unfinished
  <2>1. c \in Compiler /\ Len(mail) = 0
    BY DEF IInv, TypeOK
  <2>2. Barred(mail, bars, c)
    BY <2>1 DEF Barred
  <2> QED
    BY <2>1, <2>2 DEF BarsInv
<1> QED
  BY <1>1, <1>2, InitIInv, NextIInv, BarsInvHolds, PTL DEF Spec
==========================================================================
