--------------------------- MODULE CompilerCache ---------------------------
(***************************************************************************)
(* The compilers that the worker has fetched: get_fs of worker/src/util.rs *)
(* with the runs and language servers that await it, and the bars that the *)
(* page draws for the downloads (handle_message of frontend/src/main.rs).  *)
(*                                                                         *)
(* One async mutex guards the cache and is held while a tarball is         *)
(* fetched.  A job is one call of get_fs: the future of a run or of a      *)
(* language server, which Stop, a new run and a new server drop wherever   *)
(* it stands.  What a tarball holds, and how far a download is, are left   *)
(* out.                                                                    *)
(***************************************************************************)
EXTENDS Naturals, FiniteSets, Sequences

CONSTANTS
  Job,        \* calls of get_fs
  Compiler,   \* names of tarballs
  None,       \* no job
  MaxChunks   \* bound: chunks of one download

ASSUME NoneAssumption == None \notin Job
ASSUME ChunksAssumption == MaxChunks \in Nat

VARIABLES
  holder,     \* who holds the mutex of fs_cache
  cache,      \* the keys of fs_cache
  pc,         \* where each job is
  compiler,   \* the name it asks for
  chunks,     \* the chunks it has received
  mail,       \* messages from the worker to the page
  bars        \* fetching_compiler_progress: the compilers that have a bar

vars == <<holder, cache, pc, compiler, chunks, mail, bars>>

Ended == {"served", "failed", "dropped", "panicked"}
Message == [type : {"fetching", "done"}, compiler : Compiler]

Fetching(c) == [type |-> "fetching", compiler |-> c]
FetchDone(c) == [type |-> "done", compiler |-> c]
Send(m) == mail' = Append(mail, m)

Init ==
  /\ holder = None /\ cache = {} /\ mail = <<>> /\ bars = {}
  /\ pc = [j \in Job |-> "idle"] /\ chunks = [j \in Job |-> 0]
  /\ compiler \in [Job -> Compiler]

\* A run or a language server calls get_fs.
Ask(j) ==
  /\ pc[j] = "idle" /\ pc' = [pc EXCEPT ![j] = "waiting"]
  /\ UNCHANGED <<holder, cache, compiler, chunks, mail, bars>>

\* The lock is free and the compiler is there: a copy is returned, and the guard
\* goes before the next await.
Hit(j) ==
  /\ pc[j] = "waiting" /\ holder = None /\ compiler[j] \in cache
  /\ pc' = [pc EXCEPT ![j] = "served"]
  /\ UNCHANGED <<holder, cache, compiler, chunks, mail, bars>>

\* Faulty variant: the lock is given back before the download.
MissUnlocked(j) ==
  /\ pc[j] = "waiting" /\ holder = None /\ compiler[j] \notin cache
  /\ pc' = [pc EXCEPT ![j] = "fetching"]
  /\ Send(Fetching(compiler[j]))
  /\ UNCHANGED <<holder, cache, compiler, chunks, bars>>

\* It is not there: it is fetched with the lock held.
Miss(j) ==
  /\ pc[j] = "waiting" /\ holder = None /\ compiler[j] \notin cache
  /\ holder' = j /\ pc' = [pc EXCEPT ![j] = "fetching"]
  /\ Send(Fetching(compiler[j]))
  /\ UNCHANGED <<cache, compiler, chunks, bars>>

Chunk(j) ==
  /\ pc[j] = "fetching" /\ chunks[j] < MaxChunks
  /\ chunks' = [chunks EXCEPT ![j] = @ + 1]
  /\ Send(Fetching(compiler[j]))
  /\ UNCHANGED <<holder, cache, pc, compiler, bars>>

\* The job leaves get_fs and the guard with it.
Leave(j, how) ==
  /\ pc' = [pc EXCEPT ![j] = how]
  /\ holder' = IF holder = j THEN None ELSE holder

\* Faulty variant: the last report comes after CompilerFetchDone.
ArriveReportingLate(j) ==
  /\ pc[j] = "fetching"
  /\ mail' = mail \o <<FetchDone(compiler[j]), Fetching(compiler[j])>>
  /\ cache' = cache \union {compiler[j]} /\ Leave(j, "served")
  /\ UNCHANGED <<compiler, chunks, bars>>

\* The download ends and the tarball is good.
Arrive(j) ==
  /\ pc[j] = "fetching"
  /\ Send(FetchDone(compiler[j]))
  /\ cache' = cache \union {compiler[j]} /\ Leave(j, "served")
  /\ UNCHANGED <<compiler, chunks, bars>>

\* It is not: fs_from_tar returns an error, or panics at a path of another form.
BadTarball(j) ==
  /\ pc[j] = "fetching"
  /\ Send(FetchDone(compiler[j]))
  /\ Leave(j, "failed") \/ (pc' = [pc EXCEPT ![j] = "panicked"] /\ UNCHANGED holder)
  /\ UNCHANGED <<cache, compiler, chunks, bars>>

\* The request fails, or its answer is not a success.
HttpError(j) ==
  /\ pc[j] = "fetching" /\ chunks[j] = 0
  /\ Leave(j, "failed")
  /\ UNCHANGED <<cache, compiler, chunks, mail, bars>>

\* The connection breaks under the reader: the expect of fetch_tar panics, and
\* the task that holds the guard is never polled nor dropped again.
StreamBreaks(j) ==
  /\ pc[j] = "fetching" /\ pc' = [pc EXCEPT ![j] = "panicked"]
  /\ UNCHANGED <<holder, cache, compiler, chunks, mail, bars>>

\* Faulty variant: the guard survives the future that held it.
StopKeepingTheLock(j) ==
  /\ pc[j] \in {"waiting", "fetching"} /\ pc' = [pc EXCEPT ![j] = "dropped"]
  /\ UNCHANGED <<holder, cache, compiler, chunks, mail, bars>>

\* The select of exec.rs or ls.rs drops the future.
Stop(j) ==
  /\ pc[j] \in {"waiting", "fetching"} /\ Leave(j, "dropped")
  /\ UNCHANGED <<cache, compiler, chunks, mail, bars>>

\* handle_message of the page.
PageReceives ==
  /\ mail # <<>> /\ mail' = Tail(mail)
  /\ bars' = IF Head(mail).type = "fetching" THEN bars \union {Head(mail).compiler}
             ELSE bars \ {Head(mail).compiler}
  /\ UNCHANGED <<holder, cache, pc, compiler, chunks>>

Enter(j) == Hit(j) \/ Miss(j)
FetchEnds(j) == Arrive(j) \/ BadTarball(j) \/ HttpError(j) \/ StreamBreaks(j)

Next ==
  \/ \E j \in Job : Ask(j) \/ Enter(j) \/ Chunk(j) \/ FetchEnds(j) \/ Stop(j)
  \/ PageReceives

\* A job that was woken is polled, and a download ends in one way or another.
Fairness == \A j \in Job : WF_vars(Enter(j)) /\ WF_vars(FetchEnds(j))

Spec == Init /\ [][Next]_vars /\ Fairness

----------------------------------------------------------------------------
(* Properties.                                                             *)

\* Everything has its type, and the lock is held only across a download: by the
\* job that fetches, or for ever by one that panicked.
TypeOK ==
  /\ holder \in Job \union {None} /\ cache \subseteq Compiler /\ bars \subseteq Compiler
  /\ pc \in [Job -> {"idle", "waiting", "fetching"} \union Ended]
  /\ compiler \in [Job -> Compiler] /\ chunks \in [Job -> 0..MaxChunks]
  /\ mail \in Seq(Message)
  /\ holder # None => pc[holder] \in {"fetching", "panicked"}

\* A compiler is never downloaded by two jobs at once, nor when the worker has
\* it: a language server and a run that start together share one download.
FetchedOnce ==
  /\ \A j \in Job : pc[j] = "fetching" => compiler[j] \notin cache
  /\ \A j, k \in Job : pc[j] = "fetching" /\ pc[k] = "fetching" => j = k

\* A bar without its download is left only by one that was cut off, and goes with
\* the next that succeeds: no compiler that the worker has keeps a bar.
BarsAreDownloads ==
  mail = <<>> =>
    \A c \in bars :
      /\ c \notin cache
      /\ \E j \in Job : compiler[j] = c /\ pc[j] \in {"fetching"} \union (Ended \ {"served"})

\* Whoever waits for the cache gets its turn when the job before it arrives, fails
\* or is stopped, unless a panic has taken the lock with it for good.
EveryoneGetsATurn ==
  \A j \in Job : pc[j] = "waiting" ~> pc[j] # "waiting" \/ \E k \in Job : pc[k] = "panicked"
=============================================================================
