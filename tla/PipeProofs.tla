----------------------------- MODULE PipeProofs -----------------------------
(***************************************************************************)
(* Proofs about module Pipe for any set of readers, any alphabet and any   *)
(* bounds: the safety invariants that MCPipe checks on three readers.      *)
(***************************************************************************)
EXTENDS Pipe, SequenceTheorems, TLAPS

(***************************************************************************)
(* The inductive invariant.  Each part says what the next one needs:       *)
(*   MutexOK   who sleeps where determines who owns the mutex;             *)
(*   GotOK     a call that does not own the mutex has no bytes yet, and a  *)
(*             plain read never keeps a partial result;                    *)
(*   FrameOK   what the owner of the mutex holds are the last bytes taken. *)
(***************************************************************************)
MutexOK ==
  /\ \A r \in Reader : pc[r] = "parked" => holder = r
  /\ \A r \in Reader : holder = r => pc[r] \in {"ready", "parked"}
  /\ \A r \in Reader : pc[r] = "queued" => r \in waiters
  /\ \A r \in waiters : pc[r] \in {"queued", "ready"}

GotOK ==
  \A r \in Reader :
    /\ pc[r] # "idle" /\ op[r].kind = "read" => got[r] = <<>>
    /\ pc[r] # "idle" /\ holder # r => got[r] = <<>>

FrameOK == \A r \in Reader : holder = r => IsSuffix(got[r], delivered)

IInv == TypeOK /\ MutexOK /\ GotOK /\ FrameOK /\ NoLostWakeup /\ StreamIntact

-----------------------------------------------------------------------------
(* Sequences: splitting a buffer, and suffixes. *)

LEMMA SplitSeq ==
  ASSUME NEW S, NEW s \in Seq(S), NEW n \in 0..Len(s)
  PROVE  /\ SubSeq(s, 1, n) \in Seq(S)
         /\ SubSeq(s, n + 1, Len(s)) \in Seq(S)
         /\ Len(SubSeq(s, 1, n)) = n
         /\ Len(SubSeq(s, n + 1, Len(s))) = Len(s) - n
         /\ SubSeq(s, 1, n) \o SubSeq(s, n + 1, Len(s)) = s
<1>1. Len(s) \in Nat /\ \A i \in 1..Len(s) : s[i] \in S
  BY LenProperties, ElementOfSeq
<1>2. /\ SubSeq(s, 1, n) \in Seq(S)
      /\ Len(SubSeq(s, 1, n)) = n
  <2>1. \A i \in 1..n : s[i] \in S
    BY <1>1
  <2>2. n \in Int /\ 1 \in Int
    BY <1>1
  <2>. QED
    BY <2>1, <2>2, <1>1, SubSeqProperties
<1>3. /\ SubSeq(s, n + 1, Len(s)) \in Seq(S)
      /\ Len(SubSeq(s, n + 1, Len(s))) = Len(s) - n
  <2>1. \A i \in (n + 1)..Len(s) : s[i] \in S
    BY <1>1
  <2>2. n + 1 \in Int /\ Len(s) \in Int
    BY <1>1
  <2>. QED
    BY <2>1, <2>2, <1>1, SubSeqProperties
<1>4. SubSeq(s, 1, n) \o SubSeq(s, n + 1, Len(s)) = SubSeq(s, 1, Len(s))
  <2>1. 1 \in 1..(Len(s) + 1) /\ n \in (1 - 1)..Len(s) /\ Len(s) \in n..Len(s)
    BY <1>1
  <2>. QED
    BY <2>1, ConcatAdjacentSubSeq
<1>. QED
  BY <1>2, <1>3, <1>4, SubSeqFull

LEMMA SuffixOfEmpty ==
  ASSUME NEW S, NEW t \in Seq(S)
  PROVE  IsSuffix(<<>>, t)
<1>1. Len(t) \in Nat /\ SubSeq(t, Len(t) + 1, Len(t)) = <<>>
  BY LenProperties, SubSeqEmpty
<1>. QED
  BY <1>1 DEF IsSuffix

LEMMA SuffixGrows ==
  ASSUME NEW S, NEW s \in Seq(S), NEW t \in Seq(S), NEW u \in Seq(S),
         IsSuffix(s, t)
  PROVE  IsSuffix(s \o u, t \o u)
<1>1. PICK i \in 0..Len(t) : s = SubSeq(t, i + 1, Len(t))
  BY DEF IsSuffix
<1>2. Len(t) \in Nat /\ Len(u) \in Nat
  BY LenProperties
<1>3. t \o u \in Seq(S) /\ Len(t \o u) = Len(t) + Len(u)
  BY ConcatProperties
<1>4. Len(s) = Len(t) - i /\ \A j \in 1..Len(s) : s[j] = t[i + j]
  <2>1. \A j \in (i + 1)..Len(t) : t[j] \in S
    BY <1>2, ElementOfSeq
  <2>2. i + 1 \in Int /\ Len(t) \in Int
    BY <1>2
  <2>3. /\ Len(SubSeq(t, i + 1, Len(t))) = IF i + 1 <= Len(t) THEN Len(t) - (i + 1) + 1 ELSE 0
        /\ \A j \in 1..(Len(t) - (i + 1) + 1) : SubSeq(t, i + 1, Len(t))[j] = t[i + 1 + j - 1]
    BY <2>1, <2>2, SubSeqProperties
  <2>. QED
    BY <2>3, <1>1, <1>2
<1>5. DEFINE w == SubSeq(t \o u, i + 1, Len(t \o u))
<1>6. w \in Seq(S) /\ Len(w) = Len(t) + Len(u) - i
      /\ \A j \in 1..Len(w) : w[j] = (t \o u)[i + j]
  <2>1. \A j \in (i + 1)..Len(t \o u) : (t \o u)[j] \in S
    BY <1>2, <1>3, ElementOfSeq
  <2>2. i + 1 \in Int /\ Len(t \o u) \in Int
    BY <1>2, <1>3
  <2>3. /\ w \in Seq(S)
        /\ Len(w) = IF i + 1 <= Len(t \o u) THEN Len(t \o u) - (i + 1) + 1 ELSE 0
        /\ \A j \in 1..(Len(t \o u) - (i + 1) + 1) : w[j] = (t \o u)[i + 1 + j - 1]
    BY <2>1, <2>2, SubSeqProperties
  <2>. QED
    BY <2>3, <1>2, <1>3
<1>7. s \o u \in Seq(S) /\ Len(s \o u) = Len(s) + Len(u)
      /\ \A j \in 1..(Len(s) + Len(u)) :
           (s \o u)[j] = IF j <= Len(s) THEN s[j] ELSE u[j - Len(s)]
  BY ConcatProperties
<1>8. \A j \in 1..(Len(t) + Len(u)) :
           (t \o u)[j] = IF j <= Len(t) THEN t[j] ELSE u[j - Len(t)]
  BY ConcatProperties
<1>9. \A j \in 1..Len(w) : w[j] = (s \o u)[j]
  <2>. TAKE j \in 1..Len(w)
  <2>. HIDE DEF w
  <2>1. w[j] = IF i + j <= Len(t) THEN t[i + j] ELSE u[i + j - Len(t)]
    BY <1>2, <1>6, <1>8
  <2>2. CASE j <= Len(s)
    BY <2>1, <2>2, <1>2, <1>4, <1>6, <1>7
  <2>3. CASE j > Len(s)
    <3>1. i + j - Len(t) = j - Len(s) /\ i + j > Len(t)
      BY <2>3, <1>2, <1>4, <1>6
    <3>2. w[j] = u[j - Len(s)]
      BY <3>1, <2>1, <1>2, <1>6
    <3>3. (s \o u)[j] = u[j - Len(s)]
      BY <2>3, <1>2, <1>4, <1>6, <1>7
    <3>. QED
      BY <3>2, <3>3
  <2>. QED
    BY <2>2, <2>3, <1>2, <1>4, <1>6
<1>10. w = s \o u
  <2>. HIDE DEF w
  <2>1. Len(w) = Len(s \o u)
    BY <1>2, <1>4, <1>6, <1>7
  <2>. QED
    BY <2>1, <1>6, <1>7, <1>9, SeqEqual
<1>11. i \in 0..Len(t \o u)
  BY <1>2, <1>3
<1>. QED
  BY <1>10, <1>11 DEF IsSuffix

-----------------------------------------------------------------------------
(* The wait list and the buffer.                                           *)

LEMMA OneOfSubset ==
  ASSUME NEW W0, NEW W \in OneOf(W0)
  PROVE  W \subseteq W0 /\ (W0 # {} => \E w \in W0 : W = {w})
BY DEF OneOf

LEMMA WokenType ==
  ASSUME NEW p \in [Reader -> PC], NEW W
  PROVE  Woken(p, W) \in [Reader -> PC]
BY DEF Woken, PC

LEMMA OpKinds ==
  ASSUME NEW o \in Op
  PROVE  /\ o.kind \in {"read", "fill", "exact", "until"}
         /\ o.want \in Nat
BY PipeAssumption DEF Op

\* What a poll takes is there, and leaves the caller's buffer within bounds.
LEMMA TakesBounded ==
  ASSUME TypeOK, GotOK, NEW r \in Reader, pc[r] # "idle", NEW n \in Takes(r)
  PROVE  /\ n \in 0..Len(buf)
         /\ op[r].kind \in {"read", "exact"} => Len(got[r]) + n <= op[r].want
         /\ op[r].kind = "read" /\ buf # <<>> =>
              op[r].want = 0 \/ SubSeq(buf, 1, n) # <<>>
<1>1. op[r] \in Op /\ buf \in Seq(Byte) /\ got[r] \in Seq(Byte)
      /\ (op[r].kind \in {"read", "exact"} => Len(got[r]) <= op[r].want)
  BY DEF TypeOK
<1>2. /\ op[r].kind \in {"read", "fill", "exact", "until"}
      /\ op[r].want \in Nat
  BY <1>1, OpKinds
<1>3. Len(buf) \in Nat /\ Len(got[r]) \in Nat /\ Len(<<>>) = 0
  BY <1>1, LenProperties, EmptySeq
<1>4. op[r].kind = "read" => got[r] = <<>>
  BY DEF GotOK
<1>5. CASE buf = <<>>
  BY <1>1, <1>2, <1>3, <1>5 DEF Takes
<1>6. CASE buf # <<>> /\ op[r].kind = "read"
  <2>1. n \in 0..Len(buf) /\ n <= op[r].want /\ (op[r].want = 0 \/ n # 0)
    BY <1>2, <1>3, <1>6 DEF Takes
  <2>2. Len(got[r]) = 0
    BY <1>3, <1>4, <1>6
  <2>3. Len(SubSeq(buf, 1, n)) = n
    BY <2>1, <1>1, SplitSeq
  <2>. QED
    BY <2>1, <2>2, <2>3, <1>2, <1>3, <1>6
<1>7. CASE buf # <<>> /\ op[r].kind = "exact"
  BY <1>1, <1>2, <1>3, <1>7 DEF Takes, ExactTake
<1>8. CASE buf # <<>> /\ op[r].kind \in {"fill", "until"}
  BY <1>2, <1>3, <1>8 DEF Takes
<1>. QED
  BY <1>2, <1>5, <1>6, <1>7, <1>8

\* A call that a poll does not complete took all there was: looping calls go on to
\* the next slice at once.
LEMMA UnfinishedTakesAll ==
  ASSUME TypeOK, GotOK, NEW r \in Reader, pc[r] # "idle", NEW n \in Takes(r),
         ~(buf # <<>> /\ Complete(r, got[r] \o SubSeq(buf, 1, n)))
  PROVE  n = Len(buf) /\ SubSeq(buf, n + 1, Len(buf)) = <<>>
<1>. DEFINE chunk == SubSeq(buf, 1, n)
            rest == SubSeq(buf, n + 1, Len(buf))
            g == got[r] \o chunk
<1>1. buf \in Seq(Byte) /\ got[r] \in Seq(Byte) /\ op[r] \in Op
  BY DEF TypeOK
<1>2. n \in 0..Len(buf)
  BY TakesBounded
<1>3. /\ chunk \in Seq(Byte) /\ rest \in Seq(Byte)
      /\ Len(chunk) = n /\ Len(rest) = Len(buf) - n
  BY <1>1, <1>2, SplitSeq
<1>4. g \in Seq(Byte) /\ Len(g) = Len(got[r]) + n
  BY <1>1, <1>3, ConcatProperties
<1>5. Len(buf) \in Nat /\ (Len(buf) = 0 <=> buf = <<>>)
  BY <1>1, LenProperties, EmptySeq
<1>6. op[r].kind \in {"read", "fill", "exact", "until"} /\ op[r].want \in Nat
  BY <1>1, OpKinds
<1>7. Len(got[r]) \in Nat /\ Len(g) \in Nat /\ (g = <<>> <=> Len(g) = 0)
  BY <1>1, <1>4, LenProperties, EmptySeq
<1>8. n = Len(buf) => rest = <<>>
  BY <1>2, <1>3, <1>5, EmptySeq
<1>9. CASE buf = <<>>
  BY <1>2, <1>5, <1>8, <1>9
<1>10. CASE buf # <<>> /\ op[r].kind \in {"read", "fill"}
  <2>1. ~Complete(r, g)
    BY <1>10
  <2>2. n # 0 \/ (op[r].kind = "read" /\ op[r].want = 0)
    BY <1>5, <1>6, <1>10 DEF Takes
  <2>3. g # <<>> \/ (op[r].kind = "read" /\ op[r].want = 0)
    BY <2>2, <1>2, <1>4, <1>5, <1>7
  <2>. QED
    BY <2>1, <2>3, <1>10 DEF Complete
<1>11. CASE buf # <<>> /\ op[r].kind = "exact"
  <2>1. ~Complete(r, g)
    BY <1>11
  <2>2. n = ExactTake(r)
    BY <1>11 DEF Takes
  <2>3. Len(got[r]) + n # op[r].want
    BY <2>1, <1>4, <1>11 DEF Complete
  <2>4. n = Len(buf)
    BY <2>2, <2>3, <1>5, <1>6, <1>7 DEF ExactTake
  <2>. QED
    BY <2>4, <1>8
<1>12. CASE buf # <<>> /\ op[r].kind = "until"
  <2>1. ~Complete(r, g)
    BY <1>12
  <2>2. n \in 1..Len(buf) /\ (buf[n] = Delim \/ n = Len(buf))
    BY <1>12 DEF Takes
  <2>3. g[Len(g)] = chunk[n]
    <3>1. g = got[r] \o chunk
      OBVIOUS
    <3>. HIDE DEF chunk, g
    <3>2. Len(g) = Len(got[r]) + Len(chunk)
      BY <1>3, <1>4
    <3>3. (got[r] \o chunk)[Len(got[r]) + Len(chunk)] = chunk[Len(chunk)]
      BY <2>2, <1>1, <1>3, <1>5, <1>7, ConcatProperties
    <3>. QED
      BY <3>1, <3>2, <3>3, <1>3
  <2>4. chunk[n] = buf[n]
    <3>1. \A i \in 1..n : buf[i] \in Byte
      BY <2>2, <1>1, <1>5, ElementOfSeq
    <3>. QED
      BY <3>1, <2>2, <1>5, SubSeqProperties
  <2>5. g # <<>>
    BY <2>2, <1>4, <1>5, <1>7
  <2>6. n = Len(buf)
    BY <2>1, <2>2, <2>3, <2>4, <2>5, <1>12 DEF Complete
  <2>. QED
    BY <2>6, <1>8
<1>. QED
  BY <1>6, <1>9, <1>10, <1>11, <1>12

-----------------------------------------------------------------------------
(* The initial states and the steps that only move tasks.                  *)

LEMMA InitInv == Init => IInv
<1>. SUFFICES ASSUME Init PROVE IInv
  OBVIOUS
<1>1. <<>> \in Seq(Byte) /\ <<>> \o <<>> = <<>> /\ Len(<<>>) = 0
  BY EmptySeq, ConcatEmptySeq
<1>2. [kind |-> "fill", want |-> 1] \in Op
  BY DEF Op
<1>3. TypeOK
  BY <1>1, <1>2 DEF Init, TypeOK, PC
<1>4. MutexOK /\ GotOK /\ FrameOK /\ NoLostWakeup
  BY PipeAssumption DEF Init, MutexOK, GotOK, FrameOK, NoLostWakeup, CellWakes, MutexHandedOn
<1>5. StreamIntact
  BY <1>1 DEF Init, StreamIntact, Fifo, EofMeansAll
<1>. QED
  BY <1>3, <1>4, <1>5 DEF IInv

LEMMA BeginInv ==
  ASSUME IInv, NEW r \in Reader, Begin(r)
  PROVE  IInv'
<1>. USE DEF IInv
<1>0. PICK o \in Op : op' = [op EXCEPT ![r] = o]
  BY DEF Begin
<1>1. <<>> \in Seq(Byte) /\ Len(<<>>) = 0 /\ o.want \in Nat
  BY EmptySeq, OpKinds
<1>2. TypeOK'
  BY <1>0, <1>1 DEF TypeOK, Begin, PC, cell, mutex, history
<1>3. MutexOK'
  BY DEF TypeOK, MutexOK, Begin, PC, cell, mutex, history
<1>4. GotOK'
  BY <1>0 DEF TypeOK, GotOK, Begin, PC, cell, mutex, history
<1>5. FrameOK'
  BY DEF TypeOK, FrameOK, MutexOK, Begin, PC, cell, mutex, history
<1>6. NoLostWakeup'
  BY DEF TypeOK, NoLostWakeup, CellWakes, MutexHandedOn, Begin, PC, cell, mutex, history
<1>7. StreamIntact'
  BY DEF StreamIntact, Fifo, EofMeansAll, Begin, cell, mutex, history
<1>. QED
  BY <1>2, <1>3, <1>4, <1>5, <1>6, <1>7

LEMMA PollLockedInv ==
  ASSUME IInv, NEW r \in Reader, PollLocked(r)
  PROVE  IInv'
<1>. USE DEF IInv
<1>1. TypeOK'
  BY DEF TypeOK, PollLocked, PC, cell, history
<1>2. MutexOK'
  BY DEF TypeOK, MutexOK, PollLocked, PC, cell, history
<1>3. GotOK'
  BY DEF TypeOK, GotOK, PollLocked, PC, cell, history
<1>4. FrameOK'
  BY DEF FrameOK, PollLocked, cell, history
<1>5. CellWakes'
  BY DEF TypeOK, NoLostWakeup, CellWakes, PollLocked, PC, cell, history
<1>6. MutexHandedOn'
  <2>1. holder \in Reader /\ pc[holder] \in {"ready", "parked"} /\ holder # r
    BY DEF TypeOK, MutexOK, PollLocked
  <2>2. pc'[holder'] \in {"ready", "parked"} /\ holder' \in Reader
    BY <2>1 DEF TypeOK, PollLocked
  <2>. QED
    BY <2>2 DEF MutexHandedOn
<1>7. StreamIntact'
  BY DEF StreamIntact, Fifo, EofMeansAll, PollLocked, cell, history
<1>. QED
  BY <1>1, <1>2, <1>3, <1>4, <1>5, <1>6, <1>7 DEF NoLostWakeup

LEMMA CancelInv ==
  ASSUME IInv, NEW r \in Reader, Cancel(r)
  PROVE  IInv'
<1>. USE DEF IInv
<1>. DEFINE gone == [pc EXCEPT ![r] = "idle"]
            wakes == holder = r \/ (r \in waiters /\ pc[r] = "ready")
<1>0. PICK W : /\ pc' = Woken(gone, W)
               /\ W \subseteq waiters'
               /\ wakes /\ waiters' # {} => \E w \in waiters' : W = {w}
  <2>1. CASE wakes
    <3>1. PICK W \in OneOf(waiters') : pc' = Woken(gone, W)
      BY <2>1 DEF Cancel
    <3>. QED
      BY <3>1, OneOfSubset
  <2>2. CASE ~wakes
    <3>1. pc' = gone
      BY <2>2 DEF Cancel
    <3>2. gone = Woken(gone, {})
      BY DEF Woken, TypeOK, PC
    <3>. QED
      BY <3>1, <3>2, <2>2
  <2>. QED
    BY <2>1, <2>2
<1>1. gone \in [Reader -> PC]
  BY DEF TypeOK, PC
<1>2. pc' \in [Reader -> PC] /\ pc'[r] = "idle"
      /\ \A q \in Reader : q # r =>
           pc'[q] = IF q \in W /\ pc[q] \in {"queued", "parked"} THEN "ready" ELSE pc[q]
  BY <1>0, <1>1 DEF Woken, TypeOK, PC
<1>3. /\ waiters' = waiters \ {r}
      /\ holder' = IF holder = r THEN NoReader ELSE holder
      /\ UNCHANGED <<cell, op, got, poisoned, history>>
  BY DEF Cancel
<1>. HIDE DEF gone
<1>4. TypeOK'
  BY <1>2, <1>3 DEF TypeOK, cell, history
<1>5. MutexOK'
  BY <1>0, <1>2, <1>3, PipeAssumption DEF TypeOK, MutexOK, PC, cell, history
<1>6. GotOK'
  BY <1>2, <1>3, PipeAssumption DEF TypeOK, GotOK, MutexOK, PC, cell, history
<1>7. FrameOK'
  BY <1>3, PipeAssumption DEF FrameOK, cell, history
<1>8. CellWakes'
  BY <1>2, <1>3 DEF TypeOK, NoLostWakeup, CellWakes, PC, cell, history
<1>9. MutexHandedOn'
  <2>. SUFFICES ASSUME NEW q \in Reader, pc'[q] = "queued"
                PROVE  \/ holder' \in {p \in Reader : pc'[p] \in {"ready", "parked"}}
                       \/ \E w \in waiters' : pc'[w] = "ready"
    BY DEF MutexHandedOn
  <2>1. q # r /\ pc[q] = "queued" /\ q \in waiters'
    BY <1>2, <1>3 DEF MutexOK, PC, TypeOK
  <2>2. CASE wakes
    <3>1. PICK w \in waiters' : W = {w}
      BY <1>0, <2>1, <2>2
    <3>2. pc[w] \in {"queued", "ready"} /\ w # r /\ w \in Reader
      BY <1>3 DEF MutexOK, TypeOK
    <3>. QED
      BY <3>1, <3>2, <1>2
  <2>3. CASE ~wakes
    <3>1. CASE holder \in {p \in Reader : pc[p] \in {"ready", "parked"}}
      BY <3>1, <2>3, <1>2, <1>3 DEF TypeOK
    <3>2. CASE \E w \in waiters : pc[w] = "ready"
      <4>1. PICK w \in waiters : pc[w] = "ready"
        BY <3>2
      <4>2. w # r /\ w \in Reader
        BY <4>1, <2>3 DEF TypeOK
      <4>. QED
        BY <4>1, <4>2, <1>2, <1>3
    <3>. QED
      BY <3>1, <3>2, <2>1 DEF NoLostWakeup, MutexHandedOn
  <2>. QED
    BY <2>2, <2>3
<1>10. StreamIntact'
  BY <1>3 DEF StreamIntact, Fifo, EofMeansAll, cell, history
<1>. QED
  BY <1>4, <1>5, <1>6, <1>7, <1>8, <1>9, <1>10 DEF NoLostWakeup

-----------------------------------------------------------------------------
(* The writer's steps.                                                     *)

\* Emptying the waker slot leaves nobody parked: the only parked reader is the
\* one whose waker was in it.
LEMMA WakeReaderTasks ==
  ASSUME IInv, WakeReader
  PROVE  /\ pc' \in [Reader -> PC]
         /\ waker' = NoReader
         /\ \A q \in Reader : pc'[q] # "parked"
         /\ \A q \in Reader : pc'[q] # pc[q] => pc'[q] = "ready" /\ pc[q] \in {"queued", "parked"}
<1>1. waker \in Reader \cup {NoReader} /\ pc \in [Reader -> PC]
  BY DEF IInv, TypeOK
<1>2. \A q \in Reader : pc[q] = "parked" => waker = q
  BY DEF IInv, NoLostWakeup, CellWakes
<1>. QED
  BY <1>1, <1>2 DEF WakeReader, Woken, PC

\* Whatever a writer does to the cell, the tasks stay in order.
LEMMA WakeReaderInv ==
  ASSUME IInv, WakeReader, UNCHANGED <<mutex, op, got, delivered>>
  PROVE  MutexOK' /\ GotOK' /\ FrameOK' /\ NoLostWakeup'
<1>. USE WakeReaderTasks DEF IInv
<1>0. UNCHANGED <<holder, waiters, op, got, delivered>>
  BY DEF mutex
<1>1. MutexOK'
  BY <1>0 DEF TypeOK, MutexOK, PC
<1>2. GotOK'
  BY <1>0 DEF TypeOK, GotOK, PC
<1>3. FrameOK'
  BY <1>0 DEF FrameOK
<1>4. CellWakes'
  BY DEF CellWakes
<1>5. MutexHandedOn'
  BY <1>0 DEF TypeOK, NoLostWakeup, MutexHandedOn, PC
<1>. QED
  BY <1>1, <1>2, <1>3, <1>4, <1>5 DEF NoLostWakeup

LEMMA WriteInv ==
  ASSUME IInv, Write
  PROVE  IInv'
<1>. USE DEF IInv
<1>0. PICK n \in 0..MaxLen :
        \E s \in [1..n -> Byte] : buf' = buf \o s /\ written' = written \o s
  BY DEF Write
<1>1. PICK s \in Seq(Byte) : buf' = buf \o s /\ written' = written \o s
  <2>1. n \in Nat
    BY PipeAssumption
  <2>2. \A s \in [1..n -> Byte] : s \in Seq(Byte)
    BY <2>1, SeqDef
  <2>. QED
    BY <1>0, <2>2
<1>2. WakeReader /\ ~closed /\ UNCHANGED <<closed, mutex, op, got, poisoned, eof, delivered>>
  BY DEF Write
<1>3. buf' \in Seq(Byte) /\ written' \in Seq(Byte)
  BY <1>1, ConcatProperties DEF TypeOK
<1>4. TypeOK'
  BY <1>2, <1>3, WakeReaderTasks DEF TypeOK, mutex
<1>5. MutexOK' /\ GotOK' /\ FrameOK' /\ NoLostWakeup'
  BY <1>2, WakeReaderInv
<1>6. Fifo'
  <2>0. delivered \in Seq(Byte) /\ buf \in Seq(Byte)
    BY DEF TypeOK
  <2>1. delivered \o (buf \o s) = (delivered \o buf) \o s
    BY ONLY <1>1, <2>0, ConcatAssociative
  <2>. QED
    BY <2>1, <1>1, <1>2 DEF StreamIntact, Fifo
<1>7. EofMeansAll'
  BY <1>2 DEF StreamIntact, EofMeansAll
<1>. QED
  BY <1>4, <1>5, <1>6, <1>7 DEF StreamIntact

LEMMA WriteClosedInv ==
  ASSUME IInv, WriteClosed
  PROVE  IInv'
BY DEF WriteClosed, IInv, TypeOK, MutexOK, GotOK, FrameOK, NoLostWakeup, CellWakes,
       MutexHandedOn, StreamIntact, Fifo, EofMeansAll, cell, mutex, task, history

LEMMA CloseInv ==
  ASSUME IInv, Close
  PROVE  IInv'
<1>. USE DEF IInv
<1>1. WakeReader /\ closed' = TRUE /\ UNCHANGED <<buf, mutex, op, got, poisoned, history>>
  BY DEF Close
<1>2. TypeOK'
  BY <1>1, WakeReaderTasks DEF TypeOK, mutex, history
<1>3. MutexOK' /\ GotOK' /\ FrameOK' /\ NoLostWakeup'
  <2>1. UNCHANGED <<mutex, op, got, delivered>>
    BY <1>1 DEF history
  <2>. QED
    BY <2>1, <1>1, WakeReaderInv
<1>4. StreamIntact'
  BY <1>1 DEF StreamIntact, Fifo, EofMeansAll, history
<1>. QED
  BY <1>2, <1>3, <1>4

-----------------------------------------------------------------------------
(* A reader polls the cell.                                                *)

LEMMA PollCellInv ==
  ASSUME IInv, NEW r \in Reader, PollCell(r)
  PROVE  IInv'
<1>. USE DEF IInv
<1>0. PICK n \in Takes(r) :
        LET g == got[r] \o SubSeq(buf, 1, n)
            rest == SubSeq(buf, n + 1, Len(buf))
            done == buf # <<>> /\ Complete(r, g)
        IN  /\ buf' = rest
            /\ delivered' = delivered \o SubSeq(buf, 1, n)
            /\ got' = [got EXCEPT ![r] = g]
            /\ IF done \/ closed THEN Return(r) ELSE Park(r)
            /\ eof' = IF ~done /\ closed THEN eof \cup {r} ELSE eof
  BY DEF PollCell
<1>. DEFINE chunk == SubSeq(buf, 1, n)
            rest == SubSeq(buf, n + 1, Len(buf))
            g == got[r] \o chunk
            done == buf # <<>> /\ Complete(r, g)
<1>1. pc[r] = "ready" /\ ~poisoned /\ holder \in {r, NoReader}
      /\ UNCHANGED <<closed, op, poisoned, written>>
  BY DEF PollCell
<1>2. /\ buf \in Seq(Byte) /\ got[r] \in Seq(Byte) /\ delivered \in Seq(Byte)
      /\ op[r] \in Op
  BY DEF TypeOK
<1>3. /\ n \in 0..Len(buf)
      /\ op[r].kind \in {"read", "exact"} => Len(got[r]) + n <= op[r].want
      /\ op[r].kind = "read" /\ buf # <<>> => op[r].want = 0 \/ chunk # <<>>
  BY <1>1, TakesBounded
<1>4. /\ chunk \in Seq(Byte) /\ rest \in Seq(Byte)
      /\ Len(chunk) = n /\ Len(rest) = Len(buf) - n
      /\ chunk \o rest = buf
  BY <1>2, <1>3, SplitSeq
<1>5. g \in Seq(Byte) /\ Len(g) = Len(got[r]) + n /\ delivered \o chunk \in Seq(Byte)
  <2>1. g \in Seq(Byte) /\ Len(g) = Len(got[r]) + Len(chunk)
    BY <1>2, <1>4, ConcatProperties
  <2>2. delivered \o chunk \in Seq(Byte)
    BY <1>2, <1>4, ConcatProperties
  <2>. QED
    BY <2>1, <2>2, <1>4
<1>. HIDE DEF chunk, rest, g, done
<1>6. /\ buf' = rest /\ delivered' = delivered \o chunk /\ got' = [got EXCEPT ![r] = g]
      /\ IF done \/ closed THEN Return(r) ELSE Park(r)
      /\ eof' = IF ~done /\ closed THEN eof \cup {r} ELSE eof
  BY <1>0 DEF chunk, rest, g, done
<1>7. g = got[r] \o chunk
  BY DEF g
<1>8. Len(buf) \in Nat /\ (Len(buf) = 0 <=> buf = <<>>)
  BY <1>2, LenProperties, EmptySeq
<1>9. ~done => rest = <<>>
  BY <1>1, <1>3, <1>8, UnfinishedTakesAll DEF done, g, rest, chunk
<1>10. PICK W : /\ pc' = Woken([pc EXCEPT ![r] = IF done \/ closed THEN "idle" ELSE "parked"], W)
                /\ IF done \/ closed
                   THEN W \subseteq waiters' /\ (waiters' # {} => \E w \in waiters' : W = {w})
                   ELSE W = {}
  <2>1. CASE done \/ closed
    <3>1. PICK W \in OneOf(waiters') : pc' = Woken([pc EXCEPT ![r] = "idle"], W)
      BY <2>1, <1>6 DEF Return
    <3>2. W \subseteq waiters' /\ (waiters' # {} => \E w \in waiters' : W = {w})
      BY <3>1, OneOfSubset
    <3>3. (IF done \/ closed THEN "idle" ELSE "parked") = "idle"
      BY <2>1
    <3>4. pc' = Woken([pc EXCEPT ![r] = IF done \/ closed THEN "idle" ELSE "parked"], W)
      BY <3>1, <3>3
    <3>. QED
      BY <2>1, <3>2, <3>4
  <2>2. CASE ~(done \/ closed)
    <3>1. pc' = [pc EXCEPT ![r] = "parked"]
      BY <2>2, <1>6 DEF Park
    <3>2. [pc EXCEPT ![r] = "parked"] = Woken([pc EXCEPT ![r] = "parked"], {})
      BY DEF Woken, TypeOK, PC
    <3>3. (IF done \/ closed THEN "idle" ELSE "parked") = "parked"
      BY <2>2
    <3>4. pc' = Woken([pc EXCEPT ![r] = IF done \/ closed THEN "idle" ELSE "parked"], {})
      BY <3>1, <3>2, <3>3
    <3>. QED
      BY <2>2, <3>4
  <2>. QED
    BY <2>1, <2>2
<1>11. /\ waiters' = waiters \ {r}
       /\ holder' = IF done \/ closed THEN NoReader ELSE r
       /\ waker' = IF done \/ closed THEN waker ELSE r
  BY <1>6 DEF Return, Park
<1>12. /\ pc' \in [Reader -> PC]
       /\ pc'[r] = IF done \/ closed THEN "idle" ELSE "parked"
       /\ \A q \in Reader : q # r =>
            pc'[q] = IF q \in W /\ pc[q] \in {"queued", "parked"} THEN "ready" ELSE pc[q]
  <2>1. [pc EXCEPT ![r] = IF done \/ closed THEN "idle" ELSE "parked"] \in [Reader -> PC]
    BY DEF TypeOK, PC
  <2>2. r \notin W
    BY <1>10, <1>11
  <2>. QED
    BY <1>10, <2>1, <2>2 DEF Woken, TypeOK, PC
<1>13. TypeOK'
  BY <1>1, <1>2, <1>3, <1>4, <1>5, <1>6, <1>11, <1>12 DEF TypeOK
<1>14. \A q \in Reader : q # r => pc[q] # "parked"
  BY <1>1, PipeAssumption DEF MutexOK
<1>15. MutexOK'
  BY <1>10, <1>11, <1>12, <1>14, PipeAssumption DEF TypeOK, MutexOK, PC
<1>16. GotOK'
  <2>1. op[r].kind = "read" /\ ~(done \/ closed) => g = <<>>
    <3>. SUFFICES ASSUME op[r].kind = "read", ~(done \/ closed) PROVE g = <<>>
      OBVIOUS
    <3>1. got[r] = <<>> /\ (buf # <<>> => op[r].want # 0 /\ g = <<>>)
      BY <1>1 DEF GotOK, done, Complete
    <3>2. buf = <<>> => Len(g) = 0
      BY <1>2, <1>3, <1>5, <1>8, <3>1, EmptySeq
    <3>. QED
      BY <3>1, <3>2, <1>5, EmptySeq
  <2>2. \A q \in Reader : q # r => got'[q] = got[q] /\ (pc'[q] # "idle" => pc[q] # "idle")
    BY <1>6, <1>10, <1>11, <1>12 DEF TypeOK, MutexOK, PC
  <2>3. \A q \in Reader : q # r => holder # q
    BY <1>1, PipeAssumption
  <2>4. got'[r] = g
    BY <1>6 DEF TypeOK
  <2>. QED
    BY <2>1, <2>2, <2>3, <2>4, <1>1, <1>11, <1>12 DEF GotOK
<1>17. IsSuffix(g, delivered')
  <2>1. IsSuffix(got[r], delivered)
    <3>1. CASE holder = r
      BY <3>1 DEF FrameOK
    <3>2. CASE holder # r
      BY <3>2, <1>1, <1>2, SuffixOfEmpty DEF GotOK
    <3>. QED
      BY <3>1, <3>2
  <2>. QED
    BY <2>1, <1>2, <1>4, <1>6, <1>7, SuffixGrows
<1>18. FrameOK'
  BY <1>6, <1>11, <1>17, PipeAssumption DEF FrameOK, TypeOK
<1>19. NoLostWakeup'
  <2>1. CellWakes'
    <3>. SUFFICES ASSUME NEW q \in Reader, pc'[q] = "parked"
                  PROVE  buf' = <<>> /\ ~closed' /\ waker' = q
      BY DEF CellWakes
    <3>1. q = r
      BY <1>12, <1>14
    <3>. QED
      BY <3>1, <1>1, <1>6, <1>9, <1>11, <1>12
  <2>2. MutexHandedOn'
    <3>. SUFFICES ASSUME NEW q \in Reader, pc'[q] = "queued"
                  PROVE  \/ holder' \in {p \in Reader : pc'[p] \in {"ready", "parked"}}
                         \/ \E w \in waiters' : pc'[w] = "ready"
      BY DEF MutexHandedOn
    <3>1. CASE ~(done \/ closed)
      BY <3>1, <1>11, <1>12
    <3>2. CASE done \/ closed
      <4>1. q # r /\ pc[q] = "queued" /\ q \in waiters'
        BY <3>2, <1>11, <1>12 DEF MutexOK, PC, TypeOK
      <4>2. PICK w \in waiters' : W = {w}
        BY <4>1, <3>2, <1>10
      <4>3. w # r /\ w \in Reader /\ pc[w] \in {"queued", "ready"}
        BY <1>11 DEF MutexOK, TypeOK
      <4>. QED
        BY <4>2, <4>3, <1>12
    <3>. QED
      BY <3>1, <3>2
  <2>. QED
    BY <2>1, <2>2 DEF NoLostWakeup
<1>20. StreamIntact'
  <2>1. (delivered \o chunk) \o rest = delivered \o buf
    <3>1. (delivered \o chunk) \o rest = delivered \o (chunk \o rest)
      <4>1. delivered \in Seq(Byte) /\ chunk \in Seq(Byte) /\ rest \in Seq(Byte)
        BY <1>2, <1>4
      <4>. QED
        BY <4>1, ConcatAssociative
    <3>. QED
      BY <3>1, <1>4
  <2>2. Fifo'
    BY <2>1, <1>1, <1>6 DEF StreamIntact, Fifo
  <2>3. EofMeansAll'
    <3>1. CASE eof # {}
      <4>1. closed /\ delivered = written /\ delivered \o buf = written
        BY <3>1 DEF StreamIntact, Fifo, EofMeansAll
      <4>2. buf = <<>>
        BY <4>1, <1>2, ConcatEqualIffEmpty
      <4>3. chunk = <<>>
        BY <4>2, <1>3, <1>4, <1>8, EmptySeq
      <4>. QED
        BY <4>1, <4>3, <1>1, <1>2, <1>6, ConcatEmptySeq DEF EofMeansAll
    <3>2. CASE eof = {} /\ eof' # {}
      <4>1. ~done /\ closed
        BY <3>2, <1>6
      <4>2. rest = <<>>
        BY <4>1, <1>9
      <4>3. delivered' = written'
        BY <4>2, <2>2, <1>5, <1>6, ConcatEmptySeq DEF Fifo
      <4>. QED
        BY <4>1, <4>3, <1>1 DEF EofMeansAll
    <3>. QED
      BY <3>1, <3>2 DEF EofMeansAll
  <2>. QED
    BY <2>2, <2>3 DEF StreamIntact
<1>. QED
  BY <1>13, <1>15, <1>16, <1>18, <1>19, <1>20

-----------------------------------------------------------------------------
(* The theorems.                                                           *)

LEMMA StepInv == IInv /\ [Next]_vars => IInv'
<1>. SUFFICES ASSUME IInv, [Next]_vars PROVE IInv'
  OBVIOUS
<1>1. CASE Write
  BY <1>1, WriteInv
<1>2. CASE WriteClosed
  BY <1>2, WriteClosedInv
<1>3. CASE Close
  BY <1>3, CloseInv
<1>4. ASSUME NEW r \in Reader, Begin(r) PROVE IInv'
  BY <1>4, BeginInv
<1>5. ASSUME NEW r \in Reader, PollLocked(r) PROVE IInv'
  BY <1>5, PollLockedInv
<1>6. ASSUME NEW r \in Reader, PollCell(r) PROVE IInv'
  BY <1>6, PollCellInv
<1>7. ASSUME NEW r \in Reader, Cancel(r) PROVE IInv'
  BY <1>7, CancelInv
<1>8. CASE UNCHANGED vars
  BY <1>8 DEF vars, cell, mutex, task, history, IInv, TypeOK, MutexOK, GotOK, FrameOK,
              NoLostWakeup, CellWakes, MutexHandedOn, StreamIntact, Fifo, EofMeansAll
<1>. QED
  BY <1>1, <1>2, <1>3, <1>4, <1>5, <1>6, <1>7, <1>8 DEF Next

LEMMA InvHolds == SafeSpec => []IInv
<1>. QED
  BY InitInv, StepInv, PTL DEF SafeSpec

\* Every state has its type, and no read ever exceeds the caller's buffer.
THEOREM TypeCorrect == SafeSpec => []TypeOK
<1>1. IInv => TypeOK
  BY DEF IInv
<1>. QED
  BY <1>1, InvHolds, PTL

\* No reader sleeps on the cell when it could run, nor is left behind in the wait
\* list of the mutex, for any number of readers sharing the one waker slot.
THEOREM NoWakeupLost == SafeSpec => []NoLostWakeup
<1>1. IInv => NoLostWakeup
  BY DEF IInv
<1>. QED
  BY <1>1, InvHolds, PTL

\* The pipe is first-in first-out and loses nothing, whatever is cancelled, and
\* its end is announced only after its last byte.
THEOREM StreamAlwaysIntact == SafeSpec => []StreamIntact
<1>1. IInv => StreamIntact
  BY DEF IInv
<1>. QED
  BY <1>1, InvHolds, PTL

\* Every change of what a call holds leaves it with the last bytes taken from
\* the pipe: by a begin it is empty, by a poll it is extended as FrameOK says.
LEMMA FrameStep ==
  IInv /\ IInv' /\ [Next]_vars
    => [\A r \in Reader : got'[r] # got[r] => IsSuffix(got'[r], delivered')]_vars
<1>. SUFFICES ASSUME IInv, IInv', Next, NEW r \in Reader, got'[r] # got[r]
              PROVE  IsSuffix(got'[r], delivered')
  OBVIOUS
<1>0. got \in [Reader -> Seq(Byte)] /\ delivered' \in Seq(Byte) /\ delivered \in Seq(Byte)
  BY DEF IInv, TypeOK
<1>1. CASE Begin(r)
  <2>1. got'[r] = <<>>
    BY <1>0, <1>1 DEF Begin
  <2>. QED
    BY <2>1, <1>0, SuffixOfEmpty
<1>2. CASE PollCell(r)
  <2>1. PICK n \in Takes(r) :
          /\ delivered' = delivered \o SubSeq(buf, 1, n)
          /\ got' = [got EXCEPT ![r] = got[r] \o SubSeq(buf, 1, n)]
    BY <1>2 DEF PollCell
  <2>2. pc[r] = "ready" /\ holder \in {r, NoReader}
    BY <1>2 DEF PollCell
  <2>3. n \in 0..Len(buf)
    BY <2>2, TakesBounded DEF IInv
  <2>4. buf \in Seq(Byte) /\ got[r] \in Seq(Byte)
    BY DEF IInv, TypeOK
  <2>5. SubSeq(buf, 1, n) \in Seq(Byte)
    BY <2>3, <2>4, SplitSeq
  <2>6. IsSuffix(got[r], delivered)
    <3>1. CASE holder = r
      BY <3>1 DEF IInv, FrameOK
    <3>2. CASE holder # r
      <4>1. got[r] = <<>>
        BY <3>2, <2>2 DEF IInv, GotOK
      <4>. QED
        BY <4>1, <1>0, SuffixOfEmpty
    <3>. QED
      BY <3>1, <3>2
  <2>7. IsSuffix(got[r] \o SubSeq(buf, 1, n), delivered \o SubSeq(buf, 1, n))
    BY <1>0, <2>4, <2>5, <2>6, SuffixGrows
  <2>8. got'[r] = got[r] \o SubSeq(buf, 1, n)
    BY <1>0, <2>1
  <2>. QED
    BY <2>1, <2>7, <2>8
<1>3. Begin(r) \/ PollCell(r)
  <2>1. \A q \in Reader : Begin(q) \/ PollCell(q) => got'[r] = got[r] \/ q = r
    BY <1>0 DEF Begin, PollCell
  <2>. QED
    BY <2>1 DEF Next, Write, WriteClosed, Close, PollLocked, Cancel, task
<1>. QED
  BY <1>1, <1>2, <1>3

\* read_exact and read_until return contiguous pieces of the stream although
\* they free the mutex between two turns, for any number of competing readers.
THEOREM FramesNeverTorn == SafeSpec => FramesAreContiguous
<1>1. SafeSpec => []IInv /\ [][Next]_vars
  BY InvHolds DEF SafeSpec
<1>. QED
  BY <1>1, FrameStep, PTL DEF FramesAreContiguous

-----------------------------------------------------------------------------
(* The pipe implements the channel of module Channel, its safety part: the *)
(* readers that are in a call are the ones that wait, mutex, waker, wait   *)
(* list and partial results are hidden.                                    *)

Asking == {r \in Reader : pc[r] # "idle"}

\* A step that keeps the buffer, the two flags and the readers in a call stutters.
LEMMA ChannelStutter ==
  ASSUME UNCHANGED <<buf, closed, poisoned>>, Asking' = Asking
  PROVE  UNCHANGED Chan!cvars
BY DEF Chan!cvars, Asking

LEMMA InitRefines == Init => Chan!CInit
BY DEF Init, Chan!CInit

\* Waking tasks changes nobody's being in a call.
LEMMA WokenAsk ==
  ASSUME NEW p \in [Reader -> PC], NEW W, NEW r \in Reader
  PROVE  Woken(p, W)[r] = "idle" <=> p[r] = "idle"
BY DEF Woken, PC

LEMMA WakeReaderAsks ==
  ASSUME IInv, WakeReader
  PROVE  Asking' = Asking
<1>1. pc \in [Reader -> PC]
  BY DEF IInv, TypeOK
<1>. QED
  BY <1>1, WokenAsk DEF WakeReader, Asking

LEMMA WriteRefines == IInv /\ Write => Chan!Send
<1>. SUFFICES ASSUME IInv, Write PROVE Chan!Send
  OBVIOUS
<1>1. PICK n \in 0..MaxLen :
        \E s \in [1..n -> Byte] : buf' = buf \o s
  BY DEF Write
<1>2. PICK s \in Seq(Byte) : buf' = buf \o s
  <2>1. n \in Nat
    BY PipeAssumption
  <2>2. \A s \in [1..n -> Byte] : s \in Seq(Byte)
    BY <2>1, SeqDef
  <2>. QED
    BY <1>1, <2>2
<1>3. buf \in Seq(Byte)
  BY DEF IInv, TypeOK
<1>4. Len(buf) \in Nat /\ Len(s) \in Nat
  BY <1>3, LenProperties
<1>5. buf' \in Seq(Byte) /\ Len(buf') = Len(buf) + Len(s)
  BY <1>2, <1>3, ConcatProperties
<1>6. \A i \in 1..Len(buf') : buf'[i] \in Byte
  BY <1>5, ElementOfSeq
<1>7. SubSeq(buf', 1, Len(buf)) = buf
  <2>1. SubSeq(buf \o s, 1, Len(buf)) \in Seq(Byte)
        /\ Len(SubSeq(buf \o s, 1, Len(buf))) = Len(buf)
    BY <1>2, <1>4, <1>5, SplitSeq
  <2>2. \A i \in 1..Len(buf) : SubSeq(buf \o s, 1, Len(buf))[i] = buf[i]
    <3>1. \A i \in 1..Len(buf) : (buf \o s)[i] \in Byte /\ (buf \o s)[i] = buf[i]
      BY <1>2, <1>3, <1>4, <1>5, <1>6, ConcatProperties
    <3>2. 1 \in Int /\ Len(buf) \in Int
      BY <1>4
    <3>. QED
      BY <3>1, <3>2, <1>4, SubSeqProperties
  <2>. QED
    BY <2>1, <2>2, <1>2, <1>3, SeqEqual
<1>8. ~closed /\ ~poisoned /\ UNCHANGED <<closed, poisoned>> /\ WakeReader
  BY DEF Write
<1>9. Asking' = Asking
  BY <1>8, WakeReaderAsks
<1>. QED
  BY <1>4, <1>5, <1>6, <1>7, <1>8, <1>9 DEF Chan!Send, Asking

LEMMA WriteClosedRefines == WriteClosed => Chan!Break
BY DEF WriteClosed, Chan!Break, cell, task

LEMMA CloseRefines == IInv /\ Close => Chan!Shut
<1>. SUFFICES ASSUME IInv, Close PROVE Chan!Shut
  OBVIOUS
<1>1. Asking' = Asking
  BY WakeReaderAsks DEF Close
<1>. QED
  BY <1>1 DEF Close, Chan!Shut, Asking

LEMMA BeginRefines ==
  ASSUME IInv, NEW r \in Reader, Begin(r)
  PROVE  Chan!Ask(r)
<1>1. pc \in [Reader -> PC]
  BY DEF IInv, TypeOK
<1>2. Asking' = Asking \cup {r} /\ r \notin Asking
  BY <1>1 DEF Begin, Asking
<1>. QED
  BY <1>2 DEF Begin, Chan!Ask, Asking, cell

LEMMA PollLockedRefines ==
  ASSUME IInv, NEW r \in Reader, PollLocked(r)
  PROVE  UNCHANGED Chan!cvars
<1>1. Asking' = Asking
  BY DEF PollLocked, Asking, IInv, TypeOK
<1>. QED
  BY <1>1, ChannelStutter DEF PollLocked, cell

LEMMA CancelRefines ==
  ASSUME IInv, NEW r \in Reader, Cancel(r)
  PROVE  Chan!Leave(r)
<1>. DEFINE gone == [pc EXCEPT ![r] = "idle"]
<1>1. gone \in [Reader -> PC] /\ pc \in [Reader -> PC]
  BY DEF IInv, TypeOK, PC
<1>2. \E W : pc' = Woken(gone, W) \/ pc' = gone
  BY DEF Cancel
<1>3. Asking' = Asking \ {r} /\ r \in Asking
  <2>1. \A q \in Reader : pc'[q] = "idle" <=> gone[q] = "idle"
    BY <1>1, <1>2, WokenAsk
  <2>2. pc[r] # "idle"
    BY DEF Cancel
  <2>. QED
    BY <2>1, <2>2, <1>1 DEF Asking
<1>. QED
  BY <1>3 DEF Cancel, Chan!Leave, Asking, cell

\* A poll of the cell serves the reader, tells it of the end, lets it go or, when
\* there was nothing, changes nothing a reader can see.
LEMMA PollCellRefines ==
  ASSUME IInv, NEW r \in Reader, PollCell(r)
  PROVE  Chan!Serve(r) \/ Chan!Leave(r) \/ UNCHANGED Chan!cvars
<1>1. PICK n \in Takes(r) :
        /\ buf' = SubSeq(buf, n + 1, Len(buf))
        /\ IF (buf # <<>> /\ Complete(r, got[r] \o SubSeq(buf, 1, n))) \/ closed
           THEN Return(r) ELSE Park(r)
  BY DEF PollCell
<1>2. pc[r] = "ready" /\ ~poisoned /\ UNCHANGED <<closed, poisoned>>
  BY DEF PollCell
<1>3. pc \in [Reader -> PC] /\ buf \in Seq(Byte)
  BY DEF IInv, TypeOK
<1>4. n \in 0..Len(buf) /\ Len(buf) \in Nat
  BY <1>2, <1>3, TakesBounded, LenProperties DEF IInv
<1>5. n = 0 => buf' = buf
  BY <1>1, <1>3, SubSeqFull
<1>6. r \in Asking
  BY <1>2 DEF Asking
<1>7. CASE Return(r)
  <2>1. Asking' = Asking \ {r}
    <3>. DEFINE gone == [pc EXCEPT ![r] = "idle"]
    <3>1. \E W : pc' = Woken(gone, W)
      BY <1>7 DEF Return
    <3>2. gone \in [Reader -> PC]
      BY <1>3 DEF PC
    <3>3. \A q \in Reader : pc'[q] = "idle" <=> gone[q] = "idle"
      BY <3>1, <3>2, WokenAsk
    <3>. QED
      BY <3>3, <1>3 DEF Asking
  <2>2. CASE n = 0
    BY <2>1, <2>2, <1>2, <1>5, <1>6 DEF Chan!Leave, Asking
  <2>3. CASE n # 0
    <3>1. n \in 1..Len(buf)
      BY <2>3, <1>4
    <3>. QED
      BY <2>1, <3>1, <1>1, <1>2, <1>6 DEF Chan!Serve, Asking
  <2>. QED
    BY <2>2, <2>3
<1>8. CASE ~(buf # <<>> /\ Complete(r, got[r] \o SubSeq(buf, 1, n))) /\ Park(r)
  <2>1. n = Len(buf)
    BY <1>2, <1>8, UnfinishedTakesAll DEF IInv
  <2>2. Asking' = Asking
    BY <1>2, <1>3, <1>8 DEF Park, Asking
  <2>3. CASE n = 0
    BY <2>2, <2>3, <1>2, <1>5, ChannelStutter
  <2>4. CASE n # 0
    <3>1. n \in 1..Len(buf)
      BY <2>4, <1>4
    <3>. QED
      BY <2>1, <2>2, <3>1, <1>1, <1>2, <1>6 DEF Chan!Serve, Asking
  <2>. QED
    BY <2>3, <2>4
<1>. QED
  BY <1>1, <1>7, <1>8

LEMMA NextRefines == IInv /\ [Next]_vars => [Chan!CNext]_(Chan!cvars)
<1>. SUFFICES ASSUME IInv, [Next]_vars PROVE [Chan!CNext]_(Chan!cvars)
  OBVIOUS
<1>1. CASE Write
  BY <1>1, WriteRefines DEF Chan!CNext
<1>2. CASE WriteClosed
  BY <1>2, WriteClosedRefines DEF Chan!CNext
<1>3. CASE Close
  BY <1>3, CloseRefines DEF Chan!CNext
<1>4. ASSUME NEW r \in Reader, Begin(r) PROVE Chan!CNext
  BY <1>4, BeginRefines DEF Chan!CNext
<1>5. ASSUME NEW r \in Reader, PollLocked(r) PROVE UNCHANGED Chan!cvars
  BY <1>5, PollLockedRefines
<1>6. ASSUME NEW r \in Reader, PollCell(r) PROVE [Chan!CNext]_(Chan!cvars)
  BY <1>6, PollCellRefines DEF Chan!CNext
<1>7. ASSUME NEW r \in Reader, Cancel(r) PROVE Chan!CNext
  BY <1>7, CancelRefines DEF Chan!CNext
<1>8. CASE UNCHANGED vars
  BY <1>8, ChannelStutter DEF vars, cell, task, Asking
<1>. QED
  BY <1>1, <1>2, <1>3, <1>4, <1>5, <1>6, <1>7, <1>8 DEF Next

\* The pipe with its locks, wakers and cancelled reads is a plain first-in
\* first-out channel to whoever uses it, for any readers and any bytes (that it
\* is also a fair one is left to the model checker).
THEOREM PipeIsAChannel == SafeSpec => Chan!ChannelSafe
<1>1. SafeSpec => []IInv /\ [][Next]_vars
  BY InvHolds DEF SafeSpec
<1>. QED
  BY <1>1, InitRefines, NextRefines, PTL DEF SafeSpec, Chan!ChannelSafe
=============================================================================
