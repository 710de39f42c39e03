-------------------------- MODULE WasiFilesProofs --------------------------
(***************************************************************************)
(* What holds of WasiFiles for every set of names, bytes, paths and start  *)
(* images and every bound.                                                 *)
(***************************************************************************)
EXTENDS WasiFiles, WellFoundedInduction, SequenceTheorems, TLAPS

----------------------------------------------------------------------------
(* Walking a path.  Nothing is assumed of its components.                  *)

\* A set of naturals that is not empty has a least element.
LEMMA LeastNat ==
  ASSUME NEW T \in SUBSET Nat, T # {}
  PROVE  \E m \in T : \A k \in T : m <= k
<1> DEFINE R == OpToRel(<, Nat)
<1>1. IsWellFoundedOn(R, Nat)
  BY NatLessThanWellFounded
<1>2. PICK m \in T : \A k \in T : <<k, m>> \notin R
  <2> HIDE DEF R
  <2> QED BY <1>1, WFMin, Zenon
<1>3. \A k \in T : ~(k < m)
  BY <1>2 DEF OpToRel
<1> QED BY <1>3

\* One component leads from an outcome to an outcome.
LEMMA StepType ==
  ASSUME NEW f, IsFs(f), NEW at \in Inode(f) \cup Errors, NEW c, NEW skip
  PROVE  Step(f, at, c, skip) \in Inode(f) \cup Errors
<1>1. CASE at \in Errors \/ (skip /\ c = "") \/ ~IsDir(f, at) \/ c \in {"", "."}
  BY <1>1 DEF Step, Errors
<1>2. CASE at \in Inode(f) /\ IsDir(f, at) /\ c \notin {"", "."}
  <2>1. f.entry[at] \in Entry(f.size) /\ f.parent[at] \in Inode(f)
    BY <1>2 DEF IsFs
  <2>2. \A n \in DOMAIN Kids(f, at) : Kids(f, at)[n] \in Inode(f)
    <3>1. PICK D \in SUBSET Name : Kids(f, at) \in [D -> 0..(f.size - 1)]
      BY <1>2, <2>1 DEF Kids, Entry, IsDir
    <3> QED BY <3>1 DEF Inode
  <2> QED BY <1>2, <2>1, <2>2 DEF Step, Errors
<1> QED BY <1>1, <1>2

\* An inode is no error.
LEMMA NoErrorIsAnInode ==
  ASSUME NEW f, IsFs(f)
  PROVE  Errors \cap Inode(f) = {} /\ NotDir \in Errors
<1>1. Inode(f) \subseteq Nat
  BY DEF Inode, IsFs
<1>2. NotDir \in Errors
  BY DEF Errors
<1> QED BY <1>1, <1>2, FsAssumption, Zenon

IsWalk(f, from, path, n, skip, at) ==
  /\ at[0] = from
  /\ \A i \in 1..n : at[i] = Step(f, at[i - 1], path[i], skip)
  /\ \A i \in 0..n : at[i] \in Inode(f) \cup Errors

\* The walk exists: every prefix of a path leads to an outcome, by one step from the
\* outcome of the prefix before it.
LEMMA RouteEquation ==
  ASSUME NEW f, IsFs(f), NEW from \in Inode(f), NEW path, NEW n \in Nat, NEW skip
  PROVE  IsWalk(f, from, path, n, skip, Route(f, from, path, n, skip))
<1> DEFINE S == Inode(f) \cup Errors
           Next1(r, i) == IF i = 0 THEN from ELSE Step(f, r[i - 1], path[i], skip)
           Good(r, m) == \A i \in 0..m : r[i] = Next1(r, i)
           T == {m \in Nat : ~ \E r \in [0..m -> S] : Good(r, m)}
<1>1. T = {}
  <2>1. SUFFICES ASSUME T # {} PROVE FALSE
    OBVIOUS
  <2>2. PICK m \in T : \A k \in T : m <= k
    <3>1. T \in SUBSET Nat
      OBVIOUS
    <3> QED BY <2>1, <3>1, LeastNat
  <2>3. m # 0
    <3>1. SUFFICES ASSUME m = 0 PROVE FALSE
      OBVIOUS
    <3> DEFINE r == [i \in 0..0 |-> from]
    <3>2. r \in [0..0 -> S] /\ Good(r, 0)
      OBVIOUS
    <3> QED BY <3>1, <3>2
  <2>4. m - 1 \in Nat /\ m - 1 \notin T
    <3>1. m \in Nat /\ m - 1 \in Nat
      BY <2>2, <2>3
    <3> HIDE DEF T
    <3> QED BY <2>2, <3>1
  <2>5. PICK r \in [0..(m - 1) -> S] : Good(r, m - 1)
    BY <2>4
  <2> DEFINE q == [i \in 0..m |-> IF i = m THEN Step(f, r[m - 1], path[m], skip) ELSE r[i]]
  <2>6. q \in [0..m -> S]
    <3>1. Step(f, r[m - 1], path[m], skip) \in S
      BY <2>4, <2>5, StepType
    <3> QED BY <2>4, <2>5, <3>1
  <2>7. Good(q, m)
    BY <2>3, <2>4, <2>5
  <2> QED BY <2>2, <2>6, <2>7
<1>2. PICK r \in [0..n -> S] : Good(r, n)
  BY <1>1
<1> DEFINE at == Route(f, from, path, n, skip)
<1>3. at = [i \in 0..n |-> IF i = 0 THEN from ELSE Step(f, at[i - 1], path[i], skip)]
  <2>1. r = [i \in 0..n |-> IF i = 0 THEN from ELSE Step(f, r[i - 1], path[i], skip)]
    BY <1>2
  <2> QED BY <2>1 DEF Route
<1> DEFINE U == {i \in 0..n : at[i] # r[i]}
<1>4. U = {}
  <2>1. SUFFICES ASSUME U # {} PROVE FALSE
    OBVIOUS
  <2>2. PICK m \in U : \A k \in U : m <= k
    <3>1. U \in SUBSET Nat
      OBVIOUS
    <3> HIDE DEF U
    <3> QED BY <2>1, <3>1, LeastNat
  <2> HIDE DEF at
  <2>3. CASE m = 0
    BY <1>2, <1>3, <2>2, <2>3
  <2>4. CASE m # 0
    <3>1. at[m - 1] = r[m - 1]
      BY <2>2, <2>4
    <3>2. at[m] = Step(f, at[m - 1], path[m], skip) /\ r[m] = Step(f, r[m - 1], path[m], skip)
      BY <1>2, <1>3, <2>2, <2>4
    <3> QED BY <2>2, <3>1, <3>2
  <2> QED BY <2>3, <2>4
<1> HIDE DEF at
<1>5. \A i \in 1..n : i \in 0..n /\ i # 0
  OBVIOUS
<1>6. at[0] = from /\ \A i \in 1..n : at[i] = Step(f, at[i - 1], path[i], skip)
  BY <1>3, <1>5
<1>7. \A i \in 0..n : at[i] \in Inode(f) \cup Errors
  BY <1>2, <1>4
<1> QED BY <1>6, <1>7, Zenon DEF at, IsWalk

LEMMA RouteType ==
  ASSUME NEW f, IsFs(f), NEW from \in Inode(f), NEW path, NEW n \in Nat, NEW skip
  PROVE  Route(f, from, path, n, skip)[n] \in Inode(f) \cup Errors
<1>1. n \in 0..n
  OBVIOUS
<1> QED BY <1>1, RouteEquation, Zenon DEF IsWalk

SameOutcome(f, from, p, m, s, q, n, t, k) ==
  Route(f, from, p, m, s)[k] = Route(f, from, q, n, t)[k]

\* Two walks agree as far as their steps do.
LEMMA RoutesAgree ==
  ASSUME NEW f, IsFs(f), NEW from \in Inode(f), NEW p, NEW q, NEW m \in Nat, NEW n \in Nat,
         NEW s, NEW t, NEW k \in Nat, k <= m, k <= n,
         \A i \in 1..k : \A at : Step(f, at, p[i], s) = Step(f, at, q[i], t)
  PROVE  SameOutcome(f, from, p, m, s, q, n, t, k)
<1> DEFINE a == Route(f, from, p, m, s)
           b == Route(f, from, q, n, t)
           U == {i \in 0..k : a[i] # b[i]}
<1>0. IsWalk(f, from, p, m, s, a) /\ IsWalk(f, from, q, n, t, b)
  BY RouteEquation, Zenon
<1> HIDE DEF a, b
<1>1. a[0] = from /\ \A i \in 1..m : a[i] = Step(f, a[i - 1], p[i], s)
  BY <1>0 DEF IsWalk
<1>2. b[0] = from /\ \A i \in 1..n : b[i] = Step(f, b[i - 1], q[i], t)
  BY <1>0 DEF IsWalk
<1>3. U = {}
  <2>1. SUFFICES ASSUME U # {} PROVE FALSE
    OBVIOUS
  <2>2. PICK i \in U : \A j \in U : i <= j
    <3>1. U \in SUBSET Nat
      OBVIOUS
    <3> HIDE DEF U
    <3> QED BY <2>1, <3>1, LeastNat
  <2>3. i # 0
    BY <1>1, <1>2, <2>2
  <2>4. i \in 1..k /\ i \in 1..m /\ i \in 1..n /\ i - 1 \in 0..k
    BY <2>2, <2>3
  <2>5. a[i - 1] = b[i - 1]
    BY <2>2, <2>4
  <2>6. a[i] = Step(f, a[i - 1], p[i], s) /\ b[i] = Step(f, b[i - 1], q[i], t)
    BY <1>1, <1>2, <2>4
  <2>7. a[i] = b[i]
    BY <2>4, <2>5, <2>6
  <2> QED BY <2>2, <2>7
<1>4. a[k] = b[k]
  BY <1>3
<1> QED BY <1>4 DEF a, b, SameOutcome

----------------------------------------------------------------------------
(* What each operation of Fs does to a file system.                        *)

\* From f to g entries are only added, none changes its kind, and what has no
\* name gets none.
Keeps(f, g) ==
  /\ IsFs(g) /\ IsTree(g)
  /\ f.size <= g.size
  /\ \A i \in Inode(f) : g.entry[i].type = f.entry[i].type
  /\ \A i \in Inode(f) \ {0} : ~Listed(f, i) => ~Listed(g, i)

LEMMA KeepsRefl ==
  ASSUME NEW f, IsFs(f), IsTree(f)
  PROVE  Keeps(f, f)
BY DEF Keeps, IsFs

LEMMA KeepsTrans ==
  ASSUME NEW f, NEW g, NEW h, IsFs(f), Keeps(f, g), Keeps(g, h)
  PROVE  Keeps(f, h)
<1>1. f.size \in Nat /\ g.size \in Nat /\ h.size \in Nat
  BY DEF Keeps, IsFs
<1>2. \A i \in Inode(f) : i \in Inode(g)
  BY <1>1 DEF Keeps, Inode
<1> QED BY <1>1, <1>2 DEF Keeps

\* A directory's children are inodes under names.
LEMMA KidsType ==
  ASSUME NEW f, IsFs(f), NEW d \in Inode(f), IsDir(f, d)
  PROVE  /\ DOMAIN Kids(f, d) \in SUBSET Name
         /\ \A n \in DOMAIN Kids(f, d) : Kids(f, d)[n] \in Inode(f)
<1>1. f.entry[d] \in Entry(f.size)
  BY DEF IsFs
<1>2. PICK D \in SUBSET Name : Kids(f, d) \in [D -> 0..(f.size - 1)]
  BY <1>1 DEF Kids, Entry, IsDir
<1> QED BY <1>2 DEF Inode

LEMMA DirType ==
  ASSUME NEW n \in Nat, NEW D \in SUBSET Name, NEW kids \in [D -> 0..(n - 1)]
  PROVE  /\ Dir(kids) \in Entry(n) /\ Dir(kids).type = "dir" /\ Dir(kids).kids = kids
BY DEF Dir, Entry

LEMMA EntryGrows ==
  ASSUME NEW n \in Nat, NEW e \in Entry(n)
  PROVE  e \in Entry(n + 1)
<1>1. CASE e \in [type : {"dir"}, kids : UNION {[D -> 0..(n - 1)] : D \in SUBSET Name}]
  <2>1. PICK D \in SUBSET Name : e.kids \in [D -> 0..(n - 1)]
    BY <1>1
  <2>2. e.kids \in [D -> 0..((n + 1) - 1)]
    BY <2>1
  <2> QED BY <1>1, <2>2 DEF Entry
<1>2. CASE e \in [type : {"file"}, data : Seq(Byte)] \cup [type : {"pipe"}]
  BY <1>2 DEF Entry
<1> QED BY <1>1, <1>2 DEF Entry

\* add_entry of an empty directory or an empty file.
LEMMA AddEntryKeeps ==
  ASSUME NEW f, IsFs(f), IsTree(f), NEW d \in Inode(f), IsDir(f, d), NEW name \in Name,
         NEW entry \in {Dir([n \in {} |-> 0]), File(<<>>)}
  PROVE  /\ Keeps(f, AddEntry(f, d, name, entry))
         /\ AddEntry(f, d, name, entry).size = f.size + 1
<1> DEFINE g == AddEntry(f, d, name, entry)
           kids == Kids(f, d)
           D == DOMAIN kids \cup {name}
           more == [n \in D |-> IF n = name THEN f.size ELSE kids[n]]
<1>1. f.size \in Nat \ {0} /\ Inode(f) = 0..(f.size - 1) /\ Inode(g) = 0..f.size
  BY DEF IsFs, Inode, AddEntry
<1>2. D \in SUBSET Name /\ \A n \in DOMAIN kids : kids[n] \in Inode(f)
  BY KidsType
<1>3. more \in [D -> 0..((f.size + 1) - 1)]
  BY <1>1, <1>2
<1>4. /\ g.size = f.size + 1
      /\ g.entry = [i \in 0..f.size |->
                     IF i = f.size THEN entry ELSE IF i = d THEN Dir(more) ELSE f.entry[i]]
      /\ g.parent = [i \in 0..f.size |-> IF i = f.size THEN d ELSE f.parent[i]]
  BY DEF AddEntry
<1>5. Dir(more) \in Entry(f.size + 1) /\ Dir(more).type = "dir" /\ Dir(more).kids = more
  <2>1. f.size + 1 \in Nat
    BY <1>1
  <2> HIDE DEF D, more
  <2> QED BY <1>2, <1>3, <2>1, DirType, Zenon
<1>6. entry \in Entry(f.size + 1)
  <2>1. f.size + 1 \in Nat
    BY <1>1
  <2>2. [n \in {} |-> 0] \in [{} -> 0..((f.size + 1) - 1)] /\ {} \in SUBSET Name
    OBVIOUS
  <2>3. Dir([n \in {} |-> 0]) \in Entry(f.size + 1)
    BY <2>1, <2>2, DirType, Zenon
  <2>4. File(<<>>) \in Entry(f.size + 1)
    BY DEF Entry, File
  <2> QED BY <2>3, <2>4
<1> HIDE DEF g, more
<1>7. IsFs(g)
  <2>1. \A i \in Inode(f) : f.entry[i] \in Entry(f.size + 1)
    BY <1>1, EntryGrows DEF IsFs
  <2>2. g.entry \in [Inode(g) -> Entry(g.size)]
    BY <1>1, <1>4, <1>5, <1>6, <2>1
  <2>3. g.parent \in [Inode(g) -> Inode(g)]
    BY <1>1, <1>4 DEF IsFs
  <2> QED BY <1>1, <1>4, <2>2, <2>3 DEF IsFs
<1>8. \A i \in Inode(f) : g.entry[i].type = f.entry[i].type
  BY <1>1, <1>4, <1>5 DEF IsDir
<1>9. \A e \in Inode(g) : IsDir(g, e) =>
        \/ e = d /\ Kids(g, e) = more
        \/ e = f.size /\ DOMAIN Kids(g, e) = {}
        \/ e \in Inode(f) \ {d} /\ IsDir(f, e) /\ Kids(g, e) = Kids(f, e)
  BY <1>1, <1>4, <1>5 DEF IsDir, Kids, Dir, File
<1>10. IsTree(g)
  <2>1. IsDir(g, 0)
    BY <1>1, <1>8 DEF IsTree, IsDir
  <2>2. ASSUME NEW e \in Inode(g), IsDir(g, e)
        PROVE  /\ \A n \in DOMAIN Kids(g, e) :
                    Kids(g, e)[n] > e /\ g.parent[Kids(g, e)[n]] = e
               /\ \A m, n \in DOMAIN Kids(g, e) : Kids(g, e)[m] = Kids(g, e)[n] => m = n
    <3>1. CASE e = d /\ Kids(g, e) = more
      <4>1. /\ \A n \in DOMAIN kids : kids[n] > d /\ f.parent[kids[n]] = d
            /\ \A m, n \in DOMAIN kids : kids[m] = kids[n] => m = n
        BY DEF IsTree
      <4> QED BY <1>1, <1>2, <1>4, <3>1, <4>1 DEF more
    <3>2. CASE e = f.size /\ DOMAIN Kids(g, e) = {}
      BY <3>2
    <3>3. CASE e \in Inode(f) \ {d} /\ IsDir(f, e) /\ Kids(g, e) = Kids(f, e)
      <4>1. \A n \in DOMAIN Kids(f, e) : Kids(f, e)[n] \in Inode(f)
        BY <3>3, KidsType
      <4> QED BY <1>1, <1>4, <3>3, <4>1 DEF IsTree
    <3> QED BY <1>9, <2>2, <3>1, <3>2, <3>3
  <2>3. \A i \in Inode(g) : IsDir(g, g.parent[i])
    <3>1. \A i \in Inode(f) : f.parent[i] \in Inode(f) /\ IsDir(f, f.parent[i])
      BY DEF IsTree, IsFs
    <3>2. IsDir(g, d) /\ \A i \in Inode(f) : IsDir(g, f.parent[i])
      BY <1>8, <3>1 DEF IsDir
    <3> QED BY <1>1, <1>4, <3>2
  <2>4. g.parent[0] = 0
    BY <1>1, <1>4 DEF IsTree
  <2> QED BY <2>1, <2>2, <2>3, <2>4 DEF IsTree
<1>11. ASSUME NEW i \in Inode(f) \ {0}, Listed(g, i)
       PROVE  Listed(f, i)
  <2>1. PICK e \in Inode(g) : IsDir(g, e) /\ \E n \in DOMAIN Kids(g, e) : Kids(g, e)[n] = i
    BY <1>11 DEF Listed, Lists
  <2>2. PICK n \in DOMAIN Kids(g, e) : Kids(g, e)[n] = i
    BY <2>1
  <2>3. CASE e = d /\ Kids(g, e) = more
    BY <1>1, <2>2, <2>3 DEF more, Listed, Lists
  <2>4. CASE e # d \/ Kids(g, e) # more
    BY <1>9, <2>1, <2>2, <2>4 DEF Listed, Lists
  <2> QED BY <2>3, <2>4
<1>12. Keeps(f, g)
  <2>1. f.size <= g.size
    BY <1>1, <1>4
  <2> QED BY <1>7, <1>8, <1>10, <1>11, <2>1, Zenon DEF Keeps
<1> QED BY <1>4, <1>12 DEF g

\* New contents of a file.
LEMMA SetDataKeeps ==
  ASSUME NEW f, IsFs(f), IsTree(f), NEW i \in Inode(f), IsFile(f, i), NEW data \in Seq(Byte)
  PROVE  Keeps(f, SetData(f, i, data))
<1> DEFINE g == SetData(f, i, data)
<1>1. /\ g.size = f.size /\ g.parent = f.parent /\ DOMAIN g.entry = Inode(f)
      /\ \A j \in Inode(f) : g.entry[j] = IF j = i THEN File(data) ELSE f.entry[j]
      /\ Inode(g) = Inode(f)
  BY DEF SetData, IsFs, Inode
<1>2. File(data) \in Entry(f.size) /\ File(data).type = "file"
  BY DEF File, Entry
<1>3. IsFs(g)
  <2>1. g.entry \in [Inode(g) -> Entry(g.size)]
    <3>1. \A j \in Inode(f) : g.entry[j] \in Entry(f.size)
      BY <1>1, <1>2 DEF IsFs
    <3>2. g.entry = [j \in Inode(f) |-> g.entry[j]]
      BY DEF SetData, IsFs
    <3> HIDE DEF g
    <3> QED BY <1>1, <3>1, <3>2
  <2> HIDE DEF g
  <2> QED BY <1>1, <2>1 DEF IsFs
<1> HIDE DEF g
<1>4. \A j \in Inode(f) : g.entry[j].type = f.entry[j].type
  BY <1>1, <1>2 DEF IsFile
<1>5. \A d \in Inode(f) :
        IsDir(g, d) <=> IsDir(f, d) /\ (IsDir(f, d) => Kids(g, d) = Kids(f, d))
  BY <1>1, <1>2, <1>4 DEF IsDir, Kids, IsFile
<1>6. IsTree(g)
  <2>1. IsDir(g, 0)
    <3>1. 0 \in Inode(f) /\ IsDir(f, 0)
      BY DEF IsTree, IsFs, Inode
    <3> QED BY <1>4, <3>1 DEF IsDir
  <2>2. \A j \in Inode(f) : IsDir(g, g.parent[j])
    BY <1>1, <1>4 DEF IsTree, IsDir, IsFs
  <2> QED BY <1>1, <1>5, <2>1, <2>2 DEF IsTree
<1>7. \A j \in Inode(f) : ~Listed(f, j) => ~Listed(g, j)
  BY <1>1, <1>5 DEF Listed, Lists
<1>8. f.size <= g.size
  BY <1>1 DEF IsFs
<1>9. Keeps(f, g)
  BY <1>3, <1>4, <1>6, <1>7, <1>8 DEF Keeps
<1> QED BY <1>9 DEF g

\* The removal of a name.
LEMMA UnlinkKeeps ==
  ASSUME NEW f, IsFs(f), IsTree(f), NEW i \in Inode(f), IsDir(f, f.parent[i])
  PROVE  Keeps(f, Unlink(f, i))
<1> DEFINE g == Unlink(f, i)
           d == f.parent[i]
           kept == {n \in DOMAIN Kids(f, d) : Kids(f, d)[n] # i}
           fewer == [n \in kept |-> Kids(f, d)[n]]
<1>0. d \in Inode(f)
  BY DEF IsFs
<1>1. /\ g.size = f.size /\ g.parent = f.parent
      /\ g.entry = [j \in Inode(f) |-> IF j = d THEN Dir(fewer) ELSE f.entry[j]]
      /\ Inode(g) = Inode(f)
  BY <1>0 DEF Unlink, IsFs, Inode
<1>2. Dir(fewer) \in Entry(f.size) /\ Dir(fewer).type = "dir" /\ Dir(fewer).kids = fewer
  <2>1. f.size \in Nat
    BY DEF IsFs
  <2>2. kept \in SUBSET Name /\ fewer \in [kept -> 0..(f.size - 1)]
    BY <1>0, KidsType DEF Inode
  <2> HIDE DEF kept, fewer
  <2> QED BY <2>1, <2>2, DirType, Zenon
<1> HIDE DEF g, fewer
<1>3. IsFs(g)
  <2>1. g.entry \in [Inode(g) -> Entry(g.size)]
    BY <1>1, <1>2 DEF IsFs
  <2> QED BY <1>1, <2>1 DEF IsFs
<1>4. \A j \in Inode(f) : g.entry[j].type = f.entry[j].type
  BY <1>1, <1>2 DEF IsDir
<1>5. \A e \in Inode(f) : IsDir(g, e) =>
        IsDir(f, e) /\ Kids(g, e) = IF e = d THEN fewer ELSE Kids(f, e)
  BY <1>1, <1>2, <1>4 DEF IsDir, Kids
<1>6. \A e \in Inode(f) : IsDir(g, e) =>
        \A n \in DOMAIN Kids(g, e) : n \in DOMAIN Kids(f, e) /\ Kids(g, e)[n] = Kids(f, e)[n]
  BY <1>5 DEF fewer
<1>7. IsTree(g)
  <2>1. IsDir(g, 0)
    <3>1. f.size \in Nat \ {0} /\ IsDir(f, 0)
      BY DEF IsTree, IsFs
    <3>2. 0 \in Inode(f)
      BY <3>1 DEF Inode
    <3> QED BY <3>1, <3>2, <1>4 DEF IsDir
  <2>2. \A j \in Inode(f) : IsDir(g, g.parent[j])
    BY <1>1, <1>4 DEF IsTree, IsDir, IsFs
  <2> QED BY <1>1, <1>5, <1>6, <2>1, <2>2 DEF IsTree
<1>8. \A j \in Inode(f) : ~Listed(f, j) => ~Listed(g, j)
  BY <1>1, <1>5, <1>6 DEF Listed, Lists
<1>9. f.size <= g.size
  BY <1>1 DEF IsFs
<1>10. Keeps(f, g)
  BY <1>3, <1>4, <1>7, <1>8, <1>9 DEF Keeps
<1> QED BY <1>10 DEF g

\* A path of components, cut at its last word.
LEMMA LastWordType ==
  ASSUME NEW path \in Seq(Component), NEW k \in LastWord(path)
  PROVE  k - 1 \in Nat /\ path[k] \in Component \ {""}
<1>1. k \in 1..Len(path) /\ path[k] # ""
  BY DEF LastWord
<1>2. Len(path) \in Nat
  BY LenProperties
<1>3. path[k] \in Component
  BY <1>1, ElementOfSeq
<1>4. k - 1 \in Nat
  <2>1. k \in 1..Len(path)
    BY <1>1
  <2> QED BY <1>2, <2>1
<1>5. path[k] \in Component \ {""}
  BY <1>1, <1>3, Zenon
<1> QED BY <1>4, <1>5

\* The directory of the last word is a directory, if it is not an error.
LEMMA BaseType ==
  ASSUME NEW f, IsFs(f), NEW from \in Inode(f), NEW path, NEW k, k - 1 \in Nat
  PROVE  Base(f, from, path, k) \in Errors
           \/ (Base(f, from, path, k) \in Inode(f) /\ IsDir(f, Base(f, from, path, k)))
<1> DEFINE at == Route(f, from, path, k - 1, TRUE)[k - 1]
<1>1. at \in Inode(f) \cup Errors
  BY RouteType, Zenon
<1> HIDE DEF at
<1>2. Base(f, from, path, k)
        = IF at \in Errors THEN at ELSE IF IsDir(f, at) THEN at ELSE NotDir
  BY Zenon DEF Base, at
<1> QED BY <1>1, <1>2 DEF Errors

\* get finds an inode or reports an error.
LEMMA GetType ==
  ASSUME NEW f, IsFs(f), NEW from \in Inode(f), NEW path \in Seq(Component)
  PROVE  Get(f, from, path) \in Inode(f) \cup Errors
<1> DEFINE n == IF path # <<>> /\ path[Len(path)] = "" THEN Len(path) - 1 ELSE Len(path)
<1>1. n \in Nat
  <2>1. Len(path) \in Nat /\ (path # <<>> => Len(path) # 0)
    BY EmptySeq, LenProperties
  <2>2. path # <<>> => Len(path) - 1 \in Nat
    BY <2>1
  <2> QED BY <2>1, <2>2, Zenon
<1> HIDE DEF n
<1>2. Route(f, from, path, n, FALSE)[n] \in Inode(f) \cup Errors
  BY <1>1, RouteType, Zenon
<1> QED BY <1>2 DEF Get, n

\* open, with the file system it leaves.
LEMMA OpenKeeps ==
  ASSUME NEW f, IsFs(f), IsTree(f), NEW from \in Inode(f), IsDir(f, from),
         NEW path \in Seq(Component), NEW creat, NEW excl
  PROVE  /\ Keeps(f, Open(f, from, path, creat, excl).fs)
         /\ Open(f, from, path, creat, excl).ret
              \in Inode(Open(f, from, path, creat, excl).fs) \cup Errors
<1> DEFINE r == Open(f, from, path, creat, excl)
           k == CHOOSE k \in LastWord(path) : TRUE
           dir == Base(f, from, path, k)
           found == Step(f, dir, path[k], TRUE)
           more == AddEntry(f, dir, path[k], File(<<>>))
<1>0. Keeps(f, f)
  BY KeepsRefl
<1>1. CASE LastWord(path) = {}
  <2>1. r = [fs |-> f, ret |-> from]
    BY <1>1 DEF Open
  <2> QED BY <1>0, <2>1
<1>2. CASE LastWord(path) # {}
  <2>1. k \in LastWord(path)
    BY <1>2
  <2> HIDE DEF k
  <2>2. k - 1 \in Nat /\ path[k] \in Component \ {""}
    BY <2>1, LastWordType
  <2>3. dir \in Errors \/ (dir \in Inode(f) /\ IsDir(f, dir))
    BY <2>2, BaseType, Zenon
  <2> HIDE DEF dir
  <2>4. found \in Inode(f) \cup Errors
    BY <2>3, StepType, Zenon
  <2> HIDE DEF found
  <2>5. r = IF dir \in Errors THEN [fs |-> f, ret |-> dir]
            ELSE IF path[k] \in {".", ".."} THEN [fs |-> f, ret |-> found]
            ELSE IF found # NoEnt THEN [fs |-> f, ret |-> IF excl THEN Exist ELSE found]
            ELSE IF creat THEN [fs |-> more, ret |-> f.size]
            ELSE [fs |-> f, ret |-> NoEnt]
    BY <1>2, Zenon DEF Open, k, dir, found
  <2>6. CASE r.fs = f /\ r.ret \in Inode(f) \cup Errors
    BY <1>0, <2>6
  <2>7. CASE dir \notin Errors /\ path[k] \notin {".", ".."} /\ r = [fs |-> more, ret |-> f.size]
    <3>1. path[k] \in Name
      BY <2>2, <2>7, Zenon DEF Component
    <3>2. Keeps(f, more) /\ more.size = f.size + 1
      BY <2>3, <2>7, <3>1, AddEntryKeeps, Zenon
    <3>3. f.size \in Inode(more)
      BY <3>2 DEF IsFs, Inode
    <3> QED BY <2>7, <3>2, <3>3
  <2>8. \/ r.fs = f /\ r.ret \in Inode(f) \cup Errors
        \/ dir \notin Errors /\ path[k] \notin {".", ".."} /\ r = [fs |-> more, ret |-> f.size]
    <3> HIDE DEF r, more
    <3>1. Exist \in Errors /\ NoEnt \in Errors
      BY DEF Errors
    <3> QED BY <2>4, <2>5, <3>1
  <2> QED BY <2>6, <2>7, <2>8
<1> QED BY <1>1, <1>2

\* create_dir, likewise.
LEMMA CreateDirKeeps ==
  ASSUME NEW f, IsFs(f), IsTree(f), NEW from \in Inode(f), IsDir(f, from),
         NEW path \in Seq(Component)
  PROVE  Keeps(f, CreateDir(f, from, path).fs)
<1> DEFINE r == CreateDir(f, from, path)
           k == CHOOSE k \in LastWord(path) : TRUE
           dir == Base(f, from, path, k)
           more == AddEntry(f, dir, path[k], Dir([n \in {} |-> 0]))
<1>0. Keeps(f, f)
  BY KeepsRefl
<1>1. CASE LastWord(path) = {}
  <2>1. r = [fs |-> f, ret |-> Exist]
    BY <1>1 DEF CreateDir
  <2> QED BY <1>0, <2>1
<1>2. CASE LastWord(path) # {}
  <2>1. k \in LastWord(path)
    BY <1>2
  <2> HIDE DEF k
  <2>2. k - 1 \in Nat /\ path[k] \in Component \ {""}
    BY <2>1, LastWordType
  <2>3. dir \in Errors \/ (dir \in Inode(f) /\ IsDir(f, dir))
    BY <2>2, BaseType, Zenon
  <2> HIDE DEF dir
  <2>4. r = IF dir \in Errors THEN [fs |-> f, ret |-> dir]
            ELSE IF path[k] \in {".", ".."} \cup DOMAIN Kids(f, dir)
            THEN [fs |-> f, ret |-> Exist]
            ELSE [fs |-> more, ret |-> f.size]
    BY <1>2, Zenon DEF CreateDir, k, dir
  <2>5. CASE r.fs = f
    BY <1>0, <2>5
  <2>6. CASE dir \notin Errors /\ path[k] \notin {".", ".."} /\ r.fs = more
    <3>1. path[k] \in Name
      BY <2>2, <2>6, Zenon DEF Component
    <3>2. Keeps(f, more)
      BY <2>3, <2>6, <3>1, AddEntryKeeps, Zenon
    <3> QED BY <2>6, <3>2
  <2>7. r.fs = f \/ (dir \notin Errors /\ path[k] \notin {".", ".."} /\ r.fs = more)
    <3> HIDE DEF r, more
    <3> QED BY <2>4
  <2> QED BY <2>5, <2>6, <2>7
<1> QED BY <1>1, <1>2

----------------------------------------------------------------------------
(* The lookups.                                                            *)

\* A component that is not empty.
Word(c) == c # ""

\* It leads both loops to the same place.
LEMMA SkipsOnlyEmpty ==
  ASSUME NEW f, NEW at, NEW c, Word(c)
  PROVE  Step(f, at, c, TRUE) = Step(f, at, c, FALSE)
BY Zenon DEF Step, Word

\* From what is no directory it leads nowhere.
LEMMA NoFurther ==
  ASSUME NEW f, NEW at, NEW c, NEW skip, Word(c), at \notin Errors, ~IsDir(f, at)
  PROVE  Step(f, at, c, skip) = NotDir
BY Zenon DEF Step, Word

\* An empty component: open and create_dir stay where they are, get looks where it is.
LEMMA EmptyStep ==
  ASSUME NEW f, NEW at, NEW c, ~Word(c)
  PROVE  /\ Step(f, at, c, TRUE) = at
         /\ Step(f, at, c, FALSE)
              = IF at \in Errors THEN at ELSE IF IsDir(f, at) THEN at ELSE NotDir
BY Zenon DEF Step, Word

\* The last word of a path, behind which it is empty.
LEMMA LastWordOf ==
  ASSUME NEW path \in Seq(Component)
  PROVE  \E k \in 0..Len(path) :
           /\ LastWord(path) = IF k = 0 THEN {} ELSE {k}
           /\ k # 0 => Word(path[k])
           /\ \A j \in (k + 1)..Len(path) : ~Word(path[j])
<1> DEFINE L == LastWord(path)
           T(len) == {i \in 0..len : \A j \in (i + 1)..len : ~Word(path[j])}
<1>1. PICK len \in Nat : len = Len(path)
  BY LenProperties
<1>2. \A k : k \in L <=> /\ k \in 1..len /\ Word(path[k])
                         /\ \A j \in (k + 1)..len : ~Word(path[j])
  BY <1>1, Zenon DEF LastWord, Word
<1>3. PICK k \in T(len) : \A i \in T(len) : k <= i
  <2>1. T(len) \in SUBSET Nat
    OBVIOUS
  <2>2. len \in T(len)
    OBVIOUS
  <2> HIDE DEF T
  <2> QED BY <2>1, <2>2, LeastNat
<1>4. k \in 0..len /\ \A j \in (k + 1)..len : ~Word(path[j])
  OBVIOUS
<1>5. k # 0 => Word(path[k])
  <2>1. SUFFICES ASSUME k # 0, ~Word(path[k]) PROVE FALSE
    OBVIOUS
  <2>2. k - 1 \in 0..len /\ ~(k <= k - 1) /\ \A j \in ((k - 1) + 1)..len : j = k \/ j \in (k + 1)..len
    BY <1>4, <2>1
  <2>3. k - 1 \in T(len)
    BY <1>4, <2>1, <2>2
  <2> QED BY <1>3, <2>2, <2>3
<1>6. \A i \in L : i = k
  <2>1. SUFFICES ASSUME NEW i \in L, i # k PROVE FALSE
    OBVIOUS
  <2>2. i \in 1..len /\ Word(path[i]) /\ \A j \in (i + 1)..len : ~Word(path[j])
    BY <1>2, <2>1
  <2>3. i \in (k + 1)..len \/ (k \in (i + 1)..len /\ k # 0)
    BY <1>4, <2>1, <2>2
  <2> QED BY <1>4, <1>5, <2>2, <2>3
<1>7. k # 0 => k \in L
  <2>1. k # 0 => k \in 1..len
    BY <1>4
  <2> HIDE DEF L
  <2> QED BY <1>2, <1>4, <1>5, <2>1
<1>8. k = 0 => L = {}
  <2>1. \A i \in L : i \in 1..len
    BY <1>2
  <2> HIDE DEF L
  <2> QED BY <1>6, <2>1
<1>9. L = IF k = 0 THEN {} ELSE {k}
  <2> HIDE DEF L
  <2> QED BY <1>6, <1>7, <1>8
<1> HIDE DEF T
<1> QED BY <1>1, <1>4, <1>5, <1>9

\* open finds where the walk that skips empty components ends.
LEMMA OpenAsRoute ==
  ASSUME NEW f, IsFs(f), NEW d \in Inode(f), NEW path \in Seq(Component),
         NEW len \in Nat, len = Len(path)
  PROVE  Open(f, d, path, FALSE, FALSE).ret = Route(f, d, path, len, TRUE)[len]
<1> DEFINE o == Route(f, d, path, len, TRUE)
           r == Open(f, d, path, FALSE, FALSE)
<1>1. IsWalk(f, d, path, len, TRUE, o)
  BY RouteEquation, Zenon
<1>2. PICK k \in 0..len :
        /\ LastWord(path) = IF k = 0 THEN {} ELSE {k}
        /\ k # 0 => Word(path[k])
        /\ \A j \in (k + 1)..len : ~Word(path[j])
  BY LastWordOf
<1> HIDE DEF o
<1>3. o[len] = o[k]
  <2> DEFINE U == {i \in k..len : o[i] # o[k]}
  <2>1. U = {}
    <3>1. SUFFICES ASSUME U # {} PROVE FALSE
      OBVIOUS
    <3>2. PICK i \in U : \A j \in U : i <= j
      <4>1. U \in SUBSET Nat
        OBVIOUS
      <4> HIDE DEF U
      <4> QED BY <3>1, <4>1, LeastNat
    <3>3. i \in (k + 1)..len /\ i \in 1..len /\ i - 1 \in k..len /\ ~(i <= i - 1)
      BY <3>2
    <3>4. o[i - 1] = o[k]
      BY <3>2, <3>3
    <3>5. o[i] = Step(f, o[i - 1], path[i], TRUE)
      BY <1>1, <3>3 DEF IsWalk
    <3>6. o[i] = o[i - 1]
      BY <1>2, <3>3, <3>5, EmptyStep
    <3> QED BY <3>2, <3>4, <3>6
  <2> QED BY <2>1
<1>4. CASE k = 0
  <2>1. LastWord(path) = {}
    BY <1>2, <1>4
  <2>2. r = [fs |-> f, ret |-> d]
    BY <2>1, Zenon DEF Open
  <2>3. [fs |-> f, ret |-> d].ret = d
    OBVIOUS
  <2>4. o[0] = d
    BY <1>1 DEF IsWalk
  <2> QED BY <1>3, <1>4, <2>2, <2>3, <2>4, Zenon DEF o
<1>5. CASE k # 0
  <2> DEFINE at == Route(f, d, path, k - 1, TRUE)[k - 1]
             dir == Base(f, d, path, k)
             found == Step(f, dir, path[k], TRUE)
  <2>1. k - 1 \in Nat /\ k \in 1..len /\ k - 1 <= len /\ k - 1 <= k - 1
    BY <1>5
  <2>2. at = o[k - 1]
    <3>1. PICK m \in Nat : m = k - 1
      BY <2>1
    <3>2. m <= len /\ m <= m
      BY <2>1, <3>1
    <3>3. SameOutcome(f, d, path, m, TRUE, path, len, TRUE, m)
      BY <3>2, RoutesAgree, Zenon
    <3> QED BY <3>1, <3>3 DEF SameOutcome, o
  <2>3. o[k] = Step(f, at, path[k], TRUE)
    <3> HIDE DEF at
    <3> QED BY <1>1, <2>1, <2>2 DEF IsWalk
  <2>4. dir = IF at \in Errors THEN at ELSE IF IsDir(f, at) THEN at ELSE NotDir
    BY Zenon DEF Base
  <2>5. r.ret = IF dir \in Errors THEN dir ELSE found
    <3>1. (CHOOSE j \in LastWord(path) : TRUE) = k /\ LastWord(path) # {}
      BY <1>2, <1>5
    <3>2. r = IF dir \in Errors THEN [fs |-> f, ret |-> dir]
              ELSE IF path[k] \in {".", ".."} THEN [fs |-> f, ret |-> found]
              ELSE IF found # NoEnt THEN [fs |-> f, ret |-> found]
              ELSE [fs |-> f, ret |-> NoEnt]
      BY <3>1, Zenon DEF Open
    <3> HIDE DEF dir, found, r
    <3> QED BY <3>2
  <2> HIDE DEF at, r
  <2>6. Step(f, at, path[k], TRUE)
          = IF at \in Errors THEN at ELSE IF ~IsDir(f, at) THEN NotDir ELSE found
    <3>1. CASE at \in Errors
      BY <3>1, Zenon DEF Step
    <3>2. CASE at \notin Errors /\ ~IsDir(f, at)
      BY <1>2, <1>5, <3>2, NoFurther, Zenon
    <3>3. CASE at \notin Errors /\ IsDir(f, at)
      BY <2>4, <3>3
    <3> QED BY <3>1, <3>2, <3>3
  <2>7. NotDir \in Errors
    BY DEF Errors
  <2> HIDE DEF dir, found
  <2>8. r.ret = o[k]
    BY <2>3, <2>4, <2>5, <2>6, <2>7
  <2> QED BY <1>3, <2>8 DEF r, o
<1> QED BY <1>4, <1>5

\* Where the two walks part: at an empty component behind what is no directory.
Parts(f, path, i, x, y) ==
  /\ i # 0 /\ ~Word(path[i])
  /\ x = NotDir /\ y \in Inode(f) /\ ~IsDir(f, y)

LEMMA Lockstep ==
  ASSUME NEW f, IsFs(f), NEW d \in Inode(f), NEW path, NEW n \in Nat, NEW len \in Nat, n <= len,
         NEW a, IsWalk(f, d, path, n, FALSE, a), NEW o, IsWalk(f, d, path, len, TRUE, o)
  PROVE  a[n] = o[n] \/ Parts(f, path, n, a[n], o[n])
<1> DEFINE Parted(i) == Parts(f, path, i, a[i], o[i])
           U == {i \in 0..n : ~(a[i] = o[i] \/ Parted(i))}
<1>0. NotDir \in Errors /\ Errors \cap Inode(f) = {}
  BY NoErrorIsAnInode
<1>1. U = {}
  <2>1. SUFFICES ASSUME U # {} PROVE FALSE
    OBVIOUS
  <2>2. PICK i \in U : \A j \in U : i <= j
    <3>1. U \in SUBSET Nat
      OBVIOUS
    <3> HIDE DEF U
    <3> QED BY <2>1, <3>1, LeastNat
  <2>3. i \in 0..n /\ a[i] # o[i] /\ ~Parted(i)
    BY <2>2
  <2>4. i # 0
    BY <2>3 DEF IsWalk
  <2>5. i \in 1..n /\ i \in 1..len /\ i - 1 \in 0..n /\ i - 1 \in 0..len /\ ~(i <= i - 1)
    BY <2>3, <2>4
  <2>6. a[i - 1] = o[i - 1] \/ Parted(i - 1)
    <3> HIDE DEF Parted
    <3> QED BY <2>2, <2>5
  <2>7. a[i] = Step(f, a[i - 1], path[i], FALSE) /\ o[i] = Step(f, o[i - 1], path[i], TRUE)
    BY <2>5 DEF IsWalk
  <2>8. a[i - 1] \in Inode(f) \cup Errors /\ o[i - 1] \in Inode(f) \cup Errors
    BY <2>5 DEF IsWalk
  <2> DEFINE x == a[i - 1]
             y == o[i - 1]
             c == path[i]
  <2>9. a[i] = Step(f, x, c, FALSE) /\ o[i] = Step(f, y, c, TRUE)
    BY <2>7
  <2>10. \/ x = y
         \/ x = NotDir /\ y \in Inode(f) /\ ~IsDir(f, y)
    BY <2>6 DEF Parts
  <2>11. ~(~Word(c) /\ a[i] = NotDir /\ o[i] \in Inode(f) /\ ~IsDir(f, o[i]))
    BY <2>3, <2>4 DEF Parts
  <2>12. x \in Inode(f) \cup Errors
    BY <2>8
  <2> HIDE DEF x, y, c
  <2>13. CASE Word(c)
    <3>1. Step(f, x, c, FALSE) = Step(f, x, c, TRUE)
      BY <2>13, SkipsOnlyEmpty
    <3>2. CASE x = y
      BY <2>3, <2>9, <3>1, <3>2
    <3>3. CASE x = NotDir /\ y \in Inode(f) /\ ~IsDir(f, y)
      <4>1. Step(f, x, c, FALSE) = NotDir
        <5>1. x \in Errors /\ x = NotDir
          BY <1>0, <3>3
        <5>2. Step(f, x, c, FALSE) = x
          BY <5>1, Zenon DEF Step
        <5> QED BY <5>1, <5>2, Zenon
      <4>2. Step(f, y, c, TRUE) = NotDir
        BY <1>0, <2>13, <3>3, NoFurther
      <4> QED BY <2>3, <2>9, <4>1, <4>2
    <3> QED BY <2>10, <3>2, <3>3
  <2>14. CASE ~Word(c)
    <3>1. /\ o[i] = y
          /\ a[i] = IF x \in Errors THEN x ELSE IF IsDir(f, x) THEN x ELSE NotDir
      BY <2>9, <2>14, EmptyStep
    <3> QED BY <1>0, <2>3, <2>10, <2>11, <2>12, <2>14, <3>1
  <2> QED BY <2>13, <2>14
<1> QED BY <1>1

\* get finds what open opens, but behind what is no directory.
LEMMA GetAsOpen ==
  ASSUME NEW f, IsFs(f), NEW d \in Inode(f), NEW path \in Seq(Component), path # <<>>,
         NEW found, found = Open(f, d, path, FALSE, FALSE).ret
  PROVE  Get(f, d, path) =
           IF Slashes(path) /\ found \in Inode(f) /\ ~IsDir(f, found) THEN NotDir ELSE found
<1>1. PICK len \in Nat : len = Len(path) /\ len # 0
  BY LenProperties, EmptySeq
<1>2. PICK n \in Nat : n = (IF Word(path[len]) THEN len ELSE len - 1) /\ n <= len
  BY <1>1
<1> DEFINE a == Route(f, d, path, n, FALSE)
           o == Route(f, d, path, len, TRUE)
<1>3. Get(f, d, path) = a[n]
  BY <1>1, <1>2, Zenon DEF Get, Word
<1>4. found = o[len]
  BY <1>1, OpenAsRoute
<1>5. IsWalk(f, d, path, n, FALSE, a) /\ IsWalk(f, d, path, len, TRUE, o)
  BY RouteEquation, Zenon
<1> HIDE DEF a, o
<1>6. a[n] = o[n] \/ Parts(f, path, n, a[n], o[n])
  BY <1>2, <1>5, Lockstep, Zenon
<1>7. Slashes(path) <=> len > 1 /\ ~Word(path[len]) /\ ~Word(path[len - 1])
  BY <1>1, Zenon DEF Slashes, Word
<1>8. CASE Word(path[len])
  BY <1>2, <1>3, <1>4, <1>6, <1>7, <1>8 DEF Parts
<1>9. CASE ~Word(path[len])
  <2>1. n = len - 1 /\ len \in 1..len /\ (n # 0 <=> len > 1)
    BY <1>1, <1>2, <1>9
  <2>2. o[len] = o[n]
    <3>1. o[len] = Step(f, o[len - 1], path[len], TRUE)
      BY <1>5, <2>1 DEF IsWalk
    <3> QED BY <1>9, <2>1, <3>1, EmptyStep
  <2>3. CASE a[n] = o[n]
    <3>1. ASSUME n # 0, ~Word(path[n])
          PROVE  a[n] \in Errors \/ IsDir(f, a[n])
      <4>1. n \in 1..n
        BY <3>1
      <4>2. a[n] = Step(f, a[n - 1], path[n], FALSE)
        BY <1>5, <4>1 DEF IsWalk
      <4>3. NotDir \in Errors
        BY DEF Errors
      <4> DEFINE x == a[n - 1]
                 c == path[n]
      <4>4. a[n] = Step(f, x, c, FALSE) /\ ~Word(c)
        BY <3>1, <4>2
      <4> HIDE DEF x, c
      <4>5. a[n] = IF x \in Errors THEN x ELSE IF IsDir(f, x) THEN x ELSE NotDir
        BY <4>4, EmptyStep, Zenon
      <4> QED BY <4>3, <4>5
    <3>2. Errors \cap Inode(f) = {}
      BY NoErrorIsAnInode
    <3>3. ~(Slashes(path) /\ found \in Inode(f) /\ ~IsDir(f, found))
      BY <1>4, <1>7, <2>1, <2>2, <2>3, <3>1, <3>2
    <3> QED BY <1>3, <1>4, <2>2, <2>3, <3>3
  <2>4. CASE Parts(f, path, n, a[n], o[n])
    BY <1>3, <1>4, <1>7, <1>9, <2>1, <2>2, <2>4 DEF Parts
  <2> QED BY <1>6, <2>3, <2>4
<1> QED BY <1>8, <1>9

\* Attached climbs the parents: its function exists, as the inodes from which the climb
\* gets to the root are a largest set.
LEMMA AttachedEquation ==
  ASSUME NEW f, IsFs(f), NEW i \in Inode(f)
  PROVE  Attached(f, i) <=> i = 0 \/ (Lists(f, f.parent[i], i) /\ Attached(f, f.parent[i]))
<1> DEFINE Up(j, C) == j = 0 \/ (Lists(f, f.parent[j], j) /\ f.parent[j] \in C)
           Climbs == {C \in SUBSET Inode(f) : \A j \in C : Up(j, C)}
           A == UNION Climbs
           IsOk(r) == r = [j \in Inode(f) |-> j = 0 \/ (Lists(f, f.parent[j], j) /\ r[f.parent[j]])]
           ok == CHOOSE r : IsOk(r)
<1>1. \A j \in Inode(f) : f.parent[j] \in Inode(f)
  BY DEF IsFs
<1>2. \A j \in Inode(f) : j \in A <=> Up(j, A)
  <2>1. ASSUME NEW j \in A
        PROVE  Up(j, A)
    <3>1. PICK C \in Climbs : j \in C
      OBVIOUS
    <3> QED BY <3>1
  <2>2. A \in SUBSET Inode(f)
    OBVIOUS
  <2>3. ASSUME NEW j \in Inode(f), Up(j, A)
        PROVE  j \in A
    <3> DEFINE C == A \cup {j}
    <3>1. C \in SUBSET Inode(f)
      BY <2>2
    <3>2. \A k \in C : Up(k, C)
      <4> HIDE DEF A
      <4> QED BY <2>1, <2>3
    <3>3. C \in Climbs
      BY <3>1, <3>2
    <3> HIDE DEF Climbs
    <3> QED BY <3>3
  <2> HIDE DEF A, Up
  <2> QED BY <2>1, <2>3
<1>3. IsOk([j \in Inode(f) |-> j \in A])
  <2> HIDE DEF A
  <2> DEFINE r == [j \in Inode(f) |-> j \in A]
  <2>1. \A j \in Inode(f) : r[j] = (j \in A) /\ r[f.parent[j]] = (f.parent[j] \in A)
    BY <1>1
  <2>2. \A j \in Inode(f) :
          (j \in A) = (j = 0 \/ (Lists(f, f.parent[j], j) /\ r[f.parent[j]]))
    <3> HIDE DEF r
    <3>1. SUFFICES ASSUME NEW j \in Inode(f)
                   PROVE  j \in A <=> j = 0 \/ (Lists(f, f.parent[j], j) /\ r[f.parent[j]])
      OBVIOUS
    <3>2. r[f.parent[j]] <=> f.parent[j] \in A
      BY <2>1, Zenon
    <3> QED BY <1>2, <3>2, Zenon
  <2> QED BY <2>2, Zenon
<1>4. IsOk(ok)
  BY <1>3, Zenon
<1>5. \A j \in Inode(f) : Attached(f, j) = ok[j]
  BY Zenon DEF Attached
<1> HIDE DEF ok
<1>6. ok[i] = (i = 0 \/ (Lists(f, f.parent[i], i) /\ ok[f.parent[i]]))
  BY <1>4, Zenon
<1> QED BY <1>1, <1>5, <1>6, Zenon

\* From what climbs to the root, a component leads to what climbs to the root.
LEMMA StepAttached ==
  ASSUME NEW f, IsFs(f), IsTree(f), NEW at \in Inode(f), Attached(f, at), NEW c
  PROVE  Step(f, at, c, FALSE) \in Errors \/ Attached(f, Step(f, at, c, FALSE))
<1>1. at \notin Errors
  BY NoErrorIsAnInode, Zenon
<1>2. CASE ~IsDir(f, at) \/ c \in {"", "."}
  BY <1>1, <1>2, Zenon DEF Step, Errors
<1>3. CASE IsDir(f, at) /\ c = ".."
  <2>1. Step(f, at, c, FALSE) = f.parent[at]
    BY <1>1, <1>3, Zenon DEF Step
  <2>2. Attached(f, f.parent[at])
    <3>1. CASE at = 0
      BY <3>1 DEF IsTree
    <3>2. CASE at # 0
      BY <3>2, AttachedEquation
    <3> QED BY <3>1, <3>2
  <2> QED BY <2>1, <2>2, Zenon
<1>4. CASE IsDir(f, at) /\ c \notin {"", ".", ".."} /\ c \in DOMAIN Kids(f, at)
  <2> DEFINE j == Kids(f, at)[c]
  <2>1. Step(f, at, c, FALSE) = j
    BY <1>1, <1>4, Zenon DEF Step
  <2>2. j \in Inode(f)
    BY <1>4, KidsType, Zenon
  <2>3. f.parent[j] = at
    BY <1>4, Zenon DEF IsTree
  <2>4. Lists(f, at, j)
    BY <1>4, Zenon DEF Lists
  <2> HIDE DEF j
  <2>5. Attached(f, j)
    BY <2>2, <2>3, <2>4, AttachedEquation, Zenon
  <2> QED BY <2>1, <2>5, Zenon
<1>5. CASE IsDir(f, at) /\ c \notin {"", ".", ".."} /\ c \notin DOMAIN Kids(f, at)
  BY <1>1, <1>5, Zenon DEF Step, Errors
<1> QED BY <1>2, <1>3, <1>4, <1>5, Zenon

\* What a path from the root reaches climbs to the root.
LEMMA ReachedAttached ==
  ASSUME NEW f, IsFs(f), IsTree(f), NEW path \in Seq(Component)
  PROVE  Get(f, 0, path) \in Inode(f) => Attached(f, Get(f, 0, path))
<1>0. 0 \in Inode(f) /\ Errors \cap Inode(f) = {}
  <2>1. 0 \in Inode(f)
    BY DEF Inode, IsFs
  <2> QED BY <2>1, NoErrorIsAnInode
<1>1. PICK n \in Nat :
        n = IF path # <<>> /\ path[Len(path)] = "" THEN Len(path) - 1 ELSE Len(path)
  <2>1. Len(path) \in Nat /\ (path # <<>> => Len(path) # 0)
    BY EmptySeq, LenProperties
  <2>2. path # <<>> => Len(path) - 1 \in Nat
    BY <2>1
  <2> QED BY <2>1, <2>2, Zenon
<1> DEFINE a == Route(f, 0, path, n, FALSE)
<1>2. Get(f, 0, path) = a[n]
  BY <1>1, Zenon DEF Get
<1>3. IsWalk(f, 0, path, n, FALSE, a)
  BY <1>0, RouteEquation, Zenon
<1> HIDE DEF a
<1> DEFINE Good(i) == a[i] \in Errors \/ Attached(f, a[i])
           U == {i \in 0..n : ~Good(i)}
<1>4. U = {}
  <2>1. SUFFICES ASSUME U # {} PROVE FALSE
    OBVIOUS
  <2>2. PICK i \in U : \A j \in U : i <= j
    <3>1. U \in SUBSET Nat
      OBVIOUS
    <3> HIDE DEF U
    <3> QED BY <2>1, <3>1, LeastNat
  <2>3. i \in 0..n /\ ~Good(i)
    BY <2>2
  <2>4. i # 0
    <3>1. a[0] = 0 /\ Attached(f, 0)
      BY <1>0, <1>3, AttachedEquation DEF IsWalk
    <3> QED BY <2>3, <3>1
  <2>5. i \in 1..n /\ i - 1 \in 0..n /\ ~(i <= i - 1)
    BY <2>3, <2>4
  <2>6. Good(i - 1)
    <3> HIDE DEF Good
    <3> QED BY <2>2, <2>5
  <2>7. a[i] = Step(f, a[i - 1], path[i], FALSE) /\ a[i - 1] \in Inode(f) \cup Errors
    BY <1>3, <2>5 DEF IsWalk
  <2>8. CASE a[i - 1] \in Errors
    <3>1. Step(f, a[i - 1], path[i], FALSE) = a[i - 1]
      BY <2>8, Zenon DEF Step
    <3> QED BY <2>3, <2>7, <2>8, <3>1, Zenon
  <2>9. CASE a[i - 1] \in Inode(f) /\ Attached(f, a[i - 1])
    BY <2>3, <2>7, <2>9, StepAttached, Zenon
  <2> QED BY <2>6, <2>7, <2>8, <2>9
<1> QED BY <1>0, <1>2, <1>4

Named(f) == {k \in Inode(f) : Attached(f, k)}
NameOf(f, j) == CHOOSE n \in DOMAIN Kids(f, f.parent[j]) : Kids(f, f.parent[j])[n] = j

\* An inode that climbs to the root has a name in its parent, which climbs too and came
\* before it.
LEMMA ChainUp ==
  ASSUME NEW f, IsFs(f), IsTree(f), NEW j \in Named(f), j # 0
  PROVE  /\ f.parent[j] \in Named(f) /\ f.parent[j] < j
         /\ IsDir(f, f.parent[j])
         /\ NameOf(f, j) \in DOMAIN Kids(f, f.parent[j]) /\ NameOf(f, j) \in Name
         /\ Kids(f, f.parent[j])[NameOf(f, j)] = j
<1>1. j \in Inode(f) /\ f.parent[j] \in Inode(f)
  BY DEF Named, IsFs
<1>2. Lists(f, f.parent[j], j) /\ Attached(f, f.parent[j])
  BY <1>1, AttachedEquation, Zenon DEF Named
<1>3. IsDir(f, f.parent[j]) /\ \E n \in DOMAIN Kids(f, f.parent[j]) : Kids(f, f.parent[j])[n] = j
  BY <1>2, Zenon DEF Lists
<1>4. NameOf(f, j) \in DOMAIN Kids(f, f.parent[j]) /\ Kids(f, f.parent[j])[NameOf(f, j)] = j
  BY <1>3, Zenon DEF NameOf
<1>5. NameOf(f, j) \in Name
  BY <1>1, <1>3, <1>4, KidsType, Zenon
<1>6. j > f.parent[j]
  BY <1>1, <1>3, <1>4 DEF IsTree
<1>7. f.parent[j] \in Nat /\ j \in Nat
  BY <1>1 DEF IsFs, Inode
<1> QED BY <1>1, <1>2, <1>3, <1>4, <1>5, <1>6, <1>7 DEF Named

\* get_name: one name more than the parent's.
LEMMA NameEquation ==
  ASSUME NEW f, IsFs(f), IsTree(f), NEW i \in Named(f)
  PROVE  /\ GetName(f, i) \in Seq(Name)
         /\ i = 0 => GetName(f, i) = <<>>
         /\ i # 0 => GetName(f, i) = Append(GetName(f, f.parent[i]), NameOf(f, i))
<1> DEFINE Next1(r, j) == IF j = 0 THEN <<>> ELSE Append(r[f.parent[j]], NameOf(f, j))
           Below(m) == {j \in Named(f) : j <= m}
           Good(r, m) == \A j \in Below(m) : r[j] = Next1(r, j)
           T == {m \in Nat : ~ \E r \in [Below(m) -> Seq(Name)] : Good(r, m)}
<1>0. Named(f) \subseteq Nat
  BY DEF Named, Inode, IsFs
<1>1. T = {}
  <2>1. SUFFICES ASSUME T # {} PROVE FALSE
    OBVIOUS
  <2>2. PICK m \in T : \A k \in T : m <= k
    <3>1. T \in SUBSET Nat
      OBVIOUS
    <3> HIDE DEF T
    <3> QED BY <2>1, <3>1, LeastNat
  <2>3. m # 0
    <3>1. SUFFICES ASSUME m = 0 PROVE FALSE
      OBVIOUS
    <3>2. Below(0) \subseteq {0}
      BY <1>0
    <3> DEFINE r == [j \in Below(0) |-> <<>>]
    <3>3. <<>> \in Seq(Name)
      BY EmptySeq
    <3>4. r \in [Below(0) -> Seq(Name)]
      BY <3>3
    <3>5. Good(r, 0)
      BY <3>2
    <3> QED BY <3>1, <3>4, <3>5
  <2>4. m \in Nat /\ m - 1 \in Nat /\ m - 1 \notin T
    <3>1. m \in Nat /\ m - 1 \in Nat
      BY <2>2, <2>3
    <3> HIDE DEF T
    <3> QED BY <2>2, <3>1
  <2>5. PICK r \in [Below(m - 1) -> Seq(Name)] : Good(r, m - 1)
    BY <2>4
  <2> DEFINE q == [j \in Below(m) |-> Next1(r, j)]
  <2>6. ASSUME NEW j \in Below(m), j # 0
        PROVE  f.parent[j] \in Below(m - 1) /\ NameOf(f, j) \in Name
    <3>1. f.parent[j] \in Named(f) /\ f.parent[j] < j /\ NameOf(f, j) \in Name
      BY <2>6, ChainUp
    <3>2. f.parent[j] \in Nat /\ j \in Nat /\ j <= m
      BY <1>0, <2>6, <3>1
    <3>3. f.parent[j] <= m - 1
      BY <2>4, <3>1, <3>2
    <3> QED BY <3>1, <3>3
  <2>7. \A j \in Below(m) : Next1(r, j) \in Seq(Name)
    <3>1. SUFFICES ASSUME NEW j \in Below(m) PROVE Next1(r, j) \in Seq(Name)
      OBVIOUS
    <3>2. CASE j = 0
      BY <3>2, EmptySeq
    <3>3. CASE j # 0
      <4>1. r[f.parent[j]] \in Seq(Name) /\ NameOf(f, j) \in Name
        BY <2>5, <2>6, <3>3
      <4>2. Append(r[f.parent[j]], NameOf(f, j)) \in Seq(Name)
        BY <4>1, AppendProperties
      <4> QED BY <3>3, <4>2
    <3> QED BY <3>2, <3>3
  <2>8. q \in [Below(m) -> Seq(Name)]
    BY <2>7
  <2>9. \A j \in Below(m - 1) : j \in Below(m) /\ q[j] = r[j]
    <3>1. \A j \in Below(m - 1) : j \in Below(m)
      BY <1>0, <2>4
    <3>2. \A j \in Below(m - 1) : r[j] = Next1(r, j)
      BY <2>5
    <3> HIDE DEF Below, Next1
    <3> QED BY <3>1, <3>2
  <2>10. Good(q, m)
    <3>1. SUFFICES ASSUME NEW j \in Below(m) PROVE q[j] = Next1(q, j)
      OBVIOUS
    <3>2. q[j] = Next1(r, j)
      OBVIOUS
    <3>3. CASE j = 0
      BY <3>2, <3>3
    <3>4. CASE j # 0
      <4>1. q[f.parent[j]] = r[f.parent[j]]
        BY <2>6, <2>9, <3>4
      <4> HIDE DEF q
      <4> QED BY <3>2, <3>4, <4>1
    <3> QED BY <3>3, <3>4
  <2> HIDE DEF q
  <2> QED BY <2>2, <2>8, <2>10
<1> DEFINE IsName(r) == r = [j \in Named(f) |-> Next1(r, j)]
           nm == CHOOSE r : IsName(r)
<1>2. PICK r \in [Named(f) -> Seq(Name)] : \A j \in Named(f) : r[j] = Next1(r, j)
  <2>1. f.size \in Nat /\ Below(f.size) = Named(f)
    BY DEF Named, Inode, IsFs
  <2> HIDE DEF Below, Next1
  <2>2. PICK r \in [Below(f.size) -> Seq(Name)] : Good(r, f.size)
    BY <1>1, <2>1
  <2> QED BY <2>1, <2>2
<1>3. IsName(r)
  BY <1>2
<1>4. IsName(nm)
  <2> HIDE DEF IsName
  <2> QED BY <1>3, Zenon
<1>5. \A j : GetName(f, j) = nm[j]
  BY Zenon DEF GetName, Named, NameOf
<1> HIDE DEF nm
<1>6. \A j \in Named(f) : nm[j] = Next1(nm, j)
  BY <1>4
<1> DEFINE U == {j \in Named(f) : nm[j] # r[j]}
<1>7. U = {}
  <2>1. SUFFICES ASSUME U # {} PROVE FALSE
    OBVIOUS
  <2>2. PICK j \in U : \A k \in U : j <= k
    <3>1. U \in SUBSET Nat
      BY <1>0
    <3> HIDE DEF U
    <3> QED BY <2>1, <3>1, LeastNat
  <2>3. j \in Named(f) /\ nm[j] # r[j]
    OBVIOUS
  <2>4. j # 0
    BY <1>2, <1>6, <2>3
  <2>5. f.parent[j] \in Named(f) /\ f.parent[j] < j
    BY <2>3, <2>4, ChainUp
  <2>6. nm[f.parent[j]] = r[f.parent[j]]
    BY <1>0, <2>2, <2>3, <2>5
  <2> QED BY <1>2, <1>6, <2>3, <2>4, <2>6
<1>8. nm[i] \in Seq(Name)
  BY <1>2, <1>7
<1> QED BY <1>5, <1>6, <1>8

\* get_name of what get can reach leads get back to it.
LEMMA NameLeadsBack ==
  ASSUME NEW f, IsFs(f), IsTree(f), NEW i \in Named(f)
  PROVE  Get(f, 0, GetName(f, i)) = i
<1> DEFINE Leads(j) == LET p == GetName(f, j) IN Route(f, 0, p, Len(p), FALSE)[Len(p)] = j
           U == {j \in Named(f) : ~Leads(j)}
<1>0. /\ Named(f) \subseteq Nat /\ 0 \in Inode(f)
      /\ \A j \in Named(f) : GetName(f, j) \in Seq(Name) /\ Len(GetName(f, j)) \in Nat
  <2>1. Named(f) \subseteq Nat /\ 0 \in Inode(f)
    BY DEF Named, Inode, IsFs
  <2>2. \A j \in Named(f) : GetName(f, j) \in Seq(Name)
    BY NameEquation
  <2> QED BY <2>1, <2>2, LenProperties
<1>1. U = {}
  <2>1. SUFFICES ASSUME U # {} PROVE FALSE
    OBVIOUS
  <2>2. PICK j \in U : \A k \in U : j <= k
    <3>1. U \in SUBSET Nat
      BY <1>0
    <3> HIDE DEF U
    <3> QED BY <2>1, <3>1, LeastNat
  <2>3. j \in Named(f) /\ ~Leads(j)
    OBVIOUS
  <2>4. CASE j = 0
    <3> DEFINE a == Route(f, 0, <<>>, 0, FALSE)
    <3>1. GetName(f, j) = <<>> /\ Len(<<>>) = 0
      BY <2>3, <2>4, NameEquation, EmptySeq
    <3>2. IsWalk(f, 0, <<>>, 0, FALSE, a)
      BY <1>0, RouteEquation, Zenon
    <3>3. a[0] = 0
      <4> HIDE DEF a
      <4> QED BY <3>2 DEF IsWalk
    <3> QED BY <2>3, <2>4, <3>1, <3>3
  <2>5. CASE j # 0
    <3> DEFINE u == f.parent[j]
               q == GetName(f, u)
               c == NameOf(f, j)
               p == GetName(f, j)
    <3>1. /\ u \in Named(f) /\ u < j /\ IsDir(f, u)
          /\ c \in DOMAIN Kids(f, u) /\ c \in Name /\ Kids(f, u)[c] = j
      BY <2>3, <2>5, ChainUp
    <3>2. p = Append(q, c) /\ q \in Seq(Name) /\ Len(q) \in Nat
      BY <1>0, <2>3, <2>5, <3>1, NameEquation
    <3> HIDE DEF u, q, c, p
    <3>3. PICK m \in Nat, n \in Nat : m = Len(q) /\ n = Len(q) + 1
      BY <3>2
    <3>4. Len(p) = n /\ p[n] = c /\ \A k \in 1..m : p[k] = q[k]
      BY <3>1, <3>2, <3>3, AppendProperties
    <3> DEFINE a == Route(f, 0, p, n, FALSE)
               b == Route(f, 0, q, m, FALSE)
    <3>5. b[m] = u
      <4>1. u \in Nat /\ j \in Nat
        BY <1>0, <2>3, <3>1
      <4>2. u \notin U
        <5> HIDE DEF U
        <5> QED BY <2>2, <3>1, <4>1
      <4>3. Leads(u)
        BY <3>1, <4>2
      <4> QED BY <3>3, <4>3 DEF q
    <3>6. a[m] = b[m]
      <4>1. m <= m /\ m <= n
        BY <3>3
      <4>2. \A k \in 1..m : \A w : Step(f, w, p[k], FALSE) = Step(f, w, q[k], FALSE)
        BY <3>4
      <4>3. SameOutcome(f, 0, p, n, FALSE, q, m, FALSE, m)
        BY <1>0, <4>1, <4>2, RoutesAgree, Zenon
      <4> QED BY <4>3 DEF SameOutcome
    <3>7. IsWalk(f, 0, p, n, FALSE, a)
      BY <1>0, RouteEquation, Zenon
    <3> HIDE DEF a, b
    <3>8. a[n] = Step(f, u, c, FALSE)
      <4>1. n \in 1..n /\ n - 1 = m
        BY <3>3
      <4> QED BY <3>4, <3>5, <3>6, <3>7, <4>1 DEF IsWalk
    <3>9. Step(f, u, c, FALSE) = j
      <4>1. u \notin Errors
        BY <1>0, <3>1, FsAssumption, Zenon
      <4>2. c \notin {"", ".", ".."}
        BY <3>1, FsAssumption, Zenon
      <4> QED BY <3>1, <4>1, <4>2, Zenon DEF Step
    <3> QED BY <2>3, <3>4, <3>8, <3>9 DEF a, p
  <2> QED BY <2>4, <2>5
<1> DEFINE p == GetName(f, i)
<1>2. p \in Seq(Name) /\ Len(p) \in Nat
  BY <1>0
<1>3. p # <<>> => Word(p[Len(p)])
  <2>1. p # <<>> => p[Len(p)] \in Name
    <3>1. p # <<>> => Len(p) \in 1..Len(p)
      BY <1>2, EmptySeq
    <3> QED BY <1>2, <3>1, ElementOfSeq
  <2> QED BY <2>1, FsAssumption, Zenon DEF Word
<1>4. Get(f, 0, p) = Route(f, 0, p, Len(p), FALSE)[Len(p)]
  <2> HIDE DEF p
  <2> QED BY <1>3, Zenon DEF Get, Word
<1>5. Leads(i)
  BY <1>1
<1> QED BY <1>4, <1>5

----------------------------------------------------------------------------
(* The invariant.  A descriptor's kind is the kind of its inode: that is   *)
(* why no unwrap fails, and it needs the tree (a lookup goes through       *)
(* directories only) and that kinds never change.                          *)

BackedBy(g, e) == e # None /\ e.type \in {"dir", "file"} => g.entry[e.inode].type = e.type

Table(g, t) ==
  /\ t \in [Fd -> FdEntry(g.size) \cup {None}]
  /\ \A fd \in Fd : BackedBy(g, t[fd])

Inv == TypeOK /\ Tree /\ Table(fs, fds) /\ panic # "unwrap"

\* What a call may do.
Safe ==
  /\ Keeps(fs, fs') /\ Table(fs', fds')
  /\ ret' \in {"success", "error", "fault"} /\ panic' \in {"no", "slice", "get_name"}

LEMMA SafeKeepsInv ==
  ASSUME Inv, Safe
  PROVE  Inv'
BY DEF Inv, Safe, TypeOK, Tree, Keeps, Table

\* The table stays good for a file system that only grew.
LEMMA TableGrows ==
  ASSUME NEW f, NEW g, IsFs(f), Keeps(f, g), NEW t, Table(f, t)
  PROVE  Table(g, t)
<1>1. f.size \in Nat /\ g.size \in Nat /\ f.size <= g.size
  BY DEF Keeps, IsFs
<1>2. 0..(f.size - 1) \subseteq 0..(g.size - 1)
  BY <1>1
<1>3. FdEntry(f.size) \subseteq FdEntry(g.size)
  BY <1>2 DEF FdEntry
<1>4. ASSUME NEW fd \in Fd
      PROVE  BackedBy(g, t[fd])
  <2>1. CASE t[fd] # None /\ t[fd].type \in {"dir", "file"}
    <3>1. t[fd] \in FdEntry(f.size) /\ BackedBy(f, t[fd])
      BY <2>1 DEF Table
    <3>2. t[fd].inode \in Inode(f)
      BY <2>1, <3>1 DEF FdEntry, StreamFd, Inode
    <3> QED BY <3>1, <3>2 DEF BackedBy, Keeps
  <2> QED BY <2>1 DEF BackedBy
<1> QED BY <1>3, <1>4 DEF Table

\* One slot of the table changes.
LEMMA TableExcept ==
  ASSUME NEW g, NEW t, Table(g, t), NEW fd,
         NEW e \in FdEntry(g.size) \cup {None}, BackedBy(g, e)
  PROVE  Table(g, [t EXCEPT ![fd] = e])
BY DEF Table

\* A descriptor of a kind is an entry of that kind, and its inode is there.
LEMMA Backing ==
  ASSUME Inv, NEW fd \in Fd, NEW type \in {"dir", "file"}, Is(fd, type)
  PROVE  /\ fds[fd] \in FdEntry(fs.size) /\ fds[fd].type = type
         /\ fds[fd].inode \in Inode(fs)
         /\ fs.entry[fds[fd].inode].type = type
         /\ ~Unbacked(fd)
<1>1. /\ fds[fd] \in FdEntry(fs.size) /\ fds[fd].type = type
      /\ BackedBy(fs, fds[fd]) /\ fds[fd] # None
  BY DEF Is, Inv, Table
<1>2. fds[fd].inode \in Inode(fs)
  BY <1>1 DEF FdEntry, StreamFd, Inode
<1> QED BY <1>1, <1>2 DEF BackedBy, Unbacked

\* A call that leaves files and descriptors alone.
LEMMA Quiet ==
  ASSUME Inv, UNCHANGED <<fs, fds>>, ret' \in {"success", "error", "fault"},
         panic' \in {"no", "slice", "get_name"}
  PROVE  Safe
<1>1. Keeps(fs, fs)
  BY KeepsRefl DEF Inv, TypeOK, Tree
<1> QED BY <1>1 DEF Safe, Inv

\* A descriptor may be put on any inode of its kind.
LEMMA NewFd ==
  ASSUME NEW g, IsFs(g), NEW i \in Inode(g)
  PROVE  /\ IsDir(g, i) => DirFd(i) \in FdEntry(g.size) /\ BackedBy(g, DirFd(i))
         /\ \A offset \in Nat, append \in BOOLEAN :
              IsFile(g, i) => /\ FileFd(i, offset, append) \in FdEntry(g.size)
                              /\ BackedBy(g, FileFd(i, offset, append))
         /\ StreamFd \in FdEntry(g.size) /\ BackedBy(g, StreamFd)
BY DEF FdEntry, DirFd, FileFd, StreamFd, BackedBy, IsDir, IsFile, Inode

----------------------------------------------------------------------------
(* The calls, one by one.                                                  *)

LEMMA CloseSafe ==
  ASSUME Inv, NEW fd \in Fd, FdClose(fd)
  PROVE  Safe
<1>1. Keeps(fs, fs)
  BY KeepsRefl DEF Inv, TypeOK, Tree
<1>2. BackedBy(fs, None)
  BY DEF BackedBy
<1>3. Table(fs, [fds EXCEPT ![fd] = None])
  BY <1>2, TableExcept, Zenon DEF Inv
<1> QED BY <1>1, <1>3 DEF FdClose, Safe

LEMMA PathOpenSafe ==
  ASSUME Inv, NEW fd \in Fd, NEW path \in Path, NEW creat \in BOOLEAN, NEW excl \in BOOLEAN,
         NEW trunc \in BOOLEAN, NEW directory \in BOOLEAN, NEW append \in BOOLEAN,
         PathOpen(fd, path, creat, excl, trunc, directory, append)
  PROVE  Safe
<1> DEFINE r == Open(fs, fds[fd].inode, path, creat, excl)
<1>1. IsFs(fs) /\ IsTree(fs) /\ Table(fs, fds)
  BY DEF Inv, TypeOK, Tree
<1>2. fds[fd].inode \in Inode(fs) /\ IsDir(fs, fds[fd].inode)
  BY Backing DEF PathOpen, IsDir
<1>3. path \in Seq(Component)
  BY WasiFilesAssumption
<1>4. Keeps(fs, r.fs) /\ r.ret \in Inode(r.fs) \cup Errors
  BY <1>1, <1>2, <1>3, OpenKeeps, Zenon
<1>5. IsFs(r.fs) /\ IsTree(r.fs) /\ Table(r.fs, fds)
  BY <1>1, <1>4, TableGrows DEF Keeps
<1>6. CASE r.ret \in Errors
  BY <1>6, Quiet DEF PathOpen, Fail
<1>7. CASE r.ret \notin Errors /\ directory /\ ~IsDir(r.fs, r.ret)
  BY <1>4, <1>5, <1>7 DEF PathOpen, Safe
<1>8. CASE r.ret \notin Errors /\ ~(directory /\ ~IsDir(r.fs, r.ret))
  <2>1. r.ret \in Inode(r.fs)
    BY <1>4, <1>8
  <2>2. CASE IsDir(r.fs, r.ret)
    <3>1. fs' = r.fs /\ AddFd(DirFd(r.ret)) /\ Answer
      BY <1>8, <2>2 DEF PathOpen
    <3>2. Table(r.fs, fds')
      BY <1>5, <2>1, <2>2, <3>1, NewFd, TableExcept DEF AddFd
    <3> QED BY <1>4, <3>1, <3>2 DEF Safe, Answer
  <2>3. CASE IsFile(r.fs, r.ret)
    <3> DEFINE g == SetData(r.fs, r.ret, <<>>)
    <3>1. /\ fs' = IF trunc THEN g ELSE r.fs
          /\ AddFd(FileFd(r.ret, 0, append)) /\ Answer
      BY <1>8, <2>3 DEF PathOpen, IsDir, IsFile
    <3>2. Keeps(r.fs, g)
      BY <1>5, <2>1, <2>3, SetDataKeeps, EmptySeq, Zenon
    <3> HIDE DEF g
    <3>3. Keeps(r.fs, fs') /\ Keeps(fs, fs')
      BY <1>1, <1>4, <3>1, <3>2, <1>5, KeepsRefl, KeepsTrans
    <3>4. IsFs(fs') /\ Table(fs', fds)
      BY <1>5, <3>3, TableGrows DEF Keeps
    <3>5. r.ret \in Inode(fs') /\ IsFile(fs', r.ret)
      <4>1. r.fs.size \in Nat /\ fs'.size \in Nat /\ r.fs.size <= fs'.size
        BY <1>5, <3>3 DEF Keeps, IsFs
      <4>2. r.ret \in Inode(fs')
        BY <2>1, <4>1 DEF Inode
      <4>3. fs'.entry[r.ret].type = r.fs.entry[r.ret].type
        BY <2>1, <3>3 DEF Keeps
      <4> QED BY <2>3, <4>2, <4>3 DEF IsFile
    <3>6. Table(fs', fds')
      BY <3>1, <3>4, <3>5, NewFd, TableExcept DEF AddFd
    <3> QED BY <3>1, <3>3, <3>6 DEF Safe, Answer
  <2>4. CASE ~IsDir(r.fs, r.ret) /\ ~IsFile(r.fs, r.ret)
    <3>1. fs' = r.fs /\ AddFd(StreamFd) /\ Answer
      BY <1>8, <2>4 DEF PathOpen
    <3>2. Table(r.fs, fds')
      BY <1>5, <2>1, <3>1, NewFd, TableExcept DEF AddFd
    <3> QED BY <1>4, <3>1, <3>2 DEF Safe, Answer
  <2> QED BY <2>2, <2>3, <2>4
<1> QED BY <1>6, <1>7, <1>8

LEMMA CreateDirectorySafe ==
  ASSUME Inv, NEW fd \in Fd, NEW path \in Path, PathCreateDirectory(fd, path)
  PROVE  Safe
<1> DEFINE r == CreateDir(fs, fds[fd].inode, path)
<1>1. IsFs(fs) /\ IsTree(fs) /\ Table(fs, fds)
  BY DEF Inv, TypeOK, Tree
<1>2. fds[fd].inode \in Inode(fs) /\ IsDir(fs, fds[fd].inode)
  BY Backing DEF PathCreateDirectory, IsDir
<1>3. path \in Seq(Component)
  BY WasiFilesAssumption
<1>4. Keeps(fs, r.fs)
  BY <1>1, <1>2, <1>3, CreateDirKeeps, Zenon
<1>5. Table(r.fs, fds)
  BY <1>1, <1>4, TableGrows
<1>6. CASE r.ret \in Errors
  BY <1>6, Quiet DEF PathCreateDirectory, Fail
<1>7. CASE r.ret \notin Errors
  BY <1>4, <1>5, <1>7 DEF PathCreateDirectory, Safe
<1> QED BY <1>6, <1>7

LEMMA UnlinkSafe ==
  ASSUME Inv, NEW fd \in Fd, NEW path \in Path, PathUnlinkFile(fd, path)
  PROVE  Safe
<1> DEFINE i == Get(fs, fds[fd].inode, path)
<1>1. IsFs(fs) /\ IsTree(fs) /\ Table(fs, fds)
  BY DEF Inv, TypeOK, Tree
<1>2. fds[fd].inode \in Inode(fs) /\ path \in Seq(Component)
  BY Backing, WasiFilesAssumption DEF PathUnlinkFile
<1>3. i \in Inode(fs) \cup Errors
  BY <1>1, <1>2, GetType, Zenon
<1>4. CASE i \in Errors \/ i = 0
  BY <1>4, Quiet DEF PathUnlinkFile, Fail
<1>5. CASE ~(i \in Errors \/ i = 0)
  <2> HIDE DEF i
  <2>1. i \in Inode(fs) /\ IsDir(fs, fs.parent[i])
    BY <1>1, <1>3, <1>5 DEF IsTree
  <2>2. Keeps(fs, Unlink(fs, i))
    BY <1>1, <2>1, UnlinkKeeps, Zenon
  <2>3. Table(Unlink(fs, i), fds)
    BY <1>1, <2>2, TableGrows
  <2>4. fs' = Unlink(fs, i) /\ ret' = "success" /\ panic' = "no" /\ UNCHANGED fds
    BY <1>5, <2>1 DEF PathUnlinkFile, i
  <2> QED BY <2>2, <2>3, <2>4 DEF Safe
<1> QED BY <1>4, <1>5

\* A file's data is a sequence of bytes, and its descriptor's offset a natural.
LEMMA FileFdType ==
  ASSUME Inv, NEW fd \in Fd, Is(fd, "file")
  PROVE  /\ fds[fd].inode \in Inode(fs) /\ IsFile(fs, fds[fd].inode)
         /\ fs.entry[fds[fd].inode].data \in Seq(Byte)
         /\ fds[fd] = FileFd(fds[fd].inode, fds[fd].offset, fds[fd].append)
         /\ fds[fd].offset \in Nat /\ fds[fd].append \in BOOLEAN
<1>1. /\ fds[fd] \in FdEntry(fs.size) /\ fds[fd].type = "file"
      /\ fds[fd].inode \in Inode(fs) /\ fs.entry[fds[fd].inode].type = "file"
  BY Backing
<1>2. fs.entry[fds[fd].inode] \in Entry(fs.size)
  BY <1>1 DEF Inv, TypeOK, IsFs
<1>3. fs.entry[fds[fd].inode].data \in Seq(Byte)
  BY <1>1, <1>2 DEF Entry
<1>4. fds[fd] \in [type : {"file"}, inode : 0..(fs.size - 1), offset : Nat, append : BOOLEAN]
  BY <1>1 DEF FdEntry, StreamFd
<1> QED BY <1>1, <1>3, <1>4 DEF IsFile, FileFd

\* The offset of a descriptor of a file moves.
LEMMA MoveOffset ==
  ASSUME Inv, NEW fd \in Fd, Is(fd, "file"), NEW to \in Nat
  PROVE  Table(fs, [fds EXCEPT ![fd].offset = to])
<1> DEFINE e == fds[fd]
<1>1. e.inode \in Inode(fs) /\ IsFile(fs, e.inode) /\ e.append \in BOOLEAN
      /\ e = FileFd(e.inode, e.offset, e.append)
  BY FileFdType
<1>2. [e EXCEPT !.offset = to] = FileFd(e.inode, to, e.append)
  <2>1. \A i, o, a : [FileFd(i, o, a) EXCEPT !.offset = to] = FileFd(i, to, a)
    BY DEF FileFd
  <2>2. [FileFd(e.inode, e.offset, e.append) EXCEPT !.offset = to]
          = FileFd(e.inode, to, e.append)
    BY <2>1, Zenon
  <2> HIDE DEF e
  <2> QED BY <1>1, <2>2
<1>3. IsFs(fs) /\ Table(fs, fds)
  BY DEF Inv, TypeOK
<1>4. /\ FileFd(e.inode, to, e.append) \in FdEntry(fs.size)
      /\ BackedBy(fs, FileFd(e.inode, to, e.append))
  BY <1>1, <1>3, NewFd
<1>5. Table(fs, [fds EXCEPT ![fd] = FileFd(e.inode, to, e.append)])
  BY <1>3, <1>4, TableExcept, Zenon
<1> QED BY <1>2, <1>5, Zenon

\* What fd_write and fd_pwrite store is a sequence of bytes.
LEMMA PutType ==
  ASSUME NEW data \in Seq(Byte), NEW bytes \in Seq(Byte), NEW offset \in Nat
  PROVE  Put(data, offset, bytes) \in Seq(Byte)
<1> DEFINE end == offset + Len(bytes)
           n == IF end > Len(data) THEN end ELSE Len(data)
           elem(j) == IF offset < j /\ j <= end THEN bytes[j - offset]
                      ELSE IF j <= Len(data) THEN data[j] ELSE Zero
<1>1. Len(data) \in Nat /\ Len(bytes) \in Nat
  BY LenProperties
<1>2. n \in Nat /\ end \in Nat
  BY <1>1
<1>3. ASSUME NEW j \in 1..n
      PROVE  elem(j) \in Byte
  <2>1. CASE offset < j /\ j <= end
    <3>1. j - offset \in 1..Len(bytes)
      BY <1>1, <1>2, <2>1
    <3> QED BY <2>1, <3>1, ElementOfSeq
  <2>2. CASE ~(offset < j /\ j <= end) /\ j <= Len(data)
    <3>1. j \in 1..Len(data)
      BY <1>1, <1>2, <2>2
    <3> QED BY <2>2, <3>1, ElementOfSeq
  <2>3. CASE ~(offset < j /\ j <= end) /\ ~(j <= Len(data))
    BY <2>3, WasiFilesAssumption
  <2> QED BY <2>1, <2>2, <2>3
<1> HIDE DEF elem
<1>4. [j \in 1..n |-> elem(j)] \in Seq(Byte)
  <2> HIDE DEF n
  <2> QED BY <1>2, <1>3, IsASeq
<1>5. Put(data, offset, bytes) = [j \in 1..n |-> elem(j)]
  BY Zenon DEF Put, elem
<1> QED BY <1>4, <1>5

LEMMA SeekSafe ==
  ASSUME Inv, NEW fd \in Fd, FdSeek(fd)
  PROVE  Safe
<1>1. Is(fd, "file") /\ ~Unbacked(fd)
  BY Backing DEF FdSeek
<1>2. fds[fd].offset \in Nat /\ Len(fs.entry[fds[fd].inode].data) \in Nat
  BY <1>1, FileFdType, LenProperties
<1>3. PICK base \in {0, fds[fd].offset, Len(fs.entry[fds[fd].inode].data)},
           delta \in 0..MaxData, back \in BOOLEAN :
        fds' = [fds EXCEPT ![fd].offset =
                 IF ~back THEN base + delta ELSE IF base > delta THEN base - delta ELSE 0]
  BY <1>1, Zenon DEF FdSeek
<1>4. (IF ~back THEN base + delta ELSE IF base > delta THEN base - delta ELSE 0) \in Nat
  BY <1>2, <1>3, WasiFilesAssumption
<1>5. Table(fs, fds')
  BY <1>1, <1>3, <1>4, MoveOffset, Zenon
<1>6. Keeps(fs, fs)
  BY KeepsRefl DEF Inv, TypeOK, Tree
<1> QED BY <1>1, <1>5, <1>6 DEF FdSeek, Safe, Answer

LEMMA ReadSafe ==
  ASSUME Inv, NEW fd \in Fd, NEW len \in 0..MaxData, FdRead(fd, len)
  PROVE  Safe
<1> DEFINE size == Len(fs.entry[fds[fd].inode].data)
           offset == fds[fd].offset
<1>1. Is(fd, "file") /\ ~Unbacked(fd)
  BY Backing DEF FdRead
<1>2. offset \in Nat /\ size \in Nat
  BY <1>1, FileFdType, LenProperties
<1>3. CASE offset > size
  BY <1>1, <1>3, Quiet DEF FdRead, Panic, Inv, TypeOK
<1>4. CASE ~(offset > size)
  <2>1. /\ fds' = [fds EXCEPT ![fd].offset =
                     fds[fd].offset + IF len < size - offset THEN len ELSE size - offset]
        /\ Answer /\ UNCHANGED fs
    BY <1>1, <1>4 DEF FdRead
  <2>2. fds[fd].offset + (IF len < size - offset THEN len ELSE size - offset) \in Nat
    <3>1. len \in Nat
      BY WasiFilesAssumption
    <3> HIDE DEF size, offset
    <3>2. size - offset \in Nat
      BY <1>2, <1>4
    <3>3. offset + (IF len < size - offset THEN len ELSE size - offset) \in Nat
      BY <1>2, <3>1, <3>2
    <3> QED BY <3>3 DEF offset
  <2>3. Table(fs, fds')
    BY <1>1, <2>1, <2>2, MoveOffset, Zenon
  <2>4. Keeps(fs, fs)
    BY KeepsRefl DEF Inv, TypeOK, Tree
  <2> QED BY <2>1, <2>3, <2>4 DEF Safe, Answer
<1> QED BY <1>3, <1>4

LEMMA WriteSafe ==
  ASSUME Inv, NEW fd \in Fd, NEW bytes \in Chunk, FdWrite(fd, bytes)
  PROVE  Safe
<1> DEFINE f == fds[fd]
           data == fs.entry[f.inode].data
           offset == IF f.append THEN Len(data) ELSE f.offset
           g == SetData(fs, f.inode, Put(data, offset, bytes))
<1>1. Is(fd, "file") /\ ~Unbacked(fd)
  BY Backing DEF FdWrite
<1>2. /\ f.inode \in Inode(fs) /\ IsFile(fs, f.inode) /\ data \in Seq(Byte)
      /\ offset \in Nat /\ Len(bytes) \in Nat /\ bytes \in Seq(Byte)
  BY <1>1, FileFdType, LenProperties, WasiFilesAssumption
<1>3. fs' = g /\ fds' = [fds EXCEPT ![fd].offset = offset + Len(bytes)] /\ Answer
  BY <1>1 DEF FdWrite
<1>4. IsFs(fs) /\ IsTree(fs)
  BY DEF Inv, TypeOK, Tree
<1>5. Keeps(fs, g)
  <2>1. Put(data, offset, bytes) \in Seq(Byte)
    BY <1>2, PutType
  <2> QED BY <1>2, <1>4, <2>1, SetDataKeeps
<1>6. Table(fs, fds')
  <2>1. offset + Len(bytes) \in Nat
    <3> HIDE DEF offset
    <3> QED BY <1>2
  <2> QED BY <1>1, <1>3, <2>1, MoveOffset, Zenon
<1> HIDE DEF g
<1>7. Table(g, fds')
  BY <1>4, <1>5, <1>6, TableGrows
<1> QED BY <1>3, <1>5, <1>7 DEF Safe, Answer

LEMMA PwriteSafe ==
  ASSUME Inv, NEW fd \in Fd, NEW bytes \in Chunk, NEW offset \in 0..MaxData,
         FdPwrite(fd, bytes, offset)
  PROVE  Safe
<1> DEFINE i == fds[fd].inode
           g == SetData(fs, i, Put(fs.entry[i].data, offset, bytes))
<1>1. Is(fd, "file") /\ ~Unbacked(fd)
  BY Backing DEF FdPwrite
<1>2. /\ i \in Inode(fs) /\ IsFile(fs, i) /\ fs.entry[i].data \in Seq(Byte)
      /\ offset \in Nat /\ bytes \in Seq(Byte)
  BY <1>1, FileFdType, WasiFilesAssumption
<1>3. IsFs(fs) /\ IsTree(fs) /\ Table(fs, fds)
  BY DEF Inv, TypeOK, Tree
<1>4. Keeps(fs, g)
  <2>1. Put(fs.entry[i].data, offset, bytes) \in Seq(Byte)
    BY <1>2, PutType
  <2> QED BY <1>2, <1>3, <2>1, SetDataKeeps
<1>5. fs' = g /\ UNCHANGED fds /\ Answer
  BY <1>1 DEF FdPwrite
<1> HIDE DEF g
<1>6. Table(g, fds)
  BY <1>3, <1>4, TableGrows
<1> QED BY <1>4, <1>5, <1>6 DEF Safe, Answer

\* The calls that change nothing: fd_prestat_*, the queries, fd_pread.
LEMMA QuerySafe ==
  ASSUME Inv, NEW fd \in Fd,
         FdPrestat(fd) \/ FdQuery(fd) \/ \E n \in 0..MaxData : FdPread(fd, n)
  PROVE  Safe
<1>1. CASE FdPrestat(fd)
  BY <1>1, Quiet DEF FdPrestat, Answer, Panic, Inv, TypeOK
<1>2. CASE FdQuery(fd)
  BY <1>2, Backing, Quiet DEF FdQuery, Answer
<1>3. CASE \E n \in 0..MaxData : FdPread(fd, n)
  BY <1>3, Backing, Quiet DEF FdPread, Answer, Panic, Inv, TypeOK
<1> QED BY <1>1, <1>2, <1>3

----------------------------------------------------------------------------
(* The theorems.                                                           *)

LEMMA InitInv == Init => Inv
<1> SUFFICES ASSUME Init PROVE Inv
  OBVIOUS
<1>1. IsFs(fs) /\ IsTree(fs)
  BY WasiFilesAssumption DEF Init
<1>2. PICK given \in Given :
        fds = [fd \in Fd |-> IF fd \in given THEN StreamFd
                             ELSE IF fd = 3 THEN DirFd(0) ELSE None]
  BY DEF Init
<1>3. 0 \in Inode(fs) /\ IsDir(fs, 0)
  BY <1>1 DEF IsFs, IsTree, Inode
<1>4. /\ DirFd(0) \in FdEntry(fs.size) /\ BackedBy(fs, DirFd(0))
      /\ StreamFd \in FdEntry(fs.size) /\ BackedBy(fs, StreamFd)
  BY <1>1, <1>3, NewFd
<1>5. BackedBy(fs, None)
  BY DEF BackedBy
<1>6. Table(fs, fds)
  BY <1>2, <1>4, <1>5 DEF Table
<1> QED BY <1>1, <1>6 DEF Inv, Init, TypeOK, Tree, Table

LEMMA NextSafe ==
  ASSUME Inv, Next
  PROVE  Safe
<1>1. CASE Refused
  BY <1>1, Quiet DEF Refused, Fail
<1>2. ASSUME NEW fd \in Fd, OnFd(fd)
      PROVE  Safe
  <2>1. CASE FdClose(fd)
    BY <2>1, CloseSafe
  <2>2. CASE FdPrestat(fd) \/ FdQuery(fd) \/ \E n \in 0..MaxData : FdPread(fd, n)
    BY <2>2, QuerySafe
  <2>3. CASE FdSeek(fd)
    BY <2>3, SeekSafe
  <2>4. CASE \E n \in 0..MaxData : FdRead(fd, n)
    BY <2>4, ReadSafe
  <2>5. CASE \E bytes \in Chunk : FdWrite(fd, bytes)
    BY <2>5, WriteSafe
  <2>6. CASE \E bytes \in Chunk, offset \in 0..MaxData : FdPwrite(fd, bytes, offset)
    BY <2>6, PwriteSafe
  <2> QED BY <1>2, <2>1, <2>2, <2>3, <2>4, <2>5, <2>6 DEF OnFd
<1>3. ASSUME NEW fd \in Fd, NEW path \in Path, OnPath(fd, path)
      PROVE  Safe
  <2>1. CASE \E creat, excl, trunc, directory, append \in BOOLEAN :
               PathOpen(fd, path, creat, excl, trunc, directory, append)
    BY <2>1, PathOpenSafe
  <2>2. CASE PathCreateDirectory(fd, path)
    BY <2>2, CreateDirectorySafe
  <2>3. CASE PathUnlinkFile(fd, path)
    BY <2>3, UnlinkSafe
  <2> QED BY <1>3, <2>1, <2>2, <2>3 DEF OnPath
<1> QED BY <1>1, <1>2, <1>3 DEF Next

LEMMA NextInv == Inv /\ [Next]_vars => Inv'
<1> SUFFICES ASSUME Inv, [Next]_vars PROVE Inv'
  OBVIOUS
<1>1. CASE Next
  BY <1>1, NextSafe, SafeKeepsInv
<1>2. CASE UNCHANGED vars
  BY <1>2 DEF vars, Inv, TypeOK, Tree, Table, BackedBy
<1> QED BY <1>1, <1>2

LEMMA Invariance == Spec => []Inv
BY InitInv, NextInv, PTL DEF Spec

\* Types: the entries and parent pointers stay in step, and no descriptor holds
\* an inode past the end of the vector.
THEOREM TypeCorrect == Spec => []TypeOK
<1>1. Inv => TypeOK
  BY DEF Inv
<1> QED BY <1>1, Invariance, PTL

\* The entries stay a tree under every sequence of calls.
THEOREM AlwaysATree == Spec => []Tree
<1>1. Inv => Tree
  BY DEF Inv
<1> QED BY <1>1, Invariance, PTL

\* No as_file, as_dir or index of a descriptor's inode ever panics.
THEOREM UnwrapsSucceed == Spec => []NoBadUnwrap
<1>1. Inv => NoBadUnwrap
  BY DEF Inv, NoBadUnwrap
<1> QED BY <1>1, Invariance, PTL

\* What lost its name never has one again.
THEOREM NeverRelisted == Spec => UnlinkedForGood
<1>1. ASSUME Inv, [Next]_vars
      PROVE  [\A i \in Inode(fs) \ {0} :
                ~Listed(fs, i) => i \in Inode(fs') /\ ~Listed(fs', i)]_vars
  <2>1. CASE UNCHANGED vars
    BY <2>1
  <2>2. CASE Next
    <3>1. Keeps(fs, fs')
      BY <2>2, <1>1, NextSafe DEF Safe
    <3>2. fs.size \in Nat /\ fs'.size \in Nat /\ fs.size <= fs'.size
      BY <1>1, <3>1 DEF Inv, TypeOK, Keeps, IsFs
    <3>3. \A i \in Inode(fs) : i \in Inode(fs')
      BY <3>2 DEF Inode
    <3> QED BY <3>1, <3>3 DEF Keeps
  <2> QED BY <1>1, <2>1, <2>2
<1> QED BY <1>1, Invariance, PTL DEF Spec, UnlinkedForGood

\* From any directory, attached or not, get finds what open opens on every path that does
\* not end in two slashes behind what is no directory, and there it says NotDir; and what
\* get_name can name is what get reaches from the root: for paths of any length and trees
\* of any depth.
THEOREM LookupsNeverDiffer == Spec => []LookupsAgree
<1>1. Inv => LookupsAgree
  <2>1. SUFFICES ASSUME Inv PROVE LookupsAgree
    OBVIOUS
  <2>2. IsFs(fs) /\ IsTree(fs)
    BY <2>1 DEF Inv, TypeOK, Tree
  <2>3. \A path \in Path : path \in Seq(Component) /\ path # <<>>
    BY WasiFilesAssumption, Zenon
  <2>4. ASSUME NEW d \in Inode(fs), NEW path \in Path
        PROVE  LET found == Open(fs, d, path, FALSE, FALSE).ret
               IN  Get(fs, d, path) =
                     IF Slashes(path) /\ found \in Inode(fs) /\ ~IsDir(fs, found)
                     THEN NotDir ELSE found
    BY <2>2, <2>3, GetAsOpen, Zenon
  <2>5. ASSUME NEW i \in Inode(fs), Attached(fs, i)
        PROVE  Get(fs, 0, GetName(fs, i)) = i
    BY <2>2, <2>5, NameLeadsBack, Zenon DEF Named
  <2>6. \A path \in Path : Get(fs, 0, path) \in Inode(fs) => Attached(fs, Get(fs, 0, path))
    BY <2>2, <2>3, ReachedAttached, Zenon
  <2> QED BY <2>4, <2>5, <2>6, Zenon DEF LookupsAgree
<1> QED BY <1>1, Invariance, PTL

\* What a call that fails may do: to names and kinds, and to files.
KeepsNames(f, g) ==
  \A i \in Inode(f) :
    /\ g.entry[i].type = f.entry[i].type
    /\ IsDir(f, i) => \A n \in DOMAIN Kids(f, i) :
         n \in DOMAIN Kids(g, i) /\ Kids(g, i)[n] = Kids(f, i)[n]
KeepsFiles(f, g) == \A i \in Inode(f) : IsFile(f, i) => g.entry[i] = f.entry[i]
Additive(f, g) == KeepsNames(f, g) /\ KeepsFiles(f, g)

\* open lists a new name in a directory that did not have it, and changes nothing else.
LEMMA OpenIsAdditive ==
  ASSUME NEW f, IsFs(f), NEW from \in Inode(f),
         NEW path \in Seq(Component), NEW creat, NEW excl
  PROVE  Additive(f, Open(f, from, path, creat, excl).fs)
<1> DEFINE r == Open(f, from, path, creat, excl)
           k == CHOOSE k \in LastWord(path) : TRUE
           dir == Base(f, from, path, k)
           found == Step(f, dir, path[k], TRUE)
           g == AddEntry(f, dir, path[k], File(<<>>))
<1>1. CASE r.fs = f
  BY <1>1 DEF Additive, KeepsNames, KeepsFiles
<1>2. CASE r.fs # f
  <2>1. LastWord(path) # {}
    <3>1. SUFFICES ASSUME LastWord(path) = {} PROVE r.fs = f
      BY <1>2
    <3>2. r = [fs |-> f, ret |-> from]
      BY <3>1, Zenon DEF Open
    <3>3. [fs |-> f, ret |-> from].fs = f
      OBVIOUS
    <3> QED BY <3>2, <3>3, Zenon
  <2>2. k - 1 \in Nat /\ path[k] \in Component \ {""}
    <3>1. k \in LastWord(path)
      BY <2>1
    <3> HIDE DEF k
    <3> QED BY <3>1, LastWordType, Zenon
  <2> HIDE DEF k
  <2>3. dir \in Errors \/ (dir \in Inode(f) /\ IsDir(f, dir))
    BY <2>2, BaseType, Zenon
  <2> HIDE DEF dir
  <2>4. r = IF dir \in Errors THEN [fs |-> f, ret |-> dir]
            ELSE IF path[k] \in {".", ".."} THEN [fs |-> f, ret |-> found]
            ELSE IF found # NoEnt THEN [fs |-> f, ret |-> IF excl THEN Exist ELSE found]
            ELSE IF creat THEN [fs |-> g, ret |-> f.size]
            ELSE [fs |-> f, ret |-> NoEnt]
    BY <2>1, Zenon DEF Open, k, dir
  <2>5. dir \notin Errors /\ path[k] \notin {".", ".."} /\ found = NoEnt /\ r.fs = g
    <3> HIDE DEF r, g, found
    <3> QED BY <1>2, <2>4
  <2> HIDE DEF r
  <2>6. path[k] \notin DOMAIN Kids(f, dir)
    <3>1. SUFFICES ASSUME path[k] \in DOMAIN Kids(f, dir) PROVE FALSE
      OBVIOUS
    <3>2. found = Kids(f, dir)[path[k]]
      BY <2>2, <2>3, <2>5, <3>1, Zenon DEF Step
    <3>3. found \in Nat
      <4>1. found \in Inode(f)
        BY <2>3, <2>5, <3>1, <3>2, KidsType, Zenon
      <4>2. Inode(f) \subseteq Nat
        BY DEF Inode, IsFs
      <4> QED BY <4>1, <4>2, Zenon
    <3> QED BY <2>5, <3>3, FsAssumption, Zenon DEF Errors
  <2> DEFINE kids == Kids(f, dir)
             more == [n \in DOMAIN kids \cup {path[k]} |-> IF n = path[k] THEN f.size ELSE kids[n]]
  <2>7. \A i \in Inode(f) : g.entry[i] = IF i = dir THEN Dir(more) ELSE f.entry[i]
    BY DEF AddEntry, Inode, IsFs
  <2>8. Dir(more).type = "dir" /\ Dir(more).kids = more
    BY DEF Dir
  <2>9. \A n \in DOMAIN kids : n \in DOMAIN more /\ more[n] = kids[n]
    BY <2>6
  <2> HIDE DEF g, more
  <2> QED BY <2>3, <2>5, <2>7, <2>8, <2>9 
      DEF Additive, KeepsNames, KeepsFiles, IsDir, IsFile, Kids, r
<1> QED BY <1>1, <1>2

\* New contents take no name away.
LEMMA SetDataKeepsNames ==
  ASSUME NEW f, IsFs(f), NEW i \in Inode(f), IsFile(f, i), NEW data
  PROVE  KeepsNames(f, SetData(f, i, data))
<1> DEFINE g == SetData(f, i, data)
<1>1. \A j \in Inode(f) : g.entry[j] = IF j = i THEN File(data) ELSE f.entry[j]
  BY DEF SetData, IsFs
<1>2. File(data).type = "file"
  BY DEF File
<1> HIDE DEF g
<1>3. KeepsNames(f, g)
  BY <1>1, <1>2 DEF KeepsNames, IsFile, IsDir, Kids
<1> QED BY <1>3 DEF g

\* What path_open keeps, however it ends.
LEMMA PathOpenKeeps ==
  ASSUME Inv, NEW fd \in Fd, NEW path \in Path, NEW creat \in BOOLEAN, NEW excl \in BOOLEAN,
         NEW trunc \in BOOLEAN, NEW directory \in BOOLEAN, NEW append \in BOOLEAN,
         PathOpen(fd, path, creat, excl, trunc, directory, append)
  PROVE  KeepsNames(fs, fs') /\ (ret' = "error" => fds' = fds /\ KeepsFiles(fs, fs'))
<1> DEFINE r == Open(fs, fds[fd].inode, path, creat, excl)
<1>1. fds[fd].inode \in Inode(fs) /\ IsFs(fs) /\ IsTree(fs) /\ IsDir(fs, fds[fd].inode)
  BY Backing DEF PathOpen, Inv, TypeOK, Tree, IsDir
<1>2. path \in Seq(Component)
  BY WasiFilesAssumption, Zenon
<1>3. Additive(fs, r.fs)
  BY <1>1, <1>2, OpenIsAdditive, Zenon
<1>4. Keeps(fs, r.fs) /\ r.ret \in Inode(r.fs) \cup Errors
  BY <1>1, <1>2, OpenKeeps, Zenon
<1>5. \/ fs' = fs /\ fds' = fds
      \/ fs' = r.fs /\ (ret' = "error" => fds' = fds)
      \/ /\ fs' = SetData(r.fs, r.ret, <<>>) /\ ret' # "error"
         /\ r.ret \notin Errors /\ IsFile(r.fs, r.ret)
  <2> HIDE DEF r
  <2> QED BY DEF PathOpen, Fail, Answer, r
<1> HIDE DEF r
<1>6. CASE fs' = fs /\ fds' = fds
  BY <1>6 DEF KeepsNames, KeepsFiles
<1>7. CASE fs' = r.fs /\ (ret' = "error" => fds' = fds)
  BY <1>3, <1>7 DEF Additive
<1>8. CASE /\ fs' = SetData(r.fs, r.ret, <<>>) /\ ret' # "error"
           /\ r.ret \notin Errors /\ IsFile(r.fs, r.ret)
  <2> DEFINE g == SetData(r.fs, r.ret, <<>>)
  <2>1. IsFs(r.fs) /\ r.ret \in Inode(r.fs) /\ fs.size <= r.fs.size
    BY <1>4, <1>8 DEF Keeps
  <2>2. KeepsNames(r.fs, g)
    BY <1>8, <2>1, SetDataKeepsNames, Zenon
  <2> HIDE DEF g
  <2>3. \A i \in Inode(fs) : i \in Inode(r.fs)
    BY <1>1, <2>1 DEF Inode, IsFs
  <2>4. KeepsNames(fs, g)
    BY <1>3, <2>2, <2>3 DEF Additive, KeepsNames, IsDir
  <2> QED BY <1>8, <2>4 DEF g
<1> QED BY <1>5, <1>6, <1>7, <1>8

\* fd_write and fd_pwrite keep every name.
LEMMA WritesKeepNames ==
  ASSUME Inv, NEW fd \in Fd, NEW bytes \in Chunk,
         FdWrite(fd, bytes) \/ \E offset \in 0..MaxData : FdPwrite(fd, bytes, offset)
  PROVE  KeepsNames(fs, fs') /\ (ret' = "error" => UNCHANGED <<fs, fds>>)
<1>1. Is(fd, "file") /\ ~Unbacked(fd)
  BY Backing DEF FdWrite, FdPwrite
<1>2. fds[fd].inode \in Inode(fs) /\ IsFile(fs, fds[fd].inode) /\ IsFs(fs)
  BY <1>1, FileFdType DEF Inv, TypeOK
<1>3. PICK data : fs' = SetData(fs, fds[fd].inode, data)
  BY <1>1, Zenon DEF FdWrite, FdPwrite
<1>4. KeepsNames(fs, fs')
  BY <1>2, <1>3, SetDataKeepsNames, Zenon
<1>5. ret' # "error"
  BY <1>1 DEF FdWrite, FdPwrite, Answer
<1> QED BY <1>4, <1>5

\* A call that fails never takes a name away or changes the kind of an entry; unless it is
\* its result that could not be written, it touches no descriptor and no byte either.
THEOREM FailuresOnlyAdd == Spec => FailureIsAdditive
<1> DEFINE Harmless ==
      ret' # "success" => KeepsNames(fs, fs') /\ (ret' = "error" => fds' = fds /\ KeepsFiles(fs, fs'))
<1>1. ASSUME Inv, [Next]_vars
      PROVE  [Harmless]_vars
  <2>1. SUFFICES ASSUME Next, ret' # "success" PROVE Harmless
    BY <1>1
  <2>2. CASE UNCHANGED <<fs, fds>>
    BY <2>2 DEF KeepsNames, KeepsFiles
  <2>3. CASE Refused
    BY <2>2, <2>3 DEF Refused, Fail
  <2>4. ASSUME NEW fd \in Fd, OnFd(fd)
        PROVE  Harmless
    <3>1. CASE \E bytes \in Chunk :
                 FdWrite(fd, bytes) \/ \E offset \in 0..MaxData : FdPwrite(fd, bytes, offset)
      <4>1. KeepsNames(fs, fs') /\ (ret' = "error" => UNCHANGED <<fs, fds>>)
        BY <1>1, <3>1, WritesKeepNames, Zenon
      <4> QED BY <2>2, <4>1
    <3>2. CASE FdSeek(fd) \/ \E n \in 0..MaxData : FdRead(fd, n)
      <4>1. UNCHANGED fs /\ (ret' = "error" => UNCHANGED fds)
        BY <3>2 DEF FdSeek, FdRead, Answer, Panic
      <4>2. KeepsNames(fs, fs) /\ KeepsFiles(fs, fs)
        BY ONLY DEF KeepsNames, KeepsFiles
      <4>3. KeepsNames(fs, fs') /\ KeepsFiles(fs, fs')
        BY ONLY <4>1, <4>2
      <4> QED BY <4>1, <4>3
    <3>3. CASE FdClose(fd) \/ FdPrestat(fd) \/ FdQuery(fd) \/ \E n \in 0..MaxData : FdPread(fd, n)
      <4>1. UNCHANGED <<fs, fds>>
        BY <2>1, <3>3 DEF FdClose, FdPrestat, FdQuery, FdPread, Panic
      <4> QED BY <2>2, <4>1
    <3> QED BY <2>4, <3>1, <3>2, <3>3, Zenon DEF OnFd
  <2>5. ASSUME NEW fd \in Fd, NEW path \in Path, OnPath(fd, path)
        PROVE  Harmless
    <3>1. CASE \E creat, excl, trunc, directory, append \in BOOLEAN :
                 PathOpen(fd, path, creat, excl, trunc, directory, append)
      <4>1. PICK creat \in BOOLEAN, excl \in BOOLEAN, trunc \in BOOLEAN,
                 directory \in BOOLEAN, append \in BOOLEAN :
              PathOpen(fd, path, creat, excl, trunc, directory, append)
        BY <3>1, Zenon
      <4> QED BY <1>1, <4>1, PathOpenKeeps
    <3>2. CASE PathCreateDirectory(fd, path) \/ PathUnlinkFile(fd, path)
      <4>1. UNCHANGED <<fs, fds>>
        BY <2>1, <3>2 DEF PathCreateDirectory, PathUnlinkFile, Fail, Panic
      <4> QED BY <2>2, <4>1
    <3> QED BY <2>5, <3>1, <3>2, Zenon DEF OnPath
  <2> QED BY <2>1, <2>3, <2>4, <2>5, Zenon DEF Next
<1>2. Inv /\ [Next]_vars =>
        [/\ ret' # "success" =>
              \A i \in Inode(fs) :
                /\ fs'.entry[i].type = fs.entry[i].type
                /\ IsDir(fs, i) => \A n \in DOMAIN Kids(fs, i) :
                     n \in DOMAIN Kids(fs', i) /\ Kids(fs', i)[n] = Kids(fs, i)[n]
         /\ ret' = "error" =>
              /\ fds' = fds
              /\ \A i \in Inode(fs) : IsFile(fs, i) => fs'.entry[i] = fs.entry[i]]_vars
  BY <1>1 DEF KeepsNames, KeepsFiles
<1> QED BY <1>2, Invariance, PTL DEF Spec, FailureIsAdditive
============================================================================
