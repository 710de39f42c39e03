-------------------------------- MODULE Fs --------------------------------
(***************************************************************************)
(* The file system of a program: worker/src/os/fs.rs.                      *)
(*                                                                         *)
(* Inodes are indices of a vector that only grows: entry and parent are    *)
(* functions on 0..size-1, 0 is the root.  A path is the sequence of its   *)
(* components, split at every slash: "d//f" is <<"d", "", "f">> and the    *)
(* empty path <<"">>.  File contents are values: Rc::make_mut copies what  *)
(* is shared.                                                              *)
(***************************************************************************)
EXTENDS Naturals, Sequences, FiniteSets

CONSTANTS
  Name,                  \* the names of entries
  Byte,                  \* what files hold
  NotDir, NoEnt, Exist   \* FsError

Errors == {NotDir, NoEnt, Exist}

ASSUME FsAssumption ==
  /\ Name \cap {"", ".", ".."} = {}
  /\ Errors \cap Nat = {}

Component == Name \cup {"", ".", ".."}

Dir(kids) == [type |-> "dir", kids |-> kids]
File(data) == [type |-> "file", data |-> data]
Stream == [type |-> "pipe"]

Inode(fs) == 0..(fs.size - 1)
IsDir(fs, i) == fs.entry[i].type = "dir"
IsFile(fs, i) == fs.entry[i].type = "file"
Kids(fs, d) == fs.entry[d].kids

Entry(n) ==
  [type : {"dir"}, kids : UNION {[D -> 0..(n - 1)] : D \in SUBSET Name}]
    \cup [type : {"file"}, data : Seq(Byte)] \cup [type : {"pipe"}]

IsFs(fs) ==
  /\ fs.size \in Nat \ {0}
  /\ fs.entry \in [Inode(fs) -> Entry(fs.size)]
  /\ fs.parent \in [Inode(fs) -> Inode(fs)]

\* new.
EmptyFs ==
  [size |-> 1, entry |-> [i \in {0} |-> Dir([n \in {} |-> 0])], parent |-> [i \in {0} |-> 0]]

\* Whether directory d lists i.
Lists(fs, d, i) ==
  d \in Inode(fs) /\ IsDir(fs, d) /\ \E n \in DOMAIN Kids(fs, d) : Kids(fs, d)[n] = i
Listed(fs, i) == \E d \in Inode(fs) : Lists(fs, d, i)

\* What every operation keeps: the root and every parent are directories, the root
\* is its own; a listed entry is listed once, under its parent, and came after it.
IsTree(fs) ==
  /\ IsDir(fs, 0) /\ fs.parent[0] = 0
  /\ \A i \in Inode(fs) : IsDir(fs, fs.parent[i])
  /\ \A d \in Inode(fs) : IsDir(fs, d) =>
       /\ \A n \in DOMAIN Kids(fs, d) :
            Kids(fs, d)[n] > d /\ fs.parent[Kids(fs, d)[n]] = d
       /\ \A m, n \in DOMAIN Kids(fs, d) : Kids(fs, d)[m] = Kids(fs, d)[n] => m = n

----------------------------------------------------------------------------
\* Faulty variant: every entry becomes a child of the root.
AddEntryToRoot(fs, dir, name, entry) ==
  LET kids == Kids(fs, dir)
      more == [n \in DOMAIN kids \cup {name} |-> IF n = name THEN fs.size ELSE kids[n]]
  IN  [size |-> fs.size + 1,
       entry |-> [i \in 0..fs.size |->
                   IF i = fs.size THEN entry ELSE IF i = dir THEN Dir(more) ELSE fs.entry[i]],
       parent |-> [i \in 0..fs.size |-> IF i = fs.size THEN 0 ELSE fs.parent[i]]]

\* Faulty variant: an inode without a name is listed again for the new one.
AddEntryReusing(fs, dir, name, entry) ==
  LET kids == Kids(fs, dir)
      free == {i \in Inode(fs) \ {0} : ~Listed(fs, i)}
      new == IF free = {} THEN fs.size ELSE CHOOSE i \in free : TRUE
      more == [n \in DOMAIN kids \cup {name} |-> IF n = name THEN new ELSE kids[n]]
  IN  [size |-> fs.size + 1,
       entry |-> [i \in 0..fs.size |->
                   IF i = fs.size THEN entry ELSE IF i = dir THEN Dir(more) ELSE fs.entry[i]],
       parent |-> [i \in 0..fs.size |-> IF i \in {fs.size, new} THEN dir ELSE fs.parent[i]]]

\* add_entry: the new inode is listed under name in dir, whatever name meant.
AddEntry(fs, dir, name, entry) ==
  LET kids == Kids(fs, dir)
      more == [n \in DOMAIN kids \cup {name} |-> IF n = name THEN fs.size ELSE kids[n]]
  IN  [size |-> fs.size + 1,
       entry |-> [i \in 0..fs.size |->
                   IF i = fs.size THEN entry ELSE IF i = dir THEN Dir(more) ELSE fs.entry[i]],
       parent |-> [i \in 0..fs.size |-> IF i = fs.size THEN dir ELSE fs.parent[i]]]

\* The entry of file i replaced by data.
SetData(fs, i, data) ==
  [size |-> fs.size, entry |-> [fs.entry EXCEPT ![i] = File(data)], parent |-> fs.parent]

\* One component: of get, and of the loops of open and create_dir, which skip
\* empty components even after a file.
Step(fs, at, c, skip) ==
  IF at \in Errors \/ (skip /\ c = "") THEN at
  ELSE IF ~IsDir(fs, at) THEN NotDir
  ELSE IF c \in {"", "."} THEN at
  ELSE IF c = ".." THEN fs.parent[at]
  ELSE IF c \in DOMAIN Kids(fs, at) THEN Kids(fs, at)[c] ELSE NoEnt

\* Where the first n components lead, one after the other.
Route(fs, from, path, n, skip) ==
  LET at[i \in 0..n] == IF i = 0 THEN from ELSE Step(fs, at[i - 1], path[i], skip)
  IN  at

\* Faulty variant: the rest of the path is looked at even when it is empty.
GetEager(fs, from, path) == Route(fs, from, path, Len(path), FALSE)[Len(path)]

\* get: an empty rest of the path is not looked at.
Get(fs, from, path) ==
  LET n == IF path # <<>> /\ path[Len(path)] = "" THEN Len(path) - 1 ELSE Len(path)
  IN  Route(fs, from, path, n, FALSE)[n]

\* The position of the last word of a path; empty when it has none.
LastWord(path) ==
  {k \in 1..Len(path) : path[k] # "" /\ \A j \in (k + 1)..Len(path) : path[j] = ""}

\* The directory the last word, at position k, is looked up in.
Base(fs, from, path, k) ==
  LET at == Route(fs, from, path, k - 1, TRUE)[k - 1]
  IN  IF at \in Errors THEN at ELSE IF IsDir(fs, at) THEN at ELSE NotDir

\* open: the file system after it and the inode, or the error.
Open(fs, from, path, creat, excl) ==
  IF LastWord(path) = {} THEN [fs |-> fs, ret |-> from]
  ELSE LET k == CHOOSE k \in LastWord(path) : TRUE
           dir == Base(fs, from, path, k)
           found == Step(fs, dir, path[k], TRUE)
       IN  IF dir \in Errors THEN [fs |-> fs, ret |-> dir]
           ELSE IF path[k] \in {".", ".."} THEN [fs |-> fs, ret |-> found]
           ELSE IF found # NoEnt THEN [fs |-> fs, ret |-> IF excl THEN Exist ELSE found]
           ELSE IF creat THEN [fs |-> AddEntry(fs, dir, path[k], File(<<>>)), ret |-> fs.size]
           ELSE [fs |-> fs, ret |-> NoEnt]

\* create_dir.
CreateDir(fs, from, path) ==
  IF LastWord(path) = {} THEN [fs |-> fs, ret |-> Exist]
  ELSE LET k == CHOOSE k \in LastWord(path) : TRUE
           dir == Base(fs, from, path, k)
       IN  IF dir \in Errors THEN [fs |-> fs, ret |-> dir]
           ELSE IF path[k] \in {".", ".."} \cup DOMAIN Kids(fs, dir)
           THEN [fs |-> fs, ret |-> Exist]
           ELSE [fs |-> AddEntry(fs, dir, path[k], Dir([n \in {} |-> 0])), ret |-> fs.size]

\* Faulty variant: the last entry of the vector is freed with its name.
UnlinkFrees(fs, i) ==
  LET dir == fs.parent[i]
      kept == {n \in DOMAIN Kids(fs, dir) : Kids(fs, dir)[n] # i}
      rest == [fs EXCEPT !.entry[dir] = Dir([n \in kept |-> Kids(fs, dir)[n]])]
  IN  IF i # fs.size - 1 THEN rest
      ELSE [size |-> i, entry |-> [j \in 0..(i - 1) |-> rest.entry[j]],
            parent |-> [j \in 0..(i - 1) |-> rest.parent[j]]]

\* The retain of path_unlink_file: whatever name the parent of i has for i goes.
Unlink(fs, i) ==
  LET dir == fs.parent[i]
      kept == {n \in DOMAIN Kids(fs, dir) : Kids(fs, dir)[n] # i}
  IN  [size |-> fs.size,
       entry |-> [fs.entry EXCEPT ![dir] = Dir([n \in kept |-> Kids(fs, dir)[n]])],
       parent |-> fs.parent]

----------------------------------------------------------------------------
\* Every ancestor of i lists the next one: get_name finds a name at each level.
Attached(fs, i) ==
  LET ok[j \in Inode(fs)] == j = 0 \/ (Lists(fs, fs.parent[j], j) /\ ok[fs.parent[j]])
  IN  ok[i]

\* get_name of an attached inode, as components; the root's "/" is <<>>.
GetName(fs, i) ==
  LET name[j \in {k \in Inode(fs) : Attached(fs, k)}] ==
        IF j = 0 THEN <<>>
        ELSE LET kids == Kids(fs, fs.parent[j])
             IN  Append(name[fs.parent[j]], CHOOSE n \in DOMAIN kids : kids[n] = j)
  IN  name[i]
============================================================================
