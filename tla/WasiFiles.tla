----------------------------- MODULE WasiFiles -----------------------------
(***************************************************************************)
(* The file system calls of a program: the descriptor table and the file   *)
(* half of worker/src/os/syscall.rs over fs.rs.                            *)
(*                                                                         *)
(* The program makes any calls in any order.  A handler runs to its end    *)
(* within one event of the coordinator, so a call is one action; the one   *)
(* that waits, fd_read on a pipe, is in Process and Pipe.  A panic leaves  *)
(* the process borrowed: no later call of it is answered.                  *)
(***************************************************************************)
EXTENDS Fs

CONSTANTS
  Path,      \* the paths the program uses
  Image,     \* the file systems a program may start with
  Given,     \* the standard streams a program may be given
  MaxFd,     \* bound on the descriptor table
  MaxOpen,   \* bound on the files and directories open at once
  MaxInodes, \* bound on the entries of the file system
  MaxData,   \* bound on offsets and file lengths
  Chunk,     \* what the program writes at a time
  Zero,      \* the byte a hole is filled with
  None

ASSUME WasiFilesAssumption ==
  /\ Path \subseteq Seq(Component) \ {<<>>}
  /\ \A fs \in Image : IsFs(fs) /\ IsTree(fs)
  /\ Given \subseteq SUBSET (0..2) /\ Zero \in Byte
  /\ MaxFd \in Nat /\ MaxFd > 3 /\ MaxOpen \in Nat /\ MaxInodes \in Nat /\ MaxData \in Nat
  /\ Chunk \subseteq Seq(Byte)

VARIABLES
  fs,     \* ProcessInner.fs
  fds,    \* ProcessInner.fds; None where the slot is free or past the end
  ret,    \* of the last call: "error" if it returned before taking effect, "fault" if
          \* it took effect and its result could not be written
  panic   \* where the handler panicked, "no" if none did

vars == <<fs, fds, ret, panic>>

Fd == 0..(MaxFd - 1)
DirFd(i) == [type |-> "dir", inode |-> i]
FileFd(i, offset, append) ==
  [type |-> "file", inode |-> i, offset |-> offset, append |-> append]
StreamFd == [type |-> "stream"]

FdEntry(n) ==
  [type : {"dir"}, inode : 0..(n - 1)]
    \cup [type : {"file"}, inode : 0..(n - 1), offset : Nat, append : BOOLEAN]
    \cup {StreamFd}

\* Types: descriptors hold inodes the file system has.
TypeOK ==
  /\ IsFs(fs)
  /\ fds \in [Fd -> FdEntry(fs.size) \cup {None}]
  /\ ret \in {"success", "error", "fault"}
  /\ panic \in {"no", "slice", "get_name", "unwrap"}

\* spawn_with_module without preopens: the standard streams that were given, and
\* the root as descriptor 3.
Init ==
  /\ fs \in Image
  /\ \E given \in Given :
       fds = [fd \in Fd |-> IF fd \in given THEN StreamFd
                            ELSE IF fd = 3 THEN DirFd(0) ELSE None]
  /\ ret = "success"
  /\ panic = "no"

----------------------------------------------------------------------------
Is(fd, type) == fds[fd] # None /\ fds[fd].type = type

\* The result is written last: Errno::Fault for a bad output pointer does not undo
\* what the call did.
Answer == panic' = "no" /\ ret' \in {"success", "fault"}
Fail == panic' = "no" /\ ret' = "error" /\ UNCHANGED <<fs, fds>>
Panic(site) == panic' = site /\ UNCHANGED <<fs, fds, ret>>

\* as_file().unwrap() and as_dir().unwrap(), or an index past the entries.
Unbacked(fd) ==
  \/ fds[fd].inode \notin Inode(fs)
  \/ fs.entry[fds[fd].inode].type # fds[fd].type

FreeFd == {fd \in Fd : fds[fd] = None}
Room == FreeFd # {} /\ Cardinality({fd \in Fd : Is(fd, "file") \/ Is(fd, "dir")}) < MaxOpen

\* add_fd takes the lowest free slot.
AddFd(entry) ==
  LET fd == CHOOSE fd \in FreeFd : \A other \in FreeFd : fd <= other
  IN  fds' = [fds EXCEPT ![fd] = entry]

\* Badf, a path or a buffer that is not in memory (Fault before any effect), and the
\* calls that always refuse (Perm) or change nothing.
Refused == Fail

\* fd_close.
FdClose(fd) ==
  /\ fds[fd] # None
  /\ fds' = [fds EXCEPT ![fd] = None]
  /\ panic' = "no" /\ ret' = "success" /\ UNCHANGED fs

\* Faulty variant: O_TRUNC is applied before O_DIRECTORY is checked.
PathOpenTruncatesFirst(fd, path, creat, excl, trunc, directory, append) ==
  LET r == Open(fs, fds[fd].inode, path, creat, excl) IN
  /\ Is(fd, "dir")
  /\ Room /\ r.fs.size <= MaxInodes
  /\ IF r.ret \in Errors THEN Fail
     ELSE /\ fs' = IF trunc /\ IsFile(r.fs, r.ret) THEN SetData(r.fs, r.ret, <<>>) ELSE r.fs
          /\ panic' = "no"
          /\ IF directory /\ ~IsDir(r.fs, r.ret) THEN ret' = "error" /\ UNCHANGED fds
             ELSE /\ ret' = "success"
                  /\ AddFd(IF IsDir(r.fs, r.ret) THEN DirFd(r.ret)
                           ELSE IF IsFile(r.fs, r.ret) THEN FileFd(r.ret, 0, append)
                           ELSE StreamFd)

\* path_open.  O_CREAT has made the file when O_DIRECTORY refuses it; a
\* descriptor stays taken when its number cannot be written.
PathOpen(fd, path, creat, excl, trunc, directory, append) ==
  LET r == Open(fs, fds[fd].inode, path, creat, excl) IN
  /\ Is(fd, "dir")
  /\ Room /\ r.fs.size <= MaxInodes
  /\ IF r.ret \in Errors THEN Fail
     ELSE IF directory /\ ~IsDir(r.fs, r.ret)
     THEN fs' = r.fs /\ ret' = "error" /\ panic' = "no" /\ UNCHANGED fds
     ELSE /\ IF IsDir(r.fs, r.ret) THEN fs' = r.fs /\ AddFd(DirFd(r.ret))
             ELSE IF IsFile(r.fs, r.ret)
             THEN /\ fs' = IF trunc THEN SetData(r.fs, r.ret, <<>>) ELSE r.fs
                  /\ AddFd(FileFd(r.ret, 0, append))
             ELSE fs' = r.fs /\ AddFd(StreamFd)
          /\ Answer

\* path_create_directory.
PathCreateDirectory(fd, path) ==
  LET r == CreateDir(fs, fds[fd].inode, path) IN
  /\ Is(fd, "dir")
  /\ r.fs.size <= MaxInodes
  /\ IF r.ret \in Errors THEN Fail
     ELSE fs' = r.fs /\ ret' = "success" /\ panic' = "no" /\ UNCHANGED fds

\* path_unlink_file: of anything but the root, directories with their contents
\* too; whatever the path said, it is the inode that loses its name.
PathUnlinkFile(fd, path) ==
  LET i == Get(fs, fds[fd].inode, path) IN
  /\ Is(fd, "dir")
  /\ IF i \in Errors \/ i = 0 THEN Fail
     ELSE IF ~IsDir(fs, fs.parent[i]) THEN Panic("unwrap")
     ELSE fs' = Unlink(fs, i) /\ ret' = "success" /\ panic' = "no" /\ UNCHANGED fds

\* fd_prestat_get and fd_prestat_dir_name, which take any directory for a preopen.
FdPrestat(fd) ==
  /\ Is(fd, "dir")
  /\ IF Attached(fs, fds[fd].inode) THEN Answer /\ UNCHANGED <<fs, fds>>
     ELSE Panic("get_name")

\* fd_filestat_get of a file and fd_readdir of a directory.
FdQuery(fd) ==
  /\ Is(fd, "file") \/ Is(fd, "dir")
  /\ IF Unbacked(fd) THEN Panic("unwrap") ELSE Answer /\ UNCHANGED <<fs, fds>>

\* fd_seek and fd_tell; the sum saturates at 0.  Any offset is accepted.
FdSeek(fd) ==
  /\ Is(fd, "file")
  /\ IF Unbacked(fd) THEN Panic("unwrap")
     ELSE /\ \E base \in {0, fds[fd].offset, Len(fs.entry[fds[fd].inode].data)},
               delta \in 0..MaxData, back \in BOOLEAN :
               LET to == IF ~back THEN base + delta ELSE IF base > delta THEN base - delta ELSE 0
               IN  to <= MaxData /\ fds' = [fds EXCEPT ![fd].offset = to]
          /\ Answer /\ UNCHANGED fs

\* fd_read of a file, into len bytes: the slice from an offset past the end panics.
FdRead(fd, len) ==
  /\ Is(fd, "file")
  /\ IF Unbacked(fd) THEN Panic("unwrap")
     ELSE LET left == Len(fs.entry[fds[fd].inode].data) - fds[fd].offset IN
          IF fds[fd].offset > Len(fs.entry[fds[fd].inode].data) THEN Panic("slice")
          ELSE /\ fds' = [fds EXCEPT ![fd].offset = @ + IF len < left THEN len ELSE left]
               /\ Answer /\ UNCHANGED fs

\* fd_pread.
FdPread(fd, offset) ==
  /\ Is(fd, "file")
  /\ IF Unbacked(fd) THEN Panic("unwrap")
     ELSE IF offset > Len(fs.entry[fds[fd].inode].data) THEN Panic("slice")
     ELSE Answer /\ UNCHANGED <<fs, fds>>

\* data with bytes put at offset, resized with zeros before.
Put(data, offset, bytes) ==
  LET end == offset + Len(bytes)
  IN  [j \in 1..(IF end > Len(data) THEN end ELSE Len(data)) |->
        IF offset < j /\ j <= end THEN bytes[j - offset]
        ELSE IF j <= Len(data) THEN data[j] ELSE Zero]

\* fd_write of a file: at the end in append mode.
FdWrite(fd, bytes) ==
  /\ Is(fd, "file")
  /\ IF Unbacked(fd) THEN Panic("unwrap")
     ELSE LET f == fds[fd]
              data == fs.entry[f.inode].data
              offset == IF f.append THEN Len(data) ELSE f.offset
          IN  /\ offset + Len(bytes) <= MaxData
              /\ fs' = SetData(fs, f.inode, Put(data, offset, bytes))
              /\ fds' = [fds EXCEPT ![fd].offset = offset + Len(bytes)]
              /\ Answer

\* fd_pwrite: at the given offset, in append mode too.
FdPwrite(fd, bytes, offset) ==
  /\ Is(fd, "file")
  /\ IF Unbacked(fd) THEN Panic("unwrap")
     ELSE /\ offset + Len(bytes) <= MaxData
          /\ fs' = SetData(fs, fds[fd].inode, Put(fs.entry[fds[fd].inode].data, offset, bytes))
          /\ Answer /\ UNCHANGED fds

OnPath(fd, path) ==
  \/ \E creat, excl, trunc, directory, append \in BOOLEAN :
       PathOpen(fd, path, creat, excl, trunc, directory, append)
  \/ PathCreateDirectory(fd, path)
  \/ PathUnlinkFile(fd, path)

OnFd(fd) ==
  \/ FdClose(fd) \/ FdPrestat(fd) \/ FdQuery(fd) \/ FdSeek(fd)
  \/ \E n \in 0..MaxData : FdRead(fd, n) \/ FdPread(fd, n)
  \/ \E bytes \in Chunk :
       FdWrite(fd, bytes) \/ \E offset \in 0..MaxData : FdPwrite(fd, bytes, offset)

Next ==
  /\ panic = "no"
  /\ Refused \/ \E fd \in Fd : OnFd(fd) \/ \E path \in Path : OnPath(fd, path)

Spec == Init /\ [][Next]_vars

----------------------------------------------------------------------------
(* Properties.                                                             *)

\* Whatever is created, removed and reopened, the entries stay a tree that
\* parent pointers climb: what get, open and get_name rely on for "..".
Tree == IsTree(fs)

\* No descriptor outlives what it stands for: as_file, as_dir and the index of
\* an entry never fail, unlinked or not.
NoBadUnwrap == panic # "unwrap"

Slashes(path) == Len(path) > 1 /\ path[Len(path)] = "" /\ path[Len(path) - 1] = ""

\* path_filestat_get and path_unlink_file, which use get, find what path_open opens,
\* from every directory and for every path, but for a path with two slashes or more
\* behind what is not a directory: open skips them, get calls it NotDir.  And get_name
\* has a name for exactly what paths from the root reach: the name leads back, and
\* what an unlink cut off (where get_name panics) is out of reach.
LookupsAgree ==
  /\ \A d \in Inode(fs), path \in Path : IsDir(fs, d) =>
       LET found == Open(fs, d, path, FALSE, FALSE).ret
       IN  Get(fs, d, path) =
             IF Slashes(path) /\ found \in Inode(fs) /\ ~IsDir(fs, found) THEN NotDir ELSE found
  /\ \A i \in Inode(fs) : Attached(fs, i) => Get(fs, 0, GetName(fs, i)) = i
  /\ \A path \in Path : Get(fs, 0, path) \in Inode(fs) => Attached(fs, Get(fs, 0, path))

\* An unlinked entry never comes back under a name, though its inode lives on in
\* open descriptors and its number stays taken.
UnlinkedForGood ==
  [][\A i \in Inode(fs) \ {0} : ~Listed(fs, i) => i \in Inode(fs') /\ ~Listed(fs', i)]_vars

\* A call that fails takes no name away and changes the kind of no entry.  One that
\* fails before its result is written touches no descriptor and no file either: at
\* most it leaves a new empty file (O_CREAT with O_DIRECTORY).  One that ends with
\* "fault" has truncated, written, moved or opened what it was asked to.
FailureIsAdditive ==
  [][/\ ret' # "success" =>
          \A i \in Inode(fs) :
            /\ fs'.entry[i].type = fs.entry[i].type
            /\ IsDir(fs, i) => \A n \in DOMAIN Kids(fs, i) :
                 n \in DOMAIN Kids(fs', i) /\ Kids(fs', i)[n] = Kids(fs, i)[n]
     /\ ret' = "error" =>
          /\ fds' = fds
          /\ \A i \in Inode(fs) : IsFile(fs, i) => fs'.entry[i] = fs.entry[i]]_vars
============================================================================
