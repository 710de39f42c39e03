---------------------------- MODULE EditorFiles ----------------------------
(***************************************************************************)
(* The files of the code editor: frontend/src/editor_dir.rs (tabs, rename, *)
(* remove, add, import), editor.rs (autosave, wait_sync, opening, upload), *)
(* the states that CM6Editor in codemirror_interface.ts keeps per file,    *)
(* and do_run of main.rs as the reader of the directory.  They meet on     *)
(* OPFS, common/src/opfs.rs, where every operation is awaited: the user    *)
(* goes on while tasks that were spawned before are still under way.       *)
(*                                                                         *)
(* One directory.  A file is its name, a text is a value; the awaits inside *)
(* one OPFS operation (open and read, open and write) are one.             *)
(***************************************************************************)
EXTENDS Integers, FiniteSets, Bags, Functions

CONSTANTS
  Name,       \* file names
  Disk0,      \* what the directory holds at first: a function from names to texts
  Imports,    \* what the user may drop on the tabs: functions from names to texts
  Binary,     \* contents that are not UTF-8
  None,       \* no file
  MaxEdits,   \* bound: texts typed, uploaded, or changed by the language server
  MaxOps      \* bound: clicks

ASSUME NamesAssumption == IsFiniteSet(Name) /\ None \notin Name
ASSUME BoundsAssumption == MaxEdits \in Nat /\ MaxOps \in Nat

Empty == 0
Text == {Empty, Binary} \union 1..MaxEdits \union UNION {Range(f) : f \in Imports \union {Disk0}}
File == Name \union {None}
Files == UNION {[S -> Text] : S \in SUBSET Name}

ASSUME ContentsAssumption == Binary \notin Nat /\ Imports \union {Disk0} \subseteq Files

VARIABLES
  disk,       \* OPFS: the files of the directory
  tabs,       \* tabs of EditorDir
  revision,   \* files_revision
  filename,   \* EditorController::filename, the active tab
  open,       \* open_filename, the file whose contents were loaded last
  shown,      \* CM6Editor::filename
  view,       \* the text of CM6Editor::view
  states,     \* CM6Editor::states
  dirty,      \* pending_changes
  writes,     \* pending_writes
  writer,     \* the autosave task
  tasks,      \* the other spawned futures
  running,    \* StateExec as far as the editor sees it: "no", "asked" by do_run, "sent"
  want,       \* ghost: what the user would find in the directory
  kept,       \* ghost: while a run is asked, the files that did not change since the click
  past,       \* ghost: the texts that a file had since an opening of it began to read
  raced,      \* ghost: a file was acted on while a task was to change it, or page and
              \* directory went apart: see the properties
  edits, ops  \* bounds

page == <<tabs, revision, filename>>
cm == <<shown, view, states>>
saving == <<dirty, writes, writer>>
vars == <<disk, page, open, cm, saving, tasks, running, want, kept, past, raced, edits, ops>>

\* A spawned future: where it awaits and what its locals hold.
Task(kind, pc, path, to, data) ==
  [kind |-> kind, pc |-> pc, path |-> path, to |-> to, data |-> data]

\* The same future at its next await.
Then(t, pc, data) == Task(t.kind, pc, t.path, t.to, data)

OpenTask(f) == Task("open", "wait", f, None, Empty)
ListTask(r) == Task("list", "wait", None, None, [revision |-> r, names |-> {}, files |-> <<>>])

Active == BagToSet(tasks)
Spawn(S) == tasks' = tasks (+) SetToBag(S)
Goes(t, S) == tasks' = (tasks (-) SetToBag({t})) (+) SetToBag(S)

With(f, n, text) == [m \in DOMAIN f \union {n} |-> IF m = n THEN text ELSE f[m]]
Without(f, n) == Restrict(f, DOMAIN f \ {n})

----------------------------------------------------------------------------
(* CM6Editor.                                                              *)

\* stateFor and getFileText: a file without a state reads as empty.
TextOf(n) ==
  CASE n = shown -> view [] n # shown /\ n \in DOMAIN states -> states[n] [] OTHER -> Empty

\* onchange: the file is to be written, by the task that runs or by a new one.
Onchange(n) ==
  IF n = None THEN UNCHANGED saving
  ELSE /\ writes' = writes \union {n} /\ dirty' = TRUE
       /\ writer' = IF writer.pc = "off" THEN [writer EXCEPT !.pc = "sleep"] ELSE writer

\* setFile: the state of the file that was shown is kept.
SetFile(f) ==
  /\ shown' = f
  /\ IF f = shown THEN UNCHANGED <<view, states>>
     ELSE /\ view' = IF f \in DOMAIN states THEN states[f] ELSE Empty
          /\ states' = IF shown = None THEN states ELSE With(states, shown, view)

\* Faulty variant: the editor keeps a state for "no file".
ShowKeepingNone(f, text) ==
  /\ shown' = f /\ view' = text
  /\ states' = IF f = shown THEN states ELSE With(states, shown, view)
  /\ IF text = TextOf(f) THEN UNCHANGED saving ELSE Onchange(f)

\* setFile, then setText, which changes nothing when the text is the same.
Show(f, text) ==
  /\ shown' = f /\ view' = text
  /\ states' = IF f = shown \/ shown = None THEN states ELSE With(states, shown, view)
  /\ IF text = TextOf(f) THEN UNCHANGED saving ELSE Onchange(f)

\* setFiles: states that exist are kept, others created, those of other files dropped.
SetFiles(files) ==
  /\ states' = [n \in DOMAIN files \ ({shown} \ DOMAIN states) |->
                  IF n \in DOMAIN states THEN states[n] ELSE files[n]]
  /\ UNCHANGED <<shown, view>>

----------------------------------------------------------------------------
(* The ghosts.                                                             *)

\* The files that a task other than an opening will create, replace or remove.
Changes(t) ==
  CASE t.kind \in {"open", "list", "run", "upload"} -> {}
    [] t.kind = "import" -> {t.path, t.to} \union DOMAIN t.data
    [] OTHER -> {t.path, t.to}

Changing(n) == n # None /\ \E t \in Active : n \in Changes(t)

\* A rename touches the filename as it ends, so the active file is opened again.
Opening(n) ==
  \E t \in Active : (t.kind = "open" /\ t.path = n) \/ (t.kind = "rename" /\ n = filename)

\* A task that replaces or removes n no longer waits for what is typed into it.
Overtaken(n) == \E t \in Active : t.pc # "wait" /\ n \in Changes(t)

\* An opening of n no longer waits: what is typed now, it may replace by an older text.
Reopening(n) == \E t \in Active : t.kind = "open" /\ t.pc # "wait" /\ t.path = n

\* The text that n has.
Had(n) == {<<m, want[m]>> : m \in {n} \intersect DOMAIN want}

\* The text of n is replaced.
Rewrite(n, text) ==
  /\ want' = With(want, n, text) /\ kept' = kept \ {n}
  /\ past' = IF Reopening(n) THEN past \union Had(n) ELSE past

\* The user changes it.
Edit(n) == edits < MaxEdits /\ edits' = edits + 1 /\ Rewrite(n, edits')

\* An opening of n that shows another text puts it back, if it is one that n had.
PutBack(n, text) ==
  IF text # TextOf(n) /\ <<n, text>> \in past THEN want' = With(want, n, text) /\ kept' = kept \ {n}
  ELSE UNCHANGED <<want, kept>>

\* A click that is too early for one of the files S.
Click(early) == ops < MaxOps /\ ops' = ops + 1 /\ raced' = (raced \/ early)

Free(n) == ~Changing(n) /\ ~Opening(n)
Fresh(n) == Free(n) /\ n \notin DOMAIN disk \union DOMAIN states \union {shown}

----------------------------------------------------------------------------
(* The user.                                                               *)

\* The page as it is loaded: both effects have run for the first time.
Init ==
  /\ disk = Disk0 /\ want = Disk0
  /\ tabs = {} /\ revision = 0 /\ filename = None /\ open = None
  /\ shown = None /\ view = Empty /\ states = <<>>
  /\ dirty = FALSE /\ writes = {}
  /\ writer = [pc |-> "off", todo |-> {}, path |-> None, text |-> Empty]
  /\ tasks = SetToBag({OpenTask(None), ListTask(0)})
  /\ running = "no" /\ kept = {} /\ past = {} /\ raced = FALSE /\ edits = 0 /\ ops = 0

Editable == running = "no" /\ open = filename /\ filename # None

\* A key: the updateListener reports the file that is shown.
Type ==
  /\ Editable /\ Edit(filename)
  /\ view' = edits' /\ Onchange(shown)
  /\ raced' = (raced \/ shown # filename \/ Overtaken(filename)
                    \/ filename \notin DOMAIN want \/ want[filename] = Binary)
  /\ UNCHANGED <<disk, page, open, shown, states, tasks, running, ops>>

\* updateFile: the language server changes a file, shown or not (rename a symbol).
ServerEdits(n) ==
  /\ n \in DOMAIN states \union ({shown} \ {None})
  /\ Edit(n)
  /\ IF n = shown THEN view' = edits' /\ UNCHANGED states
     ELSE states' = [states EXCEPT ![n] = edits'] /\ UNCHANGED view
  /\ Onchange(n)
  /\ raced' = (raced \/ Overtaken(n) \/ n \notin DOMAIN want \/ want[n] = Binary)
  /\ UNCHANGED <<disk, page, open, shown, tasks, running, ops>>

\* A click on a tab, also on the one that is active.
ClickTab(n) ==
  /\ n \in tabs /\ Click(Changing(n) \/ n \notin DOMAIN want)
  /\ filename' = n /\ Spawn({OpenTask(n)})
  /\ UNCHANGED <<disk, tabs, revision, open, cm, saving, running, want, kept, past, edits>>

\* displayFile: jump to a definition, shown at once and opened afterwards.
Jump(n) ==
  /\ n \in DOMAIN states \union ({shown} \ {None}) /\ Click(Changing(n) \/ n \notin DOMAIN want)
  /\ SetFile(n) /\ filename' = n /\ Spawn({OpenTask(n)})
  /\ UNCHANGED <<disk, tabs, revision, open, saving, running, want, kept, past, edits>>

\* remove_file: not the last tab.  The filename is touched, so it is opened again.
ClickRemove(n) ==
  /\ n \in tabs /\ Cardinality(tabs) # 1 /\ Click(~Free(n) \/ Changing(filename) \/ n \notin DOMAIN want)
  /\ tabs' = tabs \ {n}
  /\ filename' = IF filename = n THEN None ELSE filename
  /\ Spawn({OpenTask(filename'), Task("remove", "wait", n, None, Empty)})
  /\ UNCHANGED <<disk, revision, open, cm, saving, running, want, kept, past, edits>>

\* commit_rename, for a name no other tab has.
CommitRename(n, m) ==
  /\ n \in tabs /\ m \notin tabs
  /\ Click(~Free(n) \/ ~Fresh(m) \/ Changing(filename))
  /\ Spawn({Task("rename", "wait", n, m, Empty)})
  /\ UNCHANGED <<disk, page, open, cm, saving, running, want, kept, past, edits>>

\* add_file, for a name no tab has.
ClickAdd(n) ==
  /\ n \notin tabs
  /\ Click(~Fresh(n))
  /\ Spawn({Task("add", "write", n, None, Empty)})
  /\ UNCHANGED <<disk, page, open, cm, saving, running, want, kept, past, edits>>

\* A drop on the tabs.
Drop(files) ==
  /\ Click(\E n \in DOMAIN files : Changing(n) \/ (n \notin tabs \intersect DOMAIN want /\ ~Fresh(n)))
  /\ Spawn({Task("import", "next", None, None, files)})
  /\ UNCHANGED <<disk, page, open, cm, saving, running, want, kept, past, edits>>

\* do_upload, for the editor as it is when the file was chosen.
ClickUpload ==
  /\ Editable
  /\ Click(FALSE) /\ edits < MaxEdits /\ edits' = edits + 1
  /\ Spawn({Task("upload", "read", filename, None, edits')})
  /\ UNCHANGED <<disk, page, open, cm, saving, running, want, kept, past>>

\* do_run, with a file open.
ClickRun ==
  /\ running = "no" /\ filename # None
  /\ Click(FALSE)
  /\ running' = "asked" /\ kept' = DOMAIN want
  /\ Spawn({Task("run", "wait", None, None, [names |-> {}, files |-> <<>>])})
  /\ UNCHANGED <<disk, page, open, cm, saving, want, past, edits>>

----------------------------------------------------------------------------
(* The autosave task: it takes all pending writes and writes them in turn. *)

\* Faulty variant: the writer ends without looking at what was typed meanwhile.
WriterEndsEarly(todo, pending) ==
  \/ \E n \in todo :
       /\ writer' = [pc |-> "write", todo |-> todo \ {n}, path |-> n, text |-> TextOf(n)]
       /\ UNCHANGED dirty
  \/ /\ todo = {}
     /\ writer' = [pc |-> "off", todo |-> {}, path |-> None, text |-> Empty]
     /\ dirty' = (pending # {})

\* What follows a write without an await: the next file's text is taken, or the
\* loop begins again, or nothing is pending and it ends.
WriterGoesOn(todo, pending) ==
  \/ \E n \in todo :
       /\ writer' = [pc |-> "write", todo |-> todo \ {n}, path |-> n, text |-> TextOf(n)]
       /\ UNCHANGED dirty
  \/ /\ todo = {}
     /\ writer' = [pc |-> IF pending = {} THEN "off" ELSE "sleep",
                   todo |-> {}, path |-> None, text |-> Empty]
     /\ dirty' = (pending # {})

WriterWakes ==
  /\ writer.pc = "sleep" /\ writes' = {}
  /\ WriterGoesOn(writes, {})
  /\ UNCHANGED <<disk, page, open, cm, tasks, running, want, kept, past, raced, edits, ops>>

WriterWrites ==
  /\ writer.pc = "write"
  /\ disk' = With(disk, writer.path, writer.text)
  /\ WriterGoesOn(writer.todo, writes)
  /\ UNCHANGED <<page, open, cm, writes, tasks, running, want, kept, past, raced, edits, ops>>

----------------------------------------------------------------------------
(* The other tasks.                                                        *)

rest == <<past, raced, edits, ops>>

\* Where a task goes once nothing is pending: what wait_sync waits for.
AfterWait(kind) == IF kind \in {"list", "run"} THEN "list" ELSE IF kind = "remove" THEN "remove" ELSE "read"

\* Faulty variant: nobody waits.
NeverWaits(t) == TRUE

\* Faulty variant: do_run does not wait.
RunDoesNotWait(t) == ~dirty \/ t.kind = "run"

\* wait_sync of EditorController.
Synced(t) == ~dirty

\* Faulty variant: what was read is shown whatever tab is active.
AlwaysActive(t) == TRUE

\* The tab may have changed while the file was read.
StillActive(t) == filename = t.path

\* Opening no file needs nothing from OPFS.
WaitSync(t) ==
  /\ t.pc = "wait" /\ Synced(t)
  /\ IF t.kind = "open" /\ t.path = None
     THEN /\ Goes(t, {})
          /\ IF StillActive(t) THEN Show(None, Empty) /\ open' = None ELSE UNCHANGED <<cm, saving, open>>
     ELSE /\ Goes(t, {Then(t, AfterWait(t.kind), t.data)})
          /\ UNCHANGED <<cm, saving, open>>
  /\ UNCHANGED <<disk, page, running, want, kept, rest>>

\* open_file creates the file if it is not there.
OpenRead(t) ==
  /\ t.kind = "open" /\ t.pc = "read"
  /\ disk' = IF t.path \in DOMAIN disk THEN disk ELSE With(disk, t.path, Empty)
  /\ Goes(t, {Then(t, "apply", disk'[t.path])})
  /\ UNCHANGED <<page, open, cm, saving, running, want, kept, rest>>

\* from_utf8 panics after set_file.
OpenApply(t) ==
  /\ t.kind = "open" /\ t.pc = "apply" /\ Goes(t, {})
  /\ CASE ~StillActive(t) -> UNCHANGED <<cm, saving, open, want, kept>>
       [] StillActive(t) /\ t.data = Binary -> SetFile(t.path) /\ UNCHANGED <<saving, open, want, kept>>
       [] OTHER -> Show(t.path, t.data) /\ open' = t.path /\ PutBack(t.path, t.data)
  /\ past' = {x \in past \union Had(t.path) : Reopening(x[1])'}
  /\ UNCHANGED <<disk, page, running, raced, edits, ops>>

\* A listing is given up if it is out of date; do_run never is.
ListEntries(t) ==
  /\ t.kind \in {"list", "run"} /\ t.pc = "list"
  /\ Goes(t, IF t.kind = "list" /\ t.data.revision # revision THEN {}
              ELSE {Then(t, "read", [t.data EXCEPT !.names = DOMAIN disk])})
  /\ UNCHANGED <<disk, page, open, cm, saving, running, want, kept, rest>>

\* The files of a directory are read one await each: what a task has when the next
\* one comes.
Left(t) == t.data.names \ DOMAIN t.data.files
Reads(t) ==
  IF Left(t) = {} THEN {t.data.files}
  ELSE {With(t.data.files, n, disk[n]) : n \in Left(t) \intersect DOMAIN disk}
All(t, files) == DOMAIN files = t.data.names

ReadNext(t) ==
  /\ t.kind \in {"list", "run"} /\ t.pc = "read"
  /\ \E files \in Reads(t) : ~All(t, files) /\ Goes(t, {Then(t, "read", [t.data EXCEPT !.files = files])})
  /\ UNCHANGED <<disk, page, open, cm, saving, running, want, kept, rest>>

\* A file that has gone since it was listed makes the task panic.
ReadFails(t) ==
  /\ t.kind \in {"list", "run"} /\ t.pc = "read" /\ ~(Left(t) \subseteq DOMAIN disk)
  /\ Goes(t, {})
  /\ UNCHANGED <<disk, page, open, cm, saving, running, want, kept, rest>>

\* The listing is older than the last change it should show, or it lacks a file, or a
\* text, that the user has by now: the revision is not compared again after the first
\* await, and an import raises it only when its last file is written.
Outdated(t, files) ==
  \/ t.data.revision # revision
  \/ \E n \in DOMAIN want : n \notin t.data.names \/ (n \notin DOMAIN files /\ want[n] # Binary)

\* The editor gets the text files; if the active one is not among them, one of them
\* becomes active.
ListApply(t) ==
  /\ t.kind = "list" /\ t.pc = "read"
  /\ \E read \in Reads(t) :
     LET files == Restrict(read, {n \in t.data.names : read[n] # Binary}) IN
       /\ All(t, read)
       /\ tabs' = t.data.names /\ SetFiles(files)
       /\ IF filename \in DOMAIN files THEN UNCHANGED filename /\ Goes(t, {})
          ELSE /\ filename' \in (IF files = <<>> THEN {None} ELSE DOMAIN files)
               /\ Goes(t, {OpenTask(filename')})
       /\ raced' = (raced \/ Outdated(t, files) \/ (filename' # filename /\ Changing(filename')))
  /\ UNCHANGED <<disk, revision, open, saving, running, want, kept, past, edits, ops>>

\* remove_entry panics when there is no such file.
RemoveEntry(t) ==
  /\ t.kind = "remove" /\ t.pc = "remove"
  /\ IF t.path \in DOMAIN disk
     THEN /\ disk' = Without(disk, t.path) /\ want' = Without(want, t.path)
          /\ kept' = kept \ {t.path}
          /\ revision' = revision + 1 /\ Goes(t, {ListTask(revision')})
     ELSE UNCHANGED <<disk, want, kept, revision>> /\ Goes(t, {})
  /\ UNCHANGED <<tabs, filename, open, cm, saving, running, rest>>

\* A rename reads the old file, writes the new one and removes the old one.
RenameRead(t) ==
  /\ t.kind = "rename" /\ t.pc = "read"
  /\ IF t.path \in DOMAIN disk THEN Goes(t, {Then(t, "write", disk[t.path])})
     ELSE Goes(t, {})
  /\ UNCHANGED <<disk, page, open, cm, saving, running, want, kept, rest>>

RenameWrite(t) ==
  /\ t.kind = "rename" /\ t.pc = "write"
  /\ disk' = With(disk, t.to, t.data)
  /\ Goes(t, {Then(t, "remove", t.data)})
  /\ UNCHANGED <<page, open, cm, saving, running, want, kept, rest>>

RenameRemove(t) ==
  /\ t.kind = "rename" /\ t.pc = "remove"
  /\ IF t.path \in DOMAIN disk
     THEN /\ disk' = Without(disk, t.path)
          /\ want' = IF t.path \in DOMAIN want THEN With(Without(want, t.path), t.to, want[t.path]) ELSE want
          /\ kept' = kept \ {t.path, t.to}
          /\ tabs' = IF t.path \in tabs THEN (tabs \ {t.path}) \union {t.to} ELSE tabs
          /\ filename' = IF filename = t.path THEN t.to ELSE filename
          /\ revision' = revision + 1
          /\ Goes(t, {OpenTask(filename'), ListTask(revision')})
     ELSE UNCHANGED <<disk, want, kept, page>> /\ Goes(t, {})
  /\ UNCHANGED <<open, cm, saving, running, rest>>

AddWrite(t) ==
  /\ t.kind = "add"
  /\ disk' = With(disk, t.path, Empty) /\ want' = With(want, t.path, Empty)
  /\ kept' = kept \ {t.path}
  /\ filename' = t.path /\ tabs' = tabs \union {t.path} /\ revision' = revision + 1
  /\ Goes(t, {OpenTask(t.path), ListTask(revision')})
  /\ UNCHANGED <<open, cm, saving, running, rest>>

\* The loop over dropped files: those with a tab are skipped; path is the one
\* whose bytes are awaited, to the first that can be opened.
ImportNext(t) ==
  /\ t.kind = "import" /\ t.pc = "next"
  /\ LET left == DOMAIN t.data \ tabs IN
       IF left # {}
       THEN /\ \E n \in left : Goes(t, {Task("import", "write", n, t.to, t.data)})
            /\ UNCHANGED page
       ELSE /\ filename' = IF t.to = None THEN filename ELSE t.to
            /\ revision' = revision + 1 /\ UNCHANGED tabs
            /\ Goes(t, {ListTask(revision')} \union (IF t.to = None THEN {} ELSE {OpenTask(t.to)}))
  /\ UNCHANGED <<disk, open, cm, saving, running, want, kept, rest>>

ImportWrite(t) ==
  /\ t.kind = "import" /\ t.pc = "write"
  /\ disk' = With(disk, t.path, t.data[t.path]) /\ want' = With(want, t.path, t.data[t.path])
  /\ kept' = kept \ {t.path}
  /\ tabs' = tabs \union {t.path}
  /\ Goes(t, {Task("import", "next", None,
                    IF t.to = None /\ t.data[t.path] # Binary THEN t.path ELSE t.to,
                    Without(t.data, t.path))})
  /\ UNCHANGED <<revision, filename, open, cm, saving, running, rest>>

\* A dropped file that cannot be read is skipped.
ImportSkips(t) ==
  /\ t.kind = "import" /\ t.pc = "write"
  /\ Goes(t, {Task("import", "next", None, t.to, Without(t.data, t.path))})
  /\ UNCHANGED <<disk, page, open, cm, saving, running, want, kept, rest>>

\* The text goes to whatever is shown when it has been read.
UploadApply(t) ==
  /\ t.kind = "upload" /\ Goes(t, {})
  /\ view' = t.data /\ Onchange(shown) /\ Rewrite(t.path, t.data)
  /\ raced' = (raced \/ shown # t.path \/ filename # t.path \/ want[t.path] = Binary \/ Overtaken(t.path))
  /\ UNCHANGED <<disk, page, open, shown, states, running, edits, ops>>

\* A chosen file that cannot be read: only a warning.
UploadFails(t) ==
  /\ t.kind = "upload" /\ Goes(t, {})
  /\ UNCHANGED <<disk, page, open, cm, saving, running, want, kept, rest>>

\* do_run has read the directory: Run is sent.
RunSend(t) ==
  /\ t.kind = "run" /\ t.pc = "read" /\ Goes(t, {})
  /\ \E files \in Reads(t) : All(t, files)
  /\ running' = "sent" /\ kept' = {}
  /\ UNCHANGED <<disk, page, open, cm, saving, want, rest>>

\* The run ends, on its own or by Stop.
RunEnds ==
  /\ running = "sent" /\ running' = "no"
  /\ UNCHANGED <<disk, page, open, cm, saving, tasks, want, kept, rest>>

Step(t) ==
  \/ WaitSync(t)
  \/ OpenRead(t) \/ OpenApply(t) \/ ListEntries(t) \/ ReadNext(t) \/ ReadFails(t) \/ ListApply(t)
  \/ RemoveEntry(t) \/ RenameRead(t) \/ RenameWrite(t) \/ RenameRemove(t)
  \/ AddWrite(t) \/ ImportNext(t) \/ ImportWrite(t) \/ ImportSkips(t)
  \/ UploadApply(t) \/ UploadFails(t) \/ RunSend(t)

User ==
  \/ Type \/ ClickUpload \/ ClickRun
  \/ \E n \in Name :
       \/ ServerEdits(n) \/ ClickTab(n) \/ Jump(n) \/ ClickRemove(n) \/ ClickAdd(n)
       \/ \E m \in Name : CommitRename(n, m)
  \/ \E files \in Imports : Drop(files)

Next == User \/ WriterWakes \/ WriterWrites \/ RunEnds \/ \E t \in Active : Step(t)

SafeSpec == Init /\ [][Next]_vars

\* The timer of the writer fires and the promises of OPFS are resolved.
Fairness == WF_vars(WriterWakes \/ WriterWrites \/ \E t \in Active : Step(t))

Spec == SafeSpec /\ Fairness

----------------------------------------------------------------------------
(* Properties.  They are about a user who gives the tasks time.  raced      *)
(* marks the steps after which they promise nothing:                       *)
(*   a text is typed, uploaded or changed by the language server in a file *)
(*     that a removal, renaming, adding or import that no longer waits is  *)
(*     about to replace or remove, in a binary or removed file, or while   *)
(*     another file is shown;                                              *)
(*   a click opens, removes, renames, adds or drops a file that another    *)
(*     task is to change (or, to remove or rename it, to open), or gives a *)
(*     file a name that is on disk or in the editor without a tab;         *)
(*   a listing is applied that is older than the last change, or makes a   *)
(*     file active that a task is to change.                               *)
(* Typing into a file while it is opened again is not marked: the opening  *)
(* may put the older text back, and want follows it (PutBack).             *)

\* Everything has its type: the editor keeps no state for "no file", and only
\* the writer that runs holds files.
TypeOK ==
  /\ {disk, want, states} \subseteq Files /\ tabs \subseteq Name /\ revision \in Nat
  /\ {filename, open, shown} \subseteq File /\ view \in Text
  /\ dirty \in BOOLEAN /\ writes \subseteq Name
  /\ writer \in [pc : {"off", "sleep", "write"}, todo : SUBSET Name, path : File, text : Text]
  /\ IsABag(tasks) /\ \A t \in Active : {t.path, t.to} \subseteq File
  /\ running \in {"no", "asked", "sent"} /\ kept \subseteq Name
  /\ past \subseteq Name \X Text /\ raced \in BOOLEAN
  /\ edits \in 0..MaxEdits /\ ops \in 0..MaxOps

Quiet == tasks = EmptyBag /\ ~dirty

\* When every task has ended, the directory holds the files that the user has
\* made and not removed, each with the last text typed, uploaded or imported, or put
\* back by an opening that had begun to read before that was typed: nothing else in
\* saving, opening, renaming and removing ever undoes another.
NothingLost == Quiet /\ ~raced => disk = want

Agrees(n, text) == n \in DOMAIN disk /\ disk[n] # Binary => text = disk[n]

\* And the page shows just that: a tab per file, the active file in the editor
\* (a binary one is not opened), and in the memory of the editor, which the
\* language server reads, the texts on disk.
PageAgrees ==
  Quiet /\ ~raced =>
    /\ tabs = DOMAIN disk
    /\ filename # None => filename \in DOMAIN disk
    /\ \/ filename # None /\ disk[filename] = Binary
       \/ open = filename /\ shown = filename
    /\ shown # None => Agrees(shown, view)
    /\ \A n \in DOMAIN states \ {shown} : Agrees(n, states[n])

\* A run is sent with every text that the user would find when Run was clicked, unless
\* it was changed, or an older one put back, after that: do_run waits for the writer
\* before it reads.
RunSendsWhatWasTyped ==
  [][running = "asked" /\ running' = "sent" /\ ~raced =>
       \E t \in Active :
         /\ t.kind = "run" /\ t.pc = "read"
         /\ \E files \in Reads(t) :
              All(t, files) /\ \A n \in kept : n \in DOMAIN files /\ files[n] = want[n]]_vars

\* Once the user stops, everything is saved and every task ends: the writer never
\* leaves with a file unsaved, so whatever waits for it goes on.
Settles == []<>Quiet
=============================================================================
