------------------------- MODULE EditorFilesProofs -------------------------
(***************************************************************************)
(* The editor and its directory, for any names, any texts and any number   *)
(* of tasks under way: everything has its type, and a user who gives the   *)
(* tasks time (~raced, see EditorFiles) loses nothing but what an opening  *)
(* of the same file puts back, sees what the directory holds, and runs it. *)
(***************************************************************************)
EXTENDS EditorFiles, TLAPS

(***************************************************************************)
(* What a task holds, by its kind and where it awaits.                     *)
(***************************************************************************)
IsTask(t) == t = Task(t.kind, t.pc, t.path, t.to, t.data)

Reading(d) == d.names \subseteq Name /\ d.files \in Files

ListData == [revision : Nat, names : SUBSET Name, files : Files]
RunData == [names : SUBSET Name, files : Files]

Typed(t) ==
  /\ IsTask(t) /\ t.path \in File /\ t.to \in File
  /\ \/ /\ t.kind = "open" /\ t.pc \in {"wait", "read", "apply"}
        /\ t.pc # "wait" => t.path # None
        /\ t.pc = "apply" => t.data \in Text
     \/ t.kind = "list" /\ t.pc \in {"wait", "list", "read"} /\ t.data \in ListData
     \/ t.kind = "run" /\ t.pc \in {"wait", "list", "read"} /\ t.data \in RunData
     \/ t.kind = "upload" /\ t.pc = "read" /\ t.path # None /\ t.data \in Text \ {Binary}
     \/ t.kind = "remove" /\ t.pc \in {"wait", "remove"} /\ t.path # None /\ t.to = None
     \/ /\ t.kind = "rename" /\ t.pc \in {"wait", "read", "write", "remove"}
        /\ t.path # None /\ t.to # None
        /\ t.pc = "write" => t.data \in Text
     \/ t.kind = "add" /\ t.pc = "write" /\ t.path # None /\ t.to = None
     \/ /\ t.kind = "import" /\ t.data \in Files
        /\ \/ t.pc = "next" /\ t.path = None
           \/ t.pc = "write" /\ t.path \in DOMAIN t.data

\* A writer.
Writer ==
  {w \in [pc : {"off", "sleep", "write"}, todo : SUBSET Name, path : File, text : Text] :
     w.pc = "write" => w.path # None}

TInv == TypeOK /\ writer \in Writer /\ \A t \in Active : Typed(t)

(***************************************************************************)
(* While the user gives the tasks time.                                    *)
(***************************************************************************)
Mine(t) == Changes(t) \ {None}
Changer(t) == t.kind \in {"remove", "rename", "add"}

\* The files a writer has yet to write.
Unsaved(n) == n \in writes \union writer.todo \/ n = writer.path

\* The editor has the text of n: shown, or kept.
Known(n) == n = shown \/ n \in DOMAIN states

\* What is on disk is what the user would find, and a write under way changes nothing.
Stable(n) ==
  /\ n \in DOMAIN disk /\ n \in DOMAIN want /\ disk[n] = want[n]
  /\ n = writer.path => writer.text = want[n]

\* An opening of n may show x: it is the text of n, or was since the opening began, and
\* the editor has the text that replaced it.
Good(n, x) == x = want[n] \/ (<<n, x>> \in past /\ Known(n) /\ x # Binary /\ want[n] # Binary)

\* What an opening of n reads is such a text, also when the writer has written.
Readable(n) ==
  /\ n \in DOMAIN disk /\ n \in DOMAIN want /\ Good(n, disk[n])
  /\ n = writer.path => Good(n, writer.text)

\* dirty says whether there is a writer, and one that sleeps holds nothing.
WriterOK ==
  /\ dirty <=> writer.pc # "off"
  /\ ~dirty => writes = {}
  /\ writer.pc # "write" => writer.todo = {} /\ writer.path = None

\* What is to be written is what the editor has and the user would find.
Pending ==
  /\ \A n \in writes \union writer.todo :
       n \in DOMAIN want /\ Known(n) /\ TextOf(n) = want[n] /\ want[n] # Binary
  /\ writer.path # None =>
       /\ writer.path \in DOMAIN want
       /\ writer.path \notin writes => writer.text = want[writer.path]

\* The file that a rename has copied and will give its new name.
Copied(n) == \E t \in Active : t.kind = "rename" /\ t.pc = "remove" /\ n = t.to

\* The directory has what the user would find, but for what is to be written, and
\* beside it the copies of renames under way.
OnDisk ==
  /\ DOMAIN want \subseteq DOMAIN disk
  /\ \A n \in DOMAIN disk : n \in DOMAIN want \/ Copied(n)
  /\ \A n \in DOMAIN want : ~Unsaved(n) => disk[n] = want[n]

\* What a task relies on.  An opening: its file is there, and what it read is a text
\* that the file had since.
SoundOpen(t) ==
  t.kind = "open" /\ t.path # None =>
    /\ t.path \in DOMAIN want
    /\ t.pc # "wait" => Readable(t.path)
    /\ t.pc = "apply" => Good(t.path, t.data)

\* A listing: nothing it lists has gone, unless a change came that it will notice.
SoundList(t) ==
  t.kind = "list" =>
    /\ t.data.revision <= revision
    /\ t.pc = "read" /\ t.data.revision = revision => t.data.names \subseteq DOMAIN disk

\* A removal: the file is not the active one, and nothing will write it again.
SoundRemove(t) ==
  t.kind = "remove" => t.path # filename /\ (t.pc = "remove" => ~Unsaved(t.path))

\* A rename: the new name is free, and the copy has what the user would find.
SoundRename(t) ==
  t.kind = "rename" =>
    /\ t.to \notin DOMAIN want
    /\ t.pc # "wait" => ~Unsaved(t.path)
    /\ t.pc \in {"write", "remove"} => t.path \in DOMAIN want
    /\ t.pc = "write" => t.data = want[t.path]
    /\ t.pc = "remove" => t.to \in DOMAIN disk /\ disk[t.to] = want[t.path]

SoundAdd(t) == t.kind = "add" => t.path \notin DOMAIN want

\* An import: what it has yet to write is new or has a tab, and is skipped then.
SoundImport(t) ==
  t.kind = "import" =>
    /\ (DOMAIN t.data \ tabs) \intersect DOMAIN want = {}
    /\ t.pc = "write" => t.path \notin DOMAIN want
    /\ t.to # None => t.to \in DOMAIN want

Sound(t) ==
  /\ SoundOpen(t) /\ SoundList(t) /\ SoundRemove(t)
  /\ SoundRename(t) /\ SoundAdd(t) /\ SoundImport(t)

\* No two tasks change the same file; no task opens a file that another changes; and
\* while a rename is under way, which opens the active file again, no other task
\* changes the active file.
Apart(t, u) ==
  /\ Mine(t) \intersect Mine(u) = {}
  /\ t.kind = "open" /\ Changer(u) => t.path \notin Mine(u)
  /\ t.kind = "rename" /\ Changer(u) => filename \notin Mine(u)

Tasks ==
  /\ \A t \in Active : Sound(t) /\ (Mine(t) # {} => tasks[t] = 1)
  /\ \A t, u \in Active : t # u => Apart(t, u)

\* The active file is one that the user would find.
ActiveThere == filename # None => filename \in DOMAIN want

Saved == ActiveThere /\ WriterOK /\ Pending /\ OnDisk

TimeGiven == Saved /\ Tasks

KInv == TInv /\ (raced \/ TimeGiven)

----------------------------------------------------------------------------
(* Files, tasks and bags.                                                  *)

\* A file is read as a text, and a directory keeps its type when one is written,
\* created or removed.
LEMMA FilesAt ==
  ASSUME NEW f \in Files
  PROVE  /\ DOMAIN f \subseteq Name
         /\ \A n \in DOMAIN f : f[n] \in Text
         /\ f = [n \in DOMAIN f |-> f[n]]
BY DEF Files

LEMMA FilesWritten ==
  ASSUME NEW f \in Files, NEW n \in Name, NEW x \in Text
  PROVE  /\ With(f, n, x) \in Files
         /\ DOMAIN With(f, n, x) = DOMAIN f \union {n}
         /\ With(f, n, x)[n] = x
         /\ \A m \in DOMAIN f : m # n => With(f, n, x)[m] = f[m]
<1>1. \A m \in DOMAIN f \union {n} : With(f, n, x)[m] \in Text
  BY FilesAt DEF With
<1>2. With(f, n, x) \in [DOMAIN f \union {n} -> Text]
  BY <1>1 DEF With
<1>3. DOMAIN f \union {n} \in SUBSET Name
  BY FilesAt
<1>4. With(f, n, x) \in Files
  BY <1>2, <1>3 DEF Files
<1> QED
  BY <1>4 DEF With

LEMMA FilesRestricted ==
  ASSUME NEW f \in Files, NEW S \in SUBSET DOMAIN f
  PROVE  /\ Restrict(f, S) \in Files
         /\ DOMAIN Restrict(f, S) = S
         /\ \A n \in S : Restrict(f, S)[n] = f[n]
BY FilesAt DEF Files, Restrict

LEMMA FilesWithout ==
  ASSUME NEW f \in Files, NEW n
  PROVE  /\ Without(f, n) \in Files
         /\ DOMAIN Without(f, n) = DOMAIN f \ {n}
         /\ \A m \in DOMAIN f \ {n} : Without(f, n)[m] = f[m]
BY FilesRestricted, DOMAIN f \ {n} \in SUBSET DOMAIN f DEF Without

LEMMA NoFiles == <<>> \in Files /\ DOMAIN <<>> = {}
<1>1. DOMAIN <<>> = {}
  OBVIOUS
<1>2. <<>> = [n \in {} |-> Empty]
  OBVIOUS
<1> QED
  BY <1>1, <1>2 DEF Files

LEMMA TextsThere == Empty \in Text /\ Binary \in Text /\ 1..MaxEdits \subseteq Text
BY DEF Text

LEMMA TheFirstFiles == Disk0 \in Files /\ Imports \subseteq Files
BY ContentsAssumption

\* What a step leaves of the tasks: those that were there, without the one that goes
\* on if there was only one of it, and those that it spawns.
LEMMA GoesActive ==
  ASSUME IsABag(tasks), NEW t \in Active, NEW S, Goes(t, S)
  PROVE  /\ IsABag(tasks')
         /\ Active' \subseteq Active \union S
         /\ S \subseteq Active'
         /\ Active \ {t} \subseteq Active'
BY DEF Goes, IsABag, Active, BagToSet, SetToBag, (+), (-), BagIn

LEMMA GoesCounts ==
  ASSUME IsABag(tasks), NEW t \in Active, NEW S, Goes(t, S)
  PROVE  /\ tasks[t] = 1 /\ t \notin S => t \notin Active'
         /\ \A u \in Active \ S : u # t => tasks'[u] = tasks[u]
         /\ \A u \in S : u \notin Active => tasks'[u] = 1
BY DEF Goes, IsABag, Active, BagToSet, SetToBag, (+), (-), BagIn

LEMMA SpawnActive ==
  ASSUME IsABag(tasks), NEW S, Spawn(S)
  PROVE  /\ IsABag(tasks')
         /\ Active' = Active \union S
         /\ \A u \in Active \ S : tasks'[u] = tasks[u]
         /\ \A u \in S : u \notin Active => tasks'[u] = 1
BY DEF Spawn, IsABag, Active, BagToSet, SetToBag, (+), (-), BagIn

\* The fields of a task.
LEMMA TaskFields ==
  ASSUME NEW k, NEW p, NEW n, NEW m, NEW d
  PROVE  LET t == Task(k, p, n, m, d) IN
         IsTask(t) /\ t.kind = k /\ t.pc = p /\ t.path = n /\ t.to = m /\ t.data = d
BY DEF Task, IsTask

----------------------------------------------------------------------------
(* Everything has its type.                                                *)

LEMMA TypedSpawned ==
  /\ \A f \in File : Typed(OpenTask(f))
  /\ \A r \in Nat : Typed(ListTask(r))
<1>1. \A f \in File : Typed(OpenTask(f))
  BY DEF Typed, IsTask, OpenTask, Task, File
<1>2. \A r \in Nat : [revision |-> r, names |-> {}, files |-> <<>>] \in ListData
  BY NoFiles DEF ListData
<1>3. ASSUME NEW r \in Nat PROVE Typed(ListTask(r))
  <2>1. PICK t : t = ListTask(r)
    OBVIOUS
  <2>2. /\ IsTask(t) /\ t.kind = "list" /\ t.pc = "wait" /\ t.path = None /\ t.to = None
        /\ t.data = [revision |-> r, names |-> {}, files |-> <<>>]
    BY <2>1, TaskFields DEF ListTask
  <2>3. Typed(t)
    BY <1>2, <2>2 DEF Typed, File
  <2> QED
    BY <2>1, <2>3
<1> QED
  BY <1>1, <1>3

\* The editor keeps its types, whatever it shows and whatever is saved.
EditorTypes ==
  /\ shown \in File /\ view \in Text /\ states \in Files
  /\ dirty \in BOOLEAN /\ writes \subseteq Name
  /\ writer \in Writer

LEMMA SetFileTypes ==
  ASSUME EditorTypes, NEW f \in File, SetFile(f), UNCHANGED saving
  PROVE  EditorTypes'
<1>1. view' \in Text
  BY FilesAt, TextsThere DEF EditorTypes, SetFile
<1>2. shown # None => With(states, shown, view) \in Files
  BY FilesWritten DEF EditorTypes, File
<1>3. states' \in Files
  BY <1>2 DEF EditorTypes, SetFile
<1> QED
  BY <1>1, <1>3 DEF EditorTypes, SetFile, saving

LEMMA OnchangeTypes ==
  ASSUME EditorTypes, NEW f \in File, Onchange(f)
  PROVE  /\ dirty' \in BOOLEAN /\ writes' \subseteq Name
         /\ writer' \in Writer
BY DEF EditorTypes, Onchange, saving, File, Writer

LEMMA ShowTypes ==
  ASSUME EditorTypes, NEW f \in File, NEW text \in Text, Show(f, text)
  PROVE  EditorTypes'
<1>1. states' \in Files
  BY FilesWritten DEF EditorTypes, Show, File
<1>2. /\ dirty' \in BOOLEAN /\ writes' \subseteq Name
      /\ writer' \in Writer
  BY OnchangeTypes DEF EditorTypes, Show, saving
<1> QED
  BY <1>1, <1>2 DEF EditorTypes, Show

LEMMA SetFilesTypes ==
  ASSUME EditorTypes, NEW files \in Files, SetFiles(files), UNCHANGED saving
  PROVE  EditorTypes'
<1>1. DOMAIN states' \subseteq Name
  BY FilesAt DEF SetFiles
<1>2. \A n \in DOMAIN states' : states'[n] \in Text
  BY FilesAt DEF SetFiles, EditorTypes
<1>3. states' = [n \in DOMAIN states' |-> states'[n]]
  BY DEF SetFiles
<1>4. states' \in Files
  BY <1>1, <1>2, <1>3 DEF Files
<1> QED
  BY <1>4 DEF EditorTypes, SetFiles, saving

LEMMA TextOfTyped ==
  ASSUME EditorTypes, NEW n
  PROVE  TextOf(n) \in Text
BY FilesAt, TextsThere DEF EditorTypes, TextOf

LEMMA WriterTypes ==
  ASSUME EditorTypes, NEW todo \in SUBSET Name, NEW pending, WriterGoesOn(todo, pending),
         UNCHANGED <<cm, writes>>
  PROVE  EditorTypes'
<1>1. CASE todo = {}
  BY <1>1, TextsThere DEF EditorTypes, WriterGoesOn, File, Writer, cm
<1>2. ASSUME NEW n \in todo,
             writer' = [pc |-> "write", todo |-> todo \ {n}, path |-> n, text |-> TextOf(n)],
             UNCHANGED dirty
      PROVE  EditorTypes'
  BY <1>2, TextOfTyped, NamesAssumption DEF EditorTypes, File, Writer, cm
<1> QED
  BY <1>1, <1>2 DEF WriterGoesOn

\* What the tasks hold, when the page has its types and so has every task that is new.
LEMMA TypesKept ==
  ASSUME TInv, NEW S, \A u \in S : Typed(u), Active' \subseteq Active \union S, IsABag(tasks'),
         EditorTypes', {disk', want'} \subseteq Files, tabs' \subseteq Name, revision' \in Nat,
         {filename', open'} \subseteq File, running' \in {"no", "asked", "sent"}, kept' \subseteq Name /\ past' \subseteq Name \X Text, raced' \in BOOLEAN,
         edits' \in 0..MaxEdits, ops' \in 0..MaxOps
  PROVE  TInv'
<1>1. \A u \in Active' : Typed(u)
  BY DEF TInv
<1>2. \A u \in Active' : {u.path, u.to} \subseteq File
  BY <1>1 DEF Typed
<1> QED
  BY <1>1, <1>2 DEF TInv, TypeOK, EditorTypes, Writer

LEMMA TypesAre ==
  ASSUME TInv
  PROVE  /\ IsABag(tasks) /\ \A u \in Active : Typed(u)
         /\ EditorTypes /\ {disk, want} \subseteq Files /\ tabs \subseteq Name /\ revision \in Nat
         /\ {filename, open} \subseteq File /\ running \in {"no", "asked", "sent"} /\ kept \subseteq Name /\ past \subseteq Name \X Text
         /\ raced \in BOOLEAN /\ edits \in 0..MaxEdits /\ ops \in 0..MaxOps
BY DEF TInv, TypeOK, EditorTypes

LEMMA InitTypes == Init => TInv
<1> SUFFICES ASSUME Init PROVE TInv
  OBVIOUS
<1>1. IsABag(tasks) /\ Active = {OpenTask(None), ListTask(0)}
  BY DEF Init, SetToBag, IsABag, Active, BagToSet
<1>2. \A u \in Active : Typed(u)
  BY <1>1, TypedSpawned DEF File
<1>3. \A u \in Active : {u.path, u.to} \subseteq File
  BY <1>2 DEF Typed
<1>4. {disk, want, states} \subseteq Files
  BY NoFiles, TheFirstFiles DEF Init
<1>5. writer \in Writer
  BY TextsThere DEF Init, File, Writer
<1>6. 0 \in 0..MaxEdits /\ 0 \in 0..MaxOps
  BY BoundsAssumption
<1>7. TypeOK
  BY <1>1, <1>3, <1>4, <1>5, <1>6, TextsThere DEF Init, TypeOK, File, Writer
<1> QED
  BY <1>2, <1>5, <1>7 DEF TInv

\* A text is replaced.
LEMMA HadTyped == ASSUME want \in Files, NEW n PROVE Had(n) \subseteq Name \X Text
BY FilesAt DEF Had

LEMMA RewriteTypes ==
  ASSUME TInv, NEW n \in Name, NEW text \in Text, Rewrite(n, text)
  PROVE  want' \in Files /\ kept' \subseteq Name /\ past' \subseteq Name \X Text
<1>1. want \in Files /\ kept \subseteq Name /\ past \subseteq Name \X Text
  BY TypesAre
<1>2. want' \in Files
  BY <1>1, FilesWritten DEF Rewrite
<1> QED
  BY <1>1, <1>2, HadTyped DEF Rewrite

\* The texts that the user types.
LEMMA EditTypes ==
  ASSUME TInv, NEW n \in Name, Edit(n)
  PROVE  /\ want' \in Files /\ edits' \in 0..MaxEdits /\ edits' \in Text /\ edits' # Binary
         /\ kept' \subseteq Name /\ past' \subseteq Name \X Text
<1>1. edits' \in 1..MaxEdits
  BY BoundsAssumption DEF Edit, TInv, TypeOK
<1>2. edits' \in Text /\ edits' # Binary
  BY <1>1, TextsThere, ContentsAssumption
<1>3. Rewrite(n, edits')
  BY DEF Edit
<1>4. want' \in Files /\ kept' \subseteq Name /\ past' \subseteq Name \X Text
  BY <1>2, <1>3, RewriteTypes
<1>5. edits' \in 0..MaxEdits
  BY <1>1, BoundsAssumption
<1> QED
  BY <1>2, <1>4, <1>5

\* A click that spawns tasks.
LEMMA ClickTypes ==
  ASSUME TInv, NEW S, Spawn(S), \A u \in S : Typed(u), NEW early \in BOOLEAN, Click(early),
         tabs' \subseteq Name, filename' \in File, EditorTypes', running' \in {"no", "asked", "sent"}, kept' \subseteq Name /\ past' \subseteq Name \X Text,
         edits' \in 0..MaxEdits, UNCHANGED <<disk, revision, open, want>>
  PROVE  TInv'
<1>1. Active' \subseteq Active \union S /\ IsABag(tasks')
  BY SpawnActive, TypesAre
<1>2. raced' \in BOOLEAN
  BY Zenon, TypesAre DEF Click
<1>3. ops' \in 0..MaxOps
  BY TypesAre, BoundsAssumption DEF Click
<1>4. revision' \in Nat /\ open' \in File /\ disk' \in Files /\ want' \in Files
  BY TypesAre
<1> QED
  BY <1>1, <1>2, <1>3, <1>4, TypesKept

LEMMA EditorSame ==
  ASSUME EditorTypes, UNCHANGED <<cm, saving>>
  PROVE  EditorTypes'
BY DEF EditorTypes, cm, saving

LEMMA TypeTypes == TInv /\ Type => TInv'
<1> SUFFICES ASSUME TInv, Type PROVE TInv'
  OBVIOUS
<1>1. filename \in Name
  BY TypesAre DEF Type, Editable, File
<1>0. kept' \subseteq Name /\ past' \subseteq Name \X Text
  BY <1>1, EditTypes DEF Type
<1>2. want' \in Files /\ edits' \in 0..MaxEdits /\ edits' \in Text
  BY <1>1, EditTypes DEF Type
<1>3. EditorTypes'
  <2>1. /\ dirty' \in BOOLEAN /\ writes' \subseteq Name
        /\ writer' \in Writer
    BY OnchangeTypes, TypesAre DEF Type, EditorTypes
  <2> QED
    BY <1>2, <2>1, TypesAre DEF Type, EditorTypes
<1>4. raced' \in BOOLEAN
  BY DEF Type
<1>5. Active' \subseteq Active \union {} /\ IsABag(tasks')
  BY TypesAre DEF Type, Active
<1>6. UNCHANGED <<disk, tabs, revision, filename, open, running, ops>>
  BY DEF Type, page
<1> QED
  BY <1>0, <1>2, <1>3, <1>4, <1>5, <1>6, TypesKept, TypesAre

LEMMA ServerEditsTypes == ASSUME NEW n \in Name PROVE TInv /\ ServerEdits(n) => TInv'
<1> SUFFICES ASSUME TInv, ServerEdits(n) PROVE TInv'
  OBVIOUS
<1>0. kept' \subseteq Name /\ past' \subseteq Name \X Text
  BY EditTypes DEF ServerEdits
<1>2. want' \in Files /\ edits' \in 0..MaxEdits /\ edits' \in Text
  BY EditTypes DEF ServerEdits
<1>3. EditorTypes'
  <2>1. /\ dirty' \in BOOLEAN /\ writes' \subseteq Name
        /\ writer' \in Writer
    BY OnchangeTypes, TypesAre DEF ServerEdits, File
  <2>2. view' \in Text /\ shown' \in File
    BY <1>2, TypesAre DEF ServerEdits, EditorTypes
  <2>3. states' \in Files
    <3>1. CASE n = shown
      BY <3>1, TypesAre DEF ServerEdits, EditorTypes
    <3>2. CASE n # shown
      <4>1. states' = [states EXCEPT ![n] = edits'] /\ states \in Files
        BY <3>2, TypesAre DEF ServerEdits, EditorTypes
      <4>2. \A m \in DOMAIN states : states'[m] \in Text
        BY <4>1, <1>2, FilesAt
      <4>3. states' \in [DOMAIN states -> Text]
        BY <4>1, <4>2, FilesAt
      <4> QED
        BY <4>1, <4>3, FilesAt DEF Files
    <3> QED
      BY <3>1, <3>2
  <2> QED
    BY <2>1, <2>2, <2>3 DEF EditorTypes
<1>4. raced' \in BOOLEAN
  BY DEF ServerEdits
<1>5. Active' \subseteq Active \union {} /\ IsABag(tasks')
  BY TypesAre DEF ServerEdits, Active
<1>6. UNCHANGED <<disk, tabs, revision, filename, open, running, ops>>
  BY DEF ServerEdits, page
<1> QED
  BY <1>0, <1>2, <1>3, <1>4, <1>5, <1>6, TypesKept, TypesAre

LEMMA ClickTabTypes == ASSUME NEW n \in Name PROVE TInv /\ ClickTab(n) => TInv'
<1> SUFFICES ASSUME TInv, ClickTab(n) PROVE TInv'
  OBVIOUS
<1>0. kept' \subseteq Name /\ past' \subseteq Name \X Text
  BY TypesAre DEF ClickTab, rest
<1>1. \A u \in {OpenTask(n)} : Typed(u)
  BY TypedSpawned DEF File
<1>2. EditorTypes'
  BY EditorSame, TypesAre DEF ClickTab
<1>3. /\ filename' \in File /\ UNCHANGED <<tabs, running, edits>>
      /\ UNCHANGED <<disk, revision, open, want>>
  BY DEF ClickTab, File
<1>4. (Changing(n) \/ n \notin DOMAIN want) \in BOOLEAN
  OBVIOUS
<1>5. Spawn({OpenTask(n)}) /\ Click(Changing(n) \/ n \notin DOMAIN want)
  BY DEF ClickTab
<1> QED
  BY <1>0, <1>1, <1>2, <1>3, <1>4, <1>5, ClickTypes, TypesAre

LEMMA JumpTypes == ASSUME NEW n \in Name PROVE TInv /\ Jump(n) => TInv'
<1> SUFFICES ASSUME TInv, Jump(n) PROVE TInv'
  OBVIOUS
<1>0. kept' \subseteq Name /\ past' \subseteq Name \X Text
  BY TypesAre DEF Jump, rest
<1>1. \A u \in {OpenTask(n)} : Typed(u)
  BY TypedSpawned DEF File
<1>2. EditorTypes'
  BY SetFileTypes, TypesAre DEF Jump, File
<1>3. /\ filename' \in File /\ UNCHANGED <<tabs, running, edits>>
      /\ UNCHANGED <<disk, revision, open, want>>
  BY DEF Jump, File
<1>4. (Changing(n) \/ n \notin DOMAIN want) \in BOOLEAN
  OBVIOUS
<1>5. Spawn({OpenTask(n)}) /\ Click(Changing(n) \/ n \notin DOMAIN want)
  BY DEF Jump
<1> QED
  BY <1>0, <1>1, <1>2, <1>3, <1>4, <1>5, ClickTypes, TypesAre

LEMMA ClickRemoveTypes == ASSUME NEW n \in Name PROVE TInv /\ ClickRemove(n) => TInv'
<1> SUFFICES ASSUME TInv, ClickRemove(n) PROVE TInv'
  OBVIOUS
<1>0. kept' \subseteq Name /\ past' \subseteq Name \X Text
  BY TypesAre DEF ClickRemove, rest
<1> DEFINE t == Task("remove", "wait", n, None, Empty)
           early == ~Free(n) \/ Changing(filename) \/ n \notin DOMAIN want
<1>1. filename' \in File
  BY TypesAre DEF ClickRemove, File
<1>2. Typed(t)
  BY NamesAssumption DEF Typed, IsTask, Task, File
<1>3. \A u \in {OpenTask(filename'), t} : Typed(u)
  BY <1>1, <1>2, TypedSpawned
<1>4. EditorTypes'
  BY EditorSame, TypesAre DEF ClickRemove
<1>5. /\ tabs' \subseteq Name /\ UNCHANGED <<running, edits>>
      /\ UNCHANGED <<disk, revision, open, want>>
  BY TypesAre DEF ClickRemove
<1>6. early \in BOOLEAN
  OBVIOUS
<1>7. Spawn({OpenTask(filename'), t}) /\ Click(early)
  BY DEF ClickRemove
<1> HIDE DEF t, early
<1> QED
  BY <1>0, <1>1, <1>3, <1>4, <1>5, <1>6, <1>7, ClickTypes, TypesAre

LEMMA CommitRenameTypes ==
  ASSUME NEW n \in Name, NEW m \in Name PROVE TInv /\ CommitRename(n, m) => TInv'
<1> SUFFICES ASSUME TInv, CommitRename(n, m) PROVE TInv'
  OBVIOUS
<1>0. kept' \subseteq Name /\ past' \subseteq Name \X Text
  BY TypesAre DEF CommitRename, rest
<1> DEFINE t == Task("rename", "wait", n, m, Empty)
           early == ~Free(n) \/ ~Fresh(m) \/ Changing(filename)
<1>1. \A u \in {t} : Typed(u)
  BY NamesAssumption DEF Typed, IsTask, Task, File
<1>2. EditorTypes'
  BY EditorSame, TypesAre DEF CommitRename
<1>3. UNCHANGED <<tabs, running, edits, filename, disk, revision, open, want>>
  BY TypesAre DEF CommitRename, page
<1>4. early \in BOOLEAN
  OBVIOUS
<1>5. Spawn({t}) /\ Click(early)
  BY DEF CommitRename
<1> HIDE DEF t, early
<1> QED
  BY <1>0, <1>1, <1>2, <1>3, <1>4, <1>5, ClickTypes, TypesAre

LEMMA ClickAddTypes == ASSUME NEW n \in Name PROVE TInv /\ ClickAdd(n) => TInv'
<1> SUFFICES ASSUME TInv, ClickAdd(n) PROVE TInv'
  OBVIOUS
<1>0. kept' \subseteq Name /\ past' \subseteq Name \X Text
  BY TypesAre DEF ClickAdd, rest
<1> DEFINE t == Task("add", "write", n, None, Empty)
<1>1. \A u \in {t} : Typed(u)
  BY NamesAssumption DEF Typed, IsTask, Task, File
<1>2. EditorTypes'
  BY EditorSame, TypesAre DEF ClickAdd
<1>3. UNCHANGED <<tabs, running, edits, filename, disk, revision, open, want>>
  BY TypesAre DEF ClickAdd, page
<1>4. (~Fresh(n)) \in BOOLEAN
  OBVIOUS
<1>5. Spawn({t}) /\ Click(~Fresh(n))
  BY DEF ClickAdd
<1> HIDE DEF t
<1> QED
  BY <1>0, <1>1, <1>2, <1>3, <1>4, <1>5, ClickTypes, TypesAre

LEMMA DropTypes == ASSUME NEW files \in Imports PROVE TInv /\ Drop(files) => TInv'
<1> SUFFICES ASSUME TInv, Drop(files) PROVE TInv'
  OBVIOUS
<1>0. kept' \subseteq Name /\ past' \subseteq Name \X Text
  BY TypesAre DEF Drop, rest
<1> DEFINE t == Task("import", "next", None, None, files)
           early == \E n \in DOMAIN files : Changing(n) \/ (n \notin tabs \intersect DOMAIN want /\ ~Fresh(n))
<1>1. \A u \in {t} : Typed(u)
  BY TheFirstFiles DEF Typed, IsTask, Task, File
<1>2. EditorTypes'
  BY EditorSame, TypesAre DEF Drop
<1>3. UNCHANGED <<tabs, running, edits, filename, disk, revision, open, want>>
  BY TypesAre DEF Drop, page
<1>4. early \in BOOLEAN
  OBVIOUS
<1>5. Spawn({t}) /\ Click(early)
  BY DEF Drop
<1> HIDE DEF t, early
<1> QED
  BY <1>0, <1>1, <1>2, <1>3, <1>4, <1>5, ClickTypes, TypesAre

LEMMA ClickUploadTypes == TInv /\ ClickUpload => TInv'
<1> SUFFICES ASSUME TInv, ClickUpload PROVE TInv'
  OBVIOUS
<1>0. kept' \subseteq Name /\ past' \subseteq Name \X Text
  BY TypesAre DEF ClickUpload, rest
<1> DEFINE t == Task("upload", "read", filename, None, edits')
<1>1. edits' \in 1..MaxEdits
  BY TypesAre, BoundsAssumption DEF ClickUpload
<1>2. edits' \in Text \ {Binary}
  BY <1>1, TextsThere, ContentsAssumption
<1>3. \A u \in {t} : Typed(u)
  BY <1>2, TypesAre DEF Typed, IsTask, Task, File, ClickUpload, Editable
<1>4. EditorTypes'
  BY EditorSame, TypesAre DEF ClickUpload
<1>5. UNCHANGED <<tabs, running, filename, disk, revision, open, want>>
  BY TypesAre DEF ClickUpload, page
<1>6. Spawn({t}) /\ Click(FALSE)
  BY DEF ClickUpload
<1>7. edits' \in 0..MaxEdits
  BY <1>1, BoundsAssumption
<1> HIDE DEF t
<1> QED
  BY <1>0, <1>3, <1>4, <1>5, <1>6, <1>7, ClickTypes, TypesAre

LEMMA ClickRunTypes == TInv /\ ClickRun => TInv'
<1> SUFFICES ASSUME TInv, ClickRun PROVE TInv'
  OBVIOUS
<1>0. kept' \subseteq Name /\ past' \subseteq Name \X Text
  BY TypesAre, FilesAt DEF ClickRun, rest
<1> DEFINE d == [names |-> {}, files |-> <<>>]
           t == Task("run", "wait", None, None, d)
<1>1. d \in RunData
  BY NoFiles, TypesAre DEF RunData
<1> HIDE DEF d
<1>2. \A u \in {t} : Typed(u)
  BY <1>1 DEF Typed, IsTask, Task, File
<1>3. EditorTypes'
  BY EditorSame, TypesAre DEF ClickRun
<1>4. UNCHANGED <<tabs, edits, filename, disk, revision, open, want>> /\ running' \in {"no", "asked", "sent"}
  BY TypesAre DEF ClickRun, page
<1>5. Spawn({t}) /\ Click(FALSE)
  BY DEF ClickRun, d
<1> HIDE DEF t
<1> QED
  BY <1>0, <1>2, <1>3, <1>4, <1>5, ClickTypes, TypesAre

\* A step of a task that leaves the running of programs and the bounds alone.
LEMMA StepTypes ==
  ASSUME TInv, NEW t \in Active, NEW S, Goes(t, S), \A u \in S : Typed(u), EditorTypes',
         {disk', want'} \subseteq Files, tabs' \subseteq Name, revision' \in Nat,
         {filename', open'} \subseteq File, running' \in {"no", "asked", "sent"}, kept' \subseteq Name /\ past' \subseteq Name \X Text, raced' \in BOOLEAN,
         UNCHANGED <<edits, ops>>
  PROVE  TInv'
<1>1. Active' \subseteq Active \union S /\ IsABag(tasks')
  BY GoesActive, TypesAre
<1>2. edits' \in 0..MaxEdits /\ ops' \in 0..MaxOps
  BY TypesAre
<1> QED
  BY <1>1, <1>2, TypesKept

\* A task that only learns something.
LEMMA LearnTypes ==
  ASSUME TInv, NEW t \in Active, NEW S, Goes(t, S), \A u \in S : Typed(u), disk' \in Files,
         UNCHANGED <<page, open, cm, saving, running, want, kept, rest>>
  PROVE  TInv'
<1>1. EditorTypes'
  BY EditorSame, TypesAre
<1>2. /\ UNCHANGED <<tabs, revision, filename, open, running, want, kept>>
      /\ UNCHANGED <<past, raced>> /\ UNCHANGED <<edits, ops>>
  BY DEF page, rest
<1> QED
  BY <1>1, <1>2, StepTypes, TypesAre

LEMMA WriterTaskTypes == TInv /\ (WriterWakes \/ WriterWrites) => TInv'
<1> SUFFICES ASSUME TInv, WriterWakes \/ WriterWrites PROVE TInv'
  OBVIOUS
<1>0. kept' \subseteq Name /\ past' \subseteq Name \X Text
  BY TypesAre DEF WriterWakes, WriterWrites, rest
<1>1. EditorTypes'
  <2>1. CASE WriterWakes
    <3>1. EditorTypes /\ writes \subseteq Name /\ WriterGoesOn(writes, {}) /\ writes' = {} /\ UNCHANGED cm
      BY <2>1, TypesAre DEF WriterWakes, EditorTypes
    <3>2. CASE writes = {}
      BY <3>1, <3>2, WriterTypes
    <3>3. ASSUME NEW n \in writes,
                 writer' = [pc |-> "write", todo |-> writes \ {n}, path |-> n, text |-> TextOf(n)],
                 UNCHANGED dirty
          PROVE  EditorTypes'
      BY <3>1, <3>3, TextOfTyped, NamesAssumption DEF EditorTypes, File, Writer, cm
    <3> QED
      BY <3>1, <3>2, <3>3 DEF WriterGoesOn
  <2>2. CASE WriterWrites
    <3>1. EditorTypes /\ writer.todo \subseteq Name
      BY TypesAre DEF EditorTypes, Writer
    <3> QED
      BY <2>2, <3>1, WriterTypes DEF WriterWrites
  <2> QED
    BY <2>1, <2>2
<1>2. disk' \in Files
  <2>1. CASE WriterWakes
    BY <2>1, TypesAre DEF WriterWakes
  <2>2. CASE WriterWrites
    <3>1. writer.path \in Name /\ writer.text \in Text
      BY <2>2, TypesAre DEF WriterWrites, EditorTypes, Writer, File
    <3> QED
      BY <2>2, <3>1, FilesWritten, TypesAre DEF WriterWrites
  <2> QED
    BY <2>1, <2>2
<1>3. UNCHANGED <<tabs, revision, filename, open, tasks, running, want>> /\ UNCHANGED <<raced, edits, ops>>
  BY DEF WriterWakes, WriterWrites, page
<1>4. Active' \subseteq Active \union {} /\ IsABag(tasks')
  BY <1>3, TypesAre DEF Active
<1> QED
  BY <1>0, <1>1, <1>2, <1>3, <1>4, TypesKept, TypesAre

LEMMA WaitSyncTypes == ASSUME NEW t \in Active PROVE TInv /\ WaitSync(t) => TInv'
<1> SUFFICES ASSUME TInv, WaitSync(t) PROVE TInv'
  OBVIOUS
<1>0. kept' \subseteq Name /\ past' \subseteq Name \X Text
  BY TypesAre DEF WaitSync, rest
<1> DEFINE u == Then(t, AfterWait(t.kind), t.data)
<1>1. Typed(t)
  BY TypesAre
<1>2. /\ UNCHANGED <<disk, tabs, revision, filename, running, want, raced>>
      /\ UNCHANGED <<edits, ops>>
  BY DEF WaitSync, page, rest
<1>3. CASE t.kind = "open" /\ t.path = None
  <2>1. Goes(t, {})
    BY <1>3 DEF WaitSync
  <2>2. EditorTypes' /\ open' \in File
    <3>1. CASE StillActive(t)
      BY <1>3, <3>1, ShowTypes, TypesAre, TextsThere DEF WaitSync, File
    <3>2. CASE ~StillActive(t)
      BY <1>3, <3>2, EditorSame, TypesAre DEF WaitSync
    <3> QED
      BY <3>1, <3>2
  <2> QED
    BY <1>0, <1>2, <2>1, <2>2, StepTypes, TypesAre
<1>4. CASE ~(t.kind = "open" /\ t.path = None)
  <2>1. Goes(t, {u}) /\ UNCHANGED <<cm, saving, open>> /\ t.pc = "wait"
    BY <1>4 DEF WaitSync
  <2>2. IsTask(u) /\ u.kind = t.kind /\ u.pc = AfterWait(t.kind) /\ u.path = t.path /\ u.to = t.to /\ u.data = t.data
    BY TaskFields DEF Then
  <2> HIDE DEF u
  <2>3. Typed(u)
    BY <1>1, <1>4, <2>1, <2>2 DEF Typed, AfterWait
  <2>4. EditorTypes'
    BY <2>1, EditorSame, TypesAre
  <2> QED
    BY <1>0, <1>2, <2>1, <2>3, <2>4, StepTypes, TypesAre
<1> QED
  BY <1>3, <1>4

LEMMA OpenReadTypes == ASSUME NEW t \in Active PROVE TInv /\ OpenRead(t) => TInv'
<1> SUFFICES ASSUME TInv, OpenRead(t) PROVE TInv'
  OBVIOUS
<1> DEFINE u == Then(t, "apply", disk'[t.path])
<1>1. t.kind = "open" /\ t.path \in Name /\ t.to \in File
  BY TypesAre DEF OpenRead, Typed, File
<1>2. disk' \in Files /\ t.path \in DOMAIN disk'
  <2>1. disk \in Files
    BY TypesAre
  <2>2. Empty \in Text
    BY TextsThere
  <2>3. With(disk, t.path, Empty) \in Files
    BY <1>1, <2>1, <2>2, FilesWritten
  <2>4. t.path \in DOMAIN With(disk, t.path, Empty)
    BY DEF With
  <2> QED
    BY <2>1, <2>3, <2>4 DEF OpenRead
<1>3. disk'[t.path] \in Text
  BY <1>2, FilesAt
<1>4. u.kind = "open" /\ IsTask(u) /\ u.pc = "apply" /\ u.path = t.path /\ u.to = t.to /\ u.data \in Text
  BY <1>1, <1>3, TaskFields DEF Then
<1>5. Goes(t, {u}) /\ UNCHANGED <<page, open, cm, saving, running, want, kept, rest>>
  BY DEF OpenRead
<1> HIDE DEF u
<1>6. \A v \in {u} : Typed(v)
  BY <1>1, <1>4, NamesAssumption DEF Typed, File
<1> QED
  BY <1>2, <1>5, <1>6, LearnTypes

LEMMA OpenApplyTypes == ASSUME NEW t \in Active PROVE TInv /\ OpenApply(t) => TInv'
<1> SUFFICES ASSUME TInv, OpenApply(t) PROVE TInv'
  OBVIOUS
<1>1. t.path \in Name /\ t.data \in Text
  BY TypesAre DEF OpenApply, Typed, File
<1>0. want' \in Files /\ kept' \subseteq Name /\ past' \subseteq Name \X Text
  <2>1. want \in Files /\ kept \subseteq Name /\ past \subseteq Name \X Text
    BY TypesAre
  <2>2. past' \subseteq past \union Had(t.path)
    BY DEF OpenApply
  <2>3. past' \subseteq Name \X Text
    BY <2>1, <2>2, HadTyped
  <2>4. want' = want \/ want' = With(want, t.path, t.data)
    BY DEF OpenApply, PutBack
  <2>5. With(want, t.path, t.data) \in Files
    BY <1>1, <2>1, FilesWritten
  <2>6. kept' = kept \/ kept' = kept \ {t.path}
    BY DEF OpenApply, PutBack
  <2>7. want' \in Files
    BY <2>1, <2>4, <2>5
  <2> QED
    BY <2>1, <2>3, <2>6, <2>7
<1>2. EditorTypes' /\ open' \in File
  <2>1. CASE ~StillActive(t)
    BY <2>1, EditorSame, TypesAre DEF OpenApply
  <2>2. CASE StillActive(t) /\ t.data = Binary
    BY <1>1, <2>2, SetFileTypes, TypesAre DEF OpenApply, File
  <2>3. CASE StillActive(t) /\ t.data # Binary
    BY <1>1, <2>3, ShowTypes, TypesAre DEF OpenApply, File
  <2> QED
    BY <2>1, <2>2, <2>3
<1>3. /\ UNCHANGED <<disk, tabs, revision, filename, running, raced>> /\ UNCHANGED <<edits, ops>>
      /\ Goes(t, {})
  BY DEF OpenApply, page
<1> QED
  BY <1>0, <1>2, <1>3, StepTypes, TypesAre

LEMMA ListEntriesTypes == ASSUME NEW t \in Active PROVE TInv /\ ListEntries(t) => TInv'
<1> SUFFICES ASSUME TInv, ListEntries(t) PROVE TInv'
  OBVIOUS
<1> DEFINE d == [t.data EXCEPT !.names = DOMAIN disk]
           u == Then(t, "read", d)
<1>1. /\ t.kind \in {"list", "run"} /\ t.to \in File /\ t.path \in File
      /\ t.kind = "list" => t.data \in ListData
      /\ t.kind = "run" => t.data \in RunData
  BY TypesAre DEF ListEntries, Typed
<1>2. DOMAIN disk \subseteq Name
  BY TypesAre, FilesAt
<1>3. /\ t.kind = "list" => d \in ListData
      /\ t.kind = "run" => d \in RunData
  BY <1>1, <1>2 DEF ListData, RunData
<1>4. \E S \in {{}, {u}} : Goes(t, S)
  BY DEF ListEntries
<1>5. disk' \in Files /\ UNCHANGED <<page, open, cm, saving, running, want, kept, rest>>
  BY TypesAre DEF ListEntries
<1> HIDE DEF d
<1>6. Typed(u)
  <2>1. u.kind = t.kind /\ IsTask(u) /\ u.pc = "read" /\ u.path = t.path /\ u.to = t.to /\ u.data = d
    BY TaskFields DEF Then
  <2> HIDE DEF u
  <2> QED
    BY <1>1, <1>3, <2>1 DEF Typed
<1> HIDE DEF u
<1>7. \A S \in {{}, {u}} : \A v \in S : Typed(v)
  BY <1>6
<1> QED
  BY <1>4, <1>5, <1>7, LearnTypes

LEMMA ReadsTyped ==
  ASSUME TInv, NEW t \in Active, t.kind \in {"list", "run"}, NEW files \in Reads(t)
  PROVE  files \in Files
<1>1. t.data.files \in Files /\ disk \in Files
  BY TypesAre DEF Typed, ListData, RunData
<1>2. \A n \in DOMAIN disk : n \in Name /\ disk[n] \in Text
  BY <1>1, FilesAt
<1>3. \A n \in DOMAIN disk : With(t.data.files, n, disk[n]) \in Files
  BY <1>1, <1>2, FilesWritten
<1> QED
  BY <1>1, <1>3 DEF Reads

LEMMA ReadNextTypes == ASSUME NEW t \in Active PROVE TInv /\ ReadNext(t) => TInv'
<1> SUFFICES ASSUME TInv, ReadNext(t) PROVE TInv'
  OBVIOUS
<1>1. PICK files \in Reads(t) : Goes(t, {Then(t, "read", [t.data EXCEPT !.files = files])})
  BY DEF ReadNext
<1> DEFINE d == [t.data EXCEPT !.files = files]
           u == Then(t, "read", d)
<1>2. /\ t.kind \in {"list", "run"} /\ t.to \in File /\ t.path \in File
      /\ t.kind = "list" => t.data \in ListData
      /\ t.kind = "run" => t.data \in RunData
  BY TypesAre DEF ReadNext, Typed
<1>3. files \in Files
  BY <1>2, ReadsTyped
<1>4. /\ t.kind = "list" => d \in ListData
      /\ t.kind = "run" => d \in RunData
  BY <1>2, <1>3 DEF ListData, RunData
<1>5. disk' \in Files /\ UNCHANGED <<page, open, cm, saving, running, want, kept, rest>>
  BY TypesAre DEF ReadNext
<1>6. Goes(t, {u})
  BY <1>1
<1> HIDE DEF d
<1>7. Typed(u)
  <2>1. u.kind = t.kind /\ IsTask(u) /\ u.pc = "read" /\ u.path = t.path /\ u.to = t.to /\ u.data = d
    BY TaskFields DEF Then
  <2> HIDE DEF u
  <2> QED
    BY <1>2, <1>4, <2>1 DEF Typed
<1> HIDE DEF u
<1>8. \A v \in {u} : Typed(v)
  BY <1>7
<1> QED
  BY <1>5, <1>6, <1>8, LearnTypes

LEMMA ReadFailsTypes == ASSUME NEW t \in Active PROVE TInv /\ ReadFails(t) => TInv'
<1> SUFFICES ASSUME TInv, ReadFails(t) PROVE TInv'
  OBVIOUS
<1>1. Goes(t, {}) /\ disk' \in Files /\ UNCHANGED <<page, open, cm, saving, running, want, kept, rest>>
  BY TypesAre DEF ReadFails
<1> QED
  BY <1>1, LearnTypes

LEMMA ListApplyTypes == ASSUME NEW t \in Active PROVE TInv /\ ListApply(t) => TInv'
<1> SUFFICES ASSUME TInv, ListApply(t) PROVE TInv'
  OBVIOUS
<1>0. kept' \subseteq Name /\ past' \subseteq Name \X Text
  BY TypesAre DEF ListApply, rest
<1>1. PICK read \in Reads(t) :
        LET files == Restrict(read, {n \in t.data.names : read[n] # Binary}) IN
        /\ All(t, read)
        /\ tabs' = t.data.names /\ SetFiles(files)
        /\ IF filename \in DOMAIN files THEN UNCHANGED filename /\ Goes(t, {})
           ELSE /\ filename' \in (IF files = <<>> THEN {None} ELSE DOMAIN files)
                /\ Goes(t, {OpenTask(filename')})
        /\ raced' = (raced \/ Outdated(t, files) \/ (filename' # filename /\ Changing(filename')))
  BY DEF ListApply
<1> DEFINE S == {n \in t.data.names : read[n] # Binary}
           files == Restrict(read, S)
<1>2. t.kind = "list" /\ t.data.names \subseteq Name
  BY TypesAre DEF ListApply, Typed, ListData
<1>3. read \in Files /\ S \subseteq DOMAIN read
  BY <1>1, <1>2, ReadsTyped DEF All
<1> HIDE DEF S
<1>4. files \in Files /\ DOMAIN files \subseteq Name
  BY <1>3, FilesRestricted, FilesAt
<1>5. SetFiles(files) /\ UNCHANGED saving
  BY <1>1 DEF S, ListApply
<1>6. /\ filename' = filename \/ filename' \in {None} \union DOMAIN files
      /\ \E Q \in {{}, {OpenTask(filename')}} : Goes(t, Q)
      /\ raced' \in BOOLEAN /\ tabs' = t.data.names
  BY <1>1 DEF S
<1>7. filename' \in File
  BY <1>4, <1>6, TypesAre DEF File
<1> HIDE DEF files
<1>8. EditorTypes'
  BY <1>4, <1>5, SetFilesTypes, TypesAre
<1>9. UNCHANGED <<disk, revision, open, running, want>> /\ UNCHANGED <<edits, ops>>
  BY DEF ListApply
<1>10. \A Q \in {{}, {OpenTask(filename')}} : \A u \in Q : Typed(u)
  BY <1>7, TypedSpawned
<1> QED
  BY <1>0, <1>2, <1>6, <1>7, <1>8, <1>9, <1>10, StepTypes, TypesAre

LEMMA RemoveEntryTypes == ASSUME NEW t \in Active PROVE TInv /\ RemoveEntry(t) => TInv'
<1> SUFFICES ASSUME TInv, RemoveEntry(t) PROVE TInv'
  OBVIOUS
<1>0. kept' \subseteq Name /\ past' \subseteq Name \X Text
  BY TypesAre DEF RemoveEntry, rest
<1>1. disk' \in Files /\ want' \in Files
  <2>1. disk \in Files /\ want \in Files
    BY TypesAre
  <2>2. Without(disk, t.path) \in Files /\ Without(want, t.path) \in Files
    BY <2>1, FilesWithout
  <2> QED
    BY <2>1, <2>2 DEF RemoveEntry
<1>2. revision' \in Nat
  BY TypesAre DEF RemoveEntry
<1>3. \E S \in {{}, {ListTask(revision')}} : Goes(t, S)
  BY DEF RemoveEntry
<1>4. \A S \in {{}, {ListTask(revision')}} : \A u \in S : Typed(u)
  BY <1>2, TypedSpawned
<1>5. EditorTypes'
  BY EditorSame, TypesAre DEF RemoveEntry
<1>6. UNCHANGED <<tabs, filename, open, running, raced>> /\ UNCHANGED <<edits, ops>>
  BY DEF RemoveEntry, rest
<1> QED
  BY <1>0, <1>1, <1>2, <1>3, <1>4, <1>5, <1>6, StepTypes, TypesAre

LEMMA RenameReadTypes == ASSUME NEW t \in Active PROVE TInv /\ RenameRead(t) => TInv'
<1> SUFFICES ASSUME TInv, RenameRead(t) PROVE TInv'
  OBVIOUS
<1> DEFINE u == Then(t, "write", disk[t.path])
<1>1. t.kind = "rename" /\ t.path \in Name /\ t.to \in Name
  BY TypesAre DEF RenameRead, Typed, File
<1>2. t.path \in DOMAIN disk => disk[t.path] \in Text
  BY TypesAre, FilesAt
<1>3. IsTask(u) /\ u.kind = "rename" /\ u.pc = "write" /\ u.path = t.path /\ u.to = t.to /\ u.data = disk[t.path]
  BY <1>1, TaskFields DEF Then
<1>4. /\ disk' \in Files /\ UNCHANGED <<page, open, cm, saving, running, want, kept, rest>>
      /\ IF t.path \in DOMAIN disk THEN Goes(t, {u}) ELSE Goes(t, {})
  BY TypesAre DEF RenameRead
<1> HIDE DEF u
<1>5. t.path \in DOMAIN disk => Typed(u)
  BY <1>1, <1>2, <1>3, NamesAssumption DEF Typed, File
<1>6. CASE t.path \in DOMAIN disk
  <2>1. Goes(t, {u}) /\ \A v \in {u} : Typed(v)
    BY <1>4, <1>5, <1>6
  <2> QED
    BY <1>4, <2>1, LearnTypes
<1>7. CASE t.path \notin DOMAIN disk
  BY <1>4, <1>7, LearnTypes
<1> QED
  BY <1>6, <1>7

LEMMA RenameWriteTypes == ASSUME NEW t \in Active PROVE TInv /\ RenameWrite(t) => TInv'
<1> SUFFICES ASSUME TInv, RenameWrite(t) PROVE TInv'
  OBVIOUS
<1> DEFINE u == Then(t, "remove", t.data)
<1>1. t.kind = "rename" /\ t.path \in Name /\ t.to \in Name /\ t.data \in Text
  BY TypesAre DEF RenameWrite, Typed, File
<1>2. disk' \in Files
  BY <1>1, FilesWritten, TypesAre DEF RenameWrite
<1>3. IsTask(u) /\ u.kind = "rename" /\ u.pc = "remove" /\ u.path = t.path /\ u.to = t.to
  BY <1>1, TaskFields DEF Then
<1>4. Goes(t, {u}) /\ UNCHANGED <<page, open, cm, saving, running, want, kept, rest>>
  BY DEF RenameWrite
<1> HIDE DEF u
<1>5. \A v \in {u} : Typed(v)
  BY <1>1, <1>3, NamesAssumption DEF Typed, File
<1> QED
  BY <1>2, <1>4, <1>5, LearnTypes

LEMMA RenameRemoveTypes == ASSUME NEW t \in Active PROVE TInv /\ RenameRemove(t) => TInv'
<1> SUFFICES ASSUME TInv, RenameRemove(t) PROVE TInv'
  OBVIOUS
<1>0. kept' \subseteq Name /\ past' \subseteq Name \X Text
  BY TypesAre DEF RenameRemove, rest
<1>1. t.to \in Name
  BY TypesAre DEF RenameRemove, Typed, File
<1>2. want \in Files /\ disk \in Files
  BY TypesAre
<1>3. disk' \in Files
  <2>1. Without(disk, t.path) \in Files
    BY <1>2, FilesWithout
  <2> QED
    BY <1>2, <2>1 DEF RenameRemove
<1>4. want' \in Files
  <2>1. t.path \in DOMAIN want => want[t.path] \in Text
    BY <1>2, FilesAt
  <2>2. Without(want, t.path) \in Files
    BY <1>2, FilesWithout
  <2>3. t.path \in DOMAIN want => With(Without(want, t.path), t.to, want[t.path]) \in Files
    BY <1>1, <2>1, <2>2, FilesWritten
  <2> QED
    BY <1>2, <2>3 DEF RenameRemove
<1>5. revision' \in Nat /\ tabs' \subseteq Name /\ filename' \in File
  BY <1>1, TypesAre DEF RenameRemove, File, page
<1>6. \E S \in {{}, {OpenTask(filename'), ListTask(revision')}} : Goes(t, S)
  BY DEF RenameRemove
<1>7. \A S \in {{}, {OpenTask(filename'), ListTask(revision')}} : \A u \in S : Typed(u)
  BY <1>5, TypedSpawned
<1>8. EditorTypes'
  BY EditorSame, TypesAre DEF RenameRemove
<1>9. UNCHANGED <<open, running, raced>> /\ UNCHANGED <<edits, ops>>
  BY DEF RenameRemove, rest
<1> QED
  BY <1>0, <1>3, <1>4, <1>5, <1>6, <1>7, <1>8, <1>9, StepTypes, TypesAre

LEMMA AddWriteTypes == ASSUME NEW t \in Active PROVE TInv /\ AddWrite(t) => TInv'
<1> SUFFICES ASSUME TInv, AddWrite(t) PROVE TInv'
  OBVIOUS
<1>0. kept' \subseteq Name /\ past' \subseteq Name \X Text
  BY TypesAre DEF AddWrite, rest
<1>1. t.path \in Name
  BY TypesAre DEF AddWrite, Typed, File
<1>2. disk' \in Files /\ want' \in Files
  BY <1>1, FilesWritten, TypesAre, TextsThere DEF AddWrite
<1>3. revision' \in Nat /\ tabs' \subseteq Name /\ filename' \in File
  BY <1>1, TypesAre DEF AddWrite, File
<1>4. Goes(t, {OpenTask(t.path), ListTask(revision')})
  BY DEF AddWrite
<1>5. \A u \in {OpenTask(t.path), ListTask(revision')} : Typed(u)
  BY <1>1, <1>3, TypedSpawned DEF File
<1>6. EditorTypes'
  BY EditorSame, TypesAre DEF AddWrite
<1>7. UNCHANGED <<open, running, raced>> /\ UNCHANGED <<edits, ops>>
  BY DEF AddWrite, rest
<1> QED
  BY <1>0, <1>2, <1>3, <1>4, <1>5, <1>6, <1>7, StepTypes, TypesAre

LEMMA ImportNextTypes == ASSUME NEW t \in Active PROVE TInv /\ ImportNext(t) => TInv'
<1> SUFFICES ASSUME TInv, ImportNext(t) PROVE TInv'
  OBVIOUS
<1>0. kept' \subseteq Name /\ past' \subseteq Name \X Text
  BY TypesAre DEF ImportNext, rest
<1>1. t.kind = "import" /\ t.data \in Files /\ t.to \in File
  BY TypesAre DEF ImportNext, Typed
<1>2. EditorTypes'
  BY EditorSame, TypesAre DEF ImportNext
<1>3. UNCHANGED <<disk, want, open, running, raced>> /\ UNCHANGED <<edits, ops>>
  BY DEF ImportNext, rest
<1>4. ASSUME NEW n \in DOMAIN t.data, Goes(t, {Task("import", "write", n, t.to, t.data)}), UNCHANGED page
      PROVE  TInv'
  <2> DEFINE u == Task("import", "write", n, t.to, t.data)
  <2>1. IsTask(u) /\ u.kind = "import" /\ u.pc = "write" /\ u.path = n /\ u.to = t.to /\ u.data = t.data
    BY TaskFields
  <2>2. Goes(t, {u}) /\ n \in File
    BY <1>1, <1>4, FilesAt DEF File
  <2> HIDE DEF u
  <2>3. \A v \in {u} : Typed(v)
    BY <1>1, <2>1, <2>2 DEF Typed
  <2>4. UNCHANGED <<tabs, revision, filename>>
    BY <1>4 DEF page
  <2> QED
    BY <1>0, <1>2, <1>3, <2>2, <2>3, <2>4, StepTypes, TypesAre
<1>5. CASE DOMAIN t.data \ tabs = {}
  <2>1. filename' \in File /\ revision' \in Nat /\ UNCHANGED tabs
    BY <1>1, <1>5, TypesAre DEF ImportNext
  <2>2. \E S \in {{ListTask(revision')}, {ListTask(revision'), OpenTask(t.to)}} : Goes(t, S)
    <3>1. Goes(t, {ListTask(revision')} \union (IF t.to = None THEN {} ELSE {OpenTask(t.to)}))
      BY <1>5 DEF ImportNext
    <3>2. /\ {ListTask(revision')} \union {} = {ListTask(revision')}
          /\ {ListTask(revision')} \union {OpenTask(t.to)} = {ListTask(revision'), OpenTask(t.to)}
      OBVIOUS
    <3> QED
      BY <3>1, <3>2
  <2>3. \A S \in {{ListTask(revision')}, {ListTask(revision'), OpenTask(t.to)}} : \A u \in S : Typed(u)
    BY <1>1, <2>1, TypedSpawned
  <2> QED
    BY <1>0, <1>2, <1>3, <2>1, <2>2, <2>3, StepTypes, TypesAre
<1> QED
  BY <1>4, <1>5 DEF ImportNext

LEMMA ImportWriteTypes == ASSUME NEW t \in Active PROVE TInv /\ ImportWrite(t) => TInv'
<1> SUFFICES ASSUME TInv, ImportWrite(t) PROVE TInv'
  OBVIOUS
<1>0. kept' \subseteq Name /\ past' \subseteq Name \X Text
  BY TypesAre DEF ImportWrite, rest
<1> DEFINE m == IF t.to = None /\ t.data[t.path] # Binary THEN t.path ELSE t.to
           u == Task("import", "next", None, m, Without(t.data, t.path))
<1>1. t.kind = "import" /\ t.data \in Files /\ t.to \in File /\ t.path \in DOMAIN t.data
  BY TypesAre DEF ImportWrite, Typed
<1>2. t.path \in Name /\ t.data[t.path] \in Text
  BY <1>1, FilesAt
<1>3. disk' \in Files /\ want' \in Files
  BY <1>2, FilesWritten, TypesAre DEF ImportWrite
<1>4. tabs' \subseteq Name
  BY <1>2, TypesAre DEF ImportWrite
<1>5. m \in File /\ Without(t.data, t.path) \in Files
  BY <1>1, <1>2, FilesWithout DEF File
<1>6. Goes(t, {u})
  BY DEF ImportWrite
<1> HIDE DEF m
<1>7. IsTask(u) /\ u.kind = "import" /\ u.pc = "next" /\ u.path = None /\ u.to = m /\ u.data = Without(t.data, t.path)
  BY TaskFields
<1> HIDE DEF u
<1>8. \A v \in {u} : Typed(v)
  BY <1>5, <1>7 DEF Typed, File
<1>9. EditorTypes'
  BY EditorSame, TypesAre DEF ImportWrite
<1>10. UNCHANGED <<revision, filename, open, running, raced>> /\ UNCHANGED <<edits, ops>>
  BY DEF ImportWrite, rest
<1> QED
  BY <1>0, <1>3, <1>4, <1>6, <1>8, <1>9, <1>10, StepTypes, TypesAre

LEMMA ImportSkipsTypes == ASSUME NEW t \in Active PROVE TInv /\ ImportSkips(t) => TInv'
<1> SUFFICES ASSUME TInv, ImportSkips(t) PROVE TInv'
  OBVIOUS
<1> DEFINE u == Task("import", "next", None, t.to, Without(t.data, t.path))
<1>1. t.kind = "import" /\ t.data \in Files /\ t.to \in File
  BY TypesAre DEF ImportSkips, Typed
<1>2. Without(t.data, t.path) \in Files
  BY <1>1, FilesWithout
<1>3. Goes(t, {u}) /\ disk' \in Files /\ UNCHANGED <<page, open, cm, saving, running, want, kept, rest>>
  BY TypesAre DEF ImportSkips
<1>4. IsTask(u) /\ u.kind = "import" /\ u.pc = "next" /\ u.path = None /\ u.to = t.to /\ u.data = Without(t.data, t.path)
  BY TaskFields
<1> HIDE DEF u
<1>5. \A v \in {u} : Typed(v)
  BY <1>1, <1>2, <1>4 DEF Typed, File
<1> QED
  BY <1>3, <1>5, LearnTypes

LEMMA UploadFailsTypes == ASSUME NEW t \in Active PROVE TInv /\ UploadFails(t) => TInv'
<1> SUFFICES ASSUME TInv, UploadFails(t) PROVE TInv'
  OBVIOUS
<1>1. Goes(t, {}) /\ disk' \in Files /\ UNCHANGED <<page, open, cm, saving, running, want, kept, rest>>
  BY TypesAre DEF UploadFails
<1> QED
  BY <1>1, LearnTypes

LEMMA UploadApplyTypes == ASSUME NEW t \in Active PROVE TInv /\ UploadApply(t) => TInv'
<1> SUFFICES ASSUME TInv, UploadApply(t) PROVE TInv'
  OBVIOUS
<1>1. t.path \in Name /\ t.data \in Text
  BY TypesAre DEF UploadApply, Typed, File
<1>2. Rewrite(t.path, t.data)
  BY DEF UploadApply
<1>0. want' \in Files /\ kept' \subseteq Name /\ past' \subseteq Name \X Text
  BY <1>1, <1>2, RewriteTypes
<1>3. EditorTypes'
  <2>1. dirty' \in BOOLEAN /\ writes' \subseteq Name /\ writer' \in Writer
    BY OnchangeTypes, TypesAre DEF UploadApply, EditorTypes
  <2> QED
    BY <1>1, <2>1, TypesAre DEF UploadApply, EditorTypes
<1>4. raced' \in BOOLEAN
  BY DEF UploadApply
<1>5. UNCHANGED <<disk, tabs, revision, filename, open, running>> /\ UNCHANGED <<edits, ops>> /\ Goes(t, {})
  BY DEF UploadApply, page
<1> QED
  BY <1>0, <1>3, <1>4, <1>5, StepTypes, TypesAre

LEMMA RunSendTypes == ASSUME NEW t \in Active PROVE TInv /\ RunSend(t) => TInv'
<1> SUFFICES ASSUME TInv, RunSend(t) PROVE TInv'
  OBVIOUS
<1>0. kept' \subseteq Name /\ past' \subseteq Name \X Text
  BY TypesAre DEF RunSend, rest
<1>1. EditorTypes'
  BY EditorSame, TypesAre DEF RunSend
<1>2. /\ UNCHANGED <<disk, tabs, revision, filename, open, want, raced>> /\ UNCHANGED <<edits, ops>>
      /\ Goes(t, {}) /\ running' \in {"no", "asked", "sent"}
  BY DEF RunSend, page, rest
<1> QED
  BY <1>0, <1>1, <1>2, StepTypes, TypesAre

LEMMA RunEndsTypes == TInv /\ RunEnds => TInv'
<1> SUFFICES ASSUME TInv, RunEnds PROVE TInv'
  OBVIOUS
<1>0. kept' \subseteq Name /\ past' \subseteq Name \X Text
  BY TypesAre DEF RunEnds, rest
<1>1. EditorTypes'
  BY EditorSame, TypesAre DEF RunEnds
<1>2. /\ UNCHANGED <<disk, tabs, revision, filename, open, want, raced>> /\ UNCHANGED <<edits, ops>>
      /\ running' \in {"no", "asked", "sent"} /\ tasks' = tasks
  BY DEF RunEnds, page, rest
<1>3. Active' \subseteq Active \union {} /\ IsABag(tasks')
  BY <1>2, TypesAre DEF Active
<1> QED
  BY <1>0, <1>1, <1>2, <1>3, TypesKept, TypesAre

LEMMA StutterTypes == TInv /\ UNCHANGED vars => TInv'
<1> SUFFICES ASSUME TInv, UNCHANGED vars PROVE TInv'
  OBVIOUS
<1>0. kept' \subseteq Name /\ past' \subseteq Name \X Text
  BY TypesAre DEF vars, rest
<1>1. EditorTypes'
  BY EditorSame, TypesAre DEF vars
<1>2. UNCHANGED <<disk, tabs, revision, filename, open, running, tasks, want, raced, edits, ops>>
  BY DEF vars, page
<1>3. Active' \subseteq Active \union {} /\ IsABag(tasks')
  BY <1>2, TypesAre DEF Active
<1> QED
  BY <1>0, <1>1, <1>2, <1>3, TypesKept, TypesAre

LEMMA NextTypes == TInv /\ [Next]_vars => TInv'
<1> SUFFICES ASSUME TInv, [Next]_vars PROVE TInv'
  OBVIOUS
<1>1. CASE User
  BY <1>1, TypeTypes, ServerEditsTypes, ClickTabTypes, JumpTypes, ClickRemoveTypes, CommitRenameTypes,
     ClickAddTypes, DropTypes, ClickUploadTypes, ClickRunTypes DEF User
<1>2. CASE \E t \in Active : Step(t)
  <2>1. PICK t \in Active : Step(t)
    BY <1>2
  <2> QED
    BY <2>1, WaitSyncTypes, OpenReadTypes, OpenApplyTypes, ListEntriesTypes, ReadNextTypes, ReadFailsTypes,
       ListApplyTypes, RemoveEntryTypes, RenameReadTypes, RenameWriteTypes, RenameRemoveTypes,
       AddWriteTypes, ImportNextTypes, ImportWriteTypes, ImportSkipsTypes, UploadApplyTypes, UploadFailsTypes,
       RunSendTypes DEF Step
<1> QED
  BY <1>1, <1>2, WriterTaskTypes, RunEndsTypes, StutterTypes DEF Next

\* Everything has its type, for any names, texts and bounds: the editor keeps no
\* state for "no file", and a task holds what its next step needs.
THEOREM EditorTypesHold == SafeSpec => []TypeOK
<1>1. Init => TInv
  BY InitTypes
<1>2. TInv /\ [Next]_vars => TInv'
  BY NextTypes
<1>3. TInv => TypeOK
  BY DEF TInv
<1> QED
  BY <1>1, <1>2, <1>3, PTL DEF SafeSpec

----------------------------------------------------------------------------
(* The tasks, apart from one another.                                      *)

LEMMA WhatIsMine ==
  ASSUME NEW t, Typed(t)
  PROVE  /\ t.kind \in {"open", "list", "run", "upload"} => Mine(t) = {}
         /\ Changer(t) => Mine(t) = {t.path, t.to} \ {None} /\ t.path \in Mine(t)
         /\ t.kind = "rename" => Changer(t) /\ t.to \in Mine(t)
         /\ t.kind = "import" => Mine(t) = ({t.path, t.to} \union DOMAIN t.data) \ {None}
BY DEF Mine, Changes, Typed, Changer

\* An opening that is past waiting may show what it might show before.
GoodStays ==
  \A x \in Active' : x.kind = "open" /\ x.pc # "wait" /\ x.path \in DOMAIN want =>
    \A y : Good(x.path, y) => Good(x.path, y)'

\* A task goes, and leaves none but openings and listings.
LEMMA Leaving ==
  ASSUME TInv, Tasks, NEW t \in Active, NEW S, Goes(t, S),
         \A x \in Active \intersect Active' : x # t \/ Mine(t) = {} => Sound(x)',
         \A s \in S : s.kind \in {"open", "list"} /\ Typed(s) /\ Sound(s)',
         \A s \in S, x \in Active \ {t} : s.kind = "open" /\ Changer(x) => s.path \notin Mine(x),
         \A x, y \in Active \ {t} : x # y /\ x.kind = "rename" /\ Changer(y) => filename' \notin Mine(y)
  PROVE  Tasks'
<1>1. \A x \in Active \union S : Typed(x)
  BY TypesAre
<1>2. \A s \in S : Mine(s) = {} /\ ~Changer(s) /\ s.kind # "rename"
  BY <1>1, WhatIsMine DEF Changer
<1>3. Mine(t) # {} => t \notin Active'
  BY <1>2, GoesCounts, TypesAre DEF Tasks
<1>4. \A x \in Active' : x \in S \/ (x \in Active /\ (x # t \/ Mine(t) = {}))
  BY <1>3, GoesActive, TypesAre
<1>5. \A x \in Active' : Sound(x)'
  BY <1>4
<1>6. \A x \in Active' : Mine(x) # {} => tasks'[x] = 1
  <2> SUFFICES ASSUME NEW x \in Active', Mine(x) # {} PROVE tasks'[x] = 1
    OBVIOUS
  <2>1. x \in Active \ S /\ x # t
    BY <1>2, <1>4
  <2> QED
    BY <2>1, GoesCounts, TypesAre DEF Tasks
<1>7. \A x, y \in Active' : x # y => Apart(x, y)'
  <2> SUFFICES ASSUME NEW x \in Active', NEW y \in Active', x # y PROVE Apart(x, y)'
    OBVIOUS
  <2>1. Mine(x) \intersect Mine(y) = {}
    BY <1>2, <1>4 DEF Tasks, Apart
  <2>2. ASSUME x.kind = "open", Changer(y) PROVE x.path \notin Mine(y)
    <3>1. y \in Active \ {t}
      BY <1>1, <1>2, <1>4, <2>2, WhatIsMine
    <3> QED
      BY <1>4, <2>2, <3>1 DEF Tasks, Apart
  <2>3. ASSUME x.kind = "rename", Changer(y) PROVE filename' \notin Mine(y)
    <3>1. x \in Active \ {t} /\ y \in Active \ {t}
      BY <1>1, <1>2, <1>4, <2>3, WhatIsMine
    <3> QED
      BY <2>3, <3>1
  <2> QED
    BY <2>1, <2>2, <2>3 DEF Apart
<1> QED
  BY <1>5, <1>6, <1>7 DEF Tasks

\* A task goes on.
LEMMA Continuing ==
  ASSUME TInv, Tasks, NEW t \in Active, NEW u, Typed(u), Goes(t, {u}), Mine(t) # {} => u # t, u.kind = t.kind,
         t.kind = "open" => u.path = t.path,
         Mine(u) \subseteq Mine(t), UNCHANGED filename,
         \A x \in Active : x # t \/ Mine(t) = {} => Sound(x)', Sound(u)'
  PROVE  Tasks'
<1>1. \A x \in Active : Typed(x)
  BY TypesAre
<1>2. Mine(t) # {} => t \notin Active'
  BY GoesCounts, TypesAre DEF Tasks
<1>3. \A x \in Active' : x = u \/ (x \in Active /\ (x # t \/ Mine(t) = {}))
  BY <1>2, GoesActive, TypesAre
<1>4. Mine(u) # {} => u \notin Active
  BY DEF Tasks, Apart
<1>5. \A x \in Active' : Sound(x)'
  BY <1>3
<1>6. \A x \in Active' : Mine(x) # {} => tasks'[x] = 1
  <2> SUFFICES ASSUME NEW x \in Active', Mine(x) # {} PROVE tasks'[x] = 1
    OBVIOUS
  <2>1. CASE x = u
    BY <1>4, <2>1, GoesCounts, TypesAre
  <2>2. CASE x # u
    <3>1. x \in Active /\ x # t
      BY <1>3, <2>2
    <3> QED
      BY <2>2, <3>1, GoesCounts, TypesAre DEF Tasks
  <2> QED
    BY <2>1, <2>2
<1>7. \A x \in Active' : x # u => x \in Active
  BY <1>3
<1>8. \A x \in Active' : x # u /\ x = t => Mine(t) = {}
  BY <1>3
<1>9. \A x, y \in Active' : x # y => Apart(x, y)'
  <2> SUFFICES ASSUME NEW x \in Active', NEW y \in Active', x # y PROVE Apart(x, y)'
    OBVIOUS
  <2> DEFINE at(z) == IF z = u THEN t ELSE z
  <2>1. at(x) \in Active /\ at(y) \in Active
    BY <1>7
  <2>2. Mine(x) \subseteq Mine(at(x)) /\ Mine(y) \subseteq Mine(at(y))
    OBVIOUS
  <2>3. x.kind = at(x).kind /\ y.kind = at(y).kind /\ (x.kind = "open" => x.path = at(x).path)
    OBVIOUS
  <2>4. at(x) = at(y) => Mine(t) = {} /\ at(x) = t
    BY <1>8
  <2>5. CASE at(x) = at(y)
    <3>1. Mine(x) = {} /\ Mine(y) = {}
      BY <2>2, <2>4, <2>5
    <3> QED
      BY <3>1 DEF Apart
  <2>6. CASE at(x) # at(y)
    <3> HIDE DEF at
    <3>1. Apart(at(x), at(y))
      BY <2>1, <2>6 DEF Tasks
    <3> QED
      BY <2>2, <2>3, <3>1 DEF Apart, Changer
  <2> QED
    BY <2>5, <2>6
<1> QED
  BY <1>5, <1>6, <1>9 DEF Tasks

\* A click spawns tasks.
LEMMA Spawning ==
  ASSUME TInv, Tasks, NEW S, Spawn(S),
         \A x \in Active \union S : Sound(x)',
         \A s \in S : s \in Active => Mine(s) = {},
         \A x, y \in Active \union S : x # y => Apart(x, y)'
  PROVE  Tasks'
<1>1. Active' = Active \union S
  BY SpawnActive, TypesAre
<1>2. \A x \in Active' : Mine(x) # {} => tasks'[x] = 1
  BY <1>1, SpawnActive, TypesAre DEF Tasks
<1> QED
  BY <1>1, <1>2 DEF Tasks

\* The copies of renames stay while these have not ended.
LEMMA StillCopied ==
  ASSUME NEW t, Active \ {t} \subseteq Active', ~(t.kind = "rename" /\ t.pc = "remove")
  PROVE  \A n : Copied(n) => Copied(n)'
BY DEF Copied

----------------------------------------------------------------------------
(* Steps that change nothing but the tasks.                                *)

LEMMA SoundSame ==
  ASSUME UNCHANGED <<disk, want, past, cm, tabs, revision, filename, writes, writer>>
  PROVE  \A x : Sound(x) => Sound(x)'
BY DEF Sound, SoundOpen, SoundList, SoundRemove, SoundRename, SoundAdd, SoundImport, Readable, Good, Unsaved,
       Known, cm

LEMMA SoundStays ==
  ASSUME UNCHANGED <<disk, want, tabs, revision, filename, writes, writer>>, GoodStays
  PROVE  \A x \in Active' : Sound(x) => Sound(x)'
<1> SUFFICES ASSUME NEW x \in Active', Sound(x) PROVE Sound(x)'
  OBVIOUS
<1>1. SoundOpen(x)'
  BY DEF Sound, SoundOpen, Readable, GoodStays
<1> QED
  BY <1>1 DEF Sound, SoundList, SoundRemove, SoundRename, SoundAdd, SoundImport, Unsaved

\* The texts that an opening may show, while no text is replaced, and when one is.
LEMMA GoodSame == ASSUME UNCHANGED <<cm, want, past>> PROVE GoodStays
BY DEF GoodStays, Good, Known, cm

LEMMA GoodKnown ==
  ASSUME UNCHANGED <<want, past>>, \A n \in DOMAIN want : Known(n) => Known(n)'
  PROVE  GoodStays
BY DEF GoodStays, Good

LEMMA RewriteStays ==
  ASSUME NEW n \in DOMAIN want, want[n] # Binary, NEW text, text # Binary, Rewrite(n, text), Active' \subseteq Active,
         Known(n)', \A m \in DOMAIN want : m # n /\ Known(m) => Known(m)'
  PROVE  GoodStays
<1> SUFFICES ASSUME NEW x \in Active', x.kind = "open", x.pc # "wait", x.path \in DOMAIN want, NEW y, Good(x.path, y)
             PROVE  Good(x.path, y)'
  BY DEF GoodStays
<1>1. CASE x.path = n
  <2>1. Reopening(n)
    BY <1>1 DEF Reopening
  <2>2. want'[n] = text /\ past' = past \union {<<n, want[n]>>}
    BY <2>1 DEF Rewrite, With, Had
  <2>3. <<n, y>> \in past' /\ y # Binary
    BY <1>1, <2>2 DEF Good
  <2> QED
    BY <1>1, <2>2, <2>3 DEF Good
<1>2. CASE x.path # n
  <2>1. past \subseteq past' /\ (x.path \in DOMAIN want => want'[x.path] = want[x.path])
    BY <1>2 DEF Rewrite, With
  <2> QED
    BY <1>2, <2>1 DEF Good
<1> QED
  BY <1>1, <1>2

LEMMA SavedSame ==
  ASSUME Saved, \A n : Copied(n) => Copied(n)', UNCHANGED <<disk, page, cm, saving, want>>
  PROVE  Saved'
<1> USE DEF page, cm, saving
<1>1. ActiveThere' /\ WriterOK'
  BY DEF Saved, ActiveThere, WriterOK
<1>2. \A n : TextOf(n)' = TextOf(n) /\ (Known(n) => Known(n)')
  BY DEF TextOf, Known
<1>3. Pending'
  BY <1>2 DEF Saved, Pending
<1>4. OnDisk'
  BY DEF Saved, OnDisk, Unsaved
<1> QED
  BY <1>1, <1>3, <1>4 DEF Saved

LEMMA LearnKeeps ==
  ASSUME TInv, TimeGiven, NEW t \in Active, NEW u, Goes(t, {u}), Typed(u), Sound(u), Mine(t) # {} => u # t,
         u.kind = t.kind, t.kind = "open" => u.path = t.path, Mine(u) \subseteq Mine(t),
         ~(t.kind = "rename" /\ t.pc = "remove"),
         UNCHANGED <<disk, page, cm, saving, want, past>>
  PROVE  TimeGiven'
<1>1. \A x : Sound(x) => Sound(x)'
  BY SoundSame DEF page, saving
<1>2. \A n : Copied(n) => Copied(n)'
  BY StillCopied, GoesActive, TypesAre
<1>3. Saved'
  BY <1>2, SavedSame DEF TimeGiven
<1>4. UNCHANGED filename /\ Tasks /\ Sound(u)' /\ \A x \in Active : Sound(x)'
  BY <1>1 DEF TimeGiven, Tasks, page
<1>5. Tasks'
  BY <1>4, Continuing
<1> QED
  BY <1>3, <1>5 DEF TimeGiven

LEMMA EndKeeps ==
  ASSUME TInv, TimeGiven, NEW t \in Active, Goes(t, {}), ~(t.kind = "rename" /\ t.pc = "remove"),
         UNCHANGED <<disk, page, cm, saving, want>>, GoodStays
  PROVE  TimeGiven'
<1>1. \A x \in Active' : Sound(x) => Sound(x)'
  BY SoundStays DEF page, saving
<1>2. \A n : Copied(n) => Copied(n)'
  BY StillCopied, GoesActive, TypesAre
<1>3. Saved'
  BY <1>2, SavedSame DEF TimeGiven
<1>4. UNCHANGED filename /\ Tasks /\ \A x \in Active \intersect Active' : Sound(x)'
  BY <1>1 DEF TimeGiven, Tasks, page
<1>5. \A x, y \in Active \ {t} : x # y /\ x.kind = "rename" /\ Changer(y) => filename' \notin Mine(y)
  BY <1>4 DEF Tasks, Apart
<1>6. Tasks'
  BY <1>4, <1>5, Leaving
<1> QED
  BY <1>3, <1>6 DEF TimeGiven

\* A click that leaves the page as it is, and spawns one task.
LEMMA ClickKeeps ==
  ASSUME TInv, TimeGiven, NEW u, Spawn({u}), Sound(u), Typed(u),
         u.kind \notin {"open", "list"},
         \A x \in Active :
           /\ Mine(u) \intersect Mine(x) = {}
           /\ x.kind = "open" /\ Changer(u) => x.path \notin Mine(u)
           /\ u.kind = "rename" /\ Changer(x) => filename \notin Mine(x)
           /\ x.kind = "rename" /\ Changer(u) => filename \notin Mine(u),
         UNCHANGED <<disk, page, cm, saving, want, past>>
  PROVE  TimeGiven'
<1>1. \A x : Sound(x) => Sound(x)'
  BY SoundSame DEF page, saving
<1>2. Active' = Active \union {u}
  BY SpawnActive, TypesAre
<1>3. \A n : Copied(n) => Copied(n)'
  BY <1>2 DEF Copied
<1>4. Saved'
  BY <1>3, SavedSame DEF TimeGiven
<1>5. Tasks /\ UNCHANGED filename
  BY DEF TimeGiven, page
<1>6. \A x \in Active \union {u} : Sound(x)'
  BY <1>1, <1>5 DEF Tasks
<1>7. \A s \in {u} : s \in Active => Mine(s) = {}
  OBVIOUS
<1>8. \A x, y \in Active \union {u} : x # y => Apart(x, y)'
  <2> SUFFICES ASSUME NEW x \in Active \union {u}, NEW y \in Active \union {u}, x # y
               PROVE  Apart(x, y)'
    OBVIOUS
  <2>1. CASE x \in Active /\ y \in Active
    BY <1>5, <2>1 DEF Tasks, Apart
  <2>2. CASE x \in Active /\ y = u
    BY <1>5, <2>2 DEF Apart
  <2>3. CASE x = u /\ y \in Active
    BY <1>5, <2>3 DEF Apart
  <2> QED
    BY <2>1, <2>2, <2>3
<1>9. Tasks'
  BY <1>5, <1>6, <1>7, <1>8, Spawning
<1> QED
  BY <1>4, <1>9 DEF TimeGiven

\* What a click that was not early says.
LEMMA NotEarly ==
  ASSUME NEW early, Click(early), ~raced'
  PROVE  ~early /\ ~raced
BY DEF Click

\* Nothing is unsaved while dirty is not set, and what is on disk is what should be.
LEMMA SavedWhenClean ==
  ASSUME TInv, TimeGiven, ~dirty
  PROVE  /\ \A n \in Name : ~Unsaved(n)
         /\ \A n \in DOMAIN want : Stable(n)
<1>1. writes = {} /\ writer.todo = {} /\ writer.path = None
  BY DEF TimeGiven, Saved, WriterOK
<1>2. \A n \in Name : ~Unsaved(n) /\ n # writer.path
  BY <1>1, NamesAssumption DEF Unsaved
<1>3. DOMAIN want \subseteq Name
  BY TypesAre, FilesAt
<1> QED
  BY <1>2, <1>3 DEF Stable, TimeGiven, Saved, OnDisk

LEMMA WaitSyncSpawns ==
  ASSUME TInv, TimeGiven, NEW t \in Active, WaitSync(t), ~(t.kind = "open" /\ t.path = None)
  PROVE  TimeGiven'
<1> DEFINE u == Then(t, AfterWait(t.kind), t.data)
<1>1. Typed(t) /\ Sound(t)
  BY TypesAre DEF TimeGiven, Tasks
<1>2. Goes(t, {u}) /\ UNCHANGED <<disk, page, cm, saving, want, past>> /\ t.pc = "wait" /\ ~dirty
  BY DEF WaitSync, Synced, rest
<1>3. IsTask(u) /\ u.kind = t.kind /\ u.pc = AfterWait(t.kind) /\ u.path = t.path /\ u.to = t.to /\ u.data = t.data
  BY TaskFields DEF Then
<1> HIDE DEF u
<1>4. Typed(u)
  BY <1>1, <1>2, <1>3 DEF Typed, AfterWait
<1>5. Mine(u) = Mine(t) /\ u # t
  BY <1>1, <1>2, <1>3 DEF Mine, Changes, AfterWait, Typed
<1>6. Sound(u)
  <2>1. t.path \in DOMAIN want => Readable(t.path)
    BY <1>2, SavedWhenClean DEF Stable, Readable, Good
  <2>2. t.path \in Name => ~Unsaved(t.path)
    BY <1>2, SavedWhenClean
  <2>3. SoundOpen(u)
    BY <1>1, <1>3, <2>1 DEF Sound, SoundOpen, AfterWait
  <2>4. SoundList(u)
    BY <1>1, <1>3 DEF Sound, SoundList, AfterWait
  <2>5. SoundRemove(u)
    BY <1>1, <1>3, <2>2 DEF Sound, SoundRemove, AfterWait, Typed, File
  <2>6. SoundRename(u)
    BY <1>1, <1>3, <2>2 DEF Sound, SoundRename, AfterWait, Typed, File
  <2>7. SoundAdd(u) /\ SoundImport(u)
    BY <1>1, <1>2, <1>3 DEF Sound, SoundAdd, SoundImport, AfterWait, Typed
  <2> QED
    BY <2>3, <2>4, <2>5, <2>6, <2>7 DEF Sound
<1> QED
  BY <1>2, <1>3, <1>4, <1>5, <1>6, LearnKeeps

LEMMA ListEntriesKeeps ==
  ASSUME TInv, TimeGiven, NEW t \in Active, ListEntries(t) PROVE TimeGiven'
<1> DEFINE d == [t.data EXCEPT !.names = DOMAIN disk]
           u == Then(t, "read", d)
<1>1. /\ Typed(t) /\ t.kind \in {"list", "run"} /\ t.to \in File /\ t.path \in File /\ t.pc = "list"
      /\ t.kind = "list" => t.data \in ListData
      /\ t.kind = "run" => t.data \in RunData
      /\ UNCHANGED <<disk, page, cm, saving, want, past>>
  BY TypesAre DEF ListEntries, Typed, rest
<1>2. DOMAIN disk \subseteq Name
  BY TypesAre, FilesAt
<1>3. /\ t.kind = "list" => d \in ListData /\ d.revision = t.data.revision
      /\ t.kind = "run" => d \in RunData
      /\ d.names = DOMAIN disk
  BY <1>1, <1>2 DEF ListData, RunData
<1>4. Goes(t, {}) \/ Goes(t, {u})
  BY DEF ListEntries
<1>5. CASE Goes(t, {})
  BY <1>1, <1>5, GoodSame, EndKeeps
<1>6. CASE Goes(t, {u})
  <2> HIDE DEF d
  <2>1. u.kind = t.kind /\ IsTask(u) /\ u.pc = "read" /\ u.path = t.path /\ u.to = t.to /\ u.data = d
    BY TaskFields DEF Then
  <2> HIDE DEF u
  <2>2. Typed(u)
    BY <1>1, <1>3, <2>1 DEF Typed
  <2>3. Mine(u) = {} /\ Mine(t) = {}
    BY <1>1, <2>1, <2>2, WhatIsMine
  <2>4. Sound(u)
    BY <1>1, <1>3, <2>1 DEF TimeGiven, Tasks, Sound, SoundOpen, SoundList, SoundRemove, SoundRename, SoundAdd, SoundImport
  <2> QED
    BY <1>1, <1>6, <2>1, <2>2, <2>3, <2>4, LearnKeeps
<1> QED
  BY <1>4, <1>5, <1>6

LEMMA ReadNextKeeps ==
  ASSUME TInv, TimeGiven, NEW t \in Active, ReadNext(t) PROVE TimeGiven'
<1>1. PICK files \in Reads(t) : Goes(t, {Then(t, "read", [t.data EXCEPT !.files = files])})
  BY DEF ReadNext
<1> DEFINE d == [t.data EXCEPT !.files = files]
           u == Then(t, "read", d)
<1>2. /\ Typed(t) /\ t.kind \in {"list", "run"} /\ t.to \in File /\ t.path \in File /\ t.pc = "read"
      /\ t.kind = "list" => t.data \in ListData
      /\ t.kind = "run" => t.data \in RunData
      /\ UNCHANGED <<disk, page, cm, saving, want, past>>
  BY TypesAre DEF ReadNext, Typed, rest
<1>3. files \in Files
  BY <1>2, ReadsTyped
<1>4. /\ t.kind = "list" => d \in ListData /\ d.revision = t.data.revision /\ d.names = t.data.names
      /\ t.kind = "run" => d \in RunData
  BY <1>2, <1>3 DEF ListData, RunData
<1> HIDE DEF d
<1>5. u.kind = t.kind /\ IsTask(u) /\ u.pc = "read" /\ u.path = t.path /\ u.to = t.to /\ u.data = d
  BY TaskFields DEF Then
<1>6. Goes(t, {u})
  BY <1>1 DEF d
<1> HIDE DEF u
<1>7. Typed(u)
  BY <1>2, <1>4, <1>5 DEF Typed
<1>8. Mine(u) = {} /\ Mine(t) = {}
  BY <1>2, <1>5, <1>7, WhatIsMine
<1>9. Sound(u)
  BY <1>2, <1>4, <1>5 DEF TimeGiven, Tasks, Sound, SoundOpen, SoundList, SoundRemove, SoundRename, SoundAdd, SoundImport
<1> QED
  BY <1>2, <1>5, <1>6, <1>7, <1>8, <1>9, LearnKeeps

LEMMA ReadEnds ==
  ASSUME TInv, TimeGiven, NEW t \in Active, ReadFails(t) \/ RunSend(t) PROVE TimeGiven'
<1>1. t.kind \in {"list", "run"} /\ Goes(t, {}) /\ UNCHANGED <<disk, page, cm, saving, want, past>>
  BY DEF ReadFails, RunSend, rest
<1> QED
  BY <1>1, GoodSame, EndKeeps

\* A rename reads what the user would find.
LEMMA RenameReadKeeps ==
  ASSUME TInv, TimeGiven, NEW t \in Active, RenameRead(t) PROVE TimeGiven'
<1> DEFINE u == Then(t, "write", disk[t.path])
<1>1. /\ Typed(t) /\ t.kind = "rename" /\ t.pc = "read" /\ t.path \in Name /\ t.to \in Name /\ Sound(t)
      /\ UNCHANGED <<disk, page, cm, saving, want, past>>
  BY TypesAre DEF RenameRead, Typed, File, TimeGiven, Tasks, rest
<1>2. CASE t.path \notin DOMAIN disk
  BY <1>1, <1>2, GoodSame, EndKeeps DEF RenameRead
<1>3. CASE t.path \in DOMAIN disk
  <2>1. Goes(t, {u})
    BY <1>3 DEF RenameRead
  <2>2. IsTask(u) /\ u.kind = "rename" /\ u.pc = "write" /\ u.path = t.path /\ u.to = t.to /\ u.data = disk[t.path]
    BY <1>1, TaskFields DEF Then
  <2>3. u.data \in Text
    BY <1>3, <2>2, TypesAre, FilesAt
  <2> HIDE DEF u
  <2>4. Typed(u)
    BY <1>1, <2>2, <2>3, NamesAssumption DEF Typed, File
  <2>5. Mine(u) = Mine(t) /\ u # t
    BY <1>1, <2>2, <2>4, WhatIsMine
  <2>6. ~Copied(t.path)
    <3> SUFFICES ASSUME NEW x \in Active, x.kind = "rename", x.pc = "remove", t.path = x.to PROVE FALSE
      BY DEF Copied
    <3>1. x # t
      BY <1>1
    <3>2. t.path \in Mine(x) /\ t.path \in Mine(t)
      BY <1>1, TypesAre, WhatIsMine
    <3> QED
      BY <3>1, <3>2 DEF TimeGiven, Tasks, Apart
  <2>7. t.path \in DOMAIN want /\ disk[t.path] = want[t.path]
    BY <1>1, <1>3, <2>6 DEF TimeGiven, Saved, OnDisk, Sound, SoundRename
  <2>8. Sound(u)
    BY <1>1, <2>2, <2>7 DEF Sound, SoundOpen, SoundList, SoundRemove, SoundRename, SoundAdd, SoundImport
  <2> QED
    BY <1>1, <2>1, <2>2, <2>4, <2>5, <2>8, LearnKeeps
<1> QED
  BY <1>2, <1>3

LEMMA ImportChooses ==
  ASSUME TInv, TimeGiven, NEW t \in Active, ImportNext(t), NEW n \in DOMAIN t.data \ tabs,
         Goes(t, {Task("import", "write", n, t.to, t.data)}), UNCHANGED page
  PROVE  TimeGiven'
<1> DEFINE u == Task("import", "write", n, t.to, t.data)
<1>1. /\ Typed(t) /\ t.kind = "import" /\ t.pc = "next" /\ Sound(t) /\ t.data \in Files /\ t.to \in File
      /\ t.path = None /\ UNCHANGED <<disk, page, cm, saving, want, past>>
  BY TypesAre DEF ImportNext, Typed, TimeGiven, Tasks, rest
<1>2. IsTask(u) /\ u.kind = "import" /\ u.pc = "write" /\ u.path = n /\ u.to = t.to /\ u.data = t.data
  BY TaskFields
<1>3. Goes(t, {u})
  OBVIOUS
<1> HIDE DEF u
<1>4. n \in Name
  BY <1>1, FilesAt
<1>5. Typed(u)
  BY <1>1, <1>2, <1>4 DEF Typed, File
<1>6. Mine(u) \subseteq Mine(t) /\ u # t
  BY <1>1, <1>2, <1>5, WhatIsMine
<1>7. Sound(u)
  BY <1>1, <1>2 DEF Sound, SoundOpen, SoundList, SoundRemove, SoundRename, SoundAdd, SoundImport
<1> QED
  BY <1>1, <1>2, <1>3, <1>5, <1>6, <1>7, LearnKeeps

----------------------------------------------------------------------------
(* Clicks.                                                                 *)

\* A file that nothing changes and nothing opens.
LEMMA FreeFile ==
  ASSUME TInv, NEW n \in Name, Free(n), NEW x \in Active
  PROVE  /\ n \notin Mine(x)
         /\ x.kind = "open" => x.path # n
         /\ x.kind = "rename" => n # filename
BY NamesAssumption DEF Free, Changing, Opening, Mine

LEMMA ClickRunKeeps == ASSUME TInv, TimeGiven, ClickRun PROVE TimeGiven'
<1> DEFINE d == [names |-> {}, files |-> <<>>]
           u == Task("run", "wait", None, None, d)
<1>1. d \in RunData
  BY NoFiles, TypesAre DEF RunData
<1>2. Spawn({u}) /\ UNCHANGED <<disk, page, cm, saving, want, past>>
  BY DEF ClickRun
<1> HIDE DEF d
<1>3. IsTask(u) /\ u.kind = "run" /\ u.pc = "wait" /\ u.path = None /\ u.to = None /\ u.data = d
  BY TaskFields
<1> HIDE DEF u
<1>4. Typed(u)
  BY <1>1, <1>3 DEF Typed, File
<1>5. Sound(u) /\ Mine(u) = {} /\ ~Changer(u)
  BY <1>3, <1>4, WhatIsMine
     DEF Changer, Sound, SoundOpen, SoundList, SoundRemove, SoundRename, SoundAdd, SoundImport
<1> QED
  BY <1>2, <1>3, <1>4, <1>5, ClickKeeps

LEMMA ClickUploadKeeps == ASSUME TInv, TimeGiven, ClickUpload PROVE TimeGiven'
<1> DEFINE u == Task("upload", "read", filename, None, edits')
<1>1. edits' \in 1..MaxEdits
  BY TypesAre, BoundsAssumption DEF ClickUpload
<1>2. edits' \in Text \ {Binary}
  BY <1>1, TextsThere, ContentsAssumption
<1>3. Spawn({u}) /\ UNCHANGED <<disk, page, cm, saving, want, past>> /\ filename \in Name
  BY TypesAre DEF ClickUpload, Editable, File
<1>4. IsTask(u) /\ u.kind = "upload" /\ u.pc = "read" /\ u.path = filename /\ u.to = None /\ u.data = edits'
  BY TaskFields
<1> HIDE DEF u
<1>5. Typed(u)
  BY <1>2, <1>3, <1>4, NamesAssumption DEF Typed, File
<1>6. Sound(u) /\ Mine(u) = {} /\ ~Changer(u)
  BY <1>4, <1>5, WhatIsMine
     DEF Changer, Sound, SoundOpen, SoundList, SoundRemove, SoundRename, SoundAdd, SoundImport
<1> QED
  BY <1>3, <1>4, <1>5, <1>6, ClickKeeps

LEMMA ClickAddKeeps ==
  ASSUME TInv, TimeGiven, NEW n \in Name, ClickAdd(n), ~raced' PROVE TimeGiven'
<1> DEFINE u == Task("add", "write", n, None, Empty)
<1>1. Spawn({u}) /\ UNCHANGED <<disk, page, cm, saving, want, past>> /\ Click(~Fresh(n))
  BY DEF ClickAdd
<1>2. Fresh(n)
  BY <1>1, NotEarly
<1>3. Free(n) /\ n \notin DOMAIN disk
  BY <1>2 DEF Fresh
<1>4. n \notin DOMAIN want
  BY <1>3 DEF TimeGiven, Saved, OnDisk
<1>5. IsTask(u) /\ u.kind = "add" /\ u.pc = "write" /\ u.path = n /\ u.to = None
  BY TaskFields
<1> HIDE DEF u
<1>6. Typed(u)
  BY <1>5, NamesAssumption DEF Typed, File
<1>7. Mine(u) = {n}
  BY <1>5, <1>6, NamesAssumption, WhatIsMine DEF Changer
<1>8. Sound(u)
  BY <1>4, <1>5 DEF Sound, SoundOpen, SoundList, SoundRemove, SoundRename, SoundAdd, SoundImport
<1>9. \A x \in Active :
        /\ Mine(u) \intersect Mine(x) = {}
        /\ x.kind = "open" /\ Changer(u) => x.path \notin Mine(u)
        /\ u.kind = "rename" /\ Changer(x) => filename \notin Mine(x)
        /\ x.kind = "rename" /\ Changer(u) => filename \notin Mine(u)
  BY <1>3, <1>5, <1>7, FreeFile
<1> QED
  BY <1>1, <1>5, <1>6, <1>8, <1>9, ClickKeeps

LEMMA CommitRenameKeeps ==
  ASSUME TInv, TimeGiven, NEW n \in Name, NEW m \in Name, CommitRename(n, m), ~raced' PROVE TimeGiven'
<1> DEFINE u == Task("rename", "wait", n, m, Empty)
           early == ~Free(n) \/ ~Fresh(m) \/ Changing(filename)
<1>1. Spawn({u}) /\ UNCHANGED <<disk, page, cm, saving, want, past>> /\ Click(early)
  BY DEF CommitRename
<1>2. ~early
  <2> HIDE DEF early
  <2> QED
    BY <1>1, NotEarly
<1>3. Free(n) /\ Free(m) /\ m \notin DOMAIN disk /\ ~Changing(filename)
  BY <1>2 DEF Fresh
<1> HIDE DEF early
<1>4. m \notin DOMAIN want
  BY <1>3 DEF TimeGiven, Saved, OnDisk
<1>5. IsTask(u) /\ u.kind = "rename" /\ u.pc = "wait" /\ u.path = n /\ u.to = m
  BY TaskFields
<1> HIDE DEF u
<1>6. Typed(u)
  BY <1>5, NamesAssumption DEF Typed, File
<1>7. Mine(u) = {n, m}
  BY <1>5, <1>6, NamesAssumption, WhatIsMine DEF Changer
<1>8. Sound(u)
  BY <1>4, <1>5 DEF Sound, SoundOpen, SoundList, SoundRemove, SoundRename, SoundAdd, SoundImport
<1>9. \A x \in Active : filename \notin Mine(x)
  BY <1>3 DEF Changing, Mine
<1>10. \A x \in Active :
        /\ Mine(u) \intersect Mine(x) = {}
        /\ x.kind = "open" /\ Changer(u) => x.path \notin Mine(u)
        /\ u.kind = "rename" /\ Changer(x) => filename \notin Mine(x)
        /\ x.kind = "rename" /\ Changer(u) => filename \notin Mine(u)
  BY <1>3, <1>5, <1>7, <1>9, FreeFile
<1> QED
  BY <1>1, <1>5, <1>6, <1>8, <1>10, ClickKeeps

LEMMA DropKeeps ==
  ASSUME TInv, TimeGiven, NEW files \in Imports, Drop(files), ~raced' PROVE TimeGiven'
<1> DEFINE u == Task("import", "next", None, None, files)
           early == \E n \in DOMAIN files : Changing(n) \/ (n \notin tabs \intersect DOMAIN want /\ ~Fresh(n))
<1>1. Spawn({u}) /\ UNCHANGED <<disk, page, cm, saving, want, past>> /\ Click(early)
  BY DEF Drop
<1>2. ~early
  <2> HIDE DEF early
  <2> QED
    BY <1>1, NotEarly
<1>3. \A n \in DOMAIN files : ~Changing(n) /\ (n \in tabs \/ n \notin DOMAIN disk)
  BY <1>2 DEF Fresh
<1> HIDE DEF early
<1>4. (DOMAIN files \ tabs) \intersect DOMAIN want = {}
  BY <1>3 DEF TimeGiven, Saved, OnDisk
<1>5. IsTask(u) /\ u.kind = "import" /\ u.pc = "next" /\ u.path = None /\ u.to = None /\ u.data = files
  BY TaskFields
<1> HIDE DEF u
<1>6. Typed(u)
  BY <1>5, TheFirstFiles DEF Typed, File
<1>7. Mine(u) \subseteq DOMAIN files /\ ~Changer(u)
  BY <1>5, <1>6, WhatIsMine DEF Changer
<1>8. Sound(u)
  BY <1>4, <1>5 DEF Sound, SoundOpen, SoundList, SoundRemove, SoundRename, SoundAdd, SoundImport
<1>9. \A x \in Active : Mine(u) \intersect Mine(x) = {}
  <2> SUFFICES ASSUME NEW x \in Active, NEW n \in Mine(u), n \in Mine(x) PROVE FALSE
    OBVIOUS
  <2>1. ~Changing(n)
    BY <1>3, <1>7
  <2> QED
    BY <2>1 DEF Changing, Mine
<1> QED
  BY <1>1, <1>5, <1>6, <1>7, <1>8, <1>9, ClickKeeps

LEMMA IdleKeeps ==
  ASSUME TInv, TimeGiven, UNCHANGED <<disk, page, cm, saving, want, past, tasks>>
  PROVE  TimeGiven'
<1>1. Active' = Active
  BY DEF Active
<1>2. \A n : Copied(n) => Copied(n)'
  BY <1>1 DEF Copied
<1>3. Saved'
  BY <1>2, SavedSame DEF TimeGiven
<1>4. \A x : Sound(x) => Sound(x)'
  BY SoundSame DEF page, saving
<1>5. Tasks'
  BY <1>1, <1>4 DEF TimeGiven, Tasks, Apart, page
<1> QED
  BY <1>3, <1>5 DEF TimeGiven

\* The editor keeps the texts it has when another file is shown.
LEMMA SetFileKeeps ==
  ASSUME EditorTypes, NEW f \in File, SetFile(f)
  PROVE  \A n \in Name : Known(n) => Known(n)' /\ TextOf(n)' = TextOf(n)
<1> SUFFICES ASSUME NEW n \in Name, Known(n) PROVE Known(n)' /\ TextOf(n)' = TextOf(n)
  OBVIOUS
<1>1. CASE f = shown
  BY <1>1 DEF SetFile, Known, TextOf
<1>2. CASE f # shown /\ shown = None
  BY <1>2, NamesAssumption DEF SetFile, Known, TextOf
<1>3. CASE f # shown /\ shown # None
  <2>1. states' = With(states, shown, view) /\ shown' = f
        /\ view' = IF f \in DOMAIN states THEN states[f] ELSE Empty
    BY <1>3 DEF SetFile
  <2>2. /\ DOMAIN With(states, shown, view) = DOMAIN states \union {shown}
        /\ With(states, shown, view)[shown] = view
        /\ \A m \in DOMAIN states : m # shown => With(states, shown, view)[m] = states[m]
    BY DEF With
  <2> QED
    BY <1>3, <2>1, <2>2 DEF Known, TextOf
<1> QED
  BY <1>1, <1>2, <1>3

\* The same when a file is shown with a text: that file has the text from now on.
LEMMA ShowKeeps ==
  ASSUME EditorTypes, NEW f \in File, NEW text, Show(f, text)
  PROVE  /\ \A n \in Name : Known(n) /\ n # f => Known(n)' /\ TextOf(n)' = TextOf(n)
         /\ Known(f)' /\ TextOf(f)' = text
<1>1. Known(f)' /\ TextOf(f)' = text
  BY DEF Show, Known, TextOf
<1>2. ASSUME NEW n \in Name, Known(n), n # f PROVE Known(n)' /\ TextOf(n)' = TextOf(n)
  <2>1. CASE f = shown \/ shown = None
    BY <1>2, <2>1, NamesAssumption DEF Show, Known, TextOf
  <2>2. CASE f # shown /\ shown # None
    <3>1. states' = With(states, shown, view) /\ shown' = f /\ view' = text
      BY <2>2 DEF Show
    <3>2. /\ DOMAIN With(states, shown, view) = DOMAIN states \union {shown}
          /\ With(states, shown, view)[shown] = view
          /\ \A m \in DOMAIN states : m # shown => With(states, shown, view)[m] = states[m]
      BY DEF With
    <3> QED
      BY <1>2, <2>2, <3>1, <3>2 DEF Known, TextOf
  <2> QED
    BY <2>1, <2>2
<1> QED
  BY <1>1, <1>2

\* What was saved, and is to be saved, when only the page changes.
LEMMA SavedShown ==
  ASSUME TInv, Saved, ActiveThere', \A n : Copied(n) => Copied(n)', UNCHANGED <<disk, saving, want>>,
         \A n \in DOMAIN want :
           n \in writes \union writer.todo /\ Known(n) /\ want[n] # Binary =>
             Known(n)' /\ TextOf(n)' = TextOf(n)
  PROVE  Saved'
<1> USE DEF saving
<1>1. WriterOK'
  BY DEF Saved, WriterOK
<1>2. Pending'
  BY DEF Saved, Pending, Unsaved
<1>3. OnDisk'
  BY DEF Saved, OnDisk, Unsaved
<1> QED
  BY <1>1, <1>2, <1>3 DEF Saved

\* Another file becomes active, which no task changes, and is opened.
LEMMA Activating ==
  ASSUME TInv, Tasks, NEW n \in Name, n \in DOMAIN want, ~Changing(n), filename' = n,
         Spawn({OpenTask(n)}), UNCHANGED <<disk, want, past, tabs, revision, saving>>,
         \A m \in DOMAIN want : Known(m) => Known(m)'
  PROVE  Tasks'
<1> DEFINE u == OpenTask(n)
<1>1. IsTask(u) /\ u.kind = "open" /\ u.pc = "wait" /\ u.path = n
  BY TaskFields DEF OpenTask
<1> HIDE DEF u
<1>2. \A x \in Active : n \notin Mine(x) /\ Typed(x) /\ Sound(x)
  BY TypesAre DEF Tasks, Changing, Mine
<1>3. \A x \in Active : Sound(x)'
  <2> SUFFICES ASSUME NEW x \in Active PROVE Sound(x)'
    OBVIOUS
  <2>1. SoundRemove(x)'
    BY <1>2, WhatIsMine DEF Sound, SoundRemove, Changer, Unsaved, saving
  <2> QED
    BY <1>2, <2>1 DEF Sound, SoundOpen, SoundList, SoundRename, SoundAdd, SoundImport, Readable, Good, Unsaved, saving
<1>4. Sound(u)'
  BY <1>1 DEF Sound, SoundOpen, SoundList, SoundRemove, SoundRename, SoundAdd, SoundImport
<1>5. Mine(u) = {} /\ ~Changer(u)
  BY <1>1 DEF Mine, Changes, Changer
<1>6. \A x, y \in Active \union {u} : x # y => Apart(x, y)'
  <2> SUFFICES ASSUME NEW x \in Active \union {u}, NEW y \in Active \union {u}, x # y
               PROVE  Apart(x, y)'
    OBVIOUS
  <2>1. CASE x \in Active /\ y \in Active
    BY <1>2, <2>1 DEF Tasks, Apart
  <2>2. CASE y = u
    BY <1>5, <2>2 DEF Apart
  <2>3. CASE x = u /\ y \in Active
    BY <1>1, <1>2, <1>5, <2>3 DEF Apart
  <2> QED
    BY <2>1, <2>2, <2>3
<1>7. Spawn({u}) /\ \A s \in {u} : s \in Active => Mine(s) = {}
  BY <1>5 DEF u
<1> QED
  BY <1>3, <1>4, <1>6, <1>7, Spawning

LEMMA ClickTabKeeps ==
  ASSUME TInv, TimeGiven, NEW n \in Name, ClickTab(n), ~raced' PROVE TimeGiven'
<1>1. ~Changing(n) /\ n \in DOMAIN want
  BY NotEarly DEF ClickTab
<1>2. /\ filename' = n /\ Spawn({OpenTask(n)})
      /\ UNCHANGED <<disk, want, past, tabs, revision, saving>> /\ UNCHANGED cm
  BY DEF ClickTab
<1>4. \A m : Copied(m) => Copied(m)'
  BY <1>2, SpawnActive, TypesAre DEF Copied
<1>5. ActiveThere'
  BY <1>1, <1>2 DEF ActiveThere
<1>6. \A m : Known(m) => Known(m)' /\ TextOf(m)' = TextOf(m)
  BY <1>2 DEF Known, TextOf, cm
<1>3. Tasks'
  BY <1>1, <1>2, <1>6, Activating DEF TimeGiven
<1>7. Saved'
  BY <1>2, <1>4, <1>5, <1>6, SavedShown DEF TimeGiven
<1> QED
  BY <1>3, <1>7 DEF TimeGiven

LEMMA JumpKeeps ==
  ASSUME TInv, TimeGiven, NEW n \in Name, Jump(n), ~raced' PROVE TimeGiven'
<1>1. ~Changing(n) /\ n \in DOMAIN want
  BY NotEarly DEF Jump
<1>2. /\ filename' = n /\ Spawn({OpenTask(n)}) /\ SetFile(n)
      /\ UNCHANGED <<disk, want, past, tabs, revision, saving>>
  BY DEF Jump
<1>4. \A m : Copied(m) => Copied(m)'
  BY <1>2, SpawnActive, TypesAre DEF Copied
<1>5. ActiveThere'
  BY <1>1, <1>2 DEF ActiveThere
<1>6. \A m \in Name : Known(m) => Known(m)' /\ TextOf(m)' = TextOf(m)
  BY <1>2, SetFileKeeps, TypesAre DEF File
<1>7. DOMAIN want \subseteq Name
  BY FilesAt, TypesAre
<1>3. Tasks'
  BY <1>1, <1>2, <1>6, <1>7, Activating DEF TimeGiven
<1>8. Saved'
  BY <1>2, <1>4, <1>5, <1>6, <1>7, SavedShown DEF TimeGiven
<1> QED
  BY <1>3, <1>8 DEF TimeGiven

\* A file is removed that no task changes or opens; the active one, which is opened
\* again, is another.
LEMMA ClickRemoveKeeps ==
  ASSUME TInv, TimeGiven, NEW n \in Name, ClickRemove(n), ~raced' PROVE TimeGiven'
<1>0. PICK o : o = OpenTask(filename')
  OBVIOUS
<1> DEFINE u == Task("remove", "wait", n, None, Empty)
           early == ~Free(n) \/ Changing(filename) \/ n \notin DOMAIN want
<1>1. /\ Click(early) /\ Spawn({o, u}) /\ tabs' = tabs \ {n}
      /\ filename' = IF filename = n THEN None ELSE filename
      /\ UNCHANGED <<disk, want, past, revision, saving, cm>>
  BY <1>0 DEF ClickRemove
<1>2. ~early
  <2> HIDE DEF early
  <2> QED
    BY <1>1, NotEarly
<1>3. Free(n) /\ ~Changing(filename)
  BY <1>2
<1> HIDE DEF early
<1>4. IsTask(o) /\ o.kind = "open" /\ o.pc = "wait" /\ o.path = filename'
  BY <1>0, TaskFields DEF OpenTask
<1>5. IsTask(u) /\ u.kind = "remove" /\ u.pc = "wait" /\ u.path = n /\ u.to = None
  BY TaskFields
<1> HIDE DEF u
<1>6. Mine(o) = {} /\ Mine(u) = {n} /\ ~Changer(o)
  BY <1>4, <1>5, NamesAssumption DEF Mine, Changes, Changer
<1>7. \A x \in Active : /\ filename' \notin Mine(x) /\ n \notin Mine(x) /\ Typed(x) /\ Sound(x)
                        /\ x.kind = "open" => x.path # n
                        /\ x.kind = "rename" => n # filename
  <2>1. \A x \in Active : filename \notin Mine(x) /\ None \notin Mine(x)
    BY <1>3 DEF Changing, Mine
  <2> QED
    BY <1>1, <1>3, <2>1, FreeFile, TypesAre DEF TimeGiven, Tasks
<1>8. ActiveThere'
  BY <1>1 DEF TimeGiven, Saved, ActiveThere
<1>9. \A m : Copied(m) => Copied(m)'
  BY <1>1, SpawnActive, TypesAre DEF Copied
<1>10. \A m : Known(m) => Known(m)' /\ TextOf(m)' = TextOf(m)
  BY <1>1 DEF Known, TextOf, cm
<1>11. Saved'
  BY <1>1, <1>8, <1>9, <1>10, SavedShown DEF TimeGiven
<1>12. \A x \in Active : Sound(x)'
  <2> SUFFICES ASSUME NEW x \in Active PROVE Sound(x)'
    OBVIOUS
  <2>1. SoundRemove(x)'
    BY <1>1, <1>7, WhatIsMine DEF Sound, SoundRemove, Changer, Unsaved, saving
  <2>2. SoundImport(x)'
    <3> SUFFICES ASSUME x.kind = "import" PROVE SoundImport(x)'
      BY DEF SoundImport
    <3>1. n \notin DOMAIN x.data
      BY <1>7, WhatIsMine, NamesAssumption
    <3> QED
      BY <1>1, <1>7, <3>1 DEF Sound, SoundImport
  <2> QED
    BY <1>1, <1>7, <2>1, <2>2
       DEF Sound, SoundOpen, SoundList, SoundRename, SoundAdd, Readable, Good, Known, cm, Unsaved, saving
<1>13. Sound(o)' /\ Sound(u)'
  <2>1. o.path # None => o.path \in DOMAIN want'
    BY <1>4, <1>8 DEF ActiveThere
  <2>2. u.path # filename'
    BY <1>1, <1>5, NamesAssumption
  <2> QED
    BY <1>4, <1>5, <2>1, <2>2
       DEF Sound, SoundOpen, SoundList, SoundRemove, SoundRename, SoundAdd, SoundImport
<1>14. \A x, y \in Active \union {o, u} : x # y => Apart(x, y)'
  <2> SUFFICES ASSUME NEW x \in Active \union {o, u}, NEW y \in Active \union {o, u}, x # y
               PROVE  Apart(x, y)'
    OBVIOUS
  <2>0. n # filename'
    BY <1>1, NamesAssumption
  <2>1. CASE x \in Active /\ y \in Active
    BY <1>7, <2>1 DEF TimeGiven, Tasks, Apart
  <2>2. CASE y = o
    BY <1>6, <2>2 DEF Apart
  <2>3. CASE x = o /\ y \in Active
    BY <1>4, <1>6, <1>7, <2>3 DEF Apart
  <2>4. CASE x = o /\ y = u
    BY <1>4, <1>6, <2>0, <2>4 DEF Apart
  <2>5. CASE x = u /\ y \in Active
    BY <1>5, <1>6, <1>7, <2>5 DEF Apart
  <2>6. CASE x \in Active /\ y = u
    BY <1>5, <1>6, <1>7, <2>0, <2>6 DEF Apart
  <2> QED
    BY <2>1, <2>2, <2>3, <2>4, <2>5, <2>6
<1>15. \A s \in {o, u} : s \in Active => Mine(s) = {}
  BY <1>6, <1>7
<1>16. \A x \in Active \union {o, u} : Sound(x)'
  BY <1>12, <1>13
<1>17. Tasks'
  BY <1>1, <1>14, <1>15, <1>16, Spawning DEF TimeGiven
<1> QED
  BY <1>11, <1>17 DEF TimeGiven

----------------------------------------------------------------------------
(* Texts that the user types.                                              *)

LEMMA OnchangeSaves ==
  ASSUME EditorTypes, WriterOK, NEW n \in Name, Onchange(n)
  PROVE  /\ WriterOK'
         /\ writes' = writes \union {n}
         /\ writer'.path = writer.path /\ writer'.text = writer.text /\ writer'.todo = writer.todo
<1>1. n # None
  BY NamesAssumption
<1>2. /\ writes' = writes \union {n} /\ dirty' = TRUE
      /\ writer' = IF writer.pc = "off" THEN [writer EXCEPT !.pc = "sleep"] ELSE writer
  BY <1>1 DEF Onchange
<1>3. writer \in [pc : {"off", "sleep", "write"}, todo : SUBSET Name, path : File, text : Text]
  BY DEF EditorTypes, Writer
<1>4. /\ writer'.path = writer.path /\ writer'.text = writer.text /\ writer'.todo = writer.todo
      /\ writer'.pc # "off" /\ (writer'.pc = "write" <=> writer.pc = "write")
  BY <1>2, <1>3
<1> QED
  BY <1>2, <1>4 DEF WriterOK

\* No task that is past waiting will change n.
Undisturbed(n) == \A x \in Active : x.pc # "wait" => (Changer(x) => n \notin Mine(x))

LEMMA NotOvertaken ==
  ASSUME NEW n, ~Overtaken(n)
  PROVE  Undisturbed(n)
BY DEF Overtaken, Undisturbed, Mine

\* The text of a file changes, and is to be written: by the user, or put back.
LEMMA Editing ==
  ASSUME TInv, TimeGiven, NEW n \in Name, NEW text, text # Binary, n \in DOMAIN want,
         want' = With(want, n, text), Undisturbed(n), GoodStays, Onchange(n), UNCHANGED <<disk, page>>,
         Known(n)', TextOf(n)' = text,
         \A m \in Name : m # n /\ Known(m) => Known(m)' /\ TextOf(m)' = TextOf(m),
         \A m : Copied(m) => Copied(m)'
  PROVE  Saved' /\ \A x \in Active \intersect Active' : Sound(x)'
<1>1. /\ WriterOK' /\ writes' = writes \union {n}
      /\ writer'.path = writer.path /\ writer'.text = writer.text /\ writer'.todo = writer.todo
  BY OnchangeSaves, TypesAre DEF TimeGiven, Saved
<1>2. /\ DOMAIN want' = DOMAIN want /\ want'[n] = text
      /\ \A m \in DOMAIN want : m # n => want'[m] = want[m]
  BY DEF With
<1>3. /\ DOMAIN want \subseteq Name
      /\ \A m : Unsaved(m)' <=> (Unsaved(m) \/ m = n)
  BY <1>1, FilesAt, TypesAre DEF Unsaved
<1>4. ActiveThere'
  BY <1>2 DEF TimeGiven, Saved, ActiveThere, page
<1>5. Pending'
  <2>1. \A m \in writes' \union writer'.todo :
          m \in DOMAIN want' /\ Known(m)' /\ TextOf(m)' = want'[m] /\ want'[m] # Binary
    BY <1>1, <1>2, <1>3 DEF TimeGiven, Saved, Pending
  <2>2. writer'.path # None =>
          /\ writer'.path \in DOMAIN want'
          /\ writer'.path \notin writes' => writer'.text = want'[writer'.path]
    BY <1>1, <1>2 DEF TimeGiven, Saved, Pending
  <2> QED
    BY <2>1, <2>2 DEF Pending
<1>6. OnDisk'
  BY <1>2, <1>3 DEF TimeGiven, Saved, OnDisk
<1>7. \A x \in Active : x.pc # "wait" => (Changer(x) => n \notin Mine(x))
  BY DEF Undisturbed
<1>8. ASSUME NEW x \in Active \intersect Active' PROVE Sound(x)'
  <2>1. Typed(x) /\ Sound(x)
    BY TypesAre DEF TimeGiven, Tasks
  <2>2. SoundOpen(x)'
    <3> SUFFICES ASSUME x.kind = "open", x.path # None PROVE SoundOpen(x)'
      BY DEF SoundOpen
    <3>1. /\ x.path \in DOMAIN want
          /\ x.pc # "wait" => Readable(x.path)
          /\ x.pc = "apply" => Good(x.path, x.data)
      BY <2>1 DEF Sound, SoundOpen
    <3>2. x.pc # "wait" => \A y : Good(x.path, y) => Good(x.path, y)'
      BY <3>1 DEF GoodStays
    <3>3. x.pc # "wait" => Readable(x.path)'
      BY <1>1, <1>2, <3>1, <3>2 DEF Readable
    <3>4. x.pc = "apply" => Good(x.path, x.data)'
      BY <3>1, <3>2
    <3> QED
      BY <1>2, <3>1, <3>3, <3>4 DEF SoundOpen
  <2>3. SoundList(x)'
    BY <2>1 DEF Sound, SoundList, page
  <2>4. SoundRemove(x)'
    BY <1>3, <1>7, <2>1, WhatIsMine DEF Sound, SoundRemove, page, Changer
  <2>5. SoundRename(x)'
    <3> SUFFICES ASSUME x.kind = "rename" PROVE SoundRename(x)'
      BY DEF SoundRename
    <3>1. x.pc # "wait" => n # x.path
      BY <1>7, <2>1, WhatIsMine DEF Changer
    <3> QED
      BY <1>2, <1>3, <2>1, <3>1 DEF Sound, SoundRename
  <2>6. SoundAdd(x)' /\ SoundImport(x)'
    BY <1>2, <2>1 DEF Sound, SoundAdd, SoundImport, page
  <2> QED
    BY <2>2, <2>3, <2>4, <2>5, <2>6 DEF Sound
<1> QED
  BY <1>1, <1>4, <1>5, <1>6, <1>8 DEF Saved

\* The same step when it leaves the tasks alone.
LEMMA EditKeeps ==
  ASSUME TInv, TimeGiven, NEW n \in Name, Edit(n), n \in DOMAIN want, want[n] # Binary, ~Overtaken(n), Onchange(n),
         UNCHANGED <<disk, page, tasks>>, Known(n)', TextOf(n)' = edits',
         \A m \in Name : m # n /\ Known(m) => Known(m)' /\ TextOf(m)' = TextOf(m)
  PROVE  TimeGiven'
<1>1. edits' # Binary /\ Rewrite(n, edits') /\ want' = With(want, n, edits')
  BY EditTypes DEF Edit, Rewrite
<1>2. Active' = Active
  BY DEF Active
<1>3. \A m : Copied(m) => Copied(m)'
  BY <1>2 DEF Copied
<1>7. DOMAIN want \subseteq Name
  BY TypesAre, FilesAt
<1>4. UNCHANGED <<disk, page>> /\ Undisturbed(n) /\ GoodStays
  BY <1>1, <1>2, <1>7, NotOvertaken, RewriteStays
<1>5. Saved' /\ \A x \in Active \intersect Active' : Sound(x)'
  BY <1>1, <1>3, <1>4, Editing
<1>6. Tasks'
  BY <1>2, <1>5 DEF TimeGiven, Tasks, Apart, page
<1> QED
  BY <1>5, <1>6 DEF TimeGiven

LEMMA TypeKeeps == ASSUME TInv, TimeGiven, Type, ~raced' PROVE TimeGiven'
<1>1. /\ shown = filename /\ ~Overtaken(filename) /\ filename \in Name
      /\ Edit(filename) /\ Onchange(filename) /\ UNCHANGED <<disk, page, tasks, shown, states>>
      /\ view' = edits' /\ filename \in DOMAIN want /\ want[filename] # Binary
  BY TypesAre DEF Type, Editable, File
<1>3. Known(filename)' /\ TextOf(filename)' = edits'
  BY <1>1 DEF Known, TextOf, page
<1>4. \A m \in Name : m # filename /\ Known(m) => Known(m)' /\ TextOf(m)' = TextOf(m)
  BY <1>1 DEF Known, TextOf
<1>5. UNCHANGED <<disk, page, tasks>>
  BY <1>1
<1>6. PICK n \in Name : n = filename
  BY <1>1
<1>7. Known(n)' /\ TextOf(n)' = edits'
  BY <1>1, <1>6 DEF Known, TextOf
<1> QED
  BY <1>1, <1>4, <1>5, <1>6, <1>7, EditKeeps

LEMMA ServerEditsKeeps ==
  ASSUME TInv, TimeGiven, NEW n \in Name, ServerEdits(n), ~raced' PROVE TimeGiven'
<1>1. /\ ~Overtaken(n) /\ n \in DOMAIN want /\ want[n] # Binary /\ Edit(n) /\ Onchange(n)
      /\ UNCHANGED <<disk, page, tasks>> /\ UNCHANGED shown
  BY DEF ServerEdits
<1>2. /\ n = shown => view' = edits' /\ UNCHANGED states
      /\ n # shown => n \in DOMAIN states /\ UNCHANGED view /\ states' = [states EXCEPT ![n] = edits']
  BY DEF ServerEdits
<1>3. Known(n)' /\ TextOf(n)' = edits'
  BY <1>1, <1>2 DEF Known, TextOf
<1>4. \A m \in Name : m # n /\ Known(m) => Known(m)' /\ TextOf(m)' = TextOf(m)
  BY <1>1, <1>2 DEF Known, TextOf
<1> QED
  BY <1>1, <1>3, <1>4, EditKeeps

LEMMA UploadApplyKeeps ==
  ASSUME TInv, TimeGiven, NEW t \in Active, UploadApply(t), ~raced' PROVE TimeGiven'
<1>1. /\ t.kind = "upload" /\ Goes(t, {}) /\ view' = t.data /\ Onchange(shown)
      /\ Rewrite(t.path, t.data) /\ want[t.path] # Binary
      /\ UNCHANGED <<disk, page>> /\ UNCHANGED <<shown, states>>
      /\ shown = t.path /\ filename = t.path /\ ~Overtaken(t.path)
  BY DEF UploadApply
<1>2. t.path \in Name /\ t.data # Binary
  BY <1>1, TypesAre DEF Typed, File
<1>3. t.path \in DOMAIN want
  BY <1>1, <1>2, NamesAssumption DEF TimeGiven, Saved, ActiveThere
<1>4. PICK n \in Name : n = t.path
  BY <1>2
<1>5. Known(n)' /\ TextOf(n)' = t.data
  BY <1>1, <1>4 DEF Known, TextOf
<1>6. \A m \in Name : m # n /\ Known(m) => Known(m)' /\ TextOf(m)' = TextOf(m)
  BY <1>1, <1>4 DEF Known, TextOf
<1>7. /\ \A m : Copied(m) => Copied(m)'
      /\ Undisturbed(n) /\ Active' \subseteq Active
  BY <1>1, <1>4, StillCopied, GoesActive, TypesAre, NotOvertaken
<1>11. want' = With(want, n, t.data) /\ GoodStays
  <2>1. DOMAIN want \subseteq Name
    BY TypesAre, FilesAt
  <2> QED
    BY <1>1, <1>2, <1>3, <1>4, <1>5, <1>6, <1>7, <2>1, RewriteStays DEF Rewrite
<1>8. Saved' /\ \A x \in Active \intersect Active' : Sound(x)'
  BY <1>11, <1>1, <1>2, <1>3, <1>4, <1>5, <1>6, <1>7, Editing
<1>9. \A x, y \in Active \ {t} : x # y /\ x.kind = "rename" /\ Changer(y) => filename' \notin Mine(y)
  BY <1>1 DEF TimeGiven, Tasks, Apart, page
<1>10. Tasks'
  BY <1>1, <1>8, <1>9, Leaving DEF TimeGiven
<1> QED
  BY <1>8, <1>10 DEF TimeGiven

----------------------------------------------------------------------------
(* The writer.                                                             *)

LEMMA WriterGoing ==
  ASSUME TInv, dirty, NEW todo \in SUBSET Name, NEW pending, WriterGoesOn(todo, pending), writes' = pending,
         UNCHANGED <<cm, want>>,
         \A n \in todo \union pending :
           n \in DOMAIN want /\ Known(n) /\ TextOf(n) = want[n] /\ want[n] # Binary
  PROVE  /\ WriterOK' /\ Pending'
         /\ \A m \in Name : Unsaved(m)' => m \in todo \union pending
         /\ writer'.path # None => writer'.text = want[writer'.path]
<1>1. \A m : (Known(m) => Known(m)') /\ TextOf(m)' = TextOf(m)
  BY DEF Known, TextOf, cm
<1>2. ASSUME NEW n \in todo,
             writer' = [pc |-> "write", todo |-> todo \ {n}, path |-> n, text |-> TextOf(n)],
             UNCHANGED dirty
      PROVE  /\ WriterOK' /\ Pending'
             /\ \A m \in Name : Unsaved(m)' => m \in todo \union pending
             /\ writer'.path # None => writer'.text = want[writer'.path]
  <2>1. /\ writer'.pc = "write" /\ writer'.todo = todo \ {n} /\ writer'.path = n
        /\ writer'.text = want[n] /\ dirty'
    BY <1>2
  <2>2. WriterOK'
    BY <2>1 DEF WriterOK
  <2>3. Pending'
    BY <1>1, <2>1 DEF Pending
  <2> QED
    BY <2>1, <2>2, <2>3 DEF Unsaved
<1>3. ASSUME todo = {},
             writer' = [pc |-> IF pending = {} THEN "off" ELSE "sleep",
                        todo |-> {}, path |-> None, text |-> Empty],
             dirty' = (pending # {})
      PROVE  /\ WriterOK' /\ Pending'
             /\ \A m \in Name : Unsaved(m)' => m \in todo \union pending
             /\ writer'.path # None => writer'.text = want[writer'.path]
  <2>1. /\ writer'.pc = (IF pending = {} THEN "off" ELSE "sleep")
        /\ writer'.todo = {} /\ writer'.path = None
    BY <1>3
  <2>2. WriterOK'
    BY <1>3, <2>1 DEF WriterOK
  <2>3. Pending'
    BY <1>1, <1>3, <2>1 DEF Pending
  <2> QED
    BY <2>1, <2>2, <2>3, NamesAssumption DEF Unsaved
<1> QED
  BY <1>2, <1>3 DEF WriterGoesOn

LEMMA WriterWakesKeeps == ASSUME TInv, TimeGiven, WriterWakes PROVE TimeGiven'
<1>1. /\ writer.pc = "sleep" /\ writes' = {} /\ WriterGoesOn(writes, {})
      /\ UNCHANGED <<cm, want, past>> /\ UNCHANGED <<disk, page, tasks>>
  BY DEF WriterWakes
<1>2. dirty /\ writes \in SUBSET Name /\ writer.todo = {} /\ writer.path = None
  BY <1>1, TypesAre DEF TimeGiven, Saved, WriterOK, EditorTypes
<1>3. \A n \in writes \union {} : n \in DOMAIN want /\ Known(n) /\ TextOf(n) = want[n] /\ want[n] # Binary
  BY DEF TimeGiven, Saved, Pending
<1>4. /\ WriterOK' /\ Pending'
      /\ \A m \in Name : Unsaved(m)' => m \in writes \union {}
      /\ writer'.path # None => writer'.text = want[writer'.path]
  BY <1>1, <1>2, <1>3, WriterGoing
<1>5. \A m \in Name : Unsaved(m)' => Unsaved(m)
  BY <1>4 DEF Unsaved
<1>6. Active' = Active
  BY <1>1 DEF Active
<1>7. DOMAIN want \subseteq Name
  BY TypesAre, FilesAt
<1>8. \A m \in DOMAIN want : ~Unsaved(m)' => disk[m] = want[m]
  <2> SUFFICES ASSUME NEW m \in DOMAIN want, ~Unsaved(m)' PROVE disk[m] = want[m]
    OBVIOUS
  <2>1. m \notin writes
    <3>1. CASE writes = {}
      BY <3>1
    <3>2. ASSUME NEW n \in writes,
                 writer' = [pc |-> "write", todo |-> writes \ {n}, path |-> n, text |-> TextOf(n)]
          PROVE  m \notin writes
      BY <3>2 DEF Unsaved
    <3> QED
      BY <1>1, <3>1, <3>2 DEF WriterGoesOn
  <2>2. ~Unsaved(m)
    BY <1>2, <1>7, <2>1, NamesAssumption DEF Unsaved
  <2> QED
    BY <2>2 DEF TimeGiven, Saved, OnDisk
<1>9. OnDisk'
  BY <1>1, <1>6, <1>8 DEF TimeGiven, Saved, OnDisk, Copied
<1>10. ActiveThere'
  BY <1>1 DEF TimeGiven, Saved, ActiveThere, page
<1>11. \A x \in Active : Sound(x)'
  <2> SUFFICES ASSUME NEW x \in Active PROVE Sound(x)'
    OBVIOUS
  <2>1. Typed(x) /\ Sound(x)
    BY TypesAre DEF TimeGiven, Tasks
  <2>2. SoundOpen(x)'
    BY <1>1, <1>4, <2>1 DEF Sound, SoundOpen, Readable, Good, Known, cm
  <2>3. SoundRemove(x)'
    BY <1>1, <1>5, <2>1 DEF Sound, SoundRemove, page, Typed, File
  <2>4. SoundRename(x)'
    BY <1>1, <1>5, <2>1 DEF Sound, SoundRename, Typed, File
  <2> QED
    BY <1>1, <2>1, <2>2, <2>3, <2>4 DEF Sound, SoundList, SoundAdd, SoundImport, page
<1>12. Tasks'
  BY <1>1, <1>6, <1>11 DEF TimeGiven, Tasks, Apart, page
<1> QED
  BY <1>4, <1>9, <1>10, <1>12 DEF TimeGiven, Saved

LEMMA WriterWritesKeeps == ASSUME TInv, TimeGiven, WriterWrites PROVE TimeGiven'
<1> DEFINE p == writer.path
<1>1. /\ writer.pc = "write" /\ disk' = With(disk, writer.path, writer.text)
      /\ WriterGoesOn(writer.todo, writes) /\ writes' = writes
      /\ UNCHANGED <<cm, want, past>> /\ UNCHANGED <<page, tasks>>
  BY DEF WriterWrites
<1>2. /\ dirty /\ writes \in SUBSET Name /\ writer.todo \in SUBSET Name
      /\ writer.path \in Name /\ writer.path # None
  BY <1>1, TypesAre DEF TimeGiven, Saved, WriterOK, EditorTypes, Writer, File
<1>3. \A n \in writer.todo \union writes :
        n \in DOMAIN want /\ Known(n) /\ TextOf(n) = want[n] /\ want[n] # Binary
  BY DEF TimeGiven, Saved, Pending
<1>4. /\ WriterOK' /\ Pending'
      /\ \A m \in Name : Unsaved(m)' => m \in writer.todo \union writes
      /\ writer'.path # None => writer'.text = want[writer'.path]
  BY <1>1, <1>2, <1>3, WriterGoing
<1>5. \A m \in Name : Unsaved(m)' => Unsaved(m)
  BY <1>4 DEF Unsaved
<1>6. Active' = Active
  BY <1>1 DEF Active
<1>7. DOMAIN want \subseteq Name
  BY TypesAre, FilesAt
<1>8. /\ p \in DOMAIN want /\ (p \notin writes => writer.text = want[p])
      /\ DOMAIN disk' = DOMAIN disk \union {p} /\ disk'[p] = writer.text
      /\ \A m \in DOMAIN disk : m # p => disk'[m] = disk[m]
  BY <1>1, <1>2 DEF TimeGiven, Saved, Pending, With
<1>9. \A m \in Name : m \in writer.todo \union writes => Unsaved(m)'
  <2>1. CASE writer.todo = {}
    BY <1>1, <2>1 DEF Unsaved
  <2>2. ASSUME NEW n \in writer.todo,
               writer' = [pc |-> "write", todo |-> writer.todo \ {n}, path |-> n, text |-> TextOf(n)]
        PROVE  \A m \in Name : m \in writer.todo \union writes => Unsaved(m)'
    BY <1>1, <2>2 DEF Unsaved
  <2> QED
    BY <1>1, <2>1, <2>2 DEF WriterGoesOn
<1>10. \A m \in DOMAIN want : ~Unsaved(m)' => disk'[m] = want[m]
  <2> SUFFICES ASSUME NEW m \in DOMAIN want, ~Unsaved(m)' PROVE disk'[m] = want[m]
    OBVIOUS
  <2>1. m \notin writes /\ m \notin writer.todo
    BY <1>7, <1>9
  <2>2. CASE m = p
    BY <1>8, <2>1, <2>2
  <2>3. CASE m # p
    <3>1. ~Unsaved(m)
      BY <2>1, <2>3 DEF Unsaved
    <3> QED
      BY <1>8, <2>3, <3>1 DEF TimeGiven, Saved, OnDisk
  <2> QED
    BY <2>2, <2>3
<1>11. OnDisk'
  BY <1>1, <1>6, <1>8, <1>10 DEF TimeGiven, Saved, OnDisk, Copied
<1>12. ActiveThere'
  BY <1>1 DEF TimeGiven, Saved, ActiveThere, page
<1>13. \A x \in Active : Sound(x)'
  <2> SUFFICES ASSUME NEW x \in Active PROVE Sound(x)'
    OBVIOUS
  <2>1. Typed(x) /\ Sound(x)
    BY TypesAre DEF TimeGiven, Tasks
  <2>2. SoundOpen(x)'
    BY <1>1, <1>4, <1>8, <2>1 DEF Sound, SoundOpen, Readable, Good, Known, cm
  <2>3. SoundRemove(x)'
    BY <1>1, <1>5, <2>1 DEF Sound, SoundRemove, page, Typed, File
  <2>4. SoundRename(x)'
    BY <1>1, <1>5, <1>8, <2>1 DEF Sound, SoundRename, Typed, File
  <2>5. SoundList(x)'
    BY <1>1, <1>8, <2>1 DEF Sound, SoundList, page
  <2> QED
    BY <1>1, <2>1, <2>2, <2>3, <2>4, <2>5 DEF Sound, SoundAdd, SoundImport, page
<1>14. Tasks'
  BY <1>1, <1>6, <1>13 DEF TimeGiven, Tasks, Apart, page
<1> QED
  BY <1>4, <1>11, <1>12, <1>14 DEF TimeGiven, Saved

----------------------------------------------------------------------------
(* Opening.                                                                *)

\* What a task that goes leaves to the others, when the active file stays.
LEMMA EndsSoundly ==
  ASSUME TInv, Tasks, NEW t \in Active, Goes(t, {}), UNCHANGED filename,
         \A x \in Active \intersect Active' : Sound(x)'
  PROVE  Tasks'
<1>1. \A x, y \in Active \ {t} : x # y /\ x.kind = "rename" /\ Changer(y) => filename' \notin Mine(y)
  BY DEF Tasks, Apart
<1> QED
  BY <1>1, Leaving

\* A task goes after the editor shows another file; nothing is to be saved for it.
LEMMA ShowsKeeps ==
  ASSUME TInv, TimeGiven, NEW t \in Active, Goes(t, {}), ~(t.kind = "rename" /\ t.pc = "remove"),
         UNCHANGED <<disk, page, saving, want>>, GoodStays,
         \A n \in Name : Known(n) => Known(n)' /\ TextOf(n)' = TextOf(n)
  PROVE  TimeGiven'
<1>1. \A x \in Active' : Sound(x) => Sound(x)'
  BY SoundStays DEF page, saving
<1>2. \A n : Copied(n) => Copied(n)'
  BY StillCopied, GoesActive, TypesAre
<1>3. ActiveThere' /\ UNCHANGED filename
  BY DEF TimeGiven, Saved, ActiveThere, page
<1>4. DOMAIN want \subseteq Name
  BY TypesAre, FilesAt
<1>5. Saved'
  BY <1>2, <1>3, <1>4, SavedShown DEF TimeGiven
<1>6. Tasks'
  BY <1>1, <1>3, EndsSoundly DEF TimeGiven, Tasks
<1> QED
  BY <1>5, <1>6 DEF TimeGiven

LEMMA WaitSyncEnds ==
  ASSUME TInv, TimeGiven, NEW t \in Active, WaitSync(t), t.kind = "open" /\ t.path = None
  PROVE  TimeGiven'
<1>1. Goes(t, {}) /\ UNCHANGED <<disk, page, want>> /\ UNCHANGED <<want, past>>
  BY DEF WaitSync, rest
<1>2. CASE StillActive(t)
  <2>1. Show(None, Empty)
    BY <1>2 DEF WaitSync
  <2>2. UNCHANGED saving
    BY <2>1 DEF Show, Onchange
  <2>3. \A n \in Name : Known(n) => Known(n)' /\ TextOf(n)' = TextOf(n)
    BY <2>1, ShowKeeps, TypesAre, NamesAssumption DEF File
  <2>4. DOMAIN want \subseteq Name
    BY TypesAre, FilesAt
  <2> QED
    BY <1>1, <2>2, <2>3, <2>4, GoodKnown, ShowsKeeps
<1>3. CASE ~StillActive(t)
  <2>1. UNCHANGED <<cm, saving>>
    BY <1>3 DEF WaitSync
  <2> QED
    BY <1>1, <2>1, GoodSame, EndKeeps
<1> QED
  BY <1>2, <1>3

\* The file is there, and what is read of it is a text that it had since.
LEMMA OpenReadKeeps == ASSUME TInv, TimeGiven, NEW t \in Active, OpenRead(t) PROVE TimeGiven'
<1>1. /\ t.kind = "open" /\ t.pc = "read" /\ t.path \in Name /\ Typed(t) /\ Sound(t)
      /\ UNCHANGED <<page, cm, saving, want, past>>
  BY TypesAre DEF OpenRead, Typed, File, TimeGiven, Tasks, rest
<1>2. Readable(t.path)
  BY <1>1, NamesAssumption DEF Sound, SoundOpen
<1>3. disk' = disk
  BY <1>2 DEF OpenRead, Readable
<1>4. PICK u : u = Then(t, "apply", disk[t.path])
  OBVIOUS
<1>5. IsTask(u) /\ u.kind = "open" /\ u.pc = "apply" /\ u.path = t.path /\ u.to = t.to /\ u.data = disk[t.path]
  BY <1>1, <1>4, TaskFields DEF Then
<1>6. disk[t.path] \in Text
  BY <1>2, FilesAt, TypesAre DEF Readable
<1>7. Typed(u)
  BY <1>1, <1>5, <1>6, NamesAssumption DEF Typed, File
<1>8. Sound(u) /\ Mine(u) = {} /\ Mine(t) = {}
  BY <1>1, <1>2, <1>5, <1>7, WhatIsMine
     DEF Sound, SoundOpen, SoundList, SoundRemove, SoundRename, SoundAdd, SoundImport, Readable
<1>9. Goes(t, {u})
  BY <1>3, <1>4 DEF OpenRead
<1> QED
  BY <1>1, <1>3, <1>5, <1>7, <1>8, <1>9, LearnKeeps

\* What it shows is the text of the file from then on: it was that, or is put back.
LEMMA OpenApplyTexts ==
  ASSUME TInv, TimeGiven, NEW t \in Active, OpenApply(t)
  PROVE  /\ t.kind = "open" /\ t.pc = "apply" /\ t.path \in Name /\ Typed(t) /\ Sound(t)
         /\ Goes(t, {}) /\ UNCHANGED <<disk, page>>
         /\ t.path \in DOMAIN want /\ Good(t.path, t.data)
         /\ UNCHANGED want \/ (want' = With(want, t.path, t.data) /\ t.data # Binary /\ want[t.path] # Binary)
         /\ StillActive(t) /\ t.data # Binary /\ t.data # TextOf(t.path) => want' = With(want, t.path, t.data)
         /\ ~StillActive(t) \/ t.data = Binary \/ t.data = TextOf(t.path) => UNCHANGED want
<1>1. /\ t.kind = "open" /\ t.pc = "apply" /\ t.path \in Name /\ Typed(t) /\ Sound(t)
      /\ Goes(t, {}) /\ UNCHANGED <<disk, page>>
  BY TypesAre DEF OpenApply, Typed, File, TimeGiven, Tasks
<1>2. t.path \in DOMAIN want /\ Good(t.path, t.data)
  BY <1>1, NamesAssumption DEF Sound, SoundOpen
<1>3. ~StillActive(t) \/ t.data = Binary \/ t.data = TextOf(t.path) => UNCHANGED want
  BY DEF OpenApply, PutBack
<1>4. ASSUME StillActive(t), t.data # Binary, t.data # TextOf(t.path)
      PROVE  want' = With(want, t.path, t.data) /\ want[t.path] # Binary
  <2>1. PutBack(t.path, t.data)
    BY <1>4 DEF OpenApply
  <2>2. want[t.path] # Binary
    BY <1>2, <1>4 DEF Good
  <2>3. CASE <<t.path, t.data>> \in past
    BY <1>4, <2>1, <2>2, <2>3 DEF PutBack
  <2>4. CASE <<t.path, t.data>> \notin past
    <3>1. want' = want /\ t.data = want[t.path]
      BY <1>2, <2>1, <2>4 DEF PutBack, Good
    <3>2. want = [m \in DOMAIN want |-> want[m]]
      BY FilesAt, TypesAre
    <3>3. DOMAIN want \union {t.path} = DOMAIN want
      BY <1>2
    <3>4. With(want, t.path, t.data) = [m \in DOMAIN want |-> want[m]]
      BY <3>1, <3>3 DEF With
    <3> QED
      BY <2>2, <3>1, <3>2, <3>4
  <2> QED
    BY <2>3, <2>4
<1> QED
  BY <1>1, <1>2, <1>3, <1>4

LEMMA OpenApplyStays ==
  ASSUME TInv, TimeGiven, NEW t \in Active, OpenApply(t)
  PROVE  GoodStays
<1>1. PICK n \in Name : n = t.path
  BY OpenApplyTexts
<1>2. /\ n \in DOMAIN want /\ Active' \subseteq Active
      /\ past' = {x \in past \union Had(n) : Reopening(x[1])'}
      /\ UNCHANGED want \/ (want' = With(want, n, t.data) /\ t.data # Binary /\ want[n] # Binary)
  BY <1>1, OpenApplyTexts, GoesActive, TypesAre DEF OpenApply
<1>8. \A m \in DOMAIN want : Known(m) => Known(m)'
  <2>1. DOMAIN want \subseteq Name /\ n \in File
    BY TypesAre, FilesAt DEF File
  <2>2. CASE ~StillActive(t)
    BY <2>2 DEF OpenApply, Known, cm
  <2>3. CASE StillActive(t) /\ t.data = Binary
    BY <1>1, <2>1, <2>3, SetFileKeeps, TypesAre DEF OpenApply
  <2>4. CASE StillActive(t) /\ t.data # Binary
    BY <1>1, <2>1, <2>4, ShowKeeps, TypesAre DEF OpenApply
  <2> QED
    BY <2>2, <2>3, <2>4
<1>9. want' # want => Known(n)'
  <2>1. want' # want => StillActive(t) /\ t.data # Binary
    BY OpenApplyTexts
  <2>2. n \in File
    BY DEF File
  <2> QED
    BY <1>1, <2>1, <2>2, ShowKeeps, TypesAre DEF OpenApply
<1> SUFFICES ASSUME NEW x \in Active', x.kind = "open", x.pc # "wait", x.path \in DOMAIN want, NEW y, Good(x.path, y)
             PROVE  Good(x.path, y)'
  BY DEF GoodStays
<1>3. PICK m : m = x.path
  OBVIOUS
<1>4. Reopening(m)'
  BY <1>3 DEF Reopening
<1>5. \A z : <<m, z>> \in past \union Had(n) => <<m, z>> \in past'
  BY <1>2, <1>4
<1>6. CASE UNCHANGED want
  BY <1>3, <1>5, <1>6, <1>8 DEF Good
<1>7. CASE want' = With(want, n, t.data) /\ t.data # Binary /\ want[n] # Binary
  <2>1. CASE m = n
    <3>1. want'[n] = t.data /\ <<n, want[n]>> \in Had(n)
      BY <1>2, <1>7 DEF With, Had
    <3>2. <<n, y>> \in past' /\ y # Binary
      BY <1>3, <1>5, <1>7, <2>1, <3>1 DEF Good
    <3>3. Known(n)' \/ y = want'[n]
      BY <1>3, <1>8, <1>9, <2>1 DEF Good
    <3> QED
      BY <1>3, <1>7, <2>1, <3>1, <3>2, <3>3 DEF Good
  <2>2. CASE m # n
    <3>1. want'[m] = want[m]
      BY <1>3, <1>7, <2>2 DEF With
    <3> QED
      BY <1>3, <1>5, <1>8, <3>1 DEF Good
  <2> QED
    BY <2>1, <2>2
<1> QED
  BY <1>2, <1>6, <1>7

LEMMA OpenApplyKeeps == ASSUME TInv, TimeGiven, NEW t \in Active, OpenApply(t) PROVE TimeGiven'
<1>1. /\ t.kind = "open" /\ t.pc = "apply" /\ t.path \in Name /\ Typed(t) /\ Sound(t)
      /\ Goes(t, {}) /\ UNCHANGED <<disk, page>> /\ t.path \in DOMAIN want
      /\ StillActive(t) /\ t.data # Binary /\ t.data # TextOf(t.path) => want' = With(want, t.path, t.data)
      /\ ~StillActive(t) \/ t.data = Binary \/ t.data = TextOf(t.path) => UNCHANGED want
  BY OpenApplyTexts
<1>2. GoodStays
  BY OpenApplyStays
<1>3. CASE ~StillActive(t)
  <2>1. UNCHANGED <<cm, saving>>
    BY <1>3 DEF OpenApply
  <2> QED
    BY <1>1, <1>2, <1>3, <2>1, EndKeeps
<1>4. CASE StillActive(t) /\ t.data = Binary
  <2>1. SetFile(t.path) /\ UNCHANGED saving
    BY <1>4 DEF OpenApply
  <2>2. \A n \in Name : Known(n) => Known(n)' /\ TextOf(n)' = TextOf(n)
    BY <1>1, <2>1, SetFileKeeps, TypesAre DEF File
  <2> QED
    BY <1>1, <1>2, <1>4, <2>1, <2>2, ShowsKeeps
<1>5. CASE StillActive(t) /\ t.data # Binary
  <2>1. PICK n \in Name : n = t.path
    BY <1>1
  <2>2. Show(n, t.data)
    BY <1>5, <2>1 DEF OpenApply
  <2>3. /\ \A m \in Name : m # n /\ Known(m) => Known(m)' /\ TextOf(m)' = TextOf(m)
        /\ Known(n)' /\ TextOf(n)' = t.data
    BY <2>2, ShowKeeps, TypesAre DEF File
  <2>4. CASE t.data = TextOf(n)
    <3>1. UNCHANGED saving
      BY <2>2, <2>4 DEF Show
    <3> QED
      BY <1>1, <1>2, <2>1, <2>3, <2>4, <3>1, ShowsKeeps
  <2>5. CASE t.data # TextOf(n)
    <3>1. Onchange(n)
      BY <2>2, <2>5 DEF Show
    <3>2. want' = With(want, n, t.data)
      BY <1>1, <1>5, <2>1, <2>5
    <3>3. Undisturbed(n)
      BY <1>1, <2>1 DEF Undisturbed, TimeGiven, Tasks, Apart, Changer
    <3>4. \A m : Copied(m) => Copied(m)'
      BY <1>1, StillCopied, GoesActive, TypesAre
    <3>5. Saved' /\ \A x \in Active \intersect Active' : Sound(x)'
      BY <1>1, <1>2, <1>5, <2>1, <2>3, <3>1, <3>2, <3>3, <3>4, Editing
    <3>6. Tasks'
      BY <1>1, <3>5, EndsSoundly DEF TimeGiven, page
    <3> QED
      BY <3>5, <3>6 DEF TimeGiven
  <2> QED
    BY <2>4, <2>5
<1> QED
  BY <1>3, <1>4, <1>5

----------------------------------------------------------------------------
(* Listing.                                                                *)

\* The editor keeps the texts of the files it is given, and the one it shows.
LEMMA SetFilesKeeps ==
  ASSUME EditorTypes, NEW files \in Files, SetFiles(files)
  PROVE  \A n \in DOMAIN files : Known(n) => Known(n)' /\ TextOf(n)' = TextOf(n)
<1> SUFFICES ASSUME NEW n \in DOMAIN files, Known(n) PROVE Known(n)' /\ TextOf(n)' = TextOf(n)
  OBVIOUS
<1>1. /\ shown' = shown /\ view' = view
      /\ states' = [m \in DOMAIN files \ ({shown} \ DOMAIN states) |->
                      IF m \in DOMAIN states THEN states[m] ELSE files[m]]
  BY DEF SetFiles
<1>2. CASE n = shown
  BY <1>1, <1>2 DEF Known, TextOf
<1>3. CASE n # shown
  <2>1. n \in DOMAIN states /\ n \in DOMAIN states' /\ states'[n] = states[n]
    BY <1>1, <1>3 DEF Known
  <2> QED
    BY <1>1, <1>3, <2>1 DEF Known, TextOf
<1> QED
  BY <1>2, <1>3

LEMMA ListApplyKeeps ==
  ASSUME TInv, TimeGiven, NEW t \in Active, ListApply(t), ~raced' PROVE TimeGiven'
<1>1. PICK read \in Reads(t) :
        LET files == Restrict(read, {n \in t.data.names : read[n] # Binary}) IN
        /\ All(t, read)
        /\ tabs' = t.data.names /\ SetFiles(files)
        /\ IF filename \in DOMAIN files THEN UNCHANGED filename /\ Goes(t, {})
           ELSE /\ filename' \in (IF files = <<>> THEN {None} ELSE DOMAIN files)
                /\ Goes(t, {OpenTask(filename')})
        /\ raced' = (raced \/ Outdated(t, files) \/ (filename' # filename /\ Changing(filename')))
  BY DEF ListApply
<1> DEFINE S == {n \in t.data.names : read[n] # Binary}
           files == Restrict(read, S)
<1>2. /\ t.kind = "list" /\ t.pc = "read" /\ t.data.names \subseteq Name /\ Typed(t) /\ Sound(t)
      /\ UNCHANGED <<disk, revision, saving, want, past>>
  BY TypesAre DEF ListApply, Typed, ListData, TimeGiven, Tasks
<1>3. read \in Files /\ S \subseteq DOMAIN read
  BY <1>1, <1>2, ReadsTyped DEF All
<1>4. files \in Files /\ DOMAIN files = S
  <2> HIDE DEF S
  <2> QED
    BY <1>3, FilesRestricted
<1>5. DOMAIN files \subseteq t.data.names
  BY <1>4
<1>6. /\ tabs' = t.data.names /\ SetFiles(files) /\ ~Outdated(t, files)
      /\ \/ filename \in DOMAIN files /\ UNCHANGED filename /\ Goes(t, {})
         \/ /\ filename \notin DOMAIN files /\ Goes(t, {OpenTask(filename')})
            /\ filename' = None \/ (filename' \in DOMAIN files /\ ~Changing(filename'))
  BY <1>1 DEF S
<1> HIDE DEF S, files
<1>7. t.data.names \subseteq DOMAIN disk /\ DOMAIN want \subseteq t.data.names
  BY <1>2, <1>6 DEF Outdated, Sound, SoundList
<1>8. \A n \in DOMAIN want : want[n] # Binary => n \in DOMAIN files
  BY <1>6 DEF Outdated
<1>9. \A x \in Active : Typed(x) /\ Sound(x) /\ None \notin Mine(x)
  BY TypesAre DEF TimeGiven, Tasks, Mine
<1>10. filename' # filename =>
         \A x \in Active : filename' \notin Mine(x)
  BY <1>6, <1>9 DEF Changing, Mine
<1>11. ActiveThere'
  <2>1. CASE filename' = filename
    BY <1>2, <2>1 DEF TimeGiven, Saved, ActiveThere
  <2>2. CASE filename' # filename /\ filename' # None
    <3>1. filename' \in DOMAIN disk
      BY <1>5, <1>6, <1>7, <2>2
    <3>2. ~Copied(filename')
      BY <1>9, <1>10, <2>2, WhatIsMine DEF Copied
    <3> QED
      BY <1>2, <3>1, <3>2 DEF TimeGiven, Saved, OnDisk, ActiveThere
  <2> QED
    BY <2>1, <2>2 DEF ActiveThere
<1>12. \A n : Copied(n) => Copied(n)'
  BY <1>2, <1>6, StillCopied, GoesActive, TypesAre
<1>13. \A n \in DOMAIN files : Known(n) => Known(n)' /\ TextOf(n)' = TextOf(n)
  BY <1>4, <1>6, SetFilesKeeps, TypesAre
<1>14. Saved'
  BY <1>2, <1>8, <1>11, <1>12, <1>13, SavedShown DEF TimeGiven
<1>15. \A x \in Active : Sound(x)'
  <2> SUFFICES ASSUME NEW x \in Active PROVE Sound(x)'
    OBVIOUS
  <2>1. SoundRemove(x)'
    BY <1>2, <1>9, <1>10, WhatIsMine DEF Sound, SoundRemove, Changer, Unsaved, saving
  <2>2. SoundImport(x)'
    BY <1>2, <1>6, <1>7, <1>9 DEF Sound, SoundImport
  <2> QED
    BY <1>2, <1>8, <1>9, <1>13, <2>1, <2>2
       DEF Sound, SoundOpen, SoundList, SoundRename, SoundAdd, Readable, Good, Unsaved, saving
<1>16. \A x, y \in Active \ {t} : x # y /\ x.kind = "rename" /\ Changer(y) => filename' \notin Mine(y)
  BY <1>10 DEF TimeGiven, Tasks, Apart
<1>17. CASE Goes(t, {})
  BY <1>14, <1>15, <1>16, <1>17, Leaving DEF TimeGiven
<1>18. CASE Goes(t, {OpenTask(filename')}) /\ filename \notin DOMAIN files
  <2>1. PICK o : o = OpenTask(filename')
    OBVIOUS
  <2>2. IsTask(o) /\ o.kind = "open" /\ o.pc = "wait" /\ o.path = filename'
    BY <2>1, TaskFields DEF OpenTask
  <2>3. filename' \in File
    BY <1>2, <1>5, <1>6, <1>18, TypesAre DEF File
  <2>4. Typed(o)
    BY <2>1, <2>3, TypedSpawned
  <2>5. Sound(o)'
    BY <1>11, <2>2 DEF ActiveThere, Sound, SoundOpen, SoundList, SoundRemove, SoundRename, SoundAdd, SoundImport
  <2>6. Goes(t, {o}) /\ \A s \in {o} : s.kind \in {"open", "list"} /\ Typed(s) /\ Sound(s)'
    BY <1>18, <2>1, <2>2, <2>4, <2>5
  <2>7. \A x \in Active : filename' \notin Mine(x)
    <3>1. CASE filename' = None
      BY <1>9, <3>1
    <3>2. CASE filename' # None
      <4>1. filename' \in DOMAIN files
        BY <1>6, <1>18, <3>2
      <4> QED
        BY <1>10, <1>18, <4>1
    <3> QED
      BY <3>1, <3>2
  <2>8. \A s \in {o}, x \in Active \ {t} : s.kind = "open" /\ Changer(x) => s.path \notin Mine(x)
    BY <2>2, <2>7
  <2> QED
    BY <1>14, <1>15, <1>16, <2>6, <2>8, Leaving DEF TimeGiven
<1> QED
  BY <1>6, <1>17, <1>18

----------------------------------------------------------------------------
(* Removing, renaming, adding and importing.                               *)

\* f and g are the same but for the names in C.
SameBut(f, g, C) ==
  \A n : n \notin C => (n \in DOMAIN f <=> n \in DOMAIN g) /\ (n \in DOMAIN f => g[n] = f[n])

\* A task that changes files of its own leaves what the others rely on.
LEMMA SoundApart ==
  ASSUME TInv, Tasks, NEW t \in Active, NEW C \in SUBSET Mine(t), NEW x \in Active,
         x # t \/ Mine(t) = {}, UNCHANGED <<cm, saving, past>>,
         SameBut(want, want', C), SameBut(disk, disk', C), \A n : n \notin C => (n \in tabs <=> n \in tabs'),
         (revision' = revision /\ DOMAIN disk \subseteq DOMAIN disk') \/ revision' = revision + 1,
         filename' = filename \/ filename' \in Mine(t),
         x.kind = "open" => x.path \notin C
  PROVE  Sound(x)'
<1>1. Typed(x) /\ Sound(x) /\ Mine(x) \intersect Mine(t) = {}
  BY TypesAre DEF Tasks, Apart
<1>2. \A n \in Mine(x) : n \notin C /\ n # None
  BY <1>1 DEF Mine
<1>3. SoundOpen(x)'
  BY <1>1 DEF Sound, SoundOpen, Readable, Good, SameBut, saving, Known, cm
<1>4. SoundList(x)'
  <2> SUFFICES ASSUME x.kind = "list" PROVE SoundList(x)'
    BY DEF SoundList
  <2>1. x.data.revision \in Nat /\ revision \in Nat
    BY <1>1, TypesAre DEF Typed, ListData
  <2>2. /\ x.data.revision <= revision
        /\ x.pc = "read" /\ x.data.revision = revision => x.data.names \subseteq DOMAIN disk
    BY <1>1 DEF Sound, SoundList
  <2>3. CASE revision' = revision /\ DOMAIN disk \subseteq DOMAIN disk'
    BY <2>2, <2>3 DEF SoundList
  <2>4. CASE revision' = revision + 1
    <3>1. x.data.revision <= revision' /\ x.data.revision # revision'
      BY <2>1, <2>2, <2>4
    <3> QED
      BY <3>1 DEF SoundList
  <2> QED
    BY <2>3, <2>4
<1>5. SoundRemove(x)'
  BY <1>1, WhatIsMine DEF Sound, SoundRemove, Unsaved, saving, Changer
<1>6. SoundRename(x)'
  <2> SUFFICES ASSUME x.kind = "rename" PROVE SoundRename(x)'
    BY DEF SoundRename
  <2>1. x.path \notin C /\ x.to \notin C
    BY <1>1, <1>2, WhatIsMine
  <2>2. SoundRename(x)
    BY <1>1 DEF Sound
  <2> QED
    BY <2>1, <2>2 DEF SoundRename, SameBut, Unsaved, saving
<1>7. SoundAdd(x)'
  <2> SUFFICES ASSUME x.kind = "add" PROVE SoundAdd(x)'
    BY DEF SoundAdd
  <2>1. x.path \notin C
    BY <1>1, <1>2, WhatIsMine DEF Changer
  <2> QED
    BY <1>1, <2>1 DEF Sound, SoundAdd, SameBut
<1>8. SoundImport(x)'
  <2> SUFFICES ASSUME x.kind = "import" PROVE SoundImport(x)'
    BY DEF SoundImport
  <2>1. Mine(x) = ({x.path, x.to} \union DOMAIN x.data) \ {None} /\ DOMAIN x.data \subseteq Name
    BY <1>1, WhatIsMine, FilesAt DEF Typed
  <2>2. DOMAIN x.data \intersect C = {} /\ (x.to # None => x.to \notin C) /\ (x.path # None => x.path \notin C)
    BY <1>2, <2>1, NamesAssumption
  <2>3. x.pc = "write" => x.path # None
    BY <1>1, FilesAt, NamesAssumption DEF Typed
  <2> QED
    BY <1>1, <2>2, <2>3 DEF Sound, SoundImport, SameBut
<1> QED
  BY <1>3, <1>4, <1>5, <1>6, <1>7, <1>8 DEF Sound

\* What a task opens and lists when it has changed files.
LEMMA NewTasks ==
  ASSUME ActiveThere', filename' \in File, revision' \in Nat
  PROVE  /\ \A o : o = OpenTask(filename') =>
              o.kind = "open" /\ o.path = filename' /\ Typed(o) /\ Sound(o)'
         /\ \A l : l = ListTask(revision') => l.kind = "list" /\ Typed(l) /\ Sound(l)'
<1>1. ASSUME NEW o, o = OpenTask(filename')
      PROVE  o.kind = "open" /\ o.path = filename' /\ Typed(o) /\ Sound(o)'
  <2>1. o.kind = "open" /\ o.pc = "wait" /\ o.path = filename'
    BY <1>1, TaskFields DEF OpenTask
  <2> QED
    BY <1>1, <2>1, TypedSpawned
       DEF ActiveThere, Sound, SoundOpen, SoundList, SoundRemove, SoundRename, SoundAdd, SoundImport
<1>2. ASSUME NEW l, l = ListTask(revision') PROVE l.kind = "list" /\ Typed(l) /\ Sound(l)'
  <2>1. l.kind = "list" /\ l.pc = "wait" /\ l.data.revision = revision'
    BY <1>2, TaskFields DEF ListTask
  <2> QED
    BY <1>2, <2>1, TypedSpawned
       DEF Sound, SoundOpen, SoundList, SoundRemove, SoundRename, SoundAdd, SoundImport
<1> QED
  BY <1>1, <1>2

\* What is to be written stays so when the files of C change that are not to be written.
LEMMA PendingApart ==
  ASSUME Pending, NEW C, SameBut(want, want', C), UNCHANGED <<cm, saving>>,
         \A n \in C : n \notin DOMAIN want \/ ~Unsaved(n)
  PROVE  Pending'
<1>1. \A n : (Known(n) => Known(n)') /\ TextOf(n)' = TextOf(n)
  BY DEF Known, TextOf, cm
<1>2. \A n \in writes \union writer.todo : n \notin C
  BY DEF Pending, Unsaved
<1>3. writer.path # None => writer.path \notin C
  BY DEF Pending, Unsaved
<1> QED
  BY <1>1, <1>2, <1>3 DEF Pending, SameBut, saving

LEMMA RemoveEntryKeeps == ASSUME TInv, TimeGiven, NEW t \in Active, RemoveEntry(t) PROVE TimeGiven'
<1>1. /\ t.kind = "remove" /\ t.pc = "remove" /\ Typed(t) /\ Sound(t) /\ Changer(t)
      /\ UNCHANGED <<tabs, filename, cm, saving>> /\ UNCHANGED <<cm, saving, past>>
  BY TypesAre DEF rest, RemoveEntry, Typed, Changer, TimeGiven, Tasks
<1>2. CASE t.path \notin DOMAIN disk
  BY <1>1, <1>2, GoodSame, EndKeeps DEF RemoveEntry, page
<1>3. CASE t.path \in DOMAIN disk
  <2>1. /\ disk' = Without(disk, t.path) /\ want' = Without(want, t.path) /\ revision' = revision + 1
        /\ Goes(t, {ListTask(revision')})
    BY <1>3 DEF RemoveEntry
  <2>0. disk \in Files /\ want \in Files
    BY TypesAre
  <2>2. /\ DOMAIN disk' = DOMAIN disk \ {t.path} /\ \A n \in DOMAIN disk' : disk'[n] = disk[n]
        /\ DOMAIN want' = DOMAIN want \ {t.path} /\ \A n \in DOMAIN want' : want'[n] = want[n]
    BY <2>0, <2>1, FilesWithout
  <2>3. SameBut(disk, disk', {t.path}) /\ SameBut(want, want', {t.path})
    BY <2>2 DEF SameBut
  <2>4. t.path \in Mine(t) /\ t.path # filename /\ ~Unsaved(t.path) /\ t.path # None
    BY <1>1, WhatIsMine DEF Sound, SoundRemove, Mine
  <2>5. ActiveThere'
    BY <1>1, <2>2, <2>4 DEF TimeGiven, Saved, ActiveThere
  <2>6. Pending'
    BY <1>1, <2>3, <2>4, PendingApart DEF TimeGiven, Saved
  <2>7. WriterOK'
    BY <1>1 DEF TimeGiven, Saved, WriterOK, saving
  <2>8. \A n : Copied(n) => Copied(n)'
    BY <1>1, <2>1, StillCopied, GoesActive, TypesAre
  <2>9. OnDisk'
    BY <1>1, <2>2, <2>8 DEF TimeGiven, Saved, OnDisk, Unsaved, saving
  <2>10. \A x \in Active : x # t => Sound(x)'
    <3> SUFFICES ASSUME NEW x \in Active, x # t PROVE Sound(x)'
      OBVIOUS
    <3>1. x.kind = "open" => x.path \notin {t.path}
      BY <1>1, <2>4 DEF TimeGiven, Tasks, Apart
    <3>2. {t.path} \in SUBSET Mine(t)
      BY <2>4
    <3> QED
      BY <1>1, <2>1, <2>3, <3>1, <3>2, SoundApart DEF TimeGiven
  <2>11. PICK l : l = ListTask(revision')
    OBVIOUS
  <2>12. Goes(t, {l}) /\ l.kind = "list" /\ Typed(l) /\ Sound(l)'
    BY <1>1, <2>1, <2>5, <2>11, NewTasks, TypesAre
  <2>13. \A x, y \in Active \ {t} : x # y /\ x.kind = "rename" /\ Changer(y) => filename' \notin Mine(y)
    BY <1>1 DEF TimeGiven, Tasks, Apart
  <2>14. Tasks'
    BY <2>4, <2>10, <2>12, <2>13, Leaving DEF TimeGiven
  <2> QED
    BY <2>5, <2>6, <2>7, <2>9, <2>14 DEF TimeGiven, Saved
<1> QED
  BY <1>2, <1>3

LEMMA RenameWriteKeeps == ASSUME TInv, TimeGiven, NEW t \in Active, RenameWrite(t) PROVE TimeGiven'
<1> DEFINE u == Then(t, "remove", t.data)
<1>1. /\ t.kind = "rename" /\ t.pc = "write" /\ Typed(t) /\ Sound(t) /\ Changer(t)
      /\ disk' = With(disk, t.to, t.data) /\ Goes(t, {u})
      /\ UNCHANGED <<page, cm, saving, want>> /\ UNCHANGED <<tabs, revision, filename>> /\ UNCHANGED <<cm, saving, past>>
  BY TypesAre DEF rest, RenameWrite, Typed, Changer, TimeGiven, Tasks, page
<1>2. /\ t.path \in Name /\ t.to \in Name /\ t.to \notin DOMAIN want /\ ~Unsaved(t.path)
      /\ t.path \in DOMAIN want /\ t.data = want[t.path]
  BY <1>1 DEF Typed, File, Sound, SoundRename
<1>3. /\ DOMAIN disk' = DOMAIN disk \union {t.to} /\ disk'[t.to] = t.data
      /\ \A n \in DOMAIN disk : n # t.to => disk'[n] = disk[n]
  BY <1>1 DEF With
<1>4. SameBut(disk, disk', {t.to}) /\ SameBut(want, want', {t.to})
  BY <1>1, <1>3 DEF SameBut
<1>5. IsTask(u) /\ u.kind = "rename" /\ u.pc = "remove" /\ u.path = t.path /\ u.to = t.to
  BY <1>1, TaskFields DEF Then
<1> HIDE DEF u
<1>6. Typed(u)
  BY <1>1, <1>2, <1>5, NamesAssumption DEF Typed, File
<1>7. Mine(u) = Mine(t) /\ u # t /\ t.to \in Mine(t)
  BY <1>1, <1>5, <1>6, WhatIsMine
<1>8. Sound(u)'
  BY <1>1, <1>2, <1>3, <1>5
     DEF Sound, SoundOpen, SoundList, SoundRemove, SoundRename, SoundAdd, SoundImport, Unsaved, saving
<1>9. \A x \in Active : x # t => Sound(x)'
  <2> SUFFICES ASSUME NEW x \in Active, x # t PROVE Sound(x)'
    OBVIOUS
  <2>1. x.kind = "open" => x.path \notin {t.to}
    BY <1>1, <1>7 DEF TimeGiven, Tasks, Apart
  <2>2. {t.to} \in SUBSET Mine(t) /\ DOMAIN disk \subseteq DOMAIN disk'
    BY <1>3, <1>7
  <2> QED
    BY <1>1, <1>4, <2>1, <2>2, SoundApart DEF TimeGiven
<1>10. Tasks'
  BY <1>1, <1>5, <1>6, <1>7, <1>8, <1>9, Continuing DEF TimeGiven
<1>11. ActiveThere' /\ WriterOK'
  BY <1>1 DEF TimeGiven, Saved, ActiveThere, WriterOK, saving
<1>12. Pending'
  BY <1>1, <1>2, <1>4, PendingApart DEF TimeGiven, Saved
<1>13. (\A n : Copied(n) => Copied(n)') /\ Copied(t.to)'
  <2>1. u \in Active'
    BY <1>1, GoesActive, TypesAre
  <2> QED
    BY <1>1, <1>5, <2>1, StillCopied, GoesActive, TypesAre DEF Copied
<1>14. OnDisk'
  BY <1>1, <1>2, <1>3, <1>13 DEF TimeGiven, Saved, OnDisk, Unsaved, saving
<1> QED
  BY <1>10, <1>11, <1>12, <1>14 DEF TimeGiven, Saved

LEMMA RenameRemoveKeeps == ASSUME TInv, TimeGiven, NEW t \in Active, RenameRemove(t) PROVE TimeGiven'
<1>1. /\ t.kind = "rename" /\ t.pc = "remove" /\ Typed(t) /\ Sound(t) /\ Changer(t)
      /\ UNCHANGED <<cm, saving>> /\ UNCHANGED <<cm, saving, past>>
  BY TypesAre DEF rest, RenameRemove, Typed, Changer, TimeGiven, Tasks
<1>2. /\ t.path \in Name /\ t.to \in Name /\ t.to \notin DOMAIN want /\ ~Unsaved(t.path)
      /\ t.path \in DOMAIN want /\ t.to \in DOMAIN disk /\ disk[t.to] = want[t.path]
  BY <1>1 DEF Typed, File, Sound, SoundRename
<1>3. t.path \in DOMAIN disk /\ t.path # t.to
  BY <1>2 DEF TimeGiven, Saved, OnDisk
<1>4. /\ disk' = Without(disk, t.path)
      /\ want' = With(Without(want, t.path), t.to, want[t.path])
      /\ tabs' = IF t.path \in tabs THEN (tabs \ {t.path}) \union {t.to} ELSE tabs
      /\ filename' = IF filename = t.path THEN t.to ELSE filename
      /\ revision' = revision + 1
      /\ Goes(t, {OpenTask(filename'), ListTask(revision')})
  BY <1>2, <1>3 DEF RenameRemove
<1>5. /\ DOMAIN disk' = DOMAIN disk \ {t.path} /\ \A n \in DOMAIN disk' : disk'[n] = disk[n]
  BY <1>4, FilesWithout, TypesAre
<1>6. /\ DOMAIN want' = (DOMAIN want \ {t.path}) \union {t.to} /\ want'[t.to] = want[t.path]
      /\ \A n \in DOMAIN want \ {t.path} : n # t.to => want'[n] = want[n]
  <2>1. /\ DOMAIN Without(want, t.path) = DOMAIN want \ {t.path}
        /\ \A n \in DOMAIN want \ {t.path} : Without(want, t.path)[n] = want[n]
    BY FilesWithout, TypesAre
  <2> QED
    BY <1>4, <2>1 DEF With
<1> DEFINE C == {t.path, t.to}
<1>7. SameBut(disk, disk', C) /\ SameBut(want, want', C)
  BY <1>5, <1>6 DEF SameBut
<1>8. C \in SUBSET Mine(t)
  BY <1>1, <1>2, NamesAssumption, WhatIsMine
<1>9. ActiveThere'
  BY <1>2, <1>4, <1>6 DEF TimeGiven, Saved, ActiveThere
<1>10. Pending'
  BY <1>1, <1>2, <1>7, PendingApart DEF TimeGiven, Saved
<1>11. WriterOK'
  BY <1>1 DEF TimeGiven, Saved, WriterOK, saving
<1>12. \A n : Copied(n) => Copied(n)' \/ n = t.to
  BY <1>4, GoesActive, TypesAre DEF Copied
<1>13. OnDisk'
  <2>1. DOMAIN want' \subseteq DOMAIN disk'
    BY <1>2, <1>3, <1>5, <1>6 DEF TimeGiven, Saved, OnDisk
  <2>2. \A n \in DOMAIN disk' : n \in DOMAIN want' \/ Copied(n)'
    BY <1>5, <1>6, <1>12 DEF TimeGiven, Saved, OnDisk
  <2>3. \A n \in DOMAIN want' : ~Unsaved(n)' => disk'[n] = want'[n]
    <3> SUFFICES ASSUME NEW n \in DOMAIN want', ~Unsaved(n)' PROVE disk'[n] = want'[n]
      OBVIOUS
    <3>1. n \in DOMAIN disk' /\ disk'[n] = disk[n]
      BY <1>5, <2>1
    <3>2. CASE n = t.to
      BY <1>2, <1>6, <3>1, <3>2
    <3>3. CASE n # t.to
      <4>1. n \in DOMAIN want /\ want'[n] = want[n]
        BY <1>6, <3>3
      <4>2. ~Unsaved(n)
        BY <1>1 DEF Unsaved, saving
      <4> QED
        BY <3>1, <4>1, <4>2 DEF TimeGiven, Saved, OnDisk
    <3> QED
      BY <3>2, <3>3
  <2> QED
    BY <2>1, <2>2, <2>3 DEF OnDisk
<1>14. filename' = filename \/ filename' \in Mine(t)
  BY <1>4, <1>8
<1>15. \A x \in Active : x # t => Sound(x)'
  <2> SUFFICES ASSUME NEW x \in Active, x # t PROVE Sound(x)'
    OBVIOUS
  <2>1. x.kind = "open" => x.path \notin C
    BY <1>1, <1>8 DEF TimeGiven, Tasks, Apart
  <2>2. \A n : n \notin C => (n \in tabs <=> n \in tabs')
    BY <1>4
  <2> HIDE DEF C
  <2> QED
    BY <1>1, <1>4, <1>7, <1>8, <1>14, <2>1, <2>2, SoundApart DEF TimeGiven
<1>16. \A x \in Active \ {t} : Changer(x) => filename' \notin Mine(x)
  <2> SUFFICES ASSUME NEW x \in Active \ {t}, Changer(x) PROVE filename' \notin Mine(x)
    OBVIOUS
  <2>1. Apart(t, x)
    BY DEF TimeGiven, Tasks
  <2> QED
    BY <1>1, <1>4, <1>8, <2>1 DEF Apart
<1>17. PICK o, l : o = OpenTask(filename') /\ l = ListTask(revision')
  OBVIOUS
<1>18. filename' \in File /\ revision' \in Nat
  BY <1>2, <1>4, TypesAre DEF File
<1>19. /\ o.kind = "open" /\ o.path = filename' /\ Typed(o) /\ Sound(o)'
       /\ l.kind = "list" /\ Typed(l) /\ Sound(l)'
  BY <1>9, <1>17, <1>18, NewTasks
<1>20. Goes(t, {o, l})
  BY <1>4, <1>17
<1>21. \A s \in {o, l} : s.kind \in {"open", "list"} /\ Typed(s) /\ Sound(s)'
  BY <1>19
<1>22. \A s \in {o, l}, x \in Active \ {t} : s.kind = "open" /\ Changer(x) => s.path \notin Mine(x)
  BY <1>16, <1>19
<1>23. \A x \in Active : x # t \/ Mine(t) = {} => Sound(x)'
  BY <1>8, <1>15
<1>24. Tasks'
  BY <1>16, <1>20, <1>21, <1>22, <1>23, Leaving DEF TimeGiven
<1> QED
  BY <1>9, <1>10, <1>11, <1>13, <1>24 DEF TimeGiven, Saved

LEMMA AddWriteKeeps == ASSUME TInv, TimeGiven, NEW t \in Active, AddWrite(t) PROVE TimeGiven'
<1>1. /\ t.kind = "add" /\ Typed(t) /\ Sound(t) /\ Changer(t) /\ t.path \in Name /\ t.path \notin DOMAIN want
      /\ disk' = With(disk, t.path, Empty) /\ want' = With(want, t.path, Empty)
      /\ filename' = t.path /\ tabs' = tabs \union {t.path} /\ revision' = revision + 1
      /\ Goes(t, {OpenTask(filename'), ListTask(revision')})
      /\ UNCHANGED <<cm, saving>> /\ UNCHANGED <<cm, saving, past>>
  BY TypesAre DEF rest, AddWrite, Typed, File, Changer, TimeGiven, Tasks, Sound, SoundAdd
<1>2. /\ DOMAIN disk' = DOMAIN disk \union {t.path} /\ disk'[t.path] = Empty
      /\ \A n \in DOMAIN disk : n # t.path => disk'[n] = disk[n]
      /\ DOMAIN want' = DOMAIN want \union {t.path} /\ want'[t.path] = Empty
      /\ \A n \in DOMAIN want : n # t.path => want'[n] = want[n]
  BY <1>1 DEF With
<1>3. SameBut(disk, disk', {t.path}) /\ SameBut(want, want', {t.path})
  BY <1>2 DEF SameBut
<1>4. t.path \in Mine(t)
  BY <1>1, WhatIsMine
<1>5. ActiveThere'
  BY <1>1, <1>2 DEF ActiveThere
<1>6. Pending'
  BY <1>1, <1>3, PendingApart DEF TimeGiven, Saved
<1>7. WriterOK'
  BY <1>1 DEF TimeGiven, Saved, WriterOK, saving
<1>8. \A n : Copied(n) => Copied(n)'
  BY <1>1, StillCopied, GoesActive, TypesAre
<1>9. OnDisk'
  BY <1>1, <1>2, <1>8 DEF TimeGiven, Saved, OnDisk, Unsaved, saving
<1>10. \A x \in Active : x # t => Sound(x)'
  <2> SUFFICES ASSUME NEW x \in Active, x # t PROVE Sound(x)'
    OBVIOUS
  <2>1. x.kind = "open" => x.path \notin {t.path}
    BY <1>1, <1>4 DEF TimeGiven, Tasks, Apart
  <2>2. {t.path} \in SUBSET Mine(t)
    BY <1>4
  <2>3. \A n : n \notin {t.path} => (n \in tabs <=> n \in tabs')
    BY <1>1
  <2> QED
    BY <1>1, <1>3, <1>4, <2>1, <2>2, <2>3, SoundApart DEF TimeGiven
<1>11. \A x \in Active \ {t} : filename' \notin Mine(x)
  BY <1>1, <1>4 DEF TimeGiven, Tasks, Apart
<1>12. PICK o, l : o = OpenTask(filename') /\ l = ListTask(revision')
  OBVIOUS
<1>13. filename' \in File /\ revision' \in Nat
  BY <1>1, TypesAre DEF File
<1>14. /\ o.kind = "open" /\ o.path = filename' /\ Typed(o) /\ Sound(o)'
       /\ l.kind = "list" /\ Typed(l) /\ Sound(l)'
  BY <1>5, <1>12, <1>13, NewTasks
<1>15. Goes(t, {o, l})
  BY <1>1, <1>12
<1>16. \A s \in {o, l} : s.kind \in {"open", "list"} /\ Typed(s) /\ Sound(s)'
  BY <1>14
<1>17. \A s \in {o, l}, x \in Active \ {t} : s.kind = "open" /\ Changer(x) => s.path \notin Mine(x)
  BY <1>11, <1>14
<1>18. \A x \in Active : x # t \/ Mine(t) = {} => Sound(x)'
  BY <1>4, <1>10
<1>19. Tasks'
  BY <1>11, <1>15, <1>16, <1>17, <1>18, Leaving DEF TimeGiven
<1> QED
  BY <1>5, <1>6, <1>7, <1>9, <1>19 DEF TimeGiven, Saved

\* The last file has been imported: the first that can be opened is.
LEMMA ImportEnds ==
  ASSUME TInv, TimeGiven, NEW t \in Active, ImportNext(t), DOMAIN t.data \ tabs = {}
  PROVE  TimeGiven'
<1>1. /\ t.kind = "import" /\ t.pc = "next" /\ Typed(t) /\ Sound(t) /\ t.to \in File
      /\ filename' = (IF t.to = None THEN filename ELSE t.to)
      /\ revision' = revision + 1 /\ UNCHANGED tabs
      /\ Goes(t, {ListTask(revision')} \union (IF t.to = None THEN {} ELSE {OpenTask(t.to)}))
      /\ UNCHANGED <<disk, cm, saving, want>> /\ UNCHANGED <<cm, saving, past>>
  BY TypesAre DEF ImportNext, Typed, TimeGiven, Tasks, rest
<1>2. t.to # None => t.to \in DOMAIN want /\ t.to \in Mine(t)
  BY <1>1, WhatIsMine DEF Sound, SoundImport
<1>3. ActiveThere'
  BY <1>1, <1>2 DEF TimeGiven, Saved, ActiveThere
<1>4. \A n : Copied(n) => Copied(n)'
  BY <1>1, StillCopied, GoesActive, TypesAre
<1>5. \A n : Known(n) => Known(n)' /\ TextOf(n)' = TextOf(n)
  BY <1>1 DEF Known, TextOf, cm
<1>6. Saved'
  BY <1>1, <1>3, <1>4, <1>5, SavedShown DEF TimeGiven
<1>7. \A x \in Active : x # t \/ Mine(t) = {} => Sound(x)'
  <2> SUFFICES ASSUME NEW x \in Active, x # t \/ Mine(t) = {} PROVE Sound(x)'
    OBVIOUS
  <2>1. SameBut(disk, disk', {}) /\ SameBut(want, want', {})
    BY <1>1 DEF SameBut
  <2>2. /\ x.kind = "open" => x.path \notin {}
        /\ \A n : n \notin {} => (n \in tabs <=> n \in tabs')
        /\ {} \in SUBSET Mine(t)
    BY <1>1
  <2>3. filename' = filename \/ filename' \in Mine(t)
    BY <1>1, <1>2
  <2> QED
    BY <1>1, <2>1, <2>2, <2>3, SoundApart DEF TimeGiven
<1>8. \A x, y \in Active \ {t} : x # y /\ x.kind = "rename" /\ Changer(y) => filename' \notin Mine(y)
  BY <1>1, <1>2 DEF TimeGiven, Tasks, Apart
<1>9. PICK o, l : o = OpenTask(filename') /\ l = ListTask(revision')
  OBVIOUS
<1>10. filename' \in File /\ revision' \in Nat
  BY <1>1, TypesAre DEF File
<1>11. /\ o.kind = "open" /\ o.path = filename' /\ Typed(o) /\ Sound(o)'
       /\ l.kind = "list" /\ Typed(l) /\ Sound(l)'
  BY <1>3, <1>9, <1>10, NewTasks
<1>12. CASE t.to = None
  <2>1. {ListTask(revision')} \union {} = {l}
    BY <1>9
  <2>2. Goes(t, {l})
    BY <1>1, <1>12, <2>1
  <2>3. \A s \in {l} : s.kind \in {"open", "list"} /\ Typed(s) /\ Sound(s)' /\ s.kind # "open"
    BY <1>11
  <2>4. Tasks'
    BY <1>7, <1>8, <2>2, <2>3, Leaving DEF TimeGiven
  <2> QED
    BY <1>6, <2>4 DEF TimeGiven
<1>13. CASE t.to # None
  <2>1. {ListTask(revision')} \union {OpenTask(t.to)} = {l, o}
    BY <1>1, <1>9, <1>13
  <2>2. Goes(t, {l, o})
    BY <1>1, <1>13, <2>1
  <2>3. \A s \in {l, o} : s.kind \in {"open", "list"} /\ Typed(s) /\ Sound(s)'
    BY <1>11
  <2>4. \A x \in Active \ {t} : filename' \notin Mine(x)
    BY <1>1, <1>2, <1>13 DEF TimeGiven, Tasks, Apart
  <2>5. \A s \in {l, o}, x \in Active \ {t} : s.kind = "open" /\ Changer(x) => s.path \notin Mine(x)
    BY <1>11, <2>4
  <2>6. Tasks'
    BY <1>7, <1>8, <2>2, <2>3, <2>5, Leaving DEF TimeGiven
  <2> QED
    BY <1>6, <2>6 DEF TimeGiven
<1> QED
  BY <1>12, <1>13

LEMMA ImportWriteKeeps == ASSUME TInv, TimeGiven, NEW t \in Active, ImportWrite(t) PROVE TimeGiven'
<1> DEFINE m == IF t.to = None /\ t.data[t.path] # Binary THEN t.path ELSE t.to
           text == t.data[t.path]
           u == Task("import", "next", None, m, Without(t.data, t.path))
<1>1. /\ t.kind = "import" /\ t.pc = "write" /\ Typed(t) /\ Sound(t) /\ t.to \in File /\ t.data \in Files
      /\ t.path \in DOMAIN t.data
      /\ disk' = With(disk, t.path, text) /\ want' = With(want, t.path, text)
      /\ tabs' = tabs \union {t.path} /\ Goes(t, {u})
      /\ UNCHANGED <<revision, filename, cm, saving>> /\ UNCHANGED <<cm, saving, past>>
  BY TypesAre DEF rest, ImportWrite, Typed, TimeGiven, Tasks
<1>2. t.path \in Name /\ t.path # None /\ t.path \notin DOMAIN want
  BY <1>1, FilesAt, NamesAssumption DEF Sound, SoundImport
<1> HIDE DEF text
<1>3. /\ DOMAIN disk' = DOMAIN disk \union {t.path} /\ disk'[t.path] = text
      /\ \A n \in DOMAIN disk : n # t.path => disk'[n] = disk[n]
      /\ DOMAIN want' = DOMAIN want \union {t.path} /\ want'[t.path] = text
      /\ \A n \in DOMAIN want : n # t.path => want'[n] = want[n]
  BY <1>1 DEF With
<1>4. SameBut(disk, disk', {t.path}) /\ SameBut(want, want', {t.path})
  BY <1>3 DEF SameBut
<1>5. t.path \in Mine(t)
  BY <1>1, <1>2, WhatIsMine
<1>6. /\ m \in {t.path, t.to} /\ m \in File
      /\ Without(t.data, t.path) \in Files /\ DOMAIN Without(t.data, t.path) = DOMAIN t.data \ {t.path}
  BY <1>1, <1>2, FilesWithout DEF File
<1> HIDE DEF m
<1>7. /\ IsTask(u) /\ u.kind = "import" /\ u.pc = "next" /\ u.path = None /\ u.to = m
      /\ u.data = Without(t.data, t.path)
  BY TaskFields
<1> HIDE DEF u
<1>8. Typed(u)
  BY <1>6, <1>7 DEF Typed, File
<1>9. Mine(u) \subseteq Mine(t) /\ u # t
  BY <1>1, <1>6, <1>7, <1>8, WhatIsMine
<1>10. Sound(u)'
  <2>1. SoundImport(u)'
    BY <1>1, <1>2, <1>3, <1>6, <1>7 DEF Sound, SoundImport
  <2> QED
    BY <1>7, <2>1 DEF Sound, SoundOpen, SoundList, SoundRemove, SoundRename, SoundAdd
<1>11. \A x \in Active : x # t => Sound(x)'
  <2> SUFFICES ASSUME NEW x \in Active, x # t PROVE Sound(x)'
    OBVIOUS
  <2>1. x.kind = "open" => x.path \notin {t.path}
    BY <1>2 DEF TimeGiven, Tasks, Sound, SoundOpen
  <2>2. {t.path} \in SUBSET Mine(t) /\ DOMAIN disk \subseteq DOMAIN disk'
    BY <1>3, <1>5
  <2>3. \A n : n \notin {t.path} => (n \in tabs <=> n \in tabs')
    BY <1>1
  <2> QED
    BY <1>1, <1>4, <2>1, <2>2, <2>3, SoundApart DEF TimeGiven
<1>12. \A x \in Active : x # t \/ Mine(t) = {} => Sound(x)'
  BY <1>5, <1>11
<1>13. Tasks'
  BY <1>1, <1>7, <1>8, <1>9, <1>10, <1>12, Continuing DEF TimeGiven
<1>14. ActiveThere'
  BY <1>1, <1>3 DEF TimeGiven, Saved, ActiveThere
<1>15. Pending'
  BY <1>1, <1>2, <1>4, PendingApart DEF TimeGiven, Saved
<1>16. WriterOK'
  BY <1>1 DEF TimeGiven, Saved, WriterOK, saving
<1>17. \A n : Copied(n) => Copied(n)'
  BY <1>1, StillCopied, GoesActive, TypesAre
<1>18. OnDisk'
  BY <1>1, <1>2, <1>3, <1>17 DEF TimeGiven, Saved, OnDisk, Unsaved, saving
<1> QED
  BY <1>13, <1>14, <1>15, <1>16, <1>18 DEF TimeGiven, Saved

\* A file that cannot be read is left out.
LEMMA ImportSkipsKeeps == ASSUME TInv, TimeGiven, NEW t \in Active, ImportSkips(t) PROVE TimeGiven'
<1> DEFINE u == Task("import", "next", None, t.to, Without(t.data, t.path))
<1>1. /\ t.kind = "import" /\ t.pc = "write" /\ Typed(t) /\ Sound(t) /\ t.to \in File /\ t.data \in Files
      /\ t.path \in DOMAIN t.data /\ Goes(t, {u}) /\ UNCHANGED <<disk, page, cm, saving, want, past>>
  BY TypesAre DEF ImportSkips, Typed, TimeGiven, Tasks, rest
<1>2. /\ Without(t.data, t.path) \in Files /\ DOMAIN Without(t.data, t.path) = DOMAIN t.data \ {t.path}
      /\ t.path # None
  BY <1>1, FilesWithout, FilesAt, NamesAssumption
<1>3. /\ IsTask(u) /\ u.kind = "import" /\ u.pc = "next" /\ u.path = None /\ u.to = t.to
      /\ u.data = Without(t.data, t.path)
  BY TaskFields
<1> HIDE DEF u
<1>4. Typed(u)
  BY <1>1, <1>2, <1>3 DEF Typed, File
<1>5. Mine(u) \subseteq Mine(t) /\ u # t
  BY <1>1, <1>2, <1>3, <1>4, WhatIsMine
<1>6. Sound(u)
  BY <1>1, <1>2, <1>3 DEF Sound, SoundOpen, SoundList, SoundRemove, SoundRename, SoundAdd, SoundImport
<1> QED
  BY <1>1, <1>3, <1>4, <1>5, <1>6, LearnKeeps

LEMMA UploadFailsKeeps == ASSUME TInv, TimeGiven, NEW t \in Active, UploadFails(t) PROVE TimeGiven'
<1>1. t.kind = "upload" /\ Goes(t, {}) /\ UNCHANGED <<disk, page, cm, saving, want, past>>
  BY DEF UploadFails, rest
<1> QED
  BY <1>1, GoodSame, EndKeeps

----------------------------------------------------------------------------
(* Nothing is lost.                                                        *)

\* Once a task was given no time, that is remembered.
LEMMA RacedStays == [Next]_vars /\ raced => raced'
<1> USE DEF rest
<1>1. ASSUME raced, User PROVE raced'
  BY <1>1 DEF User, Type, ServerEdits, ClickTab, Jump, ClickRemove, CommitRename, ClickAdd, Drop,
              ClickUpload, ClickRun, Click
<1>2. ASSUME raced, NEW t \in Active, Step(t) PROVE raced'
  BY <1>2 DEF Step, WaitSync, OpenRead, OpenApply, ListEntries, ReadNext, ReadFails, ListApply, RemoveEntry,
              RenameRead, RenameWrite, RenameRemove, AddWrite, ImportNext, ImportWrite, ImportSkips, UploadApply,
              UploadFails, RunSend
<1>3. ASSUME raced, WriterWakes \/ WriterWrites \/ RunEnds \/ UNCHANGED vars PROVE raced'
  BY <1>3 DEF WriterWakes, WriterWrites, RunEnds, vars
<1> QED
  BY <1>1, <1>2, <1>3 DEF Next

LEMMA InitGivesTime == Init => TimeGiven
<1> SUFFICES ASSUME Init PROVE TimeGiven
  OBVIOUS
<1>1. TInv
  BY InitTypes
<1>2. Active = {OpenTask(None), ListTask(0)}
  BY DEF Init, SetToBag, Active, BagToSet
<1>3. \A t \in Active :
        /\ t.pc = "wait" /\ t.path = None
        /\ \/ t.kind = "open"
           \/ t.kind = "list" /\ t.data.revision = 0
  <2>1. OpenTask(None).pc = "wait" /\ OpenTask(None).path = None /\ OpenTask(None).kind = "open"
    BY TaskFields DEF OpenTask
  <2>2. /\ ListTask(0).pc = "wait" /\ ListTask(0).path = None /\ ListTask(0).kind = "list"
        /\ ListTask(0).data.revision = 0
    BY TaskFields DEF ListTask
  <2> QED
    BY <1>2, <2>1, <2>2
<1>4. \A t \in Active : Mine(t) = {} /\ ~Changer(t) /\ t.kind # "rename"
  BY <1>3 DEF Mine, Changes, Changer
<1>5. \A t \in Active : Sound(t)
  BY <1>3 DEF Init, Sound, SoundOpen, SoundList, SoundRemove, SoundRename, SoundAdd, SoundImport
<1>6. Tasks
  BY <1>4, <1>5 DEF Tasks, Apart
<1>7. ActiveThere /\ WriterOK /\ Pending /\ OnDisk
  BY DEF Init, ActiveThere, WriterOK, Pending, OnDisk
<1> QED
  BY <1>6, <1>7 DEF TimeGiven, Saved

LEMMA StepKeeps ==
  ASSUME TInv, TimeGiven, NEW t \in Active, Step(t), ~raced' PROVE TimeGiven'
<1>1. CASE WaitSync(t)
  BY <1>1, WaitSyncSpawns, WaitSyncEnds
<1>2. CASE ImportNext(t)
  <2>1. CASE DOMAIN t.data \ tabs = {}
    BY <1>2, <2>1, ImportEnds
  <2>2. CASE DOMAIN t.data \ tabs # {}
    BY <1>2, <2>2, ImportChooses DEF ImportNext
  <2> QED
    BY <2>1, <2>2
<1> QED
  BY <1>1, <1>2, OpenReadKeeps, OpenApplyKeeps, ListEntriesKeeps, ReadNextKeeps, ReadEnds, ListApplyKeeps,
     RemoveEntryKeeps, RenameReadKeeps, RenameWriteKeeps, RenameRemoveKeeps, AddWriteKeeps,
     ImportWriteKeeps, ImportSkipsKeeps, UploadApplyKeeps, UploadFailsKeeps DEF Step

LEMMA UserKeeps == ASSUME TInv, TimeGiven, User, ~raced' PROVE TimeGiven'
BY TypeKeeps, ServerEditsKeeps, ClickTabKeeps, JumpKeeps, ClickRemoveKeeps, CommitRenameKeeps,
   ClickAddKeeps, DropKeeps, ClickUploadKeeps, ClickRunKeeps DEF User

LEMMA KInvHolds == SafeSpec => []KInv
<1>1. Init => KInv
  BY InitTypes, InitGivesTime DEF KInv
<1>2. KInv /\ [Next]_vars => KInv'
  <2> SUFFICES ASSUME KInv, [Next]_vars, ~raced' PROVE TimeGiven'
    BY NextTypes DEF KInv
  <2>1. TInv /\ TimeGiven
    BY RacedStays DEF KInv
  <2>2. CASE User
    BY <2>1, <2>2, UserKeeps
  <2>3. CASE \E t \in Active : Step(t)
    BY <2>1, <2>3, StepKeeps
  <2>4. CASE RunEnds \/ UNCHANGED vars
    <3>1. UNCHANGED <<disk, page, cm, saving, want, past, tasks>>
      BY <2>4 DEF RunEnds, vars, rest
    <3> QED
      BY <2>1, <3>1, IdleKeeps
  <2> QED
    BY <2>1, <2>2, <2>3, <2>4, WriterWakesKeeps, WriterWritesKeeps DEF Next
<1> QED
  BY <1>1, <1>2, PTL DEF SafeSpec

\* When every task has ended and nothing was raced, the directory holds the files that
\* the user has made and not removed, each with its last text, or an older one that an
\* opening put back which had begun to read before the last was typed.  However many
\* tasks are under way, also while a file is typed into that is opened again, the
\* autosave, openings, renames, removals and imports undo nothing else.  raced excludes
\* the user who acts on a file that a task is to change, and listings applied too late.
THEOREM FilesOfTheUser == SafeSpec => []NothingLost
<1>1. KInv => NothingLost
  <2> SUFFICES ASSUME KInv, Quiet, ~raced PROVE disk = want
    BY DEF NothingLost
  <2>1. TInv /\ TimeGiven /\ Active = {}
    BY DEF KInv, Quiet, Active, BagToSet, EmptyBag, SetToBag
  <2>2. \A n \in DOMAIN want : Stable(n)
    BY <2>1, SavedWhenClean DEF Quiet
  <2>3. DOMAIN disk = DOMAIN want
    BY <2>1 DEF TimeGiven, Saved, OnDisk, Copied
  <2>4. disk = [n \in DOMAIN disk |-> disk[n]] /\ want = [n \in DOMAIN want |-> want[n]]
    BY <2>1, FilesAt, TypesAre
  <2>5. \A n \in DOMAIN want : disk[n] = want[n]
    BY <2>2 DEF Stable
  <2> QED
    BY <2>3, <2>4, <2>5
<1> QED
  BY <1>1, KInvHolds, PTL

----------------------------------------------------------------------------
(***************************************************************************)
(* What the page shows, while the user gives the tasks time.               *)
(***************************************************************************)

\* A rename that has written the new file and has yet to remove the old one.
Copying(u) == u.kind = "rename" /\ u.pc = "remove"

\* What is on its way: an opening of n, a listing that is not out of date, a removal.
Opens(n) == \E t \in Active : t.kind = "open" /\ t.path = n
Listing == \E t \in Active : t.kind = "list" /\ t.data.revision = revision
Removing(n) == \E t \in Active : t.kind = "remove" /\ t.path = n

\* A text is that of n if it is what the user would find, unless n is binary; and that
\* of a copy if it is that of the file from which the copy was made.
Right(n, text) == n \in DOMAIN want /\ want[n] # Binary => text = want[n]
Twin(n, text) ==
  \A u \in Active : Copying(u) /\ u.to = n /\ want[u.path] # Binary => text = want[u.path]

\* The editor has no wrong text, and has the one that is being written.
Memory == \A n \in Name : Known(n) => Right(n, TextOf(n)) /\ Twin(n, TextOf(n))
WriterKnown == writer.path # None => Known(writer.path) /\ want[writer.path] # Binary

\* The files a task may create: the editor has none of them, unless a tab has, and the
\* task skips it then.
Awaited(t) ==
  CASE t.kind = "rename" /\ t.pc # "remove" -> {t.to}
    [] t.kind = "add" -> {t.path}
    [] t.kind = "import" -> DOMAIN t.data
    [] OTHER -> {}

Clean(t) ==
  \A n \in Awaited(t) : n \in tabs \intersect DOMAIN want \/ (n \notin DOMAIN want /\ ~Known(n))

\* What a listing has read is right, but for what the editor knows better.
Listed(t) ==
  t.kind = "list" /\ t.data.revision = revision =>
    /\ IF t.pc = "read" THEN DOMAIN t.data.files \subseteq t.data.names ELSE DOMAIN t.data.files = {}
    /\ \A n \in DOMAIN t.data.files :
         (Known(n) \/ Right(n, t.data.files[n])) /\ Twin(n, t.data.files[n])

\* The tabs are the files, but for those that are being removed or copied, or else they
\* will be listed.
TabsShown ==
  \/ Listing
  \/ /\ \A n \in DOMAIN want : n \in tabs \/ Removing(n)
     /\ \A n \in tabs : n \in DOMAIN want \/ Copied(n)

\* The active file is in the editor, or binary, or will be opened.
ActiveShown ==
  \/ Opens(filename)
  \/ filename \in DOMAIN want /\ want[filename] = Binary
  \/ open = filename /\ shown = filename

Shown ==
  /\ Memory /\ WriterKnown /\ TabsShown /\ ActiveShown
  /\ \A t \in Active : Clean(t) /\ Listed(t)

----------------------------------------------------------------------------
(* The page: steps that change nothing but the tasks.                      *)

\* A file that a task is to create is not there.
LEMMA NotThere ==
  ASSUME TInv, TimeGiven, NEW t \in Active, ~Copying(t), NEW n \in Mine(t), n \notin DOMAIN want
  PROVE  n \notin DOMAIN disk
<1>1. ASSUME NEW u \in Active, u.kind = "rename", n = u.to, u # t PROVE FALSE
  <2>1. Typed(u)
    BY TypesAre
  <2>2. n \in Mine(u)
    BY <1>1, <2>1, WhatIsMine
  <2> QED
    BY <1>1, <2>2 DEF TimeGiven, Tasks, Apart
<1> QED
  BY <1>1 DEF TimeGiven, Saved, OnDisk, Copied, Copying

LEMMA AwaitedIsMine == ASSUME NEW t, Typed(t) PROVE Awaited(t) \subseteq Mine(t)
<1>1. DOMAIN t.data \subseteq Name \/ t.kind # "import"
  BY FilesAt DEF Typed
<1> QED
  BY <1>1, NamesAssumption DEF Awaited, Mine, Changes, Typed

\* The tasks change, and nothing else that the page shows.
LEMMA PageSame ==
  ASSUME Shown, UNCHANGED <<page, open, cm, want>>, WriterKnown',
         \A x \in Active' \ Active :
           /\ Clean(x) /\ (Listed(x) \/ Listed(x)')
           /\ Copying(x) => \E v \in Active : Copying(v) /\ v.path = x.path /\ v.to = x.to,
         Opens(filename) => Opens(filename)', Listing => Listing',
         \A n \in DOMAIN want : Removing(n) => Removing(n)',
         \A n : Copied(n) => Copied(n)'
  PROVE  Shown'
<1> USE DEF page, cm
<1>1. \A n : TextOf(n)' = TextOf(n) /\ (Known(n)' <=> Known(n))
  BY DEF TextOf, Known
<1>2. \A n, x : Right(n, x) => Right(n, x)'
  BY DEF Right
<1>3. \A n, x : Twin(n, x) => Twin(n, x)'
  <2> SUFFICES ASSUME NEW n, NEW x, Twin(n, x), NEW u \in Active', Copying(u), u.to = n, want[u.path] # Binary
               PROVE  x = want[u.path]
    BY DEF Twin
  <2>1. PICK v \in Active : Copying(v) /\ v.path = u.path /\ v.to = u.to
    OBVIOUS
  <2> QED
    BY <2>1 DEF Twin
<1>4. Memory'
  BY <1>1, <1>2, <1>3 DEF Shown, Memory
<1>5. TabsShown'
  BY DEF Shown, TabsShown
<1>6. ActiveShown'
  BY DEF Shown, ActiveShown
<1>7. \A x : Clean(x) => Clean(x)'
  BY <1>1 DEF Clean
<1>8. \A x : Listed(x) => Listed(x)'
  BY <1>1, <1>2, <1>3 DEF Listed
<1>9. \A x \in Active' : Clean(x)' /\ Listed(x)'
  BY <1>7, <1>8 DEF Shown
<1> QED
  BY <1>4, <1>5, <1>6, <1>9 DEF Shown

LEMMA WriterKnownSame == ASSUME Shown, UNCHANGED <<cm, writer, want>> PROVE WriterKnown'
BY DEF Shown, WriterKnown, Known, cm

\* A task goes on.
LEMMA PageGoesOn ==
  ASSUME TInv, Shown, NEW t \in Active, NEW u, Goes(t, {u}), UNCHANGED <<page, open, cm, want, writer>>,
         u.kind = t.kind, t.kind \in {"open", "remove", "rename"} => u.path = t.path /\ u.to = t.to,
         t.kind = "list" => u.data.revision = t.data.revision,
         Copying(u) <=> Copying(t), Awaited(u) \subseteq Awaited(t), Listed(u)
  PROVE  Shown'
<1>1. Active' \subseteq Active \union {u} /\ Active \ {t} \subseteq Active' /\ u \in Active'
  BY GoesActive, TypesAre
<1>2. WriterKnown'
  BY WriterKnownSame
<1>3. Clean(u)
  BY DEF Shown, Clean
<1>4. Copying(u) => \E v \in Active : Copying(v) /\ v.path = u.path /\ v.to = u.to
  BY DEF Copying
<1>5. UNCHANGED <<filename, revision>>
  BY DEF page
<1>6. Opens(filename) => Opens(filename)'
  BY <1>1, <1>5 DEF Opens
<1>7. Listing => Listing'
  BY <1>1, <1>5 DEF Listing
<1>8. \A n \in DOMAIN want : Removing(n) => Removing(n)'
  BY <1>1 DEF Removing
<1>9. \A n : Copied(n) => Copied(n)'
  BY <1>1 DEF Copied, Copying
<1>10. \A x \in Active' \ Active :
         /\ Clean(x) /\ (Listed(x) \/ Listed(x)')
         /\ Copying(x) => \E v \in Active : Copying(v) /\ v.path = x.path /\ v.to = x.to
  BY <1>1, <1>3, <1>4
<1> QED
  BY <1>2, <1>6, <1>7, <1>8, <1>9, <1>10, PageSame

\* A task ends, of which the page expects nothing.
LEMMA PageEnds ==
  ASSUME TInv, Shown, NEW t \in Active, Goes(t, {}), UNCHANGED <<page, open, cm, want, writer>>,
         t.kind = "open" => t.path # filename, t.kind = "list" => t.data.revision # revision,
         t.kind = "remove" => t.path \notin DOMAIN want, ~Copying(t)
  PROVE  Shown'
<1>1. Active' \subseteq Active /\ Active \ {t} \subseteq Active'
  BY GoesActive, TypesAre
<1>2. WriterKnown'
  BY WriterKnownSame
<1>5. UNCHANGED <<filename, revision>>
  BY DEF page
<1>6. Opens(filename) => Opens(filename)'
  BY <1>1, <1>5 DEF Opens
<1>7. Listing => Listing'
  BY <1>1, <1>5 DEF Listing
<1>8. \A n \in DOMAIN want : Removing(n) => Removing(n)'
  BY <1>1 DEF Removing
<1>9. \A n : Copied(n) => Copied(n)'
  BY <1>1 DEF Copied, Copying
<1> QED
  BY <1>1, <1>2, <1>6, <1>7, <1>8, <1>9, PageSame

\* A click that spawns a task and leaves the page as it is.
LEMMA PageClicked ==
  ASSUME TInv, Shown, NEW u, Spawn({u}), UNCHANGED <<page, open, cm, want, writer>>,
         u.kind # "list", ~Copying(u), Clean(u)
  PROVE  Shown'
<1>1. Active' = Active \union {u}
  BY SpawnActive, TypesAre
<1>2. WriterKnown' /\ Listed(u)
  BY WriterKnownSame DEF Listed
<1>5. UNCHANGED <<filename, revision>>
  BY DEF page
<1>6. Opens(filename) => Opens(filename)'
  BY <1>1, <1>5 DEF Opens
<1>7. Listing => Listing'
  BY <1>1, <1>5 DEF Listing
<1>8. \A n \in DOMAIN want : Removing(n) => Removing(n)'
  BY <1>1 DEF Removing
<1>9. \A n : Copied(n) => Copied(n)'
  BY <1>1 DEF Copied
<1> QED
  BY <1>1, <1>2, <1>6, <1>7, <1>8, <1>9, PageSame

\* What a task waits for, reads or chooses says nothing yet.
LEMMA PageWaits ==
  ASSUME TInv, TimeGiven, Shown, NEW t \in Active, WaitSync(t), ~(t.kind = "open" /\ t.path = None)
  PROVE  Shown'
<1> DEFINE u == Then(t, AfterWait(t.kind), t.data)
<1>1. Typed(t) /\ Goes(t, {u}) /\ UNCHANGED <<page, open, cm, want, writer>> /\ t.pc = "wait"
  BY TypesAre DEF WaitSync, saving
<1>2. u.kind = t.kind /\ u.pc = AfterWait(t.kind) /\ u.path = t.path /\ u.to = t.to /\ u.data = t.data
  BY TaskFields DEF Then
<1> HIDE DEF u
<1>3. ~Copying(t) /\ ~Copying(u) /\ Awaited(u) = Awaited(t)
  BY <1>1, <1>2 DEF Copying, AfterWait, Awaited
<1>4. Listed(t)
  BY DEF Shown
<1>5. Listed(u)
  BY <1>1, <1>2, <1>4 DEF Listed, AfterWait
<1> QED
  BY <1>1, <1>2, <1>3, <1>5, PageGoesOn

LEMMA PageListed ==
  ASSUME TInv, TimeGiven, Shown, NEW t \in Active, ListEntries(t) PROVE Shown'
<1> DEFINE d == [t.data EXCEPT !.names = DOMAIN disk]
           u == Then(t, "read", d)
<1>1. Typed(t) /\ t.kind \in {"list", "run"} /\ t.pc = "list" /\ UNCHANGED <<page, open, cm, want, writer>>
  BY TypesAre DEF ListEntries, saving
<1>2. u.kind = t.kind /\ u.pc = "read" /\ u.data = d
  BY TaskFields DEF Then
<1>3. t.kind = "list" => d.revision = t.data.revision /\ d.files = t.data.files /\ d.names = DOMAIN disk
  BY <1>1 DEF Typed, ListData
<1>4. ~Copying(t) /\ ~Copying(u) /\ Awaited(u) = {}
  BY <1>1, <1>2 DEF Copying, Awaited
<1>5. CASE Goes(t, {}) /\ t.kind = "list" /\ t.data.revision # revision
  BY <1>1, <1>4, <1>5, PageEnds
<1>6. CASE Goes(t, {u})
  <2> HIDE DEF d, u
  <2>1. Listed(t)
    BY DEF Shown
  <2>2. Listed(u)
    BY <1>1, <1>2, <1>3, <2>1 DEF Listed
  <2> QED
    BY <1>1, <1>2, <1>3, <1>4, <1>6, <2>2, PageGoesOn
<1> QED
  BY <1>5, <1>6 DEF ListEntries

\* A file that is not about to be written is on disk as it should be, and so is the copy
\* of a rename: what a listing reads is right.
LEMMA ReadsRight ==
  ASSUME TInv, TimeGiven, Shown, NEW t \in Active, t.kind = "list", t.data.revision = revision, t.pc = "read",
         NEW files \in Reads(t)
  PROVE  /\ DOMAIN files \subseteq t.data.names
         /\ t.data.names \subseteq DOMAIN disk
         /\ \A n \in DOMAIN files : (Known(n) \/ Right(n, files[n])) /\ Twin(n, files[n])
<1>1. Typed(t) /\ Sound(t) /\ Listed(t)
  BY TypesAre DEF TimeGiven, Tasks, Shown
<1>2. t.data.files \in Files /\ t.data.names \subseteq DOMAIN disk /\ DOMAIN t.data.files \subseteq t.data.names
  BY <1>1 DEF Typed, ListData, Sound, SoundList, Listed
<1>3. \A n \in DOMAIN t.data.files :
        (Known(n) \/ Right(n, t.data.files[n])) /\ Twin(n, t.data.files[n])
  BY <1>1 DEF Listed
<1>4. CASE Left(t) = {}
  BY <1>2, <1>3, <1>4 DEF Reads
<1>5. CASE Left(t) # {}
  <2>1. PICK n \in Left(t) \intersect DOMAIN disk : files = With(t.data.files, n, disk[n])
    BY <1>5 DEF Reads
  <2>2. n \in t.data.names /\ DOMAIN files = DOMAIN t.data.files \union {n} /\ files[n] = disk[n]
    BY <2>1 DEF Left, With
  <2>3. \A m \in DOMAIN files : m # n => m \in DOMAIN t.data.files /\ files[m] = t.data.files[m]
    BY <2>1, <2>2 DEF With
  <2>4. Known(n) \/ Right(n, disk[n])
    <3> SUFFICES ASSUME ~Known(n), n \in DOMAIN want PROVE disk[n] = want[n]
      BY DEF Right
    <3>1. n \in Name
      BY TypesAre, FilesAt
    <3>2. n # writer.path
      BY <3>1, NamesAssumption DEF Shown, WriterKnown
    <3>3. ~Unsaved(n)
      BY <3>2 DEF TimeGiven, Saved, Pending, Unsaved
    <3> QED
      BY <3>3 DEF TimeGiven, Saved, OnDisk
  <2>5. Twin(n, disk[n])
    <3> SUFFICES ASSUME NEW u \in Active, Copying(u), u.to = n PROVE disk[n] = want[u.path]
      BY DEF Twin
    <3> QED
      BY DEF TimeGiven, Tasks, Sound, SoundRename, Copying
  <2> QED
    BY <1>2, <1>3, <2>2, <2>3, <2>4, <2>5
<1> QED
  BY <1>4, <1>5

LEMMA PageReadsNext ==
  ASSUME TInv, TimeGiven, Shown, NEW t \in Active, ReadNext(t) PROVE Shown'
<1>1. PICK files \in Reads(t) : Goes(t, {Then(t, "read", [t.data EXCEPT !.files = files])})
  BY DEF ReadNext
<1> DEFINE d == [t.data EXCEPT !.files = files]
           u == Then(t, "read", d)
<1>2. Typed(t) /\ t.kind \in {"list", "run"} /\ t.pc = "read" /\ UNCHANGED <<page, open, cm, want, writer>>
  BY TypesAre DEF ReadNext, saving
<1>3. t.kind = "list" => d.revision = t.data.revision /\ d.files = files /\ d.names = t.data.names
  BY <1>2 DEF Typed, ListData
<1>4. u.kind = t.kind /\ u.pc = "read" /\ u.data = d
  BY TaskFields DEF Then
<1>5. Goes(t, {u})
  BY <1>1
<1> HIDE DEF d, u
<1>6. Listed(u)
  BY <1>2, <1>3, <1>4, ReadsRight DEF Listed
<1>7. ~Copying(t) /\ ~Copying(u) /\ Awaited(u) = {}
  BY <1>2, <1>4 DEF Copying, Awaited
<1> QED
  BY <1>2, <1>3, <1>4, <1>5, <1>6, <1>7, PageGoesOn

\* A listing that is not out of date finds what it has listed.
LEMMA PageReadEnds ==
  ASSUME TInv, TimeGiven, Shown, NEW t \in Active, ReadFails(t) \/ RunSend(t) PROVE Shown'
<1>1. Typed(t) /\ Sound(t) /\ t.kind \in {"list", "run"} /\ t.pc = "read" /\ Goes(t, {})
      /\ UNCHANGED <<page, open, cm, want, writer>>
  BY TypesAre DEF ReadFails, RunSend, TimeGiven, Tasks, saving
<1>2. t.kind = "list" => t.data.revision # revision
  BY <1>1 DEF ReadFails, RunSend, Left, Sound, SoundList
<1> QED
  BY <1>1, <1>2, PageEnds DEF Copying

LEMMA PageRenameReads ==
  ASSUME TInv, TimeGiven, Shown, NEW t \in Active, RenameRead(t) PROVE Shown'
<1> DEFINE u == Then(t, "write", disk[t.path])
<1>1. t.kind = "rename" /\ t.pc = "read" /\ UNCHANGED <<page, open, cm, want, writer>>
  BY DEF RenameRead, saving
<1>2. u.kind = "rename" /\ u.pc = "write" /\ u.path = t.path /\ u.to = t.to
  BY <1>1, TaskFields DEF Then
<1>3. Goes(t, {}) \/ Goes(t, {u})
  BY DEF RenameRead
<1> HIDE DEF u
<1>4. ~Copying(t) /\ ~Copying(u) /\ Awaited(u) = Awaited(t) /\ Listed(u)
  BY <1>1, <1>2 DEF Copying, Awaited, Listed
<1> QED
  BY <1>1, <1>2, <1>3, <1>4, PageEnds, PageGoesOn

LEMMA PageImportChooses ==
  ASSUME TInv, TimeGiven, Shown, NEW t \in Active, ImportNext(t), NEW n,
         Goes(t, {Task("import", "write", n, t.to, t.data)}), UNCHANGED page
  PROVE  Shown'
<1> DEFINE u == Task("import", "write", n, t.to, t.data)
<1>1. t.kind = "import" /\ UNCHANGED <<page, open, cm, want, writer>>
  BY DEF ImportNext, saving
<1>2. u.kind = "import" /\ u.data = t.data
  BY TaskFields
<1>3. Goes(t, {u})
  OBVIOUS
<1> HIDE DEF u
<1>4. ~Copying(t) /\ ~Copying(u) /\ Awaited(u) = Awaited(t) /\ Listed(u)
  BY <1>1, <1>2 DEF Copying, Awaited, Listed
<1> QED
  BY <1>1, <1>2, <1>3, <1>4, PageGoesOn

LEMMA PageImportSkips ==
  ASSUME TInv, TimeGiven, Shown, NEW t \in Active, ImportSkips(t) PROVE Shown'
<1> DEFINE d == Without(t.data, t.path)
           u == Task("import", "next", None, t.to, d)
<1>1. t.kind = "import" /\ UNCHANGED <<page, open, cm, want, writer>>
  BY DEF ImportSkips, saving
<1>2. u.kind = "import" /\ u.data = d
  BY TaskFields
<1>3. Goes(t, {u})
  BY DEF ImportSkips
<1>4. DOMAIN d \subseteq DOMAIN t.data
  BY DEF Without, Restrict
<1> HIDE DEF d, u
<1>5. ~Copying(t) /\ ~Copying(u) /\ Awaited(u) \subseteq Awaited(t) /\ Listed(u)
  BY <1>1, <1>2, <1>4 DEF Copying, Awaited, Listed
<1> QED
  BY <1>1, <1>2, <1>3, <1>5, PageGoesOn

LEMMA PageOpenReads ==
  ASSUME TInv, TimeGiven, Shown, NEW t \in Active, OpenRead(t) PROVE Shown'
<1>1. PICK x : Goes(t, {Then(t, "apply", x)})
  BY DEF OpenRead
<1> DEFINE u == Then(t, "apply", x)
<1>2. t.kind = "open" /\ UNCHANGED <<page, open, cm, want, writer>>
  BY DEF OpenRead, saving
<1>3. u.kind = "open" /\ u.path = t.path /\ u.to = t.to
  BY <1>2, TaskFields DEF Then
<1>4. Goes(t, {u})
  BY <1>1
<1> HIDE DEF u
<1>5. ~Copying(t) /\ ~Copying(u) /\ Awaited(u) = {} /\ Listed(u)
  BY <1>2, <1>3 DEF Copying, Awaited, Listed
<1> QED
  BY <1>2, <1>3, <1>4, <1>5, PageGoesOn

LEMMA PageIdle ==
  ASSUME TInv, Shown, UNCHANGED <<page, open, cm, want, tasks>>, WriterKnown' PROVE Shown'
<1>1. Active' = Active /\ UNCHANGED <<filename, revision>>
  BY DEF Active, page
<1>2. /\ Opens(filename) => Opens(filename)'
      /\ Listing => Listing'
      /\ \A n \in DOMAIN want : Removing(n) => Removing(n)'
      /\ \A n : Copied(n) => Copied(n)'
  BY <1>1 DEF Opens, Listing, Removing, Copied
<1>3. \A x \in Active' \ Active :
        /\ Clean(x) /\ (Listed(x) \/ Listed(x)')
        /\ Copying(x) => \E v \in Active : Copying(v) /\ v.path = x.path /\ v.to = x.to
  BY <1>1
<1> QED
  BY <1>2, <1>3, PageSame

LEMMA PageWriter ==
  ASSUME TInv, TimeGiven, Shown, WriterWakes \/ WriterWrites PROVE Shown'
<1>1. UNCHANGED <<page, open, cm, want, tasks>>
  BY DEF WriterWakes, WriterWrites
<1>2. writer'.path # None => writer'.path \in writes \union writer.todo
  BY DEF WriterWakes, WriterWrites, WriterGoesOn
<1>3. WriterKnown'
  BY <1>1, <1>2 DEF WriterKnown, TimeGiven, Saved, Pending, Known, cm
<1> QED
  BY <1>1, <1>3, PageIdle

\* A file that is new to the directory and to the editor.
LEMMA FreshFile == ASSUME TimeGiven, NEW n, Fresh(n) PROVE n \notin DOMAIN want /\ ~Known(n)
BY DEF Fresh, Known, TimeGiven, Saved, OnDisk

LEMMA PageClicks ==
  ASSUME TInv, TimeGiven, Shown, ~raced',
         \/ ClickUpload \/ ClickRun
         \/ \E n \in Name : ClickAdd(n)
         \/ \E n, m \in Name : CommitRename(n, m)
         \/ \E files \in Imports : Drop(files)
  PROVE  Shown'
<1> USE DEF saving
<1>1. CASE ClickUpload
  <2> DEFINE u == Task("upload", "read", filename, None, edits')
  <2>1. Spawn({u}) /\ UNCHANGED <<page, open, cm, want, writer>>
    BY <1>1 DEF ClickUpload
  <2>2. u.kind = "upload"
    BY TaskFields
  <2> HIDE DEF u
  <2> QED
    BY <2>1, <2>2, PageClicked DEF Copying, Clean, Awaited
<1>2. CASE ClickRun
  <2> DEFINE d == [names |-> {}, files |-> <<>>]
             u == Task("run", "wait", None, None, d)
  <2>1. Spawn({u}) /\ UNCHANGED <<page, open, cm, want, writer>>
    BY <1>2 DEF ClickRun
  <2> HIDE DEF d
  <2>2. u.kind = "run"
    BY TaskFields
  <2> HIDE DEF u
  <2> QED
    BY <2>1, <2>2, PageClicked DEF Copying, Clean, Awaited
<1>3. ASSUME NEW n \in Name, ClickAdd(n) PROVE Shown'
  <2> DEFINE u == Task("add", "write", n, None, Empty)
  <2>1. Spawn({u}) /\ UNCHANGED <<page, open, cm, want, writer>> /\ Click(~Fresh(n))
    BY <1>3 DEF ClickAdd
  <2>2. u.kind = "add" /\ u.path = n
    BY TaskFields
  <2> HIDE DEF u
  <2>3. n \notin DOMAIN want /\ ~Known(n)
    BY <2>1, FreshFile DEF Click
  <2>4. Clean(u) /\ ~Copying(u)
    BY <2>2, <2>3 DEF Copying, Clean, Awaited
  <2> QED
    BY <2>1, <2>2, <2>4, PageClicked
<1>4. ASSUME NEW n \in Name, NEW m \in Name, CommitRename(n, m) PROVE Shown'
  <2> DEFINE u == Task("rename", "wait", n, m, Empty)
  <2>1. /\ Spawn({u}) /\ UNCHANGED <<page, open, cm, want, writer>>
        /\ Click(~Free(n) \/ ~Fresh(m) \/ Changing(filename))
    BY <1>4 DEF CommitRename
  <2>2. u.kind = "rename" /\ u.pc = "wait" /\ u.to = m
    BY TaskFields
  <2> HIDE DEF u
  <2>3. m \notin DOMAIN want /\ ~Known(m)
    BY <2>1, FreshFile DEF Click
  <2>4. Clean(u) /\ ~Copying(u)
    BY <2>2, <2>3 DEF Copying, Clean, Awaited
  <2> QED
    BY <2>1, <2>2, <2>4, PageClicked
<1>5. ASSUME NEW files \in Imports, Drop(files) PROVE Shown'
  <2> DEFINE u == Task("import", "next", None, None, files)
             early == \E n \in DOMAIN files : Changing(n) \/ (n \notin tabs \intersect DOMAIN want /\ ~Fresh(n))
  <2>1. Spawn({u}) /\ UNCHANGED <<page, open, cm, want, writer>> /\ Click(early)
    BY <1>5 DEF Drop
  <2>2. ~early
    <3> HIDE DEF early
    <3> QED
      BY <2>1, NotEarly
  <2>3. \A n \in DOMAIN files : n \in tabs \intersect DOMAIN want \/ Fresh(n)
    BY <2>2
  <2>4. u.kind = "import" /\ u.data = files
    BY TaskFields
  <2> HIDE DEF u, early
  <2>5. Clean(u) /\ ~Copying(u)
    BY <2>3, <2>4, FreshFile DEF Copying, Clean, Awaited
  <2> QED
    BY <2>1, <2>4, <2>5, PageClicked
<1> QED
  BY <1>1, <1>2, <1>3, <1>4, <1>5

\* What a current listing has read of was there, so it has nothing of a file that is
\* about to be created.
LEMMA NotListed ==
  ASSUME TInv, TimeGiven, Shown, NEW x \in Active, x.kind = "list", x.data.revision = revision,
         NEW n \in DOMAIN x.data.files
  PROVE  n \in DOMAIN disk
BY DEF TimeGiven, Tasks, Sound, SoundList, Shown, Listed

\* From now on there are two files of one text, and the editor has the old one.
LEMMA PageRenameWrites ==
  ASSUME TInv, TimeGiven, Shown, NEW t \in Active, RenameWrite(t) PROVE Shown'
<1> USE DEF page, cm
<1> DEFINE u == Then(t, "remove", t.data)
<1>1. /\ Typed(t) /\ Sound(t) /\ Clean(t) /\ t.kind = "rename" /\ t.pc = "write" /\ Goes(t, {u})
      /\ UNCHANGED <<page, open, cm, want, writer>>
  BY TypesAre DEF RenameWrite, TimeGiven, Tasks, Shown, saving
<1>2. u.kind = "rename" /\ u.pc = "remove" /\ u.path = t.path /\ u.to = t.to
  BY <1>1, TaskFields DEF Then
<1> HIDE DEF u
<1>3. t.to \notin DOMAIN want /\ t.to \in Mine(t) /\ ~Copying(t)
  BY <1>1, WhatIsMine DEF Sound, SoundRename, Copying
<1>4. t.to \notin DOMAIN disk /\ ~Known(t.to)
  BY <1>1, <1>3, NotThere DEF Clean, Awaited
<1>5. Active' \subseteq Active \union {u} /\ Active \ {t} \subseteq Active' /\ u \in Active'
  BY <1>1, GoesActive, TypesAre
<1>6. \A n : TextOf(n)' = TextOf(n) /\ (Known(n)' <=> Known(n))
  BY <1>1 DEF TextOf, Known
<1>7. \A n, x : Right(n, x) => Right(n, x)'
  BY <1>1 DEF Right
<1>8. \A n, x : n # t.to /\ Twin(n, x) => Twin(n, x)'
  BY <1>1, <1>2, <1>5 DEF Twin
<1>9. Memory'
  BY <1>4, <1>6, <1>7, <1>8 DEF Shown, Memory
<1>10. WriterKnown'
  BY <1>1, WriterKnownSame
<1>11. /\ Listing => Listing'
       /\ \A n : Removing(n) => Removing(n)'
       /\ \A n : Copied(n) => Copied(n)'
       /\ Opens(filename) => Opens(filename)'
  BY <1>1, <1>5 DEF Listing, Removing, Copied, Opens
<1>12. TabsShown' /\ ActiveShown'
  BY <1>1, <1>11 DEF Shown, TabsShown, ActiveShown
<1>13. \A x : Clean(x) => Clean(x)'
  BY <1>1, <1>6 DEF Clean
<1>14. \A x \in Active : Listed(x)'
  <2> SUFFICES ASSUME NEW x \in Active, x.kind = "list", x.data.revision = revision PROVE Listed(x)'
    BY <1>1 DEF Listed
  <2>1. \A n \in DOMAIN x.data.files : n # t.to
    BY <1>4, NotListed
  <2>2. Listed(x)
    BY DEF Shown
  <2> QED
    BY <1>6, <1>7, <1>8, <2>1, <2>2 DEF Listed
<1>15. Clean(u)' /\ Listed(u)'
  BY <1>2 DEF Clean, Awaited, Listed
<1> QED
  BY <1>5, <1>9, <1>10, <1>12, <1>13, <1>14, <1>15 DEF Shown

----------------------------------------------------------------------------
(* The page: what the editor shows and keeps.                              *)

\* A file that the user would find is no copy.
LEMMA NoTwin ==
  ASSUME TimeGiven, NEW n \in DOMAIN want
  PROVE  \A x : Twin(n, x)
BY DEF Twin, Copying, TimeGiven, Tasks, Sound, SoundRename

LEMMA TaskFiles ==
  ASSUME NEW x, Typed(x)
  PROVE  /\ Awaited(x) \subseteq Name
         /\ x.kind = "list" => DOMAIN x.data.files \subseteq Name
<1>1. x.kind = "import" => DOMAIN x.data \subseteq Name
  BY FilesAt DEF Typed
<1>2. x.kind = "list" => DOMAIN x.data.files \subseteq Name
  BY FilesAt DEF Typed, ListData
<1> QED
  BY <1>1, <1>2 DEF Awaited, Typed, File

\* The editor learns no file but those that are on disk, with the right text, and
\* forgets none that the user would find.
LEMMA MemoryKept ==
  ASSUME TInv, TimeGiven, Shown, UNCHANGED <<want, revision>>, writer'.path = writer.path,
         \A n \in DOMAIN want : want[n] # Binary /\ Known(n) => Known(n)',
         \A n \in Name : Known(n)' =>
           \/ Known(n) /\ TextOf(n)' = TextOf(n)
           \/ n \in DOMAIN disk /\ Right(n, TextOf(n)') /\ Twin(n, TextOf(n)'),
         \A x \in Active : \A n \in Awaited(x) \intersect tabs \intersect DOMAIN want : n \in tabs',
         \A x \in Active' \ Active : x.kind \in {"open", "remove"}
  PROVE  Memory' /\ WriterKnown' /\ \A x \in Active' : Clean(x)' /\ Listed(x)'
<1>1. \A n, x : Right(n, x) => Right(n, x)'
  BY DEF Right
<1>2. \A n, x : Twin(n, x) => Twin(n, x)'
  BY DEF Twin, Copying
<1>3. Memory'
  BY <1>1, <1>2 DEF Shown, Memory
<1>4. WriterKnown'
  BY DEF Shown, WriterKnown, TimeGiven, Saved, Pending
<1>5. ASSUME NEW x \in Active PROVE Clean(x)' /\ Listed(x)'
  <2>1. Typed(x) /\ Awaited(x) \subseteq Mine(x) /\ Awaited(x) \subseteq Name /\ Clean(x) /\ Listed(x)
        /\ (x.kind = "list" => DOMAIN x.data.files \subseteq Name)
    BY TypesAre, AwaitedIsMine, TaskFiles DEF Shown
  <2>2. ASSUME NEW n \in Awaited(x), n \notin DOMAIN want, ~Known(n) PROVE ~Known(n)'
    <3>1. ~Copying(x)
      BY DEF Copying, Awaited
    <3>2. n \notin DOMAIN disk
      BY <2>1, <2>2, <3>1, NotThere
    <3> QED
      BY <2>1, <2>2, <3>2
  <2>3. Clean(x)'
    BY <2>1, <2>2 DEF Clean
  <2>4. Listed(x)'
    <3> SUFFICES ASSUME x.kind = "list", x.data.revision = revision PROVE Listed(x)'
      BY DEF Listed
    <3>1. \A n \in DOMAIN x.data.files : Known(n) \/ Right(n, x.data.files[n]) => Known(n)' \/ Right(n, x.data.files[n])'
      BY <1>1 DEF Right
    <3> QED
      BY <1>2, <2>1, <3>1 DEF Listed
  <2> QED
    BY <2>3, <2>4
<1>6. \A x \in Active' \ Active : Clean(x)' /\ Listed(x)'
  BY DEF Clean, Awaited, Listed
<1> QED
  BY <1>3, <1>4, <1>5, <1>6

\* Tabs and files are as they were, and so are the tasks that will change them.
LEMMA TabsKept ==
  ASSUME Shown, UNCHANGED <<want, tabs, revision>>,
         \A x \in Active : x.kind \in {"list", "remove", "rename"} => x \in Active'
  PROVE  TabsShown'
<1>1. /\ Listing => Listing'
      /\ \A n : Removing(n) => Removing(n)'
      /\ \A n : Copied(n) => Copied(n)'
  BY DEF Listing, Removing, Copied
<1> QED
  BY <1>1 DEF Shown, TabsShown

\* Which files the editor knows after it shows another.
LEMMA SetFileKnows ==
  ASSUME EditorTypes, NEW f \in File, SetFile(f), NEW n \in Name
  PROVE  Known(n)' => Known(n) \/ n = f
BY DEF SetFile, Known, With

LEMMA ShowKnows ==
  ASSUME EditorTypes, NEW f \in File, NEW text, Show(f, text), NEW n \in Name
  PROVE  Known(n)' => Known(n) \/ n = f
BY DEF Show, Known, With

\* No file is active, and none is shown.
LEMMA PageShowsNone ==
  ASSUME TInv, TimeGiven, Shown, NEW t \in Active, WaitSync(t), t.kind = "open" /\ t.path = None
  PROVE  Shown'
<1>1. Goes(t, {}) /\ UNCHANGED <<disk, page, want>>
  BY DEF WaitSync
<1>2. CASE StillActive(t)
  <2>1. Show(None, Empty) /\ open' = None /\ filename = None
    BY <1>2 DEF WaitSync, StillActive
  <2>2. UNCHANGED saving /\ shown' = None
    BY <2>1 DEF Show, Onchange
  <2>3. \A n \in Name : (Known(n) => Known(n)' /\ TextOf(n)' = TextOf(n)) /\ (Known(n)' => Known(n))
    BY <2>1, ShowKeeps, ShowKnows, TypesAre, NamesAssumption DEF File
  <2>4. Active' \subseteq Active /\ Active \ {t} \subseteq Active' /\ DOMAIN want \subseteq Name
    BY <1>1, GoesActive, TypesAre, FilesAt
  <2>5. Memory' /\ WriterKnown' /\ \A x \in Active' : Clean(x)' /\ Listed(x)'
    BY <1>1, <2>2, <2>3, <2>4, MemoryKept DEF page, saving
  <2>6. TabsShown'
    BY <1>1, <2>4, TabsKept DEF page
  <2>7. ActiveShown'
    BY <1>1, <2>1, <2>2 DEF ActiveShown, page
  <2> QED
    BY <2>5, <2>6, <2>7 DEF Shown
<1>3. CASE ~StillActive(t)
  <2>1. UNCHANGED <<page, open, cm, want, writer>>
    BY <1>1, <1>3 DEF WaitSync, saving
  <2> QED
    BY <1>1, <1>3, <2>1, PageEnds DEF StillActive, Copying
<1> QED
  BY <1>2, <1>3

\* The text of a file changes, in the editor and for the user.
LEMMA PageEdited ==
  ASSUME TInv, TimeGiven, Shown, NEW n \in Name, NEW text, text # Binary, n \in DOMAIN want, want[n] # Binary,
         want' = With(want, n, text), \A u \in Active : Copying(u) => u.path # n,
         UNCHANGED page, writer'.path = writer.path, ActiveShown', Known(n)', TextOf(n)' = text,
         \A m \in Name : m # n => (Known(m) => Known(m)' /\ TextOf(m)' = TextOf(m)) /\ (Known(m)' => Known(m)),
         Active' \subseteq Active, \A x \in Active : x.kind \in {"list", "remove", "rename"} => x \in Active'
  PROVE  Shown'
<1> USE DEF page
<1>1. /\ DOMAIN want' = DOMAIN want /\ want'[n] = text
      /\ \A m \in DOMAIN want : m # n => want'[m] = want[m]
      /\ DOMAIN want \subseteq Name
  BY FilesAt, TypesAre DEF With
<1>2. \A m, x : m # n /\ Right(m, x) => Right(m, x)'
  BY <1>1 DEF Right
<1>3. \A m, x : Twin(m, x) => Twin(m, x)'
  <2> SUFFICES ASSUME NEW m, NEW x, Twin(m, x), NEW u \in Active', Copying(u), u.to = m, want'[u.path] # Binary
               PROVE  x = want'[u.path]
    BY DEF Twin
  <2>1. u.path # n
    OBVIOUS
  <2>2. u.path \in DOMAIN want
    BY DEF Copying, TimeGiven, Tasks, Sound, SoundRename
  <2> QED
    BY <1>1, <2>1, <2>2 DEF Twin
<1>4. Right(n, text)'
  BY <1>1 DEF Right
<1>5. \A x : Twin(n, x)
  BY NoTwin
<1>6. Memory'
  BY <1>2, <1>3, <1>4, <1>5 DEF Shown, Memory
<1>8. WriterKnown'
  BY <1>1 DEF Shown, WriterKnown, TimeGiven, Saved, Pending
<1>9. ASSUME NEW x \in Active PROVE Clean(x)' /\ Listed(x)'
  <2>1. /\ Typed(x) /\ Clean(x) /\ Listed(x) /\ Awaited(x) \subseteq Name
        /\ x.kind = "list" => DOMAIN x.data.files \subseteq Name
    BY TypesAre, TaskFiles DEF Shown
  <2>2. Clean(x)'
    BY <1>1, <2>1 DEF Clean
  <2>3. Listed(x)'
    BY <1>2, <1>3, <2>1 DEF Listed
  <2> QED
    BY <2>2, <2>3
<1>10. /\ Listing => Listing'
       /\ \A m : Removing(m) => Removing(m)'
       /\ \A m : Copied(m) => Copied(m)'
  BY DEF Listing, Removing, Copied
<1>11. TabsShown'
  BY <1>1, <1>10 DEF Shown, TabsShown
<1> QED
  BY <1>6, <1>8, <1>9, <1>11 DEF Shown

\* The active file stays shown when a text changes.
LEMMA StaysActive ==
  ASSUME Shown, NEW n, want[n] # Binary, NEW text, want' = With(want, n, text), UNCHANGED <<page, open, shown>>,
         \A x \in Active : x.kind = "open" => x \in Active'
  PROVE  ActiveShown'
<1>1. Opens(filename) => Opens(filename)'
  BY DEF Opens, page
<1>2. filename \in DOMAIN want /\ want[filename] = Binary =>
        filename' \in DOMAIN want' /\ want'[filename'] = Binary
  BY DEF With, page
<1> QED
  BY <1>1, <1>2 DEF Shown, ActiveShown, page

\* The file that was opened is shown if it is still the active one.
LEMMA PageOpens ==
  ASSUME TInv, TimeGiven, Shown, NEW t \in Active, OpenApply(t) PROVE Shown'
<1>1. /\ t.kind = "open" /\ t.pc = "apply" /\ t.path \in Name /\ t.path \in DOMAIN want /\ Good(t.path, t.data)
      /\ Goes(t, {}) /\ UNCHANGED <<disk, page>>
      /\ StillActive(t) /\ t.data # Binary /\ t.data # TextOf(t.path) => want' = With(want, t.path, t.data)
      /\ ~StillActive(t) \/ t.data = Binary \/ t.data = TextOf(t.path) => UNCHANGED want
  BY OpenApplyTexts
<1>2. /\ t.path \in DOMAIN disk
      /\ Active' \subseteq Active /\ Active \ {t} \subseteq Active' /\ DOMAIN want \subseteq Name
  BY <1>1, GoesActive, TypesAre, FilesAt DEF TimeGiven, Saved, OnDisk
<1>3. CASE ~StillActive(t)
  <2>1. UNCHANGED <<page, open, cm, want, writer>>
    BY <1>1, <1>3 DEF OpenApply, saving
  <2> QED
    BY <1>1, <1>3, <2>1, PageEnds DEF StillActive, Copying
<1>4. PICK n \in Name : n = t.path
  BY <1>1
<1>5. UNCHANGED want => TabsShown'
  BY <1>1, <1>2, TabsKept DEF page
<1>6. \A x : Twin(n, x)
  BY <1>1, <1>4, NoTwin
<1>7. CASE StillActive(t) /\ t.data = Binary
  <2>1. SetFile(n) /\ UNCHANGED saving /\ UNCHANGED want /\ want[n] = Binary
    BY <1>1, <1>4, <1>7 DEF OpenApply, Good
  <2>2. \A m \in Name : (Known(m) => Known(m)' /\ TextOf(m)' = TextOf(m)) /\ (Known(m)' => Known(m) \/ m = n)
    BY <2>1, SetFileKeeps, SetFileKnows, TypesAre DEF File
  <2>3. \A x : Right(n, x)
    BY <2>1 DEF Right
  <2>4. Memory' /\ WriterKnown' /\ \A x \in Active' : Clean(x)' /\ Listed(x)'
    BY <1>1, <1>2, <1>4, <1>6, <2>1, <2>2, <2>3, MemoryKept DEF page, saving
  <2>5. ActiveShown'
    BY <1>1, <1>4, <1>7, <2>1 DEF ActiveShown, StillActive, page
  <2> QED
    BY <1>5, <2>1, <2>4, <2>5 DEF Shown
<1>8. CASE StillActive(t) /\ t.data # Binary
  <2>1. Show(n, t.data) /\ open' = n
    BY <1>4, <1>8 DEF OpenApply
  <2>2. /\ \A m \in Name : /\ m # n /\ Known(m) => Known(m)' /\ TextOf(m)' = TextOf(m)
                           /\ Known(m)' => Known(m) \/ m = n
        /\ Known(n)' /\ TextOf(n)' = t.data
    BY <2>1, ShowKeeps, ShowKnows, TypesAre DEF File
  <2>4. writer'.path = writer.path
    BY <2>1, OnchangeSaves, TypesAre DEF Show, saving, TimeGiven, Saved
  <2>6. ActiveShown'
    BY <1>1, <1>4, <1>8, <2>1 DEF ActiveShown, StillActive, page, Show
  <2>7. CASE t.data = TextOf(n)
    <3>1. UNCHANGED want
      BY <1>1, <1>4, <2>7
    <3>2. Right(n, t.data)
      BY <1>1, <1>4, <2>7 DEF Good, Right, Shown, Memory
    <3>3. Right(n, TextOf(n)')
      BY <2>2, <3>2
    <3>4. Memory' /\ WriterKnown' /\ \A x \in Active' : Clean(x)' /\ Listed(x)'
      BY <1>1, <1>2, <1>4, <1>6, <2>2, <3>1, <3>3, <2>4, MemoryKept DEF page
    <3> QED
      BY <1>5, <2>6, <3>1, <3>4 DEF Shown
  <2>8. CASE t.data # TextOf(n)
    <3>1. want' = With(want, n, t.data) /\ n \in DOMAIN want /\ want[n] # Binary
      BY <1>1, <1>4, <1>8, <2>8, OpenApplyTexts DEF Good
    <3>2. ASSUME NEW u \in Active, Copying(u) PROVE u.path # n
      <4>1. u # t /\ Changer(u) /\ Typed(u) /\ Apart(t, u)
        BY <1>1, <3>2, TypesAre DEF Copying, Changer, TimeGiven, Tasks
      <4>2. u.path \in Mine(u)
        BY <3>2, <4>1, WhatIsMine DEF Copying
      <4> QED
        BY <1>1, <1>4, <4>1, <4>2 DEF Apart
    <3>3. \A x \in Active : x.kind \in {"list", "remove", "rename"} => x \in Active'
      BY <1>1, <1>2
    <3> QED
      BY <1>1, <1>2, <1>8, <2>2, <2>4, <2>6, <3>1, <3>2, <3>3, PageEdited
  <2> QED
    BY <2>7, <2>8
<1> QED
  BY <1>3, <1>7, <1>8

LEMMA PageTyped == ASSUME TInv, TimeGiven, Shown, Type, ~raced' PROVE Shown'
<1>1. PICK n \in Name : n = filename
  BY TypesAre DEF Type, Editable, File
<1>2. /\ open = n /\ shown = n /\ ~Overtaken(n) /\ Edit(n) /\ Onchange(n) /\ view' = edits'
      /\ UNCHANGED <<page, open, shown>> /\ UNCHANGED <<states, tasks>>
      /\ n \in DOMAIN want /\ want[n] # Binary
  BY <1>1 DEF Type, Editable
<1>4. edits' # Binary /\ want' = With(want, n, edits')
  BY <1>2, EditTypes DEF Edit, Rewrite
<1>5. /\ Known(n)' /\ TextOf(n)' = edits'
      /\ \A m \in Name : m # n => (Known(m)' <=> Known(m)) /\ TextOf(m)' = TextOf(m)
  BY <1>2 DEF Known, TextOf
<1>6. Active' = Active
  BY <1>2 DEF Active
<1>7. ActiveShown' /\ writer'.path = writer.path
  BY <1>2, <1>4, <1>6, StaysActive, OnchangeSaves, TypesAre DEF TimeGiven, Saved
<1>8. \A u \in Active : Copying(u) => u.path # n
  BY <1>2 DEF Overtaken, Changes, Copying
<1> QED
  BY <1>2, <1>4, <1>5, <1>6, <1>7, <1>8, PageEdited

LEMMA PageServerEdits ==
  ASSUME TInv, TimeGiven, Shown, NEW n \in Name, ServerEdits(n), ~raced' PROVE Shown'
<1>1. /\ ~Overtaken(n) /\ n \in DOMAIN want /\ want[n] # Binary /\ Edit(n) /\ Onchange(n)
      /\ UNCHANGED <<page, open, shown>> /\ UNCHANGED tasks
  BY DEF ServerEdits
<1>2. /\ n = shown => view' = edits' /\ UNCHANGED states
      /\ n # shown => n \in DOMAIN states /\ UNCHANGED view /\ states' = [states EXCEPT ![n] = edits']
  BY DEF ServerEdits
<1>3. edits' # Binary /\ want' = With(want, n, edits')
  BY <1>1, EditTypes DEF Edit, Rewrite
<1>4. /\ Known(n)' /\ TextOf(n)' = edits'
      /\ \A m \in Name : m # n => (Known(m)' <=> Known(m)) /\ TextOf(m)' = TextOf(m)
  BY <1>1, <1>2 DEF Known, TextOf
<1>5. Active' = Active
  BY <1>1 DEF Active
<1>6. ActiveShown' /\ writer'.path = writer.path
  BY <1>1, <1>3, <1>5, StaysActive, OnchangeSaves, TypesAre DEF TimeGiven, Saved
<1>7. \A u \in Active : Copying(u) => u.path # n
  BY <1>1 DEF Overtaken, Changes, Copying
<1> QED
  BY <1>1, <1>3, <1>4, <1>5, <1>6, <1>7, PageEdited

LEMMA PageUploads ==
  ASSUME TInv, TimeGiven, Shown, NEW t \in Active, UploadApply(t), ~raced' PROVE Shown'
<1>1. /\ t.kind = "upload" /\ Goes(t, {}) /\ view' = t.data /\ Onchange(shown)
      /\ want' = With(want, t.path, t.data)
      /\ UNCHANGED <<page, open, shown>> /\ UNCHANGED states
      /\ shown = t.path /\ filename = t.path /\ want[t.path] # Binary /\ ~Overtaken(t.path)
  BY DEF UploadApply, Rewrite
<1>2. t.path \in Name /\ t.data # Binary
  BY <1>1, TypesAre DEF Typed, File
<1>3. PICK n \in Name : n = t.path
  BY <1>2
<1>4. n \in DOMAIN want
  BY <1>1, <1>3, NamesAssumption DEF TimeGiven, Saved, ActiveThere
<1>5. /\ Known(n)' /\ TextOf(n)' = t.data
      /\ \A m \in Name : m # n => (Known(m)' <=> Known(m)) /\ TextOf(m)' = TextOf(m)
  BY <1>1, <1>3 DEF Known, TextOf
<1>6. Active' \subseteq Active /\ Active \ {t} \subseteq Active'
  BY <1>1, GoesActive, TypesAre
<1>7. \A x \in Active : x.kind \in {"open", "list", "remove", "rename"} => x \in Active'
  BY <1>1, <1>6
<1>8. ActiveShown' /\ writer'.path = writer.path
  BY <1>1, <1>3, <1>7, StaysActive, OnchangeSaves, TypesAre DEF TimeGiven, Saved
<1>9. \A u \in Active : Copying(u) => u.path # n
  BY <1>1, <1>3 DEF Overtaken, Changes, Copying
<1> QED
  BY <1>1, <1>2, <1>3, <1>4, <1>5, <1>6, <1>7, <1>8, <1>9, PageEdited

LEMMA PageUploadFails ==
  ASSUME TInv, Shown, NEW t \in Active, UploadFails(t) PROVE Shown'
BY PageEnds DEF UploadFails, saving, Copying

\* Another file becomes active: it will be opened.
LEMMA PageActivates ==
  ASSUME TInv, TimeGiven, Shown, NEW n \in Name, ClickTab(n) \/ Jump(n), ~raced' PROVE Shown'
<1>1. /\ filename' = n /\ Spawn({OpenTask(n)}) /\ n \in DOMAIN want
      /\ UNCHANGED <<want, tabs, revision, writer>>
  BY NotEarly DEF ClickTab, Jump, saving
<1>2. PICK u : u = OpenTask(n)
  OBVIOUS
<1>3. u.kind = "open" /\ u.path = n
  BY <1>2, TaskFields DEF OpenTask
<1>4. Active' = Active \union {u} /\ DOMAIN want \subseteq Name
  BY <1>1, <1>2, SpawnActive, FilesAt, TypesAre
<1>5. \A m \in Name : (Known(m) => Known(m)' /\ TextOf(m)' = TextOf(m)) /\ (Known(m)' => Known(m))
  <2>1. CASE ClickTab(n)
    BY <2>1 DEF ClickTab, Known, TextOf, cm
  <2>2. CASE Jump(n)
    <3>1. SetFile(n) /\ Known(n)
      BY <2>2 DEF Jump, Known
    <3> QED
      BY <3>1, SetFileKeeps, SetFileKnows, TypesAre DEF File
  <2> QED
    BY <2>1, <2>2
<1>6. Memory' /\ WriterKnown' /\ \A x \in Active' : Clean(x)' /\ Listed(x)'
  BY <1>1, <1>3, <1>4, <1>5, MemoryKept
<1>7. TabsShown'
  BY <1>1, <1>4, TabsKept
<1>8. ActiveShown'
  BY <1>1, <1>3, <1>4 DEF ActiveShown, Opens
<1> QED
  BY <1>6, <1>7, <1>8 DEF Shown

LEMMA PageRemoves ==
  ASSUME TInv, TimeGiven, Shown, NEW n \in Name, ClickRemove(n), ~raced' PROVE Shown'
<1>0. PICK o : o = OpenTask(filename')
  OBVIOUS
<1> DEFINE u == Task("remove", "wait", n, None, Empty)
           early == ~Free(n) \/ Changing(filename) \/ n \notin DOMAIN want
<1>1. /\ Click(early) /\ Spawn({o, u}) /\ tabs' = tabs \ {n} /\ UNCHANGED <<want, revision, writer, cm>>
  BY <1>0 DEF ClickRemove, saving
<1>2. ~early
  <2> HIDE DEF early
  <2> QED
    BY <1>1, NotEarly
<1>3. Free(n)
  BY <1>2
<1> HIDE DEF early
<1>4. o.kind = "open" /\ o.path = filename' /\ u.kind = "remove" /\ u.path = n
  BY <1>0, TaskFields DEF OpenTask
<1> HIDE DEF u
<1>5. Active' = Active \union {o, u}
  BY <1>1, SpawnActive, TypesAre
<1>6. \A m \in Name : (Known(m)' <=> Known(m)) /\ TextOf(m)' = TextOf(m)
  BY <1>1 DEF Known, TextOf, cm
<1>7. \A x \in Active : n \notin Awaited(x)
  BY <1>3, FreeFile, AwaitedIsMine, TypesAre
<1>8. \A x \in Active : \A m \in Awaited(x) \intersect tabs \intersect DOMAIN want : m \in tabs'
  BY <1>1, <1>7
<1>9. \A x \in Active' \ Active : x.kind \in {"open", "remove"}
  BY <1>4, <1>5
<1>10. DOMAIN want \subseteq Name
  BY FilesAt, TypesAre
<1>11. Memory' /\ WriterKnown' /\ \A x \in Active' : Clean(x)' /\ Listed(x)'
  BY <1>1, <1>6, <1>8, <1>9, <1>10, MemoryKept
<1>12. /\ Listing => Listing'
       /\ \A m : Removing(m) => Removing(m)'
       /\ \A m : Copied(m) => Copied(m)'
       /\ Removing(n)' /\ Opens(filename)'
  BY <1>1, <1>4, <1>5 DEF Listing, Removing, Copied, Opens
<1>13. TabsShown'
  BY <1>1, <1>12 DEF Shown, TabsShown
<1>14. ActiveShown'
  BY <1>12 DEF ActiveShown
<1> QED
  BY <1>11, <1>13, <1>14 DEF Shown

----------------------------------------------------------------------------
(* The page: what the directory lists, and files that come and go.         *)

\* The editor keeps the text files of a listing, those that it has with its own text.
LEMMA SetFilesKnows ==
  ASSUME NEW files, SetFiles(files), NEW n, Known(n)'
  PROVE  \/ Known(n) /\ TextOf(n)' = TextOf(n)
         \/ ~Known(n) /\ n \in DOMAIN files /\ TextOf(n)' = files[n]
<1>1. /\ shown' = shown /\ view' = view
      /\ states' = [m \in DOMAIN files \ ({shown} \ DOMAIN states) |->
                      IF m \in DOMAIN states THEN states[m] ELSE files[m]]
  BY DEF SetFiles
<1>2. CASE n = shown
  BY <1>1, <1>2 DEF Known, TextOf
<1>3. CASE n # shown
  <2>1. /\ n \in DOMAIN states' /\ n \in DOMAIN files
        /\ states'[n] = IF n \in DOMAIN states THEN states[n] ELSE files[n]
    BY <1>1, <1>3 DEF Known
  <2>2. TextOf(n)' = states'[n]
    BY <1>1, <1>3, <2>1 DEF TextOf
  <2> QED
    BY <1>1, <1>3, <2>1, <2>2 DEF Known, TextOf
<1> QED
  BY <1>2, <1>3

LEMMA PageLists ==
  ASSUME TInv, TimeGiven, Shown, NEW t \in Active, ListApply(t), ~raced' PROVE Shown'
<1>1. PICK read \in Reads(t) :
        LET files == Restrict(read, {n \in t.data.names : read[n] # Binary}) IN
        /\ All(t, read)
        /\ tabs' = t.data.names /\ SetFiles(files)
        /\ IF filename \in DOMAIN files THEN UNCHANGED filename /\ Goes(t, {})
           ELSE /\ filename' \in (IF files = <<>> THEN {None} ELSE DOMAIN files)
                /\ Goes(t, {OpenTask(filename')})
        /\ raced' = (raced \/ Outdated(t, files) \/ (filename' # filename /\ Changing(filename')))
  BY DEF ListApply
<1> DEFINE S == {n \in t.data.names : read[n] # Binary}
           files == Restrict(read, S)
<1>2. /\ t.kind = "list" /\ t.pc = "read" /\ t.data.names \subseteq Name
      /\ UNCHANGED <<disk, revision, open, saving, want>> /\ UNCHANGED writer
  BY TypesAre DEF ListApply, Typed, ListData, saving
<1>3. /\ read \in Files /\ S \subseteq DOMAIN read
  BY <1>1, <1>2, TypesAre, ReadsTyped DEF All
<1>4. files \in Files /\ DOMAIN files = S /\ \A n \in S : files[n] = read[n]
  <2> HIDE DEF S
  <2> QED
    BY <1>3, FilesRestricted
<1>5. /\ tabs' = t.data.names /\ SetFiles(files) /\ ~Outdated(t, files)
      /\ \/ UNCHANGED filename /\ Goes(t, {})
         \/ Goes(t, {OpenTask(filename')})
  BY <1>1 DEF S
<1>6. /\ files \in Files /\ DOMAIN files \subseteq t.data.names /\ DOMAIN files \subseteq DOMAIN read
      /\ \A n \in DOMAIN files : files[n] = read[n]
  BY <1>3, <1>4
<1> HIDE DEF S, files
<1>7. /\ t.data.revision = revision /\ DOMAIN want \subseteq t.data.names
      /\ \A n \in DOMAIN want : want[n] # Binary => n \in DOMAIN files
  BY <1>5 DEF Outdated
<1>8. /\ t.data.names \subseteq DOMAIN disk
      /\ \A n \in DOMAIN files : (Known(n) \/ Right(n, files[n])) /\ Twin(n, files[n])
  BY <1>1, <1>2, <1>6, <1>7, ReadsRight
<1>9. \A n \in DOMAIN want : want[n] # Binary /\ Known(n) => Known(n)'
  BY <1>5, <1>6, <1>7, SetFilesKeeps, TypesAre
<1>10. \A n \in Name : Known(n)' =>
         \/ Known(n) /\ TextOf(n)' = TextOf(n)
         \/ n \in DOMAIN disk /\ Right(n, TextOf(n)') /\ Twin(n, TextOf(n)')
  <2> SUFFICES ASSUME NEW n \in Name, Known(n)'
               PROVE  \/ Known(n) /\ TextOf(n)' = TextOf(n)
                      \/ n \in DOMAIN disk /\ Right(n, TextOf(n)') /\ Twin(n, TextOf(n)')
    OBVIOUS
  <2>1. \/ Known(n) /\ TextOf(n)' = TextOf(n)
        \/ ~Known(n) /\ n \in DOMAIN files /\ TextOf(n)' = files[n]
    BY <1>5, SetFilesKnows
  <2> QED
    BY <1>6, <1>8, <2>1
<1>11. PICK o : o = OpenTask(filename')
  OBVIOUS
<1>12. o.kind = "open" /\ o.path = filename'
  BY <1>11, TaskFields DEF OpenTask
<1>13. \/ UNCHANGED filename /\ Goes(t, {})
       \/ Goes(t, {o})
  BY <1>5, <1>11
<1>14. Active' \subseteq Active \union {o} /\ Active \ {t} \subseteq Active' /\ (UNCHANGED filename \/ o \in Active')
  BY <1>13, GoesActive, TypesAre
<1>15. \A x \in Active : \A n \in Awaited(x) \intersect tabs \intersect DOMAIN want : n \in tabs'
  BY <1>5, <1>7
<1>16. \A x \in Active' \ Active : x.kind \in {"open", "remove"}
  BY <1>12, <1>14
<1>17. Memory' /\ WriterKnown' /\ \A x \in Active' : Clean(x)' /\ Listed(x)'
  BY <1>2, <1>9, <1>10, <1>15, <1>16, MemoryKept
<1>18. \A n : Copied(n) => Copied(n)'
  BY <1>2, <1>14 DEF Copied
<1>19. TabsShown'
  BY <1>2, <1>5, <1>7, <1>8, <1>18 DEF TabsShown, TimeGiven, Saved, OnDisk
<1>20. shown' = shown /\ open' = open /\ want' = want
  BY <1>2, <1>5 DEF SetFiles
<1>21. UNCHANGED filename /\ Opens(filename) => Opens(filename)'
  BY <1>2, <1>14 DEF Opens
<1>22. ActiveShown'
  BY <1>12, <1>14, <1>20, <1>21 DEF Shown, ActiveShown, Opens
<1> QED
  BY <1>17, <1>19, <1>22 DEF Shown

\* A change of the directory is listed, and older listings are out of date.
LEMMA NewListing ==
  ASSUME TInv, TimeGiven, revision' = revision + 1, NEW t \in Active, NEW S, Goes(t, S),
         NEW l \in S, l = ListTask(revision'), \A x \in S : x # l => x.kind = "open"
  PROVE  TabsShown' /\ \A x \in Active' : Listed(x)' /\ (x \in Active \/ Clean(x)')
<1>1. l.kind = "list" /\ l.data.revision = revision' /\ l.pc = "wait" /\ DOMAIN l.data.files = {}
  <2> DEFINE d == [revision |-> revision', names |-> {}, files |-> <<>>]
  <2>1. l = Task("list", "wait", None, None, d)
    BY DEF ListTask
  <2>2. d.revision = revision' /\ d.files = <<>>
    OBVIOUS
  <2> HIDE DEF d
  <2> QED
    BY <2>1, <2>2, TaskFields, NoFiles
<1>2. Active' \subseteq Active \union S /\ l \in Active'
  BY GoesActive, TypesAre
<1>3. TabsShown'
  BY <1>1, <1>2 DEF TabsShown, Listing
<1>4. \A x \in Active : Listed(x)'
  <2> SUFFICES ASSUME NEW x \in Active, x.kind = "list" PROVE x.data.revision # revision'
    BY DEF Listed
  <2>1. x.data.revision \in Nat /\ revision \in Nat /\ x.data.revision <= revision
    BY TypesAre DEF Typed, ListData, TimeGiven, Tasks, Sound, SoundList
  <2> QED
    BY <2>1
<1>5. \A x \in S : Listed(x)' /\ Clean(x)'
  BY <1>1 DEF Listed, Clean, Awaited
<1> QED
  BY <1>2, <1>3, <1>4, <1>5

\* A task changes files of its own: what the editor has of the others stays right, and
\* what other tasks await is as it was.
LEMMA MemoryApart ==
  ASSUME TInv, TimeGiven, Shown, NEW t \in Active, NEW C \in SUBSET Mine(t), UNCHANGED cm,
         SameBut(want, want', C), \A n : n \notin C => (n \in tabs <=> n \in tabs'),
         \A x \in Active' : Copying(x) => x \in Active /\ x # t,
         \A n \in C : Known(n) => Right(n, TextOf(n))'
  PROVE  /\ Memory'
         /\ \A n : Known(n)' <=> Known(n)
         /\ \A n, x : n \notin C /\ Right(n, x) => Right(n, x)'
         /\ \A n, x : Twin(n, x) => Twin(n, x)'
         /\ \A x \in Active : x # t => Clean(x)'
<1>1. \A n : TextOf(n)' = TextOf(n) /\ (Known(n)' <=> Known(n))
  BY DEF TextOf, Known, cm
<1>2. \A n, x : n \notin C /\ Right(n, x) => Right(n, x)'
  BY DEF Right, SameBut
<1>3. \A x \in Active : x # t => \A n \in Mine(x) : n \notin C
  BY DEF TimeGiven, Tasks, Apart
<1>4. \A n, x : Twin(n, x) => Twin(n, x)'
  <2> SUFFICES ASSUME NEW n, NEW x, Twin(n, x), NEW u \in Active', Copying(u), u.to = n, want'[u.path] # Binary
               PROVE  x = want'[u.path]
    BY DEF Twin
  <2>1. u \in Active /\ u # t /\ Typed(u) /\ u.kind = "rename"
    BY TypesAre DEF Copying
  <2>2. u.path \in DOMAIN want /\ u.path \in Mine(u)
    BY <2>1, WhatIsMine DEF Copying, TimeGiven, Tasks, Sound, SoundRename
  <2>3. want'[u.path] = want[u.path]
    BY <1>3, <2>1, <2>2 DEF SameBut
  <2> QED
    BY <2>1, <2>3 DEF Twin
<1>5. Memory'
  BY <1>1, <1>2, <1>4 DEF Shown, Memory
<1>6. \A x \in Active : x # t => Clean(x)'
  <2> SUFFICES ASSUME NEW x \in Active, x # t PROVE Clean(x)'
    OBVIOUS
  <2>1. Clean(x) /\ \A n \in Awaited(x) : n \notin C
    BY <1>3, AwaitedIsMine, TypesAre DEF Shown
  <2> QED
    BY <1>1, <2>1 DEF Clean, SameBut
<1> QED
  BY <1>1, <1>2, <1>4, <1>5, <1>6

LEMMA PageRemovesEntry ==
  ASSUME TInv, TimeGiven, Shown, NEW t \in Active, RemoveEntry(t) PROVE Shown'
<1>1. /\ t.kind = "remove" /\ t.pc = "remove" /\ Typed(t) /\ Sound(t) /\ Changer(t)
      /\ UNCHANGED <<tabs, filename, open, cm, saving>> /\ UNCHANGED writer
  BY TypesAre DEF RemoveEntry, Changer, TimeGiven, Tasks, saving
<1>2. /\ t.path \in Mine(t) /\ t.path # filename /\ ~Unsaved(t.path)
  BY <1>1, WhatIsMine DEF Sound, SoundRemove
<1>3. CASE t.path \notin DOMAIN disk
  <2>1. Goes(t, {}) /\ UNCHANGED <<want, page>> /\ t.path \notin DOMAIN want
    BY <1>1, <1>3 DEF RemoveEntry, page, TimeGiven, Saved, OnDisk
  <2> QED
    BY <1>1, <2>1, PageEnds DEF Copying
<1>4. CASE t.path \in DOMAIN disk
  <2>1. PICK l : l = ListTask(revision')
    OBVIOUS
  <2>2. want' = Without(want, t.path) /\ revision' = revision + 1 /\ Goes(t, {l})
    BY <1>4, <2>1 DEF RemoveEntry
  <2>3. /\ DOMAIN want' = DOMAIN want \ {t.path}
        /\ \A n \in DOMAIN want \ {t.path} : want'[n] = want[n]
    BY <2>2, FilesWithout, TypesAre
  <2>4. SameBut(want, want', {t.path})
    BY <2>3 DEF SameBut
  <2>5. l.kind = "list"
    BY <2>1, TaskFields DEF ListTask
  <2>6. TabsShown' /\ \A x \in Active' : Listed(x)' /\ (x \in Active \/ Clean(x)')
    BY <2>1, <2>2, NewListing
  <2>7. Active' \subseteq Active \union {l} /\ Active \ {t} \subseteq Active'
    BY <2>2, GoesActive, TypesAre
  <2>8. \A x \in Active' : Copying(x) => x \in Active /\ x # t
    BY <1>1, <2>5, <2>7 DEF Copying
  <2>9. /\ {t.path} \in SUBSET Mine(t)
        /\ \A n : n \notin {t.path} => (n \in tabs <=> n \in tabs')
        /\ \A n \in {t.path} : Known(n) => Right(n, TextOf(n))'
    BY <1>1, <1>2, <2>3 DEF Right
  <2>10. Memory' /\ (\A n : Known(n)' <=> Known(n)) /\ \A x \in Active : x # t => Clean(x)'
    BY <1>1, <2>4, <2>8, <2>9, MemoryApart
  <2>11. Clean(t)'
    BY <1>1 DEF Clean, Awaited
  <2>12. WriterKnown'
    BY <1>1, <1>2, <2>3, <2>10 DEF Shown, WriterKnown, Unsaved, TimeGiven, Saved, Pending
  <2>13. Opens(filename) => Opens(filename)'
    BY <1>1, <2>7 DEF Opens
  <2>14. ActiveShown'
    BY <1>1, <1>2, <2>3, <2>13 DEF Shown, ActiveShown, cm
  <2> QED
    BY <2>6, <2>10, <2>11, <2>12, <2>14 DEF Shown
<1> QED
  BY <1>3, <1>4

\* What the editor has of the new name, it has from the copy.
LEMMA PageRenames ==
  ASSUME TInv, TimeGiven, Shown, NEW t \in Active, RenameRemove(t) PROVE Shown'
<1>1. /\ t.kind = "rename" /\ t.pc = "remove" /\ Typed(t) /\ Sound(t) /\ UNCHANGED <<cm, saving>>
      /\ UNCHANGED writer
  BY TypesAre DEF RenameRemove, TimeGiven, Tasks, saving
<1>2. /\ t.path \in Name /\ t.to \in Name /\ t.to \notin DOMAIN want /\ ~Unsaved(t.path)
      /\ t.path \in DOMAIN want /\ t.path # t.to /\ {t.path, t.to} \in SUBSET Mine(t)
  BY <1>1, NamesAssumption, WhatIsMine DEF Typed, File, Sound, SoundRename
<1>3. t.path \in DOMAIN disk
  BY <1>2 DEF TimeGiven, Saved, OnDisk
<1>4. PICK o, l : o = OpenTask(filename') /\ l = ListTask(revision')
  OBVIOUS
<1>5. /\ want' = With(Without(want, t.path), t.to, want[t.path])
      /\ tabs' = IF t.path \in tabs THEN (tabs \ {t.path}) \union {t.to} ELSE tabs
      /\ revision' = revision + 1 /\ Goes(t, {o, l})
  BY <1>2, <1>3, <1>4 DEF RenameRemove
<1>6. /\ DOMAIN want' = (DOMAIN want \ {t.path}) \union {t.to} /\ want'[t.to] = want[t.path]
      /\ \A n \in DOMAIN want \ {t.path} : n # t.to => want'[n] = want[n]
  <2>1. /\ DOMAIN Without(want, t.path) = DOMAIN want \ {t.path}
        /\ \A n \in DOMAIN want \ {t.path} : Without(want, t.path)[n] = want[n]
    BY FilesWithout, TypesAre
  <2> QED
    BY <1>5, <2>1 DEF With
<1> DEFINE C == {t.path, t.to}
<1>7. SameBut(want, want', C) /\ \A n : n \notin C => (n \in tabs <=> n \in tabs')
  BY <1>5, <1>6 DEF SameBut
<1>8. o.kind = "open" /\ o.path = filename' /\ l.kind = "list"
  BY <1>4, TaskFields DEF OpenTask, ListTask
<1>9. \A x \in {o, l} : x # l => x.kind = "open"
  BY <1>8
<1>10. TabsShown' /\ \A x \in Active' : Listed(x)' /\ (x \in Active \/ Clean(x)')
  BY <1>4, <1>5, <1>9, NewListing
<1>11. t \notin Active' /\ Active' \subseteq Active \union {o, l} /\ o \in Active'
  <2>1. tasks[t] = 1 /\ t \notin {o, l}
    BY <1>1, <1>2, <1>8 DEF TimeGiven, Tasks
  <2> QED
    BY <1>5, <2>1, GoesActive, GoesCounts, TypesAre
<1>12. \A x \in Active' : Copying(x) => x \in Active /\ x # t
  BY <1>8, <1>11 DEF Copying
<1>13. \A n \in C : Known(n) => Right(n, TextOf(n))'
  <2>1. \A n : TextOf(n)' = TextOf(n)
    BY <1>1 DEF TextOf, cm
  <2>2. Right(t.path, TextOf(t.path))'
    BY <1>2, <1>6 DEF Right
  <2>3. Known(t.to) => Twin(t.to, TextOf(t.to))
    BY <1>2 DEF Shown, Memory
  <2>4. Known(t.to) => Right(t.to, TextOf(t.to))'
    BY <1>1, <1>6, <2>1, <2>3 DEF Twin, Right, Copying
  <2> QED
    BY <2>2, <2>4
<1>14. Memory' /\ (\A n : Known(n)' <=> Known(n)) /\ \A x \in Active : x # t => Clean(x)'
  <2> HIDE DEF C
  <2>1. C \in SUBSET Mine(t)
    BY <1>2 DEF C
  <2> QED
    BY <1>1, <1>7, <1>12, <1>13, <2>1, MemoryApart
<1>15. WriterKnown'
  BY <1>1, <1>2, <1>6, <1>14 DEF Shown, WriterKnown, Unsaved, TimeGiven, Saved, Pending
<1>16. ActiveShown'
  BY <1>8, <1>11 DEF ActiveShown, Opens
<1> QED
  BY <1>10, <1>11, <1>14, <1>15, <1>16 DEF Shown

LEMMA PageAdds ==
  ASSUME TInv, TimeGiven, Shown, NEW t \in Active, AddWrite(t) PROVE Shown'
<1>1. /\ t.kind = "add" /\ Typed(t) /\ Clean(t) /\ Changer(t) /\ t.path \in Name /\ t.path \notin DOMAIN want
      /\ want' = With(want, t.path, Empty) /\ tabs' = tabs \union {t.path} /\ revision' = revision + 1
      /\ filename' = t.path /\ UNCHANGED <<cm, saving>> /\ UNCHANGED writer
  BY TypesAre DEF AddWrite, Typed, File, Changer, TimeGiven, Tasks, Sound, SoundAdd, Shown, saving
<1>2. PICK o, l : o = OpenTask(filename') /\ l = ListTask(revision')
  OBVIOUS
<1>3. Goes(t, {o, l})
  BY <1>1, <1>2 DEF AddWrite
<1>4. /\ DOMAIN want' = DOMAIN want \union {t.path}
      /\ \A n \in DOMAIN want : n # t.path => want'[n] = want[n]
  BY <1>1 DEF With
<1>5. SameBut(want, want', {t.path})
  BY <1>4 DEF SameBut
<1>6. t.path \in Mine(t) /\ ~Known(t.path)
  BY <1>1, WhatIsMine DEF Clean, Awaited
<1>7. o.kind = "open" /\ o.path = filename' /\ l.kind = "list"
  BY <1>2, TaskFields DEF OpenTask, ListTask
<1>8. \A x \in {o, l} : x # l => x.kind = "open"
  BY <1>7
<1>9. TabsShown' /\ \A x \in Active' : Listed(x)' /\ (x \in Active \/ Clean(x)')
  BY <1>1, <1>2, <1>3, <1>8, NewListing
<1>10. t \notin Active' /\ Active' \subseteq Active \union {o, l} /\ o \in Active'
  <2>1. tasks[t] = 1 /\ t \notin {o, l}
    BY <1>1, <1>6, <1>7 DEF TimeGiven, Tasks
  <2> QED
    BY <1>3, <2>1, GoesActive, GoesCounts, TypesAre
<1>11. \A x \in Active' : Copying(x) => x \in Active /\ x # t
  BY <1>7, <1>10 DEF Copying
<1>12. /\ {t.path} \in SUBSET Mine(t)
       /\ \A n : n \notin {t.path} => (n \in tabs <=> n \in tabs')
       /\ \A n \in {t.path} : Known(n) => Right(n, TextOf(n))'
  BY <1>1, <1>6
<1>13. Memory' /\ (\A n : Known(n)' <=> Known(n)) /\ \A x \in Active : x # t => Clean(x)'
  BY <1>1, <1>5, <1>11, <1>12, MemoryApart
<1>14. WriterKnown'
  BY <1>1, <1>4, <1>13 DEF Shown, WriterKnown, TimeGiven, Saved, Pending
<1>15. ActiveShown'
  BY <1>7, <1>10 DEF ActiveShown, Opens
<1> QED
  BY <1>9, <1>10, <1>13, <1>14, <1>15 DEF Shown

LEMMA PageImported ==
  ASSUME TInv, TimeGiven, Shown, NEW t \in Active, ImportNext(t), DOMAIN t.data \ tabs = {}
  PROVE  Shown'
<1>1. /\ t.kind = "import" /\ filename' = (IF t.to = None THEN filename ELSE t.to)
      /\ revision' = revision + 1 /\ UNCHANGED tabs
      /\ Goes(t, {ListTask(revision')} \union (IF t.to = None THEN {} ELSE {OpenTask(t.to)}))
      /\ UNCHANGED <<open, cm, want>> /\ UNCHANGED writer
  BY DEF ImportNext, saving
<1>2. PICK o, l : o = OpenTask(filename') /\ l = ListTask(revision')
  OBVIOUS
<1>3. PICK S : S = {l} \union (IF t.to = None THEN {} ELSE {o})
  OBVIOUS
<1>4. Goes(t, S) /\ l \in S
  BY <1>1, <1>2, <1>3
<1>5. o.kind = "open" /\ o.path = filename' /\ l.kind = "list"
  BY <1>2, TaskFields DEF OpenTask, ListTask
<1>6. \A x \in S : x # l => x.kind = "open"
  BY <1>3, <1>5
<1>7. TabsShown' /\ \A x \in Active' : Listed(x)' /\ (x \in Active \/ Clean(x)')
  BY <1>1, <1>2, <1>4, <1>6, NewListing
<1>8. Active' \subseteq Active \union S /\ S \subseteq Active' /\ Active \ {t} \subseteq Active'
  BY <1>4, GoesActive, TypesAre
<1>9. \A n : TextOf(n)' = TextOf(n) /\ (Known(n)' <=> Known(n))
  BY <1>1 DEF TextOf, Known, cm
<1>10. \A x \in Active' : Copying(x) => x \in Active
  BY <1>5, <1>6, <1>8 DEF Copying
<1>11. \A n, x : (Right(n, x) => Right(n, x)') /\ (Twin(n, x) => Twin(n, x)')
  BY <1>1, <1>10 DEF Right, Twin
<1>12. Memory' /\ WriterKnown'
  BY <1>1, <1>9, <1>11 DEF Shown, Memory, WriterKnown
<1>13. \A x \in Active : Clean(x)'
  BY <1>1, <1>9 DEF Shown, Clean
<1>14. t.to # None => o \in Active'
  BY <1>3, <1>8
<1>15. t.to = None /\ Opens(filename) => Opens(filename)'
  BY <1>1, <1>8 DEF Opens
<1>16. ActiveShown'
  BY <1>1, <1>5, <1>14, <1>15 DEF Shown, ActiveShown, Opens, cm
<1> QED
  BY <1>7, <1>12, <1>13, <1>16 DEF Shown

LEMMA PageImports ==
  ASSUME TInv, TimeGiven, Shown, NEW t \in Active, ImportWrite(t) PROVE Shown'
<1> DEFINE m == IF t.to = None /\ t.data[t.path] # Binary THEN t.path ELSE t.to
           text == t.data[t.path]
           u == Task("import", "next", None, m, Without(t.data, t.path))
<1>1. /\ t.kind = "import" /\ t.pc = "write" /\ Typed(t) /\ Sound(t) /\ Clean(t) /\ t.data \in Files
      /\ t.path \in DOMAIN t.data
      /\ want' = With(want, t.path, text) /\ tabs' = tabs \union {t.path} /\ Goes(t, {u})
      /\ UNCHANGED <<revision, filename, open, cm>> /\ UNCHANGED <<saving, writer>>
  BY TypesAre DEF ImportWrite, Typed, TimeGiven, Tasks, Shown, saving
<1>2. t.path \in Name /\ t.path # None /\ t.path \notin DOMAIN want
  BY <1>1, FilesAt, NamesAssumption DEF Sound, SoundImport
<1> HIDE DEF text, m
<1>3. /\ DOMAIN want' = DOMAIN want \union {t.path}
      /\ \A n \in DOMAIN want : n # t.path => want'[n] = want[n]
  BY <1>1 DEF With
<1>4. SameBut(want, want', {t.path})
  BY <1>3 DEF SameBut
<1>5. /\ t.path \in Mine(t) /\ ~Known(t.path) /\ t.path \notin DOMAIN disk
  BY <1>1, <1>2, WhatIsMine, NotThere DEF Clean, Awaited, Copying
<1>6. u.kind = "import" /\ u.data = Without(t.data, t.path)
  BY TaskFields
<1> HIDE DEF u
<1>7. Active' \subseteq Active \union {u} /\ Active \ {t} \subseteq Active'
  BY <1>1, GoesActive, TypesAre
<1>8. t \notin Active'
  <2>1. DOMAIN u.data = DOMAIN t.data \ {t.path}
    BY <1>1, <1>6, FilesWithout
  <2>2. tasks[t] = 1 /\ t \notin {u}
    BY <1>1, <1>5, <2>1 DEF TimeGiven, Tasks
  <2> QED
    BY <1>1, <2>2, GoesCounts, TypesAre
<1>9. \A x \in Active' : Copying(x) => x \in Active /\ x # t
  BY <1>6, <1>7, <1>8 DEF Copying
<1>10. /\ {t.path} \in SUBSET Mine(t)
       /\ \A n : n \notin {t.path} => (n \in tabs <=> n \in tabs')
       /\ \A n \in {t.path} : Known(n) => Right(n, TextOf(n))'
  BY <1>1, <1>5
<1>11. /\ Memory'
       /\ \A n : Known(n)' <=> Known(n)
       /\ \A n, x : n # t.path /\ Right(n, x) => Right(n, x)'
       /\ \A n, x : Twin(n, x) => Twin(n, x)'
       /\ \A x \in Active : x # t => Clean(x)'
  BY <1>1, <1>4, <1>9, <1>10, MemoryApart
<1>12. WriterKnown'
  BY <1>1, <1>2, <1>3, <1>11 DEF Shown, WriterKnown, TimeGiven, Saved, Pending
<1>13. Clean(u)' /\ Listed(u)'
  <2>1. DOMAIN u.data = DOMAIN t.data \ {t.path}
    BY <1>1, <1>6, FilesWithout
  <2> QED
    BY <1>1, <1>3, <1>6, <1>11, <2>1 DEF Clean, Awaited, Listed
<1>14. \A x \in Active : Listed(x)'
  <2> SUFFICES ASSUME NEW x \in Active, x.kind = "list", x.data.revision = revision PROVE Listed(x)'
    BY <1>1 DEF Listed
  <2>1. \A n \in DOMAIN x.data.files : n # t.path
    BY <1>5, NotListed
  <2>2. Listed(x)
    BY DEF Shown
  <2> QED
    BY <1>1, <1>11, <2>1, <2>2 DEF Listed
<1>15. /\ Listing => Listing'
       /\ \A n : Removing(n) => Removing(n)'
       /\ \A n : Copied(n) => Copied(n)'
       /\ Opens(filename) => Opens(filename)'
  BY <1>1, <1>7 DEF Listing, Removing, Copied, Opens
<1>16. TabsShown'
  BY <1>1, <1>3, <1>15 DEF Shown, TabsShown
<1>17. ActiveShown'
  BY <1>1, <1>2, <1>3, <1>15 DEF Shown, ActiveShown, cm
<1> QED
  BY <1>7, <1>8, <1>11, <1>12, <1>13, <1>14, <1>16, <1>17 DEF Shown

----------------------------------------------------------------------------
(* The page shows the files of the user.                                   *)

LEMMA InitShows == Init => Shown
<1> SUFFICES ASSUME Init PROVE Shown
  OBVIOUS
<1>1. Active = {OpenTask(None), ListTask(0)}
  BY DEF Init, SetToBag, Active, BagToSet
<1>2. OpenTask(None).kind = "open" /\ OpenTask(None).path = None
  BY TaskFields DEF OpenTask
<1>3. PICK d : d = [revision |-> 0, names |-> {}, files |-> <<>>]
  OBVIOUS
<1>4. ListTask(0) = Task("list", "wait", None, None, d) /\ d.revision = 0 /\ d.files = <<>>
  BY <1>3 DEF ListTask
<1>5. /\ ListTask(0).kind = "list" /\ ListTask(0).pc = "wait"
      /\ ListTask(0).data.revision = 0 /\ ListTask(0).data.files = <<>>
  BY <1>4, TaskFields
<1>6. \A x \in Active : Clean(x) /\ Listed(x)
  BY <1>1, <1>2, <1>5, NoFiles DEF Clean, Awaited, Listed
<1>7. \A n \in Name : ~Known(n)
  BY NamesAssumption, NoFiles DEF Init, Known
<1>8. Memory /\ WriterKnown
  BY <1>7 DEF Init, Memory, WriterKnown
<1>9. TabsShown /\ ActiveShown
  BY <1>1, <1>2, <1>5 DEF Init, TabsShown, ActiveShown, Listing, Opens
<1> QED
  BY <1>6, <1>8, <1>9 DEF Shown

LEMMA StepShows ==
  ASSUME TInv, TimeGiven, Shown, NEW t \in Active, Step(t), ~raced' PROVE Shown'
<1>1. CASE WaitSync(t)
  BY <1>1, PageWaits, PageShowsNone
<1>2. CASE ImportNext(t)
  <2>1. CASE DOMAIN t.data \ tabs = {}
    BY <1>2, <2>1, PageImported
  <2>2. CASE DOMAIN t.data \ tabs # {}
    BY <1>2, <2>2, PageImportChooses DEF ImportNext
  <2> QED
    BY <2>1, <2>2
<1> QED
  BY <1>1, <1>2, PageOpenReads, PageOpens, PageListed, PageReadsNext, PageReadEnds, PageLists,
     PageRemovesEntry, PageRenameReads, PageRenameWrites, PageRenames, PageAdds, PageImports,
     PageImportSkips, PageUploads, PageUploadFails DEF Step

LEMMA UserShows == ASSUME TInv, TimeGiven, Shown, User, ~raced' PROVE Shown'
BY PageTyped, PageServerEdits, PageActivates, PageRemoves, PageClicks DEF User

LEMMA ShownHolds == SafeSpec => [](KInv /\ (raced \/ Shown))
<1>1. Init => raced \/ Shown
  BY InitShows
<1>2. KInv /\ (raced \/ Shown) /\ [Next]_vars => (raced \/ Shown)'
  <2> SUFFICES ASSUME KInv, raced \/ Shown, [Next]_vars, ~raced' PROVE Shown'
    OBVIOUS
  <2>1. TInv /\ TimeGiven /\ Shown
    BY RacedStays DEF KInv
  <2>2. CASE User
    BY <2>1, <2>2, UserShows
  <2>3. CASE \E t \in Active : Step(t)
    BY <2>1, <2>3, StepShows
  <2>4. CASE WriterWakes \/ WriterWrites
    BY <2>1, <2>4, PageWriter
  <2>5. CASE RunEnds \/ UNCHANGED vars
    <3>1. UNCHANGED <<page, open, cm, want, tasks>> /\ UNCHANGED writer
      BY <2>5 DEF RunEnds, vars, saving
    <3>2. WriterKnown'
      BY <2>1, <3>1, WriterKnownSame
    <3> QED
      BY <2>1, <3>1, <3>2, PageIdle
  <2> QED
    BY <2>2, <2>3, <2>4, <2>5 DEF Next
<1> QED
  BY <1>1, <1>2, KInvHolds, PTL DEF SafeSpec

\* When every task has ended and nothing was raced, the page shows what the directory
\* holds, for any names and any number of tasks: a tab for each file, the active file in
\* the editor, and no text in the memory of the editor, which the language server reads,
\* that is not on disk.  Openings and saves may cross in any way; a listing that was
\* overtaken while it read, and a click on a file that a task is to change, are raced.
THEOREM PageOfTheUser == SafeSpec => []PageAgrees
<1>1. KInv /\ (raced \/ Shown) => PageAgrees
  <2> SUFFICES ASSUME KInv, Shown, Quiet, ~raced
               PROVE  /\ tabs = DOMAIN disk
                      /\ filename # None => filename \in DOMAIN disk
                      /\ \/ filename # None /\ disk[filename] = Binary
                         \/ open = filename /\ shown = filename
                      /\ shown # None => Agrees(shown, view)
                      /\ \A n \in DOMAIN states \ {shown} : Agrees(n, states[n])
    BY DEF PageAgrees
  <2>1. TInv /\ TimeGiven /\ Active = {}
    BY DEF KInv, Quiet, Active, BagToSet, EmptyBag, SetToBag
  <2>2. \A n \in DOMAIN want : Stable(n)
    BY <2>1, SavedWhenClean DEF Quiet
  <2>3. /\ DOMAIN disk = DOMAIN want
        /\ \A n \in DOMAIN disk : disk[n] = want[n]
    BY <2>1, <2>2 DEF TimeGiven, Saved, OnDisk, Copied, Stable
  <2>4. tabs = DOMAIN disk
    BY <2>1, <2>3 DEF Shown, TabsShown, Listing, Removing, Copied
  <2>5. filename # None => filename \in DOMAIN disk
    BY <2>1, <2>3 DEF TimeGiven, Saved, ActiveThere
  <2>6. \/ filename # None /\ disk[filename] = Binary
        \/ open = filename /\ shown = filename
    <3>1. None \notin DOMAIN want
      BY <2>1, FilesAt, TypesAre, NamesAssumption
    <3> QED
      BY <2>1, <2>3, <3>1 DEF Shown, ActiveShown, Opens
  <2>7. \A n \in Name : Known(n) => Agrees(n, TextOf(n))
    BY <2>3 DEF Shown, Memory, Right, Agrees
  <2>8. shown # None => Agrees(shown, view)
    <3> SUFFICES ASSUME shown # None PROVE Agrees(shown, view)
      OBVIOUS
    <3>1. shown \in Name /\ Known(shown) /\ TextOf(shown) = view
      BY <2>1, TypesAre DEF EditorTypes, File, Known, TextOf
    <3> QED
      BY <2>7, <3>1
  <2>9. \A n \in DOMAIN states \ {shown} : Agrees(n, states[n])
    <3> SUFFICES ASSUME NEW n \in DOMAIN states \ {shown} PROVE Agrees(n, states[n])
      OBVIOUS
    <3>1. n \in Name /\ Known(n) /\ TextOf(n) = states[n]
      BY <2>1, FilesAt, TypesAre DEF EditorTypes, Known, TextOf
    <3> QED
      BY <2>7, <3>1
  <2> QED
    BY <2>4, <2>5, <2>6, <2>8, <2>9
<1> QED
  BY <1>1, ShownHolds, PTL

----------------------------------------------------------------------------
(***************************************************************************)
(* What a run is sent.                                                     *)
(***************************************************************************)

\* The one run that was asked for.
Asked(t) == running = "asked" /\ tasks[t] = 1 /\ \A u \in Active : u.kind = "run" => u = t

\* Once it has waited, a file that did not change stays as it was saved, and is listed
\* and read.
Found(t) ==
  t.kind = "run" =>
    /\ Asked(t)
    /\ IF t.pc = "read" THEN DOMAIN t.data.files \subseteq t.data.names ELSE DOMAIN t.data.files = {}
    /\ t.pc # "wait" => \A n \in kept : Stable(n)
    /\ t.pc = "read" => kept \subseteq t.data.names
    /\ \A n \in kept \intersect DOMAIN t.data.files : t.data.files[n] = want[n]

RunInv == kept \subseteq DOMAIN want /\ \A t \in Active : Found(t)

\* A step that only takes files from those that have not changed.
LEMMA RunSame ==
  ASSUME RunInv, kept' \subseteq kept,
         \A n \in kept' : n \in DOMAIN want' /\ want'[n] = want[n] /\ (Stable(n) => Stable(n)'),
         \A x \in Active' : x.kind = "run" => x \in Active /\ tasks'[x] = tasks[x],
         (\E x \in Active' : x.kind = "run") => running' = running
  PROVE  RunInv'
<1>1. ASSUME NEW x \in Active', x.kind = "run" PROVE Found(x)'
  <2>1. x \in Active /\ tasks'[x] = tasks[x] /\ running' = running /\ Found(x)
    BY <1>1 DEF RunInv
  <2>2. Asked(x)'
    BY <1>1, <2>1 DEF Found, Asked
  <2> QED
    BY <1>1, <2>1, <2>2 DEF Found
<1>2. \A x \in Active' : Found(x)'
  BY <1>1 DEF Found
<1> QED
  BY <1>2 DEF RunInv

\* The file stays as it is saved, if no step touches it.
LEMMA StableStays ==
  ASSUME NEW n, n \in DOMAIN want', want'[n] = want[n],
         n \in DOMAIN disk => n \in DOMAIN disk' /\ disk'[n] = disk[n],
         writer'.path = writer.path, writer'.text = writer.text
  PROVE  Stable(n) => Stable(n)'
BY DEF Stable

\* Which runs there are after a step that spawns none.
LEMMA RunsSpawn ==
  ASSUME TInv, NEW S, Spawn(S), \A u \in S : u.kind # "run"
  PROVE  \A x \in Active' : x.kind = "run" => x \in Active /\ tasks'[x] = tasks[x]
BY SpawnActive, TypesAre

LEMMA RunsGo ==
  ASSUME TInv, RunInv, NEW t \in Active, NEW S, Goes(t, S), \A u \in S : u.kind # "run"
  PROVE  \A x \in Active' : x.kind = "run" => x \in Active /\ tasks'[x] = tasks[x] /\ x # t
<1> SUFFICES ASSUME NEW x \in Active', x.kind = "run" PROVE x \in Active /\ tasks'[x] = tasks[x] /\ x # t
  OBVIOUS
<1>1. x \in Active
  BY GoesActive, TypesAre
<1>2. x # t
  <2>1. t.kind = "run" => tasks[t] = 1 /\ t \notin S
    BY DEF RunInv, Found, Asked
  <2> QED
    BY <2>1, GoesCounts, TypesAre
<1> QED
  BY <1>1, <1>2, GoesCounts, TypesAre

\* A step that leaves the files and the writer alone.
LEMMA RunKept ==
  ASSUME TInv, RunInv, UNCHANGED <<disk, want, kept, running>>,
         writer'.path = writer.path, writer'.text = writer.text,
         \A x \in Active' : x.kind = "run" => x \in Active /\ tasks'[x] = tasks[x]
  PROVE  RunInv'
<1>1. \A n \in kept' : n \in DOMAIN want' /\ want'[n] = want[n] /\ (Stable(n) => Stable(n)')
  BY StableStays DEF RunInv
<1> QED
  BY <1>1, RunSame

LEMMA RunClicks ==
  ASSUME TInv, RunInv,
         \/ ClickUpload
         \/ \E n \in Name : ClickAdd(n) \/ ClickTab(n) \/ Jump(n) \/ ClickRemove(n)
         \/ \E n, m \in Name : CommitRename(n, m)
         \/ \E files \in Imports : Drop(files)
  PROVE  RunInv'
<1>1. UNCHANGED <<disk, want, kept, running>> /\ UNCHANGED writer
  BY DEF ClickUpload, ClickAdd, ClickTab, Jump, ClickRemove, CommitRename, Drop, saving
<1>2. PICK o : o = OpenTask(filename')
  OBVIOUS
<1>3. o.kind = "open"
  BY <1>2, TaskFields DEF OpenTask
<1>4. \E S : Spawn(S) /\ \A u \in S : u.kind # "run"
  <2>1. CASE ClickUpload
    <3> DEFINE u == Task("upload", "read", filename, None, edits')
    <3>1. Spawn({u}) /\ u.kind = "upload"
      BY <2>1, TaskFields DEF ClickUpload
    <3> HIDE DEF u
    <3> QED
      BY <3>1
  <2>2. ASSUME NEW n \in Name, ClickAdd(n) PROVE \E S : Spawn(S) /\ \A u \in S : u.kind # "run"
    <3> DEFINE u == Task("add", "write", n, None, Empty)
    <3>1. Spawn({u}) /\ u.kind = "add"
      BY <2>2, TaskFields DEF ClickAdd
    <3> HIDE DEF u
    <3> QED
      BY <3>1
  <2>3. ASSUME NEW n \in Name, ClickTab(n) \/ Jump(n) PROVE \E S : Spawn(S) /\ \A u \in S : u.kind # "run"
    <3>1. Spawn({o})
      BY <1>2, <2>3 DEF ClickTab, Jump
    <3> QED
      BY <1>3, <3>1
  <2>4. ASSUME NEW n \in Name, ClickRemove(n) PROVE \E S : Spawn(S) /\ \A u \in S : u.kind # "run"
    <3> DEFINE u == Task("remove", "wait", n, None, Empty)
    <3>1. Spawn({o, u}) /\ u.kind = "remove"
      BY <1>2, <2>4, TaskFields DEF ClickRemove
    <3> HIDE DEF u
    <3> QED
      BY <1>3, <3>1
  <2>5. ASSUME NEW n \in Name, NEW m \in Name, CommitRename(n, m)
        PROVE  \E S : Spawn(S) /\ \A u \in S : u.kind # "run"
    <3> DEFINE u == Task("rename", "wait", n, m, Empty)
    <3>1. Spawn({u}) /\ u.kind = "rename"
      BY <2>5, TaskFields DEF CommitRename
    <3> HIDE DEF u
    <3> QED
      BY <3>1
  <2>6. ASSUME NEW files \in Imports, Drop(files) PROVE \E S : Spawn(S) /\ \A u \in S : u.kind # "run"
    <3> DEFINE u == Task("import", "next", None, None, files)
    <3>1. Spawn({u}) /\ u.kind = "import"
      BY <2>6, TaskFields DEF Drop
    <3> HIDE DEF u
    <3> QED
      BY <3>1
  <2> QED
    BY <2>1, <2>2, <2>3, <2>4, <2>5, <2>6
<1> QED
  BY <1>1, <1>4, RunsSpawn, RunKept

\* The user changes a text: that file is no longer one that did not change.
LEMMA RunEdited ==
  ASSUME TInv, TimeGiven, RunInv, NEW n \in Name, NEW text, want' = With(want, n, text), kept' = kept \ {n},
         Onchange(n), UNCHANGED <<disk, running>>,
         \A x \in Active' : x.kind = "run" => x \in Active /\ tasks'[x] = tasks[x]
  PROVE  RunInv'
<1>1. writer'.path = writer.path /\ writer'.text = writer.text
  BY OnchangeSaves, TypesAre DEF TimeGiven, Saved
<1>2. \A m \in kept' : m \in DOMAIN want' /\ want'[m] = want[m]
  BY DEF RunInv, With
<1>3. \A m \in kept' : Stable(m) => Stable(m)'
  BY <1>1, <1>2, StableStays
<1> QED
  BY <1>2, <1>3, RunSame

LEMMA RunTyped == ASSUME TInv, TimeGiven, RunInv, Type, ~raced' PROVE RunInv'
<1>1. PICK n \in Name : n = filename
  BY TypesAre DEF Type, Editable, File
<1>2. /\ want' = With(want, n, edits') /\ kept' = kept \ {n} /\ Onchange(n)
      /\ UNCHANGED <<disk, running>> /\ UNCHANGED tasks
  BY <1>1 DEF Type, Edit, Rewrite
<1> QED
  BY <1>2, RunEdited DEF Active

LEMMA RunServerEdits == ASSUME TInv, TimeGiven, RunInv, NEW n \in Name, ServerEdits(n) PROVE RunInv'
<1>1. /\ want' = With(want, n, edits') /\ kept' = kept \ {n} /\ Onchange(n)
      /\ UNCHANGED <<disk, running>> /\ UNCHANGED tasks
  BY DEF ServerEdits, Edit, Rewrite
<1> QED
  BY <1>1, RunEdited DEF Active

LEMMA RunUploads ==
  ASSUME TInv, TimeGiven, RunInv, NEW t \in Active, UploadApply(t), ~raced' PROVE RunInv'
<1>1. t.kind = "upload" /\ t.path \in Name
  BY TypesAre DEF UploadApply, Typed, File
<1>2. PICK n \in Name : n = t.path
  BY <1>1
<1>3. /\ want' = With(want, n, t.data) /\ kept' = kept \ {n} /\ Onchange(n)
      /\ UNCHANGED <<disk, running>> /\ Goes(t, {})
  BY <1>2 DEF UploadApply, Rewrite
<1> QED
  BY <1>3, RunsGo, RunEdited

\* Run is clicked: no other run is asked for.
LEMMA RunClicked == ASSUME TInv, RunInv, ClickRun PROVE RunInv'
<1> DEFINE d == [names |-> {}, files |-> <<>>]
           u == Task("run", "wait", None, None, d)
<1>1. Spawn({u}) /\ running = "no" /\ running' = "asked" /\ kept' = DOMAIN want /\ want' = want
  BY DEF ClickRun
<1>2. d.files = <<>>
  OBVIOUS
<1> HIDE DEF d
<1>3. u.kind = "run" /\ u.pc = "wait" /\ DOMAIN u.data.files = {}
  BY <1>2, TaskFields, NoFiles
<1> HIDE DEF u
<1>4. \A x \in Active : x.kind # "run"
  BY <1>1 DEF RunInv, Found, Asked
<1>5. Active' = Active \union {u} /\ tasks'[u] = 1
  BY <1>1, <1>3, <1>4, SpawnActive, TypesAre
<1>6. Found(u)'
  BY <1>1, <1>3, <1>4, <1>5 DEF Found, Asked
<1>7. \A x \in Active' : Found(x)'
  BY <1>4, <1>5, <1>6 DEF Found
<1> QED
  BY <1>1, <1>7 DEF RunInv

\* The writer writes what the user would find.
LEMMA WriterTexts ==
  ASSUME TInv, TimeGiven, WriterWakes \/ WriterWrites
  PROVE  writer'.path # None => writer'.text = want[writer'.path]
<1>1. PICK todo : /\ todo \subseteq writes \union writer.todo
                  /\ \/ \E n \in todo :
                          writer' = [pc |-> "write", todo |-> todo \ {n}, path |-> n, text |-> TextOf(n)]
                     \/ writer'.path = None
  BY DEF WriterWakes, WriterWrites, WriterGoesOn
<1> QED
  BY <1>1 DEF TimeGiven, Saved, Pending

LEMMA RunWriter ==
  ASSUME TInv, TimeGiven, RunInv, WriterWakes \/ WriterWrites PROVE RunInv'
<1>1. UNCHANGED <<want, kept, running>> /\ UNCHANGED tasks
  BY DEF WriterWakes, WriterWrites
<1>2. writer'.path # None => writer'.text = want[writer'.path]
  BY WriterTexts
<1>3. \/ UNCHANGED disk
      \/ disk' = With(disk, writer.path, writer.text)
  BY DEF WriterWakes, WriterWrites
<1>4. \A n \in kept' : n \in DOMAIN want' /\ want'[n] = want[n] /\ n # None
  BY <1>1, FilesAt, TypesAre, NamesAssumption DEF RunInv
<1>5. \A n \in kept' : Stable(n) => Stable(n)'
  BY <1>1, <1>2, <1>3, <1>4 DEF Stable, With
<1> QED
  BY <1>1, <1>4, <1>5, RunSame DEF Active

\* What is opened is shown; a file whose older text was put back has changed.
LEMMA RunShows ==
  ASSUME TInv, TimeGiven, RunInv, NEW t \in Active,
         OpenApply(t) \/ (WaitSync(t) /\ t.kind = "open" /\ t.path = None)
  PROVE  RunInv'
<1>1. /\ UNCHANGED <<disk, running>> /\ Goes(t, {})
      /\ UNCHANGED <<want, kept>> \/ (want' = With(want, t.path, t.data) /\ kept' = kept \ {t.path})
  BY DEF OpenApply, PutBack, WaitSync
<1>2. writer'.path = writer.path /\ writer'.text = writer.text
  <2>1. ASSUME NEW f \in File, NEW text, Show(f, text)
        PROVE  writer'.path = writer.path /\ writer'.text = writer.text
    <3>1. UNCHANGED saving \/ (f \in Name /\ Onchange(f))
      BY <2>1 DEF Show, Onchange, File
    <3> QED
      BY <3>1, OnchangeSaves, TypesAre DEF saving, TimeGiven, Saved
  <2>2. UNCHANGED saving \/ Show(t.path, t.data) \/ Show(None, Empty)
    BY DEF OpenApply, WaitSync
  <2> QED
    BY <2>1, <2>2, TypesAre DEF saving, Typed, File
<1>3. \A m \in kept' : m \in DOMAIN want' /\ want'[m] = want[m]
  BY <1>1 DEF RunInv, With
<1>4. \A m \in kept' : Stable(m) => Stable(m)'
  BY <1>1, <1>2, <1>3, StableStays
<1>5. \A x \in Active' : x.kind = "run" => x \in Active /\ tasks'[x] = tasks[x]
  BY <1>1, RunsGo
<1> QED
  BY <1>1, <1>3, <1>4, <1>5, RunSame

\* Steps of other tasks that leave the files and the writer alone.
LEMMA RunOthers ==
  ASSUME TInv, RunInv, NEW t \in Active, t.kind # "run",
         \/ WaitSync(t) /\ ~(t.kind = "open" /\ t.path = None)
         \/ ListEntries(t) \/ ReadNext(t) \/ ReadFails(t) \/ RenameRead(t)
  PROVE  RunInv'
<1>1. UNCHANGED <<disk, want, kept, running>> /\ UNCHANGED writer
  BY DEF WaitSync, ListEntries, ReadNext, ReadFails, RenameRead, saving
<1>2. PICK pc, data : Goes(t, {}) \/ Goes(t, {Then(t, pc, data)})
  BY DEF WaitSync, ListEntries, ReadNext, ReadFails, RenameRead
<1> DEFINE u == Then(t, pc, data)
<1>3. u.kind = t.kind
  BY TaskFields DEF Then
<1>4. Goes(t, {}) \/ Goes(t, {u})
  BY <1>2
<1> HIDE DEF u
<1>5. \A x \in Active' : x.kind = "run" => x \in Active /\ tasks'[x] = tasks[x]
  BY <1>3, <1>4, RunsGo
<1> QED
  BY <1>1, <1>5, RunKept

LEMMA RunFails == ASSUME TInv, RunInv, NEW t \in Active, ReadFails(t) PROVE RunInv'
<1>1. UNCHANGED <<disk, want, kept, running>> /\ UNCHANGED writer /\ Goes(t, {})
  BY DEF ReadFails, saving
<1> QED
  BY <1>1, RunsGo, RunKept

LEMMA RunLists == ASSUME TInv, RunInv, NEW t \in Active, ListApply(t) PROVE RunInv'
<1>1. UNCHANGED <<disk, want, kept, running>> /\ UNCHANGED writer
  BY DEF ListApply, saving
<1>2. PICK o : o = OpenTask(filename')
  OBVIOUS
<1>3. o.kind = "open"
  BY <1>2, TaskFields DEF OpenTask
<1>4. Goes(t, {}) \/ Goes(t, {o})
  BY <1>2 DEF ListApply
<1>5. \A x \in Active' : x.kind = "run" => x \in Active /\ tasks'[x] = tasks[x]
  BY <1>3, <1>4, RunsGo
<1> QED
  BY <1>1, <1>5, RunKept

LEMMA RunImportNext == ASSUME TInv, RunInv, NEW t \in Active, ImportNext(t) PROVE RunInv'
<1>1. UNCHANGED <<disk, want, kept, running>> /\ UNCHANGED writer
  BY DEF ImportNext, saving
<1>2. PICK l, o : l = ListTask(revision') /\ o = OpenTask(t.to)
  OBVIOUS
<1>3. l.kind = "list" /\ o.kind = "open"
  BY <1>2, TaskFields DEF ListTask, OpenTask
<1>4. PICK S : Goes(t, S) /\ \A u \in S : u.kind # "run"
  <2>1. CASE DOMAIN t.data \ tabs # {}
    <3>1. PICK n : Goes(t, {Task("import", "write", n, t.to, t.data)})
      BY <2>1 DEF ImportNext
    <3> DEFINE u == Task("import", "write", n, t.to, t.data)
    <3>2. u.kind = "import" /\ Goes(t, {u})
      BY <3>1, TaskFields
    <3> HIDE DEF u
    <3> QED
      BY <3>2
  <2>2. CASE DOMAIN t.data \ tabs = {}
    <3>1. Goes(t, {l} \union (IF t.to = None THEN {} ELSE {o}))
      BY <1>2, <2>2 DEF ImportNext
    <3> QED
      BY <1>3, <3>1
  <2> QED
    BY <2>1, <2>2
<1>5. \A x \in Active' : x.kind = "run" => x \in Active /\ tasks'[x] = tasks[x]
  BY <1>4, RunsGo
<1> QED
  BY <1>1, <1>5, RunKept

LEMMA RunImportSkips == ASSUME TInv, RunInv, NEW t \in Active, ImportSkips(t) PROVE RunInv'
<1> DEFINE d == Without(t.data, t.path)
           u == Task("import", "next", None, t.to, d)
<1>1. Goes(t, {u}) /\ UNCHANGED <<disk, want, kept, running>> /\ UNCHANGED writer
  BY DEF ImportSkips, saving
<1>2. u.kind = "import"
  BY TaskFields
<1> HIDE DEF u
<1>3. \A x \in Active' : x.kind = "run" => x \in Active /\ tasks'[x] = tasks[x]
  BY <1>1, <1>2, RunsGo
<1> QED
  BY <1>1, <1>3, RunKept

LEMMA RunUploadFails == ASSUME TInv, RunInv, NEW t \in Active, UploadFails(t) PROVE RunInv'
<1>1. UNCHANGED <<disk, want, kept, running>> /\ UNCHANGED writer /\ Goes(t, {})
  BY DEF UploadFails, saving
<1> QED
  BY <1>1, RunsGo, RunKept

\* A task changes files of its own.
LEMMA RunApart ==
  ASSUME TInv, RunInv, NEW t \in Active, NEW S, Goes(t, S), \A u \in S : u.kind # "run", NEW C,
         kept' \subseteq kept \ C, SameBut(want, want', C), SameBut(disk, disk', C), UNCHANGED running, UNCHANGED saving
  PROVE  RunInv'
<1>1. \A n \in kept' : n \in DOMAIN want' /\ want'[n] = want[n]
  BY DEF RunInv, SameBut
<1>2. \A n \in kept' : Stable(n) => Stable(n)'
  BY <1>1 DEF Stable, SameBut, saving
<1>3. \A x \in Active' : x.kind = "run" => x \in Active /\ tasks'[x] = tasks[x]
  BY RunsGo
<1> QED
  BY <1>1, <1>2, <1>3, RunSame

LEMMA RunOpenReads ==
  ASSUME TInv, TimeGiven, RunInv, NEW t \in Active, OpenRead(t) PROVE RunInv'
<1>1. PICK x : Goes(t, {Then(t, "apply", x)})
  BY DEF OpenRead
<1> DEFINE u == Then(t, "apply", x)
<1>2. /\ t.kind = "open" /\ t.pc = "read" /\ Sound(t) /\ Typed(t)
      /\ UNCHANGED <<want, kept, running>> /\ UNCHANGED saving
  BY TypesAre DEF OpenRead, TimeGiven, Tasks
<1>3. u.kind = "open" /\ Goes(t, {u})
  BY <1>1, <1>2, TaskFields DEF Then
<1> HIDE DEF u
<1>4. t.path \in DOMAIN disk
  BY <1>2 DEF Sound, SoundOpen, Typed, Readable
<1>5. disk' = disk
  BY <1>4 DEF OpenRead
<1> QED
  BY <1>2, <1>3, <1>5, RunsGo, RunKept DEF saving

LEMMA RunRemovesEntry ==
  ASSUME TInv, RunInv, NEW t \in Active, RemoveEntry(t) PROVE RunInv'
<1>1. UNCHANGED running /\ UNCHANGED saving
  BY DEF RemoveEntry
<1>2. PICK l : l = ListTask(revision')
  OBVIOUS
<1>3. l.kind = "list"
  BY <1>2, TaskFields DEF ListTask
<1>4. CASE t.path \in DOMAIN disk
  <2>1. Goes(t, {l}) /\ kept' = kept \ {t.path} /\ disk' = Without(disk, t.path) /\ want' = Without(want, t.path)
    BY <1>2, <1>4 DEF RemoveEntry
  <2>2. /\ DOMAIN want' = DOMAIN want \ {t.path} /\ DOMAIN disk' = DOMAIN disk \ {t.path}
        /\ \A n \in DOMAIN want \ {t.path} : want'[n] = want[n]
        /\ \A n \in DOMAIN disk \ {t.path} : disk'[n] = disk[n]
    BY <2>1, FilesWithout, TypesAre
  <2>3. SameBut(want, want', {t.path}) /\ SameBut(disk, disk', {t.path})
    BY <2>2 DEF SameBut
  <2> QED
    BY <1>1, <1>3, <2>1, <2>3, RunApart
<1>5. CASE t.path \notin DOMAIN disk
  <2>1. Goes(t, {}) /\ UNCHANGED <<disk, want, kept>>
    BY <1>5 DEF RemoveEntry
  <2> QED
    BY <1>1, <2>1, RunsGo, RunKept DEF saving
<1> QED
  BY <1>4, <1>5

LEMMA RunRenameWrites ==
  ASSUME TInv, TimeGiven, RunInv, NEW t \in Active, RenameWrite(t) PROVE RunInv'
<1> DEFINE u == Then(t, "remove", t.data)
<1>1. /\ t.kind = "rename" /\ Sound(t) /\ disk' = With(disk, t.to, t.data) /\ Goes(t, {u})
      /\ UNCHANGED <<want, kept, running>> /\ UNCHANGED saving
  BY DEF RenameWrite, TimeGiven, Tasks
<1>2. u.kind = "rename"
  BY <1>1, TaskFields DEF Then
<1> HIDE DEF u
<1>3. t.to \notin DOMAIN want
  BY <1>1 DEF Sound, SoundRename
<1>4. SameBut(want, want', {t.to}) /\ SameBut(disk, disk', {t.to})
  BY <1>1 DEF SameBut, With
<1>5. kept' \subseteq kept \ {t.to}
  BY <1>1, <1>3 DEF RunInv
<1> QED
  BY <1>1, <1>2, <1>4, <1>5, RunApart

LEMMA RunRenames ==
  ASSUME TInv, TimeGiven, RunInv, NEW t \in Active, RenameRemove(t) PROVE RunInv'
<1>1. /\ t.kind = "rename" /\ t.pc = "remove" /\ Sound(t)
      /\ UNCHANGED running /\ UNCHANGED saving
  BY DEF RenameRemove, TimeGiven, Tasks
<1>2. t.path \in DOMAIN want /\ t.path \in DOMAIN disk
  BY <1>1 DEF Sound, SoundRename, TimeGiven, Saved, OnDisk
<1>3. PICK o, l : o = OpenTask(filename') /\ l = ListTask(revision')
  OBVIOUS
<1>4. o.kind = "open" /\ l.kind = "list"
  BY <1>3, TaskFields DEF OpenTask, ListTask
<1>5. /\ disk' = Without(disk, t.path) /\ want' = With(Without(want, t.path), t.to, want[t.path])
      /\ kept' = kept \ {t.path, t.to} /\ Goes(t, {o, l})
  BY <1>2, <1>3 DEF RenameRemove
<1>6. /\ DOMAIN Without(want, t.path) = DOMAIN want \ {t.path}
      /\ \A n \in DOMAIN want \ {t.path} : Without(want, t.path)[n] = want[n]
      /\ DOMAIN disk' = DOMAIN disk \ {t.path}
      /\ \A n \in DOMAIN disk \ {t.path} : disk'[n] = disk[n]
  BY <1>5, FilesWithout, TypesAre
<1>7. SameBut(want, want', {t.path, t.to})
  BY <1>5, <1>6 DEF SameBut, With
<1>8. SameBut(disk, disk', {t.path, t.to})
  BY <1>6 DEF SameBut
<1> QED
  BY <1>1, <1>4, <1>5, <1>7, <1>8, RunApart

LEMMA RunAdds == ASSUME TInv, RunInv, NEW t \in Active, AddWrite(t) PROVE RunInv'
<1>1. PICK o, l : o = OpenTask(t.path) /\ l = ListTask(revision')
  OBVIOUS
<1>2. o.kind = "open" /\ l.kind = "list"
  BY <1>1, TaskFields DEF OpenTask, ListTask
<1>3. /\ disk' = With(disk, t.path, Empty) /\ want' = With(want, t.path, Empty) /\ kept' = kept \ {t.path}
      /\ Goes(t, {o, l}) /\ UNCHANGED running /\ UNCHANGED saving
  BY <1>1 DEF AddWrite
<1>4. SameBut(want, want', {t.path}) /\ SameBut(disk, disk', {t.path})
  BY <1>3 DEF SameBut, With
<1> QED
  BY <1>2, <1>3, <1>4, RunApart

LEMMA RunImports == ASSUME TInv, RunInv, NEW t \in Active, ImportWrite(t) PROVE RunInv'
<1> DEFINE text == t.data[t.path]
           m == IF t.to = None /\ text # Binary THEN t.path ELSE t.to
           u == Task("import", "next", None, m, Without(t.data, t.path))
<1>1. /\ disk' = With(disk, t.path, text) /\ want' = With(want, t.path, text) /\ kept' = kept \ {t.path}
      /\ Goes(t, {u}) /\ UNCHANGED running /\ UNCHANGED saving
  BY DEF ImportWrite
<1> HIDE DEF text, m
<1>2. u.kind = "import"
  BY TaskFields
<1> HIDE DEF u
<1>3. SameBut(want, want', {t.path}) /\ SameBut(disk, disk', {t.path})
  BY <1>1 DEF SameBut, With
<1> QED
  BY <1>1, <1>2, <1>3, RunApart

\* The run goes on, with what it has found.
LEMMA RunGoesOn ==
  ASSUME TInv, RunInv, NEW t \in Active, t.kind = "run", NEW u, u.kind = "run", u # t, Goes(t, {u}),
         UNCHANGED <<disk, want, kept, running>>, UNCHANGED writer,
         IF u.pc = "read" THEN DOMAIN u.data.files \subseteq u.data.names ELSE DOMAIN u.data.files = {},
         \A n \in kept : Stable(n),
         u.pc = "read" => kept \subseteq u.data.names,
         \A n \in kept \intersect DOMAIN u.data.files : u.data.files[n] = want[n]
  PROVE  RunInv'
<1>1. running = "asked" /\ tasks[t] = 1 /\ \A x \in Active : x.kind = "run" => x = t
  BY DEF RunInv, Found, Asked
<1>2. /\ t \notin Active' /\ Active' \subseteq Active \union {u}
      /\ tasks'[u] = 1
  <2>1. u \notin Active /\ t \notin {u}
    BY <1>1
  <2>2. t \notin Active'
    BY <1>1, <2>1, GoesCounts, TypesAre
  <2>3. Active' \subseteq Active \union {u}
    BY GoesActive, TypesAre
  <2>4. tasks'[u] = 1
    BY <2>1, GoesCounts, TypesAre
  <2> QED
    BY <2>2, <2>3, <2>4
<1>3. \A n \in kept : Stable(n)'
  BY DEF Stable
<1>4. Asked(u)'
  BY <1>1, <1>2 DEF Asked
<1>5. Found(u)'
  BY <1>3, <1>4 DEF Found
<1>6. \A x \in Active' : x # u => x.kind # "run"
  BY <1>1, <1>2
<1>7. \A x \in Active' : Found(x)'
  BY <1>5, <1>6 DEF Found
<1> QED
  BY <1>7 DEF RunInv

LEMMA RunWaits ==
  ASSUME TInv, TimeGiven, RunInv, NEW t \in Active, t.kind = "run", WaitSync(t) PROVE RunInv'
<1> DEFINE u == Then(t, "list", t.data)
<1>1. Goes(t, {u}) /\ t.pc = "wait" /\ ~dirty /\ UNCHANGED <<disk, want, kept, running>> /\ UNCHANGED writer
  BY DEF WaitSync, AfterWait, Synced, saving
<1>2. u.kind = "run" /\ u.pc = "list" /\ u.data = t.data
  BY TaskFields DEF Then
<1> HIDE DEF u
<1>3. DOMAIN u.data.files = {}
  BY <1>1, <1>2 DEF RunInv, Found
<1>4. \A n \in kept : Stable(n)
  BY <1>1, SavedWhenClean DEF RunInv
<1> QED
  BY <1>1, <1>2, <1>3, <1>4, RunGoesOn

LEMMA RunListed ==
  ASSUME TInv, RunInv, NEW t \in Active, t.kind = "run", ListEntries(t) PROVE RunInv'
<1> DEFINE d == [t.data EXCEPT !.names = DOMAIN disk]
           u == Then(t, "read", d)
<1>1. Goes(t, {u}) /\ t.pc = "list" /\ UNCHANGED <<disk, want, kept, running>> /\ UNCHANGED writer
  BY DEF ListEntries, saving
<1>2. d.names = DOMAIN disk /\ d.files = t.data.files
  BY TypesAre DEF Typed, RunData
<1> HIDE DEF d
<1>3. u.kind = "run" /\ u.pc = "read" /\ u.data = d
  BY TaskFields DEF Then
<1> HIDE DEF u
<1>4. DOMAIN u.data.files = {} /\ u.data.names = DOMAIN disk
  BY <1>1, <1>2, <1>3 DEF RunInv, Found
<1>5. \A n \in kept : Stable(n)
  BY <1>1 DEF RunInv, Found
<1>6. kept \subseteq DOMAIN disk
  BY <1>5 DEF Stable
<1> QED
  BY <1>1, <1>3, <1>4, <1>5, <1>6, RunGoesOn

\* What the run has read is as it was saved.
LEMMA RunReads ==
  ASSUME TInv, RunInv, NEW t \in Active, t.kind = "run", t.pc = "read", NEW files \in Reads(t)
  PROVE  /\ \A n \in kept : Stable(n)
         /\ kept \subseteq t.data.names
         /\ DOMAIN files \subseteq t.data.names
         /\ \A n \in kept \intersect DOMAIN files : files[n] = want[n]
         /\ ~All(t, files) => files # t.data.files
<1>1. /\ \A n \in kept : Stable(n)
      /\ kept \subseteq t.data.names
      /\ DOMAIN t.data.files \subseteq t.data.names
      /\ \A n \in kept \intersect DOMAIN t.data.files : t.data.files[n] = want[n]
  BY DEF RunInv, Found
<1>2. CASE Left(t) = {}
  BY <1>1, <1>2 DEF Reads, Left, All
<1>3. CASE Left(t) # {}
  <2>1. PICK n \in Left(t) \intersect DOMAIN disk : files = With(t.data.files, n, disk[n])
    BY <1>3 DEF Reads
  <2>2. n \in t.data.names /\ n \notin DOMAIN t.data.files
    BY <2>1 DEF Left
  <2>3. DOMAIN files = DOMAIN t.data.files \union {n} /\ files[n] = disk[n]
    BY <2>1 DEF With
  <2>4. \A m \in DOMAIN files : m # n => m \in DOMAIN t.data.files /\ files[m] = t.data.files[m]
    BY <2>1, <2>3 DEF With
  <2>5. \A m \in kept \intersect DOMAIN files : files[m] = want[m]
    BY <1>1, <2>3, <2>4 DEF Stable
  <2> QED
    BY <1>1, <2>2, <2>3, <2>5
<1> QED
  BY <1>2, <1>3

LEMMA RunReadsNext ==
  ASSUME TInv, RunInv, NEW t \in Active, t.kind = "run", ReadNext(t) PROVE RunInv'
<1>1. PICK files \in Reads(t) : ~All(t, files) /\ Goes(t, {Then(t, "read", [t.data EXCEPT !.files = files])})
  BY DEF ReadNext
<1> DEFINE d == [t.data EXCEPT !.files = files]
           u == Then(t, "read", d)
<1>2. Goes(t, {u}) /\ t.pc = "read" /\ UNCHANGED <<disk, want, kept, running>> /\ UNCHANGED writer
  BY <1>1 DEF ReadNext, saving
<1>3. d.names = t.data.names /\ d.files = files
  BY TypesAre DEF Typed, RunData
<1> HIDE DEF d
<1>4. u.kind = "run" /\ u.pc = "read" /\ u.data = d
  BY TaskFields DEF Then
<1> HIDE DEF u
<1>5. /\ \A n \in kept : Stable(n)
      /\ kept \subseteq t.data.names
      /\ DOMAIN files \subseteq t.data.names
      /\ \A n \in kept \intersect DOMAIN files : files[n] = want[n]
      /\ files # t.data.files
  BY <1>1, <1>2, RunReads
<1>6. u # t
  BY <1>3, <1>4, <1>5
<1> QED
  BY <1>2, <1>3, <1>4, <1>5, <1>6, RunGoesOn

LEMMA RunSent == ASSUME TInv, RunInv, NEW t \in Active, RunSend(t) PROVE RunInv'
<1>1. t.kind = "run" /\ Goes(t, {}) /\ kept' = {}
  BY DEF RunSend
<1>2. \A x \in Active' : x.kind # "run"
  <2>1. \A x \in Active' : x.kind = "run" => x \in Active /\ x # t
    BY <1>1, RunsGo
  <2> QED
    BY <1>1, <2>1 DEF RunInv, Found, Asked
<1> QED
  BY <1>1, <1>2 DEF RunInv, Found

LEMMA InitRuns == Init => RunInv
<1> SUFFICES ASSUME Init PROVE RunInv
  OBVIOUS
<1>1. Active = {OpenTask(None), ListTask(0)}
  BY DEF Init, SetToBag, Active, BagToSet
<1>2. OpenTask(None).kind = "open" /\ ListTask(0).kind = "list"
  BY TaskFields DEF OpenTask, ListTask
<1> QED
  BY <1>1, <1>2 DEF Init, RunInv, Found

LEMMA StepRuns ==
  ASSUME TInv, TimeGiven, RunInv, NEW t \in Active, Step(t), ~raced' PROVE RunInv'
<1>1. CASE t.kind = "run"
  <2>1. CASE WaitSync(t) \/ ListEntries(t) \/ ReadNext(t) \/ ReadFails(t) \/ RunSend(t)
    BY <1>1, <2>1, RunWaits, RunListed, RunReadsNext, RunFails, RunSent
  <2> QED
    BY <1>1, <2>1 DEF Step, OpenRead, OpenApply, ListApply, RemoveEntry, RenameRead, RenameWrite, RenameRemove,
                      AddWrite, ImportNext, ImportWrite, ImportSkips, UploadApply, UploadFails
<1>2. CASE t.kind # "run"
  <2>1. CASE WaitSync(t) \/ OpenApply(t)
    BY <1>2, <2>1, RunShows, RunOthers
  <2>2. ~RunSend(t)
    BY <1>2 DEF RunSend
  <2> QED
    BY <1>2, <2>1, <2>2, RunOthers, RunOpenReads, RunLists, RunRemovesEntry, RunRenameWrites, RunRenames,
       RunAdds, RunImportNext, RunImports, RunImportSkips, RunUploads, RunUploadFails DEF Step
<1> QED
  BY <1>1, <1>2

LEMMA UserRuns == ASSUME TInv, TimeGiven, RunInv, User, ~raced' PROVE RunInv'
BY RunTyped, RunServerEdits, RunClicked, RunClicks DEF User

LEMMA RunInvHolds == SafeSpec => [](KInv /\ (raced \/ RunInv))
<1>1. Init => raced \/ RunInv
  BY InitRuns
<1>2. KInv /\ (raced \/ RunInv) /\ [Next]_vars => (raced \/ RunInv)'
  <2> SUFFICES ASSUME KInv, raced \/ RunInv, [Next]_vars, ~raced' PROVE RunInv'
    OBVIOUS
  <2>1. TInv /\ TimeGiven /\ RunInv
    BY RacedStays DEF KInv
  <2>2. CASE User
    BY <2>1, <2>2, UserRuns
  <2>3. CASE \E t \in Active : Step(t)
    BY <2>1, <2>3, StepRuns
  <2>4. CASE WriterWakes \/ WriterWrites
    BY <2>1, <2>4, RunWriter
  <2>5. CASE RunEnds
    <3>1. UNCHANGED <<disk, want, kept>> /\ UNCHANGED <<tasks, writer>> /\ running = "sent"
      BY <2>5 DEF RunEnds, saving
    <3>2. \A x \in Active' : x.kind # "run"
      BY <2>1, <3>1 DEF RunInv, Found, Asked, Active
    <3>3. \A n \in kept' : n \in DOMAIN want' /\ want'[n] = want[n] /\ (Stable(n) => Stable(n)')
      BY <2>1, <3>1, StableStays DEF RunInv
    <3> QED
      BY <2>1, <3>1, <3>2, <3>3, RunSame
  <2>6. CASE UNCHANGED vars
    <3>1. UNCHANGED <<disk, want, kept, running>> /\ UNCHANGED <<tasks, writer>>
      BY <2>6 DEF vars, saving
    <3> QED
      BY <2>1, <3>1, RunKept DEF Active
  <2> QED
    BY <2>2, <2>3, <2>4, <2>5, <2>6 DEF Next
<1> QED
  BY <1>1, <1>2, KInvHolds, PTL DEF SafeSpec

\* Only a run that has read the directory is sent.
LEMMA OnlyRunSends ==
  ASSUME [Next]_vars, running = "asked", running' = "sent"
  PROVE  \E t \in Active : RunSend(t)
<1>1. ~User
  BY DEF User, Type, ServerEdits, ClickTab, Jump, ClickRemove, CommitRename, ClickAdd, Drop, ClickUpload, ClickRun
<1>2. ~(WriterWakes \/ WriterWrites \/ RunEnds \/ UNCHANGED vars)
  BY DEF WriterWakes, WriterWrites, RunEnds, vars
<1>3. ASSUME NEW t \in Active, Step(t) PROVE RunSend(t)
  BY <1>3 DEF Step, WaitSync, OpenRead, OpenApply, ListEntries, ReadNext, ReadFails, ListApply, RemoveEntry,
              RenameRead, RenameWrite, RenameRemove, AddWrite, ImportNext, ImportWrite, ImportSkips,
              UploadApply, UploadFails
<1> QED
  BY <1>1, <1>2, <1>3 DEF Next

\* Unless something was raced, a run is sent every file that was there when Run was
\* clicked, with the text it had then, but for the files that were changed, or had an
\* older text put back, since: do_run waits for the writer, and no task that goes on
\* meanwhile, and no later save, changes what it reads.
THEOREM RunsGetWhatWasTyped == SafeSpec => RunSendsWhatWasTyped
<1> DEFINE Sends ==
      running = "asked" /\ running' = "sent" /\ ~raced =>
        \E t \in Active :
          /\ t.kind = "run" /\ t.pc = "read"
          /\ \E files \in Reads(t) :
               All(t, files) /\ \A n \in kept : n \in DOMAIN files /\ files[n] = want[n]
<1>1. KInv /\ (raced \/ RunInv) /\ [Next]_vars => Sends
  <2> SUFFICES ASSUME KInv, raced \/ RunInv, [Next]_vars, running = "asked", running' = "sent", ~raced
               PROVE  \E t \in Active :
                        /\ t.kind = "run" /\ t.pc = "read"
                        /\ \E files \in Reads(t) :
                             All(t, files) /\ \A n \in kept : n \in DOMAIN files /\ files[n] = want[n]
    OBVIOUS
  <2>1. PICK t \in Active : RunSend(t)
    BY OnlyRunSends
  <2>2. PICK files \in Reads(t) : All(t, files)
    BY <2>1 DEF RunSend
  <2>3. t.kind = "run" /\ t.pc = "read"
    BY <2>1 DEF RunSend
  <2>4. TInv /\ RunInv
    BY DEF KInv
  <2>5. kept \subseteq t.data.names /\ \A n \in kept \intersect DOMAIN files : files[n] = want[n]
    BY <2>3, <2>4, RunReads
  <2> QED
    BY <2>2, <2>3, <2>5 DEF All
<1>2. KInv /\ (raced \/ RunInv) /\ [Next]_vars => [Sends]_vars
  BY <1>1
<1> QED
  BY <1>2, RunInvHolds, PTL DEF SafeSpec, RunSendsWhatWasTyped
=============================================================================
