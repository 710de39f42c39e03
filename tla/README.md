# wasm-ide in TLA+

wasm-ide is an IDE in a browser tab: it compiles and runs contest programs in Web
Workers, as WASI processes on a small operating system written in Rust. This
directory holds TLA+ modules of its core and of the page around it, the TLC
instances that check them and the theorems that TLAPS proves about eight of them.

    tlc -workers 2 -config MCPipe.cfg MCPipe      # one of the runs below
    tlapm PipeProofs.tla                          # the proofs of a module

## The system

Three kinds of event loop exchange messages; inside each, `async` tasks interleave
at their awaits only.

    page (frontend/) <-- postMessage --> coordinator worker (worker/) <-- per thread --> thread Workers
                                          exec.rs, ls.rs, lang/*                         start_proc.js
                                          os/pipe, os/process, os/syscall, os/fs         the program

| component | code | state | operations | what is hard |
|---|---|---|---|---|
| pipe | `worker/src/os/pipe.rs` | buffer, closed, one waker slot, an async mutex for the readers | `write`, `close`, `fill_buf` and the reads built on it; dropping a pending read | lost wakeups, a reader dropped while it waits or owns the mutex, torn frames, end of file against bytes |
| process and threads | `os/process.rs`, `os/syscall.rs`, `os/start_proc.js` | list of Workers, status code, the channel that kill closes, one shared word per thread | system calls, `thread_spawn`, `kill`, `wait`, Drop, time limit | answers that race with the wait, handlers that resume after the end, spawn against kill, several causes of one end |
| file system | `os/fs.rs` | inode table, parent pointers | `get`, `open`, `create_dir`, `add_entry`, `get_name` | two lookup loops that must agree, inodes that are unlinked while open |
| descriptors | `os/syscall.rs`, `os/process.rs` | table of `FdEntry` with offsets | the WASI calls on paths and descriptors | partial failure, two offsets in one file, unwraps on the inode table |
| run coordinator | `worker/src/exec.rs`, `main.rs` | the stored stop sender and stdin | `run`, `stdin_chunk`, `cancel`, the `select!` of a run, the drainer of its output | runs that replace each other, a cancel that crosses the end |
| run state of the page | `frontend/src/main.rs` | `StateExec`, `StateSubmit`, the outcome | `do_run`, `do_stop`, `do_submit`, `handle_exec_message` | messages carry no run; awaits between the click and the send |
| submission | `contest_api/terry.rs` | the proxy and what it collected | `submit` | shares the message stream with runs |
| language server of the worker | `worker/src/ls.rs` | the stored stop sender and stdin | `start`, `message`, `stop`, framing | sessions that replace each other; messages carry no session |
| language server of the page | `frontend/src/main.rs`, `editor.rs`, `codemirror_interface.ts` | `StateLS`, the LSP client | the Effect that asks for a server, `handle_ls_message`, the transport | late messages of an earlier session |
| languages | `worker/src/lang/*` | none | the phases of compile, run and language server | failures between phases |
| compiler cache | `worker/src/util.rs`, `frontend/src/main.rs` | `fs_cache` under an async mutex; the progress bars | `get_fs`, `fetch_tar` | the mutex is held across the fetch, by a future that may be dropped and in a task that may panic |
| editor files | `frontend/src/editor.rs`, `editor_dir.rs`, `codemirror_interface.ts`, `common/src/opfs.rs` | pending changes and writes, the active and the open file, tabs, a text per file | typing, autosave, `wait_sync`, open, list, add, rename, remove, import, upload | every operation awaits OPFS while the user goes on typing and clicking |
| backends | `frontend/src/backend/*` | one execution, its timeout, its callback | `send_message` | timeout, cancel and answer of the same execution; requests that go to the backend of the file that is open |
| workspaces | `frontend/src/workspace.rs` | the list of directories and the chosen one | create, choose, remove | tasks for the files of a directory that is left or removed |
| settings, views, CMS client | the rest of `frontend/` | preferences, rendered state | | no concurrency of their own |

What makes each right: a pipe is a reliable FIFO channel with an end; a process
loses no answer, ends once, reports the first cause, and leaves no Worker; the inode
table is a tree whatever is unlinked; the page shows the result of the run it shows,
all of it, and Stop stops it; a language server gets the messages that are for it and
is asked to initialize before anything else; what is typed reaches the disk and a run
gets it; one compiler is downloaded at a time, none twice, and nobody waits for it for
ever. The code keeps some of these only under conditions, above all that nothing panics:
each property states its own. `PROJECT.json` lists the hazards, each at its line, with
the properties that would show it going wrong.

## The modules

| module | models | state and actions against the code |
|---|---|---|
| `Channel` | what a pipe promises | the sequence in transit and the readers that ask |
| `Pipe` | `os/pipe.rs` | `buf`, `closed`, `waker` are `PipeInner`; `pc` is the await where each reader's future is; `Begin`, `PollLocked`, `PollCell` are polls, `Park` and `Return` what a poll ends with, `Cancel` the drop of a future; `Write`, `Close` the calls of the other side |
| `Process` | `os/process.rs`, the handler tasks of `os/syscall.rs`, `start_proc.js` | per thread: its code position, the message in flight, its word; per handler: where it awaits; `Post`, `Wait`, `Finish`, `Trap` are the Worker, `Deliver` the event, `RunTask` the executor, `Cancel`, `TimeLimit` the coordinator |
| `ExecSession` | page, submission proxy, coordinator for runs | one variable per field of `RunState` and of `WorkerStateExec`, two queues; each message handler and each click is an action; what `do_run` and `do_submit` do after their awaits is another |
| `LangServer` | page, client, coordinator for language servers | same shape; the field `s` of a message is a ghost that says whose it is |
| `EditorFiles` | `editor.rs`, `editor_dir.rs`, the file states of `codemirror_interface.ts`, `do_run` as a reader of the directory | `disk` is OPFS; `tabs`, `revision`, `filename`, `open`, `dirty`, `writes` are the fields of `EditorDir` and `EditorController`, `shown`, `view`, `states` those of `CM6Editor`; `writer` is the autosave task and `tasks` the other spawned futures, each a record of the await it is at and of its locals. A user action runs up to the first await; `Step` and the writer's actions go from one await to the next |
| `CompilerCache` | `get_fs` and `fetch_tar` of `util.rs`, the bars of the page | per job (a call of `get_fs` by a run or a server) where its future is; `holder` is the owner of the mutex; `mail` the messages to the page |
| `Backends` | `frontend/src/backend/*` and how the page chooses one | `execution`, `timeout`, `workers` are the JS backend's `ActiveExecution` and what it has started, `sender` and `requests` the remote backend's; the coordinator is reduced to a run that goes on, ends or is cancelled |
| `Fs` | `os/fs.rs` | pure operators on `[entries, parent]`, with the two loops as recursive functions |
| `WasiFiles` | descriptors and calls of `os/syscall.rs` | `fs`, `fds`, and the outcome of the last call; one action per call |
| `PipeProofs`, `ProcessProofs`, `WasiFilesProofs`, `ExecSessionProofs`, `LangServerProofs`, `BackendsProofs`, `CompilerCacheProofs`, `EditorFilesProofs` | | theorems about the module of that name; those of `WasiFiles` with lemmas about `Fs` |
| `MC…` | | the constants of the TLC instances |

`Pipe` implements `Channel` (`ImplementsChannel`, checked as a PROPERTY under the
refinement mapping `Chan`). `WasiFiles` is built on `Fs`. `ExecSession` and
`LangServer` take from the modules below them what they need as phases: a process
that is cancelled may stay an orphan (`Process`, run `process_cancel`), a pipe that is
open or closed (`Pipe`), a compiler that is being fetched (`CompilerCache`). `EditorFiles`
ends where `ExecSession` begins, with Run sent.

Definitions called *faulty variant* are not part of the model: each is the
definition after it with a plausible bug, and the check of a property includes that the
property fails when the variant takes its place.

### Choices

* An event of the coordinator includes the tasks it wakes, as microtasks run
  before the next event. So a cancelled run reports before the next message, and
  what a program wrote is drained before its end is handled.
* `Process` keeps the handlers as separate tasks: their awaits are what it is about.
* A panic ends a task; the Rust code is built for wasm without unwinding, so what it
  held stays held: a `RefCell` it had borrowed, an `Rc`, the mutex of the cache.
  In `Process` the handler of a panicking call is `"dead"` for ever: it keeps its `Rc` of
  the process, so no Drop kills, and `lock` is the borrow it left: `"shared"` by a
  reading call, `"exclusive"` by a writing one, `"free"` by one that had none. Whoever
  borrows against it panics too: other calls, `kill`, the time limit. The calls that
  panic are `raise` (which stands for a clock or a subscription that is not implemented too),
  `pread_past` and `read_past` (a slice past the end of a file) and `write_stdin` (the
  assertion of the closed pipe); `read_stdout` does not panic but waits behind the task that
  drains the output, which keeps the mutex of that pipe. In `ExecSession` a run whose task
  panicked is `"panicked"`, one whose calls do is `"frozen"`, its pipe is `"jammed"`,
  and `broken` is the stdin cell of the coordinator left borrowed. In `LangServer` such a
  session is `"lost"`; in `WasiFiles` it is `panic`, in `CompilerCache` a holder that never
  gives back, in `EditorFiles` a task that is gone, in `Backends` a run that is on no backend.
* In `WasiFiles` a call ends in `"success"`, `"error"` or `"fault"`. The last is `EFAULT` for
  its result (the new descriptor, the count, the offset): the code has done its work
  by then and undoes nothing, and `FailureIsAdditive` claims of it only that names and kinds stay.
* File contents are values: `Rc::make_mut` copies what is shared.
* Not in `WasiFiles`: `FdEntry::Data` (an unnamed file), the data of streams
  (`Pipe`), overflow of 32-bit offsets, exhaustion of memory. The image a process
  starts with is a constant, any tree.
* `ExecSession` and `LangServer` are about languages that the coordinator worker
  runs; `Backends` is about what changes when there are others. `overlap` marks sessions where a run and a submission were under way at
  once, which Ctrl-Enter allows; the properties of the outcome exclude it.
* `EditorFiles` has one directory, and the awaits inside one OPFS operation (open and
  read, open and write) are one. The Effects of Leptos run within the event that
  triggers them. `want` is a ghost: the directory as the user means it to be. `kept` is
  another: while a run is asked for, the files that did not change since the click.
* The tasks of the editor take no locks, so a user who clicks faster than OPFS answers
  can break the page. The ghost `raced` marks the steps after which the properties promise
  nothing, and the constraint `GivesTime` of the instances cuts what follows them. They are:
  - a text is typed, uploaded or changed by the language server in a file that a removal,
    renaming, adding or import that no longer waits is about to replace or remove, in a
    binary or a removed file, or while another file is shown;
  - a click opens, removes, renames, adds or drops a file that another task is to change
    (or, to remove or rename it, to open), or gives a file a name that is on disk or in the
    editor without a tab;
  - a listing is applied that is older than the last change of the tabs, or makes a file
    active that a task is to change.

  The hazards at `editor_dir.rs:168` and `:391`, `editor.rs:246` and `:332` are these cases.
  What is left is a user who types into the file that is shown whenever no task is about to
  change that file, so also while it is saved, run, listed, or opened again, and who acts on a
  file once the tasks that change it have ended.
* Typing into the active file while it is opened again is *not* marked. The opening (of a
  click on its own tab, or because another file was removed or renamed: `editor_dir.rs:120`,
  `:181`) has read an older text, sets it over what was typed since and has it saved. The
  model does that (`PutBack`): `past` holds the texts a file had since an opening of it
  began to read, and `want` follows when one of them comes back (hazard at `editor.rs:260`). So `NothingLost` says what
  the code keeps: nothing typed is undone but by such an opening of the same file.
* An import skips a file it cannot read (`ImportSkips`), and an upload ends without effect
  when the chosen one cannot be read (`UploadFails`).
* `get_name` of an open directory that was unlinked unwraps a missing parent: in `WasiFiles`
  an outcome (panic `"get_name"`) without a property against it.
* Stop clicked before `do_run` has sent Run is lost: the coordinator has nothing to
  cancel, and Stop stays disabled (`early` in `ExecSession`, which `StopEndsTheRun`
  excludes). So is one for a run whose task has panicked, as it does when a download breaks
  (`fetch_tar`): the run reports nothing, and the page is stopping for ever. `StopEndsTheRun`
  excludes it, and the hazard at `util.rs:33` names it.
* A stopped program that outlives its run (run `process_cancel`) goes on writing. Its chunks
  are shown with the next run, and uploaded with the next submission (`terry.rs:145`):
  `ResultIsMine` and `SubmissionIsMine` say that no other run's are.
* In `LangServer` a client that is connected may send at any time, also before it
  was answered, more than the LSP client does. A server sends only after an
  initialize. Rust has no server: its `run_ls` announces one and ends (`Fetched`), and the
  client that connects then is never answered.

## The runs

| run | question | result |
|---|---|---|
| `pipe` | one writer, two readers that may be dropped, `MaxBytes` bytes | holds; implements `Channel` |
| `process` | three threads, every order of calls, panics, answers, ends, cancel, time limit | holds |
| `process_live` | two threads, every kind of call: does every call, every end and a cancel get through? | every wait ends unless a panic left the process borrowed; cancel holds for one thread none of whose calls panics or reads the output |
| `process_cancel` | does Cancel stop any program whose calls all answer? | no: two threads that sleep in turn |
| `session` | two runs or submissions on the page | holds |
| `session_panic` | is a closed pipe ever written to? | yes: input typed for a batch run |
| `wasi_files` | sequences of file calls | holds: lookups agree but behind two trailing slashes, and a call that failed before `EFAULT` changed no file |
| `lang_server` | three sessions replaced at any moment | holds; initialize comes first, and once unless an Error crossed |
| `editor_files` | typing, saving, opening, renaming, removing, importing, uploading and running on two names | unless something was raced, nothing typed is lost but what an opening of the file puts back, page and disk agree at rest, a run is sent what is there; everything comes to rest |
| `compiler_cache` | three jobs, two compilers, stopped at any moment, a network that fails | one download at a time; everyone gets a turn unless a panic took the lock |
| `backends` | three runs on three backends while the user opens other files | each ends once, and ends if it was stopped where it runs or has a limit |
| `backends_stop` | does Stop reach the run it is for? | no: another file is open, of another backend |

The properties, with the code they are about, are stated in a comment above each.

**Bounds.** `pipe`: 3 bytes, operations of length up to 2, an alphabet of the delimiter and
one other byte: a read that needs two pieces, a reader that owns the mutex, one that
waits and a byte left over are all within it. `process`: three threads are the fewest with
output, a waiting handler and an end from three sides; `process_live` needs two, for
handlers that wait in turn. The kinds of calls multiply the states: `process_live` has all
of them (`AllCalls`), `process` those that wait, spawn and end and the two panics that leave
a borrow (`SafetyCalls`), `process_cancel` only calls that answer (`PlainCalls`), so that it shows
the handlers that wait in turn and nothing else. `session`: two runs, so that one is left over while the next
starts; one chunk of output per run and two input messages in flight. `wasi_files`: at most
4 descriptors and 3 inodes, of two names, and the paths `a`, `a//b`, `../b/` and `b//`: a
directory, a file in it, both open and unlinked, and the two slashes at which the two
lookups may part. `lang_server`: three
sessions, since the message that connects the client can be one session late and the
one that answers two; one message per server and one edit in flight. `backends`:
three runs, one for each backend, and nothing else to bound. `editor_files`: two names, and
two clicks with a text typed or a click with two (`FewInputs`): one file to be in a task and
one to be typed into, renamed onto or switched to; a text to be overtaken, and one more
typed while the writer has the first. One dropped file is text and one is binary, for the opening that
fails half way. (The safety properties held as well with two clicks and two texts,
2.8 million states; they are theorems for any bound.) `compiler_cache`: three jobs, so that one holds the lock while two
wait, of the same compiler or of another; one chunk, before which an HTTP error and
after which a broken stream is possible.
`CHECK_DEADLOCK FALSE` stands where the system may stop: all programs have ended, the
reader waits for a writer that has nothing to say, the user does nothing, or the
bound of a model is reached.

**Fairness.** Browsers deliver posted messages, run queued tasks and fire timeouts, so those
actions are weakly fair: `ReceivePage`, `ReceiveWorker`, the async block that sends Run (its
awaits are local), in `Process` the tasks and a thread's own code in a system call. In
`Process` delivery to a thread's handler and the timers are strongly fair, because
another thread's messages may come first each time but not for ever. In
`EditorFiles` the timer of the writer fires and the promises of OPFS are resolved: while the
writer or a task can go on, one of them does; user actions are bounded there, so `Settles` says what happens once the
user stops. In `CompilerCache` a job that was woken is polled and a download ends in one way
or another; a connection that hangs for ever would hold the lock for ever. Elsewhere programs,
users, fetches and compilers have no fairness. Nothing is fair in `SafeSpec`, the
specification of safety runs and proofs.

## The proofs

Every theorem is for any value of the constants under the assumptions named in its
module: any number of threads, readers, runs, sessions, jobs, and any bound. Each proof
has the same shape. `IInv` joins the type invariant, the property and what the property needs
to be inductive; one lemma per action (or group of actions that change the same thing)
shows that the step keeps it; the theorem follows by PTL. What `IInv` adds is the argument:

* `PipeProofs`: `TypeCorrect`, `NoWakeupLost`, `StreamAlwaysIntact`, `FramesNeverTorn`,
  `PipeIsAChannel`. `MutexOK`: who owns the mutex and who may be scheduled to take it.
  `GotOK`: what each reader has taken against what it asked for. `FrameOK`: the bytes of an
  operation are contiguous in the stream while it holds the mutex. `NoLostWakeup` and
  `StreamIntact` are then inductive with these. `FramesNeverTorn` is an action property that
  the invariant gives in each step (no run checks it: one task reads each such pipe today). `PipeIsAChannel` is the refinement of `Channel` step by
  step: under the mapping `Chan` a poll that takes bytes is a `Serve`, one that finds the end an
  `EndOfFile`, a read that is dropped or asked for nothing a `Leave`; parking, waking and
  changing hands of the mutex are stutters.
* `ProcessProofs`: `TypeCorrect`, `AnswersArrive`, `NoThreadSurvives`,
  `FirstEndIsReported`, of `SafeSpec`, so of `Spec` too. `Queue`: an event finds the task queue
  empty, so a handler is alone in it and its process has not ended; this is why a spawn
  never crosses a kill. `Ending`: of a process that ended and is still awaited, the
  waiting task is the next to run and `status` is still the first cause. `Step` and `Settled`
  are the common end of all coordinator steps (kill, Drop, wake).
* `WasiFilesProofs`: `TypeCorrect`, `AlwaysATree`, `UnwrapsSucceed`, `NeverRelisted`,
  `LookupsNeverDiffer`, `FailuresOnlyAdd`, for any image that is a tree and any paths. (The
  lookups do differ behind two trailing slashes after what is no directory; the theorem
  says that they differ nowhere else, from any directory, attached or not.) The
  invariant joins types, the tree, and the descriptor table's reference to it. `Keeps` says
  what every operator of `Fs` keeps: no inode changes its kind, none that was unlinked is
  listed again. The two path loops are recursive functions over the components; that they
  agree (`LookupsNeverDiffer`) is a fact about a path and the inode it starts from, proved by
  its least counterexample, as the library's induction takes an operator. `Additive` is what
  the part of a call before its error may have done, `KeepsNames` what remains true when it
  is the result that could not be written.
* `ExecSessionProofs`: `EveryRunIsStoppable`, `SessionTypes`, `OutcomeOfTheRun`,
  `OutputOfTheSubmission`. `Stored`: the types of what decides a phase. `CancelledEndsAll`:
  once the stored sender has resolved, no run is alive, so the run that takes its place is
  the only one. `XInv` is why a message without a run is taken for the right one:
  `RequestedOnce` (a run is asked for by one message, which is in the queue or has been
  handled), `ReportedOnce` (it has one final message at most, and none of its chunks follows a success),
  `Tallied` (what was taken and what is on its way was emitted), and `Apart` (as long as no run and
  submission were under way at once, whatever is still to come is what the page waits for).
* `LangServerProofs`: `TypeCorrect`, `OneServerAtMost`, `MessagesStayApart`,
  `InitializedFirst`. `Addressed`: a Start in the queue names its session, and a page that waits
  for a server wants one. `SInv` is about the order of the queues: reports come session by session,
  but for what servers that outlive their session still write (`InOrder`); requests come in the
  order in which the page replaced its sessions (`Numbered`); and no initialize in the queue repeats
  one that a pipe took (`OnceOK`). `GInv` adds that a note in the queue has an initialize before
  it, there or in the pipe (`Greeted`), whichever session's Started connected the client.
  Exempt are a client that an earlier session connected (it may hear that one), threads that
  outlive a stopped session, and for the second initialize an Error that crossed.
* `BackendsProofs`: `TypeCorrect`, `EveryRunEndsOnce`. `At`: what is left of a run is in one
  place: it waits to be sent, or goes on in one backend, or is on its way to the coordinator or
  back. `Owed`: the page waits for the end of a run that did not end yet. So an end that arrives
  is the one that is waited for, whatever files were opened meanwhile.
* `CompilerCacheProofs`: `TypeCorrect`, `NeverFetchedTwice`, `NoStaleBar`. `HolderFetches`: who
  downloads holds the lock, and the cache did not have the compiler when it took it. `BarsInv`: a
  bar that the page shows, or will show once it has handled its messages, has its download
  going on, or one that was stopped or failed behind it.
* `EditorFilesProofs`: `EditorTypesHold`, `FilesOfTheUser`, `PageOfTheUser`,
  `RunsGetWhatWasTyped`, of `SafeSpec`. Three invariants stand on each other.
  `KInv`: unless something was raced, `Saved` holds (the writer has the last text of what it
  is to write, and the directory has the rest) and so does `Tasks`: what every task under way
  relies on (`Sound`, one part per kind), no two of which are about the same file (`Apart`).
  `Shown`: the editor has no wrong text in its memory (`Memory`), also for the copy that a
  rename has made and not announced (`Twin`); the tabs are the files, or a listing that is not
  out of date is on its way (`TabsShown`); the active file is shown, or will be opened
  (`ActiveShown`); what tasks will create the editor does not know (`Clean`), and what a
  listing has read is right (`Listed`). `RunInv`: a file that did not change since
  the click is saved once the run has waited, and is then listed and read (`Found`).

Assumptions are on constants: the marks `None`, `Binary` are not values of what they stand
beside, sets of names are finite, bounds are naturals, the images and the dropped files are of
the types of the directory.

**What the proofs changed.** A failed step of a proof is either a missing conjunct or a run of the
model that the instances were too small for. The ghosts of `EditorFiles` were wrong in five
places, each found so and then reproduced with TLC on a larger instance. A rename that
is about to end opens the active file again, so `raced` must mark a rename of a file whose
opening is so announced, and a rename while the new active file is changing. A listing that was
overtaken may still choose the active tab. Files dropped on a tab whose file is gone are imported
under its old state. An upload may find that the file became binary. And `RunSendsWhatWasTyped`
compared the directory at the click with the directory at the send by value: after a removal and a
rename two files of one text are taken for an unchanged one, which needs three files of the same
text and three clicks; it is stated with `kept` now.
And text that an opening puts back was thought to be the raced user's: it is not, and `past`
came in so that the properties say what remains (`Good` and `Readable` in the invariant:
what an opening of a file has read is its text, or one it had since).

Only model-checked is liveness, which is out of the prover's reach: `EveryWaitEnds` and
`CancelStopsOneThread` of `Process`, `EndReachesThePage` and `StopEndsTheRun` of `ExecSession`, the
leads-to of `ServerIsInitialized` and `FailureIsShown` of `LangServer`, `EveryoneGetsATurn` of
`CompilerCache`, `StoppedOrLimited` of `Backends`, `Settles` of `EditorFiles`, and the
fairness of `ImplementsChannel`.

## Not modelled

Workspaces: a directory is created, chosen and removed as a whole, and `EditorFiles` has one.
Its tasks do not stop when the workspace changes: `remove_workspace` removes the directory
without `wait_sync` (`workspace.rs:153`), so that a pending write creates it again; two creations of
one name at once both find it missing (`workspace.rs:57`, `:97`); `do_run` reads the workspace
that is chosen when its awaits have ended (`main.rs:375`). No doc says what should happen, and a
second directory would double the state of `EditorFiles`.

Views, settings, translations and the widget of CodeMirror render state or store a
preference. The CMS client is a sequence of requests. Of the OPFS wrapper there are the
operations that the editor uses. `test.rs` has no state. What a compiler does with its
command line, and what is in a tarball, are data.

## Plan

Done: `Channel`, `Pipe`, `Process`; `Fs`, `WasiFiles`; `ExecSession`, `LangServer`,
`Backends`; `EditorFiles`; `CompilerCache`; the proofs listed above. Left, in order:

1. Proofs: every safety property of a passing run is a theorem; what is left to prove is what
   the models below would add.
2. An abstract `Execution` that ends once and reports once, which `Backends` and
   `ExecSession` are shown to implement; the registration of late backends.
3. Workspaces: two directories with one editor, and the tasks that outlive a choice.
4. Cookies of `fd_readdir` across changes of the directory; typed input in `Backends`, where
   the other backends panic at a chunk (`js/mod.rs:171`, `remote.rs:141`).
