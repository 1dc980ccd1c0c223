# Forge Node: a TLA+ verification project

Forge Node is a daemon that owns terminals, agent sessions, editors and worktrees,
and a desktop shell and command-line tools that talk to it over a Unix socket.
This directory holds TLA+ models of its core protocols, the TLC configurations
that check them on small instances, and TLAPS proofs of their main invariants for
every instance.

## The system

| Component | State | Operations | Interacts with |
|---|---|---|---|
| terminal runtime and PTY thread (`daemon/src/terminal.rs`, `core.rs`) | VT engine, `pending_damage`, `emit_seq`, size | read, feed, emit, exit | registry (route), core lock |
| client registry (`daemon/src/registry.rs`) | per client: bounded queue, subscriptions, `behind`, `attaching`, `finished` | register, attach, route, recover, finish | everyone who sends to a client |
| socket server (`daemon/src/server.rs`) | one read loop, one writer task and up to `MAX_IN_FLIGHT` handlers per connection | handshake, dispatch, answer, drain, close | registry, core |
| client connection (`client/src/ipc.rs`) | `connected`, pending table, event channel, socket | connect, request, route, disconnect, drop | server |
| client store (`client/src/store.rs`) | cell replicas, mirrored lists | apply event, attach, resync | bridge |
| runtime bridge (`apps/tauri/src-tauri/src/runtime/bridge.rs`) | attached session, window size | select, resize, answer a gap | client, store |
| terminal-core | engine, damage, delta builder | feed, resize, snapshot, delta | terminal runtime |
| core: sessions (`daemon/src/core.rs`, `domain/src/session.rs`) | sessions, terminals, `close_on_exit` | start, stop, close, restart, idle sweep, startup | PTY threads, registry, database |
| task restart (`daemon/src/actions/run.rs`), editor supervisor (`daemon/src/editor.rs`) | a thread each | wait for the exit and relaunch; handshake, serve, fail | sessions |
| prompts (`daemon/src/prompts.rs`), pointers (`orchestration/deliver.rs`) | `pending_prompts`, `prompt_gates`, `PointerSlot` | send, queue, type, submit, drain on idle | terminals, hooks, keys |
| orchestration (`daemon/src/orchestration/mod.rs`, `domain/src/orchestration/policy.rs`) | ledger of a run: tasks, attempts, the resume claim; rows in SQLite | create, start, report, decide, integrate, close, resume, reconcile | sessions, prompts, git, database |
| actions (`daemon/src/actions/run.rs`, `ready.rs`, `ports.rs`) | the action, port and readiness of a row; `task_waiters` | run, queue, requeue, restart, stop, close, probe | sessions, PTY threads |
| editor-core (`document.rs`, `history.rs`, `transaction.rs`, `selection.rs`) | text, carets, undo and redo, states, retained bytes | edit, undo, redo, save, reload | the editor's command-line front end |
| language servers (`daemon/src/lsp.rs`, `lsp-client/src/server.rs`, `restart.rs`) | slots, crash histories, open documents; queue, pending table and process of each server | ensure, adopt, evict, sweep, shut down; notify, ask, abandon, end | definitions, daemon exit |
| worktrees, file watch, shares, migration and the rest | see `PROJECT.json` | | |

What is hard here is concurrency. A request runs on a blocking thread, the PTY
thread and the writer task run beside it, and all meet at two locks (core,
registry) that are released between steps that belong together. Queues are
bounded and lossy on purpose: output is dropped and repaid by a snapshot, domain
events are dropped and repaid by a reconnect, responses may never be dropped.
Clients block without a timeout. Children exit, daemons stop and clients vanish at
any step. `PROJECT.json` lists these hazards at their lines.

What makes each part correct:

* registry and stream: a client that is not told it missed output has all of it;
  one that is told gets a snapshot, also when the child is quiet or gone; output
  never crowds out responses; replicas agree with the engine;
* connection: a response reaches its caller or the caller learns the connection
  ended; the pending table does not leak; events arrive in order without holes;
* sessions: one runtime per session and the row shows it; a child belongs to
  somebody who will reap it; nothing stays Starting for ever; a stop stops; an exit
  is recorded;
* prompts: a prompt is typed once, into the terminal its sender saw, after it was
  recorded; the return that follows it submits it and nothing else; a queued one
  goes when the agent is idle;
* ledger: one worker per task, budgets and order kept, decisions only on reports,
  and a restart that neither forgets nor invents work;
* actions: one instance, one port, readiness of the process that runs, no start
  before the dependencies, no sleep over their end;
* editing: undo and redo bring back what was there, and a clean buffer is on disk;
* language servers: no process is left behind, restart loops end, and an answer is
  not older than its question.

## Modules

| Module | Models | Composes |
|---|---|---|
| `CellGrid` | `DeltaBuilder`, `CellGrid::apply_delta`, `from_snapshot`, `apply_resync` | |
| `TerminalStream` | one terminal and all the clients that watch it: PTY thread, core handlers, registry, server handlers and writer, client reader, event queue, store and bridge | `CellGrid` |
| `Connection` | one connection: handshake, callers, pending table, reader, Drop, read loop, handlers, writer, shutdown | |
| `SessionLifecycle` | sessions, their terminals and children, and the threads that start, stop, close and restart them | |
| `TaskPolicy` | the pure policy of tasks, attempts and runs | |
| `TaskBoard` | what the ledger promises about each task, abstractly | `TaskPolicy` |
| `Orchestration` | one run of the ledger: handlers, rows, sessions, git's sequencer, restarts | `TaskPolicy`; implements `TaskBoard` |
| `PromptDispatch` | what the daemon types into one session: prompts, command lines, pointers, against keys and hooks | |
| `ActionQueue` | the tasks of one workspace, their dependencies, ports and readiness | |
| `EditTimeline` | what undo and redo promise, abstractly | |
| `EditorDocument` | one document: text, carets, history, saved state | implements `EditTimeline` |
| `LanguageServers` | the manager, the servers and the lookups that share them | |
| `MC...` | instances for TLC: values of structured constants, and symmetry sets of threads, clients, callers, and of the ledger's tasks and sessions | each its module |
| `TerminalStreamProofs`, `ConnectionProofs`, `SessionProofs`, `OrchestrationProofs`, `PromptProofs`, `ActionProofs`, `LanguageServerProofs`, `EditorProofs` | theorems | |

### TerminalStream

State, by owner: the runtime under the core lock (`live`, `size`, `screen`,
`damage`, `syncing`, `pending` for `pending_damage`, `seq` for `emit_seq`); the PTY
thread (`pty`, `wake` for `next_wake`); the registry (`registered`, `subs`,
`behind`, `attaching`, `finished`, `out`); the server tasks (`writing`, `req`,
`finishing`, `owing`); the client process (`up`, `evq`, `reply`, `task`, `window`,
`grid`).

Data is abstracted to row contents: a row holds the number of the engine write
that last changed it, so equality of rows is what the properties need. Columns,
cursor, modes and scrollback are left out: the cursor and the modes travel whole
in every delta and columns are bounded as rows are.

Atomicity follows the locks. What the code does under one lock is one action.
Where it reads under one lock and acts under another the pieces are separate:
`PumpSubscribed` / `PumpFeed` (`has_subscribers`, then the core lock),
`AttachCount` / `AttachSnapshot` (`subscriber_count`, then the core lock),
`Respond` / `FinishAttach` / `RecoverOwed` (three calls of the server task).
`RecoverOwed` and `WriterRecover` run `recover_client`, which holds both locks.
The socket write of the writer task and the routing of that frame by the client's
reader are one step (`Deliver`): the socket is a FIFO between two FIFOs.
`touch_activity`, which attach, resize and the pump call, only produces a
`SessionUpdated` event; it is one of the notes that `BroadcastDomain` may send at
any time.

A client runs one terminal request at a time, as the bridge's runtime thread does
(`client.attach_terminal` and the like block). While it is blocked it takes no
event, and its response overtakes the events in its channel.

### Connection

Each access to the atomic flag, each critical section of the pending table and
each socket operation is an action. Callers share the client; the daemon answers
in any order; a timed call may give up at any time; a broadcast, a stop request,
the death of the daemon and Drop may come at any time. `Shared::disconnect` is
three steps (flag, shutdown, clear), run by the reader and by Drop, possibly at
once. `WireCap` is the number of frames the socket takes before a write blocks.

The daemon's read error is folded into `DaemonExit`: `read_loop` returns, its
handlers are aborted, the socket closes. The read loop of the code decodes one
frame before it waits for a free in-flight place; the model leaves that frame in
the socket.

### SessionLifecycle

State: the rows (`state`, `term` for `terminal_id`, `marked` for `close_on_exit`);
the terminals (`owner`, `rt` for where the runtime is, `proc` for the child); the
threads (`pc`, `on`, `held`, `after`); the delayed SIGKILLs (`killers`).

A section under the core lock is one action, and what runs outside it is a step of
its own: `SpawnPty` (spawning), `Install` / `InstallRejected` (the row takes the
runtime or not), `ReapOrphan`, `MarkFailed`; `Stop`, `KillNoTerminal` or
`KillTerminal`, `Signal`, `CloseIfStopped`, `CloseCheck`, `Delete`; `Eof`,
`RecordExit`. `kill_session` is a subroutine: `after` says where it returns to
(`close_if_stopped` for a stop, `restart_once_exited` for a restart, nowhere for a
sweep or a failed editor). A request and the threads it starts are one worker: the
supervisor of an editor follows its spawn, the restart thread its kill, and in the
code nothing but the response lies between.

`proc` tells apart a child that nobody signalled, one that got SIGHUP or SIGTERM
and may ignore it, and a dead one; a child may also close its terminal and live on
(`reap_child` waits a while and goes on). `Boot` is a crash and the next startup:
every thread is gone, `reconcile_orphaned` or `purge_sessions` treats the rows, and
children get the hang-up of their PTY. Preparing a launch may fail
(`RelaunchFails`); writes of the database are taken to succeed. Process group
numbers are not reused in the model, and the check before the delayed SIGKILL and
the signal are one step.

### TaskPolicy, Orchestration and TaskBoard

`TaskPolicy` has the pure functions of `policy.rs` and `LoseAttempts`, what the end
of a session does to its attempt. `Orchestration` is the ledger around them: `run`,
`tasks`, `attempts` in memory and `disk`, the same rows in SQLite; `sess` and `exits`
for the agents' sessions and the exits their terminal threads have still to report;
`h` for what each request thread holds between two critical sections; `fresh`,
`resuming` and `sequencer` for the revisions a closing handler knows, the resume claim
and a stopped merge.

A request that leaves the core lock is two actions or more: `StartAttempt` and
`CommitStart` or `AbandonStart`, `ReportAttempt` and `CommitReport` (git inspects the
worktree in between), `Retry` which goes on as a start, `ResumeRun` and `CommitResume`,
`IntegrateMerge` and `MarkIntegrated`, `CloseRun`, `CloseReads`, `CloseCancels` and
`CommitClose`. `Restart` is a crash and `reconcile_startup`. `stranded` marks tasks
whose start failed at the insert of its attempt: `forget_session` has deleted the
session's row, so the foreign key fails, and the task stays Active in memory with no
attempt (`core.rs` deletes sessions at any time). `revived` collects the sessions whose
attempt a decision or a message handed back after its report; `OneWriter` claims one
writer in the integration checkout among the others. Both are history variables, and
only the exceptions of the properties name them.

`TaskBoard` says what one task may do in a step: be created, become ready once its
dependencies are done, be assigned within its budget, settle, be lost, be decided on,
be integrated or cancelled. `KeepsBoard` is `Board!Spec` under the mapping that
forgets threads, sessions, rows and crashes.

Left out: messages, the board, briefs, receipts and attention; text of any kind; attempts
placed in the workspace of the caller or in one that is named (`Same`, `Workspace`,
`orchestration/mod.rs:2712-2722`); a controller that is the caller's own session
(`SelfSession`, `mod.rs:822`); a
cleanup that removes the worktree, and a run closed together with its cleanup; errors of
SQLite other than a foreign key on a deleted session; a crash between two statements of one section
(`update_task` deletes a task's dependencies and inserts them again without a
transaction, `persistence/src/repositories/orchestration.rs:118-148`).

### PromptDispatch

One session, an agent or a shell, and its terminals one after the other. A request
waits for the gate (`prompt_gates`), then for the terminal's writer; the check, the
audit record, the decision to queue, the paste and the return are steps
(`EnterGate`, `Audit`, `Decide`, `TakeWriter`, `Paste`, `CarriageReturn`). Hooks that
report activity take the writer before the core lock (`Hook`, `ApplyHook`) and deliver
the queued prompt; keys do the same (`Key`, `NoteInput`, `WriteInput`). `SendShell` and
its checks are the command lines; `Message`, `PreparePointer`, `TakePointer`,
`TypeLine`, `TypeReturn` the pointers. The input of the child is the history variable
`box`: what it got since its agent last reported. A hook names the session and nothing
else, so `Hook` may come from the agent of any terminal so far (`from`): one that is late
reports for the terminal that replaced its own. `misled` says that the last report applied
was not made by the newest terminal's own agent in its turn (`InTurn`): it came from an
earlier agent, or without the writer, because its terminal was not installed when it began
or because another report was running. The next report in turn ends it.

Left out: cleaning and framing of text, answers of the terminal engine, the pastes of
`SendContext`, the end of all sessions at a reset.

### ActionQueue

Rows with their action, readiness, port and terminal; terminals with their owner and
probe; workers (requests) and waiters (threads of `spawn_waiter`), each at a place
`pc`, with a stack of dependencies that are being started. `CommitRun`,
`CommitRestart`, `CommitQueued` are the sections that make a row live; `Queue` and
`Requeue` park one; `AwaitDependencies` looks at the verdict and `Recv` waits on its
channel of one place (`wake`). `SetReadiness` is the one place where a probe or an
output watch settles. `SessionLifecycle` has the finer steps of spawns and exits.

Left out: edited or deleted actions, tasks without an action, failure to spawn a
thread, the arithmetic of the deadline (it may pass at any time), errors of the working
directory, the scan of output.

### EditorDocument and EditTimeline

A document as `document.rs` and `history.rs` have it: entries hold the edits that undo
and redo them and no text; `Record` coalesces (`Grown`) or appends and trims
(`Trimmed`); `Landed` maps the carets, `Many` sorts and joins them; `TakeSnapshot`,
`ConfirmSave` and the edits between them are a save. `ReplaceMatches` and several carets
give edits that shift each other. `EditTimeline` keeps whole texts and carets instead;
`Timeline` recomputes them from the entries, so `KeepsTimeline` says that undoing and
redoing from any point reaches exactly the texts that were there, and that undo puts back
the carets of its text. Redo leaves carets where its edits end, which `EditorOK` bounds.

Recursions over edits, carets and entries (`Order`, `Merged`, `Chosen`, `Sums`, `Applied`)
are recursive functions, so that `EditorProofs` can reason about them.

Left out: bytes against characters, line and version bookkeeping, goal columns,
`continue_from`, style, the search that finds the matches.

### LanguageServers

`slot` is the map of the manager, changed in the two sections of `ensure` (`Found`,
`Crash`, `Claim`, `Refuse`; `Adopt` with `Evicted`) around a start off the lock, in
`Sweep` and in `ShutdownAll`. A server has a process, the flags of its client, a
bounded queue `out` and the texts `copy` it has read; `known` is the manager's record
of its open documents. `Sync` holds the documents' lock until its notifications are
queued (`Locked`, `Notify`), `Stall` ends a server whose queue stays full, `Ask`,
`Abandon` and `Serve` are a request, its withdrawal and its answer.

What ends a client (mark exited, fail the pending requests, kill and reap the group) is
one step, and so is a shutdown. Which servers are least recently used, how long a
backoff lasts and which crashes are forgiven are choices. `pending` is a mark in the
queue. Left out: requests and progress notices of the server, framing, documents
deferred until `initialize` (a lookup syncs a ready server only).

## Runs

All runs but `editing` turn the deadlock check off: a terminal whose child has exited
with no client left, a closed connection, sessions that have all been deleted, a closed
run and an exited daemon are ends the system may reach. A document can always be edited
or its carets moved.

| Run | Instance | Checks |
|---|---|---|
| `stream_flow` | one client, one size, queue 3, high water 2, low water 1, event channel 2, synchronized output | `ReplicaConsistent`, `NoDeltaLost`, `OutputLeavesRoom`, `SeqNeverRegresses` |
| `stream_two` | two clients, two sizes, symmetric | `TypeOK`, `IInv` |
| `stream_live` | one client, fairness | `CatchesUp`, `RequestsReturn` |
| `conn_calls` | two callers, two requests, three events, two versions, symmetric | `NoOrphanWaiter`, `NobodyStranded`, `IdsOK`, `NoEventSkipped` |
| `conn_live` | two callers, fairness | `CallsReturn`, `DropReturns` |
| `session_tasks` | one task, two workers, two PTYs, two requests, one crash, fairness | `OneRuntime`, `NoStrayChild`, `KillCompletes`, `ExitSettles` |
| `session_kinds` | a shell and an editor, two workers, two PTYs, two requests, one crash, symmetric | `TypeOK`, `StartingAttended` |
| `ledger` | two tasks, two sessions, two attempts each, both placements, two handlers, three requests, one crash, symmetric | `LedgerOK`, `OneLiveAttempt`, `DecidedOnReport`, `NothingUnsaved`, `KeepsBoard` |
| `prompts` | an agent or a shell, two threads, two prompts, two terminals, two events, fairness | `PromptsOK`, `SubmitsItsOwn`, `QueuedPromptGoes` |
| `actions` | `web` waits for `db`, ports 1 and 2, two workers, one waiter, three rows and PTYs, two requests, fairness | `LaunchesOK`, `ProbeIsOwn`, `StartsOnReady`, `WaitersAreWoken` |
| `editing` | text of at most five characters, two carets, two entries, six bytes, three edits | `EditorOK`, `CleanIsSaved`, `BytesExact`, `KeepsTimeline` |
| `language_servers` | two keys, two files, two texts, a budget of one server, one open document, a queue of one, two starts, three lookups at work, symmetric | `ManagerOK`, `CrashesRemembered`, `KnownIsSynced`, `FreshAnswer` |

What they show: a client that is not told it missed output has all of it, at any
fill of its queue, and shows it (`stream_*`); callers get their answer once or learn
that the connection ended, and the pending table does not leak (`conn_*`); whatever
requests, exits and crashes cross a spawn, a session ends with one runtime or none,
no child is forgotten and no row is left Starting (`session_*`); two starts of a task,
late reports, decisions and restarts keep the ledger on its board (`ledger`); the gate
and the writer order prompts, keys and hooks as they must (`prompts`); the checks under
the lock that follow every launch, and the channel of one place, suffice (`actions`);
inverse edits, coalescing and trimming bring back the right texts (`editing`); and the
two sections of `ensure` leave no server and no key behind (`language_servers`).

`LedgerOK`, `PromptsOK`, `LaunchesOK`, `EditorOK` and `ManagerOK` are conjunctions of
named parts, each with its comment: the types of the module and what its rows, threads
or servers owe each other.

### What the code does not keep

These divergences from a comment or a document are in the models, which follow the
code; the properties above state what holds in spite of them.

| Promise | What happens |
|---|---|
| no delta falls between snapshot and subscription (`registry.rs:144`) | an attach between the pump's subscriber check (`core.rs:6109`) and its lock leaves the screen stale until the next write |
| attaching never resizes a shared terminal (`docs/protocol.md:165`) | two first attaches both count nobody (`core.rs:5897`) |
| a resize that raced the replica asks for a resync (`client/src/store.rs:494`) | after a shrink every row fits and old rows stay (`store.rs:506`) |
| a stop that landed while the PTY was spawning wins (`core.rs:5853`) | the stop reads Starting, the spawn makes it Running, the failure is rejected, nobody is signalled (`core.rs:5081`) |
| any failure kills the process group (`editor.rs:360`) | `fail` clears the `terminal_id` that its own kill needs (`editor.rs:1013`) |
| at most one writing attempt is live in a workspace (`docs/orchestration.md:45`) | reopening a reported attempt in the integration checkout does not ask (`orchestration/mod.rs:1622`) |
| a parked task starts when its dependencies are ready (`docs/actions.md:91`) | restarted while parked, its first waiter takes the second wait for its own (`actions/run.rs:801`); `StartsOnReady` excepts it |
| a dependency that is closed fails its dependent (`docs/actions.md:93-94`) | one deleted while it was active (`core.rs:5249`) wakes nobody, so its dependents stay parked until something else wakes them or their deadline passes; `WaitersAreWoken` excepts it |
| a carriage return requires an idle agent, confirmed by a hook (`docs/protocol.md:147`) | a hook names the session only (`orchestration/mod.rs:617-651`), so a late report of the agent before a restart, or one that began before the install, counts as the new agent's; `SubmitsItsOwn` excepts it |
| at most `max_servers` language servers live at once (`lsp.rs:4-5`) | a lookup starts its server (`lsp.rs:232`) before the one it displaces is evicted and shut down (`lsp.rs:247`); `WithinBudget` counts the entries of the map |
| a stalled language server is declared exited and killed (`lsp-client/src/server.rs:222`) | the notices after `initialize` carry a deadline of their own, a moment before the one of the queue, so a full queue there leaves the server Starting (`server.rs:458`) |

One more is a gap no document speaks of: a message that arrives while the last pointer
is still remembered gets none until the agent reports again (`deliver.rs:28`).

### Bounds

`Capacity`, `HighWater` and `LowWater` keep the order of the real ones (256, 64
and 8, `registry.rs:15-25`, become 3, 2 and 1), so that a queue can be below the low mark, between the
marks, above the high mark and full. `EventCap` stands for 64: two slots let an
event wait, and a third overflow. `MaxClock` bounds engine writes, `MaxNotes` other
events, `MaxCommands` what users do: three or four of each are enough for a client
to fall behind, recover, and fall behind again, and for a re-attach to meet a
handler of the attach before it. `MaxInFlight` 1 or 2 makes the limit bind.
`WireCap` 1 makes writes block. In `SessionLifecycle` two PTYs are a spawn and the
one that overtakes it; two workers and two requests besides the creation let a stop
and a restart cross a spawn or an exit; `MaxBoots` 1 is a crash at any step. The
runs persist history; the theorems cover both settings. None of the guards these bounds add appears in a
property.

Some cases need more than these instances hold, and other runs or the theorems have
them. `stream_flow` has one size, so a replica that meets a smaller geometry is checked by
`IInv` in `stream_two` and proved of `ReplicaConsistent`. `session_kinds` has no task, so
several starts for one row of a task are covered by the theorem of `StartingAttended`.
`actions` has one waiter, so no row gets `crowded` there and `StartsOnReady` is proved with
that exception and checked without. `MaxCursors` does not bind in `editing`; `EditorCorrect`
covers the cap.

`Orchestration`: two tasks make one depend on the other, two sessions and attempts
allow a second attempt after a lost one, and two handlers race their starts; three
requests besides the creation of the run reach a start, a decision and a close across a
crash, and place attempts in worktrees and in the integration checkout. `PromptDispatch`: two threads are a request and a hook or a pointer,
two terminals a restart between them. `ActionQueue`: `web` may take two ports of which
one is `db`'s, three rows leave room for a double start, and one waiter for the thread
that outlives its wait. `EditorDocument`: two entries and six bytes make trimming,
coalescing and both budgets bind within three edits. `LanguageServers`: a budget of one
evicts at each second start, a document and a queue of one close and block at each
second file, two crashes are one too many; a lookup that gets no server is not counted.

### Fairness

`FairSpec` of `TerminalStream`, `Connection` and `SessionLifecycle` assumes weak fairness of threads and tasks the
runtime schedules (the PTY thread after it woke, handlers, writer tasks, the
client's reader and its runtime thread) and nothing else: not that the child
writes or exits, that users act, that timeouts fire or that the daemon lives. Of a
session's threads only a serving supervisor is exempt, since an editor may stay open
for ever; the delayed SIGKILL runs after its sleep; the PTY of a dead child reaches
its end, while one whose child lives need not.
Handlers are assumed to finish; the daemon bounds its external calls by timeouts.
Liveness stays with TLC: the prover has no rule for fairness.

`PromptDispatch` assumes that its threads go on, mutexes included (a gate or writer is
held for writes to a PTY only), that an exit is recorded and a restart installed; not
that hooks report. `ActionQueue` assumes that its threads go on and waiters start; not
that a process gets ready or ends, nor that a deadline passes: `WaitersAreWoken` holds
without the deadline's help. The other three modules have safety properties and
refinements only.

## Proofs

`TerminalStreamProofs` proves every safety property of its runs, in layers: `TypeOK`,
`OutputLeavesRoom`, `ReplicaConsistent`, `SeqNeverRegresses`, `NoDeltaLost`.
`OutputLeavesRoom` says that queues only lose their head, deltas enter below the high
mark and resyncs at or below the low mark; it uses the order of the marks and nothing
else of the constants. `ReplicaConsistent` is proved from `IInv`: it is not inductive,
because a delta in a queue, a snapshot in a response or a kept final grid becomes a
replica later. `IInv` keeps the log of emitted deltas (the history variable
`emitted`, with the delta to come appended) and says of everything in flight that
it agrees with the log: a delta is the one emitted under its number, and a
snapshot or replica numbered n shows, outside the rows of delta n+1, what the
screen of delta n+1 shows (`UpToDate`). Feeding changes the last entry of the log
only by rows that also enter its damage; a resize damages everything; an emission
freezes the entry and opens one with no damage and the same screen; applying delta
n+1 to a replica up to date at n makes it up to date at n+1 (`LogOK`).

`SeqNeverRegresses` is an action property: a replica is never replaced by an older one.
What could break it is a response, which overtakes the events queued before it.
`OrderInv` says that a client has one request outstanding, whose response is in one place
at most, that it applies nothing while it waits, and that no snapshot on its way is older
than what it shows.

`NoDeltaLost` follows from `ChainInv`. The replica and what waits for it form one chain
of numbers (`ChainOK`), which every step extends, consumes from the front or cuts short; what
cuts it short marks the client behind, and only a resync takes the mark away. That the
mark is seen in time rests on `MarksOK`: who lags subscribes, an attaching client is
marked by the delta it missed, the final grid is kept for every client that lags when
the engine ends, and a subscriber without a replica has a snapshot on its way. A client
that found a delta of another geometry attaches again by itself and is excepted while it
does (`Resized`), unless the terminal has one size only.

`ConnectionProofs` proves `NoOrphanWaiter` and `NobodyStranded` from `IInv` of
`Connection`: ids are handed out once (`IdsOK`), every waiter in the table belongs
to a call under way, and a reader past the first step of its cleanup has marked the
connection dead, so a caller that inserts afterwards will see it at its second
check (`CleanupOK`). `IdsOK`, that ids in use differ and no response is handed over
twice, is a part of it and a theorem of its own (`AnsweredOnce`). `NoEventSkipped` has an
invariant of its own (`EventsOK`): while the client reads, the events on the wire, taken
in order, are the ones that come next in the log of those the daemon wrote (`Flowing`,
by a function from the frames on the wire to places in that log); what the consumer
was given is a prefix of the log, and stays one when the reader has stopped (`Prefix`).

`SessionProofs` proves `OneRuntime`, `StartingAttended`, `NoStrayChild` and `TypeOK`
of `SessionLifecycle` from its `IInv`, in layers: `Placed` (every busy thread has a
session; terminal ids are handed out once; a child outside the map has exactly one
worker, which is at it; the thread that records an exit took that runtime) is
inductive with the types alone. `OneRuntime` rests on it: an install of a Starting
row adds the only runtime, because a row that is neither Running nor deleted has
none; a recorded exit is that of the runtime the Running row shows. Only editors may
be Running by way of a supervisor (`EditorsOK`). `StartingAttended` follows a
worker through its places: each way out of them takes the row out of Starting.

`OrchestrationProofs` proves the five properties of the `ledger` run: `LedgerOK`,
`OneLiveAttempt`, `DecidedOnReport`, `NothingUnsaved` and `KeepsBoard`. Its `IInv` relates
the row of a task to the rows of its attempts (`RowOK`): attempts fill their slots in
order up to the number used, all but the newest are over, and the phase of the newest
goes with the status; `Missing` accounts for the one start that SQLite refused. `Saved`
says the same of the disk, which is why `Restart` preserves it: the restart reads the
disk and then loses what had been running. The run's own row has an invariant apart
(`RunKept`): it is on disk unless its controller's session is gone, and nobody sets out to
record a session that was not spawned; both end in `NothingUnsaved`. `Waits` and `Taken` are what handlers
rely on between two sections, and `AtMostOne` says that of the live attempts in the
integration checkout that no decision or message handed back, there is at most one. For the refinement every
action is shown to be one move of `TaskBoard` for the one task it is about, or for all
the tasks a session's end or a restart loses, or a stutter (`ImplementsBoard`).

`PromptProofs` proves `PromptsOK` and `SubmitsItsOwn` of `PromptDispatch`. That a prompt is typed once is not
inductive: what makes it so is where a prompt can be. One that was just sent is with the
thread that sent it and nowhere else (`Fresh`); one in the slot was not typed (`Waiting`);
one that is about to be typed is out of the slot, and its thread is the only one past the
gate of its terminal (`Taken`, `Alone`), so two threads that took the same prompt from the
slot cannot both be there; and a thread is at the terminal its prompt was sent to, with
the envelope inserted once it is past it (`Meant`). `OneMoves` shows that a step of one
thread keeps all of it if it treats its own prompt and the slot as it should; the actions
are then cases of it. `SubmitsItsOwn` adds `Own`: one thread writes to a terminal (`Sole`);
an agent that said it is idle was given nothing since and nobody writes to it
(`Resting`), because the hook that said so held the writer; and so what a thread finds
in the input when it is about to submit is what it put there (`Composing`). All three are
claimed of the newest terminal while it is installed and not `misled`, which is as far as
the writer orders hooks: a report from an earlier agent takes the same writer and proves
nothing of this one (`Heard` tells the two apart).

`ActionProofs` proves `LaunchesOK`, `ProbeIsOwn` and `StartsOnReady` of `ActionQueue`.
First its parts `OneInstance` and `PortsApart`. A row becomes live
in one section only, and that section looks again for a live row of the action and for
the port; what this leaves to prove is that it looks for the right ones. `Named` says
that a call restarting a row names the action that row runs, at every depth of the
calls for dependencies, and `Threaded` and `Waited` that a thread about to launch is in
a call or holds a row. `LaunchSteps` and `ParkSteps` then cover the five sections that
make a row live; every other step only ends rows or settles readiness (`RowsStay`).
`Started` carries the rest, types included. `CallsOK` follows the nested calls for
dependencies: each frame has collected the rows of the dependencies before the one its
callee starts, in their order (`Chained`, `Fitted`), so what a row is parked behind is
one row of each. `WaitOK` says that a waiter waits for that same list unless its row is
`crowded`, and goes on only when all of it was seen up. `RowOK` gives the verdict of a
probe to the terminal that runs: a row that starts has no terminal and no verdict.

`LanguageServerProofs` proves `ManagerOK` and `CrashesRemembered` of `LanguageServers`.
`ManagerOK` needs its part `InPlace`, which says what each thread at each place holds: a
lookup that starts a server owns its key, a server whose client is marked exited is
dead, servers are numbered as they are started, a request that is awaited is queued
once. `NoServerLeft`, `WithinBudget` and `StartingAttended` are preserved on that ground.
`CrashesHeld` is what `CrashesRemembered` adds: the crashes of a key pass from its slot
to the lookup that starts the next server, and from there to the new slot.

It proves `KnownIsSynced` and `FreshAnswer` of the same module from `TextInv`. A text is on its way from the manager's entry to the server's copy in two
places: the notifications the lookup at work still holds, and the queue. `ServerOK` says
that reading the queue and then those notifications makes the server agree with the
entry (`InStep`), for every file, and that one lookup at a time is at work.
`LookupOK` says what a lookup that asked, or is about to, can be answered from: each text
the server may have when it comes to the request was that of the document since the
lookup synced it (`FreshAt`), notifications still in another's hands included. `Reads` is
written as what the last notification of the file in a prefix of the queue says, so that
its lemmas (`ReadsAppend`, `ReadsTail`, `ReadsUntold`) need no recursion; `SyncCases`
covers the cases of `sync` by one description of the list it leaves (`Moved`, `Noted`).

`EditorProofs` proves `EditorOK`, `CleanIsSaved`, `BytesExact` and `KeepsTimeline` of `EditorDocument`. None
is inductive: that undo leaves a text within the limit, with its carets in it, depends
on the texts the history does not keep. `EditorInv` says that there is a text for every
state that was named (`named`), of which the document shows that of its state
(`Document`), the file that of `savedState` and the writer that of its snapshot (`Filed`);
and that every entry leads from the text of the state before it to that of the state
after it and back (`Leads`, `Link`), each starting where the one next to it ends (`Past`,
`Future`). A state that is named keeps its text, so a document that returns to the state
it was saved in returns to the text that was saved. Recording names one more
(`Transacts`); the rest is to show that what each operation records fits the text
(`InsertKeeps`, `DeleteKeeps`, `ReplaceKeeps`, `ReloadKeeps`, `ReloadCleanKeeps`).

Under it are the lemmas about edits. A text of which the first n edits were made is a
head that is done and the rest as it was (`Parted`), which gives `AppliedIs`,
`InverseIs` (the inverse is in order, apart, and fits what the edits made) and `Undone`
(it gives back the text). `GrownIs` says that a run of typing with one key more still
leads from its start to the new text and back, `TrimmedIs` what the history forgets,
`ManyIs` that `Selection::many` sorts, joins and caps carets to a selection. Each is a
fact about a recursive function of a sequence. There is no induction rule to cite, but
less-than on the naturals is well-founded (`WFMin`), so a set of numbers has a least
member: `Inducts` is induction over the members of a set, and `Recurses` and `RecursesIn`
give the function a recursion describes, which `CHOOSE` then is.

`ImplementsTimeline`, the refinement of `EditTimeline`, needs no other invariant. Its
mapping recomputes the texts of the history from the one shown, entry by entry
(`Undoable`, `Redoable`); `SplicedIs` says that replacing the ranges of a text all at once
makes what applying the edits in turn makes, so by `Leads` each recomputed text is the one
its state names (`UndoableIs`, `RedoableIs`), and the mapped past and future become plain
sequences of named texts and carets (`Steps`, `Returns`). On those, an edit that is
recorded appends the text and carets it was made on, or leaves the steps alone when it
joins an entry, whose start it keeps (`EditMaps`); what the budget drops leaves a suffix
(`SuffixIs`). Undo and redo move one step between the sequences (`UndoMaps`, `RedoMaps`),
and the carets come back as they were because clamping, sorting and merging carets that are apart
and in the text changes nothing (`ClampedKept`).

The assumptions are those the modules name: `SizesAssumption`, `WaterMarks`,
`Bounds`, `ConnectionAssumption`, `SessionAssumption`, `ActionAssumption`,
`LookupAssumption`, `DispatchAssumption`, `LedgerAssumption`, `DocumentAssumption` and `LimitAssumption`: sets
are finite where they are counted, limits are naturals, thread names differ, and the water
marks are in order.

Only model-checked is liveness (`CatchesUp`, `RequestsReturn`, `CallsReturn`, `DropReturns`,
`KillCompletes`, `ExitSettles`, `QueuedPromptGoes`, `WaitersAreWoken`): the prover has no
rule for fairness.

## Not modelled

`PROJECT.json` lists every part. The models cover the code whose correctness depends on
order: locks that are released in between, threads, queues, crashes, histories. Most of
the repository's lines are elsewhere, and a model would only restate them:

* parsers, indexers and highlighters (`editor-core/src/syntax.rs`, `syntax-index`,
  `languages`, `agents/src/history`): functions of text;
* front ends (`editor-cli/src/app.rs`, the commands of the bridge, the web front end,
  `forge-ctl`): they draw, or call the client once per command;
* calls of git, the file system and SQLite (`git-service`, `fs-service`,
  `persistence`), which the models of their callers treat as single steps, with the
  failures named above;
* message types, framing, configuration, environment, logging, statistics;
* file linking (`shares`), worktree reconciliation, file watch and home migration: one
  thread and the file system, with no state shared while they run.

Of `core.rs`, the largest file, what remains are queries, settings and formatting of
messages, and the parent tree of sessions; of `orchestration/mod.rs`, messages, briefs and the
board.

## Plan

Done: the modules above, their runs, and proofs of every safety property and action
property the runs check, and of both refinements. Left, in order of worth:

1. The parent tree of sessions (`delete_session_locked`, `rewrite_subtree_root`) as
   an algorithm checked against a reference definition, and the graceful shutdown.
2. Abstract specifications: request and reply, implemented by `Connection`; a session
   as its row's states alone, implemented by `SessionLifecycle`.
