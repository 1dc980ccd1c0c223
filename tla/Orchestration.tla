--------------------------- MODULE Orchestration ---------------------------
(***************************************************************************)
(* The daemon's orchestration ledger (daemon/src/orchestration/mod.rs) for *)
(* one run: its tasks, the attempts that assign a task to an agent's       *)
(* session, the controller's decisions, and the rows SQLite keeps of them. *)
(*                                                                         *)
(* A request runs on a handler thread.  What it does under the core lock   *)
(* is one action; git, worktrees and the spawn of an agent happen between  *)
(* two such actions, and every other thread may run there.  A human caller *)
(* passes allow_controller every time, so that check never disables an     *)
(* action and is left out; text, feedback, reports and branches are data   *)
(* no action looks at.                                                     *)
(*                                                                         *)
(* A critical section writes its rows before the lock is free, and the     *)
(* daemon dies between critical sections only: that it may die between two *)
(* of the statements of one is left out.                                   *)
(***************************************************************************)
EXTENDS TaskPolicy, Sequences

CONSTANTS Tasks,       \* ids of tasks
          Sessions,    \* ids of agent sessions, each spawned at most once
          Handlers,    \* threads that run requests
          None,        \* no session
          Modes,       \* modes tasks are created with
          Places,      \* placements attempts are asked for
          MaxRequests, \* bound: requests that a handler runs, besides CreateRun
          MaxCrashes   \* bound: times the daemon dies

ASSUME LedgerAssumption ==
  /\ None \notin Sessions
  /\ Modes \subseteq {"Write", "ReadOnly"}
  /\ Places \subseteq {"worktree", "integration"}
  /\ MaxRequests \in Nat /\ MaxCrashes \in Nat

Slots == 1 .. MaxAttempts

VARIABLES
  run,       \* the run's row: status and controller_session_id
  tasks,     \* the task rows in memory
  attempts,  \* the attempt rows in memory, in the order they were inserted
  disk,      \* the rows in SQLite
  fresh,     \* pairs of a closing handler and a task whose revision it knows
  resuming,  \* Ledger::resuming holds the run
  sequencer, \* git stopped in a merge in the integration checkout
  sess,      \* each session: not spawned, its process alive, ended, row deleted
  exits,     \* ended sessions whose terminal thread has yet to tell the ledger
  h,         \* what each handler is doing
  stranded,  \* tasks made Active by a start whose attempt could not be inserted
  revived,   \* history: sessions whose attempt was handed back after its report
  asked, crashes  \* bounds

ledger == <<run, tasks, attempts>>
flags  == <<fresh, resuming, sequencer>>
world  == <<sess, exits>>
marks  == <<stranded, revived>>
bounds == <<asked, crashes>>
vars   == <<ledger, disk, flags, world, h, marks, bounds>>

NoTask    == [status |-> "none", used |-> 0, after |-> {}, mode |-> "Write"]
NoAttempt == [n |-> 0, session |-> None, place |-> "none",
              phase |-> "none", outcome |-> "none"]
Idle      == [op |-> "idle"]

RunRow    == [status : {"none", "Active", "Completed", "Cancelled", "Interrupted"},
              controller : Sessions \cup {None}]
TaskRow   == [status : TaskStatus, used : 0 .. MaxAttempts,
              after : SUBSET Tasks, mode : {"Write", "ReadOnly"}]
AttemptRow == [n : 0 .. MaxAttempts, session : Sessions \cup {None},
               place : {"none", "own", "integration"},
               phase : AttemptPhase, outcome : {"none"} \cup ReportOutcome]
HandlerState ==
  {Idle}
    \cup [op : {"resume"}, session : Sessions \cup {None}]
    \cup [op : {"create", "cleanup"}, session : Sessions]
    \cup [op : {"start"}, task : Tasks, place : {"own", "integration"}, session : Sessions]
    \cup [op : {"retry", "integrate"}, task : Tasks]
    \cup [op : {"report"}, task : Tasks, slot : Slots, outcome : ReportOutcome,
          used : 0 .. MaxAttempts]
    \cup [op : {"close"}, cancel : BOOLEAN, todo : SUBSET Tasks, now : SUBSET Tasks]

TypeOK ==
  /\ run \in RunRow
  /\ tasks \in [Tasks -> TaskRow]
  /\ attempts \in [Tasks -> [Slots -> AttemptRow]]
  /\ disk \in [run : RunRow, tasks : [Tasks -> TaskRow],
               attempts : [Tasks -> [Slots -> AttemptRow]]]
  /\ fresh \subseteq Handlers \X Tasks
  /\ resuming \in BOOLEAN /\ sequencer \in BOOLEAN
  /\ sess \in [Sessions -> {"free", "live", "ended", "gone"}]
  /\ exits \subseteq Sessions
  /\ h \in [Handlers -> HandlerState]
  /\ stranded \subseteq Tasks /\ revived \subseteq Sessions
  /\ asked \in 0 .. MaxRequests /\ crashes \in 0 .. MaxCrashes

Init ==
  /\ run = [status |-> "none", controller |-> None]
  /\ tasks = [t \in Tasks |-> NoTask]
  /\ attempts = [t \in Tasks |-> [i \in Slots |-> NoAttempt]]
  /\ disk = [run |-> run, tasks |-> tasks, attempts |-> attempts]
  /\ fresh = {} /\ resuming = FALSE /\ sequencer = FALSE
  /\ sess = [s \in Sessions |-> "free"]
  /\ exits = {}
  /\ h = [x \in Handlers |-> Idle]
  /\ stranded = {}
  /\ revived = {}
  /\ asked = 0 /\ crashes = 0
-----------------------------------------------------------------------------
(* Reading the ledger.                                                     *)

Exists(t) == tasks[t].status # "none"
Status    == [t \in Tasks |-> tasks[t].status]
Rows(t)   == {i \in Slots : attempts[t][i].phase # "none"}
Live(t)   == {i \in Slots : IsLive(attempts[t][i].phase)}

\* max_by_key(n): one at most, as numbers differ.
Newest(t) == {i \in Rows(t) : \A j \in Rows(t) : attempts[t][j].n <= attempts[t][i].n}

Superseded(t, i) == \E j \in Rows(t) : attempts[t][j].n > attempts[t][i].n

LiveAttempts == UNION {{t} \X Live(t) : t \in Tasks}

\* The attempt a, a task and a slot, may write to the integration checkout.
WritesThere(a) ==
  tasks[a[1]].mode = "Write" /\ attempts[a[1]][a[2]].place = "integration"

Writer == \E a \in LiveAttempts : WritesThere(a)
-----------------------------------------------------------------------------
(* Writing the rows.                                                       *)

\* The rows of the tasks ts and of the attempts of the tasks as, written over d.
Save(d, ts, as) ==
  disk' = [d EXCEPT !.tasks = [t \in Tasks |-> IF t \in ts THEN tasks'[t] ELSE @[t]],
                    !.attempts = [t \in Tasks |-> IF t \in as THEN attempts'[t] ELSE @[t]]]

SaveRun == disk' = [disk EXCEPT !.run = run']

\* The revision of every task in ts goes up: nobody knows it any more.
Bump(ts) == fresh' = {p \in fresh : p[2] \notin ts}

Become(x, s) == h' = [h EXCEPT ![x] = s]
Done(x)      == h' = [h EXCEPT ![x] = Idle]
Ask(x)       == h[x] = Idle /\ asked < MaxRequests
Asked        == asked' = asked + 1 /\ UNCHANGED crashes
Spawn(s)     == sess[s] = "free" /\ sess' = [sess EXCEPT ![s] = "live"] /\ UNCHANGED exits
Present(s)   == sess[s] \in {"live", "ended"}
-----------------------------------------------------------------------------
(* Runs.                                                                   *)

\* create_run: an agent controller is spawned before the run's row exists.  A
\* controller that is a session of the caller's (SelfSession) is left out.
CreateRun(x) ==
  /\ h[x] = Idle /\ run.status = "none"
  /\ \A y \in Handlers : h[y].op # "create"
  /\ \/ /\ run' = [status |-> "Active", controller |-> None]
        /\ SaveRun
        /\ UNCHANGED <<world, h>>
     \/ /\ \E s \in Sessions : Spawn(s) /\ Become(x, [op |-> "create", session |-> s])
        /\ UNCHANGED <<run, disk>>
  /\ UNCHANGED <<tasks, attempts, flags, marks, bounds>>

\* The row names the controller's session: the insert fails when that is gone.
CommitRun(x) ==
  /\ h[x].op = "create"
  /\ Done(x)
  /\ \/ ~Present(h[x].session) /\ UNCHANGED <<run, disk>>
     \/ /\ Present(h[x].session)
        /\ run' = [status |-> "Active", controller |-> h[x].session]
        /\ SaveRun
  /\ UNCHANGED <<tasks, attempts, flags, world, marks, bounds>>

ControllerLive == run.controller \in Sessions /\ sess[run.controller] = "live"

\* resume_run: the claim is taken and the new controller spawned ...
ResumeRun(x) ==
  /\ Ask(x) /\ Asked
  /\ \/ run.status = "Interrupted"
     \/ run.status = "Active" /\ ~ControllerLive
  /\ ~resuming
  /\ resuming' = TRUE
  /\ \/ Become(x, [op |-> "resume", session |-> None]) /\ UNCHANGED world
     \/ \E s \in Sessions : Spawn(s) /\ Become(x, [op |-> "resume", session |-> s])
  /\ UNCHANGED <<ledger, disk, fresh, sequencer, marks>>

\* ... and recorded, unless the spawn failed.  The claim goes on every path.
\* A controller that is gone by now is kept in memory and refused by SQLite.
CommitResume(x) ==
  /\ h[x].op = "resume"
  /\ Done(x)
  /\ resuming' = FALSE
  /\ IF h[x].session = None
       THEN UNCHANGED <<run, disk>>
       ELSE /\ run' = [status |-> "Active", controller |-> h[x].session]
            /\ IF Present(h[x].session) THEN SaveRun ELSE UNCHANGED disk
  /\ UNCHANGED <<tasks, attempts, fresh, sequencer, world, marks, bounds>>
-----------------------------------------------------------------------------
(* Tasks and attempts.                                                     *)

\* The id is new, so no dependency can lead back to it.
CreateTask(t, after, mode) ==
  /\ IsOpen(run.status)
  /\ ~Exists(t) /\ AllowNewTask(Cardinality({u \in Tasks : Exists(u)}))
  /\ \A d \in after : Exists(d)
  /\ tasks' = [tasks EXCEPT ![t] =
                 [status |-> IF DependenciesMet(after, Status) THEN "Ready" ELSE "Pending",
                  used |-> 0, after |-> after, mode |-> mode]]
  /\ UNCHANGED <<run, attempts, flags, world, h, marks, bounds>>
  /\ Save(disk, {t}, {})

\* Mutant: the dependencies are not looked at.
MayStartAnyOrder(t, writer) ==
  /\ IsOpen(run.status)
  /\ tasks[t].status \in {"Ready", "Pending"}
  /\ AllowStart(Cardinality(LiveAttempts), tasks[t].used, tasks[t].mode, writer)

\* The checks of start_attempt and of refuse_stale_start.
MayStart(t, writer) ==
  /\ IsOpen(run.status)
  /\ tasks[t].status \in {"Ready", "Pending"}
  /\ DependenciesMet(tasks[t].after, Status)
  /\ AllowStart(Cardinality(LiveAttempts), tasks[t].used, tasks[t].mode, writer)

\* A write task that asks for a worktree gets its own; any other works in the
\* integration checkout.
Materialized(t, place) ==
  IF place = "worktree" /\ tasks[t].mode = "Write" THEN "own" ELSE "integration"

\* start_attempt up to the spawn of the agent.  Both placements are checked
\* against the writer of the integration checkout, where a worktree is not yet.
\* A retry asks for a worktree.  The placements Same and Workspace(id), checkouts
\* that another attempt or the user owns, are left out.
StartAttempt(x, t) ==
  /\ \/ Ask(x) /\ Asked
     \/ h[x] = [op |-> "retry", task |-> t] /\ UNCHANGED bounds
  /\ MayStart(t, Writer)
  /\ \E place \in IF h[x].op = "retry" THEN {"worktree"} ELSE Places, s \in Sessions :
       /\ Spawn(s)
       /\ Become(x, [op |-> "start", task |-> t,
                     place |-> Materialized(t, place), session |-> s])
  /\ UNCHANGED <<ledger, disk, flags, marks>>

\* The start of a retry is refused, or its worktree or its agent fails.
RefuseRetry(x) ==
  /\ h[x].op = "retry"
  /\ Done(x)
  /\ UNCHANGED <<ledger, disk, flags, world, marks, bounds>>

\* Deleting a session's row nulls it in SQLite; the ledger follows, and an
\* attempt that was live is lost.
ForgetSession(s) ==
  LET mine == {t \in Tasks : \E i \in Slots : attempts[t][i].session = s}
      lost == {t \in Tasks : \E i \in Live(t) : attempts[t][i].session = s}
      moved == {t \in lost : tasks[t].status \in {"Active", "Blocked"}}
      Nulled(a) == IF a.session = s THEN [a EXCEPT !.session = None] ELSE a
      Lost(t, i) == attempts[t][i].session = s /\ i \in Live(t)
      NoController(r) == IF r.controller = s THEN [r EXCEPT !.controller = None] ELSE r
  IN  /\ run' = NoController(run)
      /\ tasks' = LoseAttempts(tasks, lost)
      /\ attempts' = [t \in Tasks |-> [i \in Slots |->
            IF Lost(t, i) THEN [Nulled(attempts[t][i]) EXCEPT !.phase = "Lost"]
                          ELSE Nulled(attempts[t][i])]]
      /\ Bump(moved)
      /\ Save([run |-> NoController(disk.run), tasks |-> disk.tasks,
               attempts |-> [t \in Tasks |-> [i \in Slots |-> Nulled(disk.attempts[t][i])]]],
              moved, mine)
      /\ sess' = [sess EXCEPT ![s] = "gone"]
      /\ UNCHANGED <<resuming, sequencer, exits>>

FreeSlot(t) ==
  CHOOSE i \in Slots : i \notin Rows(t) /\ \A j \in Slots : j < i => j \in Rows(t)

\* Mutant: the snapshot taken before the spawn is trusted.
CommitStartUnchecked(x) ==
  LET t == h[x].task
      n == tasks[t].used + 1
  IN  /\ h[x].op = "start" /\ Present(h[x].session)
      /\ n <= MaxAttempts
      /\ tasks' = [tasks EXCEPT ![t].status = "Active", ![t].used = n]
      /\ Bump({t})
      /\ attempts' = [attempts EXCEPT ![t][FreeSlot(t)] =
                        [n |-> n, session |-> h[x].session, place |-> h[x].place,
                         phase |-> "Running", outcome |-> "none"]]
      /\ Save(disk, {t}, {t})
      /\ Done(x)
      /\ UNCHANGED <<run, resuming, sequencer, world, marks, bounds>>

\* The agent runs; the checks are made again on the row under the lock.
CommitStart(x) ==
  LET t == h[x].task
      s == h[x].session
      n == tasks[t].used + 1
  IN  /\ h[x].op = "start"
      /\ MayStart(t, h[x].place = "integration" /\ Writer)
      /\ tasks' = [tasks EXCEPT ![t].status = "Active", ![t].used = n]
      /\ Bump({t})
      /\ IF Present(s)
           THEN /\ attempts' = [attempts EXCEPT ![t][FreeSlot(t)] =
                      [n |-> n, session |-> s, place |-> h[x].place,
                       phase |-> "Running", outcome |-> "none"]]
                /\ Save(disk, {t}, {t})
                /\ UNCHANGED marks
           \* SQLite refuses an attempt of a deleted session: memory keeps the task
           ELSE /\ stranded' = stranded \cup {t}
                /\ UNCHANGED <<attempts, disk, revived>>
      /\ Done(x)
      /\ UNCHANGED <<run, resuming, sequencer, world, bounds>>

\* abandon_uncommitted_start: the session goes, with its worktree if it has one.
AbandonStart(x) ==
  /\ h[x].op = "start"
  /\ ~MayStart(h[x].task, h[x].place = "integration" /\ Writer)
  /\ Done(x)
  /\ IF Present(h[x].session)
       THEN ForgetSession(h[x].session)
       ELSE UNCHANGED <<ledger, disk, flags, world>>
  /\ UNCHANGED <<marks, bounds>>

\* report_attempt, up to git's facts about the checkout.
ReportAttempt(x, t, i, outcome) ==
  /\ Ask(x) /\ Asked
  /\ attempts[t][i].session \in Sessions
  /\ SettleReport(attempts[t][i].phase, attempts[t][i].session,
                  attempts[t][i].session, Superseded(t, i))
  /\ Become(x, [op |-> "report", task |-> t, slot |-> i, outcome |-> outcome,
                used |-> tasks[t].used])
  /\ UNCHANGED <<ledger, disk, flags, world, marks>>

\* Mutant: settled on the check made before git was asked.
CommitReportStale(x) ==
  LET t == h[x].task
      i == h[x].slot
  IN  /\ h[x].op = "report"
      /\ Done(x)
      /\ attempts' = [attempts EXCEPT ![t][i].phase = "Reported",
                                      ![t][i].outcome = h[x].outcome]
      /\ tasks' = [tasks EXCEPT ![t].status = TaskStatusAfterReport(h[x].outcome, h[x].used)]
      /\ Bump({t})
      /\ Save(disk, {t}, {t})
      /\ UNCHANGED <<run, resuming, sequencer, world, marks, bounds>>

\* The report is settled on what the attempt is by then, or refused.
CommitReport(x) ==
  LET t == h[x].task
      i == h[x].slot
      a == attempts[t][i]
  IN  /\ h[x].op = "report"
      /\ Done(x)
      /\ IF a.session \in Sessions /\ SettleReport(a.phase, a.session, a.session, Superseded(t, i))
           THEN /\ attempts' = [attempts EXCEPT ![t][i].phase = "Reported",
                                                ![t][i].outcome = h[x].outcome]
                /\ tasks' = [tasks EXCEPT ![t].status =
                               TaskStatusAfterReport(h[x].outcome, h[x].used)]
                /\ Bump({t})
                /\ Save(disk, {t}, {t})
           ELSE UNCHANGED <<tasks, attempts, fresh, disk>>
      /\ UNCHANGED <<run, resuming, sequencer, world, marks, bounds>>
-----------------------------------------------------------------------------
(* Decisions.  The caller sends the revision it read; check_decision refuses *)
(* any other, so the decisions that apply are those of a caller who knows    *)
(* the task as it is.                                                        *)

\* check_decision of Accept and of Reject.
AwaitsDecision(t) == tasks[t].status \in {"Review", "Blocked"}

\* Mutant: only the accepted task is written.
AcceptSavesOne(t) ==
  /\ AwaitsDecision(t)
  /\ tasks' = PromoteReady([tasks EXCEPT ![t].status = "Accepted"])
  /\ Bump({t})
  /\ UNCHANGED <<run, attempts, resuming, sequencer, world, h, marks, bounds>>
  /\ Save(disk, {t}, {})

\* Accept writes every task of the run: its dependents may have become ready,
\* which does not change their revision.
Accept(t) ==
  /\ AwaitsDecision(t)
  /\ tasks' = PromoteReady([tasks EXCEPT ![t].status = "Accepted"])
  /\ Bump({t})
  /\ UNCHANGED <<run, attempts, resuming, sequencer, world, h, marks, bounds>>
  /\ Save(disk, {u \in Tasks : Exists(u)}, {})

\* Reject without a retry: the worker that reported gets the task back.
Reopen(t) ==
  /\ AwaitsDecision(t)
  /\ \E i \in Newest(t) :
       /\ attempts[t][i].session \in Sessions /\ sess[attempts[t][i].session] = "live"
       /\ tasks' = [tasks EXCEPT ![t].status = "Active"]
       /\ attempts' = [attempts EXCEPT ![t][i].phase = "Running", ![t][i].outcome = "none"]
       /\ revived' = revived \cup {attempts[t][i].session}
  /\ Bump({t})
  /\ Save(disk, {t}, {t})
  /\ UNCHANGED <<run, resuming, sequencer, world, h, stranded, bounds>>

\* Reject with a retry: the same handler goes on to start the next attempt.
Retry(x, t) ==
  /\ Ask(x) /\ Asked /\ AwaitsDecision(t)
  /\ IF tasks[t].used >= MaxAttempts
       THEN /\ tasks' = [tasks EXCEPT ![t].status = "Failed"]
            /\ UNCHANGED <<attempts, h>>
            /\ Save(disk, {t}, {})
       ELSE /\ tasks' = [tasks EXCEPT ![t].status = "Ready"]
            /\ \E i \in Newest(t) : attempts' = [attempts EXCEPT ![t][i].phase = "Rejected"]
            /\ Save(disk, {t}, {t})
            /\ Become(x, [op |-> "retry", task |-> t])
  /\ Bump({t})
  /\ UNCHANGED <<run, resuming, sequencer, world, marks>>

\* Cancel, of a task that is not final.
CancelTask(t) ==
  /\ Exists(t) /\ ~IsFinal(tasks[t].status)
  /\ tasks' = [tasks EXCEPT ![t].status = "Cancelled"]
  /\ attempts' = [attempts EXCEPT ![t] = [i \in Slots |->
                    IF i \in Live(t) THEN [@[i] EXCEPT !.phase = "Lost"] ELSE @[i]]]
  /\ Bump({t})
  /\ Save(disk, {t}, {t})

Cancel(t) ==
  /\ asked < MaxRequests /\ Asked
  /\ CancelTask(t)
  /\ UNCHANGED <<run, resuming, sequencer, world, h, marks>>

\* close_run takes the tasks of the run as they are now ...
CloseRun(x, cancel) ==
  /\ Ask(x) /\ Asked /\ run.status # "none"
  /\ Become(x, [op |-> "close", cancel |-> cancel, now |-> {},
                todo |-> IF cancel THEN {t \in Tasks : Exists(t)} ELSE {}])
  /\ UNCHANGED <<ledger, disk, flags, world, marks>>

\* ... reads the revision of one ...
CloseReads(x, t) ==
  /\ h[x].op = "close" /\ h[x].now = {} /\ t \in h[x].todo
  /\ Become(x, [h[x] EXCEPT !.now = {t}, !.todo = @ \ {t}])
  /\ fresh' = fresh \cup {<<x, t>>}
  /\ UNCHANGED <<ledger, disk, resuming, sequencer, world, marks, bounds>>

\* ... and cancels it; a refusal is ignored ...
CloseCancels(x, t) ==
  /\ h[x].op = "close" /\ h[x].now = {t}
  /\ Become(x, [h[x] EXCEPT !.now = {}])
  /\ \/ <<x, t>> \in fresh /\ CancelTask(t)
     \/ /\ <<x, t>> \notin fresh \/ IsFinal(tasks[t].status)
        /\ fresh' = fresh \ {<<x, t>>}
        /\ UNCHANGED <<tasks, attempts, disk>>
  /\ UNCHANGED <<run, resuming, sequencer, world, marks, bounds>>

\* ... before the run itself is closed, unless its pull request failed.
CommitClose(x) ==
  /\ h[x].op = "close" /\ h[x].now = {} /\ h[x].todo = {}
  /\ Done(x)
  /\ \/ UNCHANGED <<run, disk>>
     \/ /\ run' = [run EXCEPT !.status = IF h[x].cancel THEN "Cancelled" ELSE "Completed"]
        /\ IF run.controller \in Sessions /\ ~Present(run.controller)
             THEN UNCHANGED disk ELSE SaveRun
  /\ UNCHANGED <<tasks, attempts, flags, world, marks, bounds>>

\* A message to a session: an attempt that reported it was blocked runs again.
ResumeBlocked(s) ==
  LET back == {t \in Tasks : /\ tasks[t].status = "Blocked"
                             /\ \E i \in Slots : /\ attempts[t][i].session = s
                                                 /\ attempts[t][i].phase = "Reported"
                                                 /\ attempts[t][i].outcome = "Blocked"}
  IN  /\ Present(s) /\ back # {}
      /\ tasks' = [t \in Tasks |-> IF t \in back THEN [tasks[t] EXCEPT !.status = "Active"]
                                                 ELSE tasks[t]]
      /\ attempts' = [t \in Tasks |-> [i \in Slots |->
            IF t \in back /\ attempts[t][i].session = s
               /\ attempts[t][i].phase = "Reported" /\ attempts[t][i].outcome = "Blocked"
              THEN [attempts[t][i] EXCEPT !.phase = "Running"] ELSE attempts[t][i]]]
      /\ revived' = revived \cup {s}
      /\ Bump(back)
      /\ Save(disk, back, back)
      /\ UNCHANGED <<run, resuming, sequencer, world, h, stranded, bounds>>
-----------------------------------------------------------------------------
(* Integration.  Git works outside the lock.                               *)

\* Merge: an accepted task, merged or stopped in a conflict.
IntegrateMerge(x, t) ==
  /\ Ask(x) /\ tasks[t].status = "Accepted"
  /\ \/ /\ ~sequencer
        /\ Become(x, [op |-> "integrate", task |-> t])
        /\ Asked /\ UNCHANGED sequencer
     \/ sequencer' = TRUE /\ UNCHANGED <<h, bounds>>
  /\ UNCHANGED <<ledger, disk, fresh, resuming, world, marks>>

\* Continue: git finishes what it stopped in.  The status of the task is not
\* looked at.
IntegrateContinue(x, t) ==
  /\ Ask(x) /\ Asked /\ sequencer /\ Exists(t)
  /\ sequencer' = FALSE
  /\ Become(x, [op |-> "integrate", task |-> t])
  /\ UNCHANGED <<ledger, disk, fresh, resuming, world, marks>>

IntegrateAbort ==
  /\ sequencer
  /\ sequencer' = FALSE
  /\ UNCHANGED <<ledger, disk, fresh, resuming, world, h, marks, bounds>>

\* mark_integrated.
MarkIntegrated(x) ==
  /\ h[x].op = "integrate"
  /\ tasks' = PromoteReady([tasks EXCEPT ![h[x].task].status = "Integrated"])
  /\ Bump({h[x].task})
  /\ UNCHANGED <<run, attempts, resuming, sequencer, world, marks, bounds>>
  /\ Save(disk, {u \in Tasks : Exists(u)}, {h[x].task})
  /\ Done(x)
-----------------------------------------------------------------------------
(* Sessions.                                                               *)

\* on_terminal_exited, first lock: the session's state is final ...
SessionEnds(s) ==
  /\ sess[s] = "live"
  /\ sess' = [sess EXCEPT ![s] = "ended"]
  /\ exits' = exits \cup {s}
  /\ UNCHANGED <<ledger, disk, flags, h, marks, bounds>>

\* ... second lock, note_session_exit: its live attempt is lost.
NoteSessionExit(s) ==
  LET lost == {t \in Tasks : \E i \in Live(t) : attempts[t][i].session = s}
  IN  /\ s \in exits
      /\ exits' = exits \ {s}
      /\ tasks' = LoseAttempts(tasks, lost)
      /\ attempts' = [t \in Tasks |-> [i \in Slots |->
            IF i \in Live(t) /\ attempts[t][i].session = s
              THEN [attempts[t][i] EXCEPT !.phase = "Lost"] ELSE attempts[t][i]]]
      /\ Bump({t \in lost : tasks[t].status \in {"Active", "Blocked"}})
      /\ Save(disk, lost, lost)
      /\ UNCHANGED <<run, resuming, sequencer, sess, h, marks, bounds>>

\* The user runs the agent of an ended session again.
RestartSession(s) ==
  /\ sess[s] = "ended"
  /\ asked < MaxRequests /\ Asked
  /\ sess' = [sess EXCEPT ![s] = "live"]
  /\ UNCHANGED <<ledger, disk, flags, exits, h, marks>>

\* The user closes the tab of an ended session.
CloseSession(s) ==
  /\ sess[s] = "ended"
  /\ ForgetSession(s)
  /\ UNCHANGED <<h, marks, bounds>>

\* cleanup_task that keeps the worktree: the session of the newest attempt ...
CleanupTask(x, t) ==
  /\ Ask(x) /\ Asked
  /\ \E i \in Newest(t) :
       /\ attempts[t][i].session \in Sessions
       /\ Become(x, [op |-> "cleanup", session |-> attempts[t][i].session])
  /\ UNCHANGED <<ledger, disk, flags, world, marks>>

\* ... is killed, and its row deleted.
CommitCleanup(x) ==
  /\ h[x].op = "cleanup"
  /\ Done(x)
  /\ IF Present(h[x].session)
       THEN ForgetSession(h[x].session)
       ELSE UNCHANGED <<ledger, disk, flags, world>>
  /\ UNCHANGED <<marks, bounds>>
-----------------------------------------------------------------------------
(* The daemon dies and starts again.                                       *)

\* Mutant: only the attempts are reconciled.
ReconciledAttempts(d) ==
  [run |-> [status |-> IF d.run.status = "Active" THEN "Interrupted" ELSE d.run.status,
            controller |-> None],
   tasks |-> d.tasks,
   attempts |-> [t \in Tasks |-> [i \in Slots |->
      IF IsLive(d.attempts[t][i].phase)
        THEN [d.attempts[t][i] EXCEPT !.session = None, !.phase = "Lost", !.outcome = "none"]
        ELSE [d.attempts[t][i] EXCEPT !.session = None]]]]

\* reconcile_startup, then purge_sessions: every session row goes.
Reconciled(d) ==
  LET lost == {t \in Tasks : \E i \in Slots : IsLive(d.attempts[t][i].phase)}
  IN  [run |-> [status |-> IF d.run.status = "Active" THEN "Interrupted" ELSE d.run.status,
                controller |-> None],
       tasks |-> LoseAttempts(d.tasks, lost),
       attempts |-> [t \in Tasks |-> [i \in Slots |->
          IF IsLive(d.attempts[t][i].phase)
            THEN [d.attempts[t][i] EXCEPT !.session = None, !.phase = "Lost", !.outcome = "none"]
            ELSE [d.attempts[t][i] EXCEPT !.session = None]]]]

Restart ==
  LET r == Reconciled(disk)
  IN  /\ crashes < MaxCrashes
      /\ crashes' = crashes + 1
      /\ run' = r.run /\ tasks' = r.tasks /\ attempts' = r.attempts
      /\ disk' = r
      /\ fresh' = {}
      /\ resuming' = FALSE
      /\ sess' = [s \in Sessions |-> IF sess[s] = "free" THEN "free" ELSE "gone"]
      /\ exits' = {}
      /\ h' = [x \in Handlers |-> Idle]
      /\ stranded' = {t \in stranded : r.tasks[t].used = tasks[t].used}
      /\ revived' = {}
      /\ UNCHANGED <<sequencer, asked>>

Next ==
  \/ \E x \in Handlers :
       \/ CreateRun(x) \/ CommitRun(x) \/ ResumeRun(x) \/ CommitResume(x)
       \/ RefuseRetry(x) \/ CommitStart(x) \/ AbandonStart(x) \/ CommitReport(x)
       \/ CommitClose(x) \/ MarkIntegrated(x) \/ CommitCleanup(x)
       \/ \E cancel \in BOOLEAN : CloseRun(x, cancel)
       \/ \E t \in Tasks :
            \/ StartAttempt(x, t) \/ Retry(x, t) \/ CloseReads(x, t) \/ CloseCancels(x, t)
            \/ IntegrateMerge(x, t) \/ IntegrateContinue(x, t) \/ CleanupTask(x, t)
            \/ \E i \in Slots, outcome \in ReportOutcome : ReportAttempt(x, t, i, outcome)
  \/ \E t \in Tasks :
       \/ \E after \in SUBSET Tasks, mode \in Modes : CreateTask(t, after, mode)
       \/ Accept(t) \/ Reopen(t) \/ Cancel(t)
  \/ \E s \in Sessions :
       \/ SessionEnds(s) \/ NoteSessionExit(s) \/ RestartSession(s)
       \/ CloseSession(s) \/ ResumeBlocked(s)
  \/ IntegrateAbort
  \/ Restart

Spec == Init /\ [][Next]_vars
-----------------------------------------------------------------------------
(* Properties.                                                             *)

\* A task is worked on by at most one attempt, and that is its newest: two
\* handlers that spawn an agent for one task outside the lock do not both commit
\* (start_attempt, refuse_stale_start), and no decision or message wakes an
\* attempt that was superseded (decide_task, resume_blocked).
OneLiveAttempt ==
  \A t \in Tasks : \A i \in Live(t) :
    /\ Live(t) = {i}
    /\ ~Superseded(t, i)

\* A live attempt's task is Active: whatever cancels, settles or loses the task
\* settles its worker in the same critical section.  Only a Continue, which does
\* not look at the task, calls it integrated under a live worker (integrate_task).
LiveIsActive ==
  \A t \in Tasks : Live(t) # {} => tasks[t].status \in {"Active", "Integrated"}

\* "Tasks that were in progress go back to `Ready`": an Active task has a live
\* attempt that can still settle it, after a restart too, unless its attempt
\* could not be inserted (reconcile_restart, note_session_exit, report_attempt).
ActiveHasAttempt ==
  \A t \in Tasks \ stranded : tasks[t].status = "Active" => Live(t) # {}

\* "At most one writing attempt may be live in a workspace": of the writers in the
\* integration checkout only those started there are covered, whatever crosses their
\* spawns.  An attempt that is handed back after its report is not asked for
\* (start_attempt, refuse_stale_start; decide_task, resume_blocked).
OneWriter ==
  LET starters == {a \in LiveAttempts :
        WritesThere(a) /\ attempts[a[1]][a[2]].session \notin revived}
  IN  Cardinality(starters) <= 1

\* The rows agree with each other: types, a worker exactly where a task is worked
\* on, and one writer in the shared checkout.
LedgerOK == TypeOK /\ LiveIsActive /\ ActiveHasAttempt /\ OneWriter

\* What the controller is asked to decide on, and what it accepted, was reported
\* by the task's newest attempt: a report that waits for git while its attempt is
\* lost and another started is refused (report_attempt, settle_report).
DecidedOnReport ==
  \A t \in Tasks : tasks[t].status \in {"Review", "Blocked", "Accepted"} =>
    \E i \in Newest(t) : attempts[t][i].phase = "Reported"

\* The row names a controller whose session was deleted before it was recorded.
ControllerGone == run.controller \in Sessions /\ sess[run.controller] = "gone"

\* Whenever the core lock is free the rows in SQLite, of the run, its tasks and
\* its attempts, are those in memory, so a crash loses nothing that was answered
\* for.  The exceptions are what SQLite refuses for its foreign key: a stranded
\* start, and the row of a run whose new controller is gone already, from the
\* resume that records it on (persist_task, persist_attempt, persist_forgotten,
\* resume_run, close_run).
NothingUnsaved ==
  /\ \A t \in Tasks \ stranded : disk.tasks[t] = tasks[t]
  /\ disk.attempts = attempts
  /\ ControllerGone \/ disk.run = run

\* A start whose attempt could not be inserted is not a start for the board.
Board == INSTANCE TaskBoard WITH
  status <- [t \in Tasks |-> IF t \in stranded /\ tasks[t].status = "Active"
                               THEN "Ready" ELSE tasks[t].status],
  used   <- [t \in Tasks |-> IF t \in stranded THEN tasks[t].used - 1 ELSE tasks[t].used],
  worked <- [t \in Tasks |-> Live(t) # {}],
  after  <- [t \in Tasks |-> tasks[t].after]

\* The ledger, with its threads, its rows, sessions that end or are deleted, and
\* restarts of the daemon, takes every task through the moves of TaskBoard only:
\* it starts in order and within its budget, is decided on once reported, and
\* nobody works on a cancelled or failed task (orchestration/mod.rs as a whole).
KeepsBoard == Board!Spec
=============================================================================
