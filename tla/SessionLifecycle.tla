-------------------------- MODULE SessionLifecycle --------------------------
(***************************************************************************)
(* The life of the daemon's sessions (core.rs, domain session.rs, the      *)
(* restart of tasks in actions/run.rs, the supervisor of editors in        *)
(* editor.rs).  A session is a row with a state; a terminal is a child     *)
(* process in a PTY with a runtime in the core's map and a thread that     *)
(* reads it.                                                               *)
(*                                                                         *)
(* Requests run on workers, exits on the thread of their terminal.  Each   *)
(* section under the core lock is one action; what runs between two        *)
(* sections (spawning the PTY, signalling a group, waiting) is a step of   *)
(* its own, so every other thread may run in between.  A worker stays with *)
(* a request through the threads the request starts (the supervisor of an  *)
(* editor, the thread that waits to restart a task).                       *)
(***************************************************************************)
EXTENDS Naturals, FiniteSets

CONSTANTS Shells,      \* ids of shell and agent sessions
          Tasks,       \* ids of the sessions that run project actions
          Editors,     \* ids of editor sessions
          Workers,     \* threads that run requests
          Requests,    \* kinds of requests that are made
          Persist,     \* sessions.persist_history
          MaxTerms,    \* bound: PTYs that are spawned
          MaxRequests, \* bound: requests besides those that create a session
          MaxBoots     \* bound: times the daemon dies and starts again

Sessions == Shells \cup Tasks \cup Editors
Terms    == 1 .. MaxTerms
Threads  == Workers \cup Terms

ASSUME SessionAssumption ==
  /\ Shells \cap Tasks = {} /\ Shells \cap Editors = {} /\ Tasks \cap Editors = {}
  /\ Workers \cap Nat = {}
  /\ Persist \in BOOLEAN
  /\ MaxTerms \in Nat /\ MaxRequests \in Nat /\ MaxBoots \in Nat
  /\ Requests \subseteq {"stop", "close", "killclose", "restart", "sweep"}

VARIABLES
  \* under the core lock
  state,    \* SessionState of each row; "unborn" before it, "deleted" after it
  term,     \* terminal_id of each row, 0 for none
  marked,   \* close_on_exit
  \* terminals
  owner,    \* session_id of the runtime
  rt,       \* where the runtime is
  proc,     \* the child: a polite signal makes it "asked", not dead
  nextTerm,
  \* threads
  pc, on, held, after,  \* place, session, terminal, where a kill returns to
  killers,  \* delayed SIGKILLs: pairs of a session and a terminal
  \* bounds
  asked, boots

core  == <<state, term, marked>>
ptys  == <<owner, rt, proc, nextTerm>>
work  == <<pc, on, held, after>>
vars  == <<core, ptys, work, killers, asked, boots>>

States == {"unborn", "starting", "running", "exited", "failed", "orphaned", "deleted"}
Places == {"idle", "spawn", "install", "orphan", "failed", "handshake", "opened",
           "serving", "kill", "signal", "closeif", "closecheck", "delete",
           "groups", "grace", "waitexit", "relaunch", "failrestart", "reap"}

TypeOK ==
  /\ state \in [Sessions -> States]
  /\ term \in [Sessions -> Terms \cup {0}]
  /\ marked \subseteq Tasks
  /\ owner \in [Terms -> Sessions \cup {0}]
  \* held by the spawning worker; in the map; taken out by its thread; lost with a daemon
  /\ rt \in [Terms -> {"none", "held", "live", "ending", "done", "lost"}]
  /\ proc \in [Terms -> {"none", "alive", "asked", "dead"}]
  /\ nextTerm \in 1 .. (MaxTerms + 1)
  /\ pc \in [Threads -> Places]
  /\ on \in [Threads -> Sessions \cup {0}]
  /\ held \in [Threads -> Terms \cup {0}]
  /\ after \in [Threads -> {"idle", "kill", "closeif", "waitexit", "failrestart"}]
  /\ killers \subseteq Sessions \X Terms
  /\ asked \in 0 .. MaxRequests
  /\ boots \in 0 .. MaxBoots

Init ==
  /\ state = [s \in Sessions |-> "unborn"]
  /\ term = [s \in Sessions |-> 0]
  /\ marked = {}
  /\ owner = [t \in Terms |-> 0]
  /\ rt = [t \in Terms |-> "none"]
  /\ proc = [t \in Terms |-> "none"]
  /\ nextTerm = 1
  /\ pc = [x \in Threads |-> "idle"]
  /\ on = [x \in Threads |-> 0]
  /\ held = [x \in Threads |-> 0]
  /\ after = [x \in Threads |-> "idle"]
  /\ killers = {}
  /\ asked = 0
  /\ boots = 0

(***************************************************************************)
(* Session states.                                                         *)
(***************************************************************************)

IsTerminal(st) == st \in {"exited", "failed", "orphaned"}

IsActive(st) == st \in {"starting", "running"}

HasRow(s) == state[s] \notin {"unborn", "deleted"}

CanTransition(from, to) ==
  <<from, to>> \in {<<"starting", "running">>, <<"starting", "failed">>,
                    <<"running", "exited">>, <<"running", "orphaned">>,
                    <<"exited", "starting">>, <<"failed", "starting">>,
                    <<"orphaned", "starting">>}

\* set_session_state: an illegal transition is a race, logged and ignored
SetSessionState(s, next, t) ==
  IF CanTransition(state[s], next)
  THEN /\ state' = [state EXCEPT ![s] = next]
       /\ term' = [term EXCEPT ![s] = t]
  ELSE UNCHANGED <<state, term>>

(***************************************************************************)
(* Threads.                                                                *)
(***************************************************************************)

At(x, place) == pc[x] = place

\* A thread that is done keeps neither its session nor its terminal.
Move(x, place, s, t) ==
  /\ pc' = [pc EXCEPT ![x] = place]
  /\ on' = [on EXCEPT ![x] = IF place = "idle" THEN 0 ELSE s]
  /\ held' = [held EXCEPT ![x] = IF place = "idle" THEN 0 ELSE t]

Goto(x, place) == Move(x, place, on[x], held[x])

\* Leave for the place a kill or a failure returns to.
Return(x) ==
  /\ Goto(x, after[x])
  /\ after' = [after EXCEPT ![x] = "idle"]

\* A request of a client, or of a background thread, on an idle worker.
Begin(w, s, place, next) ==
  /\ At(w, "idle")
  /\ Move(w, place, s, 0)
  /\ after' = [after EXCEPT ![w] = next]

Request(kind) ==
  /\ kind \in Requests
  /\ asked < MaxRequests
  /\ asked' = asked + 1

(***************************************************************************)
(* Starting a session.                                                     *)
(***************************************************************************)

\* create_session_with_options, create_editor, run_action: the row, before its PTY
Create(w, s) ==
  /\ state[s] = "unborn"
  /\ state' = [state EXCEPT ![s] = "starting"]
  /\ Begin(w, s, "spawn", "idle")
  /\ UNCHANGED <<term, marked, ptys, killers, asked, boots>>

\* spawn_terminal_watching: the PTY and its child, outside the lock
SpawnPty(w) ==
  /\ At(w, "spawn")
  /\ nextTerm <= MaxTerms
  /\ nextTerm' = nextTerm + 1
  /\ owner' = [owner EXCEPT ![nextTerm] = on[w]]
  /\ rt' = [rt EXCEPT ![nextTerm] = "held"]
  /\ proc' = [proc EXCEPT ![nextTerm] = "alive"]
  /\ Move(w, "install", on[w], nextTerm)
  /\ UNCHANGED <<core, after, killers, asked, boots>>

\* Mutant: the error is returned, the session is not failed.
SpawnFailsQuietly(w) ==
  /\ At(w, "spawn")
  /\ Return(w)
  /\ UNCHANGED <<core, ptys, killers, asked, boots>>

SpawnFails(w) ==
  /\ At(w, "spawn")
  /\ Goto(w, "failed")
  /\ UNCHANGED <<core, ptys, after, killers, asked, boots>>

\* Mutant: a row that exists takes the terminal.
AcceptsAny(s) == HasRow(s)

\* Whether the row takes the terminal: an editor's does in any state.
Accepts(s) == IF s \in Editors THEN HasRow(s) ELSE CanTransition(state[s], "running")

\* the runtime enters the map and the session runs; an editor stays Starting
Install(w) ==
  LET s == on[w] IN
  /\ At(w, "install")
  /\ Accepts(s)
  /\ rt' = [rt EXCEPT ![held[w]] = "live"]
  /\ IF s \in Editors
     THEN /\ term' = [term EXCEPT ![s] = held[w]]
          /\ UNCHANGED state
          /\ Goto(w, "handshake")
     ELSE /\ SetSessionState(s, "running", held[w])
          /\ Goto(w, "idle")
  /\ after' = [after EXCEPT ![w] = "idle"]
  /\ UNCHANGED <<marked, owner, proc, nextTerm, killers, asked, boots>>

\* Mutant: the child of a rejected runtime is forgotten.
InstallRejectedForgets(w) ==
  /\ At(w, "install")
  /\ ~Accepts(on[w])
  /\ Goto(w, "failed")
  /\ UNCHANGED <<core, ptys, after, killers, asked, boots>>

\* the row is gone or left Starting: the runtime leaves the map again
InstallRejected(w) ==
  /\ At(w, "install")
  /\ ~Accepts(on[w])
  /\ Goto(w, "orphan")
  /\ UNCHANGED <<core, ptys, after, killers, asked, boots>>

\* no thread will reap this child: it is killed and reaped here
ReapOrphan(w) ==
  /\ At(w, "orphan")
  /\ proc' = [proc EXCEPT ![held[w]] = "dead"]
  /\ rt' = [rt EXCEPT ![held[w]] = "done"]
  /\ Goto(w, "failed")
  /\ UNCHANGED <<core, owner, nextTerm, after, killers, asked, boots>>

\* mark_session_failed
MarkFailed(w) ==
  /\ At(w, "failed")
  /\ SetSessionState(on[w], "failed", 0)
  /\ Return(w)
  /\ UNCHANGED <<marked, ptys, killers, asked, boots>>

(***************************************************************************)
(* The supervisor of an editor.                                            *)
(***************************************************************************)

\* serve: the control handshake, done with a living editor
Opened(w) ==
  /\ At(w, "handshake")
  /\ proc[held[w]] # "dead"
  /\ Goto(w, "opened")
  /\ UNCHANGED <<core, ptys, after, killers, asked, boots>>

\* fail: at the handshake (deadline, bad answer, no supervisor thread) or later
EditorFails(w) ==
  /\ pc[w] \in {"handshake", "serving"}
  /\ Goto(w, "failed")
  /\ after' = [after EXCEPT ![w] = "kill"]
  /\ UNCHANGED <<core, ptys, killers, asked, boots>>

\* set_editor_running
SetEditorRunning(w) ==
  /\ At(w, "opened")
  /\ SetSessionState(on[w], "running", term[on[w]])
  /\ Goto(w, "serving")
  /\ UNCHANGED <<marked, ptys, after, killers, asked, boots>>

\* the control stream ended
SupervisorEnds(w) ==
  /\ At(w, "serving")
  /\ Goto(w, "idle")
  /\ UNCHANGED <<core, ptys, after, killers, asked, boots>>

(***************************************************************************)
(* Stopping a session.                                                     *)
(***************************************************************************)

\* Mutant: sessions of every kind are marked.
StopMarksAll(w, s) ==
  /\ Request("stop")
  /\ HasRow(s)
  /\ marked' = IF IsActive(state[s]) THEN marked \cup {s} ELSE marked
  /\ Begin(w, s, "kill", "closeif")
  /\ UNCHANGED <<state, term, ptys, killers, boots>>

\* stop_session (KillSession of a client): a live task is marked, then killed
Stop(w, s) ==
  /\ Request("stop")
  /\ HasRow(s)
  /\ marked' = IF s \in Tasks /\ IsActive(state[s]) THEN marked \cup {s} ELSE marked
  /\ Begin(w, s, "kill", "closeif")
  /\ UNCHANGED <<state, term, ptys, killers, boots>>

\* sweep_idle_sessions: a session found idle under the lock is killed after it
Sweep(w, s) ==
  /\ Request("sweep")
  /\ s \notin Editors /\ IsActive(state[s])
  /\ Begin(w, s, "kill", "idle")
  /\ UNCHANGED <<core, ptys, killers, boots>>

\* kill_session finds no row; stop_session then drops its mark
KillUnknown(w) ==
  /\ At(w, "kill")
  /\ ~HasRow(on[w])
  /\ marked' = IF after[w] = "closeif" THEN marked \ {on[w]} ELSE marked
  /\ Goto(w, "idle")
  /\ after' = [after EXCEPT ![w] = "idle"]
  /\ UNCHANGED <<state, term, ptys, killers, asked, boots>>

\* no terminal: a task that is starting is failed, anything else is left alone
KillNoTerminal(w) ==
  LET s == on[w] IN
  /\ At(w, "kill")
  /\ HasRow(s) /\ term[s] = 0
  /\ IF s \in Tasks /\ state[s] = "starting"
     THEN Goto(w, "failed") /\ UNCHANGED after
     ELSE Return(w)
  /\ UNCHANGED <<core, ptys, killers, asked, boots>>

\* a terminal: its group is signalled next, unless its runtime has gone
KillTerminal(w) ==
  LET s == on[w] IN
  /\ At(w, "kill")
  /\ HasRow(s) /\ term[s] # 0
  /\ IF rt[term[s]] = "live"
     THEN Move(w, "signal", s, term[s]) /\ UNCHANGED after
     ELSE Return(w)
  /\ UNCHANGED <<core, ptys, killers, asked, boots>>

\* SIGTERM or SIGHUP: a child may take its time, or ignore it
Polite(t) == [proc EXCEPT ![t] = IF proc[t] = "alive" THEN "asked" ELSE proc[t]]

\* the first signal, and the thread that will send SIGKILL
Signal(w) ==
  /\ At(w, "signal")
  /\ proc' = Polite(held[w])
  /\ killers' = killers \cup {<<on[w], held[w]>>}
  /\ Return(w)
  /\ UNCHANGED <<core, owner, rt, nextTerm, asked, boots>>

\* Mutant: the group is given up as soon as the first signal was sent.
SessionStillOwnsUnasked(s, t) ==
  HasRow(s) /\ term[s] = t /\ rt[t] = "live" /\ proc[t] = "alive"

SessionStillOwns(s, t) == HasRow(s) /\ term[s] = t /\ rt[t] = "live"

\* the grace is over: SIGKILL, if the session still owns the group
DelayedKill(s, t) ==
  /\ <<s, t>> \in killers
  /\ killers' = killers \ {<<s, t>>}
  /\ proc' = IF SessionStillOwns(s, t) THEN [proc EXCEPT ![t] = "dead"] ELSE proc
  /\ UNCHANGED <<core, owner, rt, nextTerm, work, asked, boots>>

(***************************************************************************)
(* Closing a session.                                                      *)
(***************************************************************************)

\* close_if_stopped, by a stop or by the thread of a terminal that ended
CloseIfStopped(x) ==
  LET due == IsTerminal(state[on[x]]) /\ on[x] \in marked IN
  /\ At(x, "closeif")
  /\ marked' = IF due THEN marked \ {on[x]} ELSE marked
  /\ Goto(x, IF due THEN "closecheck" ELSE "idle")
  /\ UNCHANGED <<state, term, ptys, after, killers, asked, boots>>

Close(w, s) ==
  /\ Request("close")
  /\ HasRow(s)
  /\ Begin(w, s, "closecheck", "idle")
  /\ UNCHANGED <<core, ptys, killers, boots>>

\* close_session, first section: an active session is refused
CloseCheck(x) ==
  /\ At(x, "closecheck")
  /\ Goto(x, IF HasRow(on[x]) /\ ~IsActive(state[on[x]]) THEN "delete" ELSE "idle")
  /\ UNCHANGED <<core, ptys, after, killers, asked, boots>>

\* second section: delete_session_locked; the runtime is left to its thread
Delete(x) ==
  LET s == on[x] IN
  /\ At(x, "delete")
  /\ IF HasRow(s)
     THEN /\ state' = [state EXCEPT ![s] = "deleted"]
          /\ term' = [term EXCEPT ![s] = 0]
          /\ marked' = marked \ {s}
     ELSE UNCHANGED core
  /\ Goto(x, "idle")
  /\ UNCHANGED <<ptys, after, killers, asked, boots>>

\* kill_and_close_session: the group to kill, if the session has one
KillClose(w, s) ==
  LET target == IsActive(state[s]) /\ term[s] # 0 /\ rt[term[s]] = "live" IN
  /\ Request("killclose")
  /\ HasRow(s)
  /\ At(w, "idle")
  /\ Move(w, IF target THEN "groups" ELSE "delete", s, IF target THEN term[s] ELSE 0)
  /\ UNCHANGED <<core, ptys, after, killers, boots>>

\* kill_groups_blocking: the first signal
SignalGroup(w) ==
  /\ At(w, "groups")
  /\ proc' = Polite(held[w])
  /\ Goto(w, "grace")
  /\ UNCHANGED <<core, owner, rt, nextTerm, after, killers, asked, boots>>

\* the group ended, or it is killed when the grace is over
GroupEnds(w) ==
  /\ At(w, "grace")
  /\ proc' = [proc EXCEPT ![held[w]] = "dead"]
  /\ Goto(w, "delete")
  /\ UNCHANGED <<core, owner, rt, nextTerm, after, killers, asked, boots>>

(***************************************************************************)
(* Restarting a session.                                                   *)
(***************************************************************************)

\* restart_session of a shell or an agent; an editor is reopened instead
Restart(w, s) ==
  /\ Request("restart")
  /\ s \in Shells /\ IsTerminal(state[s])
  /\ SetSessionState(s, "starting", 0)
  /\ Begin(w, s, "spawn", "idle")
  /\ UNCHANGED <<marked, ptys, killers, boots>>

\* restart_action_session: an ended task is relaunched, a live one killed first
RestartTask(w, s) ==
  /\ Request("restart")
  /\ s \in Tasks /\ HasRow(s)
  /\ IF IsTerminal(state[s])
     THEN Begin(w, s, "relaunch", "idle") /\ UNCHANGED marked
     ELSE Begin(w, s, "kill", "waitexit") /\ marked' = marked \ {s}
  /\ UNCHANGED <<state, term, ptys, killers, boots>>

\* restart_once_exited: the task ended, or its row went
WaitExit(w) ==
  LET s == on[w] IN
  /\ At(w, "waitexit")
  /\ ~IsActive(state[s])
  /\ Goto(w, IF HasRow(s) THEN "relaunch" ELSE "idle")
  /\ after' = [after EXCEPT ![w] = IF HasRow(s) THEN "failrestart" ELSE "idle"]
  /\ UNCHANGED <<core, ptys, killers, asked, boots>>

\* the deadline passed first
WaitExpires(w) ==
  /\ At(w, "waitexit")
  /\ Goto(w, "idle")
  /\ UNCHANGED <<core, ptys, after, killers, asked, boots>>

\* restart_task: Starting again, then the spawn
Relaunch(w) ==
  /\ At(w, "relaunch")
  /\ IsTerminal(state[on[w]])
  /\ SetSessionState(on[w], "starting", 0)
  /\ Goto(w, "spawn")
  /\ UNCHANGED <<marked, ptys, after, killers, asked, boots>>

\* the row has gone or is live, or the launch could not be prepared
RelaunchFails(w) ==
  /\ At(w, "relaunch")
  /\ Return(w)
  /\ UNCHANGED <<core, ptys, killers, asked, boots>>

\* fail_restart: Exited becomes Failed, through Starting
FailRestart(w) ==
  LET s == on[w] IN
  /\ At(w, "failrestart")
  /\ state' = IF state[s] = "exited" THEN [state EXCEPT ![s] = "failed"] ELSE state
  /\ term' = IF state[s] = "exited" THEN [term EXCEPT ![s] = 0] ELSE term
  /\ Goto(w, "idle")
  /\ UNCHANGED <<marked, ptys, after, killers, asked, boots>>

(***************************************************************************)
(* The child and the thread of its terminal.                               *)
(***************************************************************************)

ChildExits(t) ==
  /\ proc[t] \in {"alive", "asked"}
  /\ proc' = [proc EXCEPT ![t] = "dead"]
  /\ UNCHANGED <<core, owner, rt, nextTerm, work, killers, asked, boots>>

\* end of file on the PTY: pty_loop leaves, on_terminal_exited takes the runtime.
\* A child may close its terminal and live on.
Eof(t) ==
  /\ rt[t] = "live"
  /\ rt' = [rt EXCEPT ![t] = "ending"]
  /\ Move(t, "reap", owner[t], 0)
  /\ UNCHANGED <<core, owner, proc, nextTerm, after, killers, asked, boots>>

\* Mutant: nothing is recorded when the child outlives its terminal.
RecordExitDead(t) ==
  /\ At(t, "reap")
  /\ IF proc[t] = "dead"
     THEN /\ rt' = [rt EXCEPT ![t] = "done"]
          /\ SetSessionState(on[t], "exited", 0)
     ELSE UNCHANGED <<rt, state, term>>
  /\ Goto(t, IF CanTransition(state[on[t]], "exited") THEN "closeif" ELSE "idle")
  /\ UNCHANGED <<marked, owner, proc, nextTerm, after, killers, asked, boots>>

\* the child is reaped, then the exit recorded; close_if_stopped only if it was
RecordExit(t) ==
  /\ At(t, "reap")
  /\ rt' = [rt EXCEPT ![t] = "done"]
  /\ SetSessionState(on[t], "exited", 0)
  /\ Goto(t, IF CanTransition(state[on[t]], "exited") THEN "closeif" ELSE "idle")
  /\ UNCHANGED <<marked, owner, proc, nextTerm, after, killers, asked, boots>>

(***************************************************************************)
(* The daemon dies and starts again (load_with_backend): its children lose *)
(* their terminal, its rows are orphaned or dropped.                       *)
(***************************************************************************)

Boot ==
  /\ boots < MaxBoots
  /\ boots' = boots + 1
  /\ state' = [s \in Sessions |->
                 IF ~HasRow(s) THEN state[s]
                 ELSE IF ~Persist THEN "deleted"
                 ELSE IF IsActive(state[s]) THEN "orphaned" ELSE state[s]]
  /\ term' = [s \in Sessions |-> 0]
  /\ marked' = {}
  /\ rt' = [t \in Terms |-> IF rt[t] \in {"none", "done"} THEN rt[t] ELSE "lost"]
  /\ proc' = [t \in Terms |-> IF proc[t] = "alive" THEN "asked" ELSE proc[t]]
  /\ pc' = [x \in Threads |-> "idle"]
  /\ on' = [x \in Threads |-> 0]
  /\ held' = [x \in Threads |-> 0]
  /\ after' = [x \in Threads |-> "idle"]
  /\ killers' = {}
  /\ UNCHANGED <<owner, nextTerm, asked>>

-----------------------------------------------------------------------------

WorkerStep(w) ==
  \/ SpawnPty(w) \/ SpawnFails(w) \/ Install(w) \/ InstallRejected(w)
  \/ ReapOrphan(w) \/ MarkFailed(w)
  \/ Opened(w) \/ EditorFails(w) \/ SetEditorRunning(w) \/ SupervisorEnds(w)
  \/ KillUnknown(w) \/ KillNoTerminal(w) \/ KillTerminal(w) \/ Signal(w)
  \/ SignalGroup(w) \/ GroupEnds(w)
  \/ WaitExit(w) \/ WaitExpires(w) \/ Relaunch(w) \/ RelaunchFails(w) \/ FailRestart(w)

CloseStep(x) == CloseIfStopped(x) \/ CloseCheck(x) \/ Delete(x)

NewRequest(w, s) ==
  \/ Create(w, s) \/ Stop(w, s) \/ Sweep(w, s) \/ Close(w, s) \/ KillClose(w, s)
  \/ Restart(w, s) \/ RestartTask(w, s)

Next ==
  \/ \E w \in Workers : WorkerStep(w)
  \/ \E x \in Threads : CloseStep(x)
  \/ \E w \in Workers, s \in Sessions : NewRequest(w, s)
  \/ \E s \in Sessions, t \in Terms : DelayedKill(s, t)
  \/ \E t \in Terms : ChildExits(t) \/ Eof(t) \/ RecordExit(t)
  \/ Boot

Spec == Init /\ [][Next]_vars

(***************************************************************************)
(* Threads the runtime schedules make progress.  Nothing is assumed of     *)
(* children, clients, the sweep or a crash, nor that an editor is ever     *)
(* closed; a dead child's PTY reaches its end.                             *)
(***************************************************************************)

Fairness ==
  /\ \A w \in Workers : WF_vars(pc[w] # "serving" /\ WorkerStep(w))
  /\ \A x \in Threads : WF_vars(CloseStep(x))
  /\ \A s \in Sessions, t \in Terms : WF_vars(DelayedKill(s, t))
  /\ \A t \in Terms : WF_vars(proc[t] = "dead" /\ Eof(t)) /\ WF_vars(RecordExit(t))

FairSpec == Spec /\ Fairness

-----------------------------------------------------------------------------
(***************************************************************************)
(* Properties.                                                             *)
(***************************************************************************)

\* A runtime in the map, or one whose exit is still to be recorded.
Current(t) == rt[t] \in {"live", "ending"}

\* A shell, agent or task has at most one runtime: the one a Running row shows.
\* Two spawns for one session (a task stopped and restarted while its PTY was
\* being spawned) leave one, and no late exit is recorded on a later run
\* (set_session_state, spawn_terminal_watching, on_terminal_exited).
OneRuntime ==
  \A s \in Sessions \ Editors :
    /\ state[s] = "running" => term[s] # 0 /\ Current(term[s]) /\ owner[term[s]] = s
    /\ \A t \in Terms : Current(t) /\ owner[t] = s =>
         state[s] = "deleted" \/ (state[s] = "running" /\ term[s] = t)

\* Somebody will still start the session, or fail it.
Starting == {"spawn", "install", "orphan", "failed", "handshake", "opened"}
Attended(s) == \E w \in Workers : on[w] = s /\ pc[w] \in Starting

\* No session is left Starting with nobody to start or fail it, whichever of
\* several concurrent starts, stops and restarts gives up first (the error
\* paths of spawn_terminal's callers and mark_session_failed).
StartingAttended == \A s \in Sessions : state[s] = "starting" => Attended(s)

\* A child whose PTY is not in the map belongs to a worker that will install or
\* kill and reap it, and to no other (spawn_terminal_watching, "no `pty_loop`
\* will reap this child").
NoStrayChild ==
  \A t \in Terms : rt[t] = "held" =>
    \E w \in Workers :
      /\ held[w] = t /\ on[w] = owner[t] /\ pc[w] \in {"install", "orphan"}
      /\ \A v \in Workers \ {w} : held[v] # t

(***************************************************************************)
(* The inductive invariant behind the three properties above.              *)
(***************************************************************************)

\* Every busy thread works for a session, and every child belongs to one.
WorkOK ==
  /\ \A x \in Threads : pc[x] # "idle" => on[x] \in Sessions
  /\ \A w \in Workers : pc[w] = "signal" => held[w] \in Terms
  /\ \A t \in Terms : rt[t] # "none" => owner[t] \in Sessions

\* Only editors are supervised.
EditorsOK ==
  \A w \in Workers : pc[w] \in {"handshake", "opened", "serving"} => on[w] \in Editors

\* Terminal ids are handed out once, and a row or a worker knows no other.
IdsOK ==
  /\ \A t \in Terms : t >= nextTerm => rt[t] = "none"
  /\ \A s \in Sessions : term[s] # 0 => rt[term[s]] \notin {"none", "held"}
  /\ \A w \in Workers : held[w] # 0 => rt[held[w]] # "none"

\* A child that is not in the map has one worker, and that worker is at it.
HoldOK ==
  /\ \A w \in Workers : pc[w] \in {"install", "orphan"} =>
       held[w] # 0 /\ rt[held[w]] = "held" /\ owner[held[w]] = on[w]
  /\ \A w \in Workers : held[w] # 0 /\ rt[held[w]] = "held" =>
       pc[w] \in {"install", "orphan"}
  /\ \A v, w \in Workers :
       held[v] # 0 /\ held[v] = held[w] /\ rt[held[v]] = "held" => v = w
  /\ \A t \in Terms : rt[t] = "held" => \E w \in Workers : held[w] = t

\* The thread that records an exit is the one that took the runtime.
ReapOK == \A t \in Terms : pc[t] = "reap" => rt[t] = "ending" /\ on[t] = owner[t]

IInv ==
  /\ TypeOK /\ WorkOK /\ IdsOK /\ HoldOK /\ ReapOK /\ EditorsOK
  /\ OneRuntime /\ StartingAttended

\* The runtime of a shell, agent or task that was asked to stop goes, with the
\* child or by the delayed SIGKILL, unless its row was deleted first
\* (kill_session, session_still_owns_pgid).  An editor that fails after it was
\* asked gives up its terminal_id, and with it the SIGKILL.
KillCompletes ==
  \A s \in Sessions \ Editors, t \in Terms :
    <<s, t>> \in killers ~> rt[t] # "live" \/ state[s] = "deleted"

\* The row of a shell, agent or task whose child died does not stay Running
\* (pty_loop, on_terminal_exited).
ExitSettles ==
  \A s \in Sessions \ Editors :
    (state[s] = "running" /\ proc[term[s]] = "dead") ~> state[s] # "running"
=============================================================================
