----------------------------- MODULE ActionQueue -----------------------------
(***************************************************************************)
(* The tasks of one workspace that run project actions, and the tasks that *)
(* wait for others (actions/run.rs, ready.rs and ports.rs of the daemon).  *)
(*                                                                         *)
(* A request runs an action: the ones it depends on first, in their order, *)
(* each on a row that already runs it or on a new one, and the action      *)
(* itself is then parked, a row without a process, with a thread that      *)
(* waits until the verdict on the dependencies lets it go.  A wait is woken*)
(* by every change of a session's state and every probe that settles, over *)
(* a channel of one place.                                                 *)
(*                                                                         *)
(* Each section under the core lock is one action.  What a launch does     *)
(* between two sections (choosing a port by probing, spawning the PTY) is  *)
(* seen through its result: other threads run in between.  SessionLifecycle*)
(* has the finer steps of the spawn and of the exit.  Reports of agents,   *)
(* and reviews, also ring the channel; a wait that is woken for nothing    *)
(* only looks again, so they are left out.                                 *)
(***************************************************************************)
EXTENDS Naturals, Sequences, FiniteSets

CONSTANTS Actions,     \* the project's actions
          DependsOn,   \* depends_on of each: a sequence, acyclic
          Serves,      \* actions that serve: of kind Dev, or probed
          Probed,      \* actions with a readiness probe
          Single,      \* actions with single_instance
          Base, Span,  \* first port of an action (0: none) and how many it may use
          Requests,    \* kinds of requests that are made
          Workers,     \* threads that run requests
          Waiters,     \* bound: threads that wait for dependencies
          MaxRows,     \* bound: sessions that are created
          MaxTerms,    \* bound: PTYs that are spawned
          MaxRequests, \* bound: requests
          ClaimAttempts \* PORT_CLAIM_ATTEMPTS

Rows    == 1 .. MaxRows
Terms   == 1 .. MaxTerms
Threads == Workers \cup Waiters \cup Terms
Ports   == UNION {Base[a] .. (Base[a] + Span[a]) : a \in Actions}

ASSUME ActionAssumption ==
  /\ Actions # {} /\ DependsOn \in [Actions -> Seq(Actions)]
  /\ Probed \subseteq Serves /\ Serves \subseteq Actions /\ Single \subseteq Actions
  /\ Base \in [Actions -> Nat] /\ Span \in [Actions -> Nat \ {0}]
  /\ Requests \subseteq {"run", "restart", "stop", "close"}
  /\ Workers \cap Waiters = {} /\ (Workers \cup Waiters) \cap Nat = {}
  /\ MaxRows \in Nat /\ MaxTerms \in Nat /\ MaxRequests \in Nat
  /\ ClaimAttempts \in Nat \ {0}

VARIABLES
  \* sessions, under the core lock
  state,   \* SessionState; "closed" is a row that was deleted
  act,     \* the action the row runs
  rdy,     \* ActionReadiness
  port,    \* port of the run, 0 for none
  term,    \* terminal_id, 0 for none
  marked,  \* close_on_exit
  \* terminals
  owner, probing, nextTerm,
  \* threads
  pc, on,  \* place, and the row a thread works on
  stack,   \* calls of run_action and restart_task a worker is in, outermost first
  waits,   \* the row of a waiter and the rows it waits for, in the order of depends_on
  offer,   \* the launch that was prepared
  back,    \* what a worker does once it has killed, and after an error
  wake,    \* threads whose channel holds a message
  \* history
  by,      \* terminal whose probe settled the readiness of a row
  needs,   \* the rows each row was parked behind, last time
  seen,    \* of those, the ones that were up at some moment since then
  crowded, \* rows parked again while a thread still waited for them
  asked

rows    == <<state, act, rdy, port, term, marked>>
ptys    == <<owner, probing, nextTerm>>
work    == <<pc, on, stack, offer, back>>
history == <<by, needs, seen, crowded>>
vars    == <<rows, ptys, work, waits, wake, history, asked>>

States == {"unborn", "starting", "running", "ok", "bad", "failed", "closed", "snatched"}
Readiness == {"none", "waiting", "unprobed", "probing", "ready", "timedout", "inuse"}
Places == {"idle", "run", "restart", "commit", "spawn", "fail", "park", "failrestart",
           "check", "recv", "prepare", "kill", "stopfail", "closeif", "close", "delete"}
Launch == [port : Ports \cup {0}, rdy : Readiness, tries : 0 .. ClaimAttempts]
NoLaunch == [port |-> 0, rdy |-> "none", tries |-> 0]
NoWait == [s |-> 0, deps |-> <<>>]

Init ==
  /\ state = [s \in Rows |-> "unborn"]
  /\ act = [s \in Rows |-> CHOOSE a \in Actions : TRUE]
  /\ rdy = [s \in Rows |-> "none"]
  /\ port = [s \in Rows |-> 0]
  /\ term = [s \in Rows |-> 0]
  /\ marked = {}
  /\ owner = [t \in Terms |-> 0]
  /\ probing = {}
  /\ nextTerm = 1
  /\ pc = [x \in Threads |-> "idle"]
  /\ on = [x \in Threads |-> 0]
  /\ stack = [x \in Workers |-> <<>>]
  /\ waits = [y \in Waiters |-> NoWait]
  /\ offer = [x \in Workers \cup Waiters |-> NoLaunch]
  /\ back = [x \in Workers |-> "idle"]
  /\ wake = {}
  /\ by = [s \in Rows |-> 0]
  /\ needs = [s \in Rows |-> <<>>]
  /\ seen = [s \in Rows |-> {}]
  /\ crowded = {}
  /\ asked = 0

(***************************************************************************)
(* Sessions.                                                               *)
(***************************************************************************)

IsActive(st) == st \in {"starting", "running"}

IsTerminal(st) == st \in {"ok", "bad", "failed"}

HasRow(s) == IsActive(state[s]) \/ IsTerminal(state[s])

Parked(s) == state[s] = "starting" /\ rdy[s] = "waiting"

\* live_session: rows that run an action now, parked ones included
Live(a) == {s \in Rows : IsActive(state[s]) /\ act[s] = a}

AlreadyRuns(a) == a \in Single /\ Live(a) # {}

\* A thread that listens to changes: one that waits for dependencies or for an exit.
Listening ==
  {y \in Waiters : waits[y].s # 0}
    \cup {x \in Workers : back[x] = "bounce" /\ pc[x] \in {"kill", "stopfail", "check", "recv"}}

\* One message is enough: a full channel drops the second.
WakeWaiters == wake' = wake \cup Listening

(***************************************************************************)
(* Ports.  free: the ports that could be bound when they were probed.      *)
(***************************************************************************)

Reserved == {port[s] : s \in {r \in Rows : IsActive(state[r])}} \ {0}

Choose(a, reserved, prior, free) ==
  LET range  == Base[a] .. (Base[a] + Span[a] - 1)
      usable == (range \cap free) \ reserved
  IN CASE Base[a] = 0 -> [port |-> 0, taken |-> FALSE]
       [] Base[a] # 0 /\ prior \in usable -> [port |-> prior, taken |-> FALSE]
       [] Base[a] # 0 /\ prior \notin usable /\ usable # {} ->
            [port |-> CHOOSE p \in usable : \A q \in usable : p <= q, taken |-> FALSE]
       [] OTHER -> [port |-> Base[a], taken |-> TRUE]

\* prepare: the port, and the readiness the run starts with
Prepare(x, a, prior, tries) ==
  \E free \in SUBSET Ports :
    LET choice == Choose(a, Reserved, prior, free)
    IN offer' = [offer EXCEPT ![x] =
         [port |-> choice.port,
          rdy |-> IF choice.taken THEN "inuse"
                  ELSE IF a \in Probed THEN "probing" ELSE "unprobed",
          tries |-> tries]]

\* Somebody took the port while this launch was prepared; a shared one was known to be.
PortClaimed(x) == offer[x].rdy # "inuse" /\ offer[x].port \in Reserved

(***************************************************************************)
(* Dependencies.                                                           *)
(***************************************************************************)

\* Mutant: a server that runs is enough, probed or not.
AnswerRunning(s, serves) ==
  IF state[s] = "ok" \/ (state[s] = "running" /\ serves) THEN "go"
  ELSE IF IsActive(state[s]) THEN "wait" ELSE "never"

\* What the row of a dependency tells its dependents.
Answer(s, serves) ==
  IF \/ state[s] = "ok"
     \/ state[s] = "running" /\ serves /\ rdy[s] \in {"ready", "unprobed", "inuse"}
  THEN "go"
  ELSE IF state[s] = "starting" \/ (state[s] = "running" /\ rdy[s] # "timedout")
       THEN "wait" ELSE "never"

Verdict(a, waitsFor) ==
  LET answers == {Answer(waitsFor[i], DependsOn[a][i] \in Serves) : i \in DOMAIN waitsFor}
  IN IF "never" \in answers THEN "failed"
     ELSE IF "wait" \in answers THEN "waiting" ELSE "ready"

(***************************************************************************)
(* History.  A dependency is up when it serves, or when it is done: the    *)
(* promise dependents rely on, whatever the verdict computes.              *)
(***************************************************************************)

Elements(seq) == {seq[i] : i \in DOMAIN seq}

Up(s) ==
  \/ state[s] = "ok"
  \/ /\ state[s] = "running" /\ act[s] \in Serves
     /\ act[s] \in Probed => rdy[s] \in {"ready", "inuse"}

\* Parking a row forgets what was seen before it.
Note ==
  seen' = [s \in Rows |-> (IF Parked(s)' /\ ~Parked(s) THEN {} ELSE seen[s])
                            \cup {d \in Elements(needs'[s]) : Up(d)'}]

(***************************************************************************)
(* Threads.  run_action and restart_task call themselves for dependencies: *)
(* a frame holds the action, the row that is restarted (0: a new one) and  *)
(* the rows of the dependencies that are started.                          *)
(***************************************************************************)

Frame(a, s) == [a |-> a, s |-> s, got |-> <<>>]

Top(x) == stack[x][Len(stack[x])]

Done(x) ==
  /\ pc' = [pc EXCEPT ![x] = "idle"]
  /\ on' = [on EXCEPT ![x] = 0]
  /\ stack' = IF x \in Workers THEN [stack EXCEPT ![x] = <<>>] ELSE stack
  /\ offer' = IF x \in Terms THEN offer ELSE [offer EXCEPT ![x] = NoLaunch]
  /\ back' = IF x \in Workers THEN [back EXCEPT ![x] = "idle"] ELSE back

Goto(x, place) ==
  /\ pc' = [pc EXCEPT ![x] = place]
  /\ UNCHANGED <<on, stack, offer, back>>

\* The call answers with the row of its action: the caller goes on with it.
Return(x, s) ==
  IF Len(stack[x]) <= 1 THEN Done(x)
  ELSE LET rest   == SubSeq(stack[x], 1, Len(stack[x]) - 1)
           caller == [rest[Len(rest)] EXCEPT !.got = Append(@, s)]
           callers == [rest EXCEPT ![Len(rest)] = caller]
           todo   == Len(caller.got) < Len(DependsOn[caller.a])
       IN /\ stack' = [stack EXCEPT ![x] =
               IF todo THEN Append(callers, Frame(DependsOn[caller.a][Len(caller.got) + 1], 0))
               ELSE callers]
          /\ pc' = [pc EXCEPT ![x] = IF todo THEN "run" ELSE "park"]
          /\ offer' = [offer EXCEPT ![x] = NoLaunch]
          /\ on' = [on EXCEPT ![x] = 0]
          /\ UNCHANGED back

\* The thread of a wait ends.
Leave(y) == Done(y) /\ waits' = [waits EXCEPT ![y] = NoWait]

\* An error ends every call; the dependencies that were started stay.
Raise(x) ==
  IF x \in Workers /\ back[x] = "bounce"
  THEN /\ pc' = [pc EXCEPT ![x] = "failrestart"]
       /\ on' = [on EXCEPT ![x] = stack[x][1].s]
       /\ offer' = [offer EXCEPT ![x] = NoLaunch]
       /\ UNCHANGED <<stack, back>>
  ELSE Done(x)

\* Requests of clients.
Request(x, kind) ==
  /\ kind \in Requests
  /\ asked < MaxRequests
  /\ pc[x] = "idle"
  /\ asked' = asked + 1

(***************************************************************************)
(* Running an action.                                                      *)
(***************************************************************************)

AskRun(x, a) ==
  /\ Request(x, "run")
  /\ pc' = [pc EXCEPT ![x] = "run"]
  /\ stack' = [stack EXCEPT ![x] = <<Frame(a, 0)>>]
  /\ UNCHANGED <<rows, ptys, on, offer, back, waits, wake, history>>

\* Start the first dependency, or prepare a launch.
Begin(x, a, prior) ==
  \/ /\ DependsOn[a] # <<>>
     /\ stack' = [stack EXCEPT ![x] = Append(@, Frame(DependsOn[a][1], 0))]
     /\ pc' = [pc EXCEPT ![x] = "run"]
     /\ UNCHANGED <<on, offer, back>>
  \/ /\ DependsOn[a] = <<>>
     /\ Prepare(x, a, prior, 1)
     /\ pc' = [pc EXCEPT ![x] = "commit"]
     /\ UNCHANGED <<on, stack, back>>

RunAction(x) ==
  /\ pc[x] = "run"
  /\ IF AlreadyRuns(Top(x).a)
     THEN \E s \in Live(Top(x).a) : Return(x, s)
     ELSE Begin(x, Top(x).a, 0)
  /\ UNCHANGED <<rows, ptys, waits, wake, history, asked>>

\* restart_task: only a row that has ended, with the port it had
RestartTask(x) ==
  /\ pc[x] = "restart"
  /\ LET s == Top(x).s
     IN IF IsTerminal(state[s]) THEN Begin(x, act[s], port[s]) ELSE Raise(x)
  /\ UNCHANGED <<rows, ptys, waits, wake, history, asked>>

\* commit_launch: the port was claimed meanwhile, so prepare again, a few times
Reprepare(x) ==
  /\ pc[x] = "commit"
  /\ PortClaimed(x)
  /\ IF offer[x].tries >= ClaimAttempts
     THEN IF x \in Workers THEN Raise(x) ELSE Goto(x, "fail")
     ELSE /\ Prepare(x, IF x \in Workers THEN Top(x).a ELSE act[on[x]], 0, offer[x].tries + 1)
          /\ UNCHANGED <<pc, on, stack, back>>
  /\ UNCHANGED <<rows, ptys, waits, wake, history, asked>>

\* Take row s as the one that launches: it is Starting, with what was prepared.
Launching(x, s) ==
  /\ state' = [state EXCEPT ![s] = "starting"]
  /\ rdy' = [rdy EXCEPT ![s] = offer[x].rdy]
  /\ port' = [port EXCEPT ![s] = offer[x].port]
  /\ needs' = [needs EXCEPT ![s] = IF x \in Workers THEN <<>> ELSE @]
  /\ pc' = [pc EXCEPT ![x] = "spawn"]
  /\ on' = [on EXCEPT ![x] = s]
  /\ UNCHANGED <<marked, ptys, stack, offer, back, waits, by, crowded, asked>>
  /\ Note

\* Mutant: the port is not checked again under the lock.
CommitRunBlind(x) ==
  /\ pc[x] = "commit" /\ x \in Workers /\ Top(x).s = 0
  /\ \E s \in Rows :
       /\ state[s] = "unborn" /\ \A r \in 1 .. (s - 1) : state[r] # "unborn"
       /\ act' = [act EXCEPT ![s] = Top(x).a]
       /\ Launching(x, s)
       /\ UNCHANGED <<term, wake>>

\* The check that counts: the one of run_action only spared the probe of the port.
CommitRun(x) ==
  /\ pc[x] = "commit" /\ x \in Workers /\ Top(x).s = 0
  /\ ~PortClaimed(x)
  /\ IF AlreadyRuns(Top(x).a)
     THEN /\ \E s \in Live(Top(x).a) : Return(x, s)
          /\ UNCHANGED <<rows, ptys, waits, wake, history, asked>>
     ELSE \E s \in Rows :
            /\ state[s] = "unborn" /\ \A r \in 1 .. (s - 1) : state[r] # "unborn"
            /\ act' = [act EXCEPT ![s] = Top(x).a]
            /\ Launching(x, s)
            /\ UNCHANGED <<term, wake>>

CommitRestart(x) ==
  /\ pc[x] = "commit" /\ x \in Workers /\ Top(x).s # 0
  /\ ~PortClaimed(x)
  /\ LET s == Top(x).s
     IN IF AlreadyRuns(Top(x).a) \/ ~IsTerminal(state[s])
        THEN Raise(x) /\ UNCHANGED <<rows, ptys, waits, wake, history, asked>>
        ELSE /\ UNCHANGED act
             /\ Launching(x, s)
             /\ term' = [term EXCEPT ![s] = 0]
             /\ WakeWaiters

\* launch_queued: the row must still be Starting
CommitQueued(x) ==
  /\ pc[x] = "commit" /\ x \in Waiters
  /\ ~PortClaimed(x)
  /\ IF state[on[x]] = "starting"
     THEN UNCHANGED <<act, term, wake>> /\ Launching(x, on[x])
     ELSE Leave(x) /\ wake' = wake \ {x} /\ UNCHANGED <<rows, ptys, history, asked>>

\* Spawn the PTY and install it: the task runs, unless it left Starting meanwhile.
Spawn(x) ==
  /\ pc[x] = "spawn"
  /\ nextTerm <= MaxTerms
  /\ LET s == on[x]
     IN /\ state[s] = "starting"
        /\ state' = [state EXCEPT ![s] = "running"]
        /\ term' = [term EXCEPT ![s] = nextTerm]
        /\ owner' = [owner EXCEPT ![nextTerm] = s]
        /\ probing' = IF offer[x].rdy = "probing" THEN probing \cup {<<nextTerm, s>>} ELSE probing
        /\ nextTerm' = nextTerm + 1
        /\ IF x \in Workers THEN Return(x, s) /\ UNCHANGED waits ELSE Leave(x)
        /\ wake' = (wake \cup Listening) \ (IF x \in Waiters THEN {x} ELSE {})
  /\ UNCHANGED <<act, rdy, port, marked, by, needs, crowded, asked>>
  /\ Note

\* The spawn fails, or the process is killed again because the row left Starting.
SpawnFails(x) ==
  /\ pc[x] = "spawn"
  /\ Goto(x, "fail")
  /\ UNCHANGED <<rows, ptys, waits, wake, history, asked>>

\* set_session_state to Failed, legal from Starting only
SetFailed(s) ==
  IF state[s] = "starting"
  THEN /\ state' = [state EXCEPT ![s] = "failed"]
       /\ term' = [term EXCEPT ![s] = 0]
       /\ UNCHANGED <<act, rdy, port, marked>>
  ELSE UNCHANGED rows

\* mark_session_failed, and the error it comes from
Fail(x) ==
  /\ pc[x] = "fail"
  /\ SetFailed(on[x])
  /\ wake' = (IF state[on[x]] = "starting" THEN wake \cup Listening ELSE wake)
               \ (IF x \in Waiters THEN {x} ELSE {})
  /\ IF x \in Workers THEN Raise(x) /\ UNCHANGED waits ELSE Leave(x)
  /\ UNCHANGED <<ptys, by, needs, crowded, asked>>
  /\ Note

(***************************************************************************)
(* Waiting for dependencies.                                               *)
(***************************************************************************)

\* Park row s behind the dependencies of the call, with a thread of its own.
ParkRow(x, s) ==
  /\ state' = [state EXCEPT ![s] = "starting"]
  /\ act' = [act EXCEPT ![s] = Top(x).a]
  /\ rdy' = [rdy EXCEPT ![s] = "waiting"]
  /\ port' = [port EXCEPT ![s] = 0]
  /\ term' = [term EXCEPT ![s] = 0]
  /\ needs' = [needs EXCEPT ![s] = Top(x).got]
  /\ crowded' = IF \E y \in Waiters : waits[y].s = s
                THEN crowded \cup {s} ELSE crowded
  /\ Note
  /\ \E y \in Waiters :
       waits[y] = NoWait /\ waits' = [waits EXCEPT ![y] = [s |-> s, deps |-> Top(x).got]]
  /\ Return(x, s)
  /\ UNCHANGED <<marked, ptys, by, asked>>

\* queue_action, once the dependencies are started
Queue(x) ==
  /\ pc[x] = "park" /\ Top(x).s = 0
  /\ IF AlreadyRuns(Top(x).a)
     THEN /\ \E s \in Live(Top(x).a) : Return(x, s)
          /\ UNCHANGED <<rows, ptys, waits, wake, history, asked>>
     ELSE \E s \in Rows :
            /\ state[s] = "unborn" /\ \A r \in 1 .. (s - 1) : state[r] # "unborn"
            /\ ParkRow(x, s)
            /\ UNCHANGED wake

\* requeue_task: the ended row is parked again
Requeue(x) ==
  /\ pc[x] = "park" /\ Top(x).s # 0
  /\ LET s == Top(x).s
     IN IF AlreadyRuns(Top(x).a) \/ ~IsTerminal(state[s])
        THEN Raise(x) /\ UNCHANGED <<rows, ptys, waits, wake, history, asked>>
        ELSE ParkRow(x, s) /\ WakeWaiters

\* The thread of a wait runs for the first time.
StartWaiter(y) ==
  /\ pc[y] = "idle" /\ waits[y].s # 0
  /\ pc' = [pc EXCEPT ![y] = "check"]
  /\ on' = [on EXCEPT ![y] = waits[y].s]
  /\ UNCHANGED <<rows, ptys, stack, offer, back, waits, wake, history, asked>>

\* await_dependencies: one look under the lock
AwaitDependencies(y) ==
  /\ pc[y] = "check" /\ y \in Waiters
  /\ IF Parked(on[y])
     THEN /\ Goto(y, CASE Verdict(act[on[y]], waits[y].deps) = "ready" -> "prepare"
                       [] Verdict(act[on[y]], waits[y].deps) = "failed" -> "fail"
                       [] OTHER -> "recv")
          /\ UNCHANGED <<waits, wake>>
     ELSE Leave(y) /\ wake' = wake \ {y}
  /\ UNCHANGED <<rows, ptys, history, asked>>

\* The channel holds a message: look again.
Recv(x) ==
  /\ pc[x] = "recv" /\ x \in wake
  /\ wake' = wake \ {x}
  /\ Goto(x, "check")
  /\ UNCHANGED <<rows, ptys, waits, history, asked>>

\* The deadline of a wait passes.
Deadline(x) ==
  /\ pc[x] = "recv" /\ x \notin wake
  /\ IF x \in Waiters THEN Goto(x, "fail") ELSE Done(x)
  /\ UNCHANGED <<rows, ptys, waits, wake, history, asked>>

\* launch_queued: prepare the launch of a row that was let go
PrepareQueued(y) ==
  /\ pc[y] = "prepare"
  /\ Prepare(y, act[on[y]], 0, 1)
  /\ pc' = [pc EXCEPT ![y] = "commit"]
  /\ UNCHANGED <<rows, ptys, on, stack, back, waits, wake, history, asked>>

(***************************************************************************)
(* Restart, stop and close.                                                *)
(***************************************************************************)

\* restart_action_session: a row that has ended at once, a live one once it has exited
AskRestart(x, s) ==
  /\ Request(x, "restart")
  /\ HasRow(s)
  /\ LET ended == IsTerminal(state[s])
     IN /\ pc' = [pc EXCEPT ![x] = IF ended THEN "restart" ELSE "kill"]
        /\ back' = [back EXCEPT ![x] = IF ended THEN "idle" ELSE "bounce"]
        /\ marked' = IF ended THEN marked ELSE marked \ {s}
  /\ on' = [on EXCEPT ![x] = s]
  /\ stack' = [stack EXCEPT ![x] = <<Frame(act[s], s)>>]
  /\ UNCHANGED <<state, act, rdy, port, term, ptys, offer, waits, wake, history>>

\* stop_session
AskStop(x, s) ==
  /\ Request(x, "stop")
  /\ HasRow(s)
  /\ marked' = IF IsActive(state[s]) THEN marked \cup {s} ELSE marked
  /\ pc' = [pc EXCEPT ![x] = "kill"]
  /\ on' = [on EXCEPT ![x] = s]
  /\ UNCHANGED <<state, act, rdy, port, term, ptys, stack, offer, back, waits, wake, history>>

AskClose(x, s) ==
  /\ Request(x, "close")
  /\ HasRow(s)
  /\ pc' = [pc EXCEPT ![x] = "close"]
  /\ on' = [on EXCEPT ![x] = s]
  /\ UNCHANGED <<rows, ptys, stack, offer, back, waits, wake, history>>

AfterKill(x) == IF back[x] = "bounce" THEN "check" ELSE "closeif"

\* kill_session: a task without a process is failed, one with a process is signalled
Kill(x) ==
  /\ pc[x] = "kill"
  /\ LET s == on[x]
     IN IF ~HasRow(s)
        THEN /\ marked' = marked \ {s}
             /\ Done(x) /\ wake' = wake \ {x}
        ELSE /\ Goto(x, IF term[s] = 0 /\ state[s] = "starting" THEN "stopfail" ELSE AfterKill(x))
             /\ UNCHANGED <<marked, wake>>
  /\ UNCHANGED <<state, act, rdy, port, term, ptys, waits, history, asked>>

StopBeforeStart(x) ==
  /\ pc[x] = "stopfail"
  /\ SetFailed(on[x])
  /\ wake' = IF state[on[x]] = "starting" THEN wake \cup Listening ELSE wake
  /\ Goto(x, AfterKill(x))
  /\ UNCHANGED <<ptys, waits, by, needs, crowded, asked>>
  /\ Note

\* restart_once_exited: one look under the lock
RestartOnceExited(x) ==
  /\ pc[x] = "check" /\ x \in Workers
  /\ LET s == on[x]
     IN CASE ~HasRow(s) -> Done(x) /\ wake' = wake \ {x}
          [] IsTerminal(state[s]) -> Goto(x, "restart") /\ wake' = wake \ {x}
          [] OTHER -> Goto(x, "recv") /\ UNCHANGED wake
  /\ UNCHANGED <<rows, ptys, waits, history, asked>>

\* fail_restart: an exited row passes through Starting to Failed
FailRestart(x) ==
  /\ pc[x] = "failrestart"
  /\ LET s == on[x]
     IN IF state[s] \in {"ok", "bad"}
        THEN state' = [state EXCEPT ![s] = "failed"] /\ WakeWaiters
        ELSE UNCHANGED <<state, wake>>
  /\ Done(x)
  /\ UNCHANGED <<act, rdy, port, term, marked, ptys, waits, by, needs, crowded, asked>>
  /\ Note

\* close_if_stopped
CloseIfStopped(x) ==
  /\ pc[x] = "closeif"
  /\ IF on[x] \in marked /\ IsTerminal(state[on[x]])
     THEN /\ marked' = marked \ {on[x]}
          /\ Goto(x, "close")
     ELSE UNCHANGED marked /\ Done(x)
  /\ UNCHANGED <<state, act, rdy, port, term, ptys, waits, wake, history, asked>>

\* close_session: the state is checked in one section, the row deleted in another
CloseSession(x) ==
  /\ pc[x] = "close"
  /\ IF IsTerminal(state[on[x]]) THEN Goto(x, "delete") ELSE Done(x)
  /\ UNCHANGED <<rows, ptys, waits, wake, history, asked>>

\* Nobody is woken.  A row that had started again meanwhile goes too.
DeleteSession(x) ==
  /\ pc[x] = "delete"
  /\ LET s == on[x]
     IN /\ state' = [state EXCEPT ![s] = IF IsActive(@) THEN "snatched"
                                         ELSE IF IsTerminal(@) THEN "closed" ELSE @]
        /\ marked' = marked \ {s}
  /\ Done(x)
  /\ UNCHANGED <<act, rdy, port, term, ptys, waits, wake, by, needs, crowded, asked>>
  /\ Note

(***************************************************************************)
(* Terminals.                                                              *)
(***************************************************************************)

\* on_terminal_exited: the process has ended, with 0 or not
Exited(t, outcome) ==
  /\ t < nextTerm /\ pc[t] = "idle" /\ on[t] = 0
  /\ owner[t] # 0
  /\ LET s == owner[t]
     IN IF state[s] = "running"
        THEN /\ state' = [state EXCEPT ![s] = outcome]
             /\ term' = [term EXCEPT ![s] = 0]
             /\ WakeWaiters
             /\ pc' = [pc EXCEPT ![t] = "closeif"]
             /\ on' = [on EXCEPT ![t] = s]
        ELSE UNCHANGED <<state, term, wake, pc, on>>
  /\ owner' = [owner EXCEPT ![t] = 0]
  /\ UNCHANGED <<act, rdy, port, marked, probing, nextTerm, stack, offer, back, waits,
                 by, needs, crowded, asked>>
  /\ Note

\* Mutant: a probe that outlived a restart settles the next run.
SetReadinessAnyTerm(s, t, result) ==
  IF IsActive(state[s]) /\ rdy[s] = "probing"
  THEN /\ rdy' = [rdy EXCEPT ![s] = result]
       /\ by' = [by EXCEPT ![s] = t]
       /\ WakeWaiters
  ELSE UNCHANGED <<rdy, by, wake>>

\* Mutant: a probe that settles tells nobody.
SetReadinessQuiet(s, t, result) ==
  IF IsActive(state[s]) /\ term[s] = t /\ rdy[s] = "probing"
  THEN /\ rdy' = [rdy EXCEPT ![s] = result]
       /\ by' = [by EXCEPT ![s] = t]
       /\ UNCHANGED wake
  ELSE UNCHANGED <<rdy, by, wake>>

\* set_readiness: the probe of terminal t of row s settles, if it is still its probe
SetReadiness(s, t, result) ==
  IF IsActive(state[s]) /\ term[s] = t /\ rdy[s] = "probing"
  THEN /\ rdy' = [rdy EXCEPT ![s] = result]
       /\ by' = [by EXCEPT ![s] = t]
       /\ WakeWaiters
  ELSE UNCHANGED <<rdy, by, wake>>

\* The port answers, the output matches, or the deadline of the probe passes.
Probe(t, s, result) ==
  /\ <<t, s>> \in probing
  /\ SetReadiness(s, t, result)
  /\ probing' = probing \ {<<t, s>>}
  /\ UNCHANGED <<state, act, port, term, marked, owner, nextTerm, work, waits,
                 needs, crowded, asked>>
  /\ Note

(***************************************************************************)
(* Specification.                                                          *)
(***************************************************************************)

\* Every thread that is not waiting for a message or a client goes on.
Advance(x) ==
  \/ RunAction(x) \/ RestartTask(x) \/ Reprepare(x)
  \/ CommitRun(x) \/ CommitRestart(x) \/ CommitQueued(x)
  \/ Spawn(x) \/ SpawnFails(x) \/ Fail(x)
  \/ Queue(x) \/ Requeue(x)
  \/ AwaitDependencies(x) \/ Recv(x) \/ PrepareQueued(x)
  \/ Kill(x) \/ StopBeforeStart(x) \/ RestartOnceExited(x) \/ FailRestart(x)
  \/ CloseIfStopped(x) \/ CloseSession(x) \/ DeleteSession(x)

Next ==
  \/ \E x \in Threads : Advance(x)
  \/ \E y \in Waiters : StartWaiter(y)
  \/ \E x \in Workers, a \in Actions : AskRun(x, a)
  \/ \E x \in Workers, s \in Rows :
       AskRestart(x, s) \/ AskStop(x, s) \/ AskClose(x, s)
  \/ \E x \in Workers \cup Waiters : Deadline(x)
  \/ \E t \in Terms, outcome \in {"ok", "bad"} : Exited(t, outcome)
  \/ \E t \in Terms, s \in Rows, result \in {"ready", "timedout"} : Probe(t, s, result)

Spec == Init /\ [][Next]_vars

\* Threads are scheduled.  Processes and probes may take for ever, and the deadline
\* of a wait is no step to count on.
FairSpec ==
  /\ Spec
  /\ \A x \in Threads : WF_vars(Advance(x))
  /\ \A y \in Waiters : WF_vars(StartWaiter(y))

(***************************************************************************)
(* Properties.                                                             *)
(***************************************************************************)

\* Types; a run's port is one its action may use (ports.rs, choose and in_range).
TypeOK ==
  /\ state \in [Rows -> States]
  /\ act \in [Rows -> Actions]
  /\ rdy \in [Rows -> Readiness]
  /\ \A s \in Rows : port[s] \in {0} \cup (Base[act[s]] .. (Base[act[s]] + Span[act[s]] - 1))
  /\ term \in [Rows -> Terms \cup {0}]
  /\ marked \subseteq Rows
  /\ owner \in [Terms -> Rows \cup {0}]
  /\ probing \subseteq Terms \X Rows
  /\ nextTerm \in 1 .. (MaxTerms + 1)
  /\ pc \in [Threads -> Places]
  /\ on \in [Threads -> Rows \cup {0}]
  /\ offer \in [Workers \cup Waiters -> Launch]
  /\ back \in [Workers -> {"idle", "bounce"}]
  /\ wake \subseteq Listening
  /\ asked \in 0 .. MaxRequests

\* An action with single_instance has one live row, parked ones included, however many
\* clients run and restart it at once: every section that makes a row live looks first.
OneInstance == \A a \in Single : Cardinality(Live(a)) <= 1

\* Two live runs share a port only if one of them was told that it is in use: a port is
\* chosen off the lock, and the row that reserves it is made under the lock (commit_launch).
PortsApart ==
  \A r, s \in Rows :
    r # s /\ IsActive(state[r]) /\ IsActive(state[s]) /\ port[r] = port[s] /\ port[r] # 0
      => "inuse" \in {rdy[r], rdy[s]}

\* What two launches that cross must leave: types, single instances, and ports apart.
LaunchesOK == TypeOK /\ OneInstance /\ PortsApart

\* The readiness a running task shows was found by the probe of its own terminal: a probe
\* that outlives a restart does not settle the next run (set_readiness).
ProbeIsOwn ==
  \A s \in Rows : state[s] = "running" /\ rdy[s] \in {"ready", "timedout"} => by[s] = term[s]

\* A parked task runs only after each dependency it was parked behind has served, or has
\* ended with 0, since it was parked (await_dependencies).  Not so for a task that is
\* restarted while it is parked (crowded): the thread of its first wait, if it has not
\* looked in between, takes the second wait for its own and goes by its own dependencies.
StartsOnReady ==
  \A s \in Rows \ crowded : state[s] = "running" => Elements(needs[s]) \subseteq seen[s]

\* A dependency that was deleted while it was active told nobody.
Settled(s) ==
  /\ Parked(s)
  /\ Verdict(act[s], needs[s]) # "waiting"
  /\ \A d \in Elements(needs[s]) : state[d] # "snatched"

\* No wake-up is lost: a parked task whose dependencies let it go, or failed, does not stay
\* parked until its deadline (wake_waiters, over a channel of one place).
WaitersAreWoken == \A s \in Rows : ~<>[]Settled(s)
=============================================================================
