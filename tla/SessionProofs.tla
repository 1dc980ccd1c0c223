--------------------------- MODULE SessionProofs ---------------------------
(***************************************************************************)
(* Proofs about SessionLifecycle, for any sessions, workers and bounds.    *)
(* The invariant is proved in layers, each from the ones before it:        *)
(* types; where terminals and threads stand (Placed); which threads are    *)
(* supervisors; one runtime per session; nobody left Starting.             *)
(***************************************************************************)
EXTENDS SessionLifecycle, TLAPS

\* set_session_state keeps the type of the rows.
LEMMA SetStateType ==
  ASSUME TypeOK, NEW s, NEW next \in States, NEW t \in Terms \cup {0},
         SetSessionState(s, next, t)
  PROVE  state' \in [Sessions -> States] /\ term' \in [Sessions -> Terms \cup {0}]
BY DEF TypeOK, SetSessionState

\* A thread that moves keeps the type of the threads.
LEMMA MoveType ==
  ASSUME TypeOK, NEW x, NEW place \in Places, NEW s \in Sessions \cup {0},
         NEW t \in Terms \cup {0}, Move(x, place, s, t)
  PROVE  /\ pc' \in [Threads -> Places]
         /\ on' \in [Threads -> Sessions \cup {0}]
         /\ held' \in [Threads -> Terms \cup {0}]
BY DEF TypeOK, Move

\* So does one that moves on with its session and its terminal.
LEMMA GotoType ==
  ASSUME TypeOK, NEW x \in Threads, NEW place \in Places, Goto(x, place)
  PROVE  /\ pc' \in [Threads -> Places]
         /\ on' \in [Threads -> Sessions \cup {0}]
         /\ held' \in [Threads -> Terms \cup {0}]
BY DEF TypeOK, Goto, Move

\* And one that returns from a kill.
LEMMA ReturnType ==
  ASSUME TypeOK, NEW x \in Threads, Return(x)
  PROVE  /\ pc' \in [Threads -> Places]
         /\ on' \in [Threads -> Sessions \cup {0}]
         /\ held' \in [Threads -> Terms \cup {0}]
         /\ after' \in [Threads -> {"idle", "kill", "closeif", "waitexit", "failrestart"}]
BY DEF TypeOK, Return, Goto, Move, Places

\* A polite signal keeps the type of the children.
LEMMA PoliteType ==
  ASSUME TypeOK, NEW t PROVE Polite(t) \in [Terms -> {"none", "alive", "asked", "dead"}]
BY DEF TypeOK, Polite

\* A request counts, within its bound.
LEMMA RequestType ==
  ASSUME TypeOK, NEW kind, Request(kind) PROVE asked' \in 0 .. MaxRequests
BY SessionAssumption DEF TypeOK, Request

\* A request puts an idle worker to work.
LEMMA BeginType ==
  ASSUME TypeOK, NEW w, NEW s \in Sessions, NEW place \in Places,
         NEW next \in {"idle", "kill", "closeif", "waitexit", "failrestart"},
         Begin(w, s, place, next)
  PROVE  /\ pc' \in [Threads -> Places]
         /\ on' \in [Threads -> Sessions \cup {0}]
         /\ held' \in [Threads -> Terms \cup {0}]
         /\ after' \in [Threads -> {"idle", "kill", "closeif", "waitexit", "failrestart"}]
<1>1. Move(w, place, s, 0)
  BY DEF Begin
<1> QED
  BY <1>1, MoveType DEF Begin, TypeOK

\* Every step keeps the types.  WorkOK is needed where a thread writes what it
\* works for: a delayed SIGKILL names a session and a terminal.
LEMMA TypeStep == ASSUME TypeOK, WorkOK, [Next]_vars PROVE TypeOK'
<1> USE DEF TypeOK, core, ptys, work
<1> Workers \subseteq Threads /\ Terms \subseteq Threads
  BY DEF Threads
<1>1. ASSUME NEW w \in Workers, SpawnPty(w) PROVE TypeOK'
  <2>1. nextTerm \in Terms /\ nextTerm + 1 \in 1 .. (MaxTerms + 1)
    BY <1>1, SessionAssumption DEF SpawnPty, Terms
  <2>2. Move(w, "install", on[w], nextTerm)
    BY <1>1 DEF SpawnPty
  <2>3. /\ pc' \in [Threads -> Places]
        /\ on' \in [Threads -> Sessions \cup {0}]
        /\ held' \in [Threads -> Terms \cup {0}]
    BY <2>1, <2>2, MoveType DEF Places
  <2> QED
    BY <1>1, <2>1, <2>3 DEF SpawnPty
<1>2. ASSUME NEW w \in Workers, SpawnFails(w) PROVE TypeOK'
  BY <1>2, GotoType DEF SpawnFails, Places
<1>3. ASSUME NEW w \in Workers, Install(w) PROVE TypeOK'
  <2>1. held[w] \in Terms \cup {0} BY <1>3 
  <2>2. state' \in [Sessions -> States] /\ term' \in [Sessions -> Terms \cup {0}]
    BY <1>3, <2>1, SetStateType DEF Install, States
  <2>3. /\ pc' \in [Threads -> Places]
        /\ on' \in [Threads -> Sessions \cup {0}]
        /\ held' \in [Threads -> Terms \cup {0}]
    BY <1>3, GotoType DEF Install, Places
  <2> QED BY <1>3, <2>2, <2>3 DEF Install
<1>4. ASSUME NEW w \in Workers, InstallRejected(w) PROVE TypeOK'
  BY <1>4, GotoType DEF InstallRejected, Places
<1>5. ASSUME NEW w \in Workers, ReapOrphan(w) PROVE TypeOK'
  BY <1>5, GotoType DEF ReapOrphan, Places
<1>6. ASSUME NEW w \in Workers, MarkFailed(w) PROVE TypeOK'
  <2>1. state' \in [Sessions -> States] /\ term' \in [Sessions -> Terms \cup {0}]
    BY <1>6, SetStateType DEF MarkFailed, States
  <2> QED
    BY <1>6, <2>1, ReturnType DEF MarkFailed
<1>7. ASSUME NEW w \in Workers, Opened(w) PROVE TypeOK'
  BY <1>7, GotoType DEF Opened, Places
<1>8. ASSUME NEW w \in Workers, EditorFails(w) PROVE TypeOK'
  BY <1>8, GotoType DEF EditorFails, Places
<1>9. ASSUME NEW w \in Workers, SetEditorRunning(w) PROVE TypeOK'
  <2>1. on[w] \in Sessions  BY <1>9 DEF SetEditorRunning, WorkOK, At
  <2>2. state' \in [Sessions -> States] /\ term' \in [Sessions -> Terms \cup {0}]
    <3>1. term[on[w]] \in Terms \cup {0}
      BY <2>1
    <3>2. SetSessionState(on[w], "running", term[on[w]])
      BY <1>9 DEF SetEditorRunning
    <3> QED
      BY <3>1, <3>2 DEF SetSessionState, States
  <2>3. /\ pc' \in [Threads -> Places]
        /\ on' \in [Threads -> Sessions \cup {0}]
        /\ held' \in [Threads -> Terms \cup {0}]
    BY <1>9, GotoType DEF SetEditorRunning, Places
  <2> QED BY <1>9, <2>2, <2>3 DEF SetEditorRunning
<1>10. ASSUME NEW w \in Workers, SupervisorEnds(w) PROVE TypeOK'
  BY <1>10, GotoType DEF SupervisorEnds, Places
<1>11. ASSUME NEW w \in Workers, KillUnknown(w) PROVE TypeOK'
  BY <1>11, GotoType DEF KillUnknown, Places
<1>12. ASSUME NEW w \in Workers, KillNoTerminal(w) PROVE TypeOK'
  BY <1>12, GotoType, ReturnType DEF KillNoTerminal, Places
<1>13. ASSUME NEW w \in Workers, KillTerminal(w) PROVE TypeOK'
  <2>1. on[w] \in Sessions  BY <1>13 DEF KillTerminal, WorkOK, At
  <2>2. CASE rt[term[on[w]]] = "live"
    <3>1. Move(w, "signal", on[w], term[on[w]]) /\ UNCHANGED after
      BY <1>13, <2>2 DEF KillTerminal
    <3>2. term[on[w]] \in Terms \cup {0}
      BY <2>1
    <3>3. /\ pc' \in [Threads -> Places]
          /\ on' \in [Threads -> Sessions \cup {0}]
          /\ held' \in [Threads -> Terms \cup {0}]
      BY <2>1, <3>1, <3>2, MoveType DEF Places
    <3> QED
      BY <1>13, <3>1, <3>3 DEF KillTerminal
  <2>3. CASE rt[term[on[w]]] # "live"
    BY <1>13, <2>1, <2>3, ReturnType DEF KillTerminal, Places
  <2> QED BY <2>2, <2>3
<1>14. ASSUME NEW w \in Workers, Signal(w) PROVE TypeOK'
  BY <1>14, ReturnType, PoliteType DEF Signal, WorkOK, At
<1>15. ASSUME NEW w \in Workers, SignalGroup(w) PROVE TypeOK'
  BY <1>15, GotoType, PoliteType DEF SignalGroup, Places
<1>16. ASSUME NEW w \in Workers, GroupEnds(w) PROVE TypeOK'
  BY <1>16, GotoType DEF GroupEnds, Places
<1>17. ASSUME NEW w \in Workers, WaitExit(w) PROVE TypeOK'
  BY <1>17, GotoType DEF WaitExit, Places
<1>18. ASSUME NEW w \in Workers, WaitExpires(w) PROVE TypeOK'
  BY <1>18, GotoType DEF WaitExpires, Places
<1>19. ASSUME NEW w \in Workers, Relaunch(w) PROVE TypeOK'
  <2>1. state' \in [Sessions -> States] /\ term' \in [Sessions -> Terms \cup {0}]
    BY <1>19, SetStateType DEF Relaunch, States
  <2> QED
    BY <1>19, <2>1, GotoType DEF Relaunch, Places
<1>20. ASSUME NEW w \in Workers, RelaunchFails(w) PROVE TypeOK'
  BY <1>20, ReturnType DEF RelaunchFails
<1>21. ASSUME NEW w \in Workers, FailRestart(w) PROVE TypeOK'
  BY <1>21, GotoType DEF FailRestart, Places, States
<1>22. ASSUME NEW x \in Threads, CloseIfStopped(x) PROVE TypeOK'
  BY <1>22, GotoType DEF CloseIfStopped, Places
<1>23. ASSUME NEW x \in Threads, CloseCheck(x) PROVE TypeOK'
  BY <1>23, GotoType DEF CloseCheck, Places
<1>24. ASSUME NEW x \in Threads, Delete(x) PROVE TypeOK'
  BY <1>24, GotoType DEF Delete, Places, States
<1>25. ASSUME NEW w \in Workers, NEW s \in Sessions, Create(w, s) PROVE TypeOK'
  <2>1. /\ pc' \in [Threads -> Places]
        /\ on' \in [Threads -> Sessions \cup {0}]
        /\ held' \in [Threads -> Terms \cup {0}]
        /\ after' \in [Threads -> {"idle", "kill", "closeif", "waitexit", "failrestart"}]
    BY <1>25, BeginType DEF Create, Places
  <2> QED
    BY <1>25, <2>1 DEF Create, States
<1>26. ASSUME NEW w \in Workers, NEW s \in Sessions, Stop(w, s) PROVE TypeOK'
  <2>1. /\ pc' \in [Threads -> Places]
        /\ on' \in [Threads -> Sessions \cup {0}]
        /\ held' \in [Threads -> Terms \cup {0}]
        /\ after' \in [Threads -> {"idle", "kill", "closeif", "waitexit", "failrestart"}]
    BY <1>26, BeginType DEF Stop, Places
  <2> QED
    BY <1>26, <2>1, RequestType DEF Stop
<1>27. ASSUME NEW w \in Workers, NEW s \in Sessions, Sweep(w, s) PROVE TypeOK'
  <2>1. /\ pc' \in [Threads -> Places]
        /\ on' \in [Threads -> Sessions \cup {0}]
        /\ held' \in [Threads -> Terms \cup {0}]
        /\ after' \in [Threads -> {"idle", "kill", "closeif", "waitexit", "failrestart"}]
    BY <1>27, BeginType DEF Sweep, Places
  <2> QED
    BY <1>27, <2>1, RequestType DEF Sweep
<1>28. ASSUME NEW w \in Workers, NEW s \in Sessions, Close(w, s) PROVE TypeOK'
  <2>1. /\ pc' \in [Threads -> Places]
        /\ on' \in [Threads -> Sessions \cup {0}]
        /\ held' \in [Threads -> Terms \cup {0}]
        /\ after' \in [Threads -> {"idle", "kill", "closeif", "waitexit", "failrestart"}]
    BY <1>28, BeginType DEF Close, Places
  <2> QED
    BY <1>28, <2>1, RequestType DEF Close
<1>29. ASSUME NEW w \in Workers, NEW s \in Sessions, KillClose(w, s) PROVE TypeOK'
  <2>1. /\ pc' \in [Threads -> Places]
        /\ on' \in [Threads -> Sessions \cup {0}]
        /\ held' \in [Threads -> Terms \cup {0}]
    BY <1>29, MoveType DEF KillClose, Places
  <2> QED
    BY <1>29, <2>1, RequestType DEF KillClose
<1>30. ASSUME NEW w \in Workers, NEW s \in Sessions, Restart(w, s) PROVE TypeOK'
  <2>1. state' \in [Sessions -> States] /\ term' \in [Sessions -> Terms \cup {0}]
    BY <1>30, SetStateType DEF Restart, States
  <2> QED
    BY <1>30, <2>1, BeginType, RequestType DEF Restart, Places
<1>31. ASSUME NEW w \in Workers, NEW s \in Sessions, RestartTask(w, s) PROVE TypeOK'
  BY <1>31, BeginType, RequestType DEF RestartTask, Places
<1>32. ASSUME NEW s \in Sessions, NEW t \in Terms, DelayedKill(s, t) PROVE TypeOK'
  BY <1>32 DEF DelayedKill
<1>33. ASSUME NEW t \in Terms, ChildExits(t) PROVE TypeOK'
  BY <1>33 DEF ChildExits
<1>34. ASSUME NEW t \in Terms, Eof(t) PROVE TypeOK'
  <2>1. Move(t, "reap", owner[t], 0)
    BY <1>34 DEF Eof
  <2> QED
    BY <1>34, <2>1, MoveType DEF Eof, Places
<1>35. ASSUME NEW t \in Terms, RecordExit(t) PROVE TypeOK'
  <2>2. state' \in [Sessions -> States] /\ term' \in [Sessions -> Terms \cup {0}]
    BY <1>35, SetStateType DEF RecordExit, States
  <2>3. /\ pc' \in [Threads -> Places]
        /\ on' \in [Threads -> Sessions \cup {0}]
        /\ held' \in [Threads -> Terms \cup {0}]
    BY <1>35, GotoType DEF RecordExit, Places
  <2> QED BY <1>35, <2>2, <2>3 DEF RecordExit
<1>36. ASSUME Boot PROVE TypeOK'
  BY <1>36, SessionAssumption DEF Boot, Places, States
<1>37. CASE UNCHANGED vars
  BY <1>37 DEF vars
<1> QED
  BY <1>1, <1>2, <1>3, <1>4, <1>5, <1>6, <1>7, <1>8, <1>9, <1>10, <1>11, <1>12, <1>13,
     <1>14, <1>15, <1>16, <1>17, <1>18, <1>19, <1>20, <1>21, <1>22, <1>23, <1>24, <1>25,
     <1>26, <1>27, <1>28, <1>29, <1>30, <1>31, <1>32, <1>33, <1>34, <1>35, <1>36, <1>37
  DEF Next, WorkerStep, CloseStep, NewRequest

\* Where terminals and threads stand, without the rows' states.
Placed == WorkOK /\ IdsOK /\ HoldOK /\ ReapOK

\* Threads and workers: a terminal's thread is no worker.
LEMMA ThreadKinds ==
  Workers \subseteq Threads /\ Terms \subseteq Threads /\ Workers \cap Terms = {} /\ 0 \notin Terms
BY SessionAssumption DEF Threads, Terms

\* A thread that moves on without a child of its own, to a place where it has none.
LEMMA PlainMove ==
  ASSUME TypeOK, Placed, NEW x \in Threads,
         NEW place \in Places \ {"install", "orphan", "signal", "reap"},
         pc[x] \notin {"idle", "install", "orphan"}, Goto(x, place),
         UNCHANGED <<owner, rt, nextTerm>>,
         \A s \in Sessions : term'[s] \in {0, term[s]}
  PROVE  Placed'
<1> USE ThreadKinds DEF TypeOK, Placed, Goto, Move
<1>1. WorkOK'
  BY DEF WorkOK
<1>2. IdsOK'
  BY DEF IdsOK
<1>3. HoldOK'
  BY DEF HoldOK
<1>4. ReapOK'
  BY DEF ReapOK
<1> QED
  BY <1>1, <1>2, <1>3, <1>4

\* A worker that takes up a request.
LEMMA PlainBegin ==
  ASSUME TypeOK, Placed, NEW w \in Workers, NEW s \in Sessions, NEW t \in Terms \cup {0},
         NEW place \in Places \ {"idle", "install", "orphan", "signal", "reap"},
         pc[w] = "idle", Move(w, place, s, t),
         t = 0 \/ rt[t] \notin {"none", "held"},
         UNCHANGED <<owner, rt, nextTerm>>,
         \A r \in Sessions : term'[r] \in {0, term[r]}
  PROVE  Placed'
<1> USE ThreadKinds DEF TypeOK, Placed, Move
<1>1. WorkOK'
  BY DEF WorkOK
<1>2. IdsOK'
  BY DEF IdsOK
<1>3. HoldOK'
  BY DEF HoldOK
<1>4. ReapOK'
  BY DEF ReapOK
<1> QED
  BY <1>1, <1>2, <1>3, <1>4

\* Every step keeps threads and terminals in place.
LEMMA PlacedStep == ASSUME TypeOK, Placed, [Next]_vars PROVE Placed'
<1> USE ThreadKinds DEF core, ptys, work
<1>1. ASSUME NEW w \in Workers, SpawnPty(w) PROVE Placed'
  <2>0. nextTerm \in Terms
    BY <1>1, SessionAssumption DEF SpawnPty, TypeOK, Terms
  <2>1. WorkOK'
    BY <1>1, <2>0, SessionAssumption DEF SpawnPty, Move, At, TypeOK, Placed, WorkOK
  <2>2. IdsOK'
    BY <1>1, <2>0, SessionAssumption DEF SpawnPty, Move, At, TypeOK, Placed, IdsOK, Terms
  <2>3. HoldOK'
    BY <1>1, <2>0, SessionAssumption DEF SpawnPty, Move, At, TypeOK, Placed, HoldOK, IdsOK
  <2>4. ReapOK'
    BY <1>1, <2>0, SessionAssumption DEF SpawnPty, Move, At, TypeOK, Placed, ReapOK, IdsOK
  <2> QED
    BY <2>1, <2>2, <2>3, <2>4 DEF Placed
<1>2. ASSUME NEW w \in Workers, SpawnFails(w) PROVE Placed'
  BY <1>2, PlainMove DEF SpawnFails, At, Places, TypeOK
<1>3. ASSUME NEW w \in Workers, Install(w) PROVE Placed'
  <2>0. held[w] \in Terms /\ rt[held[w]] = "held" /\ on[w] \in Sessions
    BY <1>3 DEF Install, At, TypeOK, Placed, HoldOK, WorkOK
  <2>1. WorkOK'
    BY <1>3, <2>0 DEF Install, Goto, Move, SetSessionState, At, TypeOK, Placed, WorkOK
  <2>2. IdsOK'
    BY <1>3, <2>0 DEF Install, Goto, Move, SetSessionState, At, TypeOK, Placed, IdsOK
  <2>3. HoldOK'
    <3>1. pc'[w] \notin {"install", "orphan"}
      BY <1>3 DEF Install, Goto, Move, TypeOK
    <3>2. \A v \in Workers \ {w} : pc'[v] = pc[v] /\ on'[v] = on[v] /\ held'[v] = held[v]
      BY <1>3 DEF Install, Goto, Move, TypeOK
    <3>3. held'[w] \in {0, held[w]}
      BY <1>3 DEF Install, Goto, Move, TypeOK
    <3>4. rt' = [rt EXCEPT ![held[w]] = "live"] /\ UNCHANGED owner
      BY <1>3 DEF Install
    <3> QED
      BY <2>0, <3>1, <3>2, <3>3, <3>4 DEF TypeOK, Placed, HoldOK
  <2>4. ReapOK'
    BY <1>3, <2>0 DEF Install, Goto, Move, SetSessionState, At, TypeOK, Placed, ReapOK
  <2> QED
    BY <2>1, <2>2, <2>3, <2>4 DEF Placed
<1>4. ASSUME NEW w \in Workers, InstallRejected(w) PROVE Placed'
  <2>0. held[w] \in Terms /\ rt[held[w]] = "held" /\ on[w] \in Sessions
    BY <1>4 DEF InstallRejected, At, TypeOK, Placed, HoldOK, WorkOK
  <2>1. WorkOK'
    BY <1>4, <2>0 DEF InstallRejected, Goto, Move, At, TypeOK, Placed, WorkOK
  <2>2. IdsOK'
    BY <1>4, <2>0 DEF InstallRejected, Goto, Move, At, TypeOK, Placed, IdsOK
  <2>3. HoldOK'
    BY <1>4, <2>0 DEF InstallRejected, Goto, Move, At, TypeOK, Placed, HoldOK, IdsOK
  <2>4. ReapOK'
    BY <1>4, <2>0 DEF InstallRejected, Goto, Move, At, TypeOK, Placed, ReapOK
  <2> QED
    BY <2>1, <2>2, <2>3, <2>4 DEF Placed
<1>5. ASSUME NEW w \in Workers, ReapOrphan(w) PROVE Placed'
  <2>0. held[w] \in Terms /\ rt[held[w]] = "held" /\ on[w] \in Sessions
    BY <1>5 DEF ReapOrphan, At, TypeOK, Placed, HoldOK, WorkOK
  <2>1. WorkOK'
    BY <1>5, <2>0 DEF ReapOrphan, Goto, Move, At, TypeOK, Placed, WorkOK
  <2>2. IdsOK'
    BY <1>5, <2>0 DEF ReapOrphan, Goto, Move, At, TypeOK, Placed, IdsOK
  <2>3. HoldOK'
    BY <1>5, <2>0 DEF ReapOrphan, Goto, Move, At, TypeOK, Placed, HoldOK, IdsOK
  <2>4. ReapOK'
    BY <1>5, <2>0 DEF ReapOrphan, Goto, Move, At, TypeOK, Placed, ReapOK
  <2> QED
    BY <2>1, <2>2, <2>3, <2>4 DEF Placed
<1>6. ASSUME NEW w \in Workers, MarkFailed(w) PROVE Placed'
  <2>1. \A s \in Sessions : term'[s] \in {0, term[s]}
    BY <1>6 DEF MarkFailed, SetSessionState, TypeOK
  <2> QED
    BY <1>6, <2>1, PlainMove DEF MarkFailed, At, Places, Return, TypeOK
<1>7. ASSUME NEW w \in Workers, Opened(w) PROVE Placed'
  BY <1>7, PlainMove DEF Opened, At, Places, TypeOK
<1>8. ASSUME NEW w \in Workers, EditorFails(w) PROVE Placed'
  BY <1>8, PlainMove DEF EditorFails, At, Places, TypeOK
<1>9. ASSUME NEW w \in Workers, SetEditorRunning(w) PROVE Placed'
  <2>1. \A s \in Sessions : term'[s] \in {0, term[s]}
    BY <1>9 DEF SetEditorRunning, SetSessionState, TypeOK, Placed, WorkOK, At
  <2> QED
    BY <1>9, <2>1, PlainMove DEF SetEditorRunning, At, Places, TypeOK
<1>10. ASSUME NEW w \in Workers, SupervisorEnds(w) PROVE Placed'
  BY <1>10, PlainMove DEF SupervisorEnds, At, Places, TypeOK
<1>11. ASSUME NEW w \in Workers, KillUnknown(w) PROVE Placed'
  BY <1>11, PlainMove DEF KillUnknown, At, Places, TypeOK
<1>12. ASSUME NEW w \in Workers, KillNoTerminal(w) PROVE Placed'
  BY <1>12, PlainMove DEF KillNoTerminal, At, Places, Return, TypeOK
<1>13. ASSUME NEW w \in Workers, KillTerminal(w) PROVE Placed'
  <2>0. on[w] \in Sessions /\ term[on[w]] \in Terms
    BY <1>13 DEF KillTerminal, At, TypeOK, Placed, WorkOK
  <2>5. CASE rt[term[on[w]]] # "live"
    BY <1>13, <2>5, PlainMove DEF KillTerminal, Return, At, Places, TypeOK
  <2>6. CASE rt[term[on[w]]] = "live"
    <3>1. WorkOK'
      BY <1>13, <2>0, <2>6 DEF KillTerminal, Move, At, TypeOK, Placed, WorkOK
    <3>2. IdsOK'
      BY <1>13, <2>0, <2>6 DEF KillTerminal, Move, At, TypeOK, Placed, IdsOK
    <3>3. HoldOK'
      BY <1>13, <2>0, <2>6 DEF KillTerminal, Move, At, TypeOK, Placed, HoldOK, IdsOK
    <3>4. ReapOK'
      BY <1>13, <2>0, <2>6 DEF KillTerminal, Move, At, TypeOK, Placed, ReapOK
    <3> QED
      BY <3>1, <3>2, <3>3, <3>4 DEF Placed
  <2> QED
    BY <2>5, <2>6
<1>14. ASSUME NEW w \in Workers, Signal(w) PROVE Placed'
  BY <1>14, PlainMove DEF Signal, At, Places, Return, TypeOK
<1>15. ASSUME NEW w \in Workers, SignalGroup(w) PROVE Placed'
  BY <1>15, PlainMove DEF SignalGroup, At, Places, TypeOK
<1>16. ASSUME NEW w \in Workers, GroupEnds(w) PROVE Placed'
  BY <1>16, PlainMove DEF GroupEnds, At, Places, TypeOK
<1>17. ASSUME NEW w \in Workers, WaitExit(w) PROVE Placed'
  BY <1>17, PlainMove DEF WaitExit, At, Places, TypeOK
<1>18. ASSUME NEW w \in Workers, WaitExpires(w) PROVE Placed'
  BY <1>18, PlainMove DEF WaitExpires, At, Places, TypeOK
<1>19. ASSUME NEW w \in Workers, Relaunch(w) PROVE Placed'
  <2>1. \A s \in Sessions : term'[s] \in {0, term[s]}
    BY <1>19 DEF Relaunch, SetSessionState, TypeOK
  <2> QED
    BY <1>19, <2>1, PlainMove DEF Relaunch, At, Places, TypeOK
<1>20. ASSUME NEW w \in Workers, RelaunchFails(w) PROVE Placed'
  BY <1>20, PlainMove DEF RelaunchFails, At, Places, Return, TypeOK
<1>21. ASSUME NEW w \in Workers, FailRestart(w) PROVE Placed'
  <2>1. \A s \in Sessions : term'[s] \in {0, term[s]}
    BY <1>21 DEF FailRestart, TypeOK
  <2> QED
    BY <1>21, <2>1, PlainMove DEF FailRestart, At, Places, TypeOK
<1>22. ASSUME NEW x \in Threads, CloseIfStopped(x) PROVE Placed'
  BY <1>22, PlainMove DEF CloseIfStopped, At, Places, TypeOK
<1>23. ASSUME NEW x \in Threads, CloseCheck(x) PROVE Placed'
  BY <1>23, PlainMove DEF CloseCheck, At, Places, TypeOK
<1>24. ASSUME NEW x \in Threads, Delete(x) PROVE Placed'
  <2>1. \A s \in Sessions : term'[s] \in {0, term[s]}
    BY <1>24 DEF Delete, TypeOK
  <2> QED
    BY <1>24, <2>1, PlainMove DEF Delete, At, Places, TypeOK
<1>25. ASSUME NEW w \in Workers, NEW s \in Sessions, Create(w, s) PROVE Placed'
  BY <1>25, PlainBegin DEF Create, Begin, At, Places, TypeOK
<1>26. ASSUME NEW w \in Workers, NEW s \in Sessions, Stop(w, s) PROVE Placed'
  BY <1>26, PlainBegin DEF Stop, Begin, At, Places, TypeOK
<1>27. ASSUME NEW w \in Workers, NEW s \in Sessions, Sweep(w, s) PROVE Placed'
  BY <1>27, PlainBegin DEF Sweep, Begin, At, Places, TypeOK
<1>28. ASSUME NEW w \in Workers, NEW s \in Sessions, Close(w, s) PROVE Placed'
  BY <1>28, PlainBegin DEF Close, Begin, At, Places, TypeOK
<1>29. ASSUME NEW w \in Workers, NEW s \in Sessions, KillClose(w, s) PROVE Placed'
  BY <1>29, PlainBegin DEF KillClose, At, Places, TypeOK
<1>30. ASSUME NEW w \in Workers, NEW s \in Sessions, Restart(w, s) PROVE Placed'
  <2>1. \A r \in Sessions : term'[r] \in {0, term[r]}
    BY <1>30 DEF Restart, SetSessionState, TypeOK
  <2> QED
    BY <1>30, <2>1, PlainBegin DEF Restart, Begin, At, Places, TypeOK
<1>31. ASSUME NEW w \in Workers, NEW s \in Sessions, RestartTask(w, s) PROVE Placed'
  BY <1>31, PlainBegin DEF RestartTask, Begin, At, Places, TypeOK
<1>32. ASSUME NEW s \in Sessions, NEW t \in Terms, DelayedKill(s, t) PROVE Placed'
  BY <1>32 DEF DelayedKill, Placed, WorkOK, IdsOK, HoldOK, ReapOK
<1>33. ASSUME NEW t \in Terms, ChildExits(t) PROVE Placed'
  BY <1>33 DEF ChildExits, Placed, WorkOK, IdsOK, HoldOK, ReapOK
<1>34. ASSUME NEW t \in Terms, Eof(t) PROVE Placed'
  <2>1. WorkOK'
    BY <1>34 DEF Eof, Move, TypeOK, Placed, WorkOK
  <2>2. IdsOK'
    BY <1>34 DEF Eof, Move, TypeOK, Placed, IdsOK, WorkOK
  <2>3. HoldOK'
    BY <1>34 DEF Eof, Move, TypeOK, Placed, HoldOK, IdsOK
  <2>4. ReapOK'
    BY <1>34 DEF Eof, Move, TypeOK, Placed, ReapOK
  <2> QED
    BY <2>1, <2>2, <2>3, <2>4 DEF Placed
<1>35. ASSUME NEW t \in Terms, RecordExit(t) PROVE Placed'
  <2>1. WorkOK'
    BY <1>35 DEF RecordExit, Goto, Move, At, SetSessionState, TypeOK, Placed, ReapOK, WorkOK
  <2>2. IdsOK'
    BY <1>35 DEF RecordExit, Goto, Move, At, SetSessionState, TypeOK, Placed, ReapOK, IdsOK, WorkOK
  <2>3. HoldOK'
    BY <1>35 DEF RecordExit, Goto, Move, At, SetSessionState, TypeOK, Placed, ReapOK, HoldOK, IdsOK
  <2>4. ReapOK'
    BY <1>35 DEF RecordExit, Goto, Move, At, SetSessionState, TypeOK, Placed, ReapOK
  <2> QED
    BY <2>1, <2>2, <2>3, <2>4 DEF Placed
<1>36. ASSUME Boot PROVE Placed'
  <2>1. WorkOK'
    BY <1>36 DEF Boot, TypeOK, Placed, WorkOK
  <2>2. IdsOK'
    BY <1>36 DEF Boot, TypeOK, Placed, IdsOK
  <2>3. HoldOK'
    BY <1>36 DEF Boot, TypeOK, Placed, HoldOK, IdsOK
  <2>4. ReapOK'
    BY <1>36 DEF Boot, TypeOK, Placed, ReapOK
  <2> QED
    BY <2>1, <2>2, <2>3, <2>4 DEF Placed
<1>37. CASE UNCHANGED vars
  BY <1>37 DEF vars, Placed, WorkOK, IdsOK, HoldOK, ReapOK
<1> QED
  BY <1>1, <1>2, <1>3, <1>4, <1>5, <1>6, <1>7, <1>8, <1>9, <1>10, <1>11, <1>12, <1>13,
     <1>14, <1>15, <1>16, <1>17, <1>18, <1>19, <1>20, <1>21, <1>22, <1>23, <1>24, <1>25,
     <1>26, <1>27, <1>28, <1>29, <1>30, <1>31, <1>32, <1>33, <1>34, <1>35, <1>36, <1>37
  DEF Next, WorkerStep, CloseStep, NewRequest

\* No step puts a supervisor on anything but an editor.
LEMMA EditorsStep == ASSUME TypeOK, EditorsOK, [Next]_vars PROVE EditorsOK'
<1> USE ThreadKinds DEF core, ptys, work
<1>1. ASSUME NEW w \in Workers, SpawnPty(w) PROVE EditorsOK'
  BY <1>1 DEF SpawnPty, At, Move, TypeOK, EditorsOK
<1>2. ASSUME NEW w \in Workers, SpawnFails(w) PROVE EditorsOK'
  BY <1>2 DEF SpawnFails, Goto, At, Move, TypeOK, EditorsOK
<1>3. ASSUME NEW w \in Workers, Install(w) PROVE EditorsOK'
  BY <1>3 DEF Install, Goto, At, Move, TypeOK, EditorsOK
<1>4. ASSUME NEW w \in Workers, InstallRejected(w) PROVE EditorsOK'
  BY <1>4 DEF InstallRejected, Goto, At, Move, TypeOK, EditorsOK
<1>5. ASSUME NEW w \in Workers, ReapOrphan(w) PROVE EditorsOK'
  BY <1>5 DEF ReapOrphan, Goto, At, Move, TypeOK, EditorsOK
<1>6. ASSUME NEW w \in Workers, MarkFailed(w) PROVE EditorsOK'
  BY <1>6 DEF MarkFailed, Goto, Return, At, Move, TypeOK, EditorsOK
<1>7. ASSUME NEW w \in Workers, Opened(w) PROVE EditorsOK'
  BY <1>7 DEF Opened, Goto, At, Move, TypeOK, EditorsOK
<1>8. ASSUME NEW w \in Workers, EditorFails(w) PROVE EditorsOK'
  BY <1>8 DEF EditorFails, Goto, At, Move, TypeOK, EditorsOK
<1>9. ASSUME NEW w \in Workers, SetEditorRunning(w) PROVE EditorsOK'
  BY <1>9 DEF SetEditorRunning, Goto, At, Move, TypeOK, EditorsOK
<1>10. ASSUME NEW w \in Workers, SupervisorEnds(w) PROVE EditorsOK'
  BY <1>10 DEF SupervisorEnds, Goto, At, Move, TypeOK, EditorsOK
<1>11. ASSUME NEW w \in Workers, KillUnknown(w) PROVE EditorsOK'
  BY <1>11 DEF KillUnknown, Goto, At, Move, TypeOK, EditorsOK
<1>12. ASSUME NEW w \in Workers, KillNoTerminal(w) PROVE EditorsOK'
  BY <1>12 DEF KillNoTerminal, Goto, Return, At, Move, TypeOK, EditorsOK
<1>13. ASSUME NEW w \in Workers, KillTerminal(w) PROVE EditorsOK'
  BY <1>13 DEF KillTerminal, Goto, Return, At, Move, TypeOK, EditorsOK
<1>14. ASSUME NEW w \in Workers, Signal(w) PROVE EditorsOK'
  BY <1>14 DEF Signal, Goto, Return, At, Move, TypeOK, EditorsOK
<1>15. ASSUME NEW w \in Workers, SignalGroup(w) PROVE EditorsOK'
  BY <1>15 DEF SignalGroup, Goto, At, Move, TypeOK, EditorsOK
<1>16. ASSUME NEW w \in Workers, GroupEnds(w) PROVE EditorsOK'
  BY <1>16 DEF GroupEnds, Goto, At, Move, TypeOK, EditorsOK
<1>17. ASSUME NEW w \in Workers, WaitExit(w) PROVE EditorsOK'
  BY <1>17 DEF WaitExit, Goto, At, Move, TypeOK, EditorsOK
<1>18. ASSUME NEW w \in Workers, WaitExpires(w) PROVE EditorsOK'
  BY <1>18 DEF WaitExpires, Goto, At, Move, TypeOK, EditorsOK
<1>19. ASSUME NEW w \in Workers, Relaunch(w) PROVE EditorsOK'
  BY <1>19 DEF Relaunch, Goto, At, Move, TypeOK, EditorsOK
<1>20. ASSUME NEW w \in Workers, RelaunchFails(w) PROVE EditorsOK'
  BY <1>20 DEF RelaunchFails, Goto, Return, At, Move, TypeOK, EditorsOK
<1>21. ASSUME NEW w \in Workers, FailRestart(w) PROVE EditorsOK'
  BY <1>21 DEF FailRestart, Goto, At, Move, TypeOK, EditorsOK
<1>22. ASSUME NEW x \in Threads, CloseIfStopped(x) PROVE EditorsOK'
  BY <1>22 DEF CloseIfStopped, Goto, At, Move, TypeOK, EditorsOK
<1>23. ASSUME NEW x \in Threads, CloseCheck(x) PROVE EditorsOK'
  BY <1>23 DEF CloseCheck, Goto, At, Move, TypeOK, EditorsOK
<1>24. ASSUME NEW x \in Threads, Delete(x) PROVE EditorsOK'
  BY <1>24 DEF Delete, Goto, At, Move, TypeOK, EditorsOK
<1>25. ASSUME NEW w \in Workers, NEW s \in Sessions, Create(w, s) PROVE EditorsOK'
  BY <1>25 DEF Create, Begin, At, Move, TypeOK, EditorsOK
<1>26. ASSUME NEW w \in Workers, NEW s \in Sessions, Stop(w, s) PROVE EditorsOK'
  BY <1>26 DEF Stop, Begin, At, Move, TypeOK, EditorsOK
<1>27. ASSUME NEW w \in Workers, NEW s \in Sessions, Sweep(w, s) PROVE EditorsOK'
  BY <1>27 DEF Sweep, Begin, At, Move, TypeOK, EditorsOK
<1>28. ASSUME NEW w \in Workers, NEW s \in Sessions, Close(w, s) PROVE EditorsOK'
  BY <1>28 DEF Close, Begin, At, Move, TypeOK, EditorsOK
<1>29. ASSUME NEW w \in Workers, NEW s \in Sessions, KillClose(w, s) PROVE EditorsOK'
  BY <1>29 DEF KillClose, At, Move, TypeOK, EditorsOK
<1>30. ASSUME NEW w \in Workers, NEW s \in Sessions, Restart(w, s) PROVE EditorsOK'
  BY <1>30 DEF Restart, Begin, At, Move, TypeOK, EditorsOK
<1>31. ASSUME NEW w \in Workers, NEW s \in Sessions, RestartTask(w, s) PROVE EditorsOK'
  BY <1>31 DEF RestartTask, Begin, At, Move, TypeOK, EditorsOK
<1>32. ASSUME NEW s \in Sessions, NEW t \in Terms, DelayedKill(s, t) PROVE EditorsOK'
  BY <1>32 DEF DelayedKill, EditorsOK
<1>33. ASSUME NEW t \in Terms, ChildExits(t) PROVE EditorsOK'
  BY <1>33 DEF ChildExits, EditorsOK
<1>34. ASSUME NEW t \in Terms, Eof(t) PROVE EditorsOK'
  BY <1>34 DEF Eof, Move, TypeOK, EditorsOK
<1>35. ASSUME NEW t \in Terms, RecordExit(t) PROVE EditorsOK'
  BY <1>35 DEF RecordExit, Goto, At, Move, TypeOK, EditorsOK
<1>36. ASSUME Boot PROVE EditorsOK'
  BY <1>36 DEF Boot, EditorsOK
<1>37. CASE UNCHANGED vars
  BY <1>37 DEF vars, EditorsOK
<1> QED
  BY <1>1, <1>2, <1>3, <1>4, <1>5, <1>6, <1>7, <1>8, <1>9, <1>10, <1>11, <1>12, <1>13,
     <1>14, <1>15, <1>16, <1>17, <1>18, <1>19, <1>20, <1>21, <1>22, <1>23, <1>24,
     <1>25, <1>26, <1>27, <1>28, <1>29, <1>30, <1>31, <1>32, <1>33, <1>34, <1>35,
     <1>36, <1>37
  DEF Next, WorkerStep, CloseStep, NewRequest

\* A step that touches neither rows nor runtimes.
LEMMA RuntimeSame ==
  ASSUME OneRuntime, UNCHANGED <<state, term, owner, rt>> PROVE OneRuntime'
BY DEF OneRuntime, Current

\* A row that goes to Failed or to Starting had no runtime, and has none.
LEMMA RuntimeIdle ==
  ASSUME TypeOK, OneRuntime, NEW s \in Sessions, NEW next \in {"failed", "starting"},
         SetSessionState(s, next, 0), UNCHANGED <<owner, rt>>
  PROVE  OneRuntime'
BY DEF TypeOK, OneRuntime, Current, SetSessionState, CanTransition

\* Every step keeps one runtime per shell, agent and task.
LEMMA RuntimeStep == ASSUME TypeOK, Placed, EditorsOK, OneRuntime, [Next]_vars PROVE OneRuntime'
<1> USE ThreadKinds DEF core, ptys, work
<1>1. ASSUME NEW w \in Workers, SpawnPty(w) PROVE OneRuntime'
  <2>1. nextTerm \in Terms /\ rt[nextTerm] = "none"
    BY <1>1, SessionAssumption DEF SpawnPty, TypeOK, Terms, Placed, IdsOK
  <2> QED
    BY <1>1, <2>1 DEF SpawnPty, TypeOK, OneRuntime, Current
<1>2. ASSUME NEW w \in Workers, SpawnFails(w) PROVE OneRuntime'
  BY <1>2, RuntimeSame DEF SpawnFails
<1>3. ASSUME NEW w \in Workers, Install(w) PROVE OneRuntime'
  <2>1. /\ held[w] \in Terms /\ rt[held[w]] = "held"
        /\ on[w] \in Sessions /\ owner[held[w]] = on[w]
    BY <1>3 DEF Install, At, TypeOK, Placed, HoldOK, WorkOK
  <2>2. CASE on[w] \in Editors
    BY <1>3, <2>1, <2>2 DEF Install, TypeOK, OneRuntime, Current
  <2>3. CASE on[w] \notin Editors
    <3>1. state[on[w]] = "starting"
      BY <1>3, <2>3 DEF Install, Accepts, CanTransition
    <3>2. /\ state' = [state EXCEPT ![on[w]] = "running"]
          /\ term' = [term EXCEPT ![on[w]] = held[w]]
          /\ rt' = [rt EXCEPT ![held[w]] = "live"]
          /\ UNCHANGED owner
      BY <1>3, <2>3, <3>1 DEF Install, SetSessionState, CanTransition
    <3> QED
      BY <2>1, <3>1, <3>2 DEF TypeOK, OneRuntime, Current
  <2> QED
    BY <2>2, <2>3
<1>4. ASSUME NEW w \in Workers, InstallRejected(w) PROVE OneRuntime'
  BY <1>4, RuntimeSame DEF InstallRejected
<1>5. ASSUME NEW w \in Workers, ReapOrphan(w) PROVE OneRuntime'
  <2>1. held[w] \in Terms /\ rt[held[w]] = "held"
    BY <1>5 DEF ReapOrphan, At, TypeOK, Placed, HoldOK
  <2> QED
    BY <1>5, <2>1 DEF ReapOrphan, TypeOK, OneRuntime, Current
<1>6. ASSUME NEW w \in Workers, MarkFailed(w) PROVE OneRuntime'
  <2>1. on[w] \in Sessions
    BY <1>6 DEF MarkFailed, At, Placed, WorkOK, TypeOK
  <2> QED
    BY <1>6, <2>1, RuntimeIdle DEF MarkFailed
<1>7. ASSUME NEW w \in Workers, Opened(w) PROVE OneRuntime'
  BY <1>7, RuntimeSame DEF Opened
<1>8. ASSUME NEW w \in Workers, EditorFails(w) PROVE OneRuntime'
  BY <1>8, RuntimeSame DEF EditorFails
<1>9. ASSUME NEW w \in Workers, SetEditorRunning(w) PROVE OneRuntime'
  <2>1. on[w] \in Editors
    BY <1>9 DEF SetEditorRunning, At, EditorsOK
  <2> QED
    BY <1>9, <2>1 DEF SetEditorRunning, SetSessionState, TypeOK, OneRuntime, Current
<1>10. ASSUME NEW w \in Workers, SupervisorEnds(w) PROVE OneRuntime'
  BY <1>10, RuntimeSame DEF SupervisorEnds
<1>11. ASSUME NEW w \in Workers, KillUnknown(w) PROVE OneRuntime'
  BY <1>11, RuntimeSame DEF KillUnknown
<1>12. ASSUME NEW w \in Workers, KillNoTerminal(w) PROVE OneRuntime'
  BY <1>12, RuntimeSame DEF KillNoTerminal
<1>13. ASSUME NEW w \in Workers, KillTerminal(w) PROVE OneRuntime'
  BY <1>13, RuntimeSame DEF KillTerminal
<1>14. ASSUME NEW w \in Workers, Signal(w) PROVE OneRuntime'
  BY <1>14, RuntimeSame DEF Signal
<1>15. ASSUME NEW w \in Workers, SignalGroup(w) PROVE OneRuntime'
  BY <1>15, RuntimeSame DEF SignalGroup
<1>16. ASSUME NEW w \in Workers, GroupEnds(w) PROVE OneRuntime'
  BY <1>16, RuntimeSame DEF GroupEnds
<1>17. ASSUME NEW w \in Workers, WaitExit(w) PROVE OneRuntime'
  BY <1>17, RuntimeSame DEF WaitExit
<1>18. ASSUME NEW w \in Workers, WaitExpires(w) PROVE OneRuntime'
  BY <1>18, RuntimeSame DEF WaitExpires
<1>19. ASSUME NEW w \in Workers, Relaunch(w) PROVE OneRuntime'
  <2>1. on[w] \in Sessions
    BY <1>19 DEF Relaunch, At, Placed, WorkOK, TypeOK
  <2> QED
    BY <1>19, <2>1, RuntimeIdle DEF Relaunch
<1>20. ASSUME NEW w \in Workers, RelaunchFails(w) PROVE OneRuntime'
  BY <1>20, RuntimeSame DEF RelaunchFails
<1>21. ASSUME NEW w \in Workers, FailRestart(w) PROVE OneRuntime'
  <2>1. on[w] \in Sessions
    BY <1>21 DEF FailRestart, At, Placed, WorkOK, TypeOK
  <2> QED
    BY <1>21, <2>1 DEF FailRestart, TypeOK, OneRuntime, Current
<1>22. ASSUME NEW x \in Threads, CloseIfStopped(x) PROVE OneRuntime'
  BY <1>22, RuntimeSame DEF CloseIfStopped
<1>23. ASSUME NEW x \in Threads, CloseCheck(x) PROVE OneRuntime'
  BY <1>23, RuntimeSame DEF CloseCheck
<1>24. ASSUME NEW x \in Threads, Delete(x) PROVE OneRuntime'
  <2>1. on[x] \in Sessions
    BY <1>24 DEF Delete, At, Placed, WorkOK
  <2> QED
    BY <1>24, <2>1 DEF Delete, TypeOK, OneRuntime, Current
<1>25. ASSUME NEW w \in Workers, NEW s \in Sessions, Create(w, s) PROVE OneRuntime'
  BY <1>25 DEF Create, TypeOK, OneRuntime, Current
<1>26. ASSUME NEW w \in Workers, NEW s \in Sessions, Stop(w, s) PROVE OneRuntime'
  BY <1>26, RuntimeSame DEF Stop
<1>27. ASSUME NEW w \in Workers, NEW s \in Sessions, Sweep(w, s) PROVE OneRuntime'
  BY <1>27, RuntimeSame DEF Sweep
<1>28. ASSUME NEW w \in Workers, NEW s \in Sessions, Close(w, s) PROVE OneRuntime'
  BY <1>28, RuntimeSame DEF Close
<1>29. ASSUME NEW w \in Workers, NEW s \in Sessions, KillClose(w, s) PROVE OneRuntime'
  BY <1>29, RuntimeSame DEF KillClose
<1>30. ASSUME NEW w \in Workers, NEW s \in Sessions, Restart(w, s) PROVE OneRuntime'
  BY <1>30, RuntimeIdle DEF Restart
<1>31. ASSUME NEW w \in Workers, NEW s \in Sessions, RestartTask(w, s) PROVE OneRuntime'
  BY <1>31, RuntimeSame DEF RestartTask
<1>32. ASSUME NEW s \in Sessions, NEW t \in Terms, DelayedKill(s, t) PROVE OneRuntime'
  BY <1>32, RuntimeSame DEF DelayedKill
<1>33. ASSUME NEW t \in Terms, ChildExits(t) PROVE OneRuntime'
  BY <1>33, RuntimeSame DEF ChildExits
<1>34. ASSUME NEW t \in Terms, Eof(t) PROVE OneRuntime'
  BY <1>34 DEF Eof, TypeOK, OneRuntime, Current
<1>35. ASSUME NEW t \in Terms, RecordExit(t) PROVE OneRuntime'
  <2>1. rt[t] = "ending" /\ on[t] = owner[t] /\ on[t] \in Sessions
    BY <1>35 DEF RecordExit, At, TypeOK, Placed, ReapOK, WorkOK
  <2> QED
    BY <1>35, <2>1 DEF RecordExit, SetSessionState, CanTransition, TypeOK, OneRuntime, Current
<1>36. ASSUME Boot PROVE OneRuntime'
  BY <1>36 DEF Boot, IsActive, HasRow, TypeOK, OneRuntime, Current
<1>37. CASE UNCHANGED vars
  BY <1>37, RuntimeSame DEF vars
<1> QED
  BY <1>1, <1>2, <1>3, <1>4, <1>5, <1>6, <1>7, <1>8, <1>9, <1>10, <1>11, <1>12, <1>13,
     <1>14, <1>15, <1>16, <1>17, <1>18, <1>19, <1>20, <1>21, <1>22, <1>23, <1>24,
     <1>25, <1>26, <1>27, <1>28, <1>29, <1>30, <1>31, <1>32, <1>33, <1>34, <1>35,
     <1>36, <1>37
  DEF Next, WorkerStep, CloseStep, NewRequest

\* One thread moved; a worker that attended a session still does, and no row
\* became Starting.
LEMMA AttendedMove ==
  ASSUME TypeOK, StartingAttended, NEW x \in Threads, NEW place,
         NEW s, NEW t, Move(x, place, s, t),
         x \in Workers /\ pc[x] \in Starting => s = on[x] /\ place \in Starting,
         \A r \in Sessions : state'[r] = "starting" => state[r] = "starting"
  PROVE  StartingAttended'
<1> SUFFICES ASSUME NEW r \in Sessions, state'[r] = "starting"
             PROVE  \E v \in Workers : on'[v] = r /\ pc'[v] \in Starting
  BY DEF StartingAttended, Attended
<1>1. PICK v \in Workers : on[v] = r /\ pc[v] \in Starting
  BY DEF StartingAttended, Attended
<1>2. on'[v] = r /\ pc'[v] \in Starting
  BY <1>1, ThreadKinds DEF Move, TypeOK, Starting
<1> QED
  BY <1>2

\* The worker that made a row Starting attends it.
LEMMA AttendedStart ==
  ASSUME TypeOK, StartingAttended, NEW w \in Workers, NEW s \in Sessions, NEW t,
         Move(w, "spawn", s, t), pc[w] \notin Starting,
         \A r \in Sessions \ {s} : state'[r] = state[r]
  PROVE  StartingAttended'
<1> SUFFICES ASSUME NEW r \in Sessions, state'[r] = "starting"
             PROVE  \E v \in Workers : on'[v] = r /\ pc'[v] \in Starting
  BY DEF StartingAttended, Attended
<1>1. CASE r = s
  BY <1>1, ThreadKinds DEF Move, TypeOK, Starting
<1>2. CASE r # s
  <2>1. PICK v \in Workers : on[v] = r /\ pc[v] \in Starting
    BY <1>2 DEF StartingAttended, Attended
  <2>2. on'[v] = r /\ pc'[v] \in Starting
    BY <2>1, ThreadKinds DEF Move, TypeOK
  <2> QED
    BY <2>2
<1> QED
  BY <1>1, <1>2

\* The worker that leaves a row behind has taken it out of Starting.
LEMMA AttendedLeave ==
  ASSUME TypeOK, StartingAttended, NEW w \in Workers, NEW place, Goto(w, place),
         NEW next \in {"running", "failed"}, NEW t, SetSessionState(on[w], next, t),
         CanTransition("starting", next)
  PROVE  StartingAttended'
<1> SUFFICES ASSUME NEW r \in Sessions, state'[r] = "starting"
             PROVE  \E v \in Workers : on'[v] = r /\ pc'[v] \in Starting
  BY DEF StartingAttended, Attended
<1>1. state[r] = "starting" /\ r # on[w]
  BY DEF SetSessionState, TypeOK
<1>2. PICK v \in Workers : on[v] = r /\ pc[v] \in Starting
  BY <1>1 DEF StartingAttended, Attended
<1>3. on'[v] = r /\ pc'[v] \in Starting
  BY <1>1, <1>2, ThreadKinds DEF Goto, Move, TypeOK
<1> QED
  BY <1>3

\* No step leaves a Starting row without a worker.
LEMMA AttendedStep == ASSUME TypeOK, Placed, StartingAttended, [Next]_vars PROVE StartingAttended'
<1> USE ThreadKinds DEF core, ptys, work
<1>1. ASSUME NEW w \in Workers, SpawnPty(w) PROVE StartingAttended'
  BY <1>1, AttendedMove DEF SpawnPty, At, Starting
<1>2. ASSUME NEW w \in Workers, SpawnFails(w) PROVE StartingAttended'
  BY <1>2, AttendedMove DEF SpawnFails, Goto, At, Starting
<1>3. ASSUME NEW w \in Workers, Install(w) PROVE StartingAttended'
  <2>1. CASE on[w] \in Editors
    BY <1>3, <2>1, AttendedMove DEF Install, Goto, At, Starting
  <2>2. CASE on[w] \notin Editors
    BY <1>3, <2>2, AttendedLeave DEF Install, CanTransition
  <2> QED
    BY <2>1, <2>2
<1>4. ASSUME NEW w \in Workers, InstallRejected(w) PROVE StartingAttended'
  BY <1>4, AttendedMove DEF InstallRejected, Goto, At, Starting
<1>5. ASSUME NEW w \in Workers, ReapOrphan(w) PROVE StartingAttended'
  BY <1>5, AttendedMove DEF ReapOrphan, Goto, At, Starting
<1>6. ASSUME NEW w \in Workers, MarkFailed(w) PROVE StartingAttended'
  BY <1>6, AttendedLeave DEF MarkFailed, Return, CanTransition
<1>7. ASSUME NEW w \in Workers, Opened(w) PROVE StartingAttended'
  BY <1>7, AttendedMove DEF Opened, Goto, At, Starting
<1>8. ASSUME NEW w \in Workers, EditorFails(w) PROVE StartingAttended'
  BY <1>8, AttendedMove DEF EditorFails, Goto, At, Starting
<1>9. ASSUME NEW w \in Workers, SetEditorRunning(w) PROVE StartingAttended'
  BY <1>9, AttendedLeave DEF SetEditorRunning, CanTransition
<1>10. ASSUME NEW w \in Workers, SupervisorEnds(w) PROVE StartingAttended'
  BY <1>10, AttendedMove DEF SupervisorEnds, Goto, At, Starting
<1>11. ASSUME NEW w \in Workers, KillUnknown(w) PROVE StartingAttended'
  BY <1>11, AttendedMove DEF KillUnknown, Goto, At, Starting
<1>12. ASSUME NEW w \in Workers, KillNoTerminal(w) PROVE StartingAttended'
  BY <1>12, AttendedMove DEF KillNoTerminal, Goto, Return, At, Starting
<1>13. ASSUME NEW w \in Workers, KillTerminal(w) PROVE StartingAttended'
  <2>1. CASE rt[term[on[w]]] = "live"
    BY <1>13, <2>1, AttendedMove DEF KillTerminal, At, Starting
  <2>2. CASE rt[term[on[w]]] # "live"
    BY <1>13, <2>2, AttendedMove DEF KillTerminal, Return, Goto, At, Starting
  <2> QED
    BY <2>1, <2>2
<1>14. ASSUME NEW w \in Workers, Signal(w) PROVE StartingAttended'
  BY <1>14, AttendedMove DEF Signal, Goto, Return, At, Starting
<1>15. ASSUME NEW w \in Workers, SignalGroup(w) PROVE StartingAttended'
  BY <1>15, AttendedMove DEF SignalGroup, Goto, At, Starting
<1>16. ASSUME NEW w \in Workers, GroupEnds(w) PROVE StartingAttended'
  BY <1>16, AttendedMove DEF GroupEnds, Goto, At, Starting
<1>17. ASSUME NEW w \in Workers, WaitExit(w) PROVE StartingAttended'
  BY <1>17, AttendedMove DEF WaitExit, Goto, At, Starting
<1>18. ASSUME NEW w \in Workers, WaitExpires(w) PROVE StartingAttended'
  BY <1>18, AttendedMove DEF WaitExpires, Goto, At, Starting
<1>19. ASSUME NEW w \in Workers, Relaunch(w) PROVE StartingAttended'
  <2>1. on[w] \in Sessions
    BY <1>19 DEF Relaunch, At, Placed, WorkOK, TypeOK
  <2> QED
    BY <1>19, <2>1, AttendedStart DEF Relaunch, SetSessionState, Goto, At, Starting, TypeOK
<1>20. ASSUME NEW w \in Workers, RelaunchFails(w) PROVE StartingAttended'
  BY <1>20, AttendedMove DEF RelaunchFails, Goto, Return, At, Starting
<1>21. ASSUME NEW w \in Workers, FailRestart(w) PROVE StartingAttended'
  <2>1. \A r \in Sessions : state'[r] = "starting" => state[r] = "starting"
    BY <1>21 DEF FailRestart, TypeOK
  <2> QED
    BY <1>21, <2>1, AttendedMove DEF FailRestart, Goto, At, Starting
<1>22. ASSUME NEW x \in Threads, CloseIfStopped(x) PROVE StartingAttended'
  BY <1>22, AttendedMove DEF CloseIfStopped, Goto, At, Starting
<1>23. ASSUME NEW x \in Threads, CloseCheck(x) PROVE StartingAttended'
  BY <1>23, AttendedMove DEF CloseCheck, Goto, At, Starting
<1>24. ASSUME NEW x \in Threads, Delete(x) PROVE StartingAttended'
  <2>1. \A r \in Sessions : state'[r] = "starting" => state[r] = "starting"
    BY <1>24 DEF Delete, TypeOK
  <2> QED
    BY <1>24, <2>1, AttendedMove DEF Delete, Goto, At, Starting
<1>25. ASSUME NEW w \in Workers, NEW s \in Sessions, Create(w, s) PROVE StartingAttended'
  BY <1>25, AttendedStart DEF Create, Begin, At, Starting, TypeOK
<1>26. ASSUME NEW w \in Workers, NEW s \in Sessions, Stop(w, s) PROVE StartingAttended'
  BY <1>26, AttendedMove DEF Stop, Begin, At, Starting
<1>27. ASSUME NEW w \in Workers, NEW s \in Sessions, Sweep(w, s) PROVE StartingAttended'
  BY <1>27, AttendedMove DEF Sweep, Begin, At, Starting
<1>28. ASSUME NEW w \in Workers, NEW s \in Sessions, Close(w, s) PROVE StartingAttended'
  BY <1>28, AttendedMove DEF Close, Begin, At, Starting
<1>29. ASSUME NEW w \in Workers, NEW s \in Sessions, KillClose(w, s) PROVE StartingAttended'
  BY <1>29, AttendedMove DEF KillClose, At, Starting
<1>30. ASSUME NEW w \in Workers, NEW s \in Sessions, Restart(w, s) PROVE StartingAttended'
  BY <1>30, AttendedStart DEF Restart, SetSessionState, Begin, At, Starting, TypeOK
<1>31. ASSUME NEW w \in Workers, NEW s \in Sessions, RestartTask(w, s) PROVE StartingAttended'
  BY <1>31, AttendedMove DEF RestartTask, Begin, At, Starting
<1>32. ASSUME NEW s \in Sessions, NEW t \in Terms, DelayedKill(s, t) PROVE StartingAttended'
  BY <1>32 DEF DelayedKill, StartingAttended, Attended
<1>33. ASSUME NEW t \in Terms, ChildExits(t) PROVE StartingAttended'
  BY <1>33 DEF ChildExits, StartingAttended, Attended
<1>34. ASSUME NEW t \in Terms, Eof(t) PROVE StartingAttended'
  BY <1>34, AttendedMove DEF Eof, Starting
<1>35. ASSUME NEW t \in Terms, RecordExit(t) PROVE StartingAttended'
  <2>1. \A r \in Sessions : state'[r] = "starting" => state[r] = "starting"
    BY <1>35 DEF RecordExit, SetSessionState, TypeOK
  <2> QED
    BY <1>35, <2>1, AttendedMove DEF RecordExit, Goto, At, Starting
<1>36. ASSUME Boot PROVE StartingAttended'
  BY <1>36 DEF Boot, IsActive, HasRow, StartingAttended
<1>37. CASE UNCHANGED vars
  BY <1>37 DEF vars, StartingAttended, Attended
<1> QED
  BY <1>1, <1>2, <1>3, <1>4, <1>5, <1>6, <1>7, <1>8, <1>9, <1>10, <1>11, <1>12, <1>13,
     <1>14, <1>15, <1>16, <1>17, <1>18, <1>19, <1>20, <1>21, <1>22, <1>23, <1>24,
     <1>25, <1>26, <1>27, <1>28, <1>29, <1>30, <1>31, <1>32, <1>33, <1>34, <1>35,
     <1>36, <1>37
  DEF Next, WorkerStep, CloseStep, NewRequest

-----------------------------------------------------------------------------

\* The initial state satisfies the invariant.
LEMMA SessionInit == Init => IInv
<1> SUFFICES ASSUME Init PROVE IInv
  OBVIOUS
<1>1. TypeOK
  BY SessionAssumption DEF Init, TypeOK, States, Places, Terms
<1>2. WorkOK /\ IdsOK /\ HoldOK /\ ReapOK /\ EditorsOK
  BY ThreadKinds DEF Init, WorkOK, IdsOK, HoldOK, ReapOK, EditorsOK
<1>3. OneRuntime /\ StartingAttended
  BY DEF Init, OneRuntime, Current, StartingAttended
<1> QED
  BY <1>1, <1>2, <1>3 DEF IInv

\* A child outside the map has its worker, by what HoldOK says of both.
LEMMA HeldByOne == ASSUME TypeOK, HoldOK PROVE NoStrayChild
<1> SUFFICES ASSUME NEW t \in Terms, rt[t] = "held"
             PROVE  \E w \in Workers :
                      /\ held[w] = t /\ on[w] = owner[t] /\ pc[w] \in {"install", "orphan"}
                      /\ \A v \in Workers \ {w} : held[v] # t
  BY DEF NoStrayChild
<1>1. PICK w \in Workers : held[w] = t
  BY DEF HoldOK
<1>2. pc[w] \in {"install", "orphan"} /\ on[w] = owner[t]
  BY <1>1, ThreadKinds DEF HoldOK
<1>3. \A v \in Workers \ {w} : held[v] # t
  BY <1>1, ThreadKinds DEF HoldOK
<1> QED
  BY <1>1, <1>2, <1>3

\* The invariant of sessions, terminals and threads is inductive, for any number
\* of sessions, workers, PTYs and requests, and across crashes of the daemon.
THEOREM SessionInvariant == Spec => []IInv
<1>1. Init => IInv
  BY SessionInit
<1>2. IInv /\ [Next]_vars => IInv'
  <2> SUFFICES ASSUME IInv, [Next]_vars PROVE IInv'
    OBVIOUS
  <2>1. Placed
    BY DEF IInv, Placed
  <2>2. TypeOK' /\ Placed'
    BY <2>1, TypeStep, PlacedStep DEF IInv
  <2>3. EditorsOK' /\ OneRuntime' /\ StartingAttended'
    BY <2>1, EditorsStep, RuntimeStep, AttendedStep DEF IInv
  <2> QED
    BY <2>2, <2>3 DEF IInv, Placed
<1> QED
  BY <1>1, <1>2, PTL DEF Spec

\* Every reachable state of the session core has the declared shape.
THEOREM SessionTypes == Spec => []TypeOK
<1>1. IInv => TypeOK
  BY DEF IInv
<1> QED
  BY <1>1, SessionInvariant, PTL

\* A shell, agent or task never has two runtimes, and a Running row shows its own,
\* whatever stops, restarts and exits cross a spawn.
THEOREM RuntimeUnique == Spec => []OneRuntime
<1>1. IInv => OneRuntime
  BY DEF IInv
<1> QED
  BY <1>1, SessionInvariant, PTL

\* A Starting session always has a worker that will start or fail it.
THEOREM StartsAttended == Spec => []StartingAttended
<1>1. IInv => StartingAttended
  BY DEF IInv
<1> QED
  BY <1>1, SessionInvariant, PTL

\* A child whose runtime is not in the map has exactly one worker, which will
\* install it or kill and reap it.
THEOREM ChildrenHeld == Spec => []NoStrayChild
<1>1. IInv => NoStrayChild
  BY HeldByOne DEF IInv
<1> QED
  BY <1>1, SessionInvariant, PTL

=============================================================================
