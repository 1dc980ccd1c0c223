------------------------ MODULE OrchestrationProofs -------------------------
(***************************************************************************)
(* The ledger, for any tasks, sessions, handlers and limits: its rows      *)
(* agree with each other and with SQLite, and it takes every task through  *)
(* the moves of TaskBoard only.  What is known of a task relates its row   *)
(* to the rows of its attempts: the attempts are numbered by their slots   *)
(* up to the number used, all but the newest are over, and the phase of    *)
(* the newest goes with the status.                                        *)
(***************************************************************************)
EXTENDS Orchestration, FiniteSetTheorems, TLAPS

\* Phases an attempt never leaves, and the phase of a slot without one.
Over == {"none", "Lost", "Rejected"}

\* Statuses with a report to decide on, and those before a start.
Decided == {"Review", "Blocked", "Accepted"}
Waiting == {"none", "Pending", "Ready"}

\* Attempts of the row k that were inserted, when m starts were not.
Inserted(k, m) == IF m = 1 THEN k.used - 1 ELSE k.used

\* A task's row k and its attempts a; m is 1 when the last start was not inserted.
RowOK(k, a, m) ==
  /\ m = 1 => k.used >= 1 /\ k.status \in {"Active", "Cancelled", "Integrated"}
  /\ \A i \in Slots : a[i].phase # "none" <=> i <= Inserted(k, m)
  /\ \A i \in Slots : a[i].phase # "none" => a[i].n = i
  /\ \A i \in Slots : i < Inserted(k, m) \/ m = 1 \/ k.status \in Waiting => a[i].phase \in Over
  /\ \A i \in Slots : a[i].phase = "Running" => k.status \in {"Active", "Integrated"}
  /\ m = 0 /\ k.status = "Active" =>
       Inserted(k, m) \in Slots /\ a[Inserted(k, m)].phase = "Running"
  /\ k.status \in Decided =>
       Inserted(k, m) \in Slots /\ a[Inserted(k, m)].phase = "Reported"
  /\ k.status = "none" => k.used = 0

\* The row before its last start.
Unstarted(k) == [k EXCEPT !.status = "Ready", !.used = k.used - 1]

\* The row d in SQLite of a task whose row is k: the same, but for a start that
\* could not be inserted.
Written(k, d, m) ==
  \/ d = k
  \/ m = 1 /\ k.status = "Active" /\ k.used >= 1 /\ d = Unstarted(k)

\* Starts of a task that could not be inserted.
Missing(t) == IF t \in stranded THEN 1 ELSE 0

RowsOK == \A t \in Tasks : RowOK(tasks[t], attempts[t], Missing(t))

Saved ==
  /\ \A t \in Tasks : Written(tasks[t], disk.tasks[t], Missing(t))
  /\ disk.attempts = attempts

\* A task that waits has something to wait for.
Waits == \A t \in Tasks : tasks[t].status = "Pending" => ~DependenciesMet(tasks[t].after, Status)

\* What a handler took along still holds.
Taken == \A x \in Handlers :
  /\ h[x].op = "report" => h[x].used = h[x].slot
  /\ h[x].op = "integrate" => Exists(h[x].task)

Starters == {a \in LiveAttempts :
               WritesThere(a) /\ attempts[a[1]][a[2]].session \notin revived}

AtMostOne == \A a, b \in Starters : a = b

IInv == TypeOK /\ RowsOK /\ Saved /\ Waits /\ Taken /\ AtMostOne

-----------------------------------------------------------------------------
(* The rows of one task, whatever happens to it.                           *)

DiskRow == [run : RunRow, tasks : [Tasks -> TaskRow],
            attempts : [Tasks -> [Slots -> AttemptRow]]]

\* An attempt works on the task.
Worked(a) == \E i \in Slots : a[i].phase = "Running"

LEMMA SlotsAreNumbers == Slots \subseteq Nat /\ MaxAttempts \in Nat
BY LimitAssumption DEF Slots

\* The numbers and phases of the attempts stay, their sessions may go.
LEMMA KeptRow ==
  ASSUME NEW k, NEW a, NEW a2, NEW m, RowOK(k, a, m),
         \A i \in Slots : a2[i].phase = a[i].phase /\ a2[i].n = a[i].n
  PROVE  RowOK(k, a2, m) /\ (Worked(a2) <=> Worked(a))
BY DEF RowOK, Inserted, Worked

\* Only the newest attempt may be live, and of a stranded task none is.
LEMMA NewestWorks ==
  ASSUME NEW k \in TaskRow, NEW a, NEW m \in {0, 1}, RowOK(k, a, m), Worked(a)
  PROVE  /\ m = 0 /\ k.used \in Slots /\ k.status \in {"Active", "Integrated"}
         /\ \A i \in Slots : a[i].phase = "Running" <=> i = k.used
<1>1. PICK i \in Slots : a[i].phase = "Running"
  BY DEF Worked
<1>2. m = 0 /\ ~(i < k.used) /\ i <= k.used /\ k.status \in {"Active", "Integrated"}
  BY <1>1 DEF RowOK, Inserted, Over
<1>3. i = k.used /\ i \in Nat
  BY <1>2, SlotsAreNumbers DEF TaskRow
<1>4. \A j \in Slots : a[j].phase = "Running" => ~(j < k.used) /\ j <= k.used
  BY <1>2 DEF RowOK, Inserted, Over
<1>5. \A j \in Slots : a[j].phase = "Running" => j = k.used
  BY <1>4, SlotsAreNumbers DEF TaskRow
<1> QED BY <1>1, <1>2, <1>3, <1>5

\* The live attempt is lost, and its task moves on.
LEMMA LostRow ==
  ASSUME NEW k \in TaskRow, NEW a, NEW a2, NEW m \in {0, 1}, RowOK(k, a, m), Worked(a),
         \A i \in Slots : a2[i].n = a[i].n,
         \A i \in Slots : a2[i].phase = IF a[i].phase = "Running" THEN "Lost" ELSE a[i].phase,
         NEW k2,
         k2 = IF k.status \in {"Active", "Blocked"}
                THEN [k EXCEPT !.status = TaskStatusAfterLoss(k.used)] ELSE k
  PROVE  RowOK(k2, a2, m) /\ ~Worked(a2)
<1>1. /\ m = 0 /\ k.used \in Slots /\ k.status \in {"Active", "Integrated"}
      /\ \A i \in Slots : a[i].phase = "Running" <=> i = k.used
  BY NewestWorks
<1>2. ~Worked(a2) /\ a2[k.used].phase = "Lost"
  BY <1>1 DEF Worked
<1>3. k2.used = k.used /\ k2.status \in {"Ready", "Failed", "Integrated"}
  BY <1>1 DEF TaskStatusAfterLoss, TaskRow
<1>4. \A i \in Slots : i <= k.used => a2[i].phase \in Over
  BY <1>1, SlotsAreNumbers DEF RowOK, Inserted, Over, TaskRow
<1>5. \A i \in Slots : a2[i].phase # "none" <=> a[i].phase # "none"
  OBVIOUS
<1>6. \A i \in Slots : ~(i <= k.used) => a2[i].phase \in Over
  BY <1>1, <1>5 DEF RowOK, Inserted, Over
<1>7. \A i \in Slots : a2[i].phase \in Over
  BY <1>4, <1>6
<1> QED BY <1>1, <1>2, <1>3, <1>5, <1>7 DEF RowOK, Inserted, Decided, Waiting, Over

LEMMA MissingIsBit ==
  \A t : /\ Missing(t) \in {0, 1} /\ (Missing(t) = 1 <=> t \in stranded)
        /\ Missing(t)' \in {0, 1} /\ (Missing(t)' = 1 <=> t \in stranded')
BY DEF Missing

\* No attempt of a waiting task is live, and the next slot is free.
LEMMA StartedRow ==
  ASSUME NEW k \in TaskRow, NEW a, NEW m \in {0, 1}, RowOK(k, a, m),
         k.status \in {"Ready", "Pending"}, NEW k2, NEW a2,
         k2.status = "Active", k2.used = k.used + 1, k2.used \in Slots,
         \A i \in Slots : i # k2.used => a2[i] = a[i],
         a2[k2.used].phase = "Running", a2[k2.used].n = k2.used
  PROVE  RowOK(k2, a2, m) /\ m = 0 /\ ~Worked(a) /\ Worked(a2)
<1>1. m = 0 /\ k.used \in Nat /\ k.used + 1 \in Slots
  BY SlotsAreNumbers DEF RowOK, TaskRow
<1>2. \A i \in Slots : a[i].phase \in Over
  BY DEF RowOK, Waiting
<1>3. \A i \in Slots : a[i].phase # "none" <=> i <= k.used
  BY <1>1 DEF RowOK, Inserted
<1>4. \A i \in Slots : a[i].phase # "none" => a[i].n = i
  BY DEF RowOK
<1>5. \A i \in Slots : i <= k.used + 1 <=> i <= k.used \/ i = k.used + 1
  BY <1>1, SlotsAreNumbers
<1>6. \A i \in Slots : i < k.used + 1 <=> i <= k.used
  BY <1>1, SlotsAreNumbers
<1>7. \A i \in Slots : a2[i].phase # "none" <=> i <= k.used + 1
  BY <1>3, <1>5
<1>8. \A i \in Slots : i < k.used + 1 => a2[i].phase \in Over
  BY <1>1, <1>2, <1>6, SlotsAreNumbers
<1>9. \A i \in Slots : a2[i].phase # "none" => a2[i].n = i
  BY <1>4
<1> QED BY <1>1, <1>2, <1>7, <1>8, <1>9 DEF RowOK, Inserted, Decided, Waiting, Over, Worked

\* The start could not be inserted.
LEMMA StrandedRow ==
  ASSUME NEW k \in TaskRow, NEW a, NEW m \in {0, 1}, RowOK(k, a, m),
         k.status \in {"Ready", "Pending"}, NEW k2, k2.status = "Active", k2.used = k.used + 1
  PROVE  RowOK(k2, a, 1) /\ m = 0 /\ ~Worked(a)
<1>1. m = 0 /\ k.used \in Nat /\ k2.used >= 1 /\ k2.used - 1 = k.used
  BY DEF RowOK, TaskRow
<1>2. \A i \in Slots : a[i].phase \in Over
  BY DEF RowOK, Waiting
<1> QED BY <1>1, <1>2 DEF RowOK, Inserted, Decided, Waiting, Over, Worked

\* The live attempt reports.
LEMMA ReportedRow ==
  ASSUME NEW k \in TaskRow, NEW a, NEW a2, NEW m \in {0, 1}, RowOK(k, a, m),
         NEW i \in Slots, a[i].phase = "Running",
         \A j \in Slots : j # i => a2[j] = a[j],
         a2[i].phase = "Reported", a2[i].n = a[i].n,
         NEW k2, k2.status \in {"Review", "Blocked", "Failed"}, k2.used = k.used
  PROVE  RowOK(k2, a2, m) /\ ~Worked(a2)
<1>1. /\ m = 0 /\ k.used \in Slots
      /\ \A j \in Slots : a[j].phase = "Running" <=> j = k.used
  BY NewestWorks DEF Worked
<1>2. i = k.used
  BY <1>1
<1>3. \A j \in Slots : a2[j].phase # "none" <=> a[j].phase # "none"
  OBVIOUS
<1>4. \A j \in Slots : j < k.used => a2[j].phase \in Over
  BY <1>1, <1>2, SlotsAreNumbers DEF RowOK, Inserted
<1>5. \A j \in Slots : a2[j].phase # "none" => a2[j].n = j
  BY DEF RowOK
<1>6. \A j \in Slots : a2[j].phase # "Running"
  BY <1>1, <1>2
<1> QED BY <1>1, <1>2, <1>3, <1>4, <1>5, <1>6 DEF RowOK, Inserted, Decided, Waiting, Worked

\* No attempt of a task that is decided on is live.
LEMMA DecidedRow ==
  ASSUME NEW k, NEW a, NEW m \in {0, 1}, RowOK(k, a, m), k.status \in Decided \cup Waiting
  PROVE  m = 0 /\ ~Worked(a)
BY DEF RowOK, Decided, Waiting, Worked

\* Accepted, or failed for good, or made ready without an attempt.
LEMMA AcceptedRow ==
  ASSUME NEW k, NEW a, NEW m, RowOK(k, a, m), NEW k2, k2.used = k.used,
         \/ k.status \in Decided /\ k2.status \in {"Accepted", "Failed"}
         \/ k.status = "Pending" /\ k2.status = "Ready"
         \/ k.status # "none" /\ k2.status = "Integrated"
  PROVE  RowOK(k2, a, m)
<1>1. CASE k.status \in Decided /\ k2.status \in {"Accepted", "Failed"}
  BY <1>1 DEF RowOK, Decided, Waiting, Inserted
<1>2. CASE k.status = "Pending" /\ k2.status = "Ready"
  BY <1>2 DEF RowOK, Decided, Waiting, Inserted
<1>3. CASE k.status # "none" /\ k2.status = "Integrated"
  BY <1>3 DEF RowOK, Decided, Waiting, Inserted
<1> QED BY <1>1, <1>2, <1>3

\* The newest attempt of a task that is decided on becomes live, or is rejected.
LEMMA ReopenedRow ==
  ASSUME NEW k \in TaskRow, NEW a, NEW a2, NEW m \in {0, 1}, RowOK(k, a, m),
         k.status \in Decided,
         \A j \in Slots : j # k.used => a2[j] = a[j], a2[k.used].n = a[k.used].n,
         NEW k2, k2.used = k.used,
         \/ k2.status = "Active" /\ a2[k.used].phase = "Running"
         \/ k2.status = "Ready" /\ a2[k.used].phase = "Rejected"
  PROVE  RowOK(k2, a2, m) /\ (Worked(a2) <=> k2.status = "Active")
<1>1. m = 0 /\ k.used \in Slots /\ a[k.used].phase = "Reported"
  BY DEF RowOK, Decided, Inserted
<1>2. \A j \in Slots : j # k.used => a[j].phase \in Over
  BY <1>1, SlotsAreNumbers DEF RowOK, Inserted, Over, TaskRow
<1>3. \A j \in Slots : a2[j].phase # "none" <=> a[j].phase # "none"
  BY <1>1
<1>4. \A j \in Slots : a2[j].phase # "none" => a2[j].n = j
  BY <1>1 DEF RowOK
<1>5. \A j \in Slots : j < k.used => a2[j].phase \in Over
  <2>1. \A j \in Slots : j < k.used => j # k.used
    BY <1>1, SlotsAreNumbers
  <2> QED BY <2>1, <1>2
<1>6. \A j \in Slots : a2[j].phase = "Running" <=> j = k.used /\ k2.status = "Active"
  BY <1>1, <1>2 DEF Over
<1>7. k2.status = "Ready" => \A j \in Slots : a2[j].phase \in Over
  BY <1>1, <1>2 DEF Over
<1>8. Worked(a2) <=> k2.status = "Active"
  BY <1>1, <1>6 DEF Worked
<1> QED BY <1>1, <1>3, <1>4, <1>5, <1>6, <1>7, <1>8 DEF RowOK, Inserted, Decided, Waiting

\* Cancelled: its live attempt, if it has one, is lost.
LEMMA CancelledRow ==
  ASSUME NEW k \in TaskRow, NEW a, NEW a2, NEW m \in {0, 1}, RowOK(k, a, m),
         k.status # "none", \A i \in Slots : a2[i].n = a[i].n,
         \A i \in Slots : a2[i].phase = IF a[i].phase = "Running" THEN "Lost" ELSE a[i].phase,
         NEW k2, k2.used = k.used, k2.status = "Cancelled"
  PROVE  RowOK(k2, a2, m) /\ ~Worked(a2)
<1>1. \A i \in Slots : a2[i].phase # "none" <=> a[i].phase # "none"
  OBVIOUS
<1>2. \A i \in Slots : a[i].phase \in Over => a2[i].phase \in Over
  BY DEF Over
<1>3. \A i \in Slots : i < Inserted(k, m) \/ m = 1 => a2[i].phase \in Over
  BY <1>2 DEF RowOK
<1>4. ~Worked(a2)
  BY DEF Worked
<1>5. Inserted(k2, m) = Inserted(k, m)
  BY DEF Inserted
<1> QED BY <1>1, <1>3, <1>4, <1>5 DEF RowOK, Decided, Waiting, Worked

-----------------------------------------------------------------------------
(* The moves of TaskBoard, from what a step does to the rows of a task.    *)

\* The status that the board sees.
BoardStatus(k, m) == IF m = 1 /\ k.status = "Active" THEN "Ready" ELSE k.status

\* The board sees the same task.
SameForBoard(t) ==
  /\ BoardStatus(tasks'[t], Missing(t)') = BoardStatus(tasks[t], Missing(t))
  /\ Inserted(tasks'[t], Missing(t)') = Inserted(tasks[t], Missing(t))
  /\ tasks'[t].after = tasks[t].after
  /\ Worked(attempts'[t]) <=> Worked(attempts[t])

\* The board sees a task with another status, or another worker.
SameBudget(t) ==
  /\ Inserted(tasks'[t], Missing(t)') = Inserted(tasks[t], Missing(t))
  /\ tasks'[t].after = tasks[t].after

LEMMA WorkedIsLive ==
  ASSUME NEW t \in Tasks
  PROVE  /\ (Live(t) # {}) <=> Worked(attempts[t])
         /\ (Live(t) # {})' <=> Worked(attempts'[t])
BY DEF Live, IsLive, Worked

LEMMA BoardKeeps ==
  ASSUME NEW t \in Tasks, SameForBoard(t)
  PROVE  Board!Move(t)
<1>1. Missing(t) = 0 <=> t \notin stranded
  BY MissingIsBit
<1>2. Missing(t)' = 0 <=> t \notin stranded'
  BY MissingIsBit
<1> Board!Keep(t)
  BY <1>1, <1>2, MissingIsBit, WorkedIsLive DEF Board!Keep, SameForBoard, BoardStatus, Inserted
<1> QED BY DEF Board!Move

LEMMA BoardCreates ==
  ASSUME NEW t \in Tasks, tasks[t].status = "none", Missing(t) = 0, Missing(t)' = 0,
         tasks'[t].status \in {"Pending", "Ready"}, tasks'[t].used = 0,
         ~Worked(attempts'[t]), tasks'[t].after \subseteq Tasks,
         \A d \in tasks'[t].after : tasks[d].status # "none"
  PROVE  Board!Move(t)
<1>1. Missing(t) = 0 <=> t \notin stranded
  BY MissingIsBit
<1>2. Missing(t)' = 0 <=> t \notin stranded'
  BY MissingIsBit
<1> Board!Create(t)
  BY <1>1, <1>2, MissingIsBit, WorkedIsLive DEF Board!Create
<1> QED BY DEF Board!Move

LEMMA BoardPromotes ==
  ASSUME NEW t \in Tasks, tasks[t].status = "Pending",
         SameBudget(t), Worked(attempts'[t]) <=> Worked(attempts[t]), Missing(t) = 0,
         tasks'[t].status = "Ready", tasks[t].after \subseteq Tasks,
         \A d \in tasks[t].after : tasks'[d].status \in {"Accepted", "Integrated"}
  PROVE  Board!Move(t)
<1>1. Missing(t) = 0 <=> t \notin stranded
  BY MissingIsBit
<1>2. Missing(t)' = 0 <=> t \notin stranded'
  BY MissingIsBit
<1> Board!Promote(t)
  BY <1>1, <1>2, MissingIsBit, WorkedIsLive DEF Board!Promote, SameBudget, BoardStatus, Inserted,
       Board!DependenciesMet, Board!SatisfiesDependency
<1> QED BY DEF Board!Move

LEMMA BoardAssigns ==
  ASSUME NEW t \in Tasks, tasks[t].status \in {"Pending", "Ready"},
         Missing(t) = 0, Missing(t)' = 0,
         tasks'[t].status = "Active", tasks'[t].used = tasks[t].used + 1,
         tasks[t].used < MaxAttempts, tasks'[t].after = tasks[t].after,
         ~Worked(attempts[t]), Worked(attempts'[t]), tasks[t].after \subseteq Tasks,
         \A d \in tasks[t].after : tasks[d].status \in {"Accepted", "Integrated"}
  PROVE  Board!Move(t)
<1>1. Missing(t) = 0 <=> t \notin stranded
  BY MissingIsBit
<1>2. Missing(t)' = 0 <=> t \notin stranded'
  BY MissingIsBit
<1> Board!Assign(t)
  BY <1>1, <1>2, MissingIsBit, WorkedIsLive DEF Board!Assign, Board!DependenciesMet, Board!SatisfiesDependency
<1> QED BY DEF Board!Move

LEMMA BoardSettles ==
  ASSUME NEW t \in Tasks, NEW outcome \in ReportOutcome,
         tasks[t].status \in {"Active", "Integrated"}, Missing(t) = 0, Missing(t)' = 0,
         Worked(attempts[t]), ~Worked(attempts'[t]), tasks'[t].used = tasks[t].used,
         tasks'[t].status = TaskStatusAfterReport(outcome, tasks[t].used),
         tasks'[t].after = tasks[t].after
  PROVE  Board!Move(t)
<1>1. Missing(t) = 0 <=> t \notin stranded
  BY MissingIsBit
<1>2. Missing(t)' = 0 <=> t \notin stranded'
  BY MissingIsBit
<1> Board!Settle(t)
  BY <1>1, <1>2, MissingIsBit, WorkedIsLive DEF Board!Settle, Board!ReportOutcome, ReportOutcome,
       Board!TaskStatusAfterReport, TaskStatusAfterReport
<1> QED BY DEF Board!Move

LEMMA BoardLoses ==
  ASSUME NEW t \in Tasks, Missing(t) = 0, Missing(t)' = 0,
         Worked(attempts[t]), ~Worked(attempts'[t]), tasks'[t].used = tasks[t].used,
         tasks[t].status \in {"Active", "Integrated"},
         tasks'[t].status = IF tasks[t].status \in {"Active", "Blocked"}
                              THEN TaskStatusAfterLoss(tasks[t].used) ELSE tasks[t].status,
         tasks'[t].after = tasks[t].after
  PROVE  Board!Move(t)
<1>1. Missing(t) = 0 <=> t \notin stranded
  BY MissingIsBit
<1>2. Missing(t)' = 0 <=> t \notin stranded'
  BY MissingIsBit
<1> Board!Lose(t)
  BY <1>1, <1>2, MissingIsBit, WorkedIsLive DEF Board!Lose, Board!TaskStatusAfterLoss, TaskStatusAfterLoss
<1> QED BY DEF Board!Move

LEMMA BoardDecides ==
  ASSUME NEW t \in Tasks, tasks[t].status \in {"Review", "Blocked"},
         Missing(t) = 0, Missing(t)' = 0, ~Worked(attempts[t]), SameBudget(t),
         \/ tasks'[t].status \in {"Accepted", "Ready"} /\ ~Worked(attempts'[t])
         \/ tasks'[t].status = "Active" /\ Worked(attempts'[t])
         \/ /\ tasks'[t].status = "Failed" /\ tasks[t].used >= MaxAttempts
            /\ ~Worked(attempts'[t])
  PROVE  Board!Move(t)
<1>1. Missing(t) = 0 <=> t \notin stranded
  BY MissingIsBit
<1>2. Missing(t)' = 0 <=> t \notin stranded'
  BY MissingIsBit
<1> Board!Decide(t)
  BY <1>1, <1>2, MissingIsBit, WorkedIsLive DEF Board!Decide, SameBudget, Inserted
<1> QED BY DEF Board!Move

LEMMA BoardCancels ==
  ASSUME NEW t \in Tasks, tasks[t].status # "none", ~IsFinal(tasks[t].status), SameBudget(t),
         tasks'[t].status = "Cancelled", ~Worked(attempts'[t])
  PROVE  Board!Move(t)
<1>1. Missing(t) = 0 <=> t \notin stranded
  BY MissingIsBit
<1>2. Missing(t)' = 0 <=> t \notin stranded'
  BY MissingIsBit
<1> Board!Cancel(t)
  BY <1>1, <1>2, MissingIsBit, WorkedIsLive DEF Board!Cancel, Board!IsFinal, IsFinal, SameBudget, Inserted
<1> QED BY DEF Board!Move

LEMMA BoardIntegrates ==
  ASSUME NEW t \in Tasks, tasks[t].status # "none", SameBudget(t),
         tasks'[t].status = "Integrated", Worked(attempts'[t]) <=> Worked(attempts[t])
  PROVE  Board!Move(t)
<1>1. Missing(t) = 0 <=> t \notin stranded
  BY MissingIsBit
<1>2. Missing(t)' = 0 <=> t \notin stranded'
  BY MissingIsBit
<1> Board!Integrate(t)
  BY <1>1, <1>2, MissingIsBit, WorkedIsLive DEF Board!Integrate, SameBudget, Inserted
<1> QED BY DEF Board!Move

\* A step is a step of the board when every task makes a move of it.
LEMMA BoardStep ==
  ASSUME \A t \in Tasks : Board!Move(t)
  PROVE  Board!Next
BY DEF Board!Next

-----------------------------------------------------------------------------
(* Types.                                                                  *)

LEMMA TypesUnfolded ==
  ASSUME TypeOK
  PROVE  /\ run \in RunRow /\ run.controller \in Sessions \cup {None}
         /\ tasks \in [Tasks -> TaskRow] /\ disk \in DiskRow
         /\ attempts \in [Tasks -> [Slots -> AttemptRow]]
         /\ h \in [Handlers -> HandlerState]
         /\ sess \in [Sessions -> {"free", "live", "ended", "gone"}]
         /\ exits \subseteq Sessions /\ stranded \subseteq Tasks
BY DEF TypeOK, DiskRow, RunRow

LEMMA RowFields ==
  ASSUME TypeOK, NEW t \in Tasks
  PROVE  /\ tasks[t] \in TaskRow
         /\ tasks[t].status \in TaskStatus /\ tasks[t].used \in 0 .. MaxAttempts
         /\ tasks[t].used \in Nat /\ tasks[t].after \subseteq Tasks
         /\ tasks[t].mode \in {"Write", "ReadOnly"}
         /\ attempts[t] \in [Slots -> AttemptRow]
         /\ Missing(t) \in {0, 1}
BY SlotsAreNumbers, MissingIsBit DEF TypeOK, TaskRow

LEMMA AttemptFields ==
  ASSUME TypeOK, NEW t \in Tasks, NEW i \in Slots
  PROVE  /\ attempts[t][i] \in AttemptRow /\ attempts[t][i].n \in 0 .. MaxAttempts
         /\ attempts[t][i].session \in Sessions \cup {None}
         /\ attempts[t][i].place \in {"none", "own", "integration"}
         /\ attempts[t][i].phase \in AttemptPhase
         /\ attempts[t][i].outcome \in {"none"} \cup ReportOutcome
BY DEF TypeOK, AttemptRow

\* What a handler carries goes with what it does.
LEMMA HandlerFields ==
  ASSUME TypeOK, NEW x \in Handlers
  PROVE  /\ h[x].op = "resume" => h[x].session \in Sessions \cup {None}
         /\ h[x].op \in {"create", "cleanup"} => h[x].session \in Sessions
         /\ h[x].op = "start" => /\ h[x].task \in Tasks /\ h[x].session \in Sessions
                                 /\ h[x].place \in {"own", "integration"}
         /\ h[x].op \in {"retry", "integrate"} => h[x].task \in Tasks
         /\ h[x].op = "report" => /\ h[x].task \in Tasks /\ h[x].slot \in Slots
                                  /\ h[x].outcome \in ReportOutcome
                                  /\ h[x].used \in 0 .. MaxAttempts
<1>1. h[x] \in HandlerState
  BY TypesUnfolded
<1> QED BY <1>1 DEF HandlerState, Idle

LEMMA ClosingHandler ==
  ASSUME TypeOK, NEW x \in Handlers, h[x].op = "close"
  PROVE  h[x] \in [op : {"close"}, cancel : BOOLEAN, todo : SUBSET Tasks, now : SUBSET Tasks]
<1>1. h[x] \in HandlerState
  BY TypesUnfolded
<1> QED BY <1>1 DEF HandlerState, Idle

LEMMA IdleHandler == Idle \in HandlerState /\ Idle.op = "idle"
BY DEF HandlerState, Idle

\* A handler that moves on leaves the others alone.
LEMMA HandlerMoves ==
  ASSUME TypeOK, NEW x \in Handlers, NEW v \in HandlerState, Become(x, v)
  PROVE  h' \in [Handlers -> HandlerState] /\ h'[x] = v /\ \A y \in Handlers \ {x} : h'[y] = h[y]
<1> HIDE DEF HandlerState
<1> QED BY TypesUnfolded DEF Become

LEMMA HandlerDone ==
  ASSUME TypeOK, NEW x \in Handlers, Done(x)
  PROVE  /\ h' \in [Handlers -> HandlerState] /\ h'[x] = Idle
         /\ \A y \in Handlers \ {x} : h'[y] = h[y]
<1> HIDE DEF HandlerState
<1> QED BY TypesUnfolded, IdleHandler DEF Done

LEMMA SavedRows ==
  ASSUME NEW d \in DiskRow, NEW ts, NEW as, Save(d, ts, as),
         tasks' \in [Tasks -> TaskRow], attempts' \in [Tasks -> [Slots -> AttemptRow]]
  PROVE  /\ disk' \in DiskRow /\ disk'.run = d.run
         /\ \A t \in Tasks : disk'.tasks[t] = IF t \in ts THEN tasks'[t] ELSE d.tasks[t]
         /\ \A t \in Tasks : disk'.attempts[t] = IF t \in as THEN attempts'[t] ELSE d.attempts[t]
<1> HIDE DEF TaskRow, AttemptRow, RunRow
<1> QED BY DEF Save, DiskRow

LEMMA SavedRun ==
  ASSUME disk \in DiskRow, run' \in RunRow, SaveRun
  PROVE  disk' \in DiskRow /\ disk'.tasks = disk.tasks /\ disk'.attempts = disk.attempts
<1> HIDE DEF TaskRow, AttemptRow, RunRow
<1> QED BY DEF SaveRun, DiskRow

LEMMA SpawnTyped ==
  ASSUME TypeOK, NEW s \in Sessions, Spawn(s)
  PROVE  sess' \in [Sessions -> {"free", "live", "ended", "gone"}]
BY DEF TypeOK, Spawn

LEMMA BumpTyped ==
  ASSUME TypeOK, NEW ts, Bump(ts)
  PROVE  fresh' \subseteq Handlers \X Tasks
BY DEF TypeOK, Bump

LEMMA AskedTyped ==
  ASSUME TypeOK, asked < MaxRequests, Asked
  PROVE  asked' \in 0 .. MaxRequests /\ crashes' \in 0 .. MaxCrashes
BY LedgerAssumption DEF TypeOK, Asked

\* The type invariant, from its parts.
LEMMA TypesFolded ==
  ASSUME run' \in RunRow, tasks' \in [Tasks -> TaskRow],
         attempts' \in [Tasks -> [Slots -> AttemptRow]], disk' \in DiskRow,
         fresh' \subseteq Handlers \X Tasks, resuming' \in BOOLEAN, sequencer' \in BOOLEAN,
         sess' \in [Sessions -> {"free", "live", "ended", "gone"}], exits' \subseteq Sessions,
         h' \in [Handlers -> HandlerState], stranded' \subseteq Tasks, revived' \subseteq Sessions,
         asked' \in 0 .. MaxRequests, crashes' \in 0 .. MaxCrashes
  PROVE  TypeOK'
BY DEF TypeOK, DiskRow

-----------------------------------------------------------------------------
(* Steps that leave the rows alone.                                        *)

RowsKept ==
  /\ tasks' = tasks /\ attempts' = attempts /\ stranded' = stranded /\ revived' = revived
  /\ disk'.tasks = disk.tasks /\ disk'.attempts = disk.attempts

LEMMA KeptStep ==
  ASSUME IInv, RowsKept
  PROVE  RowsOK' /\ Saved' /\ Waits' /\ AtMostOne' /\ Board!Next
<1>1. RowsOK' /\ Saved'
  BY DEF IInv, RowsKept, RowsOK, Saved, Missing
<1>2. Waits'
  BY DEF IInv, RowsKept, Waits, DependenciesMet, Status
<1>3. AtMostOne'
  BY DEF IInv, RowsKept, AtMostOne, Starters, LiveAttempts, Live, WritesThere
<1>4. \A t \in Tasks : SameForBoard(t)
  BY DEF RowsKept, SameForBoard, Missing
<1> QED BY <1>1, <1>2, <1>3, <1>4, BoardKeeps, BoardStep

\* A handler that moves takes along what holds; no task is ever uncreated.
LEMMA TakenKept ==
  ASSUME IInv, \A t \in Tasks : Exists(t) => tasks'[t].status # "none",
         NEW x, \A y \in Handlers \ {x} : h'[y] = h[y],
         x \in Handlers => /\ h'[x].op = "report" => h'[x].used = h'[x].slot
                           /\ h'[x].op = "integrate" => tasks'[h'[x].task].status # "none"
  PROVE  Taken'
<1> SUFFICES ASSUME NEW y \in Handlers
             PROVE  /\ h'[y].op = "report" => h'[y].used = h'[y].slot
                    /\ h'[y].op = "integrate" => tasks'[h'[y].task].status # "none"
  BY DEF Taken, Exists
<1>1. CASE y = x
  BY <1>1
<1>2. CASE y # x
  BY <1>2, HandlerFields DEF IInv, Taken, Exists
<1> QED BY <1>1, <1>2

LEMMA TakenStays ==
  ASSUME IInv, \A t \in Tasks : Exists(t) => tasks'[t].status # "none", h' = h
  PROVE  Taken'
BY HandlerFields DEF IInv, Taken, Exists

\* What a quiet step has to show.
Quiet == TypeOK' /\ Taken' /\ RowsKept

LEMMA CreateRunQuiet ==
  ASSUME IInv, NEW x \in Handlers, CreateRun(x)
  PROVE  Quiet
<1>1. TypeOK
  BY DEF IInv
<1>2. CASE /\ run' = [status |-> "Active", controller |-> None]
           /\ SaveRun
           /\ UNCHANGED <<world, h>>
  <2>1. run' \in RunRow
    BY <1>2 DEF RunRow
  <2>2. RowsKept /\ disk' \in DiskRow
    BY <1>1, <1>2, <2>1, SavedRun, TypesUnfolded DEF CreateRun, RowsKept, marks
  <2>3. TypeOK'
    BY <1>1, <1>2, <2>1, <2>2, TypesFolded, TypesUnfolded
       DEF CreateRun, TypeOK, flags, world, marks, bounds
  <2>4. Taken'
    BY <1>2, TakenStays DEF CreateRun, Exists
  <2> QED BY <2>2, <2>3, <2>4 DEF Quiet
<1>3. ASSUME NEW s \in Sessions, Spawn(s), Become(x, [op |-> "create", session |-> s]),
             UNCHANGED <<run, disk>>
      PROVE  Quiet
  <2>1. [op |-> "create", session |-> s] \in HandlerState
    BY DEF HandlerState
  <2>2. /\ h' \in [Handlers -> HandlerState] /\ h'[x].op = "create"
        /\ \A y \in Handlers \ {x} : h'[y] = h[y]
    BY <1>1, <1>3, <2>1, HandlerMoves
  <2>3. TypeOK'
    BY <1>1, <1>3, <2>2, SpawnTyped, TypesFolded, TypesUnfolded
       DEF CreateRun, TypeOK, flags, marks, bounds, Spawn
  <2>4. Taken'
    BY <2>2, TakenKept DEF CreateRun, Exists
  <2> QED BY <1>3, <2>3, <2>4 DEF Quiet, RowsKept, CreateRun, marks
<1> QED BY <1>2, <1>3 DEF CreateRun

LEMMA CommitRunQuiet ==
  ASSUME IInv, NEW x \in Handlers, CommitRun(x)
  PROVE  Quiet
<1>1. TypeOK
  BY DEF IInv
<1>2. /\ h' \in [Handlers -> HandlerState] /\ h'[x].op = "idle"
      /\ \A y \in Handlers \ {x} : h'[y] = h[y]
  BY <1>1, HandlerDone, IdleHandler DEF CommitRun
<1>3. run' \in RunRow /\ ((run' = run /\ disk' = disk) \/ SaveRun)
  BY <1>1, HandlerFields, TypesUnfolded DEF CommitRun, RunRow
<1>4. RowsKept /\ disk' \in DiskRow
  BY <1>1, <1>3, SavedRun, TypesUnfolded DEF CommitRun, RowsKept, marks
<1>5. TypeOK'
  BY <1>1, <1>2, <1>3, <1>4, TypesFolded DEF CommitRun, TypeOK, flags, world, marks, bounds
<1>6. Taken'
  BY <1>2, TakenKept DEF CommitRun, Exists
<1> QED BY <1>4, <1>5, <1>6 DEF Quiet

LEMMA ResumeRunQuiet ==
  ASSUME IInv, NEW x \in Handlers, ResumeRun(x)
  PROVE  Quiet
<1>1. TypeOK
  BY DEF IInv
<1>2. RowsKept
  BY DEF ResumeRun, RowsKept, ledger, marks
<1>3. ASSUME NEW s \in Sessions \cup {None}, Become(x, [op |-> "resume", session |-> s]),
             sess' \in [Sessions -> {"free", "live", "ended", "gone"}], exits' = exits
      PROVE  Quiet
  <2>1. [op |-> "resume", session |-> s] \in HandlerState
    BY DEF HandlerState
  <2>2. /\ h' \in [Handlers -> HandlerState] /\ h'[x].op = "resume"
        /\ \A y \in Handlers \ {x} : h'[y] = h[y]
    BY <1>1, <1>3, <2>1, HandlerMoves
  <2>3. TypeOK'
    BY <1>1, <1>3, <2>2, AskedTyped, TypesFolded, TypesUnfolded
       DEF ResumeRun, Ask, TypeOK, ledger, marks
  <2>4. Taken'
    BY <2>2, TakenKept DEF ResumeRun, ledger, Exists
  <2> QED BY <1>2, <2>3, <2>4 DEF Quiet
<1>4. CASE Become(x, [op |-> "resume", session |-> None]) /\ UNCHANGED world
  BY <1>1, <1>3, <1>4, TypesUnfolded DEF world
<1>5. ASSUME NEW s \in Sessions, Spawn(s), Become(x, [op |-> "resume", session |-> s])
      PROVE  Quiet
  BY <1>1, <1>3, <1>5, SpawnTyped DEF Spawn
<1> QED BY <1>4, <1>5 DEF ResumeRun

LEMMA CommitResumeQuiet ==
  ASSUME IInv, NEW x \in Handlers, CommitResume(x)
  PROVE  Quiet
<1>1. TypeOK
  BY DEF IInv
<1>2. /\ h' \in [Handlers -> HandlerState] /\ h'[x].op = "idle"
      /\ \A y \in Handlers \ {x} : h'[y] = h[y]
  BY <1>1, HandlerDone, IdleHandler DEF CommitResume
<1>3. run' \in RunRow /\ (disk' = disk \/ SaveRun)
  BY <1>1, HandlerFields, TypesUnfolded DEF CommitResume, RunRow
<1>4. RowsKept /\ disk' \in DiskRow
  BY <1>1, <1>3, SavedRun, TypesUnfolded DEF CommitResume, RowsKept, marks
<1>5. TypeOK'
  BY <1>1, <1>2, <1>3, <1>4, TypesFolded DEF CommitResume, TypeOK, world, marks, bounds
<1>6. Taken'
  BY <1>2, TakenKept DEF CommitResume, Exists
<1> QED BY <1>4, <1>5, <1>6 DEF Quiet

LEMMA CommitCloseQuiet ==
  ASSUME IInv, NEW x \in Handlers, CommitClose(x)
  PROVE  Quiet
<1>1. TypeOK
  BY DEF IInv
<1>2. /\ h' \in [Handlers -> HandlerState] /\ h'[x].op = "idle"
      /\ \A y \in Handlers \ {x} : h'[y] = h[y]
  BY <1>1, HandlerDone, IdleHandler DEF CommitClose
<1>3. run' \in RunRow /\ (disk' = disk \/ SaveRun)
  BY <1>1, TypesUnfolded DEF CommitClose, RunRow
<1>4. RowsKept /\ disk' \in DiskRow
  BY <1>1, <1>3, SavedRun, TypesUnfolded DEF CommitClose, RowsKept, marks
<1>5. TypeOK'
  BY <1>1, <1>2, <1>3, <1>4, TypesFolded DEF CommitClose, TypeOK, flags, world, marks, bounds
<1>6. Taken'
  BY <1>2, TakenKept DEF CommitClose, Exists
<1> QED BY <1>4, <1>5, <1>6 DEF Quiet

LEMMA RefuseRetryQuiet ==
  ASSUME IInv, NEW x \in Handlers, RefuseRetry(x)
  PROVE  Quiet
<1>1. TypeOK
  BY DEF IInv
<1>2. /\ h' \in [Handlers -> HandlerState] /\ h'[x].op = "idle"
      /\ \A y \in Handlers \ {x} : h'[y] = h[y]
  BY <1>1, HandlerDone, IdleHandler DEF RefuseRetry
<1>3. TypeOK'
  BY <1>1, <1>2, TypesFolded, TypesUnfolded
     DEF RefuseRetry, TypeOK, ledger, flags, world, marks, bounds
<1>4. Taken'
  BY <1>2, TakenKept DEF RefuseRetry, ledger, Exists
<1> QED BY <1>3, <1>4 DEF RefuseRetry, Quiet, RowsKept, ledger, marks

\* A handler that only notes what it is about to do, with at most one request more.
LEMMA NotedQuiet ==
  ASSUME IInv, NEW x \in Handlers, NEW v \in HandlerState, Become(x, v),
         UNCHANGED <<ledger, disk, resuming, exits, marks, crashes>>,
         fresh' \subseteq Handlers \X Tasks, sequencer' \in BOOLEAN,
         sess' \in [Sessions -> {"free", "live", "ended", "gone"}],
         asked' \in 0 .. MaxRequests,
         v.op = "report" => v.used = v.slot,
         v.op = "integrate" => tasks[v.task].status # "none"
  PROVE  Quiet
<1>1. TypeOK
  BY DEF IInv
<1>2. /\ h' \in [Handlers -> HandlerState] /\ h'[x] = v
      /\ \A y \in Handlers \ {x} : h'[y] = h[y]
  BY <1>1, HandlerMoves
<1>3. TypeOK'
  BY <1>1, <1>2, TypesFolded, TypesUnfolded DEF TypeOK, ledger, marks
<1>4. Taken'
  BY <1>2, TakenKept DEF ledger, Exists
<1> QED BY <1>3, <1>4 DEF Quiet, RowsKept, ledger, marks

LEMMA StartAttemptQuiet ==
  ASSUME IInv, NEW x \in Handlers, NEW t \in Tasks, StartAttempt(x, t)
  PROVE  Quiet
<1>1. TypeOK /\ asked' \in 0 .. MaxRequests /\ crashes' = crashes
  BY AskedTyped DEF IInv, TypeOK, StartAttempt, Ask, Asked, bounds
<1>2. PICK place \in (IF h[x].op = "retry" THEN {"worktree"} ELSE Places), s \in Sessions :
        /\ Spawn(s)
        /\ Become(x, [op |-> "start", task |-> t,
                      place |-> Materialized(t, place), session |-> s])
  BY DEF StartAttempt
<1> DEFINE v == [op |-> "start", task |-> t, place |-> Materialized(t, place), session |-> s]
<1>3. v \in HandlerState /\ v.op = "start"
  BY DEF HandlerState, Materialized
<1>4. /\ sess' \in [Sessions -> {"free", "live", "ended", "gone"}] /\ exits' = exits
      /\ fresh' \subseteq Handlers \X Tasks /\ sequencer' \in BOOLEAN /\ resuming' = resuming
  BY <1>1, <1>2, SpawnTyped DEF Spawn, StartAttempt, flags, TypeOK
<1>5. Become(x, v)
  BY <1>2
<1> HIDE DEF v
<1> QED BY <1>1, <1>3, <1>4, <1>5, NotedQuiet DEF StartAttempt

LEMMA CloseRunQuiet ==
  ASSUME IInv, NEW x \in Handlers, NEW cancel \in BOOLEAN, CloseRun(x, cancel)
  PROVE  Quiet
<1> DEFINE todo == IF cancel THEN {t \in Tasks : Exists(t)} ELSE {}
           v == [op |-> "close", cancel |-> cancel, now |-> {}, todo |-> todo]
<1>1. todo \subseteq Tasks
  OBVIOUS
<1> HIDE DEF todo
<1>2. v \in HandlerState /\ v.op = "close"
  BY <1>1 DEF HandlerState
<1>3. Become(x, v)
  BY DEF CloseRun, todo
<1> HIDE DEF v
<1> QED BY <1>2, <1>3, AskedTyped, NotedQuiet
        DEF CloseRun, Ask, Asked, flags, world, IInv, TypeOK

LEMMA CloseReadsQuiet ==
  ASSUME IInv, NEW x \in Handlers, NEW t \in Tasks, CloseReads(x, t)
  PROVE  Quiet
<1> DEFINE v == [h[x] EXCEPT !.now = {t}, !.todo = @ \ {t}]
<1>1. v \in HandlerState /\ v.op = "close"
  BY ClosingHandler DEF CloseReads, IInv, HandlerState
<1>2. Become(x, v)
  BY DEF CloseReads
<1> HIDE DEF v
<1>3. fresh' \subseteq Handlers \X Tasks
  BY DEF CloseReads, IInv, TypeOK
<1> QED BY <1>1, <1>2, <1>3, NotedQuiet DEF CloseReads, IInv, TypeOK, world, bounds

LEMMA IntegrateMergeQuiet ==
  ASSUME IInv, NEW x \in Handlers, NEW t \in Tasks, IntegrateMerge(x, t)
  PROVE  Quiet
<1>1. TypeOK
  BY DEF IInv
<1>2. CASE Become(x, [op |-> "integrate", task |-> t]) /\ Asked /\ UNCHANGED sequencer
  <2>1. [op |-> "integrate", task |-> t] \in HandlerState
    BY DEF HandlerState
  <2> QED BY <1>1, <1>2, <2>1, AskedTyped, NotedQuiet
          DEF IntegrateMerge, Ask, Asked, world, TypeOK
<1>3. CASE sequencer' = TRUE /\ UNCHANGED <<h, bounds>>
  <2>1. TypeOK'
    BY <1>1, <1>3, TypesFolded, TypesUnfolded
       DEF IntegrateMerge, TypeOK, ledger, world, marks, bounds
  <2> QED BY <1>3, <2>1, TakenStays DEF IntegrateMerge, Quiet, RowsKept, ledger, marks, Exists
<1> QED BY <1>2, <1>3 DEF IntegrateMerge

LEMMA IntegrateContinueQuiet ==
  ASSUME IInv, NEW x \in Handlers, NEW t \in Tasks, IntegrateContinue(x, t)
  PROVE  Quiet
<1>1. [op |-> "integrate", task |-> t] \in HandlerState
  BY DEF HandlerState
<1> QED BY <1>1, AskedTyped, NotedQuiet
        DEF IntegrateContinue, Ask, Asked, world, IInv, TypeOK, Exists

LEMMA CleanupTaskQuiet ==
  ASSUME IInv, NEW x \in Handlers, NEW t \in Tasks, CleanupTask(x, t)
  PROVE  Quiet
<1>1. PICK s \in Sessions : Become(x, [op |-> "cleanup", session |-> s])
  BY DEF CleanupTask
<1>2. [op |-> "cleanup", session |-> s] \in HandlerState
  BY DEF HandlerState
<1> QED BY <1>1, <1>2, AskedTyped, NotedQuiet
        DEF CleanupTask, Ask, Asked, flags, world, IInv, TypeOK

LEMMA ReportAttemptQuiet ==
  ASSUME IInv, NEW x \in Handlers, NEW t \in Tasks, NEW i \in Slots,
         NEW outcome \in ReportOutcome, ReportAttempt(x, t, i, outcome)
  PROVE  Quiet
<1> DEFINE v == [op |-> "report", task |-> t, slot |-> i, outcome |-> outcome,
                 used |-> tasks[t].used]
<1>1. TypeOK /\ RowOK(tasks[t], attempts[t], Missing(t))
  BY DEF IInv, RowsOK
<1>2. v \in HandlerState /\ v.op = "report"
  BY <1>1, RowFields DEF HandlerState
<1>3. attempts[t][i].phase = "Running"
  BY DEF ReportAttempt, SettleReport, IsLive
<1>4. Worked(attempts[t])
  BY <1>3 DEF Worked
<1>5. tasks[t].used = i
  BY <1>1, <1>3, <1>4, NewestWorks, RowFields
<1>6. v.used = v.slot
  BY <1>5
<1>7. Become(x, v)
  BY DEF ReportAttempt
<1> HIDE DEF v
<1> QED BY <1>1, <1>2, <1>6, <1>7, AskedTyped, NotedQuiet
        DEF ReportAttempt, Ask, Asked, flags, world, TypeOK

\* A session that ends or is started again, and an aborted merge.
LEMMA WorldQuiet ==
  ASSUME IInv, \/ \E s \in Sessions : SessionEnds(s) \/ RestartSession(s)
               \/ IntegrateAbort
  PROVE  Quiet
<1>1. TypeOK
  BY DEF IInv
<1>2. ASSUME NEW s \in Sessions, SessionEnds(s)
      PROVE  Quiet
  <2>1. TypeOK'
    BY <1>1, <1>2, TypesFolded, TypesUnfolded
       DEF SessionEnds, TypeOK, ledger, flags, marks, bounds
  <2> QED BY <1>2, <2>1, TakenStays DEF SessionEnds, Quiet, RowsKept, ledger, marks, Exists
<1>3. ASSUME NEW s \in Sessions, RestartSession(s)
      PROVE  Quiet
  <2>1. TypeOK'
    BY <1>1, <1>3, AskedTyped, TypesFolded, TypesUnfolded
       DEF RestartSession, TypeOK, ledger, flags, marks
  <2> QED BY <1>3, <2>1, TakenStays DEF RestartSession, Quiet, RowsKept, ledger, marks, Exists
<1>4. CASE IntegrateAbort
  <2>1. TypeOK'
    BY <1>1, <1>4, TypesFolded, TypesUnfolded
       DEF IntegrateAbort, TypeOK, ledger, world, marks, bounds
  <2> QED BY <1>4, <2>1, TakenStays DEF IntegrateAbort, Quiet, RowsKept, ledger, marks, Exists
<1> QED BY <1>2, <1>3, <1>4

-----------------------------------------------------------------------------
(* Steps that move tasks.                                                  *)

LEMMA WaitsKept ==
  ASSUME IInv,
         \A t \in Tasks : tasks'[t].status = "Pending" =>
           tasks[t].status = "Pending" /\ tasks'[t].after = tasks[t].after,
         \A t \in Tasks : SatisfiesDependency(tasks'[t].status)
                            => SatisfiesDependency(tasks[t].status)
  PROVE  Waits'
<1> SUFFICES ASSUME NEW t \in Tasks, tasks'[t].status = "Pending",
                    \A d \in tasks'[t].after : SatisfiesDependency(tasks'[d].status)
             PROVE  FALSE
  BY RowFields DEF Waits, DependenciesMet, Status, IInv
<1>1. /\ tasks[t].status = "Pending" /\ tasks'[t].after = tasks[t].after
      /\ tasks[t].after \subseteq Tasks
  BY RowFields DEF IInv
<1>2. \A d \in tasks[t].after : SatisfiesDependency(tasks[d].status)
  BY <1>1
<1> QED BY <1>1, <1>2 DEF IInv, Waits, DependenciesMet, Status

\* No attempt becomes a live writer but one that is handed back.
LEMMA StartersKept ==
  ASSUME IInv, revived \subseteq revived',
         \A t \in Tasks : \A i \in Slots : attempts'[t][i].phase = "Running" =>
           \/ attempts'[t][i].session \in revived'
           \/ /\ attempts[t][i].phase = "Running" /\ tasks'[t].mode = tasks[t].mode
              /\ attempts'[t][i].session = attempts[t][i].session
              /\ attempts'[t][i].place = attempts[t][i].place
  PROVE  AtMostOne'
<1>1. Starters' \subseteq Starters
  BY DEF Starters, LiveAttempts, Live, IsLive, WritesThere
<1> QED BY <1>1 DEF IInv, AtMostOne

\* One task moves.
LEMMA OneRow ==
  ASSUME IInv, NEW t0 \in Tasks,
         attempts' \in [Tasks -> [Slots -> AttemptRow]], disk' \in DiskRow,
         \A t \in Tasks \ {t0} :
            /\ tasks'[t] = tasks[t] /\ attempts'[t] = attempts[t]
            /\ Missing(t)' = Missing(t)
            /\ disk'.tasks[t] = disk.tasks[t] /\ disk'.attempts[t] = disk.attempts[t],
         RowOK(tasks'[t0], attempts'[t0], Missing(t0)'),
         Written(tasks'[t0], disk'.tasks[t0], Missing(t0)'),
         disk'.attempts[t0] = attempts'[t0],
         Board!Move(t0)
  PROVE  RowsOK' /\ Saved' /\ Board!Next
<1>1. \A t \in Tasks \ {t0} : RowOK(tasks'[t], attempts'[t], Missing(t)')
  BY DEF IInv, RowsOK
<1>2. \A t \in Tasks \ {t0} : Written(tasks'[t], disk'.tasks[t], Missing(t)')
  BY DEF IInv, Saved
<1>3. disk'.attempts = attempts'
  <2>1. \A t \in Tasks : disk'.attempts[t] = attempts'[t]
    BY DEF IInv, Saved
  <2>2. disk'.attempts \in [Tasks -> [Slots -> AttemptRow]]
    BY DEF DiskRow
  <2> QED BY <2>1, <2>2
<1>4. \A t \in Tasks \ {t0} : SameForBoard(t)
  BY DEF SameForBoard
<1>5. \A t \in Tasks : Board!Move(t)
  BY <1>4, BoardKeeps
<1> QED BY <1>1, <1>2, <1>3, <1>5, BoardStep DEF RowsOK, Saved

\* What a step has to show.
Good == IInv' /\ Board!Next

LEMMA CreateTaskGood ==
  ASSUME IInv, NEW t \in Tasks, NEW after \in SUBSET Tasks, NEW mode \in Modes,
         CreateTask(t, after, mode)
  PROVE  Good
<1>1. TypeOK /\ Missing(t) = 0 /\ tasks[t].status = "none"
  BY MissingIsBit DEF IInv, CreateTask, Exists, RowsOK, RowOK
<1>2. /\ tasks' \in [Tasks -> TaskRow]
      /\ tasks'[t].status = (IF DependenciesMet(after, Status) THEN "Ready" ELSE "Pending")
      /\ tasks'[t].used = 0 /\ tasks'[t].after = after
      /\ \A u \in Tasks \ {t} : tasks'[u] = tasks[u]
  BY <1>1, TypesUnfolded, LedgerAssumption, SlotsAreNumbers DEF CreateTask, TaskRow, TaskStatus
<1>3. /\ attempts' = attempts /\ stranded' = stranded
      /\ \A u \in Tasks : Missing(u)' = Missing(u)
      /\ disk' \in DiskRow
      /\ \A u \in Tasks : disk'.tasks[u] = IF u = t THEN tasks'[u] ELSE disk.tasks[u]
      /\ \A u \in Tasks : disk'.attempts[u] = disk.attempts[u]
  BY <1>1, <1>2, SavedRows, TypesUnfolded DEF CreateTask, marks, Missing
<1>4. RowOK(tasks'[t], attempts'[t], Missing(t)') /\ ~Worked(attempts'[t])
  BY <1>1, <1>2, <1>3 DEF IInv, RowsOK, RowOK, Inserted, Waiting, Decided, Worked
<1>5. \A d \in after : d \in Tasks \ {t} /\ tasks[d].status # "none"
  BY <1>1 DEF CreateTask, Exists
<1>6. Board!Move(t)
  BY <1>1, <1>2, <1>3, <1>4, <1>5, BoardCreates
<1>7. RowsOK' /\ Saved' /\ Board!Next
  BY <1>1, <1>2, <1>3, <1>4, <1>6, OneRow, TypesUnfolded DEF IInv, Saved, Written
<1>8. TypeOK'
  BY <1>1, <1>2, <1>3, TypesFolded, TypesUnfolded
     DEF CreateTask, TypeOK, flags, world, marks, bounds
<1>9. Taken'
  BY <1>1, <1>2, TakenStays DEF CreateTask, Exists
<1>10. Waits'
  <2>1. \A u \in Tasks \ {t} : SatisfiesDependency(tasks'[u].status)
                                 <=> SatisfiesDependency(tasks[u].status)
    BY <1>2
  <2>2. ~SatisfiesDependency(tasks'[t].status) /\ ~SatisfiesDependency(tasks[t].status)
    BY <1>1, <1>2 DEF SatisfiesDependency
  <2>3. \A s \in SUBSET Tasks : DependenciesMet(s, Status') <=> DependenciesMet(s, Status)
    BY <2>1, <2>2 DEF DependenciesMet, Status
  <2> QED BY <1>2, <2>3, RowFields DEF IInv, Waits
<1>11. AtMostOne'
  BY <1>1, <1>2, <1>3, <1>4, StartersKept DEF CreateTask, marks, Worked
<1> QED BY <1>7, <1>8, <1>9, <1>10, <1>11 DEF Good, IInv

LEMMA FreeSlotIsNext ==
  ASSUME IInv, NEW t \in Tasks, Missing(t) = 0, tasks[t].used < MaxAttempts
  PROVE  FreeSlot(t) = tasks[t].used + 1 /\ FreeSlot(t) \in Slots
<1> DEFINE n == tasks[t].used
           P(i) == i \notin Rows(t) /\ \A j \in Slots : j < i => j \in Rows(t)
<1>1. n \in Nat /\ n + 1 \in Slots
  BY RowFields, SlotsAreNumbers DEF IInv, Slots
<1>2. \A i \in Slots : i \in Rows(t) <=> i <= n
  BY DEF IInv, RowsOK, RowOK, Inserted, Rows
<1>3. P(n + 1)
  <2>1. \A i \in Slots : i < n + 1 => i <= n
    BY <1>1, SlotsAreNumbers
  <2>2. ~(n + 1 <= n)
    BY <1>1
  <2> QED BY <1>1, <1>2, <2>1, <2>2
<1>4. ASSUME NEW i \in Slots, P(i)
      PROVE  i = n + 1
  <2>1. ~(i <= n)
    BY <1>2, <1>4
  <2>2. ~(n + 1 < i)
    BY <1>1, <1>2, <1>4
  <2> QED BY <1>1, <2>1, <2>2, SlotsAreNumbers
<1>5. FreeSlot(t) = CHOOSE i \in Slots : P(i)
  BY DEF FreeSlot
<1> HIDE DEF P
<1>6. FreeSlot(t) \in Slots /\ P(FreeSlot(t))
  BY <1>1, <1>3, <1>5
<1> QED BY <1>4, <1>6

\* What the checks of a start say of its task.
LEMMA StartChecked ==
  ASSUME IInv, NEW t \in Tasks, NEW writer, MayStart(t, writer)
  PROVE  /\ Missing(t) = 0 /\ tasks[t].status \in {"Pending", "Ready"}
         /\ tasks[t].status = "Ready"
         /\ tasks[t].used < MaxAttempts /\ tasks[t].used + 1 \in 1 .. MaxAttempts
         /\ \A d \in tasks[t].after : tasks[d].status \in {"Accepted", "Integrated"}
         /\ tasks[t].mode = "Write" => ~writer
<1>1. tasks[t].status \in {"Pending", "Ready"} /\ DependenciesMet(tasks[t].after, Status)
  BY DEF MayStart
<1>2. tasks[t].status = "Ready"
  BY <1>1 DEF IInv, Waits
<1>3. Missing(t) = 0
  BY <1>2, MissingIsBit DEF IInv, RowsOK, RowOK
<1>4. \A d \in tasks[t].after : tasks[d].status \in {"Accepted", "Integrated"}
  BY <1>1, RowFields DEF DependenciesMet, Status, SatisfiesDependency, IInv
<1>5. tasks[t].used < MaxAttempts /\ (tasks[t].mode = "Write" => ~writer)
  BY DEF MayStart, AllowStart
<1>6. tasks[t].used + 1 \in 1 .. MaxAttempts
  BY <1>5, RowFields, SlotsAreNumbers DEF IInv
<1> QED BY <1>1, <1>2, <1>3, <1>4, <1>5, <1>6

\* The attempt a of a start is inserted.
LEMMA InsertedGood ==
  ASSUME IInv, NEW t \in Tasks, NEW n \in Slots, NEW a \in AttemptRow,
         n = tasks[t].used + 1, Missing(t) = 0,
         tasks[t].status = "Ready", tasks[t].used < MaxAttempts,
         \A d \in tasks[t].after : tasks[d].status \in {"Accepted", "Integrated"},
         tasks[t].mode = "Write" => ~(a.place = "integration" /\ Writer),
         a.phase = "Running", a.n = n,
         tasks'[t].status = "Active", tasks'[t].used = n,
         tasks'[t].after = tasks[t].after, tasks'[t].mode = tasks[t].mode,
         attempts' \in [Tasks -> [Slots -> AttemptRow]], disk' \in DiskRow,
         \A i \in Slots : attempts'[t][i] = IF i = n THEN a ELSE attempts[t][i],
         disk'.tasks[t] = tasks'[t], disk'.attempts[t] = attempts'[t],
         \A u \in Tasks \ {t} :
            /\ tasks'[u] = tasks[u] /\ attempts'[u] = attempts[u] /\ Missing(u)' = Missing(u)
            /\ disk'.tasks[u] = disk.tasks[u] /\ disk'.attempts[u] = disk.attempts[u],
         Missing(t)' = 0, revived' = revived
  PROVE  RowsOK' /\ Saved' /\ AtMostOne' /\ Board!Next
<1>1. TypeOK
  BY DEF IInv
<1>6. tasks[t] \in TaskRow /\ RowOK(tasks[t], attempts[t], 0)
  BY <1>1, RowFields DEF IInv, RowsOK
<1>7. /\ RowOK(tasks'[t], attempts'[t], 0)
      /\ ~Worked(attempts[t]) /\ Worked(attempts'[t])
  <2>1. \A i \in Slots : i # tasks'[t].used => attempts'[t][i] = attempts[t][i]
    OBVIOUS
  <2>2. /\ attempts'[t][tasks'[t].used].phase = "Running"
        /\ attempts'[t][tasks'[t].used].n = tasks'[t].used
    OBVIOUS
  <2>3. tasks'[t].used = tasks[t].used + 1 /\ tasks'[t].used \in Slots
    OBVIOUS
  <2> QED BY <1>6, <2>1, <2>2, <2>3, StartedRow
<1>8. RowOK(tasks'[t], attempts'[t], Missing(t)')
  BY <1>7
<1>9. tasks[t].after \subseteq Tasks
  BY <1>1, RowFields
<1>10. Board!Move(t)
  BY <1>7, <1>9, BoardAssigns
<1>11. RowsOK' /\ Saved' /\ Board!Next
  BY <1>8, <1>10, OneRow DEF Written
<1>12. ASSUME NEW b \in Starters', b # <<t, n>>
       PROVE  b \in Starters
  <2>1. PICK u \in Tasks, i \in Slots : b = <<u, i>> /\ attempts'[u][i].phase = "Running"
    BY <1>12 DEF Starters, LiveAttempts, Live, IsLive
  <2>2. attempts'[u][i] = attempts[u][i] /\ tasks'[u].mode = tasks[u].mode
    BY <1>12, <2>1
  <2> QED BY <1>12, <2>1, <2>2 DEF Starters, LiveAttempts, Live, IsLive, WritesThere
<1>13. CASE tasks[t].mode = "Write" /\ a.place = "integration"
  <2>1. Starters = {}
    BY <1>13 DEF Starters, Writer
  <2> QED BY <1>11, <1>12, <2>1 DEF AtMostOne
<1>14. CASE ~(tasks[t].mode = "Write" /\ a.place = "integration")
  <2>1. <<t, n>> \notin Starters'
    BY <1>14 DEF Starters, WritesThere
  <2>2. Starters' \subseteq Starters
    BY <1>12, <2>1
  <2> QED BY <1>11, <2>2 DEF IInv, AtMostOne
<1> QED BY <1>13, <1>14

\* It could not be inserted: the session was deleted.
LEMMA StrandedGood ==
  ASSUME IInv, NEW t \in Tasks, Missing(t) = 0, tasks[t].status = "Ready",
         tasks' \in [Tasks -> TaskRow], tasks'[t].status = "Active",
         tasks'[t] = [tasks[t] EXCEPT !.status = "Active", !.used = tasks[t].used + 1],
         \A u \in Tasks \ {t} : tasks'[u] = tasks[u],
         attempts' = attempts, disk' = disk, revived' = revived,
         stranded' = stranded \cup {t}
  PROVE  RowsOK' /\ Saved' /\ AtMostOne' /\ Board!Next
<1>1. TypeOK /\ tasks[t] \in TaskRow /\ tasks[t].used \in Nat
  BY RowFields DEF IInv
<1>2. /\ tasks'[t].used = tasks[t].used + 1 /\ tasks'[t].after = tasks[t].after
      /\ tasks'[t].mode = tasks[t].mode
  BY <1>1 DEF TaskRow
<1>3. tasks'[t].used - 1 = tasks[t].used /\ tasks'[t].used >= 1
  BY <1>1, <1>2
<1>4. RowOK(tasks[t], attempts[t], 0) /\ Missing(t)' = 1
  BY DEF IInv, RowsOK, Missing
<1>5. RowOK(tasks'[t], attempts'[t], 1)
  BY <1>1, <1>2, <1>4, StrandedRow
<1>6. RowOK(tasks'[t], attempts'[t], Missing(t)')
  BY <1>4, <1>5
<1>7. Written(tasks'[t], disk'.tasks[t], Missing(t)')
  <2>1. disk.tasks[t] = tasks[t]
    BY DEF IInv, Saved, Written
  <2>2. tasks[t] = [tasks'[t] EXCEPT !.status = "Ready", !.used = tasks'[t].used - 1]
    BY <1>1, <1>3 DEF TaskRow
  <2> QED BY <1>3, <1>4, <2>1, <2>2 DEF Written, Unstarted
<1>8. SameForBoard(t)
  BY <1>1, <1>2, <1>3, <1>4 DEF SameForBoard, BoardStatus, Inserted
<1>9. disk'.attempts[t] = attempts'[t] /\ attempts' \in [Tasks -> [Slots -> AttemptRow]]
      /\ disk' \in DiskRow
  BY <1>1, TypesUnfolded DEF IInv, Saved
<1>10. RowsOK' /\ Saved' /\ Board!Next
  <2>1. \A u \in Tasks \ {t} : Missing(u)' = Missing(u)
    BY DEF Missing
  <2>2. \A u \in Tasks \ {t} : disk'.tasks[u] = disk.tasks[u] /\ disk'.attempts[u] = disk.attempts[u]
    OBVIOUS
  <2> QED BY <1>6, <1>7, <1>8, <1>9, <2>1, <2>2, BoardKeeps, OneRow
<1>11. AtMostOne'
  BY <1>2, StartersKept
<1> QED BY <1>10, <1>11

LEMMA CommitStartGood ==
  ASSUME IInv, NEW x \in Handlers, CommitStart(x)
  PROVE  Good
<1>1. PICK t \in Tasks, s \in Sessions, place \in {"own", "integration"} :
        t = h[x].task /\ s = h[x].session /\ place = h[x].place
  BY HandlerFields DEF IInv, CommitStart
<1>2. TypeOK /\ MayStart(t, place = "integration" /\ Writer)
  BY <1>1 DEF IInv, CommitStart
<1>3. /\ Missing(t) = 0 /\ tasks[t].status = "Ready" /\ tasks[t].used < MaxAttempts
      /\ tasks[t].used + 1 \in 1 .. MaxAttempts
      /\ \A d \in tasks[t].after : tasks[d].status \in {"Accepted", "Integrated"}
      /\ tasks[t].mode = "Write" => ~(place = "integration" /\ Writer)
  BY <1>2, StartChecked
<1>4. PICK n \in Slots : n = tasks[t].used + 1
  BY <1>3 DEF Slots
<1>5. tasks' = [tasks EXCEPT ![t].status = "Active", ![t].used = n]
  BY <1>1, <1>4 DEF CommitStart
<1>6. /\ tasks' \in [Tasks -> TaskRow]
      /\ tasks'[t] = [tasks[t] EXCEPT !.status = "Active", !.used = n]
      /\ \A u \in Tasks \ {t} : tasks'[u] = tasks[u]
  BY <1>2, <1>3, <1>4, <1>5, TypesUnfolded, SlotsAreNumbers DEF TaskRow, TaskStatus
<1>7. /\ tasks'[t].status = "Active" /\ tasks'[t].used = n
      /\ tasks'[t].after = tasks[t].after /\ tasks'[t].mode = tasks[t].mode
  BY <1>2, <1>6, RowFields DEF TaskRow
<1>8. /\ h' \in [Handlers -> HandlerState] /\ h'[x].op = "idle"
      /\ \A y \in Handlers \ {x} : h'[y] = h[y]
      /\ fresh' \subseteq Handlers \X Tasks
  BY <1>2, HandlerDone, BumpTyped, IdleHandler DEF CommitStart
<1>9. Taken'
  BY <1>6, <1>7, <1>8, TakenKept DEF Exists
<1>10. Waits'
  <2>1. ~SatisfiesDependency(tasks'[t].status)
    BY <1>7 DEF SatisfiesDependency
  <2> QED BY <1>6, <1>7, <2>1, WaitsKept
<1>11. /\ run' = run /\ resuming' = resuming /\ sequencer' = sequencer
       /\ sess' = sess /\ exits' = exits /\ asked' = asked /\ crashes' = crashes
  BY DEF CommitStart, world, bounds
<1>12. CASE Present(s)
  <2> DEFINE a == [n |-> n, session |-> s, place |-> place, phase |-> "Running",
                   outcome |-> "none"]
  <2>1. FreeSlot(t) = n
    BY <1>3, <1>4, FreeSlotIsNext
  <2>2. a \in AttemptRow /\ a.phase = "Running" /\ a.n = n /\ a.place = place
    BY SlotsAreNumbers DEF AttemptRow, AttemptPhase, Slots
  <2>3. attempts' = [attempts EXCEPT ![t][n] = a] /\ Save(disk, {t}, {t})
    BY <1>1, <1>4, <1>12, <2>1 DEF CommitStart
  <2> HIDE DEF a
  <2>4. /\ attempts' \in [Tasks -> [Slots -> AttemptRow]]
        /\ \A u \in Tasks \ {t} : attempts'[u] = attempts[u]
        /\ \A i \in Slots : attempts'[t][i] = IF i = n THEN a ELSE attempts[t][i]
    BY <1>2, <2>2, <2>3, TypesUnfolded
  <2>5. /\ disk' \in DiskRow
        /\ \A u \in Tasks : disk'.tasks[u] = IF u \in {t} THEN tasks'[u] ELSE disk.tasks[u]
        /\ \A u \in Tasks : disk'.attempts[u] = IF u \in {t} THEN attempts'[u] ELSE disk.attempts[u]
    <3>1. Save(disk, {t}, {t}) /\ disk \in DiskRow /\ tasks' \in [Tasks -> TaskRow]
      BY <1>2, <1>6, <2>3, TypesUnfolded
    <3>2. attempts' \in [Tasks -> [Slots -> AttemptRow]]
      BY <2>4
    <3> QED BY <3>1, <3>2, SavedRows
  <2>6. stranded' = stranded /\ revived' = revived /\ \A u \in Tasks : Missing(u)' = Missing(u)
    BY <1>1, <1>12 DEF CommitStart, marks, Missing
  <2>7. RowsOK' /\ Saved' /\ AtMostOne' /\ Board!Next
    <3>1. \A u \in Tasks \ {t} :
            /\ tasks'[u] = tasks[u] /\ attempts'[u] = attempts[u] /\ Missing(u)' = Missing(u)
            /\ disk'.tasks[u] = disk.tasks[u] /\ disk'.attempts[u] = disk.attempts[u]
      BY <1>6, <2>4, <2>5, <2>6
    <3>2. disk'.tasks[t] = tasks'[t] /\ disk'.attempts[t] = attempts'[t]
      BY <2>5
    <3>3. tasks[t].mode = "Write" => ~(a.place = "integration" /\ Writer)
      BY <1>3, <2>2
    <3> QED BY <1>3, <1>4, <1>7, <2>2, <2>4, <2>5, <2>6, <3>1, <3>2, <3>3, InsertedGood
  <2>8. TypeOK'
    BY <1>2, <1>6, <1>8, <1>11, <2>4, <2>5, <2>6, TypesFolded DEF TypeOK
  <2> QED BY <1>9, <1>10, <2>7, <2>8 DEF Good, IInv
<1>13. CASE ~Present(s)
  <2>1. /\ stranded' = stranded \cup {t}
        /\ attempts' = attempts /\ disk' = disk /\ revived' = revived
    BY <1>1, <1>13 DEF CommitStart
  <2>2. RowsOK' /\ Saved' /\ AtMostOne' /\ Board!Next
    BY <1>3, <1>4, <1>6, <1>7, <2>1, StrandedGood
  <2>3. TypeOK'
    BY <1>2, <1>6, <1>8, <1>11, <2>1, TypesFolded, TypesUnfolded DEF TypeOK
  <2> QED BY <1>9, <1>10, <2>2, <2>3 DEF Good, IInv
<1> QED BY <1>12, <1>13

\* One task gets another status, and its attempts may move; all of it is written.
OneMoves(t) ==
  /\ tasks' \in [Tasks -> TaskRow] /\ attempts' \in [Tasks -> [Slots -> AttemptRow]]
  /\ disk' \in DiskRow
  /\ disk'.tasks[t] = tasks'[t] /\ disk'.attempts[t] = attempts'[t]
  /\ Missing(t)' = Missing(t) /\ tasks'[t].used = tasks[t].used
  /\ tasks'[t].after = tasks[t].after /\ tasks'[t].mode = tasks[t].mode
  /\ \A u \in Tasks \ {t} :
       /\ tasks'[u] = tasks[u] /\ attempts'[u] = attempts[u] /\ Missing(u)' = Missing(u)
       /\ disk'.tasks[u] = disk.tasks[u] /\ disk'.attempts[u] = disk.attempts[u]

StatusBecomes(t, v) == tasks' = [tasks EXCEPT ![t].status = v]

LEMMA StatusSet ==
  ASSUME TypeOK, NEW t \in Tasks, NEW v \in TaskStatus, StatusBecomes(t, v)
  PROVE  /\ tasks' \in [Tasks -> TaskRow] /\ tasks'[t].status = v
         /\ tasks'[t].used = tasks[t].used
         /\ tasks'[t].after = tasks[t].after /\ tasks'[t].mode = tasks[t].mode
         /\ \A u \in Tasks \ {t} : tasks'[u] = tasks[u]
<1>1. tasks[t] \in TaskRow /\ tasks \in [Tasks -> TaskRow]
  BY RowFields, TypesUnfolded
<1>2. [tasks[t] EXCEPT !.status = v] \in TaskRow
  BY <1>1 DEF TaskRow
<1>3. /\ tasks' \in [Tasks -> TaskRow] /\ tasks'[t] = [tasks[t] EXCEPT !.status = v]
      /\ \A u \in Tasks \ {t} : tasks'[u] = tasks[u]
  <2> HIDE DEF TaskRow
  <2> QED BY <1>1, <1>2 DEF StatusBecomes
<1> QED BY <1>1, <1>3 DEF TaskRow

LEMMA StatusMoves ==
  ASSUME IInv, NEW t \in Tasks,
         tasks' \in [Tasks -> TaskRow], tasks'[t].used = tasks[t].used,
         tasks'[t].after = tasks[t].after, tasks'[t].mode = tasks[t].mode,
         \A u \in Tasks \ {t} : tasks'[u] = tasks[u],
         attempts' \in [Tasks -> [Slots -> AttemptRow]],
         \A u \in Tasks \ {t} : attempts'[u] = attempts[u],
         \/ Save(disk, {t}, {t})
         \/ Save(disk, {t}, {}) /\ attempts'[t] = attempts[t],
         stranded' = stranded
  PROVE  OneMoves(t)
<1>1. disk \in DiskRow /\ disk.attempts = attempts
  BY TypesUnfolded DEF IInv, Saved
<1>2. /\ disk' \in DiskRow
      /\ disk'.tasks[t] = tasks'[t] /\ disk'.attempts[t] = attempts'[t]
      /\ \A u \in Tasks \ {t} : disk'.tasks[u] = disk.tasks[u]
      /\ \A u \in Tasks \ {t} : disk'.attempts[u] = disk.attempts[u]
  <2>1. CASE Save(disk, {t}, {t})
    <3>1. /\ disk' \in DiskRow
          /\ \A u \in Tasks : disk'.tasks[u] = IF u \in {t} THEN tasks'[u] ELSE disk.tasks[u]
          /\ \A u \in Tasks : disk'.attempts[u] = IF u \in {t} THEN attempts'[u]
                                                              ELSE disk.attempts[u]
      BY <1>1, <2>1, SavedRows
    <3> QED BY <3>1
  <2>2. CASE Save(disk, {t}, {}) /\ attempts'[t] = attempts[t]
    <3>1. /\ disk' \in DiskRow
          /\ \A u \in Tasks : disk'.tasks[u] = IF u \in {t} THEN tasks'[u] ELSE disk.tasks[u]
          /\ \A u \in Tasks : disk'.attempts[u] = IF u \in {} THEN attempts'[u]
                                                             ELSE disk.attempts[u]
      BY <1>1, <2>2, SavedRows
    <3> QED BY <1>1, <2>2, <3>1
  <2> QED BY <2>1, <2>2
<1>3. \A u \in Tasks : Missing(u)' = Missing(u)
  BY DEF Missing
<1> QED BY <1>2, <1>3 DEF OneMoves

\* One attempt gets another phase and another outcome.
PhaseBecomes(t, i, p, o) == attempts' = [attempts EXCEPT ![t][i].phase = p, ![t][i].outcome = o]

LEMMA PhaseSet ==
  ASSUME TypeOK, NEW t \in Tasks, NEW i \in Slots, NEW p \in AttemptPhase,
         NEW o \in {"none"} \cup ReportOutcome, PhaseBecomes(t, i, p, o)
  PROVE  /\ attempts' \in [Tasks -> [Slots -> AttemptRow]]
         /\ \A u \in Tasks \ {t} : attempts'[u] = attempts[u]
         /\ \A j \in Slots : j # i => attempts'[t][j] = attempts[t][j]
         /\ attempts'[t][i].phase = p /\ attempts'[t][i].n = attempts[t][i].n
         /\ attempts'[t][i].session = attempts[t][i].session
<1> DEFINE a == [attempts[t][i] EXCEPT !.phase = p, !.outcome = o]
<1>1. /\ attempts \in [Tasks -> [Slots -> AttemptRow]]
      /\ attempts[t] \in [Slots -> AttemptRow] /\ attempts[t][i] \in AttemptRow
  BY TypesUnfolded, RowFields, AttemptFields
<1>2. /\ a \in AttemptRow /\ a.phase = p /\ a.n = attempts[t][i].n
      /\ a.session = attempts[t][i].session
  BY <1>1 DEF AttemptRow
<1>3. attempts' = [attempts EXCEPT ![t] = [attempts[t] EXCEPT ![i] = a]]
  BY <1>1 DEF PhaseBecomes
<1> HIDE DEF a
<1> QED BY <1>1, <1>2, <1>3

LEMMA OneMovesGood ==
  ASSUME IInv, NEW t \in Tasks, OneMoves(t), tasks[t].status # "none",
         RowOK(tasks'[t], attempts'[t], Missing(t)), Board!Move(t),
         tasks'[t].status \notin {"none", "Pending", "Accepted", "Integrated"}
  PROVE  /\ RowsOK' /\ Saved' /\ Waits' /\ Board!Next
         /\ \A u \in Tasks : Exists(u) => tasks'[u].status # "none"
<1>1. RowsOK' /\ Saved' /\ Board!Next
  BY OneRow DEF OneMoves, Written
<1>2. Waits'
  BY WaitsKept DEF OneMoves, SatisfiesDependency
<1> QED BY <1>1, <1>2 DEF OneMoves, Exists

LEMMA ReportedIsPhase == {"Running", "Reported", "Rejected", "Lost"} \subseteq AttemptPhase
BY DEF AttemptPhase

LEMMA CommitReportGood ==
  ASSUME IInv, NEW x \in Handlers, CommitReport(x)
  PROVE  Good
<1>1. PICK t \in Tasks, i \in Slots, outcome \in ReportOutcome :
        t = h[x].task /\ i = h[x].slot /\ outcome = h[x].outcome
  BY HandlerFields DEF IInv, CommitReport
<1>2. TypeOK /\ h[x].used = i
  BY <1>1 DEF IInv, CommitReport, Taken
<1>3. /\ h' \in [Handlers -> HandlerState] /\ h'[x].op = "idle"
      /\ \A y \in Handlers \ {x} : h'[y] = h[y]
  BY <1>2, HandlerDone, IdleHandler DEF CommitReport
<1>4. /\ run' = run /\ resuming' = resuming /\ sequencer' = sequencer
      /\ sess' = sess /\ exits' = exits /\ asked' = asked /\ crashes' = crashes
      /\ stranded' = stranded /\ revived' = revived
  BY DEF CommitReport, world, bounds, marks
<1>5. CASE /\ IsLive(attempts[t][i].phase)
           /\ PhaseBecomes(t, i, "Reported", outcome)
           /\ StatusBecomes(t, TaskStatusAfterReport(outcome, i))
           /\ Bump({t}) /\ Save(disk, {t}, {t})
  <2> DEFINE v == TaskStatusAfterReport(outcome, i)
  <2>1. v \in {"Review", "Blocked", "Failed"}
    BY DEF TaskStatusAfterReport, ReportOutcome
  <2>2. StatusBecomes(t, v) /\ Save(disk, {t}, {t})
    BY <1>5
  <2> HIDE DEF v
  <2>3. /\ attempts' \in [Tasks -> [Slots -> AttemptRow]]
        /\ \A u \in Tasks \ {t} : attempts'[u] = attempts[u]
        /\ \A j \in Slots : j # i => attempts'[t][j] = attempts[t][j]
    BY <1>2, <1>5, PhaseSet, ReportedIsPhase
  <2>4. attempts'[t][i].phase = "Reported" /\ attempts'[t][i].n = attempts[t][i].n
    BY <1>2, <1>5, PhaseSet, ReportedIsPhase
  <2>5. v \in TaskStatus
    BY <2>1 DEF TaskStatus
  <2>6. OneMoves(t) /\ tasks'[t].status = v
    <3>1. Save(disk, {t}, {t})
      BY <2>2
    <3>2. /\ tasks' \in [Tasks -> TaskRow] /\ tasks'[t].used = tasks[t].used
          /\ tasks'[t].after = tasks[t].after /\ tasks'[t].mode = tasks[t].mode
          /\ \A u \in Tasks \ {t} : tasks'[u] = tasks[u]
      BY <1>2, <2>2, <2>5, StatusSet
    <3>3. tasks'[t].status = v
      BY <1>2, <2>2, <2>5, StatusSet
    <3>4. OneMoves(t)
      BY <1>4, <2>3, <3>1, <3>2, StatusMoves
    <3> QED BY <3>3, <3>4
  <2>7. /\ tasks[t] \in TaskRow /\ RowOK(tasks[t], attempts[t], Missing(t))
        /\ Missing(t) \in {0, 1} /\ attempts[t][i].phase = "Running"
    BY <1>2, <1>5, RowFields DEF IInv, RowsOK, IsLive
  <2>8. Worked(attempts[t])
    BY <2>7 DEF Worked
  <2>9. Missing(t) = 0 /\ tasks[t].status \in {"Active", "Integrated"} /\ tasks[t].used = i
    BY <2>7, <2>8, NewestWorks
  <2>10. /\ tasks'[t].used = tasks[t].used /\ tasks'[t].after = tasks[t].after
         /\ Missing(t)' = 0 /\ attempts' \in [Tasks -> [Slots -> AttemptRow]]
         /\ tasks'[t].mode = tasks[t].mode
    BY <2>6, <2>9 DEF OneMoves
  <2>11. RowOK(tasks'[t], attempts'[t], Missing(t)) /\ ~Worked(attempts'[t])
    BY <2>1, <2>3, <2>4, <2>6, <2>7, <2>10, ReportedRow
  <2>12. Board!Move(t)
    <3>1. tasks'[t].status = TaskStatusAfterReport(outcome, tasks[t].used)
      BY <2>6, <2>9 DEF v
    <3> QED BY <2>8, <2>9, <2>10, <2>11, <3>1, BoardSettles
  <2>13. /\ RowsOK' /\ Saved' /\ Waits' /\ Board!Next
         /\ \A u \in Tasks : Exists(u) => tasks'[u].status # "none"
    BY <2>1, <2>6, <2>9, <2>11, <2>12, OneMovesGood
  <2>14. Taken'
    BY <1>3, <2>13, TakenKept
  <2>15. TypeOK'
    BY <1>2, <1>3, <1>4, <1>5, <2>6, BumpTyped, TypesFolded DEF TypeOK, OneMoves
  <2>16. AtMostOne'
    <3>1. \A u \in Tasks : tasks'[u].mode = tasks[u].mode
      BY <2>6 DEF OneMoves
    <3>2. \A u \in Tasks : \A j \in Slots : attempts'[u][j].phase = "Running" =>
            attempts'[u][j] = attempts[u][j]
      BY <2>3, <2>4
    <3> QED BY <1>4, <3>1, <3>2, StartersKept
  <2> QED BY <2>13, <2>14, <2>15, <2>16 DEF Good, IInv
<1>6. CASE UNCHANGED <<tasks, attempts, fresh, disk>>
  <2>1. RowsKept
    BY <1>4, <1>6 DEF RowsKept
  <2>2. TypeOK'
    BY <1>2, <1>3, <1>4, <1>6, TypesFolded, TypesUnfolded DEF TypeOK
  <2>3. Taken'
    BY <1>3, <1>6, TakenKept DEF Exists
  <2> QED BY <2>1, <2>2, <2>3, KeptStep DEF Good, IInv
<1> QED BY <1>1, <1>2, <1>5, <1>6 DEF CommitReport, SettleReport, PhaseBecomes, StatusBecomes

\* Of a task that is decided on, the newest attempt is the one that reported.
LEMMA NewestReported ==
  ASSUME IInv, NEW t \in Tasks, tasks[t].status \in Decided, NEW i \in Newest(t)
  PROVE  /\ i \in Slots /\ i = tasks[t].used /\ Missing(t) = 0 /\ ~Worked(attempts[t])
         /\ attempts[t][i].phase = "Reported" /\ attempts[t][i].n = i
<1>1. /\ RowOK(tasks[t], attempts[t], Missing(t)) /\ Missing(t) \in {0, 1}
      /\ tasks[t].used \in Nat
  BY RowFields DEF IInv, RowsOK
<1>2. Missing(t) = 0 /\ ~Worked(attempts[t])
  BY <1>1, DecidedRow
<1>3. /\ tasks[t].used \in Slots /\ attempts[t][tasks[t].used].phase = "Reported"
      /\ \A j \in Slots : j \in Rows(t) => j <= tasks[t].used /\ attempts[t][j].n = j
  BY <1>1, <1>2 DEF RowOK, Inserted, Rows
<1>4. tasks[t].used \in Rows(t) /\ i \in Rows(t) /\ i \in Slots
  BY <1>3 DEF Rows, Newest
<1>5. attempts[t][tasks[t].used].n <= attempts[t][i].n
  BY <1>4 DEF Newest
<1>6. i = tasks[t].used
  BY <1>1, <1>3, <1>4, <1>5, SlotsAreNumbers
<1> QED BY <1>2, <1>3, <1>4, <1>6

LEMMA ReopenGood ==
  ASSUME IInv, NEW t \in Tasks, Reopen(t)
  PROVE  Good
<1>1. TypeOK /\ tasks[t].status \in {"Review", "Blocked"}
  BY DEF IInv, Reopen, AwaitsDecision
<1>2. PICK i \in Newest(t) :
        /\ attempts[t][i].session \in Sessions
        /\ StatusBecomes(t, "Active") /\ PhaseBecomes(t, i, "Running", "none")
        /\ revived' = revived \cup {attempts[t][i].session}
  BY DEF Reopen, StatusBecomes, PhaseBecomes
<1>3. /\ i \in Slots /\ i = tasks[t].used /\ Missing(t) = 0 /\ ~Worked(attempts[t])
      /\ tasks[t].status \in Decided
  BY <1>1, NewestReported DEF Decided
<1>4. /\ attempts' \in [Tasks -> [Slots -> AttemptRow]]
      /\ \A u \in Tasks \ {t} : attempts'[u] = attempts[u]
      /\ \A j \in Slots : j # i => attempts'[t][j] = attempts[t][j]
      /\ attempts'[t][i].phase = "Running" /\ attempts'[t][i].n = attempts[t][i].n
      /\ attempts'[t][i].session = attempts[t][i].session
  BY <1>1, <1>2, <1>3, PhaseSet, ReportedIsPhase
<1>5. "Active" \in TaskStatus
  BY DEF TaskStatus
<1>6. /\ tasks' \in [Tasks -> TaskRow] /\ tasks'[t].used = tasks[t].used
      /\ tasks'[t].after = tasks[t].after /\ tasks'[t].mode = tasks[t].mode
      /\ \A u \in Tasks \ {t} : tasks'[u] = tasks[u]
      /\ tasks'[t].status = "Active"
  BY <1>1, <1>2, <1>5, StatusSet
<1>7. /\ run' = run /\ resuming' = resuming /\ sequencer' = sequencer /\ h' = h
      /\ sess' = sess /\ exits' = exits /\ asked' = asked /\ crashes' = crashes
      /\ stranded' = stranded /\ Save(disk, {t}, {t}) /\ Bump({t})
  BY DEF Reopen, world, bounds
<1>8. OneMoves(t)
  BY <1>4, <1>6, <1>7, StatusMoves
<1>9. /\ tasks[t] \in TaskRow /\ RowOK(tasks[t], attempts[t], Missing(t))
      /\ Missing(t) \in {0, 1} /\ Missing(t)' = 0
  BY <1>1, <1>3, <1>8, RowFields DEF IInv, RowsOK, OneMoves
<1>10. RowOK(tasks'[t], attempts'[t], Missing(t)) /\ Worked(attempts'[t])
  <2>1. /\ \A j \in Slots : j # tasks[t].used => attempts'[t][j] = attempts[t][j]
        /\ attempts'[t][tasks[t].used].n = attempts[t][tasks[t].used].n
        /\ attempts'[t][tasks[t].used].phase = "Running"
    BY <1>3, <1>4
  <2> QED BY <1>3, <1>6, <1>9, <2>1, ReopenedRow
<1>11. Board!Move(t)
  BY <1>1, <1>3, <1>6, <1>9, <1>10, BoardDecides DEF SameBudget, Inserted
<1>12. /\ RowsOK' /\ Saved' /\ Waits' /\ Board!Next
       /\ \A u \in Tasks : Exists(u) => tasks'[u].status # "none"
  BY <1>1, <1>6, <1>8, <1>10, <1>11, OneMovesGood
<1>13. Taken'
  BY <1>7, <1>12, TakenStays
<1>14. TypeOK'
  BY <1>1, <1>2, <1>7, <1>8, BumpTyped, TypesFolded DEF TypeOK, OneMoves
<1>15. AtMostOne'
  <2>1. revived \subseteq revived' /\ attempts[t][i].session \in revived'
    BY <1>2
  <2>2. \A u \in Tasks : \A j \in Slots :
          \/ attempts'[u][j] = attempts[u][j]
          \/ attempts'[u][j].session \in revived'
    BY <1>4, <2>1
  <2>3. \A u \in Tasks : tasks'[u].mode = tasks[u].mode
    BY <1>6
  <2> QED BY <2>1, <2>2, <2>3, StartersKept
<1> QED BY <1>12, <1>13, <1>14, <1>15 DEF Good, IInv

\* One attempt gets another phase and keeps its outcome.
PhaseAlone(t, i, p) == attempts' = [attempts EXCEPT ![t][i].phase = p]

LEMMA PhaseAloneSet ==
  ASSUME TypeOK, NEW t \in Tasks, NEW i \in Slots, NEW p \in AttemptPhase, PhaseAlone(t, i, p)
  PROVE  /\ attempts' \in [Tasks -> [Slots -> AttemptRow]]
         /\ \A u \in Tasks \ {t} : attempts'[u] = attempts[u]
         /\ \A j \in Slots : j # i => attempts'[t][j] = attempts[t][j]
         /\ attempts'[t][i].phase = p /\ attempts'[t][i].n = attempts[t][i].n
<1> DEFINE a == [attempts[t][i] EXCEPT !.phase = p]
<1>1. /\ attempts \in [Tasks -> [Slots -> AttemptRow]]
      /\ attempts[t] \in [Slots -> AttemptRow] /\ attempts[t][i] \in AttemptRow
  BY TypesUnfolded, RowFields, AttemptFields
<1>2. a \in AttemptRow /\ a.phase = p /\ a.n = attempts[t][i].n
  BY <1>1 DEF AttemptRow
<1>3. attempts' = [attempts EXCEPT ![t] = [attempts[t] EXCEPT ![i] = a]]
  BY <1>1 DEF PhaseAlone
<1> HIDE DEF a
<1> QED BY <1>1, <1>2, <1>3

LEMMA RetryGood ==
  ASSUME IInv, NEW x \in Handlers, NEW t \in Tasks, Retry(x, t)
  PROVE  Good
<1>1. TypeOK /\ tasks[t].status \in {"Review", "Blocked"} /\ tasks[t].status \in Decided
  BY DEF IInv, Retry, AwaitsDecision, Decided
<1>2. /\ run' = run /\ resuming' = resuming /\ sequencer' = sequencer
      /\ sess' = sess /\ exits' = exits /\ asked' \in 0 .. MaxRequests
      /\ crashes' \in 0 .. MaxCrashes
      /\ stranded' = stranded /\ revived' = revived /\ Bump({t})
  BY <1>1, AskedTyped DEF Retry, Ask, world, marks
<1>3. /\ tasks[t] \in TaskRow /\ RowOK(tasks[t], attempts[t], Missing(t))
      /\ Missing(t) \in {0, 1}
  BY <1>1, RowFields DEF IInv, RowsOK
<1>4. Missing(t) = 0 /\ ~Worked(attempts[t])
  BY <1>1, <1>3, DecidedRow
<1>5. CASE tasks[t].used >= MaxAttempts
  <2>1. StatusBecomes(t, "Failed") /\ attempts' = attempts /\ h' = h /\ Save(disk, {t}, {})
    BY <1>5 DEF Retry, StatusBecomes
  <2>2. "Failed" \in TaskStatus
    BY DEF TaskStatus
  <2>3. /\ tasks' \in [Tasks -> TaskRow] /\ tasks'[t].used = tasks[t].used
        /\ tasks'[t].after = tasks[t].after /\ tasks'[t].mode = tasks[t].mode
        /\ \A u \in Tasks \ {t} : tasks'[u] = tasks[u]
        /\ tasks'[t].status = "Failed"
    BY <1>1, <2>1, <2>2, StatusSet
  <2>4. attempts' \in [Tasks -> [Slots -> AttemptRow]]
    BY <1>1, <2>1, TypesUnfolded
  <2>5. OneMoves(t)
    BY <1>2, <2>1, <2>3, <2>4, StatusMoves
  <2>6. RowOK(tasks'[t], attempts'[t], Missing(t)) /\ ~Worked(attempts'[t])
    BY <1>1, <1>3, <1>4, <2>1, <2>3, AcceptedRow
  <2>7. Missing(t)' = 0
    BY <1>4, <2>5 DEF OneMoves
  <2>8. Board!Move(t)
    BY <1>1, <1>4, <1>5, <2>3, <2>6, <2>7, BoardDecides DEF SameBudget, Inserted
  <2>9. /\ RowsOK' /\ Saved' /\ Waits' /\ Board!Next
        /\ \A u \in Tasks : Exists(u) => tasks'[u].status # "none"
    BY <1>1, <2>3, <2>5, <2>6, <2>8, OneMovesGood
  <2>10. Taken'
    BY <2>1, <2>9, TakenStays
  <2>11. TypeOK'
    BY <1>1, <1>2, <2>1, <2>5, BumpTyped, TypesFolded DEF TypeOK, OneMoves
  <2>12. AtMostOne'
    <3>1. \A u \in Tasks : tasks'[u].mode = tasks[u].mode
      BY <2>3
    <3> QED BY <1>2, <2>1, <3>1, StartersKept
  <2> QED BY <2>9, <2>10, <2>11, <2>12 DEF Good, IInv
<1>6. CASE ~(tasks[t].used >= MaxAttempts)
  <2>1. PICK i \in Newest(t) : PhaseAlone(t, i, "Rejected")
    BY <1>6 DEF Retry, PhaseAlone
  <2>2. /\ StatusBecomes(t, "Ready") /\ Save(disk, {t}, {t})
        /\ Become(x, [op |-> "retry", task |-> t])
    BY <1>6 DEF Retry, StatusBecomes
  <2>3. i \in Slots /\ i = tasks[t].used
    BY <1>1, NewestReported
  <2>4. /\ attempts' \in [Tasks -> [Slots -> AttemptRow]]
        /\ \A u \in Tasks \ {t} : attempts'[u] = attempts[u]
        /\ \A j \in Slots : j # i => attempts'[t][j] = attempts[t][j]
        /\ attempts'[t][i].phase = "Rejected" /\ attempts'[t][i].n = attempts[t][i].n
    BY <1>1, <2>1, <2>3, PhaseAloneSet, ReportedIsPhase
  <2>5. "Ready" \in TaskStatus
    BY DEF TaskStatus
  <2>6. /\ tasks' \in [Tasks -> TaskRow] /\ tasks'[t].used = tasks[t].used
        /\ tasks'[t].after = tasks[t].after /\ tasks'[t].mode = tasks[t].mode
        /\ \A u \in Tasks \ {t} : tasks'[u] = tasks[u]
        /\ tasks'[t].status = "Ready"
    BY <1>1, <2>2, <2>5, StatusSet
  <2>7. OneMoves(t)
    BY <1>2, <2>2, <2>4, <2>6, StatusMoves
  <2>8. RowOK(tasks'[t], attempts'[t], Missing(t)) /\ ~Worked(attempts'[t])
    <3>1. /\ \A j \in Slots : j # tasks[t].used => attempts'[t][j] = attempts[t][j]
          /\ attempts'[t][tasks[t].used].n = attempts[t][tasks[t].used].n
          /\ attempts'[t][tasks[t].used].phase = "Rejected"
      BY <2>3, <2>4
    <3> QED BY <1>1, <1>3, <2>6, <3>1, ReopenedRow
  <2>9. Missing(t)' = 0
    BY <1>4, <2>7 DEF OneMoves
  <2>10. Board!Move(t)
    BY <1>1, <1>4, <2>6, <2>8, <2>9, BoardDecides DEF SameBudget, Inserted
  <2>11. /\ RowsOK' /\ Saved' /\ Waits' /\ Board!Next
         /\ \A u \in Tasks : Exists(u) => tasks'[u].status # "none"
    BY <1>1, <2>6, <2>7, <2>8, <2>10, OneMovesGood
  <2>12. [op |-> "retry", task |-> t] \in HandlerState
    BY DEF HandlerState
  <2>13. /\ h' \in [Handlers -> HandlerState] /\ h'[x].op = "retry"
         /\ \A y \in Handlers \ {x} : h'[y] = h[y]
    BY <1>1, <2>2, <2>12, HandlerMoves
  <2>14. Taken'
    BY <2>11, <2>13, TakenKept
  <2>15. TypeOK'
    BY <1>1, <1>2, <2>7, <2>13, BumpTyped, TypesFolded DEF TypeOK, OneMoves
  <2>16. AtMostOne'
    <3>1. \A u \in Tasks : tasks'[u].mode = tasks[u].mode
      BY <2>6
    <3>2. \A u \in Tasks : \A j \in Slots : attempts'[u][j].phase = "Running" =>
            attempts'[u][j] = attempts[u][j]
      BY <2>4
    <3> QED BY <1>2, <3>1, <3>2, StartersKept
  <2> QED BY <2>11, <2>14, <2>15, <2>16 DEF Good, IInv
<1> QED BY <1>5, <1>6

\* The live attempts of the task t are lost.
WorkersLost(t) ==
  attempts' = [attempts EXCEPT ![t] = [i \in Slots |->
                 IF i \in Live(t) THEN [@[i] EXCEPT !.phase = "Lost"] ELSE @[i]]]

LEMMA WorkersLostSet ==
  ASSUME TypeOK, NEW t \in Tasks, WorkersLost(t)
  PROVE  /\ attempts' \in [Tasks -> [Slots -> AttemptRow]]
         /\ \A u \in Tasks \ {t} : attempts'[u] = attempts[u]
         /\ \A i \in Slots : attempts'[t][i].n = attempts[t][i].n
         /\ \A i \in Slots : attempts'[t][i].phase =
              IF attempts[t][i].phase = "Running" THEN "Lost" ELSE attempts[t][i].phase
<1> DEFINE a == [i \in Slots |-> IF i \in Live(t) THEN [attempts[t][i] EXCEPT !.phase = "Lost"]
                                                   ELSE attempts[t][i]]
<1>1. /\ attempts \in [Tasks -> [Slots -> AttemptRow]]
      /\ \A i \in Slots : attempts[t][i] \in AttemptRow
  BY TypesUnfolded, AttemptFields
<1>2. attempts' = [attempts EXCEPT ![t] = a]
  BY <1>1 DEF WorkersLost
<1>3. ASSUME NEW i \in Slots
      PROVE  /\ a[i] \in AttemptRow /\ a[i].n = attempts[t][i].n
             /\ a[i].phase = IF attempts[t][i].phase = "Running" THEN "Lost"
                                                                 ELSE attempts[t][i].phase
  <2>1. CASE attempts[t][i].phase = "Running"
    <3>1. a[i] = [attempts[t][i] EXCEPT !.phase = "Lost"]
      BY <2>1 DEF Live, IsLive
    <3> HIDE DEF a
    <3> QED BY <1>1, <2>1, <3>1, ReportedIsPhase DEF AttemptRow
  <2>2. CASE attempts[t][i].phase # "Running"
    <3>1. a[i] = attempts[t][i]
      BY <2>2 DEF Live, IsLive
    <3> HIDE DEF a
    <3> QED BY <1>1, <2>2, <3>1
  <2> QED BY <2>1, <2>2
<1>4. a \in [Slots -> AttemptRow]
  <2>1. a = [i \in Slots |-> a[i]]
    OBVIOUS
  <2> HIDE DEF a
  <2> QED BY <1>3, <2>1
<1> HIDE DEF a
<1> QED BY <1>1, <1>2, <1>3, <1>4

LEMMA CancelTaskMoves ==
  ASSUME IInv, NEW t \in Tasks, CancelTask(t), stranded' = stranded, revived' = revived
  PROVE  /\ OneMoves(t) /\ AtMostOne' /\ fresh' \subseteq Handlers \X Tasks
         /\ RowsOK' /\ Saved' /\ Waits' /\ Board!Next
         /\ \A u \in Tasks : Exists(u) => tasks'[u].status # "none"
<1>1. TypeOK /\ tasks[t].status # "none" /\ ~IsFinal(tasks[t].status)
  BY DEF IInv, CancelTask, Exists
<1>2. /\ StatusBecomes(t, "Cancelled") /\ WorkersLost(t)
      /\ Bump({t}) /\ Save(disk, {t}, {t})
  BY DEF CancelTask, StatusBecomes, WorkersLost
<1>3. /\ attempts' \in [Tasks -> [Slots -> AttemptRow]]
      /\ \A u \in Tasks \ {t} : attempts'[u] = attempts[u]
      /\ \A i \in Slots : attempts'[t][i].n = attempts[t][i].n
      /\ \A i \in Slots : attempts'[t][i].phase =
           IF attempts[t][i].phase = "Running" THEN "Lost" ELSE attempts[t][i].phase
  BY <1>1, <1>2, WorkersLostSet
<1>4. "Cancelled" \in TaskStatus
  BY DEF TaskStatus
<1>5. /\ tasks' \in [Tasks -> TaskRow] /\ tasks'[t].used = tasks[t].used
      /\ tasks'[t].after = tasks[t].after /\ tasks'[t].mode = tasks[t].mode
      /\ \A u \in Tasks \ {t} : tasks'[u] = tasks[u]
      /\ tasks'[t].status = "Cancelled"
  BY <1>1, <1>2, <1>4, StatusSet
<1>6. OneMoves(t)
  BY <1>2, <1>3, <1>5, StatusMoves
<1>7. /\ tasks[t] \in TaskRow /\ RowOK(tasks[t], attempts[t], Missing(t))
      /\ Missing(t) \in {0, 1} /\ Missing(t)' = Missing(t)
  BY <1>1, <1>6, RowFields DEF IInv, RowsOK, OneMoves
<1>8. RowOK(tasks'[t], attempts'[t], Missing(t)) /\ ~Worked(attempts'[t])
  <2>1. \A i \in Slots : attempts'[t][i].n = attempts[t][i].n
    BY <1>3
  <2>2. \A i \in Slots : attempts'[t][i].phase =
          IF attempts[t][i].phase = "Running" THEN "Lost" ELSE attempts[t][i].phase
    BY <1>3
  <2>3. /\ tasks[t] \in TaskRow /\ RowOK(tasks[t], attempts[t], Missing(t))
        /\ Missing(t) \in {0, 1} /\ tasks[t].status # "none"
    BY <1>1, <1>7
  <2>4. tasks'[t].used = tasks[t].used /\ tasks'[t].status = "Cancelled"
    BY <1>5
  <2> QED BY <2>1, <2>2, <2>3, <2>4, CancelledRow
<1>9. Board!Move(t)
  BY <1>1, <1>5, <1>7, <1>8, BoardCancels DEF SameBudget, Inserted
<1>10. /\ RowsOK' /\ Saved' /\ Waits' /\ Board!Next
       /\ \A u \in Tasks : Exists(u) => tasks'[u].status # "none"
  BY <1>1, <1>5, <1>6, <1>8, <1>9, OneMovesGood
<1>11. AtMostOne'
  <2>1. \A u \in Tasks : tasks'[u].mode = tasks[u].mode
    BY <1>5
  <2>2. \A i \in Slots : attempts'[t][i].phase # "Running"
    BY <1>3
  <2>3. \A u \in Tasks : \A j \in Slots : attempts'[u][j].phase = "Running" =>
          attempts'[u][j] = attempts[u][j]
    BY <1>3, <2>2
  <2> QED BY <2>1, <2>3, StartersKept
<1>12. fresh' \subseteq Handlers \X Tasks
  BY <1>1, <1>2, BumpTyped
<1> QED BY <1>6, <1>10, <1>11, <1>12

LEMMA CancelGood ==
  ASSUME IInv, NEW t \in Tasks, Cancel(t)
  PROVE  Good
<1>1. TypeOK /\ CancelTask(t)
  BY DEF IInv, Cancel
<1>2. /\ run' = run /\ resuming' = resuming /\ sequencer' = sequencer /\ h' = h
      /\ sess' = sess /\ exits' = exits /\ asked' \in 0 .. MaxRequests
      /\ crashes' \in 0 .. MaxCrashes
      /\ stranded' = stranded /\ revived' = revived
  BY <1>1, AskedTyped DEF Cancel, world, marks
<1>3. /\ OneMoves(t) /\ AtMostOne' /\ fresh' \subseteq Handlers \X Tasks
      /\ RowsOK' /\ Saved' /\ Waits' /\ Board!Next
      /\ \A u \in Tasks : Exists(u) => tasks'[u].status # "none"
  BY <1>1, <1>2, CancelTaskMoves
<1>4. TypeOK'
  BY <1>1, <1>2, <1>3, TypesFolded DEF TypeOK, OneMoves
<1>5. Taken'
  BY <1>2, <1>3, TakenStays
<1> QED BY <1>3, <1>4, <1>5 DEF Good, IInv

LEMMA CloseCancelsGood ==
  ASSUME IInv, NEW x \in Handlers, NEW t \in Tasks, CloseCancels(x, t)
  PROVE  Good
<1> DEFINE v == [h[x] EXCEPT !.now = {}]
<1>1. TypeOK /\ h[x].op = "close" /\ Become(x, v)
  BY DEF IInv, CloseCancels
<1>2. v \in HandlerState /\ v.op = "close"
  BY <1>1, ClosingHandler DEF HandlerState
<1> HIDE DEF v
<1>3. /\ h' \in [Handlers -> HandlerState] /\ h'[x].op = "close"
      /\ \A y \in Handlers \ {x} : h'[y] = h[y]
  BY <1>1, <1>2, HandlerMoves
<1>4. /\ run' = run /\ resuming' = resuming /\ sequencer' = sequencer
      /\ sess' = sess /\ exits' = exits /\ asked' = asked /\ crashes' = crashes
      /\ stranded' = stranded /\ revived' = revived
  BY DEF CloseCancels, world, marks, bounds
<1>5. CASE CancelTask(t)
  <2>1. /\ OneMoves(t) /\ AtMostOne' /\ fresh' \subseteq Handlers \X Tasks
        /\ RowsOK' /\ Saved' /\ Waits' /\ Board!Next
        /\ \A u \in Tasks : Exists(u) => tasks'[u].status # "none"
    BY <1>4, <1>5, CancelTaskMoves
  <2>2. TypeOK'
    BY <1>1, <1>3, <1>4, <2>1, TypesFolded DEF TypeOK, OneMoves
  <2>3. Taken'
    BY <1>3, <2>1, TakenKept
  <2> QED BY <2>1, <2>2, <2>3 DEF Good, IInv
<1>6. CASE /\ fresh' = fresh \ {<<x, t>>}
           /\ UNCHANGED <<tasks, attempts, disk>>
  <2>1. RowsKept
    BY <1>4, <1>6 DEF RowsKept
  <2>2. TypeOK'
    BY <1>1, <1>3, <1>4, <1>6, TypesFolded, TypesUnfolded DEF TypeOK
  <2>3. Taken'
    BY <1>3, <1>6, TakenKept DEF Exists
  <2> QED BY <2>1, <2>2, <2>3, KeptStep DEF Good, IInv
<1> QED BY <1>5, <1>6 DEF CloseCancels

\* Many tasks move.
LEMMA EveryRow ==
  ASSUME attempts' \in [Tasks -> [Slots -> AttemptRow]], disk' \in DiskRow,
         \A t \in Tasks : RowOK(tasks'[t], attempts'[t], Missing(t)'),
         \A t \in Tasks : Written(tasks'[t], disk'.tasks[t], Missing(t)'),
         \A t \in Tasks : disk'.attempts[t] = attempts'[t],
         \A t \in Tasks : Board!Move(t)
  PROVE  RowsOK' /\ Saved' /\ Board!Next
<1>1. disk'.attempts = attempts'
  BY DEF DiskRow
<1> QED BY <1>1, BoardStep DEF RowsOK, Saved

\* Every task that exists is written.
LEMMA SavedExisting ==
  ASSUME disk \in DiskRow, NEW as, Save(disk, {u \in Tasks : Exists(u)}, as),
         tasks' \in [Tasks -> TaskRow], attempts' \in [Tasks -> [Slots -> AttemptRow]]
  PROVE  /\ disk' \in DiskRow
         /\ \A u \in Tasks : disk'.tasks[u] = IF u \in {d \in Tasks : Exists(d)}
                                                THEN tasks'[u] ELSE disk.tasks[u]
         /\ \A u \in Tasks : disk'.attempts[u] = IF u \in as THEN attempts'[u]
                                                            ELSE disk.attempts[u]
<1> HIDE DEF TaskRow, AttemptRow, RunRow
<1> QED BY DEF Save, DiskRow

\* The task t0 is done, and those that waited for it become ready.
DoneAndPromoted(t0, v) == tasks' = PromoteReady([tasks EXCEPT ![t0].status = v])

LEMMA PromotedSet ==
  ASSUME TypeOK, NEW t0 \in Tasks, NEW v \in {"Accepted", "Integrated"}, DoneAndPromoted(t0, v)
  PROVE  /\ tasks' \in [Tasks -> TaskRow] /\ tasks'[t0].status = v
         /\ \A u \in Tasks : /\ tasks'[u].used = tasks[u].used
                             /\ tasks'[u].after = tasks[u].after
                             /\ tasks'[u].mode = tasks[u].mode
         /\ \A u \in Tasks \ {t0} :
              \/ tasks'[u] = tasks[u]
              \/ /\ tasks[u].status = "Pending" /\ tasks'[u].status = "Ready"
                 /\ \A d \in tasks[u].after : SatisfiesDependency(tasks'[d].status)
         /\ \A u \in Tasks : tasks'[u].status = "Pending" =>
              ~(\A d \in tasks[u].after : SatisfiesDependency(tasks'[d].status))
<1> DEFINE row == [tasks EXCEPT ![t0].status = v]
           status == [t \in Tasks |-> row[t].status]
           Met(t) == row[t].status = "Pending" /\ DependenciesMet(row[t].after, status)
<1>1. /\ tasks \in [Tasks -> TaskRow] /\ \A u \in Tasks : tasks[u] \in TaskRow
      /\ v \in TaskStatus
  BY TypesUnfolded, RowFields DEF TaskStatus
<1>2. /\ row \in [Tasks -> TaskRow] /\ row[t0].status = v
      /\ \A u \in Tasks \ {t0} : row[u] = tasks[u]
      /\ \A u \in Tasks : row[u].used = tasks[u].used /\ row[u].after = tasks[u].after
      /\ \A u \in Tasks : row[u].mode = tasks[u].mode
  <2>1. [tasks[t0] EXCEPT !.status = v] \in TaskRow
    BY <1>1 DEF TaskRow
  <2>2. /\ row \in [Tasks -> TaskRow] /\ row[t0] = [tasks[t0] EXCEPT !.status = v]
        /\ \A u \in Tasks \ {t0} : row[u] = tasks[u]
    <3> HIDE DEF TaskRow
    <3> QED BY <1>1, <2>1
  <2> QED BY <1>1, <2>2 DEF TaskRow
<1>3. tasks' = [t \in Tasks |-> IF Met(t) THEN [row[t] EXCEPT !.status = "Ready"] ELSE row[t]]
  BY <1>2 DEF DoneAndPromoted, PromoteReady
<1>4. \A u \in Tasks : status[u] = row[u].status
  OBVIOUS
<1> HIDE DEF row, status
<1>5. ASSUME NEW u \in Tasks
      PROVE  /\ tasks'[u] \in TaskRow
             /\ tasks'[u].used = row[u].used /\ tasks'[u].after = row[u].after
             /\ tasks'[u].mode = row[u].mode
             /\ tasks'[u].status = (IF Met(u) THEN "Ready" ELSE row[u].status)
             /\ ~Met(u) => tasks'[u] = row[u]
  <2>1. CASE Met(u)
    <3>1. tasks'[u] = [row[u] EXCEPT !.status = "Ready"] /\ row[u] \in TaskRow
      BY <1>2, <1>3, <2>1
    <3> HIDE DEF Met
    <3> QED BY <2>1, <3>1 DEF TaskRow, TaskStatus
  <2>2. CASE ~Met(u)
    <3>1. tasks'[u] = row[u] /\ row[u] \in TaskRow
      BY <1>2, <1>3, <2>2
    <3> HIDE DEF Met
    <3> QED BY <2>2, <3>1
  <2> QED BY <2>1, <2>2
<1>6. tasks' \in [Tasks -> TaskRow]
  <2>1. tasks' = [t \in Tasks |-> tasks'[t]]
    BY <1>3
  <2> HIDE DEF TaskRow
  <2> QED BY <1>5, <2>1
<1>7. ~Met(t0)
  BY <1>2
<1>8. ASSUME NEW u \in Tasks
      PROVE  SatisfiesDependency(tasks'[u].status) <=> SatisfiesDependency(status[u])
  BY <1>4, <1>5 DEF SatisfiesDependency
<1>9. \A u \in Tasks : tasks[u].after \subseteq Tasks
  BY RowFields
<1>10. \A u \in Tasks : DependenciesMet(row[u].after, status) <=>
         \A d \in tasks[u].after : SatisfiesDependency(tasks'[d].status)
  BY <1>2, <1>8, <1>9 DEF DependenciesMet
<1>11. \A u \in Tasks : Met(u) <=>
         /\ row[u].status = "Pending"
         /\ \A d \in tasks[u].after : SatisfiesDependency(tasks'[d].status)
  BY <1>10
<1> HIDE DEF Met
<1>12. \A u \in Tasks \ {t0} :
         \/ tasks'[u] = tasks[u]
         \/ /\ tasks[u].status = "Pending" /\ tasks'[u].status = "Ready"
            /\ \A d \in tasks[u].after : SatisfiesDependency(tasks'[d].status)
  BY <1>2, <1>5, <1>11
<1>13. \A u \in Tasks : tasks'[u].status = "Pending" =>
         ~(\A d \in tasks[u].after : SatisfiesDependency(tasks'[d].status))
  BY <1>5, <1>11
<1> QED BY <1>2, <1>5, <1>6, <1>7, <1>12, <1>13

LEMMA PromotedGood ==
  ASSUME IInv, NEW t0 \in Tasks, NEW v \in {"Accepted", "Integrated"}, DoneAndPromoted(t0, v),
         attempts' = attempts, stranded' = stranded, revived' = revived,
         NEW as, Save(disk, {u \in Tasks : Exists(u)}, as),
         v = "Accepted" => tasks[t0].status \in {"Review", "Blocked"},
         v = "Integrated" => tasks[t0].status # "none"
  PROVE  /\ tasks' \in [Tasks -> TaskRow] /\ disk' \in DiskRow
         /\ RowsOK' /\ Saved' /\ Waits' /\ AtMostOne' /\ Board!Next
         /\ \A u \in Tasks : Exists(u) => tasks'[u].status # "none"
<1>1. TypeOK /\ tasks[t0].status # "none"
  BY DEF IInv
<1>2. /\ tasks' \in [Tasks -> TaskRow] /\ tasks'[t0].status = v
      /\ \A u \in Tasks : /\ tasks'[u].used = tasks[u].used
                          /\ tasks'[u].after = tasks[u].after
                          /\ tasks'[u].mode = tasks[u].mode
      /\ \A u \in Tasks \ {t0} :
           \/ tasks'[u] = tasks[u]
           \/ /\ tasks[u].status = "Pending" /\ tasks'[u].status = "Ready"
              /\ \A d \in tasks[u].after : SatisfiesDependency(tasks'[d].status)
      /\ \A u \in Tasks : tasks'[u].status = "Pending" =>
           ~(\A d \in tasks[u].after : SatisfiesDependency(tasks'[d].status))
  BY <1>1, PromotedSet
<1>3. attempts' \in [Tasks -> [Slots -> AttemptRow]] /\ disk \in DiskRow
  BY <1>1, TypesUnfolded
<1>4. /\ disk' \in DiskRow
      /\ \A u \in Tasks : disk'.tasks[u] = IF u \in {d \in Tasks : Exists(d)}
                                             THEN tasks'[u] ELSE disk.tasks[u]
      /\ \A u \in Tasks : disk'.attempts[u] = IF u \in as THEN attempts'[u]
                                                         ELSE disk.attempts[u]
  BY <1>2, <1>3, SavedExisting
<1>5. \A u \in Tasks : disk'.attempts[u] = attempts'[u]
  BY <1>4 DEF IInv, Saved
<1>6. \A u \in Tasks : Missing(u)' = Missing(u)
  BY DEF Missing
<1>7. ASSUME NEW u \in Tasks
      PROVE  /\ tasks[u] \in TaskRow /\ RowOK(tasks[u], attempts[u], Missing(u))
             /\ Missing(u) \in {0, 1} /\ tasks[u].after \subseteq Tasks
             /\ tasks[u].status \in Decided \cup Waiting => Missing(u) = 0 /\ ~Worked(attempts[u])
  BY <1>1, RowFields, DecidedRow DEF IInv, RowsOK
<1>8. ASSUME NEW u \in Tasks
      PROVE  /\ RowOK(tasks'[u], attempts'[u], Missing(u)') /\ Board!Move(u)
             /\ Written(tasks'[u], disk'.tasks[u], Missing(u)')
  <2>1. CASE u = t0 /\ v = "Accepted"
    <3>1. tasks[u].status \in Decided /\ Missing(u) = 0 /\ ~Worked(attempts[u])
      BY <1>7, <2>1 DEF Decided
    <3>2. RowOK(tasks'[u], attempts'[u], Missing(u)')
      BY <1>2, <1>6, <1>7, <2>1, <3>1, AcceptedRow
    <3>3. Board!Move(u)
      BY <1>2, <1>6, <2>1, <3>1, BoardDecides DEF SameBudget, Inserted
    <3> QED BY <1>1, <1>4, <2>1, <3>2, <3>3 DEF Written, Exists
  <2>2. CASE u = t0 /\ v = "Integrated"
    <3>1. RowOK(tasks'[u], attempts'[u], Missing(u)')
      BY <1>1, <1>2, <1>6, <1>7, <2>2, AcceptedRow
    <3>2. Board!Move(u)
      BY <1>1, <1>2, <1>6, <2>2, BoardIntegrates DEF SameBudget, Inserted
    <3> QED BY <1>1, <1>4, <2>2, <3>1, <3>2 DEF Written, Exists
  <2>3. CASE tasks'[u] = tasks[u]
    <3>1. SameForBoard(u)
      BY <1>6, <2>3 DEF SameForBoard
    <3>2. Written(tasks'[u], disk'.tasks[u], Missing(u)')
      BY <1>4, <1>6, <2>3 DEF IInv, Saved, Written
    <3> QED BY <1>6, <1>7, <2>3, <3>1, <3>2, BoardKeeps
  <2>4. CASE /\ u # t0 /\ tasks[u].status = "Pending" /\ tasks'[u].status = "Ready"
             /\ \A d \in tasks[u].after : SatisfiesDependency(tasks'[d].status)
    <3>1. Missing(u) = 0
      BY <1>7, <2>4 DEF Waiting
    <3>2. RowOK(tasks'[u], attempts'[u], Missing(u)')
      BY <1>2, <1>6, <1>7, <2>4, AcceptedRow
    <3>3. \A d \in tasks[u].after : tasks'[d].status \in {"Accepted", "Integrated"}
      BY <2>4 DEF SatisfiesDependency
    <3>4. SameBudget(u)
      BY <1>2, <1>6 DEF SameBudget, Inserted
    <3>5. Board!Move(u)
      BY <1>2, <1>7, <2>4, <3>1, <3>3, <3>4, BoardPromotes
    <3> QED BY <1>4, <2>4, <3>2, <3>5 DEF Written, Exists
  <2> QED BY <1>2, <2>1, <2>2, <2>3, <2>4
<1>9. RowsOK' /\ Saved' /\ Board!Next
  BY <1>3, <1>4, <1>5, <1>8, EveryRow
<1>10. Waits'
  BY <1>2, <1>7 DEF Waits, DependenciesMet, Status
<1>11. AtMostOne'
  BY <1>2, StartersKept
<1>12. \A u \in Tasks : Exists(u) => tasks'[u].status # "none"
  BY <1>2 DEF Exists
<1> QED BY <1>2, <1>4, <1>9, <1>10, <1>11, <1>12

LEMMA AcceptGood ==
  ASSUME IInv, NEW t \in Tasks, Accept(t)
  PROVE  Good
<1>1. TypeOK /\ tasks[t].status \in {"Review", "Blocked"}
  BY DEF IInv, Accept, AwaitsDecision
<1>2. /\ DoneAndPromoted(t, "Accepted") /\ Bump({t})
      /\ Save(disk, {u \in Tasks : Exists(u)}, {})
  BY DEF Accept, DoneAndPromoted
<1>3. /\ run' = run /\ attempts' = attempts /\ resuming' = resuming /\ sequencer' = sequencer
      /\ sess' = sess /\ exits' = exits /\ asked' = asked /\ crashes' = crashes
      /\ h' = h /\ stranded' = stranded /\ revived' = revived
  BY DEF Accept, world, marks, bounds
<1>4. /\ tasks' \in [Tasks -> TaskRow] /\ disk' \in DiskRow
      /\ RowsOK' /\ Saved' /\ Waits' /\ AtMostOne' /\ Board!Next
      /\ \A u \in Tasks : Exists(u) => tasks'[u].status # "none"
  BY <1>1, <1>2, <1>3, PromotedGood
<1>5. TypeOK'
  BY <1>1, <1>2, <1>3, <1>4, BumpTyped, TypesFolded, TypesUnfolded DEF TypeOK
<1> QED BY <1>3, <1>4, <1>5, TakenStays DEF Good, IInv

LEMMA MarkIntegratedGood ==
  ASSUME IInv, NEW x \in Handlers, MarkIntegrated(x)
  PROVE  Good
<1>1. PICK t \in Tasks : t = h[x].task /\ tasks[t].status # "none"
  BY HandlerFields DEF IInv, MarkIntegrated, Taken, Exists
<1>2. /\ TypeOK /\ DoneAndPromoted(t, "Integrated") /\ Bump({t})
      /\ Save(disk, {u \in Tasks : Exists(u)}, {t})
  BY <1>1 DEF IInv, MarkIntegrated, DoneAndPromoted
<1>3. /\ run' = run /\ attempts' = attempts /\ resuming' = resuming /\ sequencer' = sequencer
      /\ sess' = sess /\ exits' = exits /\ asked' = asked /\ crashes' = crashes
      /\ stranded' = stranded /\ revived' = revived
  BY DEF MarkIntegrated, world, marks, bounds
<1>4. /\ h' \in [Handlers -> HandlerState] /\ h'[x].op = "idle"
      /\ \A y \in Handlers \ {x} : h'[y] = h[y]
  BY <1>2, HandlerDone, IdleHandler DEF MarkIntegrated
<1>5. /\ tasks' \in [Tasks -> TaskRow] /\ disk' \in DiskRow
      /\ RowsOK' /\ Saved' /\ Waits' /\ AtMostOne' /\ Board!Next
      /\ \A u \in Tasks : Exists(u) => tasks'[u].status # "none"
  BY <1>1, <1>2, <1>3, PromotedGood
<1>6. TypeOK'
  BY <1>2, <1>3, <1>4, <1>5, BumpTyped, TypesFolded, TypesUnfolded DEF TypeOK
<1>7. Taken'
  BY <1>4, <1>5, TakenKept
<1> QED BY <1>5, <1>6, <1>7 DEF Good, IInv

\* A task whose worker was lost moves on; any other stays.
LEMMA LostSet ==
  ASSUME TypeOK, NEW lost, tasks' = LoseAttempts(tasks, lost)
  PROVE  /\ tasks' \in [Tasks -> TaskRow]
         /\ \A t \in Tasks : /\ tasks'[t].used = tasks[t].used
                             /\ tasks'[t].after = tasks[t].after
                             /\ tasks'[t].mode = tasks[t].mode
         /\ \A t \in Tasks : tasks'[t] =
              IF t \in lost /\ tasks[t].status \in {"Active", "Blocked"}
                THEN [tasks[t] EXCEPT !.status = TaskStatusAfterLoss(tasks[t].used)]
                ELSE tasks[t]
         /\ \A t \in Tasks :
              \/ tasks'[t] = tasks[t]
              \/ tasks[t].status # "none" /\ tasks'[t].status \in {"Ready", "Failed"}
<1>1. tasks \in [Tasks -> TaskRow] /\ \A t \in Tasks : tasks[t] \in TaskRow
  BY TypesUnfolded, RowFields
<1>2. \A t \in Tasks : tasks'[t] =
        IF t \in lost /\ tasks[t].status \in {"Active", "Blocked"}
          THEN [tasks[t] EXCEPT !.status = TaskStatusAfterLoss(tasks[t].used)]
          ELSE tasks[t]
  BY <1>1 DEF LoseAttempts
<1>3. ASSUME NEW k \in TaskRow
      PROVE  /\ [k EXCEPT !.status = TaskStatusAfterLoss(k.used)] \in TaskRow
             /\ [k EXCEPT !.status = TaskStatusAfterLoss(k.used)].status \in {"Ready", "Failed"}
             /\ [k EXCEPT !.status = TaskStatusAfterLoss(k.used)].used = k.used
             /\ [k EXCEPT !.status = TaskStatusAfterLoss(k.used)].after = k.after
             /\ [k EXCEPT !.status = TaskStatusAfterLoss(k.used)].mode = k.mode
  BY DEF TaskRow, TaskStatusAfterLoss, TaskStatus
<1>4. ASSUME NEW t \in Tasks
      PROVE  /\ tasks'[t] \in TaskRow /\ tasks'[t].used = tasks[t].used
             /\ tasks'[t].after = tasks[t].after /\ tasks'[t].mode = tasks[t].mode
             /\ \/ tasks'[t] = tasks[t]
                \/ tasks[t].status # "none" /\ tasks'[t].status \in {"Ready", "Failed"}
  <2>1. CASE t \in lost /\ tasks[t].status \in {"Active", "Blocked"}
    <3>1. tasks'[t] = [tasks[t] EXCEPT !.status = TaskStatusAfterLoss(tasks[t].used)]
      BY <1>2, <2>1
    <3> QED BY <1>1, <1>3, <2>1, <3>1
  <2>2. CASE ~(t \in lost /\ tasks[t].status \in {"Active", "Blocked"})
    BY <1>1, <1>2, <2>2
  <2> QED BY <2>1, <2>2
<1>5. tasks' \in [Tasks -> TaskRow]
  <2>1. tasks' = [t \in Tasks |-> tasks'[t]]
    BY <1>1 DEF LoseAttempts
  <2> HIDE DEF TaskRow
  <2> QED BY <1>4, <2>1
<1> QED BY <1>2, <1>4, <1>5

\* What the loss of the session s does to a task.
Loses(t, s) ==
  /\ \A i \in Slots : attempts'[t][i].n = attempts[t][i].n
  /\ \A i \in Slots : attempts'[t][i].phase =
       IF attempts[t][i].phase = "Running" /\ attempts[t][i].session = s
         THEN "Lost" ELSE attempts[t][i].phase
  /\ tasks'[t] =
       IF /\ \E i \in Slots : attempts[t][i].phase = "Running" /\ attempts[t][i].session = s
          /\ tasks[t].status \in {"Active", "Blocked"}
         THEN [tasks[t] EXCEPT !.status = TaskStatusAfterLoss(tasks[t].used)]
         ELSE tasks[t]
  /\ Missing(t)' = Missing(t)

LEMMA LosesRow ==
  ASSUME IInv, NEW t \in Tasks, NEW s, Loses(t, s)
  PROVE  RowOK(tasks'[t], attempts'[t], Missing(t)') /\ Board!Move(t)
<1>1. /\ tasks[t] \in TaskRow /\ RowOK(tasks[t], attempts[t], Missing(t))
      /\ Missing(t) \in {0, 1} /\ Missing(t)' = Missing(t)
  BY RowFields DEF IInv, RowsOK, Loses
<1>2. CASE \E i \in Slots : attempts[t][i].phase = "Running" /\ attempts[t][i].session = s
  <2>1. Worked(attempts[t])
    BY <1>2 DEF Worked
  <2>2. /\ Missing(t) = 0 /\ tasks[t].status \in {"Active", "Integrated"}
        /\ \A i \in Slots : attempts[t][i].phase = "Running" <=> i = tasks[t].used
    BY <1>1, <2>1, NewestWorks
  <2>3. \A i \in Slots : attempts'[t][i].n = attempts[t][i].n
    BY DEF Loses
  <2>4. \A i \in Slots : attempts'[t][i].phase =
          IF attempts[t][i].phase = "Running" THEN "Lost" ELSE attempts[t][i].phase
    BY <1>2, <2>2 DEF Loses
  <2>5. tasks'[t] = IF tasks[t].status \in {"Active", "Blocked"}
                      THEN [tasks[t] EXCEPT !.status = TaskStatusAfterLoss(tasks[t].used)]
                      ELSE tasks[t]
    BY <1>2 DEF Loses
  <2>6. RowOK(tasks'[t], attempts'[t], Missing(t)) /\ ~Worked(attempts'[t])
    BY <1>1, <2>1, <2>3, <2>4, <2>5, LostRow
  <2>7. /\ tasks'[t].used = tasks[t].used /\ tasks'[t].after = tasks[t].after
        /\ tasks'[t].status = IF tasks[t].status \in {"Active", "Blocked"}
                                THEN TaskStatusAfterLoss(tasks[t].used) ELSE tasks[t].status
    BY <1>1, <2>5 DEF TaskRow
  <2> QED BY <1>1, <2>1, <2>2, <2>6, <2>7, BoardLoses
<1>3. CASE ~(\E i \in Slots : attempts[t][i].phase = "Running" /\ attempts[t][i].session = s)
  <2>1. tasks'[t] = tasks[t]
    BY <1>3 DEF Loses
  <2>2. \A i \in Slots : attempts'[t][i].phase = attempts[t][i].phase
                         /\ attempts'[t][i].n = attempts[t][i].n
    BY <1>3 DEF Loses
  <2>3. RowOK(tasks'[t], attempts'[t], Missing(t)') /\ (Worked(attempts'[t]) <=> Worked(attempts[t]))
    BY <1>1, <2>1, <2>2, KeptRow
  <2>4. SameForBoard(t)
    BY <1>1, <2>1, <2>3 DEF SameForBoard
  <2> QED BY <2>3, <2>4, BoardKeeps
<1> QED BY <1>2, <1>3

LEMMA NoteSessionExitGood ==
  ASSUME IInv, NEW s \in Sessions, NoteSessionExit(s)
  PROVE  Good
<1> DEFINE lost == {t \in Tasks : \E i \in Live(t) : attempts[t][i].session = s}
           moved == {t \in lost : tasks[t].status \in {"Active", "Blocked"}}
           a(t, i) == IF i \in Live(t) /\ attempts[t][i].session = s
                        THEN [attempts[t][i] EXCEPT !.phase = "Lost"] ELSE attempts[t][i]
<1>1. TypeOK
  BY DEF IInv
<1>2. /\ tasks' = LoseAttempts(tasks, lost) /\ Bump(moved) /\ Save(disk, lost, lost)
      /\ attempts' = [t \in Tasks |-> [i \in Slots |-> a(t, i)]]
  BY DEF NoteSessionExit
<1>3. /\ run' = run /\ resuming' = resuming /\ sequencer' = sequencer
      /\ sess' = sess /\ exits' \subseteq Sessions /\ asked' = asked /\ crashes' = crashes
      /\ h' = h /\ stranded' = stranded /\ revived' = revived
  BY <1>1, TypesUnfolded DEF NoteSessionExit, marks, bounds
<1>4. fresh' \subseteq Handlers \X Tasks
  <2> HIDE DEF moved
  <2> QED BY <1>1, <1>2, BumpTyped
<1>5. ASSUME NEW t \in Tasks, NEW i \in Slots
      PROVE  /\ a(t, i) \in AttemptRow /\ a(t, i).n = attempts[t][i].n
             /\ a(t, i).phase = IF attempts[t][i].phase = "Running" /\ attempts[t][i].session = s
                                  THEN "Lost" ELSE attempts[t][i].phase
             /\ a(t, i).phase = "Running" => a(t, i) = attempts[t][i]
  <2>1. attempts[t][i] \in AttemptRow
    BY <1>1, AttemptFields
  <2>2. CASE attempts[t][i].phase = "Running" /\ attempts[t][i].session = s
    <3>1. a(t, i) = [attempts[t][i] EXCEPT !.phase = "Lost"]
      BY <2>2 DEF Live, IsLive
    <3> HIDE DEF a
    <3> QED BY <2>1, <2>2, <3>1, ReportedIsPhase DEF AttemptRow
  <2>3. CASE ~(attempts[t][i].phase = "Running" /\ attempts[t][i].session = s)
    <3>1. a(t, i) = attempts[t][i]
      BY <2>3 DEF Live, IsLive
    <3> HIDE DEF a
    <3> QED BY <2>1, <2>3, <3>1
  <2> QED BY <2>2, <2>3
<1> HIDE DEF a
<1>6. /\ attempts' \in [Tasks -> [Slots -> AttemptRow]]
      /\ \A t \in Tasks, i \in Slots : attempts'[t][i] = a(t, i)
  <2> HIDE DEF AttemptRow
  <2> QED BY <1>2, <1>5
<1>7. \A t \in Tasks : t \in lost <=>
        \E i \in Slots : attempts[t][i].phase = "Running" /\ attempts[t][i].session = s
  BY DEF Live, IsLive
<1> HIDE DEF lost
<1>8. /\ tasks' \in [Tasks -> TaskRow]
      /\ \A t \in Tasks : tasks'[t].mode = tasks[t].mode /\ tasks'[t].after = tasks[t].after
      /\ \A t \in Tasks : tasks'[t] =
           IF t \in lost /\ tasks[t].status \in {"Active", "Blocked"}
             THEN [tasks[t] EXCEPT !.status = TaskStatusAfterLoss(tasks[t].used)]
             ELSE tasks[t]
      /\ \A t \in Tasks :
           \/ tasks'[t] = tasks[t]
           \/ tasks[t].status # "none" /\ tasks'[t].status \in {"Ready", "Failed"}
  BY <1>1, <1>2, LostSet
<1>9. \A t \in Tasks : Missing(t)' = Missing(t)
  BY <1>3 DEF Missing
<1>10. ASSUME NEW t \in Tasks
       PROVE  Loses(t, s)
  <2>1. \A i \in Slots : attempts'[t][i].n = attempts[t][i].n
    BY <1>5, <1>6
  <2>2. \A i \in Slots : attempts'[t][i].phase =
          IF attempts[t][i].phase = "Running" /\ attempts[t][i].session = s
            THEN "Lost" ELSE attempts[t][i].phase
    BY <1>5, <1>6
  <2> QED BY <1>7, <1>8, <1>9, <2>1, <2>2 DEF Loses
<1>11. \A t \in Tasks : RowOK(tasks'[t], attempts'[t], Missing(t)') /\ Board!Move(t)
  BY <1>10, LosesRow
<1>12. /\ disk' \in DiskRow
       /\ \A t \in Tasks : disk'.tasks[t] = IF t \in lost THEN tasks'[t] ELSE disk.tasks[t]
       /\ \A t \in Tasks : disk'.attempts[t] = IF t \in lost THEN attempts'[t]
                                                             ELSE disk.attempts[t]
  <2>1. disk \in DiskRow /\ Save(disk, lost, lost) /\ tasks' \in [Tasks -> TaskRow]
    BY <1>1, <1>2, <1>8, TypesUnfolded
  <2> QED BY <1>6, <2>1, SavedRows
<1>13. \A t \in Tasks : Written(tasks'[t], disk'.tasks[t], Missing(t)')
  <2>1. \A t \in Tasks \ lost : tasks'[t] = tasks[t] /\ disk'.tasks[t] = disk.tasks[t]
    BY <1>8, <1>12
  <2>2. \A t \in lost : t \in Tasks => disk'.tasks[t] = tasks'[t]
    BY <1>12
  <2> QED BY <1>9, <2>1, <2>2 DEF IInv, Saved, Written
<1>14. \A t \in Tasks : disk'.attempts[t] = attempts'[t]
  <2>1. \A t \in Tasks \ lost : attempts'[t] = attempts[t]
    <3>1. ASSUME NEW t \in Tasks \ lost
          PROVE  attempts'[t] = attempts[t]
      <4>1. \A i \in Slots : attempts'[t][i] = attempts[t][i]
        BY <1>6, <1>7, <3>1 DEF a, Live, IsLive
      <4>2. attempts'[t] \in [Slots -> AttemptRow] /\ attempts[t] \in [Slots -> AttemptRow]
        BY <1>1, <1>6, RowFields
      <4> QED BY <4>1, <4>2
    <3> QED BY <3>1
  <2> QED BY <1>12, <2>1 DEF IInv, Saved
<1>15. RowsOK' /\ Saved' /\ Board!Next
  BY <1>6, <1>11, <1>12, <1>13, <1>14, EveryRow
<1>16. Waits'
  BY <1>8, WaitsKept DEF SatisfiesDependency
<1>17. AtMostOne'
  BY <1>3, <1>5, <1>6, <1>8, StartersKept
<1>18. Taken'
  BY <1>3, <1>8, TakenStays DEF Exists
<1>19. TypeOK'
  BY <1>1, <1>3, <1>4, <1>6, <1>8, <1>12, TypesFolded DEF TypeOK
<1> QED BY <1>15, <1>16, <1>17, <1>18, <1>19 DEF Good, IInv

\* A session's row goes: what is left of it in the ledger and in SQLite.
LEMMA ForgetSessionMoves ==
  ASSUME IInv, NEW s \in Sessions, ForgetSession(s), stranded' = stranded, revived' = revived
  PROVE  /\ run' \in RunRow /\ tasks' \in [Tasks -> TaskRow] /\ disk' \in DiskRow
         /\ attempts' \in [Tasks -> [Slots -> AttemptRow]]
         /\ fresh' \subseteq Handlers \X Tasks
         /\ sess' \in [Sessions -> {"free", "live", "ended", "gone"}]
         /\ exits' = exits /\ resuming' = resuming /\ sequencer' = sequencer
         /\ RowsOK' /\ Saved' /\ Waits' /\ AtMostOne' /\ Board!Next
         /\ \A u \in Tasks : Exists(u) => tasks'[u].status # "none"
<1> DEFINE mine == {t \in Tasks : \E i \in Slots : attempts[t][i].session = s}
           lost == {t \in Tasks : \E i \in Live(t) : attempts[t][i].session = s}
           moved == {t \in lost : tasks[t].status \in {"Active", "Blocked"}}
           Nulled(r) == IF r.session = s THEN [r EXCEPT !.session = None] ELSE r
           NoController(r) == IF r.controller = s THEN [r EXCEPT !.controller = None] ELSE r
           a(t, i) == IF attempts[t][i].session = s /\ i \in Live(t)
                        THEN [Nulled(attempts[t][i]) EXCEPT !.phase = "Lost"]
                        ELSE Nulled(attempts[t][i])
           d == [run |-> NoController(disk.run), tasks |-> disk.tasks,
                 attempts |-> [t \in Tasks |-> [i \in Slots |-> Nulled(disk.attempts[t][i])]]]
<1>1. TypeOK /\ disk \in DiskRow /\ run \in RunRow
  BY TypesUnfolded DEF IInv
<1>2. /\ tasks' = LoseAttempts(tasks, lost) /\ Bump(moved) /\ Save(d, moved, mine)
      /\ attempts' = [t \in Tasks |-> [i \in Slots |-> a(t, i)]]
      /\ run' = NoController(run) /\ sess' = [sess EXCEPT ![s] = "gone"]
  BY DEF ForgetSession
<1>3. exits' = exits /\ resuming' = resuming /\ sequencer' = sequencer
  BY DEF ForgetSession
<1>4. fresh' \subseteq Handlers \X Tasks
  <2> HIDE DEF moved
  <2> QED BY <1>1, <1>2, BumpTyped
<1>5. \A r \in RunRow : NoController(r) \in RunRow
  BY DEF RunRow
<1>6. \A r \in AttemptRow : /\ Nulled(r) \in AttemptRow /\ Nulled(r).n = r.n
                            /\ Nulled(r).phase = r.phase
                            /\ r.session # s => Nulled(r) = r
  BY DEF AttemptRow
<1>7. sess' \in [Sessions -> {"free", "live", "ended", "gone"}]
  BY <1>1, <1>2 DEF TypeOK
<1>8. disk.run \in RunRow /\ disk.tasks \in [Tasks -> TaskRow]
      /\ \A t \in Tasks, i \in Slots : disk.attempts[t][i] \in AttemptRow
  BY <1>1 DEF DiskRow
<1> HIDE DEF NoController, Nulled
<1>9. /\ d \in DiskRow /\ d.tasks = disk.tasks
      /\ \A t \in Tasks, i \in Slots : d.attempts[t][i] = Nulled(disk.attempts[t][i])
  <2> HIDE DEF AttemptRow, TaskRow, RunRow
  <2> QED BY <1>5, <1>6, <1>8 DEF DiskRow
<1> HIDE DEF d
<1>10. ASSUME NEW t \in Tasks, NEW i \in Slots
       PROVE  /\ a(t, i) \in AttemptRow /\ a(t, i).n = attempts[t][i].n
              /\ a(t, i).phase = IF attempts[t][i].phase = "Running" /\ attempts[t][i].session = s
                                   THEN "Lost" ELSE attempts[t][i].phase
              /\ attempts[t][i].session # s => a(t, i) = attempts[t][i]
  <2>1. attempts[t][i] \in AttemptRow
    BY <1>1, AttemptFields
  <2>2. CASE attempts[t][i].phase = "Running" /\ attempts[t][i].session = s
    <3>1. a(t, i) = [Nulled(attempts[t][i]) EXCEPT !.phase = "Lost"]
      BY <2>2 DEF Live, IsLive
    <3>2. Nulled(attempts[t][i]) \in AttemptRow /\ Nulled(attempts[t][i]).n = attempts[t][i].n
      BY <1>6, <2>1
    <3> HIDE DEF a
    <3> QED BY <2>2, <3>1, <3>2, ReportedIsPhase DEF AttemptRow
  <2>3. CASE ~(attempts[t][i].phase = "Running" /\ attempts[t][i].session = s)
    <3>1. a(t, i) = Nulled(attempts[t][i])
      BY <2>3 DEF Live, IsLive
    <3> HIDE DEF a
    <3> QED BY <1>6, <2>1, <2>3, <3>1
  <2> QED BY <2>2, <2>3
<1> HIDE DEF a
<1>11. /\ attempts' \in [Tasks -> [Slots -> AttemptRow]]
       /\ \A t \in Tasks, i \in Slots : attempts'[t][i] = a(t, i)
  <2> HIDE DEF AttemptRow
  <2> QED BY <1>2, <1>10
<1>12. \A t \in Tasks : t \in lost <=>
         \E i \in Slots : attempts[t][i].phase = "Running" /\ attempts[t][i].session = s
  BY DEF Live, IsLive
<1>13. \A t \in Tasks : t \in moved <=> t \in lost /\ tasks[t].status \in {"Active", "Blocked"}
  OBVIOUS
<1>14. \A t \in Tasks \ mine : \A i \in Slots : attempts[t][i].session # s
  OBVIOUS
<1> HIDE DEF lost, moved, mine
<1>15. /\ tasks' \in [Tasks -> TaskRow]
       /\ \A t \in Tasks : tasks'[t].mode = tasks[t].mode /\ tasks'[t].after = tasks[t].after
       /\ \A t \in Tasks : tasks'[t] =
            IF t \in lost /\ tasks[t].status \in {"Active", "Blocked"}
              THEN [tasks[t] EXCEPT !.status = TaskStatusAfterLoss(tasks[t].used)]
              ELSE tasks[t]
       /\ \A t \in Tasks :
            \/ tasks'[t] = tasks[t]
            \/ tasks[t].status # "none" /\ tasks'[t].status \in {"Ready", "Failed"}
  BY <1>1, <1>2, LostSet
<1>16. \A t \in Tasks : Missing(t)' = Missing(t)
  BY DEF Missing
<1>17. ASSUME NEW t \in Tasks
       PROVE  Loses(t, s)
  <2>1. \A i \in Slots : attempts'[t][i].n = attempts[t][i].n
    BY <1>10, <1>11
  <2>2. \A i \in Slots : attempts'[t][i].phase =
          IF attempts[t][i].phase = "Running" /\ attempts[t][i].session = s
            THEN "Lost" ELSE attempts[t][i].phase
    BY <1>10, <1>11
  <2> QED BY <1>12, <1>15, <1>16, <2>1, <2>2 DEF Loses
<1>18. \A t \in Tasks : RowOK(tasks'[t], attempts'[t], Missing(t)') /\ Board!Move(t)
  BY <1>17, LosesRow
<1>19. /\ disk' \in DiskRow
       /\ \A t \in Tasks : disk'.tasks[t] = IF t \in moved THEN tasks'[t] ELSE d.tasks[t]
       /\ \A t \in Tasks : disk'.attempts[t] = IF t \in mine THEN attempts'[t]
                                                             ELSE d.attempts[t]
  <2>1. Save(d, moved, mine) /\ tasks' \in [Tasks -> TaskRow]
    BY <1>2, <1>15
  <2>2. d \in DiskRow
    BY <1>9
  <2> QED BY <1>11, <2>1, <2>2, SavedRows
<1>20. \A t \in Tasks : Written(tasks'[t], disk'.tasks[t], Missing(t)')
  <2>1. \A t \in Tasks \ moved : tasks'[t] = tasks[t] /\ disk'.tasks[t] = disk.tasks[t]
    BY <1>9, <1>13, <1>15, <1>19
  <2>2. \A t \in moved : t \in Tasks => disk'.tasks[t] = tasks'[t]
    BY <1>19
  <2> QED BY <1>16, <2>1, <2>2 DEF IInv, Saved, Written
<1>21. ASSUME NEW t \in Tasks
       PROVE  disk'.attempts[t] = attempts'[t]
  <2>1. CASE t \in mine
    BY <1>19, <2>1
  <2>2. CASE t \notin mine
    <3>1. \A i \in Slots : attempts'[t][i] = attempts[t][i]
      BY <1>10, <1>11, <1>14, <2>2
    <3>2. disk.attempts[t] = attempts[t]
      BY DEF IInv, Saved
    <3>3. \A i \in Slots : d.attempts[t][i] = attempts[t][i]
      BY <1>6, <1>8, <1>9, <1>14, <2>2, <3>2
    <3>4. d.attempts[t] \in [Slots -> AttemptRow]
      BY <1>9 DEF DiskRow
    <3>5. disk'.attempts[t] = d.attempts[t] /\ attempts'[t] \in [Slots -> AttemptRow]
      BY <1>11, <1>19, <2>2
    <3> QED BY <3>1, <3>3, <3>4, <3>5
  <2> QED BY <2>1, <2>2
<1>22. RowsOK' /\ Saved' /\ Board!Next
  BY <1>11, <1>18, <1>19, <1>20, <1>21, EveryRow
<1>23. Waits'
  BY <1>15, WaitsKept DEF SatisfiesDependency
<1>24. AtMostOne'
  <2>1. ASSUME NEW t \in Tasks, NEW i \in Slots, attempts'[t][i].phase = "Running"
        PROVE  attempts'[t][i] = attempts[t][i]
    BY <1>10, <1>11, <2>1
  <2> QED BY <1>15, <2>1, StartersKept
<1>25. run' \in RunRow /\ \A u \in Tasks : Exists(u) => tasks'[u].status # "none"
  BY <1>1, <1>2, <1>5, <1>15 DEF Exists
<1> QED BY <1>3, <1>4, <1>7, <1>11, <1>15, <1>19, <1>22, <1>23, <1>24, <1>25

LEMMA AbandonStartGood ==
  ASSUME IInv, NEW x \in Handlers, AbandonStart(x)
  PROVE  Good
<1>1. PICK s \in Sessions : s = h[x].session
  BY HandlerFields DEF IInv, AbandonStart
<1>2. TypeOK /\ stranded' = stranded /\ revived' = revived
      /\ asked' = asked /\ crashes' = crashes
  BY DEF IInv, AbandonStart, marks, bounds
<1>3. /\ h' \in [Handlers -> HandlerState] /\ h'[x].op = "idle"
      /\ \A y \in Handlers \ {x} : h'[y] = h[y]
  BY <1>2, HandlerDone, IdleHandler DEF AbandonStart
<1>4. CASE ForgetSession(s)
  <2>1. /\ run' \in RunRow /\ tasks' \in [Tasks -> TaskRow] /\ disk' \in DiskRow
        /\ attempts' \in [Tasks -> [Slots -> AttemptRow]]
        /\ fresh' \subseteq Handlers \X Tasks
        /\ sess' \in [Sessions -> {"free", "live", "ended", "gone"}]
        /\ exits' = exits /\ resuming' = resuming /\ sequencer' = sequencer
        /\ RowsOK' /\ Saved' /\ Waits' /\ AtMostOne' /\ Board!Next
        /\ \A u \in Tasks : Exists(u) => tasks'[u].status # "none"
    BY <1>2, <1>4, ForgetSessionMoves
  <2>2. TypeOK'
    BY <1>2, <1>3, <2>1, TypesFolded DEF TypeOK
  <2>3. Taken'
    BY <1>3, <2>1, TakenKept
  <2> QED BY <2>1, <2>2, <2>3 DEF Good, IInv
<1>5. CASE UNCHANGED <<ledger, disk, flags, world>>
  <2>1. RowsKept
    BY <1>2, <1>5 DEF RowsKept, ledger
  <2>2. TypeOK'
    BY <1>2, <1>3, <1>5, TypesFolded, TypesUnfolded DEF TypeOK, ledger, flags, world
  <2>3. Taken'
    BY <1>3, <1>5, TakenKept DEF Exists, ledger
  <2> QED BY <2>1, <2>2, <2>3, KeptStep DEF Good, IInv
<1> QED BY <1>1, <1>4, <1>5 DEF AbandonStart

LEMMA CommitCleanupGood ==
  ASSUME IInv, NEW x \in Handlers, CommitCleanup(x)
  PROVE  Good
<1>1. PICK s \in Sessions : s = h[x].session
  BY HandlerFields DEF IInv, CommitCleanup
<1>2. TypeOK /\ stranded' = stranded /\ revived' = revived
      /\ asked' = asked /\ crashes' = crashes
  BY DEF IInv, CommitCleanup, marks, bounds
<1>3. /\ h' \in [Handlers -> HandlerState] /\ h'[x].op = "idle"
      /\ \A y \in Handlers \ {x} : h'[y] = h[y]
  BY <1>2, HandlerDone, IdleHandler DEF CommitCleanup
<1>4. CASE ForgetSession(s)
  <2>1. /\ run' \in RunRow /\ tasks' \in [Tasks -> TaskRow] /\ disk' \in DiskRow
        /\ attempts' \in [Tasks -> [Slots -> AttemptRow]]
        /\ fresh' \subseteq Handlers \X Tasks
        /\ sess' \in [Sessions -> {"free", "live", "ended", "gone"}]
        /\ exits' = exits /\ resuming' = resuming /\ sequencer' = sequencer
        /\ RowsOK' /\ Saved' /\ Waits' /\ AtMostOne' /\ Board!Next
        /\ \A u \in Tasks : Exists(u) => tasks'[u].status # "none"
    BY <1>2, <1>4, ForgetSessionMoves
  <2>2. TypeOK'
    BY <1>2, <1>3, <2>1, TypesFolded DEF TypeOK
  <2>3. Taken'
    BY <1>3, <2>1, TakenKept
  <2> QED BY <2>1, <2>2, <2>3 DEF Good, IInv
<1>5. CASE UNCHANGED <<ledger, disk, flags, world>>
  <2>1. RowsKept
    BY <1>2, <1>5 DEF RowsKept, ledger
  <2>2. TypeOK'
    BY <1>2, <1>3, <1>5, TypesFolded, TypesUnfolded DEF TypeOK, ledger, flags, world
  <2>3. Taken'
    BY <1>3, <1>5, TakenKept DEF Exists, ledger
  <2> QED BY <2>1, <2>2, <2>3, KeptStep DEF Good, IInv
<1> QED BY <1>1, <1>4, <1>5 DEF CommitCleanup

LEMMA CloseSessionGood ==
  ASSUME IInv, NEW s \in Sessions, CloseSession(s)
  PROVE  Good
<1>1. TypeOK /\ stranded' = stranded /\ revived' = revived /\ h' = h
      /\ asked' = asked /\ crashes' = crashes /\ ForgetSession(s)
  BY DEF IInv, CloseSession, marks, bounds
<1>2. /\ run' \in RunRow /\ tasks' \in [Tasks -> TaskRow] /\ disk' \in DiskRow
      /\ attempts' \in [Tasks -> [Slots -> AttemptRow]]
      /\ fresh' \subseteq Handlers \X Tasks
      /\ sess' \in [Sessions -> {"free", "live", "ended", "gone"}]
      /\ exits' = exits /\ resuming' = resuming /\ sequencer' = sequencer
      /\ RowsOK' /\ Saved' /\ Waits' /\ AtMostOne' /\ Board!Next
      /\ \A u \in Tasks : Exists(u) => tasks'[u].status # "none"
  BY <1>1, ForgetSessionMoves
<1>3. TypeOK'
  BY <1>1, <1>2, TypesFolded DEF TypeOK
<1>4. Taken'
  BY <1>1, <1>2, TakenStays
<1> QED BY <1>2, <1>3, <1>4 DEF Good, IInv

LEMMA ResumeBlockedGood ==
  ASSUME IInv, NEW s \in Sessions, ResumeBlocked(s)
  PROVE  Good
<1> DEFINE Asking(t, i) == /\ attempts[t][i].session = s /\ attempts[t][i].phase = "Reported"
                           /\ attempts[t][i].outcome = "Blocked"
           back == {t \in Tasks : tasks[t].status = "Blocked" /\ \E i \in Slots : Asking(t, i)}
           a(t, i) == IF t \in back /\ Asking(t, i)
                        THEN [attempts[t][i] EXCEPT !.phase = "Running"] ELSE attempts[t][i]
           k(t) == IF t \in back THEN [tasks[t] EXCEPT !.status = "Active"] ELSE tasks[t]
<1>1. TypeOK
  BY DEF IInv
<1>2. /\ Bump(back) /\ Save(disk, back, back)
      /\ tasks' = [t \in Tasks |-> k(t)]
      /\ attempts' = [t \in Tasks |-> [i \in Slots |-> a(t, i)]]
  BY DEF ResumeBlocked
<1>3. /\ run' = run /\ resuming' = resuming /\ sequencer' = sequencer
      /\ sess' = sess /\ exits' = exits /\ asked' = asked /\ crashes' = crashes
      /\ h' = h /\ stranded' = stranded /\ revived' = revived \cup {s}
  BY DEF ResumeBlocked, world, bounds
<1>4. fresh' \subseteq Handlers \X Tasks
  <2> HIDE DEF back
  <2> QED BY <1>1, <1>2, BumpTyped
<1>5. ASSUME NEW t \in Tasks, NEW i \in Slots
      PROVE  /\ a(t, i) \in AttemptRow /\ a(t, i).n = attempts[t][i].n
             /\ a(t, i).session = attempts[t][i].session
             /\ a(t, i) = attempts[t][i] \/ a(t, i).session = s
             /\ t \in back /\ Asking(t, i) => a(t, i).phase = "Running"
             /\ ~(t \in back /\ Asking(t, i)) => a(t, i) = attempts[t][i]
  <2>1. attempts[t][i] \in AttemptRow
    BY <1>1, AttemptFields
  <2>2. CASE t \in back /\ Asking(t, i)
    <3>1. a(t, i) = [attempts[t][i] EXCEPT !.phase = "Running"] /\ attempts[t][i].session = s
      BY <2>2
    <3> HIDE DEF a, back, Asking
    <3> QED BY <2>1, <2>2, <3>1, ReportedIsPhase DEF AttemptRow
  <2>3. CASE ~(t \in back /\ Asking(t, i))
    <3>1. a(t, i) = attempts[t][i]
      BY <2>3
    <3> HIDE DEF a, back, Asking
    <3> QED BY <2>1, <2>3, <3>1
  <2> QED BY <2>2, <2>3
<1>6. ASSUME NEW t \in Tasks
      PROVE  /\ k(t) \in TaskRow /\ k(t).used = tasks[t].used /\ k(t).after = tasks[t].after
             /\ k(t).mode = tasks[t].mode
             /\ t \in back => k(t).status = "Active" /\ tasks[t].status = "Blocked"
             /\ t \notin back => k(t) = tasks[t]
  <2>1. tasks[t] \in TaskRow
    BY <1>1, RowFields
  <2>2. CASE t \in back
    <3>1. k(t) = [tasks[t] EXCEPT !.status = "Active"] /\ tasks[t].status = "Blocked"
      BY <2>2
    <3> HIDE DEF k, back
    <3> QED BY <2>1, <2>2, <3>1 DEF TaskRow, TaskStatus
  <2>3. CASE t \notin back
    BY <2>1, <2>3
  <2> QED BY <2>2, <2>3
<1>7. \A t \in back : t \in Tasks /\ \E i \in Slots : Asking(t, i)
  OBVIOUS
<1> HIDE DEF a, back, k
<1>8. /\ attempts' \in [Tasks -> [Slots -> AttemptRow]]
      /\ \A t \in Tasks, i \in Slots : attempts'[t][i] = a(t, i)
  <2> HIDE DEF AttemptRow
  <2> QED BY <1>2, <1>5
<1>9. /\ tasks' \in [Tasks -> TaskRow]
      /\ \A t \in Tasks : tasks'[t] = k(t)
  <2> HIDE DEF TaskRow
  <2> QED BY <1>2, <1>6
<1>10. \A t \in Tasks : Missing(t)' = Missing(t)
  BY <1>3 DEF Missing
<1>11. \A t \in Tasks \ back : tasks'[t] = tasks[t] /\ attempts'[t] = attempts[t]
  <2>1. ASSUME NEW t \in Tasks \ back
        PROVE  attempts'[t] = attempts[t]
    <3>1. \A i \in Slots : attempts'[t][i] = attempts[t][i]
      BY <1>5, <1>8
    <3>2. attempts'[t] \in [Slots -> AttemptRow] /\ attempts[t] \in [Slots -> AttemptRow]
      BY <1>1, <1>8, RowFields
    <3> QED BY <3>1, <3>2
  <2> QED BY <1>6, <1>9, <2>1
<1>12. ASSUME NEW t \in back
       PROVE  RowOK(tasks'[t], attempts'[t], Missing(t)') /\ Board!Move(t)
  <2>1. /\ t \in Tasks /\ tasks[t].status = "Blocked" /\ tasks[t].status \in Decided
        /\ tasks'[t].status = "Active" /\ tasks'[t].used = tasks[t].used
        /\ tasks'[t].after = tasks[t].after
    BY <1>6, <1>7, <1>9, <1>12 DEF Decided
  <2>2. /\ tasks[t] \in TaskRow /\ RowOK(tasks[t], attempts[t], Missing(t))
        /\ Missing(t) \in {0, 1}
    BY <1>1, <2>1, RowFields DEF IInv, RowsOK
  <2>3. Missing(t) = 0 /\ ~Worked(attempts[t])
    BY <2>1, <2>2, DecidedRow
  <2>4. \A j \in Slots : attempts[t][j].phase = "Reported" => j = tasks[t].used
    <3>1. \A j \in Slots : attempts[t][j].phase = "Reported" =>
            j <= tasks[t].used /\ ~(j < tasks[t].used)
      BY <2>2, <2>3 DEF RowOK, Inserted, Over
    <3>2. tasks[t].used \in Nat
      BY <1>1, <2>1, RowFields
    <3>3. \A j \in Slots : j \in Nat
      BY SlotsAreNumbers
    <3>4. \A j \in Nat : j <= tasks[t].used /\ ~(j < tasks[t].used) => j = tasks[t].used
      BY <3>2
    <3> QED BY <3>1, <3>3, <3>4
  <2>5. tasks[t].used \in Slots /\ Asking(t, tasks[t].used)
    BY <1>7, <2>4
  <2>6. \A j \in Slots : j # tasks[t].used => attempts'[t][j] = attempts[t][j]
    BY <1>5, <1>8, <2>1, <2>4
  <2>7. /\ attempts'[t][tasks[t].used].n = attempts[t][tasks[t].used].n
        /\ attempts'[t][tasks[t].used].phase = "Running"
    BY <1>5, <1>8, <1>12, <2>1, <2>5
  <2> HIDE DEF Asking
  <2>8. RowOK(tasks'[t], attempts'[t], Missing(t)) /\ Worked(attempts'[t])
    BY <2>1, <2>2, <2>6, <2>7, ReopenedRow
  <2> QED BY <1>10, <2>1, <2>3, <2>8, BoardDecides DEF SameBudget, Inserted
<1>13. ASSUME NEW t \in Tasks \ back
       PROVE  RowOK(tasks'[t], attempts'[t], Missing(t)') /\ Board!Move(t)
  <2>1. SameForBoard(t)
    BY <1>10, <1>11 DEF SameForBoard
  <2> QED BY <1>10, <1>11, <2>1, BoardKeeps DEF IInv, RowsOK
<1>14. \A t \in Tasks : RowOK(tasks'[t], attempts'[t], Missing(t)') /\ Board!Move(t)
  BY <1>12, <1>13
<1>15. /\ disk' \in DiskRow
       /\ \A t \in Tasks : disk'.tasks[t] = IF t \in back THEN tasks'[t] ELSE disk.tasks[t]
       /\ \A t \in Tasks : disk'.attempts[t] = IF t \in back THEN attempts'[t]
                                                             ELSE disk.attempts[t]
  <2>1. disk \in DiskRow /\ Save(disk, back, back) /\ tasks' \in [Tasks -> TaskRow]
    BY <1>1, <1>2, <1>9, TypesUnfolded
  <2> QED BY <1>8, <2>1, SavedRows
<1>16. \A t \in Tasks : Written(tasks'[t], disk'.tasks[t], Missing(t)')
  <2>1. \A t \in Tasks \ back : tasks'[t] = tasks[t] /\ disk'.tasks[t] = disk.tasks[t]
    BY <1>11, <1>15
  <2>2. \A t \in back : t \in Tasks => disk'.tasks[t] = tasks'[t]
    BY <1>15
  <2> QED BY <1>10, <2>1, <2>2 DEF IInv, Saved, Written
<1>17. \A t \in Tasks : disk'.attempts[t] = attempts'[t]
  BY <1>11, <1>15 DEF IInv, Saved
<1>18. RowsOK' /\ Saved' /\ Board!Next
  BY <1>8, <1>14, <1>15, <1>16, <1>17, EveryRow
<1>19. \A t \in Tasks : tasks'[t] = tasks[t] \/ tasks'[t].status = "Active"
  BY <1>6, <1>9
<1>20. Waits'
  BY <1>19, WaitsKept DEF SatisfiesDependency
<1>21. AtMostOne'
  <2>1. \A t \in Tasks : tasks'[t].mode = tasks[t].mode
    BY <1>6, <1>9
  <2>2. \A t \in Tasks, i \in Slots :
          attempts'[t][i] = attempts[t][i] \/ attempts'[t][i].session \in revived'
    BY <1>3, <1>5, <1>8
  <2> QED BY <1>3, <2>1, <2>2, StartersKept
<1>22. Taken'
  BY <1>3, <1>19, TakenStays DEF Exists
<1>23. TypeOK'
  BY <1>1, <1>3, <1>4, <1>8, <1>9, <1>15, TypesFolded DEF TypeOK
<1> QED BY <1>18, <1>20, <1>21, <1>22, <1>23 DEF Good, IInv

-----------------------------------------------------------------------------
(* The daemon dies and starts again.                                       *)

\* A start that could not be inserted was not written either: it is undone.
LEMMA RestoredRow ==
  ASSUME NEW k \in TaskRow, NEW a, NEW a2, RowOK(k, a, 1), k.status = "Active",
         \A i \in Slots : a2[i].phase = a[i].phase /\ a2[i].n = a[i].n
  PROVE  /\ RowOK(Unstarted(k), a2, 0)
         /\ Unstarted(k).status = "Ready" /\ Unstarted(k).after = k.after
         /\ Unstarted(k).used # k.used /\ Inserted(Unstarted(k), 0) = Inserted(k, 1)
<1> DEFINE k2 == Unstarted(k)
<1>1. k.used >= 1 /\ k.used \in Nat
  BY SlotsAreNumbers DEF RowOK, TaskRow
<1>2. k2.status = "Ready" /\ k2.used = k.used - 1 /\ k2.after = k.after
  BY DEF TaskRow, Unstarted
<1> HIDE DEF k2
<1>3. k2.used # k.used /\ Inserted(k2, 0) = Inserted(k, 1)
  BY <1>1, <1>2 DEF Inserted
<1>4. RowOK(k, a2, 1)
  BY KeptRow
<1>5. \A i \in Slots : a2[i].phase \in Over
  BY <1>4 DEF RowOK
<1>6. RowOK(k2, a2, 0)
  BY <1>2, <1>3, <1>4, <1>5 DEF RowOK, Waiting, Decided, Over
<1> QED BY <1>2, <1>3, <1>6 DEF k2

\* What a restart makes of the rows of a task that SQLite has.
Recovered(t) ==
  /\ \A i \in Slots : attempts'[t][i].n = attempts[t][i].n
  /\ \A i \in Slots : attempts'[t][i].phase =
       IF attempts[t][i].phase = "Running" THEN "Lost" ELSE attempts[t][i].phase
  /\ tasks'[t] =
       IF Worked(attempts[t]) /\ disk.tasks[t].status \in {"Active", "Blocked"}
         THEN [disk.tasks[t] EXCEPT !.status = TaskStatusAfterLoss(disk.tasks[t].used)]
         ELSE disk.tasks[t]
  /\ t \in stranded' <=> t \in stranded /\ tasks'[t].used = tasks[t].used

LEMMA RecoveredRow ==
  ASSUME IInv, NEW t \in Tasks, Recovered(t)
  PROVE  /\ RowOK(tasks'[t], attempts'[t], Missing(t)') /\ Board!Move(t)
         /\ tasks'[t].after = tasks[t].after
         /\ \/ tasks'[t] = tasks[t]
            \/ tasks[t].status # "none" /\ tasks'[t].status \in {"Ready", "Failed"}
<1>1. /\ tasks[t] \in TaskRow /\ RowOK(tasks[t], attempts[t], Missing(t))
      /\ Missing(t) \in {0, 1} /\ (Missing(t) = 1 <=> t \in stranded)
      /\ Missing(t)' \in {0, 1} /\ (Missing(t)' = 1 <=> t \in stranded')
  BY RowFields, MissingIsBit DEF IInv, RowsOK
<1>2. Written(tasks[t], disk.tasks[t], Missing(t))
  BY DEF IInv, Saved
<1>3. \A i \in Slots : attempts'[t][i].n = attempts[t][i].n
  BY DEF Recovered
<1>4. CASE Worked(attempts[t])
  <2>1. Missing(t) = 0 /\ tasks[t].status \in {"Active", "Integrated"}
    BY <1>1, <1>4, NewestWorks
  <2>2. disk.tasks[t] = tasks[t]
    BY <1>2, <2>1 DEF Written
  <2>3. Missing(t)' = 0
    BY <1>1, <2>1 DEF Recovered
  <2>4. \A i \in Slots : attempts'[t][i].phase =
          IF attempts[t][i].phase = "Running" THEN "Lost" ELSE attempts[t][i].phase
    BY DEF Recovered
  <2>5. tasks'[t] = IF tasks[t].status \in {"Active", "Blocked"}
                      THEN [tasks[t] EXCEPT !.status = TaskStatusAfterLoss(tasks[t].used)]
                      ELSE tasks[t]
    BY <1>4, <2>2 DEF Recovered
  <2>6. RowOK(tasks'[t], attempts'[t], 0) /\ ~Worked(attempts'[t])
    <3>1. RowOK(tasks[t], attempts[t], 0)
      BY <1>1, <2>1
    <3> QED BY <1>1, <1>3, <1>4, <2>4, <2>5, <3>1, LostRow
  <2>7. /\ tasks'[t].used = tasks[t].used /\ tasks'[t].after = tasks[t].after
        /\ tasks'[t].status = IF tasks[t].status \in {"Active", "Blocked"}
                                THEN TaskStatusAfterLoss(tasks[t].used) ELSE tasks[t].status
        /\ \/ tasks'[t] = tasks[t]
           \/ tasks[t].status # "none" /\ tasks'[t].status \in {"Ready", "Failed"}
    BY <1>1, <2>1, <2>5 DEF TaskRow, TaskStatusAfterLoss
  <2>8. Board!Move(t)
    BY <1>4, <2>1, <2>3, <2>6, <2>7, BoardLoses
  <2> QED BY <2>3, <2>6, <2>7, <2>8
<1>5. CASE ~Worked(attempts[t]) /\ disk.tasks[t] = tasks[t]
  <2>1. tasks'[t] = tasks[t] /\ Missing(t)' = Missing(t)
    BY <1>1, <1>5 DEF Recovered
  <2>2. \A i \in Slots : attempts'[t][i].phase = attempts[t][i].phase
                         /\ attempts'[t][i].n = attempts[t][i].n
    BY <1>3, <1>5 DEF Recovered, Worked
  <2>3. RowOK(tasks'[t], attempts'[t], Missing(t)') /\ (Worked(attempts'[t]) <=> Worked(attempts[t]))
    BY <1>1, <2>1, <2>2, KeptRow
  <2>4. SameForBoard(t)
    BY <2>1, <2>3 DEF SameForBoard
  <2> QED BY <2>1, <2>3, <2>4, BoardKeeps
<1>6. CASE /\ ~Worked(attempts[t]) /\ Missing(t) = 1 /\ tasks[t].status = "Active"
           /\ disk.tasks[t] = Unstarted(tasks[t])
  <2>1. tasks'[t] = Unstarted(tasks[t])
    BY <1>6 DEF Recovered
  <2>2. \A i \in Slots : attempts'[t][i].phase = attempts[t][i].phase
                         /\ attempts'[t][i].n = attempts[t][i].n
    BY <1>3, <1>6 DEF Recovered, Worked
  <2>3. RowOK(tasks[t], attempts[t], 1)
    BY <1>1, <1>6
  <2>4. /\ RowOK(tasks'[t], attempts'[t], 0) /\ tasks'[t].status = "Ready"
        /\ tasks'[t].after = tasks[t].after
        /\ tasks'[t].used # tasks[t].used /\ Inserted(tasks'[t], 0) = Inserted(tasks[t], 1)
    <3>1. tasks[t] \in TaskRow /\ tasks[t].status = "Active"
      BY <1>1, <1>6
    <3>2. /\ RowOK(Unstarted(tasks[t]), attempts'[t], 0)
          /\ Unstarted(tasks[t]).status = "Ready" /\ Unstarted(tasks[t]).after = tasks[t].after
          /\ Unstarted(tasks[t]).used # tasks[t].used
          /\ Inserted(Unstarted(tasks[t]), 0) = Inserted(tasks[t], 1)
      BY <2>2, <2>3, <3>1, RestoredRow
    <3> QED BY <2>1, <3>2
  <2>5. Missing(t)' = 0
    BY <1>1, <2>4 DEF Recovered
  <2>6. Worked(attempts'[t]) <=> Worked(attempts[t])
    BY <2>2 DEF Worked
  <2>7. SameForBoard(t)
    BY <1>6, <2>4, <2>5, <2>6 DEF SameForBoard, BoardStatus
  <2> QED BY <1>6, <2>4, <2>5, <2>7, BoardKeeps
<1>7. CASE ~Worked(attempts[t])
  BY <1>2, <1>5, <1>6, <1>7 DEF Written
<1> QED BY <1>4, <1>7

LEMMA RestartGood ==
  ASSUME IInv, Restart
  PROVE  Good
<1> DEFINE r == Reconciled(disk)
           lost == {t \in Tasks : \E i \in Slots : IsLive(disk.attempts[t][i].phase)}
           a(t, i) == IF IsLive(disk.attempts[t][i].phase)
                        THEN [disk.attempts[t][i] EXCEPT !.session = None, !.phase = "Lost",
                                                         !.outcome = "none"]
                        ELSE [disk.attempts[t][i] EXCEPT !.session = None]
<1>1. TypeOK /\ disk \in DiskRow /\ disk.attempts = attempts
  BY TypesUnfolded DEF IInv, Saved
<1>2. /\ run' = r.run /\ tasks' = r.tasks /\ attempts' = r.attempts /\ disk' = r
      /\ r = [run |-> r.run, tasks |-> r.tasks, attempts |-> r.attempts]
      /\ r.tasks = LoseAttempts(disk.tasks, lost)
      /\ r.attempts = [t \in Tasks |-> [i \in Slots |-> a(t, i)]]
  BY DEF Restart, Reconciled
<1>3. r.run \in RunRow
  BY <1>1 DEF Reconciled, DiskRow, RunRow
<1>4. \A t \in Tasks : t \in stranded' <=> t \in stranded /\ r.tasks[t].used = tasks[t].used
  BY <1>1, TypesUnfolded DEF Restart
<1>5. /\ stranded' \subseteq Tasks /\ fresh' = {} /\ resuming' \in BOOLEAN
      /\ sequencer' \in BOOLEAN /\ exits' = {} /\ revived' = {}
      /\ sess' \in [Sessions -> {"free", "live", "ended", "gone"}]
      /\ asked' \in 0 .. MaxRequests /\ crashes' \in 0 .. MaxCrashes
  <2>1. stranded' \subseteq Tasks /\ fresh' = {} /\ exits' = {} /\ revived' = {}
    BY <1>1, TypesUnfolded DEF Restart
  <2>2. sess' \in [Sessions -> {"free", "live", "ended", "gone"}]
    BY <1>1, TypesUnfolded DEF Restart
  <2>3. resuming' \in BOOLEAN /\ sequencer' \in BOOLEAN
    BY <1>1 DEF Restart, TypeOK
  <2>4. asked' \in 0 .. MaxRequests /\ crashes' \in 0 .. MaxCrashes
    BY <1>1, LedgerAssumption DEF Restart, TypeOK
  <2> QED BY <2>1, <2>2, <2>3, <2>4
<1>6. h' \in [Handlers -> HandlerState] /\ \A x \in Handlers : h'[x].op = "idle"
  <2> HIDE DEF HandlerState
  <2> QED BY IdleHandler DEF Restart
<1>7. /\ disk.tasks \in [Tasks -> TaskRow] /\ \A t \in Tasks : disk.tasks[t] \in TaskRow
      /\ \A t \in Tasks, i \in Slots : disk.attempts[t][i] = attempts[t][i]
      /\ \A t \in Tasks, i \in Slots : attempts[t][i] \in AttemptRow
  <2> HIDE DEF AttemptRow, TaskRow, RunRow
  <2> QED BY <1>1, AttemptFields DEF DiskRow
<1>8. ASSUME NEW t \in Tasks, NEW i \in Slots
      PROVE  /\ a(t, i) \in AttemptRow /\ a(t, i).n = attempts[t][i].n
             /\ a(t, i).phase = IF attempts[t][i].phase = "Running" THEN "Lost"
                                                                    ELSE attempts[t][i].phase
  <2>1. CASE attempts[t][i].phase = "Running"
    <3>1. a(t, i) = [attempts[t][i] EXCEPT !.session = None, !.phase = "Lost", !.outcome = "none"]
      BY <1>7, <2>1 DEF IsLive
    <3>2. ASSUME NEW w \in AttemptRow
          PROVE  LET v == [w EXCEPT !.session = None, !.phase = "Lost", !.outcome = "none"]
                 IN  v \in AttemptRow /\ v.n = w.n /\ v.phase = "Lost"
      BY ReportedIsPhase DEF AttemptRow
    <3>3. attempts[t][i] \in AttemptRow
      BY <1>7
    <3> DEFINE w == attempts[t][i]
               v == [w EXCEPT !.session = None, !.phase = "Lost", !.outcome = "none"]
    <3>4. v \in AttemptRow /\ v.n = w.n /\ v.phase = "Lost"
      <4> HIDE DEF w
      <4> QED BY <3>2, <3>3 DEF w
    <3>5. a(t, i) = v
      BY <3>1
    <3> HIDE DEF a, v
    <3> QED BY <2>1, <3>4, <3>5
  <2>2. CASE attempts[t][i].phase # "Running"
    <3>1. a(t, i) = [attempts[t][i] EXCEPT !.session = None]
      BY <1>7, <2>2 DEF IsLive
    <3> HIDE DEF a
    <3> QED BY <1>7, <2>2, <3>1 DEF AttemptRow
  <2> QED BY <2>1, <2>2
<1>9. \A t \in Tasks : t \in lost <=> Worked(attempts[t])
  BY <1>7 DEF Worked, IsLive
<1> HIDE DEF a, lost, r
<1>10. /\ attempts' \in [Tasks -> [Slots -> AttemptRow]]
       /\ \A t \in Tasks, i \in Slots : attempts'[t][i] = a(t, i)
  <2> HIDE DEF AttemptRow
  <2> QED BY <1>2, <1>8
<1>11. \A t \in Tasks : tasks'[t] =
         IF t \in lost /\ disk.tasks[t].status \in {"Active", "Blocked"}
           THEN [disk.tasks[t] EXCEPT !.status = TaskStatusAfterLoss(disk.tasks[t].used)]
           ELSE disk.tasks[t]
  BY <1>2, <1>7 DEF LoseAttempts
<1>12. tasks' \in [Tasks -> TaskRow]
  <2>1. ASSUME NEW k \in TaskRow
        PROVE  [k EXCEPT !.status = TaskStatusAfterLoss(k.used)] \in TaskRow
    BY DEF TaskRow, TaskStatusAfterLoss, TaskStatus
  <2>2. \A t \in Tasks : tasks'[t] \in TaskRow
    BY <1>7, <1>11, <2>1
  <2>3. tasks' = [t \in Tasks |-> tasks'[t]]
    BY <1>2, <1>7 DEF LoseAttempts
  <2> HIDE DEF TaskRow
  <2> QED BY <2>2, <2>3
<1>13. disk' \in DiskRow /\ disk'.tasks = tasks' /\ disk'.attempts = attempts'
  <2> HIDE DEF AttemptRow, TaskRow, RunRow
  <2> QED BY <1>2, <1>3, <1>10, <1>12 DEF DiskRow
<1>14. ASSUME NEW t \in Tasks
       PROVE  Recovered(t)
  <2>1. \A i \in Slots : attempts'[t][i].n = attempts[t][i].n
    BY <1>8, <1>10
  <2>2. \A i \in Slots : attempts'[t][i].phase =
          IF attempts[t][i].phase = "Running" THEN "Lost" ELSE attempts[t][i].phase
    BY <1>8, <1>10
  <2>3. tasks'[t] =
          IF Worked(attempts[t]) /\ disk.tasks[t].status \in {"Active", "Blocked"}
            THEN [disk.tasks[t] EXCEPT !.status = TaskStatusAfterLoss(disk.tasks[t].used)]
            ELSE disk.tasks[t]
    BY <1>9, <1>11
  <2>4. t \in stranded' <=> t \in stranded /\ tasks'[t].used = tasks[t].used
    BY <1>2, <1>4
  <2> QED BY <2>1, <2>2, <2>3, <2>4 DEF Recovered
<1>15. \A t \in Tasks :
         /\ RowOK(tasks'[t], attempts'[t], Missing(t)') /\ Board!Move(t)
         /\ tasks'[t].after = tasks[t].after
         /\ \/ tasks'[t] = tasks[t]
            \/ tasks[t].status # "none" /\ tasks'[t].status \in {"Ready", "Failed"}
  BY <1>14, RecoveredRow
<1>16. RowsOK' /\ Saved' /\ Board!Next
  BY <1>10, <1>13, <1>15, EveryRow DEF Written
<1>17. Waits'
  BY <1>15, WaitsKept DEF SatisfiesDependency
<1>18. AtMostOne'
  <2>1. \A t \in Tasks, i \in Slots : attempts'[t][i].phase # "Running"
    BY <1>8, <1>10
  <2>2. Starters' = {}
    BY <2>1 DEF Starters, LiveAttempts, Live, IsLive
  <2> QED BY <2>2 DEF AtMostOne
<1>19. Taken'
  BY <1>6 DEF Taken
<1>20. TypeOK'
  BY <1>2, <1>3, <1>5, <1>6, <1>10, <1>12, <1>13, TypesFolded
<1> QED BY <1>16, <1>17, <1>18, <1>19, <1>20 DEF Good, IInv

-----------------------------------------------------------------------------
(* Every step, and what follows of every state.                            *)

LEMMA InitGood ==
  ASSUME Init
  PROVE  IInv /\ Board!Init
<1>1. TypeOK
  <2>1. NoTask \in TaskRow /\ NoAttempt \in AttemptRow
    BY LimitAssumption DEF NoTask, NoAttempt, TaskRow, AttemptRow, TaskStatus, AttemptPhase
  <2>2. run \in RunRow
    BY DEF Init, RunRow
  <2>3. /\ tasks \in [Tasks -> TaskRow] /\ attempts \in [Tasks -> [Slots -> AttemptRow]]
        /\ disk \in DiskRow /\ h \in [Handlers -> HandlerState]
    <3> HIDE DEF TaskRow, AttemptRow, RunRow, NoTask, NoAttempt, HandlerState
    <3> QED BY <2>1, <2>2, IdleHandler DEF Init, DiskRow
  <2>4. 0 \in 0 .. MaxRequests /\ 0 \in 0 .. MaxCrashes
    BY LedgerAssumption
  <2> QED BY <2>2, <2>3, <2>4 DEF TypeOK, Init, DiskRow
<1>2. ASSUME NEW t \in Tasks
      PROVE  /\ tasks[t] = NoTask /\ \A i \in Slots : attempts[t][i] = NoAttempt
             /\ Missing(t) = 0
  BY DEF Init, Missing
<1>3. RowsOK
  <2>1. \A i \in Slots : ~(i <= 0)
    BY LimitAssumption DEF Slots
  <2> QED BY <1>2, <2>1 DEF RowsOK, RowOK, Inserted, Over, Decided, Waiting, NoTask, NoAttempt
<1>4. Saved
  BY DEF Init, Saved, Written
<1>5. Waits
  BY <1>2 DEF Waits, NoTask
<1>6. Taken
  BY DEF Init, Taken, Idle
<1>7. AtMostOne
  BY <1>2 DEF AtMostOne, Starters, LiveAttempts, Live, IsLive, NoAttempt
<1>8. Board!Init
  BY <1>2 DEF Board!Init, Init, Live, IsLive, NoTask, NoAttempt
<1> QED BY <1>1, <1>3, <1>4, <1>5, <1>6, <1>7, <1>8 DEF IInv

LEMMA QuietIsGood ==
  ASSUME IInv, Quiet
  PROVE  Good
BY KeptStep DEF Quiet, Good, IInv

LEMMA HandlerGood ==
  ASSUME IInv, NEW x \in Handlers,
         \/ CreateRun(x) \/ CommitRun(x) \/ ResumeRun(x) \/ CommitResume(x)
         \/ RefuseRetry(x) \/ CommitStart(x) \/ AbandonStart(x) \/ CommitReport(x)
         \/ CommitClose(x) \/ MarkIntegrated(x) \/ CommitCleanup(x)
         \/ \E cancel \in BOOLEAN : CloseRun(x, cancel)
         \/ \E t \in Tasks :
              \/ StartAttempt(x, t) \/ Retry(x, t) \/ CloseReads(x, t) \/ CloseCancels(x, t)
              \/ IntegrateMerge(x, t) \/ IntegrateContinue(x, t) \/ CleanupTask(x, t)
              \/ \E i \in Slots, outcome \in ReportOutcome : ReportAttempt(x, t, i, outcome)
  PROVE  Good
<1>1. CASE CreateRun(x)
  BY <1>1, CreateRunQuiet, QuietIsGood
<1>2. CASE CommitRun(x)
  BY <1>2, CommitRunQuiet, QuietIsGood
<1>3. CASE ResumeRun(x)
  BY <1>3, ResumeRunQuiet, QuietIsGood
<1>4. CASE CommitResume(x)
  BY <1>4, CommitResumeQuiet, QuietIsGood
<1>5. CASE RefuseRetry(x)
  BY <1>5, RefuseRetryQuiet, QuietIsGood
<1>6. CASE CommitStart(x)
  BY <1>6, CommitStartGood
<1>7. CASE AbandonStart(x)
  BY <1>7, AbandonStartGood
<1>8. CASE CommitReport(x)
  BY <1>8, CommitReportGood
<1>9. CASE CommitClose(x)
  BY <1>9, CommitCloseQuiet, QuietIsGood
<1>10. CASE MarkIntegrated(x)
  BY <1>10, MarkIntegratedGood
<1>11. CASE CommitCleanup(x)
  BY <1>11, CommitCleanupGood
<1>12. ASSUME NEW cancel \in BOOLEAN, CloseRun(x, cancel)
       PROVE  Good
  BY <1>12, CloseRunQuiet, QuietIsGood
<1>13. ASSUME NEW t \in Tasks, StartAttempt(x, t)
       PROVE  Good
  BY <1>13, StartAttemptQuiet, QuietIsGood
<1>14. ASSUME NEW t \in Tasks, Retry(x, t)
       PROVE  Good
  BY <1>14, RetryGood
<1>15. ASSUME NEW t \in Tasks, CloseReads(x, t)
       PROVE  Good
  BY <1>15, CloseReadsQuiet, QuietIsGood
<1>16. ASSUME NEW t \in Tasks, CloseCancels(x, t)
       PROVE  Good
  BY <1>16, CloseCancelsGood
<1>17. ASSUME NEW t \in Tasks, IntegrateMerge(x, t)
       PROVE  Good
  BY <1>17, IntegrateMergeQuiet, QuietIsGood
<1>18. ASSUME NEW t \in Tasks, IntegrateContinue(x, t)
       PROVE  Good
  BY <1>18, IntegrateContinueQuiet, QuietIsGood
<1>19. ASSUME NEW t \in Tasks, CleanupTask(x, t)
       PROVE  Good
  BY <1>19, CleanupTaskQuiet, QuietIsGood
<1>20. ASSUME NEW t \in Tasks, NEW i \in Slots, NEW outcome \in ReportOutcome,
              ReportAttempt(x, t, i, outcome)
       PROVE  Good
  BY <1>20, ReportAttemptQuiet, QuietIsGood
<1> QED BY <1>1, <1>2, <1>3, <1>4, <1>5, <1>6, <1>7, <1>8, <1>9, <1>10, <1>11, <1>12, <1>13,
           <1>14, <1>15, <1>16, <1>17, <1>18, <1>19, <1>20

LEMMA NextGood ==
  ASSUME IInv, Next
  PROVE  Good
<1>1. ASSUME NEW t \in Tasks, NEW after \in SUBSET Tasks, NEW mode \in Modes,
             CreateTask(t, after, mode)
      PROVE  Good
  BY <1>1, CreateTaskGood
<1>2. ASSUME NEW t \in Tasks, Accept(t) \/ Reopen(t) \/ Cancel(t)
      PROVE  Good
  BY <1>2, AcceptGood, ReopenGood, CancelGood
<1>3. ASSUME NEW s \in Sessions, NoteSessionExit(s) \/ CloseSession(s) \/ ResumeBlocked(s)
      PROVE  Good
  BY <1>3, NoteSessionExitGood, CloseSessionGood, ResumeBlockedGood
<1>4. ASSUME (\E s \in Sessions : SessionEnds(s) \/ RestartSession(s)) \/ IntegrateAbort
      PROVE  Good
  BY <1>4, WorldQuiet, QuietIsGood
<1>5. CASE Restart
  BY <1>5, RestartGood
<1> QED BY <1>1, <1>2, <1>3, <1>4, <1>5, HandlerGood DEF Next

LEMMA StutterGood ==
  ASSUME IInv, UNCHANGED vars
  PROVE  IInv' /\ UNCHANGED Board!board
<1> USE DEF vars, ledger, flags, world, marks, bounds
<1>1. TypeOK'
  BY DEF IInv, TypeOK
<1>2. RowsKept
  BY DEF RowsKept
<1>3. Taken'
  BY TakenStays DEF Exists
<1>4. UNCHANGED Board!board
  BY DEF Board!board, Live
<1> QED BY <1>1, <1>2, <1>3, <1>4, KeptStep DEF IInv

\* The rows of every task are in order, and SQLite has them: what every action of
\* the ledger keeps, from creating a run to the restart of a daemon that died
\* (orchestration/mod.rs as a whole).
THEOREM LedgerInvariant == Spec => []IInv
<1>1. Init => IInv
  BY InitGood
<1>2. IInv /\ [Next]_vars => IInv'
  BY NextGood, StutterGood DEF Good
<1> QED BY <1>1, <1>2, PTL DEF Spec

LEMMA SlotOfLive ==
  ASSUME IInv, NEW t \in Tasks, NEW i \in Live(t)
  PROVE  /\ i \in Slots /\ i = tasks[t].used /\ Missing(t) = 0 /\ Live(t) = {i}
         /\ tasks[t].status \in {"Active", "Integrated"}
<1>1. /\ tasks[t] \in TaskRow /\ RowOK(tasks[t], attempts[t], Missing(t))
      /\ Missing(t) \in {0, 1}
  BY RowFields DEF IInv, RowsOK
<1>2. i \in Slots /\ attempts[t][i].phase = "Running"
  BY DEF Live, IsLive
<1>3. Worked(attempts[t])
  BY <1>2 DEF Worked
<1>4. /\ Missing(t) = 0 /\ tasks[t].used \in Slots /\ tasks[t].status \in {"Active", "Integrated"}
      /\ \A j \in Slots : attempts[t][j].phase = "Running" <=> j = tasks[t].used
  BY <1>1, <1>3, NewestWorks
<1> QED BY <1>2, <1>4 DEF Live, IsLive

\* The rows agree with each other: an attempt is live exactly where its task is
\* worked on, and of the writers in the integration checkout one at most was started
\* there, whatever crosses the spawns (start_attempt, refuse_stale_start).
THEOREM LedgerCorrect == Spec => []LedgerOK
<1>1. IInv => LedgerOK
  <2> SUFFICES ASSUME IInv
               PROVE  LedgerOK
    OBVIOUS
  <2>1. LiveIsActive
    BY SlotOfLive DEF LiveIsActive
  <2>2. ASSUME NEW t \in Tasks \ stranded, tasks[t].status = "Active"
        PROVE  Live(t) # {}
    <3>1. Missing(t) = 0 /\ RowOK(tasks[t], attempts[t], Missing(t))
      BY MissingIsBit DEF IInv, RowsOK
    <3>2. tasks[t].used \in Slots /\ attempts[t][tasks[t].used].phase = "Running"
      BY <2>2, <3>1 DEF RowOK, Inserted
    <3> QED BY <3>2 DEF Live, IsLive
  <2>3. Cardinality(Starters) <= 1
    <3>1. CASE Starters = {}
      <4>1. Cardinality(Starters) = 0
        BY <3>1, FS_EmptySet
      <4> QED BY <4>1
    <3>2. CASE Starters # {}
      <4>1. PICK b \in Starters : Starters = {b}
        BY <3>2 DEF IInv, AtMostOne
      <4>2. Cardinality(Starters) = 1
        BY <4>1, FS_Singleton
      <4> QED BY <4>2
    <3> QED BY <3>1, <3>2
  <2>4. OneWriter
    BY <2>3 DEF OneWriter, Starters
  <2> QED BY <2>1, <2>2, <2>4 DEF LedgerOK, ActiveHasAttempt, IInv
<1> QED BY <1>1, LedgerInvariant, PTL

\* Two handlers that spawn an agent for one task do not both commit, and no decision
\* or message wakes an attempt that was superseded (start_attempt, refuse_stale_start,
\* decide_task, resume_blocked).
THEOREM WorkedOnByOne == Spec => []OneLiveAttempt
<1>1. IInv => OneLiveAttempt
  <2> SUFFICES ASSUME IInv, NEW t \in Tasks, NEW i \in Live(t)
               PROVE  Live(t) = {i} /\ ~Superseded(t, i)
    BY DEF OneLiveAttempt
  <2>1. /\ i \in Slots /\ i = tasks[t].used /\ Missing(t) = 0 /\ Live(t) = {i}
        /\ RowOK(tasks[t], attempts[t], Missing(t))
    BY SlotOfLive DEF IInv, RowsOK
  <2>2. \A j \in Slots : j \in Rows(t) => j <= i /\ attempts[t][j].n = j
    BY <2>1 DEF RowOK, Inserted, Rows
  <2>3. attempts[t][i].n = i
    BY <2>1 DEF RowOK, Live, IsLive
  <2>4. \A j \in Slots : j <= i => ~(j > i)
    BY <2>1, SlotsAreNumbers
  <2> QED BY <2>1, <2>2, <2>3, <2>4 DEF Superseded, Rows
<1> QED BY <1>1, LedgerInvariant, PTL

\* What the controller decides on, and what it accepted, was reported by the newest
\* attempt: a report that waited for git while its attempt was lost and another was
\* started is refused (report_attempt, settle_report).
THEOREM ReportsDecided == Spec => []DecidedOnReport
<1>1. IInv => DecidedOnReport
  <2> SUFFICES ASSUME IInv, NEW t \in Tasks, tasks[t].status \in Decided
               PROVE  \E i \in Newest(t) : attempts[t][i].phase = "Reported"
    BY DEF DecidedOnReport, Decided
  <2>1. /\ RowOK(tasks[t], attempts[t], Missing(t)) /\ Missing(t) \in {0, 1}
        /\ tasks[t].used \in Nat
    BY RowFields DEF IInv, RowsOK
  <2>2. Missing(t) = 0
    BY <2>1, DecidedRow
  <2>3. /\ tasks[t].used \in Slots /\ attempts[t][tasks[t].used].phase = "Reported"
        /\ \A j \in Slots : j \in Rows(t) => j <= tasks[t].used /\ attempts[t][j].n = j
    BY <2>1, <2>2 DEF RowOK, Inserted, Rows
  <2>4. tasks[t].used \in Rows(t)
    BY <2>3 DEF Rows
  <2>5. tasks[t].used \in Newest(t)
    BY <2>3, <2>4 DEF Newest, Rows
  <2> QED BY <2>3, <2>5
<1> QED BY <1>1, LedgerInvariant, PTL

-----------------------------------------------------------------------------
(* The run's own row.                                                      *)

\* The row of the run is on disk unless its controller is gone; nobody records a
\* controller that was not spawned.
RunKept ==
  /\ ControllerGone \/ disk.run = run
  /\ run.controller # None => sess[run.controller] # "free"
  /\ \A x \in Handlers :
       h[x].op \in {"create", "resume"} /\ h[x].session # None => sess[h[x].session] # "free"

\* No session is spawned twice or comes back from the dead.
SessionsAge == \A s \in Sessions :
  (sess[s] # "free" => sess'[s] # "free") /\ (sess[s] = "gone" => sess'[s] = "gone")

\* No handler sets out to record a controller.
NoneRecords == \A x \in Handlers : h'[x] = h[x] \/ h'[x].op \notin {"create", "resume"}

RunAlone == run' = run /\ disk'.run = disk.run

LEMMA RunStays ==
  ASSUME TypeOK, RunKept, SessionsAge, NoneRecords, RunAlone
  PROVE  RunKept'
<1>1. (ControllerGone \/ disk.run = run)'
  BY DEF RunKept, SessionsAge, RunAlone, ControllerGone
<1>2. (run.controller # None => sess[run.controller] # "free")'
  BY TypesUnfolded DEF RunKept, SessionsAge, RunAlone
<1>3. ASSUME NEW x \in Handlers, h'[x].op \in {"create", "resume"}, h'[x].session # None
      PROVE  sess'[h'[x].session] # "free"
  <2>1. h'[x] = h[x]
    BY <1>3 DEF NoneRecords
  <2> QED BY <1>3, <2>1, HandlerFields DEF RunKept, SessionsAge
<1> QED BY <1>1, <1>2, <1>3 DEF RunKept

LEMMA NoneMoves ==
  ASSUME h' = h
  PROVE  NoneRecords
BY DEF NoneRecords

LEMMA DoneRecordsNone ==
  ASSUME TypeOK, NEW x \in Handlers, Done(x)
  PROVE  NoneRecords
BY HandlerDone, IdleHandler DEF NoneRecords

LEMMA BecomesOther ==
  ASSUME TypeOK, NEW x \in Handlers, NEW v, Become(x, v), v.op \notin {"create", "resume"}
  PROVE  NoneRecords
<1>1. h \in [Handlers -> HandlerState]
  BY TypesUnfolded
<1> HIDE DEF HandlerState
<1> QED BY <1>1 DEF Become, NoneRecords

LEMMA SavesKeepRun ==
  ASSUME NEW d \in DiskRow, NEW ts, NEW as, Save(d, ts, as)
  PROVE  disk'.run = d.run
<1> HIDE DEF TaskRow, AttemptRow, RunRow
<1> QED BY DEF Save, DiskRow

\* What SaveRun writes.
LEMMA RunSaved ==
  ASSUME disk \in DiskRow, SaveRun
  PROVE  disk'.run = run'
<1> HIDE DEF TaskRow, AttemptRow, RunRow
<1> QED BY DEF SaveRun, DiskRow

LEMMA SpawnAges ==
  ASSUME TypeOK, NEW s \in Sessions, Spawn(s)
  PROVE  SessionsAge /\ sess'[s] # "free"
BY TypesUnfolded DEF Spawn, SessionsAge

\* A session that is closed or cleaned up takes the controller's name with it.
LEMMA ForgetKeepsRun ==
  ASSUME TypeOK, RunKept, NEW s \in Sessions, Present(s), ForgetSession(s), NoneRecords
  PROVE  RunKept'
<1> DEFINE NoController(r) == IF r.controller = s THEN [r EXCEPT !.controller = None] ELSE r
           d == [run |-> NoController(disk.run), tasks |-> disk.tasks,
                 attempts |-> [t \in Tasks |-> [i \in Slots |->
                   IF disk.attempts[t][i].session = s
                     THEN [disk.attempts[t][i] EXCEPT !.session = None]
                     ELSE disk.attempts[t][i]]]]
<1>1. run' = NoController(run) /\ sess' = [sess EXCEPT ![s] = "gone"]
  BY DEF ForgetSession
<1>2. disk'.run = NoController(disk.run)
  BY DEF ForgetSession, Save
<1>3. SessionsAge /\ sess'[s] = "gone"
  BY <1>1, TypesUnfolded DEF SessionsAge
<1>4. run.controller \in Sessions \cup {None} /\ None \notin Sessions
  BY TypesUnfolded, LedgerAssumption
<1>5. CASE run.controller = s
  <2>1. disk.run = run
    BY <1>5 DEF RunKept, ControllerGone, Present
  <2>2. disk'.run = run' /\ run'.controller = None
    BY <1>1, <1>2, <1>5, <2>1, TypesUnfolded DEF RunRow
  <2>3. \A x \in Handlers : h'[x].op \in {"create", "resume"} /\ h'[x].session # None
          => sess'[h'[x].session] # "free"
    BY <1>3, HandlerFields DEF RunKept, NoneRecords, SessionsAge
  <2> QED BY <2>2, <2>3 DEF RunKept
<1>6. CASE run.controller # s /\ disk.run = run
  BY <1>1, <1>2, <1>3, <1>6, RunStays DEF RunAlone
<1>7. CASE run.controller # s /\ disk.run # run
  <2>1. run' = run /\ run.controller \in Sessions /\ sess[run.controller] = "gone"
    BY <1>1, <1>7 DEF RunKept, ControllerGone
  <2>2. sess'[run.controller] = "gone"
    BY <1>3, <2>1 DEF SessionsAge
  <2>3. \A x \in Handlers : h'[x].op \in {"create", "resume"} /\ h'[x].session # None
          => sess'[h'[x].session] # "free"
    BY <1>3, HandlerFields DEF RunKept, NoneRecords, SessionsAge
  <2> QED BY <2>1, <2>2, <2>3 DEF RunKept, ControllerGone
<1> QED BY <1>5, <1>6, <1>7

\* A run that is recorded with or without a controller, or is not.
LEMMA RunWritten ==
  ASSUME TypeOK, RunKept, NoneRecords, sess' = sess,
         \/ RunAlone
         \/ /\ disk'.run = run' \/ ControllerGone'
            /\ run'.controller \in Sessions \cup {None}
            /\ run'.controller # None => sess[run'.controller] # "free"
  PROVE  RunKept'
<1>1. SessionsAge
  BY DEF SessionsAge
<1>2. CASE RunAlone
  BY <1>1, <1>2, RunStays
<1>3. CASE ~RunAlone
  <2>1. \A x \in Handlers : h'[x].op \in {"create", "resume"} /\ h'[x].session # None
          => sess'[h'[x].session] # "free"
    BY DEF RunKept, NoneRecords
  <2> QED BY <1>3, <2>1 DEF RunKept, ControllerGone
<1> QED BY <1>2, <1>3

\* A handler that spawned the controller it is about to record.
LEMMA ControllerSpawned ==
  ASSUME TypeOK, RunKept, NEW x \in Handlers, NEW s \in Sessions, Spawn(s), RunAlone,
         NEW v, v.session = s, Become(x, v)
  PROVE  RunKept'
<1>1. SessionsAge /\ sess'[s] # "free"
  BY SpawnAges
<1>2. (ControllerGone \/ disk.run = run)'
  BY <1>1 DEF RunKept, SessionsAge, RunAlone, ControllerGone
<1>3. (run.controller # None => sess[run.controller] # "free")'
  BY <1>1, TypesUnfolded DEF RunKept, SessionsAge, RunAlone
<1>4. ASSUME NEW y \in Handlers, h'[y].op \in {"create", "resume"}, h'[y].session # None
      PROVE  sess'[h'[y].session] # "free"
  <2>1. h'[x] = v /\ (y # x => h'[y] = h[y])
    <3>1. h \in [Handlers -> HandlerState]
      BY TypesUnfolded
    <3> HIDE DEF HandlerState
    <3> QED BY <3>1 DEF Become
  <2> QED BY <1>1, <1>4, <2>1, HandlerFields DEF RunKept, SessionsAge
<1> QED BY <1>2, <1>3, <1>4 DEF RunKept

LEMMA RunInit ==
  ASSUME Init
  PROVE  RunKept
BY DEF Init, RunKept, Idle

LEMMA RunRecorded ==
  ASSUME TypeOK, RunKept, NEW x \in Handlers,
         CreateRun(x) \/ CommitRun(x) \/ ResumeRun(x) \/ CommitResume(x) \/ CommitClose(x)
  PROVE  RunKept'
<1>1. CASE CreateRun(x)
  <2>1. CASE run' = [status |-> "Active", controller |-> None] /\ SaveRun /\ UNCHANGED <<world, h>>
    BY <2>1, NoneMoves, RunSaved, RunWritten, TypesUnfolded DEF world
  <2>2. ASSUME NEW s \in Sessions, Spawn(s), Become(x, [op |-> "create", session |-> s]),
               UNCHANGED <<run, disk>>
        PROVE  RunKept'
    BY <2>2, ControllerSpawned DEF RunAlone
  <2> QED BY <1>1, <2>1, <2>2 DEF CreateRun
<1>2. CASE CommitRun(x)
  <2>1. NoneRecords /\ sess' = sess
    BY <1>2, DoneRecordsNone DEF CommitRun, world
  <2>2. CASE UNCHANGED <<run, disk>>
    BY <2>1, <2>2, RunWritten DEF RunAlone
  <2>3. CASE Present(h[x].session) /\ SaveRun
             /\ run' = [status |-> "Active", controller |-> h[x].session]
    <3>1. h[x].session \in Sessions
      BY <1>2, HandlerFields DEF CommitRun
    <3>2. run'.controller = h[x].session /\ sess[h[x].session] # "free"
      BY <2>3 DEF Present
    <3> QED BY <2>1, <2>3, <3>1, <3>2, RunSaved, RunWritten, TypesUnfolded
  <2> QED BY <1>2, <2>2, <2>3 DEF CommitRun
<1>3. CASE ResumeRun(x)
  <2>1. RunAlone
    BY <1>3 DEF ResumeRun, ledger, RunAlone
  <2>2. CASE Become(x, [op |-> "resume", session |-> None]) /\ UNCHANGED world
    <3>1. h \in [Handlers -> HandlerState] /\ sess' = sess
      BY <2>2, TypesUnfolded DEF world
    <3>2. \A y \in Handlers : h'[y] = h[y] \/ h'[y].session = None
      <4> HIDE DEF HandlerState
      <4> QED BY <2>2, <3>1 DEF Become
    <3> QED BY <2>1, <3>1, <3>2 DEF RunKept, RunAlone, ControllerGone
  <2>3. ASSUME NEW s \in Sessions, Spawn(s), Become(x, [op |-> "resume", session |-> s])
        PROVE  RunKept'
    BY <2>1, <2>3, ControllerSpawned
  <2> QED BY <1>3, <2>2, <2>3 DEF ResumeRun
<1>4. CASE CommitResume(x)
  <2>1. NoneRecords /\ sess' = sess
    BY <1>4, DoneRecordsNone DEF CommitResume, world
  <2>2. CASE h[x].session = None
    BY <1>4, <2>1, <2>2, RunWritten DEF CommitResume, RunAlone
  <2>3. CASE h[x].session # None
    <3>1. h[x].session \in Sessions /\ sess[h[x].session] # "free"
      BY <1>4, <2>3, HandlerFields DEF CommitResume, RunKept
    <3>2. run'.controller = h[x].session
      BY <1>4, <2>3 DEF CommitResume
    <3>3. disk'.run = run' \/ sess[h[x].session] = "gone"
      <4>1. CASE Present(h[x].session)
        BY <1>4, <2>3, <4>1, RunSaved, TypesUnfolded DEF CommitResume
      <4>2. CASE ~Present(h[x].session)
        BY <3>1, <4>2, TypesUnfolded DEF Present
      <4> QED BY <4>1, <4>2
    <3> QED BY <2>1, <3>1, <3>2, <3>3, RunWritten DEF ControllerGone
  <2> QED BY <2>2, <2>3
<1>5. CASE CommitClose(x)
  <2>1. NoneRecords /\ sess' = sess
    BY <1>5, DoneRecordsNone DEF CommitClose, world
  <2>2. CASE UNCHANGED <<run, disk>>
    BY <2>1, <2>2, RunWritten DEF RunAlone
  <2>3. CASE /\ run' = [run EXCEPT !.status = IF h[x].cancel THEN "Cancelled" ELSE "Completed"]
             /\ IF run.controller \in Sessions /\ ~Present(run.controller)
                  THEN UNCHANGED disk ELSE SaveRun
    <3>1. run'.controller = run.controller /\ run.controller \in Sessions \cup {None}
      BY <2>3, TypesUnfolded DEF RunRow
    <3>2. run.controller # None => sess[run.controller] # "free"
      BY DEF RunKept
    <3>3. disk'.run = run' \/ (run.controller \in Sessions /\ sess[run.controller] = "gone")
      <4>1. CASE run.controller \in Sessions /\ ~Present(run.controller)
        BY <3>2, <4>1, LedgerAssumption, TypesUnfolded DEF Present
      <4>2. CASE ~(run.controller \in Sessions /\ ~Present(run.controller))
        BY <2>3, <4>2, RunSaved, TypesUnfolded
      <4> QED BY <4>1, <4>2
    <3> QED BY <2>1, <3>1, <3>2, <3>3, RunWritten DEF ControllerGone
  <2> QED BY <1>5, <2>2, <2>3 DEF CommitClose
<1> QED BY <1>1, <1>2, <1>3, <1>4, <1>5

\* The other steps of a handler.
LEMMA HandlerKeepsRun ==
  ASSUME TypeOK, RunKept, NEW x \in Handlers,
         \/ RefuseRetry(x) \/ CommitStart(x) \/ AbandonStart(x) \/ CommitReport(x)
         \/ MarkIntegrated(x) \/ CommitCleanup(x)
         \/ \E cancel \in BOOLEAN : CloseRun(x, cancel)
         \/ \E t \in Tasks :
              \/ StartAttempt(x, t) \/ Retry(x, t) \/ CloseReads(x, t) \/ CloseCancels(x, t)
              \/ IntegrateMerge(x, t) \/ IntegrateContinue(x, t) \/ CleanupTask(x, t)
              \/ \E i \in Slots, outcome \in ReportOutcome : ReportAttempt(x, t, i, outcome)
  PROVE  RunKept'
<1> USE DEF ledger, flags, world
<1>1. disk \in DiskRow
  BY TypesUnfolded
<1>2. sess' = sess => SessionsAge
  BY DEF SessionsAge
<1>3. CASE RefuseRetry(x)
  BY <1>2, <1>3, DoneRecordsNone, RunStays DEF RefuseRetry, RunAlone
<1>4. CASE CommitStart(x)
  BY <1>1, <1>2, <1>4, DoneRecordsNone, RunStays, SavesKeepRun DEF CommitStart, RunAlone
<1>5. CASE AbandonStart(x)
  <2>1. h[x].session \in Sessions /\ NoneRecords
    BY <1>5, DoneRecordsNone, HandlerFields DEF AbandonStart
  <2>2. CASE Present(h[x].session)
    BY <1>5, <2>1, <2>2, ForgetKeepsRun DEF AbandonStart
  <2>3. CASE ~Present(h[x].session)
    BY <1>2, <1>5, <2>1, <2>3, RunStays DEF AbandonStart, RunAlone
  <2> QED BY <2>2, <2>3
<1>6. CASE CommitReport(x)
  BY <1>1, <1>2, <1>6, DoneRecordsNone, RunStays, SavesKeepRun DEF CommitReport, RunAlone
<1>7. CASE MarkIntegrated(x)
  BY <1>1, <1>2, <1>7, DoneRecordsNone, RunStays, SavesKeepRun DEF MarkIntegrated, RunAlone
<1>8. CASE CommitCleanup(x)
  <2>1. h[x].session \in Sessions /\ NoneRecords
    BY <1>8, DoneRecordsNone, HandlerFields DEF CommitCleanup
  <2>2. CASE Present(h[x].session)
    BY <1>8, <2>1, <2>2, ForgetKeepsRun DEF CommitCleanup
  <2>3. CASE ~Present(h[x].session)
    BY <1>2, <1>8, <2>1, <2>3, RunStays DEF CommitCleanup, RunAlone
  <2> QED BY <2>2, <2>3
<1>9. ASSUME NEW cancel \in BOOLEAN, CloseRun(x, cancel)
      PROVE  RunKept'
  BY <1>2, <1>9, BecomesOther, RunStays DEF CloseRun, RunAlone
<1>10. ASSUME NEW t \in Tasks, StartAttempt(x, t)
       PROVE  RunKept'
  <2>1. NoneRecords /\ SessionsAge
    BY <1>10, BecomesOther, SpawnAges DEF StartAttempt
  <2> QED BY <1>10, <2>1, RunStays DEF StartAttempt, RunAlone
<1>11. ASSUME NEW t \in Tasks, Retry(x, t)
       PROVE  RunKept'
  <2>1. NoneRecords
    BY <1>11, BecomesOther, NoneMoves DEF Retry
  <2>2. RunAlone
    BY <1>1, <1>11, SavesKeepRun DEF Retry, RunAlone
  <2> QED BY <1>2, <1>11, <2>1, <2>2, RunStays DEF Retry
<1>12. ASSUME NEW t \in Tasks, CloseReads(x, t)
       PROVE  RunKept'
  <2>1. [h[x] EXCEPT !.now = {t}, !.todo = @ \ {t}].op = "close"
    BY <1>12, ClosingHandler DEF CloseReads
  <2>2. NoneRecords
    BY <1>12, <2>1, BecomesOther DEF CloseReads
  <2> QED BY <1>2, <1>12, <2>2, RunStays DEF CloseReads, RunAlone
<1>13. ASSUME NEW t \in Tasks, CloseCancels(x, t)
       PROVE  RunKept'
  <2>1. [h[x] EXCEPT !.now = {}].op = "close"
    BY <1>13, ClosingHandler DEF CloseCancels
  <2>2. NoneRecords
    BY <1>13, <2>1, BecomesOther DEF CloseCancels
  <2>3. RunAlone
    BY <1>1, <1>13, SavesKeepRun DEF CloseCancels, CancelTask, RunAlone
  <2> QED BY <1>2, <1>13, <2>2, <2>3, RunStays DEF CloseCancels
<1>14. ASSUME NEW t \in Tasks, IntegrateMerge(x, t) \/ IntegrateContinue(x, t)
       PROVE  RunKept'
  <2>1. NoneRecords
    BY <1>14, BecomesOther, NoneMoves DEF IntegrateMerge, IntegrateContinue
  <2> QED BY <1>2, <1>14, <2>1, RunStays DEF IntegrateMerge, IntegrateContinue, RunAlone
<1>15. ASSUME NEW t \in Tasks, CleanupTask(x, t)
       PROVE  RunKept'
  <2>1. NoneRecords
    BY <1>15, BecomesOther DEF CleanupTask
  <2> QED BY <1>2, <1>15, <2>1, RunStays DEF CleanupTask, RunAlone
<1>16. ASSUME NEW t \in Tasks, NEW i \in Slots, NEW outcome \in ReportOutcome,
              ReportAttempt(x, t, i, outcome)
       PROVE  RunKept'
  <2>1. NoneRecords
    BY <1>16, BecomesOther DEF ReportAttempt
  <2> QED BY <1>2, <1>16, <2>1, RunStays DEF ReportAttempt, RunAlone
<1> QED BY <1>3, <1>4, <1>5, <1>6, <1>7, <1>8, <1>9, <1>10, <1>11, <1>12, <1>13, <1>14,
           <1>15, <1>16

LEMMA NextKeepsRun ==
  ASSUME TypeOK, RunKept, [Next]_vars
  PROVE  RunKept'
<1> USE DEF ledger, flags, world
<1>1. disk \in DiskRow
  BY TypesUnfolded
<1>2. sess' = sess => SessionsAge
  BY DEF SessionsAge
<1>3. CASE UNCHANGED vars
  BY <1>2, <1>3, NoneMoves, RunStays DEF vars, RunAlone
<1>4. ASSUME NEW t \in Tasks, NEW after \in SUBSET Tasks, NEW mode \in Modes,
             CreateTask(t, after, mode)
      PROVE  RunKept'
  BY <1>1, <1>2, <1>4, NoneMoves, RunStays, SavesKeepRun DEF CreateTask, RunAlone
<1>5. ASSUME NEW t \in Tasks, Accept(t) \/ Reopen(t) \/ Cancel(t)
      PROVE  RunKept'
  BY <1>1, <1>2, <1>5, NoneMoves, RunStays, SavesKeepRun
     DEF Accept, Reopen, Cancel, CancelTask, RunAlone
<1>6. ASSUME NEW s \in Sessions, SessionEnds(s) \/ RestartSession(s)
      PROVE  RunKept'
  <2>1. SessionsAge
    BY <1>6, TypesUnfolded DEF SessionEnds, RestartSession, SessionsAge
  <2> QED BY <1>6, <2>1, NoneMoves, RunStays DEF SessionEnds, RestartSession, RunAlone
<1>7. ASSUME NEW s \in Sessions, NoteSessionExit(s) \/ ResumeBlocked(s)
      PROVE  RunKept'
  BY <1>1, <1>2, <1>7, NoneMoves, RunStays, SavesKeepRun
     DEF NoteSessionExit, ResumeBlocked, RunAlone
<1>8. ASSUME NEW s \in Sessions, CloseSession(s)
      PROVE  RunKept'
  BY <1>8, ForgetKeepsRun, NoneMoves DEF CloseSession, Present
<1>9. CASE IntegrateAbort
  BY <1>2, <1>9, NoneMoves, RunStays DEF IntegrateAbort, RunAlone
<1>10. CASE Restart
  <2>1. disk'.run = run' /\ run'.controller = None
    BY <1>10 DEF Restart, Reconciled
  <2>2. \A x \in Handlers : h'[x] = Idle
    BY <1>10 DEF Restart
  <2> QED BY <2>1, <2>2 DEF RunKept, Idle
<1> QED BY <1>3, <1>4, <1>5, <1>6, <1>7, <1>8, <1>9, <1>10, HandlerKeepsRun, RunRecorded DEF Next

\* Whenever the core lock is free SQLite has the rows of memory, of the run as well
\* as of its tasks and attempts, a stranded start and a run whose controller is gone
\* excepted (persist_task, persist_attempt, persist_forgotten, resume_run, close_run).
THEOREM RowsOnDisk == Spec => []NothingUnsaved
<1>1. Init => RunKept
  BY RunInit
<1>2. IInv /\ RunKept /\ [Next]_vars => RunKept'
  BY NextKeepsRun DEF IInv
<1>3. IInv /\ RunKept => NothingUnsaved
  BY MissingIsBit DEF IInv, Saved, Written, RunKept, NothingUnsaved
<1> QED BY <1>1, <1>2, <1>3, LedgerInvariant, PTL DEF Spec

\* The ledger implements TaskBoard: behind every handler, lost session and restart
\* of the daemon, each task makes the moves of the board and no other
\* (orchestration/mod.rs as a whole).
THEOREM ImplementsBoard == Spec => KeepsBoard
<1>1. Init => Board!Init
  BY InitGood
<1>2. IInv /\ [Next]_vars => [Board!Next]_(Board!board)
  BY NextGood, StutterGood DEF Good
<1> QED BY <1>1, <1>2, LedgerInvariant, PTL DEF Spec, KeepsBoard, Board!Spec
=============================================================================
