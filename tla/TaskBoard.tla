----------------------------- MODULE TaskBoard -----------------------------
(***************************************************************************)
(* What the orchestration ledger promises about tasks, without threads,    *)
(* sessions, rows or restarts: every task goes through its life in atomic  *)
(* moves.  Several tasks may move in one step (an acceptance makes its     *)
(* dependents ready, a restart of the daemon takes every worker away).     *)
(***************************************************************************)
EXTENDS TaskPolicy

CONSTANT Tasks

VARIABLES status,  \* TaskStatus of each task
          used,    \* attempts it has had
          worked,  \* whether an attempt works on it
          after    \* tasks it depends on

board == <<status, used, worked, after>>

Init ==
  /\ status = [t \in Tasks |-> "none"]
  /\ used = [t \in Tasks |-> 0]
  /\ worked = [t \in Tasks |-> FALSE]
  /\ after = [t \in Tasks |-> {}]

\* Promise of create_task: a task depends on tasks that exist.
Create(t) ==
  /\ status[t] = "none" /\ status'[t] \in {"Pending", "Ready"}
  /\ used'[t] = 0 /\ ~worked'[t]
  /\ \A d \in after'[t] : status[d] # "none"

\* A pending task becomes ready once what it depends on is done.
Promote(t) ==
  /\ status[t] = "Pending" /\ status'[t] = "Ready"
  /\ DependenciesMet(after[t], status')
  /\ used'[t] = used[t] /\ worked'[t] = worked[t] /\ after'[t] = after[t]

\* One worker at a time, within the budget, after its dependencies.
Assign(t) ==
  /\ status[t] \in {"Pending", "Ready"} /\ status'[t] = "Active"
  /\ ~worked[t] /\ worked'[t]
  /\ DependenciesMet(after[t], status)
  /\ used[t] < MaxAttempts /\ used'[t] = used[t] + 1
  /\ after'[t] = after[t]

\* The worker reports.  A Continue may have integrated the task meanwhile.
Settle(t) ==
  /\ worked[t] /\ ~worked'[t]
  /\ status[t] \in {"Active", "Integrated"}
  /\ \E outcome \in ReportOutcome : status'[t] = TaskStatusAfterReport(outcome, used[t])
  /\ used'[t] = used[t] /\ after'[t] = after[t]

\* The worker is gone without a report.
Lose(t) ==
  /\ worked[t] /\ ~worked'[t]
  /\ status'[t] = IF status[t] = "Active" THEN TaskStatusAfterLoss(used[t]) ELSE status[t]
  /\ used'[t] = used[t] /\ after'[t] = after[t]

\* Accepted, handed back to its worker, to be tried again, or given up.
Decide(t) ==
  /\ status[t] \in {"Review", "Blocked"} /\ ~worked[t]
  /\ \/ status'[t] \in {"Accepted", "Ready"} /\ ~worked'[t]
     \/ status'[t] = "Active" /\ worked'[t]
     \/ status'[t] = "Failed" /\ used[t] >= MaxAttempts /\ ~worked'[t]
  /\ used'[t] = used[t] /\ after'[t] = after[t]

Cancel(t) ==
  /\ ~IsFinal(status[t]) /\ status[t] # "none"
  /\ status'[t] = "Cancelled" /\ ~worked'[t]
  /\ used'[t] = used[t] /\ after'[t] = after[t]

Integrate(t) ==
  /\ status[t] # "none" /\ status'[t] = "Integrated"
  /\ worked'[t] = worked[t] /\ used'[t] = used[t] /\ after'[t] = after[t]

Keep(t) ==
  /\ status'[t] = status[t] /\ used'[t] = used[t]
  /\ worked'[t] = worked[t] /\ after'[t] = after[t]

\* Every task makes one of these moves.
Move(t) ==
  \/ Keep(t) \/ Create(t) \/ Promote(t) \/ Assign(t) \/ Settle(t)
  \/ Lose(t) \/ Decide(t) \/ Cancel(t) \/ Integrate(t)

Next ==
  /\ \A t \in Tasks : Move(t)
  /\ DOMAIN status' = Tasks /\ DOMAIN used' = Tasks
  /\ DOMAIN worked' = Tasks /\ DOMAIN after' = Tasks

Spec == Init /\ [][Next]_board
=============================================================================
