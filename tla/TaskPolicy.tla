----------------------------- MODULE TaskPolicy -----------------------------
(***************************************************************************)
(* The pure policy of orchestration (domain/src/orchestration/policy.rs):  *)
(* which reports settle an attempt, where a task goes after a report or a  *)
(* loss, when an attempt may start, and what a restart of the daemon does  *)
(* to the rows it finds.  The daemon's ledger is built from these.         *)
(***************************************************************************)
EXTENDS Naturals, FiniteSets

CONSTANTS MaxAttempts,  \* orchestration.max_attempts_per_task
          MaxActive,    \* orchestration.max_active_attempts_per_run
          MaxTasks      \* orchestration.max_tasks_per_run

ASSUME LimitAssumption ==
  MaxAttempts \in Nat /\ MaxActive \in Nat /\ MaxTasks \in Nat

\* "none" is a task that has not been created.  The "unrecognized" values that
\* a newer daemon may have stored are never written by this one.
TaskStatus == {"none", "Pending", "Ready", "Active", "Review", "Accepted",
               "Integrated", "Blocked", "Cancelled", "Failed"}
\* "Starting" is declared by the code and never assigned.
AttemptPhase  == {"none", "Running", "Reported", "Rejected", "Lost"}
ReportOutcome == {"Done", "Failed", "Blocked"}

SatisfiesDependency(status) == status \in {"Accepted", "Integrated"}

IsFinal(status) == status \in {"Integrated", "Cancelled", "Failed"}

IsLive(phase) == phase = "Running"

IsOpen(runStatus) == runStatus \in {"Active", "Interrupted"}

DependenciesMet(after, status) == \A d \in after : SatisfiesDependency(status[d])

\* Pending tasks whose dependencies are met, as a set: the statuses are read
\* once, before any of them changes.
PromoteReady(row) ==
  LET status == [t \in DOMAIN row |-> row[t].status]
  IN  [t \in DOMAIN row |->
         IF row[t].status = "Pending" /\ DependenciesMet(row[t].after, status)
           THEN [row[t] EXCEPT !.status = "Ready"] ELSE row[t]]

\* A report of a live attempt, from its own session, with no newer attempt.
SettleReport(phase, session, caller, newer) ==
  ~newer /\ IsLive(phase) /\ caller = session

TaskStatusAfterReport(outcome, used) ==
  CASE outcome = "Blocked" -> "Blocked"
    [] outcome = "Done"    -> "Review"
    [] OTHER               -> IF used >= MaxAttempts THEN "Failed" ELSE "Review"

TaskStatusAfterLoss(used) == IF used >= MaxAttempts THEN "Failed" ELSE "Ready"

AllowNewTask(existing) == existing < MaxTasks

AllowStart(active, used, mode, writer) ==
  /\ active < MaxActive
  /\ used < MaxAttempts
  /\ ~(mode = "Write" /\ writer)

\* A session's attempts are lost; the tasks they were working on move on.
LoseAttempts(row, lost) ==
  [t \in DOMAIN row |->
     IF t \in lost /\ row[t].status \in {"Active", "Blocked"}
       THEN [row[t] EXCEPT !.status = TaskStatusAfterLoss(row[t].used)] ELSE row[t]]
=============================================================================
