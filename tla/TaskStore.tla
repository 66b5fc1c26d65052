----------------------------- MODULE TaskStore -----------------------------
(***************************************************************************)
(* The "tasks" table.  A row is a record; every UPDATE statement of        *)
(* db/queries.sql that the scheduler, the session goroutines and the user  *)
(* handlers issue is an operator from the row it finds to the row it       *)
(* leaves.  PostgreSQL runs each of them atomically, so one operator is    *)
(* applied in one step.                                                    *)
(*                                                                         *)
(* Only the columns that decide what happens next are kept.  next_run is   *)
(* kept as its relation to the clock: "later" (a retry's backoff, at least *)
(* 2 minutes ahead), in the "future", "due" (now or earlier) or "stale"    *)
(* (earlier than the reaper's threshold, 5 minutes).                       *)
(***************************************************************************)
EXTENDS Integers

CONSTANTS
    Worker,        \* worker ids; a process takes a fresh one when it starts
    NoWorker,      \* locked_by IS NULL
    FailureLimit,  \* failures after which a session gives a task up (3)
    MaxRetries     \* tasks.max_retries, or 3 where the column is 0

ASSUME StoreAssumption ==
    /\ NoWorker \notin Worker
    /\ FailureLimit \in Nat \ {0}
    /\ MaxRetries \in Nat \ {0}

Status   == {"active", "paused", "processing", "completed", "error", "halted"}
NextRun  == {"later", "future", "due", "stale"}
Approval == {"pending", "approved", "denied", "needs_routing", "manual_routed"}

(* failure_count is only ever compared with FailureLimit and retry_count   *)
(* with MaxRetries, so both stop counting just past their limit.           *)
Failures == 0 .. FailureLimit
Retries  == 0 .. MaxRetries + 1

Saturate(n, max) == IF n > max THEN max ELSE n

(* A deleted task keeps its place as a row nobody can find.                *)
Row == [status   : Status \cup {"deleted"},
        lockedBy : Worker \cup {NoWorker},
        nextRun  : NextRun,
        approval : Approval,
        failures : Failures,
        retries  : Retries]

(* INSERT with the defaults of the table, status active among them; a NULL *)
(* last_approval_status is read as "pending".                              *)
NewRow(next) ==
    [status   |-> "active", lockedBy |-> NoWorker, nextRun |-> next,
     approval |-> "pending", failures |-> 0, retries |-> 0]

DeletedRow == [NewRow("future") EXCEPT !.status = "deleted"]

Present(r) == r.status # "deleted"

(* GetDispatchableTaskByID: the row is still this worker's to dispatch.    *)
Dispatchable(r, w) == r.status = "processing" /\ r.lockedBy = w

----------------------------------------------------------------------------
(* fn_claim_due_tasks, the part of its WHERE clause about the row itself,  *)
(* and its UPDATE.                                                         *)
(* Mutants of Due: without the test of the status, without the one of      *)
(* next_run, and with a window of 5 minutes.                               *)
DueWhileProcessing(r) == r.status \in {"active", "processing"}
                         /\ r.nextRun \in {"due", "stale"}
DueEarly(r) == r.status = "active"
DueFresh(r) == r.status = "active" /\ r.nextRun = "due"

Due(r) == r.status = "active" /\ r.nextRun \in {"due", "stale"}

ClaimTask(r, w) == [r EXCEPT !.status = "processing", !.lockedBy = w]

(* fn_complete_task as migration 007 leaves it: retry_count is untouched.  *)
CompleteKeepingFailures(r, gated, status, next) ==   \* mutant
    [r EXCEPT !.status = status, !.lockedBy = NoWorker, !.nextRun = next,
              !.approval = IF gated THEN "pending" ELSE @]

CompleteTask(r, gated, status, next) ==
    [r EXCEPT !.status   = status,
              !.lockedBy = NoWorker,
              !.failures = 0,
              !.nextRun  = next,
              !.approval = IF gated THEN "pending" ELSE @]

NextRunAlone(r, status, next) ==   \* mutant
    [r EXCEPT !.lockedBy = NoWorker, !.nextRun = next]

UpdateTaskNextRun(r, status, next) ==
    [r EXCEPT !.status = status, !.lockedBy = NoWorker, !.nextRun = next]

(* UpdateTaskStatus and UpdateTaskStatusByUserID are the same statement.   *)
StatusKeepingLock(r, status) == [r EXCEPT !.status = status]   \* mutant
StatusOfNobody(r, status) == r   \* mutant: WHERE user_id = ''

UpdateTaskStatus(r, status) ==
    [r EXCEPT !.status = status, !.lockedBy = NoWorker]

CountForgettingRetries(r, status, failures, retries) ==   \* mutant
    [r EXCEPT !.status = status, !.lockedBy = NoWorker, !.failures = failures]

UpdateTaskStatusAndFailureCount(r, status, failures, retries) ==
    [r EXCEPT !.status   = status,
              !.lockedBy = NoWorker,
              !.failures = failures,
              !.retries  = retries]

IncrementTaskFailureCount(r) ==
    [r EXCEPT !.failures = Saturate(@ + 1, FailureLimit)]

UpdateTaskApprovalStatus(r, approval, status) ==
    [r EXCEPT !.approval = approval, !.status = status, !.lockedBy = NoWorker]

(* The only statement besides the claim that leaves locked_by alone.       *)
ResetTaskFailureCount(r, status) ==
    [r EXCEPT !.status = status, !.failures = 0]

RevertProcessingOnly(r, w) ==   \* mutant
    IF r.lockedBy = w /\ r.status = "processing"
    THEN [r EXCEPT !.status = "active", !.lockedBy = NoWorker] ELSE r

RevertProcessingTasks(r, w) ==
    IF r.lockedBy = w THEN [r EXCEPT !.status = "active", !.lockedBy = NoWorker]
                      ELSE r

(* ReapStuckTasks tests next_run, the time the run was due, not the time   *)
(* the row was claimed.                                                    *)
StuckUnlocked(r) ==   \* mutant
    r.status = "processing" /\ r.nextRun = "stale" /\ r.lockedBy = NoWorker

Stuck(r) == r.status = "processing" /\ r.nextRun = "stale"

ReapToPending(r) ==   \* mutant: not a status of the table
    [r EXCEPT !.status = "pending", !.lockedBy = NoWorker]

ReapStuckTasks(r) == [r EXCEPT !.status = "active", !.lockedBy = NoWorker]
=============================================================================
