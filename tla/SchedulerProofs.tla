-------------------------- MODULE SchedulerProofs --------------------------
(***************************************************************************)
(* Proofs about the scheduler for every set of tasks, workers, connections *)
(* and executions.  The first parts hold for every configuration of the    *)
(* tasks, every user operation and every fault; the last two, about        *)
(* exclusive execution and the refinement of Lease, for every instance     *)
(* that is Calm: no fault, not even a connection that closes, no user      *)
(* operation and no parent.                                                *)
(***************************************************************************)
EXTENDS SchedulerLease, SchedulerHistory, TLAPS

----------------------------------------------------------------------------
(* What one step may do to one row.  Every step of the scheduler is one of *)
(* these for every row; the row invariants follow from it alone.           *)

Free(r) == r.lockedBy = NoWorker /\ r.status \in {"active", "paused", "completed", "error"}

Aged(r, next) == [r EXCEPT !.nextRun = next]

RowStep(r, s) ==
    \/ s = r
    \/ "delete" \in UserOps /\ s = DeletedRow
    \/ s \in Row /\ Free(s)
    \/ \E next \in {"due", "stale"} : s = Aged(r, next)
    \/ \E w \in Worker : Running(w) /\ Due(r) /\ s = ClaimTask(r, w)
    \/ s = IncrementTaskFailureCount(r)
    \/ s = ResetTaskFailureCount(r, "active")

(* The values of the statements that take the lock off are rows, free.     *)
LEMMA Bounds ==
    /\ FailureLimit \in Nat /\ MaxRetries \in Nat
    /\ 0 \in Failures /\ 0 \in Retries
  BY StoreAssumption DEF Failures, Retries

(* A counter that stops at its bound stays within it.                      *)
LEMMA SaturateBound ==
    ASSUME NEW n \in Nat, NEW max \in Nat
    PROVE  Saturate(n, max) \in 0 .. max
  BY DEF Saturate

(* CompleteTask: the run is over, recurring or for good.                   *)
LEMMA CompleteFrees ==
    ASSUME NEW r \in Row, NEW gated \in BOOLEAN,
           NEW status \in {"active", "completed"}, NEW next \in NextRun
    PROVE  /\ CompleteTask(r, gated, status, next) \in Row
           /\ Free(CompleteTask(r, gated, status, next))
<1> DEFINE a == IF gated THEN "pending" ELSE r.approval
<1>1. a \in Approval
  <2>1. CASE gated
    BY <2>1, Zenon DEF Approval
  <2>2. CASE ~gated
    BY <2>2 DEF Row
  <2> QED BY <2>1, <2>2
<1>2. CompleteTask(r, gated, status, next) =
         [r EXCEPT !.status = status, !.lockedBy = NoWorker, !.failures = 0,
                   !.nextRun = next, !.approval = a]
  BY Zenon DEF CompleteTask
<1> HIDE DEF a
<1> QED BY <1>1, <1>2, Bounds DEF Row, Free, Status

(* UpdateTaskNextRun: a retry puts the task off.                           *)
LEMMA NextRunFrees ==
    ASSUME NEW r \in Row, NEW next \in NextRun
    PROVE  /\ UpdateTaskNextRun(r, "active", next) \in Row
           /\ Free(UpdateTaskNextRun(r, "active", next))
  BY DEF UpdateTaskNextRun, Row, Free, Status

(* UpdateTaskStatus: the user, a missed run or a broken trigger.           *)
LEMMA StatusFrees ==
    ASSUME NEW r \in Row, NEW status \in {"active", "paused", "error"}
    PROVE  /\ UpdateTaskStatus(r, status) \in Row
           /\ Free(UpdateTaskStatus(r, status))
  BY DEF UpdateTaskStatus, Row, Free, Status

(* UpdateTaskStatusAndFailureCount: a failed sampling, retried or given up.*)
LEMMA CountFrees ==
    ASSUME NEW r \in Row, NEW status \in {"active", "error"},
           NEW failures \in Failures, NEW retries \in Retries
    PROVE  /\ UpdateTaskStatusAndFailureCount(r, status, failures, retries) \in Row
           /\ Free(UpdateTaskStatusAndFailureCount(r, status, failures, retries))
  BY DEF UpdateTaskStatusAndFailureCount, Row, Free, Status

(* UpdateTaskApprovalStatus: the gate asks, the user approves or denies.   *)
LEMMA ApprovalFrees ==
    ASSUME NEW r \in Row, NEW approval \in Approval, NEW status \in {"active", "paused"}
    PROVE  /\ UpdateTaskApprovalStatus(r, approval, status) \in Row
           /\ Free(UpdateTaskApprovalStatus(r, approval, status))
  BY DEF UpdateTaskApprovalStatus, Row, Free, Status

(* RevertProcessingTasks frees the rows of its worker and leaves the       *)
(* others.                                                                 *)
LEMMA RevertFrees ==
    ASSUME NEW r \in Row, NEW w \in Worker
    PROVE  RowStep(r, RevertProcessingTasks(r, w))
  BY DEF RevertProcessingTasks, RowStep, Row, Free, Status

(* ReapStuckTasks: the reaper's reset.                                     *)
LEMMA ReapFrees ==
    ASSUME NEW r \in Row
    PROVE  ReapStuckTasks(r) \in Row /\ Free(ReapStuckTasks(r))
  BY DEF ReapStuckTasks, Row, Free, Status

(* A row step leads from rows to rows.                                     *)
LEMMA RowStepType ==
    ASSUME NEW r \in Row, NEW s, RowStep(r, s)
    PROVE  s \in Row
<1>1. DeletedRow \in Row
  BY Bounds DEF DeletedRow, NewRow, Row, NextRun, Approval
<1>2. ASSUME NEW next \in {"due", "stale"} PROVE Aged(r, next) \in Row
  BY <1>2 DEF Aged, Row, NextRun
<1>3. ASSUME NEW w \in Worker PROVE ClaimTask(r, w) \in Row
  BY <1>3 DEF ClaimTask, Row, Status
<1>4. IncrementTaskFailureCount(r) \in Row
  <2>1. Saturate(r.failures + 1, FailureLimit) \in Failures
    <3>1. r.failures + 1 \in Nat
      BY Bounds DEF Row, Failures
    <3> QED BY <3>1, SaturateBound, Bounds DEF Failures
  <2> QED BY <2>1 DEF IncrementTaskFailureCount, Row
<1>5. ResetTaskFailureCount(r, "active") \in Row
  BY Bounds DEF ResetTaskFailureCount, Row, Status
<1> QED BY <1>1, <1>2, <1>3, <1>4, <1>5 DEF RowStep

(* Statements that find a row change it alone, and no row that is gone.    *)
RowSteps == /\ row' = [u \in Task |-> row'[u]]
            /\ \A u \in Task : RowStep(row[u], row'[u])

(* An update by id is a row step if the row it writes is one.              *)
LEMMA PutStep ==
    ASSUME row \in [Task -> Row], NEW t, NEW r, Put(t, r),
           t \in Task => RowStep(row[t], r)
    PROVE  RowSteps
  BY DEF Put, RowStep, RowSteps

(* An update by id that writes a free row is a row step.                   *)
LEMMA PutFree ==
    ASSUME row \in [Task -> Row], NEW t, NEW r, Put(t, r),
           t \in Task => r \in Row /\ Free(r)
    PROVE  RowSteps
<1>1. t \in Task => RowStep(row[t], r)
  BY DEF RowStep
<1> QED BY <1>1, PutStep

(* So is one that does not ask whether the row is there.                   *)
LEMMA SetFree ==
    ASSUME row \in [Task -> Row], NEW t \in Task, NEW r \in Row, Free(r),
           row' = [row EXCEPT ![t] = r]
    PROVE  RowSteps
  BY DEF RowStep, RowSteps

(* A step that writes no row is a row step.                                *)
LEMMA SameRows ==
    ASSUME TypeOK, row' = row
    PROVE  RowSteps
  BY DEF RowStep, RowSteps, TypeOK

(* The parts that several actions share.                                   *)
LEMMA CompleteRows ==
    ASSUME TypeOK, NEW t, NEW status \in {"active", "completed"}, NEW next \in NextRun,
           Complete(t, status, next)
    PROVE  RowSteps
<1>1. Put(t, CompleteTask(row[t], t \in Gated, status, next))
  BY DEF Complete
<1>2. ASSUME t \in Task
      PROVE  /\ CompleteTask(row[t], t \in Gated, status, next) \in Row
             /\ Free(CompleteTask(row[t], t \in Gated, status, next))
  <2>1. row[t] \in Row
    BY <1>2 DEF TypeOK
  <2>2. (t \in Gated) \in BOOLEAN
    OBVIOUS
  <2> QED BY <2>1, <2>2, CompleteFrees, Zenon
<1> QED BY <1>1, <1>2, PutFree DEF TypeOK

(* A trigger's next run is one of the values of next_run.                  *)
LEMMA NextRunType ==
    ASSUME NEW t \in Task, NEW next \in CalculatedNextRun(t)
    PROVE  next \in NextRun
  BY SchedulerAssumption DEF CalculatedNextRun

(* The completion of a run, whatever next run it computes.                 *)
LEMMA CompletionRows ==
    ASSUME TypeOK, NEW t, \E next \in CalculatedNextRun(t) : Complete(t, "active", next)
    PROVE  RowSteps
<1>1. CASE t \in Task
  BY <1>1, NextRunType, CompleteRows
<1>2. CASE t \notin Task
  <2>1. row' = row
    BY <1>2 DEF Complete, Put, TypeOK
  <2> QED BY <2>1, SameRows
<1> QED BY <1>1, <1>2

(* The first update of a retry, which counts and keeps the lock.           *)
LEMMA CountRows ==
    ASSUME TypeOK, NEW e \in Exec, CountAttempt(e)
    PROVE  RowSteps
<1> DEFINE t == TaskOf(e)
           failures == Saturate(exec[e].failures + 1, FailureLimit)
           retries == Saturate(exec[e].retries + 1, MaxRetries + 1)
           status == IF retries > MaxRetries THEN "error" ELSE "active"
<1>1. exec[e] \in Job
  BY DEF TypeOK
<1>2. /\ exec[e].failures + 1 \in Nat /\ exec[e].retries + 1 \in Nat
      /\ MaxRetries + 1 \in Nat
  BY <1>1, Bounds DEF Job, Failures, Retries
<1>3. failures \in Failures /\ retries \in Retries
  BY <1>2, SaturateBound, Bounds DEF Failures, Retries
<1>4. status \in {"active", "error"}
  OBVIOUS
<1>5. \/ Put(t, UpdateTaskStatusAndFailureCount(row[t], status, failures, retries))
      \/ row' = row
  BY Zenon DEF CountAttempt
<1> HIDE DEF t, failures, retries, status
<1>6. t \in Task =>
        /\ UpdateTaskStatusAndFailureCount(row[t], status, failures, retries) \in Row
        /\ Free(UpdateTaskStatusAndFailureCount(row[t], status, failures, retries))
  BY <1>3, <1>4, CountFrees DEF TypeOK
<1> QED BY <1>5, <1>6, PutFree, SameRows DEF TypeOK

(* The update that makes a dependent due, or its failure.                  *)
LEMMA TriggerRows ==
    ASSUME TypeOK, NEW e \in Exec, TriggerDependent(e)
    PROVE  RowSteps
<1>1. PICK k \in kids[e] : \/ Put(k, UpdateTaskNextRun(row[k], "active", "due"))
                           \/ row' = row
  BY DEF TriggerDependent
<1>2. k \in Task /\ "due" \in NextRun
  BY <1>1 DEF TypeOK, NextRun
<1>3. /\ UpdateTaskNextRun(row[k], "active", "due") \in Row
      /\ Free(UpdateTaskNextRun(row[k], "active", "due"))
  BY <1>2, NextRunFrees DEF TypeOK
<1> QED BY <1>1, <1>3, PutFree, SameRows DEF TypeOK

(* What one step of each kind does to the rows.                            *)
LEMMA UserRows ==
    ASSUME TypeOK, NEW t \in Task, UserStep(t)
    PROVE  RowSteps
<1>1. row[t] \in Row /\ row \in [Task -> Row]
  BY DEF TypeOK
<1>2. CASE Pause(t)
  BY <1>1, <1>2, StatusFrees, SetFree DEF Pause, UserSets
<1>3. CASE Resume(t)
  BY <1>1, <1>3, StatusFrees, SetFree DEF Resume, UserSets
<1>4. CASE ResumeMCP(t)
  BY <1>1, <1>4 DEF ResumeMCP, UserSets, RowStep, RowSteps
<1>5. CASE Approve(t)
  <2>1. "approved" \in Approval
    BY DEF Approval
  <2> QED BY <1>1, <1>5, <2>1, ApprovalFrees, SetFree DEF Approve, UserSets
<1>6. CASE Deny(t)
  <2>1. "denied" \in Approval
    BY DEF Approval
  <2> QED BY <1>1, <1>6, <2>1, ApprovalFrees, SetFree DEF Deny, UserSets
<1>7. CASE DeleteTask(t)
  BY <1>1, <1>7 DEF DeleteTask, UserSets, RowStep, RowSteps
<1> QED BY <1>2, <1>3, <1>4, <1>5, <1>6, <1>7 DEF UserStep

(* The clock, the reaper and the user.                                     *)
LEMMA TaskRows ==
    ASSUME TypeOK, NEW t \in Task, TaskStep(t)
    PROVE  RowSteps
<1>1. row[t] \in Row /\ row \in [Task -> Row]
  BY DEF TypeOK
<1>2. CASE Age(t)
  <2>1. \/ row' = [row EXCEPT ![t].nextRun = "due"]
        \/ row' = [row EXCEPT ![t].nextRun = "stale"]
    BY <1>2 DEF Age
  <2> QED BY <1>1, <2>1 DEF RowStep, RowSteps, Aged
<1>3. CASE Reap(t)
  BY <1>1, <1>3, ReapFrees, SetFree DEF Reap
<1>4. CASE UserStep(t)
  BY <1>4, UserRows
<1> QED BY <1>2, <1>3, <1>4 DEF TaskStep

(* A worker that starts, crashes, drains, reverts or exits.                *)
LEMMA WorkerRows ==
    ASSUME TypeOK, NEW w \in Worker, WorkerStep(w)
    PROVE  RowSteps
<1>1. CASE Revert(w)
  BY <1>1, RevertFrees DEF Revert, RowSteps, TypeOK
<1>2. CASE ~Revert(w)
  <2>1. row' = row
    BY <1>2 DEF WorkerStep, StartWorker, Listen, LoseListener, Crash, Drain, Exit, store
  <2> QED BY <2>1, SameRows
<1> QED BY <1>1, <1>2

(* A claim locks due rows for a worker that runs, and leaves the others.   *)
LEMMA ClaimRows ==
    ASSUME TypeOK, NEW w \in Worker, NEW S \in SUBSET Task, Claim(w, S)
    PROVE  RowSteps
  BY DEF Claim, Claimable, RowSteps, RowStep, TypeOK

(* The dispatcher of an execution.                                         *)
LEMMA DispatchRows ==
    ASSUME TypeOK, NEW e \in Exec, DispatchStep(e)
    PROVE  RowSteps
<1> DEFINE t == TaskOf(e)
<1>0. /\ row \in [Task -> Row]
      /\ t \in Task => row[t] \in Row
      /\ "pending" \in Approval /\ "future" \in NextRun /\ "later" \in NextRun
  BY DEF TypeOK, Approval, NextRun
<1>1. CASE AskApproval(e)
  BY <1>0, <1>1, ApprovalFrees, PutFree DEF AskApproval
<1>2. CASE Missed(e)
  <2>1. CASE Put(t, UpdateTaskNextRun(row[t], "active", "future"))
    BY <1>0, <2>1, NextRunFrees, PutFree
  <2>2. CASE \E next \in CalculatedNextRun(t) : Complete(t, "active", next)
    BY <2>2, CompletionRows
  <2> QED BY <1>2, <2>1, <2>2, SameRows DEF Missed
<1>3. CASE NativeSucceeds(e)
  BY <1>3, CompletionRows, SameRows DEF NativeSucceeds
<1>4. CASE NativeFails(e)
  BY <1>4, CountRows DEF NativeFails
<1>5. CASE BackOff(e)
  BY <1>0, <1>5, NextRunFrees, PutFree DEF BackOff
<1>6. CASE Publish(e)
  BY <1>6, SameRows DEF Publish, store
<1>7. CASE DeliveryFails(e)
  BY <1>7, CountRows DEF DeliveryFails
<1>8. CASE DispatchDependents(e)
  BY <1>8, TriggerRows, SameRows DEF DispatchDependents
<1> QED BY <1>1, <1>2, <1>3, <1>4, <1>5, <1>6, <1>7, <1>8 DEF DispatchStep

(* The session of a connection.                                            *)
LEMMA SessionRows ==
    ASSUME TypeOK, NEW e \in Exec, NEW c \in Conn, SessionStep(e, c)
    PROVE  RowSteps
<1> DEFINE t == TaskOf(e)
<1>0. row \in [Task -> Row] /\ (t \in Task => row[t] \in Row)
  BY DEF TypeOK
<1>1. CASE TakeLock(e, c) \/ LoseLock(e, c)
  BY <1>1, SameRows DEF TakeLock, LoseLock, store
<1>2. CASE SampleSucceeds(e, c)
  <2>1. CASE Complete(t, "active", "due") \/ Complete(t, "completed", "due")
    BY <2>1, CompleteRows DEF NextRun
  <2>2. CASE \E next \in CalculatedNextRun(t) : Complete(t, "active", next)
    BY <2>2, CompletionRows
  <2>3. CASE Put(t, UpdateTaskStatus(row[t], "paused"))
    BY <1>0, <2>3, StatusFrees, PutFree
  <2> QED BY <1>2, <2>1, <2>2, <2>3 DEF SampleSucceeds
<1>3. CASE SampleFails(e, c)
  <2>1. CASE Put(t, IncrementTaskFailureCount(row[t]))
    <3>1. RowStep(row[t], IncrementTaskFailureCount(row[t]))
      BY DEF RowStep
    <3> QED BY <1>0, <2>1, <3>1, PutStep
  <2> QED BY <1>3, <2>1, SameRows DEF SampleFails
<1>4. CASE SettleFailure(e, c)
  BY <1>0, <1>4, StatusFrees, PutFree DEF SettleFailure
<1>5. CASE SessionDependents(e, c)
  BY <1>5, TriggerRows, SameRows DEF SessionDependents
<1> QED BY <1>1, <1>2, <1>3, <1>4, <1>5 DEF SessionStep

(* A connection that stops reading drops messages that wait in its channel *)
(* and changes nothing else that is alive.                                 *)
DropsUnread ==
    /\ session' \in [Exec -> [Conn -> SessionState]]
    /\ \A e \in Exec : \A c \in Conn :
          \/ session'[e][c] = session[e][c]
          \/ session[e][c] = "got" /\ session'[e][c] = "none"

(* That is all LosesUnread does.                                           *)
LEMMA UnreadDropped ==
    ASSUME TypeOK, NEW c \in Conn, LosesUnread(c)
    PROVE  DropsUnread
<1>1. PICK S \in SUBSET {e \in Exec : session[e][c] = "got"} :
         session' = [e \in Exec |-> IF e \in S THEN [session[e] EXCEPT ![c] = "none"]
                                               ELSE session[e]]
  BY DEF LosesUnread
<1>2. session \in [Exec -> [Conn -> SessionState]] /\ "none" \in SessionState
  BY DEF TypeOK, SessionState
<1>3. \A e \in Exec : session'[e] \in [Conn -> SessionState]
  BY <1>1, <1>2
<1> QED BY <1>1, <1>2, <1>3 DEF DropsUnread

(* What the steps of connections and of the key of the user change.        *)
LEMMA ConnFrame ==
    ASSUME TypeOK, (\E c \in Conn : ConnStep(c)) \/ Expire
    PROVE  UNCHANGED <<store, exec, kids, lock, sampledBy, worker>> /\ DropsUnread
<1>1. UNCHANGED session => DropsUnread
  BY DEF DropsUnread, TypeOK
<1>2. CASE Expire
  BY <1>1, <1>2 DEF Expire, live
<1>3. ASSUME NEW c \in Conn, ConnStep(c)
      PROVE  UNCHANGED <<store, exec, kids, lock, sampledBy, worker>> /\ DropsUnread
  BY <1>1, <1>3, UnreadDropped DEF ConnStep, Connect, Subscribe, Unsubscribe, Leave,
                                   RemoveUser, Close, Heartbeat, live
<1> QED BY <1>2, <1>3

(* All steps: the lemma the invariants over rows rest on.                  *)
LEMMA StepRows ==
    ASSUME TypeOK, [Next]_vars
    PROVE  RowSteps
<1>1. CASE \E t \in Task : TaskStep(t)
  BY <1>1, TaskRows
<1>2. CASE \E w \in Worker : WorkerStep(w)
  BY <1>2, WorkerRows
<1>3. CASE \E w \in Worker : \E S \in SUBSET Task : Claim(w, S)
  BY <1>3, ClaimRows
<1>4. CASE \E t \in Task : \E w \in Worker :
              SkipNotice(t, w) \/ \E e \in Exec : Load(e, t, w)
  BY <1>4, SameRows DEF SkipNotice, Load
<1>5. ASSUME NEW e \in Exec, ExecStep(e)
      PROVE  RowSteps
  <2>1. CASE DispatchStep(e)
    BY <2>1, DispatchRows
  <2>2. CASE Retire(e) \/ Abandon(e)
    BY <2>2, SameRows DEF Retire, Abandon, store
  <2> QED BY <1>5, <2>1, <2>2 DEF ExecStep
<1>6. CASE \E e \in Exec : \E c \in Conn : SessionStep(e, c)
  BY <1>6, SessionRows
<1>7. CASE (\E c \in Conn : ConnStep(c)) \/ Expire
  BY <1>7, ConnFrame, SameRows DEF store
<1>8. CASE UNCHANGED vars
  BY <1>8, SameRows DEF vars
<1> QED BY <1>1, <1>2, <1>3, <1>4, <1>5, <1>6, <1>7, <1>8 DEF Next

----------------------------------------------------------------------------
(* Type correctness.  The rows are dealt with; the rest, action by action. *)

TypeRest ==
    /\ notices \in [Task -> [Worker -> 0 .. NoticeLimit]]
    /\ worker \in [Worker -> WorkerState]
    /\ exec \in [Exec -> Job]
    /\ session \in [Exec -> [Conn -> SessionState]]
    /\ kids \in [Exec -> SUBSET Task]
    /\ lock \in [Exec -> Conn \cup {NoConn}]
    /\ sampledBy \in [Exec -> SUBSET Conn]
    /\ connected \in [Conn -> ConnState]
    /\ presence \in BOOLEAN

(* A free slot is a job, ...                                               *)
LEMMA IdleJob == Idle \in Job
  BY Bounds DEF Idle, Job

(* ... and a job that goes on is one.                                      *)
LEMMA AtJob ==
    ASSUME NEW x \in Job, NEW pc \in Dispatch \cup {"idle", "done"}
    PROVE  At(x, pc) \in Job
<1>1. /\ Idle \in Job /\ x.task \in Task \cup {NoTask}
      /\ x.worker \in Worker \cup {NoWorker}
  BY IdleJob DEF Job
<1> QED BY <1>1 DEF At, Job

(* A dispatcher that goes on keeps the type of exec, ...                   *)
LEMMA BecomesType ==
    ASSUME TypeOK, NEW e \in Exec, NEW pc \in Dispatch \cup {"idle", "done"},
           Becomes(e, pc)
    PROVE  exec' \in [Exec -> Job]
  BY AtJob DEF Becomes, TypeOK

(* ... a session that does, that of session.                               *)
LEMMA GoesType ==
    ASSUME TypeOK, NEW e \in Exec, NEW c \in Conn, NEW st \in SessionState,
           Goes(e, c, st)
    PROVE  session' \in [Exec -> [Conn -> SessionState]]
  BY DEF Goes, TypeOK

(* The initial state has the types.                                        *)
LEMMA TypeInit == Init => TypeOK
<1> SUFFICES ASSUME Init PROVE TypeOK
  OBVIOUS
<1>1. NewRow("future") \in Row
  BY Bounds DEF NewRow, Row, Status, NextRun, Approval
<1>2. 0 \in 0 .. NoticeLimit
  BY SchedulerAssumption
<1>3. row \in [Task -> Row] /\ exec \in [Exec -> Job]
  BY <1>1, IdleJob DEF Init
<1>4. notices \in [Task -> [Worker -> 0 .. NoticeLimit]]
  BY <1>2 DEF Init
<1>5. /\ worker \in [Worker -> WorkerState]
      /\ session \in [Exec -> [Conn -> SessionState]]
      /\ connected \in [Conn -> ConnState]
  BY DEF Init, WorkerState, SessionState, ConnState
<1>6. /\ kids \in [Exec -> SUBSET Task]
      /\ lock \in [Exec -> Conn \cup {NoConn}]
      /\ sampledBy \in [Exec -> SUBSET Conn]
  BY DEF Init
<1>7. presence \in BOOLEAN
  BY DEF Init
<1> QED BY <1>3, <1>4, <1>5, <1>6, <1>7 DEF TypeOK

(* The clock, the reaper and the user touch rows only.                     *)
LEMMA TaskType ==
    ASSUME TypeOK, NEW t \in Task, TaskStep(t)
    PROVE  TypeRest'
  BY DEF TypeOK, TypeRest, TaskStep, Age, Reap, UserStep, Pause, Resume, ResumeMCP,
         Approve, Deny, DeleteTask, UserSets, live, env

(* A notice that arrives was counted.                                      *)
LEMMA NoticeType ==
    ASSUME TypeOK, NEW t \in Task, NEW w \in Worker, notices[t][w] > 0,
           TakeNotice(t, w)
    PROVE  notices' \in [Task -> [Worker -> 0 .. NoticeLimit]]
  BY SchedulerAssumption DEF TypeOK, TakeNotice

(* A lost LISTEN takes the notices of its worker with it.                  *)
LEMMA LoseType ==
    ASSUME TypeOK, NEW w \in Worker, LoseNotices(w)
    PROVE  notices' \in [Task -> [Worker -> 0 .. NoticeLimit]]
  BY SchedulerAssumption DEF TypeOK, LoseNotices

(* A claim waits where the notices have reached their limit.               *)
LEMMA ClaimType ==
    ASSUME TypeOK, NEW w \in Worker, NEW S \in SUBSET Task, Claim(w, S)
    PROVE  TypeRest'
<1>1. notices' \in [Task -> [Worker -> 0 .. NoticeLimit]]
  BY SchedulerAssumption DEF TypeOK, Claim
<1> QED BY <1>1 DEF TypeOK, TypeRest, Claim, live, env

(* A dispatcher that starts copies the row it has read.                    *)
LEMMA LoadType ==
    ASSUME TypeOK, NEW e \in Exec, NEW t \in Task, NEW w \in Worker,
           Load(e, t, w)
    PROVE  TypeRest'
<1>1. notices' \in [Task -> [Worker -> 0 .. NoticeLimit]]
  BY NoticeType DEF Load
<1>2. PICK online \in BOOLEAN :
         exec' = [exec EXCEPT ![e] =
                     [pc |-> "dispatch", task |-> t, worker |-> w,
                      approved |-> row[t].approval = "approved", online |-> online,
                      failures |-> row[t].failures, retries |-> row[t].retries]]
  BY DEF Load, TypeOK
<1>3. row[t].failures \in Failures /\ row[t].retries \in Retries
  BY DEF TypeOK, Row
<1>4. exec' \in [Exec -> Job]
  BY <1>2, <1>3 DEF TypeOK, Job, Dispatch
<1> QED BY <1>1, <1>4 DEF TypeOK, TypeRest, Load, env

(* A notice without effect takes itself away.                              *)
LEMMA SkipType ==
    ASSUME TypeOK, NEW t \in Task, NEW w \in Worker, SkipNotice(t, w)
    PROVE  TypeRest'
<1>1. notices' \in [Task -> [Worker -> 0 .. NoticeLimit]]
  BY NoticeType DEF SkipNotice
<1> QED BY <1>1 DEF TypeOK, TypeRest, SkipNotice, live, env

(* The dependents read are tasks, and so are those left.                   *)
LEMMA KidsType ==
    ASSUME TypeOK, NEW e \in Exec, ReadDependents(e) \/ TriggerDependent(e)
    PROVE  kids' \in [Exec -> SUBSET Task]
<1>1. ToTrigger(TaskOf(e)) \subseteq Task
  BY DEF ToTrigger, Children
<1> QED BY <1>1 DEF TypeOK, ReadDependents, TriggerDependent

(* The dispatcher of an execution.                                         *)
LEMMA DispatchType ==
    ASSUME TypeOK, NEW e \in Exec, DispatchStep(e)
    PROVE  TypeRest'
<1>1. exec' \in [Exec -> Job]
  <2>1. \E pc \in Dispatch \cup {"idle", "done"} : Becomes(e, pc)
    <3>1. CASE Publish(e)
      BY <3>1 DEF Publish
    <3>2. CASE NativeFails(e) \/ DeliveryFails(e)
      BY <3>2 DEF NativeFails, DeliveryFails, CountAttempt, Dispatch
    <3>3. CASE Missed(e) \/ NativeSucceeds(e)
      BY <3>3 DEF Missed, NativeSucceeds, AfterCompletion, Dispatch
    <3>4. CASE AskApproval(e) \/ BackOff(e)
      BY <3>4 DEF AskApproval, BackOff
    <3>5. CASE DispatchDependents(e)
      BY <3>5 DEF DispatchDependents, Dispatch
    <3> QED BY <3>1, <3>2, <3>3, <3>4, <3>5 DEF DispatchStep
  <2> QED BY <2>1, BecomesType
<1>2. session' \in [Exec -> [Conn -> SessionState]]
  <2>1. CASE Deliver(e)
    BY <2>1 DEF Deliver, TypeOK, SessionState
  <2>2. CASE UNCHANGED session
    BY <2>2 DEF TypeOK
  <2> QED BY <2>1, <2>2 DEF DispatchStep, AskApproval, Missed, NativeSucceeds, NativeFails,
                            BackOff, Publish, DeliveryFails, DispatchDependents
<1>3. kids' \in [Exec -> SUBSET Task]
  <2>1. CASE DispatchDependents(e)
    BY <2>1, KidsType DEF DispatchDependents
  <2>2. CASE ~DispatchDependents(e)
    BY <2>2 DEF TypeOK, DispatchStep, AskApproval, Missed, NativeSucceeds, NativeFails,
                BackOff, Publish, DeliveryFails
  <2> QED BY <2>1, <2>2
<1>4. UNCHANGED <<notices, lock, sampledBy, env>>
  BY DEF DispatchStep, AskApproval, Missed, NativeSucceeds, NativeFails,
         BackOff, Publish, DeliveryFails, DispatchDependents, store, env
<1> QED BY <1>1, <1>2, <1>3, <1>4 DEF TypeOK, TypeRest, env

(* The session of a connection.                                            *)
LEMMA SessionType ==
    ASSUME TypeOK, NEW e \in Exec, NEW c \in Conn, SessionStep(e, c)
    PROVE  TypeRest'
<1>1. session' \in [Exec -> [Conn -> SessionState]]
  <2>1. \E st \in SessionState : Goes(e, c, st)
    <3>1. CASE TakeLock(e, c) \/ LoseLock(e, c)
      BY <3>1 DEF TakeLock, LoseLock, SessionState
    <3>2. CASE SampleSucceeds(e, c)
      BY <3>2 DEF SampleSucceeds, SessionState
    <3>3. CASE SampleFails(e, c)
      BY <3>3 DEF SampleFails, SessionState
    <3>4. CASE SettleFailure(e, c) \/ SessionDependents(e, c)
      BY <3>4 DEF SettleFailure, SessionDependents, SessionState
    <3> QED BY <3>1, <3>2, <3>3, <3>4 DEF SessionStep
  <2> QED BY <2>1, GoesType
<1>2. /\ lock' \in [Exec -> Conn \cup {NoConn}]
      /\ sampledBy' \in [Exec -> SUBSET Conn]
  <2>1. CASE TakeLock(e, c) \/ LoseLock(e, c)
    <3>1. \/ lock' = lock
          \/ \E v \in Conn \cup {NoConn} : lock' = [lock EXCEPT ![e] = v]
      BY <2>1 DEF TypeOK, TakeLock, LoseLock
    <3>2. \/ sampledBy' = sampledBy
          \/ sampledBy' = [sampledBy EXCEPT ![e] = @ \cup {c}]
      BY <2>1 DEF TakeLock, LoseLock
    <3>3. lock' \in [Exec -> Conn \cup {NoConn}]
      BY <3>1 DEF TypeOK
    <3>4. sampledBy' \in [Exec -> SUBSET Conn]
      BY <3>2 DEF TypeOK
    <3> QED BY <3>3, <3>4
  <2>2. CASE ~(TakeLock(e, c) \/ LoseLock(e, c))
    <3>1. UNCHANGED <<lock, sampledBy>>
      BY <2>2 DEF SessionStep, SampleSucceeds, SampleFails, SettleFailure,
                  SessionDependents
    <3> QED BY <3>1 DEF TypeOK
  <2> QED BY <2>1, <2>2
<1>3. kids' \in [Exec -> SUBSET Task]
  <2>1. CASE SessionDependents(e, c)
    BY <2>1, KidsType DEF SessionDependents
  <2>2. CASE ~SessionDependents(e, c)
    BY <2>2 DEF TypeOK, SessionStep, TakeLock, LoseLock, SampleSucceeds, SampleFails,
                SettleFailure
  <2> QED BY <2>1, <2>2
<1>4. UNCHANGED <<notices, exec, env>>
  BY DEF SessionStep, TakeLock, LoseLock, SampleSucceeds, SampleFails,
         SettleFailure, SessionDependents, store, env
<1> QED BY <1>1, <1>2, <1>3, <1>4 DEF TypeOK, TypeRest, env

(* An execution that ends, or that its timeout ends.                       *)
LEMMA EndType ==
    ASSUME TypeOK, NEW e \in Exec, Retire(e) \/ Abandon(e)
    PROVE  TypeRest'
<1>1. CASE Retire(e)
  BY <1>1, IdleJob DEF TypeOK, TypeRest, Retire, store, env
<1>2. CASE Abandon(e)
  <2>1. exec' \in [Exec -> Job]
    BY <1>2, BecomesType DEF Abandon, TypeOK
  <2>2. session' \in [Exec -> [Conn -> SessionState]]
    BY <1>2, GoesType DEF Abandon, TypeOK, SessionState
  <2>3. kids' \in [Exec -> SUBSET Task]
    BY <1>2 DEF Abandon, TypeOK
  <2> QED BY <1>2, <2>1, <2>2, <2>3 DEF TypeOK, TypeRest, Abandon, store, env
<1> QED BY <1>1, <1>2

(* The dispatchers of a worker end with it, ...                            *)
LEMMA EndDispatchersType ==
    ASSUME TypeOK, NEW w \in Worker, EndDispatchers(w)
    PROVE  exec' \in [Exec -> Job]
<1>1. \A e \in Exec : At(exec[e], "done") \in Job
  BY AtJob DEF TypeOK
<1> QED BY <1>1 DEF EndDispatchers, TypeOK

(* ... and so do its sessions ...                                          *)
LEMMA EndSessionsType ==
    ASSUME TypeOK, NEW w \in Worker, EndSessions(w)
    PROVE  session' \in [Exec -> [Conn -> SessionState]]
<1>1. "none" \in SessionState
  BY DEF SessionState
<1> QED BY <1>1 DEF EndSessions, TypeOK

(* ... with the dependents they had still to trigger.                      *)
LEMMA ForgetKidsType ==
    ASSUME TypeOK, ForgetKids
    PROVE  kids' \in [Exec -> SUBSET Task]
  BY DEF TypeOK, ForgetKids

(* The connections of a worker end with it.                                *)
LEMMA DisconnectedType ==
    ASSUME TypeOK, NEW w \in Worker, Disconnected(w)
    PROVE  connected' \in [Conn -> ConnState]
  BY DEF TypeOK, Disconnected, ConnState, Subscribers

(* The life of a worker.                                                   *)
LEMMA WorkerType ==
    ASSUME TypeOK, NEW w \in Worker, WorkerStep(w)
    PROVE  TypeRest'
<1>1. worker' \in [Worker -> WorkerState]
  <2>1. \E st \in WorkerState : SetWorker(w, st)
    BY DEF WorkerStep, StartWorker, Listen, LoseListener, Crash, Drain, Revert, Exit,
           WorkerState
  <2> QED BY <2>1 DEF SetWorker, TypeOK
<1>2. CASE StartWorker(w) \/ Listen(w) \/ LoseListener(w) \/ Revert(w)
  BY <1>1, <1>2, LoseType DEF TypeOK, TypeRest, StartWorker, Listen, LoseListener,
                             Revert, store, live
<1>3. CASE Crash(w)
  <2>1. /\ notices' \in [Task -> [Worker -> 0 .. NoticeLimit]]
        /\ exec' \in [Exec -> Job]
        /\ session' \in [Exec -> [Conn -> SessionState]]
        /\ kids' \in [Exec -> SUBSET Task]
        /\ connected' \in [Conn -> ConnState]
    BY <1>3, LoseType, EndDispatchersType, EndSessionsType, ForgetKidsType,
       DisconnectedType DEF Crash
  <2> QED BY <1>1, <1>3, <2>1 DEF TypeOK, TypeRest, Crash
<1>4. CASE Drain(w)
  <2>1. /\ notices' \in [Task -> [Worker -> 0 .. NoticeLimit]]
        /\ exec' \in [Exec -> Job]
        /\ kids' \in [Exec -> SUBSET Task]
    BY <1>4, LoseType, EndDispatchersType, ForgetKidsType DEF Drain
  <2> QED BY <1>1, <1>4, <2>1 DEF TypeOK, TypeRest, Drain
<1>5. CASE Exit(w)
  <2>1. /\ session' \in [Exec -> [Conn -> SessionState]]
        /\ kids' \in [Exec -> SUBSET Task]
        /\ connected' \in [Conn -> ConnState]
    BY <1>5, EndSessionsType, ForgetKidsType, DisconnectedType DEF Exit
  <2> QED BY <1>1, <1>5, <2>1 DEF TypeOK, TypeRest, Exit, store
<1> QED BY <1>2, <1>3, <1>4, <1>5 DEF WorkerStep

(* Connections and the key of the user.                                    *)
LEMMA ConnType ==
    ASSUME TypeOK, (\E c \in Conn : ConnStep(c)) \/ Expire
    PROVE  TypeRest'
<1>1. connected' \in [Conn -> ConnState] /\ presence' \in BOOLEAN
  BY DEF TypeOK, ConnStep, Connect, Subscribe, Unsubscribe, Leave, RemoveUser, Close,
         Heartbeat, Expire, SetConn, ConnState
<1> QED BY <1>1, ConnFrame DEF TypeOK, TypeRest, DropsUnread, store

(* Every step keeps the types.                                             *)
LEMMA TypeStep == TypeOK /\ [Next]_vars => TypeOK'
<1> SUFFICES ASSUME TypeOK, [Next]_vars PROVE TypeOK'
  OBVIOUS
<1>1. row' \in [Task -> Row]
  <2>1. \A t \in Task : row'[t] \in Row
    BY StepRows, RowStepType DEF RowSteps, TypeOK
  <2> QED BY <2>1, StepRows DEF RowSteps
<1>2. TypeRest'
  <2>1. CASE \E t \in Task : TaskStep(t)
    BY <2>1, TaskType
  <2>2. CASE \E w \in Worker : WorkerStep(w)
    BY <2>2, WorkerType
  <2>3. CASE \E w \in Worker : \E S \in SUBSET Task : Claim(w, S)
    BY <2>3, ClaimType
  <2>4. CASE \E t \in Task : \E w \in Worker : SkipNotice(t, w)
    BY <2>4, SkipType
  <2>5. CASE \E e \in Exec : \E t \in Task : \E w \in Worker : Load(e, t, w)
    BY <2>5, LoadType
  <2>6. CASE \E e \in Exec : ExecStep(e)
    BY <2>6, DispatchType, EndType DEF ExecStep
  <2>7. CASE \E e \in Exec : \E c \in Conn : SessionStep(e, c)
    BY <2>7, SessionType
  <2>8. CASE (\E c \in Conn : ConnStep(c)) \/ Expire
    BY <2>8, ConnType
  <2>9. CASE UNCHANGED vars
    BY <2>9 DEF vars, TypeOK, TypeRest
  <2> QED BY <2>1, <2>2, <2>3, <2>4, <2>5, <2>6, <2>7, <2>8, <2>9 DEF Next
<1> QED BY <1>1, <1>2 DEF TypeOK, TypeRest

(* Every variable keeps its type, whatever the user does and whatever      *)
(* fails: in particular the counters that decide between a retry and the   *)
(* dead letters stay within their limits.                                  *)
THEOREM TypeCorrect == Spec => []TypeOK
  BY TypeInit, TypeStep, PTL DEF Spec

----------------------------------------------------------------------------
(* The row invariants are inductive given the types: they follow from what *)
(* a step may do to one row.                                               *)

(* No row step parks a row under a lock, or processes one without.         *)
LEMMA LockRow ==
    ASSUME NEW r \in Row, NEW s, RowStep(r, s),
           r.status = "processing" => r.lockedBy # NoWorker,
           r.lockedBy # NoWorker => r.status \in {"processing", "active"}
    PROVE  /\ s.status = "processing" => s.lockedBy # NoWorker
           /\ s.lockedBy # NoWorker => s.status \in {"processing", "active"}
<1>1. CASE \E w \in Worker : s = ClaimTask(r, w)
  BY <1>1, StoreAssumption DEF ClaimTask, Row
<1>2. CASE s = ResetTaskFailureCount(r, "active")
  BY <1>2 DEF ResetTaskFailureCount, Row
<1>3. CASE s = DeletedRow \/ Free(s)
  BY <1>3 DEF DeletedRow, NewRow, Free
<1>4. CASE \/ s = r \/ s = IncrementTaskFailureCount(r)
           \/ \E next \in {"due", "stale"} : s = Aged(r, next)
  <2>1. s.status = r.status /\ s.lockedBy = r.lockedBy
    BY <1>4 DEF Aged, IncrementTaskFailureCount, Row
  <2> QED BY <2>1
<1> QED BY <1>1, <1>2, <1>3, <1>4 DEF RowStep

(* Only a claim by a running worker puts the name of a worker on a row.    *)
LEMMA NewLock ==
    ASSUME NEW r \in Row, NEW s, RowStep(r, s), NEW w \in Worker,
           s.lockedBy = w, ~Running(w)
    PROVE  r.lockedBy = w
<1>1. CASE \E v \in Worker : Running(v) /\ s = ClaimTask(r, v)
  BY <1>1 DEF ClaimTask, Row
<1>2. CASE s = DeletedRow \/ Free(s)
  BY <1>2, StoreAssumption DEF DeletedRow, NewRow, Free
<1>3. CASE \/ s = r \/ s = IncrementTaskFailureCount(r)
           \/ s = ResetTaskFailureCount(r, "active")
           \/ \E next \in {"due", "stale"} : s = Aged(r, next)
  BY <1>3 DEF Aged, IncrementTaskFailureCount, ResetTaskFailureCount, Row
<1> QED BY <1>1, <1>2, <1>3 DEF RowStep

(* Parked tasks are not locked and processing tasks are, whatever statement*)
(* of whatever goroutine or user handler comes when.                       *)
THEOREM LocksAreDisciplined == Spec => []LockDiscipline
<1>1. Init => LockDiscipline
  BY DEF Init, LockDiscipline, NewRow
<1>2. TypeOK /\ LockDiscipline /\ [Next]_vars => LockDiscipline'
  <2> SUFFICES ASSUME TypeOK, LockDiscipline, [Next]_vars, NEW t \in Task
               PROVE  /\ row'[t].status = "processing" => row'[t].lockedBy # NoWorker
                      /\ row'[t].lockedBy # NoWorker =>
                            row'[t].status \in {"processing", "active"}
    BY DEF LockDiscipline
  <2> QED BY StepRows, LockRow DEF RowSteps, TypeOK, LockDiscipline
<1> QED BY <1>1, <1>2, TypeCorrect, PTL DEF Spec

(* No interleaving leaves a processing task with a next_run the reaper's   *)
(* query will never select.                                                *)
THEOREM ReaperSeesProcessing == Spec => []ReaperCanSee
<1>1. Init => ReaperCanSee
  BY DEF Init, ReaperCanSee, NewRow
<1>2. TypeOK /\ ReaperCanSee /\ [Next]_vars => ReaperCanSee'
  <2> SUFFICES ASSUME TypeOK, ReaperCanSee, [Next]_vars, NEW t \in Task,
                      row'[t].status = "processing"
               PROVE  row'[t].nextRun \in {"due", "stale"}
    BY DEF ReaperCanSee
  <2>1. RowStep(row[t], row'[t]) /\ row[t] \in Row
    BY StepRows DEF RowSteps, TypeOK
  <2>2. row[t].status = "processing" => row[t].nextRun \in {"due", "stale"}
    BY DEF ReaperCanSee
  <2> QED BY <2>1, <2>2 DEF RowStep, Free, DeletedRow, NewRow, Aged, ClaimTask, Due,
                            IncrementTaskFailureCount, ResetTaskFailureCount, Row
<1> QED BY <1>1, <1>2, TypeCorrect, PTL DEF Spec

----------------------------------------------------------------------------
(* Shutdown.  A worker that has reverted its tasks stays reverted, and only*)
(* a running worker claims.                                                *)
LEMMA RevertedStays ==
    ASSUME TypeOK, [Next]_vars, NEW w \in Worker, worker'[w] \in {"reverted", "down"}
    PROVE  worker[w] \in {"reverted", "down"} \/ Revert(w)
<1>1. CASE \E v \in Worker : WorkerStep(v)
  <2>1. PICK v \in Worker : WorkerStep(v)
    BY <1>1
  <2>2. CASE v = w
    BY <2>1, <2>2 DEF WorkerStep, StartWorker, Listen, LoseListener, Crash, Drain, Exit,
                      SetWorker, TypeOK
  <2>3. CASE v # w
    BY <2>1, <2>3 DEF WorkerStep, StartWorker, Listen, LoseListener, Crash, Drain,
                      Revert, Exit, SetWorker, TypeOK
  <2> QED BY <2>2, <2>3
<1>2. CASE UNCHANGED worker
  BY <1>2
<1>3. CASE \E t \in Task : TaskStep(t)
  BY <1>2, <1>3 DEF TaskStep, Age, Reap, UserStep, Pause, Resume, ResumeMCP, Approve, Deny,
              DeleteTask, UserSets, env
<1>4. CASE \/ \E v \in Worker : \E S \in SUBSET Task : Claim(v, S)
           \/ \E t \in Task : \E v \in Worker :
                 SkipNotice(t, v) \/ \E e \in Exec : Load(e, t, v)
  BY <1>2, <1>4 DEF Claim, SkipNotice, Load, env
<1>5. CASE \E e \in Exec : ExecStep(e)
  BY <1>2, <1>5 DEF ExecStep, DispatchStep, AskApproval, Missed, NativeSucceeds, NativeFails,
              BackOff, Publish, DeliveryFails, DispatchDependents, Retire, Abandon, env
<1>6. CASE \E e \in Exec : \E c \in Conn : SessionStep(e, c)
  BY <1>2, <1>6 DEF SessionStep, TakeLock, LoseLock, SampleSucceeds, SampleFails,
              SettleFailure, SessionDependents, env
<1>7. CASE (\E c \in Conn : ConnStep(c)) \/ Expire
  BY <1>2, <1>7, ConnFrame
<1>8. CASE UNCHANGED vars
  BY <1>2, <1>8 DEF vars
<1> QED BY <1>1, <1>3, <1>4, <1>5, <1>6, <1>7, <1>8 DEF Next

(* A worker that goes down gracefully takes no lock along: after its revert*)
(* no row is locked under its id again, although its sessions go on.       *)
THEOREM RevertIsFinal == Spec => []NoLockAfterRevert
<1>1. Init => NoLockAfterRevert
  BY StoreAssumption DEF Init, NoLockAfterRevert, NewRow
<1>2. TypeOK /\ NoLockAfterRevert /\ [Next]_vars => NoLockAfterRevert'
  <2> SUFFICES ASSUME TypeOK, NoLockAfterRevert, [Next]_vars,
                      NEW t \in Task, NEW w \in Worker,
                      worker'[w] \in {"reverted", "down"}
               PROVE  row'[t].lockedBy # w
    BY DEF NoLockAfterRevert
  <2>1. RowStep(row[t], row'[t]) /\ row[t] \in Row /\ w # NoWorker
    BY StepRows, StoreAssumption DEF RowSteps, TypeOK
  <2>2. CASE Revert(w)
    BY <2>1, <2>2 DEF Revert, RevertProcessingTasks, Row
  <2>3. CASE worker[w] \in {"reverted", "down"}
    <3>1. row[t].lockedBy # w /\ ~Running(w)
      BY <2>3 DEF NoLockAfterRevert, Running
    <3> QED BY <2>1, <3>1, NewLock
  <2> QED BY <2>2, <2>3, RevertedStays
<1> QED BY <1>1, <1>2, TypeCorrect, PTL DEF Spec

----------------------------------------------------------------------------
(* The Redis lock.  SampledOnce and CompletedOnce are not inductive: what  *)
(* makes them hold is that a session past the lock is the one the key      *)
(* names, and that a dispatcher which delivered a message to a session     *)
(* never completes the task itself.                                        *)
Owned(e) ==
    /\ \A c \in sampledBy[e] : lock[e] = c
    /\ \A c \in Conn : session[e][c] \notin {"none", "got"} => lock[e] = c
    /\ exec[e].pc \in {"dispatch", "completed", "activating"} =>
          \A c \in Conn : session[e][c] = "none"

Ownership == \A e \in Exec : Owned(e)

(* An execution nothing happens to stays owned.                            *)
LEMMA OwnedSame ==
    ASSUME NEW e \in Exec, Owned(e), exec'[e] = exec[e], session'[e] = session[e],
           lock'[e] = lock[e], sampledBy'[e] = sampledBy[e]
    PROVE  Owned(e)'
  BY DEF Owned

(* A dispatcher is where it goes.                                          *)
LEMMA AtPc ==
    ASSUME NEW x, NEW pc
    PROVE  At(x, pc).pc = pc
  BY DEF At, Idle

(* A dispatcher's step.                                                    *)
LEMMA OwnedDispatch ==
    ASSUME TypeOK, Ownership, NEW e \in Exec, DispatchStep(e), NEW f \in Exec
    PROVE  Owned(f)'
<1> USE DEF Becomes
<1>0. /\ Owned(e) /\ Owned(f) /\ UNCHANGED <<lock, sampledBy>>
      /\ DOMAIN exec = Exec /\ DOMAIN session = Exec
  BY DEF Ownership, TypeOK, DispatchStep, AskApproval, Missed, NativeSucceeds, NativeFails,
         BackOff, Publish, DeliveryFails, DispatchDependents
<1>1. CASE f # e
  <2>1. exec'[f] = exec[f] /\ session'[f] = session[f]
    BY <1>0, <1>1 DEF DispatchStep, AskApproval, Missed, NativeSucceeds, NativeFails, BackOff,
           Publish, DeliveryFails, DispatchDependents, CountAttempt, Deliver
  <2> QED BY <1>0, <2>1, OwnedSame
<1>2. CASE f = e /\ (Publish(e) \/ DeliveryFails(e))
  <2>1. exec[e].pc = "dispatch"
    BY <1>2 DEF Publish, DeliveryFails, MayPublish
  <2>2. \A c \in Conn : session'[e][c] \in {"none", "got"}
    BY <1>0, <1>2, <2>1 DEF Owned, Publish, DeliveryFails, Deliver, TypeOK
  <2>3. exec'[e].pc \in {"done", "backoff"}
    BY <1>0, <1>2, AtPc DEF Publish, DeliveryFails, CountAttempt
  <2> QED BY <1>0, <1>2, <2>2, <2>3 DEF Owned
<1>3. CASE f = e /\ ~(Publish(e) \/ DeliveryFails(e))
  <2>1. session' = session
    BY <1>3 DEF DispatchStep, AskApproval, Missed, NativeSucceeds, NativeFails, BackOff,
                DispatchDependents
  <2>2. CASE exec[e].pc \in {"dispatch", "completed", "activating"}
    BY <1>0, <1>3, <2>1, <2>2 DEF Owned
  <2>3. CASE exec[e].pc = "backoff"
    <3>1. BackOff(e)
      BY <1>3, <2>3 DEF DispatchStep, AskApproval, Missed, NativeSucceeds, NativeFails,
                        RunsNative, DispatchDependents
    <3>2. exec'[e].pc = "done"
      BY <1>0, <3>1, AtPc DEF BackOff
    <3> QED BY <1>0, <1>3, <2>1, <3>2 DEF Owned
  <2>4. exec[e].pc \in {"dispatch", "completed", "activating", "backoff"}
    BY <1>3 DEF DispatchStep, AskApproval, Missed, NativeSucceeds, NativeFails, RunsNative,
                BackOff, DispatchDependents
  <2> QED BY <2>2, <2>3, <2>4
<1> QED BY <1>1, <1>2, <1>3

(* A session's step.                                                       *)
LEMMA OwnedSession ==
    ASSUME TypeOK, Ownership, NEW e \in Exec, NEW c \in Conn, SessionStep(e, c),
           NEW f \in Exec
    PROVE  Owned(f)'
<1>0. /\ Owned(e) /\ Owned(f) /\ UNCHANGED exec
      /\ \A d \in Conn : d # NoConn
      /\ sampledBy[e] \subseteq Conn
  BY SchedulerAssumption DEF Ownership, TypeOK, SessionStep, TakeLock, LoseLock, SampleSucceeds,
         SampleFails, SettleFailure, SessionDependents
<1>1. session[e][c] # "none"
  BY DEF SessionStep, TakeLock, LoseLock, SampleSucceeds, SampleFails, SettleFailure,
         SessionDependents
<1>2. \E st : session' = [session EXCEPT ![e][c] = st]
  BY DEF SessionStep, TakeLock, LoseLock, SampleSucceeds, SampleFails, SettleFailure,
         SessionDependents, Goes
<1>3. CASE f # e
  <2>1. session'[f] = session[f]
    BY <1>2, <1>3 DEF TypeOK
  <2>2. lock'[f] = lock[f] /\ sampledBy'[f] = sampledBy[f]
    BY <1>3 DEF TypeOK, SessionStep, TakeLock, LoseLock, SampleSucceeds, SampleFails,
                SettleFailure, SessionDependents
  <2> QED BY <1>0, <2>1, <2>2, OwnedSame
<1>4. CASE f = e /\ TakeLock(e, c)
  <2>1. lock[e] = NoConn /\ lock'[e] = c /\ sampledBy'[e] = sampledBy[e] \cup {c}
    BY <1>4 DEF TakeLock, SetNX, TypeOK
  <2>2. \A d \in Conn : d # c => session'[e][d] = session[e][d]
    BY <1>2 DEF TypeOK
  <2> QED BY <1>0, <1>1, <1>4, <2>1, <2>2 DEF Owned
<1>5. CASE f = e /\ LoseLock(e, c)
  <2>1. /\ \/ lock'[e] = lock[e]
           \/ lock[e] = NoConn
        /\ sampledBy'[e] = sampledBy[e]
    BY <1>5 DEF LoseLock, TypeOK
  <2>2. /\ session'[e][c] = "none"
        /\ \A d \in Conn : d # c => session'[e][d] = session[e][d]
    BY <1>5 DEF TypeOK, LoseLock, Goes
  <2> QED BY <1>0, <1>1, <1>5, <2>1, <2>2 DEF Owned
<1>6. CASE f = e /\ ~TakeLock(e, c) /\ ~LoseLock(e, c)
  <2>1. session[e][c] # "got" /\ UNCHANGED <<lock, sampledBy>>
    BY <1>6 DEF SessionStep, SampleSucceeds, SampleFails, SettleFailure, SessionDependents
  <2>2. \A d \in Conn : d # c => session'[e][d] = session[e][d]
    BY <1>2 DEF TypeOK
  <2> QED BY <1>0, <1>1, <1>6, <2>1, <2>2 DEF Owned
<1> QED BY <1>3, <1>4, <1>5, <1>6

(* A slot's end, and the end of the processes that used it.                *)
LEMMA OwnedEnd ==
    ASSUME TypeOK, Ownership, NEW e \in Exec, Retire(e) \/ Abandon(e), NEW f \in Exec
    PROVE  Owned(f)'
<1>0. Owned(f)
  BY DEF Ownership
<1>1. CASE Retire(e)
  <2>1. f # e => /\ exec'[f] = exec[f] /\ session'[f] = session[f]
                 /\ lock'[f] = lock[f] /\ sampledBy'[f] = sampledBy[f]
    BY <1>1 DEF Retire, TypeOK
  <2>2. f = e => /\ exec'[f].pc = "idle" /\ sampledBy'[f] = {}
                 /\ \A c \in Conn : session'[f][c] = "none"
    BY <1>1 DEF Retire, Busy, TypeOK, Idle
  <2> QED BY <1>0, <2>1, <2>2, OwnedSame DEF Owned
<1>2. CASE Abandon(e)
  <2>1. UNCHANGED <<lock, sampledBy>>
    BY <1>2 DEF Abandon
  <2>2. exec'[f] = exec[f] \/ exec'[f].pc = "done"
    BY <1>2, AtPc DEF Abandon, Becomes, TypeOK
  <2>3. \A c \in Conn : session'[f][c] \in {"none", session[f][c]}
    BY <1>2 DEF Abandon, Goes, TypeOK
  <2> QED BY <1>0, <2>1, <2>2, <2>3 DEF Owned
<1> QED BY <1>1, <1>2

(* The end of a worker ends dispatchers and sessions, and moves none on.   *)
LEMMA OwnedWorker ==
    ASSUME TypeOK, Ownership, NEW w \in Worker, WorkerStep(w), NEW f \in Exec
    PROVE  Owned(f)'
<1>0. Owned(f) /\ UNCHANGED <<lock, sampledBy>>
  BY DEF Ownership, WorkerStep, StartWorker, Listen, LoseListener, Crash, Drain, Revert, Exit,
         live
<1>1. exec'[f] = exec[f] \/ exec'[f].pc = "done"
  BY AtPc DEF WorkerStep, StartWorker, Listen, LoseListener, Crash, Drain, Revert, Exit,
         live, EndDispatchers
<1>2. \A c \in Conn : session'[f][c] \in {"none", session[f][c]}
  BY DEF WorkerStep, StartWorker, Listen, LoseListener, Crash, Drain, Revert, Exit,
         live, EndSessions, TypeOK
<1> QED BY <1>0, <1>1, <1>2 DEF Owned

(* A slot is taken when no session is left in it.                          *)
LEMMA OwnedLoad ==
    ASSUME TypeOK, Ownership, NEW e \in Exec, NEW t \in Task, NEW w \in Worker,
           Load(e, t, w), NEW f \in Exec
    PROVE  Owned(f)'
<1>0. Owned(f) /\ UNCHANGED <<session, lock, sampledBy>>
  BY DEF Ownership, Load
<1>1. f # e => exec'[f] = exec[f]
  BY DEF Load, TypeOK
<1>2. \A c \in Conn : session[e][c] = "none"
  BY DEF Load, Busy
<1> QED BY <1>0, <1>1, <1>2 DEF Owned

(* Every step keeps Ownership.                                             *)
LEMMA OwnershipStep == TypeOK /\ Ownership /\ [Next]_vars => Ownership'
<1> SUFFICES ASSUME TypeOK, Ownership, [Next]_vars, NEW f \in Exec
             PROVE  Owned(f)'
  BY DEF Ownership
<1> USE DEF live
<1>0. Owned(f)
  BY DEF Ownership
<1>1. CASE \E t \in Task : TaskStep(t)
  <2>1. UNCHANGED live
    BY <1>1 DEF TaskStep, Age, Reap, UserStep, Pause, Resume, ResumeMCP, Approve, Deny,
                DeleteTask, UserSets
  <2> QED BY <1>0, <2>1, OwnedSame
<1>2. CASE \E w \in Worker : WorkerStep(w)
  BY <1>2, OwnedWorker
<1>3. CASE \E w \in Worker : \E S \in SUBSET Task : Claim(w, S)
  BY <1>0, <1>3, OwnedSame DEF Claim
<1>4. CASE \E t \in Task : \E w \in Worker : SkipNotice(t, w)
  BY <1>0, <1>4, OwnedSame DEF SkipNotice
<1>5. CASE \E e \in Exec : \E t \in Task : \E w \in Worker : Load(e, t, w)
  BY <1>5, OwnedLoad
<1>6. CASE \E e \in Exec : ExecStep(e)
  BY <1>6, OwnedDispatch, OwnedEnd DEF ExecStep
<1>7. CASE \E e \in Exec : \E c \in Conn : SessionStep(e, c)
  BY <1>7, OwnedSession
<1>8. CASE (\E c \in Conn : ConnStep(c)) \/ Expire
  BY <1>0, <1>8, ConnFrame DEF DropsUnread, Owned
<1>9. CASE UNCHANGED vars
  BY <1>0, <1>9, OwnedSame DEF vars
<1> QED BY <1>1, <1>2, <1>3, <1>4, <1>5, <1>6, <1>7, <1>8, <1>9 DEF Next

(* The lock of an execution: a session past it is the one the Redis key    *)
(* names, and while a dispatcher may still complete, no session has its    *)
(* message.                                                                *)
THEOREM OwnershipHolds == Spec => []Ownership
<1>1. Init => Ownership
  BY DEF Init, Ownership, Owned, Idle
<1> QED BY <1>1, OwnershipStep, TypeCorrect, PTL DEF Spec

(* All the user's terminals get the message of an execution, and at most   *)
(* one of them asks its LLM.                                               *)
THEOREM SamplingIsExclusive == Spec => []SampledOnce
<1>1. Ownership => SampledOnce
  BY DEF Ownership, Owned, SampledOnce
<1> QED BY <1>1, OwnershipHolds, PTL

(* At most one goroutine completes an execution and triggers its           *)
(* dependents, also after a publish that failed and delivered.             *)
THEOREM CompletionIsExclusive == Spec => []CompletedOnce
<1>1. Ownership => CompletedOnce
  BY DEF Ownership, Owned, CompletedOnce, Completing
<1> QED BY <1>1, OwnershipHolds, PTL

----------------------------------------------------------------------------
(* Triggers.  A completion is cut short by a crash, a shutdown, a timeout  *)
(* or a failing statement, a branch condition passes over dependents, and  *)
(* the deletion of the parent sets them free.  Nothing else keeps it from  *)
(* its dependents: not what the user does to them, not other workers and   *)
(* connections, not Redis, not a trigger without a next run.               *)
Unbroken ==
    /\ Faults \cap {"crash", "shutdown", "timeout", "db"} = {}
    /\ "delete" \notin UserOps /\ Branching = {}

(* No process is stopping, no row is missing, and dependents are kept only *)
(* for someone to trigger them.                                            *)
NoneStops == \A w \in Worker : worker[w] \in {"new", "starting", "up"}
KidsWait  == \A e \in Exec : kids[e] # {} => Triggering(e)

RowsThere == \A t \in Task : Present(row[t])

UnbrokenInv == Unbroken /\ NoneStops /\ RowsThere /\ KidsWait

(* Rows are not deleted.                                                   *)
LEMMA RowsStay ==
    ASSUME TypeOK, Unbroken, [Next]_vars, NEW t \in Task, Present(row[t])
    PROVE  Present(row'[t])
<1>1. RowStep(row[t], row'[t]) /\ row[t] \in Row
  BY StepRows DEF RowSteps, TypeOK
<1>2. "delete" \notin UserOps
  BY DEF Unbroken
<1>3. QED BY <1>1, <1>2 DEF RowStep, Free, Aged, ClaimTask, IncrementTaskFailureCount,
                            ResetTaskFailureCount, Present, Row

(* A parent of a dependent stays its parent.                               *)
LEMMA ChildrenStay ==
    ASSUME TypeOK, Unbroken, RowsThere, [Next]_vars, NEW t, NEW k \in ToTrigger(t),
           row'[k].status = "active"
    PROVE  k \in Task /\ k \in Chained /\ ParentOf(k)' = t
<1>1. k \in Task /\ ParentOf(k) = t /\ k \in Chained
  BY DEF ToTrigger, Children
<1>2. Parent[k] # NoTask => Present(row[Parent[k]]) /\ Present(row'[Parent[k]])
  BY <1>1, RowsStay, SchedulerAssumption DEF RowsThere
<1>3. QED BY <1>1, <1>2 DEF ParentOf

(* No worker begins to stop.                                               *)
LEMMA NoneStopsStep ==
    ASSUME TypeOK, Unbroken, NoneStops, [Next]_vars
    PROVE  NoneStops'
<1>1. CASE \E v \in Worker : WorkerStep(v)
  <2>1. PICK v \in Worker : WorkerStep(v)
    BY <1>1
  <2>2. \E st \in {"starting", "up"} : worker' = [worker EXCEPT ![v] = st]
    BY <2>1 DEF WorkerStep, StartWorker, Listen, LoseListener, Crash, Drain, Revert, Exit,
                SetWorker, Unbroken, NoneStops
  <2>3. QED BY <2>2 DEF NoneStops, TypeOK
<1>2. CASE UNCHANGED worker
  BY <1>2 DEF NoneStops
<1>3. CASE \E t \in Task : TaskStep(t)
  BY <1>2, <1>3 DEF TaskStep, Age, Reap, UserStep, Pause, Resume, ResumeMCP, Approve, Deny,
              DeleteTask, UserSets, env
<1>4. CASE \/ \E v \in Worker : \E S \in SUBSET Task : Claim(v, S)
           \/ \E t \in Task : \E v \in Worker :
                 SkipNotice(t, v) \/ \E e \in Exec : Load(e, t, v)
  BY <1>2, <1>4 DEF Claim, SkipNotice, Load, env
<1>5. CASE \E e \in Exec : ExecStep(e)
  BY <1>2, <1>5 DEF ExecStep, DispatchStep, AskApproval, Missed, NativeSucceeds, NativeFails,
              BackOff, Publish, DeliveryFails, DispatchDependents, Retire, Abandon, env
<1>6. CASE \E e \in Exec : \E c \in Conn : SessionStep(e, c)
  BY <1>2, <1>6 DEF SessionStep, TakeLock, LoseLock, SampleSucceeds, SampleFails,
              SettleFailure, SessionDependents, env
<1>7. CASE (\E c \in Conn : ConnStep(c)) \/ Expire
  BY <1>2, <1>7, ConnFrame
<1>8. CASE UNCHANGED vars
  BY <1>2, <1>8 DEF vars
<1> QED BY <1>1, <1>3, <1>4, <1>5, <1>6, <1>7, <1>8 DEF Next

(* What a step may do to the completion of execution e: leave it alone,    *)
(* read all the dependents, or trigger one of them.                        *)
Ended(e) == \/ exec[e].pc = "completed"
            \/ \E c \in Conn : session[e][c] = "completed"

LeavesAlone(e) ==
    /\ kids'[e] = kids[e]
    /\ exec[e].pc \in {"completed", "activating"} => exec'[e] = exec[e]
    /\ \A c \in Conn : session[e][c] \in {"completed", "activating"} =>
          session'[e][c] = session[e][c] /\ TaskOf(e)' = TaskOf(e)
ReadsAll(e) ==
    /\ Ended(e) /\ kids'[e] = ToTrigger(TaskOf(e))
    /\ kids'[e] # {} => Triggering(e)'
TriggersOne(e) ==
    /\ Triggering(e) /\ kids'[e] # {} => Triggering(e)'
    /\ \E k \in kids[e] : /\ kids'[e] = kids[e] \ {k}
                          /\ Put(k, UpdateTaskNextRun(row[k], "active", "due"))

Advances(e) == LeavesAlone(e) \/ ReadsAll(e) \/ TriggersOne(e)

(* The two statements of the second half of completeTask.                  *)
LEMMA KidsAdvance ==
    ASSUME TypeOK, Unbroken, NEW e \in Exec,
           kids'[e] # {} => Triggering(e)'
    PROVE  /\ Ended(e) /\ ReadDependents(e) => ReadsAll(e)
           /\ Triggering(e) /\ TriggerDependent(e) => TriggersOne(e)
<1>1. DOMAIN kids = Exec
  BY DEF TypeOK
<1>2. ASSUME Ended(e), ReadDependents(e) PROVE ReadsAll(e)
  <2>1. PICK S \in SUBSET ToTrigger(TaskOf(e)) :
           /\ ToTrigger(TaskOf(e)) \ S \subseteq Branching
           /\ kids' = [kids EXCEPT ![e] = S]
    BY <1>2 DEF ReadDependents
  <2>2. S = ToTrigger(TaskOf(e))
    BY <2>1 DEF Unbroken
  <2>3. QED BY <1>1, <1>2, <2>1, <2>2 DEF ReadsAll
<1>3. ASSUME Triggering(e), TriggerDependent(e) PROVE TriggersOne(e)
  BY <1>1, <1>3 DEF TriggerDependent, TriggersOne, Unbroken
<1>4. QED BY <1>2, <1>3

(* A dispatcher's step, ...                                                *)
LEMMA DispatchAdvances ==
    ASSUME TypeOK, Ownership, Unbroken, NEW f \in Exec, DispatchStep(f), NEW e \in Exec
    PROVE  Advances(e)
<1>1. CASE e # f
  <2>1. exec'[e] = exec[e] /\ session'[e] = session[e] /\ kids'[e] = kids[e]
    BY <1>1 DEF TypeOK, DispatchStep, AskApproval, Missed, NativeSucceeds, NativeFails, BackOff,
           Publish, DeliveryFails, DispatchDependents, CountAttempt, Deliver, Becomes,
           ReadDependents, TriggerDependent
  <2>2. QED BY <2>1 DEF Advances, LeavesAlone, TaskOf
<1>2. CASE e = f /\ DispatchDependents(e)
  <2>1. /\ exec'[e].pc = IF kids'[e] = {} THEN "done" ELSE "activating"
    BY <1>2, AtPc DEF DispatchDependents, Becomes, TypeOK
  <2>2. kids'[e] # {} => Triggering(e)'
    BY <2>1 DEF Triggering
  <2>3. \/ Ended(e) /\ ReadDependents(e)
        \/ Triggering(e) /\ TriggerDependent(e)
    BY <1>2 DEF DispatchDependents, Ended, Triggering
  <2>4. QED BY <2>2, <2>3, KidsAdvance DEF Advances
<1>3. CASE e = f /\ ~DispatchDependents(e)
  <2>1. kids' = kids /\ exec[e].pc \in {"dispatch", "backoff"}
    BY <1>3 DEF DispatchStep, AskApproval, Missed, NativeSucceeds, NativeFails, BackOff,
           Publish, DeliveryFails, MayPublish, RunsNative
  <2>2. CASE exec[e].pc = "dispatch"
    BY <2>1, <2>2 DEF Ownership, Owned, Advances, LeavesAlone
  <2>3. CASE exec[e].pc = "backoff"
    <3>1. BackOff(e)
      BY <1>3, <2>3 DEF DispatchStep, AskApproval, Missed, NativeSucceeds, NativeFails,
                        RunsNative, Publish, DeliveryFails, MayPublish
    <3>2. session' = session /\ TaskOf(e)' = TaskOf(e)
      BY <3>1 DEF BackOff, Becomes, At, Idle, TaskOf, TypeOK
    <3>3. QED BY <2>1, <2>3, <3>2 DEF Advances, LeavesAlone
  <2>4. QED BY <2>1, <2>2, <2>3
<1>4. QED BY <1>1, <1>2, <1>3

(* ... a session's, ...                                                    *)
LEMMA SessionAdvances ==
    ASSUME TypeOK, Ownership, Unbroken, NEW f \in Exec, NEW c \in Conn, SessionStep(f, c),
           NEW e \in Exec
    PROVE  Advances(e)
<1>0. exec' = exec /\ session[f][c] # "none" /\ \E st : Goes(f, c, st)
  BY DEF SessionStep, TakeLock, LoseLock, SampleSucceeds, SampleFails, SettleFailure,
         SessionDependents
<1>1. CASE e # f
  <2>1. session'[e] = session[e]
    BY <1>0, <1>1 DEF Goes, TypeOK
  <2>2. kids'[e] = kids[e]
    BY <1>1 DEF TypeOK, SessionStep, TakeLock, LoseLock, SampleSucceeds, SampleFails,
         SettleFailure, SessionDependents, ReadDependents, TriggerDependent
  <2>3. QED BY <1>0, <2>1, <2>2 DEF Advances, LeavesAlone, TaskOf
<1>2. CASE e = f /\ SessionDependents(e, c)
  <2>1. session'[e][c] = IF kids'[e] = {} THEN "none" ELSE "activating"
    BY <1>2 DEF SessionDependents, Goes, TypeOK
  <2>2. kids'[e] # {} => Triggering(e)'
    BY <2>1 DEF Triggering
  <2>3. \/ Ended(e) /\ ReadDependents(e)
        \/ Triggering(e) /\ TriggerDependent(e)
    BY <1>2 DEF SessionDependents, Ended, Triggering
  <2>4. QED BY <2>2, <2>3, KidsAdvance DEF Advances
<1>3. CASE e = f /\ ~SessionDependents(e, c)
  <2>1. kids' = kids /\ session[e][c] \notin {"completed", "activating"}
    BY <1>3 DEF SessionStep, TakeLock, LoseLock, SampleSucceeds, SampleFails, SettleFailure
  <2>2. \A d \in Conn : d # c => session'[e][d] = session[e][d]
    BY <1>0, <1>3 DEF Goes, TypeOK
  <2>3. QED BY <1>0, <2>1, <2>2 DEF Advances, LeavesAlone, TaskOf
<1>4. QED BY <1>1, <1>2, <1>3

(* ... and every step.                                                     *)
LEMMA StepAdvances ==
    ASSUME TypeOK, Ownership, UnbrokenInv, [Next]_vars, NEW e \in Exec
    PROVE  Advances(e)
<1>0. Unbroken /\ NoneStops
  BY DEF UnbrokenInv
<1>1. UNCHANGED live => Advances(e)
  BY DEF live, Advances, LeavesAlone, TaskOf
<1>2. CASE \E t \in Task : TaskStep(t)
  BY <1>1, <1>2 DEF TaskStep, Age, Reap, UserStep, Pause, Resume, ResumeMCP, Approve, Deny,
                DeleteTask, UserSets
<1>3. CASE \E w \in Worker : WorkerStep(w)
  BY <1>0, <1>1, <1>3 DEF WorkerStep, StartWorker, Listen, LoseListener, Crash, Drain, Revert,
                Exit, Unbroken, NoneStops
<1>4. CASE \/ \E w \in Worker : \E S \in SUBSET Task : Claim(w, S)
           \/ \E t \in Task : \E w \in Worker : SkipNotice(t, w)
  BY <1>1, <1>4 DEF Claim, SkipNotice
<1>5. CASE \E f \in Exec : \E t \in Task : \E w \in Worker : Load(f, t, w)
  <2>1. PICK f \in Exec : \E t \in Task : \E w \in Worker : Load(f, t, w)
    BY <1>5
  <2>2. kids' = kids /\ session' = session /\ exec[f].pc = "idle"
        /\ \A c \in Conn : session[f][c] = "none"
    BY <2>1 DEF Load, Busy
  <2>3. e # f => exec'[e] = exec[e]
    BY <2>1 DEF Load, TypeOK
  <2>4. QED BY <2>2, <2>3 DEF Advances, LeavesAlone, TaskOf
<1>6. CASE \E f \in Exec : ExecStep(f)
  <2>1. PICK f \in Exec : ExecStep(f)
    BY <1>6
  <2>2. CASE DispatchStep(f)
    BY <1>0, <2>2, DispatchAdvances
  <2>3. CASE Retire(f)
    <3>1. kids' = kids /\ session' = session /\ exec[f].pc = "done"
          /\ \A c \in Conn : session[f][c] = "none"
      BY <2>3 DEF Retire, Busy
    <3>2. e # f => exec'[e] = exec[e]
      BY <2>3 DEF Retire, TypeOK
    <3>3. QED BY <3>1, <3>2 DEF Advances, LeavesAlone, TaskOf
  <2>4. ~Abandon(f)
    BY <1>0 DEF Abandon, Unbroken
  <2>5. QED BY <2>1, <2>2, <2>3, <2>4 DEF ExecStep
<1>7. CASE \E f \in Exec : \E c \in Conn : SessionStep(f, c)
  BY <1>0, <1>7, SessionAdvances
<1>8. CASE (\E c \in Conn : ConnStep(c)) \/ Expire
  BY <1>8, ConnFrame DEF DropsUnread, Advances, LeavesAlone, TaskOf
<1>9. CASE UNCHANGED vars
  BY <1>1, <1>9 DEF vars, live
<1>10. QED BY <1>2, <1>3, <1>4, <1>5, <1>6, <1>7, <1>8, <1>9 DEF Next

(* The invariant is inductive.                                             *)
LEMMA UnbrokenStep == TypeOK /\ Ownership /\ UnbrokenInv /\ [Next]_vars => UnbrokenInv'
<1> SUFFICES ASSUME TypeOK, Ownership, UnbrokenInv, [Next]_vars PROVE UnbrokenInv'
  OBVIOUS
<1>1. Unbroken' /\ NoneStops' /\ RowsThere'
  BY NoneStopsStep, RowsStay DEF UnbrokenInv, Unbroken, RowsThere
<1>2. ASSUME NEW e \in Exec, kids'[e] # {} PROVE Triggering(e)'
  <2>1. kids[e] # {} => Triggering(e)
    BY DEF UnbrokenInv, KidsWait
  <2>2. Advances(e)
    BY StepAdvances
  <2>3. QED BY <1>2, <2>1, <2>2
            DEF Advances, LeavesAlone, ReadsAll, TriggersOne, Triggering
<1>3. QED BY <1>1, <1>2 DEF UnbrokenInv, KidsWait

(* A completion that is not cut short makes every dependent due that was   *)
(* active, unless it is not active any more when its turn comes, whatever  *)
(* other executions and the user do to the rows between its statements.    *)
THEOREM TriggersArrive == Unbroken /\ Spec => TriggersNotLost
<1>1. Unbroken /\ Init => UnbrokenInv
  BY DEF Init, UnbrokenInv, NoneStops, RowsThere, KidsWait, NewRow, Present
<1>2. TypeOK /\ Ownership /\ UnbrokenInv /\ [Next]_vars =>
         [\A e \in Exec : \A k \in Task : Owes(e, k) /\ ~Owes(e, k)' =>
             row'[k].nextRun \in {"due", "stale"} \/ row'[k].status # "active"]_vars
  <2> SUFFICES ASSUME TypeOK, Ownership, UnbrokenInv, [Next]_vars,
                      NEW e \in Exec, NEW k \in Task, Owes(e, k), ~Owes(e, k)',
                      row'[k].status = "active"
               PROVE  row'[k].nextRun \in {"due", "stale"}
    OBVIOUS
  <2>0. Unbroken /\ RowsThere /\ Owned(e) /\ (kids[e] # {} => Triggering(e))
    BY DEF UnbrokenInv, KidsWait, Ownership
  <2>1. k \in kids[e] \/ (Ended(e) /\ k \in ToTrigger(TaskOf(e)))
    BY DEF Owes, Ended
  <2>2. Ended(e) => kids[e] = {}
    BY <2>0, SchedulerAssumption DEF Ended, Triggering, Owned
  <2>3. k \in kids'[e] => Owes(e, k)'
    BY DEF Owes
  <2>4. CASE LeavesAlone(e)
    <3>1. k \notin kids[e]
      BY <2>3, <2>4 DEF LeavesAlone
    <3>2. Ended(e) /\ k \in ToTrigger(TaskOf(e))
      BY <2>1, <3>1
    <3>3. Ended(e)' /\ TaskOf(e)' = TaskOf(e)
      BY <2>4, <3>2 DEF LeavesAlone, Ended, TaskOf
    <3>4. ParentOf(k)' = TaskOf(e) /\ k \in Chained
      BY <2>0, <3>2, ChildrenStay
    <3>5. k \in ToTrigger(TaskOf(e))'
      BY <3>3, <3>4 DEF ToTrigger, Children
    <3>6. QED BY <3>3, <3>5 DEF Owes, Ended
  <2>5. CASE ReadsAll(e)
    BY <2>1, <2>2, <2>3, <2>5 DEF ReadsAll
  <2>6. CASE TriggersOne(e)
    <3>1. k \in kids[e]
      BY <2>1, <2>2, <2>6 DEF TriggersOne
    <3>2. Put(k, UpdateTaskNextRun(row[k], "active", "due"))
      BY <2>3, <2>6, <3>1 DEF TriggersOne
    <3>3. Present(row[k])
      BY <3>2 DEF Put, TypeOK, Present
    <3>4. QED BY <3>2, <3>3 DEF Put, TypeOK, Row, UpdateTaskNextRun
  <2>7. QED BY <2>4, <2>5, <2>6, StepAdvances DEF Advances
<1>3. QED BY <1>1, <1>2, UnbrokenStep, TypeCorrect, OwnershipHolds, PTL
          DEF Spec, TriggersNotLost

----------------------------------------------------------------------------
(* Exclusive execution.  It takes calm: nobody crashes or is cut short, no *)
(* call fails, no connection closes, every worker has its LISTEN, every    *)
(* trigger has a next run that is not long past, tasks stand for           *)
(* themselves and the user leaves them alone.  A message lost with the     *)
(* connection that was to read it leaves its task to the reaper, which may *)
(* recover it twice: there is no weaker condition on connections.          *)
(* Connections open, and any number of workers, connections, tasks and     *)
(* executions there may be.                                                *)
Calm ==
    /\ UserOps = {} /\ Faults = {}
    /\ Started = Worker /\ Worker # {}
    /\ \A t \in Task : /\ Parent[t] = NoTask
                       /\ NextRuns[t] # {} /\ NextRuns[t] \subseteq {"future", "due"}

(* An execution has its task in hand from the dispatch to the last write   *)
(* of the session that took the lock; what it does after that, and what    *)
(* the dispatcher of a failed attempt still writes, is nobody's claim.     *)
Works(e) ==
    \/ exec[e].pc = "dispatch" \/ Unlocked(e)
    \/ \E c \in Conn : session[e][c] \in {"sampling", "retrying", "giving_up"}

Holders(t) == {e \in Exec : Works(e) /\ TaskOf(e) = t}
Noticed(t) == \E w \in Worker : notices[t][w] > 0

(* A row in hand cannot be claimed: it is in processing, or the late write *)
(* of an earlier attempt has put it off, until nothing of it is under way. *)
Kept(r) == \/ r.status = "processing" /\ r.nextRun = "due"
           \/ r.status = "active" /\ r.nextRun = "later"

(* One notice or one execution has the task in hand; one that is in        *)
(* processing is in hand; and none becomes stale that would run again.     *)
OneNotice(t) == /\ \A w, v \in Worker : notices[t][w] > 0 /\ notices[t][v] > 0 => w = v
                /\ \A w \in Worker : notices[t][w] <= 1
OneHolder(t) == /\ \A e, f \in Holders(t) : e = f
                /\ Holders(t) # {} => ~Noticed(t)
RowKept(t)   == /\ Present(row[t])
                /\ Noticed(t) \/ Holders(t) # {} => Kept(row[t])
                /\ row[t].status = "processing" =>
                      \/ \E w \in Worker : row[t].lockedBy = w /\ notices[t][w] > 0
                      \/ Holders(t) # {}
                /\ row[t].nextRun = "stale" => row[t].status \notin {"active", "processing"}

InHand(t) == OneNotice(t) /\ OneHolder(t) /\ RowKept(t)

(* Without dependents an execution is over with its last write.            *)
Plain(e) ==
    /\ exec[e].pc \in {"idle", "dispatch", "backoff", "done"}
    /\ exec[e].pc # "idle" => TaskOf(e) \in Task
    /\ \A c \in Conn :
          /\ session[e][c] \in {"none", "got", "sampling", "retrying", "giving_up"}
          /\ session[e][c] # "none" => exec[e].pc = "done"
    /\ exec[e].pc \in {"idle", "dispatch"} => lock[e] = NoConn

(* Whoever is subscribed reads.                                            *)
AllRead == \A c \in Conn : connected[c] \notin {"leaving", "closing"}

CalmInv ==
    /\ Calm /\ TypeOK /\ Ownership /\ AllRead
    /\ \A w \in Worker : worker[w] = "up"
    /\ \A e \in Exec : Plain(e)
    /\ \A t \in Task : InHand(t)

----------------------------------------------------------------------------
(* How a step may change a row that is in hand, and leave one it lets go.  *)
KeepsRow(r, s) ==
    /\ Present(s)
    /\ \/ s.status = r.status /\ s.nextRun = r.nextRun /\ s.lockedBy = r.lockedBy
       \/ s.status = "active" /\ s.nextRun = "later"

EndsRow(s) == /\ s.status \in {"active", "paused", "completed", "error"}
              /\ s.status = "active" => s.nextRun # "stale"

(* A task whose holders and notices stay, stays in hand, ...               *)
LEMMA InHandKeeps ==
    ASSUME NEW t \in Task, InHand(t), KeepsRow(row[t], row'[t]),
           notices'[t] = notices[t], Holders(t)' = Holders(t)
    PROVE  InHand(t)'
<1>1. OneNotice(t)' /\ OneHolder(t)'
  BY DEF InHand, OneNotice, OneHolder, Noticed
<1>2. Noticed(t)' <=> Noticed(t)
  BY DEF Noticed
<1>3. QED BY <1>1, <1>2 DEF InHand, RowKept, KeepsRow, Kept, Present

(* ... and one whose only holder lets go is in none.                       *)
LEMMA InHandEnds ==
    ASSUME NEW t \in Task, InHand(t), EndsRow(row'[t]),
           notices'[t] = notices[t], Holders(t) # {}, Holders(t)' = {}
    PROVE  InHand(t)'
<1>1. ~Noticed(t) /\ ~Noticed(t)'
  BY DEF InHand, OneHolder, Noticed
<1>2. QED BY <1>1 DEF InHand, OneNotice, OneHolder, RowKept, EndsRow, Present

(* A step of one execution leaves the others as they are.                  *)
OnlyOf(e) == \A f \in Exec \ {e} :
    exec'[f] = exec[f] /\ session'[f] = session[f] /\ lock'[f] = lock[f]

(* A step of one execution takes or gives a task only by itself.           *)
LEMMA OtherHolders ==
    ASSUME NEW e \in Exec, OnlyOf(e), NEW t
    PROVE  /\ \A f \in Exec \ {e} : f \in Holders(t)' <=> f \in Holders(t)
           /\ e \in Holders(t)' <=> Works(e)' /\ TaskOf(e)' = t
           /\ e \in Holders(t) <=> Works(e) /\ TaskOf(e) = t
           /\ Holders(t) \subseteq Exec /\ Holders(t)' \subseteq Exec
  BY DEF OnlyOf, Holders, Works, Unlocked, TaskOf

(* Where no execution moves, nobody takes a task or lets it go.            *)
LEMMA SameHolders ==
    ASSUME UNCHANGED <<exec, session, lock>>, NEW t
    PROVE  Holders(t)' = Holders(t)
  BY DEF Holders, Works, Unlocked, TaskOf

(* A step of one execution leaves the others plain.                        *)
LEMMA PlainSame ==
    ASSUME NEW e \in Exec, NEW f \in Exec \ {e}, Plain(f), OnlyOf(e)
    PROVE  Plain(f)'
  BY DEF Plain, OnlyOf, TaskOf

(* The task of e stays in the hands it is in, ...                          *)
LEMMA ExecKeeps ==
    ASSUME CalmInv, NEW e \in Exec, OnlyOf(e), Works(e)' <=> Works(e), notices' = notices,
           Works(e) => TaskOf(e)' = TaskOf(e),
           NEW t \in Task, row'[t] = row[t] \/ KeepsRow(row[t], row'[t])
    PROVE  InHand(t)'
<1>1. InHand(t) /\ KeepsRow(row[t], row'[t])
  BY DEF CalmInv, InHand, RowKept, KeepsRow
<1>2. Holders(t)' = Holders(t)
  BY OtherHolders
<1>3. QED BY <1>1, <1>2, InHandKeeps

(* ... or e lets go of it.                                                 *)
LEMMA ExecEnds ==
    ASSUME CalmInv, NEW e \in Exec, OnlyOf(e), Works(e), ~Works(e)', notices' = notices,
           NEW t \in Task, t # TaskOf(e) => row'[t] = row[t],
           t = TaskOf(e) => EndsRow(row'[t])
    PROVE  InHand(t)'
<1>1. InHand(t)
  BY DEF CalmInv
<1>2. CASE t = TaskOf(e)
  <2>1. Holders(t) # {} /\ Holders(t)' = {}
    BY <1>1, <1>2, OtherHolders DEF InHand, OneHolder
  <2>2. QED BY <1>1, <1>2, <2>1, InHandEnds
<1>3. CASE t # TaskOf(e)
  <2>1. Holders(t)' = Holders(t)
    BY <1>3, OtherHolders
  <2>2. KeepsRow(row[t], row'[t])
    BY <1>1, <1>3 DEF InHand, RowKept, KeepsRow
  <2>3. QED BY <1>1, <2>1, <2>2, InHandKeeps
<1>4. QED BY <1>2, <1>3

----------------------------------------------------------------------------
(* Nothing depends on a task, so that its completion is the end.           *)
LEMMA NoChildren ==
    ASSUME Calm, NEW t \in Task
    PROVE  AfterCompletion(t) = "done"
<1>1. Children(t) = {}
  BY SchedulerAssumption DEF Calm, Children, ParentOf
<1>2. QED BY <1>1 DEF AfterCompletion

(* An update by id writes that row and no other.                           *)
LEMMA PutOnly ==
    ASSUME row \in [Task -> Row], NEW t \in Task, Present(row[t]), NEW r, Put(t, r)
    PROVE  row'[t] = r /\ \A u \in Task : u # t => row'[u] = row[u]
  BY DEF Put

(* A dispatcher that goes on keeps its task, and moves no other.           *)
LEMMA BecomesOnly ==
    ASSUME exec \in [Exec -> Job], NEW e \in Exec, NEW pc, Becomes(e, pc)
    PROVE  /\ exec'[e].pc = pc /\ TaskOf(e)' = TaskOf(e)
           /\ \A f \in Exec \ {e} : exec'[f] = exec[f]
  BY DEF Becomes, At, Idle, TaskOf

(* What is known of an execution that has its task in hand.                *)
LEMMA WorkFacts ==
    ASSUME CalmInv, NEW e \in Exec, Works(e)
    PROVE  /\ TaskOf(e) \in Task /\ row[TaskOf(e)] \in Row
           /\ Present(row[TaskOf(e)]) /\ Kept(row[TaskOf(e)])
           /\ exec[e].pc = "dispatch" =>
                 lock[e] = NoConn /\ \A c \in Conn : session[e][c] = "none"
<1>1. Plain(e) /\ TypeOK
  BY DEF CalmInv
<1>2. exec[e].pc # "idle"
  BY <1>1 DEF Works, Unlocked, Plain
<1>3. TaskOf(e) \in Task
  BY <1>1, <1>2 DEF Plain
<1>4. e \in Holders(TaskOf(e))
  BY DEF Holders
<1>5. Present(row[TaskOf(e)]) /\ Kept(row[TaskOf(e)])
  BY <1>3, <1>4 DEF CalmInv, InHand, RowKept
<1>6. exec[e].pc = "dispatch" => lock[e] = NoConn /\ \A c \in Conn : session[e][c] = "none"
  BY <1>1 DEF Plain
<1>7. QED BY <1>1, <1>3, <1>5, <1>6 DEF TypeOK

(* The dispatcher writes its task's row and has no more to do with it.     *)
LEMMA DispatcherLetsGo ==
    ASSUME CalmInv, NEW e \in Exec, exec[e].pc = "dispatch",
           NEW pc \in {"done", "backoff"}, Becomes(e, pc),
           UNCHANGED <<session, lock, notices>>,
           NEW r, Put(TaskOf(e), r), EndsRow(r)
    PROVE  (\A f \in Exec : Plain(f)') /\ \A t \in Task : InHand(t)'
<1>1. Works(e) /\ TypeOK
  BY DEF Works, CalmInv
<1>2. /\ exec'[e].pc = pc /\ TaskOf(e)' = TaskOf(e)
      /\ \A f \in Exec \ {e} : exec'[f] = exec[f]
  BY <1>1, BecomesOnly DEF TypeOK
<1>3. OnlyOf(e)
  BY <1>2 DEF OnlyOf
<1>4. TaskOf(e) \in Task /\ \A c \in Conn : session'[e][c] = "none"
  BY <1>1, WorkFacts
<1>5. ~Works(e)'
  BY <1>2, <1>4 DEF Works, Unlocked
<1>6. row'[TaskOf(e)] = r /\ \A u \in Task : u # TaskOf(e) => row'[u] = row[u]
  BY <1>1, WorkFacts, PutOnly DEF TypeOK
<1>7. \A t \in Task : InHand(t)'
  BY <1>1, <1>3, <1>5, <1>6, ExecEnds
<1>8. Plain(e)'
  BY <1>2, <1>4 DEF Plain
<1>9. QED BY <1>3, <1>7, <1>8, PlainSame DEF CalmInv

(* A failed attempt leaves the row active or in error, as due as it was.   *)
LEMMA AttemptEnds ==
    ASSUME CalmInv, NEW e \in Exec, exec[e].pc = "dispatch", CountAttempt(e)
    PROVE  \E pc \in {"done", "backoff"}, r \in Row :
              Becomes(e, pc) /\ Put(TaskOf(e), r) /\ EndsRow(r)
<1> DEFINE t == TaskOf(e)
           failures == Saturate(exec[e].failures + 1, FailureLimit)
           retries  == Saturate(exec[e].retries + 1, MaxRetries + 1)
           status   == IF retries > MaxRetries THEN "error" ELSE "active"
           r == UpdateTaskStatusAndFailureCount(row[t], status, failures, retries)
<1>1. row[t] \in Row /\ Kept(row[t])
  BY WorkFacts DEF Works
<1>2. exec[e].failures \in Nat /\ exec[e].retries \in Nat
  BY Bounds DEF CalmInv, TypeOK, Job, Failures, Retries
<1>3. failures \in Failures /\ retries \in Retries
  <2>1. /\ exec[e].failures + 1 \in Nat /\ FailureLimit \in Nat
        /\ exec[e].retries + 1 \in Nat /\ MaxRetries + 1 \in Nat
    BY <1>2, Bounds
  <2>2. failures \in 0 .. FailureLimit /\ retries \in 0 .. MaxRetries + 1
    BY <2>1, SaturateBound
  <2>3. QED BY <2>2 DEF Failures, Retries
<1>4. Put(t, r) /\ Becomes(e, IF retries > MaxRetries THEN "done" ELSE "backoff")
  BY DEF CountAttempt, CalmInv, Calm
<1>5. status \in {"active", "error"}
  OBVIOUS
<1> HIDE DEF failures, retries
<1>6. r \in Row
  BY <1>1, <1>3, <1>5, CountFrees
<1>7. r.status = status /\ r.nextRun = row[t].nextRun
  BY <1>1 DEF UpdateTaskStatusAndFailureCount, Row
<1>8. EndsRow(r)
  BY <1>1, <1>5, <1>7 DEF EndsRow, Kept
<1> HIDE DEF r
<1>9. QED BY <1>4, <1>6, <1>8

(* Every statement with which an execution ends its work does so.          *)
LEMMA EndingRows ==
    ASSUME NEW r \in Row, Kept(r)
    PROVE  /\ EndsRow(UpdateTaskApprovalStatus(r, "pending", "paused"))
           /\ \A next \in {"future", "due"} : EndsRow(UpdateTaskNextRun(r, "active", next))
           /\ \A gated \in BOOLEAN, next \in {"future", "due"}, status \in {"active", "completed"} :
                 EndsRow(CompleteTask(r, gated, status, next))
           /\ \A status \in {"active", "paused", "error"} : EndsRow(UpdateTaskStatus(r, status))
<1>1. EndsRow(UpdateTaskApprovalStatus(r, "pending", "paused"))
  BY DEF EndsRow, Row, UpdateTaskApprovalStatus
<1>2. ASSUME NEW next \in {"future", "due"}
      PROVE  EndsRow(UpdateTaskNextRun(r, "active", next))
  BY DEF EndsRow, Row, UpdateTaskNextRun
<1>3. ASSUME NEW gated \in BOOLEAN, NEW next \in {"future", "due"},
             NEW status \in {"active", "completed"}
      PROVE  EndsRow(CompleteTask(r, gated, status, next))
  <2>1. /\ CompleteTask(r, gated, status, next).status = status
        /\ CompleteTask(r, gated, status, next).nextRun = next
    BY DEF Row, CompleteTask
  <2>2. QED BY <2>1 DEF EndsRow
<1>4. ASSUME NEW status \in {"active", "paused", "error"}
      PROVE  EndsRow(UpdateTaskStatus(r, status))
  BY DEF EndsRow, Kept, Row, UpdateTaskStatus
<1>5. QED BY <1>1, <1>2, <1>3, <1>4

(* All steps of a dispatcher.                                              *)
LEMMA CalmDispatch ==
    ASSUME CalmInv, NEW e \in Exec, DispatchStep(e)
    PROVE  (\A f \in Exec : Plain(f)') /\ \A t \in Task : InHand(t)'
<1> DEFINE t == TaskOf(e)
           Goal == (\A f \in Exec : Plain(f)') /\ \A u \in Task : InHand(u)'
<1>0. /\ Plain(e) /\ TypeOK /\ Calm
      /\ exec[e].pc = "dispatch" =>
            t \in Task /\ row[t] \in Row /\ Kept(row[t])
  BY WorkFacts DEF CalmInv, Works
<1>1. ASSUME exec[e].pc = "dispatch", UNCHANGED <<session, lock, notices>>,
             NEW pc \in {"done", "backoff"}, Becomes(e, pc), NEW r, Put(t, r), EndsRow(r)
      PROVE  Goal
  BY <1>1, DispatcherLetsGo
<1>2. ASSUME exec[e].pc = "dispatch", UNCHANGED <<session, lock, notices>>,
             NEW next \in CalculatedNextRun(t), Complete(t, "active", next),
             Becomes(e, AfterCompletion(t))
      PROVE  Goal
  <2>1. t \in Task /\ row[t] \in Row /\ Kept(row[t])
    BY <1>0, <1>2
  <2>2. next \in {"future", "due"} /\ (t \in Gated) \in BOOLEAN
    BY <1>0, <1>2, <2>1 DEF CalculatedNextRun, Calm
  <2>3. EndsRow(CompleteTask(row[t], t \in Gated, "active", next))
    BY <2>1, <2>2, EndingRows
  <2>4. Becomes(e, "done")
    BY <1>0, <1>2, <2>1, NoChildren
  <2> HIDE DEF t
  <2>5. QED BY <1>1, <1>2, <2>3, <2>4 DEF Complete
<1>3. CASE AskApproval(e)
  <2>1. EndsRow(UpdateTaskApprovalStatus(row[t], "pending", "paused"))
    BY <1>0, <1>3, EndingRows DEF AskApproval
  <2>2. QED BY <1>1, <1>3, <2>1 DEF AskApproval
<1>4. CASE Missed(e)
  <2>1. exec[e].pc = "dispatch" /\ UNCHANGED <<session, lock, notices>>
    BY <1>4 DEF Missed
  <2>2. EndsRow(UpdateTaskNextRun(row[t], "active", "future"))
    BY <1>0, <2>1, EndingRows
  <2>3. CalculatedNextRun(t) # {}
    BY <1>0, <2>1 DEF CalculatedNextRun, Calm
  <2>4. \/ Put(t, UpdateTaskNextRun(row[t], "active", "future")) /\ Becomes(e, "done")
        \/ /\ \E next \in CalculatedNextRun(t) : Complete(t, "active", next)
           /\ Becomes(e, AfterCompletion(t))
    BY <1>4, <2>3 DEF Missed
  <2> HIDE DEF t
  <2>5. QED BY <1>1, <1>2, <2>1, <2>2, <2>4
<1>5. CASE NativeSucceeds(e)
  <2>1. exec[e].pc = "dispatch" /\ UNCHANGED <<session, lock, notices>>
    BY <1>5 DEF NativeSucceeds, RunsNative
  <2>2. CalculatedNextRun(t) # {}
    BY <1>0, <2>1 DEF CalculatedNextRun, Calm
  <2>3. /\ \E next \in CalculatedNextRun(t) : Complete(t, "active", next)
        /\ Becomes(e, AfterCompletion(t))
    BY <1>5, <2>2 DEF NativeSucceeds
  <2> HIDE DEF t
  <2>4. QED BY <1>2, <2>1, <2>3
<1>6. CASE NativeFails(e) \/ DeliveryFails(e)
  <2>1. exec[e].pc = "dispatch" /\ UNCHANGED <<session, lock, notices>> /\ CountAttempt(e)
    BY <1>0, <1>6 DEF NativeFails, RunsNative, DeliveryFails, MayPublish, Calm
  <2>2. \E pc \in {"done", "backoff"}, r \in Row :
           Becomes(e, pc) /\ Put(t, r) /\ EndsRow(r)
    BY <2>1, AttemptEnds
  <2> HIDE DEF t
  <2>3. QED BY <1>1, <2>1, <2>2
<1>7. CASE BackOff(e) \/ Publish(e)
  <2>1. \E pc \in {"done"} : Becomes(e, pc)
    BY <1>7 DEF BackOff, Publish
  <2>2. /\ exec'[e].pc = "done" /\ TaskOf(e)' = t
        /\ \A f \in Exec \ {e} : exec'[f] = exec[f]
    BY <1>0, <2>1, BecomesOnly DEF TypeOK
  <2>3. /\ OnlyOf(e) /\ UNCHANGED <<lock, notices>> /\ t \in Task
        /\ exec[e].pc \in {"backoff", "dispatch"}
        /\ \A c \in Conn : session[e][c] = "none"
    <3>1. exec[e].pc \in {"backoff", "dispatch"} /\ UNCHANGED <<lock, notices>>
      BY <1>7 DEF BackOff, Publish, MayPublish, store
    <3>2. \A f \in Exec \ {e} : session'[f] = session[f]
      BY <1>0, <1>7 DEF BackOff, Publish, Deliver, TypeOK
    <3>3. t \in Task /\ \A c \in Conn : session[e][c] = "none"
      BY <1>0, <3>1 DEF Plain
    <3>4. QED BY <2>2, <3>1, <3>2, <3>3 DEF OnlyOf
  <2>4. Plain(e)'
    BY <1>0, <1>7, <2>2, <2>3 DEF Plain, BackOff, Publish, Deliver, TypeOK
  <2>5. Works(e)' <=> Works(e)
    <3>1. CASE BackOff(e)
      BY <2>2, <2>3, <3>1 DEF Works, Unlocked, BackOff
    <3>2. CASE Publish(e)
      <4>1. exec[e].pc = "dispatch" /\ lock[e] = NoConn
        BY <1>0, <3>2 DEF Publish, MayPublish, Plain
      <4>2. PICK c \in Conn : c \in Readers
        BY <3>2 DEF Publish, Subscribers, Readers, CalmInv, AllRead
      <4>3. session'[e][c] = "got"
        BY <1>0, <3>2, <4>2 DEF Publish, Deliver, TypeOK
      <4>4. QED BY <2>3, <4>1, <4>3 DEF Works, Unlocked
    <3>3. QED BY <1>7, <3>1, <3>2
  <2>6. \A u \in Task : row'[u] = row[u] \/ KeepsRow(row[u], row'[u])
    <3>1. CASE BackOff(e)
      <4>1. Present(row[t]) /\ row[t] \in Row
        BY <1>0, <2>3 DEF CalmInv, InHand, RowKept, TypeOK
      <4>2. KeepsRow(row[t], UpdateTaskNextRun(row[t], "active", "later"))
        BY <4>1 DEF KeepsRow, UpdateTaskNextRun, Row, Present
      <4>3. row \in [Task -> Row] /\ Put(t, UpdateTaskNextRun(row[t], "active", "later"))
        BY <1>0, <3>1 DEF TypeOK, BackOff
      <4> HIDE DEF t
      <4>4. QED BY <2>3, <4>1, <4>2, <4>3, PutOnly
    <3>2. CASE Publish(e)
      BY <3>2 DEF Publish, store
    <3>3. QED BY <1>7, <3>1, <3>2
  <2>7. QED BY <2>2, <2>3, <2>4, <2>5, <2>6, ExecKeeps, PlainSame DEF CalmInv
<1>8. ~DispatchDependents(e)
  BY <1>0 DEF DispatchDependents, Plain
<1>9. QED BY <1>3, <1>4, <1>5, <1>6, <1>7, <1>8 DEF DispatchStep

(* The session that took the lock writes the row and ends.                 *)
LEMMA SessionLetsGo ==
    ASSUME CalmInv, NEW e \in Exec, NEW c \in Conn,
           session[e][c] \in {"sampling", "retrying", "giving_up"}, Goes(e, c, "none"),
           UNCHANGED <<exec, lock, notices>>, NEW r, Put(TaskOf(e), r), EndsRow(r)
    PROVE  (\A f \in Exec : Plain(f)') /\ \A t \in Task : InHand(t)'
<1>1. Works(e) /\ TypeOK /\ Plain(e) /\ Owned(e)
  BY DEF Works, CalmInv, Ownership
<1>2. /\ session'[e][c] = "none"
      /\ \A d \in Conn : d # c => session'[e][d] = session[e][d]
      /\ \A f \in Exec \ {e} : session'[f] = session[f]
  BY <1>1 DEF Goes, TypeOK
<1>3. OnlyOf(e) /\ TaskOf(e)' = TaskOf(e)
  BY <1>2 DEF OnlyOf, TaskOf
<1>4. lock[e] = c /\ exec[e].pc = "done"
  BY <1>1 DEF Owned, Plain
<1>5. \A d \in Conn : session'[e][d] \notin {"sampling", "retrying", "giving_up"}
  BY <1>1, <1>2, <1>4 DEF Owned
<1>6. ~Works(e)'
  BY <1>4, <1>5, SchedulerAssumption DEF Works, Unlocked
<1>7. row'[TaskOf(e)] = r /\ \A u \in Task : u # TaskOf(e) => row'[u] = row[u]
  BY <1>1, WorkFacts, PutOnly DEF TypeOK
<1>8. \A t \in Task : InHand(t)'
  BY <1>1, <1>3, <1>6, <1>7, ExecEnds
<1>9. Plain(e)'
  BY <1>1, <1>2, <1>3, <1>4 DEF Plain
<1>10. QED BY <1>3, <1>8, <1>9, PlainSame DEF CalmInv

(* All steps of a session.                                                 *)
LEMMA CalmSession ==
    ASSUME CalmInv, NEW e \in Exec, NEW c \in Conn, SessionStep(e, c)
    PROVE  (\A f \in Exec : Plain(f)') /\ \A t \in Task : InHand(t)'
<1> DEFINE t == TaskOf(e)
<1>0. Plain(e) /\ TypeOK /\ Calm /\ Owned(e) /\ \A d \in Conn : d # NoConn
  BY SchedulerAssumption DEF CalmInv, Ownership
<1>1. session[e][c] # "none"
  BY DEF SessionStep, TakeLock, LoseLock, SampleSucceeds, SampleFails, SettleFailure,
         SessionDependents
<1>2. t \in Task /\ row[t] \in Row /\ Present(row[t]) /\ exec[e].pc = "done"
      /\ row \in [Task -> Row]
  BY <1>0, <1>1 DEF Plain, CalmInv, InHand, RowKept, TypeOK
<1>3. session[e][c] \in {"sampling", "retrying", "giving_up"} => Kept(row[t])
  BY WorkFacts DEF Works
<1>4. UNCHANGED <<exec, notices>>
  BY DEF SessionStep, TakeLock, LoseLock, SampleSucceeds, SampleFails, SettleFailure,
         SessionDependents, store
<1>5. ASSUME NEW st \in {"none", "sampling", "retrying", "giving_up"}, Goes(e, c, st),
             \A f \in Exec \ {e} : lock'[f] = lock[f], Works(e)' <=> Works(e),
             \A u \in Task : row'[u] = row[u] \/ KeepsRow(row[u], row'[u])
      PROVE  (\A f \in Exec : Plain(f)') /\ \A u \in Task : InHand(u)'
  <2>1. OnlyOf(e) /\ TaskOf(e)' = TaskOf(e)
    BY <1>0, <1>4, <1>5 DEF OnlyOf, TaskOf, Goes, TypeOK
  <2>2. \A d \in Conn : session'[e][d] \in {st, session[e][d]}
    BY <1>0, <1>5 DEF Goes, TypeOK
  <2>3. Plain(e)'
    BY <1>0, <1>2, <1>4, <2>1, <2>2 DEF Plain
  <2>4. \A u \in Task : InHand(u)'
    BY <1>4, <1>5, <2>1, ExecKeeps
  <2>5. QED BY <2>1, <2>3, <2>4, PlainSame DEF CalmInv
<1>6. CASE TakeLock(e, c)
  <2>1. lock[e] = NoConn /\ session[e][c] = "got" /\ lock' = [lock EXCEPT ![e] = c]
        /\ Goes(e, c, "sampling") /\ row' = row
    BY <1>6 DEF TakeLock, SetNX, store
  <2>2. Works(e)
    BY <2>1 DEF Works, Unlocked
  <2>3. session'[e][c] = "sampling" /\ \A f \in Exec \ {e} : lock'[f] = lock[f]
    BY <1>0, <2>1 DEF Goes, TypeOK
  <2>4. Works(e)'
    BY <2>3 DEF Works
  <2>5. QED BY <1>5, <2>1, <2>2, <2>3, <2>4
<1>7. CASE LoseLock(e, c)
  <2>1. /\ lock[e] # NoConn /\ lock' = lock /\ session[e][c] = "got"
        /\ Goes(e, c, "none") /\ row' = row
    BY <1>0, <1>2, <1>7 DEF LoseLock, SetNX, store, Calm
  <2>2. \A d \in Conn : session'[e][d] = IF d = c THEN "none" ELSE session[e][d]
    BY <1>0, <2>1 DEF Goes, TypeOK
  <2>3. Works(e)' <=> Works(e)
    BY <1>4, <2>1, <2>2 DEF Works, Unlocked
  <2>4. QED BY <1>5, <2>1, <2>3
<1>8. CASE SampleSucceeds(e, c)
  <2>1. session[e][c] = "sampling" /\ lock' = lock
    BY <1>8 DEF SampleSucceeds
  <2>2. AfterCompletion(t) = "done" /\ NextRuns[t] \subseteq {"future", "due"}
        /\ (t \in Gated) \in BOOLEAN
    BY <1>0, <1>2, NoChildren DEF Calm
  <2>3. /\ \E r : Put(t, r) /\ EndsRow(r)
        /\ Goes(e, c, "none")
    <3>1. \A status \in {"active", "completed"}, next \in {"future", "due"} :
             EndsRow(CompleteTask(row[t], t \in Gated, status, next))
      BY <1>2, <1>3, <2>1, <2>2, EndingRows
    <3>2. EndsRow(UpdateTaskStatus(row[t], "paused"))
      BY <1>2, <1>3, <2>1, EndingRows
    <3>3. Goes(e, c, "none")
      BY <1>8, <2>2 DEF SampleSucceeds
    <3>4. \/ \E status \in {"active", "completed"}, next \in {"future", "due"} :
                Put(t, CompleteTask(row[t], t \in Gated, status, next))
          \/ Put(t, UpdateTaskStatus(row[t], "paused"))
      BY <1>8, <2>2 DEF SampleSucceeds, Complete, CalculatedNextRun
    <3> HIDE DEF t
    <3>5. QED BY <3>1, <3>2, <3>3, <3>4
  <2>4. QED BY <1>4, <2>1, <2>3, SessionLetsGo
<1>9. CASE SampleFails(e, c)
  <2>1. \E st \in {"retrying", "giving_up"} : Goes(e, c, st)
    BY <1>9 DEF SampleFails
  <2>2. PICK st \in {"retrying", "giving_up"} : Goes(e, c, st)
    BY <2>1
  <2>3. session[e][c] = "sampling" /\ lock' = lock /\ session'[e][c] = st
    BY <1>0, <1>9, <2>2 DEF SampleFails, Goes, TypeOK
  <2>4. Works(e) /\ Works(e)'
    BY <2>2, <2>3 DEF Works
  <2>5. Put(t, IncrementTaskFailureCount(row[t]))
    BY <1>0, <1>9 DEF SampleFails, Calm
  <2>6. KeepsRow(row[t], IncrementTaskFailureCount(row[t]))
    BY <1>2 DEF KeepsRow, IncrementTaskFailureCount, Row, Present
  <2>7. \A u \in Task : row'[u] = row[u] \/ KeepsRow(row[u], row'[u])
    BY <1>2, <2>5, <2>6, PutOnly
  <2>8. QED BY <1>5, <2>2, <2>3, <2>4, <2>7
<1>10. CASE SettleFailure(e, c)
  <2>1. /\ session[e][c] \in {"giving_up", "retrying"} /\ Goes(e, c, "none") /\ lock' = lock
        /\ \E status \in {"active", "error"} : Put(t, UpdateTaskStatus(row[t], status))
    BY <1>10 DEF SettleFailure
  <2>2. \A status \in {"active", "error"} : EndsRow(UpdateTaskStatus(row[t], status))
    BY <1>2, <1>3, <2>1, EndingRows
  <2>3. QED BY <1>4, <2>1, <2>2, SessionLetsGo
<1>11. ~SessionDependents(e, c)
  BY <1>0 DEF SessionDependents, Plain
<1>12. QED BY <1>6, <1>7, <1>8, <1>9, <1>10, <1>11 DEF SessionStep

(* A slot that is used up had no task in hand.                             *)
LEMMA CalmRetire ==
    ASSUME CalmInv, NEW e \in Exec, Retire(e)
    PROVE  (\A f \in Exec : Plain(f)') /\ \A t \in Task : InHand(t)'
<1>0. TypeOK /\ \A c \in Conn : session[e][c] = "none"
  BY DEF CalmInv, Retire, Busy
<1>1. /\ exec' = [exec EXCEPT ![e] = Idle] /\ lock' = [lock EXCEPT ![e] = NoConn]
      /\ UNCHANGED <<row, notices, session>> /\ exec[e].pc = "done"
  BY DEF Retire, store
<1>2. exec'[e] = Idle /\ lock'[e] = NoConn /\ OnlyOf(e)
  BY <1>0, <1>1 DEF OnlyOf, TypeOK
<1>3. ~Works(e) /\ ~Works(e)'
  BY <1>0, <1>1, <1>2 DEF Works, Unlocked, Idle
<1>4. Plain(e)'
  BY <1>0, <1>1, <1>2 DEF Plain, Idle
<1>5. \A t \in Task : InHand(t)'
  BY <1>1, <1>2, <1>3, ExecKeeps
<1>6. QED BY <1>2, <1>4, <1>5, PlainSame DEF CalmInv

(* The notices of one task to one worker go down by one.                   *)
LEMMA NoticeTaken ==
    ASSUME TypeOK, NEW t \in Task, NEW w \in Worker, OneNotice(t), TakeNotice(t, w),
           notices[t][w] > 0
    PROVE  /\ \A v \in Worker : notices'[t][v] = 0
           /\ \A u \in Task : u # t => notices'[u] = notices[u]
<1>1. notices \in [Task -> [Worker -> Nat]]
  BY SchedulerAssumption DEF TypeOK
<1>2. \A v \in Worker : notices[t][v] \in Nat
  BY <1>1
<1>3. notices[t][w] = 1 /\ \A v \in Worker : v # w => notices[t][v] = 0
  BY <1>2 DEF OneNotice
<1>4. notices' = [notices EXCEPT ![t][w] = notices[t][w] - 1]
  BY DEF TakeNotice
<1>5. notices'[t][w] = 0 /\ \A v \in Worker : v # w => notices'[t][v] = notices[t][v]
  BY <1>1, <1>3, <1>4
<1>6. QED BY <1>1, <1>3, <1>4, <1>5

(* The notice becomes an execution: what was in hand remains so.           *)
LEMMA CalmLoad ==
    ASSUME CalmInv, NEW e \in Exec, NEW t \in Task, NEW w \in Worker, Load(e, t, w)
    PROVE  (\A f \in Exec : Plain(f)') /\ \A u \in Task : InHand(u)'
<1>0. TypeOK /\ Plain(e) /\ InHand(t)
  BY DEF CalmInv
<1>1. /\ notices[t][w] > 0 /\ TakeNotice(t, w) /\ exec[e].pc = "idle" /\ ~Busy(e)
      /\ UNCHANGED <<row, session, lock>>
  BY DEF Load
<1>2. /\ exec'[e].pc = "dispatch" /\ TaskOf(e)' = t
      /\ \A f \in Exec \ {e} : exec'[f] = exec[f]
  BY <1>0 DEF Load, TypeOK, TaskOf
<1>3. OnlyOf(e) /\ lock'[e] = NoConn /\ \A c \in Conn : session'[e][c] = "none"
  BY <1>0, <1>1, <1>2 DEF OnlyOf, Plain, Busy
<1>4. Plain(e)'
  BY <1>2, <1>3 DEF Plain
<1>5. ~Works(e) /\ Works(e)'
  BY <1>1, <1>2, <1>3 DEF Works, Unlocked, Busy
<1>6. /\ \A v \in Worker : notices'[t][v] = 0
      /\ \A u \in Task : u # t => notices'[u] = notices[u]
  BY <1>0, <1>1, NoticeTaken DEF InHand
<1>7. InHand(t)'
  <2>1. Noticed(t) /\ Holders(t) = {} /\ Kept(row[t]) /\ row[t] \in Row
    BY <1>0, <1>1 DEF InHand, OneHolder, RowKept, Noticed, TypeOK
  <2>2. Holders(t)' = {e}
    BY <1>2, <1>3, <1>5, <2>1, OtherHolders
  <2>3. ~Noticed(t)' /\ OneNotice(t)'
    BY <1>6 DEF Noticed, OneNotice
  <2>4. OneHolder(t)'
    BY <2>2, <2>3 DEF OneHolder
  <2>5. RowKept(t)'
    BY <1>0, <1>1, <2>1, <2>2 DEF RowKept, InHand
  <2>6. QED BY <2>3, <2>4, <2>5 DEF InHand
<1>8. ASSUME NEW u \in Task, u # t PROVE InHand(u)'
  <2>1. Holders(u)' = Holders(u)
    BY <1>2, <1>3, <1>5, <1>8, OtherHolders
  <2>2. InHand(u) /\ KeepsRow(row[u], row'[u]) /\ notices'[u] = notices[u]
    BY <1>1, <1>6, <1>8 DEF CalmInv, InHand, RowKept, KeepsRow
  <2>3. QED BY <2>1, <2>2, InHandKeeps
<1>9. QED BY <1>3, <1>4, <1>7, <1>8, PlainSame DEF CalmInv

(* A notice is skipped only for a row that was put off meanwhile.          *)
LEMMA CalmSkip ==
    ASSUME CalmInv, NEW t \in Task, NEW w \in Worker, SkipNotice(t, w)
    PROVE  (\A f \in Exec : Plain(f)') /\ \A u \in Task : InHand(u)'
<1>0. TypeOK /\ InHand(t)
  BY DEF CalmInv
<1>1. /\ notices[t][w] > 0 /\ TakeNotice(t, w) /\ ~Dispatchable(row[t], w)
      /\ UNCHANGED <<row, exec, session, lock>>
  BY DEF SkipNotice, live
<1>2. \A u \in Task : Holders(u)' = Holders(u)
  BY <1>1, SameHolders
<1>3. \A f \in Exec : Plain(f)'
  BY <1>1 DEF CalmInv, Plain, TaskOf
<1>4. /\ \A v \in Worker : notices'[t][v] = 0
      /\ \A u \in Task : u # t => notices'[u] = notices[u]
  BY <1>0, <1>1, NoticeTaken DEF InHand
<1>5. InHand(t)'
  <2>1. Noticed(t) /\ Holders(t)' = {} /\ row[t] \in Row /\ row'[t] = row[t]
    BY <1>0, <1>1, <1>2 DEF InHand, OneHolder, Noticed, TypeOK
  <2>2. row[t].status # "processing"
    <3> SUFFICES ASSUME row[t].status = "processing" PROVE FALSE
      OBVIOUS
    <3>1. row[t].lockedBy # w
      BY <1>1 DEF Dispatchable
    <3>2. Holders(t) = {}
      BY <1>2, <2>1
    <3>3. \E v \in Worker : row[t].lockedBy = v /\ notices[t][v] > 0
      BY <1>0, <3>2 DEF InHand, RowKept
    <3>4. QED BY <1>0, <1>1, <3>1, <3>3 DEF InHand, OneNotice
  <2>3. ~Noticed(t)' /\ OneNotice(t)'
    BY <1>4 DEF Noticed, OneNotice
  <2>4. QED BY <1>0, <2>1, <2>2, <2>3 DEF InHand, OneHolder, RowKept
<1>6. ASSUME NEW u \in Task, u # t PROVE InHand(u)'
  <2>1. InHand(u) /\ KeepsRow(row[u], row'[u]) /\ notices'[u] = notices[u]
    BY <1>1, <1>4, <1>6 DEF CalmInv, InHand, RowKept, KeepsRow
  <2>2. QED BY <1>2, <2>1, InHandKeeps
<1>7. QED BY <1>3, <1>5, <1>6

(* A claim takes free tasks, and each of them gets its notice.             *)
LEMMA CalmClaim ==
    ASSUME CalmInv, NEW w \in Worker, NEW S \in SUBSET Task, Claim(w, S)
    PROVE  (\A f \in Exec : Plain(f)') /\ \A u \in Task : InHand(u)'
<1>0. TypeOK /\ worker[w] = "up" /\ notices \in [Task -> [Worker -> Nat]]
  BY SchedulerAssumption DEF CalmInv, TypeOK
<1>1. UNCHANGED <<exec, session, lock>>
  BY DEF Claim, live
<1>2. \A u \in Task : Holders(u)' = Holders(u)
  BY <1>1, SameHolders
<1>3. \A f \in Exec : Plain(f)'
  BY <1>1 DEF CalmInv, Plain, TaskOf
<1>4. ASSUME NEW u \in Task PROVE InHand(u)'
  <2>0. InHand(u)
    BY DEF CalmInv
  <2>1. CASE u \notin S
    <3>1. row'[u] = row[u] /\ notices'[u] = notices[u]
      BY <2>1 DEF Claim
    <3>2. KeepsRow(row[u], row'[u])
      BY <2>0, <3>1 DEF KeepsRow, InHand, RowKept
    <3>3. QED BY <1>2, <2>0, <3>1, <3>2, InHandKeeps
  <2>2. CASE u \in S
    <3>1. /\ Due(row[u]) /\ row[u] \in Row /\ row'[u] = ClaimTask(row[u], w)
          /\ notices'[u] = [notices[u] EXCEPT ![w] = @ + 1]
      BY <1>0, <2>2 DEF Claim, Claimable, TypeOK
    <3>2. /\ row[u].nextRun = "due" /\ ~Noticed(u) /\ Holders(u) = {}
      BY <2>0, <3>1 DEF Due, InHand, RowKept, Kept
    <3>3. notices[u] \in [Worker -> Nat] /\ \A v \in Worker : notices[u][v] = 0
      BY <1>0, <3>2 DEF Noticed
    <3>4. \A v \in Worker : notices'[u][v] = IF v = w THEN 1 ELSE 0
      BY <3>1, <3>3
    <3>5. /\ row'[u].status = "processing" /\ row'[u].lockedBy = w
          /\ row'[u].nextRun = "due"
      BY <3>1, <3>2 DEF ClaimTask, Row
    <3>6. OneNotice(u)'
      BY <3>4 DEF OneNotice
    <3>7. OneHolder(u)'
      BY <1>2, <3>2 DEF OneHolder
    <3>8. RowKept(u)'
      BY <3>4, <3>5 DEF RowKept, Kept, Present
    <3>9. QED BY <3>6, <3>7, <3>8 DEF InHand
  <2>3. QED BY <2>1, <2>2
<1>5. QED BY <1>3, <1>4

(* Time passes for a task that is in hand only once that is over, and a    *)
(* task that waits for a worker is taken before it is long past.           *)
LEMMA CalmTask ==
    ASSUME CalmInv, NEW t \in Task, TaskStep(t)
    PROVE  (\A f \in Exec : Plain(f)') /\ \A u \in Task : InHand(u)'
<1>0. TypeOK /\ InHand(t) /\ Calm /\ row[t] \in Row
  BY DEF CalmInv, TypeOK
<1>1. ~UserStep(t)
  BY <1>0 DEF UserStep, Pause, Resume, ResumeMCP, Approve, Deny, DeleteTask, UserSets, Calm
<1>2. ~Reap(t)
  BY <1>0 DEF Reap, Stuck, InHand, RowKept
<1>3. Age(t)
  BY <1>1, <1>2 DEF TaskStep
<1>4. UNCHANGED <<notices, exec, session, lock>>
  BY <1>3 DEF Age, live
<1>5. \A u \in Task : Holders(u)' = Holders(u)
  BY <1>4, SameHolders
<1>6. \A f \in Exec : Plain(f)'
  BY <1>4 DEF CalmInv, Plain, TaskOf
<1>7. ASSUME NEW u \in Task, u # t PROVE InHand(u)'
  <2>1. row'[u] = row[u]
    BY <1>0, <1>3, <1>7 DEF Age, TypeOK
  <2>2. InHand(u) /\ KeepsRow(row[u], row'[u])
    BY <2>1 DEF CalmInv, InHand, RowKept, KeepsRow
  <2>3. QED BY <1>4, <1>5, <2>2, InHandKeeps
<1>8. InHand(t)'
  <2>1. PICK next \in {"due", "stale"} :
           /\ row' = [row EXCEPT ![t].nextRun = next]
           /\ \/ row[t].nextRun = "future" /\ next = "due"
              \/ row[t].nextRun = "later" /\ ~UnderWay(t) /\ next = "due"
              \/ row[t].nextRun = "due" /\ ~UnderWay(t) /\ ~Awaited(t) /\ next = "stale"
    BY <1>3 DEF Age
  <2>2. /\ row'[t].nextRun = next /\ row'[t].status = row[t].status
        /\ row'[t].lockedBy = row[t].lockedBy
    BY <1>0, <2>1 DEF Row, TypeOK
  <2>3. Noticed(t) \/ Holders(t) # {} => UnderWay(t)
    BY DEF Noticed, Holders, UnderWay, ConcernedWith, Works, Unlocked, Busy, InDispatch,
           Dispatch, TaskOf
  <2>4. ~Noticed(t) /\ Holders(t) = {}
    BY <1>0, <2>1, <2>3 DEF InHand, RowKept, Kept
  <2>5. row[t].status # "processing"
    BY <1>0, <2>4 DEF InHand, RowKept, Noticed
  <2>6. next = "stale" => row[t].status # "active"
    <3> SUFFICES ASSUME next = "stale", row[t].status = "active" PROVE FALSE
      OBVIOUS
    <3>1. row[t].nextRun = "due" /\ ~Awaited(t)
      BY <2>1
    <3>2. ParentOf(t) = NoTask
      BY <1>0 DEF ParentOf, Calm
    <3>3. Claimable(t)
      BY <3>1, <3>2 DEF Claimable, Due
    <3>4. \E w \in Worker : Running(w)
      BY <1>0 DEF CalmInv, Calm, Running
    <3>5. QED BY <3>1, <3>3, <3>4 DEF Awaited
  <2>7. ~Noticed(t)' /\ Holders(t)' = {} /\ OneNotice(t)'
    BY <1>0, <1>4, <1>5, <2>4 DEF Noticed, InHand, OneNotice
  <2>8. QED BY <1>0, <2>2, <2>5, <2>6, <2>7 DEF InHand, OneHolder, RowKept, Present
<1>9. QED BY <1>6, <1>7, <1>8

(* No worker ever leaves the state it started in.                          *)
LEMMA CalmWorkers ==
    ASSUME CalmInv, NEW w \in Worker
    PROVE  ~WorkerStep(w)
  BY DEF CalmInv, Calm, WorkerStep, StartWorker, Listen, LoseListener, Crash, Drain, Revert, Exit

(* Connections open, and are read from.                                    *)
LEMMA CalmConn ==
    ASSUME CalmInv, (\E c \in Conn : ConnStep(c)) \/ Expire
    PROVE  UNCHANGED <<store, live, worker>> /\ AllRead'
<1>1. CASE Expire
  BY <1>1 DEF Expire, CalmInv, AllRead
<1>2. ASSUME NEW c \in Conn, ConnStep(c)
      PROVE  UNCHANGED <<store, live, worker>> /\ AllRead'
  <2>1. Connect(c) \/ Subscribe(c) \/ Heartbeat(c)
    BY <1>2 DEF ConnStep, Unsubscribe, Leave, RemoveUser, Close, CalmInv, Calm, AllRead
  <2>2. connected' = connected \/ \E st \in {"joining", "on"} : SetConn(c, st)
    BY <2>1 DEF Connect, Subscribe, Heartbeat
  <2>3. AllRead'
    BY <2>2 DEF SetConn, CalmInv, AllRead, TypeOK
  <2>4. QED BY <2>1, <2>3 DEF Connect, Subscribe, Heartbeat
<1>3. QED BY <1>1, <1>2

(* Steps of connections, the key of the user, and stuttering.              *)
LEMMA CalmSame ==
    ASSUME CalmInv, UNCHANGED <<row, notices, exec, session, lock>>
    PROVE  (\A f \in Exec : Plain(f)') /\ \A u \in Task : InHand(u)'
<1>1. \A u \in Task : Holders(u)' = Holders(u)
  BY SameHolders
<1>2. ASSUME NEW u \in Task PROVE InHand(u)'
  <2>1. InHand(u) /\ KeepsRow(row[u], row'[u])
    BY DEF CalmInv, InHand, RowKept, KeepsRow
  <2>2. QED BY <1>1, <2>1, InHandKeeps
<1>3. \A f \in Exec : Plain(f)'
  BY DEF CalmInv, Plain, TaskOf
<1>4. QED BY <1>2, <1>3

(* The invariant is inductive, ...                                         *)
LEMMA CalmInvStep == CalmInv /\ [Next]_vars => CalmInv'
<1> SUFFICES ASSUME CalmInv, [Next]_vars PROVE CalmInv'
  OBVIOUS
<1>1. Calm' /\ TypeOK' /\ Ownership'
  BY TypeStep, OwnershipStep DEF CalmInv, Calm
<1>2. worker' = worker /\ AllRead'
  <2>0. UNCHANGED connected => AllRead'
    BY DEF CalmInv, AllRead
  <2>1. CASE \E t \in Task : TaskStep(t)
    BY <2>0, <2>1 DEF TaskStep, Age, Reap, UserStep, Pause, Resume, ResumeMCP, Approve, Deny,
                DeleteTask, UserSets, env
  <2>2. CASE \/ \E w \in Worker : \E S \in SUBSET Task : Claim(w, S)
             \/ \E t \in Task : \E w \in Worker : SkipNotice(t, w)
             \/ \E e \in Exec : \E t \in Task : \E w \in Worker : Load(e, t, w)
    BY <2>0, <2>2 DEF Claim, SkipNotice, Load, env
  <2>3. CASE \E e \in Exec : ExecStep(e)
    BY <2>0, <2>3 DEF ExecStep, DispatchStep, AskApproval, Missed, NativeSucceeds, NativeFails,
                BackOff, Publish, DeliveryFails, DispatchDependents, Retire, Abandon, env
  <2>4. CASE \E e \in Exec : \E c \in Conn : SessionStep(e, c)
    BY <2>0, <2>4 DEF SessionStep, TakeLock, LoseLock, SampleSucceeds, SampleFails, SettleFailure,
                SessionDependents, env
  <2>5. CASE (\E c \in Conn : ConnStep(c)) \/ Expire
    BY <2>5, CalmConn
  <2>6. CASE UNCHANGED vars
    BY <2>0, <2>6 DEF vars
  <2>7. QED BY <2>1, <2>2, <2>3, <2>4, <2>5, <2>6, CalmWorkers DEF Next
<1>3. (\A f \in Exec : Plain(f)') /\ \A u \in Task : InHand(u)'
  <2>1. CASE \E e \in Exec : ExecStep(e)
    <3>1. \A e \in Exec : ~Abandon(e)
      BY DEF CalmInv, Calm, Abandon
    <3>2. QED BY <2>1, <3>1, CalmDispatch, CalmRetire DEF ExecStep
  <2>2. CASE (\E c \in Conn : ConnStep(c)) \/ Expire \/ UNCHANGED vars
    <3>1. UNCHANGED <<row, notices, exec, session, lock>>
      BY <2>2, CalmConn DEF store, live, vars
    <3>2. QED BY <3>1, CalmSame
  <2>3. QED BY <2>1, <2>2, CalmTask, CalmWorkers, CalmClaim, CalmSkip, CalmLoad, CalmSession
            DEF Next
<1>4. QED BY <1>1, <1>2, <1>3 DEF CalmInv

(* ... and holds at the start: all workers are up, and nothing is claimed. *)
LEMMA CalmInvInit == Calm /\ Init => CalmInv
<1> SUFFICES ASSUME Calm, Init PROVE CalmInv
  OBVIOUS
<1>1. TypeOK /\ Ownership
  BY TypeInit DEF Init, Ownership, Owned, Idle
<1>2. \A e \in Exec : Plain(e)
  BY DEF Init, Plain, Idle
<1>3. AllRead /\ \A w \in Worker : worker[w] = "up"
  BY DEF Init, Calm, AllRead
<1>4. \A t \in Task : Holders(t) = {} /\ ~Noticed(t)
  BY DEF Init, Holders, Works, Unlocked, Noticed, Idle
<1>5. \A t \in Task : InHand(t)
  BY <1>4 DEF Init, InHand, OneNotice, OneHolder, RowKept, NewRow, Present
<1>6. QED BY <1>1, <1>2, <1>3, <1>5 DEF CalmInv

(* While it is calm, user code and LLM work on a task in one execution at  *)
(* a time, however many workers poll the table and however often a retry,  *)
(* a late backoff or a second terminal comes in between.                   *)
THEOREM NoTaskRunsTwice == Calm /\ Spec => []NeverTwoExecutions
<1>1. CalmInv => NeverTwoExecutions
  <2> SUFFICES ASSUME CalmInv, NEW e \in Exec, NEW f \in Exec, Executing(e), Executing(f),
                      TaskOf(e) = TaskOf(f)
               PROVE  e = f
    BY DEF NeverTwoExecutions
  <2>1. ASSUME NEW g \in Exec, Executing(g) PROVE Works(g)
    BY <2>1 DEF Executing, RunsNative, Samples, Works, CalmInv, Plain
  <2>2. Works(e) /\ Works(f)
    BY <2>1
  <2>3. TaskOf(e) \in Task
    BY <2>2, WorkFacts
  <2>4. e \in Holders(TaskOf(e)) /\ f \in Holders(TaskOf(e))
    BY <2>2 DEF Holders
  <2>5. QED BY <2>3, <2>4 DEF CalmInv, InHand, OneHolder
<1>2. QED BY <1>1, CalmInvInit, CalmInvStep, PTL DEF Spec

(* While it is calm, a claimed task is in somebody's hands, so that it     *)
(* does not take the reaper to get on.                                     *)
THEOREM ClaimsAreInHand == Calm /\ Spec => []ClaimInHand
<1>1. CalmInv => ClaimInHand
  <2> SUFFICES ASSUME CalmInv, NEW t \in Task, row[t].status = "processing"
               PROVE  notices[t][row[t].lockedBy] > 0 \/ ConcernedWith(t) # {}
    BY DEF ClaimInHand
  <2>1. \/ \E w \in Worker : row[t].lockedBy = w /\ notices[t][w] > 0
        \/ Holders(t) # {}
    BY DEF CalmInv, InHand, RowKept
  <2>2. Holders(t) # {} => ConcernedWith(t) # {}
    BY DEF Holders, ConcernedWith, Works, Unlocked, Busy, InDispatch, Dispatch, TaskOf
  <2>3. QED BY <2>1, <2>2
<1>2. QED BY <1>1, CalmInvInit, CalmInvStep, PTL DEF Spec

----------------------------------------------------------------------------
(* The scheduler implements Lease.  Where a task is in hand, its lease is  *)
(* the stage of the one execution that has it, or it waits for its notice. *)
StageOf(e) == IF Executing(e) THEN "running"
              ELSE IF Undecided(e) \/ Unlocked(e) THEN "granted" ELSE "free"

LeaseIsStage == \A t \in Task :
    /\ \A e \in Holders(t) : LeaseOf(t) = StageOf(e)
    /\ Holders(t) = {} => LeaseOf(t) = IF Noticed(t) THEN "granted" ELSE "free"
FreeAfterWork == \A e \in Exec : ~Works(e) => StageOf(e) = "free"

(* Who does not work on a task holds no lease of it.                       *)
LEMMA StageWorks == CalmInv => FreeAfterWork
  BY DEF CalmInv, Plain, Works, FreeAfterWork, StageOf, Executing, RunsNative, Samples, Undecided

(* The lease as SchedulerLease defines it is the holder's stage.           *)
LEMMA LeaseStage == CalmInv => LeaseIsStage
<1> SUFFICES ASSUME CalmInv, NEW t \in Task
             PROVE  /\ \A e \in Holders(t) : LeaseOf(t) = StageOf(e)
                    /\ Holders(t) = {} => LeaseOf(t) = IF Noticed(t) THEN "granted" ELSE "free"
  BY DEF LeaseIsStage
<1>1. \A e \in Exec : Executing(e) \/ Undecided(e) \/ Unlocked(e) => Works(e)
  BY DEF CalmInv, Plain, Works, Executing, RunsNative, Samples, Undecided
<1>2. \A e \in Exec : TaskOf(e) = t /\ (Executing(e) \/ Undecided(e) \/ Unlocked(e))
                      => e \in Holders(t)
  BY <1>1 DEF Holders
<1>3. OneHolder(t) /\ \A e \in Holders(t) : e \in Exec /\ TaskOf(e) = t
  BY DEF CalmInv, InHand, Holders
<1>4. QED BY <1>2, <1>3 DEF LeaseOf, StageOf, OneHolder, Noticed

(* The lease of a task that is in nobody's hands but a notice's.           *)
LEMMA LeaseSame ==
    ASSUME CalmInv, CalmInv', NEW t \in Task, Holders(t)' = Holders(t),
           notices'[t] = notices[t], \A e \in Holders(t) : StageOf(e)' = StageOf(e)
    PROVE  LeaseOf(t)' = LeaseOf(t)
<1>1. Noticed(t)' <=> Noticed(t)
  BY DEF Noticed
<1>2. LeaseIsStage
  BY LeaseStage
<1>3. LeaseIsStage'
  BY LeaseStage, PTL
<1>4. QED BY <1>1, <1>2, <1>3 DEF LeaseIsStage

(* An execution nothing happens to stays at its stage.                     *)
LEMMA StageSame ==
    ASSUME NEW f, exec'[f] = exec[f], session'[f] = session[f], lock'[f] = lock[f]
    PROVE  StageOf(f)' = StageOf(f)
  BY DEF StageOf, Executing, RunsNative, Samples, Undecided, Unlocked, InDispatch, TaskOf

(* A step of one execution turns the lease of its task only.               *)
LEMMA LeaseOfExec ==
    ASSUME CalmInv, CalmInv', NEW e \in Exec, OnlyOf(e), notices' = notices,
           Works(e) \/ Works(e)' => Works(e) /\ TaskOf(e)' = TaskOf(e)
    PROVE  /\ \A u \in Task : u # TaskOf(e) \/ ~Works(e) => LeaseOf(u)' = LeaseOf(u)
           /\ Works(e) => /\ LeaseOf(TaskOf(e)) = StageOf(e)
                          /\ LeaseOf(TaskOf(e))' = StageOf(e)'
<1>1. ASSUME NEW u \in Task, u # TaskOf(e) \/ ~Works(e)
      PROVE  LeaseOf(u)' = LeaseOf(u)
  <2>1. Holders(u)' = Holders(u) /\ e \notin Holders(u)
    BY <1>1, OtherHolders
  <2>2. \A f \in Holders(u) : StageOf(f)' = StageOf(f)
    BY <2>1, StageSame DEF OnlyOf, Holders
  <2>3. QED BY <2>1, <2>2, LeaseSame
<1>2. ASSUME Works(e)
      PROVE  LeaseOf(TaskOf(e)) = StageOf(e) /\ LeaseOf(TaskOf(e))' = StageOf(e)'
  <2> DEFINE t == TaskOf(e)
  <2>0. t \in Task /\ t = TaskOf(e)' /\ e \in Holders(t) /\ OneHolder(t)
    BY <1>2, WorkFacts DEF Holders, CalmInv, InHand
  <2>1. LeaseOf(t) = StageOf(e) /\ ~Noticed(t) /\ Holders(t) = {e}
    BY <2>0, LeaseStage DEF OneHolder, LeaseIsStage
  <2>2. PICK u \in Task : u = t
    BY <2>0
  <2>3. LeaseIsStage' /\ FreeAfterWork'
    BY LeaseStage, StageWorks, PTL
  <2>4. ~Noticed(u)'
    BY <2>1, <2>2 DEF Noticed
  <2>5. Holders(u)' \subseteq {e} /\ (e \in Holders(u)' <=> Works(e)')
    BY <2>0, <2>1, <2>2, OtherHolders
  <2>7. LeaseOf(u)' = StageOf(e)'
    BY <2>3, <2>4, <2>5 DEF LeaseIsStage, FreeAfterWork
  <2>8. LeaseOf(t)' = LeaseOf(u)'
    BY <2>0, <2>2 DEF LeaseOf
  <2>9. QED BY <2>1, <2>7, <2>8
<1>3. QED BY <1>1, <1>2

(* What Lease lets one task do in a step.                                  *)
Turns(from, to) == \/ from = to
                   \/ from = "granted" /\ to \in {"running", "free"}
                   \/ from = "running" /\ to = "free"

LeaseStep == L!LeaseNext \/ UNCHANGED [t \in Task |-> LeaseOf(t)]

(* A step that turns no lease is a stutter of Lease.                       *)
LEMMA AllSame ==
    ASSUME \A u \in Task : LeaseOf(u)' = LeaseOf(u)
    PROVE  LeaseStep
  BY DEF LeaseStep

(* A step that turns one lease, as Lease lets it, is a step of Lease.      *)
LEMMA OneTurns ==
    ASSUME NEW t \in Task, Turns(LeaseOf(t), LeaseOf(t)'),
           \A u \in Task : u # t => LeaseOf(u)' = LeaseOf(u)
    PROVE  LeaseStep
<1> DEFINE m == [u \in Task |-> LeaseOf(u)]
<1>1. CASE LeaseOf(t)' = LeaseOf(t)
  BY <1>1, AllSame
<1>2. ASSUME NEW from, NEW to, LeaseOf(t) = from, LeaseOf(t)' = to
      PROVE  L!Turn(t, from, to)
  <2>1. m[t] = from
    BY <1>2
  <2>2. m' = [m EXCEPT ![t] = to]
    BY <1>2
  <2>3. QED BY <2>1, <2>2 DEF L!Turn
<1>3. \/ L!Turn(t, "granted", "running") \/ L!Turn(t, "granted", "free")
      \/ L!Turn(t, "running", "free") \/ LeaseOf(t)' = LeaseOf(t)
  BY <1>2 DEF Turns
<1>4. QED BY <1>1, <1>3 DEF LeaseStep, L!LeaseNext, L!Start, L!Return, L!Finish

(* A step of an execution that works turns the lease of its task as its    *)
(* own stage turns; another one turns none.                                *)
LEMMA ExecTurns ==
    ASSUME CalmInv, CalmInv', NEW e \in Exec, OnlyOf(e), notices' = notices,
           Works(e) \/ Works(e)' => Works(e) /\ TaskOf(e)' = TaskOf(e),
           Turns(StageOf(e), StageOf(e)')
    PROVE  LeaseStep
<1>1. CASE Works(e)
  <2>1. TaskOf(e) \in Task
    BY <1>1, WorkFacts
  <2>2. QED BY <1>1, <2>1, LeaseOfExec, OneTurns
<1>2. CASE ~Works(e)
  BY <1>2, LeaseOfExec, AllSame
<1>3. QED BY <1>1, <1>2

(* A dispatcher runs native code and is done, hands its task to a session, *)
(* or lets go of it.                                                       *)
LEMMA LeaseDispatch ==
    ASSUME CalmInv, CalmInv', NEW e \in Exec, DispatchStep(e)
    PROVE  LeaseStep
<1>0. TypeOK /\ Plain(e) /\ Plain(e)' /\ UNCHANGED <<lock, notices>>
  BY DEF CalmInv, DispatchStep, AskApproval, Missed, NativeSucceeds, NativeFails, BackOff,
         Publish, DeliveryFails, DispatchDependents, store
<1>1. \E pc : Becomes(e, pc)
  BY DEF DispatchStep, AskApproval, Missed, NativeSucceeds, NativeFails, BackOff, Publish,
         DeliveryFails, DispatchDependents, CountAttempt
<1>2. TaskOf(e)' = TaskOf(e) /\ \A f \in Exec \ {e} : exec'[f] = exec[f]
  BY <1>0, <1>1, BecomesOnly DEF TypeOK
<1>3. /\ \A f \in Exec \ {e} : session'[f] = session[f]
      /\ session' = session \/ Publish(e)
  <2>1. session' = session \/ Deliver(e)
    BY DEF DispatchStep, AskApproval, Missed, NativeSucceeds, NativeFails, BackOff, Publish,
           DeliveryFails, DispatchDependents
  <2>2. session' = session \/ Publish(e)
    BY DEF CalmInv, Calm, DispatchStep, AskApproval, Missed, NativeSucceeds, NativeFails,
           BackOff, DeliveryFails, DispatchDependents
  <2>3. QED BY <1>0, <2>1, <2>2 DEF Deliver, TypeOK
<1>4. OnlyOf(e)
  BY <1>0, <1>2, <1>3 DEF OnlyOf
<1>5. exec[e].pc \in {"dispatch", "backoff"} /\ \A c \in Conn : session[e][c] = "none"
  <2>1. exec[e].pc \in {"dispatch", "backoff", "completed", "activating"}
    BY DEF DispatchStep, AskApproval, Missed, NativeSucceeds, NativeFails, RunsNative, BackOff,
           Publish, DeliveryFails, MayPublish, DispatchDependents
  <2>2. QED BY <1>0, <2>1 DEF Plain
<1>6. exec'[e].pc # "dispatch"
  BY <1>0, AtPc DEF DispatchStep, AskApproval, Missed, NativeSucceeds, NativeFails, BackOff,
         Publish, DeliveryFails, DispatchDependents, CountAttempt, AfterCompletion, Becomes,
         TypeOK
<1>7. CASE session' = session
  <2>1. ~Works(e)' /\ StageOf(e)' = "free"
    BY <1>5, <1>6, <1>7 DEF Works, Unlocked, StageOf, Executing, RunsNative, Samples, Undecided
  <2>2. Turns(StageOf(e), StageOf(e)')
    BY <2>1 DEF Turns, StageOf
  <2>3. CASE Works(e)
    BY <1>0, <1>2, <1>4, <2>1, <2>2, <2>3, ExecTurns
  <2>4. CASE ~Works(e)
    BY <1>0, <1>4, <2>1, <2>2, <2>4, ExecTurns
  <2>5. QED BY <2>3, <2>4
<1>8. CASE Publish(e)
  <2>1. exec[e].pc = "dispatch" /\ ~RunsNative(e) /\ lock[e] = NoConn
    <3>1. exec[e].pc = "dispatch" /\ TaskOf(e) \notin Native
      BY <1>8 DEF Publish, MayPublish
    <3>2. ~RunsNative(e)
      BY <3>1 DEF RunsNative, TaskOf
    <3>3. QED BY <1>0, <3>1, <3>2 DEF Plain
  <2>2. PICK c \in Conn : c \in Readers
    BY <1>8 DEF Publish, Subscribers, Readers, CalmInv, AllRead
  <2>3. /\ session'[e][c] = "got"
        /\ \A d \in Conn : session'[e][d] \in {"none", "got"}
    BY <1>0, <1>5, <1>8, <2>2 DEF Publish, Deliver, TypeOK
  <2>4. Works(e) /\ StageOf(e) = "granted"
    BY <1>5, <2>1 DEF Works, StageOf, Executing, Samples, Undecided
  <2>5. StageOf(e)' = "granted"
    BY <1>0, <1>6, <2>1, <2>3 DEF StageOf, Executing, RunsNative, Samples, Undecided, Unlocked
  <2>6. Turns(StageOf(e), StageOf(e)')
    BY <2>4, <2>5 DEF Turns
  <2>7. QED BY <1>0, <1>2, <1>4, <2>4, <2>6, ExecTurns
<1>9. QED BY <1>3, <1>7, <1>8

(* A session starts with the lock and is over with its LLM's answer.       *)
LEMMA LeaseSession ==
    ASSUME CalmInv, CalmInv', NEW e \in Exec, NEW c \in Conn, SessionStep(e, c)
    PROVE  LeaseStep
<1>0. /\ TypeOK /\ Plain(e) /\ Owned(e) /\ Owned(e)' /\ UNCHANGED <<exec, notices>>
      /\ \A d \in Conn : d # NoConn
  BY SchedulerAssumption DEF CalmInv, Ownership, SessionStep, TakeLock, LoseLock, SampleSucceeds,
         SampleFails, SettleFailure, SessionDependents, store
<1>1. PICK st : Goes(e, c, st)
  BY DEF SessionStep, TakeLock, LoseLock, SampleSucceeds, SampleFails, SettleFailure,
         SessionDependents
<1>2. /\ \A d \in Conn : session'[e][d] = IF d = c THEN st ELSE session[e][d]
      /\ \A f \in Exec \ {e} : session'[f] = session[f]
  BY <1>0, <1>1 DEF Goes, TypeOK
<1>3. \A f \in Exec \ {e} : lock'[f] = lock[f]
  BY <1>0 DEF SessionStep, TakeLock, LoseLock, SampleSucceeds, SampleFails, SettleFailure,
         SessionDependents, TypeOK
<1>4. OnlyOf(e) /\ TaskOf(e)' = TaskOf(e)
  BY <1>0, <1>2, <1>3 DEF OnlyOf, TaskOf
<1>5. session[e][c] # "none"
  BY DEF SessionStep, TakeLock, LoseLock, SampleSucceeds, SampleFails, SettleFailure,
         SessionDependents
<1>6. exec[e].pc = "done"
  BY <1>0, <1>5 DEF Plain
<1>7. /\ StageOf(e) = IF Samples(e) THEN "running" ELSE IF Unlocked(e) THEN "granted" ELSE "free"
      /\ StageOf(e)' = IF Samples(e)' THEN "running" ELSE IF Unlocked(e)' THEN "granted" ELSE "free"
  BY <1>0, <1>6 DEF StageOf, Executing, RunsNative, Undecided
<1>8. CASE TakeLock(e, c)
  <2>1. lock[e] = NoConn /\ session[e][c] = "got"
    BY <1>8 DEF TakeLock, SetNX
  <2>2. Works(e) /\ Unlocked(e)
    BY <2>1 DEF Works, Unlocked
  <2>3. ~Samples(e)
    BY <1>0, <2>1 DEF Samples, Owned
  <2>4. Turns(StageOf(e), StageOf(e)')
    <3>1. session'[e][c] = "sampling"
      BY <1>0, <1>8 DEF TakeLock, Goes, TypeOK
    <3>2. Samples(e)'
      BY <3>1 DEF Samples
    <3>3. QED BY <1>7, <2>2, <2>3, <3>2 DEF Turns
  <2>5. QED BY <1>0, <1>4, <2>2, <2>4, ExecTurns
<1>9. CASE LoseLock(e, c)
  <2>1. lock[e] # NoConn /\ lock' = lock /\ session[e][c] = "got" /\ session'[e][c] = "none"
    <3>1. Present(row[TaskOf(e)])
      BY <1>0, <1>6 DEF Plain, CalmInv, InHand, RowKept
    <3>2. QED BY <1>0, <1>9, <3>1 DEF LoseLock, SetNX, Goes, TypeOK, CalmInv, Calm
  <2>2. (Works(e)' <=> Works(e)) /\ (Samples(e)' <=> Samples(e)) /\ ~Unlocked(e) /\ ~Unlocked(e)'
    BY <1>0, <1>2, <2>1 DEF Works, Samples, Unlocked
  <2>3. Turns(StageOf(e), StageOf(e)')
    BY <1>7, <2>2 DEF Turns
  <2>4. QED BY <1>0, <1>4, <2>2, <2>3, ExecTurns
<1>10. CASE SampleSucceeds(e, c) \/ SampleFails(e, c) \/ SettleFailure(e, c)
  <2>1. session[e][c] \in {"sampling", "retrying", "giving_up"} /\ lock' = lock
    BY <1>10 DEF SampleSucceeds, SampleFails, SettleFailure
  <2>2. st \notin {"sampling", "debating"}
    <3>1. session'[e][c] \notin {"sampling", "debating"}
      BY <1>0, <1>10 DEF SampleSucceeds, SampleFails, SettleFailure, AfterCompletion, Goes, TypeOK
    <3>2. QED BY <1>2, <3>1
  <2>3. lock[e] = c /\ \A d \in Conn : d # c => session[e][d] \in {"none", "got"}
    BY <1>0, <2>1 DEF Owned
  <2>4. Works(e) /\ ~Unlocked(e)' /\ ~Samples(e)'
    BY <1>0, <1>2, <2>1, <2>2, <2>3 DEF Works, Unlocked, Samples
  <2>5. Turns(StageOf(e), StageOf(e)')
    BY <1>7, <2>4 DEF Turns
  <2>6. QED BY <1>0, <1>4, <2>4, <2>5, ExecTurns
<1>11. ~SessionDependents(e, c)
  BY <1>0 DEF SessionDependents, Plain
<1>12. QED BY <1>8, <1>9, <1>10, <1>11 DEF SessionStep

(* The notice is taken up by an execution, or it comes to nothing.         *)
LEMMA LeaseLoad ==
    ASSUME CalmInv, CalmInv', NEW e \in Exec, NEW t \in Task, NEW w \in Worker, Load(e, t, w)
    PROVE  LeaseStep
<1>0. TypeOK /\ InHand(t) /\ LeaseIsStage /\ LeaseIsStage'
  <2>1. TypeOK /\ InHand(t)
    BY DEF CalmInv
  <2>2. LeaseIsStage /\ LeaseIsStage'
    BY LeaseStage, PTL
  <2>3. QED BY <2>1, <2>2
<1>1. /\ notices[t][w] > 0 /\ TakeNotice(t, w) /\ exec[e].pc = "idle" /\ ~Busy(e)
      /\ UNCHANGED <<row, session, lock>>
  BY DEF Load
<1>2. /\ exec'[e].pc = "dispatch" /\ TaskOf(e)' = t
      /\ \A f \in Exec \ {e} : exec'[f] = exec[f]
  BY <1>0 DEF Load, TypeOK, TaskOf
<1>3. OnlyOf(e) /\ \A c \in Conn : session[e][c] = "none"
  BY <1>1, <1>2 DEF OnlyOf, Busy
<1>4. ~Works(e) /\ Works(e)'
  BY <1>1, <1>2, <1>3 DEF Works, Unlocked
<1>5. \A u \in Task : u # t => notices'[u] = notices[u]
  BY <1>0, <1>1, NoticeTaken DEF InHand
<1>6. LeaseOf(t) = "granted"
  BY <1>0, <1>1 DEF InHand, OneHolder, Noticed, LeaseIsStage
<1>7. LeaseOf(t)' \in {"granted", "running"}
  <2>1. e \in Holders(t)'
    BY <1>3, <1>4, <1>2, OtherHolders
  <2>2. LeaseOf(t)' = StageOf(e)'
    BY <1>0, <2>1 DEF LeaseIsStage
  <2>3. StageOf(e)' # "free"
    BY <1>2 DEF StageOf, Undecided, Executing
  <2>4. QED BY <2>2, <2>3 DEF StageOf
<1>8. ASSUME NEW u \in Task, u # t PROVE LeaseOf(u)' = LeaseOf(u)
  <2>1. Holders(u)' = Holders(u) /\ e \notin Holders(u)
    BY <1>2, <1>3, <1>4, <1>8, OtherHolders
  <2>2. \A f \in Holders(u) : StageOf(f)' = StageOf(f)
    BY <1>3, <2>1, StageSame DEF OnlyOf, Holders
  <2>3. QED BY <1>5, <1>8, <2>1, <2>2, LeaseSame
<1>9. QED BY <1>6, <1>7, <1>8, OneTurns DEF Turns

(* A notice that came to a row no longer there to run gives the grant back.*)
LEMMA LeaseSkip ==
    ASSUME CalmInv, CalmInv', NEW t \in Task, NEW w \in Worker, SkipNotice(t, w)
    PROVE  LeaseStep
<1>0. TypeOK /\ InHand(t) /\ LeaseIsStage /\ LeaseIsStage'
  <2>1. TypeOK /\ InHand(t)
    BY DEF CalmInv
  <2>2. LeaseIsStage /\ LeaseIsStage'
    BY LeaseStage, PTL
  <2>3. QED BY <2>1, <2>2
<1>1. notices[t][w] > 0 /\ TakeNotice(t, w) /\ UNCHANGED <<exec, session, lock>>
  BY DEF SkipNotice, live
<1>2. /\ \A v \in Worker : notices'[t][v] = 0
      /\ \A u \in Task : u # t => notices'[u] = notices[u]
  BY <1>0, <1>1, NoticeTaken DEF InHand
<1>3. /\ \A u \in Task : Holders(u)' = Holders(u)
      /\ \A f \in Exec : StageOf(f)' = StageOf(f)
  BY <1>1, SameHolders, StageSame
<1>4. LeaseOf(t) = "granted" /\ LeaseOf(t)' = "free"
  <2>1. Noticed(t) /\ Holders(t) = {} /\ ~Noticed(t)'
    BY <1>0, <1>1, <1>2 DEF InHand, OneHolder, Noticed
  <2>2. QED BY <1>0, <1>3, <2>1 DEF LeaseIsStage
<1>5. \A u \in Task : u # t => LeaseOf(u)' = LeaseOf(u)
  BY <1>2, <1>3, LeaseSame DEF Holders
<1>6. QED BY <1>4, <1>5, OneTurns DEF Turns

(* What is claimed was free, and is granted.                               *)
LEMMA LeaseClaim ==
    ASSUME CalmInv, CalmInv', NEW w \in Worker, NEW S \in SUBSET Task, Claim(w, S)
    PROVE  LeaseStep
<1>0. /\ TypeOK /\ worker[w] = "up" /\ LeaseIsStage /\ LeaseIsStage'
      /\ notices \in [Task -> [Worker -> Nat]]
  <2>1. TypeOK /\ worker[w] = "up" /\ notices \in [Task -> [Worker -> Nat]]
    BY SchedulerAssumption DEF CalmInv, TypeOK
  <2>2. LeaseIsStage /\ LeaseIsStage'
    BY LeaseStage, PTL
  <2>3. QED BY <2>1, <2>2
<1>1. UNCHANGED <<exec, session, lock>>
  BY DEF Claim, live
<1>2. /\ \A u \in Task : Holders(u)' = Holders(u)
      /\ \A f \in Exec : StageOf(f)' = StageOf(f)
  BY <1>1, SameHolders, StageSame
<1>3. ASSUME NEW u \in Task, u \notin S PROVE LeaseOf(u)' = LeaseOf(u)
  <2>1. notices'[u] = notices[u]
    BY <1>3 DEF Claim
  <2>2. QED BY <1>2, <2>1, LeaseSame DEF Holders
<1>4. ASSUME NEW u \in S PROVE LeaseOf(u) = "free" /\ LeaseOf(u)' = "granted"
  <2>1. Due(row[u]) /\ InHand(u) /\ notices'[u] = [notices[u] EXCEPT ![w] = @ + 1]
    BY <1>0, <1>4 DEF Claim, Claimable, CalmInv
  <2>2. ~Noticed(u) /\ Holders(u) = {}
    BY <2>1 DEF Due, InHand, RowKept, Kept
  <2>3. notices[u][w] \in Nat /\ notices'[u][w] = notices[u][w] + 1
    BY <1>0, <2>1
  <2>4. Noticed(u)'
    BY <2>3 DEF Noticed
  <2>5. QED BY <1>0, <1>2, <2>2, <2>4 DEF LeaseIsStage
<1> DEFINE m == [u \in Task |-> LeaseOf(u)]
<1>5. \A u \in S : m[u] = "free"
  BY <1>4
<1>6. m' = [u \in Task |-> IF u \in S THEN "granted" ELSE m[u]]
  BY <1>3, <1>4
<1>7. L!Grant(S)
  BY <1>5, <1>6 DEF L!Grant
<1>8. QED BY <1>7 DEF LeaseStep, L!LeaseNext

(* The other steps leave every lease as it is.                             *)
LEMMA LeaseStays ==
    ASSUME CalmInv, CalmInv', UNCHANGED <<notices, exec, session, lock>>
    PROVE  LeaseStep
<1>1. /\ \A u \in Task : Holders(u)' = Holders(u)
      /\ \A f \in Exec : StageOf(f)' = StageOf(f)
  BY SameHolders, StageSame
<1>2. \A u \in Task : LeaseOf(u)' = LeaseOf(u)
  BY <1>1, LeaseSame DEF Holders
<1>3. QED BY <1>2, AllSame

(* An execution that ends has let go of its task before.                   *)
LEMMA LeaseRetire ==
    ASSUME CalmInv, CalmInv', NEW e \in Exec, Retire(e)
    PROVE  LeaseStep
<1>0. TypeOK /\ \A c \in Conn : session[e][c] = "none" /\ session'[e][c] = "none"
  BY DEF CalmInv, Retire, Busy
<1>1. /\ exec' = [exec EXCEPT ![e] = Idle] /\ lock' = [lock EXCEPT ![e] = NoConn]
      /\ UNCHANGED <<notices, session>> /\ exec[e].pc = "done"
  BY DEF Retire, store
<1>2. exec'[e] = Idle /\ OnlyOf(e)
  BY <1>0, <1>1 DEF OnlyOf, TypeOK
<1>3. ~Works(e) /\ ~Works(e)'
  BY <1>0, <1>1, <1>2 DEF Works, Unlocked, Idle
<1>4. QED BY <1>1, <1>2, <1>3, LeaseOfExec, AllSame

(* Every step maps to a step of Lease or to a stutter.                     *)
LEMMA LeaseRefined == CalmInv /\ CalmInv' /\ [Next]_vars => LeaseStep
<1> SUFFICES ASSUME CalmInv, CalmInv', [Next]_vars PROVE LeaseStep
  OBVIOUS
<1>1. CASE \E t \in Task : TaskStep(t)
  <2>1. UNCHANGED <<notices, exec, session, lock>>
    BY <1>1 DEF TaskStep, Age, Reap, UserStep, Pause, Resume, ResumeMCP, Approve, Deny,
                DeleteTask, UserSets, live
  <2>2. QED BY <2>1, LeaseStays
<1>2. CASE (\E c \in Conn : ConnStep(c)) \/ Expire \/ UNCHANGED vars
  <2>1. UNCHANGED <<notices, exec, session, lock>>
    BY <1>2, CalmConn DEF store, live, vars
  <2>2. QED BY <2>1, LeaseStays
<1>3. CASE \E e \in Exec : ExecStep(e)
  <2>1. \A e \in Exec : ~Abandon(e)
    BY DEF CalmInv, Calm, Abandon
  <2>2. QED BY <1>3, <2>1, LeaseDispatch, LeaseRetire DEF ExecStep
<1>4. QED BY <1>1, <1>2, <1>3, CalmWorkers, LeaseClaim, LeaseSkip, LeaseLoad, LeaseSession
          DEF Next

(* From the claim to the end of its execution a task passes through one    *)
(* hand after the other, and nothing grants it again before what was       *)
(* granted is over: while it is calm the scheduler implements Lease.       *)
THEOREM SchedulerImplementsLease == Calm /\ Spec => ImplementsLease
<1>1. Calm /\ Init => L!LeaseInit
  <2> SUFFICES ASSUME Calm, Init PROVE L!LeaseInit
    OBVIOUS
  <2>1. LeaseIsStage
    BY CalmInvInit, LeaseStage
  <2>2. \A t \in Task : Holders(t) = {} /\ ~Noticed(t)
    BY DEF Init, Holders, Works, Unlocked, Noticed, Idle
  <2>3. \A t \in Task : LeaseOf(t) = "free"
    BY <2>1, <2>2 DEF LeaseIsStage
  <2>4. QED BY <2>3 DEF L!LeaseInit
<1>2. CalmInv /\ CalmInv' /\ [Next]_vars => [L!LeaseNext]_[t \in Task |-> LeaseOf(t)]
  BY LeaseRefined DEF LeaseStep
<1>3. QED BY <1>1, <1>2, CalmInvInit, CalmInvStep, PTL DEF Spec, ImplementsLease, L!LeaseSpec
----------------------------------------------------------------------------
(* Errors are earned.  While it is calm, failure_count never runs ahead of *)
(* the failures in a row: neither the count the row has, nor the one that  *)
(* a dispatcher has read and may write back.                               *)
Agents == Task \ Native

AgentSessions == \A e \in Exec : \A c \in Conn :
    session[e][c] # "none" => TaskOf(e) \in Agents

Covered(t) ==
    /\ row[t].failures <= streak[t]
    /\ \A e \in Exec : exec[e].pc = "dispatch" /\ TaskOf(e) = t =>
          exec[e].failures <= streak[t]
    /\ \A e \in Exec : \A c \in Conn : TaskOf(e) = t /\ session[e][c] = "giving_up" =>
          streak[t] >= FailureLimit

StreakInv ==
    /\ CalmInv /\ AgentSessions
    /\ streak \in [Task -> 0 .. FailureLimit]
    /\ \A t \in Agents : Covered(t)

(* One failure more, as all three counters count it.                       *)
More(n) == Saturate(n + 1, FailureLimit)

(* Counting keeps the order of two counts, and stops at the limit.         *)
LEMMA MoreKeeps ==
    /\ \A m, n \in Failures : m <= n => More(m) <= More(n)
    /\ \A n \in Failures : n <= More(n) /\ More(n) \in Failures
  BY StoreAssumption DEF More, Saturate, Failures

(* Where the failures come from that a step leaves in a row, a dispatcher  *)
(* starts with, or a session gives a task up for.                          *)
RowFrom(t) ==
    \/ row'[t].failures \in {0, row[t].failures}
    \/ /\ Fails(t)
       /\ \/ row'[t].failures = More(row[t].failures)
          \/ \E e \in Exec : /\ exec[e].pc = "dispatch" /\ TaskOf(e) = t
                             /\ row'[t].failures = More(exec[e].failures)
ExecFrom(e) == exec'[e].pc = "dispatch" =>
    \/ exec'[e] = exec[e]
    \/ TaskOf(e)' \in Task /\ exec'[e].failures = row[TaskOf(e)'].failures
SessionFrom(e) == \A c \in Conn : session'[e][c] # "none" =>
    /\ TaskOf(e)' = TaskOf(e)
    /\ session[e][c] # "none" \/ TaskOf(e) \in Agents
    /\ session'[e][c] = "giving_up" =>
          \/ session[e][c] = "giving_up"
          \/ /\ session[e][c] = "sampling" /\ Fails(TaskOf(e))
             /\ More(row[TaskOf(e)].failures) >= FailureLimit

CountsFrom == (\A t \in Agents : RowFrom(t)) /\ \A e \in Exec : ExecFrom(e) /\ SessionFrom(e)

(* A step that does not touch executions, or only writes a row.            *)
LEMMA RowFromSame ==
    ASSUME TypeOK, NEW u, NEW r, Put(u, r), u \in Task => r.failures \in {0, row[u].failures}
    PROVE  \A t \in Task : RowFrom(t)
<1>1. ASSUME NEW t \in Task PROVE row'[t].failures \in {0, row[t].failures}
  BY DEF TypeOK, Put
<1>2. QED BY <1>1 DEF RowFrom

(* Steps of the clock, the reaper, claims, notices and connections.        *)
LEMMA OthersFrom ==
    ASSUME CalmInv,
           \/ \E t \in Task : TaskStep(t)
           \/ \E w \in Worker : \E S \in SUBSET Task : Claim(w, S)
           \/ \E t \in Task : \E w \in Worker : SkipNotice(t, w)
           \/ (\E c \in Conn : ConnStep(c)) \/ Expire \/ UNCHANGED vars
    PROVE  CountsFrom
<1>0. TypeOK
  BY DEF CalmInv
<1>1. UNCHANGED live
  BY CalmConn DEF TaskStep, Age, Reap, UserStep, Pause, Resume, ResumeMCP, Approve, Deny,
         DeleteTask, UserSets, Claim, SkipNotice, vars, live
<1>2. ASSUME NEW t \in Task PROVE row'[t].failures = row[t].failures
  <2>1. CASE \E u \in Task : TaskStep(u)
    <3>1. PICK u \in Task : Age(u) \/ Reap(u)
      BY <2>1 DEF TaskStep, UserStep, Pause, Resume, ResumeMCP, Approve, Deny, DeleteTask,
                  UserSets, CalmInv, Calm
    <3>2. row[u] \in Row /\ row[t] \in Row
      BY <1>0 DEF TypeOK
    <3>3. /\ \A next : [row[u] EXCEPT !.nextRun = next].failures = row[u].failures
          /\ ReapStuckTasks(row[u]).failures = row[u].failures
      BY <3>2 DEF ReapStuckTasks, Row
    <3>4. \E r : row' = [row EXCEPT ![u] = r] /\ r.failures = row[u].failures
      BY <3>1, <3>3 DEF Age, Reap
    <3>5. QED BY <1>0, <3>4 DEF TypeOK
  <2>2. CASE \E w \in Worker : \E S \in SUBSET Task : Claim(w, S)
    <3>1. \A w \in Worker : ClaimTask(row[t], w).failures = row[t].failures
      BY <1>0 DEF ClaimTask, TypeOK, Row
    <3>2. row'[t] = row[t] \/ \E w \in Worker : row'[t] = ClaimTask(row[t], w)
      BY <2>2 DEF Claim
    <3>3. QED BY <3>1, <3>2
  <2>3. CASE row' = row
    BY <2>3
  <2>4. QED BY <2>1, <2>2, <2>3, CalmConn DEF SkipNotice, vars, store
<1>3. QED BY <1>1, <1>2 DEF CountsFrom, RowFrom, ExecFrom, SessionFrom, live, TaskOf, Agents

(* The start and the end of an execution.                                  *)
LEMMA SlotsFrom ==
    ASSUME CalmInv, NEW e \in Exec,
           \/ Retire(e)
           \/ \E t \in Task : \E w \in Worker : Load(e, t, w)
    PROVE  CountsFrom
<1>0. TypeOK /\ row' = row /\ session' = session
  BY DEF CalmInv, Retire, Load, store
<1>1. \A f \in Exec : f # e => exec'[f] = exec[f]
  BY <1>0 DEF Retire, Load, TypeOK
<1>2. \A c \in Conn : session[e][c] = "none"
  BY DEF Retire, Load, Busy
<1>3. ExecFrom(e)
  <2>1. CASE Retire(e)
    BY <1>0, <2>1 DEF Retire, TypeOK, Idle, ExecFrom
  <2>2. ASSUME NEW t \in Task, NEW w \in Worker, Load(e, t, w) PROVE ExecFrom(e)
    BY <1>0, <2>2 DEF Load, TypeOK, ExecFrom, TaskOf
  <2>3. QED BY <2>1, <2>2
<1>4. QED BY <1>0, <1>1, <1>2, <1>3 DEF CountsFrom, RowFrom, ExecFrom, SessionFrom, TaskOf

(* A dispatcher's step.                                                    *)
LEMMA DispatchFrom ==
    ASSUME CalmInv, NEW e \in Exec, DispatchStep(e)
    PROVE  CountsFrom
<1> DEFINE t == TaskOf(e)
<1>0. TypeOK /\ Plain(e) /\ Calm
  BY DEF CalmInv
<1>1. ~DispatchDependents(e)
  BY <1>0 DEF Plain, DispatchDependents
<1>2. \E pc \in {"done", "backoff"} : Becomes(e, pc)
  <2>1. t \in Task
    BY <1>0, <1>1 DEF Plain, DispatchStep, AskApproval, Missed, NativeSucceeds, NativeFails,
          RunsNative, BackOff, Publish, DeliveryFails, MayPublish
  <2>2. AfterCompletion(t) = "done"
    BY <1>0, <2>1, NoChildren
  <2>3. QED BY <1>1, <2>2 DEF DispatchStep, AskApproval, Missed, NativeSucceeds, NativeFails,
          BackOff, Publish, DeliveryFails, CountAttempt
<1>3. /\ exec'[e].pc # "dispatch" /\ TaskOf(e)' = t
      /\ \A f \in Exec : f # e => exec'[f] = exec[f]
  BY <1>0, <1>2, BecomesOnly DEF TypeOK
<1>4. \A f \in Exec : ExecFrom(f)
  BY <1>3 DEF ExecFrom
<1>5. ASSUME NEW f \in Exec PROVE SessionFrom(f)
  <2>1. CASE session' = session
    BY <1>3, <2>1 DEF SessionFrom, TaskOf
  <2>2. CASE session' # session
    <3>1. Publish(e)
      BY <1>0, <1>1, <2>2 DEF Calm, DispatchStep, AskApproval, Missed, NativeSucceeds,
            NativeFails, BackOff, DeliveryFails
    <3>2. f # e => session'[f] = session[f]
      BY <1>0, <3>1 DEF Publish, Deliver, TypeOK
    <3>3. \A c \in Conn : session'[e][c] \in {"got", session[e][c]}
      BY <1>0, <3>1 DEF Publish, Deliver, TypeOK
    <3>4. t \in Agents
      BY <1>0, <3>1 DEF Publish, MayPublish, Plain, Agents
    <3>5. QED BY <1>3, <3>2, <3>3, <3>4 DEF SessionFrom, TaskOf
  <2>3. QED BY <2>1, <2>2
<1>6. ASSUME NEW u \in Agents PROVE RowFrom(u)
  <2>0. u \in Task /\ u \notin Native
    BY DEF Agents
  <2>1. CASE AskApproval(e) \/ BackOff(e)
    <3>1. t \in Task /\ row[t] \in Row
      BY <1>0, <2>1 DEF AskApproval, BackOff, Plain, TypeOK
    <3>2. QED BY <1>0, <2>0, <2>1, <3>1, RowFromSame DEF AskApproval, BackOff,
              UpdateTaskApprovalStatus, UpdateTaskNextRun, Row
  <2>2. CASE Missed(e)
    <3>1. t \in Task /\ row[t] \in Row
      BY <1>0, <2>2 DEF Missed, Plain, TypeOK
    <3>2. \A next : CompleteTask(row[t], t \in Gated, "active", next).failures = 0
      BY <3>1 DEF CompleteTask, Row
    <3>3. UpdateTaskNextRun(row[t], "active", "future").failures = row[t].failures
      BY <3>1 DEF UpdateTaskNextRun, Row
    <3>4. \/ row' = row
          \/ \E r : Put(t, r) /\ r.failures \in {0, row[t].failures}
      BY <2>2, <3>2, <3>3 DEF Missed, Complete
    <3>5. QED BY <1>0, <2>0, <3>4, RowFromSame DEF RowFrom
  <2>3. CASE NativeSucceeds(e) \/ NativeFails(e)
    <3>1. t \in Native /\ t # u
      BY <2>0, <2>3 DEF NativeSucceeds, NativeFails, RunsNative, TaskOf
    <3>2. row' = row \/ \E r : Put(t, r)
      BY <2>3 DEF NativeSucceeds, NativeFails, CountAttempt, Complete
    <3>3. \A r : Put(t, r) => row'[u] = row[u]
      BY <1>0, <2>0, <3>1 DEF Put, TypeOK
    <3>4. row'[u] = row[u]
      BY <3>2, <3>3
    <3>5. QED BY <3>4 DEF RowFrom
  <2>4. CASE Publish(e)
    BY <2>4 DEF Publish, store, RowFrom
  <2>5. CASE DeliveryFails(e)
    <3>1. t \in Task /\ row[t] \in Row /\ exec[e].pc = "dispatch"
      BY <1>0, <2>5 DEF DeliveryFails, MayPublish, Plain, TypeOK
    <3>2. Fails(t)
      BY <2>5 DEF Fails
    <3>3. row' = row \/ \E st, n :
             Put(t, UpdateTaskStatusAndFailureCount(row[t], st, More(exec[e].failures), n))
      BY <2>5 DEF DeliveryFails, CountAttempt, More
    <3>4. \A st, m, n : UpdateTaskStatusAndFailureCount(row[t], st, m, n).failures = m
      BY <3>1 DEF UpdateTaskStatusAndFailureCount, Row
    <3>5. \/ row'[u] = row[u]
          \/ u = t /\ row'[u].failures = More(exec[e].failures)
      BY <1>0, <2>0, <3>1, <3>3, <3>4 DEF Put, TypeOK
    <3>6. QED BY <3>1, <3>2, <3>5 DEF RowFrom
  <2>6. QED BY <1>1, <2>1, <2>2, <2>3, <2>4, <2>5 DEF DispatchStep
<1>7. QED BY <1>4, <1>5, <1>6 DEF CountsFrom

(* A session's step.                                                       *)
LEMMA SessionFromStep ==
    ASSUME CalmInv, AgentSessions, NEW e \in Exec, NEW c \in Conn, SessionStep(e, c)
    PROVE  CountsFrom
<1> DEFINE t == TaskOf(e)
<1>0. TypeOK /\ Plain(e) /\ Calm
  BY DEF CalmInv
<1>1. exec' = exec /\ session[e][c] # "none" /\ \E st : Goes(e, c, st)
  BY DEF SessionStep, TakeLock, LoseLock, SampleSucceeds, SampleFails, SettleFailure,
         SessionDependents
<1>2. t \in Task /\ t \notin Native /\ row[t] \in Row
  BY <1>0, <1>1 DEF AgentSessions, Agents, TypeOK
<1>3. ~SessionDependents(e, c)
  BY <1>0 DEF Plain, SessionDependents
<1>4. \A f \in Exec : \A d \in Conn : f # e \/ d # c => session'[f][d] = session[f][d]
  BY <1>0, <1>1 DEF Goes, TypeOK
<1>5. \A f \in Exec : ExecFrom(f)
  BY <1>1 DEF ExecFrom
<1>6. IncrementTaskFailureCount(row[t]).failures = More(row[t].failures)
  BY <1>2 DEF IncrementTaskFailureCount, More, Row
<1>7. session'[e][c] = "giving_up" =>
         Fails(t) /\ session[e][c] = "sampling" /\ More(row[t].failures) >= FailureLimit
  <2> SUFFICES ASSUME session'[e][c] = "giving_up"
               PROVE  Fails(t) /\ session[e][c] = "sampling"
                      /\ More(row[t].failures) >= FailureLimit
    OBVIOUS
  <2>1. SampleFails(e, c)
    BY <1>0, <1>3 DEF SessionStep, TakeLock, LoseLock, SampleSucceeds, SettleFailure, Goes,
          TypeOK
  <2>2. Fails(t) /\ session[e][c] = "sampling"
    BY <2>1 DEF Fails, SampleFails
  <2>3. More(row[t].failures) >= FailureLimit
    BY <1>0, <1>6, <2>1 DEF SampleFails, Goes, TypeOK
  <2>4. QED BY <2>2, <2>3
<1>8. \A f \in Exec : SessionFrom(f)
  BY <1>1, <1>2, <1>4, <1>7 DEF SessionFrom, TaskOf, Agents
<1>9. ASSUME NEW u \in Agents PROVE RowFrom(u)
  <2>0. u \in Task
    BY DEF Agents
  <2>1. CASE TakeLock(e, c) \/ LoseLock(e, c)
    BY <2>1 DEF TakeLock, LoseLock, store, RowFrom
  <2>2. CASE SampleSucceeds(e, c)
    <3>1. \A next, st : CompleteTask(row[t], t \in Gated, st, next).failures = 0
      BY <1>2 DEF CompleteTask, Row
    <3>2. \A st : UpdateTaskStatus(row[t], st).failures = row[t].failures
      BY <1>2 DEF UpdateTaskStatus, Row
    <3>3. \E r : Put(t, r) /\ r.failures \in {0, row[t].failures}
      BY <2>2, <3>1, <3>2 DEF SampleSucceeds, Complete
    <3>4. QED BY <1>0, <2>0, <3>3, RowFromSame
  <2>3. CASE SampleFails(e, c)
    <3>1. Fails(t)
      BY <2>3 DEF Fails
    <3>2. \/ row'[u] = row[u]
          \/ u = t /\ row'[u].failures = More(row[u].failures)
      BY <1>0, <1>2, <1>6, <2>0, <2>3 DEF SampleFails, Put, TypeOK
    <3>3. QED BY <3>1, <3>2 DEF RowFrom
  <2>4. CASE SettleFailure(e, c)
    <3>1. \A st : UpdateTaskStatus(row[t], st).failures = row[t].failures
      BY <1>2 DEF UpdateTaskStatus, Row
    <3>2. \E r : Put(t, r) /\ r.failures \in {0, row[t].failures}
      BY <2>4, <3>1 DEF SettleFailure
    <3>3. QED BY <1>0, <2>0, <3>2, RowFromSame
  <2>5. QED BY <1>3, <2>1, <2>2, <2>3, <2>4 DEF SessionStep
<1>10. QED BY <1>5, <1>8, <1>9 DEF CountsFrom

(* Every step.                                                             *)
LEMMA StepFrom ==
    ASSUME CalmInv, AgentSessions, [Next]_vars
    PROVE  CountsFrom
<1>1. \A e \in Exec : ~Abandon(e)
  BY DEF CalmInv, Calm, Abandon
<1>2. QED BY <1>1, OthersFrom, SlotsFrom, DispatchFrom, SessionFromStep, CalmWorkers
          DEF Next, ExecStep

(* A success of an agent's task leaves it with no failures, and nobody who *)
(* remembers any: the session that succeeded had it in hand alone.         *)
LEMMA SuccessForgets ==
    ASSUME CalmInv, AgentSessions, NEW t \in Agents, Succeeds(t)
    PROVE  /\ row'[t].failures = 0
           /\ \A e \in Exec : TaskOf(e)' = t => exec'[e].pc # "dispatch"
           /\ \A e \in Exec : \A c \in Conn : TaskOf(e)' = t => session'[e][c] # "giving_up"
<1>0. t \in Task /\ t \notin Native /\ TypeOK /\ Calm /\ OneHolder(t)
  BY DEF Agents, CalmInv, InHand
<1>1. PICK e \in Exec : TaskOf(e) = t /\ \E c \in Conn : SampleSucceeds(e, c)
  BY <1>0 DEF Succeeds, NativeSucceeds, RunsNative, TaskOf
<1>2. PICK c \in Conn : SampleSucceeds(e, c)
  BY <1>1
<1>3. session[e][c] = "sampling" /\ exec' = exec /\ Plain(e) /\ Owned(e)
  BY <1>2 DEF SampleSucceeds, CalmInv, Ownership
<1>4. Works(e) /\ e \in Holders(t)
  BY <1>1, <1>3 DEF Works, Holders
<1>5. row[t] \in Row /\ Present(row[t])
  BY <1>0, <1>1, <1>4, WorkFacts
<1>6. row'[t].failures = 0
  <2>1. \A next, st : CompleteTask(row[t], t \in Gated, st, next).failures = 0
    BY <1>5 DEF CompleteTask, Row
  <2>2. CalculatedNextRun(t) # {}
    BY <1>0 DEF CalculatedNextRun, Calm
  <2>3. \E r : Put(t, r) /\ r.failures = 0
    BY <1>1, <1>2, <2>1, <2>2 DEF SampleSucceeds, Complete
  <2>4. QED BY <1>0, <1>5, <2>3 DEF Put, TypeOK
<1>7. ASSUME NEW f \in Exec, TaskOf(f)' = t
      PROVE  exec'[f].pc # "dispatch" /\ \A d \in Conn : session'[f][d] # "giving_up"
  <2>1. TaskOf(f) = t /\ exec'[f].pc = exec[f].pc
    BY <1>3, <1>7 DEF TaskOf
  <2>2. Works(f) => f = e
    BY <1>0, <1>4, <2>1 DEF OneHolder, Holders
  <2>3. exec[f].pc # "dispatch"
    BY <1>3, <2>2 DEF Works, Plain
  <2>4. ASSUME NEW d \in Conn, session'[f][d] = "giving_up" PROVE FALSE
    <3>1. session'[e][c] \in {"none", "completed"}
      BY <1>0, <1>2 DEF SampleSucceeds, Goes, TypeOK
    <3>2. f # e \/ d # c => session'[f][d] = session[f][d]
      BY <1>0, <1>2 DEF SampleSucceeds, Goes, TypeOK
    <3>3. session[f][d] = "giving_up" /\ (f # e \/ d # c)
      BY <2>4, <3>1, <3>2
    <3>4. Works(f) /\ f = e
      BY <2>2, <3>3 DEF Works
    <3>5. lock[e] = c /\ lock[e] = d
      BY <1>3, <3>3, <3>4 DEF Owned
    <3>6. QED BY <3>3, <3>4, <3>5
  <2>5. QED BY <2>1, <2>3, <2>4
<1>8. QED BY <1>6, <1>7

(* The invariant is inductive.                                             *)
LEMMA StreakInvStep == StreakInv /\ [HistoryNext]_hvars => StreakInv'
<1> SUFFICES ASSUME StreakInv, [HistoryNext]_hvars PROVE StreakInv'
  OBVIOUS
<1>0. CalmInv /\ AgentSessions /\ [Next]_vars
  BY DEF StreakInv, HistoryNext, hvars
<1>1. CalmInv' /\ CountsFrom
  BY <1>0, CalmInvStep, StepFrom
<1>2. AgentSessions'
  BY <1>0, <1>1 DEF AgentSessions, CountsFrom, SessionFrom
<1>3. /\ streak \in [Task -> Failures] /\ TypeOK /\ FailureLimit \in Nat \ {0}
      /\ \A t \in Task : row[t].failures \in Failures
      /\ \A e \in Exec : exec[e].failures \in Failures
  BY <1>0, StoreAssumption DEF StreakInv, CalmInv, TypeOK, Row, Job, Failures
<1>4. CASE HistoryNext
  <2>1. \A t \in Task : streak'[t] = IF t \in Native \/ Succeeds(t) THEN 0
                                     ELSE IF Fails(t) THEN More(streak[t]) ELSE streak[t]
    BY <1>4, Zenon DEF HistoryNext, More, StreakLimit
  <2>2. streak' \in [Task -> 0 .. FailureLimit]
    <3>1. \A t \in Task : streak'[t] \in 0 .. FailureLimit
      BY <1>3, <2>1, MoreKeeps DEF Failures
    <3>2. DOMAIN streak' = Task /\ streak' = [t \in DOMAIN streak' |-> streak'[t]]
      BY <1>4, Zenon DEF HistoryNext
    <3>3. QED BY <3>1, <3>2
  <2>3. ASSUME NEW t \in Agents PROVE Covered(t)'
    <3>0. t \in Task /\ t \notin Native /\ Covered(t)
      BY DEF Agents, StreakInv
    <3>1. CASE Succeeds(t)
      <4>1. streak'[t] = 0
        BY <2>1, <3>0, <3>1
      <4>2. QED BY <1>0, <3>1, <4>1, SuccessForgets DEF Covered
    <3>2. CASE ~Succeeds(t)
      <4>1. /\ streak'[t] = IF Fails(t) THEN More(streak[t]) ELSE streak[t]
            /\ streak[t] \in Failures /\ streak'[t] \in Failures /\ streak[t] <= streak'[t]
        <5>1. streak'[t] = IF Fails(t) THEN More(streak[t]) ELSE streak[t]
          BY <2>1, <3>0, <3>2, Zenon
        <5>2. streak[t] \in Failures /\ More(streak[t]) \in Failures
              /\ streak[t] <= More(streak[t]) /\ streak[t] <= streak[t]
          BY <1>3, <3>0, MoreKeeps DEF Failures
        <5>3. QED BY <5>1, <5>2, Zenon
      <4>2. row'[t].failures <= streak'[t]
        <5>1. RowFrom(t)
          BY <1>1 DEF CountsFrom
        <5>2. CASE row'[t].failures \in {0, row[t].failures}
          BY <1>3, <3>0, <4>1, <5>2 DEF Covered, Failures
        <5>3. CASE Fails(t) /\ row'[t].failures = More(row[t].failures)
          BY <1>3, <3>0, <4>1, <5>3, MoreKeeps DEF Covered
        <5>4. ASSUME NEW e \in Exec, exec[e].pc = "dispatch", TaskOf(e) = t, Fails(t),
                     row'[t].failures = More(exec[e].failures)
              PROVE  row'[t].failures <= streak'[t]
          BY <1>3, <3>0, <4>1, <5>4, MoreKeeps DEF Covered
        <5>5. QED BY <5>1, <5>2, <5>3, <5>4 DEF RowFrom
      <4>3. ASSUME NEW e \in Exec, exec'[e].pc = "dispatch", TaskOf(e)' = t
            PROVE  exec'[e].failures <= streak'[t]
        <5>1. exec'[e] = exec[e] \/ exec'[e].failures = row[t].failures
          BY <1>1, <4>3 DEF CountsFrom, ExecFrom
        <5>2. exec'[e].failures \in Failures /\ exec'[e].failures <= streak[t]
          BY <1>3, <3>0, <4>3, <5>1 DEF Covered, TaskOf
        <5>3. QED BY <4>1, <5>2 DEF Failures
      <4>4. ASSUME NEW e \in Exec, NEW c \in Conn, TaskOf(e)' = t, session'[e][c] = "giving_up"
            PROVE  streak'[t] >= FailureLimit
        <5>1. /\ TaskOf(e) = t
              /\ \/ session[e][c] = "giving_up"
                 \/ Fails(t) /\ More(row[t].failures) >= FailureLimit
          BY <1>1, <4>4 DEF CountsFrom, SessionFrom
        <5>2. CASE session[e][c] = "giving_up"
          BY <1>3, <3>0, <4>1, <5>1, <5>2 DEF Covered, Failures
        <5>3. CASE Fails(t) /\ More(row[t].failures) >= FailureLimit
          <6>1. More(row[t].failures) <= streak'[t] /\ More(row[t].failures) \in Failures
            BY <1>3, <3>0, <4>1, <5>3, MoreKeeps DEF Covered
          <6>2. QED BY <1>3, <4>1, <5>3, <6>1 DEF Failures
        <5>4. QED BY <5>1, <5>2, <5>3
      <4>5. QED BY <4>2, <4>3, <4>4 DEF Covered
    <3>3. QED BY <3>1, <3>2
  <2>4. QED BY <1>1, <1>2, <2>2, <2>3 DEF StreakInv
<1>5. CASE UNCHANGED hvars
  BY <1>1, <1>2, <1>5 DEF StreakInv, Covered, hvars, vars, TaskOf
<1>6. QED BY <1>4, <1>5

(* While it is calm, a task is given up for the failures of its LLM after  *)
(* FailureLimit failures in a row and no sooner, although the dispatcher   *)
(* writes back a count it read before and the session counts in the row.   *)
THEOREM ErrorsAreEarned == Calm /\ HistorySpec => ErrorIsEarned
<1>1. Calm /\ HistoryInit => StreakInv
  <2> SUFFICES ASSUME Calm, HistoryInit PROVE StreakInv
    OBVIOUS
  <2>1. CalmInv
    BY CalmInvInit DEF HistoryInit
  <2>2. streak \in [Task -> 0 .. FailureLimit] /\ \A t \in Task : streak[t] = 0
    BY StoreAssumption DEF HistoryInit
  <2>3. /\ \A t \in Task : row[t].failures = 0
        /\ \A e \in Exec : exec[e].pc = "idle"
        /\ \A e \in Exec : \A c \in Conn : session[e][c] = "none"
    BY DEF HistoryInit, Init, NewRow, Idle
  <2>4. QED BY <2>1, <2>2, <2>3 DEF StreakInv, AgentSessions, Covered, Agents
<1>2. StreakInv => [\A t \in Task : GivesUp(t) => streak[t] >= FailureLimit]_hvars
  <2> SUFFICES ASSUME StreakInv, NEW t \in Task, GivesUp(t) PROVE streak[t] >= FailureLimit
    OBVIOUS
  <2>1. PICK e \in Exec : \E c \in Conn : TaskOf(e) = t /\ session[e][c] = "giving_up"
    BY DEF GivesUp
  <2>2. t \in Agents
    BY <2>1 DEF StreakInv, AgentSessions
  <2>3. QED BY <2>1, <2>2 DEF StreakInv, Covered
<1>3. QED BY <1>1, <1>2, StreakInvStep, PTL DEF HistorySpec, ErrorIsEarned
=============================================================================
