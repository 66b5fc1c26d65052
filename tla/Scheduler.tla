----------------------------- MODULE Scheduler -----------------------------
(***************************************************************************)
(* The task scheduler of one user: the workers that claim due tasks from   *)
(* PostgreSQL, the goroutines that dispatch a claimed task (scheduler.go), *)
(* the goroutines that serve the user's SSE connections and sample the     *)
(* user's LLM (session.go), the reaper, the graceful shutdown (main.go),   *)
(* and the user's own changes to a task while all of that goes on.         *)
(*                                                                         *)
(* A step is one committed SQL statement or one Redis command together     *)
(* with the local code up to the next one.  Logs, traces, events and       *)
(* e-mails are left out.  A router task is dispatched here like any other; *)
(* what its sessions do instead of sampling is in Routing.                 *)
(***************************************************************************)
EXTENDS TaskStore, FiniteSets

CONSTANTS
    Task, NoTask,  \* tasks of one user
    Conn, NoConn,  \* SSE connections of that user
    Host,          \* Host[c]: the worker that serves connection c
    Exec,          \* room for executions that are under way together
    Native,        \* tasks with task_type "native_action"
    Gated,         \* tasks with requires_approval
    RunMissed,     \* tasks with missed_task_policy "run_immediately"
    DateTasks,     \* tasks with trigger_type "date"
    NextRuns,      \* NextRuns[t]: what calculateNextRun may give; {}: an error
    Loops,         \* tasks with a loop_condition
    Parent,        \* Parent[t]: depends_on_task_id, or NoTask
    Chained,       \* tasks with trigger_on_completion
    Branching,     \* tasks with a branch_condition
    Routers        \* tasks with task_type "decision_router" or "swarm_router"

CONSTANTS
    BatchSize,     \* tasks one claim may take
    NoticeLimit,   \* bound on the undelivered claim notices of one task
    Outcomes,      \* subset of {"ok", "fail"}: what user code and LLM do
    UserOps,       \* user operations allowed
    Faults,        \* faults allowed
    Mortal,        \* workers that may crash or be shut down
    Started,       \* workers running at the start
    Online         \* connections subscribed at the start

ASSUME SchedulerAssumption ==
    /\ NoTask \notin Task /\ NoConn \notin Conn
    /\ IsFiniteSet(Task) /\ IsFiniteSet(Conn)
    /\ Host \in [Conn -> Worker]
    /\ NextRuns \in [Task -> SUBSET NextRun]
    /\ Parent \in [Task -> Task \cup {NoTask}]
    /\ BatchSize \in Nat \ {0} /\ NoticeLimit \in Nat \ {0}
    /\ Outcomes \subseteq {"ok", "fail"}
    /\ Mortal \subseteq Worker /\ Started \subseteq Worker
    /\ Online \subseteq {c \in Conn : Host[c] \in Started}

VARIABLES
    row,        \* the tasks table
    notices,    \* notices[t][w]: claim notifications on their way to w
    worker,     \* state of each worker process
    exec,       \* the dispatch goroutine of each execution
    session,    \* session[e][c]: what connection c does about execution e
    kids,       \* kids[e]: dependent tasks execution e has yet to trigger
    lock,       \* the Redis key lock:exec:<execution id>
    sampledBy,  \* connections that asked the LLM for e (history variable)
    connected,  \* state of each SSE connection
    presence    \* the Redis key session:<user> exists

store == <<row, notices>>
live  == <<exec, session, kids, lock, sampledBy>>
env   == <<worker, connected, presence>>
vars  == <<row, notices, worker, exec, session, kids, lock, sampledBy,
           connected, presence>>

(* "starting": the process runs but has no LISTEN on task_claimed (yet, or *)
(* since its listener lost its connection).  "draining": SIGTERM received. *)
(* "leaving", "closing": nobody reads from the connection any more, but    *)
(* Redis still counts its subscription; the DEL of the key of the user is  *)
(* to come in the first and past in the second.                            *)
(* "got": the message of the execution waits in the channel of the         *)
(* connection, or a goroutine has been started for it.                     *)
WorkerState  == {"new", "starting", "up", "draining", "reverted", "down", "crashed"}
ConnState    == {"off", "joining", "on", "leaving", "closing"}
Dispatch     == {"dispatch", "backoff", "completed", "activating"}
SessionState == {"none", "got", "sampling", "retrying", "giving_up",
                 "completed", "activating",
                 "debating", "matched", "unmatched", "routed"}

(* What a dispatch goroutine knows: the row GetDispatchableTaskByID gave   *)
(* it, and IsOnline read right after; none of it is read again.            *)
Job == [pc : Dispatch \cup {"idle", "done"}, task : Task \cup {NoTask},
        worker : Worker \cup {NoWorker}, approved : BOOLEAN, online : BOOLEAN,
        failures : Failures, retries : Retries]

Idle == [pc |-> "idle", task |-> NoTask, worker |-> NoWorker, approved |-> FALSE,
         online |-> FALSE, failures |-> 0, retries |-> 0]

At(x, pc) == [Idle EXCEPT !.pc = pc, !.task = x.task, !.worker = x.worker]

----------------------------------------------------------------------------
Init ==
    /\ row = [t \in Task |-> NewRow("future")]
    /\ notices = [t \in Task |-> [w \in Worker |-> 0]]
    /\ worker = [w \in Worker |-> IF w \in Started THEN "up" ELSE "new"]
    /\ exec = [e \in Exec |-> Idle]
    /\ session = [e \in Exec |-> [c \in Conn |-> "none"]]
    /\ kids = [e \in Exec |-> {}]
    /\ lock = [e \in Exec |-> NoConn]
    /\ sampledBy = [e \in Exec |-> {}]
    /\ connected = [c \in Conn |-> IF c \in Online THEN "on" ELSE "off"]
    /\ presence = (Online # {})

Running(w)  == worker[w] \in {"starting", "up"}
Serving(w)  == worker[w] \in {"starting", "up", "draining", "reverted"}

(* An UPDATE finds no row once the task is deleted.                        *)
Put(t, r) == row' = [row EXCEPT ![t] = IF Present(row[t]) THEN r ELSE @]

(* DELETE sets the children's depends_on_task_id to NULL.                  *)
ParentOf(t) == IF Parent[t] # NoTask /\ Present(row[Parent[t]]) THEN Parent[t]
                                                               ELSE NoTask
Children(t) == {k \in Task : ParentOf(k) = t}

InDispatch(e) == exec[e].pc \in Dispatch
Busy(e)       == InDispatch(e) \/ \E c \in Conn : session[e][c] # "none"
ConcernedWith(t) == {e \in Exec : exec[e].task = t /\ Busy(e)}

(* User work is running: native code, or a request to the user's LLM.      *)
RunsNative(e) == /\ exec[e].pc = "dispatch" /\ exec[e].online
                 /\ exec[e].task \in Native
                 /\ exec[e].task \in Gated => exec[e].approved
Samples(e)    == \E c \in Conn : session[e][c] \in {"sampling", "debating"}
Executing(e)  == RunsNative(e) \/ Samples(e)

ClaimableUnderActiveParent(t) ==   \* mutant
    /\ Due(row[t])
    /\ \A p \in {ParentOf(t)} \ {NoTask} : row[p].status = "active"

Claimable(t) ==
    /\ Due(row[t])
    /\ \A p \in {ParentOf(t)} \ {NoTask} : row[p].status \in {"completed", "active"}

----------------------------------------------------------------------------
(* Time.  next_run comes up as the clock advances.  What is under way when *)
(* a retry is put off is over when the retry is due: notices are delivered *)
(* at once, an execution has 60 s of dispatch, or 30 s of sampling after a *)
(* look at the database, and the backoff is 2 minutes at least.  next_run  *)
(* becomes stale, more than 5 minutes old, only while nobody works on the  *)
(* task: a claimable task waits for a poll (30 s) as long as a worker runs *)
(* and keeps up.                                                           *)
UnderWay(t) == (\E w \in Worker : notices[t][w] > 0) \/ ConcernedWith(t) # {}
Awaited(t)  == Claimable(t) /\ \E w \in Worker : Running(w)

Age(t) ==
    /\ Present(row[t])
    /\ \/ row[t].nextRun = "future" /\ row' = [row EXCEPT ![t].nextRun = "due"]
       \/ /\ row[t].nextRun = "later" /\ ~UnderWay(t)
          /\ row' = [row EXCEPT ![t].nextRun = "due"]
       \/ /\ row[t].nextRun = "due" /\ ~UnderWay(t) /\ ~Awaited(t)
          /\ row' = [row EXCEPT ![t].nextRun = "stale"]
    /\ UNCHANGED <<notices, live, env>>

----------------------------------------------------------------------------
(* Workers.                                                                *)

(* ClaimDueTasks in one transaction with its NOTIFYs.  S may be any of the *)
(* claimable tasks: SKIP LOCKED passes over rows another transaction       *)
(* holds.  A NOTIFY reaches the worker only if it LISTENs at that moment.  *)
Claim(w, S) ==
    /\ Running(w)
    /\ S # {} /\ Cardinality(S) <= BatchSize
    /\ \A t \in S : Claimable(t) /\ notices[t][w] < NoticeLimit
    /\ row' = [t \in Task |-> IF t \in S THEN ClaimTask(row[t], w) ELSE row[t]]
    /\ notices' = [t \in Task |-> IF t \in S /\ worker[w] = "up"
                                  THEN [notices[t] EXCEPT ![w] = @ + 1]
                                  ELSE notices[t]]
    /\ UNCHANGED <<live, env>>

TakeNotice(t, w) == notices' = [notices EXCEPT ![t][w] = @ - 1]

(* handleTaskClaimNotification with the first read of handleDispatchTask:  *)
(* the row must still be processing and locked by this worker.  IsOnline   *)
(* reads FALSE when Redis fails.                                           *)
Load(e, t, w) ==
    /\ worker[w] = "up" /\ notices[t][w] > 0
    /\ ~Busy(e) /\ exec[e].pc = "idle"
    /\ Dispatchable(row[t], w)
    /\ TakeNotice(t, w)
    /\ \E online \in {presence} \cup (IF "redis" \in Faults THEN {FALSE} ELSE {}) :
          exec' = [exec EXCEPT ![e] =
                     [pc |-> "dispatch", task |-> t, worker |-> w,
                      approved |-> row[t].approval = "approved", online |-> online,
                      failures |-> row[t].failures, retries |-> row[t].retries]]
    /\ UNCHANGED <<row, session, kids, lock, sampledBy, env>>

SkipNotice(t, w) ==
    /\ worker[w] = "up" /\ notices[t][w] > 0
    /\ ~Dispatchable(row[t], w)
    /\ TakeNotice(t, w)
    /\ UNCHANGED <<row, live, env>>

Reap(t) ==
    /\ \E w \in Worker : Running(w)
    /\ Stuck(row[t])
    /\ row' = [row EXCEPT ![t] = ReapStuckTasks(@)]
    /\ UNCHANGED <<notices, live, env>>

----------------------------------------------------------------------------
(* handleDispatchTask.                                                     *)

TaskOf(e)     == exec[e].task
PassesGate(e) == TaskOf(e) \in Gated => exec[e].approved
Becomes(e, pc) == exec' = [exec EXCEPT ![e] = At(@, pc)]

(* The approval gate comes first: the task pauses until somebody approves. *)
AskApproval(e) ==
    /\ exec[e].pc = "dispatch" /\ ~PassesGate(e)
    /\ Put(TaskOf(e), UpdateTaskApprovalStatus(row[TaskOf(e)], "pending", "paused"))
    /\ Becomes(e, "done")
    /\ UNCHANGED <<notices, session, kids, lock, sampledBy, env>>

(* completeTask up to the read of the dependent tasks, which is another    *)
(* statement; a task without children has nothing to read.                 *)
Complete(t, status, next) ==
    Put(t, CompleteTask(row[t], t \in Gated, status, next))
AfterCompletion(t) == IF Children(t) = {} THEN "done" ELSE "completed"

CalculatedNextRun(t) == NextRuns[t]

(* The user is offline.  A task whose trigger gives no next run is left as *)
(* it is: the UPDATE that would pause it names no user and finds no row.   *)
Missed(e) ==
    LET t == TaskOf(e) IN
    /\ exec[e].pc = "dispatch" /\ PassesGate(e) /\ ~exec[e].online
    /\ \/ /\ t \in RunMissed
          /\ Put(t, UpdateTaskNextRun(row[t], "active", "future"))
          /\ Becomes(e, "done")
       \/ /\ t \notin RunMissed
          /\ \E next \in CalculatedNextRun(t) : Complete(t, "active", next)
          /\ Becomes(e, AfterCompletion(t))
       \/ /\ t \notin RunMissed /\ CalculatedNextRun(t) = {}
          /\ row' = row
          /\ Becomes(e, "done")
    /\ UNCHANGED <<notices, session, kids, lock, sampledBy, env>>

(* The loop condition of a native task is evaluated over a state nobody    *)
(* writes, so it never holds; without a next run the task stays as it is.  *)
NativeSucceeds(e) ==
    LET t == TaskOf(e) IN
    /\ RunsNative(e) /\ "ok" \in Outcomes
    /\ \/ /\ \E next \in CalculatedNextRun(t) : Complete(t, "active", next)
          /\ Becomes(e, AfterCompletion(t))
       \/ /\ CalculatedNextRun(t) = {} /\ row' = row
          /\ Becomes(e, "done")
    /\ UNCHANGED <<notices, session, kids, lock, sampledBy, env>>

(* One failed attempt, native or undelivered: the counters come from the   *)
(* row as it was when the execution started.  Exhausted, the task goes to  *)
(* the dead letters; otherwise it is active at once and gets its backoff   *)
(* with the next statement.  With "db" the first UPDATE may fail alone.    *)
CountAttempt(e) ==
    LET t == TaskOf(e)
        failures == Saturate(exec[e].failures + 1, FailureLimit)
        retries  == Saturate(exec[e].retries + 1, MaxRetries + 1)
        exhausted == retries > MaxRetries
    IN /\ \/ Put(t, UpdateTaskStatusAndFailureCount(row[t],
                      IF exhausted THEN "error" ELSE "active", failures, retries))
          \/ "db" \in Faults /\ row' = row
       /\ Becomes(e, IF exhausted THEN "done" ELSE "backoff")

NativeFails(e) ==
    /\ RunsNative(e) /\ "fail" \in Outcomes
    /\ CountAttempt(e)
    /\ UNCHANGED <<notices, session, kids, lock, sampledBy, env>>

BackOff(e) ==
    /\ exec[e].pc = "backoff"
    /\ Put(TaskOf(e), UpdateTaskNextRun(row[TaskOf(e)], "active", "later"))
    /\ Becomes(e, "done")
    /\ UNCHANGED <<notices, session, kids, lock, sampledBy, env>>

(* PUBLISH to trigger_task:<user> gives the number of subscriptions, those *)
(* nobody reads from any more included.                                    *)
Readers     == {c \in Conn : connected[c] = "on"}
Subscribers == {c \in Conn : connected[c] \in {"on", "leaving", "closing"}}
MayPublish(e) == /\ exec[e].pc = "dispatch" /\ PassesGate(e) /\ exec[e].online
                 /\ TaskOf(e) \notin Native
Deliver(e) == session' = [session EXCEPT ![e] =
                 [c \in Conn |-> IF c \in Readers THEN "got" ELSE @[c]]]

Publish(e) ==
    /\ MayPublish(e) /\ Subscribers # {}
    /\ Deliver(e)
    /\ Becomes(e, "done")
    /\ UNCHANGED <<store, kids, lock, sampledBy, env>>

(* No subscriber got it, or the reply of PUBLISH was lost: the attempt     *)
(* counts as failed even where the message did arrive.                     *)
DeliveryFails(e) ==
    /\ MayPublish(e)
    /\ \/ Subscribers = {} /\ UNCHANGED session
       \/ "redis" \in Faults /\ (Deliver(e) \/ UNCHANGED session)
    /\ CountAttempt(e)
    /\ UNCHANGED <<notices, kids, lock, sampledBy, env>>

----------------------------------------------------------------------------
(* The second half of completeTask, run by the dispatcher or by a session: *)
(* read the active children once, then make each of them due, whatever has *)
(* become of it meanwhile.                                                 *)
ToTrigger(t) ==
    {k \in Children(t) : k \in Chained /\ row[k].status = "active"}

Triggering(e) == \/ exec[e].pc = "activating"
                 \/ \E c \in Conn : session[e][c] = "activating"

ReadSkippingAny(e) ==   \* mutant: no branch condition reads as FALSE
    \E S \in SUBSET ToTrigger(TaskOf(e)) : kids' = [kids EXCEPT ![e] = S]

(* A branch condition may hold of the parent's latest output or not.       *)
ReadDependents(e) ==
    \E S \in SUBSET ToTrigger(TaskOf(e)) :
        /\ ToTrigger(TaskOf(e)) \ S \subseteq Branching
        /\ kids' = [kids EXCEPT ![e] = S]

(* With "db" the UPDATE of one child may fail; the loop goes on.           *)
TriggerDependent(e) ==
    \E k \in kids[e] :
        /\ \/ Put(k, UpdateTaskNextRun(row[k], "active", "due"))
           \/ "db" \in Faults /\ row' = row
        /\ kids' = [kids EXCEPT ![e] = @ \ {k}]

DispatchDependents(e) ==
    /\ \/ /\ exec[e].pc = "completed"
          /\ ReadDependents(e) /\ row' = row
       \/ /\ exec[e].pc = "activating"
          /\ TriggerDependent(e)
    /\ Becomes(e, IF kids'[e] = {} THEN "done" ELSE "activating")
    /\ UNCHANGED <<notices, session, lock, sampledBy, env>>

(* The slot is free once its dispatcher and all its sessions have ended;   *)
(* the lock key outlives them by its 5 minutes.                            *)
Retire(e) ==
    /\ exec[e].pc = "done" /\ ~Busy(e)
    /\ exec' = [exec EXCEPT ![e] = Idle]
    /\ lock' = [lock EXCEPT ![e] = NoConn]
    /\ sampledBy' = [sampledBy EXCEPT ![e] = {}]
    /\ UNCHANGED <<store, session, kids, env>>

----------------------------------------------------------------------------
(* The goroutine that connection c starts for the message of execution e.  *)
(* It runs under a context of its own: closing c does not stop it.         *)

Goes(e, c, st) == session' = [session EXCEPT ![e][c] = st]

SetWithoutNX(e) == TRUE   \* mutant

(* SET lock:exec:<id> NX succeeds.                                         *)
SetNX(e) == lock[e] = NoConn

(* GetTaskByID, then the lock.  A router does not come as far as that.     *)
ComesToLock(e) == Present(row[TaskOf(e)]) /\ TaskOf(e) \notin Routers

TakeLock(e, c) ==
    /\ session[e][c] = "got" /\ ComesToLock(e) /\ SetNX(e)
    /\ lock' = [lock EXCEPT ![e] = c]
    /\ sampledBy' = [sampledBy EXCEPT ![e] = @ \cup {c}]
    /\ Goes(e, c, "sampling")
    /\ UNCHANGED <<store, exec, kids, env>>

(* The prompt resolved to nothing and the message is refused, the task is  *)
(* gone or cannot be read, another connection holds the lock, or Redis     *)
(* failed, perhaps after it set the key.  The row stays as it is.          *)
LoseLock(e, c) ==
    /\ session[e][c] = "got"
    /\ \/ ~Present(row[TaskOf(e)]) /\ UNCHANGED lock
       \/ {"blank", "db"} \cap Faults # {} /\ UNCHANGED lock
       \/ ComesToLock(e) /\ ~SetNX(e) /\ UNCHANGED lock
       \/ /\ "redis" \in Faults /\ ComesToLock(e)
          /\ lock' \in {lock, [lock EXCEPT ![e] = IF @ = NoConn THEN c ELSE @]}
    /\ Goes(e, c, "none")
    /\ UNCHANGED <<store, exec, kids, sampledBy, env>>

(* The LLM answered: loop, finish a date task, or schedule the next run;   *)
(* a trigger without a next run pauses the task.                           *)
SampleSucceeds(e, c) ==
    LET t == TaskOf(e) IN
    /\ session[e][c] = "sampling" /\ "ok" \in Outcomes
    /\ \/ /\ \/ t \in Loops /\ Complete(t, "active", "due")
             \/ t \in DateTasks /\ Complete(t, "completed", "due")
             \/ t \notin DateTasks /\ \E next \in CalculatedNextRun(t) :
                                         Complete(t, "active", next)
          /\ Goes(e, c, IF AfterCompletion(t) = "done" THEN "none" ELSE "completed")
       \/ /\ t \notin DateTasks /\ CalculatedNextRun(t) = {}
          /\ Put(t, UpdateTaskStatus(row[t], "paused"))
          /\ Goes(e, c, "none")
    /\ UNCHANGED <<notices, exec, kids, lock, sampledBy, env>>

SessionDependents(e, c) ==
    /\ \/ /\ session[e][c] = "completed"
          /\ ReadDependents(e) /\ row' = row
       \/ /\ session[e][c] = "activating"
          /\ TriggerDependent(e)
    /\ Goes(e, c, IF kids'[e] = {} THEN "none" ELSE "activating")
    /\ UNCHANGED <<notices, exec, lock, sampledBy, env>>

(* The LLM failed or timed out: count it in one statement that returns the *)
(* new count (0 if it failed itself), then decide the status with another. *)
SampleFails(e, c) ==
    LET t == TaskOf(e)
        counted == IncrementTaskFailureCount(row[t])
    IN /\ session[e][c] = "sampling" /\ "fail" \in Outcomes
       /\ \/ /\ Put(t, counted)
             /\ Goes(e, c, IF Present(row[t]) /\ counted.failures >= FailureLimit
                           THEN "giving_up" ELSE "retrying")
          \/ "db" \in Faults /\ row' = row /\ Goes(e, c, "retrying")
       /\ UNCHANGED <<notices, exec, kids, lock, sampledBy, env>>

SettleFailure(e, c) ==
    LET t == TaskOf(e) IN
    /\ \/ session[e][c] = "giving_up" /\ Put(t, UpdateTaskStatus(row[t], "error"))
       \/ session[e][c] = "retrying" /\ Put(t, UpdateTaskStatus(row[t], "active"))
    /\ Goes(e, c, "none")
    /\ UNCHANGED <<notices, exec, kids, lock, sampledBy, env>>

(* A context expires or the database is gone for good: the goroutine ends  *)
(* where it is and the row stays as it is.                                 *)
Abandon(e) ==
    /\ "timeout" \in Faults
    /\ \/ InDispatch(e) /\ Becomes(e, "done") /\ UNCHANGED session
       \/ \E c \in Conn : session[e][c] # "none" /\ Goes(e, c, "none")
                          /\ UNCHANGED exec
    /\ kids' = [kids EXCEPT ![e] = IF Triggering(e)' THEN @ ELSE {}]
    /\ UNCHANGED <<store, lock, sampledBy, env>>

----------------------------------------------------------------------------
(* Worker processes.                                                       *)

SetWorker(w, st) == worker' = [worker EXCEPT ![w] = st]
LoseNotices(w)   == notices' = [t \in Task |-> [notices[t] EXCEPT ![w] = 0]]
Hosted(w)        == {c \in Conn : Host[c] = w}

(* main starts the scheduler and the claim listener together; a claim may  *)
(* commit before LISTEN does.                                              *)
StartWorker(w) ==
    /\ worker[w] = "new"
    /\ SetWorker(w, "starting")
    /\ UNCHANGED <<store, live, connected, presence>>

Listen(w) ==
    /\ worker[w] = "starting"
    /\ SetWorker(w, "up")
    /\ UNCHANGED <<store, live, connected, presence>>

LoseListener(w) ==
    /\ "listener" \in Faults /\ worker[w] = "up"
    /\ SetWorker(w, "starting")
    /\ LoseNotices(w)
    /\ UNCHANGED <<row, live, connected, presence>>

(* What the end of dispatchers and of sessions leaves behind.              *)
EndDispatchers(w) ==
    exec' = [e \in Exec |-> IF InDispatch(e) /\ exec[e].worker = w
                            THEN At(exec[e], "done") ELSE exec[e]]
EndSessions(w) ==
    session' = [e \in Exec |-> [c \in Conn |-> IF c \in Hosted(w) THEN "none"
                                               ELSE session[e][c]]]
ForgetKids ==
    kids' = [e \in Exec |-> IF Triggering(e)' THEN kids[e] ELSE {}]
Disconnected(w) ==
    connected' = [c \in Conn |->
        IF c \notin Hosted(w) THEN connected[c]
        ELSE IF c \in Subscribers THEN "closing" ELSE "off"]

(* A crash leaves the rows and the presence key; the worker id is never    *)
(* used again.                                                             *)
Crash(w) ==
    /\ "crash" \in Faults /\ w \in Mortal /\ Serving(w)
    /\ SetWorker(w, "crashed")
    /\ LoseNotices(w)
    /\ EndDispatchers(w) /\ EndSessions(w) /\ ForgetKids /\ Disconnected(w)
    /\ UNCHANGED <<row, lock, sampledBy, presence>>

(* SIGTERM cancels the context of the listeners and of the dispatchers;    *)
(* sessions and the connections they serve go on until the process exits.  *)
Drain(w) ==
    /\ "shutdown" \in Faults /\ w \in Mortal /\ Running(w)
    /\ SetWorker(w, "draining")
    /\ LoseNotices(w)
    /\ EndDispatchers(w)
    /\ UNCHANGED <<row, session, lock, sampledBy, connected, presence>>
    /\ ForgetKids

(* After the goroutines ended or 30 s passed, whichever comes first.       *)
Revert(w) ==
    /\ worker[w] = "draining"
    /\ SetWorker(w, "reverted")
    /\ row' = [t \in Task |-> RevertProcessingTasks(row[t], w)]
    /\ UNCHANGED <<notices, live, connected, presence>>

Exit(w) ==
    /\ worker[w] = "reverted"
    /\ SetWorker(w, "down")
    /\ EndSessions(w) /\ Disconnected(w)
    /\ UNCHANGED <<store, exec, lock, sampledBy, presence>>
    /\ ForgetKids

----------------------------------------------------------------------------
(* Connections.  The key is set before the subscription, and its 30 s TTL  *)
(* is renewed every 15 s by each subscribed connection.                    *)

SetConn(c, st) == connected' = [connected EXCEPT ![c] = st]

Connect(c) ==
    /\ connected[c] = "off" /\ Running(Host[c])
    /\ SetConn(c, "joining") /\ presence' = TRUE
    /\ UNCHANGED <<store, live, worker>>

Subscribe(c) ==
    /\ connected[c] = "joining"
    /\ SetConn(c, "on")
    /\ UNCHANGED <<store, live, worker, presence>>

(* Messages c has not read yet are lost with its subscription.             *)
LosesUnread(c) ==
    \E S \in SUBSET {e \in Exec : session[e][c] = "got"} :
        session' = [e \in Exec |-> IF e \in S THEN [session[e] EXCEPT ![c] = "none"]
                                              ELSE session[e]]

Unsubscribe(c) ==
    /\ "redis" \in Faults /\ connected[c] = "on"
    /\ SetConn(c, "joining")
    /\ LosesUnread(c)
    /\ UNCHANGED <<store, exec, kids, lock, sampledBy, worker, presence>>

(* The request of c is over.  A subscribed connection reads no more, ...   *)
Leave(c) ==
    /\ "disconnect" \in Faults
    /\ \/ connected[c] = "on" /\ SetConn(c, "leaving") /\ LosesUnread(c)
       \/ connected[c] = "joining" /\ SetConn(c, "off") /\ UNCHANGED session
    /\ UNCHANGED <<store, exec, kids, lock, sampledBy, worker, presence>>

(* ... it deletes the key of the user, also when others are open, unless   *)
(* the DEL fails or the subscription was yet to be confirmed, ...          *)
RemoveUser(c) ==
    /\ connected[c] = "leaving"
    /\ SetConn(c, "closing")
    /\ presence' \in {presence, FALSE}
    /\ UNCHANGED <<store, live, worker>>

(* ... and Redis no longer counts it, by the deferred pubsub.Close or since*)
(* it noticed that the process is gone.                                    *)
Close(c) ==
    /\ connected[c] = "closing"
    /\ SetConn(c, "off")
    /\ UNCHANGED <<store, live, worker, presence>>

Heartbeat(c) ==
    /\ connected[c] = "on"
    /\ presence' = TRUE
    /\ UNCHANGED <<store, live, worker, connected>>

Expire ==
    /\ presence /\ Readers = {}
    /\ presence' = FALSE
    /\ UNCHANGED <<store, live, worker, connected>>

----------------------------------------------------------------------------
(* The user: REST handlers and MCP tools.  Not one of them looks at the    *)
(* status it overwrites.                                                   *)

UserSets(op, t, r) ==
    /\ op \in UserOps /\ Present(row[t])
    /\ row' = [row EXCEPT ![t] = r]
    /\ UNCHANGED <<notices, live, env>>

Pause(t)      == UserSets("pause", t, UpdateTaskStatus(row[t], "paused"))
Resume(t)     == UserSets("resume", t, UpdateTaskStatus(row[t], "active"))
ResumeMCP(t)  == UserSets("resume_mcp", t, ResetTaskFailureCount(row[t], "active"))
Approve(t)    == UserSets("approve", t, UpdateTaskApprovalStatus(row[t], "approved", "active"))
Deny(t)       == UserSets("deny", t, UpdateTaskApprovalStatus(row[t], "denied", "paused"))
DeleteTask(t) == UserSets("delete", t, DeletedRow)

UserStep(t) == \/ Pause(t) \/ Resume(t) \/ ResumeMCP(t)
               \/ Approve(t) \/ Deny(t) \/ DeleteTask(t)

----------------------------------------------------------------------------
DispatchStep(e) ==
    \/ AskApproval(e) \/ Missed(e) \/ NativeSucceeds(e) \/ NativeFails(e)
    \/ BackOff(e) \/ Publish(e) \/ DeliveryFails(e) \/ DispatchDependents(e)

SessionStep(e, c) ==
    \/ TakeLock(e, c) \/ LoseLock(e, c) \/ SampleSucceeds(e, c)
    \/ SampleFails(e, c) \/ SettleFailure(e, c) \/ SessionDependents(e, c)

TaskStep(t) == Age(t) \/ Reap(t) \/ UserStep(t)
ExecStep(e) == DispatchStep(e) \/ Retire(e) \/ Abandon(e)

WorkerStep(w) ==
    \/ StartWorker(w) \/ Listen(w) \/ LoseListener(w)
    \/ Crash(w) \/ Drain(w) \/ Revert(w) \/ Exit(w)

ConnStep(c) == \/ Connect(c) \/ Subscribe(c) \/ Unsubscribe(c)
               \/ Leave(c) \/ RemoveUser(c) \/ Close(c) \/ Heartbeat(c)

Next ==
    \/ \E t \in Task : TaskStep(t)
    \/ \E w \in Worker : WorkerStep(w)
    \/ \E w \in Worker : \E S \in SUBSET Task : Claim(w, S)
    \/ \E t \in Task : \E w \in Worker : SkipNotice(t, w)
    \/ \E e \in Exec : \E t \in Task : \E w \in Worker : Load(e, t, w)
    \/ \E e \in Exec : ExecStep(e)
    \/ \E e \in Exec : \E c \in Conn : SessionStep(e, c)
    \/ \E c \in Conn : ConnStep(c)
    \/ Expire

Spec == Init /\ [][Next]_vars

(* The clock advances, the tickers of the scheduler, the reaper and the    *)
(* heartbeat fire, goroutines run, and every call they make has a timeout. *)
(* Load is strongly fair because its slots are the model's: the code just  *)
(* starts a goroutine.  The user, faults, crashes and disconnections are   *)
(* under no obligation.                                                    *)
Fairness ==
    /\ \A t \in Task :
          /\ WF_vars(Age(t)) /\ WF_vars(Reap(t))
          /\ WF_vars(\E w \in Worker : \E S \in SUBSET Task : t \in S /\ Claim(w, S))
          /\ \A w \in Worker : SF_vars(\E e \in Exec : Load(e, t, w))
                               /\ WF_vars(SkipNotice(t, w))
    /\ \A e \in Exec :
          /\ WF_vars(DispatchStep(e)) /\ WF_vars(Retire(e))
          /\ \A c \in Conn : WF_vars(SessionStep(e, c))
    /\ \A w \in Worker : WF_vars(Listen(w)) /\ WF_vars(Revert(w)) /\ WF_vars(Exit(w))
    /\ \A c \in Conn : /\ WF_vars(Subscribe(c)) /\ WF_vars(Heartbeat(c))
                       /\ WF_vars(RemoveUser(c)) /\ WF_vars(Close(c))
    /\ WF_vars(Expire)

FairSpec == Spec /\ Fairness

----------------------------------------------------------------------------
TypeOK ==
    /\ row \in [Task -> Row]
    /\ notices \in [Task -> [Worker -> 0 .. NoticeLimit]]
    /\ worker \in [Worker -> WorkerState]
    /\ exec \in [Exec -> Job]
    /\ session \in [Exec -> [Conn -> SessionState]]
    /\ kids \in [Exec -> SUBSET Task]
    /\ lock \in [Exec -> Conn \cup {NoConn}]
    /\ sampledBy \in [Exec -> SUBSET Conn]
    /\ connected \in [Conn -> ConnState]
    /\ presence \in BOOLEAN

----------------------------------------------------------------------------
(* Safety.                                                                 *)

(* A row that somebody is supposed to work on names the worker, and a name *)
(* is left only on a processing row or, by resume_task, on an active one:  *)
(* no statement parks a task (paused, completed, error) under a lock.      *)
LockDiscipline ==
    \A t \in Task :
        /\ row[t].status = "processing" => row[t].lockedBy # NoWorker
        /\ row[t].lockedBy # NoWorker => row[t].status \in {"processing", "active"}

(* Whatever interleaving of claims, stale writes and user operations left  *)
(* a row in processing, its next_run is not ahead: the reaper, which looks *)
(* at next_run alone, can come to see it.                                  *)
ReaperCanSee ==
    \A t \in Task : row[t].status = "processing" => row[t].nextRun \in {"due", "stale"}

(* "Prevent Double Execution if user is connected from multiple terminals" *)
(* (session.go:316): all connections get the message of an execution, and  *)
(* at most one of them ever asks the LLM for it.                           *)
SampledOnce ==
    \A e \in Exec : \A c, d \in sampledBy[e] : c = d

(* At most one goroutine gets to completeTask for an execution, so its     *)
(* dependents are triggered at most once, also when PUBLISH failed after   *)
(* delivering and the dispatcher retries what a session is running.        *)
Completing(e) == {c \in Conn : session[e][c] \in {"completed", "activating"}}

CompletedOnce ==
    \A e \in Exec :
        /\ \A c, d \in Completing(e) : c = d
        /\ exec[e].pc \in {"completed", "activating"} => Completing(e) = {}

(* Once a worker has reverted its tasks on shutdown, no row is ever locked *)
(* under its id again: nobody would release it but the reaper.             *)
NoLockAfterRevert ==
    \A t \in Task : \A w \in Worker :
        worker[w] \in {"reverted", "down"} => row[t].lockedBy # w

(* A claimed task is in somebody's hands: its worker has the notice coming *)
(* or an execution of it is under way.  It takes LISTEN before the first   *)
(* claim, a trigger that has a next run, and no fault.                     *)
ClaimInHand ==
    \A t \in Task : row[t].status = "processing" =>
        notices[t][row[t].lockedBy] > 0 \/ ConcernedWith(t) # {}

(* "parallel worker nodes ... safely claim due tasks without ever double-  *)
(* triggering an action" (Docs.jsx:260): the user code or the LLM never    *)
(* works on one task in two executions together.  Of the code it is true   *)
(* only without faults, users and parents: a lost message is enough for a  *)
(* row to be recovered twice, the second time while it runs.               *)
NeverTwoExecutions ==
    \A e, f \in Exec :
        e # f /\ Executing(e) /\ Executing(f) => TaskOf(e) # TaskOf(f)

(* The reaper "recovers tasks that were locked by a worker that crashed":  *)
(* it leaves alone a task that is being executed, which by the timeouts of *)
(* every execution has not been in processing for 5 minutes.               *)
ReapsOnlyAbandoned ==
    [][\A t \in Task : Reap(t) =>
          \A e \in Exec : Executing(e) => TaskOf(e) # t]_vars

(* pause_task: a task the user paused becomes active only when the user    *)
(* resumes or approves it.                                                 *)
PausedUntilResumed ==
    [][\A t \in Task : row[t].status = "paused" /\ row'[t].status = "active" =>
          Resume(t) \/ ResumeMCP(t) \/ Approve(t)]_vars

(* "When a parent task finishes, any dependent tasks flagged with          *)
(* trigger_on_completion are fired immediately" (Docs.jsx:229): a child    *)
(* that was active when its parent completed is made due.                  *)
Owes(e, k) ==
    \/ k \in kids[e]
    \/ /\ exec[e].pc = "completed" \/ \E c \in Conn : session[e][c] = "completed"
       /\ k \in ToTrigger(TaskOf(e))

TriggersNotLost ==
    [][\A e \in Exec : \A k \in Task : Owes(e, k) /\ ~Owes(e, k)' =>
          row'[k].nextRun \in {"due", "stale"} \/ row'[k].status # "active"]_vars

----------------------------------------------------------------------------
(* Liveness, under FairSpec.                                               *)

(* A task never stays in processing: a lost notification, a crashed worker *)
(* or an abandoned goroutine is made up for by the reaper of any worker.   *)
StuckTasksRecover ==
    \A t \in Task : row[t].status = "processing" ~> row[t].status # "processing"

(* A task that is active comes up and is claimed.                          *)
ActiveTasksRun ==
    \A t \in Task : row[t].status = "active" ~> row[t].status # "active"

Fails(t) ==
    \E e \in Exec : /\ TaskOf(e) = t
                    /\ NativeFails(e) \/ DeliveryFails(e)
                       \/ \E c \in Conn : SampleFails(e, c)

Succeeds(t) ==
    \E e \in Exec : /\ TaskOf(e) = t
                    /\ NativeSucceeds(e) \/ \E c \in Conn : SampleSucceeds(e, c)

CutShort(t)  == \E e \in Exec : TaskOf(e) = t /\ Abandon(e)
Uncounted(t) == Fails(t) /\ row' = row

(* A task does not go on failing for ever unless successes come in between *)
(* or executions that end before they wrote its status, or whose failure   *)
(* the database refused to count, although crashes lose attempts on the    *)
(* way and the reaper starts the task again.                               *)
FailingTaskHalts ==
    \A t \in Task :
        []<><<Fails(t)>>_vars =>
        []<><<Succeeds(t) \/ CutShort(t) \/ Uncounted(t)>>_vars

(* A child its parent's completion is about to trigger gets to run.        *)
TriggeredChildRuns ==
    \A e \in Exec : \A k \in Task :
        k \in kids[e] ~> \E f \in Exec : Executing(f) /\ TaskOf(f) = k
=============================================================================
