# GSActionsMCP: specifications, model checking and proofs

GSActionsMCP runs scheduled tasks for users. A task is either JavaScript the server
executes itself ("native action") or a prompt that is sent, over an MCP session the user
keeps open, to the user's own LLM ("sampling"). Several server processes share one
PostgreSQL database and one Redis. This directory specifies the part of the program in
which those processes, the database, Redis and the user meet: who may run a task, when,
how often, and what is left behind when something fails.

## 1. The system

| Component | Code | State | Operations | Hard because |
|---|---|---|---|---|
| Task table | `db/queries.sql.go`, `schema.sql`, `migrations/007`, `008` | `status`, `locked_by`, `next_run`, `last_approval_status`, `failure_count`, `retry_count` | claim, complete, revert, reap, the status updates | every actor writes it, almost no statement tests what it overwrites |
| Scheduler | `scheduler.go` | claim notices, one goroutine per claimed task | poll, event-driven claim, LISTEN/NOTIFY, approval gate, offline policy, native run, publish, retry, completion, dependents | reads once and writes later; multi-statement updates; lost notices |
| Routers | `scheduler.go` 913-1574, `session.go` 254-276, manual route in `task_rest_handlers.go` | the debate of each session, council votes, manual requests | convene, decide, activate, conclude or halt | run once per connection; two updates for one decision; read long before they write |
| Session manager | `session.go` | presence key, connection count, execution lock, sampling goroutines | heartbeat, subscribe, lock, sample, settle | several terminals, several nodes, Redis failures, calls that outlive the connection |
| Worker process | `main.go` | process life cycle, WaitGroup | start, LISTEN, SIGTERM, drain, revert, exit | claims before LISTEN; sessions outlive the revert; a WaitGroup that never gets to zero |
| Reaper | `scheduler.go` 1267-1304 | none | reset rows stuck in processing | looks at `next_run` |
| User operations | `task_rest_handlers.go`, `api_handlers.go`, `tools.go` | the task table | pause, resume, approve, deny, delete, create, update, restore, link, import | concurrent with everything above |
| Rate limiter | `ratelimit.go` | token bucket in Redis | allow | refill arithmetic, expiry of the key |
| Quota, import, blueprints | `auth.go`, `tools.go`, `task_transfer.go`, `template_handlers.go` | the user's tasks and their dependencies | count then insert, create then link | check and act are apart; an import stops half-way |
| Versions | `task_rest_handlers.go` | the row, `task_versions` | update, restore, link | READ COMMITTED transactions that copy and then write |
| Events and webhooks | `pubsub.go`, `webhooks.go` | Redis channel, deliveries | publish, deliver, create and delete webhooks | every node delivers; deliveries outlive the signal to stop |
| Others | auth, billing, config, crypto, privacy, audit, metrics, analytics, e-mail, workspaces, templates, inbound webhooks, frontend | | | single statements, pure functions or reports |

How they interact: a worker claims due rows with `fn_claim_due_tasks`, which NOTIFYs
`task_claimed` in the same transaction; the claiming worker's listener starts a goroutine
per notice, which reads the row again, checks the approval, checks whether the user is
online (a Redis key with a 30 s TTL), and either runs native code or PUBLISHes the task to
`trigger_task:<user>`. Every SSE connection of the user, on any worker, receives the
message; a Redis `SET NX` on the execution id chooses the one that samples the LLM. The end
of a run writes the row and makes the dependent tasks due. A reaper on every worker resets
rows that stay in processing. Shutdown resets the rows locked by the worker. Meanwhile the
user writes the same rows through REST and MCP. The message of a router takes the same way
to a session, which instead of sampling lets a council choose one of the dependents and
makes that one due; if it cannot, the router halts until the user routes by hand. Every
process also subscribes to a channel of events and posts them to the user's webhooks. The
limits (10 connections, 5 requests a second, a quota of tasks) are counters in Redis and in
the database that several requests read and write.

What makes each part correct: a task has at most one execution at a time and each due time
at least one; a claim ends (completed, retried, given up or recovered); a failing task
halts; a paused task stays paused; an approval is spent by one execution; a parent's
completion reaches its children; a lock outlives neither its holder's work nor its holder; a
router takes one branch or waits for the user, and the branch runs; a council decides what
most of its members chose; a counter never counts less than there is, a bucket never gives
less than its rate, but for requests whose clocks come out of order, and a missing key never
gives more; what a user wrote can be had back;
an imported bundle is connected like the original; a process that stops finishes what it
started.

The hazards, each at its line, are in `PROJECT.json` under `hazards`, with the property
that would notice it, or the reason why none does yet.

## 2. Modules

| Module | What it models |
|---|---|
| `TaskStore` | a row of the task table, and each SQL statement as an operator from a row to a row |
| `Scheduler` | the scheduler, the dispatch goroutines, the sessions, the worker processes, presence, the reaper and the user, over that table |
| `SchedulerHistory` | the scheduler with two history variables: approvals not spent yet, failures in a row |
| `Lease`, `SchedulerLease` | who may work on a task, without rows, notices and locks; the mapping under which the scheduler implements it |
| `Routing` | extends `Scheduler` with the sessions of decision and swarm routers and with manual route requests |
| `Council` | the vote of a swarm's council |
| `RateLimiter` | the token bucket script |
| `ConnectionCount` | the counter of SSE connections |
| `TaskIntake` | quota, creation, import and blueprint deployment |
| `TaskVersions` | update, restore, link and the versions of one task |
| `EventDelivery` | events, subscribers, webhook deliveries, and a process that stops |
| `MCScheduler`, `MCHistory`, `MCRouting`, `MCServices` | instances for TLC |
| `SchedulerProofs` | theorems about `Scheduler`, `SchedulerLease` and `SchedulerHistory` |
| `RoutingProofs`, `CouncilProofs`, `RateLimiterProofs`, `ConnectionCountProofs`, `TaskIntakeProofs`, `TaskVersionsProofs`, `EventDeliveryProofs` | theorems about the module each is named after |

### State

| Variable | Code |
|---|---|
| `row[t]` | the row of task `t`. `next_run` is kept as its relation to the clock: `later` (a retry's backoff), `future`, `due`, `stale` (older than the reaper's 5 minutes) |
| `notices[t][w]` | notifications of `task_claimed` about `t` on their way to worker `w` |
| `worker[w]` | `new`, `starting` (no LISTEN yet or any more), `up`, `draining` (SIGTERM), `reverted`, `down`, `crashed` |
| `exec[e]` | the goroutine of `handleTaskClaimNotification`/`handleDispatchTask`, with the row it read and the answer of `IsOnline` |
| `session[e][c]` | the goroutine that connection `c` runs for the message of execution `e` |
| `kids[e]` | dependents that `completeTask` has read and not yet updated |
| `lock[e]` | the key `lock:exec:<execution id>` |
| `sampledBy[e]` | history: the connections that asked the LLM |
| `connected[c]`, `presence` | how far SSE connection `c` is: `joining` (key set, not subscribed), `on`, `leaving` (nobody reads any more), `closing` (the DEL is past, Redis still counts the subscription); the key `session:<user>` |

The other modules:

| Variable | Code |
|---|---|
| `Routing`: `debate[e][c]` | the `dependents` and the match of `executeDecisionRouter` / `executeSwarmRouter`; `session[e][c]` goes through `debating`, `matched` or `unmatched`, `routed` |
| `manual[m]`, `picked[r]` | a request in `apiManualRouteHandler`; history: branches activated for `r` since it was claimed |
| `Council`: `responses`, `counts`, `maxCount`, `finalChoice` | the locals `agentResponses`, ... of `executeSwarmRouter`; `asked` and `uncounted` are what the goroutines and the loop have yet to do |
| `RateLimiter`: `tokens`, `age`, `ttl` | the hash `ratelimit:<user>`, `last_refill` as its distance to the clock; history: `promised`, the bucket of the documentation, and `lost`, what denials with an old clock took |
| `ConnectionCount`: `count`, `expiry`, `link[l]` | the key `conn_count:<user>`, whether it has a TTL, how far connection `l` is in `MaintainHeartbeat`; `dismissed` and `unheard` are refused connections before and after their DECR, still served; history: `missed` |
| `TaskIntake`: `tasks`, `parent`, `intake[m]` | rows and `depends_on_task_id`, a request with the ids it has created |
| `TaskVersions`: `current`, `versions`, `draft[m]` | the row, the rows of `task_versions`, a transaction that has copied the row |
| `EventDelivery`: `backlog`, `calls`, `drain`, `active` | the Go channel, deliveries under way with their time left, the time of `shutdownCtx`, the webhooks |

### Granularity

A step is one committed SQL statement or one Redis command, with the local code up to the
next one. That is where the program can be interrupted in a way others see. `Load` joins
`GetDispatchableTaskByID` with the `IsOnline` that follows it, `TakeLock` joins
`GetTaskByID` with the `SET NX`, because nothing is written between. A retry is two
steps (`CountAttempt`, `BackOff`); a completion is the update, the read of the children
and one update per child.

A message and its reader are apart. `Publish` learns only how many subscriptions Redis
counts (`Subscribers`), and a session in `got` stands for a message in the channel of the
connection as well as for the goroutine started for it. A connection that ends takes three
steps: it stops reading, and any of the messages in its channel are lost (`Leave`); it
deletes the key, which may fail (`RemoveUser`); it unsubscribes (`Close`). Between the first
and the last, PUBLISH counts a connection nobody reads: the dispatcher takes the message for
delivered and the row stays in processing until the reaper comes. A crash goes to the same
state, until Redis notices.

In the modules of the services a step is a statement, a Redis command or a transaction that
commits at once after its last statement; the Lua script is one step because Redis runs it
so. In `ConnectionCount`, INCR and EXPIRE are two steps, since a process may die between
them. A script of the rate limiter runs with a clock that its process read up to `MaxLag`
ticks before: scripts run in any order of their clocks, so the time since `last_refill` may be
negative. `EndRequest` lets an import stop between any two of its statements.

An element of `Exec` is room for one execution; it is used again (`Retire`) once its
dispatcher and sessions have ended. The code has no such limit, so the fairness of `Load`
is strong (section 4).

### Time

There is no clock. `Age` moves `next_run` of a row towards `stale` at any moment, with
two exceptions that the code's timeouts justify:

* what is under way when a retry is put off is over when the backoff ends: a dispatcher has
  60 s, a sampling 30 s (plus the reads around it), and the shortest backoff is 2 minutes;
* `next_run` does not become stale (5 minutes) while a notice or an execution of the task
  is under way, nor while a claimable row waits for a running worker's poll (30 s, up to
  5 minutes by configuration).

So the model does not contain a goroutine that stays suspended for minutes, nor a
scheduler that is minutes behind; every interleaving within those limits it does. The lock
key (5 minutes) outlives the execution it belongs to and never expires early.
A statement whose context is cancelled at shutdown either commits before the revert (then
it is the step taken before `Drain`) or does not commit.

In `RateLimiter` time passes in ticks, of which `Second` make a second; in `EventDelivery`
in steps of 10 s, the timeout of a delivery, and a call whose time is up ends before more
passes. In `ConnectionCount` the key expires when no connection that renews it is left:
renewal comes four times a minute.

### What a step leaves out

Logs, traces, events, e-mails, the contents of prompts and outputs, secrets. The outcome
of user code and of the LLM is `ok` or `fail`. A branch condition may hold or not.
`NextRuns[t]` is the set of results `calculateNextRun` may have for the task: `{}` is its
error for a malformed trigger. `failure_count` and `retry_count` stop counting just past
the limits they are compared with.

Faults are a parameter: `crash`, `shutdown`, `listener` (the LISTEN connection is
lost), `timeout` (a goroutine ends where it is), `redis` (a command fails, before or after
it took effect), `db` (a statement fails and the code goes on or gives up), `blank` (the
prompt resolves to nothing and the session refuses the message), `disconnect`.

## 3. Runs

Tasks, workers, connections and executions are model values; executions are symmetric in the
safety runs, and the connections of run `redis`, which one worker serves. Two workers are
enough for every pairwise race on a row; two executions are enough for two runs of one task to
overlap; two tasks make a parent and a child; two connections make the races for the lock.
`NoticeLimit` bounds undelivered notices of one task per worker: a claim waits when it is
reached.

| Run | Properties | Instance | What it shows |
|---|---|---|---|
| `safety` | `TypeOK`, `LockDiscipline`, `ReaperCanSee`, `NoLockAfterRevert` | 1 gated task, 2 workers of which one starts late and one may die, all user operations, crash, shutdown, lost listener, timeouts | the table stays in order whatever statement comes when |
| `redis` | `SampledOnce`, `CompletedOnce` | an agent parent and its native child, 2 connections that come and go and lose messages, failing Redis and database calls, timeouts | the execution lock works under failures |
| `exclusive` | `NeverTwoExecutions`, `ClaimInHand`, `ImplementsLease`, `ErrorIsEarned` | a native and a looping agent task, 2 workers, 2 executions, 2 connections that open during the run; no fault, and the user leaves the tasks alone | claims are exclusive, none is orphaned, a task passes through one hand after the other, and only failures in a row give it up |
| `recovery` | `StuckTasksRecover`, `ActiveTasksRun`, `FailingTaskHalts` | native and agent task without next run, crash (with the messages it loses), timeouts, failing statements, blank prompts | processing always ends, active always runs, failures end |
| `chain` | `TriggersNotLost`, `TriggeredChildRuns` | date parent, recurring child | completion reaches the child |
| `routing` | `RoutingTypeOK`, `HaltedIsRoutable`, `OneBranchPerRun`, `ManualRouteOfHalted`, `PickedBranchRuns` | a router with two branches under one key, one a date task, the other a misconfigured router; 1 worker, 1 connection, 1 manual client that may go away | a run takes one branch or waits for the user; the branch runs |
| `services` | the invariants of the service modules, `DrainAbandonsNothing`, `ShutdownEnds` | see below | |
| `reaper` | `ReapsOnlyAbandoned` (violated) | one crash | the reaper resets a row that is being executed |
| `double_trigger` | `NeverTwoExecutions` (violated) | parent and child, no faults | a claimed child is made active by its parent |
| `pause_undone` | `PausedUntilResumed` (violated) | user pauses and resumes | the end of a run undoes a pause |
| `approval_reused` | `ApprovalPerExecution` (violated) | gated task that fails | a retry runs on the old approval |
| `rate` | `RateHonoured` (violated) | the bucket | denied requests refill the bucket twice |

`services` checks the components that share no state in one run. `MCServices` adds the
variable `part`, chosen at the start: one component moves, the others stay where they
begin, so the states add up and are not multiplied.

| Part | Instance | Properties | What they show |
|---|---|---|---|
| council | 3 agents, 3 names, 3 keys | `ConsensusIsPlurality` | whatever the order of answers and of the map: the plurality, or none on a tie |
| limiter | cost 4, rate 1, capacity 9, 4 ticks a second, clocks up to 2 ticks old, up to 6 fractions lost | `NeverTooStrict`, `ExpiryGrantsNothing` | who keeps below the rate is denied only for the order of the clocks, by what that cost; an expired key is a full bucket. The capacity is no multiple of the cost, and the seconds do not divide it, so that rounding matters |
| connections | 4 connections on 2 nodes, limit 2, one error more | `CountCoversLinks`, `LimitHolds` | no more connections than the limit announce the user and get his tasks, but for those whose own increment failed or whose count expired under them; refused ones are served on beside them |
| intake | 3 ids, quota 1, 2 requests, a bundle whose first item depends on its second | `QuotaOvershoot`, `BundleKeepsShape` | the quota is exceeded by less than the number of requests; imports keep links in any order |
| versions | 2 prompts, 1 parent, 2 editors | `PromptsRecoverable` | no prompt is lost unless two requests overlap |
| delivery | 2 servers, 1 event, 2 webhooks | `OneCopyPerServer`, `DrainAbandonsNothing`, `ShutdownEnds` | at most one copy per server; a stop takes its time, but cuts no delivery |

`exclusive` excludes what breaks exclusion. The violated runs show a crash followed by two
recoveries, and a parent's trigger, each breaking it by itself; the user's resume of a
running task does so too, and so does a connection that closes: with `"disconnect"` in
`Faults` TLC finds `NeverTwoExecutions` and `ClaimInHand` violated. PUBLISH counts a
connection that has stopped reading, the row stays in processing, is reaped with its old
`next_run`, claimed stale, and reaped again while it runs. What the code promises then is
what `recovery` checks: the task is not lost. `recovery` has no `"disconnect"` (it would take
too long); it has the same lost messages after a crash, whose subscription is counted on.
`chain` excludes crashes: with `"crash"` in `Faults`, TLC finds
`TriggersNotLost` violated, since nothing resumes a completion cut short; and it does not
state `FailingTaskHalts`, since a child that its parent triggers while it runs is executed
twice and the later end may overwrite the first one's error. `routing` has one connection:
with two, both route, and TLC finds `OneBranchPerRun` violated; likewise with `"db"` in
`Faults`, as the code ignores whether the activation succeeded. `PromptsRecoverable` without
its condition is violated by two updates that copy the same row. `ErrorIsEarned` is about
`failure_count`; `retry_count` is not reset by a success, whatever `schema.sql` says,
because migration 007 replaces the function.

`FailingTaskHalts` says: if a task fails for ever, it also succeeds for ever, or executions
of it are cut short for ever, or failures of it are for ever left uncounted. The last two are
needed: a session that is about to give the task up may be killed by its timeout each time,
and the statement that counts a failure may fail each time, which reads as no failure.

`recovery` and `services` set `CHECK_DEADLOCK FALSE`. In the first nothing is left to do
once both tasks are parked and the only connection went down with its worker; in the second
a user may stop sending requests, and the ids, bounded, may all be in use. All other runs
check for deadlock.

## 4. Fairness

`FairSpec` assumes weak fairness of the clock (`Age`), of the reaper and of claiming (the
tickers fire for as long as a worker runs), of each goroutine's next step (every call has
a timeout, and both outcomes are steps), of LISTEN being set up, of the phases of a shutdown
once begun, of heartbeats and of the key's expiry, and of the end of a connection that has
stopped reading (`RemoveUser`, `Close`: the DEL has a timeout, the unsubscription is
deferred, and Redis closes the connections of a dead process). `Load` is strongly fair per task and
worker: slots of the model may be taken and released again for ever, where the code starts
a goroutine at once. Claiming is fair per task: the query takes 50 rows by poll,
and the model does not have more. Nothing is assumed of users, faults, crashes or
disconnections.

`RoutingFairSpec` adds that a routing session goes on to its end (120 s) and that a manual
request once begun goes on or breaks off; nobody is obliged to send one. `DeliveryFairness`
is the passing of time, the end of a call whose time is up and the exit of a process that
may exit; no message need arrive and no process need be stopped or restarted.

## 5. Refinement

`Lease` knows of a task only that it is free, granted or running. `SchedulerLease` maps the
scheduler to it: granted while a notice of the claim is on its way, a dispatcher has not
decided, or the message waits for a session to take the lock; running while the code of a
native task or the LLM of the user runs. Every step of the scheduler, in the regime of run
`exclusive`, is a step of `Lease` or leaves it alone, in particular the second update of a
retry, which comes after the row may have been claimed again, and the notice, lock and
message of an execution that is over. A claim grants several tasks at once, as the query
does.

`SchedulerImplementsLease` proves it for every instance that is `Calm` (section 6). The
mapping is a function of all executions and sessions; the proof first shows
(`LeaseStage`) that it depends only on the one execution that has the task in hand, so that
each step of the scheduler concerns one task of `Lease`, the claim apart.

## 6. Proofs

The theorems hold for any sets and numbers, under the named assumption of the module they
are about (`StoreAssumption`, `SchedulerAssumption`, `RoutingAssumption` and one of each
service module): sets the code bounds are finite, limits are positive, dependencies lead to
tasks, the capacity of a bucket covers a request. TLC evaluates each assumption in the runs.

| Theorem | Property | Regime |
|---|---|---|
| `TypeCorrect` | `TypeOK` | any |
| `LocksAreDisciplined` | `LockDiscipline` | any |
| `ReaperSeesProcessing` | `ReaperCanSee` | any |
| `RevertIsFinal` | `NoLockAfterRevert` | any |
| `OwnershipHolds` | `Ownership`, the strengthening of the next two | any |
| `SamplingIsExclusive` | `SampledOnce` | any |
| `CompletionIsExclusive` | `CompletedOnce` | any |
| `TriggersArrive` | `TriggersNotLost` | `Unbroken` |
| `NoTaskRunsTwice` | `NeverTwoExecutions` | `Calm` |
| `ClaimsAreInHand` | `ClaimInHand` | `Calm` |
| `SchedulerImplementsLease` | `ImplementsLease` | `Calm` |
| `ErrorsAreEarned` | `ErrorIsEarned` | `Calm` |
| `RoutingTypeCorrect`, `HaltedRoutersAreRoutable` | `RoutingTypeOK`, `HaltedIsRoutable` | any |
| `RouterTakesOneBranch`, `ManualRoutesAreOfHalted` | `OneBranchPerRun`, `ManualRouteOfHalted` | `Guided` |
| `CouncilTypeCorrect`, `ConsensusIsThePlurality` | `CouncilTypeOK`, `ConsensusIsPlurality` | any |
| `LimiterTypeCorrect`, `LimiterIsNeverTooStrict`, `ExpiryIsHarmless` | `LimiterTypeOK`, `NeverTooStrict`, `ExpiryGrantsNothing` | any |
| `ConnectionTypeCorrect`, `CountNeverUnderstates`, `ConnectionLimitHolds` | `ConnectionTypeOK`, `CountCoversLinks`, `LimitHolds` | any |
| `IntakeTypeCorrect`, `BundlesKeepShape`, `QuotaIsOvershotByRequestsOnly` | `IntakeTypeOK`, `BundleKeepsShape`, `QuotaOvershoot` | any |
| `VersionsTypeCorrect`, `PromptsStayRecoverable` | `VersionsTypeOK`, `PromptsRecoverable` | any |
| `DeliveryTypeCorrect`, `NoMoreCopiesThanServers`, `DrainLosesNoDelivery` | `DeliveryTypeOK`, `OneCopyPerServer`, `DrainAbandonsNothing` | any |

"Any" is every configuration, user operation and fault. Three regimes are conditions on
the constants, hypotheses of the theorems that need them, as the code does not keep the
promise without:

* `Unbroken` (run `chain` is an instance): no crash, shutdown, timeout or failing statement,
  no branch condition, no deletion. Each cuts a completion short, passes over a
  dependent, or leaves it without a parent. Users may do everything else; workers, tasks and
  connections are any.
* `Calm` (run `exclusive` is an instance): no user operation and no fault, not even a
  connection that closes, every worker listens before the first claim, no task has a parent, and the next run of a
  task comes up again, not long past. The runs `double_trigger` and `reaper` show what a
  parent and a crash do; a message lost on a closing connection leaves a row that is recovered
  twice (section 3); a user's resume makes a running task claimable; a claim before
  LISTEN has no notice; a next run long past is reaped while it runs.
* `Guided` (run `routing` is an instance): no user operation, no fault but manual requests
  that break off, every worker listens before the first claim, one connection, open
  from the start, at most one manual request at a time, and a router that can route has no parent. (That no router is
  native is no restriction: a task has one `task_type`.) Tasks of every other kind, their
  dependents, keys, workers and branches are any, and a branch may be a misconfigured router.
  TLC finds a counterexample to one of the two properties in a small instance
  without each: two connections, a resume, a failing statement, a second request, a parent,
  a claim before LISTEN, a listener lost, a timeout, a disconnection, an error of Redis. For
  crashes and shutdowns it found none in an instance with one worker; there the invariant
  below does not hold, and the theorems leave the question open.

### The table

The row theorems go through one lemma, `StepRows`: every step of the system changes each
row in one of seven ways (`RowStep`): not at all; to the deleted row, where the user may
delete; to some unlocked row that is not processing; by ageing; by a claim of a due row by
a running worker; by counting a failure; by `resume_task`. Each action is shown to be such
a step once; the row invariants are then case splits over seven lines and not over some
forty actions. `RevertIsFinal` adds that a worker that has reverted stays so
(`RevertedStays`).

### Executions

`SampledOnce` and `CompletedOnce` are not inductive. `Ownership` is: a session past the
lock is the one the Redis key names, and as long as a dispatcher may still complete an
execution itself no session has its message. The second part is what makes
`CompletedOnce` hold after a `PUBLISH` that failed and delivered: the dispatcher goes to
the retry, never to a completion.

`TriggersArrive` needs to know who will trigger a dependent that was read: `UnbrokenInv`
says that no process stops, no row is gone, and `kids` is kept only by an execution that is
still triggering.

Exclusive execution needs the whole way of a claim. `CalmInv` says of each task: at most one
notice, at one worker (`OneNotice`); at most one execution that has it in hand, and none while
a notice is under way (`OneHolder`); as long as a notice or an execution has it, its row cannot
be claimed, and a row in processing is had by one (`RowKept`). That a published message has a
reader is `AllRead`: as long as no connection closes, Redis counts no subscription that nobody
reads. The difficulty is a retry: its first update makes the row active while it is still due,
so that it may be claimed and executed again before the second update puts it off. `RowKept`
therefore allows a row in hand that is active with a `later` next run, which section 2 keeps
from coming up while something is under way. `NeverTwoExecutions` and `ClaimInHand` follow at
once. For the refinement, `LeaseStage` shows that under `CalmInv` the mapped state of a task is
the stage of its one holder.

`ErrorsAreEarned` adds the counters: the failures in the row, and those a dispatcher
read at its start and will write back incremented, never exceed the failures in a row
(`StreakInv`); writing a stale count back can therefore lose failures, and never invent any.

### Routers and services

`OneBranchPerRun` and `ManualRouteOfHalted` need a router's whole way, and each other.
`GuidedInv` says of every router that can route (`OnCourse`): it is in processing exactly as
long as one notice announces it or one execution carries it (`RootRow`, `OneCarrier`), its
claim is due and never stale, so that the reaper leaves it alone; nothing is picked for it
until its session has routed, and one task from then on (`RootPick`). It says of an execution
that a router's is dispatched or in a session and never retried (`Course`), and of a debate
that it is about tasks with a parent (`Debated`): what is activated is never a router that
routes. A manual request under way has found its router halted, and nothing takes a router
out of its halt but the completion of that request (`Asked`, `StaysHalted`); that is why a
request adds to the picks of no run.

| Invariant | Parts that are not properties, and why they are needed |
|---|---|
| `RoutingInv` | `ChoiceIsTask`, `RequestIsWhole`: a session that activates has chosen a task, a manual request has named one |
| `CouncilInv` | `ResponsesAreBallots`, `CountsAreTallies`, `RunningMaximum`: the counts are the tally of the names counted so far, the choice has the maximum so far |
| `LimiterInv` | `CoversPromise`, `LivesUntilFull`: the bucket holds what the documented one would less what was lost, and its key outlives the time that fills it by a second, in which what was lost may be refilled |
| `ConnectionInv` | `WithinLimit`: of the connections let in, also those not yet subscribed or in trouble, there are no more than the limit and those missed; a refused connection is not among them, served or not |
| `IntakeInv` | `MadeOnce`, `LinkedSoFar`: no id is made by two requests, and the links an import has written are there |
| `PlacesTaken` | rows and the requests that have counted but not inserted, for `QuotaOvershoot` |
| `VersionsInv` | `CopiesAreCurrent`: an editor alone has copied the row as it is |
| `DeliveryInv` | `WaitsOnce`, `CopiesToCome`: copies made and copies that may still come are bounded together |
| `DrainInv` | `CallsEndInTime`, `CallsAreFinite`: a delivery under way ends before the drain's time is up |

The steps of `Routing` that are steps of the scheduler are covered by `StepRows` in
`RoutingProofs`; no module is proved about twice.

### Only model-checked

* Liveness, which the prover does not reach: `StuckTasksRecover`, `ActiveTasksRun`,
  `FailingTaskHalts`, `TriggeredChildRuns`, `PickedBranchRuns`, `ShutdownEnds`.

No module declares a `RECURSIVE` operator.

## 7. Where the code and its documents differ

The five violated properties quote what the documents, comments or tool descriptions say;
see `findings` in `PROJECT.json`. In short: the reaper's threshold is measured from the due
time and not from the claim; a parent's trigger overwrites a claimed child; the end of a
run overwrites a pause; retries reuse an approval; a denied request is refilled again for
the same time. Smaller ones, not given a run: `retry_count` (section 3);
a connection above the limit, of which the log says "Rejecting SSE." (`session.go:102`): only
its heartbeat goroutine ends, while `main.go:379-380` serves its stream on beside it, uncounted
and without tasks; the tenth request of a burst on a full bucket, denied when its clock was
read before that of one whose script ran first, and a negative number of tokens stored by such
a denial; a message that PUBLISH counted and nobody read, when its connection closes;
two connections routing twice; imports and blueprints that no quota counts; an empty council,
for which the code sets a status the table rejects; `mustParseUUID`, which after its 400
lets an update go on and clear the dependency; a delivery whose time is up, recorded under
the same expired context; a native task with a date trigger, due again after each run; and
`ClaimTaskByID`, which sets a column that does not exist.

## 8. Assumptions

* `RequestSampling` reaches the client of the connection and returns in time or not at all;
  its answer is any.
* The Go channel of a go-redis subscription stays open when the context given to `Subscribe`
  is cancelled, so that the event subscriber outlives the signal to stop.
* The clocks of the nodes agree, and a goroutine is not suspended for minutes (section 2).
* Between the reading of the clock in `Allow` and its script lie at most `MaxLag` ticks: the
  call has a timeout of 100 ms, and a script already sent may wait in Redis a little longer.
  `NeverTooStrict` states its error in terms of that lag and of what was lost to it.
* The buffer of a subscription's Go channel (100 messages) does not overflow: a reader only
  starts goroutines.
* PostgreSQL runs at READ COMMITTED, the default, which no code changes; a single UPDATE
  evaluates its condition and writes in one step.

## 9. Not modelled, and the plan

Not modelled for good: frontend, packaging, authentication, billing, configuration, crypto,
privacy, audit, metrics, e-mail, the SSE stream to browsers, workspaces and templates other
than deployment (no state shared with what is modelled, single statements, or pure I/O). The
prompt resolver changes no state, and its error changes nothing either: `session.go:288-311`
traces it and goes on to sample. A message without a prompt is refused before that (the fault
`blank`). Inbound webhooks end in an error always, see above. Prompts, outputs and workflow
state are data no property tells apart. Import and scheduler are not composed: `Scheduler` has
a fixed set of tasks.

What is left is to prove more:

1. `Calm` allows no parents. It should be enough that none is triggered by its parent's
   success (`Chained = {}`), with the read of no dependents as a step more.
2. `NeverTwoExecutions` with users who may only pause, approve and deny.
3. `Guided` with crashes and shutdowns, if the two properties hold there: a row in processing
   would have no carrier until the reaper comes.
