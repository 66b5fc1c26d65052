---------------------------- MODULE RoutingProofs ----------------------------
(***************************************************************************)
(* Proofs about the routers, for every set of tasks, keys, connections,    *)
(* manual route requests, user operations and faults.  A step of the       *)
(* scheduler does to a row what SchedulerProofs says; the steps of the     *)
(* routing sessions and of the manual requests are done here.  That one    *)
(* branch is taken, and that a manual route finds its router halted, holds *)
(* where executions of a router do not overlap: the regime Guided.         *)
(***************************************************************************)
EXTENDS Routing, SchedulerProofs, FiniteSetTheorems

----------------------------------------------------------------------------
(* What the types rest on.  A session that is to activate a task has one,  *)
(* and a manual request that was checked names a router and a task; a      *)
(* request that aborts forgets both.                                       *)
ChoiceIsTask ==
    \A e \in Exec : \A c \in Conn :
        session[e][c] = "matched" => debate[e][c].target \in Task

RequestIsWhole ==
    \A m \in Client : manual[m].pc # "idle" =>
        manual[m].source \in Routers /\ manual[m].target \in Task

RoutingInv == RoutingTypeOK /\ ChoiceIsTask /\ RequestIsWhole

DebateRecord == [options : SUBSET Task, target : Task \cup {NoTask}]
ManualRecord == [pc : ManualState, source : Routers \cup {NoTask}, target : Task \cup {NoTask}]

(* The records a step leaves are of the type; an EXCEPT changes one field. *)
LEMMA RoutingRecords ==
    /\ NoDebate \in DebateRecord
    /\ NoManual \in ManualRecord
    /\ \A S \in SUBSET Task : [NoDebate EXCEPT !.options = S] \in DebateRecord
    /\ \A d \in DebateRecord : \A k \in Task :
          [d EXCEPT !.target = k] \in DebateRecord /\ [d EXCEPT !.target = k].target = k
    /\ \A r \in ManualRecord : \A pc \in ManualState :
          /\ [r EXCEPT !.pc = pc] \in ManualRecord /\ [r EXCEPT !.pc = pc].pc = pc
          /\ [r EXCEPT !.pc = pc].source = r.source /\ [r EXCEPT !.pc = pc].target = r.target
  BY DEF NoDebate, DebateRecord, NoManual, ManualRecord, ManualState

(* The scheduler brings no session into a debate: it only ends them.       *)
LEMMA SchedulerOpensNoDebate ==
    ASSUME TypeOK, [Next]_vars, NEW e \in Exec, NEW c \in Conn,
           session'[e][c] \in RoutingState
    PROVE  session[e][c] = session'[e][c]
<1> USE DEF live
<1>0. session \in [Exec -> [Conn -> SessionState]]
  BY DEF TypeOK
<1>1. CASE \E t \in Task : TaskStep(t)
  BY <1>1 DEF TaskStep, Age, Reap, UserStep, Pause, Resume, ResumeMCP, Approve, Deny,
              DeleteTask, UserSets
<1>2. CASE \E w \in Worker : WorkerStep(w)
  BY <1>2 DEF WorkerStep, StartWorker, Listen, LoseListener, Crash, Drain, Revert, Exit,
              EndSessions, RoutingState
<1>3. CASE \/ \E w \in Worker : \E S \in SUBSET Task : Claim(w, S)
           \/ \E t \in Task : \E w \in Worker : SkipNotice(t, w)
           \/ \E f \in Exec : \E t \in Task : \E w \in Worker : Load(f, t, w)
  BY <1>3 DEF Claim, SkipNotice, Load
<1>4. CASE \E f \in Exec : ExecStep(f)
  <2>1. PICK f \in Exec : ExecStep(f)
    BY <1>4
  <2>2. CASE DispatchStep(f)
    <3>1. session' = session \/ Deliver(f)
      BY <2>2 DEF DispatchStep, AskApproval, Missed, NativeSucceeds, NativeFails, BackOff,
                  Publish, DeliveryFails, DispatchDependents
    <3>2. session'[e][c] = "got" \/ session'[e][c] = session[e][c]
      BY <1>0, <3>1 DEF Deliver
    <3>3. QED BY <3>2 DEF RoutingState
  <2>3. CASE Retire(f) \/ Abandon(f)
    <3>1. session'[e][c] = "none" \/ session'[e][c] = session[e][c]
      BY <1>0, <2>3 DEF Retire, Abandon, Goes
    <3>2. QED BY <3>1 DEF RoutingState
  <2>4. QED BY <2>1, <2>2, <2>3 DEF ExecStep
<1>5. CASE \E f \in Exec : \E d \in Conn : SessionStep(f, d)
  <2>1. PICK f \in Exec, d \in Conn : SessionStep(f, d)
    BY <1>5
  <2>2. \E st \in SessionState \ RoutingState : Goes(f, d, st)
    BY <2>1 DEF SessionStep, TakeLock, LoseLock, SampleSucceeds, SampleFails, SettleFailure,
                SessionDependents, SessionState, RoutingState
  <2>3. QED BY <2>2 DEF Goes, TypeOK
<1>6. CASE (\E d \in Conn : ConnStep(d)) \/ Expire
  BY <1>6, ConnFrame DEF DropsUnread, RoutingState
<1>7. CASE UNCHANGED vars
  BY <1>7 DEF vars
<1>8. QED BY <1>1, <1>2, <1>3, <1>4, <1>5, <1>6, <1>7 DEF Next

----------------------------------------------------------------------------
(* What the routers' own statements leave: a task made due or completed is *)
(* a row, and so is a router that halts.                                   *)
LEMMA RouteRows ==
    ASSUME NEW r \in Row
    PROVE  /\ UpdateTaskNextRun(r, "active", "due") \in Row
           /\ UpdateTaskNextRun(r, "active", "due").status = "active"
           /\ UpdateTaskStatus(r, "completed") \in Row
           /\ UpdateTaskStatus(r, "completed").status = "completed"
           /\ AskForRoute(r) \in Row
           /\ AskForRoute(r).approval = "needs_routing"
           /\ UpdateTaskApprovalStatus(r, "manual_routed", "completed") \in Row
           /\ UpdateTaskApprovalStatus(r, "manual_routed", "completed").status = "completed"
  BY DEF UpdateTaskNextRun, UpdateTaskStatus, AskForRoute, UpdateTaskApprovalStatus,
         Row, Status, NextRun, Approval

(* A row a router's step may leave: the old one, or one that is not halted *)
(* or asks for a route.                                                    *)
Routable(s) == s.status = "halted" => s.approval = "needs_routing"

RouteRow(r, s) == s = r \/ (s \in Row /\ Routable(s))

RowsRoute == /\ row' \in [Task -> Row]
             /\ \A t \in Task : RouteRow(row[t], row'[t])

(* An UPDATE of one row that leaves it so does so for the table.           *)
LEMMA PutRoutes ==
    ASSUME row \in [Task -> Row], NEW t, NEW s, Put(t, s),
           t \in Task => s \in Row /\ Routable(s)
    PROVE  RowsRoute
  BY DEF Put, RowsRoute, RouteRow

(* Whatever the routers' statements do, every row they leave is routable.  *)
LEMMA RouteStepRows ==
    ASSUME RoutingInv, NEW e \in Exec, NEW c \in Conn, RouteStep(e, c)
    PROVE  RowsRoute
<1>0. row \in [Task -> Row] /\ (row' = row => RowsRoute)
  BY DEF RoutingInv, RoutingTypeOK, TypeOK, RowsRoute, RouteRow
<1>1. CASE Convene(e, c) \/ Dismiss(e, c) \/ Decide(e, c)
  BY <1>0, <1>1 DEF Convene, Dismiss, Decide, store
<1>2. CASE Activate(e, c)
  <2> DEFINE k == debate[e][c].target
  <2>1. Put(k, UpdateTaskNextRun(row[k], "active", "due")) \/ row' = row
    BY <1>2 DEF Activate
  <2>2. k \in Task => row[k] \in Row
    BY <1>0
  <2>3. k \in Task => /\ UpdateTaskNextRun(row[k], "active", "due") \in Row
                      /\ Routable(UpdateTaskNextRun(row[k], "active", "due"))
    BY <2>2, RouteRows DEF Routable
  <2> HIDE DEF k
  <2>4. QED BY <1>0, <2>1, <2>3, PutRoutes
<1>3. CASE Conclude(e, c)
  <2> DEFINE t == TaskOf(e)
  <2>1. \/ Put(t, UpdateTaskStatus(row[t], "completed"))
        \/ Put(t, AskForRoute(row[t]))
        \/ row' = row
    BY <1>3 DEF Conclude
  <2>2. t \in Task => row[t] \in Row
    BY <1>0
  <2>3. t \in Task => /\ UpdateTaskStatus(row[t], "completed") \in Row
                      /\ Routable(UpdateTaskStatus(row[t], "completed"))
                      /\ AskForRoute(row[t]) \in Row /\ Routable(AskForRoute(row[t]))
    BY <2>2, RouteRows DEF Routable
  <2> HIDE DEF t
  <2>4. CASE Put(t, UpdateTaskStatus(row[t], "completed"))
    BY <1>0, <2>3, <2>4, PutRoutes
  <2>5. CASE Put(t, AskForRoute(row[t]))
    BY <1>0, <2>3, <2>5, PutRoutes
  <2>6. QED BY <1>0, <2>1, <2>4, <2>5
<1>4. QED BY <1>1, <1>2, <1>3 DEF RouteStep

(* The same of a manual request.                                           *)
LEMMA ManualRows ==
    ASSUME RoutingInv, NEW m \in Client,
           \/ ManualStep(m) \/ ManualAbort(m)
           \/ \E r \in Routers : \E k \in Task : ManualCheck(m, r, k)
    PROVE  RowsRoute
<1> DEFINE s == manual[m].source
           k == manual[m].target
<1>0. /\ row \in [Task -> Row] /\ (row' = row => RowsRoute)
      /\ s \in Task => row[s] \in Row
      /\ k \in Task => row[k] \in Row
  BY DEF RoutingInv, RoutingTypeOK, TypeOK, RowsRoute, RouteRow
<1>1. \/ Put(k, UpdateTaskNextRun(row[k], "active", "due"))
      \/ Put(s, UpdateTaskApprovalStatus(row[s], "manual_routed", "completed"))
      \/ row' = row
  BY DEF ManualStep, ManualVerify, ManualActivate, ManualConclude, ManualAbort, ManualCheck, vars
<1>2. /\ k \in Task => /\ UpdateTaskNextRun(row[k], "active", "due") \in Row
                       /\ Routable(UpdateTaskNextRun(row[k], "active", "due"))
      /\ s \in Task =>
            /\ UpdateTaskApprovalStatus(row[s], "manual_routed", "completed") \in Row
            /\ Routable(UpdateTaskApprovalStatus(row[s], "manual_routed", "completed"))
  BY <1>0, RouteRows DEF Routable
<1> HIDE DEF s, k
<1>3. CASE Put(k, UpdateTaskNextRun(row[k], "active", "due"))
  BY <1>0, <1>2, <1>3, PutRoutes
<1>4. CASE Put(s, UpdateTaskApprovalStatus(row[s], "manual_routed", "completed"))
  BY <1>0, <1>2, <1>4, PutRoutes
<1>5. QED BY <1>0, <1>1, <1>3, <1>4

(* A step of the scheduler parks no row as halted: only a row that was is. *)
LEMMA SchedulerRows ==
    ASSUME TypeOK, [Next]_vars, NEW t \in Task, Routable(row[t])
    PROVE  Routable(row'[t])
<1>1. RowStep(row[t], row'[t]) /\ row[t] \in Row
  BY StepRows DEF RowSteps, TypeOK
<1> DEFINE r == row[t]
           s == row'[t]
<1>2. RowStep(r, s) /\ r \in Row /\ Routable(r)
  BY <1>1
<1> HIDE DEF r, s
<1>3. Routable(s)
  BY <1>2 DEF RowStep, Routable, Free, DeletedRow, NewRow, Aged, ClaimTask,
              IncrementTaskFailureCount, ResetTaskFailureCount, Row, Due
<1>4. QED BY <1>3 DEF s

----------------------------------------------------------------------------
(* The types.  A session's step is of the scheduler's types but for kids,  *)
(* lock, notices and the processes, which it leaves alone.                 *)
LEMMA RouteStepType ==
    ASSUME RoutingInv, NEW e \in Exec, NEW c \in Conn, RouteStep(e, c)
    PROVE  TypeOK'
<1>1. row' \in [Task -> Row]
  BY RouteStepRows DEF RowsRoute
<1>2. UNCHANGED <<notices, exec, kids, lock, env>>
  BY DEF RouteStep, Convene, Dismiss, Decide, Activate, Conclude, store
<1>3. \E st \in SessionState : Goes(e, c, st)
  BY DEF RouteStep, Convene, Dismiss, Decide, Activate, Conclude, SessionState
<1>4. session' \in [Exec -> [Conn -> SessionState]]
  BY <1>3, GoesType DEF RoutingInv, RoutingTypeOK
<1>5. sampledBy' = sampledBy \/ sampledBy' = [sampledBy EXCEPT ![e] = @ \cup {c}]
  BY DEF RouteStep, Convene, Dismiss, Decide, Activate, Conclude
<1>6. sampledBy' \in [Exec -> SUBSET Conn]
  <2>1. sampledBy \in [Exec -> SUBSET Conn]
    BY DEF RoutingInv, RoutingTypeOK, TypeOK
  <2>2. QED BY <1>5, <2>1
<1>7. QED BY <1>1, <1>2, <1>4, <1>6 DEF RoutingInv, RoutingTypeOK, TypeOK, env

(* The debate of a session that goes on, and what it chose.                *)
LEMMA RouteStepDebate ==
    ASSUME RoutingInv, NEW e \in Exec, NEW c \in Conn, RouteStep(e, c)
    PROVE  /\ debate' \in [Exec -> [Conn -> DebateRecord]]
           /\ ChoiceIsTask'
<1>0. /\ debate \in [Exec -> [Conn -> DebateRecord]] /\ ChoiceIsTask
      /\ session \in [Exec -> [Conn -> SessionState]]
  BY DEF RoutingInv, RoutingTypeOK, TypeOK, DebateRecord
<1>1. CASE Convene(e, c)
  <2>1. Children(TaskOf(e)) \in SUBSET Task
    BY DEF Children
  <2> DEFINE d == [NoDebate EXCEPT !.options = Children(TaskOf(e))]
  <2>2. d \in DebateRecord
    BY <2>1, RoutingRecords
  <2>3. debate' = [debate EXCEPT ![e][c] = d] /\ Goes(e, c, "debating")
    BY <1>1 DEF Convene, Debate
  <2> HIDE DEF d
  <2>4. QED BY <1>0, <2>2, <2>3 DEF Goes, ChoiceIsTask
<1>2. CASE Dismiss(e, c) \/ Activate(e, c)
  BY <1>0, <1>2 DEF Dismiss, Activate, Goes, ChoiceIsTask
<1>3. CASE Decide(e, c)
  <2>1. CASE Goes(e, c, "unmatched") /\ UNCHANGED debate
    BY <1>0, <2>1 DEF Goes, ChoiceIsTask
  <2>2. ASSUME NEW choice \in Choices, NEW k \in Matches(e, c, choice),
               Goes(e, c, "matched"), Debate(e, c, [debate[e][c] EXCEPT !.target = k])
        PROVE  debate' \in [Exec -> [Conn -> DebateRecord]] /\ ChoiceIsTask'
    <3>1. k \in Task /\ debate[e][c] \in DebateRecord
      BY <1>0, <2>2 DEF Matches, DebateRecord
    <3> DEFINE d == [debate[e][c] EXCEPT !.target = k]
    <3>2. d \in DebateRecord /\ d.target = k
      BY <3>1, RoutingRecords
    <3> HIDE DEF d
    <3>3. debate' = [debate EXCEPT ![e][c] = d]
      BY <2>2 DEF Debate, d
    <3>4. QED BY <1>0, <2>2, <3>1, <3>2, <3>3 DEF Goes, ChoiceIsTask
  <2>3. QED BY <1>3, <2>1, <2>2 DEF Decide
<1>4. CASE Conclude(e, c)
  BY <1>0, <1>4, RoutingRecords DEF Conclude, Debate, Goes, ChoiceIsTask
<1>5. QED BY <1>1, <1>2, <1>3, <1>4 DEF RouteStep

(* The session of a router.                                                *)
LEMMA RouteStepInv ==
    ASSUME RoutingInv, NEW e \in Exec, NEW c \in Conn, RouteStep(e, c)
    PROVE  RoutingInv'
<1>1. manual' = manual
  BY DEF RouteStep, Convene, Dismiss, Decide, Activate, Conclude
<1>2. picked' \in [Routers -> SUBSET Task]
  <2>0. picked \in [Routers -> SUBSET Task] /\ ChoiceIsTask
    BY DEF RoutingInv, RoutingTypeOK
  <2>1. CASE Activate(e, c)
    <3>1. debate[e][c].target \in Task
      BY <2>0, <2>1 DEF Activate, Routes, ChoiceIsTask
    <3>2. \/ picked' = [picked EXCEPT ![TaskOf(e)] = @ \cup {debate[e][c].target}]
          \/ picked' = picked
      BY <2>1 DEF Activate
    <3>3. QED BY <2>0, <3>1, <3>2
  <2>2. CASE ~Activate(e, c)
    BY <2>0, <2>2 DEF RouteStep, Convene, Dismiss, Decide, Conclude
  <2>3. QED BY <2>1, <2>2
<1>3. QED BY <1>1, <1>2, RouteStepType, RouteStepDebate
          DEF RoutingInv, RoutingTypeOK, RequestIsWhole, DebateRecord

(* A manual request, whoever it is about.                                  *)
LEMMA ManualInv ==
    ASSUME RoutingInv, NEW m \in Client,
           \/ ManualStep(m) \/ ManualAbort(m)
           \/ \E r \in Routers : \E k \in Task : ManualCheck(m, r, k)
    PROVE  RoutingInv'
<1>0. /\ manual \in [Client -> ManualRecord] /\ RequestIsWhole /\ manual[m] \in ManualRecord
      /\ picked \in [Routers -> SUBSET Task]
  BY DEF RoutingInv, RoutingTypeOK, ManualRecord
<1>1. UNCHANGED <<notices, live, env, debate>>
  BY DEF ManualStep, ManualVerify, ManualActivate, ManualConclude, ManualAbort, ManualCheck,
         vars, live, env
<1>2. TypeOK'
  BY <1>1, ManualRows DEF RoutingInv, RoutingTypeOK, TypeOK, RowsRoute, live, env
<1>3. \/ manual' = [manual EXCEPT ![m] = NoManual]
      \/ \E pc \in ManualState : manual[m].pc # "idle" /\ ManualGoes(m, pc)
      \/ \E r \in Routers : \E k \in Task :
            manual' = [manual EXCEPT ![m] = [pc |-> "checked", source |-> r, target |-> k]]
  BY DEF ManualStep, ManualVerify, ManualActivate, ManualConclude, ManualAbort, ManualCheck,
         ManualState
<1>4. manual' \in [Client -> ManualRecord] /\ RequestIsWhole'
  <2>1. CASE manual' = [manual EXCEPT ![m] = NoManual]
    BY <1>0, <2>1, RoutingRecords DEF RequestIsWhole, NoManual
  <2>2. ASSUME NEW pc \in ManualState, manual[m].pc # "idle", ManualGoes(m, pc)
        PROVE  manual' \in [Client -> ManualRecord] /\ RequestIsWhole'
    <3> DEFINE x == [manual[m] EXCEPT !.pc = pc]
    <3>1. x \in ManualRecord /\ x.source = manual[m].source /\ x.target = manual[m].target
      BY <1>0, RoutingRecords
    <3>2. manual' = [manual EXCEPT ![m] = x]
      BY <1>0, <2>2 DEF ManualGoes
    <3> HIDE DEF x
    <3>3. QED BY <1>0, <2>2, <3>1, <3>2 DEF RequestIsWhole
  <2>3. ASSUME NEW r \in Routers, NEW k \in Task,
               manual' = [manual EXCEPT ![m] = [pc |-> "checked", source |-> r, target |-> k]]
        PROVE  manual' \in [Client -> ManualRecord] /\ RequestIsWhole'
    BY <1>0, <2>3 DEF RequestIsWhole, ManualRecord, ManualState
  <2>4. QED BY <1>3, <2>1, <2>2, <2>3
<1>5. picked' \in [Routers -> SUBSET Task]
  <2>1. CASE ManualActivate(m)
    BY <1>0, <2>1 DEF ManualActivate, RequestIsWhole
  <2>2. CASE ~ManualActivate(m)
    BY <1>0, <2>2 DEF ManualStep, ManualVerify, ManualConclude, ManualAbort, ManualCheck
  <2>3. QED BY <2>1, <2>2
<1>6. ChoiceIsTask'
  BY <1>1 DEF RoutingInv, ChoiceIsTask, live
<1>7. QED BY <1>1, <1>2, <1>4, <1>5, <1>6 DEF RoutingInv, RoutingTypeOK, ManualRecord

(* What the scheduler does beside: it opens no debate and moves none.      *)
LEMMA SchedulerInv ==
    ASSUME RoutingInv, SchedulerStep
    PROVE  RoutingInv'
<1>0. TypeOK /\ [Next]_vars /\ manual' = manual
  BY DEF RoutingInv, RoutingTypeOK, SchedulerStep
<1>1. TypeOK'
  BY <1>0, TypeStep
<1>2. debate \in [Exec -> [Conn -> DebateRecord]] /\ picked \in [Routers -> SUBSET Task]
  BY DEF RoutingInv, RoutingTypeOK, DebateRecord
<1>3. debate' \in [Exec -> [Conn -> DebateRecord]]
  BY <1>2, RoutingRecords DEF SchedulerStep
<1>4. picked' \in [Routers -> SUBSET Task]
  BY <1>2 DEF SchedulerStep
<1>5. ChoiceIsTask'
  <2> SUFFICES ASSUME NEW e \in Exec, NEW c \in Conn, session'[e][c] = "matched"
               PROVE  debate'[e][c].target \in Task
    BY DEF ChoiceIsTask
  <2>1. session[e][c] = "matched"
    BY <1>0, SchedulerOpensNoDebate DEF RoutingState
  <2>2. debate'[e][c] = debate[e][c]
    BY DEF SchedulerStep, RoutingState
  <2>3. QED BY <2>1, <2>2 DEF RoutingInv, ChoiceIsTask
<1>6. QED BY <1>0, <1>1, <1>3, <1>4, <1>5
          DEF RoutingInv, RoutingTypeOK, RequestIsWhole, DebateRecord

(* Stuttering.                                                             *)
LEMMA RoutingSame ==
    ASSUME RoutingInv, UNCHANGED rvars
    PROVE  RoutingInv'
<1>1. UNCHANGED <<vars, debate, manual, picked>>
  BY DEF rvars
<1>2. TypeOK'
  BY <1>1, TypeStep DEF RoutingInv, RoutingTypeOK
<1>3. session' = session
  BY <1>1 DEF vars
<1>4. QED BY <1>1, <1>2, <1>3
          DEF RoutingInv, RoutingTypeOK, ChoiceIsTask, RequestIsWhole

(* The invariant is inductive, ...                                         *)
LEMMA RoutingInvStep == RoutingInv /\ [RoutingNext]_rvars => RoutingInv'
<1> SUFFICES ASSUME RoutingInv, [RoutingNext]_rvars PROVE RoutingInv'
  OBVIOUS
<1>1. QED BY SchedulerInv, RouteStepInv, ManualInv, RoutingSame DEF RoutingNext

(* ... and holds at the start.                                             *)
LEMMA RoutingInvInit == RoutingInit => RoutingInv
<1> SUFFICES ASSUME RoutingInit PROVE RoutingInv
  OBVIOUS
<1>1. TypeOK
  BY TypeInit DEF RoutingInit
<1>2. debate \in [Exec -> [Conn -> DebateRecord]] /\ manual \in [Client -> ManualRecord]
  BY RoutingRecords DEF RoutingInit
<1>3. ChoiceIsTask /\ RequestIsWhole /\ picked \in [Routers -> SUBSET Task]
  BY DEF RoutingInit, Init, ChoiceIsTask, RequestIsWhole, NoManual
<1>4. QED BY <1>1, <1>2, <1>3 DEF RoutingInv, RoutingTypeOK, DebateRecord, ManualRecord

(* The variables stay in their types: a session that activates has chosen  *)
(* a task, and a request that does has named one.                          *)
THEOREM RoutingTypeCorrect == RoutingSpec => []RoutingTypeOK
<1>1. RoutingInv => RoutingTypeOK
  BY DEF RoutingInv
<1>2. QED BY <1>1, RoutingInvInit, RoutingInvStep, PTL DEF RoutingSpec

----------------------------------------------------------------------------
(* Every router that halts asks for a route, whoever else writes its row   *)
(* meanwhile: no statement of the scheduler, of the user or of another     *)
(* session parks a task as halted, or takes the request from one that is.  *)
THEOREM HaltedRoutersAreRoutable == RoutingSpec => []HaltedIsRoutable
<1>1. RoutingInit => HaltedIsRoutable
  <2>1. RoutingInit => \A t \in Task : row[t].status = "active"
    BY DEF RoutingInit, Init, NewRow
  <2>2. QED BY <2>1, RoutingAssumption DEF HaltedIsRoutable
<1>2. RoutingInv /\ HaltedIsRoutable /\ [RoutingNext]_rvars => HaltedIsRoutable'
  <2> SUFFICES ASSUME RoutingInv, HaltedIsRoutable, [RoutingNext]_rvars, NEW t \in Routers
               PROVE  Routable(row'[t])
    BY DEF HaltedIsRoutable, Routable
  <2>0. t \in Task /\ Routable(row[t])
    BY RoutingAssumption DEF HaltedIsRoutable, Routable
  <2>1. CASE RowsRoute
    BY <2>0, <2>1 DEF RowsRoute, RouteRow
  <2>2. CASE SchedulerStep
    BY <2>0, <2>2, SchedulerRows DEF SchedulerStep, RoutingInv, RoutingTypeOK
  <2>3. CASE UNCHANGED rvars
    BY <2>0, <2>3 DEF rvars, vars
  <2>4. QED BY <2>1, <2>2, <2>3, RouteStepRows, ManualRows DEF RoutingNext
<1>3. QED BY <1>1, <1>2, RoutingInvInit, RoutingInvStep, PTL DEF RoutingSpec

----------------------------------------------------------------------------
(* One branch per run.  With two connections both debate; a user resumes a *)
(* router that runs; a router under a parent is triggered while it runs;   *)
(* what fails is ignored, or reaped while its session goes on; of two      *)
(* manual requests one completes what the other activated.  Where none of  *)
(* that happens, a router goes one way from its claim to its completion or *)
(* its halt, and from there only a manual request takes it on.             *)
Roots == Routers \ Misconfigured

Guided ==
    /\ UserOps = {} /\ Faults \subseteq {"request"} /\ Started = Worker /\ Online = Conn
    /\ Conn # {} /\ \A c, d \in Conn : c = d
    /\ \A m, n \in Client : m = n
    /\ Routers \cap Native = {} /\ \A r \in Roots : Parent[r] = NoTask

(* The processes run, and the connection of the user is up.                *)
Steady == /\ \A w \in Worker : worker[w] = "up"
          /\ \A c \in Conn : connected[c] = "on"
          /\ presence

(* A task that is activated for another is under it: no router that routes.*)
Below(k) == k \in Task /\ Parent[k] # NoTask

(* An execution carries its task while it dispatches or a session runs.    *)
Carries(e)  == exec[e].pc = "dispatch" \/ \E c \in Conn : session[e][c] # "none"
Carriers(r) == {e \in Exec : Carries(e) /\ TaskOf(e) = r}
Routed(r)   == \E e \in Carriers(r) : \E c \in Conn : session[e][c] = "routed"

(* A router is published or paused; its session asks and routes, or is     *)
(* dismissed.                                                              *)
Course(e) ==
    /\ exec[e].pc # "idle" => TaskOf(e) \in Task
    /\ \A c \in Conn : session[e][c] # "none" => exec[e].pc = "done"
    /\ \A k \in kids[e] : Below(k)
    /\ TaskOf(e) \in Routers =>
          /\ exec[e].pc \in {"dispatch", "done"}
          /\ exec[e].pc = "dispatch" => exec[e].online
          /\ \A c \in Conn : \/ session[e][c] \in {"none", "got"}
                             \/ session[e][c] \in RoutingState /\ TaskOf(e) \in Roots
Debated(e, c) ==
    /\ session[e][c] \in RoutingState => \A k \in debate[e][c].options : Below(k)
    /\ session[e][c] = "matched" => Below(debate[e][c].target)

(* A router in processing is announced by one notice or carried by one     *)
(* execution, and has picked its branch once its session says so.          *)
OneCarrier(r) == /\ \A e, f \in Carriers(r) : e = f
                 /\ Carriers(r) # {} => ~Noticed(r)
RootRow(r) ==
    /\ row[r].status = "processing" <=> Noticed(r) \/ Carriers(r) # {}
    /\ \A w \in Worker : notices[r][w] > 0 => row[r].lockedBy = w
    /\ row[r].status = "processing" => row[r].nextRun = "due"
    /\ row[r].nextRun = "stale" => row[r].status # "active"
    /\ row[r].approval = "needs_routing" => row[r].status = "halted"
RootPick(r) ==
    row[r].status = "processing" =>
        /\ Routed(r)  => \E k \in Task : picked[r] = {k}
        /\ ~Routed(r) => picked[r] = {}

OnCourse(r) == OneNotice(r) /\ OneCarrier(r) /\ RootRow(r) /\ RootPick(r)

(* A manual request under way has found its router halted.                 *)
Asked(m) == manual[m].pc # "idle" =>
    /\ manual[m].source \in Roots /\ row[manual[m].source].status = "halted"
    /\ manual[m].pc = "verified" => Below(manual[m].target)

GuidedInv ==
    /\ Guided /\ RoutingInv /\ Steady
    /\ \A e \in Exec : Course(e) /\ \A c \in Conn : Debated(e, c)
    /\ \A r \in Roots : OnCourse(r)
    /\ \A m \in Client : Asked(m)
    /\ \A r \in Misconfigured : row[r].approval # "needs_routing"

----------------------------------------------------------------------------
(* What a router's dispatcher does, and its session for the scheduler: it  *)
(* is asked for approval or published, and nothing is sampled.             *)
LEMMA RouterDispatch ==
    ASSUME GuidedInv, NEW e \in Exec, TaskOf(e) \in Routers, DispatchStep(e)
    PROVE  /\ AskApproval(e) \/ Publish(e)
           /\ exec[e].pc = "dispatch" /\ \A c \in Conn : session[e][c] = "none"
<1>1. /\ exec[e].pc \in {"dispatch", "done"}
      /\ exec[e].pc = "dispatch" => exec[e].online
      /\ \A c \in Conn : session[e][c] # "none" => exec[e].pc = "done"
  BY DEF GuidedInv, Course
<1>2. TaskOf(e) \notin Native /\ Subscribers # {} /\ "redis" \notin Faults
  BY DEF GuidedInv, Guided, Steady, Subscribers
<1>3. ~Missed(e) /\ ~NativeSucceeds(e) /\ ~NativeFails(e) /\ ~BackOff(e)
      /\ ~DeliveryFails(e) /\ ~DispatchDependents(e)
  BY <1>1, <1>2 DEF Missed, NativeSucceeds, NativeFails, RunsNative, BackOff, DeliveryFails,
                    DispatchDependents, TaskOf
<1>4. AskApproval(e) \/ Publish(e)
  BY <1>3 DEF DispatchStep
<1>5. exec[e].pc = "dispatch"
  BY <1>4 DEF AskApproval, Publish, MayPublish
<1>6. QED BY <1>1, <1>4, <1>5

(* Its session, as far as the scheduler's steps go, finds the task gone    *)
(* and ends.                                                               *)
LEMMA RouterSession ==
    ASSUME GuidedInv, NEW e \in Exec, NEW c \in Conn, TaskOf(e) \in Routers, SessionStep(e, c)
    PROVE  /\ ~Present(row[TaskOf(e)]) /\ Goes(e, c, "none") /\ session[e][c] = "got"
           /\ UNCHANGED <<store, exec, kids>>
<1>1. session[e][c] \in {"none", "got"} \cup RoutingState
  BY DEF GuidedInv, Course
<1>2. /\ ~TakeLock(e, c) /\ ~SampleSucceeds(e, c) /\ ~SampleFails(e, c)
      /\ ~SettleFailure(e, c) /\ ~SessionDependents(e, c)
  BY <1>1 DEF TakeLock, ComesToLock, SampleSucceeds, SampleFails, SettleFailure,
              SessionDependents, RoutingState
<1>3. LoseLock(e, c)
  BY <1>2 DEF SessionStep
<1>4. Faults \cap {"blank", "db", "redis"} = {}
  BY DEF GuidedInv, Guided
<1>5. QED BY <1>3, <1>4 DEF LoseLock, ComesToLock

(* What the steps of an execution write: the row of their task, but for a  *)
(* router only if they ask for its approval, or that of a dependent.       *)
LEMMA StepWrites ==
    ASSUME GuidedInv, NEW e \in Exec, DispatchStep(e) \/ \E c \in Conn : SessionStep(e, c)
    PROVE  \/ row' = row
           \/ TaskOf(e) \notin Routers /\ \E x : Put(TaskOf(e), x)
           \/ TaskOf(e) \in Routers /\ AskApproval(e)
           \/ \E k \in kids[e] : Put(k, UpdateTaskNextRun(row[k], "active", "due"))
<1>1. CASE TaskOf(e) \in Routers
  BY <1>1, RouterDispatch, RouterSession DEF Publish, store
<1>2. CASE TaskOf(e) \notin Routers /\ DispatchStep(e)
  <2>1. CASE DispatchDependents(e)
    BY <2>1 DEF DispatchDependents, TriggerDependent
  <2>2. CASE NativeFails(e) \/ DeliveryFails(e)
    <3>1. CountAttempt(e)
      BY <2>2 DEF NativeFails, DeliveryFails
    <3>2. row' = row \/ \E x : Put(TaskOf(e), x)
      BY <3>1 DEF CountAttempt
    <3>3. QED BY <1>2, <3>2
  <2>3. CASE AskApproval(e) \/ Missed(e) \/ NativeSucceeds(e) \/ BackOff(e) \/ Publish(e)
    <3>1. row' = row \/ \E x : Put(TaskOf(e), x)
      BY <2>3 DEF AskApproval, Missed, NativeSucceeds, BackOff, Publish, Complete, store
    <3>2. QED BY <1>2, <3>1
  <2>4. QED BY <1>2, <2>1, <2>2, <2>3 DEF DispatchStep
<1>3. ASSUME TaskOf(e) \notin Routers, NEW c \in Conn, SessionStep(e, c)
      PROVE  \/ row' = row \/ \E x : Put(TaskOf(e), x)
             \/ \E k \in kids[e] : Put(k, UpdateTaskNextRun(row[k], "active", "due"))
  <2>1. CASE SessionDependents(e, c)
    BY <2>1 DEF SessionDependents, TriggerDependent
  <2>2. CASE SampleSucceeds(e, c) \/ SampleFails(e, c) \/ SettleFailure(e, c)
    BY <2>2 DEF SampleSucceeds, SampleFails, SettleFailure, Complete
  <2>3. CASE TakeLock(e, c) \/ LoseLock(e, c)
    BY <2>3 DEF TakeLock, LoseLock, store
  <2>4. QED BY <1>3, <2>1, <2>2, <2>3 DEF SessionStep
<1>4. QED BY <1>1, <1>2, <1>3

----------------------------------------------------------------------------
(* Every execution stays on its course.                                    *)
Aside(e) == \A f \in Exec \ {e} :
    exec'[f] = exec[f] /\ session'[f] = session[f] /\ kids'[f] = kids[f]

(* A step of one execution that stays on its course leaves all on theirs.  *)
LEMMA CourseAside ==
    ASSUME GuidedInv, NEW e \in Exec, Aside(e), Course(e)'
    PROVE  \A f \in Exec : Course(f)'
  BY DEF GuidedInv, Course, Aside, TaskOf

(* Dependents are below their parent.                                      *)
LEMMA DependentsAreBelow ==
    ASSUME NEW t \in Task, NEW k \in Children(t)
    PROVE  Below(k)
  BY SchedulerAssumption DEF Children, ParentOf, Below

(* What an execution has yet to trigger is below its task.                 *)
LEMMA KidsAreBelow ==
    ASSUME GuidedInv, NEW e \in Exec, TaskOf(e) \in Task,
           \/ DispatchDependents(e) \/ (\E c \in Conn : SessionDependents(e, c))
           \/ kids' = kids
    PROVE  /\ \A k \in kids'[e] : Below(k)
           /\ \A f \in Exec \ {e} : kids'[f] = kids[f]
<1>0. kids \in [Exec -> SUBSET Task] /\ \A k \in kids[e] : Below(k)
  BY DEF GuidedInv, RoutingInv, RoutingTypeOK, TypeOK, Course
<1>1. \E S : /\ \A k \in S : Below(k)
             /\ kids' = [kids EXCEPT ![e] = S]
  <2>1. CASE ReadDependents(e)
    BY <2>1, DependentsAreBelow DEF ReadDependents, ToTrigger
  <2>2. CASE TriggerDependent(e)
    BY <1>0, <2>2 DEF TriggerDependent
  <2>3. CASE kids' = kids
    BY <1>0, <2>3
  <2>4. QED BY <2>1, <2>2, <2>3 DEF DispatchDependents, SessionDependents
<1>2. QED BY <1>0, <1>1

(* A dispatcher keeps the course: a router's goes from dispatch to done,   *)
(* and leaves its session nothing but the message.                         *)
LEMMA DispatchCourse ==
    ASSUME GuidedInv, NEW e \in Exec, DispatchStep(e)
    PROVE  /\ \A f \in Exec : Course(f)'
           /\ Aside(e) /\ TaskOf(e)' = TaskOf(e)
<1>0. TypeOK /\ Course(e) /\ Subscribers # {} /\ "redis" \notin Faults
  BY DEF GuidedInv, Guided, Steady, Subscribers, RoutingInv, RoutingTypeOK
<1>1. /\ exec[e].pc \notin {"idle", "done"}
      /\ \E pc : Becomes(e, pc) /\ (session' = session \/ (Deliver(e) /\ pc = "done"))
  <2>1. CASE NativeFails(e) \/ DeliveryFails(e)
    <3>1. CountAttempt(e) /\ session' = session /\ exec[e].pc = "dispatch"
      BY <1>0, <2>1 DEF NativeFails, RunsNative, DeliveryFails, MayPublish
    <3>2. \E pc : Becomes(e, pc)
      BY <3>1 DEF CountAttempt
    <3>3. QED BY <3>1, <3>2
  <2>2. CASE AskApproval(e) \/ BackOff(e) \/ Publish(e)
    BY <2>2 DEF AskApproval, BackOff, Publish, MayPublish
  <2>3. CASE Missed(e) \/ NativeSucceeds(e)
    BY <2>3 DEF Missed, NativeSucceeds, RunsNative
  <2>4. CASE DispatchDependents(e)
    BY <2>4 DEF DispatchDependents
  <2>5. QED BY <2>1, <2>2, <2>3, <2>4 DEF DispatchStep
<1>2. PICK pc : Becomes(e, pc) /\ (session' = session \/ (Deliver(e) /\ pc = "done"))
  BY <1>1
<1>3. /\ exec'[e].pc = pc /\ TaskOf(e)' = TaskOf(e)
      /\ \A f \in Exec \ {e} : exec'[f] = exec[f]
  BY <1>0, <1>2, BecomesOnly DEF TypeOK
<1>4. TaskOf(e) \in Task /\ \A c \in Conn : session[e][c] = "none"
  BY <1>0, <1>1 DEF Course
<1>5. /\ \A k \in kids'[e] : Below(k)
      /\ \A f \in Exec \ {e} : kids'[f] = kids[f]
  <2>1. kids' = kids \/ DispatchDependents(e)
    BY DEF DispatchStep, AskApproval, Missed, NativeSucceeds, NativeFails, BackOff, Publish,
           DeliveryFails
  <2>2. QED BY <1>4, <2>1, KidsAreBelow
<1>6. /\ \A f \in Exec \ {e} : session'[f] = session[f]
      /\ \A c \in Conn : session'[e][c] = "none" \/ (session'[e][c] = "got" /\ pc = "done")
  BY <1>0, <1>2, <1>4 DEF Deliver, TypeOK
<1>7. TaskOf(e) \in Routers => pc = "done"
  <2>1. TaskOf(e) \in Routers => Becomes(e, "done")
    BY RouterDispatch DEF AskApproval, Publish
  <2>2. TaskOf(e) \in Routers => exec'[e].pc = "done"
    BY <1>0, <2>1, BecomesOnly DEF TypeOK
  <2>3. QED BY <1>3, <2>2
<1>8. Course(e)'
  BY <1>3, <1>4, <1>5, <1>6, <1>7 DEF Course
<1>9. Aside(e)
  BY <1>3, <1>5, <1>6 DEF Aside
<1>10. QED BY <1>3, <1>8, <1>9, CourseAside

(* A session of the scheduler's does: a router's ends.                     *)
LEMMA SessionCourse ==
    ASSUME GuidedInv, NEW e \in Exec, NEW c \in Conn, SessionStep(e, c)
    PROVE  /\ \A f \in Exec : Course(f)'
           /\ Aside(e) /\ TaskOf(e)' = TaskOf(e)
<1>0. TypeOK /\ Course(e)
  BY DEF GuidedInv, RoutingInv, RoutingTypeOK
<1>1. exec' = exec /\ session[e][c] # "none" /\ \E st : Goes(e, c, st)
  BY DEF SessionStep, TakeLock, LoseLock, SampleSucceeds, SampleFails, SettleFailure,
         SessionDependents
<1>2. PICK st : Goes(e, c, st)
  BY <1>1
<1>3. /\ \A f \in Exec \ {e} : session'[f] = session[f]
      /\ \A d \in Conn : session'[e][d] = IF d = c THEN st ELSE session[e][d]
  BY <1>0, <1>2 DEF Goes, TypeOK
<1>4. TaskOf(e) \in Task /\ exec[e].pc = "done"
  BY <1>0, <1>1 DEF Course
<1>5. /\ \A k \in kids'[e] : Below(k)
      /\ \A f \in Exec \ {e} : kids'[f] = kids[f]
  <2>1. kids' = kids \/ SessionDependents(e, c)
    BY DEF SessionStep, TakeLock, LoseLock, SampleSucceeds, SampleFails, SettleFailure
  <2>2. QED BY <1>4, <2>1, KidsAreBelow
<1>6. TaskOf(e) \in Routers => session'[e][c] = "none"
  <2>1. TaskOf(e) \in Routers => Goes(e, c, "none")
    BY RouterSession
  <2>2. QED BY <1>0, <2>1 DEF Goes, TypeOK
<1>7. Course(e)'
  BY <1>0, <1>1, <1>3, <1>4, <1>5, <1>6 DEF Course, TaskOf
<1>8. Aside(e) /\ TaskOf(e)' = TaskOf(e)
  BY <1>1, <1>3, <1>5 DEF Aside, TaskOf
<1>9. QED BY <1>7, <1>8, CourseAside

(* The ends of an execution, where no session runs.                        *)
LEMMA SlotCourse ==
    ASSUME GuidedInv, NEW e \in Exec,
           Retire(e) \/ \E t \in Task : \E w \in Worker : Load(e, t, w)
    PROVE  /\ \A f \in Exec : Course(f)'
           /\ Aside(e) /\ \A c \in Conn : session[e][c] = "none" /\ session'[e][c] = "none"
<1>0. TypeOK /\ Course(e) /\ presence /\ "redis" \notin Faults
  BY DEF GuidedInv, Guided, Steady, RoutingInv, RoutingTypeOK
<1>1. UNCHANGED <<session, kids>> /\ \A c \in Conn : session[e][c] = "none"
  BY DEF Retire, Load, Busy
<1>2. Aside(e)
  BY <1>0, <1>1 DEF Retire, Load, Aside, TypeOK
<1>3. CASE Retire(e)
  <2>1. exec'[e] = Idle
    BY <1>0, <1>3 DEF Retire, TypeOK
  <2>2. exec'[e].pc = "idle" /\ TaskOf(e)' = NoTask
    BY <2>1 DEF Idle, TaskOf
  <2>3. NoTask \notin Routers
    BY SchedulerAssumption, RoutingAssumption
  <2>4. Course(e)'
    BY <1>0, <1>1, <2>2, <2>3 DEF Course
  <2>5. QED BY <1>1, <1>2, <2>4, CourseAside
<1>4. ASSUME NEW t \in Task, NEW w \in Worker, Load(e, t, w)
      PROVE  \A f \in Exec : Course(f)'
  <2>1. exec'[e].pc = "dispatch" /\ TaskOf(e)' = t /\ exec'[e].online
    BY <1>0, <1>4 DEF Load, TypeOK, TaskOf
  <2>2. Course(e)'
    BY <1>0, <1>1, <2>1 DEF Course
  <2>3. QED BY <1>2, <2>2, CourseAside
<1>5. QED BY <1>1, <1>2, <1>3, <1>4

----------------------------------------------------------------------------
(* What is left of the scheduler's steps: nobody stops or disconnects.     *)
Quiet == UNCHANGED <<store, live>>

(* The steps that remain are the clock's, the claims', the executions' and *)
(* those that change no row, notice or execution.                          *)
LEMMA GuidedSteps ==
    ASSUME GuidedInv, Next
    PROVE  /\ \/ \E t \in Task : Age(t) \/ Reap(t)
              \/ \E w \in Worker : \E S \in SUBSET Task : Claim(w, S)
              \/ \E t \in Task : \E w \in Worker : SkipNotice(t, w)
              \/ \E e \in Exec : \E t \in Task : \E w \in Worker : Load(e, t, w)
              \/ \E e \in Exec : DispatchStep(e) \/ Retire(e)
              \/ \E e \in Exec : \E c \in Conn : SessionStep(e, c)
              \/ Quiet
           /\ Steady'
<1>0. Guided /\ Steady /\ TypeOK
  BY DEF GuidedInv, RoutingInv, RoutingTypeOK
<1>1. \A w \in Worker : ~WorkerStep(w)
  BY <1>0 DEF WorkerStep, StartWorker, Listen, LoseListener, Crash, Drain, Revert, Exit,
              Guided, Steady
<1>2. \A t \in Task : TaskStep(t) => Age(t) \/ Reap(t)
  BY <1>0 DEF TaskStep, UserStep, Pause, Resume, ResumeMCP, Approve, Deny, DeleteTask,
              UserSets, Guided
<1>3. \A e \in Exec : ExecStep(e) => DispatchStep(e) \/ Retire(e)
  BY <1>0 DEF ExecStep, Abandon, Guided
<1>4. ASSUME \E c \in Conn : ConnStep(c)
      PROVE  Quiet /\ UNCHANGED <<worker, connected>> /\ presence'
  BY <1>0, <1>4 DEF ConnStep, Connect, Subscribe, Unsubscribe, Leave, RemoveUser, Close,
                    Heartbeat, Guided, Steady, Quiet
<1>5. ~Expire
  BY <1>0 DEF Expire, Readers, Guided, Steady
<1>6. ASSUME \/ \E t \in Task : Age(t) \/ Reap(t)
             \/ \E w \in Worker : \E S \in SUBSET Task : Claim(w, S)
             \/ \E t \in Task : \E w \in Worker : SkipNotice(t, w)
             \/ \E e \in Exec : \E t \in Task : \E w \in Worker : Load(e, t, w)
             \/ \E e \in Exec : Retire(e)
      PROVE  UNCHANGED env
  BY <1>6 DEF Age, Reap, Claim, SkipNotice, Load, Retire
<1>7. ASSUME NEW e \in Exec, DispatchStep(e) PROVE UNCHANGED env
  BY <1>7 DEF DispatchStep, AskApproval, Missed, NativeSucceeds, NativeFails, BackOff, Publish,
              DeliveryFails, DispatchDependents
<1>8. ASSUME NEW e \in Exec, NEW c \in Conn, SessionStep(e, c) PROVE UNCHANGED env
  BY <1>8 DEF SessionStep, TakeLock, LoseLock, SampleSucceeds, SampleFails, SettleFailure,
              SessionDependents
<1>9. UNCHANGED env \/ (UNCHANGED <<worker, connected>> /\ presence') => Steady'
  BY <1>0 DEF Steady, env
<1>10. QED
  BY <1>1, <1>2, <1>3, <1>4, <1>5, <1>6, <1>7, <1>8, <1>9 DEF Next

(* The scheduler asks nobody for a route, and completes no router.         *)
RouterRow(r, s) == /\ s.approval \in {r.approval, "pending"}
                   /\ s.status \in {r.status, "active", "paused", "processing"}

(* A router's row gets a request for approval, becomes due, is claimed,    *)
(* reaped or ages.                                                         *)
LEMMA RouterRows ==
    ASSUME GuidedInv, Next, NEW r \in Routers
    PROVE  RouterRow(row[r], row'[r])
<1>0. TypeOK /\ r \in Task /\ row[r] \in Row /\ (row' = row => RouterRow(row[r], row'[r]))
  BY RoutingAssumption DEF GuidedInv, RoutingInv, RoutingTypeOK, TypeOK, RouterRow
<1>1. /\ RouterRow(row[r], UpdateTaskNextRun(row[r], "active", "due"))
      /\ RouterRow(row[r], UpdateTaskApprovalStatus(row[r], "pending", "paused"))
      /\ RouterRow(row[r], ReapStuckTasks(row[r]))
      /\ \A w : RouterRow(row[r], ClaimTask(row[r], w))
      /\ \A next : RouterRow(row[r], [row[r] EXCEPT !.nextRun = next])
  BY <1>0 DEF RouterRow, Row, UpdateTaskNextRun, UpdateTaskApprovalStatus, ReapStuckTasks,
              ClaimTask
<1>2. ASSUME NEW t \in Task, Age(t) \/ Reap(t) PROVE RouterRow(row[r], row'[r])
  <2>1. CASE t = r
    <3>1. row'[r] = ReapStuckTasks(row[r]) \/ \E next : row'[r] = [row[r] EXCEPT !.nextRun = next]
      BY <1>0, <1>2, <2>1 DEF Age, Reap, TypeOK
    <3>2. QED BY <1>1, <3>1
  <2>2. CASE t # r
    <3>1. row'[r] = row[r]
      BY <1>0, <1>2, <2>2 DEF Age, Reap, TypeOK
    <3>2. QED BY <3>1 DEF RouterRow
  <2>3. QED BY <2>1, <2>2
<1>3. ASSUME NEW w \in Worker, NEW S \in SUBSET Task, Claim(w, S)
      PROVE  RouterRow(row[r], row'[r])
  <2>1. row'[r] = row[r] \/ row'[r] = ClaimTask(row[r], w)
    BY <1>0, <1>3 DEF Claim
  <2>2. QED BY <1>1, <2>1 DEF RouterRow
<1>4. ASSUME NEW e \in Exec, DispatchStep(e) \/ \E c \in Conn : SessionStep(e, c)
      PROVE  RouterRow(row[r], row'[r])
  <2>1. CASE TaskOf(e) \notin Routers /\ \E x : Put(TaskOf(e), x)
    <3>1. row'[r] = row[r]
      BY <1>0, <2>1 DEF Put, TypeOK
    <3>2. QED BY <3>1 DEF RouterRow
  <2>2. CASE AskApproval(e)
    <3>1. \/ row'[r] = row[r]
          \/ row'[r] = UpdateTaskApprovalStatus(row[r], "pending", "paused")
      BY <1>0, <2>2 DEF AskApproval, Put, TypeOK
    <3>2. QED BY <1>1, <3>1 DEF RouterRow
  <2>3. CASE \E k \in kids[e] : Put(k, UpdateTaskNextRun(row[k], "active", "due"))
    <3>1. row'[r] = row[r] \/ row'[r] = UpdateTaskNextRun(row[r], "active", "due")
      BY <1>0, <2>3 DEF Put, TypeOK
    <3>2. QED BY <1>1, <3>1 DEF RouterRow
  <2>4. QED BY <1>0, <1>4, <2>1, <2>2, <2>3, StepWrites
<1>5. CASE \/ \E t \in Task : \E w \in Worker : SkipNotice(t, w)
           \/ \E e \in Exec : \E t \in Task : \E w \in Worker : Load(e, t, w)
           \/ \E e \in Exec : Retire(e)
           \/ Quiet
  BY <1>0, <1>5 DEF SkipNotice, Load, Retire, Quiet, store
<1>6. QED BY <1>2, <1>3, <1>4, <1>5, GuidedSteps

----------------------------------------------------------------------------
(* How a router that routes stays on its course.  It keeps it if nothing   *)
(* of it changes but next_run, ...                                         *)
LEMMA RootSame ==
    ASSUME NEW r \in Roots, OnCourse(r),
           /\ row'[r].status = row[r].status /\ row'[r].lockedBy = row[r].lockedBy
           /\ row'[r].approval = row[r].approval,
           \/ row'[r].nextRun \in {row[r].nextRun, "due"}
           \/ row[r].status \notin {"active", "processing"},
           notices'[r] = notices[r], picked'[r] = picked[r],
           Carriers(r)' = Carriers(r), Routed(r)' <=> Routed(r)
    PROVE  OnCourse(r)'
<1>1. Noticed(r)' <=> Noticed(r)
  BY DEF Noticed
<1>2. OneNotice(r)' /\ OneCarrier(r)'
  BY <1>1 DEF OnCourse, OneNotice, OneCarrier
<1>3. RootRow(r)'
  BY <1>1 DEF OnCourse, RootRow
<1>4. RootPick(r)'
  BY DEF OnCourse, RootPick
<1>5. QED BY <1>2, <1>3, <1>4 DEF OnCourse

(* ... whatever executions do that do not carry it.                        *)
LEMMA CarriersAside ==
    ASSUME NEW e \in Exec, Aside(e), NEW r
    PROVE  /\ \A f \in Exec \ {e} : f \in Carriers(r)' <=> f \in Carriers(r)
           /\ e \in Carriers(r)' <=> Carries(e)' /\ TaskOf(e)' = r
           /\ e \in Carriers(r) <=> Carries(e) /\ TaskOf(e) = r
           /\ Carriers(r) \subseteq Exec /\ Carriers(r)' \subseteq Exec
  BY DEF Aside, Carriers, Carries, TaskOf

(* An execution that does not carry it, before or after, leaves it there.  *)
LEMMA RootAside ==
    ASSUME NEW e \in Exec, Aside(e), NEW r \in Roots, OnCourse(r),
           e \notin Carriers(r), e \notin Carriers(r)',
           row'[r] = row[r], notices'[r] = notices[r], picked'[r] = picked[r]
    PROVE  OnCourse(r)'
<1>1. Carriers(r)' = Carriers(r)
  BY CarriersAside
<1>2. Routed(r)' <=> Routed(r)
  <2>1. \A f \in Carriers(r) : session'[f] = session[f]
    BY DEF Aside, Carriers
  <2>2. QED BY <1>1, <2>1 DEF Routed
<1>3. QED BY <1>1, <1>2, RootSame

(* ... and its own carrier as long as it carries it and does not route.    *)
LEMMA RootCarried ==
    ASSUME NEW e \in Exec, Aside(e), NEW r \in Roots, OnCourse(r),
           e \in Carriers(r), e \in Carriers(r)', ~Routed(r), ~Routed(r)',
           row'[r] = row[r], notices'[r] = notices[r], picked'[r] = picked[r]
    PROVE  OnCourse(r)'
<1>1. Carriers(r)' = Carriers(r)
  BY CarriersAside
<1>2. QED BY <1>1, RootSame

(* When its carrier leaves it, the row is out of processing.               *)
LEMMA RootLeft ==
    ASSUME NEW e \in Exec, Aside(e), NEW r \in Roots, OnCourse(r),
           e \in Carriers(r), e \notin Carriers(r)', notices'[r] = notices[r],
           row'[r].status \in {"paused", "completed", "halted"},
           row'[r].approval = "needs_routing" => row'[r].status = "halted"
    PROVE  OnCourse(r)'
<1>1. Carriers(r)' = {} /\ ~Noticed(r)
  BY CarriersAside DEF OnCourse, OneCarrier
<1>2. ~Noticed(r)' /\ \A w \in Worker : ~(notices'[r][w] > 0)
  BY <1>1 DEF Noticed
<1>3. OneNotice(r)' /\ OneCarrier(r)'
  BY <1>1, <1>2 DEF OnCourse, OneNotice, OneCarrier
<1>4. RootRow(r)' /\ RootPick(r)'
  BY <1>1, <1>2 DEF RootRow, RootPick
<1>5. QED BY <1>3, <1>4 DEF OnCourse

----------------------------------------------------------------------------
(* The steps of the scheduler, one kind after the other.  None takes a     *)
(* router out of its halt.                                                 *)
StaysHalted(r) == row[r].status = "halted" => row'[r].status = "halted"

(* What the invariant says of a router that routes, for the lemmas that    *)
(* follow.                                                                 *)
LEMMA RootFacts ==
    ASSUME GuidedInv, NEW r \in Roots
    PROVE  /\ TypeOK /\ OnCourse(r) /\ ~Below(r)
           /\ r \in Task /\ r \in Routers /\ row[r] \in Row /\ ParentOf(r) = NoTask
  BY RoutingAssumption DEF GuidedInv, Guided, RoutingInv, RoutingTypeOK, TypeOK, Roots, Below,
     ParentOf

(* The execution that carries a router is the only one, its notice is      *)
(* gone, and the row is in processing.                                     *)
LEMMA CarrierFacts ==
    ASSUME GuidedInv, NEW r \in Roots, NEW e \in Carriers(r)
    PROVE  /\ e \in Exec /\ Carries(e) /\ TaskOf(e) = r /\ ~Noticed(r)
           /\ row[r].status = "processing" /\ Present(row[r])
           /\ \A f \in Carriers(r) : f = e
<1>1. OnCourse(r)
  BY DEF GuidedInv
<1>2. row[r].status = "processing"
  BY <1>1 DEF OnCourse, RootRow
<1>3. QED BY <1>1, <1>2 DEF OnCourse, OneCarrier, Carriers, Present

(* The picks of a router are forgotten by its claim alone.                 *)
LEMMA PickedStays ==
    ASSUME GuidedInv, SchedulerStep, NEW r \in Roots,
           row'[r].status = "processing" => row[r].status = "processing"
    PROVE  picked'[r] = picked[r]
  BY RootFacts DEF SchedulerStep

(* Time and the reaper: a router in processing is under way and an active  *)
(* one awaited, so that neither grows stale and nothing is reaped.         *)
LEMMA RootTask ==
    ASSUME GuidedInv, SchedulerStep, NEW r \in Roots, NEW t \in Task, Age(t) \/ Reap(t)
    PROVE  OnCourse(r)' /\ StaysHalted(r)
<1>0. TypeOK /\ OnCourse(r) /\ row[r] \in Row
  BY RootFacts
<1>1. UNCHANGED <<notices, exec, session>>
  BY DEF Age, Reap, live
<1>2. /\ notices'[r] = notices[r] /\ Carriers(r)' = Carriers(r)
      /\ Routed(r)' <=> Routed(r)
  BY <1>1 DEF Carriers, Carries, Routed, TaskOf
<1>3. row[r].status = "processing" => UnderWay(r) /\ row[r].nextRun = "due"
  <2>1. ASSUME NEW e \in Carriers(r) PROVE e \in ConcernedWith(r)
    BY <2>1 DEF Carriers, Carries, ConcernedWith, Busy, InDispatch, Dispatch, TaskOf
  <2>2. QED BY <1>0, <2>1 DEF OnCourse, RootRow, UnderWay, Noticed
<1>4. row[r].status = "active" /\ row[r].nextRun = "due" => Awaited(r)
  <2>1. row[r].status = "active" /\ row[r].nextRun = "due" => Claimable(r)
    BY RootFacts DEF Claimable, Due
  <2>2. \E w \in Worker : Running(w)
    BY SchedulerAssumption DEF GuidedInv, Guided, Steady, Running
  <2>3. QED BY <2>1, <2>2 DEF Awaited
<1>5. /\ row'[r].status = row[r].status /\ row'[r].lockedBy = row[r].lockedBy
      /\ row'[r].approval = row[r].approval
      /\ \/ row'[r].nextRun \in {row[r].nextRun, "due"}
         \/ row[r].status \notin {"active", "processing"}
  <2>1. CASE t # r
    <3>1. row'[r] = row[r]
      BY <1>0, <2>1, RootFacts DEF Age, Reap, TypeOK
    <3>2. QED BY <3>1
  <2>2. CASE t = r /\ Age(t)
    <3>1. PICK next \in {"due", "stale"} :
             /\ row' = [row EXCEPT ![r].nextRun = next]
             /\ next = "stale" => row[r].nextRun = "due" /\ ~UnderWay(r) /\ ~Awaited(r)
      BY <2>2 DEF Age
    <3>2. row'[r] = [row[r] EXCEPT !.nextRun = next]
      BY <1>0, <3>1, RootFacts DEF TypeOK
    <3>3. next = "stale" => row[r].status \notin {"active", "processing"}
      BY <1>3, <1>4, <3>1
    <3>4. QED BY <1>0, <3>2, <3>3 DEF Row
  <2>3. CASE t = r /\ Reap(t)
    BY <1>3, <2>3 DEF Reap, Stuck
  <2>4. QED BY <2>1, <2>2, <2>3
<1>6. picked'[r] = picked[r]
  BY <1>5, PickedStays
<1>7. QED BY <1>0, <1>2, <1>5, <1>6, RootSame DEF StaysHalted

(* A claim: the row was due and active, in nobody's hands; it has one      *)
(* notice now and nothing picked.                                          *)
LEMMA RootClaim ==
    ASSUME GuidedInv, SchedulerStep, NEW r \in Roots,
           NEW w \in Worker, NEW S \in SUBSET Task, Claim(w, S)
    PROVE  OnCourse(r)' /\ StaysHalted(r)
<1>0. TypeOK /\ OnCourse(r) /\ row[r] \in Row /\ r \in Task /\ r \in Routers
  BY RootFacts
<1>1. /\ row' = [t \in Task |-> IF t \in S THEN ClaimTask(row[t], w) ELSE row[t]]
      /\ notices' = [t \in Task |-> IF t \in S THEN [notices[t] EXCEPT ![w] = @ + 1]
                                               ELSE notices[t]]
      /\ UNCHANGED <<exec, session>>
  BY DEF Claim, GuidedInv, Steady, live
<1>2. Carriers(r)' = Carriers(r) /\ (Routed(r)' <=> Routed(r))
  BY <1>1 DEF Carriers, Carries, Routed, TaskOf
<1>3. CASE r \notin S
  <2>1. row'[r] = row[r] /\ notices'[r] = notices[r]
    BY <1>0, <1>1, <1>3
  <2>2. picked'[r] = picked[r]
    BY <2>1, PickedStays
  <2>3. QED BY <1>0, <1>2, <2>1, <2>2, RootSame DEF StaysHalted
<1>4. CASE r \in S
  <2>1. row[r].status = "active" /\ row[r].nextRun = "due"
    BY <1>0, <1>4 DEF Claim, Claimable, Due, OnCourse, RootRow
  <2>2. ~Noticed(r) /\ Carriers(r) = {}
    BY <1>0, <2>1 DEF OnCourse, RootRow
  <2>3. ASSUME NEW v \in Worker PROVE notices[r][v] = 0
    <3> DEFINE n == notices[r][v]
    <3>1. n \in Nat /\ ~(n > 0)
      BY <1>0, <2>2, SchedulerAssumption DEF TypeOK, Noticed
    <3> HIDE DEF n
    <3>2. n = 0
      BY <3>1
    <3>3. QED BY <3>2 DEF n
  <2>4. \A v \in Worker : notices'[r][v] = IF v = w THEN 1 ELSE 0
    <3>1. notices'[r] = [notices[r] EXCEPT ![w] = notices[r][w] + 1]
      BY <1>0, <1>1, <1>4
    <3>2. notices[r] \in [Worker -> 0 .. NoticeLimit]
      BY <1>0 DEF TypeOK
    <3>3. QED BY <2>3, <3>1, <3>2
  <2>5. row'[r] = ClaimTask(row[r], w)
    BY <1>0, <1>1, <1>4
  <2>6. /\ row'[r].status = "processing" /\ row'[r].lockedBy = w
        /\ row'[r].nextRun = "due" /\ row'[r].approval = row[r].approval
    BY <1>0, <2>1, <2>5 DEF ClaimTask, Row
  <2>7. Noticed(r)' /\ Carriers(r)' = {} /\ ~Routed(r)'
    BY <1>2, <2>2, <2>4 DEF Noticed, Routed
  <2>8. OneNotice(r)' /\ OneCarrier(r)'
    BY <2>4, <2>7 DEF OneNotice, OneCarrier
  <2>9. RootRow(r)'
    BY <1>0, <2>1, <2>4, <2>6, <2>7 DEF RootRow, OnCourse
  <2>10. picked'[r] = {}
    BY <1>0, <2>1, <2>6 DEF SchedulerStep
  <2>11. RootPick(r)'
    BY <2>7, <2>10 DEF RootPick
  <2>12. QED BY <2>1, <2>8, <2>9, <2>11 DEF OnCourse, StaysHalted
<1>5. QED BY <1>3, <1>4

(* Its notice is not skipped: the row is still locked for the worker.      *)
LEMMA RootSkip ==
    ASSUME GuidedInv, SchedulerStep, NEW r \in Roots,
           NEW t \in Task, NEW w \in Worker, SkipNotice(t, w)
    PROVE  OnCourse(r)' /\ StaysHalted(r)
<1>0. TypeOK /\ OnCourse(r) /\ row[r] \in Row
  BY RootFacts
<1>1. /\ notices[t][w] > 0 /\ ~Dispatchable(row[t], w)
      /\ TakeNotice(t, w) /\ UNCHANGED <<row, exec, session>>
  BY DEF SkipNotice, live
<1>2. t # r
  BY <1>0, <1>1 DEF OnCourse, RootRow, Noticed, Dispatchable
<1>3. notices'[r] = notices[r] /\ row'[r] = row[r]
  BY <1>0, <1>1, <1>2 DEF TakeNotice, TypeOK
<1>4. Carriers(r)' = Carriers(r) /\ (Routed(r)' <=> Routed(r))
  BY <1>1 DEF Carriers, Carries, Routed, TaskOf
<1>5. picked'[r] = picked[r]
  BY <1>3, PickedStays
<1>6. QED BY <1>0, <1>3, <1>4, <1>5, RootSame DEF StaysHalted

(* The notice becomes the one execution that carries the router.           *)
LEMMA RootLoad ==
    ASSUME GuidedInv, SchedulerStep, NEW r \in Roots,
           NEW e \in Exec, NEW t \in Task, NEW w \in Worker, Load(e, t, w)
    PROVE  OnCourse(r)' /\ StaysHalted(r)
<1>0. TypeOK /\ OnCourse(r) /\ row[r] \in Row
  BY RootFacts
<1>1. /\ notices[t][w] > 0 /\ TakeNotice(t, w) /\ exec[e].pc = "idle" /\ row' = row
  BY DEF Load
<1>2. /\ Aside(e)
      /\ \A c \in Conn : session[e][c] = "none" /\ session'[e][c] = "none"
  BY SlotCourse
<1>3. exec'[e].pc = "dispatch" /\ TaskOf(e)' = t
  BY <1>0 DEF Load, TypeOK, TaskOf
<1>4. ~Carries(e) /\ Carries(e)'
  BY <1>1, <1>2, <1>3 DEF Carries
<1>5. picked'[r] = picked[r] /\ row'[r] = row[r]
  BY <1>1, PickedStays
<1>6. CASE t # r
  <2>1. notices'[r] = notices[r]
    BY <1>0, <1>1, <1>6 DEF TakeNotice, TypeOK
  <2>2. e \notin Carriers(r) /\ e \notin Carriers(r)'
    BY <1>2, <1>3, <1>4, <1>6, CarriersAside
  <2>3. QED BY <1>0, <1>2, <1>5, <2>1, <2>2, RootAside DEF StaysHalted
<1>7. CASE t = r
  <2>1. Noticed(r) /\ Carriers(r) = {}
    BY <1>0, <1>1, <1>7 DEF Noticed, OnCourse, OneCarrier
  <2>2. Carriers(r)' = {e}
    BY <1>2, <1>3, <1>4, <1>7, <2>1, CarriersAside
  <2>3. \A v \in Worker : notices'[r][v] = 0
    BY <1>0, <1>1, <1>7, NoticeTaken DEF OnCourse
  <2>4. ~Noticed(r)' /\ ~Routed(r) /\ ~Routed(r)'
    BY <1>2, <2>1, <2>2, <2>3 DEF Noticed, Routed
  <2>5. OneNotice(r)' /\ OneCarrier(r)'
    BY <2>2, <2>3, <2>4 DEF OneNotice, OneCarrier
  <2>6. RootRow(r)'
    BY <1>0, <1>5, <2>1, <2>2, <2>3 DEF OnCourse, RootRow
  <2>7. RootPick(r)'
    BY <1>0, <1>5, <2>4 DEF OnCourse, RootPick
  <2>8. QED BY <1>5, <2>5, <2>6, <2>7 DEF OnCourse, StaysHalted
<1>8. QED BY <1>6, <1>7

(* An execution writes no router but the one it carries.                   *)
LEMMA RootUntouched ==
    ASSUME GuidedInv, NEW e \in Exec, NEW r \in Roots, TaskOf(e) # r,
           DispatchStep(e) \/ \E c \in Conn : SessionStep(e, c)
    PROVE  row'[r] = row[r]
<1>0. row \in [Task -> Row] /\ r \in Task /\ r \in Routers /\ ~Below(r)
  BY RootFacts DEF TypeOK
<1>1. \A k \in kids[e] : k # r
  BY <1>0 DEF GuidedInv, Course
<1>2. \A k : k # r /\ (\E x : Put(k, x)) => row'[r] = row[r]
  BY <1>0 DEF Put
<1>3. AskApproval(e) => \E x : Put(TaskOf(e), x)
  BY DEF AskApproval
<1>4. QED BY <1>1, <1>2, <1>3, StepWrites

(* The dispatcher hands the router to the session, or pauses it.           *)
LEMMA RootDispatch ==
    ASSUME GuidedInv, SchedulerStep, NEW r \in Roots, NEW e \in Exec, DispatchStep(e)
    PROVE  OnCourse(r)' /\ StaysHalted(r)
<1>0. TypeOK /\ OnCourse(r) /\ row[r] \in Row /\ r \in Task /\ r \in Routers
  BY RootFacts
<1>1. Aside(e) /\ TaskOf(e)' = TaskOf(e)
  BY DispatchCourse
<1>2. notices' = notices
  BY DEF DispatchStep, AskApproval, Missed, NativeSucceeds, NativeFails, BackOff, Publish,
         DeliveryFails, DispatchDependents, store
<1>3. CASE TaskOf(e) # r
  <2>1. row'[r] = row[r]
    BY <1>3, RootUntouched
  <2>2. picked'[r] = picked[r]
    BY <2>1, PickedStays
  <2>3. e \notin Carriers(r) /\ e \notin Carriers(r)'
    BY <1>1, <1>3 DEF Carriers
  <2>4. QED BY <1>0, <1>1, <1>2, <2>1, <2>2, <2>3, RootAside DEF StaysHalted
<1>4. CASE TaskOf(e) = r
  <2>1. /\ AskApproval(e) \/ Publish(e)
        /\ exec[e].pc = "dispatch" /\ \A c \in Conn : session[e][c] = "none"
    BY <1>0, <1>4, RouterDispatch
  <2>2. e \in Carriers(r)
    BY <1>4, <2>1 DEF Carriers, Carries
  <2>3. row[r].status = "processing" /\ Present(row[r]) /\ ~Routed(r)
    <3>1. row[r].status = "processing" /\ Present(row[r]) /\ \A f \in Carriers(r) : f = e
      BY <2>2, CarrierFacts
    <3>2. QED BY <2>1, <3>1 DEF Routed
  <2>4. exec'[e].pc = "done"
    <3>1. Becomes(e, "done")
      BY <2>1 DEF AskApproval, Publish
    <3>2. QED BY <1>0, <3>1, BecomesOnly DEF TypeOK
  <2>5. CASE AskApproval(e)
    <3>1. row'[r] = UpdateTaskApprovalStatus(row[r], "pending", "paused")
      BY <1>0, <1>4, <2>3, <2>5 DEF AskApproval, Put, TypeOK
    <3>2. row'[r].status = "paused" /\ row'[r].approval = "pending"
      BY <1>0, <3>1 DEF UpdateTaskApprovalStatus, Row
    <3>3. session' = session
      BY <2>5 DEF AskApproval
    <3>4. e \notin Carriers(r)'
      BY <2>1, <2>4, <3>3 DEF Carriers, Carries
    <3>5. QED BY <1>0, <1>1, <1>2, <2>2, <2>3, <3>2, <3>4, RootLeft DEF StaysHalted
  <2>6. CASE Publish(e)
    <3>1. row' = row
      BY <2>6 DEF Publish, store
    <3>2. \A c \in Conn : session'[e][c] \in {"none", "got"}
      BY <1>0, <2>1, <2>6 DEF Publish, Deliver, TypeOK
    <3>3. e \in Carriers(r)'
      <4>1. \E c \in Conn : session'[e][c] = "got"
        BY <1>0, <2>6 DEF Publish, Deliver, Readers, GuidedInv, Guided, Steady, TypeOK
      <4>2. QED BY <1>1, <1>4, <4>1 DEF Carriers, Carries
    <3>4. ~Routed(r)'
      <4>1. \A f \in Carriers(r)' : f = e
        BY <1>1, <2>2, CarriersAside, CarrierFacts
      <4>2. QED BY <3>2, <4>1 DEF Routed
    <3>5. picked'[r] = picked[r]
      BY <3>1, PickedStays
    <3>6. QED BY <1>0, <1>1, <1>2, <2>2, <2>3, <3>1, <3>3, <3>4, <3>5, RootCarried
              DEF StaysHalted
  <2>7. QED BY <2>1, <2>5, <2>6
<1>5. QED BY <1>3, <1>4

(* A session that samples is never the router's.                           *)
LEMMA RootSession ==
    ASSUME GuidedInv, SchedulerStep, NEW r \in Roots,
           NEW e \in Exec, NEW c \in Conn, SessionStep(e, c)
    PROVE  OnCourse(r)' /\ StaysHalted(r)
<1>0. TypeOK /\ OnCourse(r) /\ row[r] \in Row /\ r \in Task /\ r \in Routers
  BY RootFacts
<1>1. Aside(e) /\ TaskOf(e)' = TaskOf(e)
  BY SessionCourse
<1>2. notices' = notices
  BY DEF SessionStep, TakeLock, LoseLock, SampleSucceeds, SampleFails, SettleFailure,
         SessionDependents, store
<1>3. TaskOf(e) # r
  <2> SUFFICES ASSUME TaskOf(e) = r PROVE FALSE
    OBVIOUS
  <2>1. ~Present(row[r]) /\ session[e][c] = "got"
    BY <1>0, RouterSession
  <2>2. e \in Carriers(r)
    BY <2>1 DEF Carriers, Carries
  <2>3. QED BY <2>1, <2>2, CarrierFacts
<1>4. row'[r] = row[r]
  BY <1>3, RootUntouched
<1>5. picked'[r] = picked[r]
  BY <1>4, PickedStays
<1>6. e \notin Carriers(r) /\ e \notin Carriers(r)'
  BY <1>1, <1>3 DEF Carriers
<1>7. QED BY <1>0, <1>1, <1>2, <1>4, <1>5, <1>6, RootAside DEF StaysHalted

(* An execution that retires carries nothing.                              *)
LEMMA RootRetire ==
    ASSUME GuidedInv, SchedulerStep, NEW r \in Roots, NEW e \in Exec, Retire(e)
    PROVE  OnCourse(r)' /\ StaysHalted(r)
<1>0. TypeOK /\ OnCourse(r)
  BY RootFacts
<1>1. UNCHANGED <<row, notices>> /\ exec[e].pc = "done" /\ exec'[e].pc = "idle"
  BY <1>0 DEF Retire, store, Idle, TypeOK
<1>2. Aside(e) /\ \A c \in Conn : session[e][c] = "none" /\ session'[e][c] = "none"
  BY SlotCourse
<1>3. e \notin Carriers(r) /\ e \notin Carriers(r)'
  BY <1>1, <1>2 DEF Carriers, Carries
<1>4. row'[r] = row[r]
  BY <1>1
<1>5. picked'[r] = picked[r]
  BY <1>4, PickedStays
<1>6. QED BY <1>0, <1>1, <1>2, <1>3, <1>4, <1>5, RootAside DEF StaysHalted

(* Connections, and whatever else changes no row and no execution.         *)
LEMMA RootQuiet ==
    ASSUME GuidedInv, SchedulerStep, NEW r \in Roots, Quiet
    PROVE  OnCourse(r)' /\ StaysHalted(r)
<1>0. OnCourse(r)
  BY RootFacts
<1>1. UNCHANGED <<row, notices, exec, session>>
  BY DEF Quiet, store, live
<1>2. Carriers(r)' = Carriers(r) /\ (Routed(r)' <=> Routed(r)) /\ row'[r] = row[r]
  BY <1>1 DEF Carriers, Carries, Routed, TaskOf
<1>3. picked'[r] = picked[r]
  BY <1>2, PickedStays
<1>4. QED BY <1>0, <1>1, <1>2, <1>3, RootSame DEF StaysHalted

(* All of them together: the scheduler keeps what a guided run rests on.   *)
LEMMA SchedulerRoots ==
    ASSUME GuidedInv, SchedulerStep, NEW r \in Roots
    PROVE  OnCourse(r)' /\ StaysHalted(r)
  BY GuidedSteps, RootTask, RootClaim, RootSkip, RootLoad, RootDispatch, RootSession,
     RootRetire, RootQuiet DEF SchedulerStep

(* Every execution stays on its course, ...                                *)
LEMMA SchedulerCourse ==
    ASSUME GuidedInv, SchedulerStep, NEW e \in Exec
    PROVE  Course(e)'
<1>1. CASE UNCHANGED live
  BY <1>1 DEF GuidedInv, Course, TaskOf, live
<1>2. CASE \/ \E t \in Task : Age(t) \/ Reap(t)
           \/ \E w \in Worker : \E S \in SUBSET Task : Claim(w, S)
           \/ \E t \in Task : \E w \in Worker : SkipNotice(t, w)
           \/ Quiet
  BY <1>1, <1>2 DEF Age, Reap, Claim, SkipNotice, Quiet
<1>3. QED
  BY <1>2, GuidedSteps, DispatchCourse, SessionCourse, SlotCourse DEF SchedulerStep

(* ... every debate keeps to the dependents, ...                           *)
LEMMA SchedulerDebated ==
    ASSUME GuidedInv, SchedulerStep, NEW e \in Exec, NEW c \in Conn
    PROVE  Debated(e, c)'
<1>1. CASE session'[e][c] \in RoutingState
  <2>1. session[e][c] = session'[e][c]
    BY <1>1, SchedulerOpensNoDebate DEF SchedulerStep, GuidedInv, RoutingInv, RoutingTypeOK
  <2>2. debate'[e][c] = debate[e][c]
    BY <1>1 DEF SchedulerStep
  <2>3. QED BY <2>1, <2>2 DEF GuidedInv, Debated
<1>2. CASE session'[e][c] \notin RoutingState
  BY <1>2 DEF Debated, RoutingState
<1>3. QED BY <1>1, <1>2

(* ... and so the invariant stays.                                         *)
LEMMA SchedulerGuided ==
    ASSUME GuidedInv, SchedulerStep
    PROVE  GuidedInv'
<1>1. Guided' /\ RoutingInv' /\ Steady'
  BY SchedulerInv, GuidedSteps DEF GuidedInv, Guided, SchedulerStep
<1>2. \A m \in Client : Asked(m)'
  BY SchedulerRoots DEF GuidedInv, Asked, StaysHalted, SchedulerStep
<1>3. \A r \in Misconfigured : row'[r].approval # "needs_routing"
  BY RouterRows, RoutingAssumption DEF GuidedInv, RouterRow, SchedulerStep
<1>4. QED BY <1>1, <1>2, <1>3, SchedulerRoots, SchedulerCourse, SchedulerDebated DEF GuidedInv

----------------------------------------------------------------------------
(* The session of a router, from its council to its conclusion.  It leaves *)
(* all but its own execution alone, and its router is one that routes      *)
(* unless the session is dismissed.                                        *)
LEMMA RouteFacts ==
    ASSUME GuidedInv, NEW e \in Exec, NEW c \in Conn, RouteStep(e, c)
    PROVE  /\ TaskOf(e) \in Task /\ TaskOf(e) \in Routers /\ exec[e].pc = "done"
           /\ session[e][c] # "none" /\ \A d \in Conn : d = c
           /\ UNCHANGED <<notices, exec, kids, env, manual>> /\ Aside(e)
           /\ ~Dismiss(e, c) => TaskOf(e) \in Roots
           /\ "db" \notin Faults
<1>0. /\ session \in [Exec -> [Conn -> SessionState]] /\ Course(e)
      /\ \A d \in Conn : d = c /\ "db" \notin Faults
  BY DEF GuidedInv, Guided, RoutingInv, RoutingTypeOK, TypeOK
<1>1. /\ TaskOf(e) \in Routers /\ session[e][c] \in RoutingState \cup {"got"}
      /\ UNCHANGED <<notices, exec, kids, env, manual>>
      /\ \E st : Goes(e, c, st)
  BY DEF RouteStep, Convene, Dismiss, Decide, Activate, Conclude, Routes, RoutingState, store
<1>2. Aside(e)
  BY <1>0, <1>1 DEF Goes, Aside
<1>3. ~Dismiss(e, c) => TaskOf(e) \notin Misconfigured
  <2>1. Convene(e, c) => TaskOf(e) \notin Misconfigured
    BY DEF Convene
  <2>2. Decide(e, c) \/ Activate(e, c) \/ Conclude(e, c) => session[e][c] \in RoutingState
    BY DEF Decide, Activate, Conclude, Routes, RoutingState
  <2>3. session[e][c] \in RoutingState => TaskOf(e) \notin Misconfigured
    BY <1>0, <1>1 DEF Course, RoutingState, Roots
  <2>4. QED BY <2>1, <2>2, <2>3 DEF RouteStep
<1>4. QED BY <1>0, <1>1, <1>2, <1>3, RoutingAssumption DEF Course, Roots, RoutingState

(* The step keeps the course of every execution, ...                       *)
LEMMA RouteCourse ==
    ASSUME GuidedInv, NEW e \in Exec, NEW c \in Conn, RouteStep(e, c)
    PROVE  \A f \in Exec : Course(f)'
<1>0. session \in [Exec -> [Conn -> SessionState]] /\ Course(e)
  BY DEF GuidedInv, RoutingInv, RoutingTypeOK, TypeOK
<1>1. Goes(e, c, "none") \/ \E st \in RoutingState : TaskOf(e) \in Roots /\ Goes(e, c, st)
  <2>1. Dismiss(e, c) \/ Conclude(e, c) => Goes(e, c, "none")
    BY DEF Dismiss, Conclude
  <2>2. Convene(e, c) \/ Decide(e, c) \/ Activate(e, c) => \E st \in RoutingState : Goes(e, c, st)
    BY DEF Convene, Decide, Activate, RoutingState
  <2>3. QED BY <2>1, <2>2, RouteFacts DEF RouteStep
<1>2. Course(e)'
  BY <1>0, <1>1, RouteFacts DEF Goes, Course, TaskOf
<1>3. QED BY <1>2, RouteFacts, CourseAside

(* ... and what is debated and chosen is below the router.                 *)
LEMMA RouteDebated ==
    ASSUME GuidedInv, NEW e \in Exec, NEW c \in Conn, RouteStep(e, c),
           NEW f \in Exec, NEW d \in Conn
    PROVE  Debated(f, d)'
<1>0. /\ session \in [Exec -> [Conn -> SessionState]]
      /\ debate \in [Exec -> [Conn -> DebateRecord]] /\ Debated(f, d) /\ Debated(e, c)
  BY DEF GuidedInv, RoutingInv, RoutingTypeOK, TypeOK, DebateRecord
<1>1. d = c /\ TaskOf(e) \in Task
  BY RouteFacts
<1>2. CASE f # e
  <2>1. session'[f] = session[f]
    BY <1>2, RouteFacts DEF Aside
  <2>2. debate'[f] = debate[f]
    BY <1>0, <1>2 DEF RouteStep, Convene, Dismiss, Decide, Activate, Conclude, Debate
  <2>3. QED BY <1>0, <2>1, <2>2 DEF Debated
<1>3. CASE f = e /\ Convene(e, c)
  <2>1. session'[e][c] = "debating"
    BY <1>0, <1>3 DEF Convene, Goes
  <2>2. debate'[e][c].options = Children(TaskOf(e))
    BY <1>0, <1>3 DEF Convene, Debate, NoDebate
  <2>3. QED BY <1>1, <1>3, <2>1, <2>2, DependentsAreBelow DEF Debated
<1>4. CASE f = e /\ Decide(e, c)
  <2>0. session[e][c] = "debating" /\ \A k \in debate[e][c].options : Below(k)
    BY <1>0, <1>4 DEF Decide, Routes, Debated, RoutingState
  <2>1. CASE Goes(e, c, "unmatched") /\ UNCHANGED debate
    BY <1>0, <1>1, <1>4, <2>0, <2>1 DEF Goes, Debated
  <2>2. ASSUME NEW choice \in Choices, NEW k \in Matches(e, c, choice),
               Goes(e, c, "matched"), Debate(e, c, [debate[e][c] EXCEPT !.target = k])
        PROVE  Debated(e, c)'
    <3>1. Below(k)
      BY <2>0, <2>2 DEF Matches
    <3>2. debate[e][c] \in DebateRecord
      BY <1>0
    <3>3. debate'[e][c] = [debate[e][c] EXCEPT !.target = k]
      BY <1>0, <2>2 DEF Debate
    <3>4. debate'[e][c].options = debate[e][c].options /\ debate'[e][c].target = k
      BY <3>2, <3>3 DEF DebateRecord
    <3>5. QED BY <2>0, <3>1, <3>4 DEF Debated
  <2>3. QED BY <1>1, <1>4, <2>1, <2>2 DEF Decide
<1>5. CASE f = e /\ Activate(e, c)
  BY <1>0, <1>1, <1>5 DEF Activate, Routes, Goes, Debated, RoutingState
<1>6. CASE f = e /\ (Dismiss(e, c) \/ Conclude(e, c))
  <2>1. session'[e][c] = "none"
    BY <1>0, <1>6 DEF Dismiss, Conclude, Goes
  <2>2. QED BY <1>1, <1>6, <2>1 DEF Debated, RoutingState
<1>7. QED BY <1>2, <1>3, <1>4, <1>5, <1>6 DEF RouteStep

(* What it writes: a branch below it that it picks, or its own row.        *)
LEMMA RouteWrites ==
    ASSUME GuidedInv, NEW e \in Exec, NEW c \in Conn, RouteStep(e, c)
    PROVE  \/ row' = row /\ picked' = picked /\ ~Activate(e, c) /\ ~Conclude(e, c)
           \/ /\ Activate(e, c) /\ TaskOf(e) \in Roots
              /\ \E k : /\ Below(k) /\ Put(k, UpdateTaskNextRun(row[k], "active", "due"))
                        /\ picked' = [picked EXCEPT ![TaskOf(e)] = @ \cup {k}]
           \/ /\ Conclude(e, c) /\ TaskOf(e) \in Roots /\ picked' = picked
              /\ \E x : Put(TaskOf(e), x)
<1>0. "db" \notin Faults /\ Debated(e, c)
  BY RouteFacts DEF GuidedInv
<1>1. CASE Activate(e, c)
  <2>1. Below(debate[e][c].target)
    BY <1>0, <1>1 DEF Activate, Routes, Debated
  <2>2. TaskOf(e) \in Roots
    BY <1>1, RouteFacts DEF Activate, Dismiss, Routes
  <2>3. QED BY <1>0, <1>1, <2>1, <2>2 DEF Activate
<1>2. CASE Conclude(e, c)
  <2>1. TaskOf(e) \in Roots
    BY <1>2, RouteFacts DEF Conclude, Dismiss, Routes
  <2>2. QED BY <1>0, <1>2, <2>1 DEF Conclude
<1>3. CASE ~Activate(e, c) /\ ~Conclude(e, c)
  BY <1>3 DEF RouteStep, Convene, Dismiss, Decide, store
<1>4. QED BY <1>1, <1>2, <1>3

(* A router that another session routes for stays as it is.                *)
LEMMA RouteAside ==
    ASSUME GuidedInv, NEW e \in Exec, NEW c \in Conn, RouteStep(e, c),
           NEW r \in Roots, TaskOf(e) # r
    PROVE  OnCourse(r)' /\ row'[r] = row[r]
<1>0. /\ row \in [Task -> Row] /\ picked \in [Routers -> SUBSET Task]
      /\ r \in Task /\ r \in Routers /\ OnCourse(r) /\ ~Below(r)
  BY RootFacts DEF TypeOK, GuidedInv, RoutingInv, RoutingTypeOK
<1>1. \A k : k # r /\ (\E x : Put(k, x)) => row'[r] = row[r]
  BY <1>0 DEF Put
<1>2. row'[r] = row[r] /\ picked'[r] = picked[r]
  BY <1>0, <1>1, RouteWrites
<1>3. notices' = notices /\ Aside(e) /\ TaskOf(e)' = TaskOf(e)
  BY RouteFacts DEF TaskOf
<1>4. e \notin Carriers(r) /\ e \notin Carriers(r)'
  BY <1>3 DEF Carriers
<1>5. QED BY <1>0, <1>2, <1>3, <1>4, RootAside

(* The router itself goes from no pick to one, and from there to its end.  *)
LEMMA RouteOwn ==
    ASSUME GuidedInv, NEW e \in Exec, NEW c \in Conn, RouteStep(e, c),
           NEW r \in Roots, TaskOf(e) = r
    PROVE  /\ OnCourse(r)' /\ row[r].status = "processing"
           /\ row'[r].status = "completed" => \E k \in Task : picked[r] = {k}
           /\ row'[r].status = "halted" => picked[r] = {}
<1>0. /\ row \in [Task -> Row] /\ picked \in [Routers -> SUBSET Task]
      /\ session \in [Exec -> [Conn -> SessionState]]
      /\ r \in Task /\ r \in Routers /\ OnCourse(r) /\ ~Below(r) /\ row[r] \in Row
  BY RootFacts DEF TypeOK, GuidedInv, RoutingInv, RoutingTypeOK
<1>1. /\ notices' = notices /\ exec' = exec /\ Aside(e) /\ TaskOf(e)' = TaskOf(e)
      /\ exec[e].pc = "done" /\ session[e][c] # "none" /\ \A d \in Conn : d = c
  BY RouteFacts DEF TaskOf
<1>2. e \in Carriers(r)
  BY <1>1 DEF Carriers, Carries
<1>3. /\ row[r].status = "processing" /\ Present(row[r]) /\ ~Noticed(r)
      /\ \A f \in Carriers(r) : f = e
  BY <1>2, CarrierFacts
<1>4. /\ Routed(r) <=> session[e][c] = "routed"
      /\ session'[e][c] # "none" <=> e \in Carriers(r)'
      /\ \A f \in Carriers(r)' : f = e
  <2>1. Routed(r) <=> session[e][c] = "routed"
    BY <1>1, <1>2, <1>3 DEF Routed
  <2>2. session'[e][c] # "none" <=> e \in Carriers(r)'
    BY <1>1 DEF Carriers, Carries, TaskOf
  <2>3. \A f \in Carriers(r)' : f = e
    BY <1>1, <1>2, <1>3, CarriersAside
  <2>4. QED BY <2>1, <2>2, <2>3
<1>5. CASE Convene(e, c) \/ Decide(e, c)
  <2>1. /\ session[e][c] # "routed" /\ session'[e][c] \notin {"none", "routed"}
        /\ row' = row /\ picked' = picked
    BY <1>0, <1>5 DEF Convene, Decide, Routes, Goes, store
  <2>2. ~Routed(r)'
    BY <1>1, <1>4, <2>1 DEF Routed
  <2>3. OnCourse(r)'
    BY <1>0, <1>1, <1>2, <1>4, <2>1, <2>2, RootCarried
  <2>4. QED BY <1>3, <2>1, <2>3
<1>6. CASE Activate(e, c)
  <2>1. session[e][c] = "matched" /\ session'[e][c] = "routed"
    BY <1>0, <1>6 DEF Activate, Routes, Goes
  <2>2. PICK k : /\ Below(k) /\ Put(k, UpdateTaskNextRun(row[k], "active", "due"))
                 /\ picked' = [picked EXCEPT ![TaskOf(e)] = @ \cup {k}]
    BY <1>6, RouteWrites DEF Conclude, Activate, Routes
  <2>3. row'[r] = row[r]
    BY <1>0, <2>2 DEF Put
  <2>4. picked[r] = {}
    BY <1>0, <1>3, <1>4, <2>1 DEF OnCourse, RootPick
  <2>5. picked'[r] = {k} /\ k \in Task
    BY <1>0, <2>2, <2>4 DEF Below
  <2>6. Carriers(r)' = {e} /\ Carriers(r) = {e}
    BY <1>2, <1>3, <1>4, <2>1
  <2>7. RootPick(r)'
    <3>1. Routed(r)'
      BY <2>1, <2>6 DEF Routed
    <3>2. QED BY <2>5, <3>1 DEF RootPick
  <2>8. Noticed(r)' <=> Noticed(r)
    BY <1>1 DEF Noticed
  <2>9. OneNotice(r)' /\ OneCarrier(r)' /\ RootRow(r)'
    BY <1>0, <1>1, <2>3, <2>6, <2>8 DEF OnCourse, OneNotice, OneCarrier, RootRow
  <2>10. QED BY <1>3, <2>3, <2>7, <2>9 DEF OnCourse
<1>7. CASE Conclude(e, c)
  <2>1. /\ session'[e][c] = "none" /\ session[e][c] \in {"routed", "unmatched"}
        /\ session[e][c] = "routed" => Put(r, UpdateTaskStatus(row[r], "completed"))
        /\ session[e][c] = "unmatched" => Put(r, AskForRoute(row[r]))
    BY <1>0, <1>7, RouteFacts DEF Conclude, Routes, Goes
  <2>2. /\ session[e][c] = "routed" => row'[r] = UpdateTaskStatus(row[r], "completed")
        /\ session[e][c] = "unmatched" => row'[r] = AskForRoute(row[r])
    BY <1>0, <1>3, <2>1 DEF Put
  <2>3. row[r].approval # "needs_routing"
    BY <1>0, <1>3 DEF OnCourse, RootRow
  <2>4. /\ session[e][c] = "routed" => /\ row'[r].status = "completed"
                                       /\ row'[r].approval # "needs_routing"
        /\ session[e][c] = "unmatched" => row'[r].status = "halted"
    BY <1>0, <2>2, <2>3 DEF UpdateTaskStatus, AskForRoute, UpdateTaskApprovalStatus, Row
  <2>5. OnCourse(r)'
    BY <1>0, <1>1, <1>2, <1>4, <2>1, <2>4, RootLeft
  <2>6. /\ session[e][c] = "routed" => \E k \in Task : picked[r] = {k}
        /\ session[e][c] = "unmatched" => picked[r] = {}
    BY <1>0, <1>3, <1>4 DEF OnCourse, RootPick
  <2>7. QED BY <1>3, <2>1, <2>4, <2>5, <2>6
<1>8. ~Dismiss(e, c)
  BY RouteFacts DEF Dismiss, Roots
<1>9. QED BY <1>5, <1>6, <1>7, <1>8 DEF RouteStep

(* A routing session keeps what a guided run rests on.                     *)
LEMMA RouteGuided ==
    ASSUME GuidedInv, NEW e \in Exec, NEW c \in Conn, RouteStep(e, c)
    PROVE  GuidedInv'
<1>1. Guided' /\ RoutingInv'
  BY RouteStepInv DEF GuidedInv, Guided
<1>2. Steady'
  BY RouteFacts DEF GuidedInv, Steady, env
<1>3. \A r \in Roots : OnCourse(r)' /\ StaysHalted(r)
  BY RouteAside, RouteOwn DEF StaysHalted
<1>4. \A m \in Client : Asked(m)'
  BY <1>3, RouteFacts DEF GuidedInv, Asked, StaysHalted
<1>5. ASSUME NEW r \in Misconfigured PROVE row'[r].approval # "needs_routing"
  <2>0. /\ row \in [Task -> Row] /\ r \in Task /\ row[r] \in Row
        /\ row[r].approval # "needs_routing"
    BY RoutingAssumption DEF GuidedInv, RoutingInv, RoutingTypeOK, TypeOK
  <2>1. UpdateTaskNextRun(row[r], "active", "due").approval = row[r].approval
    BY <2>0 DEF UpdateTaskNextRun, Row
  <2>2. \A k : Put(k, UpdateTaskNextRun(row[k], "active", "due")) =>
                  row'[r] \in {row[r], UpdateTaskNextRun(row[r], "active", "due")}
    BY <2>0 DEF Put
  <2>3. \A k : k # r /\ (\E x : Put(k, x)) => row'[r] = row[r]
    BY <2>0 DEF Put
  <2>4. row'[r] \in {row[r], UpdateTaskNextRun(row[r], "active", "due")}
    BY <2>2, <2>3, RouteWrites DEF Roots
  <2>5. QED BY <2>0, <2>1, <2>4
<1>6. QED BY <1>1, <1>2, <1>3, <1>4, <1>5, RouteCourse, RouteDebated DEF GuidedInv

----------------------------------------------------------------------------
(* Manual requests.  The one that is under way is the only one, so its     *)
(* router stays halted until the request completes it.                     *)
LEMMA ManualAsked ==
    ASSUME GuidedInv, NEW m \in Client,
           \/ ManualStep(m) \/ ManualAbort(m)
           \/ \E s \in Routers : \E k \in Task : ManualCheck(m, s, k)
    PROVE  \A n \in Client : Asked(n)'
<1>0. /\ manual \in [Client -> ManualRecord] /\ RequestIsWhole /\ Asked(m)
      /\ row \in [Task -> Row] /\ \A n \in Client : n = m
  BY DEF GuidedInv, Guided, RoutingInv, RoutingTypeOK, TypeOK, ManualRecord
<1>1. manual'[m].pc = "idle" => \A n \in Client : Asked(n)'
  BY <1>0 DEF Asked
<1>2. ASSUME NEW s \in Routers, NEW k \in Task, ManualCheck(m, s, k)
      PROVE  Asked(m)'
  <2>1. /\ row' = row /\ row[s].approval = "needs_routing"
        /\ manual'[m] = [pc |-> "checked", source |-> s, target |-> k]
    BY <1>0, <1>2 DEF ManualCheck, AsksForRoute, vars
  <2>2. s \in Roots /\ row[s].status = "halted"
    BY <2>1 DEF GuidedInv, Roots, OnCourse, RootRow
  <2>3. QED BY <2>1, <2>2 DEF Asked
<1>3. CASE ManualVerify(m)
  <2>1. CASE manual' = [manual EXCEPT ![m] = NoManual]
    BY <1>0, <1>1, <2>1 DEF NoManual
  <2>2. CASE ParentOf(manual[m].target) = manual[m].source /\ ManualGoes(m, "verified")
    <3>1. Below(manual[m].target)
      <4>1. manual[m].target \in Task /\ manual[m].source \in Task
        BY <1>0, <1>3, RoutingAssumption DEF ManualVerify, RequestIsWhole
      <4>2. QED BY <2>2, <4>1, SchedulerAssumption DEF ParentOf, Below
    <3>2. manual[m] \in ManualRecord
      BY <1>0
    <3>3. manual'[m] = [manual[m] EXCEPT !.pc = "verified"]
      BY <1>0, <2>2 DEF ManualGoes
    <3>4. manual'[m].source = manual[m].source /\ manual'[m].target = manual[m].target
      BY <3>2, <3>3 DEF ManualRecord
    <3>5. row' = row /\ manual[m].pc # "idle"
      BY <1>3 DEF ManualVerify, vars
    <3>6. Asked(m)'
      BY <1>0, <3>1, <3>4, <3>5 DEF Asked
    <3>7. QED BY <1>0, <3>6
  <2>3. QED BY <1>3, <2>1, <2>2 DEF ManualVerify
<1>4. CASE ManualActivate(m)
  <2>1. /\ manual[m].pc = "verified" /\ ManualGoes(m, "activated")
        /\ Put(manual[m].target, UpdateTaskNextRun(row[manual[m].target], "active", "due"))
    BY <1>4 DEF ManualActivate
  <2>2. /\ manual[m].source \in Roots /\ row[manual[m].source].status = "halted"
        /\ Below(manual[m].target)
    BY <1>0, <2>1 DEF Asked
  <2>3. manual'[m].pc = "activated" /\ manual'[m].source = manual[m].source
    <3>1. manual[m] \in ManualRecord
      BY <1>0
    <3>2. manual'[m] = [manual[m] EXCEPT !.pc = "activated"]
      BY <1>0, <2>1 DEF ManualGoes
    <3>3. QED BY <3>1, <3>2 DEF ManualRecord
  <2>4. row'[manual[m].source] = row[manual[m].source]
    <3>1. manual[m].source # manual[m].target /\ manual[m].source \in Task
      BY <2>2, RootFacts
    <3>2. QED BY <1>0, <2>1, <3>1 DEF Put
  <2>5. Asked(m)'
    BY <2>2, <2>3, <2>4 DEF Asked
  <2>6. QED BY <1>0, <2>5
<1>5. CASE ManualConclude(m) \/ ManualAbort(m)
  BY <1>0, <1>1, <1>5 DEF ManualConclude, ManualAbort, NoManual
<1>6. QED BY <1>0, <1>2, <1>3, <1>4, <1>5 DEF ManualStep

(* A router stays on its course: what is picked for it and what completes  *)
(* it finds it halted, and nothing takes it from processing.               *)
LEMMA ManualRoots ==
    ASSUME GuidedInv, NEW m \in Client,
           \/ ManualStep(m) \/ ManualAbort(m)
           \/ \E s \in Routers : \E k \in Task : ManualCheck(m, s, k),
           NEW r \in Roots
    PROVE  /\ OnCourse(r)'
           /\ row[r].status = "processing" => row'[r] = row[r]
<1>0. /\ row \in [Task -> Row] /\ picked \in [Routers -> SUBSET Task]
      /\ r \in Task /\ r \in Routers /\ OnCourse(r) /\ ~Below(r) /\ row[r] \in Row
      /\ Asked(m)
  BY RootFacts DEF TypeOK, GuidedInv, RoutingInv, RoutingTypeOK
<1>1. UNCHANGED <<notices, exec, session>>
  BY DEF ManualStep, ManualVerify, ManualActivate, ManualConclude, ManualAbort, ManualCheck,
         vars, live
<1>2. Carriers(r)' = Carriers(r) /\ (Routed(r)' <=> Routed(r)) /\ notices'[r] = notices[r]
  BY <1>1 DEF Carriers, Carries, Routed, TaskOf
<1>3. CASE row' = row /\ picked' = picked
  BY <1>0, <1>2, <1>3, RootSame
<1>4. CASE ManualActivate(m)
  <2>1. row[manual[m].source].status = "halted" /\ Below(manual[m].target)
    BY <1>0, <1>4 DEF ManualActivate, Asked
  <2>2. row'[r] = row[r]
    BY <1>0, <1>4, <2>1 DEF ManualActivate, Put
  <2>3. CASE manual[m].source # r
    <3>1. picked'[r] = picked[r]
      BY <1>0, <1>4, <2>3 DEF ManualActivate
    <3>2. QED BY <1>0, <1>2, <2>2, <3>1, RootSame
  <2>4. CASE manual[m].source = r
    <3>1. row'[r].status = "halted"
      BY <2>1, <2>2, <2>4
    <3>2. Noticed(r)' <=> Noticed(r)
      BY <1>1 DEF Noticed
    <3>3. OneNotice(r)' /\ OneCarrier(r)'
      BY <1>0, <1>2, <3>2 DEF OnCourse, OneNotice, OneCarrier
    <3>4. RootRow(r)' /\ RootPick(r)'
      BY <1>0, <1>2, <2>2, <3>1, <3>2 DEF OnCourse, RootRow, RootPick
    <3>5. QED BY <2>2, <3>3, <3>4 DEF OnCourse
  <2>5. QED BY <2>3, <2>4
<1>5. CASE ManualConclude(m)
  <2>1. /\ row[manual[m].source].status = "halted" /\ picked' = picked
        /\ Put(manual[m].source,
               UpdateTaskApprovalStatus(row[manual[m].source], "manual_routed", "completed"))
    BY <1>0, <1>5 DEF ManualConclude, Asked
  <2>2. CASE manual[m].source # r
    <3>1. row'[r] = row[r]
      BY <1>0, <2>1, <2>2 DEF Put
    <3>2. QED BY <1>0, <1>2, <2>1, <3>1, RootSame
  <2>3. CASE manual[m].source = r
    <3>1. row'[r] = UpdateTaskApprovalStatus(row[r], "manual_routed", "completed")
      BY <1>0, <2>1, <2>3 DEF Put, Present
    <3>2. row'[r].status = "completed" /\ row'[r].approval = "manual_routed"
      BY <1>0, <3>1 DEF UpdateTaskApprovalStatus, Row
    <3>3. row[r].status # "processing" /\ ~Noticed(r) /\ Carriers(r) = {}
      BY <1>0, <2>1, <2>3 DEF OnCourse, RootRow
    <3>4. ~Noticed(r)' /\ \A w \in Worker : ~(notices'[r][w] > 0)
      BY <1>1, <3>3 DEF Noticed
    <3>5. OneNotice(r)' /\ OneCarrier(r)'
      BY <1>0, <1>2, <3>3, <3>4 DEF OnCourse, OneNotice, OneCarrier
    <3>6. RootRow(r)' /\ RootPick(r)'
      BY <1>2, <3>2, <3>3, <3>4 DEF RootRow, RootPick
    <3>7. QED BY <3>3, <3>5, <3>6 DEF OnCourse
  <2>4. QED BY <2>2, <2>3
<1>6. QED
  BY <1>3, <1>4, <1>5 DEF ManualStep, ManualVerify, ManualAbort, ManualCheck, vars

(* A manual request keeps what a guided run rests on.                      *)
LEMMA ManualGuided ==
    ASSUME GuidedInv, NEW m \in Client,
           \/ ManualStep(m) \/ ManualAbort(m)
           \/ \E s \in Routers : \E k \in Task : ManualCheck(m, s, k)
    PROVE  GuidedInv'
<1>1. Guided' /\ RoutingInv'
  BY ManualInv DEF GuidedInv, Guided
<1>2. UNCHANGED <<exec, session, kids, debate, worker, connected, presence>>
  BY DEF ManualStep, ManualVerify, ManualActivate, ManualConclude, ManualAbort, ManualCheck,
         vars, live, env
<1>3. Steady'
  BY <1>2 DEF GuidedInv, Steady
<1>4. \A e \in Exec : Course(e)' /\ \A c \in Conn : Debated(e, c)'
  BY <1>2 DEF GuidedInv, Course, Debated, TaskOf
<1>5. \A r \in Roots : OnCourse(r)'
  BY ManualRoots
<1>6. ASSUME NEW r \in Misconfigured PROVE row'[r].approval # "needs_routing"
  <2>0. /\ row \in [Task -> Row] /\ r \in Task /\ row[r] \in Row
        /\ row[r].approval # "needs_routing" /\ Asked(m)
    BY RoutingAssumption DEF GuidedInv, RoutingInv, RoutingTypeOK, TypeOK
  <2>1. UpdateTaskNextRun(row[r], "active", "due").approval = row[r].approval
    BY <2>0 DEF UpdateTaskNextRun, Row
  <2>2. CASE row' = row
    BY <2>0, <2>2
  <2>3. CASE ManualActivate(m)
    <3>1. row'[r] \in {row[r], UpdateTaskNextRun(row[r], "active", "due")}
      BY <2>0, <2>3 DEF ManualActivate, Put
    <3>2. QED BY <2>0, <2>1, <3>1
  <2>4. CASE ManualConclude(m)
    <3>1. manual[m].source # r
      BY <2>0, <2>4 DEF ManualConclude, Asked, Roots
    <3>2. row'[r] = row[r]
      BY <2>0, <2>4, <3>1 DEF ManualConclude, Put
    <3>3. QED BY <2>0, <3>2
  <2>5. QED
    BY <2>2, <2>3, <2>4 DEF ManualStep, ManualVerify, ManualAbort, ManualCheck, vars
<1>7. QED BY <1>1, <1>3, <1>4, <1>5, <1>6, ManualAsked DEF GuidedInv

(* The invariant holds at the start ...                                    *)
LEMMA GuidedInvInit == Guided /\ RoutingInit => GuidedInv
<1> SUFFICES ASSUME Guided, RoutingInit PROVE GuidedInv
  OBVIOUS
<1>1. RoutingInv /\ Init
  BY RoutingInvInit DEF RoutingInit
<1>2. Steady
  BY <1>1, SchedulerAssumption DEF Guided, Init, Steady
<1>3. /\ \A t \in Task : row[t] = NewRow("future")
      /\ \A t \in Task : \A w \in Worker : notices[t][w] = 0
      /\ \A e \in Exec : exec[e] = Idle
      /\ \A e \in Exec : \A c \in Conn : session[e][c] = "none"
      /\ \A e \in Exec : kids[e] = {}
      /\ \A m \in Client : manual[m] = NoManual
  BY <1>1 DEF Init, RoutingInit
<1>4. \A e \in Exec : Course(e) /\ \A c \in Conn : Debated(e, c)
  <2>1. NoTask \notin Routers
    BY SchedulerAssumption, RoutingAssumption
  <2>2. QED BY <1>3, <2>1 DEF Course, Debated, Idle, TaskOf, RoutingState
<1>5. ASSUME NEW r \in Roots PROVE OnCourse(r)
  <2>1. r \in Task /\ row[r].status = "active" /\ row[r].nextRun = "future"
        /\ row[r].approval # "needs_routing"
    BY <1>3, RoutingAssumption DEF Roots, NewRow
  <2>2. Carriers(r) = {}
    BY <1>3 DEF Carriers, Carries, Idle
  <2>3. ~Noticed(r) /\ \A w \in Worker : ~(notices[r][w] > 0)
    BY <1>3, <2>1 DEF Noticed
  <2>4. OneNotice(r) /\ OneCarrier(r)
    BY <1>3, <2>1, <2>2, <2>3 DEF OneNotice, OneCarrier
  <2>5. RootRow(r) /\ RootPick(r)
    BY <2>1, <2>2, <2>3 DEF RootRow, RootPick
  <2>6. QED BY <2>4, <2>5 DEF OnCourse
<1>6. \A m \in Client : Asked(m)
  BY <1>3 DEF Asked, NoManual
<1>7. \A r \in Misconfigured : row[r].approval # "needs_routing"
  BY <1>3, RoutingAssumption DEF NewRow
<1>8. QED BY <1>1, <1>2, <1>4, <1>5, <1>6, <1>7 DEF GuidedInv

(* ... and every step keeps it.                                            *)
LEMMA GuidedInvStep == GuidedInv /\ [RoutingNext]_rvars => GuidedInv'
<1> SUFFICES ASSUME GuidedInv, [RoutingNext]_rvars PROVE GuidedInv'
  OBVIOUS
<1>1. CASE UNCHANGED rvars
  <2>1. UNCHANGED <<vars, debate, manual, picked>>
    BY <1>1 DEF rvars
  <2>2. UNCHANGED <<row, notices, exec, session, kids, worker, connected, presence>>
    BY <2>1 DEF vars
  <2>3. Guided' /\ RoutingInv' /\ Steady'
    BY <1>1, <2>2, RoutingSame DEF GuidedInv, Guided, Steady
  <2>4. \A e \in Exec : Course(e)' /\ \A c \in Conn : Debated(e, c)'
    BY <2>1, <2>2 DEF GuidedInv, Course, Debated, TaskOf
  <2>5. ASSUME NEW r \in Roots PROVE OnCourse(r)'
    <3>1. Carriers(r)' = Carriers(r) /\ (Routed(r)' <=> Routed(r))
      BY <2>2 DEF Carriers, Carries, Routed, TaskOf
    <3>2. QED BY <2>1, <2>2, <3>1, RootSame DEF GuidedInv
  <2>6. /\ \A m \in Client : Asked(m)'
        /\ \A r \in Misconfigured : row'[r].approval # "needs_routing"
    BY <2>1, <2>2 DEF GuidedInv, Asked
  <2>7. QED BY <2>3, <2>4, <2>5, <2>6 DEF GuidedInv
<1>2. QED BY <1>1, SchedulerGuided, RouteGuided, ManualGuided DEF RoutingNext

(* A manual route completes a router that still is halted, although its    *)
(* two updates come after two reads and nothing holds the rows meanwhile:  *)
(* where no second request is under way and the user stays out of it.      *)
THEOREM ManualRoutesAreOfHalted == Guided /\ RoutingSpec => ManualRouteOfHalted
<1>1. GuidedInv /\ [RoutingNext]_rvars =>
         [\A m \in Client : ManualConclude(m) => row[manual[m].source].status = "halted"]_rvars
  BY DEF GuidedInv, Asked, ManualConclude
<1>2. QED
  BY <1>1, GuidedInvInit, GuidedInvStep, PTL DEF RoutingSpec, ManualRouteOfHalted

(* From the claim of a router to the end of its run exactly one dependent  *)
(* is activated if it completes, and none if it halts.                     *)
THEOREM RouterTakesOneBranch == Guided /\ RoutingSpec => OneBranchPerRun
<1> DEFINE OneBranch(r) == /\ row'[r].status = "completed" => Cardinality(picked[r]) = 1
                           /\ row'[r].status = "halted" => picked[r] = {}
<1>1. ASSUME GuidedInv, RoutingNext, NEW r \in Routers, row[r].status = "processing"
      PROVE  OneBranch(r)
  <2>0. r \in Task /\ row \in [Task -> Row]
    BY <1>1, RoutingAssumption DEF GuidedInv, RoutingInv, RoutingTypeOK, TypeOK
  <2>1. CASE row'[r].status \notin {"completed", "halted"}
    BY <2>1
  <2>2. ASSUME SchedulerStep PROVE row'[r].status \notin {"completed", "halted"}
    <3>1. RouterRow(row[r], row'[r])
      BY <1>1, <2>2, RouterRows DEF SchedulerStep
    <3>2. QED BY <1>1, <3>1 DEF RouterRow
  <2>3. ASSUME NEW e \in Exec, NEW c \in Conn, RouteStep(e, c) PROVE OneBranch(r)
    <3>1. CASE TaskOf(e) = r /\ r \in Roots
      <4>1. /\ row'[r].status = "completed" => \E k \in Task : picked[r] = {k}
            /\ row'[r].status = "halted" => picked[r] = {}
        BY <1>1, <2>3, <3>1, RouteOwn
      <4>2. (\E k \in Task : picked[r] = {k}) => Cardinality(picked[r]) = 1
        BY FS_Singleton
      <4>3. QED BY <4>1, <4>2
    <3>2. CASE TaskOf(e) # r \/ r \notin Roots
      <4>1. \/ row'[r] = row[r]
            \/ row'[r] = UpdateTaskNextRun(row[r], "active", "due")
        BY <1>1, <2>0, <2>3, <3>2, RouteWrites DEF Put
      <4>2. row'[r].status \in {"processing", "active"}
        BY <1>1, <2>0, <4>1 DEF UpdateTaskNextRun, Row
      <4>3. QED BY <4>2
    <3>3. QED BY <3>1, <3>2
  <2>4. ASSUME NEW m \in Client,
               \/ ManualStep(m) \/ ManualAbort(m)
               \/ \E s \in Routers : \E k \in Task : ManualCheck(m, s, k)
        PROVE  row'[r].status \notin {"completed", "halted"}
    <3>1. row[manual[m].source].status = "halted" \/ ~ManualConclude(m)
      BY <1>1 DEF GuidedInv, Asked, ManualConclude
    <3>2. \/ row'[r] = row[r]
          \/ row'[r] = UpdateTaskNextRun(row[r], "active", "due")
      BY <1>1, <2>0, <2>4, <3>1 DEF Put, ManualStep, ManualVerify, ManualActivate,
                                    ManualConclude, ManualAbort, ManualCheck, vars
    <3>3. QED BY <1>1, <2>0, <3>2 DEF UpdateTaskNextRun, Row
  <2>5. QED BY <1>1, <2>1, <2>2, <2>3, <2>4 DEF RoutingNext
<1>2. GuidedInv /\ [RoutingNext]_rvars =>
         [\A r \in Routers : row[r].status = "processing" =>
             /\ row'[r].status = "completed" => Cardinality(picked[r]) = 1
             /\ row'[r].status = "halted" => picked[r] = {}]_rvars
  BY <1>1
<1>3. QED
  BY <1>2, GuidedInvInit, GuidedInvStep, PTL DEF RoutingSpec, OneBranchPerRun
=============================================================================
