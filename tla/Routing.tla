------------------------------ MODULE Routing ------------------------------
(***************************************************************************)
(* Decision and swarm routers: tasks whose session, instead of sampling,   *)
(* lets a council of LLM personas choose one of the dependent tasks by the *)
(* key of its branch_condition, activates that one and completes itself,   *)
(* or halts and asks the user to route by hand (scheduler.go,              *)
(* executeDecisionRouter and executeSwarmRouter).  Claims, dispatch, the   *)
(* reaper and faults are the Scheduler's; this module adds the steps of    *)
(* the routing sessions and of the manual route requests.                  *)
(*                                                                         *)
(* How a voting council comes to its choice is in Council; here a debate   *)
(* ends with any key, an unknown one included, or with none.               *)
(***************************************************************************)
EXTENDS Scheduler

CONSTANTS
    Misconfigured, \* swarm routers without a council, or whose config is no JSON
    Key, NoKey,    \* keys an LLM may answer with
    KeyOf,         \* KeyOf[t]: the key in the branch_condition of t, or NoKey
    Client         \* manual route requests that may be under way together

ASSUME RoutingAssumption ==
    /\ Misconfigured \subseteq Routers /\ Routers \subseteq Task
    /\ NoKey \notin Key
    /\ KeyOf \in [Task -> Key \cup {NoKey}]

VARIABLES
    debate,  \* debate[e][c]: the dependents the session read, and its match
    manual,  \* manual[m]: a manual route request and how far it has come
    picked   \* picked[r]: tasks activated for r since it was claimed (history)

rvars == <<vars, debate, manual, picked>>

NoDebate == [options |-> {}, target |-> NoTask]
NoManual == [pc |-> "idle", source |-> NoTask, target |-> NoTask]

RoutingState == {"debating", "matched", "unmatched", "routed"}
ManualState  == {"idle", "checked", "verified", "activated"}

RoutingInit ==
    /\ Init
    /\ debate = [e \in Exec |-> [c \in Conn |-> NoDebate]]
    /\ manual = [m \in Client |-> NoManual]
    /\ picked = [r \in Routers |-> {}]

Routes(e, c, pc) == session[e][c] = pc /\ TaskOf(e) \in Routers
Debate(e, c, d)  == debate' = [debate EXCEPT ![e][c] = d]

----------------------------------------------------------------------------
(* The session of a router.                                                *)

(* GetDependentTasks, once, whatever the status of the dependents; then    *)
(* the personas are asked.  No lock is taken: every connection debates.    *)
Convene(e, c) ==
    /\ Routes(e, c, "got") /\ Present(row[TaskOf(e)])
    /\ TaskOf(e) \notin Misconfigured
    /\ Debate(e, c, [NoDebate EXCEPT !.options = Children(TaskOf(e))])
    /\ sampledBy' = [sampledBy EXCEPT ![e] = @ \cup {c}]
    /\ Goes(e, c, "debating")
    /\ UNCHANGED <<store, exec, kids, lock, env, manual, picked>>

(* The configuration is of no use, or the dependents could not be read:    *)
(* the session ends and the row stays in processing.  For an empty council *)
(* the code sets a status the table's CHECK rejects.                       *)
Dismiss(e, c) ==
    /\ Routes(e, c, "got") /\ Present(row[TaskOf(e)])
    /\ TaskOf(e) \in Misconfigured \/ "db" \in Faults
    /\ Goes(e, c, "none")
    /\ UNCHANGED <<store, exec, kids, lock, sampledBy, env, debate, manual, picked>>

(* parseLLMChoice: a key, known or not, or the empty string.               *)
Choices == Key \cup {NoKey}

(* The dependents with the chosen key; no key, or no answer, matches none. *)
Matches(e, c, choice) ==
    {k \in debate[e][c].options : choice # NoKey /\ KeyOf[k] = choice}

(* The judge, the supervisor or the vote gives a choice, or fails.  The    *)
(* first match in the order the query returned, which is unspecified.      *)
Decide(e, c) ==
    /\ Routes(e, c, "debating")
    /\ \E choice \in Choices :
          \/ /\ Matches(e, c, choice) = {}
             /\ Goes(e, c, "unmatched") /\ UNCHANGED debate
          \/ \E k \in Matches(e, c, choice) :
                Goes(e, c, "matched") /\ Debate(e, c, [debate[e][c] EXCEPT !.target = k])
    /\ UNCHANGED <<store, exec, kids, lock, sampledBy, env, manual, picked>>

ActivateAll(e, c) ==   \* mutant: the loop goes on after the first match
    LET same == {k \in debate[e][c].options : KeyOf[k] = KeyOf[debate[e][c].target]} IN
    /\ Routes(e, c, "matched")
    /\ row' = [k \in Task |-> IF k \in same /\ Present(row[k])
                              THEN UpdateTaskNextRun(row[k], "active", "due") ELSE row[k]]
    /\ picked' = [picked EXCEPT ![TaskOf(e)] = @ \cup same]
    /\ Goes(e, c, "routed")
    /\ UNCHANGED <<notices, exec, kids, lock, sampledBy, env, debate, manual>>

(* The match is activated, whatever it is doing by now.  The result of the *)
(* statement is ignored.                                                   *)
Activate(e, c) ==
    LET k == debate[e][c].target IN
    /\ Routes(e, c, "matched")
    /\ \/ /\ Put(k, UpdateTaskNextRun(row[k], "active", "due"))
          /\ picked' = [picked EXCEPT ![TaskOf(e)] = @ \cup {k}]
       \/ "db" \in Faults /\ UNCHANGED <<row, picked>>
    /\ Goes(e, c, "routed")
    /\ UNCHANGED <<notices, exec, kids, lock, sampledBy, env, debate, manual>>

(* Mutants of AskForRoute: only the status, and the request as the status. *)
HaltWithoutAsking(r) == UpdateTaskStatus(r, "halted")
AskByStatus(r)       == UpdateTaskStatus(r, "needs_routing")

AskForRoute(r) == UpdateTaskApprovalStatus(r, "needs_routing", "halted")

(* The router completes, its approval status as it was, or it halts.       *)
Conclude(e, c) ==
    LET t == TaskOf(e) IN
    /\ \/ Routes(e, c, "routed") /\ Put(t, UpdateTaskStatus(row[t], "completed"))
       \/ Routes(e, c, "unmatched") /\ Put(t, AskForRoute(row[t]))
       \/ /\ "db" \in Faults
          /\ Routes(e, c, "routed") \/ Routes(e, c, "unmatched")
          /\ row' = row
    /\ Goes(e, c, "none") /\ Debate(e, c, NoDebate)
    /\ UNCHANGED <<notices, exec, kids, lock, sampledBy, env, manual, picked>>

----------------------------------------------------------------------------
(* A manual route: two reads and two updates, no transaction.              *)

ManualGoes(m, pc) == manual' = [manual EXCEPT ![m].pc = pc]

AnyRoute(r) == Present(r)   \* mutant: no test of the approval status

(* The source must ask for routing; its status is not looked at.           *)
AsksForRoute(r) == Present(r) /\ r.approval = "needs_routing"

ManualCheck(m, source, target) ==
    /\ manual[m].pc = "idle"
    /\ AsksForRoute(row[source])
    /\ manual' = [manual EXCEPT ![m] =
                    [pc |-> "checked", source |-> source, target |-> target]]
    /\ UNCHANGED <<vars, debate, picked>>

(* The target must depend on the source, or the request is refused.        *)
ManualVerify(m) ==
    LET r == manual[m] IN
    /\ r.pc = "checked"
    /\ \/ Present(row[r.target]) /\ ParentOf(r.target) = r.source
          /\ ManualGoes(m, "verified")
       \/ ~(Present(row[r.target]) /\ ParentOf(r.target) = r.source)
          /\ manual' = [manual EXCEPT ![m] = NoManual]
    /\ UNCHANGED <<vars, debate, picked>>

ManualActivate(m) ==
    LET r == manual[m] IN
    /\ r.pc = "verified"
    /\ Put(r.target, UpdateTaskNextRun(row[r.target], "active", "due"))
    /\ ManualGoes(m, "activated")
    /\ picked' = [picked EXCEPT ![r.source] = @ \cup {r.target}]
    /\ UNCHANGED <<notices, live, env, debate>>

ManualConclude(m) ==
    LET r == manual[m] IN
    /\ r.pc = "activated"
    /\ Put(r.source, UpdateTaskApprovalStatus(row[r.source], "manual_routed", "completed"))
    /\ manual' = [manual EXCEPT ![m] = NoManual]
    /\ UNCHANGED <<notices, live, env, debate, picked>>

(* The client goes away: the statements share the context of the request.  *)
ManualAbort(m) ==
    /\ "request" \in Faults /\ manual[m].pc # "idle"
    /\ manual' = [manual EXCEPT ![m] = NoManual]
    /\ UNCHANGED <<vars, debate, picked>>

----------------------------------------------------------------------------
RouteStep(e, c) ==
    Convene(e, c) \/ Dismiss(e, c) \/ Decide(e, c) \/ Activate(e, c) \/ Conclude(e, c)

ManualStep(m) == ManualVerify(m) \/ ManualActivate(m) \/ ManualConclude(m)

(* A step of the scheduler: a session that ended forgets its debate, and   *)
(* a router that is claimed has nothing picked for it yet.                 *)
SchedulerStep ==
    /\ Next
    /\ debate' = [e \in Exec |-> [c \in Conn |->
                    IF session'[e][c] \in RoutingState THEN debate[e][c] ELSE NoDebate]]
    /\ picked' = [r \in Routers |->
                    IF row[r].status # "processing" /\ row'[r].status = "processing"
                    THEN {} ELSE picked[r]]
    /\ UNCHANGED manual

RoutingNext ==
    \/ SchedulerStep
    \/ \E e \in Exec : \E c \in Conn : RouteStep(e, c)
    \/ \E m \in Client : ManualStep(m) \/ ManualAbort(m)
    \/ \E m \in Client : \E r \in Routers : \E k \in Task : ManualCheck(m, r, k)

RoutingSpec == RoutingInit /\ [][RoutingNext]_rvars

(* A routing session runs to its end under its 120 s, a request likewise;  *)
(* nobody is obliged to send one.                                          *)
RoutingFairSpec ==
    /\ RoutingSpec /\ Fairness
    /\ \A e \in Exec : \A c \in Conn : WF_rvars(RouteStep(e, c))
    /\ \A m \in Client : WF_rvars(ManualStep(m))

----------------------------------------------------------------------------
RoutingTypeOK ==
    /\ TypeOK
    /\ debate \in [Exec -> [Conn -> [options : SUBSET Task, target : Task \cup {NoTask}]]]
    /\ manual \in [Client -> [pc : ManualState, source : Routers \cup {NoTask},
                              target : Task \cup {NoTask}]]
    /\ picked \in [Routers -> SUBSET Task]

(* "This node will analyze input and pick the best outbound branch"        *)
(* (TaskWizard.jsx:541): between the claim of a router and the end of its  *)
(* run exactly one dependent is activated if it completes, and none if it  *)
(* halts.                                                                  *)
OneBranchPerRun ==
    [][\A r \in Routers : row[r].status = "processing" =>
          /\ row'[r].status = "completed" => Cardinality(picked[r]) = 1
          /\ row'[r].status = "halted" => picked[r] = {}]_rvars

(* A router that halts can be routed by hand: apiManualRouteHandler        *)
(* refuses every task whose approval status is not needs_routing, and no   *)
(* other statement would ever take a task out of halted.                   *)
HaltedIsRoutable ==
    \A r \in Routers : row[r].status = "halted" => row[r].approval = "needs_routing"

(* A manual route completes a router that still is halted, although its    *)
(* two updates come after two reads and nothing holds the rows meanwhile.  *)
ManualRouteOfHalted ==
    [][\A m \in Client : ManualConclude(m) => row[manual[m].source].status = "halted"]_rvars

(* A session or a manual request has come to the point pcs with the choice *)
(* of branch k for router r.                                               *)
Choosing(r, k, pcs) ==
    \/ \E e \in Exec : \E c \in Conn :
          session[e][c] \in pcs /\ TaskOf(e) = r /\ debate[e][c].target = k
    \/ \E m \in Client :
          manual[m].pc \in pcs /\ manual[m].source = r /\ manual[m].target = k

(* A branch that is chosen while no run of it is under way is claimed,     *)
(* whatever its past: a date task that ran already, or one in error.  Only *)
(* if a manual request breaks off half-way must somebody route again, for  *)
(* the children of a halted task cannot be claimed.                        *)
PickedBranchRuns ==
    \A r \in Routers : \A k \in Task :
        /\ Choosing(r, k, {"matched", "verified"})
        /\ row[k].status # "processing" /\ ConcernedWith(k) = {}
        ~> \/ row[k].status = "processing"
           \/ /\ row[r].status = "halted"
              /\ ~Choosing(r, k, {"matched", "routed", "verified", "activated"})
=============================================================================
