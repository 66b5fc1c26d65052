-------------------------- MODULE SchedulerHistory --------------------------
(***************************************************************************)
(* The scheduler with two history variables, for the promises that speak   *)
(* about several runs of a task: approvals that are spent by executions,   *)
(* and failures in a row.                                                  *)
(***************************************************************************)
EXTENDS Scheduler

VARIABLES
    granted,  \* granted[t]: gated t has an approval no execution used yet
    streak    \* streak[t]: runs of t, unless native, failed since the last success

hvars == <<vars, granted, streak>>

(* More failures in a row than this are not told apart.                    *)
StreakLimit == FailureLimit

HistoryInit ==
    /\ Init
    /\ granted = [t \in Task |-> FALSE]
    /\ streak = [t \in Task |-> 0]

Starts(t) ==
    \E e \in Exec : ~Executing(e) /\ Executing(e)' /\ TaskOf(e)' = t

HistoryNext ==
    /\ Next
    /\ granted' = [t \in Task |-> /\ t \in Gated
                                  /\ Approve(t) \/ (granted[t] /\ ~Starts(t))]
    /\ streak' = [t \in Task |-> IF t \in Native \/ Succeeds(t) THEN 0
                                 ELSE IF Fails(t)
                                 THEN Saturate(streak[t] + 1, StreakLimit)
                                 ELSE streak[t]]

HistorySpec == HistoryInit /\ [][HistoryNext]_hvars

(* "If true, the task will require manual approval before each execution"  *)
(* (tools.go:28): no execution of such a task starts but on an approval of *)
(* its own.                                                                *)
ApprovalPerExecution ==
    [][\A t \in Gated : Starts(t) => granted[t]]_hvars

GivesUp(t) ==
    \E e \in Exec : \E c \in Conn :
        TaskOf(e) = t /\ session[e][c] = "giving_up" /\ SettleFailure(e, c)

(* A task is given up for the failures of its LLM only after FailureLimit  *)
(* failures in a row, whether or not messages found no subscriber or runs  *)
(* were missed in between.  The attempts counted in retry_count are        *)
(* another matter: no success resets it, whatever schema.sql:168 says.     *)
ErrorIsEarned ==
    [][\A t \in Task : GivesUp(t) => streak[t] >= FailureLimit]_hvars
=============================================================================
