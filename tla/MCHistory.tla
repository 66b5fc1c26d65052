----------------------------- MODULE MCHistory -----------------------------
(* Small instances of the scheduler with its history.                      *)
EXTENDS SchedulerHistory, SchedulerLease, TLC

CONSTANTS t1, t2, w1, w2, c1, c2, e1, e2

Executions == Permutations({e1, e2})
Symmetric  == Executions \cup Permutations({c1, c2})

HostOne      == [c \in Conn |-> w1]
HostSpread   == c1 :> w1 @@ c2 :> w2
AllRecurring == [t \in Task |-> {"future"}]
NoParents    == [t \in Task |-> NoTask]
=============================================================================
