---------------------------- MODULE MCScheduler ----------------------------
(* Small instances of the scheduler for TLC.                               *)
EXTENDS SchedulerLease, TLC

CONSTANTS t1, t2, w1, w2, c1, c2, e1, e2

Executions  == Permutations({e1, e2})
Connections == Permutations({c1, c2})   \* of one worker

(* The connections on the first worker, or on the last, or one on each.    *)
HostOne    == [c \in Conn |-> w1]
HostLast   == [c \in Conn |-> w2]
HostSpread == c1 :> w1 @@ c2 :> w2

(* A cron or interval trigger comes up again; a date may lie anywhere; a   *)
(* malformed trigger has no next run.                                      *)
AllRecurring == [t \in Task |-> {"future"}]
AllInvalid   == [t \in Task |-> {}]
FirstDate    == [t \in Task |-> IF t = t1 THEN {"due", "stale"} ELSE {"future"}]

NoParents == [t \in Task |-> NoTask]
Pipeline  == [t \in Task |-> IF t = t2 THEN t1 ELSE NoTask]
=============================================================================
