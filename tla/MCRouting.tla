----------------------------- MODULE MCRouting -----------------------------
(* A router and two branches with the same key: a small instance of the    *)
(* routing sessions on top of the scheduler.                               *)
EXTENDS Routing, TLC

CONSTANTS t1, t2, t3, w1, w2, c1, c2, e1, e2, m1, yes, no

HostOne    == [c \in Conn |-> w1]
AllFuture  == [t \in Task |-> {"future"}]
BranchesOf == [t \in Task |-> IF t = t1 THEN NoTask ELSE t1]
SameKey    == [t \in Task |-> IF t = t1 THEN NoKey ELSE yes]
=============================================================================
