--------------------------- MODULE SchedulerLease ---------------------------
(***************************************************************************)
(* The scheduler implements Lease.  A task is granted while the worker has *)
(* its notice coming, a dispatcher has yet to decide about it, or its      *)
(* message waits for the first session to take the execution lock; it runs *)
(* while its code or the user's LLM does.                                  *)
(***************************************************************************)
EXTENDS Scheduler

Undecided(e) == exec[e].pc = "dispatch" /\ ~RunsNative(e)
Unlocked(e)  == lock[e] = NoConn /\ \E c \in Conn : session[e][c] = "got"

LeaseOf(t) ==
    IF \E e \in Exec : TaskOf(e) = t /\ Executing(e) THEN "running"
    ELSE IF \/ \E w \in Worker : notices[t][w] > 0
            \/ \E e \in Exec : TaskOf(e) = t /\ (Undecided(e) \/ Unlocked(e))
         THEN "granted" ELSE "free"

L == INSTANCE Lease WITH lease <- [t \in Task |-> LeaseOf(t)]

(* "parallel worker nodes ... safely claim due tasks" (Docs.jsx:260): from *)
(* the claim to the end of the execution a task passes through one hand    *)
(* after the other; no claim, notice, retry or second connection grants it *)
(* again before what was granted is over.  It holds as long as no process  *)
(* crashes or is cut short, no command fails, no connection closes with a  *)
(* message it has not read, next_run is recurring and the user does not    *)
(* interfere.                                                              *)
ImplementsLease == L!LeaseSpec
=============================================================================
