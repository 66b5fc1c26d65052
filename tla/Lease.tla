------------------------------- MODULE Lease -------------------------------
(***************************************************************************)
(* What the scheduler promises about who works on a task, without rows,    *)
(* notices, locks or connections: tasks that are free are granted, several *)
(* at once; a granted task is started, once, or returned without having    *)
(* been started; a task that runs becomes free before it is granted again. *)
(***************************************************************************)
CONSTANT Task

VARIABLE lease

LeaseInit == lease = [t \in Task |-> "free"]

Turn(t, from, to) == lease[t] = from /\ lease' = [lease EXCEPT ![t] = to]

Grant(S) ==
    /\ \A t \in S : lease[t] = "free"
    /\ lease' = [t \in Task |-> IF t \in S THEN "granted" ELSE lease[t]]

Start(t)  == Turn(t, "granted", "running")
Return(t) == Turn(t, "granted", "free")
Finish(t) == Turn(t, "running", "free")

LeaseNext ==
    \/ \E S \in SUBSET Task : Grant(S)
    \/ \E t \in Task : Start(t) \/ Return(t) \/ Finish(t)

LeaseSpec == LeaseInit /\ [][LeaseNext]_lease
=============================================================================
