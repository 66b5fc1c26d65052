----------------------------- MODULE MCServices -----------------------------
(***************************************************************************)
(* The components that share no state with the scheduler and with each     *)
(* other, checked in one run: Init picks the part that moves, the others   *)
(* stay as they start.                                                     *)
(***************************************************************************)
EXTENDS Council, RateLimiter, ConnectionCount, TaskIntake, TaskVersions,
        EventDelivery, TLC

CONSTANTS a1, a2, a3, x1, x2, x3, n1, n2, l1, l2, l3, l4

VARIABLE part

NamesOfAgents  == a1 :> x1 @@ a2 :> x2 @@ a3 :> x3
NodesOfLinks   == l1 :> n1 @@ l2 :> n1 @@ l3 :> n2 @@ l4 :> n2
BundleLinks    == <<2, 0>>

vars == <<cvars, lvars, nvars, ivars, wvars, dvars, part>>

Init ==
    /\ CouncilInit /\ LimiterInit /\ ConnectionInit
    /\ IntakeInit /\ VersionsInit /\ DeliveryInit
    /\ part \in {"council", "limiter", "connections", "intake", "versions", "delivery"}

Next ==
    /\ UNCHANGED part
    /\ \/ part = "council" /\ CouncilNext
          /\ UNCHANGED <<lvars, nvars, ivars, wvars, dvars>>
       \/ part = "limiter" /\ LimiterNext
          /\ UNCHANGED <<cvars, nvars, ivars, wvars, dvars>>
       \/ part = "connections" /\ ConnectionNext
          /\ UNCHANGED <<cvars, lvars, ivars, wvars, dvars>>
       \/ part = "intake" /\ IntakeNext
          /\ UNCHANGED <<cvars, lvars, nvars, wvars, dvars>>
       \/ part = "versions" /\ VersionsNext
          /\ UNCHANGED <<cvars, lvars, nvars, ivars, dvars>>
       \/ part = "delivery" /\ DeliveryNext
          /\ UNCHANGED <<cvars, lvars, nvars, ivars, wvars>>

Spec == Init /\ [][Next]_vars /\ DeliveryFairness
=============================================================================
