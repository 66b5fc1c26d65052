------------------------ MODULE EventDeliveryProofs ------------------------
(***************************************************************************)
(* Events and webhooks, for every number of processes and webhooks and     *)
(* every set of events.                                                    *)
(***************************************************************************)
EXTENDS EventDelivery, FiniteSetTheorems, TLAPS

Holds(q, e) == \E i \in 1 .. Len(q) : q[i] = e
Once(q)     == \A i, j \in 1 .. Len(q) : q[i] = q[j] => i = j

(* Processes that have yet to look at event e.                             *)
Waiting(e) == {s \in Server : Holds(backlog[s], e)}

(* An event waits once, as it is not published again before it is done.    *)
WaitsOnce == \A s \in Server : Once(backlog[s])

(* What was posted to a webhook and what may yet be.                       *)
CopiesToCome ==
    \A e \in Event : \A h \in Hook :
        copies[e][h] + Cardinality(Waiting(e)) <= Cardinality(Server)

(* A shutdown starts with its whole time, and what is under way then has   *)
(* less of it left by the difference of the two timeouts.                  *)
CallsEndInTime ==
    \A s \in Server :
        /\ stage[s] # "draining" => stage[s] = "down" \/ drain[s] = DrainTime
        /\ stage[s] = "draining" =>
              \A c \in calls[s] : c.left + (DrainTime - DeliverTimeout) <= drain[s]

(* Finitely many goroutines run.                                           *)
CallsAreFinite == \A s \in Server : IsFiniteSet(calls[s])

DeliveryInv == DeliveryTypeOK /\ WaitsOnce /\ CopiesToCome
DrainInv    == DeliveryTypeOK /\ CallsEndInTime /\ CallsAreFinite

----------------------------------------------------------------------------
(* Queues: what Append and Tail do to the messages that wait.              *)
LEMMA AppendKeeps ==
    ASSUME NEW T, NEW q \in Seq(T), NEW e \in T
    PROVE  /\ Append(q, e) \in Seq(T) /\ Len(Append(q, e)) = Len(q) + 1 /\ Len(q) \in Nat
           /\ Append(q, e)[Len(q) + 1] = e
           /\ \A i \in 1 .. Len(q) : Append(q, e)[i] = q[i]
OBVIOUS

(* What Head takes and Tail leaves.                                        *)
LEMMA TailKeeps ==
    ASSUME NEW T, NEW q \in Seq(T), q # <<>>
    PROVE  /\ Head(q) \in T /\ Tail(q) \in Seq(T) /\ Len(q) \in Nat \ {0}
           /\ Head(q) = q[1] /\ Len(Tail(q)) = Len(q) - 1
           /\ \A i \in 1 .. Len(q) - 1 : Tail(q)[i] = q[i + 1]
OBVIOUS

(* Sets of processes are finite.                                           *)
LEMMA ServersAreFinite ==
    ASSUME NEW S \in SUBSET Server
    PROVE  /\ IsFiniteSet(S) /\ Cardinality(S) \in Nat
           /\ Cardinality(S) <= Cardinality(Server) /\ Cardinality(Server) \in Nat
           /\ \A T \in SUBSET S : Cardinality(T) <= Cardinality(S)
BY DeliveryAssumption, FS_Subset, FS_CardinalityType

(* A call that starts has its whole time, one that goes on a step less.    *)
LEMMA CallRecords ==
    /\ \A e \in Event : [event : {e}, hook : Hook, left : {DeliverTimeout}] \subseteq Call
    /\ \A c \in Call : c.left > 0 => /\ [c EXCEPT !.left = @ - 1] \in Call
                                    /\ [c EXCEPT !.left = @ - 1].left = c.left - 1
                                    /\ c.left \in Nat
BY DEF Call, DeliverTimeout

(* The query's result: calls of its own, one more copy per webhook.        *)
LEMMA StartKeeps ==
    ASSUME DeliveryTypeOK, NEW s \in Server, NEW e \in Event, StartCalls(s, e)
    PROVE  /\ calls'[s] = calls[s] \cup [event : {e}, hook : active, left : {DeliverTimeout}]
           /\ calls'[s] \subseteq Call
           /\ \A r \in Server \ {s} : calls'[r] = calls[r]
           /\ copies' \in [Event -> [Hook -> Nat]]
           /\ \A h \in Hook : copies'[e][h] <= copies[e][h] + 1
           /\ \A f \in Event \ {e} : copies'[f] = copies[f]
<1>1. /\ calls' = [calls EXCEPT ![s] = @ \cup [event : {e}, hook : active, left : {DeliverTimeout}]]
      /\ copies' = [copies EXCEPT ![e] = [h \in Hook |->
                      IF h \in active THEN @[h] + 1 ELSE @[h]]]
  BY DEF StartCalls
<1>2. \A r \in Server : calls'[r] = IF r = s
         THEN calls[s] \cup [event : {e}, hook : active, left : {DeliverTimeout}] ELSE calls[r]
  BY <1>1 DEF DeliveryTypeOK
<1>3. [event : {e}, hook : active, left : {DeliverTimeout}] \subseteq Call
  BY DEF DeliveryTypeOK, Call, DeliverTimeout
<1>4. \A f \in Event : copies'[f] = IF f = e
         THEN [h \in Hook |-> IF h \in active THEN copies[e][h] + 1 ELSE copies[e][h]]
         ELSE copies[f]
  BY <1>1 DEF DeliveryTypeOK
<1>5. copies' \in [Event -> [Hook -> Nat]]
  BY <1>1 DEF DeliveryTypeOK
<1>6. \A h \in Hook : copies[e][h] \in Nat
  BY DEF DeliveryTypeOK
<1>7. calls'[s] \subseteq Call
  BY <1>2, <1>3 DEF DeliveryTypeOK
<1>8. \A h \in Hook : copies'[e][h] <= copies[e][h] + 1
  <2>1. \A h \in Hook : copies'[e][h] = IF h \in active THEN copies[e][h] + 1 ELSE copies[e][h]
    BY <1>4
  <2>2. QED BY <1>6, <2>1
<1>9. QED BY <1>2, <1>4, <1>5, <1>7, <1>8

(* Stopping leaves nothing of a process and everything of the others.      *)
LEMMA GoneKeeps ==
    ASSUME DeliveryTypeOK, NEW s \in Server, Gone(s)
    PROVE  /\ DeliveryTypeOK' /\ stage'[s] = "down" /\ backlog'[s] = <<>> /\ calls'[s] = {}
           /\ \A r \in Server \ {s} : /\ stage'[r] = stage[r] /\ backlog'[r] = backlog[r]
                                     /\ calls'[r] = calls[r]
           /\ UNCHANGED <<drain, active, copies>>
BY DEF Gone, DeliveryTypeOK, Running

(* Time that passes takes a step from every call.                          *)
LEMMA PassKeeps ==
    ASSUME DeliveryTypeOK, PassTime
    PROVE  /\ calls' \in [Server -> SUBSET Call] /\ drain' \in [Server -> 0 .. DrainTime]
           /\ UNCHANGED <<stage, attached, backlog, active, copies>>
           /\ \A s \in Server :
                 /\ calls'[s] = {[c EXCEPT !.left = @ - 1] : c \in calls[s]}
                 /\ \A c \in calls[s] : c \in Call /\ c.left > 0
                 /\ drain'[s] = IF stage[s] = "draining" /\ drain[s] > 0
                                THEN drain[s] - 1 ELSE drain[s]
<1>1. /\ \A s \in Server : \A c \in calls[s] : c \in Call /\ c.left > 0
      /\ calls' = [s \in Server |-> {[c EXCEPT !.left = @ - 1] : c \in calls[s]}]
      /\ drain' = [s \in Server |-> IF stage[s] = "draining" /\ drain[s] > 0
                                    THEN drain[s] - 1 ELSE drain[s]]
      /\ UNCHANGED <<stage, attached, backlog, active, copies>>
  BY DEF PassTime, DeliveryTypeOK
<1>2. \A s \in Server : {[c EXCEPT !.left = @ - 1] : c \in calls[s]} \subseteq Call
  BY <1>1, CallRecords
<1>3. \A s \in Server : drain'[s] \in 0 .. DrainTime
  BY <1>1 DEF DeliveryTypeOK, DrainTime
<1>4. QED BY <1>1, <1>2, <1>3

(* Type correctness.                                                       *)
LEMMA DeliveryTypeStep == DeliveryTypeOK /\ [DeliveryNext]_dvars => DeliveryTypeOK'
<1> SUFFICES ASSUME DeliveryTypeOK, [DeliveryNext]_dvars PROVE DeliveryTypeOK'
  OBVIOUS
<1>1. ASSUME NEW e \in Event, PublishEvent(e) PROVE DeliveryTypeOK'
  <2>1. /\ backlog' = [s \in Server |-> IF attached[s] THEN Append(backlog[s], e) ELSE backlog[s]]
        /\ copies' = [copies EXCEPT ![e] = [h \in Hook |-> 0]]
        /\ UNCHANGED <<stage, attached, calls, drain, active>>
    BY <1>1 DEF PublishEvent
  <2>2. \A s \in Server : backlog'[s] \in Seq(Event)
    BY <2>1, AppendKeeps DEF DeliveryTypeOK
  <2>3. backlog' \in [Server -> Seq(Event)] /\ copies' \in [Event -> [Hook -> Nat]]
    BY <2>1, <2>2 DEF DeliveryTypeOK
  <2>4. \A s \in Server : ~Running(s)' => ~attached'[s] /\ backlog'[s] = <<>> /\ calls'[s] = {}
    BY <2>1 DEF DeliveryTypeOK, Running
  <2>5. QED BY <2>1, <2>3, <2>4 DEF DeliveryTypeOK
<1>2. ASSUME NEW s \in Server, LoseConnection(s) \/ Reattach(s) \/ Terminate(s) \/ Restart(s)
      PROVE  DeliveryTypeOK'
  <2>1. CASE LoseConnection(s) \/ Reattach(s)
    BY <2>1 DEF LoseConnection, Reattach, DeliveryTypeOK, Running
  <2>2. CASE Terminate(s)
    BY <2>2 DEF Terminate, DeliveryTypeOK, Running
  <2>3. CASE Restart(s)
    <3>1. drain' \in [Server -> 0 .. DrainTime]
      BY <2>3 DEF Restart, DeliveryTypeOK, DrainTime
    <3>2. QED BY <2>3, <3>1 DEF Restart, DeliveryTypeOK, Running
  <2>4. QED BY <1>2, <2>1, <2>2, <2>3
<1>3. ASSUME NEW s \in Server, Dispatch(s) PROVE DeliveryTypeOK'
  <2>1. /\ backlog[s] # <<>> /\ stage[s] = "up" /\ StartCalls(s, Head(backlog[s]))
        /\ backlog' = [backlog EXCEPT ![s] = Tail(@)]
        /\ UNCHANGED <<stage, attached, drain, active>>
    BY <1>3 DEF Dispatch
  <2>2. Head(backlog[s]) \in Event /\ Tail(backlog[s]) \in Seq(Event)
    BY <2>1, TailKeeps DEF DeliveryTypeOK
  <2>3. /\ calls'[s] \subseteq Call /\ copies' \in [Event -> [Hook -> Nat]]
        /\ \A r \in Server \ {s} : calls'[r] = calls[r]
    BY <2>1, <2>2, StartKeeps
  <2>4. calls' \in [Server -> SUBSET Call]
    BY <2>1, <2>3 DEF StartCalls, DeliveryTypeOK
  <2>5. backlog' \in [Server -> Seq(Event)] /\ \A r \in Server \ {s} : backlog'[r] = backlog[r]
    BY <2>1, <2>2 DEF DeliveryTypeOK
  <2>6. QED BY <2>1, <2>3, <2>4, <2>5 DEF DeliveryTypeOK, Running
<1>4. ASSUME NEW s \in Server, DropEvent(s) PROVE DeliveryTypeOK'
  <2>1. Tail(backlog[s]) \in Seq(Event)
    BY <1>4, TailKeeps DEF DropEvent, DeliveryTypeOK
  <2>2. QED BY <1>4, <2>1 DEF DropEvent, DeliveryTypeOK, Running
<1>5. ASSUME NEW s \in Server, NEW c \in Call, EndCall(s, c) PROVE DeliveryTypeOK'
  BY <1>5 DEF EndCall, DeliveryTypeOK, Running
<1>6. ASSUME NEW s \in Server, Exit(s) \/ Kill(s) PROVE DeliveryTypeOK'
  BY <1>6, GoneKeeps DEF Exit, Kill
<1>7. CASE PassTime
  BY <1>7, PassKeeps DEF DeliveryTypeOK, Running
<1>8. ASSUME NEW h \in Hook, CreateHook(h) \/ DeleteHook(h) PROVE DeliveryTypeOK'
  BY <1>8 DEF CreateHook, DeleteHook, DeliveryTypeOK, Running
<1>9. CASE UNCHANGED dvars
  BY <1>9 DEF dvars, DeliveryTypeOK, Running
<1>10. QED BY <1>1, <1>2, <1>3, <1>4, <1>5, <1>6, <1>7, <1>8, <1>9 DEF DeliveryNext

----------------------------------------------------------------------------
(* An event that is not in a queue is in it once when it is appended.      *)
LEMMA AppendOnce ==
    ASSUME NEW T, NEW q \in Seq(T), NEW e \in T, Once(q), ~Holds(q, e)
    PROVE  /\ Once(Append(q, e))
           /\ \A f \in T \ {e} : Holds(Append(q, e), f) => Holds(q, f)
<1>1. /\ Len(Append(q, e)) = Len(q) + 1 /\ Len(q) \in Nat
      /\ Append(q, e)[Len(q) + 1] = e
      /\ \A i \in 1 .. Len(q) : Append(q, e)[i] = q[i]
  BY AppendKeeps
<1>2. \A i \in 1 .. Len(Append(q, e)) : i \in 1 .. Len(q) \/ i = Len(q) + 1
  BY <1>1
<1>3. \A i \in 1 .. Len(q) : q[i] # e
  BY DEF Holds
<1>4. QED BY <1>1, <1>2, <1>3 DEF Once, Holds

(* The first message is not among those that are left.                     *)
LEMMA TailOnce ==
    ASSUME NEW T, NEW q \in Seq(T), q # <<>>, Once(q)
    PROVE  /\ Once(Tail(q)) /\ Holds(q, Head(q)) /\ ~Holds(Tail(q), Head(q))
           /\ \A f \in T : Holds(Tail(q), f) => Holds(q, f)
<1>1. /\ Len(q) \in Nat \ {0} /\ Head(q) = q[1] /\ Len(Tail(q)) = Len(q) - 1
      /\ \A i \in 1 .. Len(q) - 1 : Tail(q)[i] = q[i + 1]
  BY TailKeeps
<1>2. \A i \in 1 .. Len(Tail(q)) : i + 1 \in 1 .. Len(q) /\ i + 1 # 1 /\ Tail(q)[i] = q[i + 1]
  BY <1>1
<1>3. 1 \in 1 .. Len(q)
  BY <1>1
<1>4. Once(Tail(q))
  <2>1. ASSUME NEW i \in 1 .. Len(Tail(q)), NEW j \in 1 .. Len(Tail(q)), Tail(q)[i] = Tail(q)[j]
        PROVE  i = j
    <3>1. i + 1 = j + 1
      BY <1>2, <2>1 DEF Once
    <3>2. QED BY <1>1, <3>1
  <2>2. QED BY <2>1 DEF Once
<1>5. Holds(q, Head(q))
  BY <1>1, <1>3 DEF Holds
<1>6. ~Holds(Tail(q), Head(q))
  BY <1>1, <1>2, <1>3 DEF Once, Holds
<1>7. \A f \in T : Holds(Tail(q), f) => Holds(q, f)
  BY <1>2 DEF Holds
<1>8. QED BY <1>4, <1>5, <1>6, <1>7

(* No queue holds anything at the start or after a process is gone.        *)
LEMMA EmptyOnce == Once(<<>>) /\ \A e : ~Holds(<<>>, e)
BY DEF Once, Holds

(* Steps that post nothing and make nothing wait.                          *)
LEMMA NothingPosted ==
    ASSUME DeliveryInv, \A s \in Server : Once(backlog'[s]),
           \A e \in Event : Waiting(e)' \subseteq Waiting(e),
           copies' \in [Event -> [Hook -> Nat]],
           \A e \in Event : \A h \in Hook : copies'[e][h] <= copies[e][h]
    PROVE  WaitsOnce' /\ CopiesToCome'
<1>1. WaitsOnce'
  BY DEF WaitsOnce
<1>2. ASSUME NEW e \in Event, NEW h \in Hook
      PROVE  copies'[e][h] + Cardinality(Waiting(e)') <= Cardinality(Server)
  <2>1. /\ copies'[e][h] \in Nat /\ copies[e][h] \in Nat
        /\ copies[e][h] + Cardinality(Waiting(e)) <= Cardinality(Server)
    BY DEF DeliveryInv, DeliveryTypeOK, CopiesToCome
  <2>2. Waiting(e) \in SUBSET Server /\ Waiting(e)' \in SUBSET Waiting(e)
        /\ Waiting(e)' \in SUBSET Server
    BY DEF Waiting
  <2>3. /\ Cardinality(Waiting(e)') <= Cardinality(Waiting(e)) /\ Cardinality(Server) \in Nat
        /\ Cardinality(Waiting(e)') \in Nat /\ Cardinality(Waiting(e)) \in Nat
    BY <2>2, ServersAreFinite
  <2>4. QED BY <2>1, <2>3
<1>3. QED BY <1>1, <1>2 DEF CopiesToCome

(* An event waits nowhere when it is published, and its count starts anew. *)
LEMMA PublishStep ==
    ASSUME DeliveryInv, NEW e \in Event, PublishEvent(e)
    PROVE  WaitsOnce' /\ CopiesToCome'
<1>1. /\ ~Pending(e)
      /\ backlog' = [s \in Server |-> IF attached[s] THEN Append(backlog[s], e) ELSE backlog[s]]
      /\ copies' = [copies EXCEPT ![e] = [h \in Hook |-> 0]]
  BY DEF PublishEvent
<1>2. \A s \in Server : /\ ~Holds(backlog[s], e) /\ Once(backlog[s])
                        /\ backlog[s] \in Seq(Event)
  BY <1>1 DEF Pending, Holds, DeliveryInv, WaitsOnce, DeliveryTypeOK
<1>3. \A s \in Server : /\ Once(backlog'[s])
                        /\ \A f \in Event \ {e} : Holds(backlog'[s], f) => Holds(backlog[s], f)
  BY <1>1, <1>2, AppendOnce
<1>4. \A f \in Event \ {e} : Waiting(f)' \subseteq Waiting(f) /\ copies'[f] = copies[f]
  BY <1>1, <1>3 DEF Waiting, DeliveryInv, DeliveryTypeOK
<1>5. ASSUME NEW f \in Event, NEW h \in Hook
      PROVE  copies'[f][h] + Cardinality(Waiting(f)') <= Cardinality(Server)
  <2>1. Waiting(f)' \in SUBSET Server /\ Waiting(f) \in SUBSET Server
    BY DEF Waiting
  <2>2. /\ Cardinality(Waiting(f)') \in Nat /\ Cardinality(Waiting(f)) \in Nat
        /\ Cardinality(Server) \in Nat
        /\ Cardinality(Waiting(f)') <= Cardinality(Server)
    BY <2>1, ServersAreFinite
  <2>3. CASE f = e
    <3>1. copies'[f][h] = 0
      BY <1>1, <2>3 DEF DeliveryInv, DeliveryTypeOK
    <3>2. QED BY <2>2, <3>1
  <2>4. CASE f # e
    <3>1. Waiting(f)' \in SUBSET Waiting(f) /\ copies'[f] = copies[f]
      BY <1>4, <2>4
    <3>2. Cardinality(Waiting(f)') <= Cardinality(Waiting(f))
      BY <2>1, <3>1, ServersAreFinite
    <3>3. copies[f][h] \in Nat /\ copies[f][h] + Cardinality(Waiting(f)) <= Cardinality(Server)
      BY DEF DeliveryInv, DeliveryTypeOK, CopiesToCome
    <3>4. QED BY <2>2, <3>1, <3>2, <3>3
  <2>5. QED BY <2>3, <2>4
<1>6. QED BY <1>3, <1>5 DEF WaitsOnce, CopiesToCome

(* A process posts the event it no longer holds.                           *)
LEMMA DispatchStep ==
    ASSUME DeliveryInv, NEW s \in Server, Dispatch(s)
    PROVE  WaitsOnce' /\ CopiesToCome'
<1>1. PICK e \in Event : e = Head(backlog[s])
  BY TailKeeps DEF Dispatch, DeliveryInv, DeliveryTypeOK
<1>2. /\ backlog[s] # <<>> /\ StartCalls(s, e)
      /\ backlog' = [backlog EXCEPT ![s] = Tail(backlog[s])]
  BY <1>1 DEF Dispatch
<1>3. /\ Once(Tail(backlog[s])) /\ Holds(backlog[s], e) /\ ~Holds(Tail(backlog[s]), e)
      /\ \A f \in Event : Holds(Tail(backlog[s]), f) => Holds(backlog[s], f)
  BY <1>1, <1>2, TailOnce DEF DeliveryInv, WaitsOnce, DeliveryTypeOK
<1>4. /\ backlog'[s] = Tail(backlog[s])
      /\ \A r \in Server \ {s} : backlog'[r] = backlog[r]
  BY <1>2 DEF DeliveryInv, DeliveryTypeOK
<1>5. WaitsOnce'
  BY <1>3, <1>4 DEF DeliveryInv, WaitsOnce
<1>6. /\ copies' \in [Event -> [Hook -> Nat]]
      /\ \A h \in Hook : copies'[e][h] <= copies[e][h] + 1
      /\ \A f \in Event \ {e} : copies'[f] = copies[f]
  BY <1>2, StartKeeps DEF DeliveryInv
<1>7. ASSUME NEW f \in Event, NEW h \in Hook
      PROVE  copies'[f][h] + Cardinality(Waiting(f)') <= Cardinality(Server)
  <2>1. Waiting(f)' \in SUBSET Waiting(f) /\ Waiting(f) \in SUBSET Server
    BY <1>3, <1>4 DEF Waiting
  <2>2. /\ IsFiniteSet(Waiting(f)) /\ Cardinality(Waiting(f)) \in Nat
        /\ Cardinality(Waiting(f)') \in Nat /\ Cardinality(Server) \in Nat
        /\ Cardinality(Waiting(f)') <= Cardinality(Waiting(f))
    BY <2>1, ServersAreFinite
  <2>3. /\ copies[f][h] \in Nat /\ copies'[f][h] \in Nat
        /\ copies[f][h] + Cardinality(Waiting(f)) <= Cardinality(Server)
    BY <1>6 DEF DeliveryInv, DeliveryTypeOK, CopiesToCome
  <2>4. CASE f = e
    <3>1. Waiting(f)' \in SUBSET (Waiting(f) \ {s}) /\ s \in Waiting(f)
      BY <1>3, <1>4, <2>1, <2>4 DEF Waiting
    <3>2. Cardinality(Waiting(f) \ {s}) = Cardinality(Waiting(f)) - 1
      BY <2>2, <3>1, FS_RemoveElement
    <3>3. Cardinality(Waiting(f)') <= Cardinality(Waiting(f) \ {s})
      BY <2>1, <3>1, ServersAreFinite
    <3>4. copies'[f][h] <= copies[f][h] + 1
      BY <1>6, <2>4
    <3>5. QED BY <2>2, <2>3, <3>2, <3>3, <3>4
  <2>5. CASE f # e
    <3>1. copies'[f][h] = copies[f][h]
      BY <1>6, <2>5
    <3>2. QED BY <2>2, <2>3, <3>1
  <2>6. QED BY <2>4, <2>5
<1>8. QED BY <1>5, <1>7 DEF CopiesToCome

(* Every step of the delivery preserves the invariant.                     *)
LEMMA DeliveryInvStep == DeliveryInv /\ [DeliveryNext]_dvars => DeliveryInv'
<1> SUFFICES ASSUME DeliveryInv, [DeliveryNext]_dvars PROVE DeliveryInv'
  OBVIOUS
<1>0. DeliveryTypeOK'
  BY DeliveryTypeStep DEF DeliveryInv
<1>1. ASSUME NEW e \in Event, PublishEvent(e) PROVE WaitsOnce' /\ CopiesToCome'
  BY <1>1, PublishStep
<1>2. ASSUME NEW s \in Server, Dispatch(s) PROVE WaitsOnce' /\ CopiesToCome'
  BY <1>2, DispatchStep
<1>3. ASSUME UNCHANGED <<backlog, copies>> PROVE WaitsOnce' /\ CopiesToCome'
  BY <1>3 DEF DeliveryInv, WaitsOnce, CopiesToCome, Waiting
<1>4. ASSUME NEW s \in Server, copies' = copies,
             backlog'[s] \in {<<>>, Tail(backlog[s])}, backlog[s] # <<>> \/ backlog'[s] = <<>>,
             \A r \in Server \ {s} : backlog'[r] = backlog[r]
      PROVE  WaitsOnce' /\ CopiesToCome'
  <2>1. /\ \A r \in Server : Once(backlog[r]) /\ backlog[r] \in Seq(Event)
        /\ copies \in [Event -> [Hook -> Nat]]
    BY DEF DeliveryInv, WaitsOnce, DeliveryTypeOK
  <2>2. Once(backlog'[s]) /\ \A f \in Event : Holds(backlog'[s], f) => Holds(backlog[s], f)
    <3>1. CASE backlog'[s] = <<>>
      BY <3>1, EmptyOnce
    <3>2. CASE backlog'[s] = Tail(backlog[s]) /\ backlog[s] # <<>>
      <4>1. backlog[s] \in Seq(Event) /\ Once(backlog[s])
        BY <2>1
      <4>2. /\ Once(Tail(backlog[s]))
            /\ \A f \in Event : Holds(Tail(backlog[s]), f) => Holds(backlog[s], f)
        BY <3>2, <4>1, TailOnce
      <4>3. QED BY <3>2, <4>2
    <3>3. QED BY <1>4, <3>1, <3>2
  <2>3. \A f \in Event : Waiting(f)' \subseteq Waiting(f)
    BY <1>4, <2>2 DEF Waiting
  <2>4. \A e \in Event : \A h \in Hook : copies'[e][h] <= copies[e][h]
    <3>1. \A e \in Event : \A h \in Hook : copies[e][h] \in Nat
      BY <2>1
    <3>2. QED BY <1>4, <3>1
  <2>5. \A r \in Server : Once(backlog'[r])
    BY <1>4, <2>1, <2>2
  <2>6. QED BY <1>4, <2>1, <2>3, <2>4, <2>5, NothingPosted
<1>5. ASSUME NEW s \in Server, DropEvent(s) \/ Exit(s) \/ Kill(s)
      PROVE  WaitsOnce' /\ CopiesToCome'
  <2>1. CASE DropEvent(s)
    BY <1>4, <2>1 DEF DropEvent, DeliveryInv, DeliveryTypeOK
  <2>2. CASE Gone(s)
    BY <1>4, <2>2, GoneKeeps DEF DeliveryInv
  <2>3. QED BY <1>5, <2>1, <2>2 DEF Exit, Kill
<1>6. ASSUME NEW h \in Hook, CreateHook(h) PROVE WaitsOnce' /\ CopiesToCome'
  <2>1. backlog' = backlog /\ copies' = [e \in Event |-> [copies[e] EXCEPT ![h] = 0]]
    BY <1>6 DEF CreateHook
  <2>2. \A e \in Event : \A k \in Hook : copies[e][k] \in Nat
    BY DEF DeliveryInv, DeliveryTypeOK
  <2>3. \A e \in Event : \A k \in Hook : copies'[e][k] = IF k = h THEN 0 ELSE copies[e][k]
    BY <2>1 DEF DeliveryInv, DeliveryTypeOK
  <2>4. \A e \in Event : \A k \in Hook : copies'[e][k] <= copies[e][k]
    BY <2>2, <2>3
  <2>5. /\ \A s \in Server : Once(backlog'[s])
        /\ \A e \in Event : Waiting(e)' \subseteq Waiting(e)
        /\ copies' \in [Event -> [Hook -> Nat]]
    BY <1>0, <2>1 DEF DeliveryInv, WaitsOnce, Waiting, DeliveryTypeOK
  <2>6. QED BY <2>4, <2>5, NothingPosted
<1>7. WaitsOnce' /\ CopiesToCome'
  <2>1. ASSUME NEW s \in Server, LoseConnection(s) \/ Reattach(s) \/ Terminate(s) \/ Restart(s)
        PROVE  UNCHANGED <<backlog, copies>>
    BY <2>1 DEF LoseConnection, Reattach, Terminate, Restart
  <2>2. ASSUME NEW s \in Server, NEW c \in Call, EndCall(s, c) PROVE UNCHANGED <<backlog, copies>>
    BY <2>2 DEF EndCall
  <2>3. ASSUME NEW h \in Hook, DeleteHook(h) PROVE UNCHANGED <<backlog, copies>>
    BY <2>3 DEF DeleteHook
  <2>4. CASE PassTime
    BY <1>3, <2>4 DEF PassTime
  <2>5. CASE UNCHANGED dvars
    BY <1>3, <2>5 DEF dvars
  <2>6. QED BY <1>1, <1>2, <1>3, <1>5, <1>6, <2>1, <2>2, <2>3, <2>4, <2>5 DEF DeliveryNext
<1>8. QED BY <1>0, <1>7 DEF DeliveryInv

(* At the start nothing waits and nothing was posted.                      *)
LEMMA DeliveryTypeInit == DeliveryInit => DeliveryTypeOK
<1> SUFFICES ASSUME DeliveryInit PROVE DeliveryTypeOK
  OBVIOUS
<1>1. <<>> \in Seq(Event) /\ DrainTime \in 0 .. DrainTime
  BY DEF DrainTime
<1>2. QED BY <1>1 DEF DeliveryInit, DeliveryTypeOK, Running

(* The strengthening: an event waits once per process that may yet post it.*)
LEMMA DeliveryInvHolds == DeliverySpec => []DeliveryInv
<1>1. DeliveryInit => DeliveryInv
  <2> SUFFICES ASSUME DeliveryInit PROVE DeliveryInv
    OBVIOUS
  <2>1. \A s \in Server : Once(backlog[s]) /\ \A e \in Event : ~Holds(backlog[s], e)
    BY EmptyOnce DEF DeliveryInit
  <2>2. \A e \in Event : Waiting(e) = {} /\ \A h \in Hook : copies[e][h] = 0
    BY <2>1 DEF Waiting, DeliveryInit
  <2>3. Cardinality({}) = 0 /\ Cardinality(Server) \in Nat
    BY FS_EmptySet, ServersAreFinite
  <2>4. CopiesToCome
    <3>1. \A e \in Event : \A h \in Hook :
             copies[e][h] = 0 /\ Cardinality(Waiting(e)) = 0
      BY <2>2, <2>3
    <3>2. QED BY <2>3, <3>1 DEF CopiesToCome
  <2>5. QED BY <2>1, <2>4, DeliveryTypeInit DEF DeliveryInv, WaitsOnce
<1>2. QED BY <1>1, DeliveryInvStep, PTL DEF DeliverySpec

(* Queues, calls and counters are of their types, and a process that is    *)
(* gone has none.                                                          *)
THEOREM DeliveryTypeCorrect == DeliverySpec => []DeliveryTypeOK
<1>1. QED BY DeliveryTypeInit, DeliveryTypeStep, PTL DEF DeliverySpec

(* A webhook gets a publication at most once from every process, whatever  *)
(* connections are lost and webhooks made or deleted meanwhile.            *)
THEOREM NoMoreCopiesThanServers == DeliverySpec => []OneCopyPerServer
<1>1. ASSUME DeliveryInv PROVE OneCopyPerServer
  <2>1. ASSUME NEW e \in Event, NEW h \in Hook PROVE copies[e][h] <= Cardinality(Server)
    <3>1. Waiting(e) \in SUBSET Server
      BY DEF Waiting
    <3>2. Cardinality(Waiting(e)) \in Nat /\ Cardinality(Server) \in Nat
      BY <3>1, ServersAreFinite
    <3>3. copies[e][h] \in Nat /\ copies[e][h] + Cardinality(Waiting(e)) <= Cardinality(Server)
      BY <1>1 DEF DeliveryInv, DeliveryTypeOK, CopiesToCome
    <3>4. QED BY <3>2, <3>3
  <2>2. QED BY <2>1 DEF OneCopyPerServer
<1>2. QED BY <1>1, DeliveryInvHolds, PTL

----------------------------------------------------------------------------
(* An event starts as many calls as there are webhooks, finitely many.     *)
LEMMA CallsOfEvent ==
    ASSUME NEW e, NEW H \in SUBSET Hook
    PROVE  IsFiniteSet([event : {e}, hook : H, left : {DeliverTimeout}])
<1> DEFINE C == [event : {e}, hook : H, left : {DeliverTimeout}]
           f == [h \in H |-> [event |-> e, hook |-> h, left |-> DeliverTimeout]]
<1>1. IsFiniteSet(H)
  BY DeliveryAssumption, FS_Subset
<1>2. f \in Surjection(H, C)
  <2>1. f \in [H -> C]
    OBVIOUS
  <2>2. ASSUME NEW c \in C PROVE \E h \in H : f[h] = c
    <3>1. c.hook \in H /\ c = [event |-> e, hook |-> c.hook, left |-> DeliverTimeout]
      OBVIOUS
    <3>2. QED BY <3>1
  <2>3. QED BY <2>1, <2>2 DEF Surjection
<1>3. QED BY <1>1, <1>2, FS_Surjection

(* Calls that go on are no more than they were.                            *)
LEMMA CallsGoOn ==
    ASSUME NEW C \in SUBSET Call, IsFiniteSet(C)
    PROVE  IsFiniteSet({[c EXCEPT !.left = @ - 1] : c \in C})
<1> DEFINE D == {[c EXCEPT !.left = @ - 1] : c \in C}
           f == [c \in C |-> [c EXCEPT !.left = @ - 1]]
<1>1. f \in Surjection(C, D)
  BY DEF Surjection
<1>2. QED BY <1>1, FS_Surjection

(* The timers of one process, and the finiteness of its calls.             *)
OnTime(s) ==
    /\ IsFiniteSet(calls[s])
    /\ stage[s] # "draining" => stage[s] = "down" \/ drain[s] = DrainTime
    /\ stage[s] = "draining" =>
          \A c \in calls[s] : c.left + (DrainTime - DeliverTimeout) <= drain[s]

(* The invariant, process by process.                                      *)
LEMMA DrainInvIsOnTime == DrainInv <=> DeliveryTypeOK /\ \A s \in Server : OnTime(s)
BY DEF DrainInv, CallsEndInTime, CallsAreFinite, OnTime

(* A process that no step concerns stays on time, and so does one that     *)
(* only loses calls.                                                       *)
LEMMA FewerCalls ==
    ASSUME NEW s \in Server, OnTime(s), stage'[s] = stage[s], drain'[s] = drain[s],
           calls'[s] \subseteq calls[s]
    PROVE  OnTime(s)'
<1>1. IsFiniteSet(calls'[s])
  BY FS_Subset DEF OnTime
<1>2. QED BY <1>1 DEF OnTime

(* Every step keeps every process on time.                                 *)
LEMMA DrainInvStep == DrainInv /\ [DeliveryNext]_dvars => DrainInv'
<1> SUFFICES ASSUME DrainInv, [DeliveryNext]_dvars PROVE DrainInv'
  OBVIOUS
<1>1. DeliveryTypeOK /\ DeliveryTypeOK' /\ \A s \in Server : OnTime(s)
  BY DeliveryTypeStep, DrainInvIsOnTime DEF DrainInv
<1>2. SUFFICES ASSUME NEW r \in Server PROVE OnTime(r)'
  <2>1. (DrainInv <=> DeliveryTypeOK /\ \A s \in Server : OnTime(s))'
    BY DrainInvIsOnTime, PTL
  <2>2. QED BY <1>1, <1>2, <2>1
<1>3. ASSUME UNCHANGED <<stage, calls, drain>> PROVE OnTime(r)'
  BY <1>1, <1>3, FewerCalls
<1>4. ASSUME NEW s \in Server, LoseConnection(s) \/ Reattach(s) \/ DropEvent(s)
      PROVE  OnTime(r)'
  BY <1>3, <1>4 DEF LoseConnection, Reattach, DropEvent
<1>5. ASSUME NEW s \in Server, Dispatch(s) PROVE OnTime(r)'
  <2>1. PICK e \in Event : StartCalls(s, e)
    BY <1>1, <1>5, TailKeeps DEF Dispatch, DeliveryTypeOK
  <2>2. UNCHANGED <<stage, drain>> /\ stage[s] = "up"
    BY <1>5 DEF Dispatch
  <2>3. CASE r = s
    <3> DEFINE C == [event : {e}, hook : active, left : {DeliverTimeout}]
    <3>1. calls'[s] = calls[s] \cup C
      BY <1>1, <2>1, StartKeeps
    <3>2. IsFiniteSet(C) /\ IsFiniteSet(calls[s])
      BY <1>1, CallsOfEvent DEF DeliveryTypeOK, OnTime
    <3> HIDE DEF C
    <3>3. IsFiniteSet(calls'[s])
      BY <3>1, <3>2, FS_Union
    <3>4. QED BY <1>1, <2>2, <2>3, <3>3 DEF OnTime
  <2>4. CASE r # s
    <3>1. calls'[r] = calls[r]
      BY <1>1, <2>1, <2>4, StartKeeps
    <3>2. QED BY <1>1, <2>2, <3>1, FewerCalls
  <2>5. QED BY <2>3, <2>4
<1>6. ASSUME NEW s \in Server, NEW c \in Call, EndCall(s, c) PROVE OnTime(r)'
  <2>1. calls'[r] \subseteq calls[r] /\ UNCHANGED <<stage, drain>>
    BY <1>1, <1>6 DEF EndCall, DeliveryTypeOK
  <2>2. QED BY <1>1, <2>1, FewerCalls
<1>7. ASSUME NEW s \in Server, Terminate(s) PROVE OnTime(r)'
  <2>1. /\ stage[s] = "up" /\ stage'[s] = "draining" /\ UNCHANGED <<calls, drain>>
        /\ r # s => stage'[r] = stage[r]
    BY <1>1, <1>7 DEF Terminate, DeliveryTypeOK
  <2>2. \A c \in calls[s] : c.left \in 0 .. DeliverTimeout
    BY <1>1 DEF DeliveryTypeOK, Call
  <2>3. drain[s] = DrainTime /\ IsFiniteSet(calls[s])
    BY <1>1, <2>1 DEF OnTime
  <2>4. CASE r = s
    BY <2>1, <2>2, <2>3, <2>4 DEF OnTime, DrainTime, DeliverTimeout
  <2>5. CASE r # s
    BY <1>1, <2>1, <2>5, FewerCalls
  <2>6. QED BY <2>4, <2>5
<1>8. ASSUME NEW s \in Server, Exit(s) \/ Kill(s) PROVE OnTime(r)'
  <2>1. /\ stage'[s] = "down" /\ calls'[s] = {} /\ drain' = drain
        /\ r # s => stage'[r] = stage[r] /\ calls'[r] = calls[r]
    BY <1>1, <1>8, GoneKeeps DEF Exit, Kill
  <2>2. CASE r = s
    BY <2>1, <2>2, FS_EmptySet DEF OnTime
  <2>3. CASE r # s
    BY <1>1, <2>1, <2>3, FewerCalls
  <2>4. QED BY <2>2, <2>3
<1>9. ASSUME NEW s \in Server, Restart(s) PROVE OnTime(r)'
  <2>1. /\ stage'[s] = "up" /\ drain'[s] = DrainTime /\ calls' = calls
        /\ r # s => stage'[r] = stage[r] /\ drain'[r] = drain[r]
    BY <1>1, <1>9 DEF Restart, DeliveryTypeOK
  <2>2. CASE r = s
    BY <1>1, <2>1, <2>2 DEF OnTime
  <2>3. CASE r # s
    BY <1>1, <2>1, <2>3, FewerCalls
  <2>4. QED BY <2>2, <2>3
<1>10. CASE PassTime
  <2>0. calls'[r] = {[c EXCEPT !.left = @ - 1] : c \in calls[r]}
    BY <1>10 DEF PassTime
  <2>1. /\ stage' = stage /\ \A c \in calls[r] : c \in Call /\ c.left > 0
        /\ drain'[r] = IF stage[r] = "draining" /\ drain[r] > 0 THEN drain[r] - 1 ELSE drain[r]
        /\ drain[r] \in Nat /\ calls[r] \in SUBSET Call
    <3>0. drain \in [Server -> 0 .. DrainTime] /\ calls \in [Server -> SUBSET Call]
      BY <1>1, Zenon DEF DeliveryTypeOK
    <3>1. drain[r] \in Nat /\ calls[r] \in SUBSET Call
      BY <3>0 DEF DrainTime
    <3>2. stage' = stage
      BY <1>10 DEF PassTime
    <3>3. \A c \in calls[r] : c.left > 0
      BY <1>10, Zenon DEF PassTime
    <3>4. drain'[r] = IF stage[r] = "draining" /\ drain[r] > 0 THEN drain[r] - 1 ELSE drain[r]
      BY <1>10, Zenon DEF PassTime
    <3>5. \A c \in calls[r] : c \in Call
      BY <3>1, Zenon
    <3>6. QED BY <3>1, <3>2, <3>3, <3>4, <3>5
  <2>2. IsFiniteSet(calls'[r])
    BY <1>1, <2>0, <2>1, CallsGoOn DEF OnTime
  <2>3. ASSUME stage[r] = "draining", NEW d \in calls'[r]
        PROVE  d.left + (DrainTime - DeliverTimeout) <= drain'[r]
    <3>1. PICK c \in calls[r] : d = [c EXCEPT !.left = @ - 1]
      BY <2>0, <2>3
    <3>2. d.left = c.left - 1 /\ c.left \in Nat /\ c.left > 0
      BY <2>1, <3>1, CallRecords
    <3>3. c.left + (DrainTime - DeliverTimeout) <= drain[r]
      BY <1>1, <2>3 DEF OnTime
    <3>4. drain'[r] = drain[r] - 1
      BY <2>1, <2>3, <3>2, <3>3 DEF DrainTime, DeliverTimeout
    <3>5. QED BY <2>1, <3>2, <3>3, <3>4 DEF DrainTime, DeliverTimeout
  <2>4. QED BY <1>1, <2>1, <2>2, <2>3 DEF OnTime
<1>11. ASSUME NEW e \in Event, PublishEvent(e) PROVE OnTime(r)'
  BY <1>3, <1>11 DEF PublishEvent
<1>12. ASSUME NEW h \in Hook, CreateHook(h) \/ DeleteHook(h) PROVE OnTime(r)'
  BY <1>3, <1>12 DEF CreateHook, DeleteHook
<1>13. CASE UNCHANGED dvars
  BY <1>3, <1>13 DEF dvars
<1>14. QED
  BY <1>4, <1>5, <1>6, <1>7, <1>8, <1>9, <1>10, <1>11, <1>12, <1>13 DEF DeliveryNext

(* A process that exits by itself abandons no delivery: either none is     *)
(* left, or 30 s have passed and the last one ended before.  The WaitGroup *)
(* never gets to zero, so that it is the time that decides.                *)
THEOREM DrainLosesNoDelivery == DeliverySpec => DrainAbandonsNothing
<1>1. DeliveryInit => DrainInv
  <2> SUFFICES ASSUME DeliveryInit PROVE DrainInv
    OBVIOUS
  <2>1. QED BY DeliveryTypeInit, FS_EmptySet
            DEF DeliveryInit, DrainInv, CallsEndInTime, CallsAreFinite
<1>2. ASSUME DrainInv PROVE \A s \in Server : Exit(s) => calls[s] = {}
  <2> SUFFICES ASSUME NEW s \in Server, Exit(s) PROVE calls[s] = {}
    OBVIOUS
  <2>1. Cardinality(calls[s]) \in Nat
    BY <1>2, FS_CardinalityType DEF DrainInv, CallsAreFinite
  <2>2. Workers(s) # 0
    BY <2>1 DEF Workers
  <2>3. drain[s] = 0 /\ stage[s] = "draining"
    BY <2>2 DEF Exit
  <2>4. \A c \in calls[s] : c.left \in Nat /\ c.left + (DrainTime - DeliverTimeout) <= 0
    <3>1. \A c \in calls[s] : c \in Call
      BY <1>2 DEF DrainInv, DeliveryTypeOK
    <3>2. \A c \in calls[s] : c.left \in Nat
      BY <3>1 DEF Call, DeliverTimeout
    <3>3. QED BY <1>2, <2>3, <3>2 DEF DrainInv, CallsEndInTime
  <2>5. QED BY <2>4 DEF DrainTime, DeliverTimeout
<1>3. QED BY <1>1, <1>2, DrainInvStep, PTL DEF DeliverySpec, DrainAbandonsNothing
=============================================================================
