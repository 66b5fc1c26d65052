--------------------------- MODULE EventDelivery ---------------------------
(***************************************************************************)
(* Events and the webhooks of one user (pubsub.go, webhooks.go), and what  *)
(* becomes of them when a process is told to stop (main.go).  An event is  *)
(* published on a Redis channel; the subscriber goroutine of every process *)
(* looks up the webhooks and starts a goroutine per POST, which has 10 s.  *)
(* Stopping cancels the context of the subscriber's queries, waits for the *)
(* WaitGroup that counts the subscriber and the deliveries, and gives up   *)
(* after 30 s.  Time passes in steps of 10 s.                              *)
(***************************************************************************)
EXTENDS Integers, Sequences, FiniteSets

CONSTANTS
    Server,   \* processes
    Event,    \* events; one is not published again before it is done with
    Hook      \* webhooks the user may have for them

ASSUME DeliveryAssumption == IsFiniteSet(Server) /\ IsFiniteSet(Hook)

VARIABLES
    stage,     \* stage[s]: the process runs, drains or is gone
    attached,  \* attached[s]: its connection to Redis is up
    backlog,   \* backlog[s]: messages of its Go channel
    calls,     \* calls[s]: deliveries under way, with the time they have left
    drain,     \* drain[s]: time left of shutdownCtx
    active,    \* webhooks there are
    copies     \* copies[e][h]: POSTs of e's last publication to h (history)

dvars == <<stage, attached, backlog, calls, drain, active, copies>>

DeliverTimeout == 1   \* 10 s
ShortDrain     == 1   \* mutant: shutdownCtx has 10 s as well
DrainTime      == 3   \* 30 s

Running(s) == stage[s] # "down"
Call       == [event : Event, hook : Hook, left : 0 .. DeliverTimeout]

DeliveryInit ==
    /\ stage = [s \in Server |-> "up"]
    /\ attached = [s \in Server |-> TRUE]
    /\ backlog = [s \in Server |-> <<>>]
    /\ calls = [s \in Server |-> {}]
    /\ drain = [s \in Server |-> DrainTime]
    /\ active = Hook
    /\ copies = [e \in Event |-> [h \in Hook |-> 0]]

Pending(e) ==
    \E s \in Server : \/ \E i \in 1 .. Len(backlog[s]) : backlog[s][i] = e
                      \/ \E c \in calls[s] : c.event = e

(* PUBLISH reaches the connections there are; nobody else gets it later.   *)
PublishEvent(e) ==
    /\ ~Pending(e)
    /\ backlog' = [s \in Server |-> IF attached[s] THEN Append(backlog[s], e) ELSE backlog[s]]
    /\ copies' = [copies EXCEPT ![e] = [h \in Hook |-> 0]]
    /\ UNCHANGED <<stage, attached, calls, drain, active>>

(* The client library loses its connection and comes back by itself; the   *)
(* Go channel stays open, and does so when the context is cancelled.       *)
LoseConnection(s) ==
    /\ attached[s] /\ attached' = [attached EXCEPT ![s] = FALSE]
    /\ UNCHANGED <<stage, backlog, calls, drain, active, copies>>

Reattach(s) ==
    /\ ~attached[s] /\ Running(s) /\ attached' = [attached EXCEPT ![s] = TRUE]
    /\ UNCHANGED <<stage, backlog, calls, drain, active, copies>>

StartCallsForLong(s, e) ==   \* mutant: a delivery may last as long as a shutdown
    /\ calls' = [calls EXCEPT ![s] = @ \cup [event : {e}, hook : active, left : {DrainTime}]]
    /\ copies' = [copies EXCEPT ![e] = [h \in Hook |->
                     IF h \in active THEN @[h] + 1 ELSE @[h]]]

StartCalls(s, e) ==
    /\ calls' = [calls EXCEPT ![s] = @ \cup [event : {e}, hook : active,
                                               left : {DeliverTimeout}]]
    /\ copies' = [copies EXCEPT ![e] = [h \in Hook |->
                     IF h \in active THEN @[h] + 1 ELSE @[h]]]

DispatchAgain(s) ==   \* mutant: the message stays while a webhook is missing
    /\ backlog[s] # <<>> /\ stage[s] = "up"
    /\ StartCalls(s, Head(backlog[s]))
    /\ backlog' = [backlog EXCEPT ![s] = IF active = Hook THEN Tail(@) ELSE @]
    /\ UNCHANGED <<stage, attached, drain, active>>

(* The query runs under the context that stopping cancels.                 *)
Dispatch(s) ==
    /\ backlog[s] # <<>> /\ stage[s] = "up"
    /\ StartCalls(s, Head(backlog[s]))
    /\ backlog' = [backlog EXCEPT ![s] = Tail(@)]
    /\ UNCHANGED <<stage, attached, drain, active>>

(* The query fails, for that or another reason: the event is gone.         *)
DropEvent(s) ==
    /\ backlog[s] # <<>> /\ Running(s)
    /\ backlog' = [backlog EXCEPT ![s] = Tail(@)]
    /\ UNCHANGED <<stage, attached, calls, drain, active, copies>>

(* The endpoint answers, refuses, or the time is up; the last is not       *)
(* recorded, as the statement has the same context.                        *)
EndCall(s, c) ==
    /\ c \in calls[s]
    /\ calls' = [calls EXCEPT ![s] = @ \ {c}]
    /\ UNCHANGED <<stage, attached, backlog, drain, active, copies>>

(* Calls whose time is up end before any more of it passes.                *)
PassTime ==
    /\ \A s \in Server : \A c \in calls[s] : c.left > 0
    /\ \E s \in Server : calls[s] # {} \/ (stage[s] = "draining" /\ drain[s] > 0)
    /\ calls' = [s \in Server |-> {[c EXCEPT !.left = @ - 1] : c \in calls[s]}]
    /\ drain' = [s \in Server |-> IF stage[s] = "draining" /\ drain[s] > 0
                                  THEN drain[s] - 1 ELSE drain[s]]
    /\ UNCHANGED <<stage, attached, backlog, active, copies>>

(* cancel(), with the timer of 30 s running from then on.                  *)
Terminate(s) ==
    /\ stage[s] = "up"
    /\ stage' = [stage EXCEPT ![s] = "draining"]
    /\ UNCHANGED <<attached, backlog, calls, drain, active, copies>>

(* workerWG: the subscriber does not leave its channel while it is open.   *)
Workers(s) == 1 + Cardinality(calls[s])

Gone(s) ==
    /\ stage' = [stage EXCEPT ![s] = "down"]
    /\ attached' = [attached EXCEPT ![s] = FALSE]
    /\ backlog' = [backlog EXCEPT ![s] = <<>>]
    /\ calls' = [calls EXCEPT ![s] = {}]
    /\ UNCHANGED <<drain, active, copies>>

ExitWhenDone(s) == stage[s] = "draining" /\ Workers(s) = 0 /\ Gone(s)   \* mutant

(* All is done, or the time is up.                                         *)
Exit(s) == stage[s] = "draining" /\ 0 \in {Workers(s), drain[s]} /\ Gone(s)

Kill(s) == Running(s) /\ Gone(s)

Restart(s) ==
    /\ stage[s] = "down"
    /\ stage' = [stage EXCEPT ![s] = "up"]
    /\ attached' = [attached EXCEPT ![s] = TRUE]
    /\ drain' = [drain EXCEPT ![s] = DrainTime]
    /\ UNCHANGED <<backlog, calls, active, copies>>

(* apiCreateWebhookHandler: a webhook nobody has posted to yet.            *)
CreateHook(h) ==
    /\ h \notin active /\ \A s \in Server : \A c \in calls[s] : c.hook # h
    /\ active' = active \cup {h}
    /\ copies' = [e \in Event |-> [copies[e] EXCEPT ![h] = 0]]
    /\ UNCHANGED <<stage, attached, backlog, calls, drain>>

(* apiDeleteWebhookHandler; deliveries under way are not called off.       *)
DeleteHook(h) ==
    /\ h \in active /\ active' = active \ {h}
    /\ UNCHANGED <<stage, attached, backlog, calls, drain, copies>>

DeliveryNext ==
    \/ \E e \in Event : PublishEvent(e)
    \/ \E s \in Server :
          \/ LoseConnection(s) \/ Reattach(s) \/ Dispatch(s) \/ DropEvent(s)
          \/ \E c \in Call : EndCall(s, c)
          \/ Terminate(s) \/ Exit(s) \/ Kill(s) \/ Restart(s)
    \/ PassTime
    \/ \E h \in Hook : CreateHook(h) \/ DeleteHook(h)

(* Time passes, calls end when it is up, and a process runs on.            *)
DeliveryFairness ==
    /\ WF_dvars(PassTime)
    /\ \A s \in Server : /\ WF_dvars(Exit(s))
                         /\ \A c \in Call : WF_dvars(EndCall(s, c))

DeliverySpec == DeliveryInit /\ [][DeliveryNext]_dvars /\ DeliveryFairness

----------------------------------------------------------------------------
(* A process that is gone holds nothing, and no delivery has more time     *)
(* than deliverCtx gives it.                                               *)
DeliveryTypeOK ==
    /\ stage \in [Server -> {"up", "draining", "down"}]
    /\ attached \in [Server -> BOOLEAN]
    /\ backlog \in [Server -> Seq(Event)] /\ calls \in [Server -> SUBSET Call]
    /\ drain \in [Server -> 0 .. DrainTime]
    /\ active \subseteq Hook
    /\ copies \in [Event -> [Hook -> Nat]]
    /\ \A s \in Server : ~Running(s) => ~attached[s] /\ backlog[s] = <<>> /\ calls[s] = {}

(* Every process posts an event on its own, so that a webhook gets it as   *)
(* often as there are processes, and, whatever connections come back and   *)
(* webhooks come and go in between, never more often.                     *)
OneCopyPerServer ==
    \A e \in Event : \A h \in Hook : copies[e][h] <= Cardinality(Server)

(* A process that is told to stop abandons no delivery: those under way    *)
(* have less time left than the shutdown gives them, and no other starts.  *)
DrainAbandonsNothing == [][\A s \in Server : Exit(s) => calls[s] = {}]_dvars

(* It does stop, although the WaitGroup it waits for never gets to zero.   *)
ShutdownEnds == \A s \in Server : stage[s] = "draining" ~> stage[s] = "down"
=============================================================================
