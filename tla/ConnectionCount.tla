-------------------------- MODULE ConnectionCount --------------------------
(***************************************************************************)
(* The limit on the SSE connections of one user (session.go,               *)
(* MaintainHeartbeat): every connection increments conn_count:<user>, sets *)
(* its expiry to a minute with another command, is refused if the count it *)
(* got is above the limit, renews the expiry while it is subscribed, and   *)
(* decrements the key when it ends, whatever became of its increment.      *)
(*                                                                         *)
(* All this is done by a goroutine beside the one that serves the request  *)
(* (main.go): a refusal ends only the first.  The stream of the connection *)
(* stays open, but it neither announces the user nor receives his tasks.   *)
(***************************************************************************)
EXTENDS Integers, FiniteSets

CONSTANTS
    Node,          \* server processes
    Link,          \* connections the user may have, rejected ones included
    NodeOf,        \* NodeOf[l]: the process that serves l
    MaxLinks,      \* 10
    LeakLimit      \* bound on the error crashes and failures leave on the count

ASSUME ConnectionAssumption ==
    /\ IsFiniteSet(Link)
    /\ NodeOf \in [Link -> Node]
    /\ MaxLinks \in Nat /\ LeakLimit \in Nat

VARIABLES
    link,    \* link[l]: how far connection l has come
    count,   \* the value of the key, 0 if there is none
    expiry,  \* "absent": no key, "lasting": without a TTL, "expiring": with one
    missed   \* connections admitted without a count, or whose count expired (history)

nvars == <<link, count, expiry, missed>>

(* "dismissed": refused, with its DECR to come.  "unheard": refused, still *)
(* served, and not counted any more.                                       *)
LinkState == {"off", "admitted", "refused", "open", "troubled", "closing",
              "dismissed", "unheard"}

(* Connections that have arrived and not decremented the key.              *)
Counted == {l \in Link : link[l] \notin {"off", "unheard"}}

ConnectionInit ==
    /\ link = [l \in Link |-> "off"]
    /\ count = 0 /\ expiry = "absent" /\ missed = 0

Moves(l, st) == link' = [link EXCEPT ![l] = st]

Counts(n) ==
    /\ count' = count + n
    /\ expiry' = IF expiry = "absent" THEN "lasting" ELSE expiry

(* INCR.  When it fails the count reads as 0, which admits the connection; *)
(* the command may have been executed all the same.                        *)
Arrive(l) ==
    /\ link[l] = "off"
    /\ \/ /\ Counts(1) /\ UNCHANGED missed
          /\ Moves(l, IF count' > MaxLinks THEN "refused" ELSE "admitted")
       \/ /\ missed < LeakLimit /\ missed' = missed + 1
          /\ \/ Counts(1)
             \/ UNCHANGED <<count, expiry>>
          /\ Moves(l, "admitted")

(* EXPIRE 1 minute, which may fail, then the comparison with the limit.    *)
SetExpiry(l) ==
    /\ link[l] \in {"admitted", "refused"}
    /\ Moves(l, IF link[l] = "admitted" THEN "open" ELSE "dismissed")
    /\ expiry' \in {expiry, IF expiry = "lasting" THEN "expiring" ELSE expiry}
    /\ UNCHANGED <<count, missed>>

(* The subscription is lost and made again.                                *)
Trouble(l) ==
    /\ \/ link[l] = "open" /\ Moves(l, "troubled")
       \/ link[l] = "troubled" /\ Moves(l, "open")
    /\ UNCHANGED <<count, expiry, missed>>

(* The request ends; nobody has anything to do for one that is unheard.    *)
Hangup(l) ==
    /\ link[l] \in {"open", "troubled", "dismissed", "unheard"}
    /\ Moves(l, IF link[l] = "unheard" THEN "off" ELSE "closing")
    /\ UNCHANGED <<count, expiry, missed>>

DecrementTwice(l) ==   \* mutant: refused, it decrements here and when it ends
    /\ link[l] \in {"closing", "dismissed"}
    /\ Moves(l, IF link[l] = "closing" THEN "off" ELSE "unheard")
    /\ Counts(IF count > MaxLinks THEN -2 ELSE -1)
    /\ UNCHANGED missed

(* DECR under a context of its own; it creates a missing key, at -1 and    *)
(* without an expiry.  It may fail.                                        *)
Decrement(l) ==
    /\ link[l] \in {"closing", "dismissed"}
    /\ Moves(l, IF link[l] = "closing" THEN "off" ELSE "unheard")
    /\ \/ Counts(-1)
       \/ count < MaxLinks + LeakLimit /\ UNCHANGED <<count, expiry>>
    /\ UNCHANGED missed

(* The process is gone and decrements nothing.                             *)
LinkCrash(n) ==
    /\ count < MaxLinks + LeakLimit
    /\ \E l \in Link : NodeOf[l] = n /\ link[l] # "off"
    /\ link' = [l \in Link |-> IF NodeOf[l] = n THEN "off" ELSE link[l]]
    /\ UNCHANGED <<count, expiry, missed>>

NeverRenewed(l) == FALSE   \* mutant: the ticker renews the presence key only

(* A subscribed connection renews the expiry every 15 s, one that has      *)
(* trouble subscribing does not; the commands of the others follow on each *)
(* other well within a minute.                                             *)
Renews(l) == l \in Counted /\ link[l] # "troubled"

KeyExpires ==
    /\ expiry = "expiring"
    /\ \A l \in Link : ~Renews(l)
    /\ count' = 0 /\ expiry' = "absent"
    /\ missed' = Cardinality({l \in Link : link[l] = "troubled"})
    /\ UNCHANGED link

ConnectionNext ==
    \/ \E l \in Link : Arrive(l) \/ SetExpiry(l) \/ Trouble(l) \/ Hangup(l) \/ Decrement(l)
    \/ \E n \in Node : LinkCrash(n)
    \/ KeyExpires

ConnectionSpec == ConnectionInit /\ [][ConnectionNext]_nvars

----------------------------------------------------------------------------
(* Without a key no connection is counted.                                 *)
ConnectionTypeOK ==
    /\ link \in [Link -> LinkState]
    /\ count \in Int /\ missed \in Nat
    /\ expiry \in {"absent", "lasting", "expiring"}
    /\ expiry = "absent" => /\ count = 0
                            /\ Cardinality(Counted) <= missed

(* The count is never further below the connections there are than by      *)
(* those whose INCR failed or whose key expired while they had trouble     *)
(* subscribing, whichever process crashes and whichever command fails: any *)
(* other error leaves it too high.                                         *)
CountCoversLinks == count + missed >= Cardinality(Counted)

(* "Check per-user connection limit (max 10 connections)" (session.go:88): *)
(* but for those no more than the limit announce the user and receive his  *)
(* tasks, although each is compared with a count that includes connections *)
(* about to be refused.  How many streams are served is not limited.       *)
LimitHolds ==
    Cardinality({l \in Link : link[l] \in {"open", "troubled"}}) <= MaxLinks + missed
=============================================================================
