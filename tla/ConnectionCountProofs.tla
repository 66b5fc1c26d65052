----------------------- MODULE ConnectionCountProofs -----------------------
(***************************************************************************)
(* The count of a user's connections, for every number of connections and  *)
(* server processes, every assignment of the one to the other, every limit *)
(* and every number of failed commands.                                    *)
(***************************************************************************)
EXTENDS ConnectionCount, FiniteSetTheorems, TLAPS

(* Connections the comparison let in, and that are not about to end.       *)
LetIn == {l \in Link : link[l] \in {"admitted", "open", "troubled"}}

(* The comparison with the limit is made once, when a connection arrives;  *)
(* what it guarantees holds of those let in, subscribed or not.            *)
WithinLimit == Cardinality(LetIn) <= MaxLinks + missed

ConnectionInv == ConnectionTypeOK /\ CountCoversLinks /\ WithinLimit

----------------------------------------------------------------------------
(* Sets of connections are finite.                                         *)
LEMMA LinksAreFinite ==
    ASSUME NEW S \in SUBSET Link
    PROVE  IsFiniteSet(S) /\ Cardinality(S) \in Nat
BY ConnectionAssumption, FS_Subset, FS_CardinalityType

(* A set of connections is no larger than one it is part of.               *)
LEMMA FewerLinks ==
    ASSUME NEW T \in SUBSET Link, NEW S \in SUBSET T
    PROVE  Cardinality(S) <= Cardinality(T)
BY LinksAreFinite, FS_Subset

(* When one connection moves, the connections of some states change by at  *)
(* most that one.                                                          *)
LEMMA OneMove ==
    ASSUME ConnectionTypeOK, NEW l \in Link, NEW st \in LinkState, Moves(l, st),
           NEW St \in SUBSET LinkState,
           NEW Before, Before = {k \in Link : link[k] \in St},
           NEW After, After = {k \in Link : link'[k] \in St}
    PROVE  /\ Cardinality(Before) \in Nat /\ Cardinality(After) \in Nat
           /\ st \in St /\ link[l] \in St => Cardinality(After) = Cardinality(Before)
           /\ st \in St /\ link[l] \notin St => Cardinality(After) = Cardinality(Before) + 1
           /\ st \notin St /\ link[l] \in St => Cardinality(After) = Cardinality(Before) - 1
           /\ st \notin St /\ link[l] \notin St => Cardinality(After) = Cardinality(Before)
<1>1. link' = [link EXCEPT ![l] = st] /\ link \in [Link -> LinkState]
  BY DEF Moves, ConnectionTypeOK
<1>2. st \in St => After = Before \cup {l}
  BY <1>1
<1>3. st \notin St => After = Before \ {l}
  BY <1>1
<1>4. IsFiniteSet(Before) /\ Cardinality(Before) \in Nat /\ Cardinality(After) \in Nat
  BY LinksAreFinite
<1>5. l \in Before <=> link[l] \in St
  OBVIOUS
<1>6. Cardinality(Before \cup {l}) = IF l \in Before THEN Cardinality(Before)
                                                     ELSE Cardinality(Before) + 1
  BY <1>4, FS_AddElement
<1>7. Cardinality(Before \ {l}) = IF l \in Before THEN Cardinality(Before) - 1
                                                  ELSE Cardinality(Before)
  BY <1>4, FS_RemoveElement
<1>8. QED
  BY <1>2, <1>3, <1>4, <1>5, <1>6, <1>7

(* The same for the two counts of the invariant.                           *)
LEMMA MoveCounts ==
    ASSUME ConnectionTypeOK, NEW l \in Link, NEW st \in LinkState, Moves(l, st)
    PROVE  LET letIn == {"admitted", "open", "troubled"}
               apart == {"off", "unheard"}
           IN /\ link' \in [Link -> LinkState]
              /\ Cardinality(Counted) \in Nat /\ Cardinality(Counted') \in Nat
              /\ Cardinality(LetIn) \in Nat /\ Cardinality(LetIn') \in Nat
              /\ Cardinality(LetIn') <= Cardinality(Counted')
              /\ link[l] \in apart /\ st \notin apart
                    => Cardinality(Counted') = Cardinality(Counted) + 1
              /\ link[l] \notin apart /\ st \in apart
                    => Cardinality(Counted') = Cardinality(Counted) - 1
              /\ (link[l] \in apart <=> st \in apart)
                    => Cardinality(Counted') = Cardinality(Counted)
              /\ link[l] \notin letIn /\ st \in letIn
                    => Cardinality(LetIn') = Cardinality(LetIn) + 1
              /\ link[l] \in letIn \/ st \notin letIn
                    => Cardinality(LetIn') <= Cardinality(LetIn)
<1> DEFINE letIn == {"admitted", "open", "troubled"}
           here == LinkState \ {"off", "unheard"}
<1>1. link \in [Link -> LinkState] /\ link' \in [Link -> LinkState] /\ link'[l] = st
  BY DEF ConnectionTypeOK, Moves
<1>2. /\ Counted = {k \in Link : link[k] \in here}
      /\ Counted' = {k \in Link : link'[k] \in here}
  BY <1>1 DEF Counted
<1>3. /\ LetIn = {k \in Link : link[k] \in letIn}
      /\ LetIn' = {k \in Link : link'[k] \in letIn}
  BY DEF LetIn
<1>4. letIn \in SUBSET LinkState /\ here \in SUBSET LinkState
  BY DEF LinkState
<1>5. Cardinality(LetIn') <= Cardinality(Counted')
  <2>1. Counted' \in SUBSET Link /\ LetIn' \in SUBSET Counted'
    BY <1>2, <1>3 DEF LinkState
  <2>2. QED BY <2>1, FewerLinks
<1>6. /\ Cardinality(Counted) \in Nat /\ Cardinality(Counted') \in Nat
      /\ st \in here /\ link[l] \notin here => Cardinality(Counted') = Cardinality(Counted) + 1
      /\ st \notin here /\ link[l] \in here => Cardinality(Counted') = Cardinality(Counted) - 1
      /\ (st \in here <=> link[l] \in here) => Cardinality(Counted') = Cardinality(Counted)
  <2> HIDE DEF here
  <2>1. QED BY <1>2, <1>4, OneMove
<1>7. /\ Cardinality(LetIn) \in Nat /\ Cardinality(LetIn') \in Nat
      /\ st \in letIn /\ link[l] \notin letIn => Cardinality(LetIn') = Cardinality(LetIn) + 1
      /\ st \in letIn /\ link[l] \in letIn => Cardinality(LetIn') = Cardinality(LetIn)
      /\ st \notin letIn /\ link[l] \in letIn => Cardinality(LetIn') = Cardinality(LetIn) - 1
      /\ st \notin letIn /\ link[l] \notin letIn => Cardinality(LetIn') = Cardinality(LetIn)
  <2>1. letIn \in SUBSET LinkState
    BY <1>4
  <2>2. /\ Cardinality(LetIn) \in Nat /\ Cardinality(LetIn') \in Nat
    BY <1>3, LinksAreFinite DEF LetIn
  <2> HIDE DEF letIn
  <2>3. QED BY <1>3, <2>1, <2>2, OneMove, SMTT(30)
<1>8. st \in here <=> st \notin {"off", "unheard"}
  OBVIOUS
<1>9. link[l] \in here <=> link[l] \notin {"off", "unheard"}
  BY <1>1
<1> HIDE DEF here
<1>10. QED BY <1>1, <1>5, <1>6, <1>7, <1>8, <1>9

(* At the start there is no connection and no key.                         *)
LEMMA ConnectionInvInit == ConnectionInit => ConnectionInv
<1> SUFFICES ASSUME ConnectionInit PROVE ConnectionInv
  OBVIOUS
<1>1. Counted = {} /\ LetIn = {}
  BY DEF ConnectionInit, Counted, LetIn
<1>2. QED
  BY <1>1, FS_EmptySet, ConnectionAssumption
  DEF ConnectionInit, ConnectionInv, ConnectionTypeOK, CountCoversLinks,
      WithinLimit, LinkState

(* What the steps of one connection leave: the type, the count, the limit. *)
LEMMA LinkStep ==
    ASSUME ConnectionInv, NEW l \in Link,
           Arrive(l) \/ SetExpiry(l) \/ Trouble(l) \/ Hangup(l) \/ Decrement(l)
    PROVE  ConnectionInv'
<1> USE ConnectionAssumption DEF ConnectionInv, ConnectionTypeOK, CountCoversLinks,
                                 WithinLimit
<1>1. CASE Arrive(l)
  <2>1. PICK st \in {"admitted", "refused"} : Moves(l, st)
    BY <1>1 DEF Arrive
  <2>2. st \in LinkState /\ link[l] = "off"
    BY <1>1, <2>1 DEF Arrive, LinkState
  <2>3. Cardinality(Counted') = Cardinality(Counted) + 1
    BY <2>1, <2>2, MoveCounts
  <2>4. /\ Cardinality(Counted) \in Nat /\ link' \in [Link -> LinkState]
        /\ Cardinality(LetIn) \in Nat /\ Cardinality(LetIn') \in Nat
        /\ Cardinality(LetIn') <= Cardinality(Counted')
        /\ Cardinality(LetIn') <= Cardinality(LetIn) + 1
        /\ st = "refused" => Cardinality(LetIn') <= Cardinality(LetIn)
    BY <2>1, <2>2, MoveCounts
  <2>5. CASE Counts(1) /\ UNCHANGED missed
                     /\ Moves(l, IF count' > MaxLinks THEN "refused" ELSE "admitted")
    <3>1. link'[l] = IF count' > MaxLinks THEN "refused" ELSE "admitted"
      BY <2>5 DEF Moves
    <3>2. link'[l] = st
      BY <2>1 DEF Moves
    <3>3. QED
      BY  <2>3, <2>4, <2>5, <3>1, <3>2 DEF Counts
  <2>6. CASE missed' = missed + 1 /\ (Counts(1) \/ UNCHANGED <<count, expiry>>)
    BY  <2>3, <2>4, <2>6 DEF Counts
  <2>7. QED BY <1>1, <2>5, <2>6 DEF Arrive
<1>2. CASE SetExpiry(l) \/ Trouble(l) \/ Hangup(l)
  <2>1. PICK st \in LinkState :
           /\ Moves(l, st)
           /\ link[l] \in {"off", "unheard"} <=> st \in {"off", "unheard"}
           /\ \/ link[l] \in {"admitted", "open", "troubled"}
              \/ st \notin {"admitted", "open", "troubled"}
    <3>1. CASE SetExpiry(l)
      <4>1. CASE link[l] = "admitted"
        BY <3>1, <4>1 DEF SetExpiry, LinkState
      <4>2. CASE link[l] = "refused"
        BY <3>1, <4>2 DEF SetExpiry, LinkState
      <4>3. QED BY <3>1, <4>1, <4>2 DEF SetExpiry
    <3>2. CASE Trouble(l)
      BY <3>2 DEF Trouble, LinkState
    <3>3. CASE Hangup(l)
      <4>1. CASE link[l] = "unheard"
        BY <3>3, <4>1 DEF Hangup, LinkState
      <4>2. CASE link[l] # "unheard"
        BY <3>3, <4>2 DEF Hangup, LinkState
      <4>3. QED BY <4>1, <4>2
    <3>4. QED BY <1>2, <3>1, <3>2, <3>3
  <2>2. Cardinality(Counted') = Cardinality(Counted)
    BY <2>1, MoveCounts
  <2>3. /\ Cardinality(Counted) \in Nat /\ link' \in [Link -> LinkState]
        /\ Cardinality(LetIn) \in Nat /\ Cardinality(LetIn') \in Nat
        /\ Cardinality(LetIn') <= Cardinality(LetIn)
    BY <2>1, MoveCounts
  <2>4. /\ count' = count /\ missed' = missed /\ expiry' \in {"absent", "lasting", "expiring"}
        /\ expiry' = "absent" => expiry = "absent"
    BY <1>2 DEF SetExpiry, Trouble, Hangup
  <2>5. QED BY <2>2, <2>3, <2>4
<1>3. CASE Decrement(l)
  <2>1. PICK st \in {"off", "unheard"} : Moves(l, st)
    BY <1>3 DEF Decrement
  <2>2. link[l] \in {"closing", "dismissed"} /\ st \in LinkState
    BY <1>3 DEF Decrement, LinkState
  <2>3. Cardinality(Counted') = Cardinality(Counted) - 1
    BY <2>1, <2>2, MoveCounts
  <2>4. /\ Cardinality(Counted) \in Nat /\ link' \in [Link -> LinkState]
        /\ Cardinality(LetIn) \in Nat /\ Cardinality(LetIn') \in Nat
        /\ Cardinality(LetIn') <= Cardinality(LetIn)
    BY <2>1, <2>2, MoveCounts
  <2>5. CASE Counts(-1)
    <3>1. /\ count' = count - 1 /\ missed' = missed
          /\ expiry' \in {"lasting", "expiring"}
      BY <1>3, <2>5 DEF Decrement, Counts
    <3>2. QED BY <2>3, <2>4, <3>1
  <2>6. CASE UNCHANGED <<count, expiry>>
    <3>1. missed' = missed /\ count' = count /\ expiry' = expiry
      BY <1>3, <2>6 DEF Decrement
    <3>2. expiry = "absent" => Cardinality(Counted') <= missed
      BY <2>3, <2>4
    <3>3. ConnectionTypeOK'
      BY <2>4, <3>1, <3>2
    <3>4. QED BY <2>3, <2>4, <3>1, <3>3
  <2>7. QED BY <1>3, <2>5, <2>6 DEF Decrement
<1>4. QED BY <1>1, <1>2, <1>3

(* A crash takes connections away and leaves the count as it is.           *)
LEMMA CrashStep ==
    ASSUME ConnectionInv, NEW n \in Node, LinkCrash(n)
    PROVE  ConnectionInv'
<1> USE DEF ConnectionInv, ConnectionTypeOK, CountCoversLinks, WithinLimit
<1>1. link' = [l \in Link |-> IF NodeOf[l] = n THEN "off" ELSE link[l]]
      /\ UNCHANGED <<count, expiry, missed>>
  BY DEF LinkCrash
<1>2. link' \in [Link -> LinkState]
  BY <1>1 DEF LinkState
<1>3. Counted' \in SUBSET Counted /\ LetIn' \in SUBSET LetIn
  BY <1>1 DEF Counted, LetIn
<1>4. /\ Counted \in SUBSET Link /\ Counted' \in SUBSET Link
      /\ LetIn \in SUBSET Link /\ LetIn' \in SUBSET Link
  BY DEF Counted, LetIn
<1>5. /\ Cardinality(Counted') <= Cardinality(Counted)
      /\ Cardinality(LetIn') <= Cardinality(LetIn)
  BY <1>3, <1>4, FewerLinks
<1>6. /\ Cardinality(Counted) \in Nat /\ Cardinality(Counted') \in Nat
      /\ Cardinality(LetIn) \in Nat /\ Cardinality(LetIn') \in Nat
  BY <1>4, LinksAreFinite
<1>7. QED BY <1>1, <1>2, <1>5, <1>6, ConnectionAssumption

(* When the key expires the connections there are have trouble, and all of *)
(* them are counted as missed.                                             *)
LEMMA ExpiryStep ==
    ASSUME ConnectionInv, KeyExpires
    PROVE  ConnectionInv'
<1> USE DEF ConnectionInv, ConnectionTypeOK, CountCoversLinks, WithinLimit
<1> DEFINE Troubled == {l \in Link : link[l] = "troubled"}
<1>1. /\ \A l \in Link : link[l] \in {"off", "unheard", "troubled"}
      /\ count' = 0 /\ expiry' = "absent" /\ missed' = Cardinality(Troubled)
      /\ UNCHANGED link
  BY DEF KeyExpires, Renews, Counted
<1>2. Counted' = Troubled /\ LetIn' = Troubled
  BY <1>1 DEF Counted, LetIn
<1>3. Cardinality(Troubled) \in Nat
  BY LinksAreFinite
<1> HIDE DEF Troubled
<1>4. QED BY <1>1, <1>2, <1>3, ConnectionAssumption

(* Every step of the connections preserves the invariant.                  *)
LEMMA ConnectionInvStep == ConnectionInv /\ [ConnectionNext]_nvars => ConnectionInv'
<1> SUFFICES ASSUME ConnectionInv, [ConnectionNext]_nvars PROVE ConnectionInv'
  OBVIOUS
<1>1. ASSUME NEW l \in Link,
             Arrive(l) \/ SetExpiry(l) \/ Trouble(l) \/ Hangup(l) \/ Decrement(l)
      PROVE  ConnectionInv'
  BY <1>1, LinkStep
<1>2. ASSUME NEW n \in Node, LinkCrash(n) PROVE ConnectionInv'
  BY <1>2, CrashStep
<1>3. CASE KeyExpires
  BY <1>3, ExpiryStep
<1>4. CASE UNCHANGED nvars
  BY <1>4 DEF nvars, ConnectionInv, ConnectionTypeOK, CountCoversLinks,
              WithinLimit, Counted, LetIn
<1>5. QED BY <1>1, <1>2, <1>3, <1>4 DEF ConnectionNext

(* The strengthening the two properties rest on.                           *)
LEMMA ConnectionInvHolds == ConnectionSpec => []ConnectionInv
<1>1. QED BY ConnectionInvInit, ConnectionInvStep, PTL DEF ConnectionSpec

(* The key, its expiry and the connections are of their types, and without *)
(* a key no connection is counted (INCR, EXPIRE and DECR are separate      *)
(* commands, each of which may fail).                                      *)
THEOREM ConnectionTypeCorrect == ConnectionSpec => []ConnectionTypeOK
<1>1. ConnectionInv => ConnectionTypeOK
  BY DEF ConnectionInv
<1>2. QED BY <1>1, ConnectionInvHolds, PTL

(* The count in Redis never misses a connection but for a failed INCR or   *)
(* for a key that expired while the connection could not subscribe.        *)
THEOREM CountNeverUnderstates == ConnectionSpec => []CountCoversLinks
<1>1. ConnectionInv => CountCoversLinks
  BY DEF ConnectionInv
<1>2. QED BY <1>1, ConnectionInvHolds, PTL

(* But for those, no more connections than the limit announce the user and *)
(* receive his tasks; refused ones are served on, but do neither.          *)
THEOREM ConnectionLimitHolds == ConnectionSpec => []LimitHolds
<1>1. ASSUME ConnectionInv PROVE LimitHolds
  <2> DEFINE Open == {l \in Link : link[l] \in {"open", "troubled"}}
  <2>1. LetIn \in SUBSET Link /\ Open \in SUBSET LetIn
    BY DEF LetIn
  <2>2. Cardinality(Open) <= Cardinality(LetIn)
    BY <2>1, FewerLinks
  <2>3. Cardinality(Open) \in Nat /\ Cardinality(LetIn) \in Nat
    BY LinksAreFinite, <2>1
  <2> HIDE DEF Open
  <2>4. Cardinality(Open) <= MaxLinks + missed
    BY <1>1, <2>2, <2>3, ConnectionAssumption
    DEF ConnectionInv, WithinLimit, ConnectionTypeOK
  <2>5. QED BY <2>4 DEF LimitHolds, Open
<1>2. QED BY <1>1, ConnectionInvHolds, PTL
=============================================================================
