------------------------- MODULE RateLimiterProofs -------------------------
(***************************************************************************)
(* The token bucket, for every cost of a request, every rate, capacity and *)
(* resolution of the clock.                                                *)
(***************************************************************************)
EXTENDS RateLimiter, TLAPS

(* What the hash holds covers what was promised, but for what was lost.    *)
CoversPromise == ttl > 0 => Value >= promised - lost

(* The key outlives the time that fills the bucket by a second, in which   *)
(* what was lost may be refilled.                                          *)
LivesUntilFull ==
    ttl > 0 => \/ Value >= Capacity
               \/ Value + ttl * Rate >= Capacity + Rate * Second - lost

LimiterInv == LimiterTypeOK /\ CoversPromise /\ LivesUntilFull

----------------------------------------------------------------------------
(* Division rounds down to the quotient that leaves a proper remainder.    *)
LEMMA Quotient ==
    ASSUME NEW n \in Nat, NEW d \in Nat \ {0}
    PROVE  n \div d \in Nat /\ n < (n \div d + 1) * d
OBVIOUS

(* Products of naturals are naturals, in whatever order they are computed. *)
LEMMA Product ==
    ASSUME NEW a \in Nat, NEW b \in Nat
    PROVE  /\ a * b \in Nat /\ (a + 1) * b = a * b + b
           /\ a # 0 /\ b # 0 => a * b # 0
           /\ \A c \in Nat : (a * b) * c = a * (c * b)
OBVIOUS

(* The expiry the script sets is a second longer than what fills an empty  *)
(* bucket: rounding the division up makes up for what it drops.            *)
LEMMA ExpiryFillsBucket ==
    /\ TTL \in Nat \ {0} /\ TTL * Rate \in Nat /\ Rate * Second \in Nat
    /\ TTL * Rate >= Capacity + Rate * Second
<1> DEFINE d == Rate * Second
           n == Capacity + d - 1
           q == n \div d
<1>1. d \in Nat \ {0} /\ n \in Nat /\ n >= Capacity
  BY LimiterAssumption, Product
<1>2. q \in Nat /\ n < (q + 1) * d
  BY <1>1, Quotient
<1>3. TTL = (q + 1) * Second
  BY DEF TTL
<1>4. n = Capacity + d - 1
  OBVIOUS
<1> HIDE DEF n, q
<1>5. TTL * Rate = (q + 1) * d /\ TTL \in Nat \ {0} /\ TTL * Rate \in Nat
  BY <1>2, <1>3, LimiterAssumption, Product
<1>6. d = Rate * Second
  OBVIOUS
<1> HIDE DEF d
<1>7. (q + 1) * d \in Nat
  BY <1>1, <1>2, Product
<1>8. QED BY <1>1, <1>2, <1>4, <1>5, <1>6, <1>7, LimiterAssumption

(* A bucket is never more than full.                                       *)
LEMMA CappedBounds ==
    ASSUME NEW n \in Int
    PROVE  /\ Capped(n) \in Int /\ Capped(n) <= Capacity /\ Capped(n) <= n
           /\ Capped(n) = n \/ (Capped(n) = Capacity /\ n > Capacity)
           /\ n \in Nat => Capped(n) \in 0 .. Capacity
BY LimiterAssumption DEF Capped

(* The numbers of the state, and the products made of them.                *)
LEMMA Numbers ==
    ASSUME LimiterTypeOK
    PROVE  /\ tokens \in Int /\ tokens <= Capacity /\ promised \in 0 .. Capacity
           /\ age \in Nat /\ ttl \in Nat /\ ttl <= TTL /\ lost \in Nat /\ lost <= LostLimit
           /\ age * Rate \in Nat /\ ttl * Rate \in Nat /\ Value \in Int
           /\ Value = tokens + age * Rate
           /\ Capacity \in Nat /\ Cost \in Nat /\ Cost > 0 /\ Capacity >= Cost
           /\ Rate \in Nat /\ Rate > 0 /\ LostLimit \in Nat
<1>1. tokens \in Int /\ age \in Nat /\ ttl \in Nat /\ ttl <= TTL /\ lost \in Nat /\ Rate \in Nat
      /\ lost <= LostLimit
  BY ExpiryFillsBucket, LimiterAssumption DEF LimiterTypeOK
<1>2. age * Rate \in Nat /\ ttl * Rate \in Nat
  BY <1>1, Product
<1>3. Value \in Int /\ Value = tokens + age * Rate
  BY <1>1, <1>2 DEF Value
<1>4. QED BY <1>1, <1>2, <1>3, LimiterAssumption DEF LimiterTypeOK

(* What a script finds is the value less the refill since its clock was    *)
(* read, or a full bucket.                                                 *)
LEMMA RefilledBounds ==
    ASSUME LimiterTypeOK, NEW lag \in Lag
    PROVE  /\ lag \in Nat /\ lag * Rate \in Nat
           /\ Refilled(lag) \in Int /\ Refilled(lag) <= Capacity
           /\ ttl = 0 => Refilled(lag) = Capacity
           /\ ttl > 0 => \/ Refilled(lag) = Value - lag * Rate
                         \/ Refilled(lag) = Capacity
<1>1. lag \in Nat /\ Rate \in Nat
  BY LimiterAssumption DEF Lag
<1>2. lag * Rate \in Nat
  BY <1>1, Product
<1>3. (age - lag) * Rate = age * Rate - lag * Rate
  BY <1>1, Numbers
<1> DEFINE n == tokens + (age - lag) * Rate
<1>4. n \in Int /\ n = Value - lag * Rate
  BY <1>2, <1>3, Numbers
<1>5. Refilled(lag) = IF ttl = 0 THEN Capacity ELSE Capped(n)
  BY DEF Refilled
<1> HIDE DEF n
<1>6. QED BY <1>1, <1>2, <1>4, <1>5, CappedBounds, Numbers

(* A tick refills what it promises, and brings expiry and full bucket      *)
(* nearer alike.                                                           *)
LEMMA TickStep ==
    ASSUME LimiterInv, Tick
    PROVE  LimiterInv'
<1> USE DEF LimiterInv
<1>1. promised' \in 0 .. Capacity /\ promised' <= promised + Rate
  BY Numbers, CappedBounds DEF Tick
<1>2. CASE ttl' = 0
  <2>1. tokens' = Capacity /\ age' = 0 /\ Value' = Capacity + 0 * Rate
    BY <1>2 DEF Tick, Value
  <2>2. Value' >= Capacity /\ lost' = 0
    BY <2>1, Numbers DEF Tick
  <2>3. QED BY <1>1, <1>2, <2>1, <2>2, Numbers, ExpiryFillsBucket
            DEF LimiterTypeOK, CoversPromise, LivesUntilFull, TTL
<1>3. CASE ttl' # 0
  <2>1. ttl > 0 /\ ttl' = ttl - 1 /\ ttl' > 0 /\ tokens' = tokens /\ age' = age + 1
    BY <1>3, Numbers DEF Tick
  <2>2. (age + 1) * Rate = age * Rate + Rate /\ ttl' * Rate = ttl * Rate - Rate
    <3>1. ttl' \in Nat /\ ttl = ttl' + 1
      BY <2>1, Numbers
    <3>2. ttl * Rate = ttl' * Rate + Rate /\ ttl' * Rate \in Nat
      BY <3>1, Numbers, Product
    <3>3. QED BY <3>2, Numbers, Product
  <2>3. Value' = Value + Rate
    BY <2>1, <2>2, Numbers DEF Value
  <2>4. /\ lost' \in Nat /\ lost' <= LostLimit
        /\ lost' = lost \/ (lost' = 0 /\ Value' >= Capacity)
    BY Numbers DEF Tick
  <2>5. CoversPromise'
    BY <1>1, <2>1, <2>3, <2>4, Numbers DEF CoversPromise
  <2>6. LivesUntilFull'
    <3>1. ttl' * Rate \in Int /\ Value' + ttl' * Rate = Value + ttl * Rate
      BY <2>2, <2>3, Numbers
    <3>2. Rate * Second \in Nat
      BY ExpiryFillsBucket
    <3>3. QED BY <2>1, <2>3, <2>4, <3>1, <3>2, Numbers DEF LivesUntilFull
  <2>7. LimiterTypeOK'
    <3>1. ttl' \in 0 .. TTL /\ age' \in Nat /\ tokens' \in Int /\ tokens' <= Capacity
      BY <2>1, Numbers, ExpiryFillsBucket
    <3>2. QED BY <1>1, <2>1, <2>4, <3>1, Numbers DEF LimiterTypeOK, TTL
  <2>8. QED BY <2>5, <2>6, <2>7
<1>4. QED BY <1>2, <1>3

(* An expiry that fills an empty bucket fills one that covers a promise.   *)
LEMMA Cover ==
    ASSUME NEW v \in Int, NEW p \in Nat, NEW l \in Nat, v >= p - l,
           NEW full \in Nat, NEW slack \in Nat, NEW time \in Nat, time >= full + slack
    PROVE  v + time >= full + slack - l
OBVIOUS

(* Either outcome of a script starts the expiry anew: it is enough that    *)
(* what is left still covers the promise.                                  *)
LEMMA NewExpiry ==
    ASSUME LimiterInv, ttl' = TTL, tokens' \in Int, tokens' <= Capacity, age' \in Nat,
           promised' \in 0 .. Capacity, lost' \in 0 .. LostLimit,
           Value' \in Int, Value' >= promised' - lost'
    PROVE  LimiterInv'
<1>1. TTL' = TTL
  BY DEF TTL
<1>2. LimiterTypeOK'
  <2>1. ttl' \in 0 .. TTL /\ ttl' # 0
    BY ExpiryFillsBucket
  <2>2. QED BY <1>1, <2>1 DEF LimiterTypeOK
<1>3. LivesUntilFull'
  <2>1. /\ ttl' * Rate \in Nat /\ ttl' * Rate >= Capacity + Rate * Second
        /\ Rate * Second \in Nat
    BY ExpiryFillsBucket
  <2>2. lost' \in Nat /\ promised' \in Nat
    BY LimiterAssumption
  <2> DEFINE expiry == ttl' * Rate
             slack == Rate * Second
  <2>4. expiry \in Nat /\ slack \in Nat /\ expiry >= Capacity + slack
    BY <2>1
  <2>5. (ttl * Rate)' = expiry /\ (Rate * Second)' = slack /\ Capacity' = Capacity
    OBVIOUS
  <2> HIDE DEF expiry, slack
  <2>6. Value' + expiry >= Capacity + slack - lost'
    BY <2>2, <2>4, Cover, LimiterAssumption
  <2>7. QED BY <2>5, <2>6 DEF LivesUntilFull
<1>4. CoversPromise'
  BY DEF CoversPromise
<1>5. QED BY <1>2, <1>3, <1>4 DEF LimiterInv

(* A grant takes the same from what there is and from what was promised,   *)
(* in whatever order the clocks were read.                                 *)
LEMMA GrantStep ==
    ASSUME LimiterInv, NEW lag \in Lag, Grant(lag)
    PROVE  LimiterInv'
<1> USE DEF LimiterInv
<1> DEFINE found == Refilled(lag)
           since == lag * Rate
<1>1. /\ found \in Int /\ found <= Capacity /\ lag \in Nat /\ since \in Nat
      /\ found = Capacity \/ (ttl > 0 /\ found = Value - since)
  BY RefilledBounds, Numbers
<1>2. /\ found >= Cost /\ tokens' = found - Cost /\ age' = lag /\ ttl' = TTL
      /\ promised' = (IF promised >= Cost THEN promised - Cost ELSE 0) /\ lost' = lost
  BY DEF Grant
<1>3. Value' = tokens' + since
  BY <1>2 DEF Value
<1> HIDE DEF found, since
<1>4. promised' \in 0 .. Capacity /\ lost' \in 0 .. LostLimit
  BY <1>2, Numbers
<1>5. Value' \in Int /\ Value' >= 0 /\ tokens' \in Int /\ tokens' <= Capacity
  BY <1>1, <1>2, <1>3, Numbers
<1>6. Value' >= promised' - lost'
  <2>1. CASE promised < Cost
    BY <1>2, <1>5, <2>1, Numbers
  <2>2. CASE promised >= Cost /\ found = Capacity
    BY <1>1, <1>2, <1>3, <2>2, Numbers
  <2>3. CASE promised >= Cost /\ ttl > 0 /\ found = Value - since
    <3>1. Value >= promised - lost
      BY <2>3 DEF CoversPromise
    <3>2. QED BY <1>1, <1>2, <1>3, <2>3, <3>1, Numbers
  <2>4. QED BY <1>1, <2>1, <2>2, <2>3, Numbers
<1>7. QED BY <1>1, <1>2, <1>4, <1>5, <1>6, NewExpiry

(* A denial refills some time twice, or loses what it owns up to.          *)
LEMMA DenyStep ==
    ASSUME LimiterInv, NEW lag \in Lag, Deny(lag)
    PROVE  LimiterInv'
<1> USE DEF LimiterInv
<1> DEFINE since == lag * Rate
           old == age * Rate
<1>1. /\ lag \in Nat /\ since \in Nat /\ old \in Nat /\ Refilled(lag) < Cost
      /\ ttl > 0 /\ Refilled(lag) = Value - since
      /\ Refilled(lag) \in Int /\ Refilled(lag) <= Capacity
  BY RefilledBounds, Numbers DEF Deny
<1>2. /\ tokens' = Value - since /\ tokens' \in Int /\ tokens' <= Capacity
      /\ age' = age /\ ttl' = TTL /\ promised' = promised
      /\ lost' = lost + (IF lag > age THEN (lag - age) * Rate ELSE 0)
      /\ lost' <= LostLimit
  BY <1>1 DEF Deny
<1>3. Value' = tokens' + old
  BY <1>2 DEF Value
<1>4. lag > age => (lag - age) * Rate = since - old /\ (lag - age) * Rate \in Nat
  <2> SUFFICES ASSUME lag > age
               PROVE  (lag - age) * Rate = since - old /\ (lag - age) * Rate \in Nat
    OBVIOUS
  <2>1. lag - age \in Nat
    BY <1>1, Numbers
  <2>2. QED BY <1>1, <2>1, Numbers, Product
<1>5. lag <= age => old >= since
  <2> SUFFICES ASSUME lag <= age PROVE old >= since
    OBVIOUS
  <2>1. age - lag \in Nat
    BY <1>1, Numbers
  <2>2. (age - lag) * Rate \in Nat /\ (age - lag) * Rate = old - since
    BY <1>1, <2>1, Numbers, Product
  <2>3. QED BY <1>1, <2>2
<1>6. Value >= promised - lost
  BY <1>1 DEF CoversPromise
<1> HIDE DEF since, old
<1>7. lost' \in 0 .. LostLimit
  BY <1>2, <1>4, Numbers
<1>8. Value' \in Int /\ Value' >= promised' - lost'
  <2>1. CASE lag > age
    <3>1. lost' = lost + (since - old)
      BY <1>2, <1>4, <2>1
    <3>2. QED BY <1>1, <1>2, <1>3, <1>6, <3>1, Numbers
  <2>2. CASE lag <= age
    <3>1. lost' = lost
      BY <1>1, <1>2, <2>2, Numbers
    <3>2. QED BY <1>1, <1>2, <1>3, <1>5, <1>6, <2>2, <3>1, Numbers
  <2>3. QED BY <1>1, <2>1, <2>2, Numbers
<1>9. QED BY <1>2, <1>7, <1>8, NewExpiry, Numbers

(* The strengthening: promise and expiry in terms of the refill to come.   *)
LEMMA LimiterInvHolds == LimiterSpec => []LimiterInv
<1>1. LimiterInit => LimiterInv
  <2> SUFFICES ASSUME LimiterInit PROVE LimiterInv
    OBVIOUS
  <2>1. QED BY ExpiryFillsBucket, LimiterAssumption
            DEF LimiterInit, LimiterInv, LimiterTypeOK, CoversPromise, LivesUntilFull
<1>2. LimiterInv /\ [LimiterNext]_lvars => LimiterInv'
  <2> SUFFICES ASSUME LimiterInv, [LimiterNext]_lvars PROVE LimiterInv'
    OBVIOUS
  <2>1. CASE Tick
    BY <2>1, TickStep
  <2>2. CASE Allow
    BY <2>2, GrantStep, DenyStep DEF Allow
  <2>3. CASE UNCHANGED lvars
    BY <2>3 DEF lvars, LimiterInv, LimiterTypeOK, CoversPromise, LivesUntilFull, TTL, Value
  <2>4. QED BY <2>1, <2>2, <2>3 DEF LimiterNext
<1>3. QED BY <1>1, <1>2, PTL DEF LimiterSpec

(* The hash stays in its bounds, and a key that is gone has no contents.   *)
THEOREM LimiterTypeCorrect == LimiterSpec => []LimiterTypeOK
<1>1. LimiterInv => LimiterTypeOK
  BY DEF LimiterInv
<1>2. QED BY <1>1, LimiterInvHolds, PTL

(* But for the order of the clocks, a request finds no less than what a    *)
(* bucket holds that refills at the rate the code documents.               *)
THEOREM LimiterIsNeverTooStrict == LimiterSpec => []NeverTooStrict
<1>1. LimiterInv => NeverTooStrict
  <2> SUFFICES ASSUME LimiterInv, NEW lag \in Lag
               PROVE  Refilled(lag) >= promised - lag * Rate - lost
    BY DEF NeverTooStrict
  <2>1. LimiterTypeOK /\ (ttl > 0 => Value >= promised - lost)
    BY DEF LimiterInv, CoversPromise
  <2>2. QED BY <2>1, RefilledBounds, Numbers
<1>2. QED BY <1>1, LimiterInvHolds, PTL

(* A key is one tick from its expiry only when the next tick would fill it.*)
THEOREM ExpiryIsHarmless == LimiterSpec => []ExpiryGrantsNothing
<1>1. LimiterInv => ExpiryGrantsNothing
  <2> SUFFICES ASSUME LimiterInv, ttl = 1, lost <= Rate * Second
               PROVE  tokens + (age + 1) * Rate >= Capacity
    BY DEF ExpiryGrantsNothing
  <2>1. LimiterTypeOK /\ (Value >= Capacity \/ Value + Rate >= Capacity + Rate * Second - lost)
    BY LimiterAssumption DEF LimiterInv, LivesUntilFull
  <2>2. tokens + (age + 1) * Rate = Value + Rate
    BY <2>1, Numbers, Product
  <2>3. Rate * Second \in Nat
    BY ExpiryFillsBucket
  <2>4. QED BY <2>1, <2>2, <2>3, Numbers
<1>2. QED BY <1>1, LimiterInvHolds, PTL
=============================================================================
