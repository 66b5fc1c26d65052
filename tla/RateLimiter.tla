---------------------------- MODULE RateLimiter ----------------------------
(***************************************************************************)
(* The token bucket of one user (ratelimit.go): a Lua script that Redis    *)
(* runs atomically over the hash ratelimit:<user>, called by the three     *)
(* middlewares.  Tokens are counted in fractions of a request and time in  *)
(* ticks, so that a tick refills a whole number of fractions.  last_refill *)
(* is kept as its distance to the clock.                                   *)
(*                                                                         *)
(* Allow reads the clock before it sends the script: when the script runs, *)
(* "now" lags behind, and scripts may run in another order than their      *)
(* clocks were read.  The time elapsed since last_refill may be negative.  *)
(***************************************************************************)
EXTENDS Integers

CONSTANTS
    Cost,      \* fractions one request takes
    Rate,      \* fractions a tick refills (RateTokensPerSec)
    Capacity,  \* fractions the bucket holds (BurstCapacity)
    Second,    \* ticks in a second, the unit of EXPIRE
    MaxLag,    \* ticks from the reading of the clock to the script, at most
    LostLimit  \* bound on the fractions lost to denials out of order

ASSUME LimiterAssumption ==
    /\ Cost \in Nat \ {0} /\ Rate \in Nat \ {0} /\ Second \in Nat \ {0}
    /\ Capacity \in Nat /\ Capacity >= Cost
    /\ MaxLag \in Nat /\ LostLimit \in Nat

VARIABLES
    tokens,   \* the hash's tokens
    age,      \* ticks since its last_refill
    ttl,      \* ticks the key has to live; 0: there is no key
    promised, \* what a bucket that refills at Rate would hold (history)
    lost      \* what denials out of order took since it was full (history)

lvars == <<tokens, age, ttl, promised, lost>>

Lag == 0 .. MaxLag

Uncapped(n) == n   \* mutant

Capped(n) == IF n > Capacity THEN Capacity ELSE n

LimiterInit ==
    tokens = Capacity /\ age = 0 /\ ttl = 0 /\ promised = Capacity /\ lost = 0

FloorTTL == (Capacity \div (Rate * Second)) * Second   \* mutant

(* EXPIRE math.ceil(capacity / rate) + 1                                   *)
TTL == ((Capacity + Rate * Second - 1) \div (Rate * Second) + 1) * Second

(* What a script finds whose clock was read lag ticks ago.  A missing key  *)
(* reads as a full bucket.                                                 *)
Refilled(lag) == IF ttl = 0 THEN Capacity ELSE Capped(tokens + (age - lag) * Rate)

(* What the hash holds, refilled up to the present.                        *)
Value == tokens + age * Rate

Tick ==
    /\ ttl > 0 \/ promised < Capacity
    /\ ttl' = IF ttl > 0 THEN ttl - 1 ELSE 0
    /\ age' = IF ttl' > 0 THEN age + 1 ELSE 0
    /\ tokens' = IF ttl' > 0 THEN tokens ELSE Capacity
    /\ promised' = Capped(promised + Rate)
    /\ lost' = IF Value' >= Capacity THEN 0 ELSE lost

(* Taking more than was promised leaves nothing promised.                  *)
Grant(lag) ==
    /\ Refilled(lag) >= Cost
    /\ tokens' = Refilled(lag) - Cost /\ age' = lag /\ ttl' = TTL
    /\ promised' = IF promised >= Cost THEN promised - Cost ELSE 0
    /\ UNCHANGED lost

DenyForgetting(lag) ==   \* mutant: the time is consumed but not its refill
    /\ Refilled(lag) < Cost
    /\ age' = lag /\ ttl' = TTL
    /\ UNCHANGED <<tokens, promised, lost>>

(* A denial stores the refilled tokens with the old last_refill.  When its *)
(* clock is behind last_refill, "refilled" is less than there was.         *)
Deny(lag) ==
    /\ Refilled(lag) < Cost
    /\ tokens' = Refilled(lag) /\ ttl' = TTL
    /\ lost' = lost + (IF lag > age THEN (lag - age) * Rate ELSE 0)
    /\ lost' <= LostLimit
    /\ UNCHANGED <<age, promised>>

(* Allow.  When Redis fails or 100 ms pass, the request is denied, whether *)
(* the script ran or not; that the answer is lost changes nothing else.    *)
Allow == \E lag \in Lag : Grant(lag) \/ Deny(lag)

LimiterNext == Tick \/ Allow

LimiterSpec == LimiterInit /\ [][LimiterNext]_lvars

----------------------------------------------------------------------------
LimiterTypeOK ==
    /\ tokens \in Int /\ tokens <= Capacity /\ promised \in 0 .. Capacity
    /\ age \in Nat /\ ttl \in 0 .. TTL /\ lost \in 0 .. LostLimit
    /\ ttl = 0 => age = 0 /\ tokens = Capacity /\ lost = 0

(* A user who stays below the rate is not turned away, but for the order   *)
(* of the clocks: whatever was denied before and whether the key has       *)
(* expired, a request finds what the bucket of the doc comments promises,  *)
(* less the refill since its clock was read and what requests lost that    *)
(* were denied with a clock older than last_refill.                        *)
NeverTooStrict == \A lag \in Lag : Refilled(lag) >= promised - lag * Rate - lost

(* The key expires only when the bucket is full anyway, so that reading a  *)
(* missing key as a full bucket grants nothing: the extra second of TTL    *)
(* makes up for as much as a second refills, lost out of order.            *)
ExpiryGrantsNothing ==
    ttl = 1 /\ lost <= Rate * Second => tokens + (age + 1) * Rate >= Capacity

(* "RateTokensPerSec is the rate at which tokens are added to the bucket   *)
(* (5 tokens/sec)" (ratelimit.go:12): no request passes that a bucket      *)
(* refilled at that rate could not pay.                                    *)
RateHonoured == [][\A lag \in Lag : Grant(lag) => promised >= Cost]_lvars
=============================================================================
