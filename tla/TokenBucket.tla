---------------------------- MODULE TokenBucket ----------------------------
(***************************************************************************)
(* The token bucket of the Discord channel.  A refill adds the tokens of   *)
(* the whole intervals that have passed since the last one that added any, *)
(* and then counts from now: the part of an interval that had passed as    *)
(* well is lost.  Every operation runs under the bucket's mutex.           *)
(***************************************************************************)
EXTENDS Integers

CONSTANTS Callers,     \* goroutines that send to the channel
          Capacity,    \* tokens of a full bucket, and of a new one
          RefillRate,  \* units of the clock for one token
          BurstMax,    \* tokens the second attempt of AllowMessage asks for
          MaxClock     \* bound of the model

ASSUME BucketAssumption == /\ Capacity \in Nat \ {0} /\ RefillRate \in Nat \ {0}
                           /\ BurstMax \in Nat \ {0} /\ MaxClock \in Nat

VARIABLES tokens, lastRefill, \* the fields of the bucket
          second,             \* callers whose first attempt found no token
          clock,              \* time
          taken               \* tokens taken so far

bucketVars == <<tokens, lastRefill, second, clock, taken>>

BucketInit == /\ tokens = Capacity /\ lastRefill = 0 /\ second = {}
              /\ clock = 0 /\ taken = 0

\* Mutant: a begun interval counts.
WholeBegun == ((clock - lastRefill) + (RefillRate - 1)) \div RefillRate
\* Whole intervals since the last refill.
Whole == (clock - lastRefill) \div RefillRate

Refilled == IF tokens + Whole < Capacity THEN tokens + Whole ELSE Capacity

Refill(left) == /\ tokens' = left
                /\ lastRefill' = IF Whole > 0 THEN clock ELSE lastRefill

\* AllowN: the refill happens whether there are enough tokens or not.
AllowN(n) ==
  /\ IF Refilled >= n THEN Refill(Refilled - n) /\ taken' = taken + n
                      ELSE Refill(Refilled) /\ UNCHANGED taken
  /\ UNCHANGED clock

\* AllowMessage asks for one token, and when there was none, in a critical
\* section of its own, for a burst.
AllowMessage(c) ==
  /\ c \notin second /\ AllowN(1)
  /\ second' = IF Refilled >= 1 THEN second ELSE second \cup {c}

AllowBurst(c) == c \in second /\ AllowN(BurstMax) /\ second' = second \ {c}

BucketTick == /\ clock < MaxClock /\ clock' = clock + 1
              /\ UNCHANGED <<tokens, lastRefill, second, taken>>

BucketNext == (\E c \in Callers : AllowMessage(c) \/ AllowBurst(c)) \/ BucketTick

BucketSpec == BucketInit /\ [][BucketNext]_bucketVars

----------------------------------------------------------------------------
\* Over any time the bucket gives out no more than its capacity and one
\* token for every interval: the rate Discord limits the channel to.
RateIsKept == RefillRate * taken <= RefillRate * Capacity + clock

BucketTypeOK == /\ tokens \in 0..Capacity /\ clock \in Nat /\ taken \in Nat
                /\ lastRefill \in 0..clock

=============================================================================
