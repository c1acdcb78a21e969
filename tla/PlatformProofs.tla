--------------------------- MODULE PlatformProofs ---------------------------
(***************************************************************************)
(* What holds of the parts that run the lanes for every value of their     *)
(* constants: the rate of the token bucket, what is told of the health of  *)
(* a source, what the supervisor leaves running, how long the work on a    *)
(* claim takes, and what the configuration becomes.                        *)
(***************************************************************************)
EXTENDS TokenBucket, SourceHealth, Supervisor, DeliveryWorker, ConfigManager, FiniteSetTheorems,
        WellFoundedInduction, TLAPS

(* The token bucket.                                                       *)

\* What has been given out and what is left were paid for by the capacity
\* and by the time up to the last refill.
Paid == RefillRate * (taken + tokens) <= RefillRate * Capacity + lastRefill

BucketInv == BucketTypeOK /\ Paid

\* The whole intervals in a time fit into it.
LEMMA WholeFits ==
  ASSUME BucketTypeOK
  PROVE  Whole \in Nat /\ RefillRate * Whole <= clock - lastRefill
<1>1. RefillRate \in Nat /\ RefillRate > 0  BY BucketAssumption
<1>2. clock - lastRefill \in Nat  BY SMT DEF BucketTypeOK
<1>3. ASSUME NEW a \in Nat, NEW r \in Nat, r > 0
      PROVE  a \div r \in Nat /\ r * (a \div r) <= a
  BY <1>3, SMTT(30)
<1> QED  BY <1>1, <1>2, <1>3 DEF Whole

\* A refill is paid for by the time that has passed.
LEMMA RefillIsPaid ==
  ASSUME BucketInv
  PROVE  /\ Refilled \in 0..Capacity
         /\ RefillRate * (taken + Refilled)
              <= RefillRate * Capacity + (IF Whole > 0 THEN clock ELSE lastRefill)
<1> DEFINE R == RefillRate
           W == Whole
           last == IF W > 0 THEN clock ELSE lastRefill
<1>1. R \in Nat /\ Capacity \in Nat  BY BucketAssumption
<1>2. W \in Nat /\ R * W <= clock - lastRefill  BY WholeFits DEF BucketInv
<1>3. tokens \in 0..Capacity /\ taken \in Nat /\ clock \in Nat /\ lastRefill \in 0..clock
  BY DEF BucketInv, BucketTypeOK
<1>4. R * (taken + tokens) <= R * Capacity + lastRefill  BY DEF BucketInv, Paid
<1>5. Refilled \in 0..Capacity /\ Refilled <= tokens + W
  BY <1>1, <1>2, <1>3, SMT DEF Refilled
<1>6. R * W <= last - lastRefill
  <2>1. CASE W > 0  BY <1>2, <2>1
  <2>2. CASE W = 0
    <3>1. R * W = 0  BY <1>1, <2>2, SMT
    <3> QED  BY <2>2, <3>1, <1>3, SMT
  <2> HIDE DEF W
  <2> QED  BY <1>2, <2>1, <2>2, SMT
<1> HIDE DEF R, W, last
<1>7. R * (taken + Refilled) <= R * Capacity + last
  <2>1. last \in Nat  BY <1>3 DEF last
  <2>2. ASSUME NEW x \in Nat, NEW y \in Nat, x <= y  PROVE R * x <= R * y
    BY <1>1, <2>2, SMTT(30)
  <2>3. taken + Refilled \in Nat /\ taken + (tokens + W) \in Nat
        /\ taken + Refilled <= taken + (tokens + W)
    BY <1>1, <1>2, <1>3, <1>5, SMT
  <2>4. R * (taken + Refilled) <= R * (taken + (tokens + W))  BY <2>2, <2>3
  <2>5. R * (taken + (tokens + W)) = R * (taken + tokens) + R * W
    BY <1>1, <1>2, <1>3, SMTT(30)
  <2>6. R * (taken + Refilled) \in Nat /\ R * (taken + tokens) \in Nat /\ R * W \in Nat
        /\ R * Capacity \in Nat
    BY <1>1, <1>2, <1>3, <1>5, SMTT(30)
  <2> QED  BY <2>1, <2>4, <2>5, <2>6, <1>3, <1>4, <1>6, SMT
<1> QED  BY <1>5, <1>7 DEF R, W, last

\* Asking for n tokens keeps the books, whether there are any.
LEMMA AllowIsPaid ==
  ASSUME BucketInv, NEW n \in Nat, AllowN(n)
  PROVE  BucketInv'
<1> DEFINE last == IF Whole > 0 THEN clock ELSE lastRefill
<1>1. /\ RefillRate \in Nat /\ Capacity \in Nat
      /\ taken \in Nat /\ clock \in Nat /\ lastRefill \in 0..clock
  BY BucketAssumption DEF BucketInv, BucketTypeOK
<1>2. /\ Refilled \in 0..Capacity
      /\ RefillRate * (taken + Refilled) <= RefillRate * Capacity + last
  BY RefillIsPaid
<1>3. lastRefill' = last /\ last \in 0..clock /\ clock' = clock
  BY <1>1, SMT DEF AllowN, Refill
<1>4. CASE Refilled >= n
  <2>1. tokens' = Refilled - n /\ taken' = taken + n  BY <1>4 DEF AllowN, Refill
  <2>2. taken' + tokens' = taken + Refilled  BY <2>1, <1>1, <1>2, SMT
  <2>3. tokens' \in 0..Capacity /\ taken' \in Nat  BY <2>1, <1>1, <1>2, <1>4, SMT
  <2> QED  BY <1>1, <1>2, <1>3, <2>2, <2>3 DEF BucketInv, BucketTypeOK, Paid
<1>5. CASE ~ (Refilled >= n)
  <2>1. tokens' = Refilled /\ taken' = taken  BY <1>5 DEF AllowN, Refill
  <2> QED  BY <1>1, <1>2, <1>3, <2>1 DEF BucketInv, BucketTypeOK, Paid
<1> QED  BY <1>4, <1>5

\* The bucket keeps its books in every step.
LEMMA BucketStep == BucketInv /\ [BucketNext]_bucketVars => BucketInv'
<1> SUFFICES ASSUME BucketInv, [BucketNext]_bucketVars  PROVE BucketInv'
  OBVIOUS
<1>1. ASSUME NEW c \in Callers, AllowMessage(c)  PROVE BucketInv'
  BY <1>1, AllowIsPaid DEF AllowMessage
<1>2. ASSUME NEW c \in Callers, AllowBurst(c)  PROVE BucketInv'
  BY <1>2, AllowIsPaid, BucketAssumption DEF AllowBurst
<1>3. CASE BucketTick
  BY <1>3, SMT DEF BucketTick, BucketInv, BucketTypeOK, Paid
<1>4. CASE UNCHANGED bucketVars
  BY <1>4 DEF bucketVars, BucketInv, BucketTypeOK, Paid
<1> QED  BY <1>1, <1>2, <1>3, <1>4 DEF BucketNext

\* Whatever the capacity, the interval and the moments it is asked, the
\* bucket never gives out more than its capacity and one token for every
\* interval that has passed (ratelimiter.go, Allow, AllowN and refill).
THEOREM RateIsAlwaysKept == BucketSpec => []RateIsKept
<1>1. BucketInit => BucketInv
  <2> SUFFICES ASSUME BucketInit  PROVE BucketInv  OBVIOUS
  <2>1. Capacity \in Nat /\ RefillRate \in Nat  BY BucketAssumption
  <2>2. taken + tokens = Capacity  BY <2>1, SMT DEF BucketInit
  <2>3. RefillRate * Capacity \in Nat  BY <2>1, SMT
  <2> QED  BY <2>1, <2>2, <2>3, SMT DEF BucketInit, BucketInv, BucketTypeOK, Paid
<1>2. BucketInv => RateIsKept
  <2> SUFFICES ASSUME BucketInv  PROVE RateIsKept  OBVIOUS
  <2>1. /\ RefillRate \in Nat /\ Capacity \in Nat /\ taken \in Nat /\ tokens \in Nat
        /\ clock \in Nat /\ lastRefill \in Nat /\ lastRefill <= clock
    BY BucketAssumption, SMT DEF BucketInv, BucketTypeOK
  <2>2. RefillRate * (taken + tokens) = RefillRate * taken + RefillRate * tokens
    BY <2>1, SMTT(30)
  <2>3. RefillRate * taken \in Nat /\ RefillRate * tokens \in Nat /\ RefillRate * Capacity \in Nat
    BY <2>1, SMTT(30)
  <2> QED  BY <2>1, <2>2, <2>3, SMT DEF BucketInv, Paid, RateIsKept
<1> QED  BY <1>1, <1>2, BucketStep, PTL DEF BucketSpec

-----------------------------------------------------------------------------
(* The health of a source.                                                 *)

Statuses == {"unlisted", "healthy", "awaiting", "disabled"} \cup Trouble

HealthRecords == [status : Statuses, fails : Nat, scheduled : BOOLEAN, awaiting : BOOLEAN]
HealthShape == health \in HealthRecords /\ forgiven \in BOOLEAN

\* What is told is kept for every status that is no trouble, where the
\* property speaks of healthy sources only: a source that is disabled, or
\* awaits its slot, becomes a healthy one without another notice.
ToldInv ==
  /\ HealthShape
  /\ health.status = "unhealthy" => issued = "unhealthy"
  /\ health.status \notin Trouble /\ ~ forgiven => issued \in {"none", "recovered"}

LEMMA HealthFields ==
  ASSUME NEW h \in HealthRecords
  PROVE  h.status \in Statuses /\ h.fails \in Nat
  BY Zenon DEF HealthRecords

\* The ways the record is written.
LEMMA StatusWritten ==
  ASSUME NEW h \in HealthRecords, NEW s \in Statuses
  PROVE  /\ [h EXCEPT !.status = s, !.awaiting = FALSE] \in HealthRecords
         /\ [h EXCEPT !.status = s, !.awaiting = FALSE].status = s
         /\ [h EXCEPT !.status = s, !.scheduled = FALSE, !.awaiting = FALSE] \in HealthRecords
         /\ [h EXCEPT !.status = s, !.scheduled = FALSE, !.awaiting = FALSE].status = s
         /\ [h EXCEPT !.status = s, !.scheduled = TRUE, !.awaiting = TRUE] \in HealthRecords
         /\ [h EXCEPT !.status = s, !.scheduled = TRUE, !.awaiting = TRUE].status = s
         /\ [h EXCEPT !.status = s] \in HealthRecords
         /\ [h EXCEPT !.status = s].status = s
  BY ZenonT(30) DEF HealthRecords

\* A source that is listed without slots keeps its status, or is healthy.
LEMMA UnscheduledShape ==
  ASSUME NEW h \in HealthRecords
  PROVE  /\ Unscheduled(h) \in HealthRecords
         /\ Unscheduled(h).status \in {"healthy", h.status}
<1>1. "healthy" \in Statuses /\ h.status \in Statuses  BY HealthFields DEF Statuses
<1>2. CASE h.status = "unlisted"
  BY <1>1, <1>2, StatusWritten DEF Unscheduled
<1>3. CASE h.status # "unlisted" /\ h.scheduled
  <2> DEFINE s == IF h.status = "awaiting" THEN "healthy" ELSE h.status
             u == [h EXCEPT !.status = s, !.scheduled = FALSE, !.awaiting = FALSE]
  <2>1. s \in Statuses /\ s \in {"healthy", h.status}  BY <1>1
  <2>2. Unscheduled(h) = u  BY <1>3, Zenon DEF Unscheduled, HealthRecords
  <2> HIDE DEF s
  <2>3. u \in HealthRecords /\ u.status = s  BY <2>1, StatusWritten
  <2> QED  BY <2>1, <2>2, <2>3
<1>4. CASE h.status # "unlisted" /\ ~ h.scheduled
  BY <1>1, <1>4 DEF Unscheduled
<1> QED  BY <1>2, <1>3, <1>4

\* Listing a source never makes it one in trouble.
LEMMA ListingShape ==
  ASSUME HealthShape, NEW k \in {"disabled", "scheduled", "interval"}
  PROVE  /\ Registered(health, k) \in HealthRecords
         /\ Registered(health, k).status \in Trouble => Registered(health, k).status = health.status
<1> DEFINE u == Unscheduled(health)
<1>1. health \in HealthRecords  BY DEF HealthShape
<1>2. u \in HealthRecords /\ u.status \in {"healthy", health.status}  BY <1>1, UnscheduledShape
<1>3. "healthy" \in Statuses /\ "awaiting" \in Statuses /\ "disabled" \in Statuses
  BY DEF Statuses
<1> HIDE DEF u
<1>4. CASE k = "disabled"
  <2>1. Registered(health, k) = [u EXCEPT !.status = "disabled", !.awaiting = FALSE]
    BY <1>4 DEF Registered, WithStatus, u
  <2>2. [u EXCEPT !.status = "disabled", !.awaiting = FALSE] \in HealthRecords
        /\ [u EXCEPT !.status = "disabled", !.awaiting = FALSE].status = "disabled"
    BY ONLY <1>2, <1>3, StatusWritten
  <2> QED  BY <2>1, <2>2 DEF Trouble
<1>5. CASE k = "scheduled"
  <2>1. \/ Registered(health, k) = health
        \/ Registered(health, k)
             = [health EXCEPT !.status = "awaiting", !.scheduled = TRUE, !.awaiting = TRUE]
    BY <1>5 DEF Registered, Scheduled
  <2>2. [health EXCEPT !.status = "awaiting", !.scheduled = TRUE, !.awaiting = TRUE] \in HealthRecords
        /\ [health EXCEPT !.status = "awaiting", !.scheduled = TRUE, !.awaiting = TRUE].status = "awaiting"
    BY ONLY <1>1, <1>3, StatusWritten
  <2> QED  BY <2>1, <2>2, <1>1 DEF Trouble
<1>6. CASE k = "interval"
  <2>1. \/ Registered(health, k) = u
        \/ Registered(health, k) = [u EXCEPT !.status = "healthy", !.awaiting = FALSE]
    BY <1>6 DEF Registered, WithStatus, u
  <2>2. [u EXCEPT !.status = "healthy", !.awaiting = FALSE] \in HealthRecords
        /\ [u EXCEPT !.status = "healthy", !.awaiting = FALSE].status = "healthy"
    BY ONLY <1>2, <1>3, StatusWritten
  <2> QED  BY <2>1, <2>2, <1>2 DEF Trouble
<1> QED  BY <1>4, <1>5, <1>6

\* A poll that got an answer: whoever was told of trouble is told it is over.
LEMMA SuccessIsTold ==
  ASSUME ToldInv, RecordSuccess  PROVE ToldInv'
<1>1. health' = [health EXCEPT !.status = "healthy", !.fails = 0, !.awaiting = FALSE]
  BY DEF RecordSuccess
<1>2. health' \in HealthRecords
      /\ health'.status = "healthy"
  <2>1. health \in HealthRecords /\ "healthy" \in Statuses  BY DEF ToldInv, HealthShape, Statuses
  <2>2. 0 \in Nat  OBVIOUS
  <2>3. [health EXCEPT !.status = "healthy", !.fails = 0, !.awaiting = FALSE] \in HealthRecords
        /\ [health EXCEPT !.status = "healthy", !.fails = 0, !.awaiting = FALSE].status = "healthy"
    BY ONLY <2>1, <2>2, ZenonT(30) DEF HealthRecords
  <2> QED  BY <1>1, <2>3
<1>3. CASE health.status \in Trouble
  BY <1>2, <1>3 DEF RecordSuccess, Tell, ToldInv, HealthShape, Trouble
<1>4. CASE health.status \notin Trouble
  BY <1>2, <1>4 DEF RecordSuccess, TellNobody, ToldInv, HealthShape, Trouble
<1> QED  BY <1>3, <1>4

\* A poll that failed: a source that turns unhealthy is announced at once.
LEMMA FailureIsTold ==
  ASSUME ToldInv, RecordFailure  PROVE ToldInv'
<1> DEFINE fails  == IF health.fails < UnhealthyThreshold THEN health.fails + 1 ELSE health.fails
           status == IF fails >= UnhealthyThreshold THEN "unhealthy"
                     ELSE IF fails >= DegradedThreshold THEN "degraded" ELSE health.status
           warn   == status = "degraded" /\ fails >= DegradedThreshold
                     /\ health.status \in {"healthy", "awaiting"}
<1>1. health' = [health EXCEPT !.fails = fails, !.status = status]
      /\ (IF Alarms(status) THEN Tell("unhealthy") ELSE IF warn THEN Tell("degraded") ELSE TellNobody)
  BY DEF RecordFailure
<1>h. health \in HealthRecords /\ health.status \in Statuses /\ health.fails \in Nat
  BY HealthFields DEF ToldInv, HealthShape
<1>2. fails \in Nat  BY <1>h, SMT
<1>3. status \in Statuses /\ (status \in Trouble \/ status = health.status)
  BY <1>h DEF Statuses, Trouble
<1> HIDE DEF fails, status
<1>4. health' \in HealthRecords
      /\ health'.status = status
  <2>1. [health EXCEPT !.fails = fails, !.status = status] \in HealthRecords
        /\ [health EXCEPT !.fails = fails, !.status = status].status = status
    BY ONLY <1>2, <1>3, <1>h, ZenonT(30) DEF HealthRecords
  <2> QED  BY ONLY <1>1, <2>1
<1>5. CASE Alarms(status)
  BY <1>1, <1>4, <1>5 DEF Alarms, Tell, ToldInv, HealthShape, Trouble
<1>6. CASE ~ Alarms(status) /\ warn
  BY <1>1, <1>4, <1>6 DEF Tell, ToldInv, HealthShape, Trouble
<1>7. CASE ~ Alarms(status) /\ ~ warn
  <2>1. UNCHANGED <<issued, forgiven>>  BY <1>1, <1>7 DEF TellNobody
  <2>2. status = "unhealthy" => health.status = "unhealthy"  BY <1>7 DEF Alarms
  <2>3. status \notin Trouble => status = health.status  BY <1>3
  <2> QED  BY <1>4, <2>1, <2>2, <2>3 DEF ToldInv, HealthShape
<1> QED  BY <1>5, <1>6, <1>7

\* Whoever is told of a source stays informed in every step.
LEMMA ToldStep == ToldInv /\ [HealthNext]_healthVars => ToldInv'
<1> SUFFICES ASSUME ToldInv, [HealthNext]_healthVars  PROVE ToldInv'
  OBVIOUS
<1>1. ASSUME NEW k \in {"disabled", "scheduled", "interval"}, ListSource(k)  PROVE ToldInv'
  <2>1. health' = Registered(health, k) /\ issued' = issued
        /\ forgiven' = (forgiven \/ health'.status # health.status)
    BY <1>1 DEF ListSource
  <2>2. HealthShape  BY DEF ToldInv
  <2>3. health' \in HealthRecords
        /\ (health'.status \in Trouble => health'.status = health.status)
    BY <2>1, <2>2, ListingShape
  <2>4. forgiven' \in BOOLEAN  BY <2>1, <2>2 DEF HealthShape
  <2>5. health'.status = "unhealthy" => issued' = "unhealthy"
    BY <2>1, <2>3 DEF ToldInv, Trouble
  <2>6. health'.status \notin Trouble /\ ~ forgiven' => issued' \in {"none", "recovered"}
    BY <2>1 DEF ToldInv
  <2> QED  BY <2>3, <2>4, <2>5, <2>6 DEF ToldInv, HealthShape
<1>2. ASSUME NEW p \in Polls, BeginFetch(p)  PROVE ToldInv'
  BY <1>2 DEF BeginFetch, ToldInv, HealthShape
<1>3. ASSUME NEW p \in Polls, EndFetch(p)  PROVE ToldInv'
  BY <1>3, SuccessIsTold, FailureIsTold DEF EndFetch
<1>4. CASE ResetSource
  <2>1. /\ health' = [health EXCEPT !.status = IF health.awaiting THEN "awaiting" ELSE "healthy",
                                    !.fails = 0]
        /\ forgiven' = (forgiven \/ health'.status # health.status) /\ issued' = issued
    BY <1>4 DEF ResetSource
  <2>2. health' \in HealthRecords
        /\ health'.status \in {"awaiting", "healthy"}
    <3>1. health \in HealthRecords /\ "healthy" \in Statuses /\ "awaiting" \in Statuses /\ 0 \in Nat
      BY DEF ToldInv, HealthShape, Statuses
    <3> DEFINE s == IF health.awaiting THEN "awaiting" ELSE "healthy"
    <3>2. s \in Statuses /\ s \in {"awaiting", "healthy"}  BY <3>1
    <3>3. health' = [health EXCEPT !.status = s, !.fails = 0]  BY <2>1
    <3> HIDE DEF s
    <3>4. [health EXCEPT !.status = s, !.fails = 0] \in HealthRecords
          /\ [health EXCEPT !.status = s, !.fails = 0].status = s
      BY ONLY <3>1, <3>2, ZenonT(30) DEF HealthRecords
    <3> QED  BY ONLY <3>2, <3>3, <3>4
  <2>3. forgiven' \in BOOLEAN  BY <2>1 DEF ToldInv, HealthShape
  <2> QED  BY <2>1, <2>2, <2>3 DEF ToldInv, HealthShape, Trouble
<1>5. CASE RecoveryIntervalPasses
  BY <1>5 DEF RecoveryIntervalPasses, ToldInv, HealthShape
<1>6. CASE RenotifyIntervalPasses
  BY <1>6 DEF RenotifyIntervalPasses, ToldInv, HealthShape
<1>7. CASE SiteTurns
  BY <1>7 DEF SiteTurns, ToldInv, HealthShape
<1>8. CASE UNCHANGED healthVars
  BY <1>8 DEF healthVars, ToldInv, HealthShape
<1> QED  BY <1>1, <1>2, <1>3, <1>4, <1>5, <1>6, <1>7, <1>8 DEF HealthNext

\* For any thresholds and any number of polls at the same time: an unhealthy
\* source has been announced, and one that is well again has been announced
\* as recovered, unless a reset or a change put the trouble aside
\* (health_monitor.go: RecordSuccess, RecordFailure, SetSourceStatus,
\* ResetSource).
THEOREM StandingIsTold == HealthSpec => []ToldHowItStands
<1>1. HealthInit => ToldInv
  <2> SUFFICES ASSUME HealthInit  PROVE ToldInv  OBVIOUS
  <2>1. health = [status |-> "unlisted", fails |-> 0, scheduled |-> FALSE, awaiting |-> FALSE]
        /\ issued = "none" /\ forgiven = FALSE
    BY DEF HealthInit
  <2>2. "unlisted" \in Statuses /\ 0 \in Nat  BY DEF Statuses
  <2>3. health \in HealthRecords  BY ONLY <2>1, <2>2, Zenon DEF HealthRecords
  <2>4. health.status = "unlisted"  BY <2>1
  <2> QED  BY <2>1, <2>3, <2>4 DEF ToldInv, HealthShape
<1>2. ToldInv => ToldHowItStands
  BY DEF ToldInv, ToldHowItStands, Trouble
<1> QED  BY <1>1, <1>2, ToldStep, PTL DEF HealthSpec

\* A set of naturals that is not empty has a least element.
LEMMA LeastOf ==
  ASSUME NEW S \in SUBSET Nat, S # {}
  PROVE  \E x \in S : \A y \in S : x <= y
<1> DEFINE below == {0..x : x \in S}
<1>1. IsWellFoundedOn(StrictSubsetOrdering(Nat), FiniteSubsetsOf(Nat))
  BY FS_StrictSubsetOrderingWellFounded
<1>2. below \subseteq FiniteSubsetsOf(Nat)
  <2> SUFFICES ASSUME NEW x \in S  PROVE 0..x \in FiniteSubsetsOf(Nat)  OBVIOUS
  <2>1. IsFiniteSet(0..x)  BY FS_Interval
  <2> QED  BY <2>1 DEF FiniteSubsetsOf
<1>3. PICK b \in below : \A c \in below : <<c, b>> \notin StrictSubsetOrdering(Nat)
  <2>1. below # {}  OBVIOUS
  <2> HIDE DEF below
  <2> QED  BY <1>1, <1>2, <2>1, WFMin, Zenon
<1>4. PICK x \in S : b = 0..x  OBVIOUS
<1>5. ASSUME NEW y \in S, y < x  PROVE FALSE
  <2>1. 0..y \subseteq 0..x /\ 0..y # 0..x  BY <1>5
  <2>2. <<0..y, b>> \in StrictSubsetOrdering(Nat)  BY <2>1, <1>4 DEF StrictSubsetOrdering
  <2> QED  BY <2>2, <1>3
<1> QED  BY <1>5

-----------------------------------------------------------------------------
(* The supervisor.                                                         *)

KidFields == {"up", "reading", "expected", "stopping", "killer", "reader", "done", "counted", "pending"}
KidShape == /\ kids = [g \in Kids |-> kids[g]]
            /\ \A g \in Kids : kids[g] = [f \in KidFields |-> kids[g][f]]
            /\ closer = [at |-> closer.at, target |-> closer.target]

\* The invariant behind Close: the one process that runs is the current
\* child, and no process runs under a supervisor that is closed but those
\* that have been signalled.
ClosedInv ==
  /\ KidShape
  /\ \A g \in Kids : kids[g].up => g = cur /\ ~ kids[g].done
  /\ Stopped => \A g \in Kids : kids[g].up => kids[g].stopping
  /\ closer.at = "returned" => work.at = "stopped"

\* What a step may do to the processes without touching the invariant: end
\* them, mark them, signal them.
Tamer == /\ kids' = [g \in Kids |-> kids'[g]]
         /\ \A g \in Kids : /\ kids'[g] = [f \in KidFields |-> kids'[g][f]]
                            /\ kids'[g].up => kids[g].up
                            /\ kids[g].stopping => kids'[g].stopping
                            /\ kids'[g].done => kids[g].done \/ ~ kids'[g].up

LEMMA TamerKeeps ==
  ASSUME ClosedInv, Tamer, UNCHANGED closer,
         cur' = cur \/ \A g \in Kids : ~ kids'[g].up,
         work.at = "stopped" => work' = work
  PROVE  ClosedInv'
BY DEF ClosedInv, KidShape, Tamer, Stopped

LEMMA OneKid ==
  ASSUME KidShape, NEW g, NEW k, kids' = [kids EXCEPT ![g] = k],
         g \in Kids => /\ k = [f \in KidFields |-> k[f]]
                       /\ k.up => kids[g].up
                       /\ kids[g].stopping => k.stopping
                       /\ k.done => kids[g].done \/ ~ k.up
  PROVE  Tamer
<1>1. kids' = [h \in Kids |-> kids'[h]] /\ \A h \in Kids : kids'[h] = IF h = g THEN k ELSE kids[h]
  BY DEF KidShape
<1> QED  BY <1>1 DEF KidShape, Tamer

LEMMA WritesTame ==
  ASSUME KidShape, NEW g, NEW x, NEW y
  PROVE  /\ kids' = kids => Tamer
         /\ kids' = [kids EXCEPT ![g].pending = x] => Tamer
         /\ kids' = [kids EXCEPT ![g].pending = x, ![g].expected = y] => Tamer
         /\ kids' = [kids EXCEPT ![g].reader = x] => Tamer
         /\ kids' = [kids EXCEPT ![g].reading = x] => Tamer
         /\ kids' = [kids EXCEPT ![g].up = FALSE] => Tamer
         /\ kids' = [kids EXCEPT ![g].killer = x, ![g].up = FALSE] => Tamer
         /\ kids' = [kids EXCEPT ![g].stopping = TRUE, ![g].killer = x] => Tamer
         /\ kids' = [[kids EXCEPT ![g].stopping = TRUE, ![g].killer = x]
                       EXCEPT ![g].counted = y, ![g].reader = "ended"] => Tamer
         /\ kids' = [kids EXCEPT ![g].counted = y, ![g].reader = "ended"] => Tamer
         /\ (g \in Kids => ~kids[g].up) /\ kids' = [kids EXCEPT ![g].done = TRUE, ![g].counted = y] => Tamer
<1>1. ASSUME kids' = kids  PROVE Tamer
  BY <1>1 DEF KidShape, Tamer, KidFields
<1>2. ASSUME kids' = [kids EXCEPT ![g].pending = x]  PROVE Tamer
  BY <1>2 DEF KidShape, Tamer, KidFields
<1>3. ASSUME kids' = [kids EXCEPT ![g].pending = x, ![g].expected = y]  PROVE Tamer
  BY <1>3 DEF KidShape, Tamer, KidFields
<1>4. ASSUME kids' = [kids EXCEPT ![g].reader = x]  PROVE Tamer
  BY <1>4 DEF KidShape, Tamer, KidFields
<1>5. ASSUME kids' = [kids EXCEPT ![g].reading = x]  PROVE Tamer
  BY <1>5 DEF KidShape, Tamer, KidFields
<1>6. ASSUME kids' = [kids EXCEPT ![g].up = FALSE]  PROVE Tamer
  BY <1>6 DEF KidShape, Tamer, KidFields
<1>7. ASSUME kids' = [kids EXCEPT ![g].killer = x, ![g].up = FALSE]  PROVE Tamer
  BY <1>7 DEF KidShape, Tamer, KidFields
<1>8. ASSUME kids' = [kids EXCEPT ![g].stopping = TRUE, ![g].killer = x]  PROVE Tamer
  <2> DEFINE k == [kids[g] EXCEPT !.stopping = TRUE, !.killer = x]
  <2>1. kids' = [kids EXCEPT ![g] = k]  BY <1>8, Zenon DEF KidShape
  <2>2. ASSUME g \in Kids
        PROVE  /\ k = [f \in KidFields |-> k[f]]
               /\ k.up => kids[g].up
               /\ kids[g].stopping => k.stopping
               /\ k.done => kids[g].done \/ ~ k.up
    BY <2>2, <1>8 DEF KidShape, KidFields
  <2> HIDE DEF k
  <2> QED  BY <2>1, <2>2, OneKid
<1>9. ASSUME kids' = [[kids EXCEPT ![g].stopping = TRUE, ![g].killer = x]
                 EXCEPT ![g].counted = y, ![g].reader = "ended"]  PROVE Tamer
  <2> DEFINE k == [kids[g] EXCEPT !.stopping = TRUE, !.killer = x, !.counted = y, !.reader = "ended"]
  <2>1. kids' = [kids EXCEPT ![g] = k]  BY <1>9, Zenon DEF KidShape
  <2>2. ASSUME g \in Kids
        PROVE  /\ k = [f \in KidFields |-> k[f]]
               /\ k.up => kids[g].up
               /\ kids[g].stopping => k.stopping
               /\ k.done => kids[g].done \/ ~ k.up
    BY <2>2, <1>9 DEF KidShape, KidFields
  <2> HIDE DEF k
  <2> QED  BY <2>1, <2>2, OneKid
<1>10. ASSUME kids' = [kids EXCEPT ![g].counted = y, ![g].reader = "ended"]  PROVE Tamer
  <2> DEFINE k == [kids[g] EXCEPT !.counted = y, !.reader = "ended"]
  <2>1. kids' = [kids EXCEPT ![g] = k]  BY <1>10, Zenon DEF KidShape
  <2>2. ASSUME g \in Kids
        PROVE  /\ k = [f \in KidFields |-> k[f]]
               /\ k.up => kids[g].up
               /\ kids[g].stopping => k.stopping
               /\ k.done => kids[g].done \/ ~ k.up
    BY <2>2, <1>10 DEF KidShape, KidFields
  <2> HIDE DEF k
  <2> QED  BY <2>1, <2>2, OneKid
<1>11. ASSUME g \in Kids => ~kids[g].up, kids' = [kids EXCEPT ![g].done = TRUE, ![g].counted = y]  PROVE Tamer
  <2> DEFINE k == [kids[g] EXCEPT !.done = TRUE, !.counted = y]
  <2>1. kids' = [kids EXCEPT ![g] = k]  BY <1>11, Zenon DEF KidShape
  <2>2. ASSUME g \in Kids
        PROVE  /\ k = [f \in KidFields |-> k[f]]
               /\ k.up => kids[g].up
               /\ kids[g].stopping => k.stopping
               /\ k.done => kids[g].done \/ ~ k.up
    BY <2>2, <1>11 DEF KidShape, KidFields
  <2> HIDE DEF k
  <2> QED  BY <2>1, <2>2, OneKid
<1> QED  BY <1>1, <1>2, <1>3, <1>4, <1>5, <1>6, <1>7, <1>8, <1>9, <1>10, <1>11

\* Forgetting a call, signalling a child and giving one up.
LEMMA HelpersTame ==
  ASSUME KidShape, NEW g, NEW who
  PROVE  /\ kids' = Forgotten(g) => Tamer
         /\ kids' = Terminated(g, who) => Tamer
         /\ FailChild(g) => Tamer
<1>1. ASSUME kids' = Forgotten(g)  PROVE Tamer
  BY <1>1, WritesTame DEF Forgotten
<1>2. ASSUME kids' = Terminated(g, who)  PROVE Tamer
  BY <1>2, WritesTame DEF Terminated
<1>3. ASSUME FailChild(g)  PROVE Tamer
  <2>1. kids' = [Terminated(g, "reader") EXCEPT ![g].counted = Counted(g), ![g].reader = "ended"]
    BY <1>3 DEF FailChild
  <2> QED  BY <2>1, WritesTame DEF Terminated
<1> QED  BY <1>1, <1>2, <1>3

\* A step of the worker that starts no child.
LEMMA WorkerKeeps ==
  ASSUME ClosedInv, \/ TakeJob \/ WorkerStops \/ Register \/ WriteFrame \/ Await
                    \/ CancelGrace \/ KilledByWorker
  PROVE  ClosedInv'
<1>1. KidShape  BY DEF ClosedInv
<1>2. Tamer
  <2>1. CASE TakeJob  BY <1>1, <2>1, WritesTame DEF TakeJob
  <2>2. CASE WorkerStops  BY <1>1, <2>2, WritesTame DEF WorkerStops
  <2>3. CASE Register
    <3> DEFINE y == kids[work.kid].expected \/ work.job \in ShutdownJobs
    <3>1. \/ kids' = kids
          \/ kids' = [kids EXCEPT ![work.kid].pending = work.job, ![work.kid].expected = y]
      BY <2>3 DEF Register
    <3> HIDE DEF y
    <3>2. CASE kids' = kids  BY <1>1, <3>2, WritesTame
    <3>3. CASE kids' = [kids EXCEPT ![work.kid].pending = work.job, ![work.kid].expected = y]
      BY <1>1, <3>3, WritesTame, Zenon
    <3> QED  BY <3>1, <3>2, <3>3
  <2>4. CASE WriteFrame
    <3>1. kids' = kids \/ kids' = Forgotten(work.kid)  BY <2>4 DEF WriteFrame
    <3> QED  BY <1>1, <3>1, WritesTame, HelpersTame
  <2>5. CASE Await
    <3>1. kids' = kids \/ kids' = Forgotten(work.kid)  BY <2>5 DEF Await
    <3> QED  BY <1>1, <3>1, WritesTame, HelpersTame
  <2>6. CASE CancelGrace
    <3>1. kids' = Terminated(work.kid, "worker") \/ kids' = Forgotten(work.kid)
      BY <2>6 DEF CancelGrace
    <3> QED  BY <1>1, <3>1, HelpersTame
  <2>7. CASE KilledByWorker
    BY <1>1, <2>7, HelpersTame DEF KilledByWorker
  <2> QED  BY <2>1, <2>2, <2>3, <2>4, <2>5, <2>6, <2>7
<1>3. UNCHANGED <<cur, closer>> /\ (work.at = "stopped" => work' = work)
  BY DEF TakeJob, WorkerStops, Register, WriteFrame, Await, CancelGrace, KilledByWorker, WorkerStep
<1> QED  BY <1>2, <1>3, TamerKeeps

\* The worker starts a child only when none runs and nobody has called Close.
LEMMA EnsureKeeps ==
  ASSUME ClosedInv, EnsureChild  PROVE ClosedInv'
<1>1. KidShape  BY DEF ClosedInv
<1>2. closer' = closer /\ work.at # "stopped"  BY DEF EnsureChild
<1> DEFINE alive == cur # 0 /\ ~kids[cur].done
           ready == {g \in Kids : ~Started(g)}
<1>3. CASE UNCHANGED <<kids, cur>>
  BY <1>1, <1>2, <1>3, WritesTame, TamerKeeps
<1>4. CASE ~ alive /\ cur' = 0 /\ UNCHANGED kids
  <2>1. \A g \in Kids : ~ kids[g].up  BY <1>4, SupervisorAssumption DEF ClosedInv, Kids
  <2> QED  BY <1>1, <1>2, <1>4, <2>1, WritesTame, TamerKeeps
<1>5. ASSUME ~ Refuses(alive), ~ alive, ready # {},
             LET g == CHOOSE x \in ready : \A y \in ready : x <= y IN
                    /\ cur' = g
                    /\ kids' = [kids EXCEPT ![g].up = TRUE, ![g].reader = "on"]
      PROVE ClosedInv'
  <2>1. \A g \in Kids : ~ kids[g].up  BY <1>5, SupervisorAssumption DEF ClosedInv, Kids
  <2> DEFINE g == CHOOSE x \in ready : \A y \in ready : x <= y
  <2>2. g \in ready
    <3>1. ready \in SUBSET Nat  BY DEF Kids
    <3>2. \E x \in ready : \A y \in ready : x <= y  BY <1>5, <3>1, LeastOf
    <3> QED  BY <3>2
  <2>3. g \in Kids /\ ~ Started(g) /\ cur' = g
        /\ kids' = [kids EXCEPT ![g].up = TRUE, ![g].reader = "on"]
    BY <2>2, <1>5
  <2>4. ~ Stopped  BY <1>5 DEF Refuses
  <2> HIDE DEF g, ready, alive
  <2>5. /\ kids' = [h \in Kids |-> kids'[h]]
        /\ kids'[g] = [f \in KidFields |-> kids'[g][f]]
        /\ kids'[g].done = kids[g].done
        /\ \A h \in Kids \ {g} : kids'[h] = kids[h]
    BY <2>3, <1>1 DEF KidShape, KidFields
  <2>6. ~ kids[g].done  BY <2>3 DEF Started
  <2>7. KidShape'
    BY <2>3, <2>5, <1>1, <1>2 DEF KidShape
  <2>8. ~ Stopped'  BY <2>4, <1>2 DEF Stopped
  <2> QED  BY <2>1, <2>3, <2>5, <2>6, <2>7, <2>8 DEF ClosedInv, Stopped
<1>6. \/ UNCHANGED <<kids, cur>>
      \/ ~ alive /\ cur' = 0 /\ UNCHANGED kids
      \/ /\ ~ Refuses(alive) /\ ~ alive /\ ready # {}
         /\ LET g == CHOOSE x \in ready : \A y \in ready : x <= y IN
              /\ cur' = g
              /\ kids' = [kids EXCEPT ![g].up = TRUE, ![g].reader = "on"]
  BY DEF EnsureChild
<1> QED  BY <1>3, <1>4, <1>5, <1>6

\* The child, its goroutines, and the timers of the supervisor.
LEMMA ChildKeeps ==
  ASSUME ClosedInv, NEW g \in Kids,
         \/ KillGraceEnds(g) \/ ChildExits(g) \/ ChildStopsReading(g)
         \/ ReadResponse(g) \/ ReadEnds(g) \/ WaitChild(g)
  PROVE  ClosedInv'
<1>1. KidShape  BY DEF ClosedInv
<1>2. UNCHANGED <<work, closer>>
  BY DEF KillGraceEnds, ChildExits, ChildStopsReading, ReadResponse, ReadEnds, WaitChild, ChildStep
<1>3. CASE WaitChild(g)
  <2>1. Tamer  BY <1>1, <1>3, WritesTame DEF WaitChild
  <2>2. cur' = cur \/ \A h \in Kids : ~ kids'[h].up
    BY <1>3, <2>1 DEF WaitChild, Tamer, ClosedInv
  <2> QED  BY <1>2, <2>1, <2>2, TamerKeeps
<1>4. CASE \/ KillGraceEnds(g) \/ ChildExits(g) \/ ChildStopsReading(g)
           \/ ReadResponse(g) \/ ReadEnds(g)
  <2>1. cur' = cur
    BY <1>4 DEF KillGraceEnds, ChildExits, ChildStopsReading, ReadResponse, ReadEnds, ChildStep
  <2>2. CASE KillGraceEnds(g)  BY <1>1, <1>2, <2>1, <2>2, WritesTame, TamerKeeps DEF KillGraceEnds
  <2>3. CASE ChildExits(g)  BY <1>1, <1>2, <2>1, <2>3, WritesTame, TamerKeeps DEF ChildExits
  <2>4. CASE ChildStopsReading(g)
    BY <1>1, <1>2, <2>1, <2>4, WritesTame, TamerKeeps DEF ChildStopsReading
  <2>5. CASE ReadResponse(g)
    <3>1. kids' = kids \/ FailChild(g)  BY <2>5 DEF ReadResponse
    <3> QED  BY <1>1, <1>2, <2>1, <3>1, WritesTame, HelpersTame, TamerKeeps
  <2>6. CASE ReadEnds(g)
    <3>1. kids' = [kids EXCEPT ![g].reader = "ended"] \/ FailChild(g)  BY <2>6 DEF ReadEnds
    <3> QED  BY <1>1, <1>2, <2>1, <3>1, WritesTame, HelpersTame, TamerKeeps
  <2> QED  BY <1>4, <2>2, <2>3, <2>4, <2>5, <2>6
<1> QED  BY <1>3, <1>4

\* Close signals the current child before it does anything else.
LEMMA CloseKeeps ==
  ASSUME ClosedInv, CloseSupervisor \/ Closing  PROVE ClosedInv'
<1>1. KidShape  BY DEF ClosedInv
<1>2. UNCHANGED <<work, cur>>  BY DEF CloseSupervisor, Closing, CloseTarget, CloseReturns
<1>3. CASE CloseSupervisor
  <2>1. Tamer  BY <1>1, <1>3, HelpersTame DEF CloseSupervisor
  <2>2. closer' = [at |-> "child", target |-> target]  BY <1>3 DEF CloseSupervisor
  <2>3. ASSUME NEW g \in Kids, kids'[g].up  PROVE kids'[g].stopping /\ g = cur /\ ~ kids'[g].done
    <3>1. kids[g].up /\ g = cur /\ ~ kids[g].done  BY <2>1, <2>3 DEF Tamer, ClosedInv
    <3>2. kids[g].stopping \/ kids' = [kids EXCEPT ![g].stopping = TRUE, ![g].killer = "closer"]
      BY <1>3, <3>1, SupervisorAssumption DEF CloseSupervisor, Terminated, Kids
    <3>3. kids'[g].stopping
      <4>1. CASE kids[g].stopping  BY <2>1, <4>1 DEF Tamer
      <4>2. CASE kids' = [kids EXCEPT ![g].stopping = TRUE, ![g].killer = "closer"]
        BY <4>2, <1>1 DEF KidShape, KidFields
      <4> QED  BY <3>2, <4>1, <4>2
    <3>4. ~ kids'[g].done  BY <2>1, <2>3, <3>1 DEF Tamer
    <3> QED  BY <3>1, <3>3, <3>4
  <2>4. KidShape'  BY <2>1, <2>2 DEF KidShape, Tamer
  <2>5. closer'.at # "returned"  BY <2>2
  <2> QED  BY <1>2, <2>3, <2>4, <2>5 DEF ClosedInv
<1>4. CASE CloseTarget
  <2>1. Tamer  BY <1>1, <1>4, HelpersTame DEF CloseTarget
  <2>2. closer' = [closer EXCEPT !.at = "drain"] /\ closer.at = "child"  BY <1>4 DEF CloseTarget
  <2>3. closer'.at = "drain" /\ closer' = [at |-> closer'.at, target |-> closer'.target]
    BY <2>2, <1>1 DEF KidShape
  <2> QED  BY <1>2, <2>1, <2>2, <2>3 DEF ClosedInv, KidShape, Tamer, Stopped
<1>5. CASE CloseReturns
  <2>1. kids' = kids /\ work.at = "stopped" /\ closer.at = "drain" /\ closer' = [closer EXCEPT !.at = "returned"]
    BY <1>5 DEF CloseReturns
  <2>2. closer'.at = "returned" /\ closer' = [at |-> closer'.at, target |-> closer'.target]
    BY <2>1, <1>1 DEF KidShape
  <2> QED  BY <1>2, <2>1, <2>2 DEF ClosedInv, KidShape, Stopped
<1> QED  BY <1>3, <1>4, <1>5 DEF Closing

LEMMA SupervisorStep == ClosedInv /\ [SupervisorNext]_supervisorVars => ClosedInv'
<1> SUFFICES ASSUME ClosedInv, [SupervisorNext]_supervisorVars  PROVE ClosedInv'
  OBVIOUS
<1>1. KidShape  BY DEF ClosedInv
<1>2. ASSUME NEW j \in Jobs, CallJob(j) \/ EndContext(j) \/ ReturnJob(j) \/ FinishShutdown(j)
      PROVE  ClosedInv'
  <2>1. UNCHANGED <<work, cur, closer>>
    BY <1>2 DEF CallJob, EndContext, ReturnJob, FinishShutdown
  <2>2. kids' = kids \/ kids' = Terminated(target, "shutdown")
    BY <1>2 DEF CallJob, EndContext, ReturnJob, FinishShutdown
  <2> QED  BY <1>1, <2>1, <2>2, WritesTame, HelpersTame, TamerKeeps
<1>3. CASE BackoffEnds
  BY <1>1, <1>3, WritesTame, TamerKeeps DEF BackoffEnds
<1>4. CASE UNCHANGED supervisorVars
  BY <1>1, <1>4, WritesTame, TamerKeeps DEF supervisorVars
<1> QED
  BY <1>2, <1>3, <1>4, CloseKeeps, WorkerKeeps, EnsureKeeps, ChildKeeps DEF SupervisorNext, Worker

\* For any number of calls, children and shutdowns: once Close has returned,
\* no child runs that nobody has signalled, and the worker that could start
\* one has ended (supervisor.go: Close, ensureChild, execute, terminate,
\* waitChild).
THEOREM CloseLeavesNothing == SupervisorSpec => []NothingLeftRunning
<1>1. SupervisorInit => ClosedInv
  <2> SUFFICES ASSUME SupervisorInit  PROVE ClosedInv  OBVIOUS
  <2>1. kids = [g \in Kids |-> NewKid] /\ closer = [at |-> "none", target |-> 0]
    BY DEF SupervisorInit
  <2>2. NewKid = [f \in KidFields |-> NewKid[f]] /\ NewKid.up = FALSE
    BY DEF NewKid, KidFields
  <2>3. ~ Stopped /\ closer.at # "returned"  BY <2>1 DEF Stopped
  <2> QED  BY <2>1, <2>2, <2>3 DEF ClosedInv, KidShape
<1>2. ClosedInv => NothingLeftRunning
  BY DEF ClosedInv, NothingLeftRunning, Stopped
<1> QED  BY <1>1, <1>2, SupervisorStep, PTL DEF SupervisorSpec

-----------------------------------------------------------------------------
(* The delivery worker.                                                    *)

AttemptStates == {"none", "queued", "sending", "overdue", "completing", "done"}
WorkerShape == /\ attempt \in [Attempts -> AttemptStates]
               /\ age \in Nat /\ ending \in Nat /\ stuck \in Nat /\ hindered \in BOOLEAN

\* The attempts of the cycle that still have a whole send before them.
Left == AttemptsAt({"queued", "sending"})
InTime == \/ Left = {} /\ age <= Waves
          \/ Cardinality(Left) + age * Concurrency <= BatchSize

\* In a cycle nothing stuck has touched no stuck send holds a slot, and every
\* send timeout that has passed took a whole wave away from what is left.
WavesInv == /\ WorkerShape
            /\ ~ hindered => stuck = 0 /\ InTime

LEMMA AttemptsFinite ==
  ASSUME NEW S  PROVE IsFiniteSet(AttemptsAt(S)) /\ Cardinality(AttemptsAt(S)) \in Nat
<1>1. IsFiniteSet(Attempts)  BY FS_Interval, WorkerAssumption DEF Attempts
<1>2. AttemptsAt(S) \in SUBSET Attempts  BY DEF AttemptsAt
<1> QED  BY <1>1, <1>2, FS_Subset, FS_CardinalityType

\* Waves times Concurrency attempts are enough for a batch, and no more waves
\* than that are counted.
LEMMA WavesCover ==
  /\ Waves \in Nat
  /\ \A k \in Nat : k * Concurrency <= BatchSize => k <= Waves
  /\ \A k \in Nat : k * Concurrency < BatchSize => k + 1 <= Waves
<1> DEFINE C == Concurrency
           B == BatchSize
<1>1. C \in Nat /\ C > 0 /\ B \in Nat /\ B > 0  BY WorkerAssumption
<1> HIDE DEF B, C
<1>2. ASSUME NEW a \in Nat, NEW c \in Nat, c > 0
      PROVE  a \div c \in Nat /\ c * (a \div c) <= a /\ a < c * (a \div c) + c
  BY <1>2, SMTT(30)
<1>3. DEFINE W == (B + C - 1) \div C
<1>4. B + C - 1 \in Nat  BY <1>1
<1>5. W \in Nat /\ B + C - 1 < C * W + C  BY <1>1, <1>2, <1>4
<1> HIDE DEF W
<1>6. ASSUME NEW k \in Nat, k * C < B  PROVE k + 1 <= W
  <2>1. B <= C * W
    <3>1. C * W \in Nat  BY <1>1, <1>5
    <3> QED  BY <1>1, <1>5, <3>1
  <2>2. k * C < W * C
    <3>1. C * W = W * C /\ k * C \in Nat /\ W * C \in Nat  BY <1>1, <1>5, SMTT(30)
    <3> QED  BY <1>1, <1>6, <2>1, <3>1
  <2>3. CASE W <= k
    <3>1. W * C <= k * C  BY <2>3, <1>1, <1>5, SMTT(30)
    <3>2. k * C \in Nat /\ W * C \in Nat  BY <1>1, <1>5, SMTT(30)
    <3> QED  BY <2>2, <3>1, <3>2
  <2> QED  BY <2>3, <1>5
<1>7. ASSUME NEW k \in Nat, k * C <= B  PROVE k <= W
  <2>1. CASE k = 0  BY <2>1, <1>5
  <2>2. CASE k > 0
    <3>1. k - 1 \in Nat  BY <2>2
    <3>2. (k - 1) * C = k * C - C /\ k * C \in Nat  BY <1>1, SMTT(30)
    <3>3. (k - 1) * C < B  BY <1>1, <1>7, <3>2
    <3> QED  BY <3>1, <3>3, <1>6
  <2> QED  BY <2>1, <2>2
<1>8. Waves = W  BY DEF Waves, W, B, C
<1> QED  BY <1>5, <1>6, <1>7, <1>8 DEF B, C

\* Whatever leaves no more attempts to be sent keeps the invariant.
LEMMA FewerLeft ==
  ASSUME WavesInv, WorkerShape', UNCHANGED age, Left' \subseteq Left,
         ~ hindered' => ~ hindered /\ stuck' = 0
  PROVE  WavesInv'
<1> SUFFICES ASSUME ~ hindered'  PROVE stuck' = 0 /\ InTime'
  BY DEF WavesInv
<1>1. stuck' = 0 /\ InTime  BY DEF WavesInv
<1>2. CASE Left = {} /\ age <= Waves  BY <1>1, <1>2 DEF InTime, Waves
<1>3. CASE Cardinality(Left) + age * Concurrency <= BatchSize
  <2>1. IsFiniteSet(Left) /\ Cardinality(Left) \in Nat  BY AttemptsFinite DEF Left
  <2>2. Left' \in SUBSET Left  OBVIOUS
  <2>3. Cardinality(Left') <= Cardinality(Left)  BY <2>1, <2>2, FS_Subset
  <2>4. Cardinality(Left') \in Nat  BY <2>1, <2>2, FS_Subset, FS_CardinalityType
  <2>5. age * Concurrency \in Nat
    <3>1. age \in Nat /\ Concurrency \in Nat  BY WorkerAssumption DEF WavesInv, WorkerShape
    <3> QED  BY <3>1, SMTT(30)
  <2>6. Cardinality(Left') + age * Concurrency <= BatchSize
    BY <1>3, <2>1, <2>3, <2>4, <2>5, WorkerAssumption
  <2> QED  BY <1>1, <2>6 DEF InTime
<1> QED  BY <1>1, <1>2, <1>3 DEF InTime

\* The turns of one attempt.
LEMMA MovesLeaveFewer ==
  ASSUME WorkerShape, NEW a \in Attempts, NEW from, NEW to \in AttemptStates, Move(a, from, to),
         to \in {"queued", "sending"} => from \subseteq {"queued", "sending"}
  PROVE  attempt' \in [Attempts -> AttemptStates] /\ Left' \subseteq Left
BY DEF Move, Left, AttemptsAt, WorkerShape

\* A claim begins a cycle with at most a batch.
LEMMA ClaimInTime ==
  ASSUME WavesInv, ClaimAttempts  PROVE WavesInv'
<1>1. CASE UNCHANGED <<attempt, age, hindered>>
  <2>1. UNCHANGED <<ending, stuck>>  BY DEF ClaimAttempts
  <2>2. WorkerShape' /\ Left' = Left  BY <1>1, <2>1 DEF WavesInv, WorkerShape, Left, AttemptsAt
  <2> QED  BY <1>1, <2>1, <2>2, FewerLeft DEF WavesInv
<1>2. CASE /\ \E n \in 0..BatchSize : attempt' = [a \in Attempts |-> IF a <= n THEN "queued" ELSE "none"]
           /\ age' = 0 /\ hindered' = (stuck > 0)
  <2>1. UNCHANGED <<ending, stuck>>  BY DEF ClaimAttempts
  <2>2. WorkerShape'  BY <1>2, <2>1 DEF WavesInv, WorkerShape, AttemptStates
  <2>3. Left' \in SUBSET Attempts  BY DEF Left, AttemptsAt
  <2>4. IsFiniteSet(Attempts) /\ Cardinality(Attempts) = BatchSize
    BY FS_Interval, WorkerAssumption DEF Attempts
  <2>5. Cardinality(Left') <= BatchSize  BY <2>3, <2>4, FS_Subset
  <2>6. Cardinality(Left') \in Nat  BY <2>3, <2>4, FS_Subset, FS_CardinalityType
  <2>7. 0 * Concurrency = 0  BY WorkerAssumption
  <2>8. InTime'  BY <1>2, <2>5, <2>6, <2>7 DEF InTime
  <2>9. ~ hindered' => stuck' = 0  BY <1>2, <2>1 DEF WavesInv, WorkerShape
  <2> QED  BY <2>2, <2>8, <2>9 DEF WavesInv
<1> QED  BY <1>1, <1>2 DEF ClaimAttempts

\* Time passes only when the slots are taken or nothing waits for one.
LEMMA TimeTakesAWave ==
  ASSUME WavesInv, SendTimeoutPasses  PROVE WavesInv'
<1> DEFINE sending == AttemptsAt({"sending"})
           queued == AttemptsAt({"queued"})
<1>1. WorkerShape'  BY DEF WavesInv, WorkerShape, SendTimeoutPasses, AttemptStates
<1>2. UNCHANGED <<ending, stuck, hindered>> /\ age' = age + 1 /\ ending = 0  BY DEF SendTimeoutPasses
<1> SUFFICES ASSUME ~ hindered  PROVE stuck' = 0 /\ InTime'
  BY <1>1, <1>2 DEF WavesInv
<1>3. stuck = 0 /\ stuck' = 0 /\ InTime /\ age \in Nat  BY <1>2 DEF WavesInv, WorkerShape
<1>4. Left' = queued
  BY DEF WavesInv, WorkerShape, SendTimeoutPasses, Left, AttemptsAt
<1>5. Left = sending \cup queued /\ sending \cap queued = {}  BY DEF Left, AttemptsAt
<1>6. Left # {}  BY <1>5 DEF SendTimeoutPasses, AttemptsAt
<1>7. IsFiniteSet(Left) /\ IsFiniteSet(sending) /\ IsFiniteSet(queued)
      /\ Cardinality(Left) \in Nat /\ Cardinality(sending) \in Nat /\ Cardinality(queued) \in Nat
  BY AttemptsFinite DEF Left
<1>8. Cardinality(Left) = Cardinality(sending) + Cardinality(queued)
  BY <1>5, <1>7, FS_Union, FS_EmptySet
<1>9. Cardinality(Left) > 0  BY <1>6, <1>7, FS_EmptySet
<1>10. Slots = Cardinality(sending)
  <2>1. AttemptsAt({"sending", "overdue"}) = sending  BY DEF SendTimeoutPasses, AttemptsAt
  <2> QED  BY <1>2, <1>3, <1>7, <2>1 DEF Slots
<1>11. Concurrency \in Nat /\ BatchSize \in Nat /\ age * Concurrency \in Nat
  <2>1. Concurrency \in Nat /\ BatchSize \in Nat  BY WorkerAssumption
  <2> QED  BY <1>3, <2>1, SMTT(30)
<1>12. Cardinality(Left) + age * Concurrency <= BatchSize  BY <1>3, <1>6 DEF InTime
<1>13. CASE queued = {}
  <2>1. age * Concurrency < BatchSize  BY <1>7, <1>9, <1>11, <1>12
  <2>2. age + 1 <= Waves  BY <1>3, <2>1, WavesCover
  <2> QED  BY <1>2, <1>3, <1>4, <1>13, <2>2 DEF InTime
<1>14. CASE queued # {}
  <2>1. Cardinality(sending) >= Concurrency  BY <1>10, <1>14 DEF SendTimeoutPasses
  <2>2. (age + 1) * Concurrency = age * Concurrency + Concurrency  BY <1>3, <1>11, SMTT(30)
  <2>3. Cardinality(queued) + (age + 1) * Concurrency <= BatchSize
    BY <1>7, <1>8, <1>11, <1>12, <2>1, <2>2
  <2> QED  BY <1>2, <1>3, <1>4, <2>3 DEF InTime
<1> QED  BY <1>13, <1>14

LEMMA WorkerStepInTime == WavesInv /\ [WorkerNext]_workerVars => WavesInv'
<1> SUFFICES ASSUME WavesInv, [WorkerNext]_workerVars  PROVE WavesInv'
  OBVIOUS
<1>0. WorkerShape  BY DEF WavesInv
<1>1. ASSUME NEW a \in Attempts, AttemptStep(a)  PROVE WavesInv'
  <2>1. age' = age
    BY <1>1 DEF AttemptStep, TakeSlot, SendReturns, GiveUpSend, CompleteAttempt
  <2>2. \/ Move(a, {"queued"}, "sending")
        \/ \E from \in {{"queued"}, {"sending", "overdue"}} : Move(a, from, "completing")
        \/ Move(a, {"completing"}, "done")
    BY <1>1 DEF AttemptStep, TakeSlot, SendReturns, GiveUpSend, CompleteAttempt
  <2>3. attempt' \in [Attempts -> AttemptStates] /\ Left' \subseteq Left
    BY <1>0, <2>2, MovesLeaveFewer DEF AttemptStates
  <2>4. ending' \in Nat /\ stuck' \in Nat /\ hindered' \in BOOLEAN /\ (~ hindered' => ~ hindered /\ stuck' = stuck)
    <3>1. CASE GiveUpSend(a)
      <4>1. \/ ending' = ending + 1 /\ UNCHANGED <<stuck, hindered>>
            \/ stuck' = stuck + 1 /\ hindered' = TRUE /\ UNCHANGED ending
        BY <3>1 DEF GiveUpSend
      <4>2. CASE ending' = ending + 1 /\ UNCHANGED <<stuck, hindered>>
        BY <1>0, <4>2 DEF WorkerShape
      <4>3. CASE stuck' = stuck + 1 /\ hindered' = TRUE /\ UNCHANGED ending
        BY <1>0, <4>3 DEF WorkerShape
      <4> QED  BY <4>1, <4>2, <4>3
    <3>2. CASE TakeSlot(a) \/ SendReturns(a) \/ CompleteAttempt(a)
      BY <1>0, <3>2 DEF TakeSlot, SendReturns, CompleteAttempt, WorkerShape
    <3> QED  BY <1>1, <3>1, <3>2 DEF AttemptStep
  <2>5. WorkerShape'  BY <1>0, <2>1, <2>3, <2>4 DEF WorkerShape
  <2> QED  BY <2>1, <2>3, <2>4, <2>5, FewerLeft DEF WavesInv
<1>2. CASE EndCycle
  <2>1. attempt' = [a \in Attempts |-> "none"] /\ UNCHANGED <<ending, stuck, age, hindered>>
    BY <1>2 DEF EndCycle
  <2>2. WorkerShape' /\ Left' = {}  BY <1>0, <2>1 DEF WorkerShape, AttemptStates, Left, AttemptsAt
  <2> QED  BY <2>1, <2>2, FewerLeft DEF WavesInv
<1>3. CASE SendEnds \/ StuckEnds
  <2>1. UNCHANGED <<attempt, age, hindered>>  BY <1>3 DEF SendEnds, StuckEnds
  <2>2. WorkerShape' /\ (stuck = 0 => stuck' = 0)
    BY <1>0, <1>3 DEF SendEnds, StuckEnds, WorkerShape
  <2>3. Left' = Left  BY <2>1 DEF Left, AttemptsAt
  <2> QED  BY <2>1, <2>2, <2>3, FewerLeft DEF WavesInv
<1>4. CASE UNCHANGED <<attempt, ending, stuck, age, hindered>>
  <2>1. WorkerShape' /\ Left' = Left  BY <1>0, <1>4 DEF WorkerShape, Left, AttemptsAt
  <2> QED  BY <1>4, <2>1, FewerLeft DEF WavesInv
<1>5. CASE UNCHANGED workerVars \/ Wake \/ Ticked \/ Woken \/ EndLoop \/ Stop \/ StopReturns
  BY <1>4, <1>5 DEF workerVars, Wake, Ticked, Woken, EndLoop, Stop, StopReturns
<1> QED  BY <1>1, <1>2, <1>3, <1>5, ClaimInTime, TimeTakesAWave DEF WorkerNext

\* For every batch size and any number of slots: unless a send that ignores
\* its context takes a slot away, all attempts of a claim are over after
\* Waves send timeouts, which is what the claim is made to last
\* (digest_delivery_worker.go: runCycle, sendBounded).
THEOREM ClaimOutlastsItsWaves == WorkerSpec => []CompletesWithinClaim
<1>1. WorkerInit => WavesInv
  <2> SUFFICES ASSUME WorkerInit  PROVE WavesInv  OBVIOUS
  <2>1. WorkerShape /\ Left = {} /\ stuck = 0 /\ age = 0
    BY DEF WorkerInit, WorkerShape, AttemptStates, Left, AttemptsAt
  <2> QED  BY <2>1, WavesCover DEF WavesInv, InTime
<1>2. WavesInv => CompletesWithinClaim
  <2> SUFFICES ASSUME WavesInv, ~ hindered  PROVE age <= Waves
    BY WavesCover DEF CompletesWithinClaim, WavesInv, WorkerShape
  <2>1. age \in Nat /\ InTime  BY DEF WavesInv, WorkerShape
  <2>2. CASE Cardinality(Left) + age * Concurrency <= BatchSize
    <3>1. Cardinality(Left) \in Nat  BY AttemptsFinite DEF Left
    <3>2. Concurrency \in Nat /\ BatchSize \in Nat  BY WorkerAssumption
    <3>3. age * Concurrency \in Nat  BY <2>1, <3>2, SMTT(30)
    <3>4. age * Concurrency <= BatchSize  BY <2>2, <3>1, <3>2, <3>3
    <3> QED  BY <2>1, <3>4, WavesCover
  <2> QED  BY <2>1, <2>2 DEF InTime
<1> QED  BY <1>1, <1>2, WorkerStepInTime, PTL DEF WorkerSpec

-----------------------------------------------------------------------------
(* The configuration.                                                      *)

FileFields == {"src", "key", "ch", "llm", "rest"}
RequestFields == {"kind", "val", "at", "body", "orig", "rev"}
SourceKinds == {"toggle", "edit", "create", "delete"}

\* A source that is not there has no reference to a secret.
Filed(f) == f = [s \in FileFields |-> f[s]] /\ (f.src = "absent" => f.key # EnvRef)
Untouched(kind, f, g) == \A s \in FileFields \ Touches(kind) : f[s] = g[s]

\* A request and the locks it holds; what it is about to write differs from
\* the live configuration in what the request is about; and what it would
\* roll back to does, while the revision is its own.
RequestFine(c, r) ==
  /\ r = [x \in RequestFields |-> r[x]]
  /\ r.at \in {"idle", "lock", "check", "save", "rename", "snapshot", "commit", "activate",
               "undo", "restore", "switch"}
  /\ r.at \in {"check", "switch"} => r.kind \notin Locking
  /\ r.kind = "none" => r.at \in {"idle", "save"}
  /\ r.at \in {"rename", "restore"} <=> cfgMu = c
  /\ r.kind \in Locking /\ r.at \notin {"idle", "lock"} <=> srcMu = c
  /\ r.at \in {"activate", "undo", "restore"} => r.kind \in SourceKinds
  /\ r.at \in {"rename", "restore"} => Filed(r.body) /\ Untouched(r.kind, r.body, held)
  /\ r.at = "rename" /\ r.kind \in SourceKinds => r.orig = held /\ (r.kind = "create" => held.src = "absent")
  /\ r.at = "rename" /\ r.kind \notin SourceKinds => r.body.src = held.src
  /\ r.at = "save" /\ r.kind \in {"toggle", "edit", "put"} => Filed(r.body)
  /\ r.at = "save" /\ r.kind = "put" => r.body.src = held.src
  /\ r.at \in {"snapshot", "commit"} => Filed(r.body) /\ r.kind = "reload"
  /\ r.at = "commit" => r.body.src = held.src
  /\ r.at \in {"activate", "undo"} =>
       /\ r.body.src = held.src /\ Filed(r.orig) /\ (r.kind = "create" => r.orig.src = "absent")
       /\ r.rev \in Nat /\ r.rev <= revision
       /\ r.rev = revision => Untouched(r.kind, r.orig, held)

\* What the engine runs, as far as the request that holds the lock of the
\* sources has got.
Follows(c, r) ==
  srcMu = c /\ ~ mustRestart =>
    /\ r.at \in {"save", "rename", "snapshot", "commit"} => running = (held.src = "on")
    /\ r.at \in {"activate", "undo"} => running = (r.orig.src = "on")
    /\ r.at = "restore" => running = (r.body.src = "on")

ConfigInv ==
  /\ Filed(file) /\ Filed(held) /\ revision \in Nat
  /\ request = [c \in Clients |-> request[c]]
  /\ \A c \in Clients : RequestFine(c, request[c]) /\ Follows(c, request[c])
  /\ SourceFollowsConfig

\* The secret of the file is read as what it expands to, and written back
\* as it was.
LEMMA LiveFiled ==
  ASSUME NEW f, Filed(f)
  PROVE  /\ Live(f) = [s \in FileFields |-> Live(f)[s]]
         /\ \A s \in FileFields \ {"key"} : Live(f)[s] = f[s]
         /\ Live(f).key = Expand(f.key) /\ Live(f).key # EnvRef
<1>1. f = [s \in FileFields |-> f[s]]  BY DEF Filed
<1>2. PICK k : k = Expand(f.key)  OBVIOUS
<1>3. Live(f) = [f EXCEPT !.key = k]  BY <1>2 DEF Live
<1>4. /\ Live(f) = [s \in FileFields |-> Live(f)[s]] /\ Live(f).key = k
      /\ \A s \in FileFields \ {"key"} : Live(f)[s] = f[s]
  BY <1>1, <1>3 DEF FileFields
<1>5. Expand(f.key) # EnvRef  BY ConfigAssumption DEF Expand
<1> QED  BY <1>2, <1>4, <1>5

LEMMA PreservedFiled ==
  ASSUME NEW f, Filed(f), NEW g, Filed(g)
  PROVE  /\ Filed(Preserve(f, g))
         /\ \A s \in FileFields \ {"key"} : Preserve(f, g)[s] = f[s]
         /\ f.src = g.src /\ f.key = Expand(g.key) => Preserve(f, g).key = g.key
<1>1. CASE f.src # "absent" /\ g.src # "absent" /\ g.key = EnvRef /\ f.key = EnvValue
  <2>1. PICK p : p = [f EXCEPT !.key = EnvRef]  OBVIOUS
  <2>2. p = Preserve(f, g)  BY <1>1, <2>1 DEF Preserve
  <2>3. /\ p = [s \in FileFields |-> p[s]] /\ p.key = EnvRef
        /\ \A s \in FileFields \ {"key"} : p[s] = f[s]
    BY <2>1 DEF FileFields, Filed
  <2>4. p.src = f.src  BY <2>3 DEF FileFields
  <2> QED  BY <1>1, <2>2, <2>3, <2>4 DEF Filed
<1>2. CASE ~ (f.src # "absent" /\ g.src # "absent" /\ g.key = EnvRef /\ f.key = EnvValue)
  <2>1. Preserve(f, g) = f  BY <1>2 DEF Preserve
  <2>2. f.src = g.src /\ f.key = Expand(g.key) => f.key = g.key  BY <1>2 DEF Expand, Filed
  <2> QED  BY <2>1, <2>2
<1> QED  BY <1>1, <1>2

\* One request goes on to r, and the others find what they relied on.
LEMMA OneRequest ==
  ASSUME ConfigInv, NEW c \in Clients, NEW r, request' = [request EXCEPT ![c] = r],
         \A d \in Clients \ {c} : (cfgMu' = d <=> cfgMu = d) /\ (srcMu' = d <=> srcMu = d),
         file' = file \/ file' = held',
         \/ held' = held /\ revision' = revision
         \/ /\ Filed(held') /\ revision' = revision + 1 /\ cfgMu \in {c, Nobody}
            /\ held'.src = held.src \/ srcMu = c,
         running' = running \/ srcMu = c, mustRestart => mustRestart',
         RequestFine(c, r)', Follows(c, r)', SourceFollowsConfig'
  PROVE  ConfigInv'
<1>1. /\ request' = [d \in Clients |-> request'[d]] /\ request'[c] = r
      /\ \A d \in Clients : d # c => request'[d] = request[d]
  BY DEF ConfigInv
<1>2. Filed(file)' /\ Filed(held)' /\ revision' \in Nat  BY DEF ConfigInv, Filed
<1>3. ASSUME NEW d \in Clients, d # c
      PROVE  RequestFine(d, request[d])' /\ Follows(d, request[d])'
  <2>1. PICK q : q = request[d]  OBVIOUS
  <2>2. RequestFine(d, q) /\ Follows(d, q) /\ request'[d] = q  BY <1>1, <1>3, <2>1 DEF ConfigInv
  <2>3. (cfgMu' = d <=> cfgMu = d) /\ (srcMu' = d <=> srcMu = d)  BY <1>3
  <2>4. srcMu = d => held'.src = held.src /\ running' = running  BY <1>3
  <2>5. cfgMu = d => held' = held /\ revision' = revision  BY <1>3, ConfigAssumption
  <2>6. q.at \in {"rename", "restore"} => held' = held  BY <2>2, <2>5 DEF RequestFine
  <2>7. q.at \in {"save", "commit", "activate", "undo"} /\ q.kind \in SourceKinds \cup {"put", "reload"} => held'.src = held.src
    BY <2>2, <2>4 DEF RequestFine, SourceKinds, Locking
  <2>8. revision \in Nat /\ revision' \in Nat /\ revision <= revision' /\ (revision' = revision => held' = held)
    BY DEF ConfigInv
  <2>9. q.at = "commit" => held'.src = held.src  BY <2>2, <2>7 DEF RequestFine
  <2>10. RequestFine(d, q)'
    <3>1. q.at \in {"activate", "undo"} => q.kind \in SourceKinds  BY <2>2 DEF RequestFine
    <3>2. q.at \in {"activate", "undo"} =>
            /\ q.body.src = held'.src /\ Filed(q.orig) /\ (q.kind = "create" => q.orig.src = "absent")
            /\ q.rev \in Nat /\ q.rev <= revision'
            /\ q.rev = revision' => Untouched(q.kind, q.orig, held')
      BY <2>2, <2>7, <2>8, <3>1 DEF RequestFine
    <3> QED  BY <2>2, <2>3, <2>6, <2>7, <2>9, <3>2 DEF RequestFine, Filed, Untouched
  <2>11. Follows(d, q)'
    <3>1. srcMu = d /\ ~ mustRestart' => ~ mustRestart  OBVIOUS
    <3>2. q.at = "restore" => running' = running \/ srcMu # d  BY <2>4
    <3> QED  BY <2>2, <2>3, <2>4, <3>1 DEF Follows
  <2> QED  BY <2>1, <2>2, <2>10, <2>11 DEF RequestFine, Follows
<1>4. ASSUME NEW d \in Clients  PROVE RequestFine(d, request[d])' /\ Follows(d, request[d])'
  <2>1. CASE d = c  BY <1>1, <2>1 DEF RequestFine, Follows
  <2> QED  BY <1>3, <2>1
<1> QED  BY <1>1, <1>2, <1>4 DEF ConfigInv

\* The reply: nothing is left of the request.
LEMMA Replied ==
  ASSUME ConfigInv, NEW c \in Clients, NEW b \in BOOLEAN, Reply(c, b),
         cfgMu' # c, \A d \in Clients \ {c} : cfgMu' = d <=> cfgMu = d,
         file' = file \/ file' = held',
         \/ held' = held /\ revision' = revision
         \/ /\ Filed(held') /\ revision' = revision + 1 /\ cfgMu \in {c, Nobody}
            /\ held'.src = held.src \/ srcMu = c,
         running' = running \/ srcMu = c,
         srcMu \in {c, Nobody} /\ ~ mustRestart /\ ~ b => running' = (held'.src = "on")
  PROVE  ConfigInv'
<1>1. request' = [request EXCEPT ![c] = Idle]  BY DEF Reply
<1>2. /\ srcMu' = IF srcMu = c THEN Nobody ELSE srcMu
      /\ mustRestart' = (mustRestart \/ b)
  BY DEF Reply
<1>3. srcMu' # c /\ \A d \in Clients \ {c} : srcMu' = d <=> srcMu = d  BY <1>2, ConfigAssumption
<1>4. mustRestart => mustRestart'  BY <1>2
<1>5. srcMu' = Nobody /\ ~ mustRestart' => srcMu \in {c, Nobody} /\ ~ mustRestart /\ ~ b
  BY <1>2, ConfigAssumption
<1>6. SourceFollowsConfig'  BY <1>5 DEF SourceFollowsConfig
<1>7. Idle = [x \in RequestFields |-> Idle[x]] /\ Idle.at = "idle"  BY DEF Idle, RequestFields
<1>8. RequestFine(c, Idle)'  BY <1>3, <1>7 DEF RequestFine
<1>9. Follows(c, Idle)'  BY <1>3 DEF Follows
<1> HIDE DEF Idle
<1> QED  BY OneRequest, <1>1, <1>3, <1>4, <1>6, <1>8, <1>9

\* A reply that leaves everything else as it was is one of a request whose
\* source has not been touched, or asks for a restart.
LEMMA Answered ==
  ASSUME ConfigInv, NEW c \in Clients, NEW b \in BOOLEAN, Reply(c, b), NoIO, running' = running,
         request[c].at \notin {"activate", "undo", "rename", "restore"} \/ (b /\ cfgMu # c)
  PROVE  ConfigInv'
<1>1. RequestFine(c, request[c]) /\ Follows(c, request[c])  BY DEF ConfigInv
<1>2. cfgMu # c  BY <1>1 DEF RequestFine
<1>3. srcMu \in {c, Nobody} /\ ~ mustRestart /\ ~ b => running = (held.src = "on")
  <2>1. CASE srcMu = Nobody  BY <2>1 DEF ConfigInv, SourceFollowsConfig
  <2>2. CASE srcMu = c  BY <1>1, <2>2 DEF RequestFine, Follows
  <2> QED  BY <2>1, <2>2
<1> QED  BY <1>2, <1>3, Replied DEF NoIO

\* What is about to be written is a configuration that differs from the live
\* one in nothing the request is not about.
LEMMA Persisted ==
  ASSUME ConfigInv, NEW c \in Clients, cfgMu = Nobody, NEW next, Filed(next), NEW at,
         Persist(c, next, at), running' = running, NEW kind, kind = request[c].kind,
         \/ at = "rename" /\ request[c].at = "save"
         \/ at = "restore" /\ request[c].at = "undo" /\ kind = "create" /\ next.src = "absent",
         \A s \in FileFields \ (Touches(kind) \cup {"key"}) : next[s] = held[s],
         "key" \notin Touches(kind) => next.key = Expand(held.key),
         kind \notin SourceKinds => next.src = held.src, kind # "none",
         kind = "create" /\ at = "rename" => held.src = "absent"
  PROVE  ConfigInv'
<1>1. CASE Reply(c, at = "restore") /\ NoIO
  <2>1. CASE at = "rename"  BY <1>1, <2>1, Answered
  <2>2. CASE at = "restore"  BY <1>1, <2>2, Answered, ConfigAssumption
  <2> QED  BY <2>1, <2>2
<1>2. CASE ~ (Reply(c, at = "restore") /\ NoIO)
  <2>1. PICK d : d = Preserve(next, held)  OBVIOUS
  <2>2. PICK q : q = request[c]  OBVIOUS
  <2>3. PICK h : h = held  OBVIOUS
  <2>4. PICK r : r = [q EXCEPT !.body = d, !.at = at, !.orig = h]  OBVIOUS
  <2>5. /\ cfgMu' = c /\ UNCHANGED <<file, held, revision, srcMu, mustRestart>>
        /\ request' = [request EXCEPT ![c] = r]
    BY <1>2, <2>1, <2>2, <2>3, <2>4 DEF Persist, ConfigInv
  <2>6. RequestFine(c, q) /\ Follows(c, q)  BY <2>2 DEF ConfigInv
  <2>7. /\ r = [x \in RequestFields |-> r[x]] /\ r.kind = q.kind /\ r.at = at
        /\ r.body = d /\ r.orig = h
    BY <2>4, <2>6 DEF RequestFine, RequestFields
  <2>8. Filed(d) /\ Untouched(kind, d, held) /\ d.src = next.src
    <3>1. Filed(held)  BY DEF ConfigInv
    <3>2. /\ Filed(d) /\ \A s \in FileFields \ {"key"} : d[s] = next[s]
          /\ next.src = held.src /\ next.key = Expand(held.key) => d.key = held.key
      BY <2>1, <3>1, PreservedFiled
    <3>3. "key" \notin Touches(kind) => next.src = held.src
      BY DEF FileFields, Touches
    <3>4. "key" \notin Touches(kind) => d.key = held.key  BY <3>2, <3>3
    <3>5. Untouched(kind, d, held)  BY <3>2, <3>4 DEF Untouched, FileFields
    <3> QED  BY <3>2, <3>5 DEF FileFields
  <2>9. RequestFine(c, r)'
    <3>1. kind \in SourceKinds => r.kind \in Locking  BY <2>2, <2>7 DEF SourceKinds, Locking
    <3> QED  BY <2>2, <2>3, <2>5, <2>6, <2>7, <2>8, <3>1 DEF RequestFine, Filed, Untouched, SourceKinds
  <2>10. Follows(c, r)'
    <3>1. at = "restore" /\ srcMu = c /\ ~ mustRestart => running = (next.src = "on")
      BY <2>2, <2>6 DEF RequestFine, Follows
    <3> QED  BY <2>2, <2>5, <2>6, <2>7, <2>8, <3>1 DEF Follows
  <2>11. SourceFollowsConfig'  BY <2>5 DEF ConfigInv, SourceFollowsConfig
  <2>12. \A e \in Clients \ {c} : (cfgMu' = e <=> cfgMu = e) /\ (srcMu' = e <=> srcMu = e)
    BY <2>5, ConfigAssumption
  <2> QED  BY <2>5, <2>9, <2>10, <2>11, <2>12, OneRequest
<1> QED  BY <1>1, <1>2

\* A request goes on, and nothing else happens.
LEMMA Moved ==
  ASSUME ConfigInv, NEW c \in Clients, NEW r, request' = [request EXCEPT ![c] = r],
         NoIO, running' = running, mustRestart' = mustRestart,
         srcMu' = srcMu \/ (srcMu = Nobody /\ srcMu' = c),
         RequestFine(c, r)', Follows(c, r)'
  PROVE  ConfigInv'
<1>1. \A d \in Clients \ {c} : (cfgMu' = d <=> cfgMu = d) /\ (srcMu' = d <=> srcMu = d)
  BY ConfigAssumption DEF NoIO
<1>2. SourceFollowsConfig'
  BY ConfigAssumption DEF NoIO, ConfigInv, SourceFollowsConfig
<1> QED  BY <1>1, <1>2, OneRequest DEF NoIO

\* A handler takes the lock of the sources.
LEMMA Locked ==
  ASSUME ConfigInv, NEW c \in Clients, NEW kind, request[c].kind = kind, request[c].at = "lock",
         srcMu = Nobody, srcMu' = c, NoIO, running' = running, mustRestart' = mustRestart,
         kind \in Locking, NEW body, NEW at,
         \/ request' = [request EXCEPT ![c] = [@ EXCEPT !.body = body, !.at = at]]
         \/ request' = [request EXCEPT ![c] = [@ EXCEPT !.at = at]] /\ kind \in {"create", "delete"},
         at = "save" \/ (at = "snapshot" /\ kind = "reload" /\ Filed(body)),
         at = "save" /\ kind \in {"toggle", "edit", "put"} => Filed(body),
         at = "save" /\ kind = "put" => body.src = held.src
  PROVE  ConfigInv'
<1>1. PICK q : q = request[c]  OBVIOUS
<1>2. RequestFine(c, q)  BY <1>1 DEF ConfigInv
<1>3. PICK r : /\ request' = [request EXCEPT ![c] = r]
               /\ \/ r = [q EXCEPT !.body = body, !.at = at]
                  \/ r = [q EXCEPT !.at = at] /\ kind \in {"create", "delete"}
  BY <1>1
<1>4. /\ r = [x \in RequestFields |-> r[x]] /\ r.kind = kind /\ r.at = at
      /\ kind \notin {"create", "delete"} => r.body = body
      /\ request' = [request EXCEPT ![c] = r]
  <2>1. q = [x \in RequestFields |-> q[x]] /\ q.kind = kind  BY <1>1, <1>2 DEF RequestFine
  <2> QED  BY <1>3, <2>1 DEF RequestFields
<1>5. RequestFine(c, r)'
  <2>1. q.at = "lock" /\ q.kind = kind /\ r.at \in {"save", "snapshot"}  BY <1>1, <1>4
  <2>2. cfgMu' = cfgMu /\ held' = held /\ srcMu' = c  BY DEF NoIO
  <2>3. cfgMu # c  BY <1>2, <2>1 DEF RequestFine
  <2>4. r.at = "save" /\ r.kind \in {"toggle", "edit", "put"} => Filed(r.body)  BY <1>4
  <2>5. r.at = "save" /\ r.kind = "put" => r.body.src = held.src  BY <1>4
  <2>6. r.at = "snapshot" => Filed(r.body) /\ r.kind = "reload"  BY <1>4
  <2>7. r = [x \in RequestFields |-> r[x]] /\ r.kind \in Locking  BY <1>4
  <2> QED  BY ONLY <2>1, <2>2, <2>3, <2>4, <2>5, <2>6, <2>7 DEF RequestFine, Filed
<1>6. Follows(c, r)'
  BY <1>4, ConfigAssumption DEF Follows, ConfigInv, SourceFollowsConfig, NoIO
<1> QED  BY <1>4, <1>5, <1>6, Moved

LEMMA BeginKeeps ==
  ASSUME ConfigInv, NEW c \in Clients, NEW body, Filed(body), Accept(c, body), NoIO,
         running' = running, srcMu = Nobody,
         request[c].at = "lock", request[c].kind \in {"toggle", "edit"}
  PROVE  ConfigInv'
<1>1. CASE Reply(c, FALSE)  BY <1>1, Answered
<1>2. CASE ~ Reply(c, FALSE)
  BY <1>2, Locked DEF Accept, Locking
<1> QED  BY <1>1, <1>2

LEMMA BeginSteps ==
  ASSUME ConfigInv, NEW c \in Clients,
         BeginToggle(c) \/ BeginUpdate(c) \/ BeginCreate(c) \/ BeginDelete(c) \/ BeginPut(c)
         \/ PreviewReload(c)
  PROVE  ConfigInv'
<1>0. Filed(held) /\ Filed(file)  BY DEF ConfigInv
<1> DEFINE v == request[c].val
<1>1. CASE BeginToggle(c)
  <2>1. PICK q : q = [Live(held) EXCEPT !.src = v]  OBVIOUS
  <2>2. Filed(q)  BY <1>0, <2>1, LiveFiled DEF Filed, FileFields
  <2> QED  BY <1>1, <2>1, <2>2, BeginKeeps DEF BeginToggle, RequestAt, World
<1>2. CASE BeginUpdate(c)
  <2>1. PICK k : k = PreserveRedacted(v, Live(held).key)  OBVIOUS
  <2>2. PICK q : q = [Live(held) EXCEPT !.key = k]  OBVIOUS
  <2>3. q = [s \in FileFields |-> q[s]] /\ q.src = held.src
    BY <1>0, <2>2, LiveFiled DEF FileFields
  <2>4. Accept(c, q) /\ NoIO /\ running' = running /\ srcMu = Nobody
    BY <1>2, <2>1, <2>2 DEF BeginUpdate, World
  <2>5. request[c].at = "lock" /\ request[c].kind = "edit"  BY <1>2 DEF BeginUpdate, RequestAt
  <2>6. CASE held.src = "absent"
    BY <2>4, <2>5, <2>6, Answered DEF Accept
  <2>7. CASE held.src # "absent"
    BY <2>3, <2>4, <2>5, <2>7, BeginKeeps DEF Filed
  <2> QED  BY <2>6, <2>7
<1>3. CASE BeginCreate(c)
  BY <1>3, Answered, Locked DEF BeginCreate, RequestAt, Goto, World, Locking
<1>4. CASE BeginDelete(c)
  BY <1>4, Locked DEF BeginDelete, RequestAt, Goto, World, Locking
<1>5. CASE BeginPut(c)
  <2>1. PICK q : q = [Live(held) EXCEPT !.ch = v.ch, !.llm = v.llm, !.rest = v.rest]  OBVIOUS
  <2>2. Filed(q) /\ q.src = held.src
    BY <1>0, <2>1, LiveFiled DEF Filed, FileFields
  <2>3. /\ request[c].kind = "put" /\ request[c].at = "lock" /\ srcMu = Nobody /\ NoIO
        /\ running' = running
    BY <1>5 DEF BeginPut, RequestAt, World
  <2>4. \/ /\ srcMu' = c /\ mustRestart' = mustRestart
           /\ request' = [request EXCEPT ![c] = [@ EXCEPT !.at = "save", !.body = q]]
        \/ Reply(c, FALSE)
    BY <1>5, <2>1 DEF BeginPut
  <2>5. [request[c] EXCEPT !.at = "save", !.body = q] = [request[c] EXCEPT !.body = q, !.at = "save"]
    OBVIOUS
  <2>6. CASE Reply(c, FALSE)  BY <2>3, <2>6, Answered
  <2>7. CASE ~ Reply(c, FALSE)
    <3>1. request' = [request EXCEPT ![c] = [@ EXCEPT !.body = q, !.at = "save"]]
      BY <2>4, <2>5, <2>7
    <3> QED  BY <2>2, <2>3, <2>4, <2>7, <3>1, Locked DEF Locking
  <2> QED  BY <2>6, <2>7
<1>6. CASE PreviewReload(c)
  BY <1>0, <1>6, Answered, Locked DEF PreviewReload, RequestAt, World, Locking
<1> QED  BY <1>1, <1>2, <1>3, <1>4, <1>5, <1>6

\* The saves, up to the rename.
LEMMA SaveSteps ==
  ASSUME ConfigInv, NEW c \in Clients,
         \/ UpdateSourceWithRuntime(c) \/ AddSource(c) \/ RemoveSourceWithRuntime(c) \/ Update(c)
         \/ UpdateKey(c) \/ UpdateLLM(c) \/ UpdateSection(c) \/ UpdateChannel(c) \/ AddChannel(c)
         \/ RemoveSource(c)
  PROVE  ConfigInv'
<1>0. Filed(held) /\ RequestFine(c, request[c])  BY DEF ConfigInv
<1>l. /\ Live(held) = [s \in FileFields |-> Live(held)[s]]
      /\ \A s \in FileFields \ {"key"} : Live(held)[s] = held[s]
      /\ Live(held).key = Expand(held.key) /\ Live(held).key # EnvRef
  BY <1>0, LiveFiled
<1>k. EnvValue # EnvRef /\ NoSecret # EnvRef  BY ConfigAssumption
<1> DEFINE v == request[c].val
<1>1. CASE UpdateSourceWithRuntime(c)
  <2>1. request[c].kind \in {"toggle", "edit"} /\ request[c].at = "save" /\ cfgMu = Nobody
        /\ running' = running
    BY <1>1 DEF UpdateSourceWithRuntime, RequestAt, World
  <2>2. PICK b : b = request[c].body  OBVIOUS
  <2>3. PICK n : n = [Live(held) EXCEPT !.src = b.src, !.key = b.key]  OBVIOUS
  <2>4. /\ n = [s \in FileFields |-> n[s]] /\ n.src = b.src /\ n.key = b.key
        /\ \A s \in FileFields \ {"src", "key"} : n[s] = held[s]
    BY <1>l, <2>3 DEF FileFields
  <2>5. Filed(n)  BY <1>0, <2>1, <2>2, <2>4 DEF RequestFine, Filed
  <2>6. Persist(c, n, "rename") \/ (Reply(c, FALSE) /\ NoIO)
    BY <1>1, <2>2, <2>3 DEF UpdateSourceWithRuntime
  <2>7. CASE Reply(c, FALSE) /\ NoIO  BY <2>1, <2>7, Answered
  <2>8. CASE Persist(c, n, "rename")
    BY <2>1, <2>4, <2>5, <2>8, Persisted DEF Touches, SourceKinds
  <2> QED  BY <2>6, <2>7, <2>8
<1>2. CASE AddSource(c)
  <2>1. request[c].kind = "create" /\ request[c].at = "save" /\ cfgMu = Nobody /\ running' = running
    BY <1>2 DEF AddSource, RequestAt, World
  <2>3. PICK n : n = [Live(held) EXCEPT !.src = v, !.key = EnvValue]  OBVIOUS
  <2>4. /\ n = [s \in FileFields |-> n[s]] /\ n.src = v /\ n.key = EnvValue
        /\ \A s \in FileFields \ {"src", "key"} : n[s] = held[s]
    BY <1>l, <2>3 DEF FileFields
  <2>5. Filed(n)  BY <1>k, <2>4 DEF Filed
  <2>6. (Persist(c, n, "rename") /\ held.src = "absent") \/ (Reply(c, FALSE) /\ NoIO)
    BY <1>2, <2>3 DEF AddSource
  <2>7. CASE Reply(c, FALSE) /\ NoIO  BY <2>1, <2>7, Answered
  <2>8. CASE Persist(c, n, "rename") /\ held.src = "absent"
    BY <2>1, <2>4, <2>5, <2>8, Persisted DEF Touches, SourceKinds
  <2> QED  BY <2>6, <2>7, <2>8
<1>3. CASE RemoveSourceWithRuntime(c) \/ RemoveSource(c)
  <2>3. PICK n : n = [Live(held) EXCEPT !.src = "absent", !.key = NoSecret]  OBVIOUS
  <2>4. /\ n = [s \in FileFields |-> n[s]] /\ n.src = "absent" /\ n.key = NoSecret
        /\ \A s \in FileFields \ {"src", "key"} : n[s] = held[s]
    BY <1>l, <2>3 DEF FileFields
  <2>5. Filed(n)  BY <1>k, <2>4 DEF Filed
  <2>6. CASE RemoveSourceWithRuntime(c)
    <3>1. request[c].kind = "delete" /\ request[c].at = "save" /\ cfgMu = Nobody /\ running' = running
      BY <2>6 DEF RemoveSourceWithRuntime, RequestAt, World
    <3>2. Persist(c, n, "rename") \/ (Reply(c, FALSE) /\ NoIO)
      BY <2>3, <2>6 DEF RemoveSourceWithRuntime, WithoutSource
    <3>3. CASE Reply(c, FALSE) /\ NoIO  BY <3>1, <3>3, Answered
    <3>4. CASE Persist(c, n, "rename")
      BY <2>4, <2>5, <3>1, <3>4, Persisted DEF Touches, SourceKinds
    <3> QED  BY <3>2, <3>3, <3>4
  <2>7. CASE RemoveSource(c)
    <3>1. request[c].kind = "create" /\ request[c].at = "undo" /\ cfgMu = Nobody /\ running' = running
      BY <2>7 DEF RemoveSource, RequestAt, World
    <3>2. Persist(c, n, "restore") \/ (Reply(c, TRUE) /\ NoIO)
      BY <2>3, <2>7 DEF RemoveSource, WithoutSource
    <3>3. CASE Reply(c, TRUE) /\ NoIO  BY <3>1, <3>3, Answered, ConfigAssumption DEF NoIO
    <3>4. CASE Persist(c, n, "restore")
      BY <2>4, <2>5, <3>1, <3>4, Persisted DEF Touches, SourceKinds
    <3> QED  BY <3>2, <3>3, <3>4
  <2> QED  BY <1>3, <2>6, <2>7
<1>4. CASE Update(c)
  <2>1. /\ request[c].kind = "put" /\ request[c].at = "save" /\ cfgMu = Nobody /\ running' = running
        /\ Persist(c, request[c].body, "rename")
    BY <1>4 DEF Update, RequestAt, World
  <2>2. PICK n : n = request[c].body  OBVIOUS
  <2>3. Filed(n) /\ n.src = held.src  BY <1>0, <2>1, <2>2 DEF RequestFine
  <2> QED  BY <2>1, <2>2, <2>3, Persisted DEF Touches, SourceKinds, FileFields
<1>5. CASE UpdateKey(c)
  <2>1. request[c].kind \in {"sourcekey", "llmkey"} /\ request[c].at = "save" /\ cfgMu = Nobody
        /\ running' = running
    BY <1>5 DEF UpdateKey, RequestAt, World
  <2>2. PICK n : n = [Live(held) EXCEPT !.llm = v]  OBVIOUS
  <2>3. PICK m : m = [Live(held) EXCEPT !.key = v]  OBVIOUS
  <2>4. /\ n = [s \in FileFields |-> n[s]]
        /\ \A s \in FileFields \ {"llm"} : n[s] = Live(held)[s]
        /\ m = [s \in FileFields |-> m[s]]
        /\ \A s \in FileFields \ {"key"} : m[s] = held[s]
    BY <1>l, <2>2, <2>3 DEF FileFields
  <2>5. Filed(n)  BY <1>l, <2>4 DEF Filed, FileFields
  <2>6. \/ request[c].kind = "llmkey" /\ Persist(c, n, "rename")
        \/ request[c].kind = "sourcekey" /\ held.src # "absent" /\ Persist(c, m, "rename")
        \/ Reply(c, FALSE) /\ NoIO
    BY <1>5, <2>1, <2>2, <2>3 DEF UpdateKey
  <2>7. CASE Reply(c, FALSE) /\ NoIO  BY <2>1, <2>7, Answered
  <2>8. CASE request[c].kind = "llmkey" /\ Persist(c, n, "rename")
    <3>1. \A s \in FileFields \ {"llm", "key"} : n[s] = held[s]  BY <1>l, <2>4
    <3>2. n.key = Expand(held.key) /\ n.src = held.src  BY <1>l, <2>4 DEF FileFields
    <3> QED  BY <2>1, <2>5, <2>8, <3>1, <3>2, Persisted DEF Touches, SourceKinds
  <2>9. CASE request[c].kind = "sourcekey" /\ held.src # "absent" /\ Persist(c, m, "rename")
    <3>1. m.src = held.src /\ Filed(m)  BY <2>4, <2>9 DEF FileFields, Filed
    <3> QED  BY <2>1, <2>4, <2>9, <3>1, Persisted DEF Touches, SourceKinds
  <2> QED  BY <2>6, <2>7, <2>8, <2>9
<1>6. CASE UpdateLLM(c)
  <2>1. request[c].kind = "llm" /\ request[c].at = "save" /\ cfgMu = Nobody /\ running' = running
    BY <1>6 DEF UpdateLLM, RequestAt, World
  <2>2. PICK n : n = [Live(held) EXCEPT !.llm = v]  OBVIOUS
  <2>3. /\ n = [s \in FileFields |-> n[s]]
        /\ \A s \in FileFields \ {"llm"} : n[s] = Live(held)[s]
    BY <1>l, <2>2 DEF FileFields
  <2>4. Filed(n) /\ n.key = Expand(held.key) /\ n.src = held.src
    BY <1>l, <2>3 DEF Filed, FileFields
  <2>5. \A s \in FileFields \ {"llm", "key"} : n[s] = held[s]  BY <1>l, <2>3
  <2>6. Persist(c, n, "rename")  BY <1>6, <2>2 DEF UpdateLLM
  <2> QED  BY <2>1, <2>4, <2>5, <2>6, Persisted DEF Touches, SourceKinds
<1>7. CASE UpdateSection(c)
  <2>1. request[c].kind = "section" /\ request[c].at = "save" /\ cfgMu = Nobody /\ running' = running
    BY <1>7 DEF UpdateSection, RequestAt, World
  <2>2. PICK n : n = [Live(held) EXCEPT !.rest = v]  OBVIOUS
  <2>3. /\ n = [s \in FileFields |-> n[s]]
        /\ \A s \in FileFields \ {"rest"} : n[s] = Live(held)[s]
    BY <1>l, <2>2 DEF FileFields
  <2>4. Filed(n) /\ n.key = Expand(held.key) /\ n.src = held.src
    BY <1>l, <2>3 DEF Filed, FileFields
  <2>5. \A s \in FileFields \ {"rest", "key"} : n[s] = held[s]  BY <1>l, <2>3
  <2>6. Persist(c, n, "rename")  BY <1>7, <2>2 DEF UpdateSection
  <2> QED  BY <2>1, <2>4, <2>5, <2>6, Persisted DEF Touches, SourceKinds
<1>8. CASE UpdateChannel(c) \/ AddChannel(c)
  <2>1. request[c].kind \in {"channel", "newchannel"} /\ request[c].at = "save" /\ cfgMu = Nobody
        /\ running' = running
    BY <1>8 DEF UpdateChannel, AddChannel, RequestAt, World
  <2>2. PICK w : w = IF AddChannel(c) \/ v # "omitted" THEN v ELSE Live(held).ch  OBVIOUS
  <2>3. PICK n : n = [Live(held) EXCEPT !.ch = w]  OBVIOUS
  <2>4. /\ n = [s \in FileFields |-> n[s]]
        /\ \A s \in FileFields \ {"ch"} : n[s] = Live(held)[s]
    BY <1>l, <2>3 DEF FileFields
  <2>5. Filed(n) /\ n.key = Expand(held.key) /\ n.src = held.src
    BY <1>l, <2>4 DEF Filed, FileFields
  <2>6. \A s \in FileFields \ {"ch", "key"} : n[s] = held[s]  BY <1>l, <2>4
  <2>7. Persist(c, n, "rename") \/ (Reply(c, FALSE) /\ NoIO)
    <3>1. CASE AddChannel(c)  BY <2>2, <2>3, <3>1 DEF AddChannel
    <3>2. CASE UpdateChannel(c) /\ ~ AddChannel(c)  BY <2>2, <2>3, <3>2 DEF UpdateChannel
    <3> QED  BY <1>8, <3>1, <3>2
  <2>8. CASE Reply(c, FALSE) /\ NoIO  BY <2>1, <2>8, Answered
  <2>9. CASE Persist(c, n, "rename")
    BY <2>1, <2>5, <2>6, <2>9, Persisted DEF Touches, SourceKinds
  <2> QED  BY <2>7, <2>8, <2>9
<1> QED  BY <1>1, <1>2, <1>3, <1>4, <1>5, <1>6, <1>7, <1>8

\* What a rename writes differs from the live configuration in nothing that
\* the request is not about.
LEMMA Renamed ==
  ASSUME ConfigInv, NEW c \in Clients, cfgMu = c
  PROVE  /\ Filed(request[c].body) /\ Untouched(request[c].kind, request[c].body, held)
         /\ request[c].at \in {"rename", "restore"}
         /\ request[c].at = "restore" => request[c].kind \in SourceKinds
         /\ request[c].kind \in SourceKinds => srcMu = c
         /\ request[c].kind \notin SourceKinds => request[c].body.src = held.src
<1>1. RequestFine(c, request[c])  BY DEF ConfigInv
<1> QED  BY <1>1 DEF RequestFine, SourceKinds, Locking

LEMMA SaveEnds ==
  ASSUME ConfigInv, NEW c \in Clients,
         SavedAndNotified(c) \/ Saved(c) \/ Restored(c)
  PROVE  ConfigInv'
<1>1. PICK b : b = request[c].body  OBVIOUS
<1>2. /\ cfgMu = c /\ cfgMu' = Nobody /\ file' = b /\ held' = b /\ revision' = revision + 1
      /\ running' = running /\ Reply(c, FALSE)
  BY <1>1 DEF SavedAndNotified, Saved, Restored, Rename, World
<1>3. /\ Filed(b)
      /\ request[c].at = "restore" => request[c].kind \in SourceKinds
      /\ request[c].kind \in SourceKinds => srcMu = c
      /\ request[c].kind \notin SourceKinds => b.src = held.src
  BY <1>1, <1>2, Renamed
<1>4. RequestFine(c, request[c]) /\ Follows(c, request[c])  BY DEF ConfigInv
<1>5. srcMu \in {c, Nobody} /\ ~ mustRestart => running = (b.src = "on")
  <2>1. CASE Restored(c)
    BY <1>1, <1>3, <1>4, <2>1, ConfigAssumption DEF Restored, Follows
  <2>2. CASE SavedAndNotified(c) \/ Saved(c)
    <3>1. request[c].kind \notin SourceKinds /\ request[c].at = "rename"
      BY <2>2 DEF SavedAndNotified, Saved, RequestAt, SourceKinds
    <3>2. srcMu = c /\ ~ mustRestart => running = (held.src = "on")
      BY <1>4, <3>1 DEF Follows
    <3>3. srcMu = Nobody /\ ~ mustRestart => running = (held.src = "on")
      BY DEF ConfigInv, SourceFollowsConfig
    <3> QED  BY <1>3, <3>1, <3>2, <3>3
  <2> QED  BY <2>1, <2>2
<1>6. cfgMu' # c /\ \A d \in Clients \ {c} : cfgMu' = d <=> cfgMu = d
  BY <1>2, ConfigAssumption
<1>7. Filed(held') /\ (held'.src = held.src \/ srcMu = c)  BY <1>2, <1>3
<1> QED  BY <1>2, <1>5, <1>6, <1>7, Replied

LEMMA SaveGoesOn ==
  ASSUME ConfigInv, NEW c \in Clients, SourceSaved(c) \/ ChannelSaved(c)
  PROVE  ConfigInv'
<1>1. PICK q : q = request[c]  OBVIOUS
<1>2. /\ cfgMu = c /\ cfgMu' = Nobody /\ file' = q.body /\ held' = q.body /\ revision' = revision + 1
      /\ running' = running /\ srcMu' = srcMu /\ mustRestart' = mustRestart /\ q.at = "rename"
  BY <1>1 DEF SourceSaved, ChannelSaved, Rename, World, RequestAt
<1>3. /\ Filed(q.body) /\ Untouched(q.kind, q.body, held)
      /\ q.kind \in SourceKinds => srcMu = c
      /\ q.kind \notin SourceKinds => q.body.src = held.src
  BY <1>1, <1>2, Renamed
<1>4. RequestFine(c, q) /\ Follows(c, q)  BY <1>1 DEF ConfigInv
<1>5. /\ Filed(held') /\ (held'.src = held.src \/ srcMu = c)
      /\ \A d \in Clients \ {c} : (cfgMu' = d <=> cfgMu = d) /\ (srcMu' = d <=> srcMu = d)
      /\ revision \in Nat /\ Filed(held)
  BY <1>2, <1>3, ConfigAssumption DEF ConfigInv
<1>6. CASE SourceSaved(c)
  <2>1. PICK n : n = revision + 1  OBVIOUS
  <2>2. PICK r : r = [q EXCEPT !.at = "activate", !.rev = n]  OBVIOUS
  <2>3. request' = [request EXCEPT ![c] = r] /\ q.kind \in SourceKinds
    BY <1>1, <1>6, <2>1, <2>2 DEF SourceSaved, RequestAt, SourceKinds
  <2>4. /\ r = [x \in RequestFields |-> r[x]] /\ r.kind = q.kind /\ r.at = "activate"
        /\ r.body = q.body /\ r.orig = q.orig /\ r.rev = n
    BY <1>4, <2>2 DEF RequestFine, RequestFields
  <2>5. /\ q.orig = held /\ (q.kind = "create" => held.src = "absent")
    BY <1>2, <1>4, <2>3 DEF RequestFine
  <2>6. Untouched(r.kind, r.orig, held')
    BY <1>2, <1>3, <2>4, <2>5 DEF Untouched
  <2>7. srcMu' = c /\ cfgMu' # c /\ r.kind \in Locking
    BY <1>2, <1>3, <2>3, <2>4, ConfigAssumption DEF SourceKinds, Locking
  <2>8. RequestFine(c, r)'
    <3>1. r.kind # "none" /\ Filed(r.orig) /\ (r.kind = "create" => r.orig.src = "absent") /\ r.body.src = held'.src
      BY <1>2, <1>5, <2>3, <2>4, <2>5 DEF SourceKinds
    <3>2. r.rev \in Nat /\ r.rev <= revision'  BY <1>2, <1>5, <2>1, <2>4
    <3> QED  BY ONLY <2>3, <2>4, <2>6, <2>7, <3>1, <3>2 DEF RequestFine, Filed, Untouched
  <2>9. Follows(c, r)'
    BY <1>2, <1>4, <2>4, <2>5 DEF Follows
  <2>10. SourceFollowsConfig'  BY <2>7, ConfigAssumption DEF SourceFollowsConfig
  <2> QED  BY <1>2, <1>5, <2>3, <2>8, <2>9, <2>10, OneRequest
<1>7. CASE ChannelSaved(c)
  <2>2. PICK r : r = [q EXCEPT !.at = "switch"]  OBVIOUS
  <2>3. request' = [request EXCEPT ![c] = r] /\ q.kind \in {"channel", "newchannel"}
    BY <1>1, <1>7, <2>2 DEF ChannelSaved, RequestAt, Goto
  <2>4. /\ r = [x \in RequestFields |-> r[x]] /\ r.kind = q.kind /\ r.at = "switch"
    BY <1>4, <2>2 DEF RequestFine, RequestFields
  <2>5. q.kind \notin Locking \cup SourceKinds  BY <2>3 DEF Locking, SourceKinds
  <2>6. srcMu' # c /\ cfgMu' # c  BY <1>2, <1>4, <2>5, ConfigAssumption DEF RequestFine
  <2>8. RequestFine(c, r)'  BY <2>3, <2>4, <2>5, <2>6 DEF RequestFine
  <2>9. Follows(c, r)'  BY <2>6 DEF Follows
  <2>10. SourceFollowsConfig'
    BY <1>2, <1>3, <2>5 DEF ConfigInv, SourceFollowsConfig
  <2> QED  BY <1>2, <1>5, <2>3, <2>8, <2>9, <2>10, OneRequest
<1> QED  BY <1>6, <1>7

\* What the engine does with a saved source, and the rollback.
LEMMA ActivateKeeps ==
  ASSUME ConfigInv, NEW c \in Clients, ActivateSource(c) \/ RestoreBytes(c)
  PROVE  ConfigInv'
<1>1. PICK q : q = request[c]  OBVIOUS
<1>2. RequestFine(c, q) /\ Follows(c, q)  BY <1>1 DEF ConfigInv
<1>3. CASE ActivateSource(c)
  <2>1. q.at = "activate" /\ NoIO  BY <1>1, <1>3 DEF ActivateSource
  <2>2. q.kind \in SourceKinds /\ q.kind \in Locking
    BY <1>2, <2>1 DEF RequestFine, SourceKinds, Locking
  <2>3. srcMu = c /\ cfgMu # c /\ q.body.src = held.src  BY <1>2, <2>1, <2>2 DEF RequestFine
  <2>4. CASE running' = (q.body.src = "on") /\ Reply(c, FALSE)
    BY <2>1, <2>3, <2>4, Replied DEF NoIO
  <2>5. CASE Goto(c, "undo") /\ UNCHANGED <<running, srcMu, mustRestart>>
    <3>1. PICK r : r = [q EXCEPT !.at = "undo"]  OBVIOUS
    <3>2. request' = [request EXCEPT ![c] = r]  BY <1>1, <2>5, <3>1 DEF Goto
    <3>3. /\ r = [x \in RequestFields |-> r[x]] /\ r.kind = q.kind /\ r.at = "undo"
          /\ r.body = q.body /\ r.orig = q.orig /\ r.rev = q.rev
      BY <1>2, <3>1 DEF RequestFine, RequestFields
    <3>4. RequestFine(c, r)'
      BY <1>2, <2>1, <2>2, <2>3, <2>5, <3>3 DEF RequestFine, Filed, Untouched, NoIO
    <3>5. Follows(c, r)'  BY <1>2, <2>1, <2>5, <3>3 DEF Follows
    <3> QED  BY <2>1, <2>5, <3>2, <3>4, <3>5, Moved
  <2> QED  BY <1>1, <1>3, <2>4, <2>5 DEF ActivateSource
<1>4. CASE RestoreBytes(c)
  <2>1. /\ q.kind \in {"toggle", "edit", "delete"} /\ q.at = "undo" /\ cfgMu = Nobody
        /\ running' = running
    BY <1>1, <1>4 DEF RestoreBytes, RequestAt, World
  <2>2. CASE Reply(c, TRUE) /\ NoIO
    BY <1>1, <2>1, <2>2, Answered, ConfigAssumption DEF NoIO
  <2>3. CASE ~ (Reply(c, TRUE) /\ NoIO)
    <3>1. PICK r : r = [q EXCEPT !.body = q.orig, !.at = "restore"]  OBVIOUS
    <3>2. /\ request' = [request EXCEPT ![c] = r] /\ revision = q.rev /\ cfgMu' = c
          /\ UNCHANGED <<file, held, revision, srcMu, mustRestart>>
      BY <1>1, <1>4, <2>3, <3>1 DEF RestoreBytes
    <3>3. /\ r = [x \in RequestFields |-> r[x]] /\ r.kind = q.kind /\ r.at = "restore"
          /\ r.body = q.orig
      BY <1>2, <3>1 DEF RequestFine, RequestFields
    <3>4. Filed(q.orig) /\ Untouched(q.kind, q.orig, held)  BY <1>2, <2>1, <3>2 DEF RequestFine
    <3>5. q.kind \in SourceKinds /\ q.kind \in Locking  BY <2>1 DEF SourceKinds, Locking
    <3>6. RequestFine(c, r)'
      BY <1>2, <2>1, <3>2, <3>3, <3>4, <3>5 DEF RequestFine, Filed, Untouched
    <3>7. Follows(c, r)'  BY <1>2, <2>1, <3>2, <3>3 DEF Follows
    <3>8. SourceFollowsConfig'  BY <2>1, <3>2 DEF ConfigInv, SourceFollowsConfig
    <3>9. \A d \in Clients \ {c} : (cfgMu' = d <=> cfgMu = d) /\ (srcMu' = d <=> srcMu = d)
      BY <2>1, <3>2, ConfigAssumption
    <3> QED  BY <2>1, <3>2, <3>6, <3>7, <3>8, <3>9, OneRequest
  <2> QED  BY <2>2, <2>3
<1> QED  BY <1>3, <1>4

LEMMA ReloadSteps ==
  ASSUME ConfigInv, NEW c \in Clients, Snapshot(c) \/ CommitPreview(c)
  PROVE  ConfigInv'
<1>1. PICK q : q = request[c]  OBVIOUS
<1>2. RequestFine(c, q) /\ Follows(c, q)  BY <1>1 DEF ConfigInv
<1>3. q.kind = "reload" /\ q.at \in {"snapshot", "commit"} /\ cfgMu = Nobody /\ running' = running
  BY <1>1 DEF Snapshot, CommitPreview, RequestAt, World
<1>4. srcMu = c  BY <1>2, <1>3 DEF RequestFine, Locking
<1>5. CASE Reply(c, FALSE) /\ NoIO
  <2>1. request[c].at \notin {"activate", "undo", "rename", "restore"}  BY <1>1, <1>3
  <2> QED  BY <1>3, <1>5, <2>1, Answered
<1>6. CASE Snapshot(c) /\ ~ (Reply(c, FALSE) /\ NoIO)
  <2>1. PICK n : n = revision  OBVIOUS
  <2>2. PICK r : r = [q EXCEPT !.rev = n, !.at = "commit"]  OBVIOUS
  <2>3. /\ request' = [request EXCEPT ![c] = r] /\ UNCHANGED <<srcMu, mustRestart>> /\ NoIO
        /\ Live(q.body).src = Live(held).src
    BY <1>1, <1>6, <2>1, <2>2 DEF Snapshot
  <2>4. /\ r = [x \in RequestFields |-> r[x]] /\ r.kind = "reload" /\ r.at = "commit"
        /\ r.body = q.body
    BY <1>2, <1>3, <2>2 DEF RequestFine, RequestFields
  <2>5. q.at = "snapshot"  BY <1>1, <1>6 DEF Snapshot, RequestAt
  <2>6. Filed(q.body) /\ Filed(held)  BY <1>2, <2>5 DEF RequestFine, ConfigInv
  <2>7. q.body.src = held.src
    <3>1. Live(q.body).src = q.body.src /\ Live(held).src = held.src
      BY <2>6, LiveFiled DEF FileFields
    <3> QED  BY <2>3, <3>1
  <2>8. RequestFine(c, r)'
    BY <1>3, <1>4, <2>3, <2>4, <2>6, <2>7, ConfigAssumption DEF RequestFine, Filed, Locking, NoIO, SourceKinds
  <2>9. Follows(c, r)'  BY <1>2, <1>3, <2>3, <2>4, <2>5 DEF Follows, NoIO
  <2> QED  BY <1>3, <2>3, <2>8, <2>9, Moved
<1>7. CASE CommitPreview(c) /\ ~ (Reply(c, FALSE) /\ NoIO)
  <2>1. /\ q.at = "commit" /\ Reply(c, FALSE) /\ file' = file /\ cfgMu' = cfgMu
        /\ \/ file = q.body /\ held' = file /\ revision' = revision + 1
           \/ held' = held /\ revision' = revision
    BY <1>1, <1>7 DEF CommitPreview, RequestAt
  <2>2. q.body.src = held.src /\ Filed(q.body)  BY <1>2, <2>1 DEF RequestFine
  <2>3. ~ mustRestart => running = (held.src = "on")  BY <1>2, <1>4, <2>1 DEF Follows
  <2>4. held'.src = held.src  BY <2>1, <2>2
  <2>5. cfgMu' # c /\ \A d \in Clients \ {c} : cfgMu' = d <=> cfgMu = d
    BY <1>3, <2>1, ConfigAssumption
  <2>6. \/ held' = held /\ revision' = revision
        \/ Filed(held') /\ revision' = revision + 1
    BY <2>1, <2>2
  <2> QED  BY <1>3, <1>4, <2>1, <2>3, <2>4, <2>5, <2>6, Replied
<1> QED  BY <1>5, <1>6, <1>7

LEMMA OtherSteps ==
  ASSUME ConfigInv, NEW c \in Clients,
         Arrive(c) \/ BeginUpdateKey(c) \/ SwitchChannel(c) \/ StartCreated(c)
  PROVE  ConfigInv'
<1>1. CASE BeginUpdateKey(c) /\ Reply(c, FALSE)
  BY <1>1, Answered DEF BeginUpdateKey, RequestAt, World
<1>2. CASE BeginUpdateKey(c) /\ ~ Reply(c, FALSE)
  <2>1. PICK q : q = request[c]  OBVIOUS
  <2>2. PICK r : r = [q EXCEPT !.at = "save"]  OBVIOUS
  <2>3. /\ request' = [request EXCEPT ![c] = r] /\ UNCHANGED <<srcMu, mustRestart, running>> /\ NoIO
        /\ q.kind \in {"sourcekey", "llmkey"} /\ q.at = "check"
    BY <1>2, <2>1, <2>2 DEF BeginUpdateKey, Goto, RequestAt, World
  <2>4. RequestFine(c, q)  BY <2>1 DEF ConfigInv
  <2>5. r = [x \in RequestFields |-> r[x]] /\ r.kind = q.kind /\ r.at = "save"
    BY <2>2, <2>4 DEF RequestFine, RequestFields
  <2>6. q.kind \notin Locking  BY <2>3 DEF Locking
  <2>7. srcMu # c /\ cfgMu # c  BY <2>3, <2>4, <2>6 DEF RequestFine
  <2>8. RequestFine(c, r)'  BY <2>3, <2>5, <2>6, <2>7 DEF RequestFine, NoIO
  <2>9. Follows(c, r)'  BY <2>3, <2>7 DEF Follows
  <2> QED  BY <2>3, <2>8, <2>9, Moved
<1>3. CASE SwitchChannel(c) \/ StartCreated(c)
  BY <1>3, Answered DEF SwitchChannel, StartCreated, RequestAt
<1>4. CASE Arrive(c)
  <2>1. PICK r : /\ request' = [request EXCEPT ![c] = r]
                 /\ \E a \in Requests :
                      r = [Idle EXCEPT !.kind = a.kind, !.val = a.val,
                             !.at = IF a.kind \in Locking THEN "lock"
                                    ELSE IF a.kind \in {"sourcekey", "llmkey"} THEN "check" ELSE "save"]
    BY <1>4 DEF Arrive
  <2>2. PICK a \in Requests :
          r = [Idle EXCEPT !.kind = a.kind, !.val = a.val,
                 !.at = IF a.kind \in Locking THEN "lock"
                        ELSE IF a.kind \in {"sourcekey", "llmkey"} THEN "check" ELSE "save"]
    BY <2>1
  <2>3. r = [x \in RequestFields |-> r[x]] /\ r.kind = a.kind
    BY <2>2 DEF Idle, RequestFields
  <2>4. r.at = IF a.kind \in Locking THEN "lock"
               ELSE IF a.kind \in {"sourcekey", "llmkey"} THEN "check" ELSE "save"
    BY <2>2 DEF Idle
  <2>5. /\ NoIO /\ UNCHANGED <<running, srcMu, mustRestart>> /\ request[c].kind = "none"
    BY <1>4 DEF Arrive, World
  <2>6. RequestFine(c, request[c])  BY DEF ConfigInv
  <2>7. srcMu # c /\ cfgMu # c
    BY <2>5, <2>6 DEF RequestFine, Locking, SourceKinds
  <2>8. RequestFine(c, r)'
    <3>1. /\ r.at \in {"lock", "check", "save"}
          /\ r.at = "check" => r.kind \in {"sourcekey", "llmkey"}
          /\ r.kind = "none" => r.at # "check"
          /\ r.kind \in Locking <=> r.at = "lock"
      BY <2>3, <2>4
    <3>2. cfgMu' # c /\ srcMu' # c  BY <2>5, <2>7 DEF NoIO
    <3> QED  BY ONLY <2>3, <3>1, <3>2 DEF RequestFine, Locking
  <2>9. Follows(c, r)'  BY <2>5, <2>7 DEF Follows
  <2> QED  BY <2>1, <2>5, <2>8, <2>9, Moved
<1> QED  BY <1>1, <1>2, <1>3, <1>4

LEMMA EditsAreFiled == \A f \in Edits \cup {FirstFile} : Filed(f)
<1>1. ASSUME NEW f \in Edits \cup {FirstFile}  PROVE Filed(f)
  <2>1. f = [s \in {"src", "key", "ch", "llm", "rest"} |-> f[s]] /\ (f.src = "absent" => f.key = NoSecret)
    BY <1>1, FileAssumption, Zenon
  <2>3. NoSecret # EnvRef  BY ConfigAssumption
  <2> QED  BY <2>1, <2>3, Zenon DEF Filed, FileFields
<1> QED  BY <1>1

LEMMA ForeignSteps ==
  ASSUME ConfigInv, SwapProvider \/ EditFile \/ RestartFromFile
  PROVE  ConfigInv'
<1>1. CASE SwapProvider
  <2>1. UNCHANGED <<file, held, revision, cfgMu, srcMu, request, running, mustRestart>>
    BY <1>1 DEF SwapProvider
  <2> QED  BY <2>1 DEF ConfigInv, RequestFine, Follows, SourceFollowsConfig, Filed, Untouched
<1>2. CASE EditFile
  <2>1. Filed(file)'
    BY <1>2, EditsAreFiled DEF EditFile
  <2>2. UNCHANGED <<held, revision, cfgMu, srcMu, request, running, mustRestart>>
    BY <1>2 DEF EditFile, World
  <2> QED  BY <2>1, <2>2 DEF ConfigInv, RequestFine, Follows, SourceFollowsConfig, Filed, Untouched
<1>3. CASE RestartFromFile
  <2>1. /\ file' = file /\ held' = file /\ revision' = 1 /\ cfgMu' = Nobody /\ srcMu' = Nobody
        /\ request' = [c \in Clients |-> Idle] /\ running' = (file.src = "on")
    BY <1>3 DEF RestartFromFile, SourceConfigs
  <2>2. Idle = [x \in RequestFields |-> Idle[x]] /\ Idle.at = "idle"  BY DEF Idle, RequestFields
  <2> HIDE DEF Idle
  <2>3. ASSUME NEW c \in Clients  PROVE RequestFine(c, Idle)' /\ Follows(c, Idle)'
    BY <2>1, <2>2, ConfigAssumption DEF RequestFine, Follows
  <2>4. SourceFollowsConfig'  BY <2>1 DEF SourceFollowsConfig
  <2>5. request' = [c \in Clients |-> request'[c]] /\ \A c \in Clients : request'[c] = Idle
    BY <2>1
  <2> QED  BY <2>1, <2>3, <2>4, <2>5 DEF ConfigInv, Filed, RequestFine, Follows
<1> QED  BY <1>1, <1>2, <1>3

\* The file, the live configuration, every request half way and the engine
\* agree, as far as the locks held say so.
LEMMA ConfigSpecInvariant == ConfigSpec => []ConfigInv
<1>1. ConfigInit => ConfigInv
  <2> SUFFICES ASSUME ConfigInit  PROVE ConfigInv  OBVIOUS
  <2>1. Filed(FirstFile)  BY EditsAreFiled
  <2>2. Idle = [x \in RequestFields |-> Idle[x]] /\ Idle.at = "idle"  BY DEF Idle, RequestFields
  <2> HIDE DEF Idle
  <2>3. ASSUME NEW c \in Clients  PROVE RequestFine(c, Idle) /\ Follows(c, Idle)
    BY <2>2, ConfigAssumption DEF ConfigInit, RequestFine, Follows
  <2> QED  BY <2>1, <2>3 DEF ConfigInit, ConfigInv, SourceConfigs, SourceFollowsConfig
<1>2. ConfigInv /\ [ConfigNext]_configVars => ConfigInv'
  <2> SUFFICES ASSUME ConfigInv, [ConfigNext]_configVars  PROVE ConfigInv'  OBVIOUS
  <2>1. CASE UNCHANGED configVars
    BY <2>1 DEF configVars, ConfigInv, RequestFine, Follows, SourceFollowsConfig
  <2>2. CASE SwapProvider \/ EditFile \/ RestartFromFile  BY <2>2, ForeignSteps
  <2>3. CASE \E c \in Clients : Arrive(c) \/ Handle(c)
    <3>1. PICK c \in Clients : Arrive(c) \/ Handle(c)  BY <2>3
    <3>2. CASE Arrive(c)  BY <3>2, OtherSteps
    <3>3. CASE Handle(c)
      BY <3>3, BeginSteps, SaveSteps, SaveEnds, SaveGoesOn, ActivateKeeps, ReloadSteps, OtherSteps
      DEF Handle
    <3> QED  BY <3>1, <3>2, <3>3
  <2> QED  BY <2>1, <2>2, <2>3 DEF ConfigNext
<1> QED  BY <1>1, <1>2, PTL DEF ConfigSpec

(* Between two changes of sources the engine runs the source exactly when  *)
(* the configuration enables it (UpdateSourceWithRuntime,                  *)
(* RemoveSourceWithRuntime, createSource).                                 *)
THEOREM EngineFollowsConfig == ConfigSpec => []SourceFollowsConfig
BY ConfigSpecInvariant, PTL DEF ConfigInv

(* A request, its rollback included, never changes a setting it is not     *)
(* about (the revision fence of the rollback, manager.go:358-370).         *)
THEOREM OthersAreLeftAlone == ConfigSpec => UntouchedSettings
<1>1. ConfigInv /\ [ConfigNext]_configVars
      =>     [\A c \in Clients : cfgMu = c /\ cfgMu' = Nobody /\ file' = request[c].body =>
                \A f \in DOMAIN held :
                  held'[f] # held[f] => f \in Touches(request[c].kind)]_configVars
  <2> SUFFICES ASSUME ConfigInv, [ConfigNext]_configVars
               PROVE \A c \in Clients : cfgMu = c /\ cfgMu' = Nobody /\ file' = request[c].body =>
                 \A f \in DOMAIN held : held'[f] # held[f] => f \in Touches(request[c].kind)
    OBVIOUS
  <2> SUFFICES ASSUME NEW c \in Clients, cfgMu = c, cfgMu' = Nobody, file' = request[c].body,
                      NEW f \in DOMAIN held, held'[f] # held[f]
               PROVE  f \in Touches(request[c].kind)
    OBVIOUS
  <2>1. f \in FileFields
    <3>1. held = [s \in FileFields |-> held[s]]  BY DEF ConfigInv, Filed
    <3>2. PICK h : h = [s \in FileFields |-> held[s]]  OBVIOUS
    <3>3. DOMAIN h = FileFields  BY <3>2
    <3> QED  BY <3>1, <3>2, <3>3
  <2>7. \A s \in FileFields \ Touches(request[c].kind) : request[c].body[s] = held[s]
    <3>1. Untouched(request[c].kind, request[c].body, held)  BY Renamed, Zenon
    <3> QED  BY <3>1, Zenon DEF Untouched
  <2>6. held' = request[c].body => f \in Touches(request[c].kind)  BY <2>1, <2>7
  <2>2. cfgMu # Nobody /\ cfgMu' # cfgMu  BY ConfigAssumption
  <2>3. CASE RestartFromFile
    <3>1. held' = request[c].body  BY <2>3 DEF RestartFromFile
    <3> QED  BY <2>6, <3>1
  <2>4. CASE \E d \in Clients : Rename(d)
    <3>1. PICK d \in Clients : Rename(d)  BY <2>4
    <3>2. held' = request[c].body  BY <3>1 DEF Rename
    <3> QED  BY <2>6, <3>2
  <2>5. ASSUME NEW d \in Clients, Handle(d)  PROVE Rename(d)
    BY <2>2, <2>5
    DEF Handle, BeginToggle, BeginUpdate, BeginCreate, BeginDelete, BeginPut, UpdateSourceWithRuntime,
        AddSource, RemoveSourceWithRuntime, SourceSaved, ActivateSource, RestoreBytes, RemoveSource,
        Restored, Update, SavedAndNotified, PreviewReload, Snapshot, CommitPreview, BeginUpdateKey,
        UpdateKey, UpdateLLM, UpdateSection, Saved, UpdateChannel, AddChannel, ChannelSaved,
        SwitchChannel, StartCreated, NoIO
  <2> QED  BY <2>2, <2>3, <2>4, <2>5 DEF ConfigNext, configVars, SwapProvider, EditFile, Arrive, NoIO
<1> QED  BY <1>1, ConfigSpecInvariant, PTL DEF ConfigSpec, UntouchedSettings

=============================================================================
