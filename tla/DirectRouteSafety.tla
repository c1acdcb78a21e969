------------------------- MODULE DirectRouteSafety -------------------------
(***************************************************************************)
(* What follows from the invariant of DirectRouteProofs: outcomes are      *)
(* justified, the lanes stay apart, a stop leaves no claim behind, nothing *)
(* confirmed is sent again, and the lane keeps its promise.                *)
(***************************************************************************)
EXTENDS DirectRouteProofs, FiniteSetTheorems

-----------------------------------------------------------------------------
(* What a step does to a record.                                           *)

\* Claims, releases and the clock touch neither outcome nor admission.
SameRecord(m) ==
  /\ direct'[m].present = direct[m].present /\ direct'[m].date = direct[m].date
  /\ direct'[m].channels = direct[m].channels
  /\ direct'[m].delivered = direct[m].delivered /\ direct'[m].failed = direct[m].failed
  /\ direct'[m].attempts = direct[m].attempts /\ direct'[m].completed = direct[m].completed

Writes ==
  \/ \E p \in Poller, m \in Msg : AdmitDirect(p, m)
  \/ \E r \in Runner : Checkpoint(r) /\ HasClaim(r)
  \/ PurgeRouteAdmissions

LEMMA QuietStep ==
  ASSUME Inv, [Next]_vars, ~Writes
  PROVE  /\ \A m \in Msg : SameRecord(m)
         /\ received \subseteq received' /\ absent \subseteq absent'
<1>1. direct' = direct => \A m \in Msg : SameRecord(m)
  BY DEF SameRecord
<1>2. ASSUME NEW p \in Poller, Polls(p)
      PROVE  direct' = direct /\ received' = received /\ absent' = absent
  BY <1>2 DEF Polls, Writes, AdmitKnown, AdmitDenied, EnqueueRoutedDigest, admissions, history
<1>3. ASSUME NEW p \in Poller, Abandon(p) \/ ClaimNothing(p)
      PROVE  direct' = direct /\ received' = received /\ absent' = absent
  BY <1>3, ClaimNothingInv DEF Abandon, ClaimNothing, history
<1>4. ASSUME NEW r \in Runner, NEW m \in Msg, NEW t \in Token, NEW closed \in SUBSET Leftovers,
             Claim(r, m, t, closed)
      PROVE  /\ \A n \in Msg : SameRecord(n)
             /\ received' = received /\ absent' = absent
  <2>1. received' = received /\ absent' = absent
    BY <1>4 DEF Claim, history
  <2>2. /\ direct'[m].present = direct[m].present /\ direct'[m].date = direct[m].date
        /\ direct'[m].channels = direct[m].channels
        /\ direct'[m].delivered = direct[m].delivered /\ direct'[m].failed = direct[m].failed
        /\ direct'[m].attempts = direct[m].attempts /\ direct'[m].completed = direct[m].completed
        /\ \A n \in Msg \ {m} : direct'[n] = direct[n]
    <3>1. direct[m].present /\ direct'[m].present
      BY <1>4, ClaimEffect
    <3> QED
      BY <1>4, <3>1, ClaimEffect
  <2> QED
    BY <2>1, <2>2 DEF SameRecord
<1>5. ASSUME NEW p \in Poller, ClaimDirect(p)
      PROVE  /\ \A n \in Msg : SameRecord(n)
             /\ received' = received /\ absent' = absent
  <2>1. p \in Runner /\ job[p].msg \in Msg
    BY <1>5, PollersRun, JobOf DEF ClaimDirect
  <2>2. PICK t \in Token : Claim(p, job[p].msg, t, {})
    BY <1>5 DEF ClaimDirect
  <2> QED
    BY <1>4, <2>1, <2>2
<1>6. CASE ClaimPendingDirect
  <2>1. PICK m \in Msg, t \in Token, closed \in SUBSET Leftovers : Claim(Recovery, m, t, closed)
    BY <1>6 DEF ClaimPendingDirect
  <2> QED
    BY <1>4, <2>1, PollersRun
<1>7. ASSUME NEW r \in Runner, ReleaseFenced(r) \/ ReleaseDirect(r)
      PROVE  /\ \A n \in Msg : SameRecord(n)
             /\ received' = received /\ absent' = absent
  <2>1. received' = received /\ absent' = absent /\ direct' = Released(job[r].msg, job[r].token)
    BY <1>7 DEF ReleaseFenced, ReleaseDirect, history
  <2>2. job[r].msg \in Msg /\ direct \in [Msg -> Record]
    BY <1>7, JobOf DEF ReleaseFenced, ReleaseDirect, Turn, Inv, TypeOK
  <2> QED
    BY <2>1, <2>2 DEF Released, SameRecord, Record
<1>8. ASSUME NEW r \in Runner, Delivers(r)
      PROVE  /\ \A n \in Msg : SameRecord(n)
             /\ received \subseteq received' /\ absent \subseteq absent'
  <2>1. CASE Checkpoint(r)
    <3>1. received' = received /\ absent' = absent
      BY <2>1 DEF Checkpoint, history
    <3>2. direct' = direct
      BY <2>1, CheckpointEffect DEF Writes
    <3> QED
      BY <1>1, <3>1, <3>2
  <2>2. CASE ReleaseFenced(r) \/ ReleaseDirect(r)
    BY <1>7, <2>2
  <2>3. CASE PassFence(r) \/ DispatchOk(r) \/ DispatchError(r) \/ DispatchSkipped(r)
             \/ \E c \in Channel : Take(r, c)
    <3>1. direct' = direct
      BY <2>3, SendInv
    <3>2. received \subseteq received' /\ absent \subseteq absent'
      BY <2>3 DEF PassFence, DispatchOk, DispatchError, DispatchSkipped, Take, history
    <3> QED
      BY <1>1, <3>1, <3>2
  <2> QED
    BY <1>8, <2>1, <2>2, <2>3 DEF Delivers
<1>9. ASSUME NEW r \in Runner, StoreFails(r)
      PROVE  direct' = direct /\ received' = received /\ absent' = absent
  BY <1>9, StoreFailsInv DEF StoreFails, history
<1>10. CASE Tick
  <2>1. received' = received /\ absent' = absent
    BY <1>10 DEF Tick, history
  <2>2. direct \in [Msg -> Record]
    BY DEF Inv, TypeOK
  <2>3. \A m \in Msg : direct'[m] =
          [direct[m] EXCEPT !.lease = Dec(@), !.wait = [c \in Channel |-> Dec(direct[m].wait[c])]]
    BY <1>10 DEF Tick
  <2>4. ASSUME NEW m \in Msg PROVE SameRecord(m)
    <3> DEFINE rec == direct[m]
               w == [c \in Channel |-> Dec(direct[m].wait[c])]
    <3>1. rec \in Record /\ direct'[m] = [rec EXCEPT !.lease = Dec(rec.lease), !.wait = w]
      BY <2>2, <2>3
    <3> HIDE DEF rec, w
    <3>2. /\ direct'[m].present = rec.present /\ direct'[m].date = rec.date
          /\ direct'[m].channels = rec.channels
          /\ direct'[m].delivered = rec.delivered /\ direct'[m].failed = rec.failed
          /\ direct'[m].attempts = rec.attempts /\ direct'[m].completed = rec.completed
      BY <3>1 DEF Record
    <3> QED
      BY <3>2 DEF SameRecord, rec
  <2> QED
    BY <2>1, <2>4
<1>11. CASE \/ Stop \/ Cancel \/ Drained \/ Crash \/ Start \/ RecoverNothing
            \/ \E c \in Channel : Toggle(c)
            \/ \E m \in Msg : ItemPurged(m)
            \/ UNCHANGED vars
  <2>1. direct' = direct
    BY <1>11, ProcessInv
  <2>2. received' = received /\ absent' = absent
    BY <1>11 DEF Stop, Cancel, Drained, Crash, Start, RecoverNothing, Toggle, ItemPurged, history, vars
  <2> QED
    BY <1>1, <2>1, <2>2
<1> QED
  BY <1>1, <1>2, <1>3, <1>5, <1>6, <1>8, <1>9, <1>10, <1>11 DEF Next, Writes

\* The outcome a checkpoint writes.
LEMMA CompleteOutcome ==
  ASSUME NEW rec \in Record, NEW c \in Channel
  PROVE  /\ CompleteChannel(rec, c).delivered = rec.delivered \cup {c}
         /\ CompleteChannel(rec, c).failed = rec.failed
<1> DEFINE r1 == [rec EXCEPT !.delivered = @ \cup {c}]
<1>1. r1 \in Record
  BY DEF Record
<1>2. r1.delivered = rec.delivered \cup {c} /\ r1.failed = rec.failed
  BY DEF Record
<1>3. CompleteChannel(rec, c) = CloseIfFinished(r1)
  BY DEF CompleteChannel
<1> HIDE DEF r1
<1> QED
  BY <1>1, <1>2, <1>3, CloseFields

LEMMA FailOutcome ==
  ASSUME NEW rec \in Record, NEW c \in Channel, NEW gone, NEW new, new = FailChannel(rec, c, gone),
         NEW n, n = rec.attempts[c] + 1, n <= MaxAttempts
  PROVE  /\ new.delivered = rec.delivered
         /\ gone \/ n >= MaxAttempts => new.failed = rec.failed \cup {c}
         /\ ~gone /\ n < MaxAttempts => new.failed = rec.failed
         /\ new.attempts[c] = n
<1> DEFINE last == gone \/ n >= MaxAttempts
           r1 == [rec EXCEPT !.attempts[c] = n,
                    !.failed = IF last THEN @ \cup {c} ELSE @,
                    !.wait[c] = IF last THEN 0 ELSE Backoff(n)]
<1>1. rec.attempts[c] \in Nat
  BY Numbers DEF Record
<1>2. n \in 0..MaxAttempts /\ n \in Nat \ {0}
  BY <1>1, Numbers
<1>3. Backoff(n) \in Nat
  BY <1>2, BackoffType
<1>4. r1 \in Record
  BY <1>2, <1>3 DEF Record
<1>5. /\ r1.delivered = rec.delivered
      /\ r1.failed = IF last THEN rec.failed \cup {c} ELSE rec.failed
      /\ r1.attempts[c] = n
  BY DEF Record
<1>6. FailChannel(rec, c, gone) = CloseIfFinished(r1)
  BY DEF FailChannel
<1> HIDE DEF r1
<1>7. new.delivered = r1.delivered /\ new.failed = r1.failed /\ new.attempts = r1.attempts
  BY <1>4, <1>6, CloseFields
<1> QED
  BY <1>1, <1>5, <1>7, Numbers

\* The three ways a checkpoint by the claim the record names can end.
Confirms(m, c) ==
  /\ direct'[m].delivered = direct[m].delivered \cup {c}
  /\ direct'[m].failed = direct[m].failed
  /\ <<m, c>> \in received \cup absent

GivesUp(m, c) ==
  /\ direct'[m].delivered = direct[m].delivered
  /\ direct'[m].failed = direct[m].failed \cup {c}
  /\ direct'[m].attempts[c] = MaxAttempts \/ <<m, c>> \in absent

TriesAgain(m) ==
  /\ direct'[m].delivered = direct[m].delivered
  /\ direct'[m].failed = direct[m].failed

LEMMA CheckpointOutcome ==
  ASSUME Inv, NEW r \in Runner, Checkpoint(r), HasClaim(r), NEW m, m = job[r].msg,
         NEW c, c = job[r].channel
  PROVE  /\ m \in Msg /\ c \in Pending(direct[m])
         /\ direct[m].present /\ ~direct[m].completed
         /\ \A n \in Msg \ {m} : direct'[n] = direct[n]
         /\ RecordOk(direct'[m]) /\ direct'[m].present
         /\ direct'[m].channels = direct[m].channels /\ direct'[m].date = direct[m].date
         /\ \A d \in Channel \ {c} : direct'[m].attempts[d] = direct[m].attempts[d]
         /\ direct'[m].token = direct[m].token \/ direct'[m].token = None
         /\ Confirms(m, c) \/ GivesUp(m, c) \/ TriesAgain(m)
         /\ received' = received /\ absent' = absent
<1> DEFINE rec == direct[m]
           new == direct'[m]
           gone == job[r].result = "gone"
<1>1. /\ m \in Msg /\ c \in Channel /\ c \in Pending(rec) /\ rec.present
      /\ \A n \in Msg \ {m} : direct'[n] = direct[n]
      /\ new = IF job[r].result = "ok" THEN CompleteChannel(rec, c)
               ELSE FailChannel(rec, c, gone)
  BY CheckpointEffect
<1>2. rec \in Record /\ RecordOk(rec) /\ rec.token # None
  BY <1>1 DEF HasClaim, Inv, TypeOK, RecordsOk
<1>3. gone \in BOOLEAN
  OBVIOUS
<1>4. received' = received /\ absent' = absent /\ job[r].at = "checkpoint"
  BY DEF Checkpoint, history
<1>5. ReportIsTrue(r)
  BY DEF Inv, ClaimsHold
<1>6. /\ job[r].result = "ok" => <<m, c>> \in received \cup absent
      /\ gone => <<m, c>> \in absent
  BY <1>4, <1>5 DEF ReportIsTrue
<1>7. rec.attempts[c] \in Nat /\ rec.attempts[c] + 1 <= MaxAttempts
  BY <1>1, <1>2, Numbers DEF Record, RecordOk, Pending
<1> HIDE DEF rec, new, gone
<1>8. \/ new = CompleteChannel(rec, c)
      \/ \E g \in BOOLEAN : new = FailChannel(rec, c, g)
  BY <1>1, <1>3
<1>9. /\ RecordOk(new) /\ new.present /\ new.channels = rec.channels /\ new.date = rec.date
      /\ \A d \in Channel \ {c} : new.attempts[d] = rec.attempts[d]
      /\ new.token = rec.token \/ new.token = None
  BY <1>1, <1>2, <1>8, SettleFields
<1>10. ~rec.completed
  BY <1>2 DEF RecordOk
<1>11. CASE job[r].result = "ok"
  <2>1. new.delivered = rec.delivered \cup {c} /\ new.failed = rec.failed
    BY <1>1, <1>2, <1>11, CompleteOutcome
  <2>2. Confirms(m, c)
    BY <1>6, <1>11, <2>1 DEF Confirms, rec, new
  <2> QED
    BY <1>1, <1>4, <1>9, <1>10, <2>2 DEF rec, new
<1>12. CASE job[r].result # "ok"
  <2> DEFINE n == rec.attempts[c] + 1
  <2>1. /\ new.delivered = rec.delivered
        /\ gone \/ n >= MaxAttempts => new.failed = rec.failed \cup {c}
        /\ ~gone /\ n < MaxAttempts => new.failed = rec.failed
        /\ new.attempts[c] = n
    <3>1. new = FailChannel(rec, c, gone)
      BY <1>1, <1>12
    <3> QED
      BY <1>1, <1>2, <1>7, <3>1, FailOutcome
  <2>2. MaxAttempts \in Nat /\ n \in Nat
    BY <1>7, Numbers
  <2>3. CASE gone \/ n >= MaxAttempts
    <3>1. new.attempts[c] = MaxAttempts \/ <<m, c>> \in absent
      BY <1>6, <1>7, <2>1, <2>2, <2>3
    <3>2. GivesUp(m, c)
      BY <2>1, <2>3, <3>1 DEF GivesUp, rec, new
    <3> QED
      BY <1>1, <1>4, <1>9, <1>10, <3>2 DEF rec, new
  <2>4. CASE ~(gone \/ n >= MaxAttempts)
    <3>1. TriesAgain(m)
      BY <2>1, <2>2, <2>4 DEF TriesAgain, rec, new
    <3> QED
      BY <1>1, <1>4, <1>9, <1>10, <3>1 DEF rec, new
  <2> QED
    BY <2>3, <2>4
<1> QED
  BY <1>11, <1>12

\* Admissions and purges.
LEMMA AdmitFields ==
  ASSUME Inv, NEW p \in Poller, NEW m \in Msg, AdmitDirect(p, m)
  PROVE  \E channels \in ChannelSets :
           /\ direct' = [direct EXCEPT ![m] = NewRecord(channels)]
           /\ direct'[m] = NewRecord(channels)
           /\ \A n \in Msg \ {m} : direct'[n] = direct[n]
           /\ ~direct[m].present /\ today \notin digested[m]
           /\ digested' = digested /\ today' = today
           /\ \A n \in Msg \ {m}, c \in Channel :
                /\ <<n, c>> \in received => <<n, c>> \in received'
                /\ <<n, c>> \in absent => <<n, c>> \in absent'
  BY DEF AdmitDirect, Known, Inv, TypeOK, clock

LEMMA PurgeFields ==
  ASSUME Inv, PurgeRouteAdmissions
  PROVE  /\ \A m \in Msg : \/ direct'[m] = direct[m]
                           \/ direct[m].completed /\ direct'[m] = NoRecord
         /\ received' = received /\ absent' = absent
         /\ \A m \in Msg : digested'[m] \subseteq digested[m]
         /\ today' = today
  BY DEF PurgeRouteAdmissions, history, clock

-----------------------------------------------------------------------------
(* Outcomes.                                                               *)

LEMMA StepOutcome ==
  ASSUME Inv, OutcomeIsJustified, [Next]_vars
  PROVE  OutcomeIsJustified'
<1> SUFFICES ASSUME NEW m \in Msg, NEW d \in Channel
             PROVE  /\ d \in direct'[m].delivered => <<m, d>> \in received' \cup absent'
                    /\ d \in direct'[m].failed =>
                         direct'[m].attempts[d] = MaxAttempts \/ <<m, d>> \in absent'
  BY DEF OutcomeIsJustified
<1>1. /\ d \in direct[m].delivered => <<m, d>> \in received \cup absent
      /\ d \in direct[m].failed => direct[m].attempts[d] = MaxAttempts \/ <<m, d>> \in absent
  BY DEF OutcomeIsJustified
<1>2. CASE ~Writes
  BY <1>1, <1>2, QuietStep DEF SameRecord
<1>3. ASSUME NEW p \in Poller, NEW n \in Msg, AdmitDirect(p, n)
      PROVE  /\ d \in direct'[m].delivered => <<m, d>> \in received' \cup absent'
             /\ d \in direct'[m].failed =>
                  direct'[m].attempts[d] = MaxAttempts \/ <<m, d>> \in absent'
  <2>1. PICK channels \in ChannelSets :
           /\ direct'[n] = NewRecord(channels)
           /\ \A k \in Msg \ {n} : direct'[k] = direct[k]
           /\ \A k \in Msg \ {n}, c \in Channel :
                /\ <<k, c>> \in received => <<k, c>> \in received'
                /\ <<k, c>> \in absent => <<k, c>> \in absent'
    BY <1>3, AdmitFields
  <2>2. CASE m = n
    BY <2>1, <2>2, NewRecordOk DEF Inv
  <2>3. CASE m # n
    BY <1>1, <2>1, <2>3
  <2> QED
    BY <2>2, <2>3
<1>4. ASSUME NEW r \in Runner, Checkpoint(r), HasClaim(r)
      PROVE  /\ d \in direct'[m].delivered => <<m, d>> \in received' \cup absent'
             /\ d \in direct'[m].failed =>
                  direct'[m].attempts[d] = MaxAttempts \/ <<m, d>> \in absent'
  <2> DEFINE n == job[r].msg
             c == job[r].channel
  <2>1. /\ \A k \in Msg \ {n} : direct'[k] = direct[k]
        /\ c \in Pending(direct[n])
        /\ \A k \in Channel \ {c} : direct'[n].attempts[k] = direct[n].attempts[k]
        /\ Confirms(n, c) \/ GivesUp(n, c) \/ TriesAgain(n)
        /\ received' = received /\ absent' = absent
    BY <1>4, CheckpointOutcome
  <2> HIDE DEF n, c
  <2>2. CASE m # n
    BY <1>1, <2>1, <2>2
  <2>3. CASE m = n
    BY <1>1, <2>1, <2>3 DEF Confirms, GivesUp, TriesAgain, Pending
  <2> QED
    BY <2>2, <2>3
<1>5. CASE PurgeRouteAdmissions
  BY <1>1, <1>5, PurgeFields DEF NoRecord
<1> QED
  BY <1>2, <1>3, <1>4, <1>5 DEF Writes

\* No channel is given up early or confirmed unasked, whatever claims lapse
\* and whichever runner reports (CompleteDirectChannel, FailDirectChannel).
THEOREM OutcomesAreJustified == Spec => []OutcomeIsJustified
<1>1. Init => OutcomeIsJustified
  BY DEF Init, NoRecord, OutcomeIsJustified
<1>2. Inv /\ OutcomeIsJustified /\ [Next]_vars => OutcomeIsJustified'
  BY StepOutcome
<1> QED
  BY <1>1, <1>2, Invariant, PTL DEF Spec

-----------------------------------------------------------------------------
(* Lanes.                                                                  *)

DatesPassed == \A m \in Msg : digested[m] \subseteq 1..today

LaneInv == LaneFence /\ DatesPassed

\* A digest record is only written for a message without a direct one.
LEMMA DigestedStep ==
  ASSUME Inv, [Next]_vars, NEW m \in Msg
  PROVE  /\ today \in Nat /\ today' \in Nat /\ today' >= today
         /\ \/ digested'[m] \subseteq digested[m]
            \/ /\ digested'[m] = digested[m] \cup {today}
               /\ ~direct[m].present /\ direct' = direct
<1>1. today \in Nat /\ digested \in [Msg -> SUBSET Day] /\ today \in Day
  BY Numbers DEF Inv, TypeOK, Day
<1>2. CASE digested' = digested /\ today' = today
  BY <1>1, <1>2
<1>3. ASSUME NEW p \in Poller, NEW n \in Msg, EnqueueRoutedDigest(p, n)
      PROVE  /\ direct' = direct /\ today' = today
             /\ \/ digested' = digested
                \/ digested' = [digested EXCEPT ![n] = @ \cup {today}] /\ ~direct[n].present
  BY <1>3 DEF EnqueueRoutedDigest, AdmitDigest, Fenced, clock
<1>4. CASE PurgeRouteAdmissions
  BY <1>1, <1>4, PurgeFields
<1>5. CASE Tick
  <2>1. digested' = digested /\ (today' = today \/ today' = today + 1)
    BY <1>5 DEF Tick
  <2> QED
    BY <1>1, <2>1
<1>6. ASSUME NEW p \in Poller, NEW n \in Msg, AdmitKnown(p, n) \/ AdmitDenied(p, n) \/ AdmitDirect(p, n)
      PROVE  digested' = digested /\ today' = today
  BY <1>6 DEF AdmitKnown, AdmitDenied, AdmitDirect, admissions, clock
<1>7. ASSUME NEW p \in Poller, Abandon(p) \/ ClaimDirect(p) \/ ClaimNothing(p)
      PROVE  digested' = digested /\ today' = today
  BY <1>7 DEF Abandon, ClaimDirect, ClaimNothing, Claim, admissions, clock
<1>8. ASSUME NEW r \in Runner, Delivers(r) \/ StoreFails(r)
      PROVE  digested' = digested /\ today' = today
  BY <1>8 DEF Delivers, StoreFails, PassFence, ReleaseFenced, Take, DispatchOk, DispatchError,
              DispatchSkipped, Checkpoint, ReleaseDirect, admissions, clock
<1>9. CASE \/ ClaimPendingDirect \/ RecoverNothing
           \/ Stop \/ Cancel \/ Drained \/ Crash \/ Start
           \/ \E c \in Channel : Toggle(c)
           \/ \E n \in Msg : ItemPurged(n)
           \/ UNCHANGED vars
  <2>1. digested' = digested /\ today' = today
    BY <1>9 DEF ClaimPendingDirect, Claim, RecoverNothing, Stop, Cancel, Drained, Crash, Start,
                Toggle, ItemPurged, admissions, clock, vars
  <2> QED
    BY <1>2, <2>1
<1>10. ASSUME NEW p \in Poller, Polls(p)
       PROVE  /\ today' = today
              /\ \/ digested' = digested
                 \/ /\ digested'[m] = digested[m] \cup {today}
                    /\ ~direct[m].present /\ direct' = direct
                 \/ digested'[m] = digested[m]
  BY <1>1, <1>3, <1>6, <1>10 DEF Polls
<1> QED
  BY <1>1, <1>2, <1>4, <1>5, <1>7, <1>8, <1>9, <1>10 DEF Next

LEMMA StepLane ==
  ASSUME Inv, LaneInv, [Next]_vars
  PROVE  LaneInv'
<1> SUFFICES ASSUME NEW m \in Msg
             PROVE  /\ direct'[m].present => \A d \in digested'[m] : d < direct'[m].date
                    /\ digested'[m] \subseteq 1..today'
  BY DEF LaneInv, LaneFence, DatesPassed
<1>1. /\ direct[m].present => \A d \in digested[m] : d < direct[m].date
      /\ digested[m] \subseteq 1..today
  BY DEF LaneInv, LaneFence, DatesPassed
<1>2. /\ today \in Nat /\ today' \in Nat /\ today' >= today /\ today >= 1
      /\ \/ digested'[m] \subseteq digested[m]
         \/ /\ digested'[m] = digested[m] \cup {today}
            /\ ~direct[m].present /\ direct' = direct
  BY DigestedStep, Numbers DEF Inv, TypeOK, Day
<1>3. digested'[m] \subseteq 1..today'
  BY <1>1, <1>2
<1>4. ASSUME direct'[m].present, NEW d \in digested'[m] PROVE d < direct'[m].date
  <2>1. CASE direct[m].present /\ direct'[m].date = direct[m].date
    BY <1>1, <1>2, <1>4, <2>1
  <2>2. CASE ~direct[m].present /\ SameRecord(m)
    BY <1>4, <2>2 DEF SameRecord
  <2>3. ASSUME NEW p \in Poller, NEW n \in Msg, AdmitDirect(p, n) PROVE d < direct'[m].date
    <3>1. PICK channels \in ChannelSets :
             /\ direct'[n] = NewRecord(channels)
             /\ \A k \in Msg \ {n} : direct'[k] = direct[k]
             /\ today \notin digested[n] /\ digested' = digested
      BY <2>3, AdmitFields
    <3>2. CASE m = n
      <4>1. direct'[m].date = today
        BY <3>1, <3>2, NewRecordOk DEF Inv
      <4>2. d \in 1..today /\ d # today
        BY <1>1, <1>4, <3>1, <3>2
      <4> QED
        BY <1>2, <4>1, <4>2
    <3>3. CASE m # n
      BY <1>1, <1>4, <3>1, <3>3
    <3> QED
      BY <3>2, <3>3
  <2>4. ASSUME NEW r \in Runner, Checkpoint(r), HasClaim(r) PROVE d < direct'[m].date
    <3> DEFINE n == job[r].msg
    <3>1. /\ n \in Msg /\ \A k \in Msg \ {n} : direct'[k] = direct[k]
          /\ direct[n].present /\ direct'[n].date = direct[n].date
      BY <2>4, CheckpointOutcome
    <3> HIDE DEF n
    <3> QED
      BY <1>4, <2>1, <3>1
  <2>5. CASE PurgeRouteAdmissions
    BY <1>1, <1>2, <1>4, <2>5, PurgeFields DEF NoRecord
  <2>6. CASE ~Writes
    BY <1>4, <2>1, <2>2, <2>6, QuietStep DEF SameRecord
  <2> QED
    BY <2>3, <2>4, <2>5, <2>6 DEF Writes
<1> QED
  BY <1>3, <1>4

\* No message is ever admitted to the digest lane on or after the day of its
\* direct admission (admitRoute), in whatever order polls and midnights come.
THEOREM LanesStayApart == Spec => []LaneFence
<1>1. Init => LaneInv
  BY DEF Init, NoRecord, LaneInv, LaneFence, DatesPassed
<1>2. Inv /\ LaneInv /\ [Next]_vars => LaneInv'
  BY StepLane
<1>3. LaneInv => LaneFence
  BY DEF LaneInv
<1> QED
  BY <1>1, <1>2, <1>3, Invariant, PTL DEF Spec

-----------------------------------------------------------------------------
(* Quotas.  The counters of today are exact because those of later days    *)
(* are zero and no admission is dated later than today; what a downgrade   *)
(* admits is not critical, because critical items are never denied.        *)

DirectToday == {m \in Msg \ Critical : direct[m].present /\ direct[m].date = today}
DigestToday == {m \in Msg : today \in digested[m]}

Counted ==
  /\ IsFiniteSet(DirectToday) /\ quota[today]["direct"] = Cardinality(DirectToday)
  /\ IsFiniteSet(DigestToday) /\ quota[today]["digest"] = Cardinality(DigestToday)

InQuota == \A l \in Lane : PerDay[l] > 0 => quota[today][l] <= PerDay[l]

NothingAhead ==
  /\ \A m \in Msg : direct[m].present => direct[m].date <= today
  /\ \A d \in Day, l \in Lane : d > today => quota[d][l] = 0

DowngradesAreNotCritical == \A r \in Runner : job[r].at = "downgrade" => job[r].msg \notin Critical

QuotaInv == Counted /\ InQuota /\ NothingAhead /\ DowngradesAreNotCritical

\* A poll alone begins a downgrade, of an item the quota denied.
LEMMA StepDowngrades ==
  ASSUME Inv, DowngradesAreNotCritical, [Next]_vars
  PROVE  DowngradesAreNotCritical'
<1> SUFFICES ASSUME NEW r \in Runner, job'[r].at = "downgrade"
             PROVE  job'[r].msg \notin Critical
  BY DEF DowngradesAreNotCritical
<1>1. job \in [Runner -> Job]
  BY DEF Inv, TypeOK
<1>2. job'[r].at = job[r].at /\ job'[r].msg = job[r].msg => job'[r].msg \notin Critical
  BY DEF DowngradesAreNotCritical
<1>3. Idle.at # "downgrade"
  BY DEF Idle
<1>4. ASSUME NEW q \in Runner, NEW j, job' = [job EXCEPT ![q] = j],
             j.at # "downgrade" \/ j.msg \notin Critical
      PROVE  job'[r].msg \notin Critical
  <2>1. CASE q = r
    BY <1>1, <1>4, <2>1
  <2>2. CASE q # r
    BY <1>1, <1>2, <1>4, <2>2
  <2> QED
    BY <2>1, <2>2
<1>5. ASSUME NEW q \in Runner, Ends(q) PROVE job'[r].msg \notin Critical
  BY <1>3, <1>4, <1>5 DEF Ends
<1>6. ASSUME NEW q \in Runner, NEW m \in Msg, NEW at \in {"claim", "downgrade"},
             Starts(q, m, at), at = "claim" \/ m \notin Critical
      PROVE  job'[r].msg \notin Critical
  <2>1. [Idle EXCEPT !.at = at, !.msg = m].at = at /\ [Idle EXCEPT !.at = at, !.msg = m].msg = m
    BY DEF Idle
  <2>2. "claim" # "downgrade"
    OBVIOUS
  <2> QED
    BY <1>4, <1>6, <2>1, <2>2 DEF Starts
<1>7. ASSUME NEW p \in Poller, Polls(p) PROVE job'[r].msg \notin Critical
  <2>1. p \in Runner
    BY PollersRun
  <2>2. ASSUME NEW m \in Msg, AdmitDenied(p, m) PROVE job'[r].msg \notin Critical
    BY <1>5, <1>6, <2>1, <2>2 DEF AdmitDenied, OverQuota
  <2>3. ASSUME NEW m \in Msg, AdmitKnown(p, m) \/ AdmitDirect(p, m) PROVE job'[r].msg \notin Critical
    BY <1>6, <2>1, <2>3 DEF AdmitKnown, AdmitDirect
  <2>4. ASSUME NEW m \in Msg, EnqueueRoutedDigest(p, m) PROVE job'[r].msg \notin Critical
    BY <1>5, <2>1, <2>4 DEF EnqueueRoutedDigest
  <2> QED
    BY <1>7, <2>2, <2>3, <2>4 DEF Polls
<1>8. ASSUME NEW p \in Poller, Abandon(p) \/ ClaimNothing(p) PROVE job'[r].msg \notin Critical
  BY <1>5, <1>8, PollersRun DEF Abandon, ClaimNothing
<1>9. ASSUME NEW q \in Runner, NEW m \in Msg, NEW t \in Token, NEW closed, Claim(q, m, t, closed)
      PROVE  job'[r].msg \notin Critical
  <2> DEFINE j == [Idle EXCEPT !.at = "fence", !.msg = m, !.token = t, !.left = ClaimTTL,
                     !.todo = Due(direct[m])]
  <2>1. j.at = "fence" /\ job' = [job EXCEPT ![q] = j]
    BY <1>9 DEF Claim, Idle
  <2> HIDE DEF j
  <2> QED
    BY <1>4, <2>1
<1>10. ASSUME NEW p \in Poller, ClaimDirect(p) PROVE job'[r].msg \notin Critical
  <2>1. p \in Runner /\ job[p].msg \in Msg
    BY <1>10, PollersRun, JobOf DEF ClaimDirect
  <2> QED
    BY <1>9, <1>10, <2>1 DEF ClaimDirect
<1>11. CASE ClaimPendingDirect
  BY <1>9, <1>11, PollersRun DEF ClaimPendingDirect
<1>12. ASSUME NEW q \in Runner, NEW at \in {"next", "dispatch", "checkpoint"}, NEW j \in Job,
              job' = [job EXCEPT ![q] = j], j.at = at
       PROVE  job'[r].msg \notin Critical
  BY <1>4, <1>12
<1>13. ASSUME NEW q \in Runner, Delivers(q) PROVE job'[r].msg \notin Critical
  <2>1. job[q] \in Job
    BY <1>1
  <2>2. CASE PassFence(q)
    <3>1. [job[q] EXCEPT !.at = "next"].at = "next"
      BY <2>1 DEF Job
    <3>2. job' = [job EXCEPT ![q] = [job[q] EXCEPT !.at = "next"]]
      BY <1>1, <2>2 DEF PassFence
    <3> QED
      BY <1>4, <3>1, <3>2
  <2>3. CASE ReleaseFenced(q) \/ ReleaseDirect(q)
    BY <1>5, <2>3 DEF ReleaseFenced, ReleaseDirect
  <2>4. ASSUME NEW c \in Channel, Take(q, c) PROVE job'[r].msg \notin Critical
    <3> DEFINE at == IF c \in enabled THEN "dispatch" ELSE "checkpoint"
               j == [job[q] EXCEPT !.todo = job[q].todo \ {c}, !.channel = c, !.at = at,
                       !.result = IF c \in enabled THEN "none" ELSE "gone"]
    <3>1. j.at = at /\ at # "downgrade"
      BY <2>1 DEF Job
    <3>2. job' = [job EXCEPT ![q] = j]
      BY <1>1, <2>4 DEF Take
    <3> HIDE DEF j, at
    <3> QED
      BY <1>4, <3>1, <3>2
  <2>5. ASSUME NEW result \in Results, Reports(q, result) PROVE job'[r].msg \notin Critical
    <3>1. [job[q] EXCEPT !.at = "checkpoint", !.result = result].at = "checkpoint"
      BY <2>1 DEF Job
    <3>2. job' = [job EXCEPT ![q] = [job[q] EXCEPT !.at = "checkpoint", !.result = result]]
      BY <1>1, <2>5 DEF Reports
    <3> QED
      BY <1>4, <3>1, <3>2
  <2>6. CASE DispatchOk(q) \/ DispatchError(q) \/ DispatchSkipped(q)
    <3>1. "ok" \in Results /\ "failed" \in Results
      BY DEF Results
    <3> QED
      BY <2>5, <2>6, <3>1 DEF DispatchOk, DispatchError, DispatchSkipped
  <2>7. CASE Proceeds(q)
    <3>1. [job[q] EXCEPT !.at = "next", !.channel = None, !.result = "none"].at = "next"
      BY <2>1 DEF Job
    <3>2. job' = [job EXCEPT ![q] = [job[q] EXCEPT !.at = "next", !.channel = None, !.result = "none"]]
      BY <1>1, <2>7 DEF Proceeds
    <3> QED
      BY <1>4, <3>1, <3>2
  <2> QED
    BY <1>13, <2>2, <2>3, <2>4, <2>6, <2>7 DEF Delivers, Checkpoint
<1>14. ASSUME NEW q \in Runner, StoreFails(q) PROVE job'[r].msg \notin Critical
  <2>1. job[q] \in Job
    BY <1>1
  <2>2. CASE Proceeds(q)
    <3>1. [job[q] EXCEPT !.at = "next", !.channel = None, !.result = "none"].at = "next"
      BY <2>1 DEF Job
    <3>2. job' = [job EXCEPT ![q] = [job[q] EXCEPT !.at = "next", !.channel = None, !.result = "none"]]
      BY <1>1, <2>2 DEF Proceeds
    <3> QED
      BY <1>4, <3>1, <3>2
  <2> QED
    BY <1>5, <1>14, <2>2 DEF StoreFails
<1>15. CASE Crash
  BY <1>3, <1>15 DEF Crash
<1>16. CASE Tick
  <2>1. job[r] \in Job
    BY <1>1
  <2>2. job'[r] = [job[r] EXCEPT !.left = Dec(job[r].left)]
    BY <1>16 DEF Tick
  <2>3. job'[r].at = job[r].at /\ job'[r].msg = job[r].msg
    BY <2>1, <2>2 DEF Job
  <2> QED
    BY <1>2, <2>3
<1>17. CASE \/ RecoverNothing \/ Stop \/ Cancel \/ Drained \/ Start \/ PurgeRouteAdmissions
            \/ \E c \in Channel : Toggle(c)
            \/ \E m \in Msg : ItemPurged(m)
            \/ UNCHANGED vars
  <2>1. job' = job
    BY <1>17 DEF RecoverNothing, Stop, Cancel, Drained, Start, PurgeRouteAdmissions, Toggle,
                 ItemPurged, vars
  <2> QED
    BY <1>2, <2>1
<1> QED
  BY <1>7, <1>8, <1>10, <1>11, <1>13, <1>14, <1>15, <1>16, <1>17 DEF Next

\* A step that is neither an admission, a purge nor a tick changes no count.
LEMMA UncountedStep ==
  ASSUME Inv, [Next]_vars, ~PurgeRouteAdmissions, ~Tick,
         ~\E p \in Poller, m \in Msg : AdmitDirect(p, m) \/ EnqueueRoutedDigest(p, m)
  PROVE  /\ \A m \in Msg : direct'[m].present = direct[m].present /\ direct'[m].date = direct[m].date
         /\ digested' = digested /\ quota' = quota /\ today' = today
<1>1. digested' = digested /\ quota' = quota /\ today' = today
  <2>1. ASSUME NEW p \in Poller, Polls(p) \/ Abandon(p) \/ ClaimDirect(p) \/ ClaimNothing(p)
        PROVE  digested' = digested /\ quota' = quota /\ today' = today
    BY <2>1 DEF Polls, AdmitKnown, AdmitDenied, Abandon, ClaimDirect, ClaimNothing, Claim,
                admissions, clock
  <2>2. ASSUME NEW r \in Runner, Delivers(r) \/ StoreFails(r)
        PROVE  digested' = digested /\ quota' = quota /\ today' = today
    BY <2>2 DEF Delivers, StoreFails, PassFence, ReleaseFenced, Take, DispatchOk, DispatchError,
                DispatchSkipped, Checkpoint, ReleaseDirect, admissions, clock
  <2>3. CASE \/ ClaimPendingDirect \/ RecoverNothing
             \/ Stop \/ Cancel \/ Drained \/ Crash \/ Start
             \/ \E c \in Channel : Toggle(c)
             \/ \E n \in Msg : ItemPurged(n)
             \/ UNCHANGED vars
    BY <2>3 DEF ClaimPendingDirect, Claim, RecoverNothing, Stop, Cancel, Drained, Crash, Start,
                Toggle, ItemPurged, admissions, clock, vars
  <2> QED
    BY <2>1, <2>2, <2>3 DEF Next
<1>2. ASSUME NEW m \in Msg
      PROVE  direct'[m].present = direct[m].present /\ direct'[m].date = direct[m].date
  <2>1. CASE ~Writes
    BY <2>1, QuietStep DEF SameRecord
  <2>2. ASSUME NEW r \in Runner, Checkpoint(r), HasClaim(r)
        PROVE  direct'[m].present = direct[m].present /\ direct'[m].date = direct[m].date
    <3> DEFINE n == job[r].msg
    <3>1. /\ \A k \in Msg \ {n} : direct'[k] = direct[k]
          /\ direct[n].present /\ direct'[n].present /\ direct'[n].date = direct[n].date
      BY <2>2, CheckpointOutcome
    <3>2. direct[m].present \in BOOLEAN /\ direct'[m].present \in BOOLEAN
      BY StepInv DEF Inv, TypeOK, Record
    <3> HIDE DEF n
    <3> QED
      BY <3>1, <3>2
  <2> QED
    BY <2>1, <2>2 DEF Writes
<1> QED
  BY <1>1, <1>2

\* A charge counts an item that is not critical, and stays within the quota.
LEMMA ChargedOnce ==
  ASSUME Inv, QuotaInv, NEW m \in Msg, NEW lane \in Lane, ~OverQuota(m, lane), quota' = Charged(m, lane)
  PROVE  /\ \A d \in Day, l \in Lane : d # today \/ l # lane => quota'[d][l] = quota[d][l]
         /\ quota'[today][lane] = quota[today][lane] + (IF m \in Critical THEN 0 ELSE 1)
         /\ m \notin Critical /\ PerDay[lane] > 0 => quota'[today][lane] <= PerDay[lane]
<1>1. quota \in [Day -> [Lane -> Nat]] /\ today \in Day /\ PerDay \in [Lane -> Nat]
  BY DirectConstants DEF Inv, TypeOK
<1>2. CASE m \in Critical
  <2>1. quota' = quota /\ quota[today][lane] \in Nat
    BY <1>1, <1>2 DEF Charged
  <2> QED
    BY <1>2, <2>1
<1>3. CASE m \notin Critical
  <2>1. quota' = [quota EXCEPT ![today][lane] = quota[today][lane] + 1]
    BY <1>3 DEF Charged
  <2>2. /\ \A d \in Day, l \in Lane : d # today \/ l # lane => quota'[d][l] = quota[d][l]
        /\ quota'[today][lane] = quota[today][lane] + 1
    BY <1>1, <2>1
  <2>3. quota[today][lane] \in Nat /\ PerDay[lane] \in Nat
    BY <1>1
  <2>4. PerDay[lane] > 0 => quota[today][lane] < PerDay[lane]
    BY <1>3, <2>3 DEF OverQuota
  <2> QED
    BY <1>3, <2>2, <2>3, <2>4
<1> QED
  BY <1>2, <1>3

LEMMA AdmitDirectCounts ==
  ASSUME Inv, QuotaInv, NEW p \in Poller, NEW m \in Msg, AdmitDirect(p, m)
  PROVE  Counted' /\ InQuota' /\ NothingAhead'
<1>1. PICK channels \in ChannelSets :
        /\ direct'[m] = NewRecord(channels)
        /\ \A n \in Msg \ {m} : direct'[n] = direct[n]
        /\ ~direct[m].present
        /\ digested' = digested /\ today' = today
  BY AdmitFields
<1>2. direct'[m].present /\ direct'[m].date = today
  BY <1>1, NewRecordOk DEF Inv
<1>3. "direct" \in Lane /\ "digest" \in Lane /\ today \in Day
  BY DEF Lane, Inv, TypeOK
<1>4. /\ \A d \in Day, l \in Lane : d # today \/ l # "direct" => quota'[d][l] = quota[d][l]
      /\ quota'[today]["direct"] = quota[today]["direct"] + (IF m \in Critical THEN 0 ELSE 1)
      /\ m \notin Critical /\ PerDay["direct"] > 0 => quota'[today]["direct"] <= PerDay["direct"]
  BY <1>3, ChargedOnce DEF AdmitDirect
<1>5. DigestToday' = DigestToday
  BY <1>1 DEF DigestToday
<1>6. CASE m \in Critical
  <2>1. DirectToday' = DirectToday
    BY <1>1, <1>6 DEF DirectToday
  <2>2. \A d \in Day, l \in Lane : quota'[d][l] = quota[d][l]
    <3>1. quota[today]["direct"] \in Nat
      BY <1>3 DEF Inv, TypeOK
    <3> QED
      BY <1>3, <1>4, <1>6, <3>1
  <2> QED
    BY <1>1, <1>2, <1>3, <1>5, <2>1, <2>2 DEF QuotaInv, Counted, InQuota, NothingAhead, Day
<1>7. CASE m \notin Critical
  <2>1. DirectToday' = DirectToday \cup {m} /\ m \notin DirectToday
    BY <1>1, <1>2, <1>7 DEF DirectToday
  <2>2. IsFiniteSet(DirectToday') /\ Cardinality(DirectToday') = Cardinality(DirectToday) + 1
    BY <2>1, FS_AddElement DEF QuotaInv, Counted
  <2>3. Counted'
    BY <1>1, <1>3, <1>4, <1>5, <1>7, <2>2 DEF QuotaInv, Counted
  <2>4. InQuota'
    BY <1>1, <1>3, <1>4, <1>7 DEF QuotaInv, InQuota
  <2>5. NothingAhead'
    BY <1>1, <1>2, <1>3, <1>4 DEF QuotaInv, NothingAhead, Day
  <2> QED
    BY <2>3, <2>4, <2>5
<1> QED
  BY <1>6, <1>7

LEMMA AdmitDigestCounts ==
  ASSUME Inv, QuotaInv, NEW p \in Poller, NEW m \in Msg, EnqueueRoutedDigest(p, m)
  PROVE  Counted' /\ InQuota' /\ NothingAhead'
<1>1. direct' = direct /\ today' = today /\ AdmitDigest(m)
  BY DEF EnqueueRoutedDigest, clock
<1>2. m \notin Critical
  BY PollersRun DEF EnqueueRoutedDigest, QuotaInv, DowngradesAreNotCritical
<1>3. DirectToday' = DirectToday
  BY <1>1 DEF DirectToday
<1>4. "direct" \in Lane /\ "digest" \in Lane /\ today \in Day
  BY DEF Lane, Inv, TypeOK
<1>5. CASE digested' = digested /\ quota' = quota
  <2>1. DigestToday' = DigestToday
    BY <1>1, <1>5 DEF DigestToday
  <2> QED
    BY <1>1, <1>3, <1>5, <2>1 DEF QuotaInv, Counted, InQuota, NothingAhead
<1>6. CASE ~(digested' = digested /\ quota' = quota)
  <2>1. /\ digested' = [digested EXCEPT ![m] = @ \cup {today}]
        /\ quota' = Charged(m, "digest")
        /\ today \notin digested[m] /\ ~OverQuota(m, "digest")
    BY <1>1, <1>6 DEF AdmitDigest, Fenced
  <2>2. /\ \A d \in Day, l \in Lane : d # today \/ l # "digest" => quota'[d][l] = quota[d][l]
        /\ quota'[today]["digest"] = quota[today]["digest"] + 1
        /\ PerDay["digest"] > 0 => quota'[today]["digest"] <= PerDay["digest"]
    BY <1>2, <1>4, <2>1, ChargedOnce
  <2>3. DigestToday' = DigestToday \cup {m} /\ m \notin DigestToday
    <3>1. digested \in [Msg -> SUBSET Day]
      BY DEF Inv, TypeOK
    <3> QED
      BY <1>1, <2>1, <3>1 DEF DigestToday
  <2>4. IsFiniteSet(DigestToday') /\ Cardinality(DigestToday') = Cardinality(DigestToday) + 1
    BY <2>3, FS_AddElement DEF QuotaInv, Counted
  <2>5. Counted'
    BY <1>1, <1>3, <1>4, <2>2, <2>4 DEF QuotaInv, Counted
  <2>6. InQuota'
    BY <1>1, <1>4, <2>2 DEF QuotaInv, InQuota
  <2>7. NothingAhead'
    BY <1>1, <1>4, <2>2 DEF QuotaInv, NothingAhead, Day
  <2> QED
    BY <2>5, <2>6, <2>7
<1> QED
  BY <1>5, <1>6

\* The purge takes only what is older than today, because Retention > 0.
LEMMA PurgeCounts ==
  ASSUME Inv, QuotaInv, PurgeRouteAdmissions
  PROVE  Counted' /\ InQuota' /\ NothingAhead'
<1>1. today \in Day /\ Retention \in Nat /\ Retention > 0 /\ today' = today
  BY Numbers, PurgeFields DEF Inv, TypeOK
<1>2. today - Retention < today /\ today \in Nat
  BY <1>1 DEF Day
<1>3. \A m \in Msg : \/ direct'[m] = direct[m]
                     \/ direct[m].date < today /\ direct'[m] = NoRecord
  BY <1>1, <1>2 DEF PurgeRouteAdmissions, Inv, TypeOK, Record, Day
<1>4. ~NoRecord.present
  BY DEF NoRecord
<1>5. DirectToday' = DirectToday
  <2>1. \A m \in Msg : direct[m].date < today => direct[m].date # today
    BY <1>2 DEF Inv, TypeOK, Record, Day
  <2> QED
    BY <1>1, <1>3, <1>4, <2>1 DEF DirectToday
<1>6. DigestToday' = DigestToday
  BY <1>1, <1>2 DEF DigestToday, PurgeRouteAdmissions
<1>7. quota'[today] = quota[today]
  BY <1>1, <1>2 DEF PurgeRouteAdmissions
<1>8. \A d \in Day, l \in Lane : d > today => quota'[d][l] = quota[d][l]
  BY <1>1, <1>2 DEF PurgeRouteAdmissions, Day
<1> QED
  BY <1>1, <1>3, <1>4, <1>5, <1>6, <1>7, <1>8 DEF QuotaInv, Counted, InQuota, NothingAhead

\* A new day begins with no admission and no charge.
LEMMA TickCounts ==
  ASSUME Inv, QuotaInv, DatesPassed, Tick
  PROVE  Counted' /\ InQuota' /\ NothingAhead'
<1>1. /\ digested' = digested /\ quota' = quota
      /\ \A m \in Msg : direct'[m].present = direct[m].present /\ direct'[m].date = direct[m].date
  <2>1. digested' = digested /\ quota' = quota
    BY DEF Tick
  <2>2. ASSUME NEW m \in Msg
        PROVE  direct'[m].present = direct[m].present /\ direct'[m].date = direct[m].date
    <3> DEFINE w == [c \in Channel |-> Dec(direct[m].wait[c])]
    <3>1. direct[m] \in Record
      BY DEF Inv, TypeOK
    <3>2. direct'[m] = [direct[m] EXCEPT !.lease = Dec(direct[m].lease), !.wait = w]
      BY DEF Tick
    <3> HIDE DEF w
    <3> QED
      BY <3>1, <3>2 DEF Record
  <2> QED
    BY <2>1, <2>2
<1>2. today \in Nat /\ today \in Day /\ (today' = today \/ (today' = today + 1 /\ today' \in Day))
  <2>1. today \in 1..MaxDay /\ MaxDay \in Nat
    BY Numbers DEF Inv, TypeOK, Day
  <2>2. today' = today \/ (today' = today + 1 /\ today < MaxDay)
    BY DEF Tick
  <2> QED
    BY <2>1, <2>2 DEF Day
<1>3. NothingAhead'
  BY <1>1, <1>2 DEF QuotaInv, NothingAhead, Inv, TypeOK, Record, Day
<1>4. CASE today' = today
  BY <1>1, <1>3, <1>4 DEF QuotaInv, Counted, InQuota, DirectToday, DigestToday
<1>5. CASE today' = today + 1
  <2>1. DirectToday' = {}
    BY <1>1, <1>2, <1>5 DEF DirectToday, QuotaInv, NothingAhead
  <2>2. DigestToday' = {}
    BY <1>1, <1>2, <1>5 DEF DigestToday, DatesPassed
  <2>3. \A l \in Lane : quota'[today'][l] = 0
    BY <1>1, <1>2, <1>5 DEF QuotaInv, NothingAhead
  <2>4. Counted'
    BY <2>1, <2>2, <2>3, FS_EmptySet DEF Counted, Lane
  <2>5. InQuota'
    BY <2>3, DirectConstants DEF InQuota
  <2> QED
    BY <1>3, <2>4, <2>5
<1> QED
  BY <1>2, <1>4, <1>5

LEMMA StepQuota ==
  ASSUME Inv, LaneInv, QuotaInv, [Next]_vars
  PROVE  QuotaInv'
<1>1. DowngradesAreNotCritical'
  BY StepDowngrades DEF QuotaInv
<1>2. CASE PurgeRouteAdmissions
  BY <1>1, <1>2, PurgeCounts DEF QuotaInv
<1>3. CASE Tick
  BY <1>1, <1>3, TickCounts DEF QuotaInv, LaneInv
<1>4. ASSUME NEW p \in Poller, NEW m \in Msg, AdmitDirect(p, m) \/ EnqueueRoutedDigest(p, m)
      PROVE  QuotaInv'
  BY <1>1, <1>4, AdmitDirectCounts, AdmitDigestCounts DEF QuotaInv
<1>5. CASE ~PurgeRouteAdmissions /\ ~Tick
           /\ ~\E p \in Poller, m \in Msg : AdmitDirect(p, m) \/ EnqueueRoutedDigest(p, m)
  <2>1. /\ \A m \in Msg : direct'[m].present = direct[m].present /\ direct'[m].date = direct[m].date
        /\ digested' = digested /\ quota' = quota /\ today' = today
    BY <1>5, UncountedStep
  <2>2. DirectToday' = DirectToday /\ DigestToday' = DigestToday
    BY <2>1 DEF DirectToday, DigestToday
  <2> QED
    BY <1>1, <2>1, <2>2 DEF QuotaInv, Counted, InQuota, NothingAhead
<1> QED
  BY <1>2, <1>3, <1>4, <1>5

\* The daily counters (routing quota buckets) are exactly the admissions of
\* the day and never exceed the quota, over retries, downgrades, crashes,
\* purges and midnights.
THEOREM QuotasAreExact == Spec => []QuotaExact
<1>1. Init => LaneInv /\ QuotaInv
  <2> SUFFICES ASSUME Init PROVE LaneInv /\ QuotaInv
    OBVIOUS
  <2>1. LaneInv
    BY DEF Init, NoRecord, LaneInv, LaneFence, DatesPassed
  <2>2. today \in Day /\ \A d \in Day, l \in Lane : quota[d][l] = 0
    BY Numbers DEF Init, Day
  <2>3. DirectToday = {} /\ DigestToday = {}
    BY DEF Init, NoRecord, DirectToday, DigestToday
  <2>4. Counted
    BY <2>2, <2>3, FS_EmptySet DEF Counted, Lane
  <2>5. InQuota
    BY <2>2, DirectConstants DEF InQuota
  <2>6. NothingAhead /\ DowngradesAreNotCritical
    BY <2>2 DEF Init, NoRecord, Idle, NothingAhead, DowngradesAreNotCritical
  <2> QED
    BY <2>1, <2>4, <2>5, <2>6 DEF QuotaInv
<1>2. Inv /\ LaneInv /\ QuotaInv /\ [Next]_vars => LaneInv' /\ QuotaInv'
  BY StepLane, StepQuota
<1>3. QuotaInv => QuotaExact
  BY DEF QuotaInv, Counted, InQuota, QuotaExact, DirectToday, DigestToday
<1> QED
  BY <1>1, <1>2, <1>3, Invariant, PTL DEF Spec

-----------------------------------------------------------------------------
(* The claims of runners.                                                  *)

Claims(r) ==
  /\ Live /\ job[r].token = None
  /\ \E m \in Msg, t \in Token, closed \in SUBSET Leftovers : Claim(r, m, t, closed)

Keeps(r) ==
  /\ job'[r].token = job[r].token
  /\ job[r].token # None =>
       /\ job'[r].msg = job[r].msg
       /\ job'[r].left = job[r].left \/ (Tick /\ job'[r].left = Dec(job[r].left))

GivesBack(r) ==
  /\ job'[r].token = None
  /\ faults' > faults \/ direct' = Released(job[r].msg, job[r].token)

\* A claim begins, is kept, or ends by a release or a fault.
LEMMA RunnerStep ==
  ASSUME Inv, [Next]_vars, NEW r \in Runner
  PROVE  Claims(r) \/ Keeps(r) \/ GivesBack(r)
<1>1. job \in [Runner -> Job] /\ faults \in Nat
  BY DEF Inv, TypeOK
<1>2. job'[r] = job[r] => Keeps(r)
  BY DEF Keeps
<1>3. ASSUME NEW q \in Runner, NEW j, job' = [job EXCEPT ![q] = j],
             \/ j.token = None /\ job[q].token = None
             \/ j.token = job[q].token /\ j.msg = job[q].msg /\ j.left = job[q].left
      PROVE  Keeps(r)
  <2>1. CASE q # r
    BY <1>1, <1>2, <1>3, <2>1
  <2>2. CASE q = r
    <3>1. job'[r] = j
      BY <1>1, <1>3, <2>2
    <3> QED
      BY <1>3, <2>2, <3>1 DEF Keeps
  <2> QED
    BY <2>1, <2>2
<1>4. ASSUME NEW p \in Poller, Polls(p) \/ Abandon(p) \/ ClaimNothing(p)
      PROVE  Keeps(r)
  <2>1. p \in Runner /\ job[p].at \notin Holding /\ job[p].token = None
    <3>1. p \in Runner
      BY PollersRun
    <3>2. job[p].at \notin Holding
      BY <1>4 DEF Polls, AdmitKnown, AdmitDenied, AdmitDirect, EnqueueRoutedDigest, Abandon,
                  ClaimNothing, Holding
    <3> QED
      BY <3>1, <3>2, JobOf DEF JobOk
  <2>2. Ends(p) \/ \E m \in Msg, at \in {"claim", "downgrade"} : Starts(p, m, at)
    BY <1>4 DEF Polls, AdmitKnown, AdmitDenied, AdmitDirect, EnqueueRoutedDigest, Abandon, ClaimNothing
  <2>3. PICK j : job' = [job EXCEPT ![p] = j] /\ j.token = None
    <3>1. CASE Ends(p)
      <4>1. Idle.token = None
        BY DEF Idle
      <4> QED
        BY <3>1, <4>1 DEF Ends
    <3>2. CASE ~Ends(p)
      <4>1. PICK m \in Msg, at \in {"claim", "downgrade"} : Starts(p, m, at)
        BY <2>2, <3>2
      <4>2. [Idle EXCEPT !.at = at, !.msg = m].token = None
        BY DEF Idle
      <4> QED
        BY <4>1, <4>2 DEF Starts
    <3> QED
      BY <3>1, <3>2
  <2> QED
    BY <1>3, <2>1, <2>3
<1>5. ASSUME NEW q \in Runner, NEW m \in Msg, NEW t \in Token, NEW closed \in SUBSET Leftovers,
             Live, job[q].token = None, Claim(q, m, t, closed)
      PROVE  Claims(r) \/ Keeps(r)
  <2>1. CASE q = r
    BY <1>5, <2>1 DEF Claims
  <2>2. CASE q # r
    <3>1. job'[r] = job[r]
      BY <1>5, <2>2, ClaimJob
    <3> QED
      BY <1>2, <3>1
  <2> QED
    BY <2>1, <2>2
<1>6. ASSUME NEW p \in Poller, ClaimDirect(p)
      PROVE  Claims(r) \/ Keeps(r)
  <2>1. p \in Runner /\ job[p].msg \in Msg /\ job[p].token = None /\ Live
    BY <1>6, PollersRun, JobOf DEF ClaimDirect, JobOk, Holding
  <2>2. PICK t \in Token : Claim(p, job[p].msg, t, {})
    BY <1>6 DEF ClaimDirect
  <2> QED
    BY <1>5, <2>1, <2>2
<1>7. ASSUME ClaimPendingDirect
      PROVE  Claims(r) \/ Keeps(r)
  <2>1. Recovery \in Runner /\ job[Recovery].token = None /\ Live
    BY <1>7, PollersRun, JobOf DEF ClaimPendingDirect, JobOk, Holding
  <2>2. PICK m \in Msg, t \in Token, closed \in SUBSET Leftovers : Claim(Recovery, m, t, closed)
    BY <1>7 DEF ClaimPendingDirect
  <2> QED
    BY <1>5, <2>1, <2>2
<1>8. ASSUME NEW q \in Runner, ReleaseFenced(q) \/ ReleaseDirect(q)
      PROVE  Keeps(r) \/ GivesBack(r)
  <2>1. direct' = Released(job[q].msg, job[q].token) /\ job' = [job EXCEPT ![q] = Idle]
    BY <1>8 DEF ReleaseFenced, ReleaseDirect, Ends
  <2>2. CASE q # r
    BY <1>1, <1>2, <2>1, <2>2
  <2>3. CASE q = r
    BY <1>1, <2>1, <2>3 DEF GivesBack, Idle
  <2> QED
    BY <2>2, <2>3
<1>9. ASSUME NEW q \in Runner, Checkpoint(q) \/ (job[q].at = "checkpoint" /\ Proceeds(q))
      PROVE  Keeps(r)
  <2>1. /\ job'[q].token = job[q].token /\ job'[q].msg = job[q].msg /\ job'[q].left = job[q].left
        /\ \A p \in Runner \ {q} : job'[p] = job[p]
    BY <1>9, ProceedsJob DEF Checkpoint
  <2> QED
    BY <1>2, <2>1 DEF Keeps
<1>10. ASSUME NEW q \in Runner,
              \/ PassFence(q) \/ DispatchOk(q) \/ DispatchError(q) \/ DispatchSkipped(q)
              \/ \E c \in Channel : Take(q, c)
       PROVE  Keeps(r)
  <2>1. job[q] \in Job
    BY <1>1
  <2>2. CASE PassFence(q)
    <3> DEFINE j == [job[q] EXCEPT !.at = "next"]
    <3>1. job' = [job EXCEPT ![q] = j]
      BY <2>2 DEF PassFence
    <3>2. j.token = job[q].token /\ j.msg = job[q].msg /\ j.left = job[q].left
      BY <2>1 DEF Job
    <3> QED
      BY <1>3, <3>1, <3>2
  <2>3. CASE DispatchOk(q) \/ DispatchError(q) \/ DispatchSkipped(q)
    <3>1. PICK result \in {"ok", "failed"} :
            job' = [job EXCEPT ![q] = [job[q] EXCEPT !.at = "checkpoint", !.result = result]]
      BY <2>3 DEF DispatchOk, DispatchError, DispatchSkipped, Reports
    <3> DEFINE j == [job[q] EXCEPT !.at = "checkpoint", !.result = result]
    <3>2. j.token = job[q].token /\ j.msg = job[q].msg /\ j.left = job[q].left
      BY <2>1 DEF Job
    <3> QED
      BY <1>3, <3>1, <3>2
  <2>4. ASSUME NEW c \in Channel, Take(q, c)
        PROVE  Keeps(r)
    <3> DEFINE j == [job[q] EXCEPT !.todo = job[q].todo \ {c}, !.channel = c,
                       !.at = IF c \in enabled THEN "dispatch" ELSE "checkpoint",
                       !.result = IF c \in enabled THEN "none" ELSE "gone"]
    <3>1. job' = [job EXCEPT ![q] = j]
      BY <2>4 DEF Take
    <3>2. j.token = job[q].token /\ j.msg = job[q].msg /\ j.left = job[q].left
      BY <2>1 DEF Job
    <3> HIDE DEF j
    <3> QED
      BY <1>3, <3>1, <3>2
  <2> QED
    BY <1>10, <2>2, <2>3, <2>4
<1>11. ASSUME NEW q \in Runner, StoreFails(q)
       PROVE  Keeps(r) \/ GivesBack(r)
  <2>1. faults' > faults
    BY <1>1, <1>11 DEF StoreFails
  <2>2. CASE job[q].at = "checkpoint" /\ Proceeds(q)
    BY <1>9, <2>2
  <2>3. CASE Ends(q)
    <3>1. CASE q # r
      BY <1>1, <1>2, <2>3, <3>1 DEF Ends
    <3>2. CASE q = r
      BY <1>1, <2>1, <2>3, <3>2 DEF Ends, GivesBack, Idle
    <3> QED
      BY <3>1, <3>2
  <2> QED
    BY <1>11, <2>2, <2>3 DEF StoreFails
<1>12. CASE Crash
  BY <1>1, <1>12 DEF Crash, GivesBack, Idle
<1>13. CASE Tick
  <2>1. job'[r] = [job[r] EXCEPT !.left = Dec(@)] /\ job[r] \in Job
    BY <1>1, <1>13 DEF Tick
  <2> QED
    BY <1>13, <2>1 DEF Keeps, Job
<1>14. CASE \/ Stop \/ Cancel \/ Drained \/ Start \/ RecoverNothing \/ PurgeRouteAdmissions
            \/ \E c \in Channel : Toggle(c)
            \/ \E n \in Msg : ItemPurged(n)
            \/ UNCHANGED vars
  <2>1. job' = job
    BY <1>14 DEF Stop, Cancel, Drained, Start, RecoverNothing, PurgeRouteAdmissions, Toggle,
                 ItemPurged, vars
  <2> QED
    BY <1>2, <2>1
<1>15. ASSUME NEW q \in Runner, Delivers(q) PROVE Keeps(r) \/ GivesBack(r)
  BY <1>8, <1>9, <1>10, <1>15 DEF Delivers
<1> QED
  BY <1>4, <1>6, <1>7, <1>11, <1>12, <1>13, <1>14, <1>15 DEF Next

\* A record's token changes by a claim of its message or is cleared.
LEMMA TokenStep ==
  ASSUME Inv, [Next]_vars, NEW m \in Msg
  PROVE  \/ direct'[m].token = direct[m].token
         \/ direct'[m].token = None
         \/ \E r \in Runner : /\ job[r].token = None
                              /\ job'[r].token = direct'[m].token /\ job'[r].msg = m
<1>1. direct \in [Msg -> Record]
  BY DEF Inv, TypeOK
<1>2. ASSUME NEW r \in Runner, NEW n \in Msg, NEW t \in Token, NEW closed \in SUBSET Leftovers,
             job[r].token = None, Claim(r, n, t, closed)
      PROVE  \/ direct'[m].token = direct[m].token
             \/ /\ job'[r].token = direct'[m].token /\ job'[r].msg = m
  <2>1. direct'[n].token = t
    BY <1>2, ClaimEffect
  <2>2. \A k \in Msg \ {n} : direct'[k] = direct[k]
    BY <1>2, ClaimEffect
  <2>3. job'[r].token = t /\ job'[r].msg = n
    BY <1>2, ClaimJob
  <2> QED
    BY <2>1, <2>2, <2>3
<1>3. ASSUME NEW p \in Poller, ClaimDirect(p)
      PROVE  \/ direct'[m].token = direct[m].token
             \/ \E r \in Runner : /\ job[r].token = None
                                  /\ job'[r].token = direct'[m].token /\ job'[r].msg = m
  <2>1. p \in Runner /\ job[p].msg \in Msg /\ job[p].token = None
    BY <1>3, PollersRun, JobOf DEF ClaimDirect, JobOk, Holding
  <2>2. PICK t \in Token : Claim(p, job[p].msg, t, {})
    BY <1>3 DEF ClaimDirect
  <2> QED
    BY <1>2, <2>1, <2>2
<1>4. ASSUME ClaimPendingDirect
      PROVE  \/ direct'[m].token = direct[m].token
             \/ \E r \in Runner : /\ job[r].token = None
                                  /\ job'[r].token = direct'[m].token /\ job'[r].msg = m
  <2>1. Recovery \in Runner /\ job[Recovery].token = None
    BY <1>4, PollersRun, JobOf DEF ClaimPendingDirect, JobOk, Holding
  <2>2. PICK n \in Msg, t \in Token, closed \in SUBSET Leftovers : Claim(Recovery, n, t, closed)
    BY <1>4 DEF ClaimPendingDirect
  <2> QED
    BY <1>2, <2>1, <2>2
<1>5. ASSUME NEW p \in Poller, Polls(p)
      PROVE  direct'[m].token = direct[m].token \/ direct'[m].token = None
  <2>1. CASE direct' = direct
    BY <2>1
  <2>2. ASSUME NEW n \in Msg, AdmitDirect(p, n)
        PROVE  direct'[m].token = direct[m].token \/ direct'[m].token = None
    <3>1. PICK channels \in ChannelSets : direct' = [direct EXCEPT ![n] = NewRecord(channels)]
      BY <2>2 DEF AdmitDirect
    <3>2. NewRecord(channels).token = None
      BY NewRecordOk DEF Inv
    <3> QED
      BY <1>1, <3>1, <3>2
  <2> QED
    BY <1>5, <2>1, <2>2 DEF Polls, AdmitKnown, AdmitDenied, EnqueueRoutedDigest, admissions
<1>6. ASSUME NEW r \in Runner, ReleaseFenced(r) \/ ReleaseDirect(r)
      PROVE  direct'[m].token = direct[m].token \/ direct'[m].token = None
  <2>1. direct' = Released(job[r].msg, job[r].token) /\ job[r].msg \in Msg
    BY <1>6, JobOf DEF ReleaseFenced, ReleaseDirect, Turn
  <2> QED
    BY <1>1, <2>1 DEF Released, Record
<1>7. ASSUME NEW r \in Runner, Checkpoint(r)
      PROVE  direct'[m].token = direct[m].token \/ direct'[m].token = None
  <2>1. CASE ~HasClaim(r)
    <3>1. direct' = direct
      BY <1>7, <2>1, CheckpointEffect
    <3> QED
      BY <3>1
  <2>2. CASE HasClaim(r)
    <3> DEFINE n == job[r].msg
    <3>1. /\ n \in Msg /\ \A k \in Msg \ {n} : direct'[k] = direct[k]
          /\ direct'[n].token = direct[n].token \/ direct'[n].token = None
      BY <1>7, <2>2, CheckpointOutcome
    <3> QED
      BY <3>1
  <2> QED
    BY <2>1, <2>2
<1>8. CASE PurgeRouteAdmissions
  BY <1>8, PurgeFields DEF NoRecord
<1>9. CASE Tick
  BY <1>1, <1>9 DEF Tick, Record
<1>10. ASSUME NEW p \in Poller, Abandon(p) \/ ClaimNothing(p)
       PROVE  direct' = direct
  BY <1>10, ClaimNothingInv
<1>11. ASSUME NEW r \in Runner,
              \/ PassFence(r) \/ DispatchOk(r) \/ DispatchError(r) \/ DispatchSkipped(r)
              \/ \E c \in Channel : Take(r, c)
       PROVE  direct' = direct
  BY <1>11, SendInv
<1>12. ASSUME NEW r \in Runner, StoreFails(r)
       PROVE  direct' = direct
  BY <1>12, StoreFailsInv
<1>13. CASE \/ Stop \/ Cancel \/ Drained \/ Crash \/ Start \/ RecoverNothing
            \/ \E c \in Channel : Toggle(c)
            \/ \E n \in Msg : ItemPurged(n)
            \/ UNCHANGED vars
  <2>1. direct' = direct
    BY <1>13, ProcessInv
  <2> QED
    BY <2>1
<1>14. ASSUME NEW r \in Runner, Delivers(r)
       PROVE  direct'[m].token = direct[m].token \/ direct'[m].token = None
  BY <1>6, <1>7, <1>11, <1>14 DEF Delivers
<1> QED
  BY <1>3, <1>4, <1>5, <1>8, <1>9, <1>10, <1>12, <1>13, <1>14 DEF Next

\* Every claim of a record has a runner, unless a fault took it.
HasHolder(m) == \E r \in Runner : job[r].token = direct[m].token /\ job[r].msg = m

HoldersKnown == faults = 0 => \A m \in Msg : direct[m].token # None => HasHolder(m)

DownIsQuiet == phase = "down" => \A r \in Runner : job[r].token = None

LEMMA PhaseStep ==
  ASSUME Inv, [Next]_vars
  PROVE  /\ faults \in Nat /\ faults' \in Nat /\ faults' >= faults
         /\ phase' = "down" => phase = "down" \/ Drained \/ Crash
<1>1. faults \in Nat
  BY DEF Inv, TypeOK
<1>2. faults' = faults \/ faults' = faults + 1
  BY DEF Next, vars, Polls, AdmitKnown, AdmitDenied, AdmitDirect, EnqueueRoutedDigest, Abandon,
         ClaimDirect, ClaimNothing, Claim, ClaimPendingDirect, RecoverNothing, Delivers, StoreFails,
         PassFence, ReleaseFenced, Take, DispatchOk, DispatchError, DispatchSkipped, Checkpoint,
         ReleaseDirect, Stop, Cancel, Drained, Crash, Start, Toggle, PurgeRouteAdmissions,
         ItemPurged, Tick, budgets
<1>3. phase' = "down" => phase = "down" \/ Drained \/ Crash
  BY DEF Next, vars, Polls, AdmitKnown, AdmitDenied, AdmitDirect, EnqueueRoutedDigest, Abandon,
         ClaimDirect, ClaimNothing, Claim, ClaimPendingDirect, RecoverNothing, Delivers, StoreFails,
         PassFence, ReleaseFenced, Take, DispatchOk, DispatchError, DispatchSkipped, Checkpoint,
         ReleaseDirect, Stop, Cancel, Start, Toggle, PurgeRouteAdmissions, ItemPurged, Tick
<1> QED
  BY <1>1, <1>2, <1>3

LEMMA StepHolders ==
  ASSUME Inv, HoldersKnown, DownIsQuiet, [Next]_vars
  PROVE  HoldersKnown' /\ DownIsQuiet'
<1>1. /\ faults \in Nat /\ faults' \in Nat /\ faults' >= faults
      /\ phase' = "down" => phase = "down" \/ Drained \/ Crash
  BY PhaseStep
<1>2. HoldersKnown'
  <2> SUFFICES ASSUME faults' = 0, NEW m \in Msg, direct'[m].token # None
               PROVE  HasHolder(m)'
    BY DEF HoldersKnown
  <2>1. faults = 0
    BY <1>1
  <2>2. CASE direct'[m].token = direct[m].token
    <3>1. PICK r \in Runner : job[r].token = direct[m].token /\ job[r].msg = m
      BY <2>1, <2>2 DEF HoldersKnown, HasHolder
    <3>2. ~Claims(r)
      BY <2>2, <3>1 DEF Claims
    <3>3. ~GivesBack(r)
      <4>1. SUFFICES ASSUME direct' = Released(m, job[r].token) PROVE FALSE
        BY <2>1, <3>1 DEF GivesBack
      <4>2. direct'[m].token = None
        BY <3>1, <4>1 DEF Released, Inv, TypeOK, Record
      <4> QED
        BY <4>2
    <3>4. Keeps(r)
      BY <3>2, <3>3, RunnerStep
    <3> QED
      BY <2>2, <3>1, <3>4 DEF Keeps, HasHolder
  <2>3. CASE direct'[m].token # direct[m].token
    BY <2>3, TokenStep DEF HasHolder
  <2> QED
    BY <2>2, <2>3
<1>3. DownIsQuiet'
  <2> SUFFICES ASSUME phase' = "down", NEW r \in Runner PROVE job'[r].token = None
    BY DEF DownIsQuiet
  <2>1. CASE phase = "down"
    <3>1. job[r].token = None
      BY <2>1 DEF DownIsQuiet
    <3>2. ~Claims(r)
      BY <2>1 DEF Claims, Live
    <3> QED
      BY <3>1, <3>2, RunnerStep DEF Keeps, GivesBack
  <2>2. CASE Drained
    <3>1. job[r].at = "idle" /\ job' = job
      BY <2>2 DEF Drained
    <3>2. JobOk(job[r])
      BY JobOf
    <3> QED
      BY <3>1, <3>2 DEF JobOk, Holding
  <2>3. CASE Crash
    BY <2>3 DEF Crash, Idle
  <2> QED
    BY <1>1, <2>1, <2>2, <2>3
<1> QED
  BY <1>2, <1>3

\* Stop (internal/core/news_engine.go) closes the store only when no claim is
\* left in it, as long as every write went through.
THEOREM StopsLeaveNoClaim == Spec => []StopLeavesNoClaim
<1>1. Init => HoldersKnown /\ DownIsQuiet
  BY DEF Init, HoldersKnown, DownIsQuiet, NoRecord
<1>2. Inv /\ HoldersKnown /\ DownIsQuiet /\ [Next]_vars => HoldersKnown' /\ DownIsQuiet'
  BY StepHolders
<1>3. HoldersKnown /\ DownIsQuiet => StopLeavesNoClaim
  BY DEF HoldersKnown, HasHolder, DownIsQuiet, StopLeavesNoClaim
<1> QED
  BY <1>1, <1>2, <1>3, Invariant, PTL DEF Spec

-----------------------------------------------------------------------------
(* Deliveries that end before their leases.                                *)

ClaimsLast == \A r \in Runner : job[r].token # None => job[r].left > 0

LEMMA StepLast ==
  ASSUME Timely, Inv, ClaimsLast, [Next]_vars
  PROVE  ClaimsLast'
<1> SUFFICES ASSUME NEW r \in Runner, job'[r].token # None PROVE job'[r].left > 0
  BY DEF ClaimsLast
<1>1. CASE Claims(r)
  <2>1. PICK m \in Msg, t \in Token, closed \in SUBSET Leftovers : Claim(r, m, t, closed)
    BY <1>1 DEF Claims
  <2>2. job'[r].left = ClaimTTL
    BY <2>1, ClaimJob
  <2> QED
    BY <2>2, Numbers
<1>2. CASE Keeps(r)
  <2>1. job[r].left > 0 /\ job[r].left \in Nat
    BY <1>2, JobOf, Numbers DEF Keeps, ClaimsLast
  <2>2. CASE job'[r].left = job[r].left
    BY <2>1, <2>2
  <2>3. CASE Tick /\ job'[r].left = Dec(job[r].left)
    <3>1. job[r].left # 1
      BY <2>3 DEF Tick
    <3> QED
      BY <2>1, <2>3, <3>1 DEF Dec
  <2> QED
    BY <1>2, <2>2, <2>3 DEF Keeps
<1> QED
  BY <1>1, <1>2, RunnerStep DEF GivesBack

\* A runner is about to send only what it took from its list of channels.
LEMMA DispatchComesFromTake ==
  ASSUME Inv, [Next]_vars, NEW r \in Runner, job[r].at = "next", job'[r].at = "dispatch"
  PROVE  job'[r].channel \in job[r].todo
<1>1. job \in [Runner -> Job]
  BY DEF Inv, TypeOK
<1>2. ASSUME NEW q \in Runner, NEW j, job' = [job EXCEPT ![q] = j], j.at # "dispatch"
      PROVE  FALSE
  BY <1>1, <1>2
<1>3. ASSUME job' = job PROVE FALSE
  BY <1>3
<1>4. Idle.at = "idle" /\ \A m \in Msg, at \in Places : [Idle EXCEPT !.at = at, !.msg = m].at = at
  BY DEF Idle
<1>5. ASSUME NEW q \in Runner,
             Ends(q) \/ \E m \in Msg, at \in {"claim", "downgrade"} : Starts(q, m, at)
      PROVE  FALSE
  <2>1. CASE Ends(q)
    BY <1>2, <1>4, <2>1 DEF Ends
  <2>2. ASSUME NEW m \in Msg, NEW at \in {"claim", "downgrade"}, Starts(q, m, at) PROVE FALSE
    <3>1. [Idle EXCEPT !.at = at, !.msg = m].at # "dispatch"
      BY <1>4, <2>2 DEF Places
    <3> QED
      BY <1>2, <2>2, <3>1 DEF Starts
  <2> QED
    BY <1>5, <2>1, <2>2
<1>6. ASSUME NEW q \in Runner, job[q].at = "checkpoint" /\ Proceeds(q) PROVE FALSE
  BY <1>6, ProceedsJob
<1>7. ASSUME NEW q \in Runner, NEW m \in Msg, NEW t \in Token, NEW closed, Claim(q, m, t, closed)
      PROVE  FALSE
  BY <1>7, ClaimJob
<1>8. ASSUME NEW p \in Poller, Polls(p) \/ Abandon(p) \/ ClaimNothing(p) PROVE FALSE
  BY <1>5, <1>8, PollersRun DEF Polls, AdmitKnown, AdmitDenied, AdmitDirect, EnqueueRoutedDigest,
     Abandon, ClaimNothing
<1>9. ASSUME NEW p \in Poller, ClaimDirect(p) PROVE FALSE
  <2>1. p \in Runner /\ job[p].msg \in Msg
    BY <1>9, PollersRun, JobOf DEF ClaimDirect
  <2> QED
    BY <1>7, <1>9, <2>1 DEF ClaimDirect
<1>10. ASSUME ClaimPendingDirect PROVE FALSE
  BY <1>7, <1>10, PollersRun DEF ClaimPendingDirect
<1>11. ASSUME NEW q \in Runner, StoreFails(q) PROVE FALSE
  BY <1>5, <1>6, <1>11 DEF StoreFails
<1>12. ASSUME NEW q \in Runner, Delivers(q), ~\E c \in Channel : Take(q, c) PROVE FALSE
  <2>1. job[q] \in Job
    BY <1>1
  <2>2. CASE PassFence(q)
    <3> DEFINE j == [job[q] EXCEPT !.at = "next"]
    <3>1. job' = [job EXCEPT ![q] = j]
      BY <2>2 DEF PassFence
    <3>2. j.at = "next"
      BY <2>1 DEF Job
    <3> QED
      BY <1>2, <3>1, <3>2
  <2>3. CASE DispatchOk(q) \/ DispatchError(q) \/ DispatchSkipped(q)
    <3>1. PICK result \in {"ok", "failed"} :
            job' = [job EXCEPT ![q] = [job[q] EXCEPT !.at = "checkpoint", !.result = result]]
      BY <2>3 DEF DispatchOk, DispatchError, DispatchSkipped, Reports
    <3> DEFINE j == [job[q] EXCEPT !.at = "checkpoint", !.result = result]
    <3>2. j.at = "checkpoint"
      BY <2>1 DEF Job
    <3> QED
      BY <1>2, <3>1, <3>2
  <2>4. CASE ReleaseFenced(q) \/ ReleaseDirect(q)
    BY <1>5, <2>4 DEF ReleaseFenced, ReleaseDirect
  <2>5. CASE Checkpoint(q)
    BY <1>6, <2>5 DEF Checkpoint
  <2> QED
    BY <1>12, <2>2, <2>3, <2>4, <2>5 DEF Delivers
<1>13. ASSUME NEW q \in Runner, NEW c \in Channel, Take(q, c)
       PROVE  job'[r].channel \in job[r].todo
  <2> DEFINE j == [job[q] EXCEPT !.todo = job[q].todo \ {c}, !.channel = c,
                     !.at = IF c \in enabled THEN "dispatch" ELSE "checkpoint",
                     !.result = IF c \in enabled THEN "none" ELSE "gone"]
  <2>1. job' = [job EXCEPT ![q] = j] /\ c \in job[q].todo
    BY <1>13 DEF Take
  <2>2. j.channel = c
    BY <1>1 DEF Job
  <2> HIDE DEF j
  <2>3. q = r
    BY <1>1, <2>1
  <2> QED
    BY <1>1, <2>1, <2>2, <2>3
<1>14. CASE Tick
  BY <1>1, <1>14 DEF Tick, Job
<1>15. CASE Crash
  BY <1>4, <1>15 DEF Crash
<1>16. CASE \/ Stop \/ Cancel \/ Drained \/ Start \/ RecoverNothing \/ PurgeRouteAdmissions
            \/ \E c \in Channel : Toggle(c)
            \/ \E n \in Msg : ItemPurged(n)
            \/ UNCHANGED vars
  BY <1>3, <1>16 DEF Stop, Cancel, Drained, Start, RecoverNothing, PurgeRouteAdmissions, Toggle,
                     ItemPurged, vars
<1> QED
  BY <1>8, <1>9, <1>10, <1>11, <1>12, <1>13, <1>14, <1>15, <1>16 DEF Next

\* If deliveries end before their leases, no channel that confirmed a message
\* is sent it again (deliverDirectClaim, Timely).
THEOREM ConfirmedNotResent == Timely => (Spec => NoResend)
<1> SUFFICES ASSUME Timely PROVE Spec => NoResend
  OBVIOUS
<1>1. Init => ClaimsLast
  BY DEF Init, Idle, ClaimsLast
<1>2. Inv /\ ClaimsLast /\ [Next]_vars => ClaimsLast'
  BY StepLast
<1>3. Inv /\ ClaimsLast /\ [Next]_vars =>
        [\A r \in Runner :
           job[r].at = "next" /\ job'[r].at = "dispatch" =>
             job'[r].channel \notin direct[job[r].msg].delivered]_vars
  <2> SUFFICES ASSUME Inv, ClaimsLast, [Next]_vars,
                      NEW r \in Runner, job[r].at = "next", job'[r].at = "dispatch"
               PROVE  job'[r].channel \notin direct[job[r].msg].delivered
    OBVIOUS
  <2>1. job'[r].channel \in job[r].todo
    BY DispatchComesFromTake
  <2>2. job[r].token # None /\ job[r].todo \subseteq Channel
    BY JobOf DEF Holding
  <2>3. Sending(r)
    BY <2>1, <2>2 DEF ClaimsLast, Sending
  <2>4. HasClaim(r)
    BY <2>3, SendingOwes
  <2>5. Owed(r) \subseteq Pending(direct[job[r].msg])
    BY <2>4 DEF Inv, ClaimsHold
  <2> QED
    BY <2>1, <2>2, <2>5 DEF Owed, Pending
<1> QED
  BY <1>1, <1>2, <1>3, Invariant, PTL DEF Spec, NoResend

-----------------------------------------------------------------------------
(* The promise.                                                            *)

StageOf(rec) == IF ~rec.present THEN "none" ELSE IF rec.completed THEN "closed" ELSE "open"

OutcomeOf(rec, c) ==
  IF c \in rec.delivered THEN "delivered"
  ELSE IF c \in rec.failed THEN "abandoned"
  ELSE IF c \in rec.channels THEN "open" ELSE "unasked"

\* The refinement mapping, before and after a step.
LEMMA Mapping ==
  /\ Stage = [m \in Msg |-> StageOf(direct[m])]
  /\ Stage' = [m \in Msg |-> StageOf(direct'[m])]
  /\ Outcome = [m \in Msg |-> [c \in Channel |-> OutcomeOf(direct[m], c)]]
  /\ Outcome' = [m \in Msg |-> [c \in Channel |-> OutcomeOf(direct'[m], c)]]
  BY DEF Stage, Outcome, StageOf, OutcomeOf

\* An admission (admitRoute) is the one of the promise.
LEMMA AdmitPromised ==
  ASSUME Inv, NEW p \in Poller, NEW m \in Msg, AdmitDirect(p, m)
  PROVE  \E channels \in SUBSET Channel : Promise!Admit(m, channels)
<1>1. PICK channels \in ChannelSets :
        /\ direct'[m] = NewRecord(channels)
        /\ \A n \in Msg \ {m} : direct'[n] = direct[n]
        /\ ~direct[m].present
  BY AdmitFields
<1>2. channels \in SUBSET Channel /\ channels # {}
  BY DirectConstants
<1> DEFINE new == direct'[m]
<1>3. /\ new.present /\ ~new.completed /\ new.channels = channels
      /\ new.delivered = {} /\ new.failed = {}
  BY <1>1, NewRecordOk DEF Inv
<1>4. Stage[m] = "none" /\ StageOf(new) = "open"
  BY <1>1, <1>3, Mapping DEF StageOf
<1>5. \A c \in Channel : OutcomeOf(new, c) = IF c \in channels THEN "open" ELSE "unasked"
  BY <1>3 DEF OutcomeOf
<1> HIDE DEF new
<1>6. Stage' = [Stage EXCEPT ![m] = "open"]
  BY <1>1, <1>4, Mapping DEF new
<1>7. Outcome' = [Outcome EXCEPT ![m] =
        [c \in Channel |-> IF c \in channels THEN "open" ELSE "unasked"]]
  BY <1>1, <1>5, Mapping DEF new
<1> QED
  BY <1>2, <1>4, <1>6, <1>7 DEF Promise!Admit

\* A checkpoint by the claim the record names (CompleteDirectChannel,
\* FailDirectChannel) settles one open channel or none.
LEMMA CheckpointPromised ==
  ASSUME Inv, Inv', NEW r \in Runner, Checkpoint(r), HasClaim(r)
  PROVE  \/ \E m \in Msg, c \in Channel, how \in {"delivered", "abandoned"} :
              Promise!Settle(m, c, how)
         \/ UNCHANGED <<Stage, Outcome>>
<1> DEFINE m == job[r].msg
           c == job[r].channel
           rec == direct[m]
           new == direct'[m]
<1>1. /\ m \in Msg /\ c \in Pending(rec)
      /\ rec.present /\ ~rec.completed
      /\ \A n \in Msg \ {m} : direct'[n] = direct[n]
      /\ RecordOk(new) /\ new.present /\ new.channels = rec.channels
      /\ Confirms(m, c) \/ GivesUp(m, c) \/ TriesAgain(m)
  BY CheckpointOutcome
<1>2. rec.channels \subseteq Channel /\ c \in Channel
  BY <1>1 DEF Inv, TypeOK, Record, Pending
<1>3. Stage[m] = "open" /\ Outcome[m][c] = "open"
  BY <1>1, <1>2, Mapping DEF StageOf, OutcomeOf, Pending
<1> HIDE DEF m, c
<1>4. StageOf(new) = IF \E d \in Channel : OutcomeOf(new, d) = "open" THEN "open" ELSE "closed"
  <2> HIDE DEF new
  <2>1. \A d \in Channel : OutcomeOf(new, d) = "open" <=> d \in Pending(new)
    BY DEF OutcomeOf, Pending
  <2>2. Pending(new) \subseteq Channel /\ new.channels # {}
    BY <1>1, <1>2 DEF Pending
  <2> QED
    BY <1>1, <2>1, <2>2 DEF StageOf, RecordOk, Finished
<1>5. ASSUME NEW how \in {"delivered", "abandoned"}, OutcomeOf(new, c) = how,
             \A d \in Channel \ {c} : OutcomeOf(new, d) = OutcomeOf(rec, d)
      PROVE  Promise!Settle(m, c, how)
  <2>1. Outcome' = [Outcome EXCEPT ![m][c] = how]
    <3> DEFINE row == [d \in Channel |-> OutcomeOf(new, d)]
    <3>1. Outcome[m] = [d \in Channel |-> OutcomeOf(rec, d)]
      BY <1>1, Mapping
    <3>2. row = [Outcome[m] EXCEPT ![c] = how]
      BY <1>2, <1>5, <3>1
    <3>3. Outcome' = [n \in Msg |-> IF n = m THEN row ELSE Outcome[n]]
      BY <1>1, Mapping
    <3> HIDE DEF row
    <3>4. Outcome' = [Outcome EXCEPT ![m] = row]
      BY <3>3, Mapping
    <3> QED
      BY <3>2, <3>4
  <2>2. Stage' = [Stage EXCEPT ![m] =
          IF \E d \in Channel : Outcome'[m][d] = "open" THEN "open" ELSE "closed"]
    BY <1>1, <1>4, Mapping
  <2> QED
    BY <1>3, <2>1, <2>2 DEF Promise!Settle
<1>6. c \notin rec.delivered /\ c \notin rec.failed
  BY <1>1 DEF Pending
<1>7. CASE Confirms(m, c)
  <2>1. OutcomeOf(new, c) = "delivered"
    BY <1>7 DEF Confirms, OutcomeOf
  <2>2. \A d \in Channel \ {c} : OutcomeOf(new, d) = OutcomeOf(rec, d)
    BY <1>1, <1>7 DEF Confirms, OutcomeOf
  <2> QED
    BY <1>1, <1>2, <1>5, <2>1, <2>2
<1>8. CASE GivesUp(m, c)
  <2>1. OutcomeOf(new, c) = "abandoned"
    BY <1>6, <1>8 DEF GivesUp, OutcomeOf
  <2>2. \A d \in Channel \ {c} : OutcomeOf(new, d) = OutcomeOf(rec, d)
    BY <1>1, <1>8 DEF GivesUp, OutcomeOf
  <2> QED
    BY <1>1, <1>2, <1>5, <2>1, <2>2
<1>9. CASE TriesAgain(m)
  <2>1. \A d \in Channel : OutcomeOf(new, d) = OutcomeOf(rec, d)
    BY <1>1, <1>9 DEF TriesAgain, OutcomeOf
  <2>2. StageOf(new) = "open"
    BY <1>2, <1>3, <1>4, <1>1, <2>1, Mapping
  <2>3. \A n \in Msg, d \in Channel : OutcomeOf(direct'[n], d) = OutcomeOf(direct[n], d)
    BY <1>1, <2>1
  <2>4. \A n \in Msg : StageOf(direct'[n]) = StageOf(direct[n])
    BY <1>1, <1>3, <2>2, Mapping
  <2> QED
    BY <2>3, <2>4, Mapping
<1> QED
  BY <1>1, <1>7, <1>8, <1>9

\* The purge (PurgeRouteAdmissions) forgets completed records only.
LEMMA PurgePromised ==
  ASSUME Inv, PurgeRouteAdmissions
  PROVE  \E S \in SUBSET Msg : Promise!Forget(S)
<1> DEFINE S == {m \in Msg : direct'[m] # direct[m]}
<1>1. /\ \A m \in S : direct[m].completed /\ direct'[m] = NoRecord
      /\ \A m \in Msg \ S : direct'[m] = direct[m]
  BY PurgeFields
<1>2. \A m \in S : direct[m].present
  BY <1>1 DEF Inv, RecordsOk, RecordOk, NoRecord
<1>3. StageOf(NoRecord) = "none" /\ \A c \in Channel : OutcomeOf(NoRecord, c) = "unasked"
  BY DEF StageOf, OutcomeOf, NoRecord
<1> HIDE DEF S
<1>4. S \in SUBSET Msg
  BY DEF S
<1>5. \A m \in S : Stage[m] = "closed"
  BY <1>1, <1>2, <1>4, Mapping DEF StageOf
<1>6. Stage' = [m \in Msg |-> IF m \in S THEN "none" ELSE Stage[m]]
  BY <1>1, <1>3, Mapping
<1>7. Outcome' = [m \in Msg |-> IF m \in S THEN [c \in Channel |-> "unasked"] ELSE Outcome[m]]
  BY <1>1, <1>3, Mapping
<1> QED
  BY <1>4, <1>5, <1>6, <1>7 DEF Promise!Forget

LEMMA StepPromised ==
  ASSUME Inv, Inv', [Next]_vars
  PROVE  [Promise!Next]_<<Stage, Outcome>>
<1>1. CASE ~Writes
  <2>1. \A m \in Msg : SameRecord(m)
    BY <1>1, QuietStep
  <2>2. \A m \in Msg : /\ StageOf(direct'[m]) = StageOf(direct[m])
                       /\ \A c \in Channel : OutcomeOf(direct'[m], c) = OutcomeOf(direct[m], c)
    BY <2>1 DEF SameRecord, StageOf, OutcomeOf
  <2> QED
    BY <2>2, Mapping
<1>2. CASE Writes
  BY <1>2, AdmitPromised, CheckpointPromised, PurgePromised DEF Writes, Promise!Next
<1> QED
  BY <1>1, <1>2

\* Every store transaction of the lane is a step of the promise or invisible
\* in it: a stale claim settles nothing, a record is closed by the step that
\* settles its last channel, and only closed records are purged.
THEOREM LaneKeepsPromise == Spec => KeepsPromise
<1>1. Init => Promise!Init
  BY Mapping DEF Init, Promise!Init, NoRecord, StageOf, OutcomeOf
<1>2. Inv /\ Inv' /\ [Next]_vars => [Promise!Next]_<<Stage, Outcome>>
  BY StepPromised
<1> QED
  BY <1>1, <1>2, Invariant, PTL DEF Spec, KeepsPromise, Promise!Spec, Promise!vars

=============================================================================
