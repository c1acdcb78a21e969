------------------------- MODULE DirectRouteProofs -------------------------
(***************************************************************************)
(* Proofs about DirectRoute, for every set of messages, channels, polls    *)
(* and tokens and every quota and duration: one inductive invariant about  *)
(* records, runners and the claims between them, and what follows from it. *)
(***************************************************************************)
EXTENDS DirectRoute, TLAPS

-----------------------------------------------------------------------------
(* The inductive invariant.                                                *)

\* Records: a channel at the limit is given up, one is never both delivered
\* and given up, and a record is completed exactly when it is finished.
RecordOk(rec) ==
  /\ rec.present => rec.channels # {}
  /\ ~rec.present => rec = NoRecord
  /\ rec.token # None => ~rec.completed
  /\ rec.present => (rec.completed <=> Finished(rec))
  /\ \A c \in Channel : rec.attempts[c] = MaxAttempts => c \in rec.failed
  /\ rec.delivered \cap rec.failed = {}

RecordsOk == \A m \in Msg : RecordOk(direct[m])

Holding == {"fence", "next", "dispatch", "checkpoint"}

\* Runners: what goes with the place a runner is at.
JobOk(j) ==
  /\ j.at # "idle" => j.msg \in Msg
  /\ j.token # None <=> j.at \in Holding
  /\ j.channel # None <=> j.at \in {"dispatch", "checkpoint"}
  /\ j.channel \notin j.todo
  /\ j.token = None => j.todo = {}

JobsOk == \A r \in Runner : JobOk(job[r])

TokensUnique ==
  \A r, q \in Runner : job[r].token # None /\ job[q].token = job[r].token => q = r

HasClaim(r) == job[r].token # None /\ direct[job[r].msg].token = job[r].token

\* The channels a runner has still to settle.
Owed(r) == {c \in Channel : c \in job[r].todo \/ c = job[r].channel}

\* What a runner reports is true of what the channel did.
ReportIsTrue(r) ==
  LET x == <<job[r].msg, job[r].channel>>
  IN  job[r].at = "checkpoint" =>
        /\ job[r].result = "ok" => x \in received \cup absent
        /\ job[r].result = "gone" => x \in absent

\* As long as the record names its claim, what a runner owes is open there.
ClaimsHold ==
  \A r \in Runner : HasClaim(r) =>
    /\ Owed(r) \subseteq Pending(direct[job[r].msg])
    /\ direct[job[r].msg].lease >= job[r].left
    /\ ReportIsTrue(r)

\* And the record names it as long as the lease lasts.
LiveHasClaim == \A r \in Runner : Sending(r) => HasClaim(r)

Inv == TypeOK /\ RecordsOk /\ JobsOk /\ TokensUnique /\ ClaimsHold /\ LiveHasClaim

-----------------------------------------------------------------------------
(* Records and their operators.                                            *)

LEMMA Numbers ==
  /\ ClaimTTL \in Nat /\ ClaimTTL > 0 /\ MaxAttempts \in Nat /\ MaxAttempts > 0
  /\ DayLength \in Nat /\ DayLength > 0 /\ MaxDay \in Nat /\ MaxDay > 0
  /\ Retention \in Nat /\ Retention > 0
  BY DirectConstants

LEMMA DecType ==
  /\ \A n \in Nat : Dec(n) \in Nat /\ Dec(n) <= n /\ (n > 1 => Dec(n) > 0)
  /\ \A n \in 0..ClaimTTL : Dec(n) \in 0..ClaimTTL
  BY Numbers DEF Dec

\* The delay after any number of failures is a number (directBackoff).
LEMMA BackoffType ==
  ASSUME NEW n \in Nat \ {0}
  PROVE  Backoff(n) \in Nat
  BY DEF Backoff

LEMMA NoRecordOk == NoRecord \in Record /\ RecordOk(NoRecord)
  BY Numbers DEF NoRecord, Record, Day, RecordOk

\* What closing a record changes (completeDirectRecord).
LEMMA CloseFields ==
  ASSUME NEW rec \in Record
  PROVE  LET new == CloseIfFinished(rec)
         IN  /\ new \in Record
             /\ new.present = rec.present /\ new.date = rec.date
             /\ new.channels = rec.channels
             /\ new.delivered = rec.delivered /\ new.failed = rec.failed
             /\ new.attempts = rec.attempts /\ new.wait = rec.wait
             /\ Finished(rec) => new.completed /\ new.token = None
             /\ ~Finished(rec) => new = rec
             /\ Finished(rec) => Finished(new)
<1> DEFINE closed == [rec EXCEPT !.completed = TRUE, !.token = None, !.lease = 0]
<1>1. 0 \in 0..ClaimTTL
  BY Numbers
<1>2. closed \in Record
  BY <1>1 DEF Record
<1>3. /\ closed.present = rec.present /\ closed.date = rec.date
      /\ closed.channels = rec.channels
      /\ closed.delivered = rec.delivered /\ closed.failed = rec.failed
      /\ closed.attempts = rec.attempts /\ closed.wait = rec.wait
      /\ closed.completed /\ closed.token = None
  BY DEF Record
<1>4. CloseIfFinished(rec) = IF Finished(rec) THEN closed ELSE rec
  BY DEF CloseIfFinished
<1> HIDE DEF closed
<1>5. Finished(rec) => Finished(closed)
  BY <1>3 DEF Finished, Pending
<1> QED
  BY <1>2, <1>3, <1>4, <1>5

\* A checkpoint settles one open channel, or counts a failure below the
\* limit (CompleteDirectChannel, FailDirectChannel).
LEMMA CloseKeepsOk ==
  ASSUME NEW rec \in Record, rec.present, rec.channels # {}, ~rec.completed,
         \A c \in Channel : rec.attempts[c] = MaxAttempts => c \in rec.failed,
         rec.delivered \cap rec.failed = {}
  PROVE  RecordOk(CloseIfFinished(rec))
<1> DEFINE new == CloseIfFinished(rec)
<1>1. /\ new.present /\ new.channels = rec.channels
      /\ new.delivered = rec.delivered /\ new.failed = rec.failed
      /\ new.attempts = rec.attempts
      /\ Finished(rec) => new.completed /\ new.token = None
      /\ ~Finished(rec) => new = rec
  BY CloseFields
<1>2. Finished(new) <=> Finished(rec)
  BY <1>1 DEF Finished, Pending
<1>3. CASE Finished(rec)
  <2> HIDE DEF new
  <2>1. RecordOk(new)
    BY <1>1, <1>2, <1>3 DEF RecordOk
  <2> QED
    BY <2>1 DEF new
<1>4. CASE ~Finished(rec)
  <2>1. RecordOk(rec)
    BY <1>4 DEF RecordOk
  <2> QED
    BY <1>4, <2>1 DEF CloseIfFinished
<1> QED
  BY <1>3, <1>4

LEMMA SettleFields ==
  ASSUME NEW rec \in Record, RecordOk(rec), rec.present, rec.token # None,
         NEW c \in Pending(rec), NEW new,
         \/ new = CompleteChannel(rec, c)
         \/ \E gone \in BOOLEAN : new = FailChannel(rec, c, gone)
  PROVE  /\ new \in Record /\ RecordOk(new)
         /\ new.present /\ new.channels = rec.channels /\ new.date = rec.date
         /\ rec.delivered \subseteq new.delivered /\ new.delivered \subseteq rec.delivered \cup {c}
         /\ rec.failed \subseteq new.failed /\ new.failed \subseteq rec.failed \cup {c}
         /\ new.token = rec.token \/ new.token = None
         /\ new.token # None => new.lease = rec.lease
         /\ \A d \in Channel \ {c} : new.attempts[d] = rec.attempts[d]
         /\ ~Finished(new) => new.token = rec.token
<1>1. /\ c \in Channel /\ c \notin rec.failed /\ c \notin rec.delivered
      /\ rec.attempts[c] \in 0..MaxAttempts /\ rec.attempts[c] < MaxAttempts
      /\ ~rec.completed /\ ~Finished(rec)
  BY Numbers DEF Pending, Record, RecordOk
<1>2. CASE new = CompleteChannel(rec, c)
  <2> DEFINE r1 == [rec EXCEPT !.delivered = @ \cup {c}]
  <2>1. r1 \in Record
    BY <1>1 DEF Record
  <2>2. /\ r1.present = rec.present /\ r1.date = rec.date /\ r1.channels = rec.channels
        /\ r1.delivered = rec.delivered \cup {c} /\ r1.failed = rec.failed
        /\ r1.attempts = rec.attempts /\ r1.token = rec.token /\ r1.lease = rec.lease
        /\ r1.completed = rec.completed
    BY DEF Record
  <2>3. new = CloseIfFinished(r1)
    BY <1>2 DEF CompleteChannel
  <2> HIDE DEF r1
  <2>4. /\ r1.present /\ r1.channels # {} /\ ~r1.completed
        /\ r1.delivered \cap r1.failed = {}
        /\ \A d \in Channel : r1.attempts[d] = MaxAttempts => d \in r1.failed
    BY <1>1, <2>2 DEF RecordOk
  <2>5. RecordOk(new)
    BY <2>1, <2>3, <2>4, CloseKeepsOk
  <2> QED
    BY <2>1, <2>2, <2>3, <2>5, CloseFields
<1>3. ASSUME NEW gone \in BOOLEAN, new = FailChannel(rec, c, gone) PROVE
         /\ new \in Record /\ RecordOk(new)
         /\ new.present /\ new.channels = rec.channels /\ new.date = rec.date
         /\ new.delivered = rec.delivered
         /\ rec.failed \subseteq new.failed /\ new.failed \subseteq rec.failed \cup {c}
         /\ new.token = rec.token \/ new.token = None
         /\ new.token # None => new.lease = rec.lease
         /\ \A d \in Channel \ {c} : new.attempts[d] = rec.attempts[d]
         /\ ~Finished(new) => new.token = rec.token
  <2> DEFINE n == rec.attempts[c] + 1
             last == gone \/ n >= MaxAttempts
             r1 == [rec EXCEPT !.attempts[c] = n,
                      !.failed = IF last THEN @ \cup {c} ELSE @,
                      !.wait[c] = IF last THEN 0 ELSE Backoff(n)]
  <2>1. n \in 0..MaxAttempts /\ n \in Nat \ {0}
    BY <1>1, Numbers
  <2>2. Backoff(n) \in Nat
    BY <2>1, BackoffType
  <2>3. r1 \in Record
    BY <1>1, <2>1, <2>2 DEF Record
  <2>4. /\ r1.present = rec.present /\ r1.date = rec.date /\ r1.channels = rec.channels
        /\ r1.delivered = rec.delivered
        /\ r1.failed = IF last THEN rec.failed \cup {c} ELSE rec.failed
        /\ r1.attempts = [rec.attempts EXCEPT ![c] = n]
        /\ r1.token = rec.token /\ r1.lease = rec.lease
        /\ r1.completed = rec.completed
    BY DEF Record
  <2>5. new = CloseIfFinished(r1)
    BY <1>3 DEF FailChannel
  <2>6. rec.attempts \in [Channel -> 0..MaxAttempts]
    BY DEF Record
  <2>7. \A d \in Channel : r1.attempts[d] = IF d = c THEN n ELSE rec.attempts[d]
    BY <2>4, <2>6
  <2>8. n = MaxAttempts => last
    BY <2>1
  <2>9. /\ \A d \in Channel : r1.attempts[d] = MaxAttempts => d \in r1.failed
        /\ r1.delivered \cap r1.failed = {}
    BY <1>1, <2>4, <2>7, <2>8 DEF RecordOk
  <2> HIDE DEF r1, n, last
  <2>10. r1.present /\ r1.channels # {} /\ ~r1.completed
    BY <1>1, <2>4 DEF RecordOk
  <2>11. RecordOk(CloseIfFinished(r1))
    BY <2>3, <2>9, <2>10, CloseKeepsOk
  <2>12. /\ new \in Record
         /\ new.present = r1.present /\ new.date = r1.date /\ new.channels = r1.channels
         /\ new.delivered = r1.delivered /\ new.failed = r1.failed
         /\ new.attempts = r1.attempts
         /\ Finished(r1) => new.token = None /\ Finished(new)
         /\ ~Finished(r1) => new = r1
    BY <2>3, <2>5, CloseFields
  <2>13. /\ new.present /\ new.channels = rec.channels /\ new.date = rec.date
         /\ new.delivered = rec.delivered
         /\ rec.failed \subseteq new.failed /\ new.failed \subseteq rec.failed \cup {c}
         /\ \A d \in Channel \ {c} : new.attempts[d] = rec.attempts[d]
    BY <1>1, <2>4, <2>7, <2>10, <2>12
  <2>14. /\ new.token = rec.token \/ new.token = None
         /\ new.token # None => new.lease = rec.lease
         /\ ~Finished(new) => new.token = rec.token
    BY <2>4, <2>12
  <2> QED
    BY <2>5, <2>11, <2>12, <2>13, <2>14
<1> QED
  BY <1>2, <1>3

-----------------------------------------------------------------------------
(* Type correctness.                                                       *)

\* The jobs a runner is given.
LEMMA JobTypes ==
  /\ Idle \in Job
  /\ \A m \in Msg, at \in Places : [Idle EXCEPT !.at = at, !.msg = m] \in Job
  /\ \A m \in Msg, t \in Token, S \in SUBSET Channel :
       [Idle EXCEPT !.at = "fence", !.msg = m, !.token = t, !.left = ClaimTTL, !.todo = S] \in Job
<1>1. 0 \in 0..ClaimTTL /\ ClaimTTL \in 0..ClaimTTL
  BY Numbers
<1> QED
  BY <1>1 DEF Idle, Job, Places, Results

\* Giving one runner a job keeps the others'.
LEMMA OneJob ==
  ASSUME TypeOK, NEW r \in Runner, NEW j \in Job, job' = [job EXCEPT ![r] = j]
  PROVE  job' \in [Runner -> Job] /\ job'[r] = j /\ \A q \in Runner \ {r} : job'[q] = job[q]
  BY DEF TypeOK

\* Going on with a job.
LEMMA JobUpdates ==
  ASSUME NEW j \in Job, NEW at \in Places, NEW c \in Channel, NEW result \in Results
  PROVE  /\ [j EXCEPT !.at = at] \in Job
         /\ [j EXCEPT !.todo = @ \ {c}, !.channel = c, !.at = at, !.result = result] \in Job
         /\ [j EXCEPT !.at = at, !.result = result] \in Job
         /\ [j EXCEPT !.at = at, !.channel = None, !.result = result] \in Job
         /\ [j EXCEPT !.left = Dec(@)] \in Job
<1>1. Dec(j.left) \in 0..ClaimTTL
  BY DecType DEF Job
<1> QED
  BY <1>1 DEF Job

LEMMA PollersRun == Poller \subseteq Runner /\ Recovery \in Runner
  BY DEF Runner

LEMMA InitInv == Init => Inv
<1> SUFFICES ASSUME Init PROVE Inv
  OBVIOUS
<1>1. TypeOK
  <2>1. 1 \in Day /\ 0 \in 0..(DayLength - 1)
    BY Numbers DEF Day
  <2>2. direct \in [Msg -> Record]
    BY NoRecordOk DEF Init
  <2>3. job \in [Runner -> Job]
    BY JobTypes DEF Init
  <2> QED
    BY <2>1, <2>2, <2>3 DEF Init, TypeOK
<1>2. RecordsOk
  BY NoRecordOk DEF Init, RecordsOk
<1>3. \A r \in Runner : job[r] = Idle
  BY DEF Init
<1>4. JobsOk
  BY <1>3, DirectConstants DEF JobsOk, JobOk, Idle, Holding
<1>5. TokensUnique /\ ClaimsHold /\ LiveHasClaim
  BY <1>3 DEF TokensUnique, ClaimsHold, HasClaim, LiveHasClaim, Sending, Idle
<1> QED
  BY <1>1, <1>2, <1>4, <1>5 DEF Inv

\* A new record (admitRoute).
LEMMA NewRecordOk ==
  ASSUME TypeOK, NEW channels \in ChannelSets
  PROVE  /\ NewRecord(channels) \in Record /\ RecordOk(NewRecord(channels))
         /\ NewRecord(channels).token = None
         /\ NewRecord(channels).present /\ ~NewRecord(channels).completed
         /\ NewRecord(channels).channels = channels
         /\ NewRecord(channels).date = today
         /\ NewRecord(channels).delivered = {} /\ NewRecord(channels).failed = {}
<1>1. channels \in SUBSET Channel /\ channels # {} /\ today \in Day
  BY DirectConstants DEF TypeOK
<1>2. NewRecord(channels) \in Record
  BY <1>1, NoRecordOk DEF NewRecord, Record
<1>3. /\ NewRecord(channels).token = None
      /\ NewRecord(channels).present /\ ~NewRecord(channels).completed
      /\ NewRecord(channels).channels = channels
      /\ NewRecord(channels).date = today
      /\ NewRecord(channels).delivered = {} /\ NewRecord(channels).failed = {}
      /\ NewRecord(channels).attempts = [c \in Channel |-> 0]
  BY DEF NewRecord, NoRecord
<1>4. RecordOk(NewRecord(channels))
  BY <1>1, <1>3, Numbers DEF RecordOk, Finished, Pending
<1> QED
  BY <1>2, <1>3, <1>4

\* A record that is claimed, released or aged.
LEMMA RecordUpdates ==
  ASSUME NEW rec \in Record, NEW t \in Token \cup {None}, NEW n \in 0..ClaimTTL,
         NEW w \in [Channel -> Nat]
  PROVE  /\ [rec EXCEPT !.token = t, !.lease = n] \in Record
         /\ [rec EXCEPT !.lease = n, !.wait = w] \in Record
         /\ [rec EXCEPT !.completed = TRUE] \in Record
  BY DEF Record

LEMMA ChargeType ==
  ASSUME TypeOK, NEW m \in Msg, NEW lane \in Lane
  PROVE  Charged(m, lane) \in [Day -> [Lane -> Nat]]
<1>1. quota[today][lane] \in Nat
  BY DEF TypeOK
<1> QED
  BY <1>1 DEF TypeOK, Charged

-----------------------------------------------------------------------------
(* Steps that leave the direct records alone.                              *)

\* Runners may go on, or drop what they were doing, as long as what they
\* report is true.
LEMMA RunnersMove ==
  ASSUME Inv, TypeOK', direct' = direct, received \subseteq received', absent \subseteq absent',
         JobsOk',
         \A r \in Runner : \/ job'[r] = job[r]
                           \/ job'[r].token = None
                           \/ /\ job'[r].token = job[r].token /\ job'[r].msg = job[r].msg
                              /\ job'[r].left = job[r].left /\ Owed(r)' \subseteq Owed(r)
                              /\ ReportIsTrue(r)'
  PROVE  Inv'
<1> USE DEF Inv
<1>1. RecordsOk'
  BY DEF RecordsOk
<1>2. \A r \in Runner : job'[r].token = None \/ job'[r].token = job[r].token
  OBVIOUS
<1>3. TokensUnique'
  BY <1>2 DEF TokensUnique
<1>4. ASSUME NEW r \in Runner, job'[r].token # None
      PROVE  /\ job'[r].msg = job[r].msg /\ job'[r].left = job[r].left
             /\ Owed(r)' \subseteq Owed(r)
             /\ ReportIsTrue(r) => ReportIsTrue(r)'
  BY <1>4 DEF Owed, ReportIsTrue
<1>5. ClaimsHold'
  BY <1>2, <1>4 DEF ClaimsHold, HasClaim
<1>6. LiveHasClaim'
  <2> SUFFICES ASSUME NEW r \in Runner, Sending(r)' PROVE HasClaim(r)'
    BY DEF LiveHasClaim
  <2>1. job'[r].todo # {} \/ job'[r].channel # None
    BY DEF Sending
  <2>2. JobOk(job'[r])
    BY DEF JobsOk
  <2>3. job'[r].token # None
    BY <2>1, <2>2 DEF JobOk, Holding
  <2>4. Owed(r)' # {}
    <3>1. job'[r] \in Job
      BY DEF TypeOK
    <3>2. job'[r].todo \subseteq Channel /\ job'[r].channel \in Channel \cup {None}
      BY <3>1 DEF Job
    <3> QED
      BY <2>1, <3>2 DEF Owed
  <2>5. Owed(r) # {} /\ job[r].left > 0
    BY <1>4, <2>3, <2>4 DEF Sending
  <2>6. Sending(r)
    BY <2>5, DirectConstants DEF Owed, Sending
  <2>7. HasClaim(r)
    BY <2>6 DEF LiveHasClaim
  <2> QED
    BY <1>2, <1>4, <2>3, <2>7 DEF HasClaim
<1> QED
  BY <1>1, <1>3, <1>5, <1>6

\* One runner moves.
LEMMA RunnerMoves ==
  ASSUME Inv, direct' = direct, received \subseteq received', absent \subseteq absent',
         NEW r \in Runner, NEW j \in Job, job' = [job EXCEPT ![r] = j], JobOk(j),
         \/ j.token = None
         \/ /\ j.token = job[r].token /\ j.msg = job[r].msg
            /\ j.left = job[r].left /\ Owed(r)' \subseteq Owed(r)
            /\ ReportIsTrue(r)',
         job' \in [Runner -> Job] => TypeOK'
  PROVE  Inv'
<1>1. job' \in [Runner -> Job] /\ job'[r] = j /\ \A q \in Runner \ {r} : job'[q] = job[q]
  BY OneJob DEF Inv
<1>2. JobsOk'
  BY <1>1 DEF Inv, JobsOk
<1> QED
  BY <1>1, <1>2, RunnersMove

LEMMA IdleOk ==
  /\ JobOk(Idle) /\ Idle.token = None
  /\ \A m \in Msg, at \in {"downgrade", "claim"} :
       LET j == [Idle EXCEPT !.at = at, !.msg = m]
       IN  j \in Job /\ JobOk(j) /\ j.token = None
<1>1. JobOk(Idle) /\ Idle.token = None
  BY DEF Idle, JobOk, Holding
<1>2. ASSUME NEW m \in Msg, NEW at \in {"downgrade", "claim"}, NEW j,
             j = [Idle EXCEPT !.at = at, !.msg = m]
      PROVE  j \in Job /\ JobOk(j) /\ j.token = None
  <2>1. j \in Job
    BY <1>2, JobTypes DEF Places
  <2>2. j.at = at /\ j.msg = m /\ j.token = None /\ j.todo = {} /\ j.channel = None
    BY <1>2 DEF Idle
  <2> QED
    BY <2>1, <2>2 DEF JobOk, Holding
<1> QED
  BY <1>1, <1>2

\* A runner that ends, or a poll that starts, holds no claim.
LEMMA EndsInv ==
  ASSUME Inv, direct' = direct, received' = received, absent' = absent,
         NEW r \in Runner, Ends(r) \/ \E m \in Msg, at \in {"downgrade", "claim"} : Starts(r, m, at),
         job' \in [Runner -> Job] => TypeOK'
  PROVE  Inv'
<1>1. PICK j \in Job : job' = [job EXCEPT ![r] = j] /\ JobOk(j) /\ j.token = None
  <2>1. CASE Ends(r)
    BY <2>1, IdleOk, JobTypes DEF Ends
  <2>2. CASE ~Ends(r)
    <3>1. PICK m \in Msg, at \in {"downgrade", "claim"} : Starts(r, m, at)
      BY <2>2
    <3> DEFINE j == [Idle EXCEPT !.at = at, !.msg = m]
    <3>2. job' = [job EXCEPT ![r] = j]
      BY <3>1 DEF Starts
    <3>3. j \in Job /\ JobOk(j) /\ j.token = None
      BY IdleOk
    <3> QED
      BY <3>2, <3>3
  <2> QED
    BY <2>1, <2>2
<1> QED
  BY <1>1, RunnerMoves

\* With every record completed in time the walks of the two claims find
\* nothing to complete (claimDirectRecord).
LEMMA NoLeftovers ==
  ASSUME RecordsOk
  PROVE  Leftovers = {}
  BY DEF RecordsOk, RecordOk, Leftovers, Claimable

LEMMA PollInv ==
  ASSUME Inv, NEW p \in Poller, NEW m \in Msg,
         AdmitKnown(p, m) \/ AdmitDenied(p, m) \/ EnqueueRoutedDigest(p, m)
  PROVE  Inv'
<1>1. p \in Runner
  BY PollersRun
<1>2. CASE AdmitKnown(p, m)
  BY <1>1, <1>2, EndsInv DEF AdmitKnown, admissions, history, clock, budgets, Inv, TypeOK
<1>3. CASE AdmitDenied(p, m)
  BY <1>1, <1>3, EndsInv DEF AdmitDenied, admissions, history, clock, budgets, Inv, TypeOK
<1>4. CASE EnqueueRoutedDigest(p, m)
  <2>1. /\ digested' \in [Msg -> SUBSET Day]
        /\ queued' \subseteq Msg
        /\ quota' \in [Day -> [Lane -> Nat]]
    <3>1. today \in Day
      BY DEF Inv, TypeOK
    <3>2. CASE UNCHANGED <<digested, quota, queued>>
      BY <3>2 DEF Inv, TypeOK
    <3>3. CASE /\ digested' = [digested EXCEPT ![m] = @ \cup {today}]
               /\ quota' = Charged(m, "digest")
               /\ queued' = queued \cup {m}
      BY <3>1, <3>3, ChargeType DEF Inv, TypeOK, Lane
    <3> QED
      BY <1>4, <3>2, <3>3 DEF EnqueueRoutedDigest, AdmitDigest
  <2>2. /\ direct' = direct /\ received' = received /\ absent' = absent /\ Ends(p)
        /\ job' \in [Runner -> Job] => TypeOK'
    BY <1>4, <2>1 DEF EnqueueRoutedDigest, history, clock, budgets, Inv, TypeOK
  <2> QED
    BY <1>1, <2>2, EndsInv
<1> QED
  BY <1>2, <1>3, <1>4

LEMMA ClaimNothingInv ==
  ASSUME Inv, NEW p \in Poller, Abandon(p) \/ ClaimNothing(p)
  PROVE  Inv' /\ direct' = direct
<1>1. p \in Runner
  BY PollersRun
<1>2. CASE Abandon(p)
  BY <1>1, <1>2, EndsInv DEF Abandon, admissions, history, clock, budgets, Inv, TypeOK
<1>3. CASE ClaimNothing(p)
  <2>1. job[p].msg \in Msg
    BY <1>1, <1>3 DEF ClaimNothing, Inv, JobsOk, JobOk
  <2>2. direct' = direct
    <3>1. direct \in [Msg -> Record]
      BY DEF Inv, TypeOK
    <3>2. direct[job[p].msg] = [direct[job[p].msg] EXCEPT !.completed = @]
      BY <2>1, <3>1 DEF Record
    <3>3. direct[job[p].msg].completed \in BOOLEAN
      BY <2>1, <3>1 DEF Record
    <3>4. direct' = [direct EXCEPT ![job[p].msg].completed = @]
      BY <1>3, <3>3, NoLeftovers DEF ClaimNothing, Inv
    <3> QED
      BY <3>1, <3>2, <3>4
  <2>3. received' = received /\ absent' = absent /\ Ends(p) /\ (job' \in [Runner -> Job] => TypeOK')
    BY <1>3, <2>2 DEF ClaimNothing, history, clock, budgets, Inv, TypeOK
  <2> QED
    BY <1>1, <2>2, <2>3, EndsInv
<1> QED
  BY <1>2, <1>3

LEMMA JobOf ==
  ASSUME Inv, NEW r \in Runner
  PROVE  /\ job[r] \in Job /\ JobOk(job[r])
         /\ job[r].at \in Places
         /\ job[r].at # "idle" => job[r].msg \in Msg
         /\ job[r].at \in Holding => job[r].token \in Token /\ job[r].token # None
         /\ job[r].at \in {"dispatch", "checkpoint"} => job[r].channel \in Channel
         /\ job[r].at \in {"fence", "next"} => job[r].channel = None
         /\ job[r].todo \subseteq Channel
         /\ job[r].left \in 0..ClaimTTL
<1>1. job[r] \in Job /\ JobOk(job[r])
  BY DEF Inv, TypeOK, JobsOk
<1> QED
  BY <1>1 DEF Job, JobOk, Holding

\* A claim on its way to its channels (runDirectClaim, deliverDirectClaim).
LEMMA SendInv ==
  ASSUME Inv, NEW r \in Runner,
         \/ PassFence(r) \/ DispatchOk(r) \/ DispatchError(r) \/ DispatchSkipped(r)
         \/ \E c \in Channel : Take(r, c)
  PROVE  Inv' /\ direct' = direct
<1>0. /\ job[r] \in Job /\ JobOk(job[r])
      /\ job[r].at # "idle" => job[r].msg \in Msg
      /\ job[r].at \in Holding => job[r].token # None
      /\ job[r].at = "dispatch" => job[r].channel \in Channel
  BY JobOf
<1>1. CASE PassFence(r)
  <2> DEFINE j == [job[r] EXCEPT !.at = "next"]
  <2>1. /\ j \in Job /\ JobOk(j) /\ j.at = "next"
        /\ j.token = job[r].token /\ j.msg = job[r].msg /\ j.left = job[r].left
        /\ j.todo = job[r].todo /\ j.channel = job[r].channel
    BY <1>0, <1>1 DEF PassFence, Job, JobOk, Holding, Places
  <2>2. job' = [job EXCEPT ![r] = j]
    BY <1>1 DEF PassFence
  <2> HIDE DEF j
  <2>3. Owed(r)' \subseteq Owed(r) /\ ReportIsTrue(r)'
    BY <2>1, <2>2, OneJob DEF Owed, ReportIsTrue, Inv
  <2>4. /\ UNCHANGED <<direct, received, absent>>
        /\ job' \in [Runner -> Job] => TypeOK'
    BY <1>1 DEF PassFence, admissions, history, clock, budgets, Inv, TypeOK
  <2> QED
    BY <2>1, <2>2, <2>3, <2>4, RunnerMoves
<1>2. ASSUME NEW c \in Channel, Take(r, c) PROVE Inv' /\ direct' = direct
  <2> DEFINE at == IF c \in enabled THEN "dispatch" ELSE "checkpoint"
             result == IF c \in enabled THEN "none" ELSE "gone"
             j == [job[r] EXCEPT !.todo = @ \ {c}, !.channel = c, !.at = at, !.result = result]
  <2>1. c \in job[r].todo /\ job' = [job EXCEPT ![r] = j]
    BY <1>2 DEF Take
  <2>2. at \in Places /\ at \in {"dispatch", "checkpoint"} /\ result \in Results
    BY DEF Places, Results
  <2>3. j \in Job
    BY <1>0, <2>2, JobUpdates
  <2>4. /\ j.at = at /\ j.result = result /\ j.channel = c /\ j.todo = job[r].todo \ {c}
        /\ j.token = job[r].token /\ j.msg = job[r].msg /\ j.left = job[r].left
    BY <1>0 DEF Job
  <2>5. job[r].at = "next" /\ job[r].token # None /\ job[r].msg \in Msg
    BY <1>0, <1>2 DEF Take, Holding
  <2>6. /\ UNCHANGED <<direct, received>> /\ absent \subseteq absent'
        /\ result = "gone" => <<job[r].msg, c>> \in absent'
        /\ absent' \subseteq absent \cup {<<job[r].msg, c>>}
        /\ result # "ok"
    BY <1>2 DEF Take, admissions
  <2>7. absent' \subseteq Msg \X Channel
    BY <2>5, <2>6 DEF Inv, TypeOK
  <2> HIDE DEF j, at, result
  <2>8. JobOk(j)
    BY <1>0, <2>2, <2>4, <2>5, DirectConstants DEF JobOk, Holding
  <2>9. /\ Owed(r)' \subseteq Owed(r)
        /\ ReportIsTrue(r)'
    BY <2>1, <2>3, <2>4, <2>6, OneJob DEF Owed, ReportIsTrue, Inv
  <2>10. job' \in [Runner -> Job] => TypeOK'
    BY <1>2, <2>6, <2>7 DEF Take, admissions, clock, budgets, Inv, TypeOK
  <2> QED
    BY <2>1, <2>3, <2>4, <2>6, <2>8, <2>9, <2>10, RunnerMoves
<1>3. CASE DispatchOk(r) \/ DispatchError(r) \/ DispatchSkipped(r)
  <2>1. PICK result \in {"ok", "failed"} : Reports(r, result)
    BY <1>3 DEF DispatchOk, DispatchError, DispatchSkipped
  <2> DEFINE j == [job[r] EXCEPT !.at = "checkpoint", !.result = result]
  <2>2. job[r].at = "dispatch" /\ job[r].msg \in Msg /\ job[r].channel \in Channel
    BY <1>0, <1>3 DEF DispatchOk, DispatchError, DispatchSkipped
  <2>3. j \in Job /\ job' = [job EXCEPT ![r] = j]
    BY <1>0, <2>1 DEF Reports, Job, Places, Results
  <2>4. /\ j.at = "checkpoint" /\ j.result = result /\ j.channel = job[r].channel
        /\ j.todo = job[r].todo
        /\ j.token = job[r].token /\ j.msg = job[r].msg /\ j.left = job[r].left
    BY <1>0 DEF Job
  <2> HIDE DEF j
  <2>5. JobOk(j)
    BY <1>0, <2>2, <2>4 DEF JobOk, Holding
  <2>6. /\ direct' = direct /\ received \subseteq received' /\ absent \subseteq absent'
        /\ received' \subseteq Msg \X Channel /\ absent' \subseteq Msg \X Channel
    BY <1>3, <2>2 DEF DispatchOk, DispatchError, DispatchSkipped, admissions, Inv, TypeOK
  <2>7. j.result = "ok" => <<j.msg, j.channel>> \in received' \cup absent'
    <3>1. job'[r] = j
      BY <2>3, OneJob DEF Inv
    <3>2. CASE DispatchOk(r) \/ DispatchSkipped(r)
      BY <2>4, <3>2 DEF DispatchOk, DispatchSkipped
    <3>3. CASE DispatchError(r)
      <4>1. job' = [job EXCEPT ![r] = [job[r] EXCEPT !.at = "checkpoint", !.result = "failed"]]
        BY <3>3 DEF DispatchError, Reports
      <4>2. job'[r] = [job[r] EXCEPT !.at = "checkpoint", !.result = "failed"]
        BY <4>1 DEF Inv, TypeOK
      <4>3. job'[r].result = "failed"
        BY <1>0, <4>2 DEF Job
      <4> QED
        BY <3>1, <4>3
    <3> QED
      BY <1>3, <3>2, <3>3
  <2>8. /\ Owed(r)' \subseteq Owed(r)
        /\ ReportIsTrue(r)'
    BY <2>1, <2>3, <2>4, <2>7, OneJob DEF Owed, ReportIsTrue, Inv
  <2>9. job' \in [Runner -> Job] => TypeOK'
    BY <1>3, <2>6 DEF DispatchOk, DispatchError, DispatchSkipped, admissions, clock, budgets, Inv, TypeOK
  <2> QED
    BY <2>3, <2>4, <2>5, <2>6, <2>8, <2>9, RunnerMoves
<1> QED
  BY <1>1, <1>2, <1>3

\* What a runner owes after its checkpoint.
LEMMA ProceedsJob ==
  ASSUME Inv, NEW r \in Runner, job[r].at = "checkpoint", Proceeds(r)
  PROVE  /\ job' \in [Runner -> Job] /\ \A q \in Runner \ {r} : job'[q] = job[q]
         /\ JobOk(job'[r])
         /\ job'[r].at = "next" /\ job'[r].channel = None /\ job'[r].todo = job[r].todo
         /\ job'[r].token = job[r].token /\ job'[r].msg = job[r].msg /\ job'[r].left = job[r].left
<1> DEFINE j == [job[r] EXCEPT !.at = "next", !.channel = None, !.result = "none"]
<1>1. job[r] \in Job /\ JobOk(job[r]) /\ job[r].todo \subseteq Channel /\ job[r].token # None
  BY JobOf DEF Holding
<1>2. j \in Job
  BY <1>1 DEF Job, Places, Results
<1>3. /\ j.at = "next" /\ j.channel = None /\ j.todo = job[r].todo
      /\ j.token = job[r].token /\ j.msg = job[r].msg /\ j.left = job[r].left
  BY <1>1 DEF Job
<1>4. job' = [job EXCEPT ![r] = j]
  BY DEF Proceeds
<1> HIDE DEF j
<1>5. JobOk(j)
  BY <1>1, <1>3, DirectConstants DEF JobOk, Holding
<1> QED
  BY <1>2, <1>3, <1>4, <1>5, OneJob DEF Inv

\* A lost write costs the runner its turn, never more (StoreFails).
LEMMA StoreFailsInv ==
  ASSUME Inv, NEW r \in Runner, StoreFails(r)
  PROVE  Inv' /\ direct' = direct
<1>1. /\ UNCHANGED <<direct, received, absent>>
      /\ job' \in [Runner -> Job] => TypeOK'
  BY DEF StoreFails, admissions, history, clock, Inv, TypeOK
<1>2. CASE Ends(r)
  BY <1>1, <1>2, EndsInv
<1>3. CASE job[r].at = "checkpoint" /\ Proceeds(r)
  <2>1. TypeOK' /\ JobsOk'
    BY <1>1, <1>3, ProceedsJob DEF Inv, JobsOk
  <2>2. Owed(r)' \subseteq Owed(r)
    BY <1>3, ProceedsJob, DirectConstants DEF Owed
  <2>3. ReportIsTrue(r)'
    BY <1>3, ProceedsJob DEF ReportIsTrue
  <2> QED
    BY <1>1, <1>3, <2>1, <2>2, <2>3, ProceedsJob, RunnersMove
<1> QED
  BY <1>2, <1>3 DEF StoreFails

\* The rest of the process.
LEMMA ProcessInv ==
  ASSUME Inv,
         \/ Stop \/ Cancel \/ Drained \/ Crash \/ Start \/ RecoverNothing
         \/ \E c \in Channel : Toggle(c)
         \/ \E m \in Msg : ItemPurged(m)
         \/ UNCHANGED vars
  PROVE  Inv' /\ direct' = direct
<1>1. UNCHANGED <<direct, received, absent>>
  <2>1. CASE RecoverNothing
    <3>1. direct \in [Msg -> Record]
      BY DEF Inv, TypeOK
    <3>2. \A m \in Msg : direct[m] = [direct[m] EXCEPT !.completed = @ \/ m \in Leftovers]
      BY <3>1, NoLeftovers DEF Record, Inv
    <3>3. direct' = [m \in Msg |-> direct[m]]
      BY <2>1, <3>2 DEF RecoverNothing
    <3> QED
      BY <2>1, <3>1, <3>3 DEF RecoverNothing, history
  <2> QED
    BY <2>1 DEF Stop, Cancel, Drained, Crash, Start, Toggle, ItemPurged, admissions, history, vars
<1>2. job' = job \/ job' = [r \in Runner |-> Idle]
  BY DEF Stop, Cancel, Drained, Crash, Start, Toggle, ItemPurged, RecoverNothing, admissions, vars
<1>3. \A r \in Runner : job'[r] = job[r] \/ job'[r] = Idle
  BY <1>2
<1>4. JobsOk'
  BY <1>3, IdleOk DEF JobsOk, Inv
<1>5. job' \in [Runner -> Job]
  BY <1>2, JobTypes DEF Inv, TypeOK
<1>6. TypeOK'
  <2>1. CASE RecoverNothing \/ UNCHANGED vars
    BY <1>1, <1>5, <2>1 DEF RecoverNothing, vars, history, clock, budgets, Inv, TypeOK
  <2>2. CASE Stop \/ Cancel \/ Drained \/ Crash \/ Start
    BY <1>5, <2>2 DEF Stop, Cancel, Drained, Crash, Start, admissions, history, clock, budgets, Inv, TypeOK
  <2>3. CASE \E c \in Channel : Toggle(c)
    BY <1>5, <2>3 DEF Toggle, admissions, history, clock, Inv, TypeOK
  <2>4. CASE \E m \in Msg : ItemPurged(m)
    BY <1>5, <2>4 DEF ItemPurged, history, clock, budgets, Inv, TypeOK
  <2> QED
    BY <2>1, <2>2, <2>3, <2>4
<1> QED
  BY <1>1, <1>3, <1>4, <1>6, IdleOk, RunnersMove

-----------------------------------------------------------------------------
(* Steps that write direct records.                                        *)

\* What a sending runner shares with the job it had before, and what the
\* step gives or takes from its record, is enough for LiveHasClaim.
LEMMA SendingOwes ==
  ASSUME Inv, NEW r \in Runner, Sending(r)
  PROVE  job[r].token # None /\ HasClaim(r) /\ job[r].msg \in Msg /\ Owed(r) # {}
<1>1. job[r].token # None /\ job[r].msg \in Msg
  BY JobOf DEF Sending, JobOk, Holding
<1>2. HasClaim(r)
  BY DEF Inv, LiveHasClaim
<1>3. Owed(r) # {}
  BY JobOf DEF Owed, Sending, Job
<1> QED
  BY <1>1, <1>2, <1>3

\* A checkpoint is written only by the claim the record names, and then
\* settles an open channel (CompleteDirectChannel, FailDirectChannel).
LEMMA CheckpointEffect ==
  ASSUME Inv, NEW r \in Runner, Checkpoint(r), NEW m, m = job[r].msg, NEW c, c = job[r].channel
  PROVE  /\ m \in Msg /\ c \in Channel
         /\ \A n \in Msg \ {m} : direct'[n] = direct[n]
         /\ ~HasClaim(r) => direct' = direct
         /\ HasClaim(r) =>
              /\ c \in Pending(direct[m])
              /\ direct[m].present
              /\ direct' = [direct EXCEPT ![m] = direct'[m]]
              /\ direct'[m] = IF job[r].result = "ok" THEN CompleteChannel(direct[m], c)
                              ELSE FailChannel(direct[m], c, job[r].result = "gone")
<1>1. job[r].at = "checkpoint" /\ m \in Msg /\ c \in Channel /\ job[r].token # None
  BY JobOf DEF Checkpoint, Holding
<1>2. CASE ~HasClaim(r)
  BY <1>1, <1>2 DEF HasClaim, Checkpoint, Owns
<1>3. CASE HasClaim(r)
  <2>1. c \in Pending(direct[m])
    BY <1>1, <1>3 DEF Inv, ClaimsHold, Owed
  <2>2. direct[m].present
    BY <1>1, <1>3 DEF HasClaim, Inv, RecordsOk, RecordOk, NoRecord
  <2>3. direct' = [direct EXCEPT ![m] =
          IF job[r].result = "ok" THEN CompleteChannel(direct[m], c)
          ELSE FailChannel(direct[m], c, job[r].result = "gone")]
    BY <1>1, <1>3 DEF HasClaim, Checkpoint, Owns
  <2>4. direct \in [Msg -> Record]
    BY DEF Inv, TypeOK
  <2> QED
    BY <1>1, <1>3, <2>1, <2>2, <2>3, <2>4
<1> QED
  BY <1>2, <1>3

LEMMA CheckpointInv ==
  ASSUME Inv, NEW r \in Runner, Checkpoint(r)
  PROVE  Inv'
<1> DEFINE m == job[r].msg
           c == job[r].channel
           rec == direct[m]
           new == direct'[m]
<1>1. /\ job' \in [Runner -> Job] /\ \A q \in Runner \ {r} : job'[q] = job[q]
      /\ JobOk(job'[r]) /\ job[r].at = "checkpoint"
      /\ job'[r].at = "next" /\ job'[r].channel = None /\ job'[r].todo = job[r].todo
      /\ job'[r].token = job[r].token /\ job'[r].msg = job[r].msg /\ job'[r].left = job[r].left
  BY ProceedsJob DEF Checkpoint
<1>2. /\ m \in Msg /\ c \in Channel /\ c \notin job[r].todo /\ job[r].todo \subseteq Channel
      /\ job[r].token # None
  BY <1>1, JobOf DEF JobOk, Holding
<1>3. JobsOk'
  BY <1>1 DEF Inv, JobsOk
<1>4. TokensUnique'
  <2>1. \A q \in Runner : job'[q].token = job[q].token
    BY <1>1
  <2> QED
    BY <2>1 DEF TokensUnique, Inv
<1>5. received' = received /\ absent' = absent
  BY DEF Checkpoint, history
<1>6. CASE ~HasClaim(r)
  <2>1. direct' = direct
    BY <1>6, CheckpointEffect
  <2>2. TypeOK'
    BY <1>1, <2>1 DEF Checkpoint, Inv, TypeOK, history, clock, budgets
  <2>3. Owed(r)' \subseteq Owed(r) /\ ReportIsTrue(r)'
    BY <1>1, DirectConstants DEF Owed, ReportIsTrue
  <2> QED
    BY <1>1, <1>3, <1>5, <2>1, <2>2, <2>3, RunnersMove
<1>7. CASE HasClaim(r)
  <2>1. /\ c \in Pending(rec) /\ rec.present /\ rec \in Record /\ RecordOk(rec)
        /\ rec.token = job[r].token /\ rec.token # None
        /\ direct' = [direct EXCEPT ![m] = new]
        /\ \A n \in Msg \ {m} : direct'[n] = direct[n]
    BY <1>2, <1>7, CheckpointEffect DEF HasClaim, Inv, TypeOK, RecordsOk
  <2>2. \/ new = CompleteChannel(rec, c)
        \/ \E gone \in BOOLEAN : new = FailChannel(rec, c, gone)
    <3> DEFINE gone == job[r].result = "gone"
    <3>1. gone \in BOOLEAN
      OBVIOUS
    <3>2. new = IF job[r].result = "ok" THEN CompleteChannel(rec, c) ELSE FailChannel(rec, c, gone)
      BY <1>7, CheckpointEffect
    <3> HIDE DEF gone, rec, new, c
    <3> QED
      BY <3>1, <3>2
  <2> HIDE DEF rec, new
  <2>3. /\ new \in Record /\ RecordOk(new)
        /\ new.channels = rec.channels
        /\ new.delivered \subseteq rec.delivered \cup {c} /\ new.failed \subseteq rec.failed \cup {c}
        /\ new.token = rec.token \/ new.token = None
        /\ new.token # None => new.lease = rec.lease
        /\ new.present
        /\ ~Finished(new) => new.token = rec.token
    BY <2>1, <2>2, SettleFields
  <2> USE DEF rec, new
  <2>4. TypeOK'
    <3>1. direct' \in [Msg -> Record]
      BY <1>2, <2>1, <2>3 DEF Inv, TypeOK
    <3> QED
      BY <1>1, <3>1 DEF Checkpoint, Inv, TypeOK, history, clock, budgets
  <2>5. RecordsOk'
    BY <2>1, <2>3 DEF RecordsOk, Inv
  <2>6. ASSUME NEW q \in Runner, q # r, job[q].msg = m, job[q].token # None
        PROVE  rec.token # job[q].token /\ new.token # job[q].token
    BY <2>1, <2>3, <2>6 DEF Inv, TokensUnique
  <2>7. ASSUME NEW q \in Runner, q # r
        PROVE  /\ HasClaim(q)' <=> HasClaim(q)
               /\ HasClaim(q) => direct'[job[q].msg] = direct[job[q].msg]
    <3>1. CASE job[q].token = None
      BY <1>1, <2>7, <3>1 DEF HasClaim
    <3>2. CASE job[q].token # None /\ job[q].msg = m
      BY <1>1, <2>6, <2>7, <3>2 DEF HasClaim
    <3>3. CASE job[q].token # None /\ job[q].msg # m
      <4>1. job[q].msg \in Msg
        BY <3>3, JobOf DEF JobOk, Holding
      <4> QED
        BY <1>1, <2>1, <2>7, <3>3, <4>1 DEF HasClaim
    <3> QED
      BY <3>1, <3>2, <3>3
  <2>8. Owed(r)' = job[r].todo
    BY <1>1, <1>2, DirectConstants DEF Owed
  <2>9. job[r].todo \subseteq Pending(rec)
    BY <1>2, <1>7 DEF Inv, ClaimsHold, Owed
  <2>10. job[r].todo \subseteq Pending(new)
    BY <1>2, <2>3, <2>9 DEF Pending
  <2>11. ClaimsHold'
    <3> SUFFICES ASSUME NEW q \in Runner, HasClaim(q)'
                 PROVE  (/\ Owed(q) \subseteq Pending(direct[job[q].msg])
                         /\ direct[job[q].msg].lease >= job[q].left
                         /\ ReportIsTrue(q))'
      BY DEF ClaimsHold
    <3>1. CASE q = r
      <4>1. new.token # None /\ new.lease = rec.lease
        BY <1>1, <2>3, <3>1 DEF HasClaim
      <4>2. rec.lease >= job[r].left
        BY <1>7 DEF Inv, ClaimsHold
      <4>3. ReportIsTrue(r)'
        BY <1>1 DEF ReportIsTrue
      <4> QED
        BY <1>1, <2>8, <2>10, <3>1, <4>1, <4>2, <4>3
    <3>2. CASE q # r
      <4>1. HasClaim(q) /\ direct'[job[q].msg] = direct[job[q].msg] /\ job'[q] = job[q]
        BY <1>1, <2>7, <3>2
      <4>2. /\ Owed(q) \subseteq Pending(direct[job[q].msg])
            /\ direct[job[q].msg].lease >= job[q].left
            /\ ReportIsTrue(q)
        BY <4>1 DEF Inv, ClaimsHold
      <4> QED
        BY <1>5, <4>1, <4>2 DEF Owed, ReportIsTrue
    <3> QED
      BY <3>1, <3>2
  <2>12. LiveHasClaim'
    <3> SUFFICES ASSUME NEW q \in Runner, Sending(q)' PROVE HasClaim(q)'
      BY DEF LiveHasClaim
    <3>1. CASE q = r
      <4>1. job[r].todo # {}
        BY <1>1, <3>1 DEF Sending
      <4>2. ~Finished(new)
        BY <2>10, <4>1 DEF Finished
      <4>3. ~new.completed
        BY <2>3, <4>2 DEF RecordOk
      <4>4. new.token = rec.token
        BY <2>3, <4>2
      <4> QED
        BY <1>1, <2>1, <3>1, <4>4 DEF HasClaim
    <3>2. CASE q # r
      <4>1. Sending(q)
        BY <1>1, <3>2 DEF Sending
      <4> QED
        BY <2>7, <3>2, <4>1 DEF Inv, LiveHasClaim
    <3> QED
      BY <3>1, <3>2
  <2> QED
    BY <1>3, <1>4, <2>4, <2>5, <2>11, <2>12 DEF Inv
<1> QED
  BY <1>6, <1>7

\* Giving a claim back: nothing happens to a record another claim holds
\* (ReleaseDirect).
LEMMA ReleaseInv ==
  ASSUME Inv, NEW r \in Runner, ReleaseFenced(r) \/ ReleaseDirect(r)
  PROVE  Inv'
<1> DEFINE m == job[r].msg
           t == job[r].token
<1>1. /\ direct' = Released(m, t) /\ Ends(r) /\ UNCHANGED <<digested, queued, quota, phase, enabled, history, clock, budgets>>
      /\ job[r].at \in {"fence", "next"}
  BY DEF ReleaseFenced, ReleaseDirect, Turn
<1>2. m \in Msg /\ t # None /\ t \in Token
  BY <1>1, JobOf DEF Holding
<1>3. job' \in [Runner -> Job] /\ job'[r] = Idle /\ \A q \in Runner \ {r} : job'[q] = job[q]
  BY <1>1, OneJob, JobTypes DEF Ends, Inv
<1>4. received' = received /\ absent' = absent
  BY <1>1 DEF history
<1>5. CASE direct[m].token # t
  <2>1. direct' = direct
    BY <1>1, <1>5 DEF Released
  <2>2. job' \in [Runner -> Job] => TypeOK'
    BY <1>1, <2>1 DEF history, clock, budgets, Inv, TypeOK
  <2> QED
    BY <1>1, <1>4, <2>1, <2>2, EndsInv
<1>6. CASE direct[m].token = t
  <2> DEFINE new == [direct[m] EXCEPT !.token = None, !.lease = 0]
  <2>1. direct' = [direct EXCEPT ![m] = new]
    BY <1>1, <1>2, <1>6 DEF Released, Inv, TypeOK
  <2>2. direct[m] \in Record /\ RecordOk(direct[m])
    BY <1>2 DEF Inv, TypeOK, RecordsOk
  <2>3. new \in Record
    <3>1. 0 \in 0..ClaimTTL /\ None \in Token \cup {None}
      BY Numbers
    <3>2. direct[m].wait \in [Channel -> Nat]
      BY <2>2 DEF Record
    <3> QED
      BY <2>2, <3>1, <3>2, RecordUpdates
  <2>4. /\ new.present = direct[m].present /\ new.channels = direct[m].channels
        /\ new.delivered = direct[m].delivered /\ new.failed = direct[m].failed
        /\ new.attempts = direct[m].attempts /\ new.completed = direct[m].completed
        /\ new.token = None
    BY <2>2 DEF Record
  <2>5. direct[m].present
    BY <1>2, <1>6, <2>2 DEF RecordOk, NoRecord
  <2> HIDE DEF new
  <2>6. RecordOk(new)
    BY <2>2, <2>4, <2>5 DEF RecordOk, Finished, Pending
  <2>7. direct' \in [Msg -> Record] /\ direct'[m] = new /\ \A n \in Msg \ {m} : direct'[n] = direct[n]
    BY <1>2, <2>1, <2>3 DEF Inv, TypeOK
  <2>8. TypeOK' /\ RecordsOk' /\ JobsOk' /\ TokensUnique'
    <3>1. TypeOK'
      BY <1>1, <1>3, <2>7 DEF Inv, TypeOK, history, clock, budgets
    <3>2. RecordsOk' /\ JobsOk'
      BY <1>3, <2>6, <2>7, IdleOk DEF RecordsOk, JobsOk, Inv
    <3>3. TokensUnique'
      <4>1. \A q \in Runner : job'[q].token # None => job'[q].token = job[q].token
        BY <1>3, IdleOk
      <4> QED
        BY <4>1 DEF TokensUnique, Inv
    <3> QED
      BY <3>1, <3>2, <3>3
  <2>9. ASSUME NEW q \in Runner, job'[q].token # None
        PROVE  /\ job'[q] = job[q] /\ q # r /\ job[q].msg \in Msg
               /\ HasClaim(q) => job[q].msg # m
               /\ HasClaim(q)' <=> HasClaim(q)
    <3>1. q # r /\ job'[q] = job[q]
      BY <1>3, <2>9, IdleOk
    <3>2. job[q].token # t /\ job[q].msg \in Msg
      BY <1>2, <2>9, <3>1, JobOf DEF Inv, TokensUnique, JobOk, Holding
    <3> QED
      BY <1>6, <2>4, <2>7, <2>9, <3>1, <3>2 DEF HasClaim
  <2>10. ClaimsHold'
    <3> SUFFICES ASSUME NEW q \in Runner, HasClaim(q)'
                 PROVE  (/\ Owed(q) \subseteq Pending(direct[job[q].msg])
                         /\ direct[job[q].msg].lease >= job[q].left
                         /\ ReportIsTrue(q))'
      BY DEF ClaimsHold
    <3>1. HasClaim(q) /\ job'[q] = job[q] /\ direct'[job[q].msg] = direct[job[q].msg]
      BY <2>7, <2>9 DEF HasClaim
    <3> QED
      BY <1>4, <3>1 DEF Inv, ClaimsHold, Owed, ReportIsTrue
  <2>11. LiveHasClaim'
    <3> SUFFICES ASSUME NEW q \in Runner, Sending(q)' PROVE HasClaim(q)'
      BY DEF LiveHasClaim
    <3>1. q # r
      BY <1>3 DEF Sending, Idle
    <3>2. Sending(q) /\ job'[q] = job[q]
      BY <1>3, <3>1 DEF Sending
    <3> QED
      BY <2>9, <3>2, SendingOwes
  <2> QED
    BY <2>8, <2>10, <2>11 DEF Inv
<1> QED
  BY <1>5, <1>6

\* A runner whose record is left alone, and whose message's histories are
\* only dropped when no claim of it is left, keeps its claim.
LEMMA OthersKeep ==
  ASSUME Inv, NEW q \in Runner, job'[q] = job[q],
         HasClaim(q) => /\ direct'[job[q].msg] = direct[job[q].msg]
                        /\ \A c \in Channel : /\ <<job[q].msg, c>> \in received => <<job[q].msg, c>> \in received'
                                              /\ <<job[q].msg, c>> \in absent => <<job[q].msg, c>> \in absent'
  PROVE  /\ HasClaim(q) =>
              /\ HasClaim(q)'
              /\ (/\ Owed(q) \subseteq Pending(direct[job[q].msg])
                  /\ direct[job[q].msg].lease >= job[q].left
                  /\ ReportIsTrue(q))'
         /\ Sending(q)' => Sending(q) /\ HasClaim(q)'
<1>1. HasClaim(q) => HasClaim(q)'
  BY DEF HasClaim
<1>2. HasClaim(q) => /\ Owed(q)' = Owed(q) /\ Owed(q) \subseteq Pending(direct[job[q].msg])
                     /\ direct[job[q].msg].lease >= job[q].left
                     /\ ReportIsTrue(q)
  BY DEF Inv, ClaimsHold, Owed
<1>3. HasClaim(q) => ReportIsTrue(q)'
  BY <1>2, JobOf DEF ReportIsTrue
<1>4. Sending(q)' => Sending(q) /\ HasClaim(q)
  BY SendingOwes DEF Sending
<1> QED
  BY <1>1, <1>2, <1>3, <1>4

LEMMA AdmitDirectInv ==
  ASSUME Inv, NEW p \in Poller, NEW m \in Msg, AdmitDirect(p, m)
  PROVE  Inv'
<1> DEFINE j == [Idle EXCEPT !.at = "claim", !.msg = m]
<1>1. PICK channels \in ChannelSets : direct' = [direct EXCEPT ![m] = NewRecord(channels)]
  BY DEF AdmitDirect
<1>2. p \in Runner
  BY PollersRun
<1>3. ~direct[m].present /\ direct[m].token = None
  BY DEF AdmitDirect, Known, Inv, RecordsOk, RecordOk, NoRecord
<1>4. j \in Job /\ JobOk(j) /\ j.token = None /\ job' = [job EXCEPT ![p] = j]
  BY IdleOk DEF AdmitDirect, Starts
<1> HIDE DEF j
<1>5. job' \in [Runner -> Job] /\ job'[p] = j /\ \A q \in Runner \ {p} : job'[q] = job[q]
  BY <1>2, <1>4, OneJob DEF Inv
<1>6. /\ NewRecord(channels) \in Record /\ RecordOk(NewRecord(channels))
      /\ NewRecord(channels).token = None
  BY NewRecordOk DEF Inv
<1>7. /\ direct' \in [Msg -> Record] /\ direct'[m] = NewRecord(channels)
      /\ \A n \in Msg \ {m} : direct'[n] = direct[n]
  BY <1>1, <1>6 DEF Inv, TypeOK
<1>8. /\ received' \subseteq received /\ absent' \subseteq absent
      /\ \A n \in Msg \ {m}, c \in Channel :
           /\ <<n, c>> \in received => <<n, c>> \in received'
           /\ <<n, c>> \in absent => <<n, c>> \in absent'
  BY DEF AdmitDirect
<1>9. TypeOK'
  <2>1. quota' \in [Day -> [Lane -> Nat]]
    BY ChargeType DEF AdmitDirect, Lane, Inv
  <2> QED
    BY <1>5, <1>7, <1>8, <2>1 DEF AdmitDirect, Inv, TypeOK, clock, budgets
<1>10. RecordsOk' /\ JobsOk'
  BY <1>4, <1>5, <1>6, <1>7 DEF RecordsOk, JobsOk, Inv
<1>11. TokensUnique'
  BY <1>4, <1>5 DEF TokensUnique, Inv
<1>12. ASSUME NEW q \in Runner, job'[q].token # None
       PROVE  /\ job'[q] = job[q] /\ job[q].msg \in Msg
              /\ HasClaim(q) => job[q].msg # m
              /\ HasClaim(q)' => HasClaim(q)
  <2>1. q # p /\ job'[q] = job[q]
    BY <1>4, <1>5, <1>12
  <2>2. job[q].msg \in Msg
    BY <1>12, <2>1, JobOf DEF JobOk, Holding
  <2> QED
    BY <1>3, <1>6, <1>7, <1>12, <2>1, <2>2 DEF HasClaim
<1>13. ClaimsHold'
  <2> SUFFICES ASSUME NEW q \in Runner, HasClaim(q)'
               PROVE  (/\ Owed(q) \subseteq Pending(direct[job[q].msg])
                       /\ direct[job[q].msg].lease >= job[q].left
                       /\ ReportIsTrue(q))'
    BY DEF ClaimsHold
  <2>1. HasClaim(q) /\ job[q].msg # m /\ job[q].msg \in Msg /\ job'[q] = job[q]
    BY <1>12 DEF HasClaim
  <2>2. direct'[job[q].msg] = direct[job[q].msg]
    BY <1>7, <2>1
  <2> QED
    BY <1>8, <2>1, <2>2, OthersKeep
<1>14. LiveHasClaim'
  <2> SUFFICES ASSUME NEW q \in Runner, Sending(q)' PROVE HasClaim(q)'
    BY DEF LiveHasClaim
  <2>1. job'[q].token # None
    <3>1. JobOk(job'[q])
      BY <1>10 DEF JobsOk
    <3> QED
      BY <3>1 DEF JobOk, Sending, Holding
  <2>2. job'[q] = job[q] /\ job[q].msg \in Msg /\ (HasClaim(q) => job[q].msg # m)
    BY <1>12, <2>1
  <2>3. HasClaim(q) => direct'[job[q].msg] = direct[job[q].msg]
    BY <1>7, <2>2
  <2> QED
    BY <1>8, <2>2, <2>3, OthersKeep
<1> QED
  BY <1>9, <1>10, <1>11, <1>13, <1>14 DEF Inv

\* A claim writes the record it is for and no other (claimDirectRecord).
LEMMA ClaimEffect ==
  ASSUME Inv, NEW r \in Runner, NEW m \in Msg, NEW t \in Token, NEW closed \in SUBSET Leftovers,
         Claim(r, m, t, closed)
  PROVE  /\ direct'[m] \in Record
         /\ direct[m].present /\ ~direct[m].completed /\ direct[m].lease = 0
         /\ direct'[m].present /\ direct'[m].channels = direct[m].channels
         /\ direct'[m].delivered = direct[m].delivered /\ direct'[m].failed = direct[m].failed
         /\ direct'[m].attempts = direct[m].attempts /\ direct'[m].completed = direct[m].completed
         /\ direct'[m].token = t /\ direct'[m].lease = ClaimTTL
         /\ direct'[m].date = direct[m].date
         /\ \A n \in Msg \ {m} : direct'[n] = direct[n]
         /\ direct' \in [Msg -> Record]
<1> DEFINE new == [direct[m] EXCEPT !.token = t, !.lease = ClaimTTL]
<1>1. closed = {}
  BY NoLeftovers DEF Inv
<1>2. direct \in [Msg -> Record]
  BY DEF Inv, TypeOK
<1>3. direct' = [n \in Msg |-> IF n = m THEN new ELSE direct[n]]
  BY <1>1 DEF Claim
<1>4. direct' = [direct EXCEPT ![m] = new]
  BY <1>2, <1>3
<1>5. new \in Record
  <2>1. ClaimTTL \in 0..ClaimTTL
    BY Numbers
  <2> QED
    BY <1>2, <2>1 DEF Record
<1>6. /\ new.present = direct[m].present /\ new.channels = direct[m].channels
      /\ new.delivered = direct[m].delivered /\ new.failed = direct[m].failed
      /\ new.attempts = direct[m].attempts /\ new.completed = direct[m].completed
      /\ new.date = direct[m].date
      /\ new.token = t /\ new.lease = ClaimTTL
  BY <1>2 DEF Record
<1>7. direct[m].present /\ ~direct[m].completed /\ direct[m].lease = 0
  BY DEF Claim, Claimable
<1> HIDE DEF new
<1>8. direct'[m] = new /\ \A n \in Msg \ {m} : direct'[n] = direct[n]
  BY <1>2, <1>4
<1>9. direct' \in [Msg -> Record]
  BY <1>2, <1>4, <1>5
<1> QED
  BY <1>5, <1>6, <1>7, <1>8, <1>9

\* Its runner sets out with the channels that are due.
LEMMA ClaimJob ==
  ASSUME Inv, NEW r \in Runner, NEW m \in Msg, NEW t \in Token, NEW closed,
         Claim(r, m, t, closed)
  PROVE  /\ job' \in [Runner -> Job] /\ \A q \in Runner \ {r} : job'[q] = job[q]
         /\ JobOk(job'[r])
         /\ job'[r].at = "fence" /\ job'[r].msg = m /\ job'[r].token = t
         /\ job'[r].left = ClaimTTL /\ job'[r].todo = Due(direct[m]) /\ job'[r].channel = None
<1> DEFINE j == [Idle EXCEPT !.at = "fence", !.msg = m, !.token = t, !.left = ClaimTTL,
                   !.todo = Due(direct[m])]
<1>1. Due(direct[m]) \in SUBSET Channel
  BY DEF Due, Pending, Inv, TypeOK, Record
<1>2. j \in Job
  BY <1>1, JobTypes
<1>3. job' = [job EXCEPT ![r] = j]
  BY DEF Claim
<1>4. /\ j.at = "fence" /\ j.msg = m /\ j.token = t /\ j.left = ClaimTTL
      /\ j.todo = Due(direct[m]) /\ j.channel = None
  BY DEF Idle
<1> HIDE DEF j
<1>5. JobOk(j)
  BY <1>1, <1>4, DirectConstants DEF JobOk, Holding
<1> QED
  BY <1>2, <1>3, <1>4, <1>5, OneJob DEF Inv

LEMMA ClaimInv ==
  ASSUME Inv, NEW r \in Runner, NEW m \in Msg, NEW t \in Token, NEW closed \in SUBSET Leftovers,
         Claim(r, m, t, closed)
  PROVE  Inv'
<1>1. /\ direct[m].lease = 0
      /\ direct'[m].present /\ direct'[m].channels = direct[m].channels
      /\ direct'[m].delivered = direct[m].delivered /\ direct'[m].failed = direct[m].failed
      /\ direct'[m].attempts = direct[m].attempts /\ direct'[m].completed = direct[m].completed
      /\ direct'[m].token = t /\ direct'[m].lease = ClaimTTL
      /\ \A n \in Msg \ {m} : direct'[n] = direct[n]
      /\ direct' \in [Msg -> Record]
      /\ direct[m].present /\ ~direct[m].completed
  BY ClaimEffect
<1>2. /\ job' \in [Runner -> Job] /\ \A q \in Runner \ {r} : job'[q] = job[q]
      /\ JobOk(job'[r])
      /\ job'[r].at = "fence" /\ job'[r].msg = m /\ job'[r].token = t
      /\ job'[r].left = ClaimTTL /\ job'[r].todo = Due(direct[m]) /\ job'[r].channel = None
  BY ClaimJob
<1>3. t # None
  BY DirectConstants
<1>4. \A n \in Msg : direct[n].token # t
  BY DEF Claim, Unused
<1>5. \A q \in Runner : job[q].token # t
  BY DEF Claim, Unused
<1>6. received' = received /\ absent' = absent
  BY DEF Claim, history
<1>7. TypeOK'
  BY <1>1, <1>2 DEF Claim, Inv, TypeOK, history, clock, budgets
<1>8. RecordsOk'
  <2>1. RecordOk(direct[m])
    BY DEF Inv, RecordsOk
  <2>2. RecordOk(direct'[m])
    BY <1>1, <2>1 DEF RecordOk, Finished, Pending
  <2> QED
    BY <1>1, <2>2 DEF RecordsOk, Inv
<1>9. JobsOk'
  BY <1>2 DEF JobsOk, Inv
<1>10. TokensUnique'
  BY <1>2, <1>5 DEF TokensUnique, Inv
<1>11. ASSUME NEW q \in Runner, q # r, job[q].msg = m
       PROVE  ~HasClaim(q)' /\ ~Sending(q)'
  <2>1. job'[q] = job[q]
    BY <1>2, <1>11
  <2>2. ~HasClaim(q)'
    BY <1>1, <1>5, <1>11, <2>1 DEF HasClaim
  <2>3. ASSUME Sending(q) PROVE FALSE
    <3>1. direct[m].lease >= job[q].left
      BY <1>11, <2>3, SendingOwes DEF Inv, ClaimsHold
    <3>2. direct[m].lease = 0 /\ job[q].left > 0
      BY <1>1, <2>3 DEF Sending
    <3>3. job[q].left \in Nat
      BY JobOf
    <3> QED
      BY <3>1, <3>2, <3>3
  <2> QED
    BY <2>1, <2>2, <2>3 DEF Sending
<1>12. /\ Owed(r)' \subseteq Pending(direct'[m])
       /\ direct'[m].lease >= job'[r].left /\ ReportIsTrue(r)' /\ job'[r].msg = m
       /\ HasClaim(r)'
  <2>1. Owed(r)' \subseteq Due(direct[m])
    BY <1>2, DirectConstants DEF Owed
  <2>2. Pending(direct'[m]) = Pending(direct[m])
    BY <1>1 DEF Pending
  <2>3. direct'[m].lease >= job'[r].left
    BY <1>1, <1>2, Numbers
  <2>4. ReportIsTrue(r)'
    BY <1>2 DEF ReportIsTrue
  <2>5. HasClaim(r)'
    BY <1>1, <1>2, <1>3 DEF HasClaim
  <2> QED
    BY <1>2, <2>1, <2>2, <2>3, <2>4, <2>5 DEF Due
<1>13. ASSUME NEW q \in Runner, q # r, job[q].msg # m
       PROVE  /\ job'[q] = job[q]
              /\ HasClaim(q) => direct'[job[q].msg] = direct[job[q].msg]
              /\ HasClaim(q)' => HasClaim(q)
  <2>1. job'[q] = job[q]
    BY <1>2, <1>13
  <2>2. CASE job[q].token = None
    BY <2>1, <2>2 DEF HasClaim
  <2>3. CASE job[q].token # None
    <3>1. job[q].msg \in Msg
      BY <2>3, JobOf DEF JobOk, Holding
    <3>2. direct'[job[q].msg] = direct[job[q].msg]
      BY <1>1, <1>13, <3>1
    <3> QED
      BY <2>1, <3>2 DEF HasClaim
  <2> QED
    BY <2>2, <2>3
<1>14. ClaimsHold'
  <2> SUFFICES ASSUME NEW q \in Runner, HasClaim(q)'
               PROVE  (/\ Owed(q) \subseteq Pending(direct[job[q].msg])
                       /\ direct[job[q].msg].lease >= job[q].left
                       /\ ReportIsTrue(q))'
    BY DEF ClaimsHold
  <2>1. CASE q = r
    BY <1>12, <2>1
  <2>2. CASE q # r
    BY <1>6, <1>11, <1>13, <2>2, OthersKeep
  <2> QED
    BY <2>1, <2>2
<1>15. LiveHasClaim'
  <2> SUFFICES ASSUME NEW q \in Runner, Sending(q)' PROVE HasClaim(q)'
    BY DEF LiveHasClaim
  <2>1. CASE q = r
    BY <1>12, <2>1
  <2>2. CASE q # r
    BY <1>6, <1>11, <1>13, <2>2, OthersKeep
  <2> QED
    BY <2>1, <2>2
<1> QED
  BY <1>7, <1>8, <1>9, <1>10, <1>14, <1>15 DEF Inv

\* A record with a claim is not completed, so the purge spares it.
LEMMA PurgeInv ==
  ASSUME Inv, PurgeRouteAdmissions
  PROVE  Inv'
<1>1. \A m \in Msg : direct'[m] = direct[m] \/ (direct[m].completed /\ direct'[m] = NoRecord)
  BY DEF PurgeRouteAdmissions
<1>2. job' = job /\ received' = received /\ absent' = absent
  BY DEF PurgeRouteAdmissions, history
<1>3. TypeOK'
  <2>1. direct' \in [Msg -> Record]
    BY NoRecordOk DEF PurgeRouteAdmissions, Inv, TypeOK
  <2>2. digested' \in [Msg -> SUBSET Day]
    BY DEF PurgeRouteAdmissions, Inv, TypeOK
  <2>3. quota' \in [Day -> [Lane -> Nat]]
    BY DEF PurgeRouteAdmissions, Inv, TypeOK
  <2> QED
    BY <1>2, <2>1, <2>2, <2>3 DEF PurgeRouteAdmissions, Inv, TypeOK, clock, budgets
<1>4. RecordsOk'
  BY <1>1, NoRecordOk DEF RecordsOk, Inv
<1>5. JobsOk' /\ TokensUnique'
  BY <1>2 DEF JobsOk, TokensUnique, Inv
<1>6. ASSUME NEW q \in Runner
      PROVE  /\ HasClaim(q) => direct'[job[q].msg] = direct[job[q].msg]
             /\ HasClaim(q)' => HasClaim(q)
  <2>1. CASE job[q].token = None
    BY <1>2, <2>1 DEF HasClaim
  <2>2. CASE job[q].token # None
    <3>1. job[q].msg \in Msg
      BY <2>2, JobOf DEF JobOk, Holding
    <3>2. HasClaim(q) => ~direct[job[q].msg].completed
      BY <3>1 DEF HasClaim, Inv, RecordsOk, RecordOk
    <3> QED
      BY <1>1, <1>2, <3>1, <3>2 DEF HasClaim, NoRecord
  <2> QED
    BY <2>1, <2>2
<1>7. ClaimsHold'
  BY <1>2, <1>6, OthersKeep DEF ClaimsHold
<1>8. LiveHasClaim'
  BY <1>2, <1>6, OthersKeep DEF LiveHasClaim
<1> QED
  BY <1>3, <1>4, <1>5, <1>7, <1>8 DEF Inv

\* Leases of records and of runners run out together.
LEMMA TickInv ==
  ASSUME Inv, Tick
  PROVE  Inv'
<1>1. direct \in [Msg -> Record] /\ job \in [Runner -> Job]
  BY DEF Inv, TypeOK
<1> DEFINE rec(m) == [direct[m] EXCEPT !.lease = Dec(@),
                        !.wait = [c \in Channel |-> Dec(direct[m].wait[c])]]
           j(r) == [job[r] EXCEPT !.left = Dec(@)]
<1>2. ASSUME NEW m \in Msg
      PROVE  /\ rec(m) \in Record
             /\ rec(m).present = direct[m].present /\ rec(m).channels = direct[m].channels
             /\ rec(m).delivered = direct[m].delivered /\ rec(m).failed = direct[m].failed
             /\ rec(m).attempts = direct[m].attempts /\ rec(m).completed = direct[m].completed
             /\ rec(m).token = direct[m].token /\ rec(m).lease = Dec(direct[m].lease)
  <2>1. direct[m] \in Record
    BY <1>1
  <2>2. /\ direct[m].lease \in 0..ClaimTTL
        /\ direct[m].wait \in [Channel -> Nat]
    BY <2>1 DEF Record
  <2>3. /\ Dec(direct[m].lease) \in 0..ClaimTTL
        /\ [c \in Channel |-> Dec(direct[m].wait[c])] \in [Channel -> Nat]
    BY <2>2, DecType
  <2> QED
    BY <2>1, <2>3 DEF Record
<1>3. ASSUME NEW r \in Runner
      PROVE  /\ j(r) \in Job /\ j(r).left = Dec(job[r].left)
             /\ j(r).at = job[r].at /\ j(r).msg = job[r].msg /\ j(r).token = job[r].token
             /\ j(r).todo = job[r].todo /\ j(r).channel = job[r].channel
             /\ j(r).result = job[r].result
  <2>1. job[r] \in Job
    BY <1>1
  <2>2. Dec(job[r].left) \in 0..ClaimTTL
    BY <2>1, DecType DEF Job
  <2> QED
    BY <2>1, <2>2 DEF Job
<1>4. /\ direct' = [m \in Msg |-> rec(m)] /\ job' = [r \in Runner |-> j(r)]
      /\ received' = received /\ absent' = absent
  BY DEF Tick, history
<1> HIDE DEF rec, j
<1>5. /\ \A m \in Msg : direct'[m] = rec(m)
      /\ \A r \in Runner : job'[r] = j(r)
      /\ direct' \in [Msg -> Record] /\ job' \in [Runner -> Job]
  BY <1>2, <1>3, <1>4
<1>6. TypeOK'
  <2>1. hour' \in 0..(DayLength - 1)
    <3>1. hour \in Nat
      BY Numbers DEF Inv, TypeOK
    <3>2. hour' = (hour + 1) % DayLength
      BY Zenon DEF Tick
    <3>3. DayLength \in Nat /\ DayLength > 0
      BY Numbers
    <3> QED
      BY <3>1, <3>2, <3>3
  <2>2. today' \in Day
    <3>1. today \in Nat /\ today >= 1 /\ today <= MaxDay /\ MaxDay \in Nat
      BY Numbers DEF Inv, TypeOK, Day
    <3>2. today' = today \/ (today < MaxDay /\ today' = today + 1)
      BY DEF Tick
    <3> QED
      BY <3>1, <3>2 DEF Day
  <2> QED
    BY <1>4, <1>5, <2>1, <2>2 DEF Tick, Inv, TypeOK, budgets
<1>7. RecordsOk'
  <2> SUFFICES ASSUME NEW m \in Msg PROVE RecordOk(direct'[m])
    BY DEF RecordsOk
  <2>1. RecordOk(direct[m])
    BY DEF Inv, RecordsOk
  <2>2. CASE direct[m].present
    <3>1. Finished(rec(m)) <=> Finished(direct[m])
      BY <1>2 DEF Finished, Pending
    <3>2. RecordOk(rec(m))
      BY <1>2, <2>1, <2>2, <3>1 DEF RecordOk
    <3> QED
      BY <1>5, <3>2
  <2>3. CASE ~direct[m].present
    <3>1. direct[m] = NoRecord
      BY <2>1, <2>3 DEF RecordOk
    <3>2. rec(m) = [NoRecord EXCEPT !.lease = Dec(@),
                      !.wait = [c \in Channel |-> Dec(NoRecord.wait[c])]]
      BY <3>1 DEF rec
    <3>3. NoRecord.lease = 0 /\ NoRecord.wait = [c \in Channel |-> 0] /\ Dec(0) = 0
      BY DEF NoRecord, Dec
    <3>4. [c \in Channel |-> Dec(NoRecord.wait[c])] = NoRecord.wait
      BY <3>3
    <3>5. rec(m) = NoRecord
      BY <3>2, <3>3, <3>4 DEF NoRecord
    <3> QED
      BY <1>5, <3>5, NoRecordOk
  <2> QED
    BY <2>2, <2>3
<1>8. JobsOk' /\ TokensUnique'
  BY <1>3, <1>5 DEF JobsOk, JobOk, TokensUnique, Inv
<1>9. ASSUME NEW r \in Runner
      PROVE  /\ HasClaim(r)' => HasClaim(r) /\ job[r].msg \in Msg
             /\ HasClaim(r) => HasClaim(r)'
  <2>1. CASE job[r].token = None
    BY <1>3, <1>5, <2>1 DEF HasClaim
  <2>2. CASE job[r].token # None
    <3>1. job[r].msg \in Msg
      BY <2>2, JobOf DEF JobOk, Holding
    <3> QED
      BY <1>2, <1>3, <1>5, <3>1 DEF HasClaim
  <2> QED
    BY <2>1, <2>2
<1>10. ClaimsHold'
  <2> SUFFICES ASSUME NEW r \in Runner, HasClaim(r)'
               PROVE  (/\ Owed(r) \subseteq Pending(direct[job[r].msg])
                       /\ direct[job[r].msg].lease >= job[r].left
                       /\ ReportIsTrue(r))'
    BY DEF ClaimsHold
  <2> DEFINE m == job[r].msg
  <2>1. HasClaim(r) /\ m \in Msg /\ job'[r].msg = m
    BY <1>3, <1>5, <1>9
  <2>2. Owed(r) \subseteq Pending(direct[m]) /\ direct[m].lease >= job[r].left /\ ReportIsTrue(r)
    BY <2>1 DEF Inv, ClaimsHold
  <2>3. Owed(r)' = Owed(r) /\ Pending(direct'[m]) = Pending(direct[m])
    BY <1>2, <1>3, <1>5, <2>1 DEF Owed, Pending
  <2>4. direct'[m].lease >= job'[r].left
    <3>1. direct[m].lease \in Nat /\ job[r].left \in Nat
      BY <1>1, <2>1, Numbers DEF Record, Job
    <3>2. Dec(direct[m].lease) >= Dec(job[r].left)
      BY <2>2, <3>1 DEF Dec
    <3> QED
      BY <1>2, <1>3, <1>5, <2>1, <3>2
  <2>5. ReportIsTrue(r)'
    BY <1>3, <1>4, <1>5, <2>2 DEF ReportIsTrue
  <2> QED
    BY <2>1, <2>2, <2>3, <2>4, <2>5
<1>11. LiveHasClaim'
  <2> SUFFICES ASSUME NEW r \in Runner, Sending(r)' PROVE HasClaim(r)'
    BY DEF LiveHasClaim
  <2>1. job[r].left \in Nat
    BY <1>1, Numbers DEF Job
  <2>2. Dec(job[r].left) > 0 /\ (job[r].todo # {} \/ job[r].channel # None)
    BY <1>3, <1>5 DEF Sending
  <2>3. Sending(r)
    BY <2>1, <2>2 DEF Dec, Sending
  <2> QED
    BY <1>9, <2>3, SendingOwes
<1> QED
  BY <1>6, <1>7, <1>8, <1>10, <1>11 DEF Inv

-----------------------------------------------------------------------------
(* The invariant.                                                          *)

LEMMA StepInv ==
  ASSUME Inv, [Next]_vars
  PROVE  Inv'
<1>1. ASSUME NEW p \in Poller, Polls(p) PROVE Inv'
  BY <1>1, PollInv, AdmitDirectInv DEF Polls
<1>2. ASSUME NEW p \in Poller, Abandon(p) \/ ClaimNothing(p) PROVE Inv'
  BY <1>2, ClaimNothingInv
<1>3. ASSUME NEW p \in Poller, ClaimDirect(p) PROVE Inv'
  <2>1. p \in Runner /\ job[p].msg \in Msg
    BY <1>3, PollersRun, JobOf DEF ClaimDirect
  <2>2. PICK t \in Token : Claim(p, job[p].msg, t, {})
    BY <1>3 DEF ClaimDirect
  <2> QED
    BY <2>1, <2>2, ClaimInv
<1>4. CASE ClaimPendingDirect
  <2>1. PICK m \in Msg, t \in Token, closed \in SUBSET Leftovers : Claim(Recovery, m, t, closed)
    BY <1>4 DEF ClaimPendingDirect
  <2> QED
    BY <2>1, PollersRun, ClaimInv
<1>5. ASSUME NEW r \in Runner, Delivers(r) PROVE Inv'
  BY <1>5, SendInv, CheckpointInv, ReleaseInv DEF Delivers
<1>6. ASSUME NEW r \in Runner, StoreFails(r) PROVE Inv'
  BY <1>6, StoreFailsInv
<1>7. CASE PurgeRouteAdmissions
  BY <1>7, PurgeInv
<1>8. CASE Tick
  BY <1>8, TickInv
<1>9. CASE \/ Stop \/ Cancel \/ Drained \/ Crash \/ Start \/ RecoverNothing
           \/ \E c \in Channel : Toggle(c)
           \/ \E m \in Msg : ItemPurged(m)
           \/ UNCHANGED vars
  BY <1>9, ProcessInv
<1> QED
  BY <1>1, <1>2, <1>3, <1>4, <1>5, <1>6, <1>7, <1>8, <1>9 DEF Next

LEMMA Invariant == Spec => []Inv
<1>1. Init => Inv
  BY InitInv
<1>2. Inv /\ [Next]_vars => Inv'
  BY StepInv
<1> QED
  BY <1>1, <1>2, PTL DEF Spec

\* Every record keeps its shape; in particular no channel of a message is
\* counted more than directMaxAttempts failures (FailDirectChannel).
THEOREM DirectTypeCorrect == Spec => []TypeOK
<1>1. Inv => TypeOK
  BY DEF Inv
<1> QED
  BY <1>1, Invariant, PTL

\* Each record is completed by the transaction that settles its last
\* channel, and then no claim is left on it (completeDirectRecord).
THEOREM RecordsAreCompleted == Spec => []FinishedIsCompleted
<1>1. Inv => FinishedIsCompleted
  BY DEF Inv, RecordsOk, RecordOk, FinishedIsCompleted
<1> QED
  BY <1>1, Invariant, PTL

\* While its lease lasts the claim of a runner is the one its record names,
\* and no second runner sends the message (claimDirectRecord).
THEOREM DirectClaimsAreExclusive == Spec => []ClaimIsExclusive
<1>1. Inv => ClaimIsExclusive
  <2> SUFFICES ASSUME Inv, NEW r \in Runner, Sending(r)
               PROVE  /\ direct[job[r].msg].token = job[r].token
                      /\ \A q \in Runner : Sending(q) /\ job[q].msg = job[r].msg => q = r
    BY DEF ClaimIsExclusive
  <2>1. job[r].token # None /\ HasClaim(r)
    BY SendingOwes
  <2>2. ASSUME NEW q \in Runner, Sending(q), job[q].msg = job[r].msg PROVE q = r
    <3>1. HasClaim(q)
      BY <2>2, SendingOwes
    <3> QED
      BY <2>1, <2>2, <3>1 DEF HasClaim, Inv, TokensUnique
  <2> QED
    BY <2>1, <2>2 DEF HasClaim
<1> QED
  BY <1>1, Invariant, PTL

=============================================================================
