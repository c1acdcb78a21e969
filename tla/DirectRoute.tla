---------------------------- MODULE DirectRoute ----------------------------
(***************************************************************************)
(* The typed routing of news items (internal/core/routing.go): an item of  *)
(* a source goes to the direct lane, to the digest lane or nowhere.  Both  *)
(* lanes keep admission records and daily quotas in the digest store       *)
(* (internal/store/digest_routing.go); a direct item is claimed, sent to   *)
(* its channels one by one and checkpointed, by the poll that admitted it  *)
(* or by the recovery loop of the engine (internal/core/news_engine.go).   *)
(*                                                                         *)
(* A store operation is one bbolt transaction, so one action.  What stands *)
(* between two of them - the quota denial and the downgrade, a claim and   *)
(* the shutdown fence, the check that a channel is enabled and the send,   *)
(* the send and its checkpoint - is the state of a runner.                 *)
(*                                                                         *)
(* Abstractions: one source; the verdict of the policy and of the AI is a  *)
(* choice; every record has its payload and is stored under its stable key *)
(* (older records are not); the channels of a claim are tried in any       *)
(* order; random tokens are values no record and no runner holds.  Timers  *)
(* count down in units of the 30 s backoff step.                           *)
(***************************************************************************)
EXTENDS Integers, FiniteSets

CONSTANTS
  Msg,          \* message ids of the source
  Critical,     \* the messages the policy calls critical
  Channel,      \* channel names
  ChannelSets,  \* the channels a message may pass the filters for
  Poller,       \* polls of the source, scheduled or triggered
  Recovery,     \* the recovery loop
  Token,        \* claim tokens
  None,         \* no message, no channel, no token
  PerDay,       \* quota of each lane, 0 for none
  ClaimTTL,     \* lease of a claim
  MaxAttempts,  \* transient failures after which a channel is given up
  Retention,    \* days an admission is kept
  DayLength,    \* timer units of a day
  MaxDay,       \* bound: the calendar stops at this day
  MaxStops,     \* bound on graceful stops
  MaxFaults,    \* bound on crashes and failed store writes
  MaxToggles,   \* bound on channels enabled or disabled by the operator
  Timely        \* whether a delivery ends before the lease of its claim

Lane == {"direct", "digest"}
Runner == Poller \cup {Recovery}
Day == 1..MaxDay

ASSUME DirectConstants ==
  /\ Critical \subseteq Msg
  /\ ChannelSets \subseteq (SUBSET Channel) \ {{}}
  /\ Recovery \notin Poller
  /\ None \notin Msg \cup Channel \cup Token
  /\ PerDay \in [Lane -> Nat]
  /\ {ClaimTTL, MaxAttempts, Retention, DayLength, MaxDay} \subseteq Nat \ {0}
  /\ {MaxStops, MaxFaults, MaxToggles} \subseteq Nat
  /\ Timely \in BOOLEAN

VARIABLES
  direct,    \* direct admission records, by message
  digested,  \* the dates of the digest admission records of a message
  queued,    \* messages with an item in the digest bucket
  quota,     \* admissions charged, by date and lane
  job,       \* what each runner is doing
  phase,     \* of the process: running, fenced, draining or down
  enabled,   \* channels of the channel manager
  received,  \* <<message, channel>>: the channel took the message
  absent,    \* <<message, channel>>: the channel was missing when needed
  today,     \* Shanghai date
  hour,      \* time of the day
  stops, faults, toggles   \* what the bounds have left out

admissions == <<direct, digested, queued, quota>>
clock == <<today, hour>>
budgets == <<stops, faults, toggles>>
history == <<received, absent>>
vars == <<direct, digested, queued, quota, job, phase, enabled, received, absent,
          today, hour, stops, faults, toggles>>

-----------------------------------------------------------------------------
(* Records.                                                                *)

Record ==
  [present: BOOLEAN, date: Day, channels: SUBSET Channel, delivered: SUBSET Channel,
   failed: SUBSET Channel, attempts: [Channel -> 0..MaxAttempts], wait: [Channel -> Nat],
   completed: BOOLEAN, token: Token \cup {None}, lease: 0..ClaimTTL]

NoRecord ==
  [present |-> FALSE, date |-> 1, channels |-> {}, delivered |-> {}, failed |-> {},
   attempts |-> [c \in Channel |-> 0], wait |-> [c \in Channel |-> 0],
   completed |-> FALSE, token |-> None, lease |-> 0]

Places == {"idle", "downgrade", "claim", "fence", "next", "dispatch", "checkpoint"}

\* ok: the send reported no error; failed: it did; gone: no such channel.
Results == {"none", "ok", "failed", "gone"}

Job ==
  [at: Places, msg: Msg \cup {None}, token: Token \cup {None}, left: 0..ClaimTTL,
   todo: SUBSET Channel, channel: Channel \cup {None}, result: Results]

Idle ==
  [at |-> "idle", msg |-> None, token |-> None, left |-> 0,
   todo |-> {}, channel |-> None, result |-> "none"]

TypeOK ==
  /\ direct \in [Msg -> Record]
  /\ digested \in [Msg -> SUBSET Day]
  /\ queued \subseteq Msg
  /\ quota \in [Day -> [Lane -> Nat]]
  /\ job \in [Runner -> Job]
  /\ phase \in {"running", "fenced", "draining", "down"}
  /\ enabled \subseteq Channel
  /\ received \subseteq Msg \X Channel
  /\ absent \subseteq Msg \X Channel
  /\ today \in Day
  /\ hour \in 0..(DayLength - 1)
  /\ stops \in Nat /\ faults \in Nat /\ toggles \in Nat

Init ==
  /\ direct = [m \in Msg |-> NoRecord]
  /\ digested = [m \in Msg |-> {}]
  /\ queued = {}
  /\ quota = [d \in Day |-> [l \in Lane |-> 0]]
  /\ job = [r \in Runner |-> Idle]
  /\ phase = "running"
  /\ enabled = Channel
  /\ received = {} /\ absent = {}
  /\ today = 1 /\ hour = 0
  /\ stops = 0 /\ faults = 0 /\ toggles = 0

\* The contexts of sources and recovery are not cancelled yet.
Live == phase \in {"running", "fenced"}

-----------------------------------------------------------------------------
(* Admission.                                                              *)

\* A direct record of any date, or a digest record of today, is idempotent.
Known(m) == direct[m].present \/ today \in digested[m]

\* Variant: one admission too many.
OverQuotaLate(m, lane) ==
  m \notin Critical /\ PerDay[lane] > 0 /\ quota[today][lane] > PerDay[lane]

OverQuota(m, lane) ==
  m \notin Critical /\ PerDay[lane] > 0 /\ quota[today][lane] >= PerDay[lane]

\* Critical items are recorded but not counted.
Charged(m, lane) ==
  IF m \in Critical THEN quota ELSE [quota EXCEPT ![today][lane] = @ + 1]

NewRecord(channels) ==
  [NoRecord EXCEPT !.present = TRUE, !.date = today, !.channels = channels]

Starts(p, m, at) == job' = [job EXCEPT ![p] = [Idle EXCEPT !.at = at, !.msg = m]]

Ends(r) == job' = [job EXCEPT ![r] = Idle]

\* A known item goes on to the claim, whichever lane its record is in.  (A
\* digest record also takes over the channels, which nothing reads.)
AdmitKnown(p, m) ==
  /\ Live
  /\ job[p].at = "idle"
  /\ Known(m)
  /\ Starts(p, m, "claim")
  /\ UNCHANGED <<admissions, phase, enabled, history, clock, budgets>>

\* The quota of the direct lane is used up; an item the AI scored high
\* enough goes to the digest lane, any other is silent.
AdmitDenied(p, m) ==
  /\ Live
  /\ job[p].at = "idle"
  /\ ~Known(m)
  /\ OverQuota(m, "direct")
  /\ Starts(p, m, "downgrade") \/ Ends(p)
  /\ UNCHANGED <<admissions, phase, enabled, history, clock, budgets>>

\* What earlier admissions of the item left in the histories is dropped.
AdmitDirect(p, m) ==
  /\ Live
  /\ job[p].at = "idle"
  /\ ~Known(m)
  /\ ~OverQuota(m, "direct")
  /\ \E channels \in ChannelSets : direct' = [direct EXCEPT ![m] = NewRecord(channels)]
  /\ quota' = Charged(m, "direct")
  /\ received' = {x \in received : x[1] # m}
  /\ absent' = {x \in absent : x[1] # m}
  /\ Starts(p, m, "claim")
  /\ UNCHANGED <<digested, queued, phase, enabled, clock, budgets>>

\* Variant: only the record of the day fences the digest lane.
FencedToday(m) == today \in digested[m] \/ (direct[m].present /\ direct[m].date = today)

\* A direct record of any date fences the digest lane too.
Fenced(m) == today \in digested[m] \/ direct[m].present

\* The digest record, its charge and its item are one transaction; the item
\* is put only if the bucket has none under the id.
AdmitDigest(m) ==
  IF Fenced(m) \/ OverQuota(m, "digest")
    THEN UNCHANGED <<digested, quota, queued>>
    ELSE /\ digested' = [digested EXCEPT ![m] = @ \cup {today}]
         /\ quota' = Charged(m, "digest")
         /\ queued' = queued \cup {m}

\* The verdict was the digest lane, or a downgrade.  Critical items are
\* always sent to the direct lane.
EnqueueRoutedDigest(p, m) ==
  /\ Live
  /\ \/ job[p].at = "idle" /\ m \notin Critical
     \/ job[p].at = "downgrade" /\ job[p].msg = m
  /\ AdmitDigest(m)
  /\ Ends(p)
  /\ UNCHANGED <<direct, phase, enabled, history, clock, budgets>>

\* A cancelled context makes the next store operation of a poll an error.
Abandon(p) ==
  /\ phase = "draining"
  /\ job[p].at \in {"downgrade", "claim"}
  /\ Ends(p)
  /\ UNCHANGED <<admissions, phase, enabled, history, clock, budgets>>

-----------------------------------------------------------------------------
(* Claims.                                                                 *)

\* pendingDirectChannels, dueDirectChannels, directRecordTerminal.
Pending(rec) == rec.channels \ (rec.delivered \cup rec.failed)
Due(rec) == {c \in Pending(rec) : rec.wait[c] = 0}
Finished(rec) == rec.channels # {} /\ Pending(rec) = {}

\* Variant: whoever asks gets the claim.
OpenWhateverClaim(rec) == rec.present /\ ~rec.completed

\* Variant: a lapsed claim is not taken over.
Unheld(rec) == rec.present /\ ~rec.completed /\ rec.token = None

Claimable(rec) == rec.present /\ ~rec.completed /\ rec.lease = 0

Unused(t) ==
  /\ \A m \in Msg : direct[m].token # t
  /\ \A r \in Runner : job[r].token # t

\* Records found finished on the way are completed.  FinishedIsCompleted
\* says that there are none.
Leftovers == {m \in Msg : Claimable(direct[m]) /\ Finished(direct[m])}

Claim(r, m, t, closed) ==
  /\ Claimable(direct[m])
  /\ Due(direct[m]) # {}
  /\ Unused(t)
  /\ direct' = [n \in Msg |->
       IF n = m THEN [direct[n] EXCEPT !.token = t, !.lease = ClaimTTL]
       ELSE IF n \in closed THEN [direct[n] EXCEPT !.completed = TRUE]
       ELSE direct[n]]
  /\ job' = [job EXCEPT ![r] =
       [Idle EXCEPT !.at = "fence", !.msg = m, !.token = t, !.left = ClaimTTL,
          !.todo = Due(direct[m])]]
  /\ UNCHANGED <<digested, queued, quota, phase, enabled, history, clock, budgets>>

\* The poll that admitted the item, or found it admitted, claims it.
ClaimDirect(p) ==
  /\ Live
  /\ job[p].at = "claim"
  /\ \E t \in Token : Claim(p, job[p].msg, t, {})

\* Completed, claimed by another runner, not due yet, or in the digest lane.
ClaimNothing(p) ==
  LET m == job[p].msg
  IN /\ Live
     /\ job[p].at = "claim"
     /\ ~(Claimable(direct[m]) /\ Due(direct[m]) # {})
     /\ direct' = [direct EXCEPT ![m].completed = @ \/ m \in Leftovers]
     /\ Ends(p)
     /\ UNCHANGED <<digested, queued, quota, phase, enabled, history, clock, budgets>>

\* The recovery loop claims one record at a time, in key order; the keys are
\* hashes, so any due record may be first.
ClaimPendingDirect ==
  /\ Live
  /\ job[Recovery].at = "idle"
  /\ \E m \in Msg, t \in Token, closed \in SUBSET Leftovers : Claim(Recovery, m, t, closed)

\* Every record was visited and none is due.
RecoverNothing ==
  /\ Live
  /\ job[Recovery].at = "idle"
  /\ \A m \in Msg : ~(Claimable(direct[m]) /\ Due(direct[m]) # {})
  /\ direct' = [m \in Msg |-> [direct[m] EXCEPT !.completed = @ \/ m \in Leftovers]]
  /\ UNCHANGED <<digested, queued, quota, job, phase, enabled, history, clock, budgets>>

\* ReleaseDirect: nothing happens to a record another claim holds.
Released(m, t) ==
  IF direct[m].token = t
    THEN [direct EXCEPT ![m].token = None, ![m].lease = 0] ELSE direct

-----------------------------------------------------------------------------
(* Delivery of a claim: runDirectClaim and deliverDirectClaim.             *)

\* The fence and the registration with the drain are one critical section.
PassFence(r) ==
  /\ job[r].at = "fence"
  /\ phase = "running"
  /\ job' = [job EXCEPT ![r].at = "next"]
  /\ UNCHANGED <<admissions, phase, enabled, history, clock, budgets>>

Turn(r) == job[r].at = "fence" /\ phase # "running"

ReleaseFenced(r) ==
  /\ Turn(r)
  /\ direct' = Released(job[r].msg, job[r].token)
  /\ Ends(r)
  /\ UNCHANGED <<digested, queued, quota, phase, enabled, history, clock, budgets>>

\* Has: a missing channel goes straight to its checkpoint.
Take(r, c) ==
  /\ job[r].at = "next"
  /\ c \in job[r].todo
  /\ job' = [job EXCEPT ![r] =
       [@ EXCEPT !.todo = job[r].todo \ {c}, !.channel = c,
          !.at = IF c \in enabled THEN "dispatch" ELSE "checkpoint",
          !.result = IF c \in enabled THEN "none" ELSE "gone"]]
  /\ absent' = IF c \in enabled THEN absent ELSE absent \cup {<<job[r].msg, c>>}
  /\ UNCHANGED <<admissions, phase, enabled, received, clock, budgets>>

Reports(r, result) ==
  job' = [job EXCEPT ![r] = [@ EXCEPT !.at = "checkpoint", !.result = result]]

DispatchOk(r) ==
  /\ job[r].at = "dispatch"
  /\ job[r].channel \in enabled
  /\ received' = received \cup {<<job[r].msg, job[r].channel>>}
  /\ Reports(r, "ok")
  /\ UNCHANGED <<admissions, phase, enabled, absent, clock, budgets>>

\* An error, a timeout or a cancelled context; the message may have arrived.
DispatchError(r) ==
  /\ job[r].at = "dispatch"
  /\ job[r].channel \in enabled
  /\ received' \in {received, received \cup {<<job[r].msg, job[r].channel>>}}
  /\ Reports(r, "failed")
  /\ UNCHANGED <<admissions, phase, enabled, absent, clock, budgets>>

\* Broadcast skips a channel disabled since the check, and reports no error.
DispatchSkipped(r) ==
  /\ job[r].at = "dispatch"
  /\ job[r].channel \notin enabled
  /\ absent' = absent \cup {<<job[r].msg, job[r].channel>>}
  /\ Reports(r, "ok")
  /\ UNCHANGED <<admissions, phase, enabled, received, clock, budgets>>

\* 30 s doubled with every attempt, at most seven times.
Backoff(n) == <<1, 2, 4, 8, 16, 32, 64, 128>>[IF n < 8 THEN n ELSE 8]

CloseIfFinished(rec) ==
  IF Finished(rec)
    THEN [rec EXCEPT !.completed = TRUE, !.token = None, !.lease = 0] ELSE rec

CompleteChannel(rec, c) == CloseIfFinished([rec EXCEPT !.delivered = @ \cup {c}])

FailChannel(rec, c, permanent) ==
  LET n == rec.attempts[c] + 1
      last == permanent \/ n >= MaxAttempts
  IN CloseIfFinished(
       [rec EXCEPT !.attempts[c] = n,
          !.failed = IF last THEN @ \cup {c} ELSE @,
          !.wait[c] = IF last THEN 0 ELSE Backoff(n)])

\* Variant: any claim of the message may report.
OwnsAnyway(r) == direct[job[r].msg].present

Owns(r) == direct[job[r].msg].token = job[r].token

Proceeds(r) == job' = [job EXCEPT ![r] = [@ EXCEPT !.at = "next", !.channel = None, !.result = "none"]]

\* A stale claim gets an error, which the runner logs before it goes on.
Checkpoint(r) ==
  LET m == job[r].msg
      c == job[r].channel
  IN /\ job[r].at = "checkpoint"
     /\ direct' = IF ~Owns(r) THEN direct
                  ELSE [direct EXCEPT ![m] =
                    IF job[r].result = "ok" THEN CompleteChannel(@, c)
                    ELSE FailChannel(@, c, job[r].result = "gone")]
     /\ Proceeds(r)
     /\ UNCHANGED <<digested, queued, quota, phase, enabled, history, clock, budgets>>

ReleaseDirect(r) ==
  /\ job[r].at = "next"
  /\ job[r].todo = {}
  /\ direct' = Released(job[r].msg, job[r].token)
  /\ Ends(r)
  /\ UNCHANGED <<digested, queued, quota, phase, enabled, history, clock, budgets>>

\* A store write fails or times out and rolls back.  After a checkpoint the
\* runner goes on all the same; a poll is over.
StoreFails(r) ==
  /\ faults < MaxFaults
  /\ faults' = faults + 1
  /\ \/ job[r].at = "checkpoint" /\ Proceeds(r)
     \/ job[r].at = "next" /\ job[r].todo = {} /\ Ends(r)
     \/ Turn(r) /\ Ends(r)
     \/ job[r].at \in {"downgrade", "claim"} /\ Ends(r)
  /\ UNCHANGED <<admissions, phase, enabled, history, clock, stops, toggles>>

-----------------------------------------------------------------------------
(* The process.                                                            *)

\* Stop first fences direct work, then cancels the contexts, then waits for
\* the deliveries under way and for every goroutine of the engine.
Stop ==
  /\ phase = "running"
  /\ stops < MaxStops
  /\ stops' = stops + 1
  /\ phase' = "fenced"
  /\ UNCHANGED <<admissions, job, enabled, history, clock, faults, toggles>>

Cancel ==
  /\ phase = "fenced"
  /\ phase' = "draining"
  /\ UNCHANGED <<admissions, job, enabled, history, clock, budgets>>

Drained ==
  /\ phase = "draining"
  /\ \A r \in Runner : job[r].at = "idle"
  /\ phase' = "down"
  /\ UNCHANGED <<admissions, job, enabled, history, clock, budgets>>

Crash ==
  /\ phase # "down"
  /\ faults < MaxFaults
  /\ faults' = faults + 1
  /\ phase' = "down"
  /\ job' = [r \in Runner |-> Idle]
  /\ UNCHANGED <<admissions, enabled, history, clock, stops, toggles>>

Start ==
  /\ phase = "down"
  /\ phase' = "running"
  /\ UNCHANGED <<admissions, job, enabled, history, clock, budgets>>

\* The operator enables or disables a channel through the admin API.
Toggle(c) ==
  /\ phase # "down"
  /\ toggles < MaxToggles
  /\ toggles' = toggles + 1
  /\ enabled' = IF c \in enabled THEN enabled \ {c} ELSE enabled \cup {c}
  /\ UNCHANGED <<admissions, job, phase, history, clock, stops, faults>>

\* PurgeRouteAdmissions: digest records and quotas by date; direct records
\* only once completed, by their creation time, which on the day of the
\* cutoff may be before it or after.
PurgeRouteAdmissions ==
  /\ phase # "down"
  /\ digested' = [m \in Msg |-> {d \in digested[m] : d >= today - Retention}]
  /\ quota' = [d \in Day |-> IF d < today - Retention THEN [l \in Lane |-> 0] ELSE quota[d]]
  /\ \E edge \in SUBSET {m \in Msg : direct[m].date = today - Retention} :
       direct' = [m \in Msg |->
         IF direct[m].completed /\ (direct[m].date < today - Retention \/ m \in edge)
           THEN NoRecord ELSE direct[m]]
  /\ UNCHANGED <<queued, job, phase, enabled, history, clock, budgets>>

\* The digest store purges the item of a digest that ended.
ItemPurged(m) ==
  /\ m \in queued
  /\ \A d \in digested[m] : d <= today - Retention
  /\ queued' = queued \ {m}
  /\ UNCHANGED <<direct, digested, quota, job, phase, enabled, history, clock, budgets>>

Dec(n) == IF n > 0 THEN n - 1 ELSE 0

\* The dispatch of a claim has 20 s and each checkpoint 2 s, a claim 60 s:
\* Timely is what that promises as long as the channels honour their context.
Tick ==
  /\ Timely => \A r \in Runner : job[r].left # 1
  /\ direct' = [m \in Msg |->
       [direct[m] EXCEPT !.lease = Dec(@), !.wait = [c \in Channel |-> Dec(direct[m].wait[c])]]]
  /\ job' = [r \in Runner |-> [job[r] EXCEPT !.left = Dec(@)]]
  /\ hour' = (hour + 1) % DayLength
  /\ today' = IF hour' = 0 /\ today < MaxDay THEN today + 1 ELSE today
  /\ UNCHANGED <<digested, queued, quota, phase, enabled, history, budgets>>

-----------------------------------------------------------------------------
Delivers(r) ==
  \/ PassFence(r) \/ ReleaseFenced(r)
  \/ \E c \in Channel : Take(r, c)
  \/ DispatchOk(r) \/ DispatchError(r) \/ DispatchSkipped(r)
  \/ Checkpoint(r) \/ ReleaseDirect(r)

Polls(p) ==
  \E m \in Msg :
    AdmitKnown(p, m) \/ AdmitDenied(p, m) \/ AdmitDirect(p, m) \/ EnqueueRoutedDigest(p, m)

Next ==
  \/ \E p \in Poller : Polls(p) \/ Abandon(p) \/ ClaimDirect(p) \/ ClaimNothing(p)
  \/ ClaimPendingDirect \/ RecoverNothing
  \/ \E r \in Runner : Delivers(r) \/ StoreFails(r)
  \/ Stop \/ Cancel \/ Drained \/ Crash \/ Start
  \/ \E c \in Channel : Toggle(c)
  \/ PurgeRouteAdmissions
  \/ \E m \in Msg : ItemPurged(m)
  \/ Tick

Spec == Init /\ [][Next]_vars

\* Time passes, goroutines run, the recovery loop looks again and again, and
\* a service that is down is started.  Polls, stops and toggles may cease.
Fairness ==
  /\ WF_vars(Tick) /\ WF_vars(ClaimPendingDirect \/ RecoverNothing)
  /\ WF_vars(Cancel) /\ WF_vars(Drained) /\ WF_vars(Start)
  /\ \A r \in Runner : WF_vars(Delivers(r))
  /\ \A p \in Poller : WF_vars(Abandon(p)) /\ WF_vars(ClaimDirect(p) \/ ClaimNothing(p))
                       /\ WF_vars(job[p].at = "downgrade" /\ EnqueueRoutedDigest(p, job[p].msg))

LiveSpec == Spec /\ Fairness

-----------------------------------------------------------------------------
(* Properties.                                                             *)

\* admitRoute never lets an item into both lanes on one day, nor into the
\* digest lane once it was admitted direct, whatever the order of the polls,
\* the quota denials and the midnights between admission and downgrade.
LaneFence ==
  \A m \in Msg : direct[m].present => \A d \in digested[m] : d < direct[m].date

\* The counters of today agree with the admission records of today, so that
\* neither a retry, a crash, a purge nor a fenced lane charges an item twice
\* or for nothing, and no lane exceeds its daily quota.
QuotaExact ==
  /\ quota[today]["direct"] =
       Cardinality({m \in Msg \ Critical : direct[m].present /\ direct[m].date = today})
  /\ quota[today]["digest"] = Cardinality({m \in Msg : today \in digested[m]})
  /\ \A l \in Lane : PerDay[l] > 0 => quota[today][l] <= PerDay[l]

\* A record is completed in the very transaction that settles its last
\* channel: there is never a finished record that a claim would have to
\* complete, and a completed one is held by nobody.
FinishedIsCompleted ==
  \A m \in Msg :
    /\ direct[m].present => (direct[m].completed <=> Finished(direct[m]))
    /\ direct[m].completed => direct[m].token = None

\* A runner that still has something to send, and a lease on it.
Sending(r) == job[r].left > 0 /\ (job[r].todo # {} \/ job[r].channel # None)

\* While its lease lasts a claim is the only one: the record of the message
\* names it, and no other runner has a live claim of the message, whatever
\* runners were late, were lost or released out of turn.
ClaimIsExclusive ==
  \A r \in Runner : Sending(r) =>
    /\ direct[job[r].msg].token = job[r].token
    /\ \A q \in Runner : Sending(q) /\ job[q].msg = job[r].msg => q = r

\* A channel is given up only after MaxAttempts failures or because it was
\* missing, and confirmed only if it took the message or was missing.
OutcomeIsJustified ==
  \A m \in Msg, c \in Channel :
    /\ c \in direct[m].delivered => <<m, c>> \in received \cup absent
    /\ c \in direct[m].failed =>
         direct[m].attempts[c] = MaxAttempts \/ <<m, c>> \in absent

\* Stop fences and drains direct work: unless a write failed or the process
\* crashed, it leaves no claim behind for the next start to wait for.
StopLeavesNoClaim ==
  phase = "down" /\ faults = 0 => \A m \in Msg : direct[m].token = None

\* As long as deliveries end before their leases, a channel that confirmed
\* a message is not sent it again, by whichever runner and after whatever
\* failures of the other channels.
NoResend ==
  [][\A r \in Runner :
       job[r].at = "next" /\ job'[r].at = "dispatch" =>
         job'[r].channel \notin direct[job[r].msg].delivered]_vars

\* Every direct admission comes to an end: neither a crash, a stop, a lost
\* write, a lapsed claim nor a failing channel strands it.
EveryAdmissionCompletes ==
  \A m \in Msg : (direct[m].present /\ ~direct[m].completed) ~> direct[m].completed

\* "Direct delivery therefore remains intentionally at-least-once": what a
\* channel is recorded to have taken has reached it at least once.
ConfirmedWasReceived ==
  \A m \in Msg, c \in Channel : c \in direct[m].delivered => <<m, c>> \in received

Stage == [m \in Msg |->
  IF ~direct[m].present THEN "none" ELSE IF direct[m].completed THEN "closed" ELSE "open"]

Outcome == [m \in Msg |-> [c \in Channel |->
  IF c \in direct[m].delivered THEN "delivered"
  ELSE IF c \in direct[m].failed THEN "abandoned"
  ELSE IF c \in direct[m].channels THEN "open" ELSE "unasked"]]

Promise == INSTANCE DirectPromise WITH stage <- Stage, outcome <- Outcome

\* Every step of the lane is one of the promise or invisible in it: stale
\* claims settle nothing twice, the purge forgets no open record, and no
\* record is closed while a channel is open.
KeepsPromise == Promise!Spec

=============================================================================
