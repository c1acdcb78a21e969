------------------------- MODULE DigestStoreClaims -------------------------
(***************************************************************************)
(* What the workers' attempts establish, proved without any assumption on  *)
(* the indexes: an acknowledged digest was received by its channels, and a *)
(* live claim has one holder.  Then what leases establish, that a topic    *)
(* travels together, and, where the fence of DigestStoreProofs holds, that *)
(* the store implements the abstract queue.                                *)
(***************************************************************************)
EXTENDS DigestStoreProofs

-----------------------------------------------------------------------------
(* Acknowledgements.                                                       *)

\* A sent attempt was received.
SentReceived == \A a \in attempts : a.sent => <<a.delivery, a.sink>> \in received

ConfirmedReceived ==
  \A d \in LeaseId, s \in Sink :
    deliveries[d].state # "none" /\ deliveries[d].sinks[s].delivered => <<d, s>> \in received

Acknowledged(d) ==
  deliveries[d].state # "none" =>
    /\ deliveries[d].state = "delivered"
    /\ \A s \in deliveries[d].required : <<d, s>> \in received

AckedItems ==
  \A i \in Item : items[i].state = "acked" /\ items[i].delivery # NoLease =>
    Acknowledged(items[i].delivery)

AckInv == LeaseInv /\ SentReceived /\ ConfirmedReceived /\ AckedItems

LEMMA ReceivedGrows ==
  ASSUME [Next]_vars
  PROVE  received \subseteq received'
<1>1. ASSUME NEW i \in Item, Enqueue(i) PROVE received \subseteq received'
  BY <1>1 DEF Enqueue
<1>2. ASSUME NEW l \in LeaseId, Lease(l) \/ LeaseTopics(l) \/ Ack(l) \/ PrepareDelivery(l)
               \/ PrepareRejected(l) \/ RetryDelivery(l)
      PROVE  received \subseteq received'
  BY <1>2, LeaseTakes DEF GrantLease, Ack, PrepareDelivery, PrepareRejected, RetryDelivery
<1>3. ASSUME NEW a \in attempts,
             Send(a) \/ CompleteRejected(a) \/ CompleteSuccess(a) \/ CompleteFailure(a)
      PROVE  received \subseteq received'
  BY <1>3 DEF Send, CompleteRejected, CompleteSuccess, CompleteFailure, Finished
<1>4. CASE ClaimDueAttempts \/ ExpireDue \/ Purge \/ Restart \/ Tick \/ UNCHANGED vars
  BY <1>4 DEF ClaimDueAttempts, ExpireDue, Purge, Restart, Tick, vars
<1> QED
  BY <1>1, <1>2, <1>3, <1>4 DEF Next

LEMMA StepSent ==
  ASSUME TypeOK, SentReceived, [Next]_vars
  PROVE  SentReceived'
<1> SUFFICES ASSUME NEW a \in attempts', a.sent
             PROVE  <<a.delivery, a.sink>> \in received'
  BY DEF SentReceived
<1>1. CASE a \in attempts
  BY <1>1, ReceivedGrows DEF SentReceived
<1>2. ASSUME NEW b \in attempts, Send(b), a = [b EXCEPT !.sent = TRUE]
      PROVE  <<a.delivery, a.sink>> \in received'
  BY <1>2, SentFields, AttemptOf DEF Send
<1>3. CASE NewAttempt(a)
  BY <1>3 DEF NewAttempt
<1> QED
  BY <1>1, <1>2, <1>3, AttemptStep

LEMMA StepConfirmed ==
  ASSUME TypeOK, SentReceived, ConfirmedReceived, [Next]_vars
  PROVE  ConfirmedReceived'
<1> SUFFICES ASSUME NEW d \in LeaseId, NEW s \in Sink,
                    deliveries'[d].state # "none", deliveries'[d].sinks[s].delivered
             PROVE  <<d, s>> \in received'
  BY DEF ConfirmedReceived
<1> DEFINE c == deliveries[d].sinks[s]
<1>1. c \in Checkpoint
  BY SinksOf
<1>2. deliveries[d].state # "none" /\ c.delivered => <<d, s>> \in received'
  BY ReceivedGrows DEF ConfirmedReceived
<1>3. CASE deliveries'[d] = deliveries[d]
  BY <1>2, <1>3
<1>4. CASE PrepareDelivery(d)
  BY <1>4, PreparedFields, NewCheckpointFields
<1>5. CASE ClaimStep(d)
  <2>1. PICK batch \in SUBSET Claimable : deliveries'[d] = Claimed(d, batch)
    BY <1>5 DEF ClaimStep
  <2>2. deliveries'[d].sinks[s] = ClaimSink(c) \/ deliveries'[d].sinks[s] = c
    <3>1. deliveries'[d].sinks[s] = IF <<d, s>> \in batch THEN ClaimSink(c) ELSE c
      BY <2>1, ClaimedSinks
    <3> QED
      BY <3>1
  <2>3. deliveries'[d].sinks[s].delivered => c.delivered
    BY <1>1, <2>2, CheckpointFields
  <2> QED
    BY <1>2, <1>5, <2>3 DEF ClaimStep
<1>6. CASE ExpireStep(d)
  <2>1. deliveries'[d].sinks = deliveries[d].sinks /\ deliveries[d].state = "pending"
    BY <1>6, SinksOf, DeliveryEnd, DoomedPending DEF ExpireStep
  <2> QED
    BY <1>2, <2>1
<1>7. ASSUME NEW a \in attempts, a.delivery = d, CompleteSuccess(a)
      PROVE  <<d, s>> \in received'
  <2>1. /\ deliveries[d].state = "pending"
        /\ deliveries'[d].sinks = [deliveries[d].sinks EXCEPT ![a.sink] = ConfirmSink(@)]
    BY <1>7, SuccessEffect
  <2>2. CASE s = a.sink
    <3>1. <<d, s>> \in received
      BY <1>7, <2>2 DEF CompleteSuccess, SentReceived
    <3> QED
      BY <3>1, ReceivedGrows
  <2>3. CASE s # a.sink
    BY <1>2, <2>1, <2>3, SinksOf
  <2> QED
    BY <2>2, <2>3
<1>8. ASSUME NEW a \in attempts, a.delivery = d, CompleteFailure(a)
      PROVE  <<d, s>> \in received'
  <2>1. /\ deliveries[d].state = "pending"
        /\ \/ deliveries'[d].sinks = deliveries[d].sinks
           \/ deliveries'[d].sinks = [deliveries[d].sinks EXCEPT ![a.sink] = FailSink(@)]
           \/ \E t \in Nat : deliveries'[d].sinks =
               [deliveries[d].sinks EXCEPT ![a.sink] = [FailSink(@) EXCEPT !.nextAttemptAt = t]]
    BY <1>8, FailureEffect
  <2>2. deliveries'[d].sinks[s].delivered => c.delivered
    <3>1. CASE s # a.sink
      BY <2>1, <3>1, SinksOf
    <3>2. CASE s = a.sink
      <4>1. \/ deliveries'[d].sinks[s] = c
            \/ deliveries'[d].sinks[s] = FailSink(c)
            \/ \E t \in Nat : deliveries'[d].sinks[s] = [FailSink(c) EXCEPT !.nextAttemptAt = t]
        BY <2>1, <3>2, SinksOf
      <4>2. ASSUME NEW t \in Nat, deliveries'[d].sinks[s] = [FailSink(c) EXCEPT !.nextAttemptAt = t]
            PROVE  deliveries'[d].sinks[s].delivered => c.delivered
        <5>1. [FailSink(c) EXCEPT !.nextAttemptAt = t].delivered = c.delivered
          BY <1>1, CheckpointFields
        <5> QED
          BY <4>2, <5>1
      <4>3. FailSink(c).delivered = c.delivered
        BY <1>1, CheckpointFields
      <4> QED
        BY <4>1, <4>2, <4>3
    <3> QED
      BY <3>1, <3>2
  <2> QED
    BY <1>2, <2>1, <2>2
<1>9. CASE RetryDelivery(d)
  <2>1. /\ deliveries[d].state = "pending"
        /\ deliveries'[d].sinks = [t \in Sink |->
            IF Retryable(d, t) THEN ReviveSink(deliveries[d].sinks[t]) ELSE deliveries[d].sinks[t]]
    BY <1>9, RetryFields
  <2>2. deliveries'[d].sinks[s] = ReviveSink(c) \/ deliveries'[d].sinks[s] = c
    BY <2>1
  <2>3. deliveries'[d].sinks[s].delivered => c.delivered
    BY <1>1, <2>2, CheckpointFields
  <2> QED
    BY <1>2, <2>1, <2>3
<1>10. CASE PurgeStep(d)
  BY <1>10, NoDeliveryFields DEF PurgeStep
<1> QED
  BY <1>3, <1>4, <1>5, <1>6, <1>7, <1>8, <1>9, <1>10, DeliveryStep

\* An acknowledged delivery stays one until it is purged.
LEMMA AcknowledgedIsStable ==
  ASSUME LeaseInv, [Next]_vars, NEW d \in LeaseId, Acknowledged(d), Used(d)
  PROVE  Acknowledged(d)'
<1>1. CASE deliveries[d].state = "none"
  <2>1. deliveries'[d].state = "none"
    <3>1. ~PrepareDelivery(d)
      BY PreparedIsUsed
    <3>2. ~ClaimStep(d) /\ ~RetryDelivery(d) /\ ~ExpireStep(d)
      BY <1>1, RetryFields, DoomedPending DEF ClaimStep, ExpireStep, LeaseInv
    <3>3. \A a \in attempts : a.delivery = d => ~CompleteSuccess(a) /\ ~CompleteFailure(a)
      BY <1>1 DEF CompleteSuccess, CompleteFailure, Current
    <3> QED
      BY <1>1, <3>1, <3>2, <3>3, DeliveryStep, NoDeliveryFields DEF PurgeStep, LeaseInv
  <2> QED
    BY <2>1 DEF Acknowledged
<1>2. CASE deliveries[d].state # "none"
  <2>1. deliveries[d].state = "delivered"
    BY <1>2 DEF Acknowledged
  <2>2. CASE Purge
    <3>1. deliveries'[d] = deliveries[d] \/ deliveries'[d] = NoDelivery
      BY <2>2 DEF Purge
    <3> QED
      BY <2>1, <3>1, ReceivedGrows, NoDeliveryFields DEF Acknowledged
  <2>3. CASE ~Purge
    <3>1. deliveries'[d] = deliveries[d]
      BY <2>1, <2>3, OutcomesAreKept DEF DeliveryEnded, LeaseInv
    <3> QED
      BY <3>1, ReceivedGrows DEF Acknowledged
  <2> QED
    BY <2>2, <2>3
<1> QED
  BY <1>1, <1>2

LEMMA StepAcked ==
  ASSUME AckInv, [Next]_vars, ConfirmedReceived',
         NEW i \in Item, items'[i].state = "acked",
         NEW d \in LeaseId, items'[i].delivery = d
  PROVE  Acknowledged(d)'
<1> USE DEF AckInv
<1>1. TypeOK /\ d # NoLease
  BY DigestConstants DEF LeaseInv
<1>2. CASE items[i].state = "acked" /\ items[i].delivery = d
  <2>1. Acknowledged(d) /\ Used(d)
    BY <1>1, <1>2 DEF AckedItems, LeaseInv, LeasesUsedOnce
  <2> QED
    BY <2>1, AcknowledgedIsStable
<1>3. ASSUME NEW a \in attempts, CompleteSuccess(a), deliveries'[a.delivery].state = "delivered",
             i \in deliveries[a.delivery].items, Fenced(a.delivery),
             items'[i] = MarkItemTerminal(items[i], "acked")
      PROVE  Acknowledged(d)'
  <2>1. items[i].delivery = a.delivery
    BY <1>3 DEF Fenced
  <2>2. a.delivery = d
    BY <1>1, <1>3, <2>1, ItemEnd
  <2>3. /\ deliveries'[d].required = deliveries[d].required
        /\ \A s \in deliveries'[d].required : deliveries'[d].sinks[s].delivered
    BY <1>1, <1>3, <2>2, SuccessEffect
  <2>4. deliveries'[d].required \subseteq Sink
    BY <1>1, <2>3, SinksOf
  <2>5. \A s \in deliveries'[d].required : <<d, s>> \in received'
    BY <1>3, <2>2, <2>3, <2>4 DEF ConfirmedReceived
  <2> QED
    BY <1>3, <2>2, <2>5 DEF Acknowledged
<1>4. ASSUME items[i].state \in Unended, items'[i] = MarkItemTerminal(items[i], "acked")
      PROVE  FALSE
  <2>1. items[i].delivery = NoLease
    BY <1>4 DEF LeaseInv, LeasesUsedOnce
  <2> QED
    BY <1>1, <1>4, <2>1, ItemEnd
<1>5. items'[i] # MarkItemTerminal(items[i], "expired")
  BY <1>1, ItemEnd
<1>6. "acked" \notin Unended
  BY DEF Unended
<1> QED
  BY <1>1, <1>2, <1>3, <1>4, <1>5, <1>6, ItemStep

LEMMA AckInvariant == Spec => []AckInv
<1>1. Init => AckInv
  <2> SUFFICES ASSUME Init PROVE AckInv
    OBVIOUS
  <2>1. LeaseInv
    BY InitType, NoDeliveryFields DEF Init, LeaseInv, LeasesUsedOnce, NoItem
  <2>2. SentReceived /\ ConfirmedReceived /\ AckedItems
    BY NoDeliveryFields DEF Init, SentReceived, ConfirmedReceived, AckedItems, NoItem
  <2> QED
    BY <2>1, <2>2 DEF AckInv
<1>2. AckInv /\ [Next]_vars => AckInv'
  <2> SUFFICES ASSUME AckInv, [Next]_vars PROVE AckInv'
    OBVIOUS
  <2>1. LeaseInv' /\ SentReceived' /\ ConfirmedReceived'
    BY StepLease, StepSent, StepConfirmed DEF AckInv, LeaseInv
  <2>2. \A i \in Item : items'[i].delivery \in LeaseId \cup {NoLease}
    BY <2>1 DEF LeaseInv, TypeOK, ItemRecord
  <2>3. AckedItems'
    BY <2>1, <2>2, StepAcked DEF AckedItems, Acknowledged
  <2> QED
    BY <2>1, <2>3 DEF AckInv
<1> QED
  BY <1>1, <1>2, PTL DEF Spec

\* A digest is acknowledged only after every channel it needs has received
\* it, whatever crashes, late workers and repeated attempts there were.
THEOREM AcknowledgedWasReceived == Spec => []AckedMeansReceived
<1>1. AckInv => AckedMeansReceived
  BY DEF AckInv, AckedMeansReceived, ConfirmedReceived, AckedItems, Acknowledged
<1> QED
  BY <1>1, AckInvariant, PTL

-----------------------------------------------------------------------------
(* Confirmations.                                                          *)

NoneIsEmpty == \A d \in LeaseId : deliveries[d].state = "none" => deliveries[d] = NoDelivery

\* How the checkpoint of a sink moves while its delivery is recorded.
LEMMA SinkStep ==
  ASSUME TypeOK, [Next]_vars, NEW d \in LeaseId, NEW s \in Sink,
         deliveries'[d].state # "none"
  PROVE  LET c == deliveries[d].sinks[s]
             new == deliveries'[d].sinks[s]
         IN  \/ new = c
             \/ PrepareDelivery(d)
             \/ ClaimDueAttempts /\ Due(d, s) /\ new = ClaimSink(c)
             \/ \E a \in attempts :
                  /\ a.delivery = d /\ a.sink = s /\ Current(a)
                  /\ CompleteSuccess(a) \/ CompleteFailure(a)
                  /\ new.attempts = c.attempts
             \/ Retryable(d, s) /\ new = ReviveSink(c)
<1> DEFINE c == deliveries[d].sinks[s]
           new == deliveries'[d].sinks[s]
<1>1. c \in Checkpoint
  BY SinksOf
<1>2. CASE ClaimStep(d)
  <2>1. PICK batch \in SUBSET Claimable : deliveries'[d] = Claimed(d, batch)
    BY <1>2 DEF ClaimStep
  <2>2. CASE <<d, s>> \in batch
    BY <1>2, <2>1, <2>2, ClaimedSinks DEF ClaimStep
  <2>3. CASE <<d, s>> \notin batch
    BY <2>1, <2>3, ClaimedSinks
  <2> QED
    BY <2>2, <2>3
<1>3. CASE ExpireStep(d)
  BY <1>3, SinksOf, DeliveryEnd DEF ExpireStep
<1>4. ASSUME NEW a \in attempts, a.delivery = d, CompleteSuccess(a)
      PROVE  new = c \/ (a.sink = s /\ Current(a) /\ new.attempts = c.attempts)
  <2>1. deliveries'[d].sinks = [deliveries[d].sinks EXCEPT ![a.sink] = ConfirmSink(@)]
    BY <1>4, SuccessEffect
  <2>2. CASE s # a.sink
    BY <2>1, <2>2, SinksOf
  <2>3. CASE s = a.sink
    <3>1. new = ConfirmSink(c) /\ Current(a)
      BY <1>4, <2>1, <2>3, SinksOf DEF CompleteSuccess
    <3> QED
      BY <1>1, <2>3, <3>1, CheckpointFields
  <2> QED
    BY <2>2, <2>3
<1>5. ASSUME NEW a \in attempts, a.delivery = d, CompleteFailure(a)
      PROVE  new = c \/ (a.sink = s /\ Current(a) /\ new.attempts = c.attempts)
  <2>1. \/ deliveries'[d].sinks = deliveries[d].sinks
        \/ deliveries'[d].sinks = [deliveries[d].sinks EXCEPT ![a.sink] = FailSink(@)]
        \/ \E t \in Nat : deliveries'[d].sinks =
             [deliveries[d].sinks EXCEPT ![a.sink] = [FailSink(@) EXCEPT !.nextAttemptAt = t]]
    BY <1>5, FailureEffect
  <2>2. CASE s # a.sink
    BY <2>1, <2>2, SinksOf
  <2>3. CASE s = a.sink
    <3>1. \/ new = c
          \/ new = FailSink(c)
          \/ \E t \in Nat : new = [FailSink(c) EXCEPT !.nextAttemptAt = t]
      BY <2>1, <2>3, SinksOf
    <3>2. FailSink(c).attempts = c.attempts
          /\ \A t \in Nat : [FailSink(c) EXCEPT !.nextAttemptAt = t].attempts = c.attempts
      BY <1>1, CheckpointFields
    <3>3. Current(a)
      BY <1>5 DEF CompleteFailure
    <3> QED
      BY <2>3, <3>1, <3>2, <3>3
  <2> QED
    BY <2>2, <2>3
<1>6. CASE RetryDelivery(d)
  <2>1. deliveries'[d].sinks = [t \in Sink |->
            IF Retryable(d, t) THEN ReviveSink(deliveries[d].sinks[t]) ELSE deliveries[d].sinks[t]]
    BY <1>6, RetryFields
  <2> QED
    BY <2>1
<1>7. ~PurgeStep(d)
  BY NoDeliveryFields DEF PurgeStep
<1> QED
  BY <1>2, <1>3, <1>4, <1>5, <1>6, <1>7, DeliveryStep

LEMMA StepNone ==
  ASSUME TypeOK, NoneIsEmpty, [Next]_vars
  PROVE  NoneIsEmpty'
<1> SUFFICES ASSUME NEW d \in LeaseId, deliveries'[d].state = "none"
             PROVE  deliveries'[d] = NoDelivery
  BY DEF NoneIsEmpty
<1>1. ~PrepareDelivery(d)
  BY PreparedFields
<1>2. ~ClaimStep(d)
  BY ClaimedFields DEF ClaimStep
<1>3. ~ExpireStep(d)
  BY SinksOf, DeliveryEnd DEF ExpireStep
<1>4. ~RetryDelivery(d)
  BY RetryFields, SinksOf DEF DeliveryRecord
<1>5. \A a \in attempts : a.delivery = d => ~CompleteSuccess(a) /\ ~CompleteFailure(a)
  BY SuccessEffect, FailureEffect
<1> QED
  BY <1>1, <1>2, <1>3, <1>4, <1>5, DeliveryStep DEF NoneIsEmpty, PurgeStep

ConfirmInv == TypeOK /\ TokensAreOpen /\ NoneIsEmpty

LEMMA ConfirmInvariant == Spec => []ConfirmInv
<1>1. Init => ConfirmInv
  BY InitType, NoDeliverySinks, NewCheckpointFields
  DEF Init, ConfirmInv, TokensAreOpen, NoneIsEmpty
<1>2. ConfirmInv /\ [Next]_vars => ConfirmInv'
  BY StepType, StepTokens, StepNone DEF ConfirmInv
<1> QED
  BY <1>1, <1>2, PTL DEF Spec

LEMMA StepConfirmationKept ==
  ASSUME ConfirmInv, [Next]_vars, NEW d \in LeaseId, NEW s \in Sink
  PROVE  ConfirmationKept(d, s)
<1> USE DEF ConfirmInv
<1> SUFFICES ASSUME deliveries[d].sinks[s].delivered
             PROVE  /\ deliveries'[d].state # "none" =>
                         deliveries'[d].sinks[s] = deliveries[d].sinks[s]
                    /\ \A a \in attempts' :
                         a.delivery = d /\ a.sink = s => \E b \in attempts : SameAttempt(a, b)
  BY DEF ConfirmationKept
<1>1. ~Due(d, s) /\ ~Retryable(d, s)
  BY DEF Due, Retryable, Idle
<1>2. deliveries[d].state # "none"
  BY NoDeliverySinks, NewCheckpointFields DEF NoneIsEmpty
<1>3. ~PrepareDelivery(d)
  BY <1>2, PreparedFields
<1>4. \A a \in attempts : a.delivery = d /\ a.sink = s => ~Current(a)
  BY CurrentIsOpen
<1>5. deliveries'[d].state # "none" => deliveries'[d].sinks[s] = deliveries[d].sinks[s]
  BY <1>1, <1>3, <1>4, SinkStep
<1>6. \A a \in attempts' : a.delivery = d /\ a.sink = s => \E b \in attempts : SameAttempt(a, b)
  BY <1>1, NewAttempts
<1> QED
  BY <1>5, <1>6

\* What a channel confirmed stays confirmed and is never attempted again.
THEOREM ConfirmationsAreFinal == Spec => DeliveredSinkIsFinal
<1>1. ConfirmInv /\ [Next]_vars => [\A d \in LeaseId, s \in Sink : ConfirmationKept(d, s)]_vars
  BY StepConfirmationKept
<1> QED
  BY <1>1, ConfirmInvariant, PTL DEF DeliveredSinkIsFinal, Spec

-----------------------------------------------------------------------------
(* Claims.                                                                 *)

\* Tokens count the attempts of a sink, so an old token is a smaller one.
TokenBound ==
  \A a \in attempts : deliveries[a.delivery].state # "none" =>
    a.token <= deliveries[a.delivery].sinks[a.sink].attempts

TokenUnique == \A a, b \in attempts : SameAttempt(a, b) => a = b

\* The store knows a live claim by its token and its end.
LiveHeld ==
  \A a \in attempts : a.until > now /\ deliveries[a.delivery].state = "pending" =>
    /\ deliveries[a.delivery].sinks[a.sink].token = a.token
    /\ deliveries[a.delivery].sinks[a.sink].claimedUntil = a.until

LiveAlone ==
  \A a, b \in attempts :
    a.until > now /\ b.until > now /\ a.delivery = b.delivery /\ a.sink = b.sink => a = b

ClaimInv ==
  LeaseInv /\ TokensAreOpen /\ TokenBound /\ TokenUnique /\ LiveHeld /\ LiveAlone

\* An attempt that is not completed by the step, in steps that claim nothing.
Kept(a) ==
  /\ a \in attempts
  /\ \A b \in attempts : CompleteSuccess(b) \/ CompleteFailure(b) => a # b

LEMMA TimeGrows ==
  ASSUME TypeOK, [Next]_vars
  PROVE  now' >= now
<1>1. ASSUME NEW i \in Item, Enqueue(i) PROVE now' = now
  BY <1>1 DEF Enqueue
<1>2. ASSUME NEW l \in LeaseId, Lease(l) \/ LeaseTopics(l) \/ Ack(l) \/ PrepareDelivery(l)
               \/ PrepareRejected(l) \/ RetryDelivery(l)
      PROVE  now' = now
  BY <1>2, LeaseTakes DEF GrantLease, Ack, PrepareDelivery, PrepareRejected, RetryDelivery
<1>3. ASSUME NEW a \in attempts,
             Send(a) \/ CompleteRejected(a) \/ CompleteSuccess(a) \/ CompleteFailure(a)
      PROVE  now' = now
  BY <1>3 DEF Send, CompleteRejected, CompleteSuccess, CompleteFailure, Finished
<1>4. ASSUME ClaimDueAttempts \/ ExpireDue \/ Purge \/ Restart \/ UNCHANGED vars
      PROVE  now' = now
  BY <1>4 DEF ClaimDueAttempts, ExpireDue, Purge, Restart, vars
<1>5. now' = now \/ Tick
  BY <1>1, <1>2, <1>3, <1>4 DEF Next
<1> QED
  BY <1>5 DEF Tick, TypeOK

\* What a step does to the checkpoint an attempt is for.
LEMMA KeptAttempt ==
  ASSUME ClaimInv, [Next]_vars, NEW a \in attempts,
         deliveries'[a.delivery].state # "none"
  PROVE  /\ deliveries[a.delivery].state # "none"
         /\ deliveries'[a.delivery].sinks[a.sink].attempts
              >= deliveries[a.delivery].sinks[a.sink].attempts
<1> USE DEF ClaimInv, LeaseInv
<1> DEFINE d == a.delivery
           s == a.sink
           c == deliveries[d].sinks[s]
           new == deliveries'[d].sinks[s]
<1>1. d \in LeaseId /\ s \in Sink
  BY AttemptOf
<1>2. c \in Checkpoint /\ new \in Checkpoint
  <2>1. TypeOK'
    BY StepType
  <2>2. deliveries' \in [LeaseId -> DeliveryRecord]
    BY <2>1 DEF TypeOK
  <2>3. deliveries'[d] \in DeliveryRecord
    BY <1>1, <2>2
  <2> QED
    BY <1>1, <2>3, SinksOf DEF DeliveryRecord
<1>3. ~PrepareDelivery(d)
  BY <1>1, PreparedIsUsed DEF LeasesUsedOnce
<1>4. c.attempts \in Nat
  BY <1>2, Numbers DEF Checkpoint
<1>5. new.attempts >= c.attempts
  <2>1. \/ new = c \/ new = ClaimSink(c) \/ new = ReviveSink(c)
        \/ new.attempts = c.attempts
    BY <1>1, <1>2, <1>3, SinkStep
  <2>2. new.attempts = c.attempts \/ new.attempts = c.attempts + 1
    BY <1>2, <2>1, CheckpointFields
  <2> QED
    BY <1>4, <2>2
<1>6. deliveries[d].state # "none"
  <2> SUFFICES ASSUME deliveries[d].state = "none" PROVE FALSE
    OBVIOUS
  <2>1. deliveries'[d] # deliveries[d] /\ ~ClaimStep(d) /\ ~RetryDelivery(d)
    BY <1>1, RetryFields DEF ClaimStep
  <2>2. ~ExpireStep(d) /\ ~PurgeStep(d)
    BY DoomedPending DEF ExpireStep, PurgeStep, DeliveryEnded
  <2>3. \A b \in attempts : b.delivery = d => ~CompleteSuccess(b) /\ ~CompleteFailure(b)
    BY DEF CompleteSuccess, CompleteFailure, Current
  <2> QED
    BY <1>1, <1>3, <2>1, <2>2, <2>3, DeliveryStep
<1> QED
  BY <1>5, <1>6

\* A claim that is still live after the step was live before, and unless its
\* own completion is the step, its checkpoint does not move.
LEMMA LiveKept ==
  ASSUME ClaimInv, [Next]_vars, NEW a \in attempts, a.until > now', Kept(a),
         deliveries'[a.delivery].state = "pending"
  PROVE  /\ deliveries'[a.delivery].sinks[a.sink].token = a.token
         /\ deliveries'[a.delivery].sinks[a.sink].claimedUntil = a.until
<1> USE DEF ClaimInv, LeaseInv
<1> DEFINE d == a.delivery
           s == a.sink
           c == deliveries[d].sinks[s]
           new == deliveries'[d].sinks[s]
<1>1. d \in LeaseId /\ s \in Sink /\ a.until \in Nat
  BY AttemptOf
<1>2. a.until > now
  <2>1. now' \in Nat /\ now \in Nat
    BY StepType DEF TypeOK
  <2> QED
    BY <1>1, <2>1, TimeGrows
<1>3. ~PrepareDelivery(d)
  BY <1>1, PreparedIsUsed DEF LeasesUsedOnce
<1>4. ASSUME deliveries[d].state = "pending"
      PROVE  c.token = a.token /\ c.claimedUntil = a.until
  BY <1>2, <1>4 DEF LiveHeld
<1>5. ASSUME Idle(d, s)
      PROVE  FALSE
  <2>1. c.claimedUntil <= now /\ deliveries[d].state = "pending"
    BY <1>5 DEF Idle
  <2> QED
    BY <1>1, <1>2, <1>4, <2>1 DEF TypeOK
<1>6. ASSUME NEW b \in attempts, b.delivery = d, b.sink = s, Current(b),
             CompleteSuccess(b) \/ CompleteFailure(b)
      PROVE  FALSE
  <2>1. b.token = a.token
    BY <1>4, <1>6 DEF Current
  <2>2. a = b
    BY <1>6, <2>1 DEF TokenUnique, SameAttempt
  <2> QED
    BY <1>6, <2>2 DEF Kept
<1>7. new = c
  BY <1>1, <1>3, <1>5, <1>6, SinkStep DEF Due, Retryable
<1>8. deliveries[d].state = "pending"
  <2>1. ASSUME deliveries[d].state # "pending" PROVE deliveries'[d].state # "pending"
    <3>1. ~ClaimStep(d) /\ ~RetryDelivery(d)
      BY <1>1, <2>1, RetryFields DEF ClaimStep
    <3>2. ~ExpireStep(d)
      BY <2>1, DoomedPending DEF ExpireStep
    <3>3. \A b \in attempts : b.delivery = d => ~CompleteSuccess(b) /\ ~CompleteFailure(b)
      BY <2>1 DEF CompleteSuccess, CompleteFailure, Current
    <3>4. PurgeStep(d) => deliveries'[d].state = "none"
      BY NoDeliveryFields DEF PurgeStep
    <3> QED
      BY <1>1, <1>3, <2>1, <3>1, <3>2, <3>3, <3>4, DeliveryStep
  <2> QED
    BY <2>1
<1> QED
  BY <1>4, <1>7, <1>8

\* The attempts after a step that claims nothing.
LEMMA OldAttempt ==
  ASSUME ClaimInv, [Next]_vars, ~ClaimDueAttempts, NEW a \in attempts'
  PROVE  \E b \in attempts :
           /\ SameAttempt(a, b) /\ a.until = b.until
           /\ Kept(b)
           /\ a = b \/ (Send(b) /\ a = [b EXCEPT !.sent = TRUE])
<1>1. ASSUME NEW b \in attempts, Send(b), a = [b EXCEPT !.sent = TRUE]
      PROVE  SameAttempt(a, b) /\ a.until = b.until /\ Kept(b)
  <2>1. SameAttempt(a, b) /\ a.until = b.until
    BY <1>1, SentFields, AttemptOf DEF SameAttempt, ClaimInv, LeaseInv
  <2>2. ASSUME NEW e \in attempts, CompleteSuccess(e) \/ CompleteFailure(e)
        PROVE  b # e
    <3>1. attempts' = attempts \ {e}
      BY <2>2 DEF CompleteSuccess, CompleteFailure, Finished
    <3>2. a \in attempts
      BY <3>1
    <3>3. a = b
      BY <2>1, <3>2 DEF ClaimInv, TokenUnique
    <3> QED
      BY <3>1, <3>3
  <2> QED
    BY <2>1, <2>2 DEF Kept
<1>2. ASSUME a \in attempts
      PROVE  SameAttempt(a, a) /\ Kept(a)
  BY <1>2 DEF SameAttempt, Kept, CompleteSuccess, CompleteFailure, Finished
<1>3. ~NewAttempt(a)
  BY DEF NewAttempt
<1> QED
  BY <1>1, <1>2, <1>3, AttemptStep DEF ClaimInv, LeaseInv

LEMMA StepClaimsKept ==
  ASSUME ClaimInv, [Next]_vars, ~ClaimDueAttempts
  PROVE  TokenBound' /\ TokenUnique' /\ LiveHeld' /\ LiveAlone'
<1>1. \A a \in attempts' : a.until \in Nat /\ a.token \in Nat
  <2>1. attempts' \subseteq Attempt
    BY StepType DEF ClaimInv, LeaseInv, TypeOK
  <2> QED
    BY <2>1 DEF Attempt
<1>2. now' \in Nat /\ now \in Nat /\ now' >= now
  BY StepType, TimeGrows DEF ClaimInv, LeaseInv, TypeOK
<1>3. TokenUnique'
  <2> SUFFICES ASSUME NEW a \in attempts', NEW b \in attempts', SameAttempt(a, b)
               PROVE  a = b
    BY DEF TokenUnique, SameAttempt
  <2>1. PICK e \in attempts : SameAttempt(a, e) /\ (a = e \/ (Send(e) /\ a = [e EXCEPT !.sent = TRUE]))
    BY OldAttempt
  <2>2. PICK f \in attempts : SameAttempt(b, f) /\ (b = f \/ (Send(f) /\ b = [f EXCEPT !.sent = TRUE]))
    BY OldAttempt
  <2>3. e = f
    BY <2>1, <2>2 DEF ClaimInv, TokenUnique, SameAttempt
  <2>4. ASSUME Send(e), e \in attempts' PROVE e = [e EXCEPT !.sent = TRUE]
    BY <2>4 DEF Send
  <2>5. CASE a = e /\ b = e
    BY <2>5
  <2>6. CASE a = e /\ b # e
    BY <2>2, <2>3, <2>4, <2>6
  <2>7. CASE a # e /\ b = e
    BY <2>1, <2>4, <2>7
  <2>8. CASE a # e /\ b # e
    BY <2>1, <2>2, <2>3, <2>8
  <2> QED
    BY <2>5, <2>6, <2>7, <2>8
<1>4. TokenBound'
  <2> SUFFICES ASSUME NEW a \in attempts', deliveries'[a.delivery].state # "none"
               PROVE  a.token <= deliveries'[a.delivery].sinks[a.sink].attempts
    BY DEF TokenBound
  <2>1. PICK b \in attempts : SameAttempt(a, b)
    BY OldAttempt
  <2>2. /\ deliveries[b.delivery].state # "none"
        /\ deliveries'[b.delivery].sinks[b.sink].attempts
              >= deliveries[b.delivery].sinks[b.sink].attempts
    BY <2>1, KeptAttempt DEF SameAttempt
  <2>3. b.token <= deliveries[b.delivery].sinks[b.sink].attempts
    BY <2>2 DEF ClaimInv, TokenBound
  <2>4. deliveries[b.delivery].sinks[b.sink].attempts \in Nat
    BY AttemptOf, SinksOf, Numbers DEF ClaimInv, LeaseInv, Checkpoint
  <2>5. deliveries'[b.delivery].sinks[b.sink].attempts \in Int
    <3>1. TypeOK' /\ b.delivery \in LeaseId /\ b.sink \in Sink
      BY StepType, AttemptOf DEF ClaimInv, LeaseInv
    <3>2. deliveries'[b.delivery] \in DeliveryRecord
      BY <3>1 DEF TypeOK
    <3>3. deliveries'[b.delivery].sinks[b.sink] \in Checkpoint
      BY <3>1, <3>2 DEF DeliveryRecord
    <3> QED
      BY <3>3, Numbers DEF Checkpoint
  <2> QED
    BY <1>1, <2>1, <2>2, <2>3, <2>4, <2>5 DEF SameAttempt
<1>5. LiveHeld'
  <2> SUFFICES ASSUME NEW a \in attempts', a.until > now', deliveries'[a.delivery].state = "pending"
               PROVE  /\ deliveries'[a.delivery].sinks[a.sink].token = a.token
                      /\ deliveries'[a.delivery].sinks[a.sink].claimedUntil = a.until
    BY DEF LiveHeld
  <2>1. PICK b \in attempts : SameAttempt(a, b) /\ a.until = b.until /\ Kept(b)
    BY OldAttempt
  <2> QED
    BY <2>1, LiveKept DEF SameAttempt
<1>6. LiveAlone'
  <2> SUFFICES ASSUME NEW a \in attempts', NEW b \in attempts', a.until > now', b.until > now',
                      a.delivery = b.delivery, a.sink = b.sink
               PROVE  a = b
    BY DEF LiveAlone
  <2>1. PICK e \in attempts : SameAttempt(a, e) /\ a.until = e.until
    BY OldAttempt
  <2>2. PICK f \in attempts : SameAttempt(b, f) /\ b.until = f.until
    BY OldAttempt
  <2>3. e.until > now /\ f.until > now
    BY <1>1, <1>2, <2>1, <2>2
  <2>4. e = f
    BY <2>1, <2>2, <2>3 DEF ClaimInv, LiveAlone, SameAttempt
  <2>5. SameAttempt(a, b)
    BY <2>1, <2>2, <2>4 DEF SameAttempt
  <2> QED
    BY <1>3, <2>5 DEF TokenUnique, SameAttempt
<1> QED
  BY <1>3, <1>4, <1>5, <1>6

\* The attempts ClaimDueAttempts hands out hold the sinks they are for.
JustClaimed(a) ==
  /\ a.delivery \in LeaseId /\ a.sink \in Sink
  /\ Due(a.delivery, a.sink)
  /\ a = [delivery |-> a.delivery, sink |-> a.sink,
          token |-> deliveries[a.delivery].sinks[a.sink].attempts + 1,
          until |-> now + ClaimTTL, sent |-> FALSE]
  /\ deliveries'[a.delivery].sinks[a.sink] = ClaimSink(deliveries[a.delivery].sinks[a.sink])

LEMMA ClaimedAttempts ==
  ASSUME TypeOK, ClaimDueAttempts
  PROVE  /\ attempts \subseteq attempts'
         /\ now' = now
         /\ \A a \in attempts' : a \in attempts \/ JustClaimed(a)
<1> DEFINE new(c) == [delivery |-> c[1], sink |-> c[2],
                      token |-> deliveries[c[1]].sinks[c[2]].attempts + 1,
                      until |-> now + ClaimTTL, sent |-> FALSE]
<1>1. PICK batch \in SUBSET Claimable :
        /\ deliveries' = [d \in LeaseId |->
             IF \E s \in Sink : <<d, s>> \in batch THEN Claimed(d, batch)
             ELSE IF d \in Doomed THEN Terminal(deliveries[d], "expired", DoomReason(d))
             ELSE deliveries[d]]
        /\ attempts' = attempts \cup {new(c) : c \in batch}
  BY DEF ClaimDueAttempts
<1>2. ASSUME NEW c \in batch
      PROVE  JustClaimed(new(c))
  <2>1. c[1] \in LeaseId /\ c[2] \in Sink /\ c = <<c[1], c[2]>> /\ Due(c[1], c[2])
    BY ClaimableHasAttempt
  <2>2. deliveries'[c[1]] = Claimed(c[1], batch)
    BY <1>1, <2>1
  <2>3. Claimed(c[1], batch).sinks[c[2]] = ClaimSink(deliveries[c[1]].sinks[c[2]])
    BY <2>1, ClaimedSinks
  <2>4. new(c).delivery = c[1] /\ new(c).sink = c[2]
    OBVIOUS
  <2> QED
    BY <2>1, <2>2, <2>3, <2>4 DEF JustClaimed
<1>3. now' = now
  BY DEF ClaimDueAttempts
<1> HIDE DEF new
<1> QED
  BY <1>1, <1>2, <1>3

LEMMA StepClaimsNew ==
  ASSUME ClaimInv, [Next]_vars, ClaimDueAttempts
  PROVE  TokenBound' /\ TokenUnique' /\ LiveHeld' /\ LiveAlone'
<1> USE DEF ClaimInv, LeaseInv
<1>1. /\ attempts \subseteq attempts' /\ now' = now
      /\ \A a \in attempts' : a \in attempts \/ JustClaimed(a)
  BY ClaimedAttempts
<1>2. ASSUME NEW a, JustClaimed(a)
      PROVE  LET c == deliveries[a.delivery].sinks[a.sink]
                 new == deliveries'[a.delivery].sinks[a.sink]
             IN  /\ c \in Checkpoint /\ c.attempts \in Nat
                 /\ a.token = c.attempts + 1 /\ a.until = now + ClaimTTL
                 /\ new.token = a.token /\ new.attempts = a.token /\ new.claimedUntil = a.until
                 /\ deliveries[a.delivery].state = "pending"
                 /\ c.claimedUntil <= now
  <2> DEFINE c == deliveries[a.delivery].sinks[a.sink]
  <2>1. c \in Checkpoint
    BY <1>2, SinksOf DEF JustClaimed
  <2>2. c.attempts \in Nat
    BY <2>1, Numbers DEF Checkpoint
  <2>3. a.token = c.attempts + 1 /\ a.until = now + ClaimTTL
    BY <1>2 DEF JustClaimed
  <2>4. deliveries[a.delivery].state = "pending" /\ c.claimedUntil <= now
    BY <1>2 DEF JustClaimed, Due, Idle
  <2>5. deliveries'[a.delivery].sinks[a.sink] = ClaimSink(c)
    BY <1>2 DEF JustClaimed
  <2> QED
    BY <2>1, <2>2, <2>3, <2>4, <2>5, CheckpointFields
<1>3. ASSUME NEW a \in attempts PROVE Kept(a)
  <2> SUFFICES ASSUME NEW b \in attempts, CompleteSuccess(b) \/ CompleteFailure(b), a = b
               PROVE  FALSE
    BY DEF Kept
  <2> QED
    BY <1>1 DEF CompleteSuccess, CompleteFailure, Finished
<1>4. ASSUME NEW a, NEW b, JustClaimed(a), JustClaimed(b), a.delivery = b.delivery, a.sink = b.sink
      PROVE  a = b
  BY <1>4 DEF JustClaimed
<1>5. TokenBound'
  <2> SUFFICES ASSUME NEW a \in attempts', deliveries'[a.delivery].state # "none"
               PROVE  a.token <= deliveries'[a.delivery].sinks[a.sink].attempts
    BY DEF TokenBound
  <2>1. CASE a \in attempts
    <3> DEFINE new == deliveries'[a.delivery].sinks[a.sink].attempts
               old == deliveries[a.delivery].sinks[a.sink].attempts
    <3>1. deliveries[a.delivery].state # "none" /\ new >= old
      BY <2>1, KeptAttempt
    <3>2. a.token <= old
      BY <2>1, <3>1 DEF TokenBound
    <3>3. a.token \in Nat /\ old \in Nat /\ new \in Nat
      <4>1. /\ TypeOK' /\ a.delivery \in LeaseId /\ a.sink \in Sink /\ a.token \in Nat
        BY <2>1, StepType, AttemptOf
      <4>2. deliveries'[a.delivery] \in DeliveryRecord
        BY <4>1 DEF TypeOK
      <4>3. deliveries'[a.delivery].sinks[a.sink] \in Checkpoint
        BY <4>1, <4>2 DEF DeliveryRecord
      <4>4. deliveries[a.delivery].sinks[a.sink] \in Checkpoint
        BY <4>1, SinksOf
      <4> QED
        BY <4>1, <4>3, <4>4, Numbers DEF Checkpoint
    <3> QED
      BY <3>1, <3>2, <3>3
  <2>2. CASE JustClaimed(a)
    BY <1>2, <2>2
  <2> QED
    BY <1>1, <2>1, <2>2
<1>6. TokenUnique'
  <2> SUFFICES ASSUME NEW a \in attempts', NEW b \in attempts', SameAttempt(a, b)
               PROVE  a = b
    BY DEF TokenUnique, SameAttempt
  <2>1. ASSUME NEW e \in attempts, NEW f, JustClaimed(f), SameAttempt(e, f)
        PROVE  FALSE
    <3>1. e.token <= deliveries[e.delivery].sinks[e.sink].attempts
      BY <1>2, <2>1 DEF TokenBound, SameAttempt
    <3>2. e.token = deliveries[e.delivery].sinks[e.sink].attempts + 1
      BY <1>2, <2>1 DEF SameAttempt
    <3>3. deliveries[e.delivery].sinks[e.sink].attempts \in Nat
      BY <1>2, <2>1 DEF SameAttempt
    <3> QED
      BY <3>1, <3>2, <3>3
  <2>2. CASE a \in attempts /\ b \in attempts
    BY <2>2 DEF TokenUnique
  <2>3. CASE JustClaimed(a) /\ JustClaimed(b)
    BY <1>4, <2>3 DEF SameAttempt
  <2> QED
    BY <1>1, <2>1, <2>2, <2>3 DEF SameAttempt
<1>7. LiveHeld'
  <2> SUFFICES ASSUME NEW a \in attempts', a.until > now', deliveries'[a.delivery].state = "pending"
               PROVE  /\ deliveries'[a.delivery].sinks[a.sink].token = a.token
                      /\ deliveries'[a.delivery].sinks[a.sink].claimedUntil = a.until
    BY DEF LiveHeld
  <2>1. CASE a \in attempts
    BY <1>3, <2>1, LiveKept
  <2>2. CASE JustClaimed(a)
    BY <1>2, <2>2
  <2> QED
    BY <1>1, <2>1, <2>2
<1>8. LiveAlone'
  <2> SUFFICES ASSUME NEW a \in attempts', NEW b \in attempts', a.until > now, b.until > now,
                      a.delivery = b.delivery, a.sink = b.sink
               PROVE  a = b
    BY <1>1 DEF LiveAlone
  <2>1. ASSUME NEW e \in attempts, NEW f, JustClaimed(f), e.until > now,
               e.delivery = f.delivery, e.sink = f.sink
        PROVE  FALSE
    <3> DEFINE held == deliveries[e.delivery].sinks[e.sink].claimedUntil
    <3>1. held = e.until
      BY <1>2, <2>1 DEF LiveHeld
    <3>2. held <= now
      BY <1>2, <2>1
    <3>3. e.until \in Nat /\ now \in Nat
      BY AttemptOf DEF TypeOK
    <3> QED
      BY <2>1, <3>1, <3>2, <3>3
  <2>2. CASE a \in attempts /\ b \in attempts
    BY <2>2 DEF LiveAlone
  <2>3. CASE JustClaimed(a) /\ JustClaimed(b)
    BY <1>4, <2>3
  <2> QED
    BY <1>1, <2>1, <2>2, <2>3
<1> QED
  BY <1>5, <1>6, <1>7, <1>8

\* While a claim is live, its worker is the only one that can complete the
\* sink: no second worker, operator or earlier attempt holds the token.
THEOREM ClaimsAreExclusive == Spec => []LiveClaimIsExclusive
<1>1. Init => ClaimInv
  <2> SUFFICES ASSUME Init PROVE ClaimInv
    OBVIOUS
  <2>1. LeaseInv
    BY InitType, NoDeliveryFields DEF Init, LeaseInv, LeasesUsedOnce, NoItem
  <2>2. TokensAreOpen
    BY NoDeliverySinks, NewCheckpointFields DEF Init, TokensAreOpen
  <2>3. attempts = {}
    BY DEF Init
  <2> QED
    BY <2>1, <2>2, <2>3 DEF ClaimInv, TokenBound, TokenUnique, LiveHeld, LiveAlone
<1>2. ClaimInv /\ [Next]_vars => ClaimInv'
  <2> SUFFICES ASSUME ClaimInv, [Next]_vars PROVE ClaimInv'
    OBVIOUS
  <2>1. LeaseInv' /\ TokensAreOpen'
    BY StepLease, StepTokens DEF ClaimInv, LeaseInv
  <2>2. TokenBound' /\ TokenUnique' /\ LiveHeld' /\ LiveAlone'
    BY StepClaimsKept, StepClaimsNew
  <2> QED
    BY <2>1, <2>2 DEF ClaimInv
<1>3. ClaimInv => LiveClaimIsExclusive
  <2> SUFFICES ASSUME ClaimInv PROVE LiveClaimIsExclusive
    OBVIOUS
  <2>1. ASSUME NEW a \in attempts, a.until > now, deliveries[a.delivery].state = "pending"
        PROVE  /\ deliveries[a.delivery].sinks[a.sink].token = a.token
               /\ ~deliveries[a.delivery].sinks[a.sink].delivered
    <3>1. Current(a)
      BY <2>1 DEF Current, ClaimInv, LiveHeld
    <3> QED
      BY <3>1, CurrentIsOpen DEF Current, ClaimInv, LeaseInv
  <2>2. \A a, b \in attempts :
          a.until > now /\ b.until > now /\ b.delivery = a.delivery /\ b.sink = a.sink => a = b
    BY DEF ClaimInv, LiveAlone
  <2> QED
    BY <2>1, <2>2 DEF LiveClaimIsExclusive
<1> QED
  BY <1>1, <1>2, <1>3, PTL DEF Spec

-----------------------------------------------------------------------------
(* Topics.                                                                 *)

\* Outside the leases an item only stops being active, or goes from its
\* briefing into the delivery of the same lease.
LEMMA ActiveKept ==
  ASSUME TypeOK, [Next]_vars, ~\E l \in LeaseId : Lease(l) \/ LeaseTopics(l),
         NEW i \in Item, Active(i)'
  PROVE  Active(i) /\ items'[i].lease = items[i].lease
<1>1. items[i] \in ItemRecord /\ now \in Nat
  BY DEF TypeOK
<1>2. CASE items'[i] = items[i]
  <2>1. now <= now'
    BY TimeGrows
  <2>2. now' \in Nat /\ items[i].leaseUntil \in Nat
    BY <1>1, StepType DEF TypeOK, ItemRecord
  <2> QED
    BY <1>1, <1>2, <2>1, <2>2 DEF Active
<1>3. ASSUME NEW st \in {"acked", "expired"}, items'[i] = MarkItemTerminal(items[i], st) PROVE FALSE
  BY <1>3, ItemEnd DEF Active
<1>4. ASSUME items'[i].state \in {"absent", "pending"} PROVE FALSE
  BY <1>4 DEF Active
<1>5. ASSUME NEW j \in Item, Enqueue(j)
      PROVE  items'[i] = items[i] \/ items'[i].state = "pending"
  BY <1>5 DEF Enqueue, TypeOK, NoItem
<1>6. ASSUME NEW l \in LeaseId, Ack(l) \/ PrepareRejected(l)
      PROVE  items'[i] = items[i] \/ \E st \in {"acked", "expired"} : items'[i] = MarkItemTerminal(items[i], st)
  BY <1>6 DEF Ack, PrepareRejected
<1>7. ASSUME NEW l \in LeaseId, PrepareDelivery(l)
      PROVE  \/ items'[i] = items[i]
             \/ items'[i] = MarkItemTerminal(items[i], "expired")
             \/ Active(i) /\ items'[i].lease = items[i].lease
  <2>1. CASE i \in Holds(l)
    <3>1. items'[i] = [items[i] EXCEPT !.state = "delivering", !.delivery = l, !.leaseUntil = 0]
      BY <1>7, <2>1 DEF PrepareDelivery
    <3>2. items'[i].lease = items[i].lease
      BY <1>1, <3>1 DEF ItemRecord
    <3>3. items[i].state = "leased" /\ ~LeaseLapsed(i)
      BY <1>7, <2>1 DEF PrepareDelivery, Holds, LeaseInvalid
    <3>4. Active(i)
      BY <1>1, <3>3 DEF LeaseLapsed, Active, ItemRecord
    <3> QED
      BY <3>2, <3>4
  <2>2. CASE i \notin Holds(l)
    BY <1>7, <2>2 DEF PrepareDelivery
  <2> QED
    BY <2>1, <2>2
<1>8. CASE ExpireDue
  <2>1. CASE TTLExpired(i) \/ i \in ItemsOf(Doomed) \/ ~(~indexed /\ LeaseLapsed(i))
    BY <1>2, <1>3, <1>8, <2>1 DEF ExpireDue
  <2>2. CASE ~(TTLExpired(i) \/ i \in ItemsOf(Doomed)) /\ ~indexed /\ LeaseLapsed(i)
    <3>1. items'[i] = [items[i] EXCEPT !.state = "pending", !.lease = NoLease, !.leaseUntil = 0]
      BY <1>8, <2>2 DEF ExpireDue
    <3> QED
      BY <1>1, <1>4, <3>1 DEF ItemRecord
  <2> QED
    BY <2>1, <2>2
<1>9. CASE Purge
  BY <1>2, <1>4, <1>9 DEF Purge, NoItem
<1>10. CASE ClaimDueAttempts
  BY <1>2, <1>3, <1>10 DEF ClaimDueAttempts
<1>11. ASSUME NEW a \in attempts, CompleteSuccess(a) \/ CompleteFailure(a)
       PROVE  items'[i] = items[i] \/ \E st \in {"acked", "expired"} : items'[i] = MarkItemTerminal(items[i], st)
  BY <1>11 DEF CompleteSuccess, CompleteFailure
<1>12. CASE \/ \E l \in LeaseId : RetryDelivery(l)
            \/ \E a \in attempts : Send(a) \/ CompleteRejected(a)
            \/ Restart \/ Tick \/ UNCHANGED vars
  BY <1>2, <1>12 DEF RetryDelivery, Send, CompleteRejected, store, Restart, Tick, vars
<1> QED
  BY <1>2, <1>3, <1>4, <1>5, <1>6, <1>7, <1>8, <1>9, <1>10, <1>11, <1>12 DEF Next

\* LeaseTopics takes from topics nobody is working on.
LEMMA TopicsTaken ==
  ASSUME NEW l \in LeaseId, LeaseTopics(l)
  PROVE  \E taken \in SUBSET Item, expired \in SUBSET Item :
           /\ GrantLease(l, taken, expired)
           /\ taken \cap expired = {}
           /\ \A i \in taken, j \in Item \ expired : TopicOf[j] = TopicOf[i] => ~InFlight(j)
<1> DEFINE expired == {i \in Item : TTLExpired(i)}
           members(t) == {i \in Item : TopicOf[i] = t /\ Waiting(i)} \ expired
           active(t) == \E i \in Item \ expired : TopicOf[i] = t /\ InFlight(i)
           groups == {members(t) : t \in {u \in Topic : members(u) # {} /\ ~active(u)}}
<1>1. PICK chosen \in SUBSET groups : GrantLease(l, UNION chosen, expired)
  BY DEF LeaseTopics
<1>2. ASSUME NEW i \in UNION chosen
      PROVE  /\ i \in Item \ expired
             /\ \A j \in Item \ expired : TopicOf[j] = TopicOf[i] => ~InFlight(j)
  <2>1. PICK t \in Topic : i \in members(t) /\ ~active(t)
    BY <1>2
  <2> QED
    BY <2>1
<1> HIDE DEF groups, members, active
<1>3. UNION chosen \in SUBSET Item /\ expired \in SUBSET Item
  BY <1>2
<1> QED
  BY <1>1, <1>2, <1>3

LEMMA StepTopics ==
  ASSUME ~Legacy, TypeOK, TopicNotSplit, [Next]_vars
  PROVE  TopicNotSplit'
<1>1. CASE ~\E l \in LeaseId : Lease(l) \/ LeaseTopics(l)
  BY <1>1, ActiveKept DEF TopicNotSplit
<1>2. ASSUME NEW l \in LeaseId, LeaseTopics(l)
      PROVE  TopicNotSplit'
  <2>1. PICK taken \in SUBSET Item, expired \in SUBSET Item :
           /\ GrantLease(l, taken, expired)
           /\ taken \cap expired = {}
           /\ \A i \in taken, j \in Item \ expired : TopicOf[j] = TopicOf[i] => ~InFlight(j)
    BY <1>2, TopicsTaken
  <2>2. ASSUME NEW i \in taken PROVE items'[i].lease = l
    <3>1. items'[i] = [items[i] EXCEPT !.state = "leased", !.lease = l, !.leaseUntil = now + LeaseTTL]
      BY <2>1 DEF GrantLease
    <3> QED
      BY <3>1 DEF TypeOK, ItemRecord
  <2>3. ASSUME NEW i \in Item \ taken, Active(i)'
        PROVE  Active(i) /\ items'[i].lease = items[i].lease /\ InFlight(i) /\ i \notin expired
    <3>1. CASE i \in expired
      <4>1. items'[i] = MarkItemTerminal(items[i], "expired")
        BY <2>1, <2>3, <3>1 DEF GrantLease
      <4> QED
        BY <2>3, <4>1, ItemEnd DEF Active
    <3>2. CASE i \notin expired
      <4>1. items'[i] = items[i] /\ now' = now
        BY <2>1, <2>3, <3>2 DEF GrantLease
      <4>2. Active(i)
        BY <2>3, <4>1 DEF Active
      <4>3. InFlight(i)
        BY <4>2 DEF Active, InFlight, LeaseLapsed, TypeOK, ItemRecord
      <4> QED
        BY <3>2, <4>1, <4>2, <4>3
    <3> QED
      BY <3>1, <3>2
  <2>4. SUFFICES ASSUME NEW i \in Item, NEW j \in Item, Active(i)', Active(j)', TopicOf[i] = TopicOf[j]
                 PROVE  items'[i].lease = items'[j].lease
    BY DEF TopicNotSplit
  <2>5. CASE i \in taken /\ j \in taken
    BY <2>2, <2>5
  <2>6. CASE i \in taken /\ j \notin taken
    BY <2>1, <2>3, <2>4, <2>6
  <2>7. CASE i \notin taken /\ j \in taken
    BY <2>1, <2>3, <2>4, <2>7
  <2>8. CASE i \notin taken /\ j \notin taken
    BY <2>3, <2>4, <2>8 DEF TopicNotSplit
  <2> QED
    BY <2>5, <2>6, <2>7, <2>8
<1> QED
  BY <1>1, <1>2 DEF Lease

\* A topic is never in two briefings at once (LeaseTopics), whatever leases
\* lapse while their briefings are rendered, as long as every client is one
\* of topics: the v1 clients lease items one by one and may split it.
THEOREM TopicsTravelTogether ==
  ASSUME ~Legacy
  PROVE  Spec => []TopicNotSplit
<1>1. Init => TopicNotSplit
  BY DEF Init, NoItem, TopicNotSplit, Active
<1>2. TypeOK /\ TopicNotSplit /\ [Next]_vars => TopicNotSplit'
  BY StepTopics
<1> QED
  BY <1>1, <1>2, TypeCorrect, PTL DEF Spec

-----------------------------------------------------------------------------
(* The abstract queue.  Most transactions drop some waiting items and some *)
(* open digests with their items, often none: one lemma covers them all.   *)

StatusOf(state) ==
  IF state \in {"pending", "leased"} THEN "waiting"
  ELSE IF state = "delivering" THEN "committed"
  ELSE IF state = "expired" THEN "dropped" ELSE state

DigestStateOf(state) ==
  IF state = "pending" THEN "open"
  ELSE IF state = "delivered" THEN "done"
  ELSE IF state = "expired" THEN "dropped" ELSE "none"

DigestOf(r) == [state |-> DigestStateOf(r.state), items |-> r.items, audience |-> r.required]

\* The refinement mapping, before and after a step.
LEMMA QueueMapping ==
  /\ QueueStatus = [i \in Item |-> StatusOf(items[i].state)]
  /\ QueueStatus' = [i \in Item |-> StatusOf(items'[i].state)]
  /\ QueueDigest = [d \in LeaseId |-> DigestOf(deliveries[d])]
  /\ QueueDigest' = [d \in LeaseId |-> DigestOf(deliveries'[d])]
<1>1. /\ QueueStatus = [i \in Item |-> StatusOf(items[i].state)]
      /\ QueueStatus' = [i \in Item |-> StatusOf(items'[i].state)]
  BY DEF QueueStatus, StatusOf
<1>2. /\ QueueDigest = [d \in LeaseId |-> DigestOf(deliveries[d])]
      /\ QueueDigest' = [d \in LeaseId |-> DigestOf(deliveries'[d])]
  BY DEF QueueDigest, DigestOf, DigestStateOf
<1> QED
  BY <1>1, <1>2

\* The items of a delivery, by the delivery or by the digest.
LEMMA QueueItems ==
  ASSUME NEW D \in SUBSET LeaseId
  PROVE  Queue!ItemsIn(D) = ItemsOf(D)
<1>1. \A d \in LeaseId : QueueDigest[d].items = deliveries[d].items
  BY QueueMapping DEF DigestOf
<1> QED
  BY <1>1 DEF Queue!ItemsIn, ItemsOf

QueueDrops == \E S \in SUBSET Queue!Waiting, D \in SUBSET Queue!Open : Queue!Drop(S, D)

\* The items of S and the deliveries of D are given up.
GivesUp(S, D) ==
  /\ received' = received
  /\ \A i \in S : items[i].state \in {"pending", "leased"}
  /\ \A d \in D : deliveries[d].state = "pending" /\ deliveries'[d].state = "expired"
  /\ \A i \in S \cup ItemsOf(D) : i \in Item => items'[i].state = "expired"
  /\ \A i \in Item \ (S \cup ItemsOf(D)) : StatusOf(items'[i].state) = StatusOf(items[i].state)
  /\ \A d \in LeaseId : /\ deliveries'[d].items = deliveries[d].items
                         /\ deliveries'[d].required = deliveries[d].required
  /\ \A d \in LeaseId \ D : deliveries'[d].state = deliveries[d].state

LEMMA DropsAreDrops ==
  ASSUME NEW S \in SUBSET Item, NEW D \in SUBSET LeaseId, GivesUp(S, D)
  PROVE  QueueDrops
<1> USE DEF GivesUp
<1>1. S \in SUBSET Queue!Waiting
  BY QueueMapping DEF Queue!Waiting, StatusOf
<1>2. D \in SUBSET Queue!Open
  BY QueueMapping DEF Queue!Open, DigestOf, DigestStateOf
<1>3. QueueStatus' = Queue!Moved(S \cup Queue!ItemsIn(D), "dropped")
  <2>1. \A i \in Item : i \in S \cup ItemsOf(D) => StatusOf(items'[i].state) = "dropped"
    BY DEF StatusOf
  <2> QED
    BY <2>1, QueueMapping, QueueItems DEF Queue!Moved
<1>4. QueueDigest' = [d \in LeaseId |->
        IF d \in D THEN [QueueDigest[d] EXCEPT !.state = "dropped"] ELSE QueueDigest[d]]
  <2>1. ASSUME NEW d \in D PROVE DigestOf(deliveries'[d]) = [DigestOf(deliveries[d]) EXCEPT !.state = "dropped"]
    BY <2>1 DEF DigestOf, DigestStateOf
  <2>2. ASSUME NEW d \in LeaseId \ D PROVE DigestOf(deliveries'[d]) = DigestOf(deliveries[d])
    BY <2>2 DEF DigestOf
  <2> QED
    BY <2>1, <2>2, QueueMapping
<1> QED
  BY <1>1, <1>2, <1>3, <1>4 DEF QueueDrops, Queue!Drop

\* Nothing visible happens: the drop of nothing.
LEMMA QuietQueue ==
  ASSUME received' = received, UNCHANGED items,
         \A d \in LeaseId : /\ deliveries'[d].items = deliveries[d].items
                            /\ deliveries'[d].required = deliveries[d].required
                            /\ deliveries'[d].state = deliveries[d].state
  PROVE  QueueDrops
<1>1. ItemsOf({}) = {}
  BY DEF ItemsOf
<1>2. GivesUp({}, {})
  BY <1>1 DEF GivesUp
<1> QED
  BY <1>2, DropsAreDrops

\* Only items no delivery owns change: some are dropped, the rest waits on.
LEMMA WaitingDropped ==
  ASSUME received' = received, UNCHANGED deliveries,
         NEW S \in SUBSET Item,
         \A i \in S : items[i].state \in {"pending", "leased"} /\ items'[i].state = "expired",
         \A i \in Item \ S : \/ items'[i].state = items[i].state
                             \/ /\ items[i].state \in {"pending", "leased"}
                                /\ items'[i].state \in {"pending", "leased"}
  PROVE  QueueDrops
<1>1. ItemsOf({}) = {}
  BY DEF ItemsOf
<1>2. \A i \in Item \ S : StatusOf(items'[i].state) = StatusOf(items[i].state)
  BY DEF StatusOf
<1>3. GivesUp(S, {})
  BY <1>1, <1>2 DEF GivesUp
<1> QED
  BY <1>3, DropsAreDrops

LEMMA EnqueueQueue ==
  ASSUME TypeOK, NEW i \in Item, Enqueue(i)
  PROVE  Queue!Add(i)
<1>1. /\ items[i].state = "absent" /\ items'[i].state = "pending"
      /\ \A j \in Item \ {i} : items'[j] = items[j]
      /\ UNCHANGED <<deliveries, received>>
  BY DEF Enqueue, TypeOK, NoItem
<1>2. QueueStatus[i] = "absent"
  BY <1>1, QueueMapping DEF StatusOf
<1>3. QueueStatus' = Queue!Moved({i}, "waiting")
  <2>1. \A j \in Item : StatusOf(items'[j].state) =
          IF j \in {i} THEN "waiting" ELSE StatusOf(items[j].state)
    BY <1>1 DEF StatusOf
  <2> QED
    BY <2>1, QueueMapping DEF Queue!Moved
<1>4. QueueDigest' = QueueDigest
  BY <1>1, QueueMapping
<1> QED
  BY <1>1, <1>2, <1>3, <1>4 DEF Queue!Add

LEMMA LeaseQueue ==
  ASSUME TypeOK, NEW l \in LeaseId, Lease(l) \/ LeaseTopics(l)
  PROVE  QueueDrops
<1>1. PICK taken \in SUBSET Item, expired \in SUBSET Item :
           /\ \A i \in taken : Waiting(i)
           /\ \A i \in expired : TTLExpired(i)
           /\ taken \cap expired = {}
           /\ GrantLease(l, taken, expired)
  BY LeaseTakes
<1>2. \A i \in expired : items[i].state \in {"pending", "leased"} /\ items'[i].state = "expired"
  BY <1>1, ItemEnd DEF TTLExpired, GrantLease
<1>3. ASSUME NEW i \in taken
      PROVE  items[i].state \in {"pending", "leased"} /\ items'[i].state = "leased"
  <2>1. items'[i] = [items[i] EXCEPT !.state = "leased", !.lease = l, !.leaseUntil = now + LeaseTTL]
    BY <1>1 DEF GrantLease
  <2>2. items'[i].state = "leased"
    BY <2>1 DEF TypeOK, ItemRecord
  <2> QED
    BY <1>1, <2>2 DEF Waiting, LeaseLapsed
<1>4. \A i \in Item \ (taken \cup expired) : items'[i] = items[i]
  BY <1>1 DEF GrantLease
<1>5. UNCHANGED <<deliveries, received>>
  BY <1>1 DEF GrantLease
<1>6. \A i \in Item \ expired : \/ items'[i].state = items[i].state
                                \/ /\ items[i].state \in {"pending", "leased"}
                                   /\ items'[i].state \in {"pending", "leased"}
  BY <1>3, <1>4
<1> QED
  BY <1>2, <1>5, <1>6, WaitingDropped

LEMMA AckQueue ==
  ASSUME TypeOK, NEW l \in LeaseId, Ack(l)
  PROVE  \E S, dropped \in SUBSET Queue!Waiting : Queue!Acknowledge(S, dropped)
<1> DEFINE S == Holds(l) \ {i \in Item : TTLExpired(i)}
           dropped == {i \in Item : TTLExpired(i)}
<1>1. S \in SUBSET Queue!Waiting /\ dropped \in SUBSET Queue!Waiting
  BY QueueMapping DEF Holds, TTLExpired, StatusOf, Queue!Waiting
<1>2. \A i \in Item : items'[i].state =
        IF i \in S THEN "acked" ELSE IF i \in dropped THEN "expired" ELSE items[i].state
  BY ItemEnd DEF Ack
<1> HIDE DEF S, dropped
<1>3. \A i \in Item : StatusOf(items'[i].state) =
        IF i \in S THEN "acked" ELSE IF i \in dropped THEN "dropped" ELSE StatusOf(items[i].state)
  BY <1>2 DEF StatusOf
<1>4. QueueStatus' = [i \in Item |->
        IF i \in S THEN "acked" ELSE IF i \in dropped THEN "dropped" ELSE QueueStatus[i]]
  BY <1>3, QueueMapping
<1>5. QueueDigest' = QueueDigest /\ received' = received
  BY QueueMapping DEF Ack
<1> QED
  BY <1>1, <1>4, <1>5 DEF Queue!Acknowledge

LEMMA PrepareQueue ==
  ASSUME TypeOK, NEW l \in LeaseId, PrepareDelivery(l)
  PROVE  \E S \in (SUBSET Queue!Waiting) \ {{}}, audience \in (SUBSET Sink) \ {{}},
            dropped \in SUBSET Queue!Waiting : Queue!Commit(l, S, audience, dropped)
<1> DEFINE S == Holds(l)
           dropped == {i \in Item : i \in ExpiredOnPrepare(l)}
<1>1. S \in (SUBSET Queue!Waiting) \ {{}} /\ dropped \in SUBSET Queue!Waiting
  BY QueueMapping DEF PrepareDelivery, Holds, ExpiredOnPrepare, TTLExpired, StatusOf, Queue!Waiting
<1>2. PICK required \in SinkSets :
        deliveries' = [deliveries EXCEPT ![l] =
          [NoDelivery EXCEPT !.state = "pending", !.items = Holds(l), !.required = required,
             !.sinks = [s \in Sink |-> NewCheckpoint(IF s \in required THEN now ELSE 0)],
             !.deadline = now + DeliveryTTL]]
  BY DEF PrepareDelivery
<1>3. required \in (SUBSET Sink) \ {{}}
  BY DigestConstants
<1>4. /\ deliveries'[l].state = "pending" /\ deliveries'[l].items = S
      /\ deliveries'[l].required = required
      /\ \A d \in LeaseId \ {l} : deliveries'[d] = deliveries[d]
      /\ deliveries[l].state = "none"
  <2> DEFINE sinks == [s \in Sink |-> NewCheckpoint(IF s \in required THEN now ELSE 0)]
             new == [NoDelivery EXCEPT !.state = "pending", !.items = Holds(l), !.required = required,
                       !.sinks = sinks, !.deadline = now + DeliveryTTL]
  <2>1. new.state = "pending" /\ new.items = S /\ new.required = required
    <3> HIDE DEF sinks
    <3> QED
      BY DEF NoDelivery
  <2>2. deliveries' = [deliveries EXCEPT ![l] = new]
    BY <1>2
  <2> HIDE DEF new
  <2>3. deliveries'[l] = new /\ \A d \in LeaseId \ {l} : deliveries'[d] = deliveries[d]
    BY <2>2 DEF TypeOK
  <2> QED
    BY <2>1, <2>3 DEF PrepareDelivery
<1>5. ASSUME NEW i \in Item
      PROVE  items'[i].state =
               IF i \in S THEN "delivering" ELSE IF i \in dropped THEN "expired" ELSE items[i].state
  <2>1. CASE i \in S
    <3>1. items'[i] = [items[i] EXCEPT !.state = "delivering", !.delivery = l, !.leaseUntil = 0]
      BY <2>1 DEF PrepareDelivery
    <3> QED
      BY <2>1, <3>1 DEF TypeOK, ItemRecord
  <2>2. CASE i \notin S
    BY <2>2, ItemEnd DEF PrepareDelivery
  <2> QED
    BY <2>1, <2>2
<1> HIDE DEF S, dropped
<1>6. QueueStatus' = [i \in Item |->
        IF i \in S THEN "committed" ELSE IF i \in dropped THEN "dropped" ELSE QueueStatus[i]]
  <2>1. \A i \in Item : StatusOf(items'[i].state) =
          IF i \in S THEN "committed" ELSE IF i \in dropped THEN "dropped" ELSE StatusOf(items[i].state)
    BY <1>5 DEF StatusOf
  <2> QED
    BY <2>1, QueueMapping
<1>7. QueueDigest' = [QueueDigest EXCEPT ![l] = [state |-> "open", items |-> S, audience |-> required]]
  <2>1. DigestOf(deliveries'[l]) = [state |-> "open", items |-> S, audience |-> required]
    BY <1>4 DEF DigestOf, DigestStateOf
  <2> QED
    BY <1>4, <2>1, QueueMapping
<1>8. QueueDigest[l].state = "none" /\ received' = received
  BY <1>4, QueueMapping DEF DigestOf, DigestStateOf, PrepareDelivery
<1> QED
  BY <1>1, <1>3, <1>6, <1>7, <1>8 DEF Queue!Commit

LEMMA RejectedQueue ==
  ASSUME TypeOK, NEW l \in LeaseId, PrepareRejected(l)
  PROVE  QueueDrops
<1> DEFINE S == {i \in Item : Holds(l) # {} /\ i \in ExpiredOnPrepare(l)}
<1>1. \A i \in S : items[i].state \in {"pending", "leased"} /\ items'[i].state = "expired"
  BY ItemEnd DEF PrepareRejected, ExpiredOnPrepare, TTLExpired
<1>2. \A i \in Item \ S : items'[i] = items[i]
  BY DEF PrepareRejected
<1>3. UNCHANGED <<deliveries, received>>
  BY DEF PrepareRejected
<1> HIDE DEF S
<1>4. S \in SUBSET Item
  BY DEF S
<1> QED
  BY <1>1, <1>2, <1>3, <1>4, WaitingDropped

\* A claim gives up the doomed deliveries; what it claims it leaves open.
LEMMA ClaimQueue ==
  ASSUME NoRevival, FenceInv, ClaimDueAttempts
  PROVE  QueueDrops
<1>1. PICK batch \in SUBSET Claimable :
        deliveries' = [d \in LeaseId |->
             IF \E s \in Sink : <<d, s>> \in batch THEN Claimed(d, batch)
             ELSE IF d \in Doomed THEN Terminal(deliveries[d], "expired", DoomReason(d))
             ELSE deliveries[d]]
  BY DEF ClaimDueAttempts
<1>2. \A d \in LeaseId : (\E s \in Sink : <<d, s>> \in batch) => d \notin Doomed
  <2> SUFFICES ASSUME NEW d \in LeaseId, NEW s \in Sink, <<d, s>> \in batch
               PROVE  d \notin Doomed
    OBVIOUS
  <2>1. <<d, s>>[1] = d /\ <<d, s>> \in Claimable
    OBVIOUS
  <2> QED
    BY <2>1, ClaimSparesDoomed
<1>3. \A d \in Doomed : /\ deliveries'[d].state = "expired"
                        /\ deliveries'[d].items = deliveries[d].items
                        /\ deliveries'[d].required = deliveries[d].required
  BY <1>1, <1>2, DoomedPending, DoomedEnd DEF FenceInv
<1>4. \A d \in LeaseId \ Doomed : /\ deliveries'[d].state = deliveries[d].state
                                  /\ deliveries'[d].items = deliveries[d].items
                                  /\ deliveries'[d].required = deliveries[d].required
  BY <1>1, ClaimedFields DEF FenceInv
<1>5. \A i \in Item : i \in ItemsOf(Doomed) => items'[i].state = "expired"
  BY ItemEnd DEF ClaimDueAttempts, FenceInv
<1>6. \A i \in Item : i \notin ItemsOf(Doomed) => items'[i] = items[i]
  BY DEF ClaimDueAttempts
<1>7. received' = received /\ Doomed \in SUBSET LeaseId
      /\ \A d \in Doomed : deliveries[d].state = "pending"
  BY DoomedPending DEF ClaimDueAttempts
<1>8. GivesUp({}, Doomed)
  BY <1>3, <1>4, <1>5, <1>6, <1>7 DEF GivesUp
<1> QED
  BY <1>7, <1>8, DropsAreDrops

LEMMA ExpireQueue ==
  ASSUME FenceInv, ExpireDue
  PROVE  QueueDrops
<1> DEFINE S == {i \in Item : TTLExpired(i)}
<1>1. \A d \in Doomed : /\ deliveries'[d].state = "expired"
                        /\ deliveries'[d].items = deliveries[d].items
                        /\ deliveries'[d].required = deliveries[d].required
  BY DoomedEnd, DoomedPending DEF ExpireDue, FenceInv
<1>2. \A d \in LeaseId \ Doomed : deliveries'[d] = deliveries[d]
  BY DEF ExpireDue
<1>3. \A i \in Item : i \in S \cup ItemsOf(Doomed) => items'[i].state = "expired"
  BY ItemEnd DEF ExpireDue, FenceInv
<1>4. ASSUME NEW i \in Item, i \notin S \cup ItemsOf(Doomed)
      PROVE  StatusOf(items'[i].state) = StatusOf(items[i].state)
  <2>1. CASE ~indexed /\ LeaseLapsed(i)
    <3>1. /\ items'[i] = [items[i] EXCEPT !.state = "pending", !.lease = NoLease, !.leaseUntil = 0]
          /\ items[i].state = "leased"
      BY <1>4, <2>1 DEF ExpireDue, LeaseLapsed
    <3>2. items'[i].state = "pending"
      BY <3>1 DEF FenceInv, TypeOK, ItemRecord
    <3> QED
      BY <3>1, <3>2 DEF StatusOf
  <2>2. CASE ~(~indexed /\ LeaseLapsed(i))
    BY <1>4, <2>2 DEF ExpireDue
  <2> QED
    BY <2>1, <2>2
<1>5. received' = received /\ Doomed \in SUBSET LeaseId
      /\ \A d \in Doomed : deliveries[d].state = "pending"
  BY DoomedPending DEF ExpireDue
<1>6. S \in SUBSET Item /\ \A i \in S : items[i].state \in {"pending", "leased"}
  BY DEF TTLExpired
<1> HIDE DEF S
<1>7. GivesUp(S, Doomed)
  BY <1>1, <1>2, <1>3, <1>4, <1>5, <1>6 DEF GivesUp
<1> QED
  BY <1>5, <1>6, <1>7, DropsAreDrops

\* One delivery gives up, or stays open.
LEMMA FailureQueue ==
  ASSUME FenceInv, NEW a \in attempts, CompleteFailure(a)
  PROVE  QueueDrops
<1> DEFINE d == a.delivery
<1>1. d \in LeaseId
  BY AttemptOf DEF FenceInv
<1>2. received' = received
  BY DEF CompleteFailure, Finished
<1>3. /\ deliveries[d].state = "pending"
      /\ \A e \in LeaseId \ {d} : deliveries'[e] = deliveries[e]
      /\ deliveries'[d].items = deliveries[d].items
      /\ deliveries'[d].required = deliveries[d].required
      /\ \/ /\ deliveries'[d].state = "expired"
            /\ items' = [i \in Item |-> IF i \in deliveries[d].items
                                          THEN MarkItemTerminal(items[i], "expired") ELSE items[i]]
         \/ deliveries'[d].state = "pending" /\ items' = items
  BY FailureEffect DEF FenceInv
<1> HIDE DEF d
<1>4. CASE deliveries'[d].state = "pending" /\ items' = items
  BY <1>1, <1>2, <1>3, <1>4, QuietQueue
<1>5. CASE /\ deliveries'[d].state = "expired"
           /\ items' = [i \in Item |-> IF i \in deliveries[d].items
                                         THEN MarkItemTerminal(items[i], "expired") ELSE items[i]]
  <2>1. ItemsOf({d}) = deliveries[d].items
    BY DEF ItemsOf
  <2>2. /\ \A i \in Item : i \in ItemsOf({d}) => items'[i].state = "expired"
        /\ \A i \in Item : i \notin ItemsOf({d}) => items'[i] = items[i]
    BY <1>5, <2>1, ItemEnd DEF FenceInv
  <2>3. GivesUp({}, {d})
    BY <1>1, <1>2, <1>3, <1>5, <2>2 DEF GivesUp
  <2> QED
    BY <1>1, <2>3, DropsAreDrops
<1> QED
  BY <1>3, <1>4, <1>5

\* A digest is done when its last sink confirms; by then every sink has it.
LEMMA SuccessQueue ==
  ASSUME FenceInv, AckInv, ConfirmedReceived', NEW a \in attempts, CompleteSuccess(a)
  PROVE  QueueDrops \/ \E d \in LeaseId : Queue!Deliver(d)
<1> DEFINE d == a.delivery
<1>1. d \in LeaseId
  BY AttemptOf DEF FenceInv
<1>2. received' = received
  BY DEF CompleteSuccess, Finished
<1>3. /\ deliveries[d].state = "pending"
      /\ \A e \in LeaseId \ {d} : deliveries'[e] = deliveries[e]
      /\ deliveries'[d].items = deliveries[d].items
      /\ deliveries'[d].required = deliveries[d].required
      /\ \/ deliveries'[d].state = "pending" /\ items' = items
         \/ /\ deliveries'[d].state = "delivered"
            /\ \A s \in deliveries'[d].required : deliveries'[d].sinks[s].delivered
            /\ items' = [i \in Item |-> IF i \in deliveries[d].items
                                          THEN MarkItemTerminal(items[i], "acked") ELSE items[i]]
  BY SuccessEffect DEF FenceInv
<1> HIDE DEF d
<1>4. CASE deliveries'[d].state = "pending" /\ items' = items
  BY <1>1, <1>2, <1>3, <1>4, QuietQueue
<1>5. CASE /\ deliveries'[d].state = "delivered"
           /\ \A s \in deliveries'[d].required : deliveries'[d].sinks[s].delivered
           /\ items' = [i \in Item |-> IF i \in deliveries[d].items
                                         THEN MarkItemTerminal(items[i], "acked") ELSE items[i]]
  <2>1. QueueDigest[d].state = "open" /\ QueueDigest[d].audience = deliveries[d].required
        /\ QueueDigest[d].items = deliveries[d].items
    BY <1>1, <1>3, QueueMapping DEF DigestOf, DigestStateOf
  <2>2. \A s \in QueueDigest[d].audience : <<d, s>> \in received
    BY <1>1, <1>2, <1>3, <1>5, <2>1, SinksOf DEF ConfirmedReceived, FenceInv
  <2>3. QueueStatus' = Queue!Moved(QueueDigest[d].items, "acked")
    <3>1. \A i \in Item : StatusOf(items'[i].state) =
            IF i \in deliveries[d].items THEN "acked" ELSE StatusOf(items[i].state)
      BY <1>5, ItemEnd DEF StatusOf, FenceInv
    <3> QED
      BY <2>1, <3>1, QueueMapping DEF Queue!Moved
  <2>4. QueueDigest' = [QueueDigest EXCEPT ![d].state = "done"]
    <3>1. DigestOf(deliveries'[d]) = [DigestOf(deliveries[d]) EXCEPT !.state = "done"]
      BY <1>3, <1>5 DEF DigestOf, DigestStateOf
    <3> QED
      BY <1>1, <1>3, <3>1, QueueMapping
  <2> QED
    BY <1>1, <1>2, <2>1, <2>2, <2>3, <2>4 DEF Queue!Deliver
<1> QED
  BY <1>3, <1>4, <1>5

LEMMA PurgeQueue ==
  ASSUME TypeOK, Purge
  PROVE  \E S \in SUBSET Item, D \in SUBSET LeaseId : Queue!Forget(S, D)
<1> DEFINE S == {i \in Item : items[i].state \in {"acked", "expired"} /\ Old(items[i].terminalAt)}
           D == {d \in LeaseId : deliveries[d].state \in {"delivered", "expired"}
                                   /\ Old(deliveries[d].terminalAt)}
<1>1. \A i \in Item : items'[i] = IF i \in S THEN NoItem ELSE items[i]
  BY DEF Purge
<1>2. \A d \in LeaseId : deliveries'[d] = IF d \in D THEN NoDelivery ELSE deliveries[d]
  BY DEF Purge
<1>3. \A i \in S : QueueStatus[i] \in {"acked", "dropped"}
  BY QueueMapping DEF StatusOf
<1>4. \A d \in D : QueueDigest[d].state \in {"done", "dropped"}
  BY QueueMapping DEF DigestOf, DigestStateOf
<1>5. received' = received /\ S \in SUBSET Item /\ D \in SUBSET LeaseId
  BY DEF Purge
<1> HIDE DEF S, D
<1>6. StatusOf(NoItem.state) = "absent"
  BY DEF NoItem, StatusOf
<1>7. DigestOf(NoDelivery) = Queue!NoDigest
  BY NoDeliveryFields DEF DigestOf, DigestStateOf, Queue!NoDigest
<1>8. QueueStatus' = Queue!Moved(S, "absent")
  BY <1>1, <1>6, QueueMapping DEF Queue!Moved
<1>9. QueueDigest' = [d \in LeaseId |-> IF d \in D THEN Queue!NoDigest ELSE QueueDigest[d]]
  BY <1>2, <1>7, QueueMapping
<1> QED
  BY <1>3, <1>4, <1>5, <1>8, <1>9 DEF Queue!Forget

LEMMA StepQueue ==
  ASSUME NoRevival, FenceInv, AckInv, AckInv', [Next]_vars
  PROVE  [Queue!Next]_<<QueueStatus, QueueDigest, received>>
<1>1. TypeOK
  BY DEF FenceInv
<1>2. QueueDrops => Queue!Next
  BY DEF QueueDrops, Queue!Next
<1>3. ASSUME NEW i \in Item, Enqueue(i) PROVE Queue!Next
  BY <1>1, <1>3, EnqueueQueue DEF Queue!Next
<1>4. ASSUME NEW l \in LeaseId, Lease(l) \/ LeaseTopics(l) \/ PrepareRejected(l) PROVE Queue!Next
  BY <1>1, <1>2, <1>4, LeaseQueue, RejectedQueue
<1>5. ASSUME NEW l \in LeaseId, Ack(l) PROVE Queue!Next
  BY <1>1, <1>5, AckQueue DEF Queue!Next
<1>6. ASSUME NEW l \in LeaseId, PrepareDelivery(l) PROVE Queue!Next
  BY <1>1, <1>6, PrepareQueue DEF Queue!Next
<1>7. ASSUME NEW d \in LeaseId, RetryDelivery(d) PROVE Queue!Next
  <2>1. /\ \A e \in LeaseId \ {d} : deliveries'[e] = deliveries[e]
        /\ deliveries'[d] = [deliveries[d] EXCEPT !.sinks = deliveries'[d].sinks]
    BY <1>1, <1>7, RetryFields
  <2>2. /\ deliveries'[d].state = deliveries[d].state
        /\ deliveries'[d].items = deliveries[d].items
        /\ deliveries'[d].required = deliveries[d].required
    BY <1>1, <2>1, SinksOf DEF DeliveryRecord
  <2>3. UNCHANGED <<items, received>>
    BY <1>7 DEF RetryDelivery
  <2> QED
    BY <1>2, <2>1, <2>2, <2>3, QuietQueue
<1>8. CASE ClaimDueAttempts
  BY <1>2, <1>8, ClaimQueue
<1>9. ASSUME NEW a \in attempts, Send(a) PROVE Queue!Next
  <2>1. a.delivery \in LeaseId /\ a.sink \in Sink
    BY <1>1, AttemptOf
  <2>2. UNCHANGED <<items, deliveries>> /\ received' = received \cup {<<a.delivery, a.sink>>}
    BY <1>9 DEF Send
  <2>3. QueueStatus' = QueueStatus /\ QueueDigest' = QueueDigest
    BY <2>2, QueueMapping
  <2>4. Queue!Reach(a.delivery, a.sink)
    BY <2>2, <2>3 DEF Queue!Reach
  <2> QED
    BY <2>1, <2>4 DEF Queue!Next
<1>10. ASSUME NEW a \in attempts, CompleteFailure(a) PROVE Queue!Next
  BY <1>2, <1>10, FailureQueue
<1>11. ASSUME NEW a \in attempts, CompleteSuccess(a) PROVE Queue!Next
  BY <1>2, <1>11, SuccessQueue DEF AckInv, Queue!Next
<1>12. CASE ExpireDue
  BY <1>2, <1>12, ExpireQueue
<1>13. CASE Purge
  BY <1>1, <1>13, PurgeQueue DEF Queue!Next
<1>14. CASE Restart \/ Tick \/ UNCHANGED vars \/ \E a \in attempts : CompleteRejected(a)
  <2>1. UNCHANGED <<items, deliveries, received>>
    BY <1>14 DEF Restart, Tick, vars, CompleteRejected, Finished, store
  <2> QED
    BY <1>2, <2>1, QuietQueue
<1> QED
  BY <1>3, <1>4, <1>5, <1>6, <1>7, <1>8, <1>9, <1>10, <1>11, <1>12, <1>13, <1>14 DEF Next

\* Every transaction of the store is a step of the queue it promises: an
\* item belongs to one digest, a digest ends with all its items, and is done
\* only when its audience has it.  As the fence, this needs that no briefing
\* of several channels meets the indexed claim (digest_index_revives).
THEOREM StoreImplementsQueue ==
  ASSUME NoRevival
  PROVE  Spec => ImplementsQueue
<1>1. Init => Queue!Init
  <2> SUFFICES ASSUME Init PROVE Queue!Init
    OBVIOUS
  <2>1. StatusOf(NoItem.state) = "absent"
    BY DEF NoItem, StatusOf
  <2>2. DigestOf(NoDelivery) = Queue!NoDigest
    BY NoDeliveryFields DEF DigestOf, DigestStateOf, Queue!NoDigest
  <2>3. \A i \in Item : items[i] = NoItem
    BY DEF Init
  <2>4. \A d \in LeaseId : deliveries[d] = NoDelivery
    BY DEF Init
  <2>5. QueueStatus = [i \in Item |-> "absent"]
    BY <2>1, <2>3, QueueMapping
  <2>6. QueueDigest = [d \in LeaseId |-> Queue!NoDigest]
    BY <2>2, <2>4, QueueMapping
  <2> QED
    BY <2>5, <2>6 DEF Init, Queue!Init
<1>2. FenceInv /\ AckInv /\ AckInv' /\ [Next]_vars => [Queue!Next]_<<QueueStatus, QueueDigest, received>>
  BY StepQueue
<1> QED
  BY <1>1, <1>2, FenceInvariant, AckInvariant, PTL DEF Spec, ImplementsQueue, Queue!Spec, Queue!vars

=============================================================================
