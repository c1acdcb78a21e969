------------------------- MODULE DigestStoreProofs --------------------------
(***************************************************************************)
(* Proofs about DigestStore, for every set of items, leases and channels   *)
(* and every duration: types, the fence between items and deliveries, and  *)
(* what the outcomes mean: ends are final, acknowledgements were received, *)
(* expiries have their reason.                                             *)
(***************************************************************************)
EXTENDS DigestStore, TLAPS

-----------------------------------------------------------------------------
(* Types of the helpers.                                                   *)

\* markItemTerminal keeps an item record an item record.
LEMMA MarkItemTerminalType ==
  ASSUME NEW r \in ItemRecord, NEW st \in ItemStates, now \in Nat
  PROVE  MarkItemTerminal(r, st) \in ItemRecord
  BY DEF MarkItemTerminal, ItemRecord

\* So does writing the end of a delivery.
LEMMA TerminalType ==
  ASSUME NEW r \in DeliveryRecord, NEW st \in DeliveryStates, NEW why \in Reasons, now \in Nat
  PROVE  Terminal(r, st, why) \in DeliveryRecord
  BY DEF Terminal, DeliveryRecord

\* The empty records are records.
LEMMA EmptyTypes ==
  /\ NoItem \in ItemRecord
  /\ \A t \in Nat : NewCheckpoint(t) \in Checkpoint
  /\ NoDelivery \in DeliveryRecord
<1>1. NoItem \in ItemRecord
  BY DEF NoItem, ItemRecord, ItemStates
<1>2. \A t \in Nat : NewCheckpoint(t) \in Checkpoint
  BY DigestConstants DEF NewCheckpoint, Checkpoint
<1>3. NoDelivery \in DeliveryRecord
  BY <1>2 DEF NoDelivery, DeliveryRecord, DeliveryStates, Reasons
<1> QED
  BY <1>1, <1>2, <1>3

\* Setting one checkpoint, or all of them, keeps a delivery record one.
LEMMA SinksType ==
  ASSUME NEW r \in DeliveryRecord, NEW S \in [Sink -> Checkpoint]
  PROVE  [r EXCEPT !.sinks = S] \in DeliveryRecord
  BY DEF DeliveryRecord

LEMMA SinkType ==
  ASSUME NEW r \in DeliveryRecord, NEW s \in Sink, NEW c \in Checkpoint
  PROVE  [r EXCEPT !.sinks[s] = c] \in DeliveryRecord
  BY DEF DeliveryRecord

\* The durations and limits, one by one.
LEMMA Numbers ==
  /\ ItemTTL \in Nat /\ LeaseTTL \in Nat /\ DeliveryTTL \in Nat /\ ClaimTTL \in Nat
  /\ MaxAttempts \in Nat /\ MaxAttempts > 0
  /\ LeaseLimit \in Nat /\ ClaimLimit \in Nat
  BY DigestConstants

\* The initial state has the types.
LEMMA InitType == Init => TypeOK
  BY EmptyTypes, DigestConstants DEF Init, TypeOK

\* The three ways an item record changes besides its end.
LEMMA LeasedType ==
  ASSUME NEW r \in ItemRecord, NEW l \in LeaseId, NEW t \in Nat
  PROVE  [r EXCEPT !.state = "leased", !.lease = l, !.leaseUntil = t] \in ItemRecord
  BY DEF ItemRecord, ItemStates

LEMMA DeliveringType ==
  ASSUME NEW r \in ItemRecord, NEW l \in LeaseId
  PROVE  [r EXCEPT !.state = "delivering", !.delivery = l, !.leaseUntil = 0] \in ItemRecord
  BY DEF ItemRecord, ItemStates

LEMMA ReleasedType ==
  ASSUME NEW r \in ItemRecord
  PROVE  [r EXCEPT !.state = "pending", !.lease = NoLease, !.leaseUntil = 0] \in ItemRecord
  BY DEF ItemRecord, ItemStates

\* An item written by its end stays an item record.
LEMMA ItemEndType ==
  ASSUME TypeOK, NEW i \in Item, NEW st \in {"acked", "expired"}
  PROVE  MarkItemTerminal(items[i], st) \in ItemRecord
<1>1. items[i] \in ItemRecord /\ st \in ItemStates /\ now \in Nat
  BY DEF TypeOK, ItemStates
<1> QED
  BY <1>1, MarkItemTerminalType

-----------------------------------------------------------------------------
(* Type correctness, one action at a time.                                 *)

LEMMA EnqueueType ==
  ASSUME TypeOK, NEW i \in Item, Enqueue(i)
  PROVE  TypeOK'
<1>1. [NoItem EXCEPT !.state = "pending", !.createdAt = now] \in ItemRecord
  BY EmptyTypes DEF TypeOK, ItemRecord, ItemStates
<1> QED
  BY <1>1 DEF TypeOK, Enqueue

LEMMA GrantLeaseType ==
  ASSUME TypeOK, NEW l \in LeaseId, NEW taken \in SUBSET Item, NEW expired,
         GrantLease(l, taken, expired)
  PROVE  TypeOK'
<1>1. now + LeaseTTL \in Nat
  BY Numbers DEF TypeOK
<1>2. \A i \in Item :
        [items[i] EXCEPT !.state = "leased", !.lease = l, !.leaseUntil = now + LeaseTTL]
          \in ItemRecord
  BY <1>1, LeasedType DEF TypeOK
<1>3. items' \in [Item -> ItemRecord]
  BY <1>2, ItemEndType DEF TypeOK, GrantLease
<1>4. handed' \in [LeaseId -> SUBSET Item]
  BY DEF TypeOK, GrantLease
<1> QED
  BY <1>3, <1>4 DEF TypeOK, GrantLease

\* What a lease takes are waiting items.
LEMMA LeaseTakes ==
  ASSUME NEW l \in LeaseId, Lease(l) \/ LeaseTopics(l)
  PROVE  \E taken \in SUBSET Item, expired \in SUBSET Item :
           /\ \A i \in taken : Waiting(i)
           /\ \A i \in expired : TTLExpired(i)
           /\ taken \cap expired = {}
           /\ Fresh(l)
           /\ GrantLease(l, taken, expired)
<1>1. CASE Lease(l)
  <2> DEFINE visited == IF indexed THEN {i \in Item : Waiting(i)} ELSE Item
             expired == {i \in visited : TTLExpired(i)}
             candidates == {{i} : i \in {j \in Item : Waiting(j)} \ expired}
  <2>1. PICK chosen \in SUBSET candidates : GrantLease(l, UNION chosen, expired)
    BY <1>1 DEF Lease
  <2>2. \A i \in UNION chosen : i \in Item /\ Waiting(i) /\ i \notin expired
    OBVIOUS
  <2>3. expired \in SUBSET Item
    OBVIOUS
  <2>4. Fresh(l)
    BY <1>1 DEF Lease
  <2> QED
    BY <2>1, <2>2, <2>3, <2>4
<1>2. CASE LeaseTopics(l)
  <2> DEFINE expired == {i \in Item : TTLExpired(i)}
             members(t) == {i \in Item : TopicOf[i] = t /\ Waiting(i)} \ expired
             active(t) == \E i \in Item \ expired : TopicOf[i] = t /\ InFlight(i)
             groups == {members(t) : t \in {u \in Topic : members(u) # {} /\ ~active(u)}}
  <2>1. PICK chosen \in SUBSET groups : GrantLease(l, UNION chosen, expired)
    BY <1>2 DEF LeaseTopics
  <2>2. \A i \in UNION chosen : i \in Item /\ Waiting(i) /\ i \notin expired
    OBVIOUS
  <2>3. Fresh(l)
    BY <1>2 DEF LeaseTopics
  <2> QED
    BY <2>1, <2>2, <2>3
<1> QED
  BY <1>1, <1>2

LEMMA LeaseType ==
  ASSUME TypeOK, NEW l \in LeaseId, Lease(l) \/ LeaseTopics(l)
  PROVE  TypeOK'
  BY LeaseTakes, GrantLeaseType

LEMMA AckType ==
  ASSUME TypeOK, NEW l \in LeaseId, Ack(l)
  PROVE  TypeOK'
<1>1. items' \in [Item -> ItemRecord]
  BY ItemEndType DEF TypeOK, Ack
<1> QED
  BY <1>1 DEF TypeOK, Ack

LEMMA PrepareDeliveryType ==
  ASSUME TypeOK, NEW l \in LeaseId, PrepareDelivery(l)
  PROVE  TypeOK'
<1>1. items' \in [Item -> ItemRecord]
  <2>1. \A i \in Item :
          [items[i] EXCEPT !.state = "delivering", !.delivery = l, !.leaseUntil = 0] \in ItemRecord
    BY DeliveringType DEF TypeOK
  <2> QED
    BY <2>1, ItemEndType DEF TypeOK, PrepareDelivery
<1>2. deliveries' \in [LeaseId -> DeliveryRecord]
  <2>1. PICK required \in SinkSets : deliveries' = [deliveries EXCEPT ![l] =
          [NoDelivery EXCEPT !.state = "pending", !.items = Holds(l), !.required = required,
             !.sinks = [s \in Sink |-> NewCheckpoint(IF s \in required THEN now ELSE 0)],
             !.deadline = now + DeliveryTTL]]
    BY DEF PrepareDelivery
  <2> DEFINE sinks == [s \in Sink |-> NewCheckpoint(IF s \in required THEN now ELSE 0)]
  <2>2. sinks \in [Sink -> Checkpoint]
    BY EmptyTypes DEF TypeOK
  <2>3. now + DeliveryTTL \in Nat
    BY Numbers DEF TypeOK
  <2>4. Holds(l) \in SUBSET Item /\ required \in SUBSET Sink
    BY DigestConstants DEF Holds
  <2> HIDE DEF sinks
  <2>5. [NoDelivery EXCEPT !.state = "pending", !.items = Holds(l), !.required = required,
             !.sinks = sinks, !.deadline = now + DeliveryTTL] \in DeliveryRecord
    BY <2>2, <2>3, <2>4, EmptyTypes DEF DeliveryRecord, DeliveryStates
  <2> QED
    BY <2>1, <2>5 DEF TypeOK, sinks
<1> QED
  BY <1>1, <1>2 DEF TypeOK, PrepareDelivery

LEMMA PrepareRejectedType ==
  ASSUME TypeOK, NEW l \in LeaseId, PrepareRejected(l)
  PROVE  TypeOK'
<1>1. items' \in [Item -> ItemRecord]
  BY ItemEndType DEF TypeOK, PrepareRejected
<1> QED
  BY <1>1 DEF TypeOK, PrepareRejected

\* The checkpoints of a delivery of record type.
LEMMA SinksOf ==
  ASSUME TypeOK, NEW d \in LeaseId
  PROVE  /\ deliveries[d] \in DeliveryRecord
         /\ deliveries[d].sinks \in [Sink -> Checkpoint]
         /\ \A s \in Sink : deliveries[d].sinks[s] \in Checkpoint
         /\ deliveries[d].items \in SUBSET Item
         /\ deliveries[d].required \in SUBSET Sink
  BY DEF TypeOK, DeliveryRecord

\* A sink that can be claimed has an attempt left.
LEMMA ClaimableHasAttempt ==
  ASSUME TypeOK, NEW c \in Claimable
  PROVE  /\ c[1] \in LeaseId /\ c[2] \in Sink /\ c = <<c[1], c[2]>>
         /\ Due(c[1], c[2]) /\ ~Overdue(c[1]) /\ ~Exhausted(c[1], c[2])
         /\ deliveries[c[1]].sinks[c[2]].attempts + 1 \in 1..MaxAttempts
<1>1. /\ c[1] \in LeaseId /\ c[2] \in Sink /\ c = <<c[1], c[2]>>
      /\ Due(c[1], c[2]) /\ ~Overdue(c[1])
  BY DEF Claimable
<1>2. ~Exhausted(c[1], c[2])
  BY <1>1 DEF Claimable, Doomed
<1>3. deliveries[c[1]].sinks[c[2]].attempts \in 0..MaxAttempts
  BY <1>1, SinksOf DEF Checkpoint
<1>4. ~(deliveries[c[1]].sinks[c[2]].attempts >= MaxAttempts)
  BY <1>1, <1>2 DEF Exhausted, Due
<1> QED
  BY <1>1, <1>2, <1>3, <1>4, Numbers

LEMMA ClaimedType ==
  ASSUME TypeOK, NEW d \in LeaseId, NEW batch \in SUBSET Claimable
  PROVE  Claimed(d, batch) \in DeliveryRecord
<1> DEFINE c(s) == deliveries[d].sinks[s]
           sinks == [s \in Sink |-> IF <<d, s>> \in batch THEN ClaimSink(c(s)) ELSE c(s)]
<1>1. ASSUME NEW s \in Sink, <<d, s>> \in batch
      PROVE  ClaimSink(c(s)) \in Checkpoint
  <2>1. c(s).attempts + 1 \in 1..MaxAttempts
    BY <1>1, ClaimableHasAttempt
  <2>2. now + ClaimTTL \in Nat
    BY Numbers DEF TypeOK
  <2>3. c(s) \in Checkpoint
    BY SinksOf
  <2>4. c(s).attempts + 1 \in 0..MaxAttempts
    BY <2>1, Numbers
  <2> QED
    BY <2>2, <2>3, <2>4 DEF Checkpoint, ClaimSink
<1>2. sinks \in [Sink -> Checkpoint]
  BY <1>1, SinksOf
<1>3. Claimed(d, batch) = [deliveries[d] EXCEPT !.sinks = sinks]
  BY DEF Claimed
<1> HIDE DEF sinks
<1> QED
  BY <1>2, <1>3, SinksOf, SinksType

LEMMA DoomedEndType ==
  ASSUME TypeOK, NEW d \in LeaseId
  PROVE  Terminal(deliveries[d], "expired", DoomReason(d)) \in DeliveryRecord
<1>1. DoomReason(d) \in Reasons /\ "expired" \in DeliveryStates /\ now \in Nat
  BY DEF DoomReason, Reasons, DeliveryStates, TypeOK
<1> QED
  BY <1>1, SinksOf, TerminalType

LEMMA ClaimDueAttemptsType ==
  ASSUME TypeOK, ClaimDueAttempts
  PROVE  TypeOK'
<1>1. PICK batch \in SUBSET Claimable :
        /\ deliveries' = [d \in LeaseId |->
             IF \E s \in Sink : <<d, s>> \in batch THEN Claimed(d, batch)
             ELSE IF d \in Doomed THEN Terminal(deliveries[d], "expired", DoomReason(d))
             ELSE deliveries[d]]
        /\ attempts' = attempts \cup
             {[delivery |-> c[1], sink |-> c[2],
               token |-> deliveries[c[1]].sinks[c[2]].attempts + 1,
               until |-> now + ClaimTTL, sent |-> FALSE] : c \in batch}
  BY DEF ClaimDueAttempts
<1>2. items' \in [Item -> ItemRecord]
  BY ItemEndType DEF TypeOK, ClaimDueAttempts
<1>3. deliveries' \in [LeaseId -> DeliveryRecord]
  BY <1>1, ClaimedType, DoomedEndType, SinksOf
<1>4. attempts' \subseteq Attempt
  <2>1. now + ClaimTTL \in Nat
    BY Numbers DEF TypeOK
  <2>2. \A c \in batch :
          [delivery |-> c[1], sink |-> c[2],
           token |-> deliveries[c[1]].sinks[c[2]].attempts + 1,
           until |-> now + ClaimTTL, sent |-> FALSE] \in Attempt
    BY <2>1, ClaimableHasAttempt DEF Attempt
  <2> QED
    BY <1>1, <2>2 DEF TypeOK
<1> QED
  BY <1>2, <1>3, <1>4 DEF TypeOK, ClaimDueAttempts

\* What the operations write into a checkpoint is a checkpoint.
LEMMA CheckpointTypes ==
  ASSUME NEW c \in Checkpoint, NEW t \in Nat, now \in Nat
  PROVE  /\ ConfirmSink(c) \in Checkpoint
         /\ FailSink(c) \in Checkpoint
         /\ ReviveSink(c) \in Checkpoint
         /\ [FailSink(c) EXCEPT !.nextAttemptAt = t] \in Checkpoint
<1>1. 0 \in 0..MaxAttempts
  BY Numbers
<1>2. FailSink(c) \in Checkpoint
  BY <1>1 DEF Checkpoint, FailSink
<1>3. ConfirmSink(c) \in Checkpoint
  BY <1>1 DEF Checkpoint, ConfirmSink
<1>4. ReviveSink(c) \in Checkpoint
  BY <1>1 DEF Checkpoint, ReviveSink
<1>5. [FailSink(c) EXCEPT !.nextAttemptAt = t] \in Checkpoint
  BY <1>2 DEF Checkpoint
<1> QED
  BY <1>2, <1>3, <1>4, <1>5

LEMMA SendType ==
  ASSUME TypeOK, NEW a \in attempts, Send(a)
  PROVE  TypeOK'
<1>1. a \in Attempt
  BY DEF TypeOK
<1>2. [a EXCEPT !.sent = TRUE] \in Attempt /\ <<a.delivery, a.sink>> \in LeaseId \X Sink
  BY <1>1 DEF Attempt
<1> QED
  BY <1>2 DEF TypeOK, Send

LEMMA CompleteRejectedType ==
  ASSUME TypeOK, NEW a \in attempts, CompleteRejected(a)
  PROVE  TypeOK'
  BY DEF TypeOK, CompleteRejected, Finished, store

\* Writing one delivery and ending some items.
LEMMA FinishType ==
  ASSUME TypeOK, NEW a \in attempts, Finished(a), NEW d \in LeaseId,
         NEW r \in DeliveryRecord, deliveries' = [deliveries EXCEPT ![d] = r],
         NEW S, NEW st \in {"acked", "expired"},
         items' = [i \in Item |-> IF i \in S THEN MarkItemTerminal(items[i], st) ELSE items[i]]
  PROVE  TypeOK'
<1>1. items' \in [Item -> ItemRecord]
  BY ItemEndType DEF TypeOK
<1> QED
  BY <1>1 DEF TypeOK, Finished

LEMMA AttemptOf ==
  ASSUME TypeOK, NEW a \in attempts
  PROVE  /\ a \in Attempt /\ a.delivery \in LeaseId /\ a.sink \in Sink
         /\ a.token \in 1..MaxAttempts /\ a.until \in Nat
  BY DEF TypeOK, Attempt

LEMMA CompleteSuccessType ==
  ASSUME TypeOK, NEW a \in attempts, CompleteSuccess(a)
  PROVE  TypeOK'
<1> DEFINE d == a.delivery
           old == deliveries[d].sinks[a.sink]
           new == ConfirmSink(old)
           done == [deliveries[d] EXCEPT !.sinks[a.sink] = new]
           complete == AllSinksDelivered(done)
           r == IF complete THEN Terminal(done, "delivered", "delivered") ELSE done
<1>1. d \in LeaseId /\ a.sink \in Sink
  BY AttemptOf
<1>2. old \in Checkpoint
  BY <1>1, SinksOf
<1>3. new \in Checkpoint
  BY <1>2, CheckpointTypes DEF TypeOK
<1>4. done \in DeliveryRecord
  <2> HIDE DEF new
  <2> QED
    BY <1>1, <1>3, SinksOf, SinkType
<1>5. r \in DeliveryRecord
  <2>1. "delivered" \in DeliveryStates /\ "delivered" \in Reasons /\ now \in Nat
    BY DEF DeliveryStates, Reasons, TypeOK
  <2> HIDE DEF done
  <2> QED
    BY <2>1, <1>4, TerminalType
<1>6. deliveries' = [deliveries EXCEPT ![d] = r]
  BY <1>1, SinksOf DEF CompleteSuccess, DeliveryRecord
<1>7. items' = [i \in Item |-> IF i \in {j \in Item : complete /\ j \in deliveries[d].items}
                                 THEN MarkItemTerminal(items[i], "acked") ELSE items[i]]
  BY DEF CompleteSuccess
<1>8. Finished(a)
  BY DEF CompleteSuccess
<1> HIDE DEF r, complete, d
<1> QED
  BY <1>1, <1>5, <1>6, <1>7, <1>8, FinishType

LEMMA CompleteFailureType ==
  ASSUME TypeOK, NEW a \in attempts, CompleteFailure(a)
  PROVE  TypeOK'
<1> DEFINE d == a.delivery
           old == deliveries[d].sinks[a.sink]
           failed == FailSink(old)
           over == Overdue(d) \/ old.attempts >= MaxAttempts
<1>1. d \in LeaseId /\ a.sink \in Sink
  BY AttemptOf
<1>2. old \in Checkpoint
  BY <1>1, SinksOf
<1>3. failed \in Checkpoint
  BY <1>2, CheckpointTypes DEF TypeOK
<1>4. PICK delay \in Backoffs :
        deliveries' = [deliveries EXCEPT ![d] =
            IF Overdue(d) THEN Terminal(@, "expired", "deadline")
            ELSE IF over
              THEN Terminal([@ EXCEPT !.sinks[a.sink] = failed], "expired", "max_attempts")
            ELSE [@ EXCEPT !.sinks[a.sink] = [failed EXCEPT !.nextAttemptAt = now + delay]]]
  BY DEF CompleteFailure
<1>5. now + delay \in Nat
  BY DigestConstants DEF TypeOK
<1>6. [failed EXCEPT !.nextAttemptAt = now + delay] \in Checkpoint
  BY <1>2, <1>5, CheckpointTypes DEF TypeOK
<1>7. /\ "expired" \in DeliveryStates /\ "deadline" \in Reasons
      /\ "max_attempts" \in Reasons /\ now \in Nat
  BY DEF DeliveryStates, Reasons, TypeOK
<1> DEFINE later == [failed EXCEPT !.nextAttemptAt = now + delay]
           r1 == Terminal(deliveries[d], "expired", "deadline")
           f2 == [deliveries[d] EXCEPT !.sinks[a.sink] = failed]
           r2 == Terminal(f2, "expired", "max_attempts")
           r3 == [deliveries[d] EXCEPT !.sinks[a.sink] = later]
           r == IF Overdue(d) THEN r1 ELSE IF over THEN r2 ELSE r3
<1>8. later \in Checkpoint
  BY <1>6
<1>9. deliveries' = [deliveries EXCEPT ![d] = r]
  BY <1>1, <1>4 DEF TypeOK
<1>10. r1 \in DeliveryRecord
  BY <1>1, <1>7, SinksOf, TerminalType
<1>11. f2 \in DeliveryRecord /\ r3 \in DeliveryRecord
  <2> HIDE DEF failed, later
  <2> QED
    BY <1>1, <1>3, <1>8, SinksOf, SinkType
<1>12. r2 \in DeliveryRecord
  <2> HIDE DEF f2
  <2> QED
    BY <1>7, <1>11, TerminalType
<1>13. r \in DeliveryRecord
  <2> HIDE DEF r1, r2, r3, over
  <2> QED
    BY <1>10, <1>11, <1>12
<1>14. items' = [i \in Item |-> IF i \in {j \in Item : over /\ j \in deliveries[d].items}
                                 THEN MarkItemTerminal(items[i], "expired") ELSE items[i]]
  BY DEF CompleteFailure
<1>15. Finished(a)
  BY DEF CompleteFailure
<1> HIDE DEF r, over, d
<1> QED
  BY <1>1, <1>9, <1>13, <1>14, <1>15, FinishType

LEMMA RetryDeliveryType ==
  ASSUME TypeOK, NEW d \in LeaseId, RetryDelivery(d)
  PROVE  TypeOK'
<1> DEFINE c(s) == deliveries[d].sinks[s]
           new(s) == ReviveSink(c(s))
           sinks == [s \in Sink |-> IF Retryable(d, s) THEN new(s) ELSE c(s)]
<1>1. ASSUME NEW s \in Sink
      PROVE  c(s) \in Checkpoint /\ new(s) \in Checkpoint
  <2>1. c(s) \in Checkpoint
    BY SinksOf
  <2> QED
    BY <2>1, CheckpointTypes DEF TypeOK
<1>2. sinks \in [Sink -> Checkpoint]
  <2> HIDE DEF c, new
  <2> QED
    BY <1>1
<1>3. deliveries' = [deliveries EXCEPT ![d].sinks = sinks]
  BY DEF RetryDelivery
<1> HIDE DEF sinks
<1>4. deliveries' \in [LeaseId -> DeliveryRecord]
  BY <1>2, <1>3, SinksOf, SinksType DEF TypeOK
<1> QED
  BY <1>4 DEF TypeOK, RetryDelivery

LEMMA ExpireDueType ==
  ASSUME TypeOK, ExpireDue
  PROVE  TypeOK'
<1>1. \A i \in Item :
        [items[i] EXCEPT !.state = "pending", !.lease = NoLease, !.leaseUntil = 0] \in ItemRecord
  BY ReleasedType DEF TypeOK
<1>2. items' \in [Item -> ItemRecord]
  BY <1>1, ItemEndType DEF TypeOK, ExpireDue
<1>3. deliveries' \in [LeaseId -> DeliveryRecord]
  BY DoomedEndType DEF TypeOK, ExpireDue
<1> QED
  BY <1>2, <1>3 DEF TypeOK, ExpireDue

LEMMA PurgeType ==
  ASSUME TypeOK, Purge
  PROVE  TypeOK'
  BY EmptyTypes DEF TypeOK, Purge

LEMMA RestartType ==
  ASSUME TypeOK, Restart
  PROVE  TypeOK'
  BY DigestConstants DEF TypeOK, Restart

LEMMA TickType ==
  ASSUME TypeOK, Tick
  PROVE  TypeOK'
  BY DEF TypeOK, Tick

LEMMA StepType ==
  ASSUME TypeOK, [Next]_vars
  PROVE  TypeOK'
<1>1. ASSUME NEW i \in Item, Enqueue(i) PROVE TypeOK'
  BY <1>1, EnqueueType
<1>2. ASSUME NEW l \in LeaseId, Lease(l) \/ LeaseTopics(l) PROVE TypeOK'
  BY <1>2, LeaseType
<1>3. ASSUME NEW l \in LeaseId, Ack(l) PROVE TypeOK'
  BY <1>3, AckType
<1>4. ASSUME NEW l \in LeaseId, PrepareDelivery(l) PROVE TypeOK'
  BY <1>4, PrepareDeliveryType
<1>5. ASSUME NEW l \in LeaseId, PrepareRejected(l) PROVE TypeOK'
  BY <1>5, PrepareRejectedType
<1>6. ASSUME NEW l \in LeaseId, RetryDelivery(l) PROVE TypeOK'
  BY <1>6, RetryDeliveryType
<1>7. ASSUME NEW a \in attempts,
             Send(a) \/ CompleteRejected(a) \/ CompleteSuccess(a) \/ CompleteFailure(a)
      PROVE  TypeOK'
  BY <1>7, SendType, CompleteRejectedType, CompleteSuccessType, CompleteFailureType
<1>8. CASE ClaimDueAttempts
  BY <1>8, ClaimDueAttemptsType
<1>9. CASE ExpireDue
  BY <1>9, ExpireDueType
<1>10. CASE Purge \/ Restart \/ Tick
  BY <1>10, PurgeType, RestartType, TickType
<1>11. CASE UNCHANGED vars
  BY <1>11 DEF TypeOK, vars
<1> QED
  BY <1>1, <1>2, <1>3, <1>4, <1>5, <1>6, <1>7, <1>8, <1>9, <1>10, <1>11 DEF Next

\* Every record of the two buckets keeps its shape; in particular no sink is
\* ever attempted more than digestMaxAttempts times (ClaimDueAttempts).
THEOREM TypeCorrect == Spec => []TypeOK
<1>1. Init => TypeOK
  BY InitType
<1>2. TypeOK /\ [Next]_vars => TypeOK'
  BY StepType
<1> QED
  BY <1>1, <1>2, PTL DEF Spec

-----------------------------------------------------------------------------
(* The fence between items and deliveries, proved for every instance in    *)
(* which ClaimDueAttempts cannot claim a sink of a delivery it is just     *)
(* expiring: the full scan, or one channel per briefing.                   *)

\* Either the indexes are never used, or no briefing has two channels.
NoRevival == IndexModes = {FALSE} \/ \A R \in SinkSets : \A s, t \in R : s = t

-----------------------------------------------------------------------------
(* The inductive invariant.  A delivery that ended keeps owning its items, *)
(* which ended at the same instant: that is why Purge, which looks at each *)
(* record alone, removes the two together.                                 *)

EndedTogether ==
  \A d \in LeaseId : deliveries[d].state \in {"delivered", "expired"} =>
    \A i \in deliveries[d].items :
      /\ items[i].state \in {"acked", "expired"}
      /\ items[i].delivery = d
      /\ items[i].terminalAt = deliveries[d].terminalAt

Configured ==
  /\ indexed \in IndexModes
  /\ \A d \in LeaseId : deliveries[d].state = "none" => deliveries[d] = NoDelivery
  /\ \A d \in LeaseId : deliveries[d].state # "none" => deliveries[d].required \in SinkSets

FenceInv == TypeOK /\ DeliveryFence /\ EndedTogether /\ Configured

\* A delivery is none, pending, or ended.
LEMMA DeliveryStateSplit ==
  ASSUME TypeOK, NEW d \in LeaseId
  PROVE  deliveries[d].state \in {"none", "pending", "delivered", "expired"}
  BY DEF TypeOK, DeliveryRecord, DeliveryStates

\* Every field of an absent delivery.
LEMMA NoDeliveryFields ==
  /\ NoDelivery.state = "none" /\ NoDelivery.items = {} /\ NoDelivery.required = {}
  /\ NoDelivery.terminalAt = 0
  BY DEF NoDelivery

\* An item of a delivery names it: no two deliveries share an item.
LEMMA OwnerIsUnique ==
  ASSUME FenceInv, NEW d \in LeaseId, NEW i \in deliveries[d].items
  PROVE  i \in Item /\ items[i].delivery = d
<1>1. i \in Item
  BY SinksOf DEF FenceInv
<1>2. deliveries[d].state # "none"
  BY NoDeliveryFields DEF FenceInv, Configured
<1>3. TypeOK
  BY DEF FenceInv
<1>4. CASE deliveries[d].state = "pending"
  BY <1>1, <1>4 DEF FenceInv, DeliveryFence, Fenced
<1>5. CASE deliveries[d].state \in {"delivered", "expired"}
  BY <1>1, <1>5 DEF FenceInv, EndedTogether
<1> QED
  BY <1>2, <1>3, <1>4, <1>5, DeliveryStateSplit

\* What an end leaves in the item.
LEMMA ItemEnd ==
  ASSUME TypeOK, NEW i \in Item, NEW st
  PROVE  /\ MarkItemTerminal(items[i], st).state = st
         /\ MarkItemTerminal(items[i], st).delivery = items[i].delivery
         /\ MarkItemTerminal(items[i], st).terminalAt = now
         /\ MarkItemTerminal(items[i], st).lease = NoLease
  BY DEF TypeOK, ItemRecord, MarkItemTerminal

\* What an end leaves in the delivery.
LEMMA DeliveryEnd ==
  ASSUME NEW r \in DeliveryRecord, NEW st, NEW why
  PROVE  /\ Terminal(r, st, why).state = st
         /\ Terminal(r, st, why).items = r.items
         /\ Terminal(r, st, why).required = r.required
         /\ Terminal(r, st, why).sinks = r.sinks
         /\ Terminal(r, st, why).deadline = r.deadline
         /\ Terminal(r, st, why).terminalAt = now
         /\ Terminal(r, st, why).reason = why
  BY DEF DeliveryRecord, Terminal

Unended == {"absent", "pending", "leased"}

\* The shape of every step but PrepareDelivery and Purge: the deliveries of D
\* end now, their items with them, and nothing else that a delivery owns moves.
LEMMA DeliveriesEnd ==
  ASSUME FenceInv, TypeOK', indexed' \in IndexModes,
         NEW D \in SUBSET LeaseId,
         \A d \in D : deliveries[d].state = "pending",
         \A d \in LeaseId :
           /\ deliveries'[d].items = deliveries[d].items
           /\ deliveries'[d].required = deliveries[d].required,
         \A d \in D :
           /\ deliveries'[d].state \in {"delivered", "expired"}
           /\ deliveries'[d].terminalAt = now,
         \A d \in LeaseId \ D :
           /\ deliveries'[d].state = deliveries[d].state
           /\ deliveries'[d].terminalAt = deliveries[d].terminalAt
           /\ deliveries[d].state = "none" => deliveries'[d] = deliveries[d],
         \A i \in ItemsOf(D) :
           \E st \in {"acked", "expired"} : items'[i] = MarkItemTerminal(items[i], st),
         \A i \in Item \ ItemsOf(D) :
           items'[i] = items[i] \/ (items[i].state \in Unended /\ items'[i].state # "delivering")
  PROVE  FenceInv'
<1>1. ASSUME NEW d \in LeaseId \ D, NEW i \in deliveries[d].items
      PROVE  i \in Item /\ i \notin ItemsOf(D)
  BY <1>1, OwnerIsUnique DEF ItemsOf
<1>2. ASSUME NEW d \in LeaseId \ D, NEW i \in deliveries[d].items
      PROVE  items'[i] = items[i]
  <2>1. deliveries[d].state # "none"
    BY <1>2, NoDeliveryFields DEF FenceInv, Configured
  <2>2. items[i].state \notin Unended
    <3>1. CASE deliveries[d].state = "pending"
      BY <1>2, <3>1 DEF FenceInv, DeliveryFence, Fenced, Unended
    <3>2. CASE deliveries[d].state \in {"delivered", "expired"}
      BY <1>2, <3>2 DEF FenceInv, EndedTogether, Unended
    <3>3. TypeOK
      BY DEF FenceInv
    <3> QED
      BY <2>1, <3>1, <3>2, <3>3, DeliveryStateSplit
  <2> QED
    BY <1>1, <1>2, <2>2
<1>3. ASSUME NEW d \in LeaseId, deliveries'[d].state = "pending"
      PROVE  Fenced(d)'
  <2>1. d \notin D
    BY <1>3
  <2>2. deliveries[d].state = "pending"
    BY <1>3, <2>1
  <2> QED
    BY <2>1, <2>2, <1>2 DEF FenceInv, DeliveryFence, Fenced
<1>4. ASSUME NEW i \in Item, items'[i].state = "delivering"
      PROVE  /\ items'[i].delivery \in LeaseId
             /\ deliveries'[items'[i].delivery].state = "pending"
             /\ i \in deliveries'[items'[i].delivery].items
  <2>1. i \notin ItemsOf(D)
    BY <1>4, ItemEnd DEF FenceInv
  <2>2. items'[i] = items[i]
    BY <1>4, <2>1
  <2>3. /\ items[i].delivery \in LeaseId
        /\ deliveries[items[i].delivery].state = "pending"
        /\ i \in deliveries[items[i].delivery].items
    BY <1>4, <2>2 DEF FenceInv, DeliveryFence
  <2>4. items[i].delivery \notin D
    BY <2>1, <2>3 DEF ItemsOf
  <2> QED
    BY <2>2, <2>3, <2>4
<1>5. DeliveryFence'
  BY <1>3, <1>4 DEF DeliveryFence
<1>6. EndedTogether'
  <2> SUFFICES ASSUME NEW d \in LeaseId, deliveries'[d].state \in {"delivered", "expired"},
                      NEW i \in deliveries'[d].items
               PROVE  /\ items'[i].state \in {"acked", "expired"}
                      /\ items'[i].delivery = d
                      /\ items'[i].terminalAt = deliveries'[d].terminalAt
    BY DEF EndedTogether
  <2>1. i \in deliveries[d].items
    OBVIOUS
  <2>2. CASE d \in D
    <3>1. i \in Item /\ items[i].delivery = d /\ i \in ItemsOf(D)
      BY <2>1, <2>2, OwnerIsUnique DEF ItemsOf
    <3> QED
      BY <2>2, <3>1, ItemEnd DEF FenceInv
  <2>3. CASE d \notin D
    BY <2>1, <2>3, <1>2 DEF FenceInv, EndedTogether
  <2> QED
    BY <2>2, <2>3
<1>7. Configured'
  BY DEF FenceInv, Configured
<1> QED
  BY <1>5, <1>6, <1>7 DEF FenceInv

-----------------------------------------------------------------------------
(* One step at a time.                                                     *)

\* Steps that end no delivery and leave the records of deliveries alone.
LEMMA NothingEnds ==
  ASSUME FenceInv, TypeOK', indexed' \in IndexModes, UNCHANGED deliveries,
         \A i \in Item :
           items'[i] = items[i] \/ (items[i].state \in Unended /\ items'[i].state # "delivering")
  PROVE  FenceInv'
<1>1. ItemsOf({}) = {}
  BY DEF ItemsOf
<1> QED
  BY <1>1, DeliveriesEnd

LEMMA InitFence == Init => FenceInv
<1> SUFFICES ASSUME Init PROVE FenceInv
  OBVIOUS
<1>1. DeliveryFence
  <2>1. \A i \in Item : items[i].state # "delivering"
    BY DEF Init, NoItem
  <2>2. \A d \in LeaseId : deliveries[d].state = "none"
    BY NoDeliveryFields DEF Init
  <2> QED
    BY <2>1, <2>2 DEF DeliveryFence
<1>2. EndedTogether /\ Configured
  BY NoDeliveryFields DEF Init, EndedTogether, Configured
<1> QED
  BY <1>1, <1>2, InitType DEF FenceInv

LEMMA EnqueueFence ==
  ASSUME FenceInv, TypeOK', NEW i \in Item, Enqueue(i)
  PROVE  FenceInv'
<1>1. \A j \in Item :
        items'[j] = items[j] \/ (items[j].state \in Unended /\ items'[j].state # "delivering")
  BY DEF Enqueue, Unended, NoItem, FenceInv, TypeOK
<1> QED
  BY <1>1, NothingEnds DEF Enqueue, FenceInv, Configured

LEMMA LeaseFence ==
  ASSUME FenceInv, TypeOK', NEW l \in LeaseId, Lease(l) \/ LeaseTopics(l)
  PROVE  FenceInv'
<1>1. PICK taken \in SUBSET Item, expired \in SUBSET Item :
           /\ \A i \in taken : Waiting(i)
           /\ \A i \in expired : TTLExpired(i)
           /\ GrantLease(l, taken, expired)
  BY LeaseTakes
<1>2. ASSUME NEW i \in Item
      PROVE  items'[i] = items[i] \/ (items[i].state \in Unended /\ items'[i].state # "delivering")
  <2>1. CASE i \in taken
    <3>1. items[i].state \in Unended
      BY <1>1, <2>1 DEF Waiting, LeaseLapsed, Unended
    <3>2. items'[i] = [items[i] EXCEPT !.state = "leased", !.lease = l,
                                       !.leaseUntil = now + LeaseTTL]
      BY <1>1, <2>1 DEF GrantLease
    <3>3. items'[i].state = "leased"
      BY <3>2 DEF FenceInv, TypeOK, ItemRecord
    <3> QED
      BY <3>1, <3>3
  <2>2. CASE i \in expired /\ i \notin taken
    <3>1. items[i].state \in Unended
      BY <1>1, <2>2 DEF TTLExpired, Unended
    <3>2. items'[i] = MarkItemTerminal(items[i], "expired")
      BY <1>1, <2>2 DEF GrantLease
    <3> QED
      BY <3>1, <3>2, ItemEnd DEF FenceInv
  <2>3. CASE i \notin taken /\ i \notin expired
    BY <1>1, <2>3 DEF GrantLease
  <2> QED
    BY <2>1, <2>2, <2>3
<1>3. UNCHANGED deliveries /\ indexed' \in IndexModes
  BY <1>1 DEF GrantLease, FenceInv, Configured
<1> QED
  BY <1>2, <1>3, NothingEnds

LEMMA AckFence ==
  ASSUME FenceInv, TypeOK', NEW l \in LeaseId, Ack(l)
  PROVE  FenceInv'
<1>1. ASSUME NEW i \in Item
      PROVE  items'[i] = items[i] \/ (items[i].state \in Unended /\ items'[i].state # "delivering")
  <2>1. CASE TTLExpired(i)
    <3>1. items'[i] = MarkItemTerminal(items[i], "expired") /\ items[i].state \in Unended
      BY <2>1 DEF Ack, TTLExpired, Unended
    <3> QED
      BY <3>1, ItemEnd DEF FenceInv
  <2>2. CASE ~TTLExpired(i) /\ i \in Holds(l)
    <3>1. items'[i] = MarkItemTerminal(items[i], "acked") /\ items[i].state \in Unended
      BY <2>2 DEF Ack, Holds, Unended
    <3> QED
      BY <3>1, ItemEnd DEF FenceInv
  <2>3. CASE ~TTLExpired(i) /\ i \notin Holds(l)
    BY <2>3 DEF Ack
  <2> QED
    BY <2>1, <2>2, <2>3
<1>2. UNCHANGED deliveries /\ indexed' \in IndexModes
  BY DEF Ack, FenceInv, Configured
<1> QED
  BY <1>1, <1>2, NothingEnds

LEMMA PrepareRejectedFence ==
  ASSUME FenceInv, TypeOK', NEW l \in LeaseId, PrepareRejected(l)
  PROVE  FenceInv'
<1>1. ASSUME NEW i \in Item
      PROVE  items'[i] = items[i] \/ (items[i].state \in Unended /\ items'[i].state # "delivering")
  <2>1. CASE Holds(l) # {} /\ i \in ExpiredOnPrepare(l)
    <3>1. items'[i] = MarkItemTerminal(items[i], "expired") /\ items[i].state \in Unended
      BY <2>1 DEF PrepareRejected, ExpiredOnPrepare, TTLExpired, Unended
    <3> QED
      BY <3>1, ItemEnd DEF FenceInv
  <2>2. CASE ~(Holds(l) # {} /\ i \in ExpiredOnPrepare(l))
    BY <2>2 DEF PrepareRejected
  <2> QED
    BY <2>1, <2>2
<1>2. UNCHANGED deliveries /\ indexed' \in IndexModes
  BY DEF PrepareRejected, FenceInv, Configured
<1> QED
  BY <1>1, <1>2, NothingEnds

\* The one step that makes items delivering: they were leased, so no other
\* delivery owns them.
LEMMA PrepareDeliveryFence ==
  ASSUME FenceInv, TypeOK', NEW l \in LeaseId, PrepareDelivery(l)
  PROVE  FenceInv'
<1> USE DEF FenceInv
<1>1. deliveries[l].state = "none"
  BY DEF PrepareDelivery
<1>2. /\ deliveries'[l].state = "pending"
      /\ deliveries'[l].items = Holds(l)
      /\ deliveries'[l].required \in SinkSets
      /\ \A d \in LeaseId \ {l} : deliveries'[d] = deliveries[d]
  <2>1. PICK required \in SinkSets :
          deliveries' = [deliveries EXCEPT ![l] =
            [NoDelivery EXCEPT !.state = "pending", !.items = Holds(l), !.required = required,
               !.sinks = [s \in Sink |-> NewCheckpoint(IF s \in required THEN now ELSE 0)],
               !.deadline = now + DeliveryTTL]]
    BY DEF PrepareDelivery
  <2> DEFINE new == [NoDelivery EXCEPT !.state = "pending", !.items = Holds(l), !.required = required,
                       !.sinks = [s \in Sink |-> NewCheckpoint(IF s \in required THEN now ELSE 0)],
                       !.deadline = now + DeliveryTTL]
  <2>2. new.state = "pending" /\ new.items = Holds(l) /\ new.required = required
    BY DEF NoDelivery
  <2> HIDE DEF new
  <2>3. deliveries'[l] = new /\ \A d \in LeaseId \ {l} : deliveries'[d] = deliveries[d]
    BY <2>1 DEF new, TypeOK
  <2> QED
    BY <2>2, <2>3
<1>3. \A i \in Holds(l) : /\ i \in Item
                          /\ items[i].state = "leased"
                          /\ items'[i].state = "delivering"
                          /\ items'[i].delivery = l
  BY DEF PrepareDelivery, Holds, TypeOK, ItemRecord
<1>4. ASSUME NEW i \in Item \ Holds(l)
      PROVE  items'[i] = items[i] \/ (items[i].state \in Unended /\ items'[i].state # "delivering")
  <2>1. CASE i \in ExpiredOnPrepare(l)
    <3>1. items'[i] = MarkItemTerminal(items[i], "expired") /\ items[i].state \in Unended
      BY <2>1 DEF PrepareDelivery, ExpiredOnPrepare, TTLExpired, Unended
    <3> QED
      BY <3>1, ItemEnd
  <2>2. CASE i \notin ExpiredOnPrepare(l)
    BY <2>2 DEF PrepareDelivery
  <2> QED
    BY <2>1, <2>2
<1>5. ASSUME NEW d \in LeaseId \ {l}, NEW i \in deliveries[d].items
      PROVE  items'[i] = items[i]
  <2>1. i \in Item /\ deliveries[d].state # "none"
    BY <1>5, OwnerIsUnique, NoDeliveryFields DEF Configured
  <2>2. items[i].state \notin Unended /\ items[i].state # "leased"
    <3>1. CASE deliveries[d].state = "pending"
      BY <1>5, <3>1 DEF DeliveryFence, Fenced, Unended
    <3>2. CASE deliveries[d].state \in {"delivered", "expired"}
      BY <1>5, <3>2 DEF EndedTogether, Unended
    <3> QED
      BY <2>1, <3>1, <3>2, DeliveryStateSplit
  <2> QED
    BY <1>3, <1>4, <2>1, <2>2
<1>6. ASSUME NEW d \in LeaseId, deliveries'[d].state = "pending"
      PROVE  Fenced(d)'
  <2>1. CASE d = l
    BY <1>2, <1>3, <2>1 DEF Fenced
  <2>2. CASE d # l
    BY <1>2, <1>5, <1>6, <2>2 DEF Fenced, DeliveryFence
  <2> QED
    BY <2>1, <2>2
<1>7. ASSUME NEW i \in Item, items'[i].state = "delivering"
      PROVE  /\ items'[i].delivery \in LeaseId
             /\ deliveries'[items'[i].delivery].state = "pending"
             /\ i \in deliveries'[items'[i].delivery].items
  <2>1. CASE i \in Holds(l)
    BY <1>2, <1>3, <2>1
  <2>2. CASE i \notin Holds(l)
    <3>1. items'[i] = items[i] /\ items[i].state = "delivering"
      BY <1>4, <1>7, <2>2
    <3>2. /\ items[i].delivery \in LeaseId
          /\ deliveries[items[i].delivery].state = "pending"
          /\ i \in deliveries[items[i].delivery].items
      BY <3>1 DEF DeliveryFence
    <3> QED
      BY <1>1, <1>2, <3>1, <3>2
  <2> QED
    BY <2>1, <2>2
<1>8. EndedTogether'
  BY <1>2, <1>5 DEF EndedTogether
<1>9. Configured'
  BY <1>2 DEF Configured, PrepareDelivery
<1> QED
  BY <1>6, <1>7, <1>8, <1>9 DEF DeliveryFence

\* Only pending deliveries are given up.
LEMMA DoomedPending ==
  ASSUME NEW d \in Doomed
  PROVE  d \in LeaseId /\ deliveries[d].state = "pending"
  BY DEF Doomed, Overdue, Exhausted, Idle

LEMMA DoomedEnd ==
  ASSUME TypeOK, NEW d \in LeaseId
  PROVE  LET r == Terminal(deliveries[d], "expired", DoomReason(d))
         IN  /\ r.state = "expired" /\ r.terminalAt = now
             /\ r.items = deliveries[d].items /\ r.required = deliveries[d].required
  BY SinksOf, DeliveryEnd

\* Claiming sinks changes nothing of a delivery but its checkpoints.
LEMMA ClaimedFields ==
  ASSUME TypeOK, NEW d \in LeaseId, NEW batch
  PROVE  /\ Claimed(d, batch).state = deliveries[d].state
         /\ Claimed(d, batch).items = deliveries[d].items
         /\ Claimed(d, batch).required = deliveries[d].required
         /\ Claimed(d, batch).deadline = deliveries[d].deadline
         /\ Claimed(d, batch).terminalAt = deliveries[d].terminalAt
         /\ Claimed(d, batch).reason = deliveries[d].reason
  BY SinksOf DEF Claimed, DeliveryRecord

\* No sink of a delivery about to expire can be claimed.
LEMMA ClaimSparesDoomed ==
  ASSUME NoRevival, FenceInv, NEW c \in Claimable
  PROVE  c[1] \notin Doomed
<1> DEFINE d == c[1]
           s == c[2]
<1>1. /\ d \in LeaseId /\ s \in Sink
      /\ Due(d, s) /\ ~Overdue(d) /\ ~Exhausted(d, s)
  BY ClaimableHasAttempt DEF FenceInv
<1>2. CASE ~indexed
  BY <1>2 DEF Claimable
<1>3. CASE indexed
  <2>1. \A R \in SinkSets : \A t, u \in R : t = u
    BY <1>3 DEF NoRevival, FenceInv, Configured
  <2>2. deliveries[d].required \in SinkSets /\ s \in deliveries[d].required
    BY <1>1 DEF Due, Idle, FenceInv, Configured
  <2>3. \A t \in Sink : Exhausted(d, t) => t = s
    BY <2>1, <2>2 DEF Exhausted, Idle
  <2> QED
    BY <1>1, <2>3 DEF Doomed
<1> QED
  BY <1>2, <1>3

LEMMA ClaimFence ==
  ASSUME NoRevival, FenceInv, TypeOK', ClaimDueAttempts
  PROVE  FenceInv'
<1>1. PICK batch \in SUBSET Claimable :
        deliveries' = [d \in LeaseId |->
             IF \E s \in Sink : <<d, s>> \in batch THEN Claimed(d, batch)
             ELSE IF d \in Doomed THEN Terminal(deliveries[d], "expired", DoomReason(d))
             ELSE deliveries[d]]
  BY DEF ClaimDueAttempts
<1>2. \A d \in LeaseId : (\E s \in Sink : <<d, s>> \in batch) =>
        d \notin Doomed /\ deliveries[d].state = "pending"
  <2> SUFFICES ASSUME NEW d \in LeaseId, NEW s \in Sink, <<d, s>> \in batch
               PROVE  d \notin Doomed /\ deliveries[d].state = "pending"
    OBVIOUS
  <2>1. <<d, s>>[1] = d /\ <<d, s>>[2] = s /\ <<d, s>> \in Claimable
    OBVIOUS
  <2>2. d \notin Doomed
    BY <2>1, ClaimSparesDoomed
  <2>3. Due(d, s)
    BY <2>1, ClaimableHasAttempt DEF FenceInv
  <2> QED
    BY <2>2, <2>3 DEF Due, Idle
<1>3. \A d \in Doomed : deliveries'[d] = Terminal(deliveries[d], "expired", DoomReason(d))
  BY <1>1, <1>2, DoomedPending
<1>4. \A d \in LeaseId \ Doomed :
        \/ deliveries'[d] = deliveries[d]
        \/ deliveries'[d] = Claimed(d, batch) /\ deliveries[d].state = "pending"
  BY <1>1, <1>2
<1>5. \A d \in LeaseId \ Doomed :
           /\ deliveries'[d].state = deliveries[d].state
           /\ deliveries'[d].terminalAt = deliveries[d].terminalAt
           /\ deliveries'[d].items = deliveries[d].items
           /\ deliveries'[d].required = deliveries[d].required
           /\ deliveries[d].state = "none" => deliveries'[d] = deliveries[d]
  BY <1>4, ClaimedFields DEF FenceInv
<1>6. \A d \in Doomed :
           /\ deliveries'[d].state = "expired" /\ deliveries'[d].terminalAt = now
           /\ deliveries'[d].items = deliveries[d].items
           /\ deliveries'[d].required = deliveries[d].required
           /\ deliveries[d].state = "pending"
  BY <1>3, DoomedEnd, DoomedPending DEF FenceInv
<1>7. \A i \in ItemsOf(Doomed) : items'[i] = MarkItemTerminal(items[i], "expired")
  <2>1. \A i \in ItemsOf(Doomed) : i \in Item
    BY OwnerIsUnique, DoomedPending DEF ItemsOf
  <2> QED
    BY <2>1 DEF ClaimDueAttempts
<1>8. \A i \in Item \ ItemsOf(Doomed) : items'[i] = items[i]
  BY DEF ClaimDueAttempts
<1>9. indexed' \in IndexModes /\ Doomed \in SUBSET LeaseId
  BY DoomedPending DEF ClaimDueAttempts, FenceInv, Configured
<1> QED
  BY <1>5, <1>6, <1>7, <1>8, <1>9, DeliveriesEnd

LEMMA ExpireDueFence ==
  ASSUME FenceInv, TypeOK', ExpireDue
  PROVE  FenceInv'
<1>1. \A d \in LeaseId \ Doomed : deliveries'[d] = deliveries[d]
  BY DEF ExpireDue
<1>2. \A d \in Doomed :
           /\ deliveries'[d].state = "expired" /\ deliveries'[d].terminalAt = now
           /\ deliveries'[d].items = deliveries[d].items
           /\ deliveries'[d].required = deliveries[d].required
           /\ deliveries[d].state = "pending"
  BY DoomedEnd, DoomedPending DEF ExpireDue, FenceInv
<1>3. \A i \in ItemsOf(Doomed) : items'[i] = MarkItemTerminal(items[i], "expired")
  <2>1. \A i \in ItemsOf(Doomed) : i \in Item
    BY OwnerIsUnique, DoomedPending DEF ItemsOf
  <2> QED
    BY <2>1 DEF ExpireDue
<1>4. ASSUME NEW i \in Item \ ItemsOf(Doomed)
      PROVE  items'[i] = items[i] \/ (items[i].state \in Unended /\ items'[i].state # "delivering")
  <2>1. CASE TTLExpired(i)
    <3>1. items'[i] = MarkItemTerminal(items[i], "expired") /\ items[i].state \in Unended
      BY <2>1 DEF ExpireDue, TTLExpired, Unended
    <3> QED
      BY <3>1, ItemEnd DEF FenceInv
  <2>2. CASE ~TTLExpired(i) /\ ~indexed /\ LeaseLapsed(i)
    <3>1. /\ items'[i] = [items[i] EXCEPT !.state = "pending", !.lease = NoLease, !.leaseUntil = 0]
          /\ items[i].state \in Unended
      BY <1>4, <2>2 DEF ExpireDue, LeaseLapsed, Unended
    <3>2. items'[i].state = "pending"
      BY <3>1 DEF FenceInv, TypeOK, ItemRecord
    <3> QED
      BY <3>1, <3>2
  <2>3. CASE ~TTLExpired(i) /\ ~(~indexed /\ LeaseLapsed(i))
    BY <1>4, <2>3 DEF ExpireDue
  <2> QED
    BY <2>1, <2>2, <2>3
<1>5. indexed' \in IndexModes /\ Doomed \in SUBSET LeaseId
  BY DoomedPending DEF ExpireDue, FenceInv, Configured
<1> QED
  BY <1>1, <1>2, <1>3, <1>4, <1>5, DeliveriesEnd

\* One delivery changes: it stays pending, or ends together with its items.
LEMMA OneDelivery ==
  ASSUME FenceInv, TypeOK', indexed' \in IndexModes,
         NEW d \in LeaseId, deliveries[d].state = "pending",
         \A e \in LeaseId \ {d} : deliveries'[e] = deliveries[e],
         deliveries'[d].items = deliveries[d].items,
         deliveries'[d].required = deliveries[d].required,
         \/ /\ deliveries'[d].state = "pending"
            /\ deliveries'[d].terminalAt = deliveries[d].terminalAt
            /\ items' = items
         \/ /\ deliveries'[d].state \in {"delivered", "expired"}
            /\ deliveries'[d].terminalAt = now
            /\ \E st \in {"acked", "expired"} :
                 items' = [i \in Item |-> IF i \in deliveries[d].items
                                            THEN MarkItemTerminal(items[i], st) ELSE items[i]]
  PROVE  FenceInv'
<1>1. CASE /\ deliveries'[d].state = "pending"
           /\ deliveries'[d].terminalAt = deliveries[d].terminalAt
           /\ items' = items
  <2>1. ItemsOf({}) = {}
    BY DEF ItemsOf
  <2> QED
    BY <1>1, <2>1, DeliveriesEnd
<1>2. CASE /\ deliveries'[d].state \in {"delivered", "expired"}
           /\ deliveries'[d].terminalAt = now
           /\ \E st \in {"acked", "expired"} :
                 items' = [i \in Item |-> IF i \in deliveries[d].items
                                            THEN MarkItemTerminal(items[i], st) ELSE items[i]]
  <2>1. ItemsOf({d}) = deliveries[d].items
    BY DEF ItemsOf
  <2>2. deliveries[d].items \subseteq Item
    BY OwnerIsUnique
  <2> QED
    BY <1>2, <2>1, <2>2, DeliveriesEnd
<1> QED
  BY <1>1, <1>2

\* What a success does to the delivery and its items.
LEMMA SuccessEffect ==
  ASSUME TypeOK, NEW a \in attempts, CompleteSuccess(a)
  PROVE  LET d == a.delivery
             new == deliveries'[d]
         IN  /\ deliveries[d].state = "pending"
             /\ \A e \in LeaseId \ {d} : deliveries'[e] = deliveries[e]
             /\ new.items = deliveries[d].items
             /\ new.required = deliveries[d].required
             /\ new.deadline = deliveries[d].deadline
             /\ new.sinks = [deliveries[d].sinks EXCEPT ![a.sink] = ConfirmSink(@)]
             /\ \/ /\ new.state = "pending"
                   /\ new.terminalAt = deliveries[d].terminalAt
                   /\ new.reason = deliveries[d].reason
                   /\ items' = items
                \/ /\ new.state = "delivered" /\ new.reason = "delivered"
                   /\ new.terminalAt = now
                   /\ \A s \in new.required : new.sinks[s].delivered
                   /\ items' = [i \in Item |-> IF i \in deliveries[d].items
                                                 THEN MarkItemTerminal(items[i], "acked") ELSE items[i]]
<1> DEFINE d == a.delivery
           c == ConfirmSink(deliveries[d].sinks[a.sink])
           done == [deliveries[d] EXCEPT !.sinks[a.sink] = c]
           r == IF AllSinksDelivered(done) THEN Terminal(done, "delivered", "delivered") ELSE done
<1>1. d \in LeaseId /\ a.sink \in Sink
  BY AttemptOf
<1>2. /\ done \in DeliveryRecord
      /\ done.state = deliveries[d].state /\ done.items = deliveries[d].items
      /\ done.required = deliveries[d].required /\ done.deadline = deliveries[d].deadline
      /\ done.sinks = [deliveries[d].sinks EXCEPT ![a.sink] = c]
      /\ done.terminalAt = deliveries[d].terminalAt /\ done.reason = deliveries[d].reason
  <2>1. c \in Checkpoint
    BY <1>1, SinksOf, CheckpointTypes DEF TypeOK
  <2> HIDE DEF c
  <2>2. done \in DeliveryRecord
    BY <1>1, <2>1, SinksOf, SinkType
  <2> QED
    BY <1>1, <2>1, <2>2, SinksOf DEF DeliveryRecord
<1>3. deliveries' = [deliveries EXCEPT ![d] = r] /\ deliveries[d].state = "pending"
  BY <1>1 DEF CompleteSuccess, Current
<1> HIDE DEF done
<1>4. deliveries'[d] = r /\ \A e \in LeaseId \ {d} : deliveries'[e] = deliveries[e]
  BY <1>1, <1>3 DEF TypeOK
<1>5. CASE AllSinksDelivered(done)
  <2>1. items' = [i \in Item |-> IF i \in deliveries[d].items
                                   THEN MarkItemTerminal(items[i], "acked") ELSE items[i]]
    BY <1>5 DEF CompleteSuccess, done
  <2>2. \A s \in done.required : done.sinks[s].delivered
    BY <1>5 DEF AllSinksDelivered
  <2>3. /\ r.state = "delivered" /\ r.reason = "delivered" /\ r.terminalAt = now
        /\ r.items = done.items /\ r.required = done.required
        /\ r.deadline = done.deadline /\ r.sinks = done.sinks
    BY <1>2, <1>5, DeliveryEnd
  <2> HIDE DEF r
  <2> QED
    BY <1>2, <1>3, <1>4, <2>1, <2>2, <2>3
<1>6. CASE ~AllSinksDelivered(done)
  <2>1. items' = items
    BY <1>6 DEF CompleteSuccess, done, TypeOK
  <2>2. r = done
    BY <1>6
  <2> HIDE DEF r
  <2> QED
    BY <1>2, <1>3, <1>4, <2>1, <2>2
<1> QED
  BY <1>5, <1>6

\* What a failure does: the deadline decides first, then the attempts used.
LEMMA FailureEffect ==
  ASSUME TypeOK, NEW a \in attempts, CompleteFailure(a)
  PROVE  LET d == a.delivery
             old == deliveries[d].sinks[a.sink]
             new == deliveries'[d]
             end == [i \in Item |-> IF i \in deliveries[d].items
                                      THEN MarkItemTerminal(items[i], "expired") ELSE items[i]]
         IN  /\ deliveries[d].state = "pending"
             /\ \A e \in LeaseId \ {d} : deliveries'[e] = deliveries[e]
             /\ new.items = deliveries[d].items
             /\ new.required = deliveries[d].required
             /\ new.deadline = deliveries[d].deadline
             /\ \/ /\ deliveries[d].deadline <= now
                   /\ new.state = "expired" /\ new.reason = "deadline"
                   /\ new.terminalAt = now
                   /\ new.sinks = deliveries[d].sinks
                   /\ items' = end
                \/ /\ old.attempts >= MaxAttempts
                   /\ new.state = "expired" /\ new.reason = "max_attempts"
                   /\ new.terminalAt = now
                   /\ new.sinks = [deliveries[d].sinks EXCEPT ![a.sink] = FailSink(@)]
                   /\ items' = end
                \/ /\ new.state = "pending"
                   /\ new.terminalAt = deliveries[d].terminalAt
                   /\ new.reason = deliveries[d].reason
                   /\ \E t \in Nat : new.sinks =
                        [deliveries[d].sinks EXCEPT ![a.sink] = [FailSink(@) EXCEPT !.nextAttemptAt = t]]
                   /\ items' = items
<1> DEFINE d == a.delivery
           old == deliveries[d].sinks[a.sink]
           over == Overdue(d) \/ old.attempts >= MaxAttempts
           end == [i \in Item |-> IF i \in deliveries[d].items
                                    THEN MarkItemTerminal(items[i], "expired") ELSE items[i]]
<1>1. d \in LeaseId /\ a.sink \in Sink
  BY AttemptOf
<1>2. deliveries[d].state = "pending"
  BY DEF CompleteFailure, Current
<1>3. PICK delay \in Backoffs :
        deliveries' = [deliveries EXCEPT ![d] =
            IF Overdue(d) THEN Terminal(@, "expired", "deadline")
            ELSE IF over
              THEN Terminal([@ EXCEPT !.sinks[a.sink] = FailSink(old)], "expired", "max_attempts")
            ELSE [@ EXCEPT !.sinks[a.sink] = [FailSink(old) EXCEPT !.nextAttemptAt = now + delay]]]
  BY DEF CompleteFailure
<1> DEFINE t == now + delay
           c3 == [FailSink(old) EXCEPT !.nextAttemptAt = t]
           r1 == Terminal(deliveries[d], "expired", "deadline")
           f2 == [deliveries[d] EXCEPT !.sinks[a.sink] = FailSink(old)]
           r2 == Terminal(f2, "expired", "max_attempts")
           r3 == [deliveries[d] EXCEPT !.sinks[a.sink] = c3]
           r == IF Overdue(d) THEN r1 ELSE IF over THEN r2 ELSE r3
<1>4. deliveries' = [deliveries EXCEPT ![d] = r]
  BY <1>1, <1>3 DEF TypeOK
<1>5. t \in Nat
  BY DigestConstants DEF TypeOK
<1>6. FailSink(old) \in Checkpoint /\ c3 \in Checkpoint
  BY <1>1, <1>5, SinksOf, CheckpointTypes DEF TypeOK
<1>7. /\ r3.state = deliveries[d].state /\ r3.items = deliveries[d].items
      /\ r3.required = deliveries[d].required /\ r3.deadline = deliveries[d].deadline
      /\ r3.sinks = [deliveries[d].sinks EXCEPT ![a.sink] = c3]
      /\ r3.terminalAt = deliveries[d].terminalAt /\ r3.reason = deliveries[d].reason
  BY <1>1, SinksOf DEF DeliveryRecord
<1>8. /\ f2 \in DeliveryRecord
      /\ f2.items = deliveries[d].items
      /\ f2.required = deliveries[d].required /\ f2.deadline = deliveries[d].deadline
      /\ f2.sinks = [deliveries[d].sinks EXCEPT ![a.sink] = FailSink(old)]
  <2>1. deliveries[d] \in DeliveryRecord
    BY <1>1 DEF TypeOK
  <2>2. [deliveries[d].sinks EXCEPT ![a.sink] = FailSink(old)] \in [Sink -> Checkpoint]
    BY <1>1, <1>6, SinksOf
  <2> QED
    BY <2>1, <2>2 DEF DeliveryRecord
<1> HIDE DEF f2, r3
<1>9. /\ r1.state = "expired" /\ r1.reason = "deadline" /\ r1.terminalAt = now
      /\ r1.items = deliveries[d].items /\ r1.required = deliveries[d].required
      /\ r1.deadline = deliveries[d].deadline /\ r1.sinks = deliveries[d].sinks
  BY <1>1, SinksOf, DeliveryEnd
<1>10. /\ r2.state = "expired" /\ r2.reason = "max_attempts" /\ r2.terminalAt = now
       /\ r2.items = deliveries[d].items /\ r2.required = deliveries[d].required
       /\ r2.deadline = deliveries[d].deadline
       /\ r2.sinks = [deliveries[d].sinks EXCEPT ![a.sink] = FailSink(old)]
  BY <1>8, DeliveryEnd
<1>11. deliveries'[d] = r /\ \A e \in LeaseId \ {d} : deliveries'[e] = deliveries[e]
  BY <1>1, <1>4 DEF TypeOK
<1>12. over => items' = end
  BY DEF CompleteFailure
<1>13. ~over => items' = items
  BY DEF CompleteFailure, TypeOK
<1> HIDE DEF r1, r2, end
<1>14. CASE Overdue(d)
  BY <1>1, <1>2, <1>9, <1>11, <1>12, <1>14 DEF Overdue, end
<1>15. CASE over /\ ~Overdue(d)
  BY <1>1, <1>2, <1>10, <1>11, <1>12, <1>15 DEF end
<1>16. CASE ~over
  <2>1. deliveries'[d] = r3
    BY <1>11, <1>16
  <2> QED
    BY <1>1, <1>2, <1>5, <1>7, <1>11, <1>13, <2>1, <1>16
<1> QED
  BY <1>14, <1>15, <1>16

LEMMA CompleteFence ==
  ASSUME FenceInv, TypeOK', NEW a \in attempts, CompleteSuccess(a) \/ CompleteFailure(a)
  PROVE  FenceInv'
<1>1. a.delivery \in LeaseId
  BY AttemptOf DEF FenceInv
<1>2. indexed' \in IndexModes
  BY DEF CompleteSuccess, CompleteFailure, Finished, FenceInv, Configured
<1>3. CASE CompleteSuccess(a)
  BY <1>1, <1>2, <1>3, SuccessEffect, OneDelivery DEF FenceInv
<1>4. CASE CompleteFailure(a)
  BY <1>1, <1>2, <1>4, FailureEffect, OneDelivery DEF FenceInv
<1> QED
  BY <1>3, <1>4

LEMMA RetryFields ==
  ASSUME TypeOK, NEW d \in LeaseId, RetryDelivery(d)
  PROVE  /\ deliveries[d].state = "pending"
         /\ \A e \in LeaseId \ {d} : deliveries'[e] = deliveries[e]
         /\ deliveries'[d] = [deliveries[d] EXCEPT !.sinks = deliveries'[d].sinks]
         /\ deliveries'[d].sinks = [s \in Sink |->
              IF Retryable(d, s) THEN ReviveSink(deliveries[d].sinks[s]) ELSE deliveries[d].sinks[s]]
<1> DEFINE sinks == [s \in Sink |-> IF Retryable(d, s) THEN ReviveSink(deliveries[d].sinks[s])
                                    ELSE deliveries[d].sinks[s]]
<1>1. deliveries' = [deliveries EXCEPT ![d].sinks = sinks]
  BY DEF RetryDelivery
<1>2. deliveries[d].state = "pending"
  BY DEF RetryDelivery, Retryable, Idle
<1> HIDE DEF sinks
<1>3. deliveries'[d] = [deliveries[d] EXCEPT !.sinks = sinks] /\ deliveries'[d].sinks = sinks
  BY <1>1 DEF TypeOK, DeliveryRecord
<1>4. \A e \in LeaseId \ {d} : deliveries'[e] = deliveries[e]
  BY <1>1 DEF TypeOK
<1> QED
  BY <1>2, <1>3, <1>4 DEF sinks

LEMMA RetryFence ==
  ASSUME FenceInv, TypeOK', NEW d \in LeaseId, RetryDelivery(d)
  PROVE  FenceInv'
<1>1. /\ deliveries[d].state = "pending"
      /\ \A e \in LeaseId \ {d} : deliveries'[e] = deliveries[e]
      /\ deliveries'[d] = [deliveries[d] EXCEPT !.sinks = deliveries'[d].sinks]
  BY RetryFields DEF FenceInv
<1>2. /\ deliveries'[d].state = "pending"
      /\ deliveries'[d].items = deliveries[d].items
      /\ deliveries'[d].required = deliveries[d].required
      /\ deliveries'[d].terminalAt = deliveries[d].terminalAt
  BY <1>1, SinksOf DEF FenceInv, DeliveryRecord
<1>3. items' = items /\ indexed' \in IndexModes
  BY DEF RetryDelivery, FenceInv, Configured
<1> QED
  BY <1>1, <1>2, <1>3, OneDelivery

\* Purge looks at each record alone; items end with their delivery, so they
\* are old together.
LEMMA PurgeFence ==
  ASSUME FenceInv, TypeOK', Purge
  PROVE  FenceInv'
<1> USE DEF FenceInv
<1> DEFINE gone(d) == deliveries[d].state \in {"delivered", "expired"} /\ Old(deliveries[d].terminalAt)
<1>1. \A d \in LeaseId : deliveries'[d] = IF gone(d) THEN NoDelivery ELSE deliveries[d]
  BY DEF Purge
<1>2. \A i \in Item : \/ items'[i] = items[i]
                      \/ /\ items'[i] = NoItem
                         /\ items[i].state \in {"acked", "expired"} /\ Old(items[i].terminalAt)
  BY DEF Purge
<1>3. ASSUME NEW d \in LeaseId, deliveries'[d].state # "none"
      PROVE  /\ deliveries'[d] = deliveries[d]
             /\ \A i \in deliveries[d].items : items'[i] = items[i]
  <2>1. ~gone(d) /\ deliveries'[d] = deliveries[d]
    BY <1>1, <1>3, NoDeliveryFields
  <2>2. ASSUME NEW i \in deliveries[d].items
        PROVE  items'[i] = items[i]
    <3>1. i \in Item
      BY OwnerIsUnique
    <3>2. CASE deliveries[d].state = "pending"
      BY <1>2, <3>1, <3>2 DEF DeliveryFence, Fenced
    <3>3. CASE deliveries[d].state \in {"delivered", "expired"}
      BY <1>2, <2>1, <3>1, <3>3 DEF EndedTogether
    <3> QED
      BY <1>3, <2>1, <3>2, <3>3, DeliveryStateSplit
  <2> QED
    BY <2>1, <2>2
<1>4. ASSUME NEW i \in Item, items'[i].state = "delivering"
      PROVE  /\ items'[i].delivery \in LeaseId
             /\ deliveries'[items'[i].delivery].state = "pending"
             /\ i \in deliveries'[items'[i].delivery].items
  <2>1. items'[i] = items[i]
    BY <1>2, <1>4 DEF NoItem
  <2>2. /\ items[i].delivery \in LeaseId
        /\ deliveries[items[i].delivery].state = "pending"
        /\ i \in deliveries[items[i].delivery].items
    BY <1>4, <2>1 DEF DeliveryFence
  <2>3. deliveries'[items[i].delivery] = deliveries[items[i].delivery]
    BY <1>1, <2>2
  <2> QED
    BY <2>1, <2>2, <2>3
<1>5. \A d \in LeaseId : deliveries'[d].state = "pending" => Fenced(d)'
  BY <1>3 DEF DeliveryFence, Fenced
<1>6. EndedTogether'
  BY <1>3 DEF EndedTogether
<1>7. Configured'
  BY <1>1, <1>3 DEF Configured, Purge
<1> QED
  BY <1>4, <1>5, <1>6, <1>7 DEF DeliveryFence

LEMMA StepFence ==
  ASSUME NoRevival, FenceInv, [Next]_vars
  PROVE  FenceInv'
<1>1. TypeOK'
  BY StepType DEF FenceInv
<1>2. ASSUME NEW i \in Item, Enqueue(i) PROVE FenceInv'
  BY <1>1, <1>2, EnqueueFence
<1>3. ASSUME NEW l \in LeaseId, Lease(l) \/ LeaseTopics(l) PROVE FenceInv'
  BY <1>1, <1>3, LeaseFence
<1>4. ASSUME NEW l \in LeaseId, Ack(l) PROVE FenceInv'
  BY <1>1, <1>4, AckFence
<1>5. ASSUME NEW l \in LeaseId, PrepareDelivery(l) PROVE FenceInv'
  BY <1>1, <1>5, PrepareDeliveryFence
<1>6. ASSUME NEW l \in LeaseId, PrepareRejected(l) PROVE FenceInv'
  BY <1>1, <1>6, PrepareRejectedFence
<1>7. ASSUME NEW l \in LeaseId, RetryDelivery(l) PROVE FenceInv'
  BY <1>1, <1>7, RetryFence
<1>8. ASSUME NEW a \in attempts, CompleteSuccess(a) \/ CompleteFailure(a) PROVE FenceInv'
  BY <1>1, <1>8, CompleteFence
<1>9. ASSUME UNCHANGED <<items, deliveries>>, indexed' \in IndexModes PROVE FenceInv'
  BY <1>1, <1>9, NothingEnds
<1>10. ASSUME NEW a \in attempts, Send(a) \/ CompleteRejected(a) PROVE FenceInv'
  BY <1>9, <1>10 DEF Send, CompleteRejected, Finished, store, FenceInv, Configured
<1>11. CASE ClaimDueAttempts
  BY <1>1, <1>11, ClaimFence
<1>12. CASE ExpireDue
  BY <1>1, <1>12, ExpireDueFence
<1>13. CASE Purge
  BY <1>1, <1>13, PurgeFence
<1>14. CASE Restart \/ Tick \/ UNCHANGED vars
  BY <1>9, <1>14 DEF Restart, Tick, vars, FenceInv, Configured
<1> QED
  BY <1>2, <1>3, <1>4, <1>5, <1>6, <1>7, <1>8, <1>10, <1>11, <1>12, <1>13, <1>14 DEF Next

LEMMA FenceInvariant ==
  ASSUME NoRevival
  PROVE  Spec => []FenceInv
<1>1. Init => FenceInv
  BY InitFence
<1>2. FenceInv /\ [Next]_vars => FenceInv'
  BY StepFence
<1> QED
  BY <1>1, <1>2, PTL DEF Spec

-----------------------------------------------------------------------------
(* The results.                                                            *)

\* A pending delivery owns exactly the delivering items that name it, so the
\* fence assertion of updateDeliveryItems never fails: a housekeeping pass
\* cannot be rolled back by it.  With indexes and briefings of two channels
\* this is false, as the run digest_index_revives shows.
THEOREM FenceHolds ==
  ASSUME NoRevival
  PROVE  Spec => []DeliveryFence
<1>1. FenceInv => DeliveryFence
  BY DEF FenceInv
<1> QED
  BY <1>1, FenceInvariant, PTL

\* No item is ever part of two digests, among those still recorded.
THEOREM DigestsStayDisjoint ==
  ASSUME NoRevival
  PROVE  Spec => []DigestsDisjoint
<1>1. FenceInv => DigestsDisjoint
  BY OwnerIsUnique DEF DigestsDisjoint
<1> QED
  BY <1>1, FenceInvariant, PTL

-----------------------------------------------------------------------------
(* Ends are final.                                                         *)

ItemEnded(i) == items[i].state \in {"acked", "expired"}
DeliveryEnded(d) == deliveries[d].state \in {"delivered", "expired"}

\* The items a transaction ends were still fenced to their deliveries.
LEMMA EndingItemsAreLive ==
  ASSUME NEW D \in SUBSET LeaseId, \A d \in D : Fenced(d), NEW i \in ItemsOf(D)
  PROVE  items[i].state = "delivering"
  BY DEF ItemsOf, Fenced

\* Steps other than Purge keep the items that ended.
LEMMA EndsAreKept ==
  ASSUME TypeOK, [Next]_vars, ~Purge, NEW i \in Item, ItemEnded(i)
  PROVE  items'[i] = items[i]
<1> USE DEF ItemEnded
<1>1. ASSUME NEW j \in Item, Enqueue(j) PROVE items'[i] = items[i]
  BY <1>1 DEF Enqueue, TypeOK
<1>2. ASSUME NEW l \in LeaseId, Lease(l) \/ LeaseTopics(l) PROVE items'[i] = items[i]
  <2>1. PICK taken \in SUBSET Item, expired \in SUBSET Item :
           /\ \A j \in taken : Waiting(j)
           /\ \A j \in expired : TTLExpired(j)
           /\ GrantLease(l, taken, expired)
    BY <1>2, LeaseTakes
  <2>2. i \notin taken /\ i \notin expired
    BY <2>1 DEF Waiting, LeaseLapsed, TTLExpired
  <2> QED
    BY <2>1, <2>2 DEF GrantLease
<1>3. ASSUME NEW l \in LeaseId, Ack(l) PROVE items'[i] = items[i]
  BY <1>3 DEF Ack, TTLExpired, Holds
<1>4. ASSUME NEW l \in LeaseId, PrepareDelivery(l) \/ PrepareRejected(l) PROVE items'[i] = items[i]
  BY <1>4 DEF PrepareDelivery, PrepareRejected, ExpiredOnPrepare, TTLExpired, Holds
<1>5. ASSUME NEW l \in LeaseId, RetryDelivery(l) PROVE items'[i] = items[i]
  BY <1>5 DEF RetryDelivery
<1>6. CASE ClaimDueAttempts \/ ExpireDue
  <2>1. \A d \in Doomed : Fenced(d)
    BY <1>6 DEF ClaimDueAttempts, ExpireDue
  <2>2. i \notin ItemsOf(Doomed)
    BY <2>1, DoomedPending, EndingItemsAreLive
  <2> QED
    BY <1>6, <2>2 DEF ClaimDueAttempts, ExpireDue, TTLExpired, LeaseLapsed
<1>7. ASSUME NEW a \in attempts, Send(a) \/ CompleteRejected(a) PROVE items'[i] = items[i]
  BY <1>7 DEF Send, CompleteRejected, store
<1>8. ASSUME NEW a \in attempts, CompleteSuccess(a) \/ CompleteFailure(a) PROVE items'[i] = items[i]
  <2> DEFINE d == a.delivery
  <2>1. \/ items'[i] = items[i]
        \/ i \in deliveries[d].items /\ Fenced(d)
    BY <1>8 DEF CompleteSuccess, CompleteFailure
  <2> QED
    BY <2>1 DEF Fenced
<1>9. CASE Restart \/ Tick \/ UNCHANGED vars
  BY <1>9 DEF Restart, Tick, vars
<1> QED
  BY <1>1, <1>2, <1>3, <1>4, <1>5, <1>6, <1>7, <1>8, <1>9 DEF Next

\* And the deliveries that ended.
LEMMA OutcomesAreKept ==
  ASSUME TypeOK, [Next]_vars, ~Purge, NEW d \in LeaseId, DeliveryEnded(d)
  PROVE  deliveries'[d] = deliveries[d]
<1> USE DEF DeliveryEnded
<1>1. ASSUME NEW i \in Item, Enqueue(i) PROVE deliveries'[d] = deliveries[d]
  BY <1>1 DEF Enqueue
<1>2. ASSUME NEW l \in LeaseId, Lease(l) \/ LeaseTopics(l) \/ Ack(l) \/ PrepareRejected(l)
      PROVE  deliveries'[d] = deliveries[d]
  BY <1>2, LeaseTakes DEF GrantLease, Ack, PrepareRejected
<1>3. ASSUME NEW l \in LeaseId, PrepareDelivery(l) PROVE deliveries'[d] = deliveries[d]
  BY <1>3 DEF PrepareDelivery, TypeOK
<1>4. ASSUME NEW l \in LeaseId, RetryDelivery(l) PROVE deliveries'[d] = deliveries[d]
  BY <1>4, RetryFields
<1>5. CASE ExpireDue
  BY <1>5, DoomedPending DEF ExpireDue
<1>6. CASE ClaimDueAttempts
  <2>1. \A s \in Sink : <<d, s>> \notin Claimable
    <3> SUFFICES ASSUME NEW s \in Sink, <<d, s>> \in Claimable PROVE FALSE
      OBVIOUS
    <3>1. Due(d, s)
      BY ClaimableHasAttempt
    <3> QED
      BY <3>1 DEF Due, Idle
  <2> QED
    BY <1>6, <2>1, DoomedPending DEF ClaimDueAttempts
<1>7. ASSUME NEW a \in attempts, Send(a) \/ CompleteRejected(a) PROVE deliveries'[d] = deliveries[d]
  BY <1>7 DEF Send, CompleteRejected, store
<1>8. ASSUME NEW a \in attempts, CompleteSuccess(a) \/ CompleteFailure(a)
      PROVE  deliveries'[d] = deliveries[d]
  BY <1>8, SuccessEffect, FailureEffect
<1>9. CASE Restart \/ Tick \/ UNCHANGED vars
  BY <1>9 DEF Restart, Tick, vars
<1> QED
  BY <1>1, <1>2, <1>3, <1>4, <1>5, <1>6, <1>7, <1>8, <1>9 DEF Next

\* An acked or expired item and a delivered or expired delivery never change
\* again until Purge removes them, old enough.
THEOREM EndsAreFinal == Spec => TerminalIsFinal
<1>1. TypeOK /\ [Next]_vars =>
        [/\ \A i \in Item : EndKept(i)
         /\ \A d \in LeaseId : OutcomeKept(d)]_vars
  <2> SUFFICES ASSUME TypeOK, [Next]_vars
               PROVE  /\ \A i \in Item : EndKept(i)
                      /\ \A d \in LeaseId : OutcomeKept(d)
    OBVIOUS
  <2>1. CASE Purge
    BY <2>1 DEF Purge, Old, EndKept, OutcomeKept
  <2>2. CASE ~Purge
    BY <2>2, EndsAreKept, OutcomesAreKept
    DEF EndKept, OutcomeKept, ItemEnded, DeliveryEnded
  <2> QED
    BY <2>1, <2>2
<1> QED
  BY <1>1, TypeCorrect, PTL DEF TerminalIsFinal, Spec

-----------------------------------------------------------------------------
(* How one delivery moves.                                                 *)

ClaimStep(d) ==
  /\ ClaimDueAttempts
  /\ deliveries[d].state = "pending"
  /\ \E batch \in SUBSET Claimable : deliveries'[d] = Claimed(d, batch)

ExpireStep(d) ==
  /\ d \in Doomed
  /\ deliveries'[d] = Terminal(deliveries[d], "expired", DoomReason(d))

PurgeStep(d) == Purge /\ DeliveryEnded(d) /\ deliveries'[d] = NoDelivery

\* Every step leaves a delivery alone or moves it in one of seven ways.
LEMMA DeliveryStep ==
  ASSUME TypeOK, [Next]_vars, NEW d \in LeaseId
  PROVE  \/ deliveries'[d] = deliveries[d]
         \/ PrepareDelivery(d)
         \/ ClaimStep(d)
         \/ ExpireStep(d)
         \/ \E a \in attempts : a.delivery = d /\ CompleteSuccess(a)
         \/ \E a \in attempts : a.delivery = d /\ CompleteFailure(a)
         \/ RetryDelivery(d)
         \/ PurgeStep(d)
<1>1. ASSUME NEW i \in Item, Enqueue(i) PROVE deliveries'[d] = deliveries[d]
  BY <1>1 DEF Enqueue
<1>2. ASSUME NEW l \in LeaseId, Lease(l) \/ LeaseTopics(l) \/ Ack(l) \/ PrepareRejected(l)
      PROVE  deliveries'[d] = deliveries[d]
  BY <1>2, LeaseTakes DEF GrantLease, Ack, PrepareRejected
<1>3. ASSUME NEW l \in LeaseId, PrepareDelivery(l), l # d PROVE deliveries'[d] = deliveries[d]
  BY <1>3 DEF PrepareDelivery, TypeOK
<1>4. ASSUME NEW l \in LeaseId, RetryDelivery(l), l # d PROVE deliveries'[d] = deliveries[d]
  BY <1>4, RetryFields
<1>5. CASE ExpireDue
  BY <1>5 DEF ExpireDue, ExpireStep
<1>6. CASE ClaimDueAttempts
  <2>1. PICK batch \in SUBSET Claimable :
          deliveries' = [e \in LeaseId |->
             IF \E s \in Sink : <<e, s>> \in batch THEN Claimed(e, batch)
             ELSE IF e \in Doomed THEN Terminal(deliveries[e], "expired", DoomReason(e))
             ELSE deliveries[e]]
    BY <1>6 DEF ClaimDueAttempts
  <2>2. CASE \E s \in Sink : <<d, s>> \in batch
    <3>1. PICK s \in Sink : <<d, s>> \in Claimable
      BY <2>2
    <3>2. Due(d, s)
      BY <3>1, ClaimableHasAttempt
    <3>3. deliveries[d].state = "pending"
      BY <3>2 DEF Due, Idle
    <3> QED
      BY <1>6, <2>1, <2>2, <3>3 DEF ClaimStep
  <2>3. CASE ~\E s \in Sink : <<d, s>> \in batch
    BY <2>1, <2>3 DEF ExpireStep
  <2> QED
    BY <2>2, <2>3
<1>7. ASSUME NEW a \in attempts, Send(a) \/ CompleteRejected(a) PROVE deliveries'[d] = deliveries[d]
  BY <1>7 DEF Send, CompleteRejected, store
<1>8. ASSUME NEW a \in attempts, CompleteSuccess(a) \/ CompleteFailure(a), a.delivery # d
      PROVE  deliveries'[d] = deliveries[d]
  BY <1>8, SuccessEffect, FailureEffect
<1>9. CASE Purge
  BY <1>9 DEF Purge, PurgeStep, DeliveryEnded
<1>10. CASE Restart \/ Tick \/ UNCHANGED vars
  BY <1>10 DEF Restart, Tick, vars
<1> QED
  BY <1>1, <1>2, <1>3, <1>4, <1>5, <1>6, <1>7, <1>8, <1>9, <1>10 DEF Next

\* The fields an empty and a new checkpoint start from.
LEMMA NewCheckpointFields ==
  ASSUME NEW t
  PROVE  /\ ~NewCheckpoint(t).delivered /\ NewCheckpoint(t).attempts = 0
         /\ NewCheckpoint(t).token = 0
  BY DEF NewCheckpoint

LEMMA NoDeliverySinks ==
  ASSUME NEW s \in Sink
  PROVE  NoDelivery.sinks[s] = NewCheckpoint(0)
  BY DEF NoDelivery

LEMMA PreparedFields ==
  ASSUME TypeOK, NEW l \in LeaseId, PrepareDelivery(l)
  PROVE  /\ deliveries[l].state = "none"
         /\ deliveries'[l].state = "pending"
         /\ \A s \in Sink : \E t : deliveries'[l].sinks[s] = NewCheckpoint(t)
<1>1. PICK required \in SinkSets : deliveries' = [deliveries EXCEPT ![l] =
          [NoDelivery EXCEPT !.state = "pending", !.items = Holds(l), !.required = required,
             !.sinks = [s \in Sink |-> NewCheckpoint(IF s \in required THEN now ELSE 0)],
             !.deadline = now + DeliveryTTL]]
  BY DEF PrepareDelivery
<1> DEFINE sinks == [s \in Sink |-> NewCheckpoint(IF s \in required THEN now ELSE 0)]
<1>2. \A s \in Sink : \E t : sinks[s] = NewCheckpoint(t)
  OBVIOUS
<1> HIDE DEF sinks
<1>3. deliveries' = [deliveries EXCEPT ![l] =
          [NoDelivery EXCEPT !.state = "pending", !.items = Holds(l), !.required = required,
             !.sinks = sinks, !.deadline = now + DeliveryTTL]]
  BY <1>1 DEF sinks
<1>4. deliveries'[l].state = "pending" /\ deliveries'[l].sinks = sinks
  BY <1>3, EmptyTypes DEF TypeOK, DeliveryRecord
<1>5. deliveries[l].state = "none"
  BY DEF PrepareDelivery
<1> QED
  BY <1>2, <1>4, <1>5

\* What claiming does to one checkpoint.
LEMMA ClaimedSinks ==
  ASSUME TypeOK, NEW d \in LeaseId, NEW s \in Sink, NEW batch \in SUBSET Claimable
  PROVE  /\ Claimed(d, batch).sinks[s] =
              IF <<d, s>> \in batch THEN ClaimSink(deliveries[d].sinks[s])
                                    ELSE deliveries[d].sinks[s]
         /\ <<d, s>> \in batch => Due(d, s) /\ ~Exhausted(d, s)
<1> DEFINE sinks == [t \in Sink |-> IF <<d, t>> \in batch THEN ClaimSink(deliveries[d].sinks[t])
                                    ELSE deliveries[d].sinks[t]]
<1>1. Claimed(d, batch) = [deliveries[d] EXCEPT !.sinks = sinks]
  BY DEF Claimed
<1>2. sinks[s] = IF <<d, s>> \in batch THEN ClaimSink(deliveries[d].sinks[s])
                                       ELSE deliveries[d].sinks[s]
  OBVIOUS
<1> HIDE DEF sinks
<1>3. Claimed(d, batch).sinks = sinks
  BY <1>1, SinksOf DEF DeliveryRecord
<1>4. <<d, s>> \in batch => Due(d, s) /\ ~Exhausted(d, s)
  <2> SUFFICES ASSUME <<d, s>> \in batch PROVE Due(d, s) /\ ~Exhausted(d, s)
    OBVIOUS
  <2>1. <<d, s>> \in Claimable /\ <<d, s>>[1] = d /\ <<d, s>>[2] = s
    OBVIOUS
  <2> QED
    BY <2>1, ClaimableHasAttempt
<1> QED
  BY <1>2, <1>3, <1>4

LEMMA CheckpointFields ==
  ASSUME NEW c \in Checkpoint, NEW t
  PROVE  /\ ConfirmSink(c).delivered /\ ConfirmSink(c).token = 0
         /\ ConfirmSink(c).attempts = c.attempts
         /\ FailSink(c).delivered = c.delivered /\ FailSink(c).token = 0
         /\ FailSink(c).attempts = c.attempts
         /\ LET f == [FailSink(c) EXCEPT !.nextAttemptAt = t]
            IN  f.delivered = c.delivered /\ f.token = 0 /\ f.attempts = c.attempts
         /\ ReviveSink(c).delivered = c.delivered /\ ReviveSink(c).token = 0
         /\ ReviveSink(c).attempts = c.attempts
         /\ ClaimSink(c).delivered = c.delivered /\ ClaimSink(c).token = c.attempts + 1
         /\ ClaimSink(c).attempts = c.attempts + 1
         /\ ClaimSink(c).claimedUntil = now + ClaimTTL
  BY DEF Checkpoint, ConfirmSink, FailSink, ReviveSink, ClaimSink

-----------------------------------------------------------------------------
(* Expiries have their reason.                                             *)

\* A claim is held on undelivered required sinks only.
TokensAreOpen ==
  \A d \in LeaseId, s \in Sink : deliveries[d].sinks[s].token # 0 =>
    s \in deliveries[d].required /\ ~deliveries[d].sinks[s].delivered

ExpiryInv == TypeOK /\ TokensAreOpen /\ ExpiryIsJustified

\* The attempts a worker may complete hold an open token.
LEMMA CurrentIsOpen ==
  ASSUME TypeOK, TokensAreOpen, NEW a \in attempts, Current(a)
  PROVE  a.sink \in deliveries[a.delivery].required
         /\ ~deliveries[a.delivery].sinks[a.sink].delivered
<1>1. a.delivery \in LeaseId /\ a.sink \in Sink /\ a.token # 0
  BY AttemptOf
<1> QED
  BY <1>1 DEF Current, TokensAreOpen

LEMMA StepTokens ==
  ASSUME TypeOK, TokensAreOpen, [Next]_vars
  PROVE  TokensAreOpen'
<1> SUFFICES ASSUME NEW d \in LeaseId, NEW s \in Sink, deliveries'[d].sinks[s].token # 0
             PROVE  s \in deliveries'[d].required /\ ~deliveries'[d].sinks[s].delivered
  BY DEF TokensAreOpen
<1> DEFINE c == deliveries[d].sinks[s]
<1>1. /\ c \in Checkpoint
      /\ c.token # 0 => s \in deliveries[d].required /\ ~c.delivered
  BY SinksOf DEF TokensAreOpen
<1>2. CASE deliveries'[d] = deliveries[d]
  BY <1>1, <1>2
<1>3. CASE PrepareDelivery(d)
  BY <1>3, PreparedFields, NewCheckpointFields
<1>4. CASE ClaimStep(d)
  <2>1. PICK batch \in SUBSET Claimable : deliveries'[d] = Claimed(d, batch)
    BY <1>4 DEF ClaimStep
  <2>2. deliveries'[d].required = deliveries[d].required
    BY <2>1, ClaimedFields
  <2>3. CASE <<d, s>> \in batch
    <3>1. Due(d, s) /\ deliveries'[d].sinks[s] = ClaimSink(c)
      BY <2>1, <2>3, ClaimedSinks
    <3> QED
      BY <1>1, <2>2, <3>1, CheckpointFields DEF Due, Idle
  <2>4. CASE <<d, s>> \notin batch
    <3>1. deliveries'[d].sinks[s] = c
      BY <2>1, <2>4, ClaimedSinks
    <3> QED
      BY <1>1, <2>2, <3>1
  <2> QED
    BY <2>3, <2>4
<1>5. CASE ExpireStep(d)
  <2>1. deliveries'[d].sinks = deliveries[d].sinks
        /\ deliveries'[d].required = deliveries[d].required
    BY <1>5, SinksOf, DeliveryEnd DEF ExpireStep
  <2> QED
    BY <1>1, <2>1
<1>6. ASSUME NEW a \in attempts, a.delivery = d, CompleteSuccess(a)
      PROVE  s \in deliveries'[d].required /\ ~deliveries'[d].sinks[s].delivered
  <2>1. /\ deliveries'[d].required = deliveries[d].required
        /\ deliveries'[d].sinks = [deliveries[d].sinks EXCEPT ![a.sink] = ConfirmSink(@)]
    BY <1>6, SuccessEffect
  <2>2. CASE s = a.sink
    BY <1>1, <2>1, <2>2, SinksOf, CheckpointFields
  <2>3. CASE s # a.sink
    BY <1>1, <2>1, <2>3, SinksOf
  <2> QED
    BY <2>2, <2>3
<1>7. ASSUME NEW a \in attempts, a.delivery = d, CompleteFailure(a)
      PROVE  s \in deliveries'[d].required /\ ~deliveries'[d].sinks[s].delivered
  <2>1. deliveries'[d].required = deliveries[d].required
    BY <1>7, FailureEffect
  <2>2. \/ deliveries'[d].sinks[s] = c
        \/ deliveries'[d].sinks[s].token = 0
    <3>1. \/ deliveries'[d].sinks = deliveries[d].sinks
          \/ deliveries'[d].sinks = [deliveries[d].sinks EXCEPT ![a.sink] = FailSink(@)]
          \/ \E t \in Nat : deliveries'[d].sinks =
               [deliveries[d].sinks EXCEPT ![a.sink] = [FailSink(@) EXCEPT !.nextAttemptAt = t]]
      BY <1>7, FailureEffect
    <3>2. CASE s # a.sink
      BY <3>1, <3>2, SinksOf
    <3>3. CASE s = a.sink
      <4>1. FailSink(c).token = 0 /\ \A t : [FailSink(c) EXCEPT !.nextAttemptAt = t].token = 0
        BY <1>1, CheckpointFields
      <4> QED
        BY <3>1, <3>3, <4>1, SinksOf
    <3> QED
      BY <3>2, <3>3
  <2> QED
    BY <1>1, <2>1, <2>2
<1>8. CASE RetryDelivery(d)
  <2>1. /\ deliveries'[d].required = deliveries[d].required
        /\ deliveries'[d].sinks[s] = IF Retryable(d, s) THEN ReviveSink(c) ELSE c
    <3>1. deliveries'[d] = [deliveries[d] EXCEPT !.sinks = deliveries'[d].sinks]
      BY <1>8, RetryFields
    <3>2. deliveries'[d].sinks = [t \in Sink |->
            IF Retryable(d, t) THEN ReviveSink(deliveries[d].sinks[t]) ELSE deliveries[d].sinks[t]]
      BY <1>8, RetryFields
    <3>3. deliveries'[d].required = deliveries[d].required
      BY <3>1, SinksOf DEF DeliveryRecord
    <3> QED
      BY <3>2, <3>3
  <2> QED
    BY <1>1, <2>1, CheckpointFields
<1>9. CASE PurgeStep(d)
  BY <1>9, NoDeliverySinks, NewCheckpointFields DEF PurgeStep
<1> QED
  BY <1>2, <1>3, <1>4, <1>5, <1>6, <1>7, <1>8, <1>9, DeliveryStep

Justified(d) ==
  deliveries[d].state = "expired" =>
    \/ deliveries[d].reason = "deadline" /\ deliveries[d].terminalAt >= deliveries[d].deadline
    \/ /\ deliveries[d].reason = "max_attempts"
       /\ \E s \in deliveries[d].required :
            ~deliveries[d].sinks[s].delivered /\ deliveries[d].sinks[s].attempts = MaxAttempts

LEMMA StepExpiry ==
  ASSUME ExpiryInv, [Next]_vars, NEW d \in LeaseId
  PROVE  Justified(d)'
<1> USE DEF ExpiryInv
<1>1. Justified(d)
  BY DEF ExpiryIsJustified, Justified
<1>2. CASE deliveries'[d] = deliveries[d]
  BY <1>1, <1>2 DEF Justified
<1>3. CASE PrepareDelivery(d)
  BY <1>3, PreparedFields DEF Justified
<1>4. CASE ClaimStep(d)
  BY <1>4, ClaimedFields DEF ClaimStep, Justified
<1>5. CASE ExpireStep(d)
  <2> DEFINE r == deliveries'[d]
  <2>1. /\ r.reason = DoomReason(d) /\ r.terminalAt = now /\ r.deadline = deliveries[d].deadline
        /\ r.sinks = deliveries[d].sinks /\ r.required = deliveries[d].required
    BY <1>5, SinksOf, DeliveryEnd DEF ExpireStep
  <2>2. CASE Overdue(d)
    BY <2>1, <2>2, SinksOf DEF Overdue, DoomReason, Justified, TypeOK, DeliveryRecord
  <2>3. CASE ~Overdue(d)
    <3>1. PICK s \in Sink : Exhausted(d, s)
      BY <1>5, <2>3 DEF ExpireStep, Doomed
    <3>2. deliveries[d].sinks[s].attempts \in 0..MaxAttempts
      BY SinksOf DEF Checkpoint
    <3>3. /\ s \in deliveries[d].required /\ ~deliveries[d].sinks[s].delivered
          /\ deliveries[d].sinks[s].attempts = MaxAttempts
      BY <3>1, <3>2, Numbers DEF Exhausted, Idle
    <3> QED
      BY <2>1, <2>3, <3>3 DEF DoomReason, Justified
  <2> QED
    BY <2>2, <2>3
<1>6. ASSUME NEW a \in attempts, a.delivery = d, CompleteSuccess(a) PROVE Justified(d)'
  BY <1>6, SuccessEffect DEF Justified
<1>7. ASSUME NEW a \in attempts, a.delivery = d, CompleteFailure(a) PROVE Justified(d)'
  <2> DEFINE old == deliveries[d].sinks[a.sink]
             new == deliveries'[d]
  <2>1. a.sink \in Sink /\ old \in Checkpoint
    BY <1>7, AttemptOf, SinksOf
  <2>2. a.sink \in deliveries[d].required /\ ~old.delivered
    BY <1>7, CurrentIsOpen DEF CompleteFailure
  <2>3. CASE /\ deliveries[d].deadline <= now
             /\ new.reason = "deadline" /\ new.terminalAt = now
    BY <1>7, <2>3, FailureEffect, SinksOf DEF Justified, TypeOK, DeliveryRecord
  <2>4. CASE /\ old.attempts >= MaxAttempts
             /\ new.reason = "max_attempts"
             /\ new.sinks = [deliveries[d].sinks EXCEPT ![a.sink] = FailSink(@)]
    <3>1. new.sinks[a.sink] = FailSink(old)
      BY <2>1, <2>4, SinksOf
    <3>2. old.attempts = MaxAttempts
      BY <2>1, <2>4, Numbers DEF Checkpoint
    <3>3. ~new.sinks[a.sink].delivered /\ new.sinks[a.sink].attempts = MaxAttempts
      BY <2>1, <2>2, <3>1, <3>2, CheckpointFields
    <3>4. a.sink \in new.required
      BY <1>7, <2>2, FailureEffect
    <3> QED
      BY <2>4, <3>3, <3>4 DEF Justified
  <2>5. CASE new.state = "pending"
    BY <2>5 DEF Justified
  <2> QED
    BY <1>7, <2>3, <2>4, <2>5, FailureEffect
<1>8. CASE RetryDelivery(d)
  BY <1>8, RetryFields, SinksOf DEF Justified, DeliveryRecord
<1>9. CASE PurgeStep(d)
  BY <1>9, NoDeliveryFields DEF PurgeStep, Justified
<1> QED
  BY <1>2, <1>3, <1>4, <1>5, <1>6, <1>7, <1>8, <1>9, DeliveryStep

\* A delivery expires only past its deadline, or with a required channel
\* that is still undelivered after digestMaxAttempts attempts.
THEOREM ExpiriesAreJustified == Spec => []ExpiryIsJustified
<1>1. Init => ExpiryInv
  <2> SUFFICES ASSUME Init PROVE ExpiryInv
    OBVIOUS
  <2>1. \A d \in LeaseId : deliveries[d] = NoDelivery
    BY DEF Init
  <2> QED
    BY <2>1, InitType, NoDeliveryFields, NoDeliverySinks, NewCheckpointFields
    DEF ExpiryInv, TokensAreOpen, ExpiryIsJustified
<1>2. ExpiryInv /\ [Next]_vars => ExpiryInv'
  <2> SUFFICES ASSUME ExpiryInv, [Next]_vars PROVE ExpiryInv'
    OBVIOUS
  <2>1. ExpiryIsJustified'
    BY StepExpiry DEF Justified, ExpiryIsJustified
  <2> QED
    BY <2>1, StepType, StepTokens DEF ExpiryInv
<1>3. ExpiryInv => ExpiryIsJustified
  BY DEF ExpiryInv
<1> QED
  BY <1>1, <1>2, <1>3, PTL DEF Spec

-----------------------------------------------------------------------------
(* A lease becomes a delivery once.                                        *)

\* The lease was handed out and its briefing is over.
Used(d) == handed[d] # {} /\ d \notin briefings

LeasesUsedOnce ==
  /\ \A l \in briefings : handed[l] # {}
  /\ \A d \in LeaseId : deliveries[d].state # "none" => Used(d)
  /\ \A i \in Item : items[i].delivery # NoLease => Used(items[i].delivery)
  /\ \A i \in Item : items[i].state \in Unended => items[i].delivery = NoLease
  /\ \A a \in attempts : Used(a.delivery)

LeaseInv == TypeOK /\ LeasesUsedOnce

\* How one item moves.
LEMMA ItemStep ==
  ASSUME TypeOK, [Next]_vars, NEW i \in Item
  PROVE  \/ items'[i] = items[i]
         \/ items'[i].delivery = NoLease /\ items'[i].state \in Unended
         \/ /\ items[i].state \in Unended /\ items'[i].state \in Unended
            /\ items'[i].delivery = items[i].delivery
         \/ \E l \in LeaseId : /\ PrepareDelivery(l)
                               /\ items'[i].delivery = l /\ items'[i].state = "delivering"
         \/ items'[i] = MarkItemTerminal(items[i], "expired")
         \/ items[i].state \in Unended /\ items'[i] = MarkItemTerminal(items[i], "acked")
         \/ \E a \in attempts : /\ CompleteSuccess(a)
                                /\ deliveries'[a.delivery].state = "delivered"
                                /\ i \in deliveries[a.delivery].items /\ Fenced(a.delivery)
                                /\ items'[i] = MarkItemTerminal(items[i], "acked")
<1>1. ASSUME NEW j \in Item, Enqueue(j)
      PROVE  items'[i] = items[i] \/ (items'[i].delivery = NoLease /\ items'[i].state \in Unended)
  BY <1>1 DEF Enqueue, TypeOK, NoItem, Unended
<1>2. ASSUME NEW l \in LeaseId, Lease(l) \/ LeaseTopics(l)
      PROVE  \/ items'[i] = items[i]
             \/ /\ items[i].state \in Unended /\ items'[i].state \in Unended
                /\ items'[i].delivery = items[i].delivery
             \/ items'[i] = MarkItemTerminal(items[i], "expired")
  <2>1. PICK taken \in SUBSET Item, expired \in SUBSET Item :
           /\ \A j \in taken : Waiting(j)
           /\ GrantLease(l, taken, expired)
    BY <1>2, LeaseTakes
  <2>2. CASE i \in taken
    <3>1. items[i].state \in Unended
      BY <2>1, <2>2 DEF Waiting, LeaseLapsed, Unended
    <3>2. items'[i] = [items[i] EXCEPT !.state = "leased", !.lease = l,
                                       !.leaseUntil = now + LeaseTTL]
      BY <2>1, <2>2 DEF GrantLease
    <3> QED
      BY <3>1, <3>2 DEF TypeOK, ItemRecord, Unended
  <2>3. CASE i \notin taken
    BY <2>1, <2>3 DEF GrantLease
  <2> QED
    BY <2>2, <2>3
<1>3. ASSUME NEW l \in LeaseId, Ack(l)
      PROVE  \/ items'[i] = items[i]
             \/ items'[i] = MarkItemTerminal(items[i], "expired")
             \/ items[i].state \in Unended /\ items'[i] = MarkItemTerminal(items[i], "acked")
  BY <1>3 DEF Ack, Holds, Unended
<1>4. ASSUME NEW l \in LeaseId, PrepareRejected(l)
      PROVE  items'[i] = items[i] \/ items'[i] = MarkItemTerminal(items[i], "expired")
  BY <1>4 DEF PrepareRejected
<1>5. ASSUME NEW l \in LeaseId, PrepareDelivery(l)
      PROVE  \/ items'[i] = items[i]
             \/ items'[i] = MarkItemTerminal(items[i], "expired")
             \/ items'[i].delivery = l /\ items'[i].state = "delivering"
  <2>1. CASE i \in Holds(l)
    <3>1. items'[i] = [items[i] EXCEPT !.state = "delivering", !.delivery = l, !.leaseUntil = 0]
      BY <1>5, <2>1 DEF PrepareDelivery
    <3> QED
      BY <3>1 DEF TypeOK, ItemRecord
  <2>2. CASE i \notin Holds(l)
    BY <1>5, <2>2 DEF PrepareDelivery
  <2> QED
    BY <2>1, <2>2
<1>6. ASSUME NEW l \in LeaseId, RetryDelivery(l) PROVE items'[i] = items[i]
  BY <1>6 DEF RetryDelivery
<1>7. CASE ClaimDueAttempts
  BY <1>7 DEF ClaimDueAttempts
<1>8. CASE ExpireDue
  <2>1. CASE TTLExpired(i) \/ i \in ItemsOf(Doomed) \/ ~(~indexed /\ LeaseLapsed(i))
    BY <1>8, <2>1 DEF ExpireDue
  <2>2. CASE ~(TTLExpired(i) \/ i \in ItemsOf(Doomed)) /\ ~indexed /\ LeaseLapsed(i)
    <3>1. /\ items'[i] = [items[i] EXCEPT !.state = "pending", !.lease = NoLease, !.leaseUntil = 0]
          /\ items[i].state \in Unended
      BY <1>8, <2>2 DEF ExpireDue, LeaseLapsed, Unended
    <3> QED
      BY <3>1 DEF TypeOK, ItemRecord, Unended
  <2> QED
    BY <2>1, <2>2
<1>9. ASSUME NEW a \in attempts, CompleteSuccess(a)
      PROVE  \/ items'[i] = items[i]
             \/ /\ deliveries'[a.delivery].state = "delivered"
                /\ i \in deliveries[a.delivery].items /\ Fenced(a.delivery)
                /\ items'[i] = MarkItemTerminal(items[i], "acked")
  <2>1. \/ items'[i] = items[i]
        \/ i \in deliveries[a.delivery].items /\ Fenced(a.delivery)
    BY <1>9 DEF CompleteSuccess
  <2> QED
    BY <1>9, <2>1, SuccessEffect
<1>10. ASSUME NEW a \in attempts, CompleteFailure(a)
       PROVE  items'[i] = items[i] \/ items'[i] = MarkItemTerminal(items[i], "expired")
  BY <1>10 DEF CompleteFailure
<1>11. CASE Purge
  BY <1>11 DEF Purge, NoItem, Unended
<1>12. CASE UNCHANGED items
  BY <1>12
<1>13. CASE \/ \E a \in attempts : Send(a) \/ CompleteRejected(a)
            \/ Restart \/ Tick \/ UNCHANGED vars
  BY <1>12, <1>13 DEF Send, CompleteRejected, store, Restart, Tick, vars
<1> QED
  BY <1>1, <1>2, <1>3, <1>4, <1>5, <1>6, <1>7, <1>8, <1>9, <1>10, <1>11, <1>13 DEF Next

\* A used lease stays used.
LEMMA UsedIsStable ==
  ASSUME TypeOK, [Next]_vars
  PROVE  \A d \in LeaseId : Used(d) => Used(d)'
<1>1. ASSUME UNCHANGED <<handed, briefings>> PROVE \A d \in LeaseId : Used(d) => Used(d)'
  BY <1>1 DEF Used
<1>2. ASSUME NEW l \in LeaseId, Lease(l) \/ LeaseTopics(l)
      PROVE  \A d \in LeaseId : Used(d) => Used(d)'
  <2>1. PICK taken \in SUBSET Item, expired \in SUBSET Item :
           Fresh(l) /\ GrantLease(l, taken, expired)
    BY <1>2, LeaseTakes
  <2> QED
    BY <2>1 DEF Fresh, GrantLease, Used, TypeOK
<1>3. ASSUME UNCHANGED handed, briefings' \subseteq briefings
      PROVE  \A d \in LeaseId : Used(d) => Used(d)'
  BY <1>3 DEF Used
<1>4. ASSUME NEW l \in LeaseId, Ack(l) \/ PrepareDelivery(l) \/ PrepareRejected(l)
      PROVE  \A d \in LeaseId : Used(d) => Used(d)'
  BY <1>3, <1>4 DEF Ack, PrepareDelivery, PrepareRejected
<1>5. CASE Restart
  BY <1>3, <1>5 DEF Restart
<1>6. ASSUME NEW i \in Item, Enqueue(i) PROVE \A d \in LeaseId : Used(d) => Used(d)'
  BY <1>1, <1>6 DEF Enqueue
<1>7. ASSUME NEW d \in LeaseId, RetryDelivery(d) PROVE \A e \in LeaseId : Used(e) => Used(e)'
  BY <1>1, <1>7 DEF RetryDelivery
<1>8. ASSUME NEW a \in attempts,
             Send(a) \/ CompleteRejected(a) \/ CompleteSuccess(a) \/ CompleteFailure(a)
      PROVE  \A e \in LeaseId : Used(e) => Used(e)'
  BY <1>1, <1>8 DEF Send, CompleteRejected, CompleteSuccess, CompleteFailure, Finished
<1>9. CASE ClaimDueAttempts \/ ExpireDue \/ Purge \/ Tick \/ UNCHANGED vars
  BY <1>1, <1>9 DEF ClaimDueAttempts, ExpireDue, Purge, Tick, vars
<1> QED
  BY <1>2, <1>4, <1>5, <1>6, <1>7, <1>8, <1>9 DEF Next

\* Attempts are only added by ClaimDueAttempts, for due sinks.
NewAttempt(a) ==
  /\ ClaimDueAttempts
  /\ \E c \in Claimable :
       a = [delivery |-> c[1], sink |-> c[2],
            token |-> deliveries[c[1]].sinks[c[2]].attempts + 1,
            until |-> now + ClaimTTL, sent |-> FALSE]

LEMMA AttemptStep ==
  ASSUME TypeOK, [Next]_vars, NEW a \in attempts'
  PROVE  \/ a \in attempts
         \/ \E b \in attempts : Send(b) /\ a = [b EXCEPT !.sent = TRUE]
         \/ NewAttempt(a)
<1>1. ASSUME attempts' \subseteq attempts PROVE a \in attempts
  BY <1>1
<1>2. ASSUME NEW i \in Item, Enqueue(i) PROVE a \in attempts
  BY <1>2 DEF Enqueue
<1>3. ASSUME NEW l \in LeaseId, Lease(l) \/ LeaseTopics(l) \/ Ack(l) \/ PrepareDelivery(l)
               \/ PrepareRejected(l) \/ RetryDelivery(l)
      PROVE  a \in attempts
  BY <1>3, LeaseTakes DEF GrantLease, Ack, PrepareDelivery, PrepareRejected, RetryDelivery
<1>4. CASE ClaimDueAttempts
  <2> DEFINE new(c) == [delivery |-> c[1], sink |-> c[2],
                        token |-> deliveries[c[1]].sinks[c[2]].attempts + 1,
                        until |-> now + ClaimTTL, sent |-> FALSE]
  <2>1. PICK batch \in SUBSET Claimable : attempts' = attempts \cup {new(c) : c \in batch}
    BY <1>4 DEF ClaimDueAttempts
  <2>2. a \in attempts \/ \E c \in Claimable : a = new(c)
    <3> HIDE DEF new
    <3> QED
      BY <2>1
  <2> QED
    BY <1>4, <2>2 DEF NewAttempt
<1>5. ASSUME NEW b \in attempts, Send(b)
      PROVE  a \in attempts \/ a = [b EXCEPT !.sent = TRUE]
  BY <1>5 DEF Send
<1>6. ASSUME NEW b \in attempts, CompleteRejected(b) \/ CompleteSuccess(b) \/ CompleteFailure(b)
      PROVE  a \in attempts
  BY <1>6 DEF CompleteRejected, CompleteSuccess, CompleteFailure, Finished
<1>7. CASE ExpireDue \/ Purge \/ Restart \/ Tick \/ UNCHANGED vars
  BY <1>7 DEF ExpireDue, Purge, Restart, Tick, vars
<1> QED
  BY <1>2, <1>3, <1>4, <1>5, <1>6, <1>7 DEF Next

LEMMA SentFields ==
  ASSUME NEW b \in Attempt
  PROVE  LET a == [b EXCEPT !.sent = TRUE]
         IN  /\ a.delivery = b.delivery /\ a.sink = b.sink /\ a.token = b.token
             /\ a.until = b.until /\ a.sent
  BY DEF Attempt

\* The attempts of a step are the old ones, up to sent, or of due sinks.
LEMMA NewAttempts ==
  ASSUME TypeOK, [Next]_vars, NEW a \in attempts'
  PROVE  \/ \E b \in attempts : SameAttempt(a, b)
         \/ /\ deliveries[a.delivery].state = "pending"
            /\ Due(a.delivery, a.sink)
<1>1. ASSUME a \in attempts PROVE \E b \in attempts : SameAttempt(a, b)
  BY <1>1 DEF SameAttempt
<1>2. ASSUME NEW b \in attempts, a = [b EXCEPT !.sent = TRUE]
      PROVE  \E e \in attempts : SameAttempt(a, e)
  BY <1>2, SentFields, AttemptOf DEF SameAttempt
<1>3. CASE NewAttempt(a)
  <2>1. PICK c \in Claimable : a.delivery = c[1] /\ a.sink = c[2]
    BY <1>3 DEF NewAttempt
  <2>2. Due(a.delivery, a.sink)
    BY <2>1, ClaimableHasAttempt
  <2> QED
    BY <2>2 DEF Due, Idle
<1> QED
  BY <1>1, <1>2, <1>3, AttemptStep

\* A briefing's lease is used up by PrepareDelivery.
LEMMA PreparedIsUsed ==
  ASSUME LeaseInv, NEW l \in LeaseId, PrepareDelivery(l)
  PROVE  Used(l)' /\ ~Used(l)
  BY DEF LeaseInv, LeasesUsedOnce, PrepareDelivery, Used

LEMMA StepLease ==
  ASSUME LeaseInv, [Next]_vars
  PROVE  LeaseInv'
<1>1. TypeOK'
  BY StepType DEF LeaseInv
<1>2. \A l \in briefings' : handed'[l] # {}
  <2>1. \A d \in LeaseId : Used(d) => Used(d)'
    BY UsedIsStable DEF LeaseInv
  <2>2. ASSUME NEW l \in LeaseId, Lease(l) \/ LeaseTopics(l)
        PROVE  \A k \in briefings' : handed'[k] # {}
    <3>1. PICK taken \in SUBSET Item, expired \in SUBSET Item :
             Fresh(l) /\ GrantLease(l, taken, expired)
      BY <2>2, LeaseTakes
    <3> QED
      BY <3>1 DEF Fresh, GrantLease, LeaseInv, LeasesUsedOnce, TypeOK
  <2>3. ASSUME UNCHANGED handed, briefings' \subseteq briefings
        PROVE  \A k \in briefings' : handed'[k] # {}
    BY <2>3 DEF LeaseInv, LeasesUsedOnce
  <2>4. ASSUME NEW l \in LeaseId,
               Ack(l) \/ PrepareDelivery(l) \/ PrepareRejected(l) \/ RetryDelivery(l)
        PROVE  \A k \in briefings' : handed'[k] # {}
    BY <2>3, <2>4 DEF Ack, PrepareDelivery, PrepareRejected, RetryDelivery
  <2>5. ASSUME NEW i \in Item, Enqueue(i) PROVE \A k \in briefings' : handed'[k] # {}
    BY <2>3, <2>5 DEF Enqueue
  <2>6. ASSUME NEW a \in attempts,
               Send(a) \/ CompleteRejected(a) \/ CompleteSuccess(a) \/ CompleteFailure(a)
        PROVE  \A k \in briefings' : handed'[k] # {}
    BY <2>3, <2>6 DEF Send, CompleteRejected, CompleteSuccess, CompleteFailure, Finished
  <2>7. CASE ClaimDueAttempts \/ ExpireDue \/ Purge \/ Restart \/ Tick \/ UNCHANGED vars
    BY <2>3, <2>7 DEF ClaimDueAttempts, ExpireDue, Purge, Restart, Tick, vars
  <2> QED
    BY <2>2, <2>4, <2>5, <2>6, <2>7 DEF Next
<1>3. ASSUME NEW d \in LeaseId, deliveries'[d].state # "none"
      PROVE  Used(d)'
  <2>1. CASE deliveries[d].state # "none"
    BY <2>1, UsedIsStable DEF LeaseInv, LeasesUsedOnce
  <2>2. CASE deliveries[d].state = "none"
    <3>1. PrepareDelivery(d)
      <4>1. deliveries'[d] # deliveries[d]
        BY <1>3, <2>2
      <4>2. ~ClaimStep(d) /\ ~RetryDelivery(d) /\ ~PurgeStep(d)
        BY <1>3, <2>2, RetryFields, NoDeliveryFields DEF ClaimStep, PurgeStep, LeaseInv
      <4>3. ~ExpireStep(d)
        BY <2>2, DoomedPending DEF ExpireStep
      <4>4. \A a \in attempts : a.delivery = d => ~CompleteSuccess(a) /\ ~CompleteFailure(a)
        BY <2>2 DEF CompleteSuccess, CompleteFailure, Current
      <4> QED
        BY <4>1, <4>2, <4>3, <4>4, DeliveryStep DEF LeaseInv
    <3> QED
      BY <3>1, PreparedIsUsed
  <2> QED
    BY <2>1, <2>2
<1>4. ASSUME NEW i \in Item, items'[i].state \in Unended
      PROVE  items'[i].delivery = NoLease
  <2>1. items[i].state \in Unended => items[i].delivery = NoLease
    BY DEF LeaseInv, LeasesUsedOnce
  <2>2. \A st \in {"acked", "expired"} : MarkItemTerminal(items[i], st).state \notin Unended
    BY ItemEnd DEF LeaseInv, Unended
  <2>3. "delivering" \notin Unended
    BY DEF Unended
  <2> QED
    BY <1>4, <2>1, <2>2, <2>3, ItemStep DEF LeaseInv
<1>5. ASSUME NEW i \in Item, NEW d \in LeaseId, items'[i].delivery = d
      PROVE  Used(d)'
  <2>1. CASE items[i].delivery = d
    <3>1. Used(d)
      BY <2>1, DigestConstants DEF LeaseInv, LeasesUsedOnce
    <3> QED
      BY <3>1, UsedIsStable DEF LeaseInv
  <2>2. CASE items[i].delivery # d
    <3>1. \A st : MarkItemTerminal(items[i], st).delivery = items[i].delivery
      BY ItemEnd DEF LeaseInv
    <3>2. d # NoLease
      BY DigestConstants
    <3>3. PrepareDelivery(d)
      BY <1>5, <2>2, <3>1, <3>2, ItemStep DEF LeaseInv
    <3> QED
      BY <3>3, PreparedIsUsed
  <2> QED
    BY <2>1, <2>2
<1>6. \A i \in Item : items'[i].delivery \in LeaseId \cup {NoLease}
  BY <1>1 DEF TypeOK, ItemRecord
<1>7. ASSUME NEW a \in attempts'
      PROVE  Used(a.delivery)'
  <2>1. (\E b \in attempts : SameAttempt(a, b)) \/ deliveries[a.delivery].state = "pending"
    BY NewAttempts DEF LeaseInv
  <2>2. a.delivery \in LeaseId
    BY <1>1 DEF TypeOK, Attempt
  <2>3. Used(a.delivery)
    BY <2>1, <2>2 DEF SameAttempt, LeaseInv, LeasesUsedOnce
  <2> QED
    BY <2>2, <2>3, UsedIsStable DEF LeaseInv
<1> QED
  BY <1>1, <1>2, <1>3, <1>4, <1>5, <1>6, <1>7 DEF LeaseInv, LeasesUsedOnce

LEMMA LeaseInvariant == Spec => []LeaseInv
<1>1. Init => LeaseInv
  BY InitType, NoDeliveryFields DEF Init, LeaseInv, LeasesUsedOnce, NoItem
<1>2. LeaseInv /\ [Next]_vars => LeaseInv'
  BY StepLease
<1> QED
  BY <1>1, <1>2, PTL DEF Spec

=============================================================================
