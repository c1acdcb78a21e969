---------------------------- MODULE DigestStore ----------------------------
(***************************************************************************)
(* The durable digest queue: internal/store/digest.go with LeaseTopics of  *)
(* internal/store/digest_routing.go.  News items wait in a bbolt bucket    *)
(* until a scheduled briefing leases them, the rendered briefing is turned *)
(* into a delivery with one checkpoint per required sink, and workers      *)
(* claim, send and complete the attempts of each sink.                     *)
(*                                                                         *)
(* Every operation is one bbolt read-write transaction, so it is one       *)
(* action; a transaction that returns an error rolls back and is no step.  *)
(* Everything the clients hold between two operations (the leases of       *)
(* briefings being rendered, the attempts being sent) is explicit, and     *)
(* lost by Restart.                                                        *)
(*                                                                         *)
(* Abstractions: one briefing bucket; lease ids are never reused tokens;   *)
(* the attempt token of a sink is the number of the attempt, which is as   *)
(* unique as the random one since attempts only grow; time is a counter;   *)
(* messages, hashes, health counters and outcome logs are left out.        *)
(***************************************************************************)
EXTENDS Integers, FiniteSets

CONSTANTS
  Item,          \* ids of digest items (hash of source and message id)
  LeaseId,       \* lease tokens; a delivery has the id of its lease
  Sink,          \* channel names
  SinkSets,      \* the channel sets a briefing may be configured with
  NoLease,       \* the empty lease or delivery id
  Topic,         \* topic group keys
  TopicOf,       \* the lease topic key of an item
  Priority,      \* the priority of an item
  AgeStep,       \* digestAgeStep: waiting this long is worth one priority
  ItemTTL,       \* digestDefaultTTL
  LeaseTTL,      \* ttl a briefing passes to LeaseTopics
  DeliveryTTL,   \* deadline of a delivery, from the router
  ClaimTTL,      \* ttl a worker passes to ClaimDueAttempts
  Backoffs,      \* the delays digestBackoff can produce
  MaxAttempts,   \* digestMaxAttempts
  Retention,     \* age at which terminal records are purged
  LeaseLimit,    \* most topics (or items) of one lease
  ClaimLimit,    \* batch size of ClaimDueAttempts
  IndexModes,    \* whether the derived indexes are usable after a start
  Legacy,        \* whether v1 clients (Lease, Ack) are present
  EnqueueUntil,  \* bound: no item is enqueued after this time
  MaxTime        \* bound of the clock

ASSUME DigestConstants ==
  /\ SinkSets \subseteq (SUBSET Sink) \ {{}}
  /\ NoLease \notin LeaseId
  /\ TopicOf \in [Item -> Topic]
  /\ Priority \in [Item -> Int]
  /\ {ItemTTL, LeaseTTL, DeliveryTTL, ClaimTTL, MaxAttempts, AgeStep,
      LeaseLimit, ClaimLimit} \subseteq Nat \ {0}
  /\ Backoffs \subseteq Nat \ {0}
  /\ Retention \in Nat
  /\ IndexModes \in (SUBSET BOOLEAN) \ {{}}
  /\ Legacy \in BOOLEAN
  /\ EnqueueUntil \in Nat
  /\ MaxTime \in Nat

VARIABLES
  items,       \* the item bucket
  deliveries,  \* the delivery bucket, by delivery id (= lease id)
  handed,      \* the items each issued lease handed to its briefing
  briefings,   \* leases whose rendered briefing is on its way to the router
  attempts,    \* attempts handed to workers and not yet completed
  received,    \* <<delivery, sink>> pairs whose message reached the channel
  indexed,     \* whether the operations use the derived indexes
  now          \* wall clock; 0 is the zero time, the clock starts at 1

store == <<items, deliveries>>
vars == <<items, deliveries, handed, briefings, attempts, received, indexed, now>>

-----------------------------------------------------------------------------
(* The records of the two buckets.                                         *)

ItemStates == {"absent", "pending", "leased", "delivering", "acked", "expired"}
DeliveryStates == {"none", "pending", "delivered", "expired"}
Reasons == {"", "delivered", "deadline", "max_attempts"}

ItemRecord ==
  [state: ItemStates, lease: LeaseId \cup {NoLease}, leaseUntil: Nat,
   delivery: LeaseId \cup {NoLease}, createdAt: Nat, terminalAt: Nat]

Checkpoint ==
  [delivered: BOOLEAN, attempts: 0..MaxAttempts, token: 0..MaxAttempts,
   claimedUntil: Nat, nextAttemptAt: Nat, failed: BOOLEAN]

DeliveryRecord ==
  [state: DeliveryStates, items: SUBSET Item, required: SUBSET Sink,
   sinks: [Sink -> Checkpoint], deadline: Nat, terminalAt: Nat, reason: Reasons]

Attempt ==
  [delivery: LeaseId, sink: Sink, token: 1..MaxAttempts, until: Nat, sent: BOOLEAN]

NoItem ==
  [state |-> "absent", lease |-> NoLease, leaseUntil |-> 0,
   delivery |-> NoLease, createdAt |-> 0, terminalAt |-> 0]

NewCheckpoint(t) ==
  [delivered |-> FALSE, attempts |-> 0, token |-> 0,
   claimedUntil |-> 0, nextAttemptAt |-> t, failed |-> FALSE]

NoDelivery ==
  [state |-> "none", items |-> {}, required |-> {},
   sinks |-> [s \in Sink |-> NewCheckpoint(0)],
   deadline |-> 0, terminalAt |-> 0, reason |-> ""]

TypeOK ==
  /\ items \in [Item -> ItemRecord]
  /\ deliveries \in [LeaseId -> DeliveryRecord]
  /\ handed \in [LeaseId -> SUBSET Item]
  /\ briefings \subseteq LeaseId
  /\ attempts \subseteq Attempt
  /\ received \subseteq LeaseId \X Sink
  /\ indexed \in BOOLEAN
  /\ now \in Nat

Init ==
  /\ items = [i \in Item |-> NoItem]
  /\ deliveries = [d \in LeaseId |-> NoDelivery]
  /\ handed = [l \in LeaseId |-> {}]
  /\ briefings = {}
  /\ attempts = {}
  /\ received = {}
  /\ indexed \in IndexModes
  /\ now = 1

-----------------------------------------------------------------------------
(* Items.                                                                  *)

\* Variant: the TTL also applies to items a delivery owns.
TTLExpiredAnywhere(i) ==
  /\ items[i].state \in {"pending", "leased", "delivering"}
  /\ items[i].createdAt + ItemTTL <= now

\* terminalizeExpiredItem: only items no delivery owns can outlive their TTL.
TTLExpired(i) ==
  /\ items[i].state \in {"pending", "leased"}
  /\ items[i].createdAt + ItemTTL <= now

LeaseLapsed(i) == items[i].state = "leased" /\ items[i].leaseUntil <= now

Waiting(i) == items[i].state = "pending" \/ LeaseLapsed(i)

\* The items leased under l, lapsed or not.
Holds(l) == {i \in Item : items[i].state = "leased" /\ items[i].lease = l}

MarkItemTerminal(item, state) ==
  [item EXCEPT !.state = state, !.terminalAt = now, !.lease = NoLease, !.leaseUntil = 0]

Enqueue(i) ==
  /\ now <= EnqueueUntil
  /\ items[i].state = "absent"
  /\ items' = [items EXCEPT ![i] = [NoItem EXCEPT !.state = "pending", !.createdAt = now]]
  /\ UNCHANGED <<deliveries, handed, briefings, attempts, received, indexed, now>>

-----------------------------------------------------------------------------
(* Leasing.  The candidates are ranked by priority plus age, then by age;  *)
(* the last tie break, the hash that is the id, is arbitrary.              *)

Score(i) == Priority[i] + (now - items[i].createdAt) \div AgeStep

TopScore(S) == CHOOSE m \in {Score(i) : i \in S} : \A i \in S : Score(i) <= m

Oldest(S) == CHOOSE t \in {items[i].createdAt : i \in S} : \A i \in S : t <= items[i].createdAt

\* The item set S goes strictly before the item set T.
Before(S, T) ==
  \/ TopScore(S) > TopScore(T)
  \/ TopScore(S) = TopScore(T) /\ Oldest(S) < Oldest(T)

\* chosen is what sort.Slice and the cut at the limit may leave of groups.
FirstGroups(groups, chosen) ==
  /\ Cardinality(chosen) <= LeaseLimit
  /\ chosen # groups => Cardinality(chosen) = LeaseLimit
  /\ \A T \in groups \ chosen, S \in chosen : ~Before(T, S)

\* The items taken become leased under l; the expirations found on the way
\* are written in the same transaction.  An empty lease hands out no token.
GrantLease(l, taken, expired) ==
  /\ items' = [i \in Item |->
       IF i \in taken
         THEN [items[i] EXCEPT !.state = "leased", !.lease = l, !.leaseUntil = now + LeaseTTL]
       ELSE IF i \in expired THEN MarkItemTerminal(items[i], "expired")
       ELSE items[i]]
  /\ handed' = [handed EXCEPT ![l] = taken]
  /\ briefings' = IF taken = {} THEN briefings ELSE briefings \cup {l}
  /\ UNCHANGED <<deliveries, attempts, received, indexed, now>>

\* A token nobody was given: newDigestToken.
Fresh(l) == handed[l] = {}

\* With the indexes only pending items and lapsed leases are visited.
Lease(l) ==
  LET visited == IF indexed THEN {i \in Item : Waiting(i)} ELSE Item
      expired == {i \in visited : TTLExpired(i)}
      candidates == {{i} : i \in {j \in Item : Waiting(j)} \ expired}
  IN /\ Legacy
     /\ Fresh(l)
     /\ \E chosen \in SUBSET candidates :
          /\ FirstGroups(candidates, chosen)
          /\ GrantLease(l, UNION chosen, expired)

\* Variant: a topic whose members are being delivered counts as free.
InFlightLeases(i) == items[i].state = "leased" /\ ~LeaseLapsed(i)

\* A topic with a member in a live lease or in a delivery is left alone.
InFlight(i) ==
  \/ items[i].state = "delivering"
  \/ items[i].state = "leased" /\ ~LeaseLapsed(i)

\* Topics are always read by a full scan.
LeaseTopics(l) ==
  LET expired == {i \in Item : TTLExpired(i)}
      members(t) == {i \in Item : TopicOf[i] = t /\ Waiting(i)} \ expired
      active(t) == \E i \in Item \ expired : TopicOf[i] = t /\ InFlight(i)
      groups == {members(t) : t \in {u \in Topic : members(u) # {} /\ ~active(u)}}
  IN /\ Fresh(l)
     /\ \E chosen \in SUBSET groups :
          /\ FirstGroups(groups, chosen)
          /\ GrantLease(l, UNION chosen, expired)

\* The v1 acknowledgement: no delivery, and a lapsed lease is still honoured
\* as long as no other lease took the items.
Ack(l) ==
  LET expired == {i \in Item : TTLExpired(i)}
  IN /\ Legacy
     /\ l \in briefings
     /\ items' = [i \in Item |->
          IF i \in expired THEN MarkItemTerminal(items[i], "expired")
          ELSE IF i \in Holds(l) THEN MarkItemTerminal(items[i], "acked")
          ELSE items[i]]
     /\ briefings' = briefings \ {l}
     /\ UNCHANGED <<deliveries, handed, attempts, received, indexed, now>>

-----------------------------------------------------------------------------
(* From a lease to a delivery.  With the indexes only the items of the     *)
(* lease are visited, without them every item.                             *)

Visited(l) == IF indexed THEN Holds(l) ELSE Item
ExpiredOnPrepare(l) == {i \in Visited(l) : TTLExpired(i)}
LeaseInvalid(l) == \E i \in Holds(l) : TTLExpired(i) \/ LeaseLapsed(i)

PrepareDelivery(l) ==
  /\ l \in briefings
  /\ deliveries[l].state = "none"
  /\ Holds(l) # {}
  /\ ~LeaseInvalid(l)
  /\ \E required \in SinkSets :
       deliveries' = [deliveries EXCEPT ![l] =
         [NoDelivery EXCEPT !.state = "pending", !.items = Holds(l), !.required = required,
            !.sinks = [s \in Sink |-> NewCheckpoint(IF s \in required THEN now ELSE 0)],
            !.deadline = now + DeliveryTTL]]
  /\ items' = [i \in Item |->
       IF i \in Holds(l)
         THEN [items[i] EXCEPT !.state = "delivering", !.delivery = l, !.leaseUntil = 0]
       ELSE IF i \in ExpiredOnPrepare(l) THEN MarkItemTerminal(items[i], "expired")
       ELSE items[i]]
  /\ briefings' = briefings \ {l}
  /\ UNCHANGED <<handed, attempts, received, indexed, now>>

\* The lease is stale: the expirations are kept, the briefing gets an error
\* and is dropped by the engine.  When nothing is left under the lease the
\* transaction rolls back.
PrepareRejected(l) ==
  /\ l \in briefings
  /\ deliveries[l].state = "none"
  /\ Holds(l) = {} \/ LeaseInvalid(l)
  /\ items' = [i \in Item |->
       IF Holds(l) # {} /\ i \in ExpiredOnPrepare(l)
         THEN MarkItemTerminal(items[i], "expired") ELSE items[i]]
  /\ briefings' = briefings \ {l}
  /\ UNCHANGED <<deliveries, handed, attempts, received, indexed, now>>

-----------------------------------------------------------------------------
(* Deliveries.                                                             *)

Overdue(d) == deliveries[d].state = "pending" /\ deliveries[d].deadline <= now

\* Undelivered and not under a live claim.
Idle(d, s) ==
  /\ deliveries[d].state = "pending"
  /\ s \in deliveries[d].required
  /\ ~deliveries[d].sinks[s].delivered
  /\ deliveries[d].sinks[s].claimedUntil <= now

Due(d, s) == Idle(d, s) /\ deliveries[d].sinks[s].nextAttemptAt <= now

\* Mutant: the attempt limit is off by one.
ExhaustedEarly(d, s) == Idle(d, s) /\ deliveries[d].sinks[s].attempts >= MaxAttempts - 1

\* The sink used up its attempts.  With the indexes only due sinks are seen.
Exhausted(d, s) ==
  /\ Idle(d, s)
  /\ deliveries[d].sinks[s].attempts >= MaxAttempts
  /\ indexed => Due(d, s)

\* Variant: the deadline is left to a failing attempt to notice.
DoomedByAttempts == {d \in LeaseId : \E s \in Sink : Exhausted(d, s)}

Doomed == {d \in LeaseId : Overdue(d) \/ \E s \in Sink : Exhausted(d, s)}

DoomReason(d) == IF Overdue(d) THEN "deadline" ELSE "max_attempts"

\* updateDeliveryItems: each item must still be fenced to the delivery, or
\* the whole transaction fails.
Fenced(d) == \A i \in deliveries[d].items :
  items[i].state = "delivering" /\ items[i].delivery = d

Terminal(delivery, state, reason) ==
  [delivery EXCEPT !.state = state, !.terminalAt = now, !.reason = reason]

\* Variant: an expiry does not reach the items.
ItemsUntouched(D) == {}

ItemsOf(D) == UNION {deliveries[d].items : d \in D}

-----------------------------------------------------------------------------
(* Attempts.                                                               *)

\* The scan skips a delivery it is about to expire; the index walk visits
\* each due sink on its own and only skips the exhausted sink itself.
Claimable ==
  {c \in LeaseId \X Sink :
     /\ Due(c[1], c[2])
     /\ ~Overdue(c[1])
     /\ IF indexed THEN ~Exhausted(c[1], c[2]) ELSE c[1] \notin Doomed}

\* A full batch, earliest due first; later tie breaks are arbitrary.
FirstDue(candidates, batch) ==
  LET due(c) == deliveries[c[1]].sinks[c[2]].nextAttemptAt
  IN /\ Cardinality(batch) <= ClaimLimit
     /\ batch # candidates => Cardinality(batch) = ClaimLimit
     /\ \A c \in batch, e \in candidates \ batch : due(c) <= due(e)

\* One more attempt, which holds the sink until the claim lapses.
ClaimSink(c) ==
  [c EXCEPT !.attempts = @ + 1, !.token = c.attempts + 1, !.claimedUntil = now + ClaimTTL]

Claimed(d, batch) ==
  [deliveries[d] EXCEPT !.sinks = [s \in Sink |->
     IF <<d, s>> \in batch THEN ClaimSink(deliveries[d].sinks[s]) ELSE deliveries[d].sinks[s]]]

\* Expirations are written first, then the claimed deliveries, which are
\* copies read before: a delivery in both ends up as the claimed copy.
ClaimDueAttempts ==
  \E batch \in SUBSET Claimable :
    /\ FirstDue(Claimable, batch)
    /\ \A d \in Doomed : Fenced(d)
    /\ deliveries' = [d \in LeaseId |->
         IF \E s \in Sink : <<d, s>> \in batch THEN Claimed(d, batch)
         ELSE IF d \in Doomed THEN Terminal(deliveries[d], "expired", DoomReason(d))
         ELSE deliveries[d]]
    /\ items' = [i \in Item |->
         IF i \in ItemsOf(Doomed) THEN MarkItemTerminal(items[i], "expired") ELSE items[i]]
    /\ attempts' = attempts \cup
         {[delivery |-> c[1], sink |-> c[2], token |-> deliveries[c[1]].sinks[c[2]].attempts + 1,
           until |-> now + ClaimTTL, sent |-> FALSE] : c \in batch}
    /\ UNCHANGED <<handed, briefings, received, indexed, now>>

\* The channel takes the message; the worker need not learn of it.
Send(a) ==
  /\ ~a.sent
  /\ attempts' = (attempts \ {a}) \cup {[a EXCEPT !.sent = TRUE]}
  /\ received' = received \cup {<<a.delivery, a.sink>>}
  /\ UNCHANGED <<items, deliveries, handed, briefings, indexed, now>>

Current(a) ==
  /\ deliveries[a.delivery].state = "pending"
  /\ deliveries[a.delivery].sinks[a.sink].token = a.token

Finished(a) ==
  /\ attempts' = attempts \ {a}
  /\ UNCHANGED <<handed, briefings, received, indexed, now>>

\* "delivery is terminal", "stale attempt token", or the commit itself
\* failed: the worker only reports the error.
CompleteRejected(a) ==
  /\ Finished(a)
  /\ UNCHANGED store

\* Variant: one delivered sink completes the digest.
AnySinkDelivered(delivery) == \E s \in delivery.required : delivery.sinks[s].delivered

AllSinksDelivered(delivery) == \A s \in delivery.required : delivery.sinks[s].delivered

\* What an outcome leaves in the checkpoint of the sink.
ConfirmSink(c) ==
  [c EXCEPT !.token = 0, !.claimedUntil = 0, !.delivered = TRUE,
            !.failed = FALSE, !.nextAttemptAt = 0]

FailSink(c) == [c EXCEPT !.token = 0, !.claimedUntil = 0, !.failed = TRUE]

CompleteSuccess(a) ==
  LET d == a.delivery
      done == [deliveries[d] EXCEPT !.sinks[a.sink] = ConfirmSink(deliveries[d].sinks[a.sink])]
      complete == AllSinksDelivered(done)
  IN /\ a.sent
     /\ Current(a)
     /\ complete => Fenced(d)
     /\ deliveries' = [deliveries EXCEPT ![d] =
          IF complete THEN Terminal(done, "delivered", "delivered") ELSE done]
     /\ items' = [i \in Item |->
          IF complete /\ i \in deliveries[d].items
            THEN MarkItemTerminal(items[i], "acked") ELSE items[i]]
     /\ Finished(a)

\* A send error (or a timeout, after which the message may have arrived).
\* The deadline is checked first and leaves the checkpoint as it was.
CompleteFailure(a) ==
  LET d == a.delivery
      old == deliveries[d].sinks[a.sink]
      failed == FailSink(old)
      over == Overdue(d) \/ old.attempts >= MaxAttempts
  IN /\ Current(a)
     /\ over => Fenced(d)
     /\ \E delay \in Backoffs :
          deliveries' = [deliveries EXCEPT ![d] =
            IF Overdue(d) THEN Terminal(@, "expired", "deadline")
            ELSE IF over
              THEN Terminal([@ EXCEPT !.sinks[a.sink] = failed], "expired", "max_attempts")
            ELSE [@ EXCEPT !.sinks[a.sink] = [failed EXCEPT !.nextAttemptAt = now + delay]]]
     /\ items' = [i \in Item |->
          IF over /\ i \in deliveries[d].items
            THEN MarkItemTerminal(items[i], "expired") ELSE items[i]]
     /\ Finished(a)

\* Variant: the operator's retry takes over live claims.
RetryableClaimed(d, s) ==
  /\ deliveries[d].state = "pending"
  /\ s \in deliveries[d].required
  /\ ~deliveries[d].sinks[s].delivered
  /\ deliveries[d].sinks[s].token # 0 \/ deliveries[d].sinks[s].failed

\* An operator asks for an immediate retry: live claims are left alone,
\* lapsed claims and failed sinks become due, the rest was never attempted.
Retryable(d, s) ==
  /\ Idle(d, s)
  /\ deliveries[d].sinks[s].token # 0 \/ deliveries[d].sinks[s].failed

ReviveSink(c) == [c EXCEPT !.token = 0, !.claimedUntil = 0, !.nextAttemptAt = now]

RetryDelivery(d) ==
  /\ \E s \in Sink : Retryable(d, s)
  /\ deliveries' = [deliveries EXCEPT ![d].sinks = [s \in Sink |->
       IF Retryable(d, s) THEN ReviveSink(deliveries[d].sinks[s]) ELSE deliveries[d].sinks[s]]]
  /\ UNCHANGED <<items, handed, briefings, attempts, received, indexed, now>>

-----------------------------------------------------------------------------
(* Housekeeping.                                                           *)

\* With the indexes only items past their TTL are visited, so a lapsed lease
\* goes back to pending by the scan alone.
ExpireDue ==
  /\ \A d \in Doomed : Fenced(d)
  /\ items' = [i \in Item |->
       IF TTLExpired(i) \/ i \in ItemsOf(Doomed) THEN MarkItemTerminal(items[i], "expired")
       ELSE IF ~indexed /\ LeaseLapsed(i)
         THEN [items[i] EXCEPT !.state = "pending", !.lease = NoLease, !.leaseUntil = 0]
       ELSE items[i]]
  /\ deliveries' = [d \in LeaseId |->
       IF d \in Doomed THEN Terminal(deliveries[d], "expired", DoomReason(d)) ELSE deliveries[d]]
  /\ UNCHANGED <<handed, briefings, attempts, received, indexed, now>>

Old(terminalAt) == terminalAt + Retention <= now

Purge ==
  /\ items' = [i \in Item |->
       IF items[i].state \in {"acked", "expired"} /\ Old(items[i].terminalAt)
         THEN NoItem ELSE items[i]]
  /\ deliveries' = [d \in LeaseId |->
       IF deliveries[d].state \in {"delivered", "expired"} /\ Old(deliveries[d].terminalAt)
         THEN NoDelivery ELSE deliveries[d]]
  /\ UNCHANGED <<handed, briefings, attempts, received, indexed, now>>

\* A crash or a stop: the buckets survive, what clients hold does not.  The
\* indexes are rebuilt, or stay off when a record cannot be decoded.
Restart ==
  /\ attempts' = {}
  /\ briefings' = {}
  /\ indexed' \in IndexModes
  /\ UNCHANGED <<items, deliveries, handed, received, now>>

Tick ==
  /\ now < MaxTime
  /\ now' = now + 1
  /\ UNCHANGED <<items, deliveries, handed, briefings, attempts, received, indexed>>

Next ==
  \/ \E i \in Item : Enqueue(i)
  \/ \E l \in LeaseId : Lease(l) \/ LeaseTopics(l) \/ Ack(l)
                        \/ PrepareDelivery(l) \/ PrepareRejected(l) \/ RetryDelivery(l)
  \/ ClaimDueAttempts
  \/ \E a \in attempts : Send(a) \/ CompleteRejected(a)
                         \/ CompleteSuccess(a) \/ CompleteFailure(a)
  \/ ExpireDue
  \/ Purge
  \/ Restart
  \/ Tick

Spec == Init /\ [][Next]_vars

\* The clock runs and the worker's poll loop, whose every cycle starts with
\* ExpireDue, is never blocked for good.  Nothing else is assumed: sends,
\* completions, briefings and operators may all stop.
Fairness == WF_vars(Tick) /\ WF_vars(ExpireDue)
LiveSpec == Spec /\ Fairness

-----------------------------------------------------------------------------
(* Properties.                                                             *)

\* The fence updateDeliveryItems relies on: a pending delivery owns exactly
\* the delivering items that name it.  Were it broken, ExpireDue would roll
\* back on every cycle and no delivery of the store would move again.
DeliveryFence ==
  /\ \A d \in LeaseId : deliveries[d].state = "pending" => Fenced(d)
  /\ \A i \in Item : items[i].state = "delivering" =>
       /\ items[i].delivery \in LeaseId
       /\ deliveries[items[i].delivery].state = "pending"
       /\ i \in deliveries[items[i].delivery].items

\* CompleteAttempt acknowledges a digest only when every required channel
\* has taken the message; a v1 acknowledgement names no delivery.
AckedMeansReceived ==
  /\ \A d \in LeaseId, s \in Sink :
       deliveries[d].state # "none" /\ deliveries[d].sinks[s].delivered => <<d, s>> \in received
  /\ \A i \in Item : items[i].state = "acked" /\ items[i].delivery # NoLease =>
       LET d == items[i].delivery
       IN deliveries[d].state # "none" =>
            /\ deliveries[d].state = "delivered"
            /\ \A s \in deliveries[d].required : <<d, s>> \in received

\* While a claim lives, the worker that holds it is the only one allowed to
\* complete the sink: neither a second worker, nor an operator's retry, nor
\* the sink's own earlier attempt can take the token away.
LiveClaimIsExclusive ==
  \A a \in attempts : a.until > now =>
    /\ deliveries[a.delivery].state = "pending" =>
         /\ deliveries[a.delivery].sinks[a.sink].token = a.token
         /\ ~deliveries[a.delivery].sinks[a.sink].delivered
    /\ \A b \in attempts :
         b.until > now /\ b.delivery = a.delivery /\ b.sink = a.sink => a = b

\* No item is put into two digests, whatever leases lapse or are retaken.
DigestsDisjoint ==
  \A d, e \in LeaseId : d # e => deliveries[d].items \cap deliveries[e].items = {}

\* A delivery expires for the reason it records: its deadline had passed, or
\* a channel still undelivered had used up digestMaxAttempts.
ExpiryIsJustified ==
  \A d \in LeaseId : deliveries[d].state = "expired" =>
    \/ deliveries[d].reason = "deadline" /\ deliveries[d].terminalAt >= deliveries[d].deadline
    \/ /\ deliveries[d].reason = "max_attempts"
       /\ \E s \in deliveries[d].required :
            ~deliveries[d].sinks[s].delivered /\ deliveries[d].sinks[s].attempts = MaxAttempts

\* Live members of one topic travel together: LeaseTopics never splits a
\* topic between two briefings (clients of the item lease may).
Active(i) ==
  items[i].state = "delivering" \/ (items[i].state = "leased" /\ items[i].leaseUntil > now)

TopicNotSplit ==
  \A i, j \in Item :
    Active(i) /\ Active(j) /\ TopicOf[i] = TopicOf[j] => items[i].lease = items[j].lease

\* The digest that goes out was rendered from the items the lease handed to
\* the briefing, so the delivery should account for every one of them.  The
\* code does not keep this: ExpireDue may have taken a member away.
PrepareCoversLease ==
  \A d \in LeaseId : deliveries[d].state # "none" => deliveries[d].items = handed[d]

EndKept(i) ==
  items[i].state \in {"acked", "expired"} =>
    \/ items'[i] = items[i]
    \/ items'[i] = NoItem /\ items[i].terminalAt + Retention <= now

OutcomeKept(d) ==
  deliveries[d].state \in {"delivered", "expired"} =>
    \/ deliveries'[d] = deliveries[d]
    \/ deliveries'[d] = NoDelivery /\ deliveries[d].terminalAt + Retention <= now

\* Terminal is final: an acked or expired item, a delivered or expired
\* delivery is never touched again, except that Purge removes it once it is
\* older than the retention.
TerminalIsFinal ==
  [][/\ \A i \in Item : EndKept(i)
     /\ \A d \in LeaseId : OutcomeKept(d)]_vars

SameAttempt(a, b) == a.delivery = b.delivery /\ a.sink = b.sink /\ a.token = b.token

ConfirmationKept(d, s) ==
  deliveries[d].sinks[s].delivered =>
    /\ deliveries'[d].state # "none" => deliveries'[d].sinks[s] = deliveries[d].sinks[s]
    /\ \A a \in attempts' :
         a.delivery = d /\ a.sink = s => \E b \in attempts : SameAttempt(a, b)

\* Once a channel confirmed a digest its checkpoint is frozen, and no new
\* attempt on it is handed out.
DeliveredSinkIsFinal == [][\A d \in LeaseId, s \in Sink : ConfirmationKept(d, s)]_vars

\* The clock and the poll loop alone settle everything: no crash, lapsed
\* lease or lost attempt strands an item or a delivery short of an end.
Settled(i) == items[i].state \in {"absent", "acked", "expired"}
EverythingSettles ==
  /\ \A i \in Item : ~Settled(i) ~> Settled(i)
  /\ \A d \in LeaseId : (deliveries[d].state = "pending") ~> (deliveries[d].state # "pending")

-----------------------------------------------------------------------------
(* The abstract queue the store implements: leases are not visible in it,  *)
(* a delivery and its items end in one step.                               *)

QueueStatus == [i \in Item |->
  CASE items[i].state \in {"pending", "leased"} -> "waiting"
    [] items[i].state = "delivering" -> "committed"
    [] items[i].state = "expired" -> "dropped"
    [] OTHER -> items[i].state]

QueueDigest == [d \in LeaseId |->
  [state |-> CASE deliveries[d].state = "pending" -> "open"
               [] deliveries[d].state = "delivered" -> "done"
               [] deliveries[d].state = "expired" -> "dropped"
               [] OTHER -> "none",
   items |-> deliveries[d].items, audience |-> deliveries[d].required]]

Queue == INSTANCE DigestQueue WITH
  DigestId <- LeaseId, status <- QueueStatus, digest <- QueueDigest, reached <- received

\* Every store transaction is a step of the abstract queue or invisible in
\* it: in particular no transaction ends a delivery without ending all of
\* its items the same way, or acknowledges one its channels did not get.
ImplementsQueue == Queue!Spec

=============================================================================
