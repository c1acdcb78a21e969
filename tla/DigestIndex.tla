---------------------------- MODULE DigestIndex ------------------------------
(***************************************************************************)
(* The indexes of the digest store, beside the records of items and of     *)
(* deliveries, and the statistics derived from them.  Every update of a    *)
(* record changes its index entries in the same transaction and moves two  *)
(* generation counters together; a program that does not know the indexes  *)
(* moves only the first.  Readers use the indexes while the counters agree *)
(* and scan the records otherwise.  The statistics are cached with the     *)
(* generation and the revision of the active sinks they were computed for; *)
(* several callers ask for them while the records change.                  *)
(* The records' data is what the index keys are made of; the health of the *)
(* sinks, which the statistics also show, is left out.                     *)
(***************************************************************************)
EXTENDS Integers, FiniteSets

CONSTANTS IxItems, IxDeliveries, IxSinks,
          Askers,                  \* of Stats
          Times,                    \* of expiries, leases, deadlines, attempts
          MaxWrites, MaxForeign     \* bounds of the model

ASSUME IndexAssumption == /\ Times \subseteq Nat \ {0} /\ IxItems \cap IxDeliveries = {}
                          /\ IsFiniteSet(IxItems) /\ IsFiniteSet(IxDeliveries)

VARIABLES db,      \* records, index entries, format and generations
          on,      \* the flag of the process: its indexes may be used
          configured, \* the active sinks, and how often they have changed
          cache,      \* the statistics computed last
          askers,     \* callers of Stats
          writes, foreign

indexVars == <<db, on, configured, cache, askers, writes, foreign>>

(* Records.  A sink of a pending delivery is due at a time, or Done.       *)
Done == 0
Missing == -1
NoItem == [state |-> "none", until |-> 0, expires |-> 0, at |-> 0]
Malformed == [NoItem EXCEPT !.state = "malformed"]
NoDigest == [state |-> "none", reason |-> "none", deadline |-> 0, due |-> [s \in IxSinks |-> Done], at |-> 0]
ItemRecords ==
  [state : {"pending"}, until : {0}, expires : Times, at : {0}]
  \cup [state : {"leased"}, until : Times, expires : Times, at : {0}]
  \cup [state : {"delivering", "acked"}, until : {0}, expires : Times, at : {0}]
  \cup [state : {"expired"}, until : {0}, expires : Times, at : Times \cup {0}]  \* 0: not by its TTL
DigestRecords ==
  [state : {"pending"}, reason : {"none"}, deadline : Times, due : [IxSinks -> Times \cup {Done}], at : {0}]
  \cup [state : {"delivered"}, reason : {"none"}, deadline : Times, due : {[s \in IxSinks |-> Done]}, at : {0}]
  \cup [state : {"expired"}, reason : {"deadline", "max_attempts"}, deadline : Times,
        due : [IxSinks -> Times \cup {Done}], at : Times]

\* What the operations of the store do to an item and to a delivery.
ItemFollows(r, s) ==
  /\ r.state # "none" => s.expires = r.expires
  /\ \/ r.state = "none" /\ s.state = "pending"
     \/ r.state = "pending" /\ (s.state = "leased" \/ (s.state = "expired" /\ s.at # 0))
     \/ r.state = "leased" /\ s # r /\ (s.state \in {"pending", "leased", "acked"} \/ (s.state = "expired" /\ s.at # 0))
DigestFollows(r, s) ==
  /\ r.state = "pending" /\ s.state = "pending" /\ s.deadline = r.deadline /\ s # r
  /\ \A k \in IxSinks : r.due[k] = Done => s.due[k] = Done
Settles(r, s) ==
  /\ r.state = "pending" /\ s.state \in {"delivered", "expired"} /\ s.deadline = r.deadline
  /\ s.state = "expired" => s.due = r.due

(* addItemIndexes and addDeliveryIndexes: the entries of a record, one set *)
(* for the ten buckets.                                                    *)
ItemEntries(r, i) ==
  {<<"itemState", r.state, i>> : x \in {1} \ (IF r.state \in {"none", "malformed"} THEN {1} ELSE {})}
  \cup (IF r.state = "leased" THEN {<<"lease", r.until, i>>, <<"leaseDue", r.until, i>>} ELSE {})
  \cup (IF r.state \in {"pending", "leased"} THEN {<<"expiry", r.expires, i>>} ELSE {})
  \cup (IF r.state = "expired" /\ r.at # 0 THEN {<<"ttlEnd", r.at, i>>} ELSE {})
DeliveryEntries(r, d) ==
  IF r.state = "none" THEN {} ELSE
  {<<"deliveryState", r.state, d>>}
  \cup (IF r.state = "expired" THEN {<<r.reason, r.at, d>>} ELSE {})
  \cup (IF r.state = "pending"
        THEN {<<"deadlineDue", r.deadline, d>>}
             \cup {<<"sinkDue", r.due[s], d, s>> : s \in {s \in IxSinks : r.due[s] # Done}}
        ELSE {})
Entries(bucket, id, r) == IF bucket = "items" THEN ItemEntries(r, id) ELSE DeliveryEntries(r, id)
AllEntries(d) == UNION ({ItemEntries(d.items[i], i) : i \in IxItems}
                        \cup {DeliveryEntries(d.deliveries[k], k) : k \in IxDeliveries})

\* indexesUsableTx, and the same check in indexesEnabled: the format, the
\* counters and the buckets.
Usable(d) == d.format = "current" /\ d.buckets /\ d.indexed = d.canonical

\* putDigestItem, putDigestDelivery, deleteDigestItem, deleteDigestDelivery:
\* the old entries go, the new ones come, if the indexes are in use.
EntriesWith(d, bucket, id, r) == (d.entries \ Entries(bucket, id, d[bucket][id])) \cup Entries(bucket, id, r)
Stored(d, bucket, id, r) ==
  [d EXCEPT ![bucket][id] = r, !.canonical = @ + 1,
            !.entries = IF Usable(d) THEN EntriesWith(d, bucket, id, r) ELSE @,
            !.indexed = IF Usable(d) THEN d.canonical + 1 ELSE @]

(* What Stats counts, from the records and from the indexes.               *)
Latest(times) == IF times = {} THEN 0 ELSE CHOOSE t \in times : \A u \in times : u <= t
PendingSinks(d, ids) == {s \in IxSinks : \E k \in ids : d.deliveries[k].state = "pending" /\ d.deliveries[k].due[s] # Done}
ScanCounts(d) ==
  [items |-> {<<d.items[i].state, i>> : i \in {i \in IxItems : d.items[i] # NoItem}},
   deliveries |-> {<<d.deliveries[k].state, k>> : k \in {k \in IxDeliveries : d.deliveries[k] # NoDigest}},
   pending |-> PendingSinks(d, IxDeliveries),
   ttlEnd |-> Latest({d.items[i].at : i \in {i \in IxItems : d.items[i].state = "expired"}}),
   ends |-> [x \in {"deadline", "max_attempts"} |->
              Latest({d.deliveries[k].at : k \in {k \in IxDeliveries : d.deliveries[k].reason = x}})]]
IndexCounts(d) ==
  LET of(name) == {e \in d.entries : e[1] = name}
  IN [items |-> {<<e[2], e[3]>> : e \in of("itemState")},
      deliveries |-> {<<e[2], e[3]>> : e \in of("deliveryState")},
      pending |-> PendingSinks(d, {e[3] : e \in of("deliveryState")}),
      ttlEnd |-> Latest({e[2] : e \in of("ttlEnd")}),
      ends |-> [x \in {"deadline", "max_attempts"} |-> Latest({e[2] : e \in of(x)})]]
Readable(d) == \A i \in IxItems : d.items[i] # Malformed

(* rebuildDigestIndexes, on records that can be read.                      *)
Rebuilt(d) == [d EXCEPT !.entries = AllEntries(d), !.buckets = TRUE, !.indexed = d.canonical]

(* Askers of Stats; seen is what was true since the call began.           *)
Resting == [at |-> "rest", gen |-> 0, rev |-> 0, sinks |-> {}, counts |-> {}, seen |-> {}, actives |-> {}]
NoCache == [valid |-> FALSE, gen |-> 0, rev |-> 0, sinks |-> {}, counts |-> {}]
Witness(d, sinks) == [c \in Askers |->
  IF askers[c].at = "rest" THEN Resting
  ELSE [askers[c] EXCEPT !.seen = @ \cup {ScanCounts(d)}, !.actives = @ \cup {sinks}]]

\* The store is opened on items that are leased for a delivery, or on a
\* delivery that has ended, with its items.
IndexInit ==
  /\ \E items \in {r \in ItemRecords : r.state \in {"leased", "acked"}},
        deliveries \in {NoDigest} \cup {r \in DigestRecords : r.state = "delivered"} :
        /\ items.state = "leased" <=> deliveries = NoDigest
        /\ db = Rebuilt([items |-> [i \in IxItems |-> items], deliveries |-> [k \in IxDeliveries |-> deliveries],
                      entries |-> {}, format |-> "current", buckets |-> FALSE, canonical |-> 0, indexed |-> Missing])
  /\ on = TRUE /\ configured = [sinks |-> {}, rev |-> 0]
  /\ cache = [NoCache EXCEPT !.valid = TRUE, !.counts = ScanCounts(db)]
  /\ askers = [c \in Askers |-> Resting]
  /\ writes = 0 /\ foreign = 0

(* updateDigest: whether this process keeps the second counter is read     *)
(* when the transaction begins; indexesEnabled switches the flag off for   *)
(* good when the check fails.                                              *)
\* Mutant: the flag decides alone.
MaintainsByFlag(d) == on
Maintains(d) == on /\ Usable(d)
Commit(d) ==
  /\ writes < MaxWrites /\ writes' = writes + 1
  /\ db' = IF Maintains(db) THEN [d EXCEPT !.indexed = d.canonical] ELSE d
  /\ on' = Maintains(db)
  /\ askers' = Witness(db', configured.sinks)
  /\ UNCHANGED <<configured, cache, foreign>>

\* Enqueue, Lease, Ack, the recovery of a lease and the expiry of an item.
WriteItem(i) ==
  \E r \in ItemRecords : ItemFollows(db.items[i], r) /\ Commit(Stored(db, "items", i, r))
\* ClaimDueAttempts, CompleteAttempt and RetryDelivery.
WriteDelivery(k) ==
  \E r \in DigestRecords : DigestFollows(db.deliveries[k], r) /\ Commit(Stored(db, "deliveries", k, r))
\* PrepareDelivery: the delivery, then its items.
Prepare(i, k) ==
  \E r \in DigestRecords :
     /\ db.items[i].state = "leased" /\ db.deliveries[k] = NoDigest
     /\ r.state = "pending" /\ \A s \in IxSinks : r.due[s] # Done
     /\ Commit(Stored(Stored(db, "deliveries", k, r), "items", i,
                      [db.items[i] EXCEPT !.state = "delivering", !.until = 0]))
\* The last sink of a delivery, or its expiry: the items, then the delivery.
Settle(i, k) ==
  \E r \in DigestRecords :
     /\ db.items[i].state = "delivering" /\ Settles(db.deliveries[k], r)
     /\ Commit(Stored(Stored(db, "items", i, [db.items[i] EXCEPT !.state = IF r.state = "delivered" THEN "acked" ELSE "expired"]),
                      "deliveries", k, r))
\* Purge: what has ended is deleted, an item and then a delivery.
Purge ==
  \/ \E i \in IxItems : db.items[i].state \in {"acked", "expired"} /\ Commit(Stored(db, "items", i, NoItem))
  \/ \E i \in IxItems, k \in IxDeliveries :
        /\ db.items[i].state \in {"acked", "expired"} /\ db.deliveries[k].state \in {"delivered", "expired"}
        /\ Commit(Stored(Stored(db, "items", i, NoItem), "deliveries", k, NoDigest))

(* Another program: it writes a record, which may be malformed, and moves  *)
(* the first counter; or it drops a bucket, or leaves its own format.      *)
ForeignChange ==
  /\ foreign < MaxForeign /\ foreign' = foreign + 1
  /\ \/ \E i \in IxItems, r \in ItemRecords \cup {Malformed} :
           r.state \in {"pending", "malformed"} /\ r # db.items[i] /\ db' = [db EXCEPT !.items[i] = r, !.canonical = @ + 1]
     \/ db.buckets /\ db' = [db EXCEPT !.buckets = FALSE]
     \/ db.format = "current" /\ db' = [db EXCEPT !.format = "obsolete"]
  /\ askers' = Witness(db', configured.sinks)
  /\ UNCHANGED <<on, configured, cache, writes>>

(* NewDigestStore: an obsolete format starts its counters anew; the        *)
(* indexes are rebuilt unless a record is malformed, and so are the        *)
(* statistics.                                                             *)
Reopened == IF db.format = "current" THEN db
            ELSE [db EXCEPT !.format = "current", !.canonical = 0, !.indexed = Missing]
Reopen ==
  LET ok == Readable(db)
  IN /\ foreign > 0 /\ on' = ok
     /\ db' = IF ok THEN Rebuilt(Reopened) ELSE Reopened
     /\ cache' = IF ok THEN [NoCache EXCEPT !.valid = TRUE, !.gen = db'.canonical, !.counts = IndexCounts(db')] ELSE NoCache
     /\ configured' = [sinks |-> {}, rev |-> 0] /\ askers' = [c \in Askers |-> Resting]
     /\ UNCHANGED <<writes, foreign>>

\* SetActiveSinks: a changed set is a new revision, and the cache is invalid.
SetActiveSinks(sinks) ==
  /\ sinks # configured.sinks /\ writes < MaxWrites /\ writes' = writes + 1
  /\ configured' = [sinks |-> sinks, rev |-> configured.rev + 1]
  /\ cache' = [cache EXCEPT !.valid = FALSE]
  /\ askers' = Witness(db, sinks)
  /\ UNCHANGED <<db, on, foreign>>

Turn(c, r) == askers' = [askers EXCEPT ![c] = r] /\ UNCHANGED <<db, configured, writes, foreign>>

\* Stats: the generation; then the revision; then the cache, or else
\* rebuildStatsIndex.
AskStats(c) ==
  /\ askers[c].at = "rest"
  /\ Turn(c, [Resting EXCEPT !.at = "asked", !.gen = IF db.format = "current" THEN db.canonical ELSE Missing,
                             !.seen = {ScanCounts(db)}, !.actives = {configured.sinks}])
  /\ UNCHANGED <<on, cache>>
ReadRevision(c) ==
  /\ askers[c].at = "asked"
  /\ Turn(c, [askers[c] EXCEPT !.at = "checking", !.rev = configured.rev])
  /\ UNCHANGED <<on, cache>>
\* Mutant: the generation is not compared.
CachedForSinks(me) == me.gen # Missing /\ cache.valid /\ cache.rev = me.rev
Cached(me) == me.gen # Missing /\ cache.valid /\ cache.gen = me.gen /\ cache.rev = me.rev
CheckCache(c) ==
  LET me == askers[c]
  IN /\ me.at = "checking"
     /\ Turn(c, IF Cached(me) THEN [me EXCEPT !.at = "answered", !.counts = cache.counts, !.sinks = cache.sinks]
                ELSE [me EXCEPT !.at = "missed", !.rev = configured.rev, !.sinks = configured.sinks])
     /\ UNCHANGED <<on, cache>>
\* One read transaction: the generation and the counts, from the indexes
\* or, in a second transaction, from a scan, which a malformed record ends
\* with an error.
CountFromIndexes(c) ==
  /\ askers[c].at = "missed" /\ on' = Maintains(db)
  /\ Turn(c, IF Maintains(db) THEN [askers[c] EXCEPT !.at = "counted", !.gen = db.canonical, !.counts = IndexCounts(db)]
             ELSE [askers[c] EXCEPT !.at = "scanning"])
  /\ UNCHANGED cache
CountFromScan(c) ==
  /\ askers[c].at = "scanning"
  /\ Turn(c, IF Readable(db)
             THEN [askers[c] EXCEPT !.at = "counted", !.counts = ScanCounts(db),
                                     !.gen = IF db.format = "current" THEN db.canonical ELSE Missing]
             ELSE Resting)
  /\ UNCHANGED <<on, cache>>
StoreStats(c) ==
  LET me == askers[c]
  IN /\ me.at = "counted"
     /\ cache' = [valid |-> me.gen # Missing, gen |-> me.gen, rev |-> me.rev, sinks |-> me.sinks, counts |-> me.counts]
     /\ Turn(c, [me EXCEPT !.at = "answered"])
     /\ UNCHANGED on
ReturnStats(c) ==
  /\ askers[c].at = "answered" /\ Turn(c, Resting) /\ UNCHANGED <<on, cache>>

StatsStep(c) ==
  \/ AskStats(c) \/ ReadRevision(c) \/ CheckCache(c) \/ CountFromIndexes(c)
  \/ CountFromScan(c) \/ StoreStats(c) \/ ReturnStats(c)

IndexNext ==
  \/ \E i \in IxItems : WriteItem(i)
  \/ \E k \in IxDeliveries : WriteDelivery(k)
  \/ \E i \in IxItems, k \in IxDeliveries : Prepare(i, k) \/ Settle(i, k)
  \/ Purge \/ ForeignChange \/ Reopen
  \/ \E sinks \in SUBSET IxSinks : SetActiveSinks(sinks)
  \/ \E c \in Askers : StatsStep(c)

IndexSpec == IndexInit /\ [][IndexNext]_indexVars

-----------------------------------------------------------------------------
\* While the format, the buckets and the counters say that the indexes may
\* be used, they hold the entries of the records and no others: what is due
\* is found, and nothing that is not there.
IndexesAreExact == Usable(db) => db.entries = AllEntries(db)

\* The statistics a caller gets were true at a moment of its call, and so
\* was the set of active sinks they were computed for: neither the cache
\* nor the fall-back shows a state from before the call.
StatsAreCurrent ==
  \A c \in Askers : askers[c].at = "answered" =>
     askers[c].counts \in askers[c].seen /\ askers[c].sinks \in askers[c].actives

=============================================================================
