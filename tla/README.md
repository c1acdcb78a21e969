# nimbus-news: a TLA+ verification project

nimbus-news fetches financial news from many sources, filters it, lets a
language model rate it, and routes every message to a *direct* push, to a
*digest* briefing, or to silence.  Digests are durable: items, leases, rendered
deliveries and per-channel checkpoints live in a bbolt file and survive crashes.
This directory holds TLA+ modules of the parts of that system whose behaviour
depends on the order of events, TLC configurations that check them on small
instances, and TLAPS proofs that hold for every instance.

    tlc -workers 2 -config digest_queue.cfg MCDigestStore      a run
    tlc -workers 2 -config direct_claims.cfg MCDirectRoute
    tlc -workers 2 -config source_lifecycle.cfg MCSourceLifecycle
    tlc -workers 2 -config platform_safety.cfg MCPlatform
    tlapm DigestStoreProofs.tla                                the proofs of a module

## 1. The system

| Component | State it keeps | Operations | Hard because of | What makes it correct | Modelled in |
|---|---|---|---|---|---|
| Digest store (`store/digest.go`, `digest_routing.go`) | item and delivery buckets | enqueue, lease, prepare, claim, complete, retry, expire, purge | leases and claims that lapse while their holder still works; two buckets that must agree | an item is in at most one digest; a delivery and its items end together; nothing is acknowledged that was not received; everything ends | `DigestStore`, `DigestQueue` |
| Digest indexes and statistics (`store/digest_index.go`, `digest.go`) | index buckets, two generation counters, a cached answer | index update in every transaction, rebuild, `Stats` | programs of another version, a rebuild after a crash, the cache filled while records change | a usable index holds the records' entries; an answer was true at a moment of its call | `DigestIndex` |
| Direct lane (`store/digest_routing.go`, `core/routing.go`) | admission records, daily quotas, direct claims | admit, claim, complete or fail a channel, release, purge | two lanes racing for one article, a quota per day, sends that outlive their claim | one lane per article and day, exact quota, no confirmed channel sent again, no pending article forgotten | `DirectRoute`, `DirectPromise` |
| Digest delivery worker (`core/digest_delivery_worker.go`) | wake channel, send slots, running flag | poll cycle, bounded send, stop | sends that ignore their context, a wake-up in the middle of a cycle | attempts end before their claim, a wake-up is served, `Stop` returns | `DeliveryWorker` |
| News engine (`core/news_engine.go`) | source map, generations, gates, cancels | start, stop, trigger, prepare/activate/abort, remove | hot reload during a fetch, racing changes, shutdown order | effects come from the current source only; one goroutine polls a source; a stop waits for everyone | `SourceLifecycle`, `SourceFence` |
| Schedules of the engine (`news_engine.go:572-741`) | slot marks in the store | catch-up, wait, fetch, mark | a crash between effects and mark, midnight, a clock set back | a slot runs, and runs once | `ScheduleSlots` |
| Message pipeline (`filter/`, `news_engine.go:761-1038`) | seen keys, semantic cache, rate counters, retry queue | chain, enhance, dispatch, retry round | a mark before the delivery, polls that add to the queue during a round | no second copy, a bounded burst, a queue that drains | `MessagePipeline` |
| RSS sources (`source/rss.go`) | validators, feed state | conditional fetch, filter, cap | validators of an answer whose body fails | "not modified" hides nothing | `FeedFetch` |
| Briefing sources (`source/market_briefing.go`, `digest/digest.go`) | none | run scripts, lease, group, render, dispatch | partial failure, items leased but not shown | what is acknowledged was shown | `Briefing` |
| Source health (`source/health_monitor.go`) | status, failures in a row, times | success, failure, skip, reset, register | two polls at once, changes and resets in between | whoever is told knows how it stands, a skipped source is probed | `SourceHealth` |
| Runtime supervisor (`runtime/supervisor.go`) | child, pending call, backoff, circuit | call, cancel, start, fail, shutdown, close | reader, waiter and caller see the same failure; close during a start | nothing is left running, `Close` returns | `Supervisor` |
| Configuration manager and the handlers that use it (`config/manager.go`, `api/server.go`) | config, file, revision, fingerprint | reload, update, update with runtime, rollback, notify | edits with an editor, a runtime change that fails, requests at once | the engine runs what the configuration says, a rollback undoes nobody else's change | `ConfigManager` |
| Alert engine (`alert/`) | alerts, last triggers | create, remove, check, trigger | check and trigger without the lock | an alert fires once in its cooldown, as far as one goroutine checks it | `AlertEngine` |
| News archive (`store/news.go`, `news_bolt.go`) | records, time index, counter, list in memory | save, cleanup, rebuild | death between database and list | the list shows the records | `NewsArchive` |
| Discord bot (`channel/discord/`) | thread map, per-thread memory, token bucket | thread look-up, append, backoff | check then create; remembering before sending | one first part per thread, few threads, the rate | `DiscordThreads`, `TokenBucket` |
| Webhook drivers (`channel/wechat`, `telegram`, `discord`) | none | split, post, retry | a part in the middle that fails | a confirmed message is whole | `PartedSend` |
| WeChat official account (`channel/wxofficial`) | subscriber slice | follow, leave, fill, broadcast | a slice shifted in place while it is walked | a broadcast reaches everybody, followers are known | `Subscribers` |
| Scheduler, script and report sources, LLM client, quote stores, metrics, web console, scripts, migration tool | plain data or I/O | | | | see "Not modelled" |

How they interact: a source's goroutine fetches and calls the filters and the
router; a digest item is enqueued by it and, later, leased by the goroutine of a
briefing source, which renders the leased items and hands the message to
`Router.DispatchNews`.  That call is `PrepareDelivery`.  From then on the digest
worker claims, sends and completes attempts, one per channel, and an operator
may ask for a retry through the admin API.  The store is the only state they
share, and every operation of it is one bbolt transaction.  A direct item never becomes a delivery: the poll that fetched it
admits it, claims it and sends it itself, and whatever it leaves behind - a claim
that lapsed, a channel that failed - is picked up by the recovery loop of the
engine.  Both lanes share the admission records and quotas of the store.
An operator changes sources through the admin API while they are polled: the change is
prepared (its object built), activated at the gate that the effects of every poll hold, and
the object it replaces is closed when its goroutine has ended.  Polls also feed the
asynchronous evaluator, whose queue the engine closes when it stops.

The parts around them share no state with one another, and meet through calls whose result the
caller does not look into: a poll asks the health monitor whether to fetch, passes its batch through the
filters, and dispatches to drivers, each of which retries, limits and cuts on its own; the admin API writes
the configuration and then asks the engine, the channel manager or the provider to follow; a briefing
is prepared by the router, which wakes the delivery worker.  Where such a result matters to the caller
it is a choice in the caller's module, over what the callee's module shows can happen.
`PROJECT.json` lists every component with its status and every hazard with its line.

## 2. The modules

| Module | Role |
|---|---|
| `DigestStore` | the digest store in detail, with its clients' volatile state |
| `DigestQueue` | what the store promises: items wait, are committed to one digest, and end with it |
| `DirectRoute` | both lanes of the router: admissions, quotas, direct claims, deliveries, stop and crash |
| `DirectPromise` | what the direct lane promises: channels are settled once, an item closes with its last channel |
| `SourceLifecycle` | one source of the engine from start to stop: its goroutine, triggered polls, changes, the gate, the evaluator's queue, `Stop` |
| `SourceFence` | what the engine promises: effects belong to the current generation, which changes between effects |
| `DigestIndex` | what every transaction of the digest store does to its indexes and counters, other programs, the rebuild, `Stats` and its cache |
| `DeliveryWorker` | the goroutines of the delivery worker: loop, attempts, slots, wake, `Stop` |
| `ScheduleSlots` | the goroutine of a source with slots: catch-up, wait, fetch, mark, crash, clock |
| `MessagePipeline` | filters, enhancer, dispatch and retry queue under concurrent polls |
| `FeedFetch` | conditional requests of an RSS source and what becomes of a batch |
| `Briefing` | the four briefings from their parts to the delivery |
| `SourceHealth` | the health record of a source and the notices about it |
| `Supervisor` | the supervisor of a capability child |
| `ConfigManager` | the configuration, its file, and what runs by it |
| `AlertEngine`, `NewsArchive` | alerts and their checks; the archive's database and list |
| `DiscordThreads`, `TokenBucket`, `PartedSend`, `Subscribers` | the channels: threads of a forum, the rate limiter, long messages, followers |
| `MCDigestStore`, `MCDirectRoute`, `MCSourceLifecycle` | definitions for TLC (topics, priorities, channel sets, quotas, symmetry); the last has none and only roots the runs |
| `MCPlatform` | the fifteen modules above from `DigestIndex` on, side by side, and their instances |
| `DigestStoreProofs` | types; the fence between deliveries and items, and that digests are disjoint; ends are final and expiries justified |
| `DigestStoreClaims` | acknowledgement, confirmed channels, exclusive claims; topics travel together; the refinement of `DigestQueue` |
| `DirectRouteProofs` | the invariant of the direct lane: types, records, exclusive claims |
| `DirectRouteSafety` | outcomes, lanes, quotas, stop, no resend, and the refinement of `DirectPromise` |
| `SourceLifecycleProofs` | the invariant of the lifecycle, its five safety properties and the refinement of `SourceFence` |
| `PlatformProofs` | what runs the lanes: `TokenBucket`, `SourceHealth`, `Supervisor`, `DeliveryWorker`, `ConfigManager` |
| `ContentProofs` | what is fetched, kept and shown: `DigestIndex`, `FeedFetch`, `ScheduleSlots`, `Briefing`, `NewsArchive` |
| `DispatchProofs` | what is sent out: `AlertEngine`, `DiscordThreads`, `PartedSend`, `Subscribers`, `MessagePipeline` |

`DigestStore`, `DirectRoute` and `SourceLifecycle` are composed of everything that touches their state:
store, worker, briefings and operator in the first; polls, recovery loop, store, channel manager, stop
and crash in the second; goroutines, triggers, changes, `Stop`, closers and evaluator in the third.
`MCPlatform` is a composition of another kind.  Its parts share nothing, so
it is a sum and not a product: the variable `part` names the one that runs, and the others stay where they
begin (`Rest`).  A behaviour of the sum is a behaviour of one part, and the properties are those of the
parts.  A part's actions and its fairness say `part = "..."`, so a part that does not run promises nothing.

### DigestStore and the code

| TLA+ | Code |
|---|---|
| `items[i]` | the record of bucket `digest_items_v1`: `State`, `LeaseID`, `LeaseUntil`, `DeliveryID`, `CreatedAt`, `TerminalAt`; "absent" is no record |
| `deliveries[d]` | the record of `digest_deliveries_v1`; `sinks[s]` is its `SinkCheckpoint`; "none" is no record |
| `handed`, `briefings` | the `digest.Lease` values handed out, and those whose briefing has not called the store again |
| `attempts` | the `digest.Attempt` values a worker is busy with; `sent` once the channel took the message |
| `received` | history: the channels that have taken the message of a delivery |
| `indexed` | whether `indexesEnabled` holds: every operation has an index path and a scan path |
| `now` | `s.now()` |

Each operation of the store is one action, because each is one `db.Update`; a
transaction that fails rolls back and is no step.  Guards are the code's
conditions and early returns.  `PrepareRejected` is the error return of
`PrepareDelivery` that keeps the expirations it found.  `ClaimDueAttempts` and
`ExpireDue` keep both paths: the scan screens all sinks of a delivery, the index
walk one due sink at a time.  `Send` is the message reaching the channel; it is
separate from the completion, so a timeout that lied, a crash in between and a
claim that lapses in between all happen.  `Restart` is a crash or a stop.

Abstractions.  One briefing bucket: operations never look across briefings
except to expire items, which needs none of the others.  A lease id is a token
that is handed out once.  The attempt token of a sink is the number of the
attempt: attempts only grow, so it is as unique as the random token.  The last
tie break of both sorts (a hash) is arbitrary.  `Backoffs` stands for the delays
`digestBackoff` can compute.  `ItemTTL` is one constant.  Message bodies, hashes,
sink health and outcome logs are left out; so is the one-time
migration of the 24 hour time to live.  Here the indexes only decide which of two paths an operation
takes (`IndexModes`); their contents, and the statistics, are in `DigestIndex`.

### DirectRoute and the code

| TLA+ | Code |
|---|---|
| `direct[m]` | the `routeAdmissionRecord` of the direct lane under the stable key of the item: channels, delivered, failed, attempts, `NextAttemptAt` (`wait`), `CompletedAt`, `ClaimToken`, `ClaimUntil` (`lease`); `NoRecord` is no record |
| `digested[m]` | the dates for which the item has a digest admission record (their key holds the date) |
| `queued` | the items `admitRoute` has put into the digest bucket in the same transaction |
| `quota[d][l]` | the counter of a date and a lane |
| `job[r]` | where a goroutine is: a poll of the source between its calls, or `runDirectClaim`/`deliverDirectClaim` with the `DirectClaim` it holds, the channels left (`todo`), the one at hand and what its dispatch reported |
| `phase` | running; fenced: `directAccepting` is false; draining: the contexts are cancelled and `Stop` waits; down |
| `enabled` | the channels of the channel manager |
| `received`, `absent` | history: the channel took the message; it was missing when it was asked for |
| `today`, `hour` | the Shanghai date of the store's clock and the time left to midnight |
| `stops`, `faults`, `toggles` | count what the bounds allow; the code has no such limits |

The transactions of the store (`admitRoute`, `ClaimDirect`, `ClaimPendingDirect`,
`FailDirectChannel` and `CompleteDirectChannel`, `ReleaseDirect`,
`PurgeRouteAdmissions`) are actions; a delivery is as many actions as there are points
at which something else can happen: the shutdown fence (`PassFence`,
`ReleaseFenced`), the look-up of the channel (`Take`), the broadcast (`DispatchOk`,
`DispatchError`, `DispatchSkipped`), the checkpoint and the release.  `StoreFails` is a
write that fails or times out at any of these calls: the code logs and goes on.

Abstractions.  One source; the verdict of the policy and of the AI is a choice,
and so is whether an item denied the direct quota scored high enough to be
downgraded.  Records are under their stable keys and hold their payload; the
older kinds are not modelled.  The channels of a claim are tried in any
order.  Timers count down, in units of the 30 s backoff step.  A random token is one no
record and no runner holds.  A digest record adopted by a known item takes over channels
that nothing reads.  `ItemPurged` stands for the life of the item in the digest
store, which is the other module.

### SourceLifecycle and the code

| TLA+ | Code |
|---|---|
| `sources`, `generation` | `e.sources[name]` and `e.sourceGenerations[name]` |
| `registered` | the goroutine whose cancel function and done channel are in `sourceCancels` and `sourceDones`; 0 when they have no entry |
| `thread[t]` | a goroutine that polls: of generation `t` (`startSourceGoroutine`) or triggered by hand (`TriggerSource`), with the source and generation it began with |
| `thread[t].pc` | "starting", "fetching": in the fetch; "fetched": between the two checks; "blocked", "holding", "effects": at `gate.mu.RLock`, behind it, and having effects; "resting": in the select; "done", "away": returned |
| `cancelled` | ended contexts: 0 is the context of the engine, `t` that of goroutine `t` |
| `change[c]` | a caller between `PrepareSourceChange` and the end of `Activate`, `Abort` or `RemoveSource`, with the `PreparedSourceChange` it holds |
| `writer` | the caller in `gate.mu.Lock`: readers that come later wait, as in Go's `RWMutex` |
| `objects`, `closing` | the life of each source object, and the goroutines of `closeSourceAfter` |
| `phase`, `snapshot` | how far `Start` and `Stop` have come, and the objects `Stop` has listed |
| `tasks`, `queueClosed`, `panicked` | the evaluator: messages queued or with a worker, the closed channel, a send on it |

`CheckAndCancel` is the first half of `Activate` (`news_engine.go:1285-1301`), `AnnounceWriter` and
`ChangeSource` the second (`1303-1348`).  `RemoveSource` differs in its first half only, and shares the
second.  `Stop` is six steps, for between any two of them polls go on, a
trigger or a change arrives, and workers finish.  `ServiceDone` is the signal: the context
`Start` was given ends before `Stop` is called (`app.go:159-192`).

Abstractions.  One source name, which is configured at the start; operations of different names
meet only in `Stop`.  What a poll does behind the gate (store, filters, health, dispatch) is one
interval, in which it submits messages; the direct sends in it are in `DirectRoute`.  Neither time
nor slots: a goroutine may wake at any moment, and may find nothing to do (`SkipPoll`).
`TradingDaysOnly` lets a goroutine find a day without trading when it starts.  `MaxTasks` stands for
the queue and the workers together.  `EnableSource`, `DisableSource`, `RemoveSource` and
`ReloadSource` have no caller outside tests; the first two are left out, `RemoveSource` is
kept since it takes another way to the gate, and `ReloadSource` is `PrepareSourceChange` followed by
`Activate`.

### The parts around them and the code

**DigestIndex** (`store/digest_index.go`, the index calls in `digest.go`).  `db` is the file: records by
what their index keys are made of, index entries, format, the buckets, and the two counters
`canonical` and `indexed`, of which a program that does not know the indexes moves only the first.
`WriteItem`, `WriteDelivery`, `Prepare`, `Settle` and `Purge` stand for the transactions, by the records they write, each with its
entries in one step; `ForeignChange` is another program; `Reopen` the check and rebuild at the start.  A
call of `Stats` is as many steps as it takes the mutex or a transaction: revision of the active sinks, cache, count
by the indexes or by a scan, store, return.  `seen` and `actives` are history: what was true during the call.

**DeliveryWorker** (`core/digest_delivery_worker.go`).  `loop` is the goroutine of `Start`; `attempt` the
goroutines of a cycle, each waiting for a slot, sending, or done with its attempt; `ending` and `stuck` are sends
whose attempt has timed out and which hold their slots until the channel returns, which
stuck ones never do.  `age` counts send timeouts since the claim: the claim is taken for
`Waves` of them and ten seconds.  `wake` is the channel with room for one token.

**ScheduleSlots** (`news_engine.go:572-741`).  A slot is a moment of `Days` days.  `slotLoop` is
the goroutine of a scheduled source is: looking the last slot up, waiting, fetching, marking.  `now` is the wall
clock, `timer` the monotonic one; `ClockSetBack` moves only the first.  `CatchUp` reads the clock a second time, as the
code does, and may find itself in the next day.  `slotsExcused` collects the slots to which one of the four known exceptions applies,
at the step where it does.

**MessagePipeline** (`filter/`, `news_engine.go:761-1038`, `llm/enhancer.go`).  `poll[s]` is the poll of a source with
its batch and what is left to check: content and deduplication of one message for one sink are a step, AI filter and rate
limit the next, since each filter takes its locks for itself; then the enhancer, and one dispatch after the other.  `seen` are the persisted keys, `similar` the stories of the semantic cache, `counter` the messages
of a source and sink in this minute, `retryQ` and `round` the queue and the round of the 30 s goroutine, which
works on what it took.  `doubt` are keys a store failure may have lost.

**FeedFetch** (`source/rss.go`).  `tags` says which validators upstream sends; `validators` what the source object
keeps; `fetch[f]` is a poll between its request, the answer, the body and the hand-over.  `ReplaceSource` is the new source
object of a changed configuration.  An entry is its identity and the rules it offends; the batch of a
version is computed by the rules' order, the repost filter, and the cap.

**Briefing** (`market_briefing.go`, `report.go`, `digest.go:327-503`).  `run` is the fetch: its parts, each of
which may fail, the decision to stay silent, `LeaseTopics`, the lines, the dispatch.  A line is a
headline and the sources it names or counts, which is what the renderer's grouping decides.

**SourceHealth** (`source/health_monitor.go`, `news_engine.go:791-...`).  `health` is the record; `fetching`
the polls; time is two questions, `probeDue` and `renotifyDue`.  `Registered` is `registerSourceHealth` with the three
monitor calls it makes.  `issued` and `forgiven` are history: the last notice, and whether trouble that was told was put aside.

**Supervisor** (`runtime/supervisor.go`).  `jobs[j]` is a call with its context, its responses and its result,
`work` the worker goroutine, `kids[g]` a process with its flags and its reader and waiter,
`cur` the field `child`, `closer` the caller of `Close`.  Every critical section of `s.mu` is one step, every wait a
guard.  Time is the end of a grace, of the backoff and of the circuit.

**ConfigManager** (`config/manager.go`, `api/server.go`, `platformapp/app.go:134-149`).  `file` are the bytes on disk,
`held` the bytes the live configuration was parsed from, so that configuration, persisted form and fingerprint are one
variable; `cfgMu` and `srcMu` are `m.mu` and `sourceMutationMu`; `request[c]` a handler with the request it
serves, the body it will write, the revision it saw and what it may have to put back.  `running`, `channel` and `llm` are the engine, the channel manager
and the provider.  A write is a check of the fingerprint and a temporary file (`Persist`), then a rename
(`Rename`): two steps, and an edit with an editor may fall between them.

**AlertEngine** (`alert/engine.go`, `store.go`).  `check[g]` is a check with its snapshot and the alert at hand;
question, condition, notice, mark and removal are separate steps, as the code holds no lock over them.

**NewsArchive** (`store/news.go`, `news_bolt.go`).  A save or cleanup is its commit and then its change of the
list, both under `writer`; time passes and the process may die between them.

**DiscordThreads**, **TokenBucket**, **PartedSend**, **Subscribers** (`channel/...`).  A send is where it is between two
calls to Discord; `noted` is the memory of a thread, which is written before the message is appended.  The
bucket keeps `tokens` and `lastRefill` as the code does, with the integer division of `refill`.  A text is a sequence of widths
of characters, a newline among them, so that the cutting by bytes is the code's.  The subscribers are arrays with places
and a slice into one of them, so that what an in-place shift does to a walk under way is visible.

## 3. The runs

| Run | Instance | Shows |
|---|---|---|
| `digest_attempts` | 1 item, 2 leases, 2 channels, 2 attempts, both index modes, v1 clients, clock to 4 | `AckedMeansReceived`, `LiveClaimIsExclusive`, `ExpiryIsJustified` |
| `digest_queue` | 3 items in 2 topics, 2 leases, 1 channel, both index modes, clock to 5 | `DeliveryFence`, `TopicNotSplit`, `ImplementsQueue` |
| `digest_settles` | 1 item, 2 leases, 2 channels, scan path, clock to 5, fairness | `EverythingSettles` |
| `digest_index_revives` | 1 item, 1 lease, 2 channels, index path | finding 1 |
| `direct_lanes` | 2 messages, 2 polls and recovery, 1 channel, quota of 1 a day in each lane, 3 days of 1 unit | `LaneFence`, `QuotaExact` |
| `direct_claims` | 1 critical message, 2 channels, 1 poll and recovery, 3 tokens, 2 attempts, leases of 1 unit that deliveries may outlive, 1 fault, 1 toggle, 2 days | `ClaimIsExclusive`, `KeepsPromise` |
| `direct_completes` | 1 message, 2 channels, 3 attempts, leases of 2 units that deliveries keep to, 1 stop, 1 fault, 1 toggle, fairness | `NoResend`, `EveryAdmissionCompletes` |
| `direct_skipped` | 1 message, 1 channel, 1 toggle | finding 2 |
| `source_lifecycle` | 1 triggered poll, 2 objects, 2 callers, 2 generations, 1 task, trading days, fairness | `OneLoop`, `NothingRunsAfterStop`, `KeepsFence`, `ChangeEnds`, `StopEnds` |
| `source_panics` | the same with 1 caller, no fairness | finding 3 |
| `platform_safety` | the fifteen parts, one at a time (1.4 million states) | 17 safety properties, see below |
| `platform_progress` | supervisor, pipeline, health, worker, with fairness | `CloseEnds`, `RetryQueueDrains`, `KeepsProbing`, `WakeIsServed`, `WorkerEnds` |

Properties that another one implies, or that say the same as a theorem, are not run: type invariants,
`DigestsDisjoint`, `TerminalIsFinal`, `EffectsAreCurrent` and others are stated in the modules and proved.

What `platform_safety` checks, part by part:

| Part | Property | Says |
|---|---|---|
| config | `SourceFollowsConfig` | between changes, and unless a reply asked for a restart, the engine runs the source exactly when the configuration enables it |
| config | `UntouchedSettings` | a request, its rollback included, never changes a setting it is not about |
| supervisor | `NothingLeftRunning` | when `Close` has returned no unsignalled child is left and no call can start one |
| pipeline | `SinksAreSpared` | no channel gets a message twice or a grouped story from two sources; a minute sends at most what the rule allows and what the retry queue holds twice |
| bucket | `RateIsKept` | capacity and one token an interval, never more |
| discord | `ForumIsTidy` | one first part of a message per thread; no more threads than senders between two lapses |
| health | `ToldHowItStands` | an unhealthy source was announced, a recovered one was announced as such |
| worker | `CompletesWithinClaim` | no attempt outlives its claim unless a stuck send took a slot |
| slots | `ScheduleIsKept` | a slot runs, and has its effects once, but for the exceptions listed there |
| alerts | `FiresAreFew` | one notice per alert and cooldown, one per checking goroutine for news alerts |
| archive | `ListShowsRecords` | list, records, index, counter and limit agree between writes |
| subscribers | `FollowersAreReached` | a broadcast reaches who was there all the time, but for one per follower who left |
| parted | `MessageIsWhole` | cutting loses newlines only; a confirmed message is whole and in order |
| index | `IndexesAreExact`, `StatsAreCurrent` | usable indexes hold the records' entries; statistics were true during the call |
| feed | `QuietMeansHandedOver` | after "not modified" nothing is missing, unless that version's body was spoiled |
| briefing | `PreparedIsShown` | what a delivery acknowledges, its text shows |

Why the bounds are enough.  Time constants are chosen so that every order of
the events that matter fits under the clock: a lease (1) lapses before its
items (2) do and is retaken by the second lease; a claim (1) lapses before the
deadline (2); an item is enqueued, delivered, purged and enqueued again in
`digest_attempts`, where the retention is 1.  Two leases are two competing
briefings; two channels are one that is confirmed while the other fails; two
attempts are one that is retried and one that is the last.  `EnqueueUntil` and
`MaxTime` only end the run; when the clock stands everything else stays enabled,
so no run checks for less than the code does.  Lease ids are symmetric;
items are not (priority, topic), and no symmetry is used for liveness.

`TopicNotSplit` is checked without the v1 clients: `Lease` takes single items
and splits topics by design.  `DigestQueue` has no clock, no leases and no
claims; `ImplementsQueue` says that every transaction is one of its steps or
invisible, in particular that items and deliveries end together although they
are in two buckets.

For the direct lane: two polls and two messages race for one place of each lane,
and a day is one unit, so that midnight falls between any two of their steps; on three days
with a retention of one a record is admitted, purged and admitted again.  In
`direct_claims` a lease is one unit and a delivery may take longer, so a late
runner meets the claim that replaced its own; three tokens are one more than the two
runners can hold, and leave one in a record whose runner is gone.  Two attempts are
one that is retried and one that is the last; one fault is a crash or a lost write at any
step, and one toggle a channel that goes missing or comes back at any step.
`direct_completes` has a third attempt, since its timers
matter, and all three ways of an end.  `DayLength` and `MaxDay` only divide time; when the
calendar stands, timers go on.

For the parts of `MCPlatform`, each bound is the least at which its hazard can happen, and mostly one
more.  config: two requests at once, one edit with an editor at any step, one restart; the requests cover every handler that
writes.  supervisor: two calls, one of them made by `Shutdown`, a queue of one, a circuit of two failures, one child.  So backoff and circuit are reached, but the
start of a second child behind them is not; with two children the same
instance was searched through 4.2 million states without a violation, but not to its end, which is more than a run has time for.  pipeline: the same story from two sources, a limit of one a minute, a
queue of one, two tries, two fetches that may run at once, one store fault, one restart.  No source is in digest
mode there, or the two would share no sink; with one in digest mode (`DigestSources = {macro}`) the part passes as well (330,000 states).  bucket: a capacity of two, an interval of two
units, eight units.  discord: two senders of one message, three sends, a backoff of two, one lapse.  health: two polls at once,
thresholds one and three, two changes or resets.  worker: three attempts on two slots, so that a cycle has two waves, up to two stuck
sends, which is every slot.  slots: two days, the second without trading, two slots a day, a crash, a fault and a step back of the clock.
alerts: two price alerts and a news alert, two of them for one time, a price loop and a news checker.  archive: three identifiers,
limits of one and two, one death.  subscribers: three users, one broadcast at a time, two runs, two events.  parted: every text up to four
characters of one or three bytes and newlines, parts of four bytes, two attempts.  index: an item, a delivery and a sink - operations
touch the entries of one record, or of one of each kind -, two writes, one of another program, two callers of `Stats`.
feed: three entries of which two are shown and one is handed out per fetch, one without an identifier, a repost, two polls.
briefing: five items in three topics, a lease of two topics, two lines.
The callers of the statistics are symmetric; no other part has symmetric values, and `platform_progress` uses no symmetry.

For the lifecycle: two callers race for one change, and there is one object to replace
the configured one with; the loser finds it taken or removes the source.  Two generations
are a goroutine that is replaced and the one that replaces it, and either may still be in any
part of its poll when the engine is stopped.  One triggered poll is a second
thread on the same object; one task makes the queue empty or full.  The inductive
invariant of the proofs was also checked on three generations and three objects with two callers
(8.4 million states).  Deadlock is not checked, since a stopped engine does nothing more.

Fairness of DigestStore (`LiveSpec`).  `WF(Tick)`: time passes.  `WF(ExpireDue)`: the worker's
loop runs a cycle every five seconds and each starts with `ExpireDue`
(`digest_delivery_worker.go:150-173`).  This assumes that a cycle ends, hence that
channels honour their context or return at last; a channel that never returns keeps
a slot for good, and when every slot is taken the cycle waits in `sendBounded`
until the worker is stopped.  Nothing is assumed of senders, completions, briefings or
operators, and crashes are unrestricted: `EverythingSettles` is about what the
clock and the loop achieve alone.

Fairness of DirectRoute.  Time passes; the recovery loop looks again every
30 s (`news_engine.go:426-438`); a runner goes on with what it holds, since each of its
calls has a timeout (`routing.go:171`, `194`, `205`); `Stop` cancels and
drains (`news_engine.go:501-540`); a service that is down is started.  A poll that has begun goes on,
but polls need not come, and no stop, toggle, success of a dispatch or
absence of faults is assumed.  `EveryAdmissionCompletes` is thus what the recovery loop and the
limit of attempts achieve together.  `Timely` says that a delivery ends before
its lease of a minute: 20 s for the dispatches and 2 s for each checkpoint
(`routing.go:171`, `194`), as long as channels honour their context.  The runs that do not need it
do without it.

Fairness of SourceLifecycle.  Fetches end, with their context or a timeout of their own, and so do
the effects of a poll; callers, `Stop`, closers and workers go on (weak fairness, as nothing else
disables their steps for good; `ChangeEnds` needs that the gate keeps new readers
out while a writer waits, which is what `EnterGateFirst` takes away).  `LeaveLoop` has strong fairness: when both the
ticker and the context are ready, Go's `select` takes one at random
(`news_engine.go:561-568`), so a goroutine that comes back to it with a cancelled context leaves at
some point.  No trigger, change, signal or stop is assumed.

Fairness of the parts.  Supervisor: the worker goroutine and the goroutines of `Close` go on, the grace of a kill ends,
and a process that was killed is waited for (`supervisor.go`: every wait has a timer or ends with the process);
no child need read, answer or exit by itself.  Pipeline: the ticker starts a round and the round goes on; neither polls nor
the success of a dispatch are assumed, so `RetryQueueDrains` rests on the limit of tries.  Health: sources are polled for ever, a
fetch has a timeout, and the recovery interval passes; the site may turn as it likes, and `KeepsProbing` is about the
behaviours in which it answers from some point on.  Worker: `SF(Woken)` and `SF(EndLoop)`, since the loop's `select` chooses at random
among what is ready, and weak fairness for cycles, attempts, returning sends and timeouts.  Nothing is assumed of
stuck sends; `WakeIsServed` excepts the moment in which they hold every slot.

### Findings

Three have a run that shows the violation.

1. `digest_index_revives`.  With the indexes, a delivery with one exhausted
   channel and another that is due is expired and claimed in one transaction; the
   claimed copy is written last.  The delivery is pending, its items are expired.
   From then on `ExpireDue` meets the fence mismatch on every cycle, rolls back,
   and the worker returns before it claims anything.
2. `direct_skipped`.  A channel disabled between the look-up by `deliverDirectClaim` and
   the broadcast is skipped without an error and checkpointed as delivered: the
   admission completes although nothing was sent, where the comment beside the checkpoint
   promises delivery at least once.  `OutcomeIsJustified` is the weaker
   property that does hold.
3. `source_panics`.  `Stop` closes the evaluator's queue (`news_engine.go:504-506`) before it waits for the polls
   (`537`).  A poll that is dispatching submits its next message to a closed
   channel, and the process ends in a panic.

The following are stated in the modules as properties the code does not keep.  They have no run of their own; to see one fail,
name it in the cfg of its module's run (with `Parts` set to the part, for those of `MCPlatform`).

4. `SentWasPosted` (`DiscordThreads`).  A send is remembered by the deduplication of its thread before it is appended
   (`thread_dedup.go`, `discord.go`).  If it then fails, for want of a token or after the last backoff, its retry is
   skipped as a repetition and reported as sent: the message is confirmed and was never posted.
5. `PrepareCoversLease` (`DigestStore`).  When the poll loop expires one member of a lease
   before the briefing is dispatched, `PrepareDelivery` does not notice, and
   creates a delivery for the others although the message covers all of them.
6. `SourceKeepsPolling` (`SourceLifecycle`).  The goroutine of a source of trading days returns when it is started on a
   day without trading (`news_engine.go:578-582`), where the loop below it goes on over such days.  The
   source stays registered as running and is not polled until it is changed or the service is restarted.
7. `RoundKeepsArrivals` (`MessagePipeline`).  A round of the retry queue ends by replacing the queue with what is left of the
   entries it began with (`retry_queue.go:100-121`): what polls have added meanwhile is gone, untried.
8. `FailureCountedOnce` (`Supervisor`).  Reader, waiter and caller of a crashed child may each count the crash, so the
   circuit can open after fewer crashes than configured.
9. `ProviderFollowsConfig` (`ConfigManager`).  A `PUT` of keys changes the LLM section without notifying anybody, and notifications run
   concurrently, so the provider may stay with an older section.
10. `MaskIsRefused` (`ConfigManager`).  A key that is sent back masked is stored as the key, against the comment of
    the handler (`api/server.go:1646`).

Another is part of the model and excepted by its property: the validators of an RSS answer are remembered before the body is read
(`rss.go:394-401`), so entries of a body that fails are not asked for again until the feed changes (`spoiled` in
`QuietMeansHandedOver`).

## 4. The proofs

| Theorem | Says, for every value of the constants |
|---|---|
| `TypeCorrect` | `Spec => []TypeOK` of `DigestStore`; the types include `attempts \in 0..MaxAttempts` |
| `FenceHolds` | `NoRevival => (Spec => []DeliveryFence)` |
| `DigestsStayDisjoint` | `NoRevival => (Spec => []DigestsDisjoint)` |
| `EndsAreFinal` | `Spec => TerminalIsFinal` |
| `ExpiriesAreJustified` | `Spec => []ExpiryIsJustified` |
| `AcknowledgedWasReceived` | `Spec => []AckedMeansReceived` |
| `ConfirmationsAreFinal` | `Spec => DeliveredSinkIsFinal` |
| `ClaimsAreExclusive` | `Spec => []LiveClaimIsExclusive` |
| `TopicsTravelTogether` | `~Legacy => (Spec => []TopicNotSplit)` |
| `StoreImplementsQueue` | `NoRevival => (Spec => ImplementsQueue)`: `DigestStore` implements `DigestQueue` |
| `DirectTypeCorrect` | `Spec => []TypeOK` of `DirectRoute`, with `attempts \in 0..MaxAttempts` |
| `RecordsAreCompleted` | `Spec => []FinishedIsCompleted` |
| `DirectClaimsAreExclusive` | `Spec => []ClaimIsExclusive` |
| `OutcomesAreJustified` | `Spec => []OutcomeIsJustified` |
| `LanesStayApart` | `Spec => []LaneFence` |
| `QuotasAreExact` | `Spec => []QuotaExact` |
| `StopsLeaveNoClaim` | `Spec => []StopLeavesNoClaim` |
| `ConfirmedNotResent` | `Timely => (Spec => NoResend)` |
| `LaneKeepsPromise` | `Spec => KeepsPromise`: `DirectRoute` implements `DirectPromise` |
| `LifecycleTypeOK` | `Spec => []TypeOK` of `SourceLifecycle` |
| `LifecycleEffects` | `Spec => []EffectsAreCurrent` |
| `LifecycleOpen` | `Spec => []LoopSourceIsOpen` |
| `LifecycleOneLoop` | `Spec => []OneLoop` |
| `LifecycleQuiet` | `Spec => []NothingRunsAfterStop` |
| `LifecycleFence` | `Spec => KeepsFence`: `SourceLifecycle` implements `SourceFence` |
| `RateIsAlwaysKept` | `BucketSpec => []RateIsKept` of `TokenBucket` |
| `StandingIsTold` | `HealthSpec => []ToldHowItStands` of `SourceHealth` |
| `CloseLeavesNothing` | `SupervisorSpec => []NothingLeftRunning` of `Supervisor` |
| `ClaimOutlastsItsWaves` | `WorkerSpec => []CompletesWithinClaim` of `DeliveryWorker` |
| `EngineFollowsConfig` | `ConfigSpec => []SourceFollowsConfig` of `ConfigManager` |
| `OthersAreLeftAlone` | `ConfigSpec => UntouchedSettings`, an action property |
| `IndexesStayExact` | `IndexSpec => []IndexesAreExact` of `DigestIndex` |
| `StatsStayCurrent` | `IndexSpec => []StatsAreCurrent` |
| `QuietPollsMissNothing` | `FeedSpec => []QuietMeansHandedOver` of `FeedFetch` |
| `SlotsRunAsScheduled` | `SlotSpec => []ScheduleIsKept` of `ScheduleSlots` |
| `BriefingsShowWhatTheyTake` | `BriefingSpec => []PreparedIsShown` of `Briefing` |
| `QueriesSeeTheDatabase` | `ArchiveSpec => []ListShowsRecords` of `NewsArchive` |
| `ChannelsAreSpared` | `PipelineSpec => []SinksAreSpared` of `MessagePipeline` |
| `AlertsFireSparingly` | `AlertSpec => []FiresAreFew` of `AlertEngine` |
| `ForumStaysTidy` | `DiscordSpec => []ForumIsTidy` of `DiscordThreads` |
| `MessagesArriveWhole` | `PartedSpec => []MessageIsWhole` of `PartedSend` |
| `BroadcastsReachFollowers` | `SubscribersSpec => []FollowersAreReached` of `Subscribers` |

So every safety property that a passing run checks is also a theorem.

Each rests on the assumption on the constants that its module states (`DigestConstants`, `DirectConstants`,
`LifecycleConstants`, `BucketAssumption` and so on), which TLC evaluates in the runs.  They say that
durations, limits and lengths are positive, that a value for "nothing" is nothing else, and that what the code counts is finite:
the goroutines that check alerts, the senders of the bot, the users who follow, the messages
of the pipeline and its sinks, the records of the indexes, the stories of a briefing.  Beyond that: a part of a message may hold a
character (`MaxBytes >= Widest`); a briefing renders as many lines as it leases topics (`TopicLimit <= MaxRendered`, the code
uses one constant for both); an item with a text has a length that is not zero; the files an operator writes have a
secret for a source that is there only, and a secret is not the mask; thresholds of the health are ordered.
The sets that are only ever quantified over (items, leases, channels, tokens, callers, polls) may be infinite.

Five theorems take a hypothesis beside the constants.  `NoRevival` (`FenceHolds`, `DigestsStayDisjoint`, `StoreImplementsQueue`): the
indexes are off, or every briefing has one channel at most; it is the negation of the cause of finding 1, without
it the fence does not hold, and the other two rest on the fence.  `~Legacy` (`TopicsTravelTogether`): no client of the first version, whose `Lease` takes single
items by design.  `Timely` (`ConfirmedNotResent`): deliveries end before their leases.

The inductive invariants of the digest store.
- `TypeOK` is inductive: a claim is only granted to a sink that is not exhausted.
  With the indexes that needs the fact that a claimable sink is due, because
  only due sinks are seen as exhausted.
- `FenceInv` adds to the fence that an ended item is no longer in a pending
  delivery and that the configured channel sets are the ones in use.  It needs
  `NoRevival`, since an index may hand the pass a delivery it has just expired.
- `LeasesUsedOnce`: a lease that can still be prepared has no delivery yet, and
  its items are handed out under that lease alone; from it, digests are disjoint.
- Expiry is justified because the reason is computed from the record the same
  transaction ends, and an ended record is final.
- For claims: a token never exceeds the attempts of its sink, live attempts have
  the token of their sink and a claim time not above the sink's, and two live attempts on
  a sink have the same token, hence are the same.
- For acknowledgement: a delivered checkpoint implies a receipt, and receipts are
  never taken back; a purged delivery leaves acknowledged items whose delivery is
  gone, which the property allows for.
- `TopicNotSplit` is inductive together with the types: only a lease makes an item active (`ActiveKept`), and a lease of
  topics takes from topics of which nothing is in flight but what expires in the same transaction (`TopicsTaken`).
- The refinement of `DigestQueue` uses `FenceInv`.  Every action is a sequence of changes of single records;
  the lemmas say for each what it does to the stage of an item and to the set a digest commits, and then
  that the transaction as a whole is one step of the queue, or none: the fence is what makes the items of an ending
  delivery end with it and no others.

The inductive invariant of the direct lane (`Inv` of `DirectRouteProofs`) has six parts.
- `RecordsOk`: a record is completed if and only if it is finished, a completed one has no token,
  a channel at the limit of attempts has been given up, none is both delivered and given up.
- `JobsOk`: a runner holds a token exactly between its claim and its
  release, and a channel between its look-up and its checkpoint.
- `TokensUnique`: no two runners hold the same token; a claim takes an unused one.
- `ClaimsHold` is the core: as long as the record names the token of a runner,
  every channel the runner still has to settle is open in the record, the lease of
  the record is not below the runner's own, and what it is about to report is true.
  A checkpoint by a stale claim changes nothing because the record names another token.
- `LiveHasClaim`: as long as a runner's lease lasts and it has something to send, the record
  names its token; together with `TokensUnique` this is `ClaimIsExclusive`.

On top of it, lanes need that digest dates are never in the future (`DatesPassed`);
quotas need more (`QuotaInv`): the counters of today are the admissions dated today (`Counted`) and within their limits, those of
later days are zero and no record is dated later, so that a midnight starts from zero; and what is downgraded
is never critical, since critical items are not counted and never denied.  A stop needs that without faults every token of a record is held by a runner
and that a stopped process has none (`HoldersKnown`, `DownIsQuiet`); no resend needs
that under `Timely` a runner with a token has a lease left (`ClaimsLast`).
The refinement follows from `QuietStep` (all but three kinds of steps leave stage and
outcome alone) and one lemma for each of admission, checkpoint and purge.

The inductive invariant of the lifecycle (`IInv` of `SourceLifecycleProofs`) is the type invariant, the
properties `LoopSourceIsOpen` and `OneLoop`, and these parts:
- `ThreadsOk`: a thread that polls has an object that was registered; the goroutine of a generation carries
  its number, and two goroutines never have the same object, which is why an object may be closed after
  one goroutine has ended.
- `LoopsOk` is the core: a goroutine that goes on is the registered one, or its object waits for it to be closed.
- `RegistryOk`: the registered object is open until the engine has stopped, and a registered goroutine has
  the current generation and that object.
- `ClosingOk`: an object that waits to be closed is not registered, and belongs to the goroutine it waits for.
- `ChangesOk`: the object of a prepared change is nobody else's, and a change at the gate that still applies has
  cancelled the goroutine it will replace; this is what `OneLoop` needs of the caller that loses.
- `PhaseOk`: before the start nothing has happened; the evaluator is empty from the end of its `Stop` on, and a
  stopped engine has no thread.
- `InEffects`: a thread with effects has the registered source and generation, since a change waits until nobody
  has any.

With the registered object open this is `EffectsAreCurrent`; only a goroutine polls after
its source was replaced, and its object is closed later, which is `LoopSourceIsOpen`.
`LifecycleFence` follows too: a change happens when nobody reads, hence when nobody applies, and a thread
begins to apply only what is current.

The invariants of `PlatformProofs`.
- `Paid`, for the bucket: tokens given out and tokens left were paid for by the capacity and by the time up to the last refill.
  `RateIsKept` speaks of what was given out only, and of the clock, so it is not inductive: a bucket that holds
  too much keeps it until somebody asks.  That a refill drops the fraction of an interval is what makes the step go through;
  the quotient enters by one lemma (`WholeFits`).
- `ToldInv`, for the health: the second half is kept for every status that is no trouble, since a disabled source, or one
  that awaits its slot, becomes a healthy one without another notice; and listing a source never puts it in trouble (`ListingShape`).
- `ClosedInv`, for the supervisor: only the current child may run, whatever runs under a closed supervisor has been
  signalled, and `Close` returns after the worker.  Most steps only end, mark or signal processes (`Tamer`), and one lemma
  covers them; the start of a child is the one that needs the check of the closed flag under the lock.
- `WavesInv`, for the worker: in a cycle that no stuck send has touched, the attempts that are left and a full wave for every send timeout
  that has passed are no more than the batch (`InTime`), because a timeout that passes ends a whole wave.  Products and quotients enter by `WavesCover`.
- `ConfigInv`, for the configuration: who holds which mutex is at which step, a body that waits to be written differs from the
  live configuration in the request's own settings only, and a request that is about a source knows what the engine runs
  at every one of its steps (`Follows`).  A rollback is allowed only while the revision is the one its own write made, and until then nobody has
  changed anything: that is what makes `UntouchedSettings` hold of the rollback.

The invariants of `ContentProofs`.
- `Exact`, for the indexes: besides the exactness of usable indexes, the second counter never passes the first.  Without
  that, a program that moves the first counter only could make two different counters equal.  A transaction of the store keeps
  the counters' difference and changes the entries by what the record had and has (`ItemStored`, `DeliveryStored`); another program
  makes the difference positive, for good; a rebuild computes the entries anew.
- `StatsInv`: a stamp is good if it is older than the present, or what was counted under it is true now and known to every caller that asked
  under it.  A write makes a new generation and a switch of channels a new revision, so old stamps stay good (`WitnessKeeps`).
- `QuietInv`, for a feed: the version behind every validator, in the source object, in a request or in an answer, is accounted for:
  handed over, being read, or spoiled.  The step that remembers the validators of an answer makes it accounted for before it was
  handed over, which is why a body under way counts.
- `ShownInv`, for briefings: what is leased is shown by the lines, once they are written.  The rendering picks the weightiest story of
  each topic; that it finds one for each needs a weight that orders all stories (`Aspects`).
- `ArchiveInv`: between commit and change of the list, the list that will be is the one that agrees (`ListWillAgree`); the newest records up to the limit
  are an initial stretch of a strict order, so cutting the list and cutting the database leave the same.
- `SlotInv`: a slot with effects is marked, or the goroutine is about to mark it; the slot it waits for lies ahead by exactly the
  timer; and every slot between the start of the wait and the slot it is about is covered: its timer fired, it came during a fetch, or it is excused.

The invariants of `DispatchProofs`.
- `Tally`, for an alert: the notices of a cooldown are charged to the goroutines that check it.  As long as a check may still take the alert
  up, there is a goroutine that fired for every notice; when it cools, those that still hold it from their snapshot are added;
  when it has been removed, those that are about to notify.
- `DiscordInv`: an entry that the memory of a thread does not hold is neither posted nor under way, and one it holds is claimed by at most
  one send (`FirstPartClaims`); threads that exist and threads that are being created are counted against the senders, once
  for each lapse (`ThreadsCounted`).
- `PartedInv`: parts fit, follow one another and leave out newlines only; a send at part `k` has just shown the parts before it, so
  one that ends has shown all; and a part is shown or still due at most once an attempt.  A cut makes progress and fits, because one
  character fits and the largest fitting end is at or behind the first (`FullFits`, `CutFits`).
- `FollowerInv`: a slice holds everybody at one place.  For a walk under way: whoever it will not meet any more was passed over because of somebody who left
  (`PassedOver`), and places at which somebody may be met twice, among them those behind the end of a slice that was shifted, are
  no more than one and those who left (`Meets`).
- `PipeInv`, for the pipeline.  `Copies` counts a message for a sink at the rate limit, in the batch, in the retry queue or its round, and
  sent.  Where the bucket has not failed, it is at most one, one that counts has left its keys (`Marked`), and two that count are not of one story
  (`CopyInv`).  Only the deduplication adds a copy, and then the keys were new; every other step moves or drops copies (`NoNewCopy`,
  `CopiesStay`); keys expire when nothing is under way.  `QueueGood`: queue and round hold a message for a sink once, and
  together no more than `QueueLength` as far as what still waits goes.  `BurstGood`: what a minute has sent and
  what waits for the rule is bounded, before the counter is full by count and queue, afterwards by limit and queue.  The bound of
  `BurstIsBounded`, `MaxPerMinute + 2 * QueueLength`, came out of this proof: the queue counts twice, since entries from before
  the minute may be retried before the counter is full, and those that find it full after the minute is over.

Only model-checked: liveness (`EverythingSettles`, `EveryAdmissionCompletes`, `ChangeEnds`, `StopEnds`, `CloseEnds`, `RetryQueueDrains`,
`KeepsProbing`, `WakeIsServed`, `WorkerEnds`), since the prover handles neither fairness nor `ENABLED`.  What the pure parts compute
is proved as far as the properties need it (`CutEnd`, `Checks`, the ranking of stories); that `Batch` of `FeedFetch` orders and caps
a feed as the code does is what its definition says, and no theorem.

## 5. Not modelled

- The scheduler (`internal/scheduler`): nothing outside its tests constructs it.
- Script and report sources: one request or child process per fetch, then parsing and formatting; no state survives a fetch.
  Their results are choices in `Briefing`.
- Stores of quotes, market data and keys: upserts and look-ups without a protocol.
- The digest migration tool: offline, one process, run once.  So is the migration of the time to live when a store opens.
- Records of earlier versions in the admission bucket, and the quarantine of records that cannot be decoded.
- Channels: the receiving side of Telegram, the access token of WeChat, the REST and personal WeChat channels, the
  Discord bot without threads; each is a request and its answer, without shared state that a property would be about.
- The LLM client: its calls, cache and hourly limit; the verdicts are choices.
- Handlers of the admin API that only read or try something out; listings; `FetchOnly`, which has no effects;
  `EnableSource` and `DisableSource`, which nothing calls; the order in which the application closes its parts.
- Similarity of texts, keywords, prompts, scores, layout, formatting; metrics, logging, the web console, the Python scripts, deployment.

## 6. What is left to do

1. Proofs: the weaker facts that hold where `NoRevival` does not (which of the fence survives a revival), and the refinement of the
   abstract pipeline below.
2. An abstract specification of the pipeline (a message is held, delivered, or dropped for a reason) for `MessagePipeline` to implement.
3. The order of the application's shutdown over `SourceLifecycle`, `DeliveryWorker` and `Supervisor`.
