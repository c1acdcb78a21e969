-------------------------- MODULE MessagePipeline --------------------------
(***************************************************************************)
(* What happens to the messages of a poll between the fetch and the        *)
(* channels: the filter chain (content, deduplication, AI, rate limit),    *)
(* the enhancer, and the dispatch; and the retry queue of the messages the *)
(* rate limit held back, which a goroutine of the engine works through     *)
(* every 30 seconds while polls go on adding to it.                        *)
(* Sources are polled concurrently.  The deduplication marks a message as  *)
(* seen when it lets it through, long before anybody delivered it.         *)
(***************************************************************************)
EXTENDS Naturals, Sequences, FiniteSets, SequencesExt

CONSTANTS News,          \* messages, with a source, a story and a kind
          Sources, DigestSources,  \* the second: sources in digest mode
          Grouped,       \* sources of the configured deduplication group
          Sinks, Skipped,          \* the second: sinks exempt from it
          DigestSink,    \* the sink digest items are filtered under
          MaxPerMinute,  \* the rule that limits source -> sink
          QueueLength, MaxRetries, \* of the retry queue
          MaxFetches, MaxFaults, MaxPipelineRestarts  \* bounds of the model

ASSUME PipelineAssumption ==
  /\ IsFiniteSet(News) /\ \A m \in News : m.source \in Sources
  /\ IsFiniteSet(Sinks) /\ Sinks # {} /\ DigestSink \notin Sinks
  /\ QueueLength \in Nat \ {0} /\ MaxPerMinute \in Nat

VARIABLES seen,      \* keys of the persisted deduplication bucket
          similar,   \* stories the semantic cache of a sink remembers
          judged,    \* verdicts the AI filter has cached, by message
          counter,   \* rate limit counters, by source and sink
          retryQ,    \* the retry queue
          round,     \* the round of the retry processor
          poll,      \* the poll of each source
          received, burst, doubt, fetches, faults, restarts

pipelineVars == <<seen, similar, judged, counter, retryQ, round, poll,
                  received, burst, doubt, fetches, faults, restarts>>

Lanes == Sinks \cup {DigestSink}
Counters2 == Sources \X Lanes
Closed == [open |-> FALSE, count |-> 0]
NoPoll == [at |-> "idle", batch |-> <<>>, todo |-> <<>>, passed |-> {}]
NoRound == [on |-> FALSE, todo |-> <<>>, keep |-> <<>>]

PipelineInit ==
  /\ seen = {} /\ similar = {} /\ judged = [m \in {} |-> "pass"]
  /\ counter = [k \in Counters2 |-> Closed]
  /\ retryQ = <<>> /\ round = NoRound
  /\ poll = [s \in Sources |-> NoPoll]
  /\ received = [d \in News \X Lanes |-> 0]
  /\ burst = [k \in Counters2 |-> 0]
  /\ doubt = {} /\ fetches = 0 /\ faults = 0 /\ restarts = 0

----------------------------------------------------------------------------
(* A poll: fetch, filter each message for each of its sinks, enhance,      *)
(* dispatch message by message.                                            *)

\* The sinks a source's messages are checked for.
SinksOf(s) == IF s \in DigestSources THEN {DigestSink} ELSE Sinks

\* Every message for every sink, message by message.
Checks(s, batch) ==
  LET ks == SetToSeq(SinksOf(s))
      n  == Len(ks)
  IN [i \in 1..(Len(batch) * n) |-> [msg  |-> batch[((i - 1) \div n) + 1],
                                     sink |-> ks[((i - 1) % n) + 1]]]

Fetch(s) ==
  /\ poll[s].at = "idle" /\ fetches < MaxFetches
  /\ \E ms \in SUBSET {m \in News : m.source = s} :
       /\ ms # {}
       /\ LET batch == SetToSeq(ms)
          IN poll' = [poll EXCEPT ![s] = [at |-> "dedup", batch |-> batch,
                                          todo |-> Checks(s, batch), passed |-> {}]]
  /\ fetches' = fetches + 1
  /\ UNCHANGED <<seen, similar, judged, counter, retryQ, round, received,
                 burst, doubt, faults, restarts>>

\* The check of the head of the list is over: on to the next one.
Checked(p, pass) ==
  LET rest == Tail(p.todo)
  IN [p EXCEPT !.at = IF rest # <<>> THEN "dedup" ELSE "enhance", !.todo = rest,
               !.passed = IF pass THEN @ \cup {Head(p.todo)} ELSE @]

ExactKey(m, k) == [stage |-> "exact", source |-> m.source, sink |-> k, of |-> m]
\* Mutant: the key of the content always names the source.
ContentKeyBySource(m, k) == [stage |-> "content", source |-> m.source, sink |-> k, of |-> m.story]
\* In the digest lane the key of the content names the source as well, so
\* that the same story of another source passes.
ContentKey(m, k) ==
  [stage |-> "content", source |-> IF k = DigestSink THEN m.source ELSE "any",
   sink |-> k, of |-> m.story]
Meaning(m, k) == [sink |-> k, story |-> m.story]

\* The keys the first two stages check and set, in their order.
Keys(m, k) ==
  IF m.kind = "news" /\ m.source \in Grouped THEN <<ExactKey(m, k), ContentKey(m, k)>>
  ELSE <<ExactKey(m, k)>>

\* The verdict of the deduplication and the marks it leaves: the marks of
\* the stages before the one that stops the message stay.  The store fails
\* for the keys of `broken`: they neither stop the message nor are set.
Dedup(m, k, broken) ==
  IF k \in Skipped THEN [stops |-> FALSE, set |-> {}, sem |-> FALSE]
  ELSE LET ks   == Keys(m, k)
           hit  == {i \in DOMAIN ks : ks[i] \in seen /\ ks[i] \notin broken}
           upto == IF hit = {} THEN Len(ks) + 1 ELSE CHOOSE i \in hit : \A j \in hit : i <= j
       IN [stops |-> hit # {},
           set |-> {ks[i] : i \in 1..(upto - 1)} \ broken,
           sem |-> hit = {} /\ m.kind = "news" /\ k # DigestSink]

\* What the content filter stops: short, blocked or empty texts.
Noise(m) == m.kind = "noise"

\* One message for one sink: content filter, exact key, content key, and
\* the semantic cache, which keeps the message although it stops it.
CheckSeen(s) ==
  LET m == Head(poll[s].todo).msg
      k == Head(poll[s].todo).sink
      NextIs(pass) ==
        poll' = [poll EXCEPT ![s] = IF pass THEN [@ EXCEPT !.at = "limit"]
                                    ELSE Checked(@, FALSE)]
  IN /\ poll[s].at = "dedup"
     /\ IF Noise(m)
        THEN NextIs(FALSE) /\ UNCHANGED <<seen, similar, doubt, faults>>
        ELSE \E broken \in SUBSET Range(Keys(m, k)) :
               LET v == Dedup(m, k, broken)
                   again == v.sem /\ Meaning(m, k) \in similar
               IN /\ faults + Cardinality(broken) <= MaxFaults
                  /\ faults' = faults + Cardinality(broken)
                  /\ seen' = seen \cup v.set
                  /\ similar' = IF v.sem THEN similar \cup {Meaning(m, k)} ELSE similar
                  /\ doubt' = IF broken # {} THEN doubt \cup {[msg |-> m, sink |-> k]} ELSE doubt
                  /\ NextIs(~ v.stops /\ ~ again)
     /\ UNCHANGED <<judged, counter, retryQ, round, received, burst, fetches, restarts>>

\* Adding to the retry queue: once per message and sink, the oldest entry
\* makes room when it is full.
Enqueued(q, d) ==
  IF \E i \in DOMAIN q : q[i].msg = d.msg /\ q[i].sink = d.sink THEN q
  ELSE Append(IF Len(q) >= QueueLength THEN Tail(q) ELSE q,
              [msg |-> d.msg, sink |-> d.sink, tries |-> 0])

\* The counter of a source and a sink, new when its minute is over.
Open(k) == IF counter[k].open THEN counter[k] ELSE [open |-> TRUE, count |-> 0]

\* The verdict of the AI filter: the cached one; or else a call to the
\* provider, whose errors let the message pass; or, beyond the budget of
\* the minute, none, and the message passes.
Verdicts(m) == IF m \in DOMAIN judged THEN {judged[m]} ELSE {"pass", "block", "beyond budget"}
\* Only a verdict is cached, an error of the provider among them.
JudgedWith(m, v) ==
  IF v = "beyond budget" THEN judged
  ELSE [n \in DOMAIN judged \cup {m} |-> IF n = m THEN v ELSE judged[n]]

\* The AI filter, then the rate limit.
CheckLimit(s) ==
  LET d == Head(poll[s].todo)
      k == <<s, d.sink>>
      c == Open(k)
      full == c.count >= MaxPerMinute
      NextIs(pass) == poll' = [poll EXCEPT ![s] = Checked(@, pass)]
  IN /\ poll[s].at = "limit"
     /\ \E v \in Verdicts(d.msg) :
          /\ judged' = JudgedWith(d.msg, v)
          /\ IF v = "block"
             THEN NextIs(FALSE) /\ UNCHANGED <<counter, burst, retryQ>>
             ELSE /\ counter' = [counter EXCEPT ![k] = IF full THEN c ELSE [c EXCEPT !.count = @ + 1]]
                  /\ burst' = [burst EXCEPT ![k] =
                        (IF counter[k].open THEN @ ELSE 0) + (IF full THEN 0 ELSE 1)]
                  /\ retryQ' = IF full THEN Enqueued(retryQ, d) ELSE retryQ
                  /\ NextIs(~ full)
     /\ UNCHANGED <<seen, similar, round, received, doubt, fetches, faults, restarts>>

\* Messages without a sink left go no further.
Filtered(s) == {d.msg : d \in poll[s].passed}
\* The enhancer marks messages as noise, each with a call of its own that
\* may fail; they are dropped for every sink.
Enhance(s) ==
  /\ poll[s].at = "enhance"
  /\ \E dropped \in SUBSET Filtered(s) :
       poll' = [poll EXCEPT ![s].at = "send", ![s].passed = {d \in @ : d.msg \notin dropped}]
  /\ UNCHANGED <<seen, similar, judged, counter, retryQ, round, received,
                 burst, doubt, fetches, faults, restarts>>

\* The first message of the batch that has sinks left.
FirstOf(p) ==
  LET waits(i) == \E d \in p.passed : d.msg = p.batch[i]
  IN p.batch[CHOOSE i \in DOMAIN p.batch : waits(i) /\ \A j \in 1..(i - 1) : ~ waits(j)]

\* The next message goes to its sinks.  The error of a dispatch is logged
\* and the poll goes on; an item that cannot be enqueued for the digest
\* ends the poll, and the rest of the batch with it.
Send(s) ==
  LET m == FirstOf(poll[s])
      mine == {d \in poll[s].passed : d.msg = m}
  IN /\ poll[s].at = "send" /\ poll[s].passed # {}
     /\ \E ok \in SUBSET mine :
          /\ received' = [d \in DOMAIN received |->
                received[d] + (IF [msg |-> d[1], sink |-> d[2]] \in ok THEN 1 ELSE 0)]
          /\ poll' = [poll EXCEPT ![s].passed =
                        IF s \in DigestSources /\ ok = {} THEN {} ELSE @ \ mine]
     /\ UNCHANGED <<seen, similar, judged, counter, retryQ, round, burst,
                    doubt, fetches, faults, restarts>>

EndPoll(s) ==
  /\ poll[s].at = "send" /\ poll[s].passed = {}
  /\ poll' = [poll EXCEPT ![s] = NoPoll]
  /\ UNCHANGED <<seen, similar, judged, counter, retryQ, round, received,
                 burst, doubt, fetches, faults, restarts>>

----------------------------------------------------------------------------
(* The retry processor: copies the queue, tries every entry of the copy,   *)
(* and then replaces the queue by what is left of the copy.                *)

StartRound ==
  /\ ~ round.on /\ retryQ # <<>>
  /\ round' = [on |-> TRUE, todo |-> retryQ, keep |-> <<>>]
  /\ UNCHANGED <<seen, similar, judged, counter, retryQ, poll, received,
                 burst, doubt, fetches, faults, restarts>>

\* The entry stays for another round, unless it was its last.
\* Mutant: the tries are not counted.
AgainUncounted(e) == Append(round.keep, e)
Again(e) == LET f == [e EXCEPT !.tries = @ + 1]
            IN IF f.tries < MaxRetries THEN Append(round.keep, f) ELSE round.keep

\* The check neither enqueues nor counts what it lets pass; a counter
\* whose minute is over lets everything pass.
Retry ==
  LET e == Head(round.todo)
      k == <<e.msg.source, e.sink>>
      Step(keep) == round' = [round EXCEPT !.todo = Tail(@), !.keep = keep]
  IN /\ round.on /\ round.todo # <<>>
     /\ \/ /\ counter[k].open /\ counter[k].count >= MaxPerMinute
           /\ Step(Again(e))
           /\ UNCHANGED <<received, burst>>
        \/ /\ ~ (counter[k].open /\ counter[k].count >= MaxPerMinute)
           /\ \/ /\ Step(round.keep)
                 /\ received' = [received EXCEPT ![<<e.msg, e.sink>>] = @ + 1]
                 /\ burst' = [burst EXCEPT ![k] = @ + 1]
              \/ Step(Again(e)) /\ UNCHANGED <<received, burst>>
     /\ UNCHANGED <<seen, similar, judged, counter, retryQ, poll, doubt,
                    fetches, faults, restarts>>

EndRound ==
  /\ round.on /\ round.todo = <<>>
  /\ retryQ' = round.keep
  /\ round' = NoRound
  /\ UNCHANGED <<seen, similar, judged, counter, poll, received, burst,
                 doubt, fetches, faults, restarts>>

----------------------------------------------------------------------------
(* Time and restarts.                                                      *)

MinuteEnds(k) ==
  /\ counter[k].open
  /\ counter' = [counter EXCEPT ![k].open = FALSE]
  /\ UNCHANGED <<seen, similar, judged, retryQ, round, poll, received,
                 burst, doubt, fetches, faults, restarts>>

\* Nothing of a message is on its way: not in a poll, not in a retry.
Quiet(k) == /\ \A s \in Sources : \A d \in Range(poll[s].todo) \cup poll[s].passed : d.sink # k
            /\ \A e \in Range(retryQ) \cup Range(round.todo) \cup Range(round.keep) : e.sink # k

\* A day later the keys of a sink have expired, whether the cleanup has
\* removed them or not, and so has the window of the semantic cache.
KeysExpire(k) ==
  /\ Quiet(k) /\ \E x \in seen : x.sink = k
  /\ seen' = {x \in seen : x.sink # k}
  /\ similar' = {x \in similar : x.sink # k}
  /\ received' = [d \in DOMAIN received |-> IF d[2] = k THEN 0 ELSE received[d]]
  /\ doubt' = {d \in doubt : d.sink # k}
  /\ UNCHANGED <<judged, counter, retryQ, round, poll, burst, fetches, faults, restarts>>

\* Only the bucket survives a restart.
Restart ==
  /\ restarts < MaxPipelineRestarts
  /\ similar' = {} /\ judged' = [m \in {} |-> "pass"]
  /\ counter' = [k \in Counters2 |-> Closed] /\ burst' = [k \in Counters2 |-> 0]
  /\ retryQ' = <<>> /\ round' = NoRound
  /\ poll' = [s \in Sources |-> NoPoll]
  /\ restarts' = restarts + 1
  /\ UNCHANGED <<seen, received, doubt, fetches, faults>>

PipelineNext ==
  \/ \E s \in Sources : \/ Fetch(s) \/ CheckSeen(s) \/ CheckLimit(s)
                        \/ Enhance(s) \/ Send(s) \/ EndPoll(s)
  \/ StartRound \/ Retry \/ EndRound
  \/ \E k \in Counters2 : MinuteEnds(k)
  \/ \E k \in Lanes : KeysExpire(k)
  \/ Restart

\* The ticker of the retry processor starts a round every 30 seconds and a
\* dispatch returns within its timeouts.
PipelineFairness == WF_pipelineVars(StartRound) /\ WF_pipelineVars(Retry \/ EndRound)

PipelineSpec == PipelineInit /\ [][PipelineNext]_pipelineVars /\ PipelineFairness

----------------------------------------------------------------------------
(* Properties.                                                             *)

\* While its keys live, no channel receives a message twice, nor the same
\* story from two sources of the group, whatever the polls, the retries
\* and a restart do, unless the store failed.
NoSecondCopy ==
  \A k \in Sinks \ Skipped :
    LET got == {m \in News : received[<<m, k>>] > 0}
    IN {d \in doubt : d.sink = k} = {} =>
         /\ \A m \in News : received[<<m, k>>] <= 1
         /\ \A m, n \in got : m.source \in Grouped /\ n.source \in Grouped
              /\ m.kind = "news" /\ n.kind = "news" /\ m.story = n.story => m = n

\* The retries do not count against the limit: the messages that start for
\* a sink between two resets of the counter exceed the rule, but by no
\* more than the retry queue holds twice: once with entries from before the
\* minute, retried before the counter is full, and once with those that find
\* it full, retried when the minute is over.
BurstIsBounded == \A k \in Counters2 : burst[k] <= MaxPerMinute + 2 * QueueLength

\* No entry stays in the retry queue for ever.
RetryQueueDrains == \A m \in News, k \in Sinks :
  (\E i \in DOMAIN retryQ : retryQ[i].msg = m /\ retryQ[i].sink = k)
    ~> ~ (\E i \in DOMAIN retryQ : retryQ[i].msg = m /\ retryQ[i].sink = k)

\* Nobody is sent more than he should be.
SinksAreSpared == NoSecondCopy /\ BurstIsBounded

\* An entry leaves the retry queue because it was tried or had to make
\* room for another, not because a round did not know of it.  The code does
\* not keep this: the end of a round replaces the queue by what the round
\* has left of the entries it began with (retry_queue.go:100-121).
RoundKeepsArrivals == [][EndRound => \A i \in DOMAIN retryQ :
    retryQ[i].tries > 0 \/ retryQ[i] \in Range(retryQ')]_pipelineVars

=============================================================================
