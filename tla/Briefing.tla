------------------------------ MODULE Briefing -------------------------------
(***************************************************************************)
(* The market briefings: scripts and quotes run under one deadline and     *)
(* each of them may fail, the news waiting for the briefing is leased by   *)
(* topic and rendered one line a topic, and the message goes to a durable  *)
(* delivery, which acknowledges every leased item, or, when nothing was    *)
(* leased, through the deduplication.                                      *)
(* The leases are those of DigestStore; here it matters which items they   *)
(* hold and what becomes of the items in the text.                         *)
(***************************************************************************)
EXTENDS Naturals, FiniteSets

CONSTANTS BriefingStories,          \* the news items, by what rendering looks at
          TopicLimit, MaxRendered,  \* of a lease and of a summary: 12 both
          MaxBriefings                   \* bound of the model

ASSUME BriefingAssumption == TopicLimit \in Nat /\ MaxRendered \in Nat /\ TopicLimit <= MaxRendered
\* What rendering weighs are numbers, and a text has a length.
ASSUME StoryAssumption ==
  /\ IsFiniteSet(BriefingStories)
  /\ \A i \in BriefingStories : /\ {i.length, i.short, i.media, i.priority} \subseteq Nat
                                /\ i.text # "none" => i.length > 0

VARIABLES kind, silent,  \* the source: its briefing, its delivery mode
          waiting,       \* items of its bucket that can be leased
          run,           \* the fetch that is going on
          lapsing,       \* items of leases nobody used
          deliveries,    \* prepared: items and lines
          briefings

briefingVars == <<kind, silent, waiting, run, lapsing, deliveries, briefings>>

BriefingKinds == {"pre_market", "closing", "us_preview", "aggregate"}
Sessions == {"pre_market", "morning_close", "afternoon_open", "afternoon_close"}
Idle2 == [at |-> "idle", content |-> FALSE, lease |-> {}, lines |-> {}]

(* The topic of an item: its link, or its title or text; and for the time  *)
(* of a lease its title, if it has one.                                    *)
TopicKey(i) ==
  IF i.link # "none" THEN <<"url", i.link>>
  ELSE <<"title", IF i.title # "none" THEN i.title ELSE i.text>>
LeaseTopicKey(i) == IF i.title # "none" THEN <<"lease", i.title>> ELSE TopicKey(i)
TopicsOf(items) == {{j \in items : LeaseTopicKey(j) = LeaseTopicKey(i)} : i \in items}
PriorityOf(topic) == CHOOSE p \in {i.priority : i \in topic} : \A i \in topic : i.priority <= p

\* itemTopicUsefulness, from the weightiest aspect to the lightest: the
\* text (longer is better), the short text, pictures, a link.
\* Mutant: pictures weigh more than the text.
PicturesFirst(i) == <<i.media, IF i.text = "none" THEN 0 ELSE i.length, i.short, IF i.link = "none" THEN 0 ELSE 1>>
Usefulness(i) == <<IF i.text = "none" THEN 0 ELSE i.length, i.short, i.media, IF i.link = "none" THEN 0 ELSE 1>>
MoreUseful(i, j) ==
  LET a == Usefulness(i)  b == Usefulness(j)
  IN \E k \in 1..4 : a[k] # b[k] /\ a[k] > b[k] /\ \A l \in 1..(k - 1) : a[l] = b[l]
Leads(i, topic) == \A j \in topic \ {i} : ~ MoreUseful(j, i)
Headline(i) == IF i.title # "none" THEN i.title ELSE i.text

\* RenderTopics: the first topics by priority, one line each, with the
\* sources of all its items; a topic whose lead has no headline is left out.
Rendered(topics) ==
  LET lead(t) == CHOOSE i \in t : Leads(i, t)
      rank(t) == Cardinality({u \in topics : PriorityOf(u) > PriorityOf(t)})
  IN {[head |-> Headline(lead(t)), sources |-> {i.source : i \in t}] :
        t \in {t \in topics : rank(t) < MaxRendered /\ Headline(lead(t)) # "none"}}

BriefingInit ==
  /\ kind \in BriefingKinds /\ silent \in BOOLEAN
  /\ waiting \in SUBSET BriefingStories
  /\ run = Idle2 /\ lapsing = {} /\ deliveries = {} /\ briefings = 0

Continue(r) == run' = r /\ UNCHANGED <<kind, silent>>

\* The parts of the text: each script and each group of quotes yields data
\* or nothing, and the narrative of the language model alone is enough.
\* Only the first session of a day has triggers and calendars.  A closing
\* scan that fails is reported, which is content, too.
PreMarketParts(session) ==
  {"quotes", "narrative"} \cup (IF session = "pre_market" THEN {"triggers", "calendar"} ELSE {})
ClosingParts == {"sentiment", "sectors", "flow", "ranks", "scan", "scan failed", "narrative"}
PreviewParts == {"fedwatch", "vix", "quotes", "calendar", "narrative"}

StartRun(k) ==
  /\ kind = k /\ run.at = "idle" /\ briefings < MaxBriefings /\ briefings' = briefings + 1
  /\ UNCHANGED <<waiting, lapsing, deliveries>>
Gathered(next, parts) ==
  IF parts = {} THEN Continue(Idle2) ELSE Continue([Idle2 EXCEPT !.at = next, !.content = TRUE])

\* The briefings of the Chinese market need an open day.
FetchPreMarket ==
  /\ StartRun("pre_market")
  /\ \E session \in Sessions, open \in BOOLEAN : \E parts \in SUBSET PreMarketParts(session) :
       Gathered("dispatch", IF open THEN parts ELSE {})
FetchClosing ==
  /\ StartRun("closing")
  /\ \E open \in BOOLEAN, parts \in SUBSET ClosingParts :
       Gathered("dispatch", IF open THEN parts ELSE {})
FetchUSPreview ==
  /\ StartRun("us_preview")
  /\ \E parts \in SUBSET PreviewParts : Gathered("lease", parts)
\* The report of the aggregate, which may be missing: news are enough.
FetchBlockBeats ==
  /\ StartRun("aggregate")
  /\ \E content \in BOOLEAN :
       Continue([Idle2 EXCEPT !.at = "lease", !.content = content])

(* LeaseTopics takes whole topics, the best first; an error of it is the   *)
(* error of the fetch.                                                     *)
BestTopics(topics) ==
  {chosen \in SUBSET topics :
     /\ Cardinality(chosen) = IF Cardinality(topics) < TopicLimit THEN Cardinality(topics) ELSE TopicLimit
     /\ \A t \in chosen, u \in topics \ chosen : PriorityOf(t) >= PriorityOf(u)}
LeaseFails ==
  /\ run.at = "lease" /\ Continue(Idle2)
  /\ UNCHANGED <<waiting, lapsing, deliveries, briefings>>
LeaseTopics(k, chosen) ==
  /\ run.at = "lease" /\ kind = k
  /\ waiting' = waiting \ UNION chosen
  /\ UNCHANGED <<deliveries, briefings>>
Carries(chosen) ==
  /\ Continue([run EXCEPT !.at = "dispatch", !.lease = UNION chosen, !.lines = Rendered(chosen)])
  /\ UNCHANGED lapsing
LeftOver(r, chosen) == Continue(r) /\ lapsing' = lapsing \cup UNION chosen

\* appendDigest: without a line the message goes without the lease.
AppendDigest ==
  \E chosen \in BestTopics(TopicsOf(waiting)) :
     /\ LeaseTopics("us_preview", chosen)
     /\ IF Rendered(chosen) = {} THEN LeftOver([run EXCEPT !.at = "dispatch"], chosen) ELSE Carries(chosen)
\* fetchAggregate: a message of lines, of the report, or of both carries the
\* lease; without either there is none.
LeaseForAggregate ==
  \E chosen \in BestTopics(TopicsOf(waiting)) :
     /\ LeaseTopics("aggregate", chosen)
     /\ IF ~ run.content /\ Rendered(chosen) = {} THEN LeftOver(Idle2, chosen) ELSE Carries(chosen)

\* fetchAndDispatchGeneration: a silent source keeps the message in the
\* archive; with a lease the router prepares a durable delivery, which may
\* fail; without one the message passes the deduplication.
Dispatch ==
  /\ run.at = "dispatch" /\ Continue(Idle2)
  /\ \/ lapsing' = lapsing \cup run.lease /\ UNCHANGED deliveries
     \/ /\ ~ silent /\ run.lease # {}
        /\ deliveries' = deliveries \cup {[items |-> run.lease, lines |-> run.lines]}
        /\ UNCHANGED lapsing
  /\ UNCHANGED <<waiting, briefings>>

\* Thirty minutes later the leases nobody used have lapsed.
LeasesLapse ==
  /\ lapsing # {} /\ waiting' = waiting \cup lapsing /\ lapsing' = {}
  /\ UNCHANGED <<kind, silent, run, deliveries, briefings>>

BriefingNext ==
  \/ FetchPreMarket \/ FetchClosing \/ FetchUSPreview \/ FetchBlockBeats
  \/ LeaseFails \/ AppendDigest \/ LeaseForAggregate
  \/ Dispatch \/ LeasesLapse

BriefingSpec == BriefingInit /\ [][BriefingNext]_briefingVars

-----------------------------------------------------------------------------
\* What a delivery acknowledges, its text shows: every item that has a
\* title or a text is in the topic of one of the lines, and its source is
\* among those the line names or counts.  Otherwise a topic would be leased,
\* left out by the renderer, and gone once the briefing is delivered.
PreparedIsShown ==
  \A p \in deliveries : \A i \in p.items :
     Headline(i) # "none" =>
       \E l \in p.lines, j \in p.items :
          LeaseTopicKey(j) = LeaseTopicKey(i) /\ l.head = Headline(j) /\ i.source \in l.sources

=============================================================================
