----------------------------- MODULE FeedFetch -------------------------------
(***************************************************************************)
(* An RSS source: a conditional request with the validators of the last    *)
(* answer, the filters an entry passes, and what the engine does with the  *)
(* batch.  The feed is upstream's: it shows its newest entries, newest     *)
(* first, and a new entry gives it new validators.  The poll loop and a    *)
(* poll started by hand share the source object.                           *)
(* An entry is its identity and the rules it offends.                      *)
(***************************************************************************)
EXTENDS Naturals, Sequences, SequencesExt

CONSTANTS Upstream,       \* the entries upstream publishes, in their order
          Shown,          \* how many the feed shows
          Cap,            \* how many a fetch hands out: 10
          Options,        \* the rules the source's options switch on
          Fetchers,
          MaxFeedFetches, MaxFeedFaults  \* bounds of the model

VARIABLES tags,       \* the validators upstream sends
          version,    \* of the feed: entries published so far
          validators, \* of the source object
          fetch,
          handed,     \* entries that reached the filters of the engine
          spoiled,    \* versions that were answered but not handed over
          feedFetches, feedFaults

feedVars == <<tags, version, validators, fetch, handed, spoiled, feedFetches, feedFaults>>

NoTag == 0
NoFetch == [at |-> "idle", sent |-> [etag |-> NoTag, modified |-> NoTag], reply |-> "none", of |-> 0, batch |-> <<>>]

\* The rules an option switches on: where an entry may come from and what
\* it must mention (isSourceAllowed, matchesRequiredKeywords), what it must
\* not be (matchesExcludedLink, matchesExcludedKeywords, isRepost, a video
\* without a meaningful body); and those that always hold.
SourceRules == {"source", "required"}
ContentRules == {"link", "excluded", "repost", "video"}
FixedRules == {"old", "untitled"}
ASSUME FeedAssumption == Shown \in Nat /\ Cap \in Nat /\ Options \subseteq SourceRules \cup ContentRules
Offends(e) == e.offends \cap (Options \cup FixedRules) # {}

\* The entries the feed shows, and those a fetch makes messages of.
Feed(v) == Reverse(SubSeq(Upstream, IF v > Shown THEN v - Shown + 1 ELSE 1, v))
Batch(v) ==
  LET fit == SelectSeq(Feed(v), LAMBDA e : ~ Offends(e))
  IN SubSeq(fit, 1, IF Len(fit) < Cap THEN Len(fit) ELSE Cap)

\* The identifier of a message: the first the entry has.
MessageId(e) == IF e.guid # "none" THEN e.guid ELSE IF e.link # "none" THEN e.link ELSE e.title

\* A new source object has no validators.
FeedInit ==
  /\ tags \in SUBSET {"etag", "modified"}
  /\ version = 0 /\ validators = NoFetch.sent /\ fetch = [f \in Fetchers |-> NoFetch]
  /\ handed = {} /\ spoiled = {} /\ feedFetches = 0 /\ feedFaults = 0

Publish ==
  /\ version < Len(Upstream) /\ version' = version + 1
  /\ UNCHANGED <<tags, validators, fetch, handed, spoiled, feedFetches, feedFaults>>

\* The source is created anew when its configuration changes; polls of the
\* old object have no effect any more.
ReplaceSource ==
  /\ validators # NoFetch.sent
  /\ validators' = NoFetch.sent /\ fetch' = [f \in Fetchers |-> NoFetch] /\ spoiled' = {}
  /\ UNCHANGED <<tags, version, handed, feedFetches, feedFaults>>

SendRequest(f) ==
  /\ fetch[f].at = "idle" /\ feedFetches < MaxFeedFetches /\ feedFetches' = feedFetches + 1
  /\ fetch' = [fetch EXCEPT ![f] = [NoFetch EXCEPT !.at = "sent", !.sent = validators]]
  /\ UNCHANGED <<tags, version, validators, handed, spoiled, feedFaults>>

\* Upstream: the entity tag decides before the date.
Unchanged(sent) == IF sent.etag # NoTag THEN sent.etag = version ELSE sent.modified # NoTag /\ sent.modified = version
Answer(f) ==
  /\ fetch[f].at = "sent"
  /\ \/ fetch' = [fetch EXCEPT ![f].at = "answered", ![f].of = version,
                               ![f].reply = IF Unchanged(fetch[f].sent) THEN "not modified" ELSE "ok"]
        /\ UNCHANGED feedFaults
     \/ /\ feedFaults < MaxFeedFaults /\ feedFaults' = feedFaults + 1
        /\ \E reply \in {"no connection", "error status"} :
              fetch' = [fetch EXCEPT ![f].at = "answered", ![f].of = version, ![f].reply = reply]
  /\ UNCHANGED <<tags, version, validators, handed, spoiled, feedFetches>>

\* Mutant: an error answer leaves its validators, too.
TaggedAnyway(r) == r.reply \in {"ok", "error status"}
\* The validators of a 2xx answer are remembered, before its body is read.
Tagged(r) == r.reply = "ok"
Remember(f) ==
  LET r == fetch[f]
      tagged(name, old) == IF Tagged(r) /\ name \in tags THEN r.of ELSE old
  IN /\ r.at = "answered"
     /\ validators' = [etag |-> tagged("etag", validators.etag), modified |-> tagged("modified", validators.modified)]
     /\ fetch' = [fetch EXCEPT ![f] = IF r.reply = "ok" THEN [r EXCEPT !.at = "body"]
                                      ELSE IF r.reply = "not modified" THEN [r EXCEPT !.at = "quiet"] ELSE NoFetch]
     /\ UNCHANGED <<tags, version, handed, spoiled, feedFetches, feedFaults>>

\* The body is cut short, is too long or cannot be parsed: an error.
ReadBody(f) ==
  /\ fetch[f].at = "body"
  /\ \/ fetch' = [fetch EXCEPT ![f].at = "batch", ![f].batch = Batch(fetch[f].of)] /\ UNCHANGED <<spoiled, feedFaults>>
     \/ /\ feedFaults < MaxFeedFaults /\ feedFaults' = feedFaults + 1
        /\ spoiled' = spoiled \cup {fetch[f].of} /\ fetch' = [fetch EXCEPT ![f] = NoFetch]
  /\ UNCHANGED <<tags, version, validators, handed, feedFetches>>

\* The engine takes the messages one by one; a failed admission of one ends
\* the poll, and the rest of the batch with it.
HandOver(f) ==
  LET batch == fetch[f].batch
  IN /\ fetch[f].at = "batch"
     /\ \E n \in 0..Len(batch) :
          /\ handed' = handed \cup {batch[i] : i \in 1..n}
          /\ IF n = Len(batch) THEN UNCHANGED <<spoiled, feedFaults>>
             ELSE /\ feedFaults < MaxFeedFaults /\ feedFaults' = feedFaults + 1
                  /\ spoiled' = spoiled \cup {fetch[f].of}
     /\ fetch' = [fetch EXCEPT ![f] = NoFetch]
     /\ UNCHANGED <<tags, version, validators, feedFetches>>

\* A 304: no messages and no error.
EndQuietly(f) ==
  /\ fetch[f].at = "quiet" /\ fetch' = [fetch EXCEPT ![f] = NoFetch]
  /\ UNCHANGED <<tags, version, validators, handed, spoiled, feedFetches, feedFaults>>

FeedNext ==
  \/ Publish \/ ReplaceSource
  \/ \E f \in Fetchers : SendRequest(f) \/ Answer(f) \/ Remember(f) \/ ReadBody(f) \/ HandOver(f) \/ EndQuietly(f)

FeedSpec == FeedInit /\ [][FeedNext]_feedVars

-----------------------------------------------------------------------------
Reading(v) == \E f \in Fetchers : fetch[f].of = v /\ fetch[f].at \in {"body", "batch"}
Missed(v) == {i \in 1..Len(Batch(v)) : MessageId(Batch(v)[i]) \notin {MessageId(h) : h \in handed}}

\* A poll that is told "not modified" misses nothing it has not been given
\* already: every entry the feed would have yielded was handed over, unless
\* the body of that very version was spoiled or is still being worked on.
\* The exception is what the code does: the validators are remembered before
\* the body is read, and entries whose body fails are not asked for again.
QuietMeansHandedOver ==
  \A f \in Fetchers : LET v == fetch[f].of IN
     fetch[f].at = "quiet" => v \in spoiled \/ Reading(v) \/ Missed(v) = {}

=============================================================================
