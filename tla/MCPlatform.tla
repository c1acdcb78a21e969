----------------------------- MODULE MCPlatform ------------------------------
(***************************************************************************)
(* The parts of the platform that share no state with one another, side by *)
(* side: a behaviour picks one part, runs its specification, and leaves    *)
(* the others where they begin.  The properties are those of the parts.    *)
(***************************************************************************)
EXTENDS ConfigManager, Supervisor, MessagePipeline, TokenBucket, DiscordThreads, SourceHealth,
        DeliveryWorker, ScheduleSlots, AlertEngine, NewsArchive, Subscribers, PartedSend,
        DigestIndex, FeedFetch, Briefing

CONSTANTS Parts,                \* the parts that are run
          secret1, secret2, wire, macro, flash  \* model values

VARIABLE part

(* The configuration: one source with a secret from the environment.       *)
MCFile == [src |-> "on", key |-> EnvRef, ch |-> "on", llm |-> 1, rest |-> 1]
MCEdits == {[MCFile EXCEPT !.src = "off"], [MCFile EXCEPT !.rest = 3], [MCFile EXCEPT !.llm = 2]}
MCRequests ==
  [kind : {"toggle", "create"}, val : {"on", "off"}]
  \cup [kind : {"edit"}, val : {Mask, secret2}]
  \cup [kind : {"delete", "reload"}, val : {"none"}]
  \cup [kind : {"put"}, val : {[ch |-> "absent", llm |-> 2, rest |-> 2]}]
  \cup [kind : {"sourcekey"}, val : {secret2}]
  \cup [kind : {"llm"}, val : {1, 2}] \cup [kind : {"llmkey"}, val : {Mask}]
  \cup [kind : {"section"}, val : {2}]
  \cup [kind : {"channel"}, val : {"on", "off", "omitted"}]
  \cup [kind : {"newchannel"}, val : {"on", "off"}]

(* Messages: the same story from two sources of a group, and another one   *)
(* of another kind.                                                        *)
MCNews == {[source |-> wire, id |-> 1, story |-> "x", kind |-> "news"],
           [source |-> wire, id |-> 2, story |-> "y", kind |-> "structured"],
           [source |-> macro, id |-> 1, story |-> "x", kind |-> "news"]}

(* A feed: one entry has no identifier, one is a repost.                   *)
MCUpstream ==
  << [guid |-> "g1", link |-> "l1", title |-> "t1", offends |-> {}],
     [guid |-> "none", link |-> "l2", title |-> "t1", offends |-> {"repost"}],
     [guid |-> "none", link |-> "none", title |-> "t3", offends |-> {}] >>

(* The news of a briefing: two topics with several items, one whose items  *)
(* have titles and texts, one of pictures.                                 *)
Story(source, title, body, length, short, media, link, priority) ==
  [source |-> source, title |-> title, text |-> body, length |-> length, short |-> short,
   media |-> media, link |-> link, priority |-> priority]
MCStories ==
  {Story("a", "t", "none", 0, 0, 0, "none", 1), Story("b", "t", "x", 2, 0, 0, "none", 2),
   Story("a", "none", "none", 0, 0, 1, "l", 3), Story("b", "none", "y", 1, 0, 0, "l", 1),
   Story("b", "none", "none", 0, 1, 0, "m", 2)}

MCFewNews == {n \in MCNews : n.source = wire}

(* The callers of the statistics are alike.                                *)
Alike == Permutations(Askers)

PlatformInit ==
  /\ part \in Parts
  /\ ConfigInit /\ SupervisorInit /\ PipelineInit /\ BucketInit /\ DiscordInit
  /\ WorkerInit /\ SlotInit /\ AlertInit
  /\ HealthInit /\ (part # "health" => up)
  /\ ArchiveInit /\ (part # "archive" => durable /\ limit = 1)
  /\ SubscribersInit /\ (part # "subscribers" => ~handler /\ followers = {})
  /\ PartedInit /\ (part # "parted" => driver = "wechat" /\ text = <<1>>)
  /\ IndexInit /\ (part # "index" => \A i \in IxItems : db.items[i].state = "acked")
  /\ FeedInit /\ (part # "feed" => tags = {})
  /\ BriefingInit /\ (part # "briefing" => kind = "closing" /\ silent /\ waiting = {})

(* The others stay where they are.                                         *)
Still(p, vars) == IF part = p THEN TRUE ELSE UNCHANGED vars
Rest ==
  /\ UNCHANGED part
  /\ Still("config", configVars)
  /\ Still("supervisor", supervisorVars)
  /\ Still("pipeline", pipelineVars)
  /\ Still("bucket", bucketVars)
  /\ Still("discord", discordVars)
  /\ Still("health", healthVars)
  /\ Still("worker", workerVars)
  /\ Still("slots", slotVars)
  /\ Still("alerts", alertVars)
  /\ Still("archive", archiveVars)
  /\ Still("subscribers", subscriberVars)
  /\ Still("parted", partedVars)
  /\ Still("index", indexVars)
  /\ Still("feed", feedVars)
  /\ Still("briefing", briefingVars)

PlatformNext ==
  \/ part = "config" /\ ConfigNext /\ Rest
  \/ part = "supervisor" /\ SupervisorNext /\ Rest
  \/ part = "pipeline" /\ PipelineNext /\ Rest
  \/ part = "bucket" /\ BucketNext /\ Rest
  \/ part = "discord" /\ DiscordNext /\ Rest
  \/ part = "health" /\ HealthNext /\ Rest
  \/ part = "worker" /\ WorkerNext /\ Rest
  \/ part = "slots" /\ SlotNext /\ Rest
  \/ part = "alerts" /\ AlertNext /\ Rest
  \/ part = "archive" /\ ArchiveNext /\ Rest
  \/ part = "subscribers" /\ SubscribersNext /\ Rest
  \/ part = "parted" /\ PartedNext /\ Rest
  \/ part = "index" /\ IndexNext /\ Rest
  \/ part = "feed" /\ FeedNext /\ Rest
  \/ part = "briefing" /\ BriefingNext /\ Rest

platformVars == <<part, configVars, supervisorVars, pipelineVars, bucketVars, discordVars, healthVars,
                  workerVars, slotVars, alertVars, archiveVars, subscriberVars, partedVars,
                  indexVars, feedVars, briefingVars>>

PlatformSafety == PlatformInit /\ [][PlatformNext]_platformVars

(* The fairness of each part that has some, when it is the one that runs.  *)
PlatformFairness ==
  /\ WF_supervisorVars(part = "supervisor" /\ Worker)
  /\ WF_supervisorVars(part = "supervisor" /\ Closing)
  /\ \A g \in Kids : /\ WF_supervisorVars(part = "supervisor" /\ KillGraceEnds(g))
                     /\ WF_supervisorVars(part = "supervisor" /\ WaitChild(g))
  /\ WF_pipelineVars(part = "pipeline" /\ StartRound)
  /\ WF_pipelineVars(part = "pipeline" /\ (Retry \/ EndRound))
  /\ \A p \in Polls : /\ WF_healthVars(part = "health" /\ BeginFetch(p))
                      /\ WF_healthVars(part = "health" /\ EndFetch(p))
  /\ WF_healthVars(part = "health" /\ RecoveryIntervalPasses)
  /\ SF_workerVars(part = "worker" /\ Woken) /\ SF_workerVars(part = "worker" /\ EndLoop)
  /\ WF_workerVars(part = "worker" /\ ClaimAttempts) /\ WF_workerVars(part = "worker" /\ EndCycle)
  /\ WF_workerVars(part = "worker" /\ \E a \in Attempts : AttemptStep(a))
  /\ WF_workerVars(part = "worker" /\ SendEnds) /\ WF_workerVars(part = "worker" /\ SendTimeoutPasses)
  /\ WF_workerVars(part = "worker" /\ StopReturns)

PlatformSpec == PlatformSafety /\ PlatformFairness

=============================================================================
