--------------------------- MODULE ConfigManager ---------------------------
(***************************************************************************)
(* The configuration manager (internal/config/manager.go) and the handlers *)
(* of the admin API that change the configuration and then the part of the *)
(* running program it describes (internal/api/server.go).                  *)
(*                                                                         *)
(* A configuration is what the properties tell apart: one source, the      *)
(* secret of its options, one channel, the LLM section, and the sections   *)
(* nothing reacts to (filters, alerts, health).  The manager's live        *)
(* configuration, its persisted form and its fingerprint are always        *)
(* assigned together, each a function of the bytes read or written, so one *)
(* variable, held, stands for the three of them.                           *)
(***************************************************************************)
EXTENDS Naturals

CONSTANTS
  Clients,       \* concurrent requests
  Requests,      \* the requests they may send, [kind, val] records
  Secrets,       \* literal secrets
  EnvRef,        \* a ${VARIABLE} in the file ...
  EnvValue,      \* ... and the secret it expands to
  Mask,          \* what the API shows instead of a secret
  NoSecret,      \* the secret of a source that is not there
  Nobody,        \* no holder of a lock
  FirstFile,     \* the file the program starts with
  Edits,         \* what somebody may write over the file with an editor
  MaxRequests, MaxEdits, MaxConfigRestarts

ASSUME ConfigAssumption ==
  /\ EnvValue \in Secrets /\ {EnvRef, Mask, NoSecret} \cap Secrets = {} /\ EnvRef # NoSecret
  /\ Nobody \notin Clients
  /\ {MaxRequests, MaxEdits, MaxConfigRestarts} \subseteq Nat

\* What can be on disk: a source that is not there has no secret.
ASSUME FileAssumption ==
  \A f \in Edits \cup {FirstFile} :
    /\ f = [s \in {"src", "key", "ch", "llm", "rest"} |-> f[s]]
    /\ f.src = "absent" => f.key = NoSecret

VARIABLES
  file,          \* the bytes on disk
  held,          \* the bytes the live configuration was parsed from
  revision,
  cfgMu,         \* who is between the check and the rename, holding m.mu
  srcMu,         \* the holder of sourceMutationMu
  request,       \* per client: the request and how far its handler got
  running,       \* the engine runs the source
  channel,       \* "running", "disabled" (kept aside) or "none"
  llm,           \* the LLM section the provider was built from
  notes,         \* notifications whose goroutine has not run
  mustRestart,   \* a reply asked the operator to restart
  requested, edited, restarted

configVars == <<file, held, revision, cfgMu, srcMu, request, running, channel,
                llm, notes, mustRestart, requested, edited, restarted>>

Idle == [kind |-> "none", val |-> "none", at |-> "idle", body |-> FirstFile,
         orig |-> FirstFile, rev |-> 0]

(* What a reader of the configuration sees: references expanded.           *)
Expand(s) == IF s = EnvRef THEN EnvValue ELSE s
Live(c) == [c EXCEPT !.key = Expand(c.key)]

(* A value that still equals the expanded one is written as the reference. *)
Preserve(next, raw) ==
  IF /\ next.src # "absent" /\ raw.src # "absent"
     /\ raw.key = EnvRef /\ next.key = EnvValue
  THEN [next EXCEPT !.key = EnvRef] ELSE next

(* Validation refuses the mask as an option of a source.                   *)
Valid(c) == c.src = "absent" \/ c.key # Mask

(* What the program runs when it starts from a configuration.             *)
SourceConfigs(c) == c.src = "on"
InitChannels(c) == IF c.ch = "on" THEN "running" ELSE "none"

ConfigInit ==
  /\ file = FirstFile /\ held = FirstFile /\ revision = 1
  /\ cfgMu = Nobody /\ srcMu = Nobody
  /\ request = [c \in Clients |-> Idle]
  /\ running = SourceConfigs(FirstFile) /\ channel = InitChannels(FirstFile)
  /\ llm = FirstFile.llm /\ notes = {} /\ mustRestart = FALSE
  /\ requested = 0 /\ edited = 0 /\ restarted = 0

RequestAt(c, kinds, at) == request[c].kind \in kinds /\ request[c].at = at

Goto(c, at) == request' = [request EXCEPT ![c].at = at]

(* The reply: the handler ends and its deferred unlock runs.               *)
Reply(c, restart) ==
  /\ request' = [request EXCEPT ![c] = Idle]
  /\ srcMu' = IF srcMu = c THEN Nobody ELSE srcMu
  /\ mustRestart' = (mustRestart \/ restart)

NoIO == UNCHANGED <<file, held, revision, cfgMu>>
World == <<running, channel, llm, notes>>
Counters == <<requested, edited, restarted>>

Locking == {"toggle", "edit", "create", "delete", "put", "reload"}

Arrive(c) ==
  /\ request[c].kind = "none" /\ requested < MaxRequests
  /\ \E r \in Requests :
       request' = [request EXCEPT ![c] =
         [Idle EXCEPT !.kind = r.kind, !.val = r.val,
                      !.at = IF r.kind \in Locking THEN "lock"
                             ELSE IF r.kind \in {"sourcekey", "llmkey"} THEN "check" ELSE "save"]]
  /\ requested' = requested + 1
  /\ NoIO /\ UNCHANGED <<World, srcMu, mustRestart, edited, restarted>>

(* persistLocked, and persistBytesLocked up to the check of the file: the  *)
(* temporary file is complete and synced.  The rename is a step of its     *)
(* own, in which nobody but an editor can come first.  A failure of the    *)
(* disk, a change of the file and an invalid result end with an error.     *)
Persist(c, next, at) ==
  LET data == Preserve(next, held) IN
  \/ /\ Valid(data) /\ file = held
     /\ cfgMu' = c
     /\ request' = [request EXCEPT ![c] =
          [@ EXCEPT !.body = data, !.at = at, !.orig = held]]
     /\ UNCHANGED <<file, held, revision, srcMu, mustRestart>>
  \/ Reply(c, at = "restore") /\ NoIO

(* os.Rename and the swap of the live configuration.                       *)
Rename(c) ==
  /\ cfgMu = c
  /\ file' = request[c].body /\ held' = request[c].body
  /\ revision' = revision + 1
  /\ cfgMu' = Nobody

----------------------------------------------------------------------------
(* PATCH toggle of a source: the handler makes the new source from its own *)
(* view of the old one.  It answers at once when there is no such source,  *)
(* or when the engine cannot construct the new one.                        *)
Accept(c, new) ==
  \/ /\ held.src # "absent"
     /\ request' = [request EXCEPT ![c] = [@ EXCEPT !.body = new, !.at = "save"]]
     /\ srcMu' = c /\ UNCHANGED mustRestart
  \/ Reply(c, FALSE)

BeginToggle(c) ==
  /\ RequestAt(c, {"toggle"}, "lock") /\ srcMu = Nobody
  /\ Accept(c, [Live(held) EXCEPT !.src = request[c].val])
  /\ NoIO /\ UNCHANGED <<World, Counters>>

(* PUT of a source: a secret the request leaves out or sends masked keeps  *)
(* its old value.                                                          *)
PreserveRedacted(value, old) == IF value = Mask THEN old ELSE value

BeginUpdate(c) ==
  /\ RequestAt(c, {"edit"}, "lock") /\ srcMu = Nobody
  /\ Accept(c, [Live(held) EXCEPT !.key = PreserveRedacted(request[c].val, @)])
  /\ NoIO /\ UNCHANGED <<World, Counters>>

BeginCreate(c) ==
  /\ RequestAt(c, {"create"}, "lock") /\ srcMu = Nobody
  /\ \/ held.src = "absent" /\ srcMu' = c /\ Goto(c, "save") /\ UNCHANGED mustRestart
     \/ Reply(c, FALSE)
  /\ NoIO /\ UNCHANGED <<World, Counters>>

BeginDelete(c) ==
  /\ RequestAt(c, {"delete"}, "lock") /\ srcMu = Nobody
  /\ srcMu' = c /\ Goto(c, "save")
  /\ NoIO /\ UNCHANGED <<World, mustRestart, Counters>>

(* UpdateSourceWithRuntime up to the save.                                 *)
UpdateSourceWithRuntime(c) ==
  /\ RequestAt(c, {"toggle", "edit"}, "save") /\ cfgMu = Nobody
  /\ LET new == request[c].body IN
     IF held.src = "absent" THEN Reply(c, FALSE) /\ NoIO
     ELSE Persist(c, [Live(held) EXCEPT !.src = new.src, !.key = new.key], "rename")
  /\ UNCHANGED <<World, Counters>>

AddSource(c) ==
  /\ RequestAt(c, {"create"}, "save") /\ cfgMu = Nobody
  /\ IF held.src # "absent" THEN Reply(c, FALSE) /\ NoIO
     ELSE Persist(c, [Live(held) EXCEPT !.src = request[c].val, !.key = EnvValue], "rename")
  /\ UNCHANGED <<World, Counters>>

WithoutSource(c) == [c EXCEPT !.src = "absent", !.key = NoSecret]

RemoveSourceWithRuntime(c) ==
  /\ RequestAt(c, {"delete"}, "save") /\ cfgMu = Nobody
  /\ IF held.src = "absent" THEN Reply(c, FALSE) /\ NoIO
     ELSE Persist(c, WithoutSource(Live(held)), "rename")
  /\ UNCHANGED <<World, Counters>>

(* The save of a source is done; the runtime is changed without the lock.  *)
SourceSaved(c) ==
  /\ RequestAt(c, {"toggle", "edit", "create", "delete"}, "rename")
  /\ Rename(c)
  /\ request' = [request EXCEPT ![c] = [@ EXCEPT !.at = "activate", !.rev = revision + 1]]
  /\ UNCHANGED <<World, srcMu, mustRestart, Counters>>

\* Mutant: a refusal of the engine is reported, and nothing is rolled back.
ActivateAndForget(c) ==
  /\ request[c].at = "activate"
  /\ running' \in {running, request[c].body.src = "on"}
  /\ Reply(c, FALSE)
  /\ NoIO /\ UNCHANGED <<channel, llm, notes, Counters>>

(* Activate or RemoveSource of the engine, which may refuse because the    *)
(* source has changed under it.                                            *)
ActivateSource(c) ==
  /\ request[c].at = "activate"
  /\ \/ /\ running' = (request[c].body.src = "on")
        /\ Reply(c, FALSE)
     \/ Goto(c, "undo") /\ UNCHANGED <<running, srcMu, mustRestart>>
  /\ NoIO /\ UNCHANGED <<channel, llm, notes, Counters>>

\* Mutant: the rollback does not ask whether the configuration has moved on.
RestoreBytesAnyway(c) ==
  /\ RequestAt(c, {"toggle", "edit", "delete"}, "undo") /\ cfgMu = Nobody
  /\ cfgMu' = c
  /\ request' = [request EXCEPT ![c] = [@ EXCEPT !.body = request[c].orig, !.at = "restore"]]
  /\ UNCHANGED <<file, held, revision, srcMu, mustRestart, World, Counters>>

(* The rollback of an update or a deletion: the exact bytes from before,   *)
(* unless the configuration has moved on.                                  *)
RestoreBytes(c) ==
  /\ RequestAt(c, {"toggle", "edit", "delete"}, "undo") /\ cfgMu = Nobody
  /\ \/ /\ revision = request[c].rev /\ file = held
        /\ cfgMu' = c
        /\ request' = [request EXCEPT ![c] = [@ EXCEPT !.body = request[c].orig, !.at = "restore"]]
        /\ UNCHANGED <<file, held, revision, srcMu, mustRestart>>
     \/ Reply(c, TRUE) /\ NoIO
  /\ UNCHANGED <<World, Counters>>

(* The rollback of a creation removes the source again.                    *)
RemoveSource(c) ==
  /\ RequestAt(c, {"create"}, "undo") /\ cfgMu = Nobody
  /\ IF held.src = "absent" THEN Reply(c, TRUE) /\ NoIO
     ELSE Persist(c, WithoutSource(Live(held)), "restore")
  /\ UNCHANGED <<World, Counters>>

Restored(c) ==
  /\ request[c].at = "restore"
  /\ Rename(c) /\ Reply(c, FALSE)
  /\ UNCHANGED <<World, Counters>>

----------------------------------------------------------------------------
(* PUT /config: the sources of the body must be those of the live          *)
(* configuration; the rest of it is what the client sent.                  *)
BeginPut(c) ==
  /\ RequestAt(c, {"put"}, "lock") /\ srcMu = Nobody
  /\ LET v == request[c].val IN
     \/ /\ srcMu' = c /\ UNCHANGED mustRestart
        /\ request' = [request EXCEPT ![c] = [@ EXCEPT !.at = "save",
             !.body = [Live(held) EXCEPT !.ch = v.ch, !.llm = v.llm, !.rest = v.rest]]]
     \/ Reply(c, FALSE)
  /\ NoIO /\ UNCHANGED <<World, Counters>>

Update(c) ==
  /\ RequestAt(c, {"put"}, "save") /\ cfgMu = Nobody
  /\ Persist(c, request[c].body, "rename")
  /\ UNCHANGED <<World, Counters>>

(* Subscribers run in goroutines of their own, in any order.               *)
Notify(new) == notes' = notes \cup {[old |-> held.llm, new |-> new]}

(* The end of Update and UpdateLLM.                                        *)
SavedAndNotified(c) ==
  /\ RequestAt(c, {"put", "llm"}, "rename")
  /\ Rename(c) /\ Notify(request[c].body.llm) /\ Reply(c, FALSE)
  /\ UNCHANGED <<running, channel, llm, Counters>>

(* POST /config/reload: preview, snapshot, commit.                         *)
PreviewReload(c) ==
  /\ RequestAt(c, {"reload"}, "lock") /\ srcMu = Nobody
  /\ IF Valid(file)
     THEN /\ request' = [request EXCEPT ![c] = [@ EXCEPT !.body = file, !.at = "snapshot"]]
          /\ srcMu' = c /\ UNCHANGED mustRestart
     ELSE Reply(c, FALSE)
  /\ NoIO /\ UNCHANGED <<World, Counters>>

Snapshot(c) ==
  /\ RequestAt(c, {"reload"}, "snapshot") /\ cfgMu = Nobody
  /\ LET new == Live(request[c].body) old == Live(held) IN
     IF new.src = old.src /\ new.key = old.key
     THEN /\ request' = [request EXCEPT ![c] = [@ EXCEPT !.rev = revision, !.at = "commit"]]
          /\ UNCHANGED <<srcMu, mustRestart>>
     ELSE Reply(c, FALSE)
  /\ NoIO /\ UNCHANGED <<World, Counters>>

CommitPreview(c) ==
  /\ RequestAt(c, {"reload"}, "commit") /\ cfgMu = Nobody
  /\ IF revision = request[c].rev /\ file = request[c].body
     THEN held' = file /\ revision' = revision + 1 /\ Notify(file.llm)
     ELSE UNCHANGED <<held, revision, notes>>
  /\ Reply(c, FALSE)
  /\ UNCHANGED <<file, cfgMu, running, channel, llm, Counters>>

(* The subscriber of the application swaps the provider when the LLM       *)
(* section of its two copies differs.                                      *)
SwapProvider ==
  \E n \in notes :
    /\ llm' = IF n.old # n.new THEN n.new ELSE llm
    /\ notes' = notes \ {n}
    /\ UNCHANGED <<file, held, revision, cfgMu, srcMu, request, running, channel,
                   mustRestart, Counters>>

----------------------------------------------------------------------------
(* Changes that hold only m.mu.  PUT /keys: the handler refuses the mask   *)
(* if it is longer than eight characters; it has three.                    *)
MaskLength == 3
Masked(v) == v = Mask /\ MaskLength > 8

BeginUpdateKey(c) ==
  /\ RequestAt(c, {"sourcekey", "llmkey"}, "check")
  /\ IF Masked(request[c].val) THEN Reply(c, FALSE)
     ELSE Goto(c, "save") /\ UNCHANGED <<srcMu, mustRestart>>
  /\ NoIO /\ UNCHANGED <<World, Counters>>

UpdateKey(c) ==
  /\ RequestAt(c, {"sourcekey", "llmkey"}, "save") /\ cfgMu = Nobody
  /\ LET v == request[c].val IN
     IF request[c].kind = "llmkey" THEN Persist(c, [Live(held) EXCEPT !.llm = v], "rename")
     ELSE IF held.src = "absent" THEN Reply(c, FALSE) /\ NoIO
     ELSE Persist(c, [Live(held) EXCEPT !.key = v], "rename")
  /\ UNCHANGED <<World, Counters>>

UpdateLLM(c) ==
  /\ RequestAt(c, {"llm"}, "save") /\ cfgMu = Nobody
  /\ Persist(c, [Live(held) EXCEPT !.llm = request[c].val], "rename")
  /\ UNCHANGED <<World, Counters>>

(* Filters, alerts and source health.                                      *)
UpdateSection(c) ==
  /\ RequestAt(c, {"section"}, "save") /\ cfgMu = Nobody
  /\ Persist(c, [Live(held) EXCEPT !.rest = request[c].val], "rename")
  /\ UNCHANGED <<World, Counters>>

Saved(c) ==
  /\ RequestAt(c, {"sourcekey", "llmkey", "section"}, "rename")
  /\ Rename(c) /\ Reply(c, FALSE)
  /\ UNCHANGED <<World, Counters>>

(* PATCH toggle and PUT of a channel: a PUT may leave out whether it is    *)
(* enabled, and then keeps what the file says.                             *)
UpdateChannel(c) ==
  /\ RequestAt(c, {"channel"}, "save") /\ cfgMu = Nobody
  /\ LET v == request[c].val IN
     IF held.ch = "absent" THEN Reply(c, FALSE) /\ NoIO
     ELSE Persist(c, [Live(held) EXCEPT !.ch = IF v = "omitted" THEN @ ELSE v], "rename")
  /\ UNCHANGED <<World, Counters>>

AddChannel(c) ==
  /\ RequestAt(c, {"newchannel"}, "save") /\ cfgMu = Nobody
  /\ IF held.ch # "absent" THEN Reply(c, FALSE) /\ NoIO
     ELSE Persist(c, [Live(held) EXCEPT !.ch = request[c].val], "rename")
  /\ UNCHANGED <<World, Counters>>

ChannelSaved(c) ==
  /\ RequestAt(c, {"channel", "newchannel"}, "rename")
  /\ Rename(c) /\ Goto(c, "switch")
  /\ UNCHANGED <<World, srcMu, mustRestart, Counters>>

(* A channel leaves the disabled ones before it is started: when the start *)
(* fails the manager no longer knows it.                                   *)
EnableChannel ==
  channel' \in IF channel = "disabled" THEN {"running", "none"} ELSE {channel}

DisableChannel ==
  channel' = IF channel = "running" THEN "disabled" ELSE channel

(* PUT and PATCH of a channel: the handler asks its own copy of the        *)
(* request, in which an omitted setting reads as enabled.                  *)
SwitchChannel(c) ==
  /\ RequestAt(c, {"channel"}, "switch")
  /\ IF request[c].val = "off" THEN DisableChannel ELSE EnableChannel
  /\ Reply(c, FALSE)
  /\ NoIO /\ UNCHANGED <<running, llm, notes, Counters>>

(* POST of a channel: the manager of the channels does not know it, and    *)
(* what it answers to EnableChannel is not looked at.                      *)
StartCreated(c) ==
  /\ RequestAt(c, {"newchannel"}, "switch")
  /\ IF request[c].val = "off" THEN UNCHANGED channel ELSE EnableChannel
  /\ Reply(c, FALSE)
  /\ NoIO /\ UNCHANGED <<running, llm, notes, Counters>>

----------------------------------------------------------------------------
(* Somebody edits the file.                                                *)
EditFile ==
  /\ edited < MaxEdits /\ edited' = edited + 1
  /\ \E c \in Edits : c # file /\ file' = c
  /\ UNCHANGED <<held, revision, cfgMu, srcMu, request, World, mustRestart, requested, restarted>>

(* The process ends anywhere and starts again from the file.               *)
RestartFromFile ==
  /\ Valid(file) /\ restarted < MaxConfigRestarts /\ restarted' = restarted + 1
  /\ held' = file /\ revision' = 1 /\ cfgMu' = Nobody /\ srcMu' = Nobody
  /\ request' = [c \in Clients |-> Idle]
  /\ running' = SourceConfigs(file) /\ channel' = InitChannels(file)
  /\ llm' = file.llm /\ notes' = {} /\ mustRestart' = FALSE
  /\ UNCHANGED <<file, requested, edited>>

Handle(c) ==
  \/ BeginToggle(c) \/ BeginUpdate(c) \/ BeginCreate(c) \/ BeginDelete(c) \/ BeginPut(c)
  \/ UpdateSourceWithRuntime(c) \/ AddSource(c) \/ RemoveSourceWithRuntime(c)
  \/ SourceSaved(c) \/ ActivateSource(c) \/ RestoreBytes(c) \/ RemoveSource(c)
  \/ Restored(c) \/ Update(c) \/ SavedAndNotified(c)
  \/ PreviewReload(c) \/ Snapshot(c) \/ CommitPreview(c)
  \/ BeginUpdateKey(c) \/ UpdateKey(c) \/ UpdateLLM(c) \/ UpdateSection(c) \/ Saved(c)
  \/ UpdateChannel(c) \/ AddChannel(c) \/ ChannelSaved(c) \/ SwitchChannel(c)
  \/ StartCreated(c)

ConfigNext ==
  \/ \E c \in Clients : Arrive(c) \/ Handle(c)
  \/ SwapProvider \/ EditFile \/ RestartFromFile

ConfigSpec == ConfigInit /\ [][ConfigNext]_configVars

----------------------------------------------------------------------------
(* Between two changes of sources, and unless a reply asked for a restart, *)
(* the engine runs the source exactly when the configuration enables it,   *)
(* whatever failed half way, was rolled back or came in between            *)
(* (UpdateSourceWithRuntime, RemoveSourceWithRuntime, createSource).       *)
SourceFollowsConfig ==
  srcMu = Nobody /\ ~mustRestart => running = (held.src = "on")

(* What each request may set.                                              *)
Touches(kind) ==
  CASE kind \in {"toggle", "edit", "create", "delete", "sourcekey"} -> {"src", "key"}
    [] kind = "put" -> {"src", "key", "ch", "llm", "rest"}
    [] kind \in {"llm", "llmkey"} -> {"llm"}
    [] kind = "section" -> {"rest"}
    [] OTHER -> {"ch"}

(* A request, its rollback included, never changes a setting it is not     *)
(* about: no change another request made is undone by it (the revision     *)
(* fence of the rollback, manager.go:358-370).                             *)
UntouchedSettings ==
  [][\A c \in Clients : cfgMu = c /\ cfgMu' = Nobody /\ file' = request[c].body =>
       \A f \in DOMAIN held :
         held'[f] # held[f] => f \in Touches(request[c].kind)]_configVars

(* The comment of updateKey: a masked value is refused                     *)
(* (internal/api/server.go:1646).  The code does not keep this.            *)
MaskIsRefused == held.llm # Mask

(* When every notification was handled, the provider runs the LLM section  *)
(* of the live configuration (platformapp/app.go:134-149).  The code does   *)
(* not keep this: PUT /keys changes the section without a notification,    *)
(* and notifications are handled concurrently, in any order.               *)
ProviderFollowsConfig == notes = {} /\ cfgMu = Nobody => llm = held.llm
=============================================================================
