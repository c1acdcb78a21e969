-------------------------- MODULE SourceLifecycle --------------------------
(***************************************************************************)
(* One source name of the news engine (internal/core/news_engine.go) from  *)
(* start to stop: the goroutine that polls it, polls triggered by hand,    *)
(* prepared changes that replace, disable or remove it while the engine    *)
(* runs, and the queue of the asynchronous evaluator                       *)
(* (internal/filter/async_evaluator.go) that polls feed and Stop closes.   *)
(*                                                                         *)
(* A step is what runs under one hold of sourceMu, or one operation on the *)
(* gate of the source (a sync.RWMutex), a context or a channel.            *)
(*                                                                         *)
(* Abstractions: the registry of this name only, which is in the initial   *)
(* configuration, so its gate exists once and for all; what a poll does    *)
(* while it holds the gate is one interval, in which it may submit         *)
(* messages for evaluation; sourceInfos follows sources under the same     *)
(* lock and is left out, and so are sourceDones, which has an entry exactly*)
(* when sourceCancels has one; the intervals and slots that wake a         *)
(* goroutine are not timed, and a slot or a poll may be skipped whenever   *)
(* the schedule, its marks or the health monitor can say so.               *)
(***************************************************************************)
EXTENDS Naturals

CONSTANTS
  Trigger,        \* polls triggered by hand that may run at one time
  Object,         \* source objects
  Configured,     \* the object built from the initial configuration
  Change,         \* callers that change the source
  None,           \* no object
  TradingDaysOnly,  \* the source is scheduled, and on trading days only
  MaxGeneration,  \* bound on the changes of the source
  MaxTasks        \* tasks the evaluator can hold, in its queue and at its workers

\* The goroutine that polls the source in generation g is thread g.
Generation == 1..MaxGeneration
Thread == Generation \cup Trigger

ASSUME LifecycleConstants ==
  /\ Configured \in Object
  /\ None \notin Object \cup Change
  /\ MaxGeneration \in Nat \ {0}
  /\ Trigger \cap (0..MaxGeneration) = {}
  /\ TradingDaysOnly \in BOOLEAN
  /\ MaxTasks \in Nat

VARIABLES
  phase,       \* of the engine, in the order of Phases
  snapshot,    \* the object Stop will close
  sources,     \* the object registered for the name
  generation,  \* sourceGenerations of the name
  registered,  \* the thread sourceCancels and sourceDones belong to, 0 for none
  objects,     \* unused, ready (built), open (registered once) or closed
  closing,     \* <<object, thread>>: closed when the thread has ended
  thread,      \* what each thread is doing
  cancelled,   \* cancelled contexts: of threads, and 0 for that of the engine
  change,      \* what each caller is doing
  writer,      \* the caller that announced itself at the gate
  tasks,       \* of the evaluator: waiting or with a worker
  queueClosed,
  panicked     \* a send on the closed queue ended the process

registry == <<sources, generation, registered>>
evaluator == <<tasks, queueClosed, panicked>>
aroundPolls == <<phase, snapshot, registry, objects, closing, cancelled, change,
                 writer, evaluator>>
vars == <<phase, snapshot, sources, generation, registered, objects, closing,
          thread, cancelled, change, writer, tasks, queueClosed, panicked>>

Phases == {"new", "running", "fenced", "cancelled", "closing", "draining", "stopped"}

ThreadState ==
  [pc : {"idle", "starting", "fetching", "fetched", "blocked", "holding", "effects",
         "resting", "done", "away"},
   source : Object \cup {None},
   generation : 0..MaxGeneration]

ChangeState ==
  [pc : {"idle", "prepared", "cancelled", "announced"},
   source : Object \cup {None},   \* what is to be registered, None to remove
   old : Object \cup {None},
   generation : 0..MaxGeneration]

NoThread == [pc |-> "idle", source |-> None, generation |-> 0]
NoChange == [pc |-> "idle", source |-> None, old |-> None, generation |-> 0]

Init ==
  /\ phase = "new"
  /\ snapshot = None
  /\ sources = Configured
  /\ generation = 1
  /\ registered = 0
  /\ objects = [o \in Object |-> IF o = Configured THEN "open" ELSE "unused"]
  /\ closing = {}
  /\ thread = [t \in Thread |-> NoThread]
  /\ cancelled = {}
  /\ change = [c \in Change |-> NoChange]
  /\ writer = None
  /\ tasks = 0
  /\ queueClosed = FALSE
  /\ panicked = FALSE

-----------------------------------------------------------------------------
(* Threads: a poll fetches, checks that its source is current, takes the   *)
(* gate for reading, checks again and has its effects.                     *)

Scheduled(t) == t \in Generation

\* isCurrentSource
Current(t) ==
  /\ sources = thread[t].source
  /\ generation = thread[t].generation

GoTo(t, pc) == thread' = [thread EXCEPT ![t].pc = pc]

\* A goroutine goes back to its select, a triggered poll ends.
EndPoll(t) == IF Scheduled(t) THEN GoTo(t, "resting")
              ELSE thread' = [thread EXCEPT ![t] = NoThread]

NewPoll(src, g) == [pc |-> "fetching", source |-> src, generation |-> g]

\* startSourceGoroutine: its first poll has not returned.
NewLoop(src, g) == [pc |-> "starting", source |-> src, generation |-> g]

\* Goroutines that have ended, and threads that are not polling.
Over == {"done", "away"}
Off == {"idle", "done", "away"}

\* A context ends with its own cancel function or with the engine's.
Cancelled(t) == 0 \in cancelled \/ t \in cancelled

StartEngine ==
  /\ phase = "new"
  /\ phase' = "running"
  /\ IF sources = None
     THEN UNCHANGED <<thread, registered>>
     ELSE /\ thread' = [thread EXCEPT ![generation] = NewLoop(sources, generation)]
          /\ registered' = generation
  /\ UNCHANGED <<snapshot, sources, generation, objects, closing, cancelled,
                 change, writer, evaluator>>

\* Mutant: the trigger does not ask whether the engine runs.
TriggerAnyTime(t) ==
  /\ t \in Trigger
  /\ thread[t].pc = "idle"
  /\ sources # None
  /\ thread' = [thread EXCEPT ![t] = NewPoll(sources, generation)]
  /\ UNCHANGED aroundPolls

TriggerSource(t) ==
  /\ t \in Trigger
  /\ thread[t].pc = "idle"
  /\ phase = "running"
  /\ sources # None
  /\ thread' = [thread EXCEPT ![t] = NewPoll(sources, generation)]
  /\ UNCHANGED aroundPolls

\* The fetch returns, with messages or an error; a stale one is discarded.
FetchReturns(t) ==
  /\ thread[t].pc \in {"starting", "fetching"}
  /\ IF Current(t) THEN GoTo(t, "fetched") ELSE EndPoll(t)
  /\ UNCHANGED aroundPolls

\* Nothing to fetch: an unhealthy source between two probes, no missed slot.
SkipPoll(t) ==
  /\ thread[t].pc \in {"starting", "fetching"}
  /\ EndPoll(t)
  /\ UNCHANGED aroundPolls

\* A goroutine that starts on a day without trading returns.
LeaveOnHoliday(t) ==
  /\ TradingDaysOnly
  /\ Scheduled(t)
  /\ thread[t].pc = "starting"
  /\ GoTo(t, "away")
  /\ UNCHANGED aroundPolls

\* Mutant: a gate that prefers readers.
EnterGateFirst(t) ==
  /\ thread[t].pc = "fetched"
  /\ GoTo(t, "holding")
  /\ UNCHANGED aroundPolls

\* gate.mu.RLock: a caller that has announced itself keeps new readers out.
EnterGate(t) ==
  /\ thread[t].pc = "fetched"
  /\ GoTo(t, IF writer = None THEN "holding" ELSE "blocked")
  /\ UNCHANGED aroundPolls

BeginEffects(t) ==
  /\ thread[t].pc = "holding"
  /\ IF Current(t) THEN GoTo(t, "effects") ELSE EndPoll(t)
  /\ UNCHANGED aroundPolls

\* Submit: a full queue drops the message (no step), a closed one panics.
SubmitMessage(t) ==
  /\ thread[t].pc = "effects"
  /\ IF queueClosed
     THEN panicked' = TRUE /\ UNCHANGED tasks
     ELSE /\ tasks < MaxTasks
          /\ tasks' = tasks + 1
          /\ UNCHANGED panicked
  /\ UNCHANGED <<phase, snapshot, registry, objects, closing, thread, cancelled,
                 change, writer, queueClosed>>

ReleaseEffects(t) ==
  /\ thread[t].pc = "effects"
  /\ EndPoll(t)
  /\ UNCHANGED aroundPolls

\* The select of the goroutine: its ticker or slot, or its context.
PollAgain(t) ==
  /\ Scheduled(t)
  /\ thread[t].pc = "resting"
  /\ GoTo(t, "fetching")
  /\ UNCHANGED aroundPolls

LeaveLoop(t) ==
  /\ Scheduled(t)
  /\ thread[t].pc = "resting"
  /\ Cancelled(t)
  /\ GoTo(t, "done")
  /\ UNCHANGED aroundPolls

-----------------------------------------------------------------------------
(* Changes: PrepareSourceChange, Activate, Abort and RemoveSource.          *)

\* The object a change will register: a new one, or None to disable.
PrepareSourceChange(c, src) ==
  /\ change[c].pc = "idle"
  /\ phase # "new"
  /\ generation < MaxGeneration
  /\ src \in {None} \cup {o \in Object : objects[o] = "unused"}
  /\ objects' = IF src = None THEN objects ELSE [objects EXCEPT ![src] = "ready"]
  /\ change' = [change EXCEPT ![c] =
       [pc |-> "prepared", source |-> src, old |-> sources, generation |-> generation]]
  /\ UNCHANGED <<phase, snapshot, registry, closing, thread, cancelled, writer, evaluator>>

\* Abort, after a failed Activate too: the object that was built is closed.
Abandoned(c) ==
  /\ change' = [change EXCEPT ![c] = NoChange]
  /\ objects' = [o \in Object |-> IF o = change[c].source THEN "closed" ELSE objects[o]]

AbortChange(c) ==
  /\ change[c].pc = "prepared"
  /\ Abandoned(c)
  /\ UNCHANGED <<phase, snapshot, registry, closing, thread, cancelled, writer, evaluator>>

\* Nobody changed the source since the change was prepared.
Unchanged(c) ==
  /\ sources = change[c].old
  /\ generation = change[c].generation

CancelRegistered ==
  cancelled' = IF registered = 0 THEN cancelled ELSE cancelled \cup {registered}

\* Mutant: the registered goroutine is cancelled before the check.
CancelAndCheck(c) ==
  /\ change[c].pc = "prepared"
  /\ CancelRegistered
  /\ IF Unchanged(c)
     THEN change' = [change EXCEPT ![c].pc = "cancelled"] /\ UNCHANGED objects
     ELSE Abandoned(c)
  /\ UNCHANGED <<phase, snapshot, registry, closing, thread, writer, evaluator>>

\* The first check of Activate.  The context it cancels is that of the
\* goroutine registered at the check, cancelled just after it.
CheckAndCancel(c) ==
  /\ change[c].pc = "prepared"
  /\ IF Unchanged(c)
     THEN /\ CancelRegistered
          /\ change' = [change EXCEPT ![c].pc = "cancelled"]
          /\ UNCHANGED objects
     ELSE /\ Abandoned(c)
          /\ UNCHANGED cancelled
  /\ UNCHANGED <<phase, snapshot, registry, closing, thread, writer, evaluator>>

\* RemoveSource reads the registry, cancels and goes to the gate.
RemoveSource(c) ==
  /\ change[c].pc = "idle"
  /\ phase # "new"
  /\ generation < MaxGeneration
  /\ change' = [change EXCEPT ![c] =
       [pc |-> "cancelled", source |-> None, old |-> sources, generation |-> generation]]
  /\ CancelRegistered
  /\ UNCHANGED <<phase, snapshot, registry, objects, closing, thread, writer, evaluator>>

\* gate.mu.Lock, first half: new readers block from now on.
AnnounceWriter(c) ==
  /\ change[c].pc = "cancelled"
  /\ writer = None
  /\ writer' = c
  /\ change' = [change EXCEPT ![c].pc = "announced"]
  /\ UNCHANGED <<phase, snapshot, registry, objects, closing, thread, cancelled, evaluator>>

\* Mutant: the gate is let go before the effects.
Checking(t) == thread[t].pc = "holding"

Reading(t) == thread[t].pc \in {"holding", "effects"}

\* Unlock lets in every reader that blocked meanwhile.
Readmitted(t) ==
  IF thread[t].pc = "blocked" THEN [thread[t] EXCEPT !.pc = "holding"] ELSE thread[t]

\* closeSourceAfter: at once when no goroutine was registered.
CloseOld(old, opened) ==
  /\ closing' = IF old # None /\ registered # 0
                THEN closing \cup {<<old, registered>>} ELSE closing
  /\ objects' = [o \in Object |-> IF o = old /\ registered = 0 THEN "closed"
                                  ELSE IF o = opened THEN "open" ELSE objects[o]]

\* The gate is held: second check, the change itself, and Unlock.
ChangeSource(c) ==
  /\ change[c].pc = "announced"
  /\ \A t \in Thread : ~Reading(t)
  /\ LET src == change[c].source
         old == change[c].old
         next == generation + 1
         starts == src # None /\ phase = "running" /\ (old = None \/ registered # 0)
     IN IF Unchanged(c)
        THEN /\ generation' = next
             /\ sources' = src
             /\ registered' = IF starts THEN next ELSE 0
             /\ thread' = [t \in Thread |->
                  IF starts /\ t = next THEN NewLoop(src, next) ELSE Readmitted(t)]
             /\ CloseOld(old, src)
             /\ change' = [change EXCEPT ![c] = NoChange]
        ELSE /\ thread' = [t \in Thread |-> Readmitted(t)]
             /\ Abandoned(c)
             /\ UNCHANGED <<registry, closing>>
  /\ writer' = None
  /\ UNCHANGED <<phase, snapshot, cancelled, evaluator>>

CloseReplaced(o, t) ==
  /\ <<o, t>> \in closing
  /\ thread[t].pc \in Over
  /\ closing' = closing \ {<<o, t>>}
  /\ objects' = [objects EXCEPT ![o] = "closed"]
  /\ UNCHANGED <<phase, snapshot, registry, thread, cancelled, change, writer, evaluator>>

-----------------------------------------------------------------------------
(* Stop, step by step, and the workers of the evaluator.                   *)

\* The context that Start was given ends first when the process is signalled.
ServiceDone ==
  /\ phase = "running"
  /\ 0 \notin cancelled
  /\ cancelled' = cancelled \cup {0}
  /\ UNCHANGED <<phase, snapshot, registry, objects, closing, thread, change, writer, evaluator>>

FenceEngine ==
  /\ phase = "running"
  /\ phase' = "fenced"
  /\ snapshot' = sources
  /\ UNCHANGED <<registry, objects, closing, thread, cancelled, change, writer, evaluator>>

\* Mutant: Stop waits without cancelling.
CancelNothing ==
  /\ phase = "fenced"
  /\ phase' = "cancelled"
  /\ UNCHANGED <<snapshot, registry, objects, closing, thread, cancelled, change,
                 writer, evaluator>>

CancelEngine ==
  /\ phase = "fenced"
  /\ phase' = "cancelled"
  /\ cancelled' = cancelled \cup {0}
  /\ UNCHANGED <<snapshot, registry, objects, closing, thread, change, writer, evaluator>>

CloseQueue ==
  /\ phase = "cancelled"
  /\ phase' = "closing"
  /\ queueClosed' = TRUE
  /\ UNCHANGED <<snapshot, registry, objects, closing, thread, cancelled, change,
                 writer, tasks, panicked>>

EvaluatorStopped ==
  /\ phase = "closing"
  /\ tasks = 0
  /\ phase' = "draining"
  /\ UNCHANGED <<snapshot, registry, objects, closing, thread, cancelled, change,
                 writer, evaluator>>

\* wg.Wait, then the objects Stop had listed are closed.
FinishStop ==
  /\ phase = "draining"
  /\ \A t \in Thread : thread[t].pc \in Off
  /\ phase' = "stopped"
  /\ objects' = [o \in Object |-> IF o = snapshot THEN "closed" ELSE objects[o]]
  /\ UNCHANGED <<snapshot, registry, closing, thread, cancelled, change, writer, evaluator>>

FinishTask ==
  /\ tasks > 0
  /\ tasks' = tasks - 1
  /\ UNCHANGED <<phase, snapshot, registry, objects, closing, thread, cancelled,
                 change, writer, queueClosed, panicked>>

-----------------------------------------------------------------------------
\* The steps of a poll that follow one another without waiting for an event.
PollStep(t) ==
  FetchReturns(t) \/ SkipPoll(t) \/ EnterGate(t) \/ BeginEffects(t) \/ ReleaseEffects(t)

ThreadStep(t) ==
  \/ PollStep(t) \/ TriggerSource(t) \/ SubmitMessage(t)
  \/ PollAgain(t) \/ LeaveLoop(t) \/ LeaveOnHoliday(t)

ChangeStep(c) == CheckAndCancel(c) \/ AnnounceWriter(c) \/ ChangeSource(c)

StopStep == CancelEngine \/ CloseQueue \/ EvaluatorStopped \/ FinishStop

Next ==
  /\ ~panicked
  /\ \/ StartEngine \/ ServiceDone \/ FenceEngine \/ StopStep \/ FinishTask
     \/ \E t \in Thread : ThreadStep(t)
     \/ \E c \in Change : ChangeStep(c) \/ AbortChange(c) \/ RemoveSource(c)
     \/ \E c \in Change, src \in Object \cup {None} : PrepareSourceChange(c, src)
     \/ \E o \in Object, t \in Thread : CloseReplaced(o, t)

Spec == Init /\ [][Next]_vars

-----------------------------------------------------------------------------
(* Fairness.  Fetches and sends end, with their context or their own       *)
(* timeout; a goroutine that finds its context done whenever it comes back *)
(* to its select leaves at some point, for select picks among the ready    *)
(* cases at random; started callers, Stop, closers and workers go on.      *)
Fairness ==
  /\ \A t \in Thread : WF_vars(~panicked /\ PollStep(t)) /\ SF_vars(~panicked /\ LeaveLoop(t))
  /\ \A c \in Change : WF_vars(~panicked /\ ChangeStep(c))
  /\ \A o \in Object, t \in Thread : WF_vars(~panicked /\ CloseReplaced(o, t))
  /\ WF_vars(~panicked /\ StopStep)
  /\ WF_vars(~panicked /\ FinishTask)

FairSpec == Spec /\ Fairness

-----------------------------------------------------------------------------
\* Type invariant.
TypeOK ==
  /\ phase \in Phases
  /\ {snapshot, sources} \subseteq Object \cup {None}
  /\ generation \in Generation
  /\ registered \in 0..MaxGeneration
  /\ objects \in [Object -> {"unused", "ready", "open", "closed"}]
  /\ closing \subseteq Object \X Generation
  /\ thread \in [Thread -> ThreadState]
  /\ cancelled \subseteq Thread \cup {0}
  /\ change \in [Change -> ChangeState]
  /\ writer \in Change \cup {None}
  /\ tasks \in 0..MaxTasks
  /\ {queueClosed, panicked} \subseteq BOOLEAN

\* Whatever a poll fetched, it is stored, filtered, counted for the health of
\* the source and sent only while the source and generation it began with are
\* the registered ones, and while that object is open: a change waits at the
\* gate for effects that have begun and discards those that come late.
EffectsAreCurrent ==
  \A t \in Thread : thread[t].pc = "effects" =>
    Current(t) /\ objects[thread[t].source] = "open"

\* The goroutine of a source never polls a closed object: a replaced object is
\* closed when the goroutine registered for it has ended, and Stop closes its
\* objects after every goroutine has ended, even when changes overlap the stop.
LoopSourceIsOpen ==
  \A t \in Generation : thread[t].pc \notin Off =>
    objects[thread[t].source] = "open"

\* At most one goroutine goes on polling the source, and it is the registered
\* one; it ends by itself only on a holiday, and is told to end only by Stop, a
\* signal or a change that still finds the source as it was and so is going to
\* replace it.  A change that loses to another one never stops the goroutine
\* the winner started.
Loop(t) == Scheduled(t) /\ thread[t].pc \notin Off

OneLoop ==
  /\ \A t \in Thread : Loop(t) /\ ~Cancelled(t) => t = registered
  /\ registered # 0 /\ ~Cancelled(registered) =>
       Loop(registered) \/ thread[registered].pc = "away"
  /\ registered # 0 /\ registered \in cancelled =>
       \E c \in Change : change[c].pc \in {"cancelled", "announced"} /\ Unchanged(c)

\* When Stop returns, its caller closes channels and storage: by then no poll
\* and no evaluation is left, and none comes back, although polls may be
\* triggered and changes activated until the last moment.
NothingRunsAfterStop ==
  phase = "stopped" =>
    /\ \A t \in Thread : thread[t].pc \in Off
    /\ tasks = 0

\* A caller that reached the gate gets through it, although polls keep coming.
ChangeEnds ==
  \A c \in Change :
    change[c].pc \in {"cancelled", "announced"} ~> change[c].pc = "idle" \/ panicked

\* An object that was replaced, disabled or removed is closed in the end, so
\* the goroutine that polled it leaves its loop.
ReplacedIsClosed ==
  \A o \in Object :
    objects[o] = "open" /\ sources # o ~> objects[o] = "closed" \/ panicked

\* Stop returns, whatever callers change and trigger meanwhile.
StopEnds == phase = "fenced" ~> phase = "stopped" \/ panicked

\* The fence of the engine keeps the promise of SourceFence.
Fence == INSTANCE SourceFence WITH
  applying <- [t \in Thread |->
    IF thread[t].pc = "effects" THEN thread[t].generation ELSE 0]

KeepsFence == Fence!Spec

\* A source limited to trading days skips the other days (its configuration, the
\* comments of the scheduled loop), and polls again on the next trading day: the
\* registered goroutine goes on as long as nobody ends it.  The code does not
\* keep this: started on another day, the goroutine returns.
SourceKeepsPolling == registered # 0 /\ ~Cancelled(registered) => Loop(registered)

\* Submit hands a message over or drops it, and never holds up the sending
\* path (the comments at Submit): a poll that is still in its effects when
\* Stop has closed the queue must not bring the process down.
SubmitNeverPanics == ~panicked

=============================================================================
