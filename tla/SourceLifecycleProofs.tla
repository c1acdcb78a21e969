------------------------ MODULE SourceLifecycleProofs ------------------------
(***************************************************************************)
(* Proofs about SourceLifecycle, for every set of triggered polls, objects *)
(* and callers and any number of generations: one inductive invariant      *)
(* about threads, objects and changes, and what follows from it.           *)
(***************************************************************************)
EXTENDS SourceLifecycle, TLAPS

-----------------------------------------------------------------------------
(* The inductive invariant.                                                *)

InUse == {"open", "closed"}

USE DEF Off, Over

\* Threads poll objects that were registered; the goroutine of a generation
\* carries its number, and no two of them have the same object.
ThreadsOk ==
  /\ \A t \in Thread : thread[t].pc # "idle" =>
       thread[t].source \in Object /\ objects[thread[t].source] \in InUse
  /\ \A t \in Generation : thread[t].pc # "idle" =>
       t <= generation /\ thread[t].generation = t
  /\ \A t, u \in Generation :
       thread[t].pc # "idle" /\ thread[u].pc # "idle" /\ thread[t].source = thread[u].source
         => t = u
  /\ \A t \in Trigger : thread[t].pc \notin Over

\* A goroutine that has not ended is the registered one or keeps its object
\* from being closed.
LoopsOk ==
  \A t \in Thread : Loop(t) => t = registered \/ <<thread[t].source, t>> \in closing

\* The registered goroutine polls the registered object.
RegistryOk ==
  /\ sources # None => objects[sources] \in InUse
  /\ snapshot # None => objects[snapshot] \in InUse
  /\ sources # None /\ phase # "stopped" => objects[sources] = "open"
  /\ registered # 0 =>
       /\ registered = generation
       /\ sources # None
       /\ thread[registered].pc # "idle"
       /\ thread[registered].source = sources

\* What waits to be closed is no longer registered.
ClosingOk ==
  \A o \in Object, t \in Generation : <<o, t>> \in closing =>
    /\ o # sources
    /\ objects[o] \in InUse
    /\ thread[t].pc # "idle"
    /\ thread[t].source = o

InFlight(c) == change[c].pc \in {"cancelled", "announced"}

\* Every change has an object of its own, not registered yet, and one that
\* reached the gate and still applies has cancelled what it replaces.
ChangesOk ==
  /\ \A c \in Change :
       /\ change[c].pc = "idle" => change[c].source = None
       /\ change[c].pc # "idle" => change[c].generation < MaxGeneration
       /\ change[c].generation <= generation
       /\ change[c].source # None => objects[change[c].source] = "ready"
       /\ InFlight(c) /\ Unchanged(c) /\ registered # 0 => registered \in cancelled
  /\ \A c, d \in Change :
       change[c].source # None /\ change[c].source = change[d].source => c = d

\* Before the start nothing has happened, contexts are cancelled for Stop or
\* for a goroutine that has run, and a stopped engine is quiet.
PhaseOk ==
  /\ phase = "new" =>
       /\ \A t \in Thread : thread[t].pc = "idle"
       /\ \A c \in Change : change[c].pc = "idle"
       /\ registered = 0
       /\ cancelled = {}
  /\ \A t \in cancelled : t \in 0..generation
  /\ phase \in {"closing", "draining", "stopped"} => queueClosed
  /\ phase \in {"draining", "stopped"} => tasks = 0
  /\ phase = "stopped" => \A t \in Thread : thread[t].pc \in Off

InEffects == \A t \in Thread : thread[t].pc = "effects" => Current(t)

IInv ==
  /\ TypeOK /\ ThreadsOk /\ LoopsOk /\ RegistryOk /\ ClosingOk /\ ChangesOk /\ PhaseOk
  /\ InEffects /\ LoopSourceIsOpen /\ OneLoop

-----------------------------------------------------------------------------
(* The lemmas: one per group of actions.                                   *)

\* No triggered poll is the goroutine of a generation.
LEMMA Disjoint ==
  /\ \A t \in Trigger : t \notin Generation
  /\ 0 \notin Thread
  BY LifecycleConstants DEF Generation, Thread

\* The invariant holds initially.
LEMMA InitInv == Init => IInv
<1> SUFFICES ASSUME Init PROVE IInv
  OBVIOUS
<1> USE LifecycleConstants
<1>0. 1 \in Generation /\ 0 \in 0..MaxGeneration /\ 0 \in 0..MaxTasks
  BY DEF Generation
<1>1. TypeOK
  <2>1. NoThread \in ThreadState /\ NoChange \in ChangeState
    BY <1>0 DEF ThreadState, ChangeState, NoThread, NoChange
  <2>2. /\ thread \in [Thread -> ThreadState]
        /\ change \in [Change -> ChangeState]
        /\ objects \in [Object -> {"unused", "ready", "open", "closed"}]
    BY <2>1 DEF Init
  <2> QED
    BY <1>0, <2>2 DEF Init, TypeOK, Phases
<1>2. ThreadsOk /\ LoopsOk /\ InEffects /\ LoopSourceIsOpen /\ OneLoop
  BY DEF Init, ThreadsOk, LoopsOk, InEffects, LoopSourceIsOpen, OneLoop, Loop, Scheduled,
         Generation, Thread, NoThread, Current
<1>3. RegistryOk /\ ClosingOk /\ ChangesOk /\ PhaseOk
  BY DEF Init, RegistryOk, ClosingOk, ChangesOk, PhaseOk, InUse, InFlight, Unchanged,
         Generation, Thread, NoThread, NoChange
<1> QED
  BY <1>1, <1>2, <1>3 DEF IInv

\* A thread goes from one place of a poll to the next or ends: it keeps its
\* object and generation, and has effects only if it is current.
LEMMA StepInv ==
  ASSUME IInv, NEW t \in Thread, NEW new \in ThreadState,
         thread' = [thread EXCEPT ![t] = new], UNCHANGED aroundPolls,
         thread[t].pc \notin Off,
         new.pc # "idle" =>
           new.source = thread[t].source /\ new.generation = thread[t].generation,
         Scheduled(t) => new.pc # "idle",
         ~Scheduled(t) => new.pc \notin Over,
         new.pc = "done" => Cancelled(t),
         new.pc = "effects" => Current(t)
  PROVE  IInv'
<1> USE LifecycleConstants
<1> TypeOK
  BY DEF IInv
<1>0. thread'[t] = new /\ \A u \in Thread : u # t => thread'[u] = thread[u]
  BY DEF TypeOK
<1>u. UNCHANGED <<phase, snapshot, sources, generation, registered, objects, closing,
                  cancelled, change, writer, tasks, queueClosed, panicked>>
  BY DEF aroundPolls, registry, evaluator
<1>p. phase # "stopped" /\ phase # "new"
  BY DEF IInv, PhaseOk
<1>s. /\ \A u \in Thread : thread'[u].pc # "idle" => thread'[u].source = thread[u].source
      /\ \A u \in Thread : thread'[u].pc # "idle" => thread'[u].generation = thread[u].generation
      /\ \A u \in Thread : thread'[u].pc # "idle" => thread[u].pc # "idle"
      /\ \A u \in Thread : u # t => thread'[u].pc = thread[u].pc
      /\ thread'[t].pc = new.pc
  BY <1>0
<1>g. \A u \in Generation : u \in Thread /\ (thread'[u].pc # "idle" <=> thread[u].pc # "idle")
  BY <1>s DEF Scheduled, Thread
<1>l. \A u \in Thread : Loop(u)' => Loop(u) /\ thread'[u].pc # "idle"
  BY <1>s DEF Loop, Scheduled
<1>1. TypeOK'
  BY <1>u DEF TypeOK
<1>2. ThreadsOk'
  <2>2. \A u \in Trigger : thread'[u].pc \notin Over
    BY <1>s, Disjoint DEF IInv, ThreadsOk, Scheduled, Thread
  <2> QED
    BY <1>s, <1>u, <1>g, <2>2 DEF IInv, ThreadsOk
<1>3. LoopsOk'
  BY <1>s, <1>u, <1>l DEF IInv, LoopsOk
<1>4. RegistryOk'
  <2>1. registered # 0 => registered \in Generation
    BY DEF TypeOK, Generation
  <2>2. registered # 0 => thread'[registered].pc # "idle" /\ thread'[registered].source = sources
    BY <1>s, <1>g, <2>1 DEF IInv, RegistryOk
  <2> QED
    BY <1>u, <2>2 DEF IInv, RegistryOk
<1>5. ClosingOk'
  BY <1>s, <1>u, <1>g DEF IInv, ClosingOk
<1>6. ChangesOk'
  BY <1>u DEF IInv, ChangesOk, InFlight, Unchanged
<1>7. PhaseOk'
  BY <1>u, <1>p DEF IInv, PhaseOk
<1>8. InEffects'
  <2> SUFFICES ASSUME NEW u \in Thread, thread'[u].pc = "effects" PROVE Current(u)
    BY <1>s, <1>u DEF InEffects, Current
  <2> QED
    BY <1>s DEF IInv, InEffects
<1>9. LoopSourceIsOpen'
  <2> SUFFICES ASSUME NEW u \in Generation, thread'[u].pc \notin Off
               PROVE  objects[thread[u].source] = "open"
    BY <1>s, <1>u, <1>g DEF LoopSourceIsOpen
  <2>1. thread[u].pc \notin Off
    BY <1>s, <1>g
  <2> QED
    BY <2>1 DEF IInv, LoopSourceIsOpen
<1>10. OneLoop'
  <2>1. ASSUME registered # 0, ~Cancelled(registered)
        PROVE  Loop(registered)' \/ thread'[registered].pc = "away"
    <3>1. registered \in Thread /\ (Loop(registered) \/ thread[registered].pc = "away")
      BY <2>1 DEF IInv, OneLoop, TypeOK, Generation, Thread
    <3> QED
      BY <2>1, <3>1, <1>s, <1>u DEF Loop, Scheduled
  <2> QED
    BY <1>u, <1>l, <2>1 DEF IInv, OneLoop, Cancelled, Unchanged
<1> QED
  BY <1>1, <1>2, <1>3, <1>4, <1>5, <1>6, <1>7, <1>8, <1>9, <1>10 DEF IInv

\* A thread that goes on to another place of its poll.
LEMMA MoveInv ==
  ASSUME IInv, NEW t \in Thread,
         NEW pc \in {"fetching", "fetched", "blocked", "holding", "effects", 
                    "resting", "done", "away"},
         GoTo(t, pc), UNCHANGED aroundPolls,
         thread[t].pc \notin Off,
         ~Scheduled(t) => pc \notin Over,
         pc = "done" => Cancelled(t),
         pc = "effects" => Current(t)
  PROVE  IInv'
<1> DEFINE new == [thread[t] EXCEPT !.pc = pc]
<1>1. thread[t] \in ThreadState
  BY DEF IInv, TypeOK
<1>2. /\ new \in ThreadState /\ new.pc = pc
      /\ new.source = thread[t].source /\ new.generation = thread[t].generation
      /\ thread' = [thread EXCEPT ![t] = new]
  BY <1>1 DEF ThreadState, GoTo, IInv, TypeOK
<1> HIDE DEF new
<1> QED
  BY <1>2, StepInv

\* A thread that ends its poll.
LEMMA EndPollInv ==
  ASSUME IInv, NEW t \in Thread, EndPoll(t), UNCHANGED aroundPolls, thread[t].pc \notin Off
  PROVE  IInv'
<1>1. CASE Scheduled(t)
  BY <1>1, MoveInv DEF EndPoll
<1>2. CASE ~Scheduled(t)
  <2>1. NoThread \in ThreadState /\ NoThread.pc = "idle"
    BY LifecycleConstants DEF NoThread, ThreadState
  <2> QED
    BY <1>2, <2>1, StepInv DEF EndPoll
<1> QED
  BY <1>1, <1>2

\* Steps of the evaluator, of Stop and of the engine's context that leave
\* registry, threads, objects and changes alone.
LEMMA QuietInv ==
  ASSUME IInv, UNCHANGED <<registry, objects, closing, thread, change, writer>>,
         TypeOK', PhaseOk', snapshot' \in {snapshot, sources},
         phase' = phase \/ (phase' # "stopped" /\ phase # "stopped"),
         cancelled' \in {cancelled, cancelled \cup {0}}
  PROVE  IInv'
<1> USE DEF registry
<1>1. ThreadsOk' /\ LoopsOk' /\ ClosingOk' /\ InEffects' /\ LoopSourceIsOpen'
  BY DEF IInv, ThreadsOk, LoopsOk, ClosingOk, InEffects, LoopSourceIsOpen, Loop, Scheduled, Current
<1>2. RegistryOk'
  BY DEF IInv, RegistryOk
<1>4. ChangesOk'
  BY DEF IInv, ChangesOk, InFlight, Unchanged
<1>5. OneLoop'
  <2>1. /\ \A t \in Thread : Loop(t)' <=> Loop(t)
        /\ Loop(registered)' <=> Loop(registered)
        /\ \A c \in Change : Unchanged(c)' <=> Unchanged(c)
    BY DEF Loop, Scheduled, Unchanged
  <2>2. /\ \A t \in Thread : ~Cancelled(t)' => ~Cancelled(t)
        /\ ~Cancelled(registered)' => ~Cancelled(registered)
        /\ registered # 0 /\ registered \in cancelled' => registered \in cancelled
    BY DEF Cancelled
  <2> QED
    BY <2>1, <2>2 DEF IInv, OneLoop
<1> QED
  BY <1>1, <1>2, <1>4, <1>5 DEF IInv

\* Submissions and the workers of the evaluator.
LEMMA EvaluatorInv ==
  ASSUME IInv, (\E t \in Thread : SubmitMessage(t)) \/ FinishTask
  PROVE  IInv'
<1> USE LifecycleConstants
<1>1. UNCHANGED <<registry, objects, closing, thread, change, writer,
                phase, cancelled, snapshot, queueClosed>>
  BY DEF SubmitMessage, FinishTask, evaluator
<1>2. tasks' \in 0..MaxTasks
  <2>1. tasks \in 0..MaxTasks
    BY DEF IInv, TypeOK
  <2> QED
    BY <2>1 DEF SubmitMessage, FinishTask
<1>3. panicked' \in BOOLEAN
  BY DEF SubmitMessage, FinishTask, IInv, TypeOK
<1>4. TypeOK'
  BY <1>1, <1>2, <1>3 DEF IInv, TypeOK, registry
<1>5. phase \in {"draining", "stopped"} => tasks' = 0
  <2>1. phase \in {"draining", "stopped"} => queueClosed /\ tasks = 0
    BY DEF IInv, PhaseOk
  <2> QED
    BY <2>1 DEF SubmitMessage, FinishTask
<1>6. PhaseOk'
  BY <1>1, <1>5 DEF IInv, PhaseOk, registry
<1>7. UNCHANGED <<registry, objects, closing, thread, change, writer>>
  BY <1>1
<1>8. phase' = phase
  BY <1>1
<1>9. phase' = phase \/ (phase' # "stopped" /\ phase # "stopped")
  BY <1>8
<1>10. snapshot' \in {snapshot, sources} /\ cancelled' \in {cancelled, cancelled \cup {0}}
  BY <1>1
<1> QED
  BY <1>4, <1>6, <1>7, <1>9, <1>10, QuietInv

\* The context of the engine, and the first steps of Stop.
LEMMA StopInv ==
  ASSUME IInv, ServiceDone \/ FenceEngine \/ CancelEngine \/ CloseQueue \/ EvaluatorStopped
  PROVE  IInv'
<1> USE DEF ServiceDone, FenceEngine, CancelEngine, CloseQueue, EvaluatorStopped
<1>1. /\ UNCHANGED <<registry, objects, closing, thread, change, writer>>
      /\ cancelled' \in {cancelled, cancelled \cup {0}}
      /\ phase' = phase \/ (phase' # "stopped" /\ phase # "stopped")
      /\ snapshot' \in {snapshot, sources}
      /\ phase # "new" /\ phase' # "new"
  OBVIOUS
<1>2. TypeOK'
  BY <1>1 DEF evaluator, registry, IInv, TypeOK, Phases
<1>3. PhaseOk'
  <2>1. \A x \in cancelled' : x \in 0..generation'
    <3>1. 0 \in 0..generation
      BY DEF IInv, TypeOK, Generation
    <3> QED
      BY <1>1, <3>1 DEF registry, IInv, PhaseOk
  <2> QED
    BY <1>1, <2>1 DEF evaluator, registry, IInv, PhaseOk
<1> HIDE DEF ServiceDone, FenceEngine, CancelEngine, CloseQueue, EvaluatorStopped
<1> QED
  BY <1>1, <1>2, <1>3, QuietInv

\* The end of Stop: nobody polls any more, the registered object is closed.
LEMMA FinishStopInv == ASSUME IInv, FinishStop PROVE IInv'
<1>1. /\ UNCHANGED <<snapshot, sources, generation, registered, closing, thread, cancelled, change,
                     writer, tasks, queueClosed, panicked>>
      /\ phase = "draining" /\ phase' = "stopped"
      /\ \A t \in Thread : thread[t].pc \in Off
      /\ \A o \in Object : objects'[o] = IF o = snapshot THEN "closed" ELSE objects[o]
  BY DEF FinishStop, registry, evaluator
<1>2. TypeOK'
  BY <1>1 DEF FinishStop, IInv, TypeOK, Phases
<1>3. ThreadsOk' /\ LoopsOk' /\ InEffects' /\ LoopSourceIsOpen'
  BY <1>1 DEF IInv, ThreadsOk, LoopsOk, InEffects, LoopSourceIsOpen, Loop, Scheduled, Current,
            InUse,
              Thread
<1>4. RegistryOk' /\ ClosingOk'
  BY <1>1 DEF IInv, RegistryOk, ClosingOk, InUse, TypeOK
<1>5. ChangesOk'
  <2>1. \A c \in Change : change[c].source \in Object \cup {None}
    BY DEF IInv, TypeOK, ChangeState
  <2>2. \A c \in Change : change[c].source # None => objects'[change[c].source] = "ready"
    BY <1>1, <2>1 DEF IInv, ChangesOk, RegistryOk, InUse
  <2> QED
    BY <1>1, <2>2 DEF IInv, ChangesOk, InFlight, Unchanged
<1>6. PhaseOk'
  BY <1>1 DEF IInv, PhaseOk
<1>7. OneLoop'
  BY <1>1 DEF IInv, OneLoop, Loop, Scheduled, Cancelled, Unchanged
<1> QED
  BY <1>2, <1>3, <1>4, <1>5, <1>6, <1>7 DEF IInv


\* Start runs a goroutine for the registered source.
LEMMA StartInv == ASSUME IInv, StartEngine PROVE IInv'
<1> USE LifecycleConstants
<1>1. /\ UNCHANGED <<snapshot, sources, generation, objects, closing, cancelled, change, writer,
                     tasks, queueClosed, panicked>>
      /\ phase = "new" /\ phase' = "running"
      /\ \A t \in Thread : thread[t].pc = "idle"
      /\ \A c \in Change : change[c].pc = "idle"
      /\ registered = 0 /\ cancelled = {}
  BY DEF StartEngine, evaluator, IInv, PhaseOk
<1>2. generation \in Generation /\ generation \in Thread /\ generation # 0
  BY DEF IInv, TypeOK, Generation, Thread
<1>3. CASE sources = None
  <2>1. thread' = thread /\ registered' = registered
    BY <1>3 DEF StartEngine
  <2>2. TypeOK'
    BY <1>1, <2>1 DEF IInv, TypeOK, Phases
  <2>3. ThreadsOk' /\ LoopsOk' /\ InEffects' /\ LoopSourceIsOpen' /\ ClosingOk'
    BY <1>1, <2>1 DEF IInv, ThreadsOk, LoopsOk, InEffects, LoopSourceIsOpen, ClosingOk,
                      Loop, Scheduled, Current, Thread
  <2>4. RegistryOk' /\ ChangesOk' /\ PhaseOk' /\ OneLoop'
    BY <1>1, <2>1 DEF IInv, RegistryOk, ChangesOk, PhaseOk, OneLoop, Loop, Scheduled, InFlight,
                      Unchanged
  <2> QED
    BY <2>2, <2>3, <2>4 DEF IInv
<1>4. CASE sources # None
  <2> DEFINE new == NewLoop(sources, generation)
  <2>1. /\ thread' = [thread EXCEPT ![generation] = new]
        /\ registered' = generation
        /\ sources \in Object
    BY <1>4 DEF StartEngine, IInv, TypeOK
  <2>2. /\ new \in ThreadState
        /\ new.pc = "starting" /\ new.source = sources /\ new.generation = generation
    BY <1>2, <2>1 DEF NewLoop, ThreadState, Generation
  <2> HIDE DEF new
  <2>3. thread'[generation] = new /\ \A t \in Thread : t # generation => thread'[t].pc = "idle"
    BY <1>1, <1>2, <2>1 DEF IInv, TypeOK
  <2>4. TypeOK'
    BY <1>1, <1>2, <2>1, <2>2 DEF IInv, TypeOK, Phases, Generation
  <2>5. objects[sources] = "open"
    BY <1>1, <1>4 DEF IInv, RegistryOk
  <2>6. closing = {}
    <3>1. ASSUME NEW o \in Object, NEW t \in Generation, <<o, t>> \in closing
          PROVE  FALSE
      <4>1. thread[t].pc # "idle" /\ t \in Thread
        BY <3>1 DEF IInv, ClosingOk, Thread
      <4> QED
        BY <1>1, <4>1
    <3> QED
      BY <3>1 DEF IInv, TypeOK
  <2>7. ThreadsOk' /\ LoopsOk' /\ InEffects' /\ LoopSourceIsOpen' /\ ClosingOk'
    <3>1. generation <= generation /\ \A t \in Trigger : t # generation
      BY <1>2, Disjoint DEF Generation
    <3> QED
      BY <1>1, <1>2, <2>1, <2>2, <2>3, <2>5, <2>6, <3>1
      DEF ThreadsOk, LoopsOk, InEffects, LoopSourceIsOpen, ClosingOk, Loop, Scheduled, InUse, Thread
  <2>8. RegistryOk'
    BY <1>1, <2>1, <2>2, <2>3, <2>5 DEF IInv, RegistryOk, InUse
  <2>9. ChangesOk'
    BY <1>1 DEF IInv, ChangesOk, InFlight, Unchanged
  <2>10. PhaseOk'
    BY <1>1 DEF IInv, PhaseOk
  <2>11. OneLoop'
    BY <1>1, <1>2, <2>1, <2>2, <2>3 DEF OneLoop, Loop, Scheduled
  <2> QED
    BY <2>4, <2>7, <2>8, <2>9, <2>10, <2>11 DEF IInv
<1> QED
  BY <1>3, <1>4

\* A poll triggered by hand begins with the registered source.
LEMMA TriggerInv == ASSUME IInv, NEW t \in Thread, TriggerSource(t) PROVE IInv'
<1> USE LifecycleConstants
<1> DEFINE new == NewPoll(sources, generation)
<1>1. UNCHANGED <<phase, snapshot, sources, generation, registered, objects, closing,
                  cancelled, change, writer, tasks, queueClosed, panicked>>
  BY DEF TriggerSource, aroundPolls, registry, evaluator
<1>2. /\ t \in Trigger /\ phase = "running" /\ sources \in Object /\ sources # None
      /\ generation \in Generation
      /\ thread' = [thread EXCEPT ![t] = new]
  BY DEF TriggerSource, IInv, TypeOK
<1>3. /\ new \in ThreadState
      /\ new.pc = "fetching" /\ new.source = sources /\ new.generation = generation
  BY <1>2 DEF NewPoll, ThreadState, Generation
<1> HIDE DEF new
<1>4. thread'[t] = new /\ \A u \in Thread : u # t => thread'[u] = thread[u]
  BY <1>2 DEF IInv, TypeOK
<1>5. \A u \in Generation : u \in Thread /\ u # t
  BY <1>2, Disjoint DEF Thread
<1>6. TypeOK'
  BY <1>1, <1>2, <1>3 DEF IInv, TypeOK
<1>7. objects[sources] \in InUse
  BY <1>2 DEF IInv, RegistryOk
<1>8. ThreadsOk'
  BY <1>1, <1>2, <1>3, <1>4, <1>5, <1>7 DEF IInv, ThreadsOk, Thread
<1>9. \A u \in Thread : /\ Loop(u)' <=> Loop(u)
                        /\ Loop(u) => thread'[u] = thread[u]
  BY <1>4, <1>5 DEF Loop, Scheduled
<1>10. LoopsOk'
  BY <1>1, <1>9 DEF IInv, LoopsOk
<1>11. RegistryOk'
  <2>1. registered # 0 => registered \in Generation
    BY DEF IInv, TypeOK, Generation
  <2> QED
    BY <1>1, <1>4, <1>5, <2>1 DEF IInv, RegistryOk
<1>12. ClosingOk'
  BY <1>1, <1>4, <1>5 DEF IInv, ClosingOk
<1>13. ChangesOk'
  BY <1>1 DEF IInv, ChangesOk, InFlight, Unchanged
<1>14. PhaseOk'
  BY <1>1, <1>2 DEF IInv, PhaseOk
<1>15. InEffects'
  BY <1>1, <1>3, <1>4 DEF IInv, InEffects, Current
<1>16. LoopSourceIsOpen'
  BY <1>1, <1>4, <1>5 DEF IInv, LoopSourceIsOpen
<1>17. OneLoop'
  <2>1. registered # 0 => registered \in Thread
    BY DEF IInv, TypeOK, Generation, Thread
  <2>2. registered # 0 => (Loop(registered)' <=> Loop(registered))
    BY <1>1, <1>9, <2>1 DEF Loop
  <2>3. registered # 0 => thread'[registered] = thread[registered]
    <3>1. registered # 0 => registered \in Generation
      BY DEF IInv, TypeOK, Generation
    <3> QED
      BY <1>4, <1>5, <3>1
  <2> QED
    BY <1>1, <1>4, <1>9, <2>2, <2>3 DEF IInv, OneLoop, Unchanged, Cancelled
<1> QED
  BY <1>6, <1>8, <1>10, <1>11, <1>12, <1>13, <1>14, <1>15, <1>16, <1>17 DEF IInv


\* A step of one caller that touches neither registry nor threads: objects in
\* use and those of other callers stay as they are, and the registered thread
\* is cancelled only by a caller that has just seen it and goes to the gate.
AtGate(new) ==
  new.pc \in {"cancelled", "announced"} /\ new.old = sources /\ new.generation = generation

CallerStep(c, new) ==
  /\ UNCHANGED <<phase, snapshot, registry, closing, thread, evaluator>>
  /\ phase # "new"
  /\ new \in ChangeState
  /\ change' = [change EXCEPT ![c] = new]
  /\ writer' \in Change \cup {None}
  /\ objects' \in [Object -> {"unused", "ready", "open", "closed"}]
  /\ \A o \in Object : objects[o] \in InUse => objects'[o] = objects[o]
  /\ \A d \in Change : d # c /\ change[d].source # None =>
       objects'[change[d].source] = "ready" /\ change[d].source # new.source
  /\ new.pc = "idle" => new.source = None
  /\ new.pc # "idle" => new.generation < MaxGeneration
  /\ new.generation <= generation
  /\ new.source # None => objects'[new.source] = "ready"
  /\ \/ cancelled' = cancelled
     \/ cancelled' = cancelled \cup {registered} /\ registered # 0 /\ AtGate(new)
  /\ AtGate(new) /\ registered # 0 => registered \in cancelled'
  /\ InFlight(c) /\ Unchanged(c) => AtGate(new)

\* Steps of a caller that leave threads and registry alone.
LEMMA CallerInv ==
  ASSUME IInv, NEW c \in Change, NEW new, CallerStep(c, new)
  PROVE  IInv'
<1> USE DEF CallerStep, AtGate
<1> USE LifecycleConstants
<1>1. UNCHANGED <<phase, snapshot, sources, generation, registered, closing, thread,
                  tasks, queueClosed, panicked>>
  BY DEF registry, evaluator
<1>2. change'[c] = new /\ \A d \in Change : d # c => change'[d] = change[d]
  BY DEF IInv, TypeOK
<1>3. registered # 0 => registered \in Thread /\ registered = generation
  BY DEF IInv, TypeOK, RegistryOk, Generation, Thread
<1>4. cancelled \subseteq cancelled' /\ cancelled' \subseteq Thread \cup {0}
  BY <1>3 DEF IInv, TypeOK
<1>5. TypeOK'
  <2>1. change' \in [Change -> ChangeState]
    BY DEF IInv, TypeOK
  <2> QED
    BY <1>1, <1>4, <2>1 DEF IInv, TypeOK
<1>6. \A t \in Thread : thread[t].source \in Object \cup {None}
  BY DEF IInv, TypeOK, ThreadState
<1>7. ThreadsOk' /\ LoopsOk' /\ InEffects'
  BY <1>1, <1>6 DEF IInv, ThreadsOk, LoopsOk, InEffects, Loop, Scheduled, Current
<1>8. LoopSourceIsOpen'
  BY <1>1, <1>6 DEF IInv, LoopSourceIsOpen, ThreadsOk, InUse, Thread
<1>9. RegistryOk'
  <2>1. {snapshot, sources} \subseteq Object \cup {None}
    BY DEF IInv, TypeOK
  <2> QED
    BY <1>1, <2>1 DEF IInv, RegistryOk, InUse
<1>10. ClosingOk'
  BY <1>1 DEF IInv, ClosingOk
<1>11. ChangesOk'
  <2>1. ASSUME NEW d \in Change
        PROVE  /\ change'[d].pc = "idle" => change'[d].source = None
               /\ change'[d].pc # "idle" => change'[d].generation < MaxGeneration
               /\ change'[d].generation <= generation
               /\ change'[d].source # None => objects'[change'[d].source] = "ready"
               /\ InFlight(d)' /\ Unchanged(d)' /\ registered # 0 => registered \in cancelled'
    <3>1. CASE d = c
      BY <1>1, <1>2, <3>1 DEF InFlight, Unchanged
    <3>2. CASE d # c
      BY <1>1, <1>2, <1>4, <3>2 DEF IInv, ChangesOk, InFlight, Unchanged
    <3> QED
      BY <3>1, <3>2
  <2>2. ASSUME NEW d \in Change, NEW e \in Change,
               change'[d].source # None, change'[d].source = change'[e].source
        PROVE  d = e
    BY <1>2, <2>2 DEF IInv, ChangesOk
  <2> QED
    BY <1>1, <2>1, <2>2 DEF ChangesOk
<1>12. PhaseOk'
  <2>1. generation \in 0..generation /\ \A x \in cancelled' : x \in 0..generation
    <3>1. generation \in 0..generation
      BY DEF IInv, TypeOK, Generation
    <3> QED
      BY <1>3, <3>1 DEF IInv, PhaseOk
  <2> QED
    BY <1>1, <2>1 DEF IInv, PhaseOk
<1>13. OneLoop'
  <2>1. \A t \in Thread : Loop(t)' <=> Loop(t)
    BY <1>1 DEF Loop, Scheduled
  <2>2. Loop(registered)' <=> Loop(registered)
    BY <1>1 DEF Loop, Scheduled
  <2>3. /\ \A t \in Thread : ~Cancelled(t)' => ~Cancelled(t)
        /\ ~Cancelled(registered)' => ~Cancelled(registered)
    BY <1>1, <1>4 DEF Cancelled
  <2>4. /\ \A t \in Thread : Loop(t)' /\ ~Cancelled(t)' => t = registered
        /\ registered # 0 /\ ~Cancelled(registered)' =>
             Loop(registered)' \/ thread[registered].pc = "away"
    BY <2>1, <2>2, <2>3 DEF IInv, OneLoop
  <2>5. ASSUME registered # 0, registered \in cancelled'
        PROVE  \E d \in Change : change'[d].pc \in {"cancelled", "announced"} /\ Unchanged(d)'
    <3>1. CASE registered \in cancelled
      <4>1. PICK d \in Change : change[d].pc \in {"cancelled", "announced"} /\ Unchanged(d)
        BY <2>5, <3>1 DEF IInv, OneLoop
      <4>2. CASE d = c
        BY <1>1, <1>2, <4>1, <4>2 DEF InFlight, Unchanged
      <4>3. CASE d # c
        BY <1>1, <1>2, <4>1, <4>3 DEF Unchanged
      <4> QED
        BY <4>2, <4>3
    <3>2. CASE registered \notin cancelled
      BY <1>1, <1>2, <2>5, <3>2 DEF Unchanged
    <3> QED
      BY <3>1, <3>2
  <2> QED
    BY <1>1, <2>4, <2>5 DEF OneLoop
<1> QED
  BY <1>5, <1>7, <1>8, <1>9, <1>10, <1>11, <1>12, <1>13 DEF IInv


\* A prepared change holds an object that nobody else uses.
LEMMA PrepareInv ==
  ASSUME IInv, NEW c \in Change, NEW src \in Object \cup {None}, PrepareSourceChange(c, src)
  PROVE  IInv'
<1> USE LifecycleConstants
<1> DEFINE new == [pc |-> "prepared", source |-> src, old |-> sources, generation |-> generation]
<1>1. /\ UNCHANGED <<phase, snapshot, registry, closing, thread, evaluator, writer, cancelled>>
      /\ phase # "new" /\ change[c].pc = "idle" /\ generation < MaxGeneration
      /\ src \in {None} \cup {o \in Object : objects[o] = "unused"}
      /\ objects' = IF src = None THEN objects ELSE [objects EXCEPT ![src] = "ready"]
      /\ change' = [change EXCEPT ![c] = new]
  BY DEF PrepareSourceChange
<1>2. /\ new \in ChangeState
      /\ new.pc = "prepared" /\ new.source = src /\ new.generation = generation
  BY DEF IInv, TypeOK, ChangeState, Generation
<1> HIDE DEF new
<1>3. /\ objects' \in [Object -> {"unused", "ready", "open", "closed"}]
      /\ \A o \in Object : objects'[o] = IF o = src THEN "ready" ELSE objects[o]
  BY <1>1 DEF IInv, TypeOK
<1>4. \A o \in Object : objects[o] \in InUse => objects'[o] = objects[o]
  BY <1>1, <1>3 DEF InUse
<1>5. \A d \in Change : change[d].source \in Object \cup {None}
  BY DEF IInv, TypeOK, ChangeState
<1>6. \A d \in Change : d # c /\ change[d].source # None =>
        objects'[change[d].source] = "ready" /\ change[d].source # new.source
  BY <1>1, <1>2, <1>3, <1>5 DEF IInv, ChangesOk
<1>7. generation <= generation /\ writer \in Change \cup {None}
  BY DEF IInv, TypeOK, Generation
<1>8. src # None => objects'[src] = "ready"
  BY <1>3
<1> QED
  <2>1. CallerStep(c, new)
    BY <1>1, <1>2, <1>3, <1>4, <1>6, <1>7, <1>8 DEF CallerStep, InFlight, AtGate
  <2> QED
    BY <2>1, CallerInv

\* What Abandoned does to the objects.
LEMMA AbandonedObjects ==
  ASSUME IInv, NEW c \in Change, Abandoned(c)
  PROVE  /\ change' = [change EXCEPT ![c] = NoChange]
         /\ NoChange \in ChangeState
         /\ NoChange.pc = "idle" /\ NoChange.source = None /\ NoChange.generation <= generation
         /\ objects' \in [Object -> {"unused", "ready", "open", "closed"}]
         /\ \A o \in Object : objects[o] \in InUse => objects'[o] = objects[o]
         /\ \A d \in Change : d # c /\ change[d].source # None =>
              objects'[change[d].source] = "ready" /\ change[d].source # None
<1> USE LifecycleConstants
<1>1. \A d \in Change : change[d].source \in Object \cup {None}
  BY DEF IInv, TypeOK, ChangeState
<1>2. /\ change' = [change EXCEPT ![c] = NoChange]
      /\ objects' = [o \in Object |-> IF o = change[c].source THEN "closed" ELSE objects[o]]
  BY DEF Abandoned
<1>3. objects' \in [Object -> {"unused", "ready", "open", "closed"}]
  BY <1>2 DEF IInv, TypeOK
<1>4. \A o \in Object : objects[o] \in InUse => objects'[o] = objects[o]
  BY <1>2 DEF IInv, ChangesOk, InUse
<1>5. \A d \in Change : d # c /\ change[d].source # None => objects'[change[d].source] = "ready"
  BY <1>1, <1>2 DEF IInv, ChangesOk
<1>6. /\ NoChange \in ChangeState
      /\ NoChange.pc = "idle" /\ NoChange.source = None /\ NoChange.generation <= generation
  BY DEF NoChange, ChangeState, IInv, TypeOK, Generation
<1> QED
  BY <1>2, <1>3, <1>4, <1>5, <1>6

\* A change that is aborted closes the object it built.
LEMMA AbandonInv ==
  ASSUME IInv, NEW c \in Change, change[c].pc = "prepared", Abandoned(c),
         UNCHANGED <<phase, snapshot, registry, closing, thread, evaluator, writer, cancelled>>
  PROVE  IInv'
<1>1. phase # "new"
  BY DEF IInv, PhaseOk
<1>2. writer \in Change \cup {None}
  BY DEF IInv, TypeOK
<1>3. CallerStep(c, NoChange)
  BY <1>1, <1>2, AbandonedObjects DEF CallerStep, AtGate, InFlight
<1> QED
  BY <1>3, CallerInv

\* The first check of Activate: the goroutine it cancels is going to be replaced.
LEMMA CheckInv == ASSUME IInv, NEW c \in Change, CheckAndCancel(c) PROVE IInv'
<1> USE LifecycleConstants
<1>1. CASE ~Unchanged(c)
  BY <1>1, AbandonInv DEF CheckAndCancel
<1>2. CASE Unchanged(c)
  <2> DEFINE new == [change[c] EXCEPT !.pc = "cancelled"]
  <2>1. /\ UNCHANGED <<phase, snapshot, registry, closing, thread, evaluator, writer, objects>>
        /\ change[c].pc = "prepared"
        /\ cancelled' = IF registered = 0 THEN cancelled ELSE cancelled \cup {registered}
        /\ change' = [change EXCEPT ![c] = new]
    BY <1>2 DEF CheckAndCancel, CancelRegistered, IInv, TypeOK
  <2>2. change[c] \in ChangeState
    BY DEF IInv, TypeOK
  <2>3. /\ new \in ChangeState
        /\ new.pc = "cancelled" /\ new.source = change[c].source
        /\ new.old = sources /\ new.generation = generation
    BY <1>2, <2>2 DEF ChangeState, Unchanged
  <2> HIDE DEF new
  <2>4. /\ phase # "new"
        /\ writer \in Change \cup {None}
        /\ objects \in [Object -> {"unused", "ready", "open", "closed"}]
    BY <2>1 DEF IInv, PhaseOk, TypeOK
  <2>5. /\ generation < MaxGeneration /\ generation <= generation
        /\ new.source # None => objects[new.source] = "ready"
        /\ \A d \in Change : d # c /\ change[d].source # None =>
             objects[change[d].source] = "ready" /\ change[d].source # new.source
    BY <1>2, <2>1, <2>3 DEF IInv, ChangesOk, Unchanged
  <2>6. CallerStep(c, new)
    BY <2>1, <2>3, <2>4, <2>5 DEF CallerStep, AtGate, InFlight
  <2> QED
    BY <2>6, CallerInv
<1> QED
  BY <1>1, <1>2

\* RemoveSource goes to the gate for the source it found.
LEMMA RemoveInv == ASSUME IInv, NEW c \in Change, RemoveSource(c) PROVE IInv'
<1> USE LifecycleConstants
<1> DEFINE new == [pc |-> "cancelled", source |-> None, old |-> sources, generation |-> generation]
<1>1. /\ UNCHANGED <<phase, snapshot, registry, closing, thread, evaluator, writer, objects>>
      /\ phase # "new" /\ change[c].pc = "idle" /\ generation < MaxGeneration
      /\ cancelled' = IF registered = 0 THEN cancelled ELSE cancelled \cup {registered}
      /\ change' = [change EXCEPT ![c] = new]
  BY DEF RemoveSource, CancelRegistered
<1>2. /\ new \in ChangeState
      /\ new.pc = "cancelled" /\ new.source = None
      /\ new.old = sources /\ new.generation = generation
  BY DEF IInv, TypeOK, ChangeState, Generation
<1> HIDE DEF new
<1>3. /\ writer \in Change \cup {None}
      /\ objects \in [Object -> {"unused", "ready", "open", "closed"}]
      /\ generation <= generation
  BY DEF IInv, TypeOK, Generation
<1>4. \A d \in Change : d # c /\ change[d].source # None =>
        objects[change[d].source] = "ready" /\ change[d].source # new.source
  BY <1>2 DEF IInv, ChangesOk
<1>5. CallerStep(c, new)
  BY <1>1, <1>2, <1>3, <1>4 DEF CallerStep, AtGate, InFlight
<1> QED
  BY <1>5, CallerInv

\* A caller announces itself at the gate; from now on polls block.
LEMMA AnnounceInv == ASSUME IInv, NEW c \in Change, AnnounceWriter(c) PROVE IInv'
<1> USE LifecycleConstants
<1> DEFINE new == [change[c] EXCEPT !.pc = "announced"]
<1>1. /\ UNCHANGED <<phase, snapshot, registry, closing, thread, evaluator, cancelled, objects>>
      /\ change[c].pc = "cancelled" /\ writer' = c
      /\ change' = [change EXCEPT ![c] = new]
  BY DEF AnnounceWriter, IInv, TypeOK
<1>2. change[c] \in ChangeState
  BY DEF IInv, TypeOK
<1>3. /\ new \in ChangeState
      /\ new.pc = "announced" /\ new.source = change[c].source
      /\ new.old = change[c].old /\ new.generation = change[c].generation
  BY <1>2 DEF ChangeState
<1> HIDE DEF new
<1>4. phase # "new" /\ objects \in [Object -> {"unused", "ready", "open", "closed"}]
  BY <1>1 DEF IInv, PhaseOk, TypeOK
<1>5. /\ new.generation < MaxGeneration /\ new.generation <= generation
      /\ new.source # None => objects[new.source] = "ready"
      /\ \A d \in Change : d # c /\ change[d].source # None =>
           objects[change[d].source] = "ready" /\ change[d].source # new.source
      /\ new.old = sources /\ new.generation = generation /\ registered # 0 => registered \in cancelled
  BY <1>1, <1>3 DEF IInv, ChangesOk, InFlight, Unchanged
<1>6. InFlight(c) /\ Unchanged(c) => AtGate(new)
  BY <1>3 DEF AtGate, Unchanged
<1>7. CallerStep(c, new)
  BY <1>1, <1>3, <1>4, <1>5, <1>6 DEF CallerStep, AtGate
<1> QED
  BY <1>7, CallerInv


\* A replaced object is closed when its goroutine has ended.
LEMMA CloseReplacedInv ==
  ASSUME IInv, NEW o \in Object, NEW t \in Thread, CloseReplaced(o, t)
  PROVE  IInv'
<1> USE LifecycleConstants
<1>1. /\ UNCHANGED <<phase, snapshot, sources, generation, registered, thread, cancelled, change,
                     writer, tasks, queueClosed, panicked>>
      /\ <<o, t>> \in closing /\ thread[t].pc \in Over
      /\ closing' = closing \ {<<o, t>>}
      /\ objects' = [objects EXCEPT ![o] = "closed"]
  BY DEF CloseReplaced, registry, evaluator
<1>2. t \in Generation
  BY <1>1 DEF IInv, TypeOK
<1>3. o # sources /\ objects[o] \in InUse /\ thread[t].source = o
  BY <1>1, <1>2 DEF IInv, ClosingOk
<1>4. /\ objects' \in [Object -> {"unused", "ready", "open", "closed"}]
      /\ \A x \in Object : objects'[x] = IF x = o THEN "closed" ELSE objects[x]
  BY <1>1 DEF IInv, TypeOK
<1>5. \A x \in Object : objects[x] \in InUse => objects'[x] \in InUse
  BY <1>4 DEF InUse
<1>6. TypeOK'
  BY <1>1, <1>4 DEF IInv, TypeOK
<1>7. ThreadsOk' /\ InEffects'
  BY <1>1, <1>5 DEF IInv, ThreadsOk, InEffects, Current
<1>8. LoopsOk'
  <2> SUFFICES ASSUME NEW u \in Thread, Loop(u)
               PROVE  u = registered \/ <<thread[u].source, u>> \in closing'
    BY <1>1 DEF LoopsOk, Loop, Scheduled
  <2>1. u # t
    BY <1>1 DEF Loop
  <2> QED
    BY <1>1, <2>1 DEF IInv, LoopsOk
<1>9. LoopSourceIsOpen'
  <2> SUFFICES ASSUME NEW u \in Generation, thread[u].pc \notin Off
               PROVE  objects'[thread[u].source] = "open"
    BY <1>1 DEF LoopSourceIsOpen
  <2>1. objects[thread[u].source] = "open" /\ thread[u].source \in Object
    BY DEF IInv, LoopSourceIsOpen, ThreadsOk, Thread
  <2>2. thread[u].source # o
    BY <1>1, <1>2, <1>3 DEF IInv, ThreadsOk
  <2> QED
    BY <1>4, <2>1, <2>2
<1>10. RegistryOk'
  <2>1. {snapshot, sources} \subseteq Object \cup {None}
    BY DEF IInv, TypeOK
  <2>2. sources # None /\ phase # "stopped" => objects'[sources] = "open"
    BY <1>3, <1>4, <2>1 DEF IInv, RegistryOk
  <2> QED
    BY <1>1, <1>5, <2>1, <2>2 DEF IInv, RegistryOk
<1>11. ClosingOk'
  BY <1>1, <1>5 DEF IInv, ClosingOk
<1>12. ChangesOk'
  <2>1. \A c \in Change : change[c].source # None => objects'[change[c].source] = "ready"
    <3>1. \A c \in Change : change[c].source \in Object \cup {None}
      BY DEF IInv, TypeOK, ChangeState
    <3> QED
      BY <1>3, <1>4, <3>1 DEF IInv, ChangesOk, InUse
  <2> QED
    BY <1>1, <2>1 DEF IInv, ChangesOk, InFlight, Unchanged
<1>13. PhaseOk'
  BY <1>1 DEF IInv, PhaseOk
<1>14. OneLoop'
  BY <1>1 DEF IInv, OneLoop, Loop, Scheduled, Cancelled, Unchanged
<1> QED
  BY <1>6, <1>7, <1>8, <1>9, <1>10, <1>11, <1>12, <1>13, <1>14 DEF IInv

\* Readers let in by Unlock: only blocked threads move, to a place without effects.
LEMMA ReadmittedThread ==
  ASSUME TypeOK, NEW t \in Thread
  PROVE  /\ Readmitted(t) \in ThreadState
         /\ Readmitted(t).source = thread[t].source
         /\ Readmitted(t).generation = thread[t].generation
         /\ Readmitted(t).pc = IF thread[t].pc = "blocked" THEN "holding" ELSE thread[t].pc
<1>1. thread[t] \in ThreadState
  BY DEF TypeOK
<1> QED
  BY <1>1 DEF Readmitted, ThreadState

\* A change that found another source gives up.
LEMMA ChangeLostInv ==
  ASSUME IInv, NEW c \in Change, ChangeSource(c), ~Unchanged(c)
  PROVE  IInv'
<1> USE LifecycleConstants
<1> TypeOK
  BY DEF IInv
<1>1. /\ UNCHANGED <<phase, snapshot, sources, generation, registered, closing, cancelled,
                     tasks, queueClosed, panicked>>
      /\ thread' = [t \in Thread |-> Readmitted(t)]
      /\ Abandoned(c) /\ writer' = None
      /\ change[c].pc = "announced"
      /\ \A t \in Thread : ~Reading(t)
  BY DEF ChangeSource, registry, evaluator
<1>2. /\ \A t \in Thread : /\ thread'[t] \in ThreadState
                           /\ thread'[t].source = thread[t].source
                           /\ thread'[t].generation = thread[t].generation
                           /\ thread'[t].pc = IF thread[t].pc = "blocked" THEN "holding"
                                              ELSE thread[t].pc
      /\ thread' \in [Thread -> ThreadState]
  BY <1>1, ReadmittedThread
<1>3. /\ change' = [change EXCEPT ![c] = NoChange]
      /\ NoChange \in ChangeState
      /\ NoChange.pc = "idle" /\ NoChange.source = None /\ NoChange.generation <= generation
      /\ objects' \in [Object -> {"unused", "ready", "open", "closed"}]
      /\ \A o \in Object : objects[o] \in InUse => objects'[o] = objects[o]
      /\ \A d \in Change : d # c /\ change[d].source # None => objects'[change[d].source] = "ready"
  BY <1>1, AbandonedObjects
<1>4. change'[c] = NoChange /\ \A d \in Change : d # c => change'[d] = change[d]
  BY <1>3 DEF TypeOK
<1>5. \A t \in Thread : /\ thread'[t].pc = "idle" <=> thread[t].pc = "idle"
                        /\ thread'[t].pc = "done" <=> thread[t].pc = "done"
                        /\ thread'[t].pc = "away" <=> thread[t].pc = "away"
                        /\ thread'[t].pc = "effects" <=> thread[t].pc = "effects"
  BY <1>2
<1>6. TypeOK'
  BY <1>1, <1>2, <1>3 DEF TypeOK
<1>7. \A t \in Thread : thread[t].source \in Object \cup {None}
  BY DEF TypeOK, ThreadState
<1>8. ThreadsOk'
  <2>1. \A t \in Thread : thread'[t].pc # "idle" =>
          thread'[t].source \in Object /\ objects'[thread'[t].source] \in InUse
    BY <1>2, <1>3, <1>5 DEF IInv, ThreadsOk
  <2>2. \A t \in Generation : thread'[t].pc # "idle" =>
          t <= generation' /\ thread'[t].generation = t
    <3>1. \A t \in Generation : t \in Thread
      BY DEF Thread
    <3> QED
      BY <1>1, <1>2, <1>5, <3>1 DEF IInv, ThreadsOk
  <2>3. \A t, u \in Generation :
          thread'[t].pc # "idle" /\ thread'[u].pc # "idle" /\ thread'[t].source = thread'[u].source
            => t = u
    BY <1>2, <1>5 DEF IInv, ThreadsOk, Thread
  <2>4. \A t \in Trigger : thread'[t].pc \notin Over
    BY <1>5 DEF IInv, ThreadsOk, Thread
  <2> QED
    BY <2>1, <2>2, <2>3, <2>4 DEF ThreadsOk
<1>e. InEffects'
  BY <1>1, <1>2, <1>5 DEF IInv, InEffects, Current
<1>9. /\ \A t \in Thread : Loop(t)' <=> Loop(t)
      /\ registered # 0 => (Loop(registered)' <=> Loop(registered))
  BY <1>1, <1>5 DEF Loop, Scheduled, TypeOK, Generation, Thread
<1>10. LoopsOk'
  BY <1>1, <1>2, <1>9 DEF IInv, LoopsOk
<1>c. ClosingOk'
  <2> SUFFICES ASSUME NEW o \in Object, NEW t \in Generation, <<o, t>> \in closing
               PROVE  /\ o # sources
                      /\ objects'[o] \in InUse
                      /\ thread'[t].pc # "idle"
                      /\ thread'[t].source = o
    BY <1>1 DEF ClosingOk
  <2>1. o # sources /\ objects[o] \in InUse /\ thread[t].pc # "idle" /\ thread[t].source = o
    BY DEF IInv, ClosingOk
  <2>2. t \in Thread
    BY DEF Thread
  <2> QED
    BY <1>2, <1>3, <1>5, <2>1, <2>2
<1>11. LoopSourceIsOpen'
  BY <1>2, <1>3, <1>5, <1>7 DEF IInv, LoopSourceIsOpen, ThreadsOk, InUse, Thread
<1>12. RegistryOk'
  <2>1. {snapshot, sources} \subseteq Object \cup {None} /\ (registered # 0 => registered \in Thread)
    BY DEF TypeOK, Generation, Thread
  <2>2. registered # 0 => thread'[registered].pc # "idle" /\ thread'[registered].source = sources
    BY <1>2, <1>5, <2>1 DEF IInv, RegistryOk
  <2>3. \A o \in {snapshot, sources} \ {None} :
          objects[o] \in InUse => objects'[o] = objects[o]
    BY <1>3, <2>1
  <2> QED
    BY <1>1, <2>2, <2>3 DEF IInv, RegistryOk, InUse
<1>13. ChangesOk'
  <2>1. ASSUME NEW d \in Change
        PROVE  /\ change'[d].pc = "idle" => change'[d].source = None
               /\ change'[d].pc # "idle" => change'[d].generation < MaxGeneration
               /\ change'[d].generation <= generation
               /\ change'[d].source # None => objects'[change'[d].source] = "ready"
               /\ InFlight(d)' /\ Unchanged(d)' /\ registered # 0 => registered \in cancelled
    BY <1>1, <1>3, <1>4 DEF IInv, ChangesOk, InFlight, Unchanged
  <2>2. ASSUME NEW d \in Change, NEW e \in Change,
               change'[d].source # None, change'[d].source = change'[e].source
        PROVE  d = e
    BY <1>3, <1>4, <2>2 DEF IInv, ChangesOk
  <2> QED
    BY <1>1, <2>1, <2>2 DEF ChangesOk
<1>14. phase # "new"
  BY <1>1 DEF IInv, PhaseOk
<1>15. PhaseOk'
  BY <1>1, <1>5, <1>14 DEF IInv, PhaseOk
<1>16. OneLoop'
  <2>1. ASSUME registered # 0, registered \in cancelled
        PROVE  \E d \in Change : change'[d].pc \in {"cancelled", "announced"} /\ Unchanged(d)'
    <3>1. PICK d \in Change : change[d].pc \in {"cancelled", "announced"} /\ Unchanged(d)
      BY <2>1 DEF IInv, OneLoop
    <3>2. change'[d] = change[d]
      BY <1>4, <3>1
    <3> QED
      BY <1>1, <3>1, <3>2 DEF Unchanged
  <2>2. registered # 0 /\ ~Cancelled(registered) =>
          Loop(registered)' \/ thread'[registered].pc = "away"
    <3>1. registered # 0 => registered \in Thread
      BY DEF TypeOK, Generation, Thread
    <3> QED
      BY <1>2, <1>9, <3>1 DEF IInv, OneLoop
  <2>3. \A t \in Thread : Loop(t)' /\ ~Cancelled(t) => t = registered
    BY <1>9 DEF IInv, OneLoop
  <2>4. /\ \A t \in Thread : Cancelled(t)' <=> Cancelled(t)
        /\ Cancelled(registered)' <=> Cancelled(registered)
    BY <1>1 DEF Cancelled
  <2> QED
    BY <1>1, <2>1, <2>2, <2>3, <2>4 DEF OneLoop
<1> QED
  BY <1>6, <1>8, <1>e, <1>10, <1>c, <1>11, <1>12, <1>13, <1>15, <1>16 DEF IInv

\* A change that still finds the source it was prepared for replaces it.
LEMMA ChangeWonInv ==
  ASSUME IInv, NEW c \in Change, ChangeSource(c), Unchanged(c)
  PROVE  IInv'
<1> DEFINE src == change[c].source
           old == change[c].old
           next == generation + 1
           starts == src # None /\ phase = "running" /\ (old = None \/ registered # 0)
<1> USE LifecycleConstants
<1> TypeOK
  BY DEF IInv
<1>1. /\ UNCHANGED <<phase, snapshot, cancelled, tasks, queueClosed, panicked>>
      /\ change[c].pc = "announced" /\ writer' = None
      /\ \A t \in Thread : ~Reading(t)
      /\ generation' = next /\ sources' = src
      /\ registered' = IF starts THEN next ELSE 0
      /\ thread' = [t \in Thread |->
           IF starts /\ t = next THEN NewLoop(src, next) ELSE Readmitted(t)]
      /\ closing' = IF old # None /\ registered # 0 THEN closing \cup {<<old, registered>>}
                    ELSE closing
      /\ objects' = [o \in Object |-> IF o = old /\ registered = 0 THEN "closed"
                                      ELSE IF o = src THEN "open" ELSE objects[o]]
      /\ change' = [change EXCEPT ![c] = NoChange]
      /\ sources = old /\ generation = change[c].generation
  BY DEF ChangeSource, CloseOld, evaluator, Unchanged
<1>2. /\ src \in Object \cup {None} /\ old \in Object \cup {None}
      /\ next \in Generation /\ next \in Thread /\ next # 0 /\ generation < next
      /\ generation \in Generation /\ next \notin Trigger
      /\ change[c].pc # "idle" /\ phase # "new"
      /\ src # None => objects[src] = "ready"
      /\ registered # 0 => registered \in cancelled /\ registered \in Generation
  <2>1. change[c] \in ChangeState
    BY DEF TypeOK
  <2>2. change[c].pc # "idle" /\ change[c].generation < MaxGeneration
    BY <1>1 DEF IInv, ChangesOk
  <2>3. next \in Generation /\ generation < next /\ generation \in Generation
    BY <1>1, <2>2 DEF TypeOK, Generation
  <2>4. registered # 0 => registered \in cancelled
    BY <1>1 DEF IInv, ChangesOk, InFlight
  <2> QED
    BY <1>1, <2>1, <2>2, <2>3, <2>4, Disjoint
    DEF IInv, ChangesOk, PhaseOk, TypeOK, ChangeState, Thread, Generation
<1>3. /\ NoChange \in ChangeState
      /\ NoChange.pc = "idle" /\ NoChange.source = None /\ NoChange.generation = 0
  BY DEF NoChange, ChangeState
<1>4. change'[c] = NoChange /\ \A d \in Change : d # c => change'[d] = change[d]
  BY <1>1 DEF TypeOK
<1>5. starts => /\ thread'[next] = NewLoop(src, next)
                /\ NewLoop(src, next) \in ThreadState
                /\ thread'[next].pc = "starting" /\ thread'[next].source = src
                /\ thread'[next].generation = next
                /\ src \in Object
  BY <1>1, <1>2 DEF NewLoop, ThreadState, Generation
<1>6. \A t \in Thread : ~(starts /\ t = next) =>
        /\ thread'[t] \in ThreadState
        /\ thread'[t].source = thread[t].source
        /\ thread'[t].generation = thread[t].generation
        /\ thread'[t].pc = IF thread[t].pc = "blocked" THEN "holding" ELSE thread[t].pc
  BY <1>1, ReadmittedThread
<1>7. \A t \in Thread : ~(starts /\ t = next) =>
        /\ thread'[t].pc = "idle" <=> thread[t].pc = "idle"
        /\ thread'[t].pc = "done" <=> thread[t].pc = "done"
        /\ thread'[t].pc = "away" <=> thread[t].pc = "away"
        /\ thread'[t].pc = "effects" <=> thread[t].pc = "effects"
  BY <1>6
<1>8. thread[next].pc = "idle" /\ \A t \in Generation : thread[t].pc # "idle" => t # next
  BY <1>2 DEF IInv, ThreadsOk, Generation
<1>9. \A t \in Thread : thread[t].pc # "effects" /\ thread'[t].pc # "effects"
  BY <1>1, <1>5, <1>7 DEF Reading
<1>10. /\ objects' \in [Object -> {"unused", "ready", "open", "closed"}]
       /\ \A o \in Object : objects'[o] = IF o = old /\ registered = 0 THEN "closed"
                                          ELSE IF o = src THEN "open" ELSE objects[o]
  BY <1>1 DEF TypeOK
<1>11. old # None => objects[old] \in InUse /\ old # src
  BY <1>1, <1>2 DEF IInv, RegistryOk, InUse
<1>12. src # None => objects'[src] = "open"
  BY <1>2, <1>10, <1>11
<1>13. /\ \A o \in Object : objects[o] \in InUse => objects'[o] \in InUse
       /\ \A o \in Object : objects[o] \in InUse /\ ~(o = old /\ registered = 0)
                              => objects'[o] = objects[o] /\ o # src
  BY <1>2, <1>10 DEF InUse
<1> HIDE DEF starts
<1>14. \A t \in Thread : thread[t].pc # "idle" => ~(starts /\ t = next)
  BY <1>2, <1>8
<1>15. TypeOK'
  <2>1. thread' \in [Thread -> ThreadState]
    BY <1>1, <1>5, <1>6
  <2>2. change' \in [Change -> ChangeState]
    BY <1>1, <1>3 DEF TypeOK
  <2>3. closing' \subseteq Object \X Generation
    BY <1>1, <1>2 DEF TypeOK
  <2>4. {snapshot', sources'} \subseteq Object \cup {None} /\ generation' \in Generation
        /\ registered' \in 0..MaxGeneration
    BY <1>1, <1>2 DEF TypeOK, Generation
  <2> QED
    BY <1>1, <1>10, <2>1, <2>2, <2>3, <2>4 DEF TypeOK
<1>16. ThreadsOk'
  <2>1. \A t \in Thread : thread'[t].pc # "idle" =>
          thread'[t].source \in Object /\ objects'[thread'[t].source] \in InUse
    <3> SUFFICES ASSUME NEW t \in Thread, thread'[t].pc # "idle"
                 PROVE  thread'[t].source \in Object /\ objects'[thread'[t].source] \in InUse
      OBVIOUS
    <3>1. CASE starts /\ t = next
      BY <1>2, <1>5, <1>12, <3>1 DEF InUse
    <3>2. CASE ~(starts /\ t = next)
      BY <1>6, <1>7, <1>13, <3>2 DEF IInv, ThreadsOk
    <3> QED
      BY <3>1, <3>2
  <2>2. \A t \in Generation : thread'[t].pc # "idle" =>
          t <= generation' /\ thread'[t].generation = t
    <3> SUFFICES ASSUME NEW t \in Generation, thread'[t].pc # "idle"
                 PROVE  t <= generation' /\ thread'[t].generation = t
      OBVIOUS
    <3>1. CASE starts /\ t = next
      BY <1>1, <1>5, <3>1 DEF Generation
    <3>2. CASE ~(starts /\ t = next)
      <4>1. t \in Thread
        BY DEF Thread
      <4>2. t <= generation /\ thread[t].generation = t
        BY <1>7, <3>2, <4>1 DEF IInv, ThreadsOk
      <4> QED
        BY <1>1, <1>2, <1>6, <3>2, <4>1, <4>2 DEF Generation
    <3> QED
      BY <3>1, <3>2
  <2>3. \A t, u \in Generation :
          thread'[t].pc # "idle" /\ thread'[u].pc # "idle" /\ thread'[t].source = thread'[u].source
            => t = u
    <3>1. \A t \in Generation : t \in Thread
      BY DEF Thread
    <3>2. \A t \in Generation : thread'[t].pc # "idle" /\ ~(starts /\ t = next) =>
            /\ thread[t].pc # "idle"
            /\ thread'[t].source = thread[t].source
            /\ objects[thread[t].source] \in InUse
      BY <1>6, <1>7, <3>1 DEF IInv, ThreadsOk
    <3>3. starts => objects[src] \notin InUse
      BY <1>2, <1>5 DEF InUse
    <3> QED
      BY <1>5, <3>2, <3>3 DEF IInv, ThreadsOk
  <2>4. \A t \in Trigger : thread'[t].pc \notin Over
    BY <1>2, <1>7 DEF IInv, ThreadsOk, Thread
  <2> QED
    BY <2>1, <2>2, <2>3, <2>4 DEF ThreadsOk
<1>17. InEffects'
  BY <1>9 DEF InEffects
<1>18. /\ \A t \in Thread : ~(starts /\ t = next) => (Loop(t)' <=> Loop(t))
       /\ starts => next \in Generation /\ thread'[next].pc \notin Off
  BY <1>2, <1>5, <1>7 DEF Loop, Scheduled
<1>19. LoopsOk'
  <2> SUFFICES ASSUME NEW t \in Thread, Loop(t)'
               PROVE  t = registered' \/ <<thread'[t].source, t>> \in closing'
    BY DEF LoopsOk
  <2>1. CASE starts /\ t = next
    BY <1>1, <2>1
  <2>2. CASE ~(starts /\ t = next)
    <3>1. Loop(t) /\ thread'[t].source = thread[t].source
      BY <1>6, <1>18, <2>2
    <3>2. CASE <<thread[t].source, t>> \in closing
      BY <1>1, <3>1, <3>2
    <3>3. CASE t = registered
      <4>1. t # 0
        BY Disjoint
      <4>2. thread[t].source = old /\ old # None
        BY <1>1, <3>3, <4>1 DEF IInv, RegistryOk
      <4> QED
        BY <1>1, <3>1, <3>3, <4>1, <4>2
    <3> QED
      BY <3>1, <3>2, <3>3 DEF IInv, LoopsOk
  <2> QED
    BY <2>1, <2>2
<1>20. RegistryOk'
  <2>1. snapshot # None => objects'[snapshot] \in InUse
    BY <1>13 DEF IInv, RegistryOk, TypeOK
  <2> QED
    BY <1>1, <1>5, <1>12, <2>1 DEF RegistryOk, InUse
<1>21. ClosingOk'
  <2> SUFFICES ASSUME NEW o \in Object, NEW t \in Generation, <<o, t>> \in closing'
               PROVE  /\ o # sources'
                      /\ objects'[o] \in InUse
                      /\ thread'[t].pc # "idle"
                      /\ thread'[t].source = o
    BY DEF ClosingOk
  <2>1. objects[o] \in InUse /\ thread[t].pc # "idle" /\ thread[t].source = o
    <3>1. CASE <<o, t>> \in closing
      BY <3>1 DEF IInv, ClosingOk
    <3>2. CASE o = old /\ t = registered /\ old # None /\ registered # 0
      BY <1>1, <1>11, <3>2 DEF IInv, RegistryOk
    <3> QED
      BY <1>1, <3>1, <3>2
  <2>2. t \in Thread
    BY DEF Thread
  <2>3. o # src
    BY <1>2, <2>1 DEF InUse
  <2> QED
    BY <1>1, <1>6, <1>7, <1>13, <1>14, <2>1, <2>2, <2>3
<1>22. ChangesOk'
  <2>1. ASSUME NEW d \in Change, d # c
        PROVE  /\ change[d].pc = "idle" => change[d].source = None
               /\ change[d].pc # "idle" => change[d].generation < MaxGeneration
               /\ change[d].generation < generation'
               /\ change[d].source # None => objects'[change[d].source] = "ready"
    <3>1. change[d] \in ChangeState
      BY DEF TypeOK
    <3>2. /\ change[d].source # None => objects[change[d].source] = "ready"
          /\ change[d].source # None => change[d].source # src
          /\ change[d].generation <= generation
          /\ change[d].pc = "idle" => change[d].source = None
          /\ change[d].pc # "idle" => change[d].generation < MaxGeneration
      BY <2>1 DEF IInv, ChangesOk
    <3>3. change[d].source # None => objects'[change[d].source] = "ready"
      BY <1>10, <1>11, <3>1, <3>2 DEF InUse, ChangeState
    <3>4. change[d].generation < generation'
      BY <1>1, <1>2, <3>1, <3>2 DEF ChangeState, Generation
    <3> QED
      BY <3>2, <3>3, <3>4
  <2>2. ASSUME NEW d \in Change
        PROVE  /\ change'[d].pc = "idle" => change'[d].source = None
               /\ change'[d].pc # "idle" => change'[d].generation < MaxGeneration
               /\ change'[d].generation <= generation'
               /\ change'[d].source # None => objects'[change'[d].source] = "ready"
               /\ ~(InFlight(d)' /\ Unchanged(d)')
    <3>1. CASE d = c
      <4>1. 0 <= generation'
        BY <1>1, <1>2 DEF Generation
      <4> QED
        BY <1>3, <1>4, <3>1, <4>1 DEF InFlight
    <3>2. CASE d # c
      <4>1. change[d].generation <= generation' /\ change[d].generation # generation'
        <5>1. change[d] \in ChangeState
          BY DEF TypeOK
        <5> QED
          BY <1>1, <1>2, <2>1, <3>2, <5>1 DEF ChangeState, Generation
      <4> QED
        BY <1>4, <2>1, <3>2, <4>1 DEF Unchanged
    <3> QED
      BY <3>1, <3>2
  <2>3. ASSUME NEW d \in Change, NEW e \in Change,
               change'[d].source # None, change'[d].source = change'[e].source
        PROVE  d = e
    BY <1>3, <1>4, <2>3 DEF IInv, ChangesOk
  <2> QED
    BY <2>2, <2>3 DEF ChangesOk
<1>23. PhaseOk'
  <2>1. \A x \in cancelled : x \in 0..generation'
    <3>1. \A x \in 0..generation : x \in 0..generation'
      BY <1>1, <1>2 DEF Generation
    <3> QED
      BY <3>1 DEF IInv, PhaseOk
  <2>2. phase = "stopped" => \A t \in Thread : thread'[t].pc \in Off
    <3>1. phase = "stopped" => ~starts
      BY DEF starts
    <3> QED
      BY <1>7, <3>1 DEF IInv, PhaseOk
  <2> QED
    BY <1>1, <1>2, <2>1, <2>2 DEF IInv, PhaseOk
<1>24. LoopSourceIsOpen'
  <2> SUFFICES ASSUME NEW t \in Generation, thread'[t].pc \notin Off
               PROVE  objects'[thread'[t].source] = "open"
    BY DEF LoopSourceIsOpen
  <2>1. CASE starts /\ t = next
    BY <1>2, <1>5, <1>12, <2>1
  <2>2. CASE ~(starts /\ t = next)
    <3>1. t \in Thread
      BY DEF Thread
    <3>2. /\ thread[t].pc \notin Off /\ thread'[t].source = thread[t].source
          /\ thread[t].source \in Object /\ objects[thread[t].source] = "open"
      BY <1>6, <1>7, <2>2, <3>1 DEF IInv, LoopSourceIsOpen, ThreadsOk
    <3>3. Loop(t) /\ t # 0
      BY <3>1, <3>2, Disjoint DEF Loop, Scheduled
    <3>4. ~(thread[t].source = old /\ registered = 0)
      BY <1>1, <3>1, <3>2, <3>3 DEF IInv, LoopsOk, ClosingOk
    <3> QED
      BY <1>13, <3>2, <3>4 DEF InUse
  <2> QED
    BY <2>1, <2>2
<1>25. OneLoop'
  <2>1. \A t \in Thread : Loop(t)' /\ ~Cancelled(t)' => t = registered'
    <3> SUFFICES ASSUME NEW t \in Thread, Loop(t)', ~Cancelled(t) PROVE t = registered'
      BY <1>1 DEF Cancelled
    <3>1. CASE starts /\ t = next
      BY <1>1, <3>1
    <3>2. CASE ~(starts /\ t = next)
      <4>1. Loop(t) /\ t # 0
        BY <1>18, <3>2, Disjoint
      <4>2. t = registered
        BY <4>1 DEF IInv, OneLoop
      <4> QED
        BY <1>2, <4>1, <4>2 DEF Cancelled
    <3> QED
      BY <3>1, <3>2
  <2>2. registered' # 0 => registered' = next /\ starts /\ Loop(registered)'
    BY <1>1, <1>18 DEF Loop, Scheduled
  <2>3. registered' # 0 => registered' \notin cancelled'
    <3>1. next \notin 0..generation
      BY <1>2 DEF Generation
    <3> QED
      BY <1>1, <2>2, <3>1 DEF IInv, PhaseOk
  <2> QED
    BY <2>1, <2>2, <2>3 DEF OneLoop
<1> QED
  BY <1>15, <1>16, <1>17, <1>19, <1>20, <1>21, <1>22, <1>23, <1>24, <1>25 DEF IInv

-----------------------------------------------------------------------------
(* The theorems.                                                           *)

\* The invariant is inductive.
LEMMA NextInv == ASSUME IInv, [Next]_vars PROVE IInv'
<1> USE LifecycleConstants
<1>1. CASE UNCHANGED vars
  <2>1. UNCHANGED <<registry, objects, closing, thread, change, writer>>
    BY <1>1 DEF vars, registry
  <2>4. phase' = phase
    BY <1>1 DEF vars
  <2>5. phase' = phase \/ (phase' # "stopped" /\ phase # "stopped")
    BY <2>4
  <2>6. snapshot' \in {snapshot, sources} /\ cancelled' \in {cancelled, cancelled \cup {0}}
    BY <1>1 DEF vars
  <2>2. TypeOK'
    BY <1>1 DEF IInv, TypeOK, vars
  <2>3. PhaseOk'
    BY <1>1 DEF IInv, PhaseOk, vars
  <2> QED
    BY <2>1, <2>2, <2>3, <2>5, <2>6, QuietInv
<1>2. CASE StartEngine
  BY <1>2, StartInv
<1>3. CASE ServiceDone \/ FenceEngine \/ StopStep
  BY <1>3, StopInv, FinishStopInv DEF StopStep
<1>4. CASE FinishTask
  BY <1>4, EvaluatorInv
<1>5. ASSUME NEW t \in Thread, ThreadStep(t)
      PROVE  IInv'
  <2>1. CASE FetchReturns(t)
    BY <2>1, MoveInv, EndPollInv DEF FetchReturns
  <2>2. CASE EnterGate(t)
    BY <2>2, MoveInv DEF EnterGate
  <2>3. CASE BeginEffects(t)
    BY <2>3, MoveInv, EndPollInv DEF BeginEffects
  <2>4. CASE ReleaseEffects(t)
    BY <2>4, EndPollInv DEF ReleaseEffects
  <2>5. CASE TriggerSource(t)
    BY <2>5, TriggerInv
  <2>6. CASE SubmitMessage(t)
    BY <2>6, EvaluatorInv
  <2>7. CASE PollAgain(t)
    BY <2>7, MoveInv DEF PollAgain
  <2>8. CASE LeaveLoop(t)
    <3>1. /\ Scheduled(t) /\ thread[t].pc = "resting" /\ Cancelled(t)
          /\ GoTo(t, "done") /\ UNCHANGED aroundPolls
      BY <2>8 DEF LeaveLoop
    <3> QED
      BY <3>1, MoveInv
  <2>9. CASE SkipPoll(t)
    BY <2>9, EndPollInv DEF SkipPoll
  <2>10. CASE LeaveOnHoliday(t)
    BY <2>10, MoveInv DEF LeaveOnHoliday
  <2> QED
    BY <1>5, <2>1, <2>2, <2>3, <2>4, <2>5, <2>6, <2>7, <2>8, <2>9, <2>10 DEF ThreadStep, PollStep
<1>6. ASSUME NEW c \in Change, ChangeStep(c) \/ AbortChange(c) \/ RemoveSource(c)
      PROVE  IInv'
  <2>1. CASE CheckAndCancel(c)
    BY <2>1, CheckInv
  <2>2. CASE AnnounceWriter(c)
    BY <2>2, AnnounceInv
  <2>3. CASE ChangeSource(c)
    BY <2>3, ChangeWonInv, ChangeLostInv
  <2>4. CASE AbortChange(c)
    BY <2>4, AbandonInv DEF AbortChange
  <2>5. CASE RemoveSource(c)
    BY <2>5, RemoveInv
  <2> QED
    BY <1>6, <2>1, <2>2, <2>3, <2>4, <2>5 DEF ChangeStep
<1>7. ASSUME NEW c \in Change, NEW src \in Object \cup {None}, PrepareSourceChange(c, src)
      PROVE  IInv'
  BY <1>7, PrepareInv
<1>8. ASSUME NEW o \in Object, NEW t \in Thread, CloseReplaced(o, t)
      PROVE  IInv'
  BY <1>8, CloseReplacedInv
<1> QED
  BY <1>1, <1>2, <1>3, <1>4, <1>5, <1>6, <1>7, <1>8 DEF Next

\* The invariant holds in every state of every run of the engine.
THEOREM AlwaysIInv == Spec => []IInv
<1> QED
  BY InitInv, NextInv, PTL DEF Spec

\* Every variable keeps its type: in particular the evaluator never holds more
\* tasks than it can, and generations stay in their bound.
THEOREM LifecycleTypeOK == Spec => []TypeOK
<1>1. IInv => TypeOK
  BY DEF IInv
<1> QED
  BY <1>1, AlwaysIInv, PTL

\* Effects of a poll, of a goroutine or triggered by hand, happen only while
\* the source and the generation it began with are registered and its object
\* is open, for any number of polls and overlapping changes.
THEOREM LifecycleEffects == Spec => []EffectsAreCurrent
<1>1. IInv => EffectsAreCurrent
  <2> SUFFICES ASSUME IInv, NEW t \in Thread, thread[t].pc = "effects"
               PROVE  Current(t) /\ objects[thread[t].source] = "open"
    BY DEF EffectsAreCurrent
  <2>1. Current(t)
    BY DEF IInv, InEffects
  <2>2. sources \in Object /\ sources # None
    BY <2>1, LifecycleConstants DEF IInv, ThreadsOk, Current
  <2>3. phase # "stopped"
    BY DEF IInv, PhaseOk
  <2> QED
    BY <2>1, <2>2, <2>3 DEF IInv, RegistryOk, Current
<1> QED
  BY <1>1, AlwaysIInv, PTL

\* The goroutine of a source never polls a closed object, whatever changes and
\* stops overlap.
THEOREM LifecycleOpen == Spec => []LoopSourceIsOpen
<1>1. IInv => LoopSourceIsOpen
  BY DEF IInv
<1> QED
  BY <1>1, AlwaysIInv, PTL

\* The goroutine that keeps polling is the registered one, and only Stop or a
\* change that will replace it tells it to end: a change that loses to another
\* never stops the goroutine the winner started.
THEOREM LifecycleOneLoop == Spec => []OneLoop
<1>1. IInv => OneLoop
  BY DEF IInv
<1> QED
  BY <1>1, AlwaysIInv, PTL

\* When Stop has returned no poll and no evaluation is left, whatever was
\* triggered or activated meanwhile.
THEOREM LifecycleQuiet == Spec => []NothingRunsAfterStop
<1>1. IInv => NothingRunsAfterStop
  BY DEF IInv, PhaseOk, NothingRunsAfterStop
<1> QED
  BY <1>1, AlwaysIInv, PTL

\* Threads keep what they apply unless they begin or end their effects.
LEMMA SameEffects ==
  ASSUME UNCHANGED generation,
         \A t \in Thread : /\ thread'[t].pc = "effects" <=> thread[t].pc = "effects"
                           /\ thread[t].pc = "effects" => thread'[t].generation = thread[t].generation
  PROVE  UNCHANGED Fence!vars
  BY DEF Fence!vars

\* A thread that moves without having effects before or after applies nothing.
LEMMA MovesOutside ==
  ASSUME TypeOK, NEW t \in Thread, NEW pc, GoTo(t, pc), UNCHANGED generation,
         thread[t].pc # "effects", pc # "effects"
  PROVE  UNCHANGED Fence!vars
<1>1. /\ thread'[t].pc = pc
      /\ \A u \in Thread : u # t => thread'[u] = thread[u]
  BY DEF GoTo, TypeOK, ThreadState
<1> QED
  BY <1>1, SameEffects

\* Every step of a thread is a step of SourceFence or none.
LEMMA ThreadFence ==
  ASSUME IInv, NEW t \in Thread, ThreadStep(t)
  PROVE  Fence!Next \/ UNCHANGED Fence!vars
<1> TypeOK
  BY DEF IInv
<1>1. UNCHANGED generation
  BY DEF ThreadStep, PollStep, FetchReturns, SkipPoll, EnterGate, BeginEffects, ReleaseEffects,
         TriggerSource, SubmitMessage, PollAgain, LeaveLoop, LeaveOnHoliday, aroundPolls, registry
<1>e. ASSUME thread[t].pc # "effects", EndPoll(t)
      PROVE  UNCHANGED Fence!vars
  <2>1. CASE Scheduled(t)
    BY <1>1, <1>e, <2>1, MovesOutside DEF EndPoll
  <2>2. CASE ~Scheduled(t)
    <3>1. thread'[t].pc = "idle" /\ \A u \in Thread : u # t => thread'[u] = thread[u]
      BY <1>e, <2>2 DEF EndPoll, NoThread, TypeOK
    <3> QED
      BY <1>1, <1>e, <3>1, SameEffects
  <2> QED
    BY <2>1, <2>2
<1>2. CASE EnterGate(t) \/ PollAgain(t) \/ LeaveLoop(t) \/ LeaveOnHoliday(t)
  BY <1>1, <1>2, MovesOutside DEF EnterGate, PollAgain, LeaveLoop, LeaveOnHoliday
<1>f. CASE FetchReturns(t) \/ SkipPoll(t)
  BY <1>1, <1>e, <1>f, MovesOutside DEF FetchReturns, SkipPoll
<1>3. CASE TriggerSource(t)
  <2>1. /\ thread'[t].pc = "fetching" /\ thread[t].pc = "idle"
        /\ \A u \in Thread : u # t => thread'[u] = thread[u]
    BY <1>3 DEF TriggerSource, NewPoll, TypeOK
  <2> QED
    BY <1>1, <2>1, SameEffects
<1>4. CASE SubmitMessage(t)
  BY <1>1, <1>4, SameEffects DEF SubmitMessage
<1>5. CASE BeginEffects(t)
  <2>1. CASE ~Current(t)
    BY <1>1, <1>5, <1>e, <2>1 DEF BeginEffects
  <2>2. CASE Current(t)
    <3>1. /\ thread[t].pc = "holding" /\ thread'[t].pc = "effects"
          /\ thread'[t].generation = generation
          /\ \A u \in Thread : u # t => thread'[u] = thread[u]
      BY <1>5, <2>2 DEF BeginEffects, GoTo, Current, TypeOK, ThreadState
    <3>2. Fence!Apply(t)
      BY <1>1, <3>1 DEF Fence!Apply
    <3> QED
      BY <3>2 DEF Fence!Next
  <2> QED
    BY <2>1, <2>2
<1>6. CASE ReleaseEffects(t)
  <2>1. /\ thread[t].pc = "effects" /\ thread'[t].pc # "effects"
        /\ \A u \in Thread : u # t => thread'[u] = thread[u]
    BY <1>6 DEF ReleaseEffects, EndPoll, GoTo, NoThread, TypeOK, ThreadState
  <2>2. thread[t].generation # 0
    BY <2>1, LifecycleConstants DEF IInv, InEffects, Current, TypeOK, Generation
  <2>3. Fence!Finish(t)
    BY <1>1, <2>1, <2>2 DEF Fence!Finish
  <2> QED
    BY <2>3 DEF Fence!Next
<1> QED
  BY <1>2, <1>f, <1>3, <1>4, <1>5, <1>6 DEF ThreadStep, PollStep

\* A change takes effect as Replace, for it waits until no poll has effects.
LEMMA ChangeFence ==
  ASSUME IInv, NEW c \in Change, ChangeSource(c)
  PROVE  Fence!Next \/ UNCHANGED Fence!vars
<1> TypeOK
  BY DEF IInv
<1>1. \A t \in Thread : /\ Readmitted(t).pc = IF thread[t].pc = "blocked" THEN "holding"
                                                ELSE thread[t].pc
                        /\ thread[t].pc # "effects"
  BY ReadmittedThread DEF ChangeSource, Reading
<1>2. \A t \in Thread : thread'[t].pc # "effects"
  <2>1. \A t \in Thread : thread'[t].pc = "starting" \/ thread'[t] = Readmitted(t)
    BY DEF ChangeSource, NewLoop
  <2> QED
    BY <1>1, <2>1
<1>3. CASE Unchanged(c)
  <2>1. generation' = generation + 1
    BY <1>3 DEF ChangeSource
  <2>2. Fence!Replace
    BY <1>1, <1>2, <2>1 DEF Fence!Replace
  <2> QED
    BY <2>2 DEF Fence!Next
<1>4. CASE ~Unchanged(c)
  <2>1. UNCHANGED generation
    BY <1>4 DEF ChangeSource, registry
  <2> QED
    BY <1>1, <1>2, <2>1, SameEffects
<1> QED
  BY <1>3, <1>4

\* The engine implements SourceFence: for any number of polls and callers, a
\* poll applies effects only as part of the generation that is current, and
\* the generation changes only while nothing is being applied.
THEOREM LifecycleFence == Spec => KeepsFence
<1>1. Init => Fence!Init
  BY DEF Init, Fence!Init, NoThread
<1>2. ASSUME IInv, [Next]_vars
      PROVE  Fence!Next \/ UNCHANGED Fence!vars
  <2>1. CASE UNCHANGED vars
    BY <2>1 DEF vars, Fence!vars
  <2>2. CASE StartEngine
    <3>1. \A t \in Thread : thread[t].pc = "idle"
      BY <1>2, <2>2 DEF StartEngine, IInv, PhaseOk
    <3>2. \A t \in Thread : thread'[t].pc # "effects"
      BY <1>2, <2>2, <3>1 DEF StartEngine, NewLoop, IInv, TypeOK
    <3>3. UNCHANGED generation
      BY <2>2 DEF StartEngine
    <3> QED
      BY <3>1, <3>2, <3>3, SameEffects
  <2>3. CASE ServiceDone \/ FenceEngine \/ StopStep \/ FinishTask
    BY <2>3 DEF ServiceDone, FenceEngine, StopStep, CancelEngine, CloseQueue,
                  EvaluatorStopped, FinishStop,
                FinishTask, registry, Fence!vars
  <2>4. ASSUME NEW t \in Thread, ThreadStep(t)
        PROVE  Fence!Next \/ UNCHANGED Fence!vars
    BY <1>2, <2>4, ThreadFence
  <2>5. ASSUME NEW c \in Change, ChangeStep(c) \/ AbortChange(c) \/ RemoveSource(c)
        PROVE  Fence!Next \/ UNCHANGED Fence!vars
    <3>1. CASE ChangeSource(c)
      BY <1>2, <3>1, ChangeFence
    <3>2. CASE CheckAndCancel(c) \/ AnnounceWriter(c) \/ AbortChange(c) \/ RemoveSource(c)
      BY <3>2 DEF CheckAndCancel, AnnounceWriter, AbortChange, RemoveSource, registry, Fence!vars
    <3> QED
      BY <2>5, <3>1, <3>2 DEF ChangeStep
  <2>6. ASSUME NEW c \in Change, NEW src \in Object \cup {None}, PrepareSourceChange(c, src)
        PROVE  UNCHANGED Fence!vars
    BY <2>6 DEF PrepareSourceChange, registry, Fence!vars
  <2>7. ASSUME NEW o \in Object, NEW t \in Thread, CloseReplaced(o, t)
        PROVE  UNCHANGED Fence!vars
    BY <2>7 DEF CloseReplaced, registry, Fence!vars
  <2> QED
    BY <1>2, <2>1, <2>2, <2>3, <2>4, <2>5, <2>6, <2>7 DEF Next
<1> QED
  BY <1>1, <1>2, AlwaysIInv, PTL DEF Spec, KeepsFence, Fence!Spec

=============================================================================
