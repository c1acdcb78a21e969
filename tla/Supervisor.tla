----------------------------- MODULE Supervisor -----------------------------
(***************************************************************************)
(* The supervisor of a capability child (internal/runtime): serialized     *)
(* calls over a bounded queue, one child process at a time, its reader and *)
(* waiter goroutines, cancellation, restart backoff and circuit breaker,   *)
(* shutdown and Close.                                                     *)
(*                                                                         *)
(* Frames are what the supervisor tells apart: the response to a call, a   *)
(* request bound to a call, or something invalid.  Time is the end of a    *)
(* grace period, of the backoff and of the open circuit.                   *)
(***************************************************************************)
EXTENDS Naturals, Sequences

CONSTANTS
  Jobs,             \* calls
  ShutdownJobs,     \* those made by Shutdown
  NoJob,
  MaxChildren,      \* processes started in a behaviour
  QueueSize, CircuitFailures

ASSUME SupervisorAssumption ==
  /\ ShutdownJobs \subseteq Jobs /\ NoJob \notin Jobs
  /\ {MaxChildren, QueueSize, CircuitFailures} \subseteq Nat \ {0}

Kids == 1 .. MaxChildren

VARIABLES
  jobs,       \* per call: state, context alive, responses, result, return
  jobQueue,
  work,       \* the worker: where it is, for which call, with which child
  kids,       \* per child: process, flags, goroutines, failures counted
  cur,        \* s.child, 0 for none
  target,     \* s.shutdownTarget
  failures, backoff, circuit,
  closer      \* the caller of Close

supervisorVars == <<jobs, jobQueue, work, kids, cur, target, failures, backoff,
                    circuit, closer>>

NewKid == [up |-> FALSE, reading |-> TRUE, expected |-> FALSE, stopping |-> FALSE,
           killer |-> "none", reader |-> "off", done |-> FALSE, counted |-> 0,
           pending |-> NoJob]

SupervisorInit ==
  /\ jobs = [j \in Jobs |-> [state |-> "new", ctx |-> TRUE, resp |-> "none",
                             result |-> "none", ret |-> "none"]]
  /\ jobQueue = <<>> /\ work = [at |-> "idle", job |-> NoJob, kid |-> 0]
  /\ kids = [g \in Kids |-> NewKid] /\ cur = 0 /\ target = 0
  /\ failures = 0 /\ backoff = FALSE /\ circuit = FALSE
  /\ closer = [at |-> "none", target |-> 0]

Stopped == closer.at # "none"
Started(g) == kids[g].reader # "off" \/ kids[g].done \/ kids[g].up

----------------------------------------------------------------------------
(* Call: the first select takes whichever of stop and queue is ready; a    *)
(* full queue is an immediate overload.                                    *)
CallJob(j) ==
  /\ jobs[j].state = "new"
  /\ \/ /\ Len(jobQueue) < QueueSize
        /\ jobQueue' = Append(jobQueue, j)
        /\ jobs' = [jobs EXCEPT ![j].state = "queued"]
     \/ /\ Stopped \/ Len(jobQueue) = QueueSize
        /\ jobs' = [jobs EXCEPT ![j].state = "finished", ![j].ret = "error"]
        /\ UNCHANGED jobQueue
  /\ UNCHANGED <<work, kids, cur, target, failures, backoff, circuit, closer>>

EndContext(j) ==
  /\ jobs[j].ctx
  /\ jobs[j].state \in {"queued", "executing"} \/ (j \in ShutdownJobs /\ target # 0)
  /\ jobs' = [jobs EXCEPT ![j].ctx = FALSE]
  /\ UNCHANGED <<jobQueue, work, kids, cur, target, failures, backoff, circuit, closer>>

(* Call: the second select.                                                *)
ReturnJob(j) ==
  /\ jobs[j].ret = "none"
  /\ \/ /\ jobs[j].result # "none"
        /\ jobs' = [jobs EXCEPT ![j].ret = jobs[j].result, ![j].result = "none"]
     \/ /\ ~jobs[j].ctx /\ jobs[j].state # "new"
        /\ jobs' = [jobs EXCEPT ![j].ret = "error",
             ![j].state = IF @ = "queued" THEN "cancelled" ELSE @]
     \/ /\ Stopped /\ jobs[j].state # "new"
        /\ jobs' = [jobs EXCEPT ![j].ret = "error"]
  /\ UNCHANGED <<jobQueue, work, kids, cur, target, failures, backoff, circuit, closer>>

----------------------------------------------------------------------------
(* recordFailureLocked; counts past the threshold are not told apart.      *)
CountFailure(g) ==
  IF kids[g].expected \/ kids[g].stopping
  THEN UNCHANGED <<failures, backoff, circuit>>
  ELSE /\ failures' = IF failures < CircuitFailures THEN failures + 1 ELSE failures
       /\ backoff' = TRUE
       /\ circuit' = (circuit \/ failures + 1 >= CircuitFailures)

Counted(g) == IF kids[g].expected \/ kids[g].stopping THEN kids[g].counted
              ELSE kids[g].counted + 1

BackoffEnds ==
  /\ backoff' = FALSE /\ circuit' \in {circuit, FALSE} /\ (backoff \/ circuit)
  /\ UNCHANGED <<jobs, jobQueue, work, kids, cur, target, failures, closer>>

(* terminate: the first caller closes the child's input, signals the group *)
(* and stays for the grace; every other one returns at once.               *)
Terminated(g, who) ==
  IF g = 0 \/ kids[g].stopping THEN kids
  ELSE [kids EXCEPT ![g].stopping = TRUE, ![g].killer = who]

Terminating(who) == \E g \in Kids : kids[g].killer = who

(* The grace is over and the group was killed.                             *)
KillGraceEnds(g) ==
  /\ kids[g].killer # "none"
  /\ kids' = [kids EXCEPT ![g].killer = "none", ![g].up = FALSE]
  /\ UNCHANGED <<jobs, jobQueue, work, cur, target, failures, backoff, circuit, closer>>

----------------------------------------------------------------------------
(* The worker.                                                             *)
WorkerStep == UNCHANGED <<jobQueue, cur, target, failures, backoff, circuit, closer>>

TakeJob ==
  /\ work.at = "idle" /\ jobQueue # <<>>
  /\ LET j == Head(jobQueue) IN
     IF jobs[j].state = "queued" /\ jobs[j].ctx
     THEN /\ jobs' = [jobs EXCEPT ![j].state = "executing"]
          /\ work' = [at |-> "ensure", job |-> j, kid |-> 0]
     ELSE /\ jobs' = [jobs EXCEPT ![j].state = "finished",
               ![j].result = IF jobs[j].ret = "none" THEN "error" ELSE @]
          /\ UNCHANGED work
  /\ jobQueue' = Tail(jobQueue)
  /\ UNCHANGED <<kids, cur, target, failures, backoff, circuit, closer>>

WorkerStops ==
  /\ work.at = "idle" /\ Stopped
  /\ work' = [work EXCEPT !.at = "stopped"]
  /\ WorkerStep /\ UNCHANGED <<jobs, kids>>

(* The end of execute: its deferred function forgets the call.             *)
Finish(result) ==
  /\ LET j == jobs[work.job]
     IN jobs' = [jobs EXCEPT ![work.job] =
          [j EXCEPT !.result = IF j.result = "none" /\ j.ret = "none" THEN result ELSE j.result,
                    !.resp = "none", !.state = "finished"]]
  /\ work' = [at |-> "idle", job |-> NoJob, kid |-> 0]

Forgotten(g) == IF g = 0 THEN kids ELSE [kids EXCEPT ![g].pending = NoJob]

\* Mutant: Close is not looked at.
RefusesWhenDown(alive) == ~alive /\ (circuit \/ backoff)

(* A closed supervisor starts nothing and hands out nothing; the circuit   *)
(* and the backoff hold back a start.                                      *)
Refuses(alive) == Stopped \/ (~alive /\ (circuit \/ backoff))

EnsureChild ==
  /\ work.at = "ensure"
  /\ LET alive == cur # 0 /\ ~kids[cur].done
         fresh == {g \in Kids : ~Started(g)}
     IN \/ /\ Refuses(alive)
           /\ Finish("error") /\ UNCHANGED <<kids, cur>>
        \/ /\ ~Refuses(alive) /\ alive
           /\ work' = [work EXCEPT !.at = "send", !.kid = cur]
           /\ UNCHANGED <<jobs, kids, cur>>
        \/ /\ ~Refuses(alive) /\ ~alive
           /\ \/ Finish("error") /\ cur' = 0 /\ UNCHANGED kids
              \/ /\ fresh # {}
                 /\ LET g == CHOOSE x \in fresh : \A y \in fresh : x <= y IN
                    /\ cur' = g
                    /\ kids' = [kids EXCEPT ![g].up = TRUE, ![g].reader = "on"]
                    /\ work' = [work EXCEPT !.at = "send", !.kid = g]
                 /\ UNCHANGED jobs
  /\ UNCHANGED <<jobQueue, target, failures, backoff, circuit, closer>>

(* execute up to the write: the call is registered before its frame is     *)
(* written, and a shutdown marks the exit as expected before that.         *)
Register ==
  /\ work.at = "send"
  /\ LET g == work.kid IN
     IF jobs[work.job].ctx
     THEN /\ kids' = [kids EXCEPT ![g].pending = work.job,
                        ![g].expected = @ \/ work.job \in ShutdownJobs]
          /\ target' = IF work.job \in ShutdownJobs THEN g ELSE target
          /\ work' = [work EXCEPT !.at = "write"] /\ UNCHANGED jobs
     ELSE Finish("error") /\ UNCHANGED <<kids, target>>
  /\ UNCHANGED <<jobQueue, cur, failures, backoff, circuit, closer>>

(* writeFrame: a write blocks while the child does not read, and fails     *)
(* when its input is closed.                                               *)
WriteFrame ==
  /\ work.at = "write"
  /\ LET k == kids[work.kid] IN
     IF k.up /\ ~k.stopping
     THEN k.reading /\ work' = [work EXCEPT !.at = "wait"] /\ UNCHANGED <<jobs, kids>>
     ELSE Finish("error") /\ kids' = Forgotten(work.kid)
  /\ WorkerStep

Await ==
  /\ work.at = "wait"
  /\ LET j == work.job g == work.kid IN
     \/ /\ jobs[j].resp # "none"
        /\ Finish(jobs[j].resp) /\ kids' = Forgotten(g)
        /\ IF jobs[j].resp = "ok"
           THEN failures' = 0 /\ backoff' = FALSE /\ circuit' = FALSE
           ELSE UNCHANGED <<failures, backoff, circuit>>
     \/ /\ kids[g].done \/ Stopped
        /\ Finish("error") /\ kids' = Forgotten(g)
        /\ UNCHANGED <<failures, backoff, circuit>>
     \/ /\ ~jobs[j].ctx /\ (kids[g].reading \/ ~kids[g].up \/ kids[g].stopping)
        /\ work' = [work EXCEPT !.at = "grace"]
        /\ UNCHANGED <<jobs, kids, failures, backoff, circuit>>
  /\ UNCHANGED <<jobQueue, cur, target, closer>>

(* After $/cancelRequest: an answer, the end of the child, or the timer.   *)
CancelGrace ==
  /\ work.at = "grace" /\ ~Terminating("worker")
  /\ LET g == work.kid IN
     \/ /\ jobs[work.job].resp # "none" \/ kids[g].done
        /\ Finish("error") /\ kids' = Forgotten(g)
     \/ /\ kids' = Terminated(g, "worker")
        /\ work' = [work EXCEPT !.at = "killing"] /\ UNCHANGED jobs
  /\ WorkerStep

KilledByWorker ==
  /\ work.at = "killing" /\ ~Terminating("worker")
  /\ Finish("error") /\ kids' = Forgotten(work.kid)
  /\ WorkerStep

----------------------------------------------------------------------------
(* The child and its goroutines.                                           *)
ChildStep == UNCHANGED <<jobQueue, work, target, closer>>

ChildExits(g) ==
  /\ kids[g].up
  /\ kids' = [kids EXCEPT ![g].up = FALSE]
  /\ ChildStep /\ UNCHANGED <<jobs, cur, failures, backoff, circuit>>

ChildStopsReading(g) ==
  /\ kids[g].up /\ kids[g].reading
  /\ kids' = [kids EXCEPT ![g].reading = FALSE]
  /\ ChildStep /\ UNCHANGED <<jobs, cur, failures, backoff, circuit>>

(* failChild: every waiting call gets the error, then the failure is       *)
(* counted, then the group is terminated.                                  *)
FailChild(g) ==
  /\ jobs' = IF kids[g].pending # NoJob /\ jobs[kids[g].pending].resp = "none"
             THEN [jobs EXCEPT ![kids[g].pending].resp = "error"] ELSE jobs
  /\ CountFailure(g)
  /\ kids' = [Terminated(g, "reader") EXCEPT ![g].counted = Counted(g), ![g].reader = "ended"]

(* readStdout: an answer to the pending call is delivered, one with an     *)
(* unknown id and anything that does not decode fail the child.            *)
ReadResponse(g) ==
  /\ kids[g].up /\ kids[g].reader = "on"
  /\ \/ /\ kids[g].pending # NoJob /\ jobs[kids[g].pending].resp = "none"
        /\ kids[g].pending = work.job /\ work.at \in {"wait", "grace", "killing"}
        /\ jobs' = [jobs EXCEPT ![kids[g].pending].resp = "ok"]
        /\ UNCHANGED <<kids, failures, backoff, circuit>>
     \/ FailChild(g)
  /\ ChildStep /\ UNCHANGED cur

(* The end of the stream: a clean end, or, once cmd.Wait has closed the    *)
(* pipe before the reader was through, a read error.                       *)
ReadEnds(g) ==
  /\ ~kids[g].up /\ kids[g].reader = "on"
  /\ \/ /\ kids' = [kids EXCEPT ![g].reader = "ended"]
        /\ UNCHANGED <<jobs, failures, backoff, circuit>>
     \/ kids[g].done /\ FailChild(g)
  /\ ChildStep /\ UNCHANGED cur

WaitChild(g) ==
  /\ ~kids[g].up /\ Started(g) /\ ~kids[g].done
  /\ cur' = IF cur = g THEN 0 ELSE cur
  /\ CountFailure(g)
  /\ kids' = [kids EXCEPT ![g].done = TRUE, ![g].counted = Counted(g)]
  /\ ChildStep /\ UNCHANGED jobs

----------------------------------------------------------------------------
(* Shutdown after its call succeeded: it waits for the child it marked or  *)
(* for its context, and cleans the process group in either case.           *)
FinishShutdown(j) ==
  /\ j \in ShutdownJobs /\ jobs[j].ret = "ok" /\ target # 0
  /\ kids[target].done \/ ~jobs[j].ctx
  /\ kids' = Terminated(target, "shutdown") /\ target' = 0
  /\ UNCHANGED <<jobs, jobQueue, work, cur, failures, backoff, circuit, closer>>

\* Mutant: Close waits for the worker before it touches the child.
CloseAndWait ==
  /\ ~Stopped
  /\ closer' = [at |-> "child", target |-> target]
  /\ UNCHANGED <<jobs, jobQueue, work, kids, cur, target, failures, backoff, circuit>>

(* Close: no more calls, and the child is terminated before anybody is     *)
(* waited for; so is the child of a shutdown, and then the worker ends.    *)
CloseSupervisor ==
  /\ ~Stopped
  /\ kids' = Terminated(cur, "closer")
  /\ closer' = [at |-> "child", target |-> target]
  /\ UNCHANGED <<jobs, jobQueue, work, cur, target, failures, backoff, circuit>>

CloseTarget ==
  /\ closer.at = "child" /\ ~Terminating("closer")
  /\ kids' = Terminated(closer.target, "closer")
  /\ closer' = [closer EXCEPT !.at = "drain"]
  /\ UNCHANGED <<jobs, jobQueue, work, cur, target, failures, backoff, circuit>>

CloseReturns ==
  /\ closer.at = "drain" /\ ~Terminating("closer") /\ work.at = "stopped"
  /\ closer' = [closer EXCEPT !.at = "returned"]
  /\ UNCHANGED <<jobs, jobQueue, work, kids, cur, target, failures, backoff, circuit>>

Worker == TakeJob \/ WorkerStops \/ EnsureChild \/ Register \/ WriteFrame \/ Await
          \/ CancelGrace \/ KilledByWorker
Closing == CloseTarget \/ CloseReturns

SupervisorNext ==
  \/ \E j \in Jobs : CallJob(j) \/ EndContext(j) \/ ReturnJob(j) \/ FinishShutdown(j)
  \/ BackoffEnds \/ CloseSupervisor \/ Worker \/ Closing
  \/ \E g \in Kids : \/ KillGraceEnds(g) \/ ChildExits(g) \/ ChildStopsReading(g)
                     \/ ReadResponse(g) \/ ReadEnds(g) \/ WaitChild(g)

(* The goroutines run, the grace of a kill ends, and a dead child is       *)
(* reaped; nothing is assumed of callers and of what a child does.         *)
SupervisorFairness ==
  /\ WF_supervisorVars(Worker) /\ WF_supervisorVars(Closing)
  /\ \A g \in Kids : WF_supervisorVars(KillGraceEnds(g)) /\ WF_supervisorVars(WaitChild(g))

SupervisorSpec == SupervisorInit /\ [][SupervisorNext]_supervisorVars /\ SupervisorFairness

----------------------------------------------------------------------------
(* When Close has returned, no child runs that nobody has signalled, and   *)
(* no call can start one any more: whatever the worker, a Shutdown and the *)
(* reader of a failing child were doing at that moment.                    *)
NothingLeftRunning ==
  closer.at = "returned" =>
    /\ work.at = "stopped"
    /\ \A g \in Kids : kids[g].up => kids[g].stopping

(* Close returns, even when the worker is blocked writing to a child that  *)
(* does not read (Close and worker).                                       *)
CloseEnds == (closer.at = "child") ~> (closer.at = "returned")

(* One child that crashes is one failure: the circuit opens after          *)
(* CircuitFailures crashes and not before                                  *)
(* (TestSupervisorCircuitOpensAfterRepeatedCrashes).  The code does not     *)
(* keep this: reader, waiter and caller may each count the same crash.     *)
FailureCountedOnce == \A g \in Kids : kids[g].counted <= 1
=============================================================================
