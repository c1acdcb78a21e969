--------------------------- MODULE DeliveryWorker ----------------------------
(***************************************************************************)
(* The goroutines of the digest delivery worker: its loop, the attempts of *)
(* a cycle, the slots their sends share, and Stop.  The store is seen      *)
(* through what it hands out: a claim takes up to BatchSize attempts, or   *)
(* fails.  A send that has timed out gives its attempt back, but keeps its *)
(* slot until the channel returns; a stubborn channel may never return.    *)
(* Time is counted in send timeouts, from the claim of the cycle; the ten  *)
(* seconds that the claim outlasts its waves cover what takes no time here.*)
(***************************************************************************)
EXTENDS Naturals, FiniteSets

CONSTANTS BatchSize, Concurrency,
          MaxStuck, MaxStoreFaults, MaxPrepared  \* bounds of the model

ASSUME WorkerAssumption == BatchSize \in Nat \ {0} /\ Concurrency \in Nat \ {0}

VARIABLES loop,      \* the goroutine of the worker
          stop,      \* the call of Stop
          wake,      \* the token in the wake channel
          attempt,   \* the goroutines of the cycle's attempts
          ending,    \* timed-out sends that are about to return
          stuck,     \* timed-out sends whose channel ignores its context
          age,       \* send timeouts since the claim
          hindered,  \* a stuck send held a slot in this cycle
          fresh,     \* a delivery was prepared since the last claim
          prepared, storeFaults

workerVars == <<loop, stop, wake, attempt, ending, stuck, age, hindered, fresh, prepared, storeFaults>>

Attempts == 1..BatchSize
\* Mutant: the last, smaller wave is not counted.
WavesWhole == BatchSize \div Concurrency
Waves == (BatchSize + Concurrency - 1) \div Concurrency

WorkerInit ==
  /\ loop = "cycle" /\ stop = "no" /\ wake = FALSE
  /\ attempt = [a \in Attempts |-> "none"]
  /\ ending = 0 /\ stuck = 0 /\ age = 0 /\ hindered = FALSE
  /\ fresh = FALSE /\ prepared = 0 /\ storeFaults = 0

AttemptsAt(state) == {a \in Attempts : attempt[a] \in state}
Slots == Cardinality(AttemptsAt({"sending", "overdue"})) + ending + stuck
Stopping == stop # "no"

Move(a, from, to) == attempt[a] \in from /\ attempt' = [attempt EXCEPT ![a] = to]

\* Mutant: only a loop that waits is woken.
WakeWaiting ==
  /\ prepared < MaxPrepared /\ prepared' = prepared + 1
  /\ wake' = (wake \/ loop = "wait") /\ fresh' = TRUE
  /\ UNCHANGED <<loop, stop, attempt, ending, stuck, age, hindered, storeFaults>>

\* The router has prepared a delivery and wakes the worker; a token that is
\* already waiting serves both.
Wake ==
  /\ prepared < MaxPrepared /\ prepared' = prepared + 1
  /\ wake' = TRUE /\ fresh' = TRUE
  /\ UNCHANGED <<loop, stop, attempt, ending, stuck, age, hindered, storeFaults>>

\* The loop goes on with a tick or with a wake-up, or ends; select chooses at
\* random among those that are ready.
Ticked == /\ loop = "wait" /\ loop' = "cycle"
          /\ UNCHANGED <<stop, wake, attempt, ending, stuck, age, hindered, fresh, prepared, storeFaults>>
Woken == /\ loop = "wait" /\ wake /\ wake' = FALSE /\ loop' = "cycle"
         /\ UNCHANGED <<stop, attempt, ending, stuck, age, hindered, fresh, prepared, storeFaults>>
EndLoop == /\ loop = "wait" /\ Stopping /\ loop' = "ended"
           /\ UNCHANGED <<stop, wake, attempt, ending, stuck, age, hindered, fresh, prepared, storeFaults>>

\* The cycle expires what is due and claims attempts: those that are due now.
ClaimAttempts ==
  /\ loop = "cycle"
  /\ \/ /\ loop' = "sending" /\ fresh' = FALSE
        /\ \E n \in 0..BatchSize : attempt' = [a \in Attempts |-> IF a <= n THEN "queued" ELSE "none"]
        /\ age' = 0 /\ hindered' = (stuck > 0)
        /\ UNCHANGED storeFaults
     \/ /\ storeFaults < MaxStoreFaults /\ storeFaults' = storeFaults + 1
        /\ loop' = "wait" /\ UNCHANGED <<attempt, age, hindered, fresh>>
     \/ /\ Stopping /\ loop' = "wait"
        /\ UNCHANGED <<attempt, age, hindered, fresh, storeFaults>>
  /\ UNCHANGED <<stop, wake, ending, stuck, prepared>>

\* Mutant: an attempt waits for its slot, whatever happens.
TakeFreeSlot(a) ==
  /\ Slots < Concurrency /\ Move(a, {"queued"}, "sending")
  /\ UNCHANGED <<loop, stop, wake, ending, stuck, age, hindered, fresh, prepared, storeFaults>>

\* sendBounded waits for a slot or for the end of the worker.
TakeSlot(a) ==
  /\ \/ Slots < Concurrency /\ Move(a, {"queued"}, "sending")
     \/ Stopping /\ Move(a, {"queued"}, "completing")
  /\ UNCHANGED <<loop, stop, wake, ending, stuck, age, hindered, fresh, prepared, storeFaults>>

\* The channel returns in time.
SendReturns(a) ==
  /\ Move(a, {"sending", "overdue"}, "completing")
  /\ UNCHANGED <<loop, stop, wake, ending, stuck, age, hindered, fresh, prepared, storeFaults>>

\* The send has timed out or the worker stops: the attempt goes on, the send
\* keeps its slot.
GiveUpSend(a) ==
  /\ attempt[a] = "overdue" \/ (attempt[a] = "sending" /\ Stopping)
  /\ Move(a, {"sending", "overdue"}, "completing")
  /\ \/ ending' = ending + 1 /\ UNCHANGED <<stuck, hindered>>
     \/ stuck < MaxStuck /\ stuck' = stuck + 1 /\ hindered' = TRUE /\ UNCHANGED ending
  /\ UNCHANGED <<loop, stop, wake, age, fresh, prepared, storeFaults>>

SendEnds == /\ ending > 0 /\ ending' = ending - 1
            /\ UNCHANGED <<loop, stop, wake, attempt, stuck, age, hindered, fresh, prepared, storeFaults>>
StuckEnds == /\ stuck > 0 /\ stuck' = stuck - 1
             /\ UNCHANGED <<loop, stop, wake, attempt, ending, age, hindered, fresh, prepared, storeFaults>>

\* The outcome goes to the store, whether the worker stops or not.
CompleteAttempt(a) ==
  /\ Move(a, {"completing"}, "done")
  /\ UNCHANGED <<loop, stop, wake, ending, stuck, age, hindered, fresh, prepared, storeFaults>>

\* The cycle waits for all its attempts, then counts and records them.
EndCycle ==
  /\ loop = "sending" /\ AttemptsAt({"none", "done"}) = Attempts
  /\ loop' = "wait" /\ attempt' = [a \in Attempts |-> "none"]
  /\ UNCHANGED <<stop, wake, ending, stuck, age, hindered, fresh, prepared, storeFaults>>

\* One send timeout passes; nothing that takes no time is left to do.
SendTimeoutPasses ==
  /\ loop = "sending" /\ ending = 0 /\ age <= Waves
  /\ AttemptsAt({"overdue", "completing"}) = {}
  /\ AttemptsAt({"queued"}) = {} \/ Slots >= Concurrency
  /\ AttemptsAt({"sending", "queued"}) # {}
  /\ attempt' = [a \in Attempts |-> IF attempt[a] = "sending" THEN "overdue" ELSE attempt[a]]
  /\ age' = age + 1
  /\ UNCHANGED <<loop, stop, wake, ending, stuck, hindered, fresh, prepared, storeFaults>>

\* Stop cancels the context of the loop and waits for it.
Stop == /\ stop = "no" /\ stop' = "waiting"
        /\ UNCHANGED <<loop, wake, attempt, ending, stuck, age, hindered, fresh, prepared, storeFaults>>
StopReturns == /\ stop = "waiting" /\ loop = "ended" /\ stop' = "returned"
               /\ UNCHANGED <<loop, wake, attempt, ending, stuck, age, hindered, fresh, prepared, storeFaults>>

AttemptStep(a) == TakeSlot(a) \/ SendReturns(a) \/ GiveUpSend(a) \/ CompleteAttempt(a)

WorkerNext ==
  \/ Wake \/ Ticked \/ Woken \/ EndLoop \/ ClaimAttempts \/ EndCycle
  \/ \E a \in Attempts : AttemptStep(a)
  \/ SendEnds \/ StuckEnds \/ SendTimeoutPasses \/ Stop \/ StopReturns

\* The goroutines run and time passes; the ticker and the stuck sends are
\* not relied on; select is strongly fair to what is ready again and again.
WorkerFairness ==
  /\ SF_workerVars(Woken) /\ SF_workerVars(EndLoop) /\ WF_workerVars(ClaimAttempts) /\ WF_workerVars(EndCycle)
  /\ WF_workerVars(\E a \in Attempts : AttemptStep(a))
  /\ WF_workerVars(SendEnds) /\ WF_workerVars(SendTimeoutPasses) /\ WF_workerVars(StopReturns)

WorkerSpec == WorkerInit /\ [][WorkerNext]_workerVars /\ WorkerFairness

----------------------------------------------------------------------------
(* Properties.                                                             *)

\* An attempt is completed before its claim lapses, Waves send timeouts after
\* it was taken, as long as no stuck send takes a slot away from the cycle:
\* the number of waves and the number of slots fit together.
CompletesWithinClaim == age > Waves => hindered

\* A delivery prepared at any moment of a cycle is seen by a later claim
\* without waiting for the ticker, unless the worker stops, the store fails,
\* or stuck sends hold every slot.
WakeIsServed == fresh ~> (~ fresh \/ Stopping \/ storeFaults > 0 \/ stuck = Concurrency)

\* Stop returns whatever the channels do: sends that ignore their context
\* outlive it, attempts do not.
WorkerEnds == Stopping ~> stop = "returned"

=============================================================================
