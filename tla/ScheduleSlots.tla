---------------------------- MODULE ScheduleSlots ----------------------------
(***************************************************************************)
(* The goroutine of a source that is fetched at given times of the day:    *)
(* the catch-up at its start, which asks the store whether the latest slot *)
(* of the day has run, and the loop that waits for the next slot, fetches  *)
(* and marks the slot.  The process may crash and start again, the store   *)
(* may fail, the wall clock may be set back; a timer runs on the monotonic *)
(* clock.  What a fetch does is the matter of the other modules; here it   *)
(* takes time and has had its effects, or fails.                           *)
(***************************************************************************)
EXTENDS Naturals, FiniteSets, FiniteSetsExt

CONSTANTS DayLength, Schedule,   \* the slots, as times of a day
          Days, TradingDays,     \* the days of the model, those with trading
          MaxCrashes, MaxSlotFaults, MaxSteps  \* bounds of the model

ASSUME ScheduleAssumption == /\ DayLength \in Nat \ {0}
                             /\ Schedule \subseteq 0..(DayLength - 1) /\ Schedule # {}
                             /\ Days \in Nat \ {0} /\ TradingDays \subseteq 0..(Days - 1)

VARIABLES now,       \* the wall clock
          slotLoop,  \* where the goroutine is, and the slot it is about
          timer,     \* time until the timer fires
          mark,      \* slots the store knows to have run
          slotRuns,  \* how often a slot has had its effects
          fired,     \* slots the loop has fired for since it began to wait
          since,     \* when the loop began to wait
          overrun,   \* slots that came while the loop was fetching
          slotsExcused,  \* slots whose run was not recorded for a reason
          crashes, slotFaults, steps

slotVars == <<now, slotLoop, timer, mark, slotRuns, fired, since, overrun,
              slotsExcused, crashes, slotFaults, steps>>

\* Slots are absolute times; a mark is the key of a date and a slot.
End == Days * DayLength
AllSlots == {t \in 0..(End + DayLength) : t % DayLength \in Schedule}
DayOf(t) == t \div DayLength
Trading(t) == DayOf(t) \in TradingDays
None == End + DayLength + 1

\* mostRecentPastSlotAt: of today, not after now.
PastSlots(t) == {s \in AllSlots : s <= t /\ DayOf(s) = DayOf(t)}
\* calculateNextScheduledTimeAt: strictly after now.
NextSlot(t) == Min({s \in AllSlots : s > t})

Begin(at, slot) == [at |-> at, slot |-> slot]

SlotInit ==
  /\ now = 0 /\ slotLoop = Begin("start", None) /\ timer = 0
  /\ mark = {} /\ slotRuns = [s \in AllSlots |-> 0]
  /\ fired = {} /\ since = 0 /\ overrun = {} /\ slotsExcused = {}
  /\ crashes = 0 /\ slotFaults = 0 /\ steps = 0

\* The loop goes to wait for the next slot.
Wait(begun) == /\ slotLoop' = Begin("wait", NextSlot(now)) /\ timer' = NextSlot(now) - now
               /\ since' = begun

\* On a day without trading the goroutine ends where it starts.
StartLoop ==
  /\ slotLoop.at = "start" /\ fired' = {} /\ overrun' = {}
  /\ IF ~ Trading(now) THEN slotLoop' = Begin("ended", None) /\ UNCHANGED <<timer, since>>
     ELSE IF PastSlots(now) = {} THEN Wait(now)
     ELSE slotLoop' = Begin("lookup", Max(PastSlots(now))) /\ UNCHANGED <<timer, since>>
  /\ UNCHANGED <<now, mark, slotRuns, slotsExcused, crashes, slotFaults, steps>>

\* The catch-up looks the slot up under the date of this moment; a store that
\* fails counts as a slot that has not run.
CatchUp ==
  LET key == (DayOf(now) * DayLength) + (slotLoop.slot % DayLength)
  IN /\ slotLoop.at = "lookup"
     /\ \/ key \in mark /\ Wait(now) /\ UNCHANGED <<slotsExcused, slotFaults>>
        \/ /\ key \notin mark /\ slotLoop' = Begin("fetch", key)
           /\ slotsExcused' = IF key = slotLoop.slot THEN slotsExcused ELSE slotsExcused \cup {key}
           /\ UNCHANGED <<timer, slotFaults>>
        \/ /\ slotFaults < MaxSlotFaults /\ slotFaults' = slotFaults + 1
           /\ slotLoop' = Begin("fetch", key) /\ slotsExcused' = slotsExcused \cup {key}
           /\ UNCHANGED timer
     /\ since' = now
     /\ UNCHANGED <<now, mark, slotRuns, fired, overrun, crashes, steps>>

\* The timer fires; on a day without trading the loop goes back to wait.
Fire ==
  /\ slotLoop.at = "wait" /\ timer = 0 /\ fired' = fired \cup {slotLoop.slot}
  /\ IF Trading(now) THEN slotLoop' = [slotLoop EXCEPT !.at = "fetch"] /\ UNCHANGED <<timer, since>>
                     ELSE Wait(since)
  /\ UNCHANGED <<now, mark, slotRuns, overrun, slotsExcused, crashes, slotFaults, steps>>

\* The fetch has had its effects, or has failed or was skipped.
FetchSucceeds ==
  /\ slotLoop.at = "fetch" /\ slotLoop' = [slotLoop EXCEPT !.at = "mark"]
  /\ slotRuns' = [slotRuns EXCEPT ![slotLoop.slot] = @ + 1]
  /\ UNCHANGED <<now, timer, mark, fired, since, overrun, slotsExcused, crashes, slotFaults, steps>>
FetchFails ==
  /\ slotLoop.at = "fetch" /\ Wait(since)
  /\ UNCHANGED <<now, mark, slotRuns, fired, overrun, slotsExcused, crashes, slotFaults, steps>>

\* Mutant: the mark is that of the latest slot when the fetch is over.
MarkLatest == Max(PastSlots(now) \cup {slotLoop.slot})
\* The mark is that of the slot the fetch was about.
MarkKey == slotLoop.slot

MarkRun ==
  /\ slotLoop.at = "mark" /\ Wait(since)
  /\ \/ mark' = mark \cup {MarkKey} /\ UNCHANGED <<slotsExcused, slotFaults>>
     \/ /\ slotFaults < MaxSlotFaults /\ slotFaults' = slotFaults + 1
        /\ slotsExcused' = slotsExcused \cup {slotLoop.slot} /\ UNCHANGED mark
  /\ UNCHANGED <<now, slotRuns, fired, overrun, crashes, steps>>

\* Time passes: a timer that is due fires first.
ClockTicks ==
  /\ now < End /\ ~ (slotLoop.at = "wait" /\ timer = 0)
  /\ now' = now + 1
  /\ timer' = IF slotLoop.at = "wait" THEN timer - 1 ELSE timer
  /\ overrun' = IF slotLoop.at = "wait" THEN overrun ELSE overrun \cup ({now + 1} \cap AllSlots)
  /\ UNCHANGED <<slotLoop, mark, slotRuns, fired, since, slotsExcused, crashes, slotFaults, steps>>

\* The wall clock is set back: the slots of the repeated time may come twice,
\* and the timer that runs now fires before its slot.
ClockSetBack ==
  /\ now > 0 /\ steps < MaxSteps /\ steps' = steps + 1
  /\ now' = now - 1
  /\ slotsExcused' = slotsExcused \cup {s \in AllSlots : s \in {now - 1, now, slotLoop.slot}}
  /\ UNCHANGED <<slotLoop, timer, mark, slotRuns, fired, since, overrun, crashes, slotFaults>>

\* The process dies and starts again.
CrashProcess ==
  /\ crashes < MaxCrashes /\ crashes' = crashes + 1
  /\ slotLoop' = Begin("start", None) /\ timer' = 0
  /\ slotsExcused' = IF slotLoop.at = "mark" THEN slotsExcused \cup {slotLoop.slot} ELSE slotsExcused
  /\ UNCHANGED <<now, mark, slotRuns, fired, since, overrun, slotFaults, steps>>

SlotNext == \/ StartLoop \/ CatchUp \/ Fire \/ FetchSucceeds \/ FetchFails \/ MarkRun
            \/ ClockTicks \/ ClockSetBack \/ CrashProcess

SlotSpec == SlotInit /\ [][SlotNext]_slotVars

----------------------------------------------------------------------------
(* Properties.                                                             *)

\* A slot has its effects once, whatever restarts do, unless the run was not
\* recorded (a crash or a store failure before the mark), the catch-up of a
\* restart crossed midnight between its two readings of the clock, or the
\* clock was set back.
SlotRunsOnce == \A s \in AllSlots : s \notin slotsExcused => slotRuns[s] <= 1

\* The loop never sleeps through a slot: while it waits, every slot since it
\* began was fired for, came during a fetch or was excused.
NoSlotSlept ==
  slotLoop.at = "wait" =>
    \A s \in AllSlots : since < s /\ s < slotLoop.slot => s \in fired \cup overrun \cup slotsExcused

\* The schedule is kept: every slot runs, and none twice.
ScheduleIsKept == SlotRunsOnce /\ NoSlotSlept

=============================================================================
