---------------------------- MODULE SourceHealth -----------------------------
(***************************************************************************)
(* The health monitor's record of one source, written by its polls (the    *)
(* goroutine of its schedule and polls triggered by hand), by changes of   *)
(* its configuration and by the operator's reset.  The record decides      *)
(* whether the next poll fetches at all, and when somebody is told.        *)
(* Time is two questions: has RecoveryInterval passed since the last       *)
(* fetch was recorded, has RenotifyInterval passed since the last alarm.   *)
(***************************************************************************)
EXTENDS Naturals

CONSTANTS Polls,                                  \* polls at the same time
          DegradedThreshold, UnhealthyThreshold,  \* failures in a row
          MaxChanges                              \* bound of the model

ASSUME HealthAssumption == /\ DegradedThreshold \in Nat \ {0}
                           /\ UnhealthyThreshold \in Nat
                           /\ DegradedThreshold < UnhealthyThreshold

VARIABLES health,    \* the monitor's record
          listed,    \* how the configuration lists the source
          fetching,  \* polls that are fetching
          up,        \* the site answers
          probeDue, renotifyDue,
          issued,    \* the last notice handed to the notifier
          forgiven,  \* a reset or a change has put aside trouble that was told
          changes

healthVars == <<health, listed, fetching, up, probeDue, renotifyDue, issued, forgiven, changes>>

Trouble == {"degraded", "unhealthy"}

HealthInit ==
  /\ health = [status |-> "unlisted", fails |-> 0, scheduled |-> FALSE, awaiting |-> FALSE]
  /\ listed = "no" /\ fetching = {} /\ up \in BOOLEAN
  /\ probeDue = TRUE /\ renotifyDue = TRUE
  /\ issued = "none" /\ forgiven = FALSE /\ changes = 0

\* RegisterSource: an interval source, or one that is listed but disabled.
Unscheduled(h) ==
  IF h.status = "unlisted" THEN [h EXCEPT !.status = "healthy"]
  ELSE IF h.scheduled
       THEN [h EXCEPT !.scheduled = FALSE, !.awaiting = FALSE,
                      !.status = IF @ = "awaiting" THEN "healthy" ELSE @]
       ELSE h

\* RegisterScheduledSource: awaits its first slot, whatever its record says.
Scheduled(h) == IF h.scheduled THEN h
                ELSE [h EXCEPT !.status = "awaiting", !.scheduled = TRUE, !.awaiting = TRUE]

\* SetSourceStatus.
WithStatus(h, status) == [h EXCEPT !.status = status, !.awaiting = FALSE]

\* registerSourceHealth.
Registered(h, kind) ==
  CASE kind = "disabled"  -> WithStatus(Unscheduled(h), "disabled")
    [] kind = "scheduled" -> Scheduled(h)
    [] kind = "interval"  -> LET r == Unscheduled(h)
                             IN IF r.status \in {"awaiting", "disabled"}
                                THEN WithStatus(r, "healthy") ELSE r

\* A change of the configuration; the fetches under way belong to the source
\* that was replaced and are not recorded (SourceLifecycle).
ListSource(kind) ==
  /\ changes < MaxChanges /\ changes' = changes + 1
  /\ listed' = kind /\ fetching' = {}
  /\ health' = Registered(health, kind)
  /\ forgiven' = (forgiven \/ health'.status # health.status)
  /\ UNCHANGED <<up, probeDue, renotifyDue, issued>>

\* Mutant: an unhealthy source is not probed.
SkipUnhealthy == health.status = "unhealthy"
ShouldSkip == health.status = "unhealthy" /\ ~ probeDue

BeginFetch(p) ==
  /\ listed \in {"scheduled", "interval"} /\ p \notin fetching /\ ~ ShouldSkip
  /\ fetching' = fetching \cup {p}
  /\ UNCHANGED <<health, listed, up, probeDue, renotifyDue, issued, forgiven, changes>>

\* A notice goes out on a goroutine of its own.
Tell(notice) == issued' = notice /\ forgiven' = FALSE
TellNobody == UNCHANGED <<issued, forgiven>>

RecordSuccess ==
  /\ health' = [health EXCEPT !.status = "healthy", !.fails = 0, !.awaiting = FALSE]
  /\ IF health.status \in Trouble THEN Tell("recovered") ELSE TellNobody
  /\ renotifyDue' = TRUE

\* Mutant: the alarm of a source waits for the interval of its last one.
AlarmsWhenDue(status) == status = "unhealthy" /\ renotifyDue
\* An alarm is repeated after an interval; a source that turns unhealthy is
\* announced at once.
Alarms(status) == status = "unhealthy" /\ (health.status # "unhealthy" \/ renotifyDue)

\* Counters beyond the threshold are not told apart.
RecordFailure ==
  LET fails  == IF health.fails < UnhealthyThreshold THEN health.fails + 1 ELSE health.fails
      status == IF fails >= UnhealthyThreshold THEN "unhealthy"
                ELSE IF fails >= DegradedThreshold THEN "degraded" ELSE health.status
      alarm  == Alarms(status)
      warn   == status = "degraded" /\ fails >= DegradedThreshold
                /\ health.status \in {"healthy", "awaiting"}
  IN /\ health' = [health EXCEPT !.fails = fails, !.status = status]
     /\ renotifyDue' = IF alarm THEN FALSE ELSE renotifyDue
     /\ IF alarm THEN Tell("unhealthy") ELSE IF warn THEN Tell("degraded") ELSE TellNobody

EndFetch(p) ==
  /\ p \in fetching /\ fetching' = fetching \ {p}
  /\ IF up THEN RecordSuccess ELSE RecordFailure
  /\ probeDue' = FALSE
  /\ UNCHANGED <<listed, up, changes>>

\* The operator resets the record.
ResetSource ==
  /\ listed # "no" /\ changes < MaxChanges /\ changes' = changes + 1
  /\ health' = [health EXCEPT !.status = IF health.awaiting THEN "awaiting" ELSE "healthy",
                              !.fails = 0]
  /\ forgiven' = (forgiven \/ health'.status # health.status)
  /\ UNCHANGED <<listed, fetching, up, probeDue, renotifyDue, issued>>

RecoveryIntervalPasses == /\ ~ probeDue /\ probeDue' = TRUE
                          /\ UNCHANGED <<health, listed, fetching, up, renotifyDue, issued, forgiven, changes>>
RenotifyIntervalPasses == /\ ~ renotifyDue /\ renotifyDue' = TRUE
                          /\ UNCHANGED <<health, listed, fetching, up, probeDue, issued, forgiven, changes>>

SiteTurns == /\ up' = ~ up
             /\ UNCHANGED <<health, listed, fetching, probeDue, renotifyDue, issued, forgiven, changes>>

HealthNext ==
  \/ \E kind \in {"disabled", "scheduled", "interval"} : ListSource(kind)
  \/ \E p \in Polls : BeginFetch(p) \/ EndFetch(p)
  \/ ResetSource \/ RecoveryIntervalPasses \/ RenotifyIntervalPasses \/ SiteTurns

\* Polls go on for ever, fetches have timeouts, time passes.
HealthFairness == /\ \A p \in Polls : WF_healthVars(BeginFetch(p)) /\ WF_healthVars(EndFetch(p))
                  /\ WF_healthVars(RecoveryIntervalPasses)

HealthSpec == HealthInit /\ [][HealthNext]_healthVars /\ HealthFairness

----------------------------------------------------------------------------
(* Properties.                                                             *)

\* Whoever is told of a source knows how it stands: an unhealthy source has
\* been announced as such, and a source that is well again after trouble has
\* been announced as recovered, unless a reset or a change put the trouble
\* aside; through every order of two polls, changes and resets.
ToldHowItStands ==
  /\ health.status = "unhealthy" => issued = "unhealthy"
  /\ health.status = "healthy" /\ health.fails = 0 /\ ~ forgiven => issued \in {"none", "recovered"}

\* Skipping an unhealthy source never keeps it from being found well again
\* once the site answers for good.
KeepsProbing == <>[]up => []<>(health.status # "unhealthy")

=============================================================================
