----------------------------- MODULE AlertEngine -----------------------------
(***************************************************************************)
(* Price and news alerts.  One goroutine checks the price alerts at every  *)
(* tick; whoever has news checks the news alerts on its own goroutine.  A  *)
(* check takes a snapshot of the alerts under the lock, and then asks for  *)
(* each of them, without the lock, whether it is cooling down and whether  *)
(* its condition holds; it notifies, then notes the time, then removes the *)
(* alert if it is for one time.  The alerts are in the store; the times of *)
(* their last trigger are in memory only.                                  *)
(***************************************************************************)
EXTENDS Naturals, FiniteSets

CONSTANTS PriceAlerts, NewsAlerts,   \* the alerts of one user
          OneTime,                   \* those that are removed when they fire
          NewsCheckers, PriceLoop,   \* the goroutines that check
          MaxAlertsPerUser,
          MaxCreates, MaxStoreErrors, MaxAlertRestarts  \* bounds of the model

Alerts == PriceAlerts \cup NewsAlerts
Checkers == NewsCheckers \cup {PriceLoop}

ASSUME AlertAssumption == /\ OneTime \subseteq Alerts /\ IsFiniteSet(NewsCheckers)
                          /\ PriceAlerts \cap NewsAlerts = {} /\ PriceLoop \notin NewsCheckers

VARIABLES stored,     \* alerts in the store
          active,     \* alerts in memory
          cooling,    \* alerts triggered less than their cooldown ago
          expired,    \* alerts whose ExpiresAt has passed
          check,      \* the checks under way
          fires,      \* notices of an alert since its cooldown last ended
          excused,    \* alerts whose trigger a fault has made forgotten
          creates, errors, boots

alertVars == <<stored, active, cooling, expired, check, fires, excused, creates, errors, boots>>

NoCheck == [at |-> "idle", left |-> {}, alert |-> {}]

AlertInit ==
  /\ stored = {} /\ active = {} /\ cooling = {} /\ expired = {}
  /\ check = [c \in Checkers |-> NoCheck]
  /\ fires = [a \in Alerts |-> 0] /\ excused = {}
  /\ creates = 0 /\ errors = 0 /\ boots = 0

StoreFails == errors < MaxStoreErrors /\ errors' = errors + 1

\* CreateAlert and RemoveAlert hold the lock over the store and the memory;
\* identifiers are new ones.
CreateAlert(a) ==
  /\ a \notin active \cup stored /\ fires[a] = 0 /\ creates < MaxCreates
  /\ Cardinality(active) < MaxAlertsPerUser /\ creates' = creates + 1
  /\ \/ stored' = stored \cup {a} /\ active' = active \cup {a} /\ UNCHANGED errors
     \/ StoreFails /\ UNCHANGED <<stored, active>>
  /\ UNCHANGED <<cooling, expired, check, fires, excused, boots>>

Removed(a) == /\ stored' = stored \ {a} /\ active' = active \ {a} /\ cooling' = cooling \ {a}

\* A check that holds the alert goes on with it, without its cooldown.
RemoveAlert(a) ==
  /\ a \in active /\ Removed(a)
  /\ excused' = IF \E c \in Checkers : a \in check[c].left \cup check[c].alert
                THEN excused \cup {a} ELSE excused
  /\ UNCHANGED <<expired, check, fires, creates, errors, boots>>

\* checkPriceAlerts, CheckNewsAlert: the snapshot.
BeginCheck(c) ==
  /\ check[c].at = "idle" /\ check' = [check EXCEPT ![c].at = "next", ![c].left =
                               active \cap (IF c = PriceLoop THEN PriceAlerts ELSE NewsAlerts)]
  /\ check'[c].left # {}
  /\ UNCHANGED <<stored, active, cooling, expired, fires, excused, creates, errors, boots>>

\* shouldTrigger, matchNewsAlert: cooling down, or the condition does not
\* hold, or the alert goes on to fire.
Decide(c, a) ==
  /\ check[c].at = "next" /\ a \in check[c].left
  /\ \/ check' = [check EXCEPT ![c].left = @ \ {a}]
     \/ /\ a \notin cooling
        /\ check' = [check EXCEPT ![c] = [at |-> "notify", left |-> @.left \ {a}, alert |-> {a}]]
  /\ UNCHANGED <<stored, active, cooling, expired, fires, excused, creates, errors, boots>>

EndCheck(c) ==
  /\ check[c].at = "next" /\ check[c].left = {} /\ check' = [check EXCEPT ![c] = NoCheck]
  /\ UNCHANGED <<stored, active, cooling, expired, fires, excused, creates, errors, boots>>

\* triggerAlert, triggerNewsAlert: the notice goes out; whether it arrives is
\* only logged.
NotifyUser(c) ==
  /\ check[c].at = "notify" /\ check' = [check EXCEPT ![c].at = "note"]
  /\ fires' = [a \in Alerts |-> IF a \in check[c].alert THEN fires[a] + 1 ELSE fires[a]]
  /\ UNCHANGED <<stored, active, cooling, expired, excused, creates, errors, boots>>

\* Mutant: the cooldown is noted for the alerts that are removed anyway.
TriggeredOnce(alerts) == cooling \cup (alerts \cap OneTime)
Triggered(alerts) == cooling \cup alerts

NoteTrigger(c) ==
  /\ check[c].at = "note" /\ cooling' = Triggered(check[c].alert)
  /\ check' = IF check[c].alert \subseteq OneTime THEN [check EXCEPT ![c].at = "remove"]
              ELSE [check EXCEPT ![c].at = "next", ![c].alert = {}]
  /\ UNCHANGED <<stored, active, expired, fires, excused, creates, errors, boots>>

\* An alert that fires once is removed: another check may have done it, and
\* the store may fail, which keeps the alert.
RemoveFired(c) ==
  /\ check[c].at = "remove" /\ check' = [check EXCEPT ![c].at = "next", ![c].alert = {}]
  /\ \/ \E a \in check[c].alert \cap active : Removed(a) /\ UNCHANGED <<excused, errors>>
     \/ check[c].alert \cap active = {} /\ UNCHANGED <<stored, active, cooling, excused, errors>>
     \/ /\ check[c].alert \subseteq active /\ StoreFails
        /\ excused' = excused \cup check[c].alert /\ UNCHANGED <<stored, active, cooling>>
  /\ UNCHANGED <<expired, fires, creates, boots>>

\* The cooldown of a repeated alert ends; its notices are counted anew.
CooldownEnds(a) ==
  /\ a \in cooling /\ cooling' = cooling \ {a}
  /\ fires' = IF a \in OneTime THEN fires ELSE [fires EXCEPT ![a] = 0]
  /\ UNCHANGED <<stored, active, expired, check, excused, creates, errors, boots>>

Expire(a) == /\ a \in stored \ expired /\ expired' = expired \cup {a}
             /\ UNCHANGED <<stored, active, cooling, check, fires, excused, creates, errors, boots>>

\* The process dies and loads its alerts; only here the expired ones go.
RestartEngine ==
  /\ boots < MaxAlertRestarts /\ boots' = boots + 1
  /\ active' = stored \ expired /\ stored' = stored \ expired
  /\ cooling' = {} /\ check' = [c \in Checkers |-> NoCheck]
  /\ excused' = excused \cup cooling \cup UNION {check[c].alert : c \in Checkers}
  /\ UNCHANGED <<expired, fires, creates, errors>>

AlertNext ==
  \/ \E a \in Alerts : CreateAlert(a) \/ RemoveAlert(a) \/ CooldownEnds(a) \/ Expire(a)
  \/ \E c \in Checkers : \/ BeginCheck(c) \/ EndCheck(c) \/ NotifyUser(c) \/ NoteTrigger(c) \/ RemoveFired(c)
                         \/ \E a \in Alerts : Decide(c, a)
  \/ RestartEngine

AlertSpec == AlertInit /\ [][AlertNext]_alertVars

----------------------------------------------------------------------------
(* Properties.                                                             *)

\* An alert for one time fires once, and a repeated one fires once in its
\* cooldown, as far as one goroutine checks it; news alerts fire at most once
\* for each goroutine that has news at the same time.  A removal the store
\* refused, a removal while a check holds the alert, and a restart that forgets
\* the cooldown are excused.
FiresAreFew ==
  \A a \in Alerts \ excused :
     fires[a] <= (IF a \in PriceAlerts THEN 1 ELSE Cardinality(NewsCheckers))

=============================================================================
