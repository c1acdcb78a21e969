--------------------------- MODULE DirectPromise ---------------------------
(***************************************************************************)
(* What the direct lane promises for one news item, without claims, tokens *)
(* retries or clocks: its admission fixes the channels that must take it;  *)
(* each channel is settled once, as delivered or as given up; the item is  *)
(* closed in the very step that settles its last channel, and only closed  *)
(* items are forgotten.                                                    *)
(***************************************************************************)
CONSTANTS Msg, Channel

VARIABLES
  stage,    \* none, open or closed
  outcome   \* what became of each channel

vars == <<stage, outcome>>

Outcomes == {"unasked", "open", "delivered", "abandoned"}

Init ==
  /\ stage = [m \in Msg |-> "none"]
  /\ outcome = [m \in Msg |-> [c \in Channel |-> "unasked"]]

Admit(m, channels) ==
  /\ stage[m] = "none"
  /\ channels # {}
  /\ stage' = [stage EXCEPT ![m] = "open"]
  /\ outcome' = [outcome EXCEPT ![m] =
       [c \in Channel |-> IF c \in channels THEN "open" ELSE "unasked"]]

Settle(m, c, how) ==
  /\ stage[m] = "open"
  /\ outcome[m][c] = "open"
  /\ outcome' = [outcome EXCEPT ![m][c] = how]
  /\ stage' = [stage EXCEPT ![m] =
       IF \E d \in Channel : outcome'[m][d] = "open" THEN "open" ELSE "closed"]

Forget(S) ==
  /\ \A m \in S : stage[m] = "closed"
  /\ stage' = [m \in Msg |-> IF m \in S THEN "none" ELSE stage[m]]
  /\ outcome' = [m \in Msg |->
       IF m \in S THEN [c \in Channel |-> "unasked"] ELSE outcome[m]]

Next ==
  \/ \E m \in Msg, channels \in SUBSET Channel : Admit(m, channels)
  \/ \E m \in Msg, c \in Channel, how \in {"delivered", "abandoned"} : Settle(m, c, how)
  \/ \E S \in SUBSET Msg : Forget(S)

Spec == Init /\ [][Next]_vars

=============================================================================
