---------------------------- MODULE SourceFence ----------------------------
(***************************************************************************)
(* What the engine promises about one source name, without locks, contexts *)
(* or goroutines: a fetch has effects only as part of the generation that  *)
(* is current, and the generation changes only when no effects are being   *)
(* applied.                                                                *)
(***************************************************************************)
EXTENDS Naturals

CONSTANT Thread

VARIABLES
  generation,   \* what is current
  applying      \* the generation whose effects a thread applies, 0 for none

vars == <<generation, applying>>

Init ==
  /\ generation = 1
  /\ applying = [t \in Thread |-> 0]

Apply(t) ==
  /\ applying[t] = 0
  /\ applying' = [applying EXCEPT ![t] = generation]
  /\ UNCHANGED generation

Finish(t) ==
  /\ applying[t] # 0
  /\ applying' = [applying EXCEPT ![t] = 0]
  /\ UNCHANGED generation

Replace ==
  /\ \A t \in Thread : applying[t] = 0
  /\ generation' = generation + 1
  /\ UNCHANGED applying

Next == Replace \/ \E t \in Thread : Apply(t) \/ Finish(t)

Spec == Init /\ [][Next]_vars

=============================================================================
