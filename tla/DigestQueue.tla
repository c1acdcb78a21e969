---------------------------- MODULE DigestQueue ----------------------------
(***************************************************************************)
(* What the digest store promises (internal/digest/digest.go, Store),      *)
(* without leases, claims, tokens, clocks or indexes: an item waits until  *)
(* it is dropped, acknowledged by a v1 client, or committed to exactly one *)
(* digest; a digest ends once, and all its items end with it: acknowledged *)
(* if every channel of its audience got the message, dropped otherwise.    *)
(***************************************************************************)
CONSTANTS Item, DigestId, Sink

VARIABLES
  status,   \* where each item is
  digest,   \* the digests: their items, audience and outcome
  reached   \* <<digest, sink>> pairs that got the message

vars == <<status, digest, reached>>

NoDigest == [state |-> "none", items |-> {}, audience |-> {}]

Waiting == {i \in Item : status[i] = "waiting"}
Open == {d \in DigestId : digest[d].state = "open"}
ItemsIn(D) == UNION {digest[d].items : d \in D}

\* The items of S move to state s, everything else stays.
Moved(S, s) == [i \in Item |-> IF i \in S THEN s ELSE status[i]]

Init ==
  /\ status = [i \in Item |-> "absent"]
  /\ digest = [d \in DigestId |-> NoDigest]
  /\ reached = {}

Add(i) ==
  /\ status[i] = "absent"
  /\ status' = Moved({i}, "waiting")
  /\ UNCHANGED <<digest, reached>>

\* Waiting items and open digests are given up; a digest takes all its items
\* with it.
Drop(S, D) ==
  /\ status' = Moved(S \cup ItemsIn(D), "dropped")
  /\ digest' = [d \in DigestId |->
       IF d \in D THEN [digest[d] EXCEPT !.state = "dropped"] ELSE digest[d]]
  /\ UNCHANGED reached

\* A v1 acknowledgement of waiting items, which may drop others on the way.
Acknowledge(S, dropped) ==
  /\ status' = [i \in Item |->
       IF i \in S THEN "acked" ELSE IF i \in dropped THEN "dropped" ELSE status[i]]
  /\ UNCHANGED <<digest, reached>>

\* Waiting items become one digest for an audience.
Commit(d, S, audience, dropped) ==
  /\ digest[d].state = "none"
  /\ status' = [i \in Item |->
       IF i \in S THEN "committed" ELSE IF i \in dropped THEN "dropped" ELSE status[i]]
  /\ digest' = [digest EXCEPT ![d] = [state |-> "open", items |-> S, audience |-> audience]]
  /\ UNCHANGED reached

\* The whole audience got the digest: all its items are acknowledged.
Deliver(d) ==
  /\ digest[d].state = "open"
  /\ \A s \in digest[d].audience : <<d, s>> \in reached
  /\ status' = Moved(digest[d].items, "acked")
  /\ digest' = [digest EXCEPT ![d].state = "done"]
  /\ UNCHANGED reached

\* A channel gets a digest, perhaps again, perhaps after the digest ended.
Reach(d, s) ==
  /\ reached' = reached \cup {<<d, s>>}
  /\ UNCHANGED <<status, digest>>

\* Records that ended are forgotten; the item may be added anew.
Forget(S, D) ==
  /\ \A i \in S : status[i] \in {"acked", "dropped"}
  /\ \A d \in D : digest[d].state \in {"done", "dropped"}
  /\ status' = Moved(S, "absent")
  /\ digest' = [d \in DigestId |-> IF d \in D THEN NoDigest ELSE digest[d]]
  /\ UNCHANGED reached

Next ==
  \/ \E i \in Item : Add(i)
  \/ \E S \in SUBSET Waiting, D \in SUBSET Open : Drop(S, D)
  \/ \E S, dropped \in SUBSET Waiting : Acknowledge(S, dropped)
  \/ \E d \in DigestId, S \in (SUBSET Waiting) \ {{}}, audience \in (SUBSET Sink) \ {{}},
        dropped \in SUBSET Waiting : Commit(d, S, audience, dropped)
  \/ \E d \in DigestId : Deliver(d)
  \/ \E d \in DigestId, s \in Sink : Reach(d, s)
  \/ \E S \in SUBSET Item, D \in SUBSET DigestId : Forget(S, D)

Spec == Init /\ [][Next]_vars

=============================================================================
