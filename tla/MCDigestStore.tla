--------------------------- MODULE MCDigestStore ---------------------------
(* Small instances of DigestStore for TLC.                                 *)
EXTENDS DigestStore, TLC

CONSTANTS i1, i2, i3, t1, t2, s1, s2

\* Two items of one topic and a third of its own, or a topic for each.
PairAndOne == [i \in Item |-> IF i = i3 THEN t2 ELSE t1]
OwnTopic == [i \in Item |-> IF i = i1 THEN t1 ELSE t2]

\* The second item outranks the first until the first has aged.
SecondFirst == [i \in Item |-> IF i = i2 THEN 1 ELSE 0]

BothSinks == {{s1, s2}}
OneSink == {{s1}}

Leases == Permutations(LeaseId)
=============================================================================
