--------------------------- MODULE MCDirectRoute ---------------------------
(* Small instances of DirectRoute for TLC.                                 *)
EXTENDS DirectRoute, TLC

CONSTANTS c1, c2

\* One admission a day in each lane, or no limit.
OneADay == [l \in Lane |-> 1]
NoQuota == [l \in Lane |-> 0]

BothChannels == {{c1, c2}}
OneChannel == {{c1}}

Tokens == Permutations(Token)
Actors == Tokens \cup Permutations(Poller) \cup Permutations(Msg \ Critical)
=============================================================================
