---------------------------- MODULE Subscribers ------------------------------
(***************************************************************************)
(* The subscribers of a WeChat official account.  The channel keeps them   *)
(* in a slice: a broadcast takes the slice under the lock and walks over   *)
(* it without, while followers come and go.  Leaving moves the rest of the *)
(* slice down in place, in the array the broadcast reads from; joining     *)
(* writes behind its end or moves to a new array, as capacity allows.  An  *)
(* empty slice is filled from WeChat, and what is written is what WeChat   *)
(* answered.  Events of followers are looked at only if the channel has a  *)
(* message handler.                                                        *)
(***************************************************************************)
EXTENDS Naturals, FiniteSets, Sequences

CONSTANTS Users, Broadcasts,
          MaxEvents, MaxRuns   \* bounds of the model

ASSUME SubscribersAssumption == IsFiniteSet(Users)

VARIABLES handler,    \* SetHandler was called
          followers,  \* who follows the account
          heap,       \* the arrays: places hold a user or are empty
          slice,      \* the subscribers: an array and a length
          walk,       \* the broadcasts under way
          astray,     \* followers the channel has missed: see Join and
                      \* StoreFollowers
          events, rounds

subscriberVars == <<handler, followers, heap, slice, walk, astray, events, rounds>>

Room == 1..Cardinality(Users)
NoArray == [k \in Room |-> {}]
NoWalk == [at |-> "idle", answer |-> <<>>, array |-> 1, len |-> 0, next |-> 1,
           due |-> {}, reached |-> [u \in Users |-> 0], left |-> 0]

SubscribersInit ==
  /\ handler \in BOOLEAN /\ followers \in SUBSET Users
  /\ heap = <<NoArray>> /\ slice = [array |-> 1, len |-> 0]
  /\ walk = [b \in Broadcasts |-> NoWalk]
  /\ astray = {} /\ events = 0 /\ rounds = 0

Listed == UNION {heap[slice.array][k] : k \in 1..slice.len}

\* addSubscriber: append writes in place if the capacity allows it.
Appended(u) ==
  \/ /\ slice.len < Cardinality(Users)
     /\ heap' = [heap EXCEPT ![slice.array][slice.len + 1] = {u}]
     /\ slice' = [slice EXCEPT !.len = @ + 1]
  \/ /\ heap' = Append(heap, [heap[slice.array] EXCEPT ![slice.len + 1] = {u}])
     /\ slice' = [array |-> Len(heap) + 1, len |-> slice.len + 1]

AlreadyIn(u) == u \in Listed

\* handleMessage, event "subscribe".  The first one makes a list that was never
\* filled look filled: whoever follows already is missed.
Join(u) ==
  /\ u \notin followers /\ events < MaxEvents /\ events' = events + 1
  /\ followers' = followers \cup {u}
  /\ astray' = IF slice.len = 0 THEN followers ELSE astray
  /\ IF handler /\ ~ AlreadyIn(u) THEN Appended(u) ELSE UNCHANGED <<heap, slice>>
  /\ UNCHANGED <<handler, walk, rounds>>

\* Mutant: the shift begins one place too late.
ShiftedAfter(arr, i, len) == [k \in Room |-> IF k > i /\ k < len THEN arr[k + 1] ELSE arr[k]]
\* removeSubscriber shifts the rest down by one; the last place keeps its
\* value.
ShiftedFrom(arr, i, len) == [k \in Room |-> IF k >= i /\ k < len THEN arr[k + 1] ELSE arr[k]]

\* handleMessage, event "unsubscribe".
Leave(u) ==
  /\ u \in followers /\ events < MaxEvents /\ events' = events + 1
  /\ followers' = followers \ {u}
  /\ IF handler /\ u \in Listed
     THEN LET i == CHOOSE k \in 1..slice.len : heap[slice.array][k] = {u}
          IN /\ heap' = [heap EXCEPT ![slice.array] = ShiftedFrom(@, i, slice.len)]
             /\ slice' = [slice EXCEPT !.len = @ - 1]
             /\ walk' = [b \in Broadcasts |-> [walk[b] EXCEPT !.due = @ \ {u}, !.left = @ + 1]]
     ELSE /\ walk' = [b \in Broadcasts |-> [walk[b] EXCEPT !.due = @ \ {u}]]
          /\ UNCHANGED <<heap, slice>>
  /\ UNCHANGED <<handler, astray, rounds>>

Take(w) == [w EXCEPT !.at = "walk", !.array = slice.array, !.len = slice.len, !.next = 1,
                     !.due = Listed \cap followers, !.left = 0]

\* broadcastToSubscribers, sendTemplateMessageToAll: take the slice; an empty
\* one is filled first.
BeginBroadcast(b) ==
  /\ walk[b].at = "idle" /\ rounds < MaxRuns /\ rounds' = rounds + 1
  /\ walk' = [walk EXCEPT ![b] = IF slice.len > 0 THEN Take(NoWalk) ELSE [NoWalk EXCEPT !.at = "ask"]]
  /\ UNCHANGED <<handler, followers, heap, slice, astray, events>>

\* refreshSubscribers: WeChat answers with the followers of this moment, in
\* its order, or the token or the answer fails and the broadcast with it.
AskFollowers(b) ==
  /\ walk[b].at = "ask"
  /\ \/ \E answer \in [1..Cardinality(followers) -> followers] :
           /\ {answer[k] : k \in DOMAIN answer} = followers
           /\ walk' = [walk EXCEPT ![b].at = "store", ![b].answer = answer]
     \/ walk' = [walk EXCEPT ![b] = NoWalk]
  /\ UNCHANGED <<handler, followers, heap, slice, astray, events, rounds>>

StoreFollowers(b) ==
  LET answer == walk[b].answer
  IN /\ walk[b].at = "store"
     /\ heap' = Append(heap, [k \in Room |-> IF k <= Len(answer) THEN {answer[k]} ELSE {}])
     /\ slice' = [array |-> Len(heap) + 1, len |-> Len(answer)]
     /\ walk' = [walk EXCEPT ![b].at = "take", ![b].answer = <<>>]
     /\ astray' = followers \ {answer[k] : k \in DOMAIN answer}
     /\ UNCHANGED <<handler, followers, events, rounds>>

\* Nobody to send to is an error.
TakeFilled(b) ==
  /\ walk[b].at = "take"
  /\ walk' = [walk EXCEPT ![b] = IF slice.len > 0 THEN Take(@) ELSE NoWalk]
  /\ UNCHANGED <<handler, followers, heap, slice, astray, events, rounds>>

\* The next place of the array, whatever it holds by now; a send that fails
\* is counted and the walk goes on.
SendToNext(b) ==
  LET w == walk[b]
  IN /\ w.at = "walk" /\ w.next <= w.len
     /\ walk' = [walk EXCEPT ![b].next = @ + 1,
                  ![b].reached = [u \in Users |-> IF u \in heap[w.array][w.next] THEN @[u] + 1 ELSE @[u]]]
     /\ UNCHANGED <<handler, followers, heap, slice, astray, events, rounds>>

EndBroadcast(b) ==
  /\ walk[b].at = "walk" /\ walk[b].next > walk[b].len
  /\ walk' = [walk EXCEPT ![b] = NoWalk]
  /\ UNCHANGED <<handler, followers, heap, slice, astray, events, rounds>>

SubscribersNext ==
  \/ \E u \in Users : Join(u) \/ Leave(u)
  \/ \E b \in Broadcasts : \/ BeginBroadcast(b) \/ AskFollowers(b) \/ StoreFollowers(b)
                           \/ TakeFilled(b) \/ SendToNext(b) \/ EndBroadcast(b)

SubscribersSpec == SubscribersInit /\ [][SubscribersNext]_subscriberVars

----------------------------------------------------------------------------
(* Properties.                                                             *)

\* A broadcast that has come to its end reached everybody who was there all
\* the time, and nobody twice, but for one follower skipped and one repeated
\* for each that left meanwhile.
WalkReachesAll ==
  \A b \in Broadcasts : walk[b].at = "walk" /\ walk[b].next > walk[b].len =>
     /\ Cardinality({u \in walk[b].due : walk[b].reached[u] = 0}) <= walk[b].left
     /\ \A u \in Users : walk[b].reached[u] <= 1 + walk[b].left

\* A channel with a handler and any subscriber knows all followers, but those
\* who joined while it was asking WeChat, and those who were there before the
\* first one joined, if it had not asked by then.
KnowsFollowers == handler /\ slice.len > 0 => followers \subseteq Listed \cup astray

\* Followers are known, and a broadcast reaches those it knows.
FollowersAreReached == WalkReachesAll /\ KnowsFollowers

=============================================================================
