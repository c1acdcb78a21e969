-------------------------- MODULE DiscordThreads ---------------------------
(***************************************************************************)
(* A Discord channel in bot mode: every source has a thread in a forum,    *)
(* and the messages of the source are appended to it.  A send looks the    *)
(* thread up, or creates one; asks the deduplication of the thread, which  *)
(* remembers the message at once; asks the rate limiter; appends the first *)
(* part, with a backoff when Discord answers 429; then appends the rest.   *)
(* The senders are the goroutines of concurrent deliveries; a delivery     *)
(* whose send failed is tried again later.  One source is modelled: the    *)
(* sources share nothing but the limiter, whose answer is a choice here    *)
(* (TokenBucket models it).                                                *)
(***************************************************************************)
EXTENDS Naturals, FiniteSets

CONSTANTS Senders, Posts,           \* concurrent sends; messages
          MaxThreads, MaxSends, MaxBackoff, MaxStale  \* bounds of the model

ASSUME DiscordAssumption == IsFiniteSet(Senders) /\ MaxThreads \in Nat

VARIABLES thread,    \* the thread the pool knows (0: none), and whether its
                     \* last message is younger than the time to live
          made,      \* threads created so far
          noted,     \* what the deduplication of a thread remembers
          send,      \* the sends under way
          board,     \* parts of a message in a thread
          confirmed, \* messages whose send returned without an error
          unclear,   \* messages appended by a call that returned an error,
                     \* and messages the deduplication has forgotten
          sends, stale

discordVars == <<thread, made, noted, send, board, confirmed, unclear, sends, stale>>

Part == 1..2
NoSend == [at |-> "idle", msg |-> 0, to |-> 0, tries |-> 0]

DiscordInit ==
  /\ thread = [id |-> 0, fresh |-> FALSE] /\ made = {} /\ noted = {}
  /\ send = [p \in Senders |-> NoSend]
  /\ board = [x \in (1..MaxThreads) \X Posts \X Part |-> 0]
  /\ confirmed = {} /\ unclear = {} /\ sends = [m \in Posts |-> 0] /\ stale = 0

Step(p, from, to) == /\ send[p].at = from
                     /\ send' = [send EXCEPT ![p].at = to]

\* Send returns: without an error the caller takes the message as sent.
Return(p, ok) == /\ send' = [send EXCEPT ![p] = NoSend]
                 /\ confirmed' = IF ok THEN confirmed \cup {send[p].msg} ELSE confirmed

\* A delivery sends a message nobody has confirmed to it.
BeginSend(p, m) ==
  /\ send[p].at = "idle" /\ sends[m] < MaxSends /\ m \notin confirmed
  /\ send' = [send EXCEPT ![p] = [NoSend EXCEPT !.at = "lookup", !.msg = m]]
  /\ sends' = [sends EXCEPT ![m] = @ + 1]
  /\ UNCHANGED <<thread, made, noted, board, confirmed, unclear, stale>>

\* The first part looks the thread up before it asks the deduplication, the
\* rest looks it up again.
Then(at) == IF at = "lookup" THEN "check" ELSE "rest"

\* GetOrCreateThread finds a thread whose last message is young enough.
FindThread(p) ==
  /\ send[p].at \in {"lookup", "lookup rest"} /\ thread.id # 0 /\ thread.fresh
  /\ send' = [send EXCEPT ![p].at = Then(@), ![p].to = thread.id]
  /\ UNCHANGED <<thread, made, noted, board, confirmed, unclear, sends, stale>>

\* It finds none: from here on it creates one, whatever others do.
MissThread(p) ==
  /\ ~ (thread.id # 0 /\ thread.fresh)
  /\ \/ Step(p, "lookup", "create") \/ Step(p, "lookup rest", "create rest")
  /\ UNCHANGED <<thread, made, noted, board, confirmed, unclear, sends, stale>>

Pooled(t) == [id |-> t, fresh |-> TRUE]

\* Discord creates the thread, and the pool knows this one from now on.
CreateThread(p) ==
  /\ send[p].at \in {"create", "create rest"} /\ Cardinality(made) < MaxThreads
  /\ LET t == Cardinality(made) + 1
         to == IF send[p].at = "create" THEN "check" ELSE "rest"
     IN /\ made' = made \cup {t}
        /\ thread' = Pooled(t)
        /\ send' = [send EXCEPT ![p].at = to, ![p].to = t]
  /\ UNCHANGED <<noted, board, confirmed, unclear, sends, stale>>

CreateFails(p) == /\ send[p].at \in {"create", "create rest"} /\ Return(p, FALSE)
                  /\ UNCHANGED <<thread, made, noted, board, unclear, sends, stale>>

\* Mutant: ShouldSend only looks.
RememberedBefore(entry) == noted
Remembered(entry) == noted \cup {entry}

\* ShouldSend remembers the message; a message it remembers is skipped, and
\* counts as sent as far as its first part goes.
CheckThread(p) ==
  LET entry == [to |-> send[p].to, msg |-> send[p].msg]
  IN /\ \/ entry \in noted /\ Step(p, "check", "lookup rest")
        \/ entry \notin noted /\ Step(p, "check", "limit")
     /\ noted' = Remembered(entry)
     /\ UNCHANGED <<thread, made, board, confirmed, unclear, sends, stale>>

\* The limiter has a token, or the send fails.
AskLimiter(p) ==
  /\ \/ Step(p, "limit", "append") /\ UNCHANGED confirmed
     \/ send[p].at = "limit" /\ Return(p, FALSE)
  /\ UNCHANGED <<thread, made, noted, board, unclear, sends, stale>>

\* A part arrives in the thread; the pool notes the time if it still knows
\* this thread.
Arrives(p, k) ==
  /\ board' = [board EXCEPT ![<<send[p].to, send[p].msg, k>>] = @ + 1]
  /\ thread' = IF thread.id = send[p].to THEN [thread EXCEPT !.fresh = TRUE] ELSE thread

\* The first part: accepted; refused with 429, which starts the backoff;
\* failed; or failed although it arrived.  UpdateLastActivity notes the
\* time on whatever thread the pool knows.
AppendFirst(p) ==
  /\ send[p].at = "append"
  /\ \/ /\ board' = [board EXCEPT ![<<send[p].to, send[p].msg, 1>>] = @ + 1]
        /\ thread' = [thread EXCEPT !.fresh = TRUE]
        /\ Step(p, "append", "lookup rest") /\ UNCHANGED <<confirmed, unclear>>
     \/ Step(p, "append", "backoff") /\ UNCHANGED <<thread, board, confirmed, unclear>>
     \/ Return(p, FALSE) /\ UNCHANGED <<thread, board, unclear>>
     \/ /\ Return(p, FALSE) /\ UNCHANGED thread
        /\ board' = [board EXCEPT ![<<send[p].to, send[p].msg, 1>>] = @ + 1]
        /\ unclear' = unclear \cup {send[p].msg}
  /\ UNCHANGED <<made, noted, sends, stale>>

\* The backoff tries again whatever the error was, MaxBackoff times, and
\* gives up when the context of the send ends.
AppendAgain(p) ==
  LET again == IF send[p].tries + 1 < MaxBackoff
               THEN send' = [send EXCEPT ![p].tries = @ + 1] /\ UNCHANGED confirmed
               ELSE Return(p, FALSE)
  IN /\ send[p].at = "backoff"
     /\ \/ Arrives(p, 1) /\ Step(p, "backoff", "lookup rest") /\ UNCHANGED <<confirmed, unclear>>
        \/ again /\ UNCHANGED <<thread, board, unclear>>
        \/ /\ again /\ UNCHANGED thread
           /\ board' = [board EXCEPT ![<<send[p].to, send[p].msg, 1>>] = @ + 1]
           /\ unclear' = unclear \cup {send[p].msg}
        \/ Return(p, FALSE) /\ UNCHANGED <<thread, board, unclear>>
     /\ UNCHANGED <<made, noted, sends, stale>>

\* The rest of the message: neither deduplicated nor limited.
AppendRest(p) ==
  /\ send[p].at = "rest"
  /\ \/ Arrives(p, 2) /\ Return(p, TRUE)
     \/ Return(p, FALSE) /\ UNCHANGED <<thread, board>>
  /\ UNCHANGED <<made, noted, unclear, sends, stale>>

\* The thread has had no message for its time to live.
ThreadStale ==
  /\ thread.fresh /\ stale < MaxStale
  /\ thread' = [thread EXCEPT !.fresh = FALSE] /\ stale' = stale + 1
  /\ UNCHANGED <<made, noted, send, board, confirmed, unclear, sends>>

\* The deduplication forgets a message after an hour.
ForgetMessage(e) ==
  /\ e \in noted /\ stale < MaxStale
  /\ noted' = noted \ {e} /\ unclear' = unclear \cup {e.msg} /\ stale' = stale + 1
  /\ UNCHANGED <<thread, made, send, board, confirmed, sends>>

DiscordNext ==
  \/ \E p \in Senders : \/ \E m \in Posts : BeginSend(p, m)
                        \/ FindThread(p) \/ MissThread(p) \/ CreateThread(p) \/ CreateFails(p)
                        \/ CheckThread(p) \/ AskLimiter(p)
                        \/ AppendFirst(p) \/ AppendAgain(p) \/ AppendRest(p)
  \/ ThreadStale
  \/ \E e \in noted : ForgetMessage(e)

DiscordSpec == DiscordInit /\ [][DiscordNext]_discordVars

----------------------------------------------------------------------------
(* Properties.                                                             *)

\* The first part of a message is in a thread at most once, however often
\* the send is repeated, unless a call failed although its message had
\* arrived and the backoff repeated it, or the hour was over.
FirstPartOnce == \A t \in made, m \in Posts : m \notin unclear => board[<<t, m, 1>>] <= 1

\* Sends that find no thread at the same time create one each; but between
\* two lapses of the time to live no more threads are made than there are
\* senders at once.
ThreadsAreShared == Cardinality(made) <= (stale + 1) * Cardinality(Senders)

\* What the forum shows of a source is in order.
ForumIsTidy == FirstPartOnce /\ ThreadsAreShared

\* A delivery is at least once (core/routing.go:190-192), so a send that is
\* taken for done has appended the message to a thread.  The code does not
\* keep this: a first send that fails for want of a token or after its last
\* backoff has been remembered, and its retry is skipped as a repetition.
SentWasPosted == \A m \in confirmed : \E t \in made : board[<<t, m, 1>>] > 0

=============================================================================
