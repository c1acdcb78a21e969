----------------------------- MODULE PartedSend ------------------------------
(***************************************************************************)
(* How the drivers with a webhook send one message.  The text is cut into  *)
(* parts of at most MaxBytes bytes, never inside a character and, if one   *)
(* is late enough, at a line break, whose newlines are dropped; the parts  *)
(* are posted one after the other, and the first that fails ends the send. *)
(* WeChat posts each once.  Discord repeats a part that was refused with   *)
(* 429, while its context lasts.  Telegram sends one part, repeats it too, *)
(* and heeds no context at all.  Whoever called tries the whole message    *)
(* again.                                                                  *)
(***************************************************************************)
EXTENDS Naturals, Sequences, FiniteSets, FiniteSetsExt

CONSTANTS MaxBytes, MaxTries,
          MaxText, MaxAttempts   \* bounds of the model

\* A character is a newline, one byte or three bytes wide.
Newline == 0
Character == {Newline, 1, 3}
Widest == 3

ASSUME PartedAssumption == MaxBytes \in Nat /\ MaxBytes >= Widest /\ MaxTries \in Nat \ {0}

VARIABLES driver,
          text,
          from,       \* where the rest of the text begins
          parts,      \* the first and the last character of each part
          call,       \* the send under way
          attempts,   \* sends that were begun
          shown,      \* the parts that arrived, in their order
          answered    \* a send returned without an error

partedVars == <<driver, text, from, parts, call, attempts, shown, answered>>

Idle0 == [at |-> "idle", part |-> 1, tries |-> 0, ended |-> FALSE]

PartedInit ==
  /\ driver \in {"wechat", "discord", "telegram"}
  /\ text \in UNION {[1..n -> Character] : n \in 1..MaxText}
  /\ from = 1 /\ parts = <<>> /\ call = Idle0
  /\ attempts = 0 /\ shown = <<>> /\ answered = FALSE

Width(i) == IF text[i] = 3 THEN 3 ELSE 1
Bytes(a, b) == Cardinality({x \in (a..b) \X (1..Widest) : x[2] <= Width(x[1])})

\* The cut after a full part, moved back to the last newline if that leaves
\* more than half of it.
Full(a) == Max({b \in a..Len(text) : Bytes(a, b) <= MaxBytes})
Breaks(a) == {i \in a..Full(a) : text[i] = Newline /\ Bytes(a, i - 1) > MaxBytes \div 2}
CutEnd(a) == IF Breaks(a) = {} THEN Full(a) ELSE Max(Breaks(a)) - 1
\* Mutant: the character behind a cut is always taken for a newline.
RestAfterNewline(b) == b + 2
\* TrimLeft drops the newlines the rest begins with.
RestFrom(b) == Min({i \in (b + 1)..Len(text) : text[i] # Newline} \cup {Len(text) + 1})

\* splitWechatText, splitDiscordText: one turn of the loop, or the last part.
SplitText ==
  /\ from <= Len(text) /\ driver # "telegram"
  /\ LET last == IF Bytes(from, Len(text)) > MaxBytes THEN CutEnd(from) ELSE Len(text)
     IN /\ parts' = Append(parts, <<from, last>>)
        /\ from' = IF last = Len(text) THEN Len(text) + 1 ELSE RestFrom(last)
  /\ UNCHANGED <<driver, text, call, attempts, shown, answered>>

\* Telegram clamps the text to its limit.
ClampText ==
  /\ from <= Len(text) /\ driver = "telegram"
  /\ parts' = <<<<1, Full(1)>>>> /\ from' = Len(text) + 1
  /\ UNCHANGED <<driver, text, call, attempts, shown, answered>>

\* Somebody sends the message, for the first time or again.
BeginPost ==
  /\ from > Len(text) /\ call.at = "idle" /\ ~ answered
  /\ attempts < MaxAttempts /\ attempts' = attempts + 1
  /\ call' = [Idle0 EXCEPT !.at = "post"]
  /\ UNCHANGED <<driver, text, from, parts, shown, answered>>

\* The context of the send ends.
EndSendContext == /\ call.at = "post" /\ ~ call.ended /\ call' = [call EXCEPT !.ended = TRUE]
                  /\ UNCHANGED <<driver, text, from, parts, attempts, shown, answered>>

Heeds == driver # "telegram"
Fail == call' = Idle0 /\ UNCHANGED answered

\* A part is accepted; the next one follows.
PostPart ==
  /\ call.at = "post" /\ ~ (Heeds /\ call.ended)
  /\ shown' = Append(shown, call.part)
  /\ IF call.part = Len(parts) THEN call' = Idle0 /\ answered' = TRUE
     ELSE call' = [call EXCEPT !.part = @ + 1, !.tries = 0] /\ UNCHANGED answered
  /\ UNCHANGED <<driver, text, from, parts, attempts>>

\* It is refused with 429: WeChat gives up, the others wait and repeat it.
PostRefused ==
  /\ call.at = "post"
  /\ IF driver = "wechat" \/ call.tries + 1 = MaxTries \/ (Heeds /\ call.ended) THEN Fail
     ELSE call' = [call EXCEPT !.tries = @ + 1] /\ UNCHANGED answered
  /\ UNCHANGED <<driver, text, from, parts, attempts, shown>>

\* The request fails, before or after the part arrived.
PostFails ==
  /\ call.at = "post" /\ Fail
  /\ shown' \in {shown, Append(shown, call.part)}
  /\ UNCHANGED <<driver, text, from, parts, attempts>>

PartedNext == \/ SplitText \/ ClampText
              \/ BeginPost \/ EndSendContext \/ PostPart \/ PostRefused \/ PostFails

PartedSpec == PartedInit /\ [][PartedNext]_partedVars

----------------------------------------------------------------------------
(* Properties.                                                             *)

\* Cutting loses nothing but newlines: the parts follow one another, what is
\* between them is newlines, and no part is empty or too long.
SplitLosesNothing ==
  /\ \A k \in DOMAIN parts : parts[k][1] <= parts[k][2] /\ Bytes(parts[k][1], parts[k][2]) <= MaxBytes
  /\ driver # "telegram" =>
       LET kept == UNION {parts[k][1]..parts[k][2] : k \in DOMAIN parts}
       IN /\ \A k \in 2..Len(parts) : parts[k - 1][2] < parts[k][1]
          /\ \A i \in (1..(from - 1)) \ kept : text[i] = Newline

\* A send that returned without an error has just put the whole message on
\* the board, part after part; and no part is there more often than the
\* message was tried.
ConfirmedIsWhole ==
  /\ answered => /\ Len(shown) >= Len(parts)
                 /\ \A k \in DOMAIN parts : shown[Len(shown) - Len(parts) + k] = k
  /\ \A k \in DOMAIN parts : Cardinality({i \in DOMAIN shown : shown[i] = k}) <= attempts

\* What was sent is what is read.
MessageIsWhole == SplitLosesNothing /\ ConfirmedIsWhole

=============================================================================
