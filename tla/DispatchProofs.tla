--------------------------- MODULE DispatchProofs ---------------------------
(***************************************************************************)
(* What holds of what is sent out beside the two lanes for every value of  *)
(* the constants: the notices of the alerts, the threads of the Discord    *)
(* forum, the parts of a long message, the broadcasts of the chat bots and *)
(* the messages that leave the filters.                                    *)
(***************************************************************************)
EXTENDS MessagePipeline, AlertEngine, DiscordThreads, PartedSend, Subscribers,
        FiniteSetTheorems, WellFoundedInduction, TLAPS

-----------------------------------------------------------------------------
(* The alerts.                                                             *)

\* The goroutines that check an alert.
Firers(a) == IF a \in PriceAlerts THEN {PriceLoop} ELSE NewsCheckers

CheckFields == {"at", "left", "alert"}
Proper(c, r) ==
  /\ r = [x \in CheckFields |-> r[x]]
  /\ \A a \in r.left \cup r.alert : a \in Alerts /\ c \in Firers(a)
  /\ \A a, b \in r.alert : a = b
  /\ r.left \cap r.alert = {}
  /\ r.at \in {"idle", "next"} => r.alert = {}
  /\ r.at = "remove" => r.alert \subseteq OneTime

\* Who has sent a notice of an alert and is not through with it, who is
\* about to send one, and who may yet send one.
Fired(a) == {c \in Checkers : a \in check[c].alert /\ check[c].at \in {"note", "remove"}}
Due(a)   == {c \in Checkers : a \in check[c].alert /\ check[c].at = "notify"}
Owed(a)  == {c \in Checkers : a \in check[c].left \/ (a \in check[c].alert /\ check[c].at = "notify")}

\* While an alert may still be taken up by a check, its notices are those of
\* the checks that are not through with it; after that, there is one check
\* for every notice sent or to be sent.
Tally(a) ==
  IF a \notin active THEN fires[a] + Cardinality(Owed(a)) <= Cardinality(Firers(a))
  ELSE IF a \in OneTime \/ a \notin cooling THEN fires[a] <= Cardinality(Fired(a))
  ELSE fires[a] + Cardinality(Due(a)) <= Cardinality(Firers(a))

ProperChecks == /\ check = [c \in Checkers |-> check[c]]
                /\ \A c \in Checkers : Proper(c, check[c])
FewInv == /\ stored = active /\ active \subseteq Alerts
          /\ ProperChecks /\ fires \in [Alerts -> Nat]
          /\ \A a \in Alerts \ excused : Tally(a)

LEMMA FirersCount ==
  ASSUME NEW a
  PROVE  IsFiniteSet(Firers(a)) /\ Cardinality(Firers(a)) \in Nat
<1>1. IsFiniteSet(Firers(a))  BY AlertAssumption, FS_Singleton DEF Firers
<1> QED  BY <1>1, FS_CardinalityType

LEMMA SetsCount ==
  ASSUME ProperChecks, NEW a \in Alerts
  PROVE  /\ Fired(a) \in SUBSET Firers(a) /\ Due(a) \in SUBSET Firers(a) /\ Owed(a) \in SUBSET Firers(a)
         /\ IsFiniteSet(Fired(a)) /\ IsFiniteSet(Due(a)) /\ IsFiniteSet(Owed(a))
         /\ Cardinality(Fired(a)) \in Nat /\ Cardinality(Due(a)) \in Nat /\ Cardinality(Owed(a)) \in Nat
         /\ Cardinality(Fired(a)) + Cardinality(Due(a)) <= Cardinality(Firers(a))
         /\ Cardinality(Fired(a)) + Cardinality(Owed(a)) <= Cardinality(Firers(a))
<1>1. Fired(a) \in SUBSET Firers(a) /\ Due(a) \in SUBSET Firers(a) /\ Owed(a) \in SUBSET Firers(a)
  BY DEF ProperChecks, Proper, Fired, Due, Owed
<1>2. Fired(a) \cap Owed(a) = {} /\ Fired(a) \cap Due(a) = {}
  BY DEF ProperChecks, Proper, Fired, Due, Owed
<1>3. ASSUME NEW X \in SUBSET Firers(a), NEW Y \in SUBSET Firers(a), X \cap Y = {}
      PROVE  /\ IsFiniteSet(X) /\ IsFiniteSet(Y) /\ Cardinality(X) \in Nat /\ Cardinality(Y) \in Nat
             /\ Cardinality(X) + Cardinality(Y) <= Cardinality(Firers(a))
  <2>1. IsFiniteSet(X) /\ IsFiniteSet(Y)  BY FirersCount, FS_Subset
  <2>2. Cardinality(X) \in Nat /\ Cardinality(Y) \in Nat  BY <2>1, FS_CardinalityType
  <2>3. Cardinality(X \cup Y) = Cardinality(X) + Cardinality(Y)
    BY <1>3, <2>1, <2>2, FS_Union, FS_EmptySet
  <2>4. X \cup Y \in SUBSET Firers(a)  OBVIOUS
  <2>5. Cardinality(X \cup Y) <= Cardinality(Firers(a))  BY <2>4, FirersCount, FS_Subset
  <2> QED  BY <2>1, <2>2, <2>3, <2>5
<1> QED  BY <1>1, <1>2, <1>3

LEMMA TallyBounds ==
  ASSUME ProperChecks, fires \in [Alerts -> Nat], NEW a \in Alerts, Tally(a)
  PROVE  fires[a] \in Nat /\ fires[a] <= Cardinality(Firers(a))
<1>1. fires[a] \in Nat  OBVIOUS
<1> QED  BY <1>1, SetsCount, FirersCount DEF Tally

\* A step that sends no notice of an alert and takes no check away from it.
LEMMA TallyStays ==
  ASSUME ProperChecks, ProperChecks', fires \in [Alerts -> Nat], NEW a \in Alerts, Tally(a),
         fires'[a] = fires[a], a \in active' <=> a \in active,
         a \in active => Fired(a) \subseteq Fired(a)',
         a \in active /\ a \notin OneTime =>
           (a \in cooling' <=> a \in cooling) /\ (a \in cooling => Due(a)' \subseteq Due(a)),
         a \notin active => Owed(a)' \subseteq Owed(a)
  PROVE  Tally(a)'
<1>1. fires[a] \in Nat  OBVIOUS
<1> DEFINE N == Cardinality(Firers(a))
           f == Fired(a)'
           d == Due(a)'
           o == Owed(a)'
<1>2. IsFiniteSet(f) /\ IsFiniteSet(d) /\ IsFiniteSet(o)
      /\ Cardinality(f) \in Nat /\ Cardinality(d) \in Nat /\ Cardinality(o) \in Nat
  <2>1. f \in SUBSET Firers(a) /\ d \in SUBSET Firers(a) /\ o \in SUBSET Firers(a)
    BY DEF ProperChecks, Proper, Fired, Due, Owed
  <2> HIDE DEF f, d, o
  <2>2. IsFiniteSet(f) /\ IsFiniteSet(d) /\ IsFiniteSet(o)  BY <2>1, FirersCount, FS_Subset
  <2> QED  BY <2>2, FS_CardinalityType
<1>3. /\ IsFiniteSet(Due(a)) /\ IsFiniteSet(Owed(a)) /\ Cardinality(Fired(a)) \in Nat
      /\ Cardinality(Due(a)) \in Nat /\ Cardinality(Owed(a)) \in Nat /\ N \in Nat
  BY SetsCount, FirersCount
<1>4. Tally(a)' <=> IF a \notin active' THEN fires'[a] + Cardinality(o) <= N
                    ELSE IF a \in OneTime \/ a \notin cooling' THEN fires'[a] <= Cardinality(f)
                    ELSE fires'[a] + Cardinality(d) <= N
  BY DEF Tally, Firers
<1>5. a \in active => Cardinality(Fired(a)) <= Cardinality(f)
  <2> SUFFICES ASSUME a \in active  PROVE Cardinality(Fired(a)) <= Cardinality(f)  OBVIOUS
  <2>1. Fired(a) \in SUBSET f  OBVIOUS
  <2> QED  BY <1>2, <2>1, FS_Subset
<1>6. a \in active /\ a \notin OneTime /\ a \in cooling => Cardinality(d) <= Cardinality(Due(a))
  <2> SUFFICES ASSUME d \subseteq Due(a)  PROVE Cardinality(d) <= Cardinality(Due(a))  OBVIOUS
  <2>1. d \in SUBSET Due(a)  OBVIOUS
  <2> HIDE DEF d
  <2> QED  BY <1>3, <2>1, FS_Subset
<1>7. a \notin active => Cardinality(o) <= Cardinality(Owed(a))
  <2> SUFFICES ASSUME o \subseteq Owed(a)  PROVE Cardinality(o) <= Cardinality(Owed(a))  OBVIOUS
  <2>1. o \in SUBSET Owed(a)  OBVIOUS
  <2> HIDE DEF o
  <2> QED  BY <1>3, <2>1, FS_Subset
<1> HIDE DEF f, d, o, N
<1>8. Tally(a) <=> IF a \notin active THEN fires[a] + Cardinality(Owed(a)) <= N
                    ELSE IF a \in OneTime \/ a \notin cooling THEN fires[a] <= Cardinality(Fired(a))
                    ELSE fires[a] + Cardinality(Due(a)) <= N
  BY DEF Tally, N
<1>9. CASE a \notin active  BY <1>1, <1>2, <1>3, <1>4, <1>7, <1>8, <1>9
<1>10. CASE a \in active /\ (a \in OneTime \/ a \notin cooling)
  BY <1>1, <1>2, <1>3, <1>4, <1>5, <1>8, <1>10
<1>11. CASE a \in active /\ a \notin OneTime /\ a \in cooling
  BY <1>1, <1>2, <1>3, <1>4, <1>6, <1>8, <1>11
<1> QED  BY <1>9, <1>10, <1>11

\* One check goes on.
LEMMA OneCheck ==
  ASSUME ProperChecks, NEW c \in Checkers, NEW r, Proper(c, r), check' = [check EXCEPT ![c] = r]
  PROVE  /\ ProperChecks' /\ check'[c] = r
         /\ \A d \in Checkers : d # c => check'[d] = check[d]
BY DEF ProperChecks

\* A check that goes on without a notice.
LEMMA QuietCheck ==
  ASSUME FewInv, NEW c \in Checkers, NEW r, Proper(c, r), check' = [check EXCEPT ![c] = r],
         UNCHANGED <<stored, active, cooling, fires, excused>>,
         \A a \in r.left : a \in check[c].left \/ a \in active,
         \A a \in r.alert : \/ a \in check[c].alert /\ r.at = check[c].at
                            \/ r.at = "notify" /\ a \in check[c].left /\ a \notin cooling,
         check[c].at \in {"note", "remove"} => check[c].alert \subseteq r.alert
  PROVE  FewInv'
<1>1. ProperChecks' /\ check'[c] = r /\ \A d \in Checkers : d # c => check'[d] = check[d]
  BY OneCheck DEF FewInv
<1>2. ASSUME NEW a \in Alerts, a \notin excused  PROVE Tally(a)'
  <2>1. Tally(a) /\ ProperChecks /\ fires \in [Alerts -> Nat]  BY <1>2 DEF FewInv
  <2>2. Fired(a) \subseteq Fired(a)'
    <3> SUFFICES ASSUME NEW d \in Fired(a)  PROVE d \in Fired(a)'  OBVIOUS
    <3>1. CASE d # c  BY <1>1, <3>1 DEF Fired
    <3>2. CASE d = c  BY <1>1, <2>1, <3>2 DEF Fired, ProperChecks, Proper
    <3> QED  BY <3>1, <3>2
  <2>3. a \in cooling => Due(a)' \subseteq Due(a)
    <3> SUFFICES ASSUME a \in cooling, NEW d \in Due(a)'  PROVE d \in Due(a)  OBVIOUS
    <3>1. CASE d # c  BY <1>1, <3>1 DEF Due
    <3>2. CASE d = c  BY <1>1, <3>2 DEF Due
    <3> QED  BY <3>1, <3>2
  <2>4. a \notin active => Owed(a)' \subseteq Owed(a)
    <3> SUFFICES ASSUME a \notin active, NEW d \in Owed(a)'  PROVE d \in Owed(a)  OBVIOUS
    <3>1. CASE d # c  BY <1>1, <3>1 DEF Owed
    <3>2. CASE d = c  BY <1>1, <3>2 DEF Owed
    <3> QED  BY <3>1, <3>2
  <2> QED  BY <1>1, <2>1, <2>2, <2>3, <2>4, TallyStays
<1> QED  BY <1>1, <1>2 DEF FewInv

\* No check is touched, and the alert may only have cooled down.
LEMMA QuietTally ==
  ASSUME ProperChecks, fires \in [Alerts -> Nat], NEW a \in Alerts, Tally(a),
         check' = check, fires'[a] = fires[a], a \in active' <=> a \in active,
         a \in active /\ a \notin OneTime => (a \in cooling' <=> a \in cooling)
  PROVE  Tally(a)'
<1>1. ProperChecks'  BY DEF ProperChecks
<1>2. Fired(a)' = Fired(a) /\ Due(a)' = Due(a) /\ Owed(a)' = Owed(a)  BY DEF Fired, Due, Owed
<1> QED  BY <1>1, <1>2, TallyStays

LEMMA CreateKeepsFew ==
  ASSUME FewInv, NEW b \in Alerts, CreateAlert(b)  PROVE FewInv'
<1>1. UNCHANGED <<check, fires, excused, cooling>>  BY DEF CreateAlert
<1>2. stored' = active' /\ active' \subseteq Alerts  BY DEF CreateAlert, FewInv
<1>3. ASSUME NEW a \in Alerts, a \notin excused  PROVE Tally(a)'
  <2>1. Tally(a) /\ ProperChecks /\ fires \in [Alerts -> Nat]  BY <1>3 DEF FewInv
  <2>2. CASE a \in active' <=> a \in active  BY <1>1, <2>1, <2>2, QuietTally
  <2>3. CASE ~ (a \in active' <=> a \in active)
    <3>1. a = b /\ fires[a] = 0  BY <2>3 DEF CreateAlert
    <3>2. Fired(a)' = Fired(a) /\ Due(a)' = Due(a) /\ Owed(a)' = Owed(a)  BY <1>1 DEF Fired, Due, Owed
    <3>3. fires'[a] = 0 /\ fires'[a] + Cardinality(Due(a)') <= Cardinality(Firers(a))
          /\ fires'[a] + Cardinality(Owed(a)') <= Cardinality(Firers(a)) /\ fires'[a] <= Cardinality(Fired(a)')
      BY <1>1, <2>1, <3>1, <3>2, SetsCount, FirersCount
    <3> QED  BY <3>3 DEF Tally, Firers
  <2> QED  BY <2>2, <2>3
<1>4. ProperChecks'  BY <1>1 DEF FewInv, ProperChecks
<1> QED  BY <1>1, <1>2, <1>3, <1>4 DEF FewInv

LEMMA RemoveKeepsFew ==
  ASSUME FewInv, NEW b \in Alerts, RemoveAlert(b)  PROVE FewInv'
<1>1. UNCHANGED <<check, fires>>  BY DEF RemoveAlert
<1>2. stored' = active' /\ active' = active \ {b} /\ cooling' = cooling \ {b} /\ excused \subseteq excused'
  BY DEF RemoveAlert, Removed, FewInv
<1>3. ASSUME NEW a \in Alerts, a \notin excused'  PROVE Tally(a)'
  <2>1. Tally(a) /\ ProperChecks /\ fires \in [Alerts -> Nat]  BY <1>2, <1>3 DEF FewInv
  <2>2. CASE a # b  BY <1>1, <1>2, <2>1, <2>2, QuietTally
  <2>3. CASE a = b
    <3>1. \A c \in Checkers : a \notin check[c].left \cup check[c].alert  BY <1>3, <2>3 DEF RemoveAlert
    <3>2. Owed(a)' = {}  BY <1>1, <3>1 DEF Owed
    <3>3. a \notin active'  BY <1>2, <2>3
    <3>4. fires'[a] \in Nat /\ fires'[a] <= Cardinality(Firers(a))  BY <1>1, <2>1, TallyBounds
    <3>5. fires'[a] + Cardinality(Owed(a)') <= Cardinality(Firers(a))  BY <3>2, <3>4, FS_EmptySet
    <3> QED  BY <3>3, <3>5 DEF Tally, Firers
  <2> QED  BY <2>2, <2>3
<1>4. ProperChecks'  BY <1>1 DEF FewInv, ProperChecks
<1>5. active' \subseteq Alerts /\ fires' \in [Alerts -> Nat]  BY <1>1, <1>2 DEF FewInv
<1> QED  BY <1>2, <1>3, <1>4, <1>5 DEF FewInv

LEMMA CooldownKeepsFew ==
  ASSUME FewInv, NEW b \in Alerts, CooldownEnds(b)  PROVE FewInv'
<1>1. UNCHANGED <<stored, active, check, excused>> /\ cooling' = cooling \ {b}  BY DEF CooldownEnds
<1>2. fires' = IF b \in OneTime THEN fires ELSE [fires EXCEPT ![b] = 0]  BY DEF CooldownEnds
<1>3. ASSUME NEW a \in Alerts, a \notin excused  PROVE Tally(a)'
  <2>1. Tally(a) /\ ProperChecks /\ fires \in [Alerts -> Nat]  BY <1>3 DEF FewInv
  <2>2. CASE a # b \/ b \in OneTime
    <3>1. fires'[a] = fires[a]  BY <1>2, <2>1, <2>2
    <3> QED  BY <1>1, <2>1, <2>2, <3>1, QuietTally
  <2>3. CASE a = b /\ b \notin OneTime
    <3>1. fires'[a] = 0 /\ a \notin cooling'  BY <1>1, <1>2, <2>1, <2>3
    <3>2. Fired(a)' = Fired(a) /\ Owed(a)' = Owed(a)  BY <1>1 DEF Fired, Owed
    <3>3. fires'[a] + Cardinality(Owed(a)') <= Cardinality(Firers(a)) /\ fires'[a] <= Cardinality(Fired(a)')
      BY <2>1, <3>1, <3>2, SetsCount, FirersCount
    <3> QED  BY <3>1, <3>3 DEF Tally, Firers
  <2> QED  BY <2>2, <2>3
<1>4. fires' \in [Alerts -> Nat]  BY <1>2 DEF FewInv
<1>5. ProperChecks'  BY <1>1 DEF FewInv, ProperChecks
<1> QED  BY <1>1, <1>3, <1>4, <1>5 DEF FewInv

LEMMA BeginKeepsFew ==
  ASSUME FewInv, NEW c \in Checkers, BeginCheck(c)  PROVE FewInv'
<1>1. PICK r : r = [check[c] EXCEPT !.at = "next", !.left =
                      active \cap (IF c = PriceLoop THEN PriceAlerts ELSE NewsAlerts)]
  OBVIOUS
<1>2. check[c] = [x \in CheckFields |-> check[c][x]] /\ check[c].alert = {} /\ check = [d \in Checkers |-> check[d]]
  BY DEF BeginCheck, FewInv, ProperChecks, Proper
<1>3. /\ r = [x \in CheckFields |-> r[x]] /\ r.at = "next" /\ r.alert = {}
      /\ r.left = active \cap (IF c = PriceLoop THEN PriceAlerts ELSE NewsAlerts)
  BY <1>1, <1>2 DEF CheckFields
<1>4. check' = [check EXCEPT ![c] = r]  BY <1>1, <1>2, Zenon DEF BeginCheck
<1>5. Proper(c, r)  BY <1>3, AlertAssumption DEF Proper, Firers, Checkers, Alerts, FewInv
<1>6. check[c].at \notin {"note", "remove"}  BY DEF BeginCheck
<1>7. UNCHANGED <<stored, active, cooling, fires, excused>>  BY DEF BeginCheck
<1> QED  BY <1>3, <1>4, <1>5, <1>6, <1>7, QuietCheck

LEMMA DecideKeepsFew ==
  ASSUME FewInv, NEW c \in Checkers, NEW b \in Alerts, Decide(c, b)  PROVE FewInv'
<1>1. check[c] = [x \in CheckFields |-> check[c][x]] /\ check = [d \in Checkers |-> check[d]]
      /\ check[c].alert = {} /\ check[c].at = "next" /\ b \in check[c].left /\ Proper(c, check[c])
  BY DEF Decide, FewInv, ProperChecks, Proper
<1>2. UNCHANGED <<stored, active, cooling, fires, excused>>  BY DEF Decide
<1>3. CASE check' = [check EXCEPT ![c].left = @ \ {b}]
  <2>1. PICK r : r = [check[c] EXCEPT !.left = @ \ {b}]  OBVIOUS
  <2>2. check' = [check EXCEPT ![c] = r]  BY <1>1, <1>3, <2>1, Zenon
  <2>3. r = [x \in CheckFields |-> r[x]] /\ r.at = "next" /\ r.alert = {} /\ r.left = check[c].left \ {b}
    BY <1>1, <2>1 DEF CheckFields
  <2>4. Proper(c, r)  BY <1>1, <2>3 DEF Proper
  <2> QED  BY <1>1, <1>2, <2>2, <2>3, <2>4, QuietCheck
<1>4. CASE /\ b \notin cooling
           /\ check' = [check EXCEPT ![c] = [at |-> "notify", left |-> @.left \ {b}, alert |-> {b}]]
  <2>1. PICK r : r = [at |-> "notify", left |-> check[c].left \ {b}, alert |-> {b}]  OBVIOUS
  <2>2. check' = [check EXCEPT ![c] = r]  BY <1>1, <1>4, <2>1, Zenon
  <2>3. r = [x \in CheckFields |-> r[x]] /\ r.at = "notify" /\ r.alert = {b} /\ r.left = check[c].left \ {b}
    BY <2>1 DEF CheckFields
  <2>4. Proper(c, r)  BY <1>1, <2>3 DEF Proper
  <2> QED  BY <1>1, <1>2, <1>4, <2>2, <2>3, <2>4, QuietCheck
<1> QED  BY <1>3, <1>4 DEF Decide

LEMMA EndKeepsFew ==
  ASSUME FewInv, NEW c \in Checkers, EndCheck(c)  PROVE FewInv'
<1>1. NoCheck = [x \in CheckFields |-> NoCheck[x]] /\ NoCheck.left = {} /\ NoCheck.alert = {} /\ NoCheck.at = "idle"
  BY DEF NoCheck, CheckFields
<1>2. Proper(c, NoCheck)  BY <1>1 DEF Proper
<1>3. /\ check' = [check EXCEPT ![c] = NoCheck] /\ check[c].at = "next"
      /\ UNCHANGED <<stored, active, cooling, fires, excused>>
  BY DEF EndCheck
<1> QED  BY <1>1, <1>2, <1>3, QuietCheck

\* The notice is sent by a check that was due to send it.
LEMMA NotifyKeepsFew ==
  ASSUME FewInv, NEW c \in Checkers, NotifyUser(c)  PROVE FewInv'
<1>1. PICK r : r = [check[c] EXCEPT !.at = "note"]  OBVIOUS
<1>2. check[c] = [x \in CheckFields |-> check[c][x]] /\ check = [d \in Checkers |-> check[d]]
      /\ check[c].at = "notify" /\ Proper(c, check[c]) /\ ProperChecks /\ fires \in [Alerts -> Nat]
  BY DEF NotifyUser, FewInv, ProperChecks, Proper
<1>3. check' = [check EXCEPT ![c] = r]  BY <1>1, <1>2, Zenon DEF NotifyUser
<1>4. r = [x \in CheckFields |-> r[x]] /\ r.at = "note" /\ r.alert = check[c].alert /\ r.left = check[c].left
  BY <1>1, <1>2 DEF CheckFields
<1>5. Proper(c, r)  BY <1>2, <1>4 DEF Proper
<1>6. ProperChecks' /\ check'[c] = r /\ \A d \in Checkers : d # c => check'[d] = check[d]
  BY <1>2, <1>3, <1>5, OneCheck
<1>7. UNCHANGED <<stored, active, cooling, excused>>  BY DEF NotifyUser
<1>8. fires' = [a \in Alerts |-> IF a \in check[c].alert THEN fires[a] + 1 ELSE fires[a]]
  BY DEF NotifyUser
<1>9. fires' \in [Alerts -> Nat]  BY <1>2, <1>8
<1>10. ASSUME NEW a \in Alerts, a \notin excused  PROVE Tally(a)'
  <2>1. Tally(a)  BY <1>10 DEF FewInv
  <2>2. CASE a \notin check[c].alert
    <3>1. fires'[a] = fires[a]  BY <1>8, <2>2
    <3>2. Fired(a)' = Fired(a) /\ Due(a)' = Due(a) /\ Owed(a)' = Owed(a)
      BY <1>4, <1>6, <2>2 DEF Fired, Due, Owed
    <3> QED  BY <1>2, <1>6, <1>7, <2>1, <3>1, <3>2, TallyStays
  <2>3. CASE a \in check[c].alert
    <3>1. fires'[a] = fires[a] + 1 /\ fires[a] \in Nat  BY <1>2, <1>8, <2>3
    <3>2. a \notin check[c].left  BY <1>2, <2>3 DEF Proper
    <3>3. Fired(a)' = Fired(a) \cup {c} /\ c \notin Fired(a)
      BY <1>2, <1>4, <1>6, <2>3 DEF Fired
    <3>4. Due(a)' = Due(a) \ {c} /\ c \in Due(a)
      BY <1>2, <1>4, <1>6, <2>3 DEF Due
    <3>5. Owed(a)' = Owed(a) \ {c} /\ c \in Owed(a)
      BY <1>2, <1>4, <1>6, <2>3, <3>2 DEF Owed
    <3>6. /\ Cardinality(Fired(a)') = Cardinality(Fired(a)) + 1
          /\ Cardinality(Due(a)') = Cardinality(Due(a)) - 1
          /\ Cardinality(Owed(a)') = Cardinality(Owed(a)) - 1
      <4>1. IsFiniteSet(Fired(a)) /\ IsFiniteSet(Due(a)) /\ IsFiniteSet(Owed(a))  BY <1>2, SetsCount
      <4>2. Cardinality(Fired(a) \cup {c}) = Cardinality(Fired(a)) + 1  BY <3>3, <4>1, FS_AddElement
      <4>3. Cardinality(Due(a) \ {c}) = Cardinality(Due(a)) - 1  BY <3>4, <4>1, FS_RemoveElement
      <4>4. Cardinality(Owed(a) \ {c}) = Cardinality(Owed(a)) - 1  BY <3>5, <4>1, FS_RemoveElement
      <4> QED  BY <3>3, <3>4, <3>5, <4>2, <4>3, <4>4
    <3>7. /\ Cardinality(Fired(a)) \in Nat /\ Cardinality(Due(a)) \in Nat /\ Cardinality(Owed(a)) \in Nat
          /\ Cardinality(Firers(a)) \in Nat
      BY <1>2, SetsCount, FirersCount
    <3>8. CASE a \notin active
      <4>1. fires'[a] + Cardinality(Owed(a)') <= Cardinality(Firers(a))
        BY <2>1, <3>1, <3>6, <3>7, <3>8 DEF Tally
      <4> QED  BY <1>7, <3>8, <4>1 DEF Tally, Firers
    <3>9. CASE a \in active /\ (a \in OneTime \/ a \notin cooling)
      <4>1. fires'[a] <= Cardinality(Fired(a)')  BY <2>1, <3>1, <3>6, <3>7, <3>9 DEF Tally
      <4> QED  BY <1>7, <3>9, <4>1 DEF Tally, Firers
    <3>10. CASE a \in active /\ a \notin OneTime /\ a \in cooling
      <4>1. fires'[a] + Cardinality(Due(a)') <= Cardinality(Firers(a))
        BY <2>1, <3>1, <3>6, <3>7, <3>10 DEF Tally
      <4> QED  BY <1>7, <3>10, <4>1 DEF Tally, Firers
    <3> QED  BY <3>8, <3>9, <3>10
  <2> QED  BY <2>2, <2>3
<1> QED  BY <1>6, <1>7, <1>9, <1>10 DEF FewInv

\* A repeated alert has cooled down from here on; one for one time is to be
\* removed.
LEMMA NoteKeepsFew ==
  ASSUME FewInv, NEW c \in Checkers, NoteTrigger(c)  PROVE FewInv'
<1>1. check[c] = [x \in CheckFields |-> check[c][x]] /\ check = [d \in Checkers |-> check[d]]
      /\ check[c].at = "note" /\ Proper(c, check[c]) /\ ProperChecks /\ fires \in [Alerts -> Nat]
  BY DEF NoteTrigger, FewInv, ProperChecks, Proper
<1>2. UNCHANGED <<stored, active, fires, excused>> /\ cooling' = cooling \cup check[c].alert
  BY DEF NoteTrigger, Triggered
<1>3. CASE check[c].alert \subseteq OneTime
  <2>1. PICK r : r = [check[c] EXCEPT !.at = "remove"]  OBVIOUS
  <2>2. check' = [check EXCEPT ![c] = r]  BY <1>1, <1>3, <2>1, Zenon DEF NoteTrigger
  <2>3. r = [x \in CheckFields |-> r[x]] /\ r.at = "remove" /\ r.alert = check[c].alert /\ r.left = check[c].left
    BY <1>1, <2>1 DEF CheckFields
  <2>4. Proper(c, r)  BY <1>1, <1>3, <2>3 DEF Proper
  <2>5. ProperChecks' /\ check'[c] = r /\ \A d \in Checkers : d # c => check'[d] = check[d]
    BY <1>1, <2>2, <2>4, OneCheck
  <2>6. ASSUME NEW a \in Alerts, a \notin excused  PROVE Tally(a)'
    <3>1. Tally(a)  BY <2>6 DEF FewInv
    <3>2. Fired(a)' = Fired(a)  BY <1>1, <2>3, <2>5 DEF Fired
    <3>3. Due(a)' = Due(a)  BY <1>1, <2>3, <2>5 DEF Due
    <3>4. Owed(a)' = Owed(a)  BY <1>1, <2>3, <2>5 DEF Owed
    <3>5. a \notin OneTime => (a \in cooling' <=> a \in cooling)  BY <1>2, <1>3
    <3> QED  BY <1>1, <1>2, <2>5, <3>1, <3>2, <3>3, <3>4, <3>5, TallyStays
  <2> QED  BY <1>2, <2>5, <2>6 DEF FewInv
<1>4. CASE ~ (check[c].alert \subseteq OneTime)
  <2>1. PICK r : r = [check[c] EXCEPT !.at = "next", !.alert = {}]  OBVIOUS
  <2>2. check' = [check EXCEPT ![c] = r]  BY <1>1, <1>4, <2>1, Zenon DEF NoteTrigger
  <2>3. r = [x \in CheckFields |-> r[x]] /\ r.at = "next" /\ r.alert = {} /\ r.left = check[c].left
    BY <1>1, <2>1 DEF CheckFields
  <2>4. Proper(c, r)  BY <1>1, <2>3 DEF Proper
  <2>5. ProperChecks' /\ check'[c] = r /\ \A d \in Checkers : d # c => check'[d] = check[d]
    BY <1>1, <2>2, <2>4, OneCheck
  <2>6. ASSUME NEW a \in Alerts, a \notin excused  PROVE Tally(a)'
    <3>1. Tally(a)  BY <2>6 DEF FewInv
    <3>2. Due(a)' = Due(a)  BY <1>1, <2>3, <2>5 DEF Due
    <3>3. Owed(a)' = Owed(a)  BY <1>1, <2>3, <2>5 DEF Owed
    <3>4. CASE a \notin check[c].alert
      <4>1. Fired(a)' = Fired(a)  BY <1>1, <2>3, <2>5, <3>4 DEF Fired
      <4>2. a \in cooling' <=> a \in cooling  BY <1>2, <3>4
      <4> QED  BY <1>1, <1>2, <2>5, <3>1, <3>2, <3>3, <4>1, <4>2, TallyStays
    <3>5. CASE a \in check[c].alert
      <4>1. a \notin OneTime /\ a \in cooling'  BY <1>1, <1>2, <1>4, <3>5 DEF Proper
      <4>2. CASE a \notin active
        <5>1. fires'[a] + Cardinality(Owed(a)') <= Cardinality(Firers(a))  BY <1>2, <3>1, <3>3, <4>2 DEF Tally
        <5> QED  BY <1>2, <4>2, <5>1 DEF Tally, Firers
      <4>3. CASE a \in active
        <5>1. fires[a] + Cardinality(Due(a)) <= Cardinality(Firers(a))
          <6>1. fires[a] \in Nat  BY <1>1
          <6>2. CASE a \notin cooling  BY <1>1, <3>1, <4>1, <4>3, <6>1, <6>2, SetsCount, FirersCount DEF Tally
          <6>3. CASE a \in cooling  BY <3>1, <4>1, <4>3, <6>3 DEF Tally
          <6> QED  BY <6>2, <6>3
        <5>2. fires'[a] + Cardinality(Due(a)') <= Cardinality(Firers(a))  BY <1>2, <3>2, <5>1
        <5> QED  BY <1>2, <4>1, <4>3, <5>2 DEF Tally, Firers
      <4> QED  BY <4>2, <4>3
    <3> QED  BY <3>4, <3>5
  <2> QED  BY <1>2, <2>5, <2>6 DEF FewInv
<1> QED  BY <1>3, <1>4

\* An alert for one time is gone when its check is through with it.
LEMMA RemoveFiredKeepsFew ==
  ASSUME FewInv, NEW c \in Checkers, RemoveFired(c)  PROVE FewInv'
<1>1. check[c] = [x \in CheckFields |-> check[c][x]] /\ check = [d \in Checkers |-> check[d]]
      /\ check[c].at = "remove" /\ Proper(c, check[c]) /\ ProperChecks /\ fires \in [Alerts -> Nat]
  BY DEF RemoveFired, FewInv, ProperChecks, Proper
<1>2. PICK r : r = [check[c] EXCEPT !.at = "next", !.alert = {}]  OBVIOUS
<1>3. check' = [check EXCEPT ![c] = r]  BY <1>1, <1>2, Zenon DEF RemoveFired
<1>4. r = [x \in CheckFields |-> r[x]] /\ r.at = "next" /\ r.alert = {} /\ r.left = check[c].left
  BY <1>1, <1>2 DEF CheckFields
<1>5. Proper(c, r)  BY <1>1, <1>4 DEF Proper
<1>6. ProperChecks' /\ check'[c] = r /\ \A d \in Checkers : d # c => check'[d] = check[d]
  BY <1>1, <1>3, <1>5, OneCheck
<1>7. /\ fires' = fires /\ stored' = active' /\ excused \subseteq excused'
      /\ active' \subseteq active
      /\ \A a \in Alerts \ check[c].alert : /\ a \in active' <=> a \in active
                                            /\ a \in cooling' <=> a \in cooling
  BY <1>1 DEF RemoveFired, Removed, FewInv, Proper
<1>8. ASSUME NEW a \in Alerts, a \notin excused'  PROVE Tally(a)'
  <2>1. Tally(a)  BY <1>7, <1>8 DEF FewInv
  <2>2. Due(a)' = Due(a)  BY <1>1, <1>4, <1>6 DEF Due
  <2>3. Owed(a)' = Owed(a)  BY <1>1, <1>4, <1>6 DEF Owed
  <2>4. CASE a \notin check[c].alert
    <3>1. Fired(a)' = Fired(a)  BY <1>1, <1>4, <1>6, <2>4 DEF Fired
    <3>2. (a \in active' <=> a \in active) /\ (a \in cooling' <=> a \in cooling)  BY <1>7, <2>4
    <3> QED  BY <1>1, <1>6, <1>7, <2>1, <2>2, <2>3, <3>1, <3>2, TallyStays
  <2>5. CASE a \in check[c].alert
    <3>1. a \in OneTime /\ \A b \in check[c].alert : b = a  BY <1>1, <2>5 DEF Proper
    <3>2. a \notin active'
      <4>1. CASE \E b \in check[c].alert \cap active : Removed(b)  BY <3>1, <4>1 DEF Removed
      <4>2. CASE check[c].alert \cap active = {} /\ UNCHANGED active  BY <2>5, <4>2
      <4>3. CASE excused' = excused \cup check[c].alert  BY <1>8, <2>5, <4>3
      <4> QED  BY <4>1, <4>2, <4>3 DEF RemoveFired
    <3>3. fires[a] \in Nat /\ fires[a] + Cardinality(Owed(a)) <= Cardinality(Firers(a))
      <4>1. fires[a] \in Nat  BY <1>1
      <4>2. CASE a \in active  BY <1>1, <2>1, <3>1, <4>1, <4>2, SetsCount, FirersCount DEF Tally
      <4>3. CASE a \notin active  BY <2>1, <4>1, <4>3 DEF Tally
      <4> QED  BY <4>1, <4>2, <4>3
    <3>4. fires'[a] + Cardinality(Owed(a)') <= Cardinality(Firers(a))  BY <1>7, <2>3, <3>3
    <3> QED  BY <3>2, <3>4 DEF Tally, Firers
  <2> QED  BY <2>4, <2>5
<1>9. active' \subseteq Alerts /\ fires' \in [Alerts -> Nat]  BY <1>7 DEF FewInv
<1> QED  BY <1>6, <1>7, <1>8, <1>9 DEF FewInv

\* A restart ends the checks; what they held and what was cooling is excused.
LEMMA RestartKeepsFew ==
  ASSUME FewInv, RestartEngine  PROVE FewInv'
<1>1. /\ check' = [c \in Checkers |-> NoCheck] /\ cooling' = {} /\ fires' = fires
      /\ active' = active \ expired /\ stored' = active'
      /\ excused' = excused \cup cooling \cup UNION {check[c].alert : c \in Checkers}
  BY DEF RestartEngine, FewInv
<1>2. NoCheck = [x \in CheckFields |-> NoCheck[x]] /\ NoCheck.left = {} /\ NoCheck.alert = {} /\ NoCheck.at = "idle"
  BY DEF NoCheck, CheckFields
<1>3. ProperChecks'  BY <1>1, <1>2 DEF ProperChecks, Proper
<1>4. ASSUME NEW a \in Alerts, a \notin excused'  PROVE Tally(a)'
  <2>1. Tally(a) /\ ProperChecks /\ fires \in [Alerts -> Nat]  BY <1>1, <1>4 DEF FewInv
  <2>2. Fired(a)' = {} /\ Owed(a)' = {}  BY <1>1, <1>2 DEF Fired, Owed
  <2>3. Fired(a) = {} /\ a \notin cooling  BY <1>1, <1>4 DEF Fired
  <2>4. fires[a] \in Nat /\ fires[a] <= Cardinality(Firers(a)) /\ Cardinality(Firers(a)) \in Nat
    BY <2>1, TallyBounds, FirersCount
  <2>5. a \notin active' => fires'[a] + Cardinality(Owed(a)') <= Cardinality(Firers(a))
    BY <1>1, <2>2, <2>4, FS_EmptySet
  <2>6. a \in active' => fires'[a] <= Cardinality(Fired(a)')
    BY <1>1, <2>1, <2>2, <2>3 DEF Tally
  <2> QED  BY <1>1, <2>5, <2>6 DEF Tally, Firers
<1>5. active' \subseteq Alerts /\ fires' \in [Alerts -> Nat]  BY <1>1 DEF FewInv
<1> QED  BY <1>1, <1>3, <1>4, <1>5 DEF FewInv

LEMMA StillKeepsFew ==
  ASSUME FewInv, UNCHANGED <<stored, active, cooling, check, fires, excused>>  PROVE FewInv'
<1>1. ASSUME NEW a \in Alerts, a \notin excused  PROVE Tally(a)'
  <2>1. Tally(a) /\ ProperChecks /\ fires \in [Alerts -> Nat]  BY <1>1 DEF FewInv
  <2> QED  BY <2>1, QuietTally
<1>2. ProperChecks'  BY DEF FewInv, ProperChecks
<1> QED  BY <1>1, <1>2 DEF FewInv

LEMMA AlertStep == FewInv /\ [AlertNext]_alertVars => FewInv'
<1> SUFFICES ASSUME FewInv, [AlertNext]_alertVars  PROVE FewInv'
  OBVIOUS
<1>1. ASSUME NEW a \in Alerts, CreateAlert(a) \/ RemoveAlert(a) \/ CooldownEnds(a) \/ Expire(a)
      PROVE  FewInv'
  BY <1>1, CreateKeepsFew, RemoveKeepsFew, CooldownKeepsFew, StillKeepsFew DEF Expire
<1>2. ASSUME NEW c \in Checkers,
             \/ BeginCheck(c) \/ EndCheck(c) \/ NotifyUser(c) \/ NoteTrigger(c) \/ RemoveFired(c)
             \/ \E a \in Alerts : Decide(c, a)
      PROVE  FewInv'
  BY <1>2, BeginKeepsFew, EndKeepsFew, NotifyKeepsFew, NoteKeepsFew, RemoveFiredKeepsFew, DecideKeepsFew
<1>3. CASE UNCHANGED alertVars  BY <1>3, StillKeepsFew DEF alertVars
<1> QED  BY <1>1, <1>2, <1>3, RestartKeepsFew DEF AlertNext

\* For any number of goroutines that have news: an alert sends at most one
\* notice in its cooldown for each goroutine that checks it, and one for one
\* time at most one for each in all (engine.go: CheckNewsAlert, triggerAlert).
THEOREM AlertsFireSparingly == AlertSpec => []FiresAreFew
<1>1. AlertInit => FewInv
  <2> SUFFICES ASSUME AlertInit  PROVE FewInv  OBVIOUS
  <2>1. NoCheck = [x \in CheckFields |-> NoCheck[x]] /\ NoCheck.left = {} /\ NoCheck.alert = {} /\ NoCheck.at = "idle"
    BY DEF NoCheck, CheckFields
  <2>2. ProperChecks  BY <2>1 DEF AlertInit, ProperChecks, Proper
  <2>3. ASSUME NEW a \in Alerts  PROVE Tally(a)
    <3>1. Owed(a) = {} /\ fires[a] = 0 /\ a \notin active  BY <2>1 DEF AlertInit, Owed
    <3>2. fires[a] + Cardinality(Owed(a)) <= Cardinality(Firers(a))  BY <3>1, FS_EmptySet, FirersCount
    <3> QED  BY <3>1, <3>2 DEF Tally
  <2> QED  BY <2>2, <2>3 DEF AlertInit, FewInv
<1>2. FewInv => FiresAreFew
  <2> SUFFICES ASSUME FewInv, NEW a \in Alerts \ excused
               PROVE  fires[a] <= (IF a \in PriceAlerts THEN 1 ELSE Cardinality(NewsCheckers))
    BY DEF FiresAreFew
  <2>1. fires[a] <= Cardinality(Firers(a))  BY TallyBounds DEF FewInv
  <2> QED  BY <2>1, FS_Singleton DEF Firers
<1> QED  BY <1>1, <1>2, AlertStep, PTL DEF AlertSpec

-----------------------------------------------------------------------------
(* The forum of the Discord bot.                                           *)

SendFields == {"at", "msg", "to", "tries"}
\* A send that creates a thread, and one that is about to append the first
\* part of m to t.
Creating == {p \in Senders : send[p].at \in {"create", "create rest"}}
Appending(p, t, m) ==
  send[p].at \in {"limit", "append", "backoff"} /\ send[p].to = t /\ send[p].msg = m
Entry(t, m) == [to |-> t, msg |-> m]

ForumShape ==
  /\ thread \in [id : Nat, fresh : BOOLEAN] /\ (thread.id = 0 <=> made = {})
  /\ thread.id = 0 => ~ thread.fresh
  /\ stale \in Nat
  /\ IsFiniteSet(made) /\ made = 1..Cardinality(made) /\ made \subseteq 1..MaxThreads
  /\ send = [p \in Senders |-> send[p]]
  /\ \A p \in Senders :
       /\ send[p] = [x \in SendFields |-> send[p][x]]
       /\ send[p].at # "idle" => send[p].msg \in Posts
       /\ send[p].at \in {"check", "limit", "append", "backoff", "rest"} => send[p].to \in made
  /\ thread.id \in made \cup {0}
  /\ board \in [(1..MaxThreads) \X Posts \X Part -> Nat]

\* What the deduplication of a thread remembers is in it, or one sender is
\* about to append it, or nobody any more; what it does not is neither.
FirstPartClaims ==
  \A t \in 1..MaxThreads, m \in Posts : m \notin unclear =>
    /\ Entry(t, m) \notin noted =>
         board[<<t, m, 1>>] = 0 /\ \A p \in Senders : ~ Appending(p, t, m)
    /\ board[<<t, m, 1>>] <= 1
    /\ \A p \in Senders : Appending(p, t, m) => board[<<t, m, 1>>] = 0
    /\ \A p, q \in Senders : Appending(p, t, m) /\ Appending(q, t, m) => p = q

\* The threads made, and those being made while the pool knows of one that
\* is young enough.
ThreadsCounted ==
  IF thread.fresh THEN Cardinality(made) + Cardinality(Creating) <= (stale + 1) * Cardinality(Senders)
  ELSE Cardinality(made) <= stale * Cardinality(Senders)

DiscordInv == ForumShape /\ FirstPartClaims /\ ThreadsCounted

LEMMA CreatorsCount ==
  /\ Cardinality(Senders) \in Nat /\ Cardinality(Creating) \in Nat
  /\ IsFiniteSet(Creating) /\ Cardinality(Creating) <= Cardinality(Senders)
<1>1. IsFiniteSet(Senders) /\ Creating \subseteq Senders  BY DiscordAssumption DEF Creating
<1> QED  BY <1>1, FS_Subset, FS_CardinalityType

\* One send goes on to r.
LEMMA OneSend ==
  ASSUME ForumShape, NEW p \in Senders, NEW r, send' = [send EXCEPT ![p] = r],
         r = [x \in SendFields |-> r[x]], r.at # "idle" => r.msg \in Posts,
         r.at \in {"check", "limit", "append", "backoff", "rest"} => r.to \in made',
         made \subseteq made'
  PROVE  /\ send' = [q \in Senders |-> send'[q]]
         /\ send'[p] = r /\ \A q \in Senders \ {p} : send'[q] = send[q]
         /\ \A q \in Senders :
              /\ send'[q] = [x \in SendFields |-> send'[q][x]]
              /\ send'[q].at # "idle" => send'[q].msg \in Posts
              /\ send'[q].at \in {"check", "limit", "append", "backoff", "rest"} => send'[q].to \in made'
<1>1. send = [q \in Senders |-> send[q]]  BY DEF ForumShape
<1>2. /\ send' = [q \in Senders |-> send'[q]]
      /\ send'[p] = r /\ \A q \in Senders \ {p} : send'[q] = send[q]
  BY <1>1
<1>3. ASSUME NEW q \in Senders
      PROVE /\ send'[q] = [x \in SendFields |-> send'[q][x]]
            /\ send'[q].at # "idle" => send'[q].msg \in Posts
            /\ send'[q].at \in {"check", "limit", "append", "backoff", "rest"} => send'[q].to \in made'
  <2>1. CASE q = p  BY <1>2, <2>1
  <2>2. CASE q # p
    <3>1. PICK s : s = send[q]  OBVIOUS
    <3>2. /\ s = [x \in SendFields |-> s[x]] /\ (s.at # "idle" => s.msg \in Posts)
          /\ s.at \in {"check", "limit", "append", "backoff", "rest"} => s.to \in made
      BY <3>1 DEF ForumShape
    <3>3. send'[q] = s  BY <1>2, <2>2, <3>1
    <3> QED  BY <3>2, <3>3
  <2> QED  BY <2>1, <2>2
<1> QED  BY <1>2, <1>3

\* A part of a message arrives in a thread.
LEMMA Posted ==
  ASSUME NEW g \in [(1..MaxThreads) \X Posts \X Part -> Nat],
         NEW t \in 1..MaxThreads, NEW m \in Posts, NEW k \in Part,
         NEW h, h = [g EXCEPT ![<<t, m, k>>] = @ + 1]
  PROVE  /\ h \in [(1..MaxThreads) \X Posts \X Part -> Nat]
         /\ \A u \in 1..MaxThreads, n \in Posts, j \in Part :
              h[<<u, n, j>>] = IF u = t /\ n = m /\ j = k THEN g[<<u, n, j>>] + 1 ELSE g[<<u, n, j>>]
OBVIOUS

\* Nobody new is about to append, and nothing was.
LEMMA ClaimsKeep ==
  ASSUME FirstPartClaims, noted' = noted, unclear \subseteq unclear',
         \A t \in 1..MaxThreads, m \in Posts : m \notin unclear' => board'[<<t, m, 1>>] = board[<<t, m, 1>>],
         \A q \in Senders, t \in 1..MaxThreads, m \in Posts : Appending(q, t, m)' => Appending(q, t, m)
  PROVE  FirstPartClaims'
BY DEF FirstPartClaims

\* The number of threads is bounded as before, if nobody has begun to
\* create one.
LEMMA CountKeeps ==
  ASSUME ThreadsCounted, ForumShape, made' = made, stale' = stale, Creating' \subseteq Creating,
         thread.fresh => thread'.fresh
  PROVE  ThreadsCounted'
<1> DEFINE N == Cardinality(Senders)
           C == Cardinality(Creating)
           D == Cardinality(Creating')
           M == Cardinality(made)
<1>1. N \in Nat /\ C \in Nat /\ D \in Nat /\ D <= C /\ C <= N /\ M \in Nat /\ stale \in Nat
  <2>1. IsFiniteSet(Creating') /\ D <= C  BY CreatorsCount, FS_Subset
  <2> QED  BY <2>1, CreatorsCount, FS_CardinalityType DEF ForumShape
<1>2. (stale + 1) * N = stale * N + N /\ stale * N \in Nat
  <2> HIDE DEF N
  <2> QED  BY <1>1, SMTT(30)
<1>3. CASE thread.fresh
  <2>1. M + C <= (stale + 1) * N  BY <1>3 DEF ThreadsCounted
  <2> HIDE DEF N, C, D, M
  <2>2. M + D <= (stale + 1) * N  BY <1>1, <1>2, <2>1
  <2> QED  BY <1>3, <2>2 DEF ThreadsCounted, N, D, M
<1>4. CASE ~ thread.fresh
  <2>1. M <= stale * N  BY <1>4 DEF ThreadsCounted
  <2> HIDE DEF N, C, D, M
  <2>2. M + D <= (stale + 1) * N  BY <1>1, <1>2, <2>1
  <2> QED  BY <2>1, <2>2 DEF ThreadsCounted, N, D, M
<1> QED  BY <1>3, <1>4

\* p goes on to r: what it is about to append it was about to append before.
LEMMA SendStep ==
  ASSUME DiscordInv, NEW p \in Senders, NEW q, q = send[p], NEW r, send' = [send EXCEPT ![p] = r],
         made' = made, stale' = stale, noted' = noted, unclear \subseteq unclear',
         r = [x \in SendFields |-> r[x]], r.at # "idle" => r.msg \in Posts,
         r.at \in {"check", "rest"} => r.to \in made,
         r.at \in {"limit", "append", "backoff"} =>
           q.at \in {"limit", "append", "backoff"} /\ r.to = q.to /\ r.msg = q.msg,
         \/ r.at \in {"create", "create rest"} => q.at \in {"create", "create rest"}
         \/ ~ thread.fresh /\ thread' = thread,
         thread' \in [id : Nat, fresh : BOOLEAN], thread'.id = thread.id,
         thread.fresh => thread'.fresh, thread.id = 0 => ~ thread'.fresh,
         board' \in [(1..MaxThreads) \X Posts \X Part -> Nat],
         \A t \in 1..MaxThreads, m \in Posts : m \notin unclear' => board'[<<t, m, 1>>] = board[<<t, m, 1>>]
  PROVE  DiscordInv'
<1>1. /\ q = [x \in SendFields |-> q[x]]
      /\ q.at \in {"check", "limit", "append", "backoff", "rest"} => q.to \in made
  BY DEF DiscordInv, ForumShape
<1>2. r.at \in {"check", "limit", "append", "backoff", "rest"} => r.to \in made'  BY <1>1
<1>3. /\ send' = [s \in Senders |-> send'[s]]
      /\ send'[p] = r /\ \A s \in Senders \ {p} : send'[s] = send[s]
      /\ \A s \in Senders :
           /\ send'[s] = [x \in SendFields |-> send'[s][x]]
           /\ send'[s].at # "idle" => send'[s].msg \in Posts
           /\ send'[s].at \in {"check", "limit", "append", "backoff", "rest"} => send'[s].to \in made'
  BY <1>2, OneSend DEF DiscordInv
<1>4. ForumShape'  BY <1>3 DEF DiscordInv, ForumShape
<1>5. \A s \in Senders, t \in 1..MaxThreads, m \in Posts : Appending(s, t, m)' => Appending(s, t, m)
  BY <1>3 DEF Appending
<1>6. FirstPartClaims'  BY <1>5, ClaimsKeep DEF DiscordInv
<1>7. ThreadsCounted'
  <2>1. CASE r.at \in {"create", "create rest"} => q.at \in {"create", "create rest"}
    <3>1. Creating' \subseteq Creating  BY <1>3, <2>1 DEF Creating
    <3> QED  BY <3>1, CountKeeps DEF DiscordInv
  <2>2. CASE ~ thread.fresh /\ thread' = thread
    BY <2>2 DEF DiscordInv, ThreadsCounted
  <2> QED  BY <2>1, <2>2
<1> QED  BY <1>4, <1>6, <1>7 DEF DiscordInv

\* The first part of m arrives in t.
Landed(t, m) ==
  /\ board' \in [(1..MaxThreads) \X Posts \X Part -> Nat]
  /\ \A u \in 1..MaxThreads, n \in Posts :
       board'[<<u, n, 1>>] = IF u = t /\ n = m THEN board[<<u, n, 1>>] + 1 ELSE board[<<u, n, 1>>]

\* The first part arrives, and the send knows it.
LEMMA PostStep ==
  ASSUME DiscordInv, NEW p \in Senders, NEW q, q = send[p], NEW r, send' = [send EXCEPT ![p] = r],
         made' = made, stale' = stale, noted' = noted, unclear' = unclear,
         q.at \in {"append", "backoff"},
         r = [x \in SendFields |-> r[x]], r.at = "lookup rest", r.msg = q.msg,
         Landed(q.to, q.msg),
         thread' \in [id : Nat, fresh : BOOLEAN], thread'.id = thread.id,
         thread.fresh => thread'.fresh, thread.id = 0 => ~ thread'.fresh
  PROVE  DiscordInv'
<1>1. /\ q = [x \in SendFields |-> q[x]] /\ q.to \in made /\ q.msg \in Posts /\ q.to \in 1..MaxThreads
  BY DEF DiscordInv, ForumShape
<1>3. /\ send' = [s \in Senders |-> send'[s]]
      /\ send'[p] = r /\ \A s \in Senders \ {p} : send'[s] = send[s]
      /\ \A s \in Senders :
           /\ send'[s] = [x \in SendFields |-> send'[s][x]]
           /\ send'[s].at # "idle" => send'[s].msg \in Posts
           /\ send'[s].at \in {"check", "limit", "append", "backoff", "rest"} => send'[s].to \in made'
  BY <1>1, OneSend DEF DiscordInv
<1>5. ForumShape'  BY <1>3 DEF DiscordInv, ForumShape, Landed
<1>6. \A s \in Senders, t \in 1..MaxThreads, m \in Posts :
        Appending(s, t, m)' => Appending(s, t, m) /\ s # p
  BY <1>3 DEF Appending
<1>7. Appending(p, q.to, q.msg)  BY DEF Appending
<1>8. ASSUME NEW t \in 1..MaxThreads, NEW m \in Posts, m \notin unclear'
      PROVE  /\ Entry(t, m) \notin noted =>
                  board'[<<t, m, 1>>] = 0 /\ \A s \in Senders : ~ Appending(s, t, m)'
             /\ board'[<<t, m, 1>>] <= 1
             /\ \A s \in Senders : Appending(s, t, m)' => board'[<<t, m, 1>>] = 0
             /\ \A s, u \in Senders : Appending(s, t, m)' /\ Appending(u, t, m)' => s = u
  <2>0. /\ Entry(t, m) \notin noted =>
               board[<<t, m, 1>>] = 0 /\ \A s \in Senders : ~ Appending(s, t, m)
        /\ board[<<t, m, 1>>] <= 1
        /\ \A s \in Senders : Appending(s, t, m) => board[<<t, m, 1>>] = 0
        /\ \A s, u \in Senders : Appending(s, t, m) /\ Appending(u, t, m) => s = u
    BY <1>8 DEF DiscordInv, FirstPartClaims
  <2>1. CASE t = q.to /\ m = q.msg
    <3>0. Appending(p, t, m)  BY <1>7, <2>1
    <3>1. board[<<t, m, 1>>] = 0 /\ Entry(t, m) \in noted  BY <2>0, <3>0
    <3>2. \A s \in Senders : ~ Appending(s, t, m)'  BY <1>6, <2>0, <3>0
    <3>3. board'[<<t, m, 1>>] = board[<<t, m, 1>>] + 1  BY <2>1 DEF Landed
    <3>4. board'[<<t, m, 1>>] <= 1
      <4>1. PICK x : x = board[<<t, m, 1>>]  OBVIOUS
      <4>2. PICK y : y = board'[<<t, m, 1>>]  OBVIOUS
      <4>3. y = x + 1 /\ x = 0  BY <3>1, <3>3, <4>1, <4>2
      <4>4. y <= 1  BY ONLY <4>3
      <4> QED  BY <4>2, <4>4
    <3> QED  BY <3>1, <3>2, <3>4
  <2>2. CASE t # q.to \/ m # q.msg
    <3>1. board'[<<t, m, 1>>] = board[<<t, m, 1>>]  BY <2>2 DEF Landed
    <3> QED  BY <1>6, <2>0, <3>1
  <2> QED  BY <2>1, <2>2
<1>9. FirstPartClaims'  BY <1>8 DEF FirstPartClaims
<1>10. Creating' \subseteq Creating  BY <1>3 DEF Creating
<1>11. ThreadsCounted'  BY <1>10, CountKeeps DEF DiscordInv
<1> QED  BY <1>5, <1>9, <1>11 DEF DiscordInv

\* The deduplication sees the message for the first time.
LEMMA NewEntry ==
  ASSUME DiscordInv, NEW p \in Senders, CheckThread(p), Entry(send[p].to, send[p].msg) \notin noted
  PROVE  DiscordInv'
<1>1. PICK q : q = send[p]  OBVIOUS
<1>2. /\ q = [x \in SendFields |-> q[x]] /\ q.at = "check"
      /\ q.to \in made /\ q.msg \in Posts /\ q.to \in 1..MaxThreads
  BY <1>1 DEF DiscordInv, ForumShape, CheckThread, Step, Entry
<1>3. PICK r : r = [q EXCEPT !.at = "limit"]  OBVIOUS
<1>4. PICK e : e = Entry(q.to, q.msg)  OBVIOUS
<1>5. /\ send' = [send EXCEPT ![p] = r] /\ noted' = noted \cup {e} /\ e \notin noted
      /\ UNCHANGED <<thread, made, board, confirmed, unclear, stale>>
  BY <1>1, <1>3, <1>4 DEF CheckThread, Step, Remembered, Entry
<1>6. /\ r = [x \in SendFields |-> r[x]] /\ r.at = "limit" /\ r.msg = q.msg /\ r.to = q.to
  BY <1>2, <1>3 DEF SendFields
<1>7. /\ send' = [s \in Senders |-> send'[s]]
      /\ send'[p] = r /\ \A s \in Senders \ {p} : send'[s] = send[s]
      /\ \A s \in Senders :
           /\ send'[s] = [x \in SendFields |-> send'[s][x]]
           /\ send'[s].at # "idle" => send'[s].msg \in Posts
           /\ send'[s].at \in {"check", "limit", "append", "backoff", "rest"} => send'[s].to \in made'
  BY <1>2, <1>5, <1>6, OneSend DEF DiscordInv
<1>8. ForumShape'  BY <1>5, <1>7 DEF DiscordInv, ForumShape
<1>9. /\ \A s \in Senders, t \in 1..MaxThreads, m \in Posts :
           Appending(s, t, m)' => Appending(s, t, m) \/ (s = p /\ t = q.to /\ m = q.msg)
  BY <1>6, <1>7 DEF Appending
<1>10. ASSUME NEW t \in 1..MaxThreads, NEW m \in Posts, m \notin unclear
       PROVE  /\ Entry(t, m) \notin noted' =>
                   board[<<t, m, 1>>] = 0 /\ \A s \in Senders : ~ Appending(s, t, m)'
              /\ board[<<t, m, 1>>] <= 1
              /\ \A s \in Senders : Appending(s, t, m)' => board[<<t, m, 1>>] = 0
              /\ \A s, u \in Senders : Appending(s, t, m)' /\ Appending(u, t, m)' => s = u
  <2>0. /\ Entry(t, m) \notin noted =>
               board[<<t, m, 1>>] = 0 /\ \A s \in Senders : ~ Appending(s, t, m)
        /\ board[<<t, m, 1>>] <= 1
        /\ \A s \in Senders : Appending(s, t, m) => board[<<t, m, 1>>] = 0
        /\ \A s, u \in Senders : Appending(s, t, m) /\ Appending(u, t, m) => s = u
    BY <1>10 DEF DiscordInv, FirstPartClaims
  <2>1. CASE t = q.to /\ m = q.msg
    BY <1>4, <1>5, <1>9, <2>0, <2>1
  <2>2. CASE t # q.to \/ m # q.msg
    BY <1>5, <1>9, <2>0, <2>2
  <2> QED  BY <2>1, <2>2
<1>11. FirstPartClaims'  BY <1>5, <1>10 DEF FirstPartClaims
<1>12. Creating' \subseteq Creating  BY <1>6, <1>7 DEF Creating
<1>13. ThreadsCounted'  BY <1>5, <1>12, CountKeeps DEF DiscordInv
<1> QED  BY <1>8, <1>11, <1>13 DEF DiscordInv

\* What an append leaves on the board.
LEMMA Arriving ==
  ASSUME DiscordInv, NEW t \in 1..MaxThreads, NEW m \in Posts, NEW k \in Part,
         board' = [board EXCEPT ![<<t, m, k>>] = @ + 1]
  PROVE  /\ board' \in [(1..MaxThreads) \X Posts \X Part -> Nat]
         /\ \A u \in 1..MaxThreads, n \in Posts, j \in Part :
              board'[<<u, n, j>>] = IF u = t /\ n = m /\ j = k THEN board[<<u, n, j>>] + 1
                                    ELSE board[<<u, n, j>>]
<1>1. PICK g : g = board  OBVIOUS
<1>2. PICK h : h = board'  OBVIOUS
<1>3. g \in [(1..MaxThreads) \X Posts \X Part -> Nat]  BY ONLY DiscordInv, <1>1, Zenon DEF DiscordInv, ForumShape
<1>4. h = [g EXCEPT ![<<t, m, k>>] = g[<<t, m, k>>] + 1]  BY <1>1, <1>2, Zenon
<1>5. /\ h \in [(1..MaxThreads) \X Posts \X Part -> Nat]
      /\ \A u \in 1..MaxThreads, n \in Posts, j \in Part :
           h[<<u, n, j>>] = IF u = t /\ n = m /\ j = k THEN g[<<u, n, j>>] + 1 ELSE g[<<u, n, j>>]
  BY ONLY <1>3, <1>4
<1> QED  BY ONLY <1>1, <1>2, <1>5, Zenon

\* A send p that is at q.
LEMMA AtSend ==
  ASSUME DiscordInv, NEW p \in Senders, NEW q, q = send[p]
  PROVE  /\ q = [x \in SendFields |-> q[x]]
         /\ q.at # "idle" => q.msg \in Posts
         /\ q.at \in {"check", "limit", "append", "backoff", "rest"} => q.to \in made /\ q.to \in 1..MaxThreads
BY DEF DiscordInv, ForumShape

LEMMA PoolShape ==
  ASSUME DiscordInv, made # {}, thread' = thread \/ (thread' = [thread EXCEPT !.fresh = TRUE])
  PROVE  /\ thread' \in [id : Nat, fresh : BOOLEAN] /\ thread'.id = thread.id
         /\ thread.fresh => thread'.fresh
         /\ thread.id = 0 => ~ thread'.fresh
<1>1. thread \in [id : Nat, fresh : BOOLEAN] /\ thread.id # 0  BY DEF DiscordInv, ForumShape
<1> QED  BY <1>1

\* The next step of a send that leaves the threads and the board alone.
LEMMA QuietSteps ==
  ASSUME DiscordInv, NEW p \in Senders,
         \/ \E m \in Posts : BeginSend(p, m)
         \/ FindThread(p) \/ MissThread(p) \/ CreateFails(p) \/ AskLimiter(p)
         \/ CheckThread(p) /\ Entry(send[p].to, send[p].msg) \in noted
  PROVE  DiscordInv'
<1>1. PICK q : q = send[p]  OBVIOUS
<1>2. /\ q = [x \in SendFields |-> q[x]]
      /\ q.at # "idle" => q.msg \in Posts
      /\ q.at \in {"check", "limit", "append", "backoff", "rest"} => q.to \in made /\ q.to \in 1..MaxThreads
  BY <1>1, AtSend
<1>3. board \in [(1..MaxThreads) \X Posts \X Part -> Nat] /\ thread \in [id : Nat, fresh : BOOLEAN]
      /\ send = [s \in Senders |-> send[s]] /\ thread.id \in made \cup {0}
  BY DEF DiscordInv, ForumShape
<1>4. NoSend = [x \in SendFields |-> NoSend[x]] /\ NoSend.at = "idle"  BY DEF NoSend, SendFields
<1>5. PICK r : /\ send' = [send EXCEPT ![p] = r]
               /\ r = [x \in SendFields |-> r[x]] /\ (r.at # "idle" => r.msg \in Posts)
               /\ r.at \in {"check", "rest"} => r.to \in made
               /\ r.at \in {"limit", "append", "backoff"} =>
                    q.at \in {"limit", "append", "backoff"} /\ r.to = q.to /\ r.msg = q.msg
               /\ (r.at \in {"create", "create rest"} => q.at \in {"create", "create rest"})
                    \/ ~ thread.fresh
  <2>1. ASSUME NEW m \in Posts, BeginSend(p, m)
        PROVE  \E r : /\ send' = [send EXCEPT ![p] = r] /\ r = [x \in SendFields |-> r[x]]
                      /\ r.at = "lookup" /\ r.msg \in Posts
    <3>1. PICK r : r = [NoSend EXCEPT !.at = "lookup", !.msg = m]  OBVIOUS
    <3>2. send' = [send EXCEPT ![p] = r]  BY <2>1, <3>1 DEF BeginSend
    <3>3. r = [x \in SendFields |-> r[x]] /\ r.at = "lookup" /\ r.msg = m
      BY <3>1 DEF NoSend, SendFields
    <3> QED  BY <3>2, <3>3
  <2>2. CASE FindThread(p)
    <3>1. PICK i : i = thread.id  OBVIOUS
    <3>2. PICK a : a = Then(q.at)  OBVIOUS
    <3>3. PICK r : r = [q EXCEPT !.at = a, !.to = i]  OBVIOUS
    <3>4. q.at \in {"lookup", "lookup rest"} /\ i # 0 /\ a \in {"check", "rest"}
      BY <1>1, <2>2, <3>1, <3>2 DEF FindThread, Then
    <3>5. send' = [send EXCEPT ![p].at = Then(@), ![p].to = i]  BY <2>2, <3>1 DEF FindThread
    <3>6. send' = [send EXCEPT ![p] = r]
      BY <1>1, <1>2, <1>3, <3>2, <3>3, <3>5, Zenon
    <3>7. r = [x \in SendFields |-> r[x]] /\ r.at = a /\ r.to = i /\ r.msg = q.msg
      BY <1>2, <3>3 DEF SendFields
    <3>8. i \in made  BY <1>3, <3>1, <3>4
    <3> QED  BY <1>2, <3>4, <3>6, <3>7, <3>8
  <2>3. CASE MissThread(p)
    <3>1. PICK a : /\ a \in {"create", "create rest"} /\ q.at \in {"lookup", "lookup rest"}
                   /\ send' = [send EXCEPT ![p].at = a]
      BY <1>1, <2>3 DEF MissThread, Step
    <3>2. PICK r : r = [q EXCEPT !.at = a]  OBVIOUS
    <3>3. send' = [send EXCEPT ![p] = r]  BY <1>1, <3>1, <3>2
    <3>4. r = [x \in SendFields |-> r[x]] /\ r.at = a /\ r.msg = q.msg
      BY <1>2, <3>2 DEF SendFields
    <3>5. ~ thread.fresh
      <4>1. thread.id = 0 => ~ thread.fresh  BY DEF DiscordInv, ForumShape
      <4> QED  BY <2>3, <4>1 DEF MissThread
    <3> QED  BY <1>2, <3>1, <3>3, <3>4, <3>5
  <2>4. CASE \E r : send' = [send EXCEPT ![p] = r] /\ r = NoSend
    <3>1. send' = [send EXCEPT ![p] = NoSend]  BY <2>4
    <3> HIDE DEF NoSend
    <3> QED  BY <1>4, <3>1
  <2>5. CASE AskLimiter(p) /\ Step(p, "limit", "append")
    <3>1. PICK r : r = [q EXCEPT !.at = "append"]  OBVIOUS
    <3>2. send' = [send EXCEPT ![p] = r] /\ q.at = "limit"  BY <1>1, <2>5, <3>1 DEF Step
    <3>3. r = [x \in SendFields |-> r[x]] /\ r.at = "append" /\ r.msg = q.msg /\ r.to = q.to
      BY <1>2, <3>1 DEF SendFields
    <3> QED  BY <1>2, <3>2, <3>3
  <2>6. CASE CheckThread(p) /\ Entry(send[p].to, send[p].msg) \in noted
    <3>1. PICK r : r = [q EXCEPT !.at = "lookup rest"]  OBVIOUS
    <3>2. send' = [send EXCEPT ![p] = r] /\ q.at = "check"
      BY <1>1, <2>6, <3>1 DEF CheckThread, Step, Entry
    <3>3. r = [x \in SendFields |-> r[x]] /\ r.at = "lookup rest" /\ r.msg = q.msg
      BY <1>2, <3>1 DEF SendFields
    <3> QED  BY <1>2, <3>2, <3>3
  <2>7. CreateFails(p) \/ AskLimiter(p) => (\E r : send' = [send EXCEPT ![p] = r] /\ r = NoSend)
                                           \/ (AskLimiter(p) /\ Step(p, "limit", "append"))
    BY DEF CreateFails, AskLimiter, Return
  <2> QED  BY <2>1, <2>2, <2>3, <2>4, <2>5, <2>6, <2>7
<1>6. /\ made' = made /\ stale' = stale /\ unclear' = unclear /\ board' = board /\ thread' = thread
      /\ noted' = noted
  <2>1. CASE CheckThread(p) /\ Entry(send[p].to, send[p].msg) \in noted
    BY <2>1 DEF CheckThread, Remembered, Entry
  <2> QED  BY <2>1 DEF BeginSend, FindThread, MissThread, CreateFails, AskLimiter
<1>7. thread.id = 0 => ~ thread'.fresh  BY <1>6 DEF DiscordInv, ForumShape
<1> QED  BY <1>1, <1>3, <1>5, <1>6, <1>7, SendStep

\* An append that arrived, was refused or failed.
LEMMA AppendSteps ==
  ASSUME DiscordInv, NEW p \in Senders, AppendFirst(p) \/ AppendAgain(p) \/ AppendRest(p)
  PROVE  DiscordInv'
<1>1. PICK q : q = send[p]  OBVIOUS
<1>2. /\ q = [x \in SendFields |-> q[x]] /\ q.at \in {"append", "backoff", "rest"}
      /\ q.msg \in Posts /\ q.to \in made /\ q.to \in 1..MaxThreads
      /\ AppendFirst(p) => q.at = "append"
      /\ AppendAgain(p) => q.at = "backoff"
      /\ AppendRest(p) => q.at = "rest"
  <2>1. q.at \in {"append", "backoff", "rest"} /\ (AppendFirst(p) => q.at = "append")
        /\ (AppendAgain(p) => q.at = "backoff") /\ (AppendRest(p) => q.at = "rest")
    BY <1>1 DEF AppendFirst, AppendAgain, AppendRest
  <2> QED  BY <1>1, <2>1, AtSend
<1>3. /\ board \in [(1..MaxThreads) \X Posts \X Part -> Nat] /\ thread \in [id : Nat, fresh : BOOLEAN]
      /\ thread.id = 0 => ~ thread.fresh
      /\ made # {} /\ 1 \in Part /\ 2 \in Part
  BY <1>2 DEF DiscordInv, ForumShape, Part
<1>4. made' = made /\ stale' = stale /\ noted' = noted
  BY DEF AppendFirst, AppendAgain, AppendRest
<1>5. NoSend = [x \in SendFields |-> NoSend[x]] /\ NoSend.at = "idle"  BY DEF NoSend, SendFields
\* What p goes on to, if it does not know that the part has arrived.
<1> DEFINE Goes(r) == /\ send' = [send EXCEPT ![p] = r] /\ r = [x \in SendFields |-> r[x]]
                      /\ r.at # "idle" => r.msg \in Posts
                      /\ r.at \in {"idle", "backoff"}
                      /\ r.at = "backoff" => q.at # "rest" /\ r.to = q.to /\ r.msg = q.msg
           Unposted == board' = board /\ unclear' = unclear
           Posts1(k) == board' = [board EXCEPT ![<<q.to, q.msg, k>>] = @ + 1]
<1>6. \A ok \in BOOLEAN : Return(p, ok) => \E r : Goes(r)
  <2>1. \A ok \in BOOLEAN : Return(p, ok) => send' = [send EXCEPT ![p] = NoSend]  BY DEF Return
  <2> HIDE DEF NoSend
  <2> QED  BY <1>5, <2>1
<1>7. CASE AppendFirst(p) \/ AppendAgain(p)
  <2>1. \/ /\ Posts1(1) /\ unclear' = unclear
           /\ send' = [send EXCEPT ![p].at = "lookup rest"]
           /\ thread' = thread \/ thread' = [thread EXCEPT !.fresh = TRUE]
        \/ /\ \E r : Goes(r)
           /\ thread' = thread
           /\ Unposted \/ (Posts1(1) /\ unclear' = unclear \cup {q.msg})
    <3>1. CASE AppendFirst(p)
      <4>1. ASSUME Step(p, "append", "backoff")  PROVE \E r : Goes(r)
        <5>1. PICK r : r = [q EXCEPT !.at = "backoff"]  OBVIOUS
        <5>2. send' = [send EXCEPT ![p] = r]  BY <1>1, <4>1, <5>1 DEF Step
        <5>3. r = [x \in SendFields |-> r[x]] /\ r.at = "backoff" /\ r.msg = q.msg /\ r.to = q.to
          BY <1>2, <5>1 DEF SendFields
        <5> QED  BY <1>2, <3>1, <5>2, <5>3
      <4> HIDE DEF Goes
      <4> QED  BY <1>1, <1>6, <3>1, <4>1 DEF AppendFirst, Step
    <3>2. CASE AppendAgain(p)
      <4>1. ASSUME send' = [send EXCEPT ![p].tries = @ + 1]  PROVE \E r : Goes(r)
        <5>1. PICK n : n = q.tries + 1  OBVIOUS
        <5>2. PICK r : r = [q EXCEPT !.tries = n]  OBVIOUS
        <5>3. send' = [send EXCEPT ![p] = r]  BY <1>1, <4>1, <5>1, <5>2
        <5>4. r = [x \in SendFields |-> r[x]] /\ r.at = q.at /\ r.msg = q.msg /\ r.to = q.to
          BY <1>2, <5>2 DEF SendFields
        <5> QED  BY <1>2, <3>2, <5>3, <5>4
      <4> HIDE DEF Goes
      <4> QED  BY <1>1, <1>6, <3>2, <4>1 DEF AppendAgain, Arrives, Step
    <3> QED  BY <1>7, <3>1, <3>2
  <2>2. CASE /\ Posts1(1) /\ unclear' = unclear
             /\ send' = [send EXCEPT ![p].at = "lookup rest"]
             /\ thread' = thread \/ thread' = [thread EXCEPT !.fresh = TRUE]
    <3>1. PICK r : r = [q EXCEPT !.at = "lookup rest"]  OBVIOUS
    <3>2. send' = [send EXCEPT ![p] = r]  BY <1>1, <2>2, <3>1
    <3>3. Landed(q.to, q.msg)
      <4> HIDE DEF Posts1
      <4>1. Posts1(1)  BY <2>2
      <4>2. PICK t, m : t = q.to /\ m = q.msg /\ t \in 1..MaxThreads /\ m \in Posts  BY <1>2
      <4>3. board' = [board EXCEPT ![<<t, m, 1>>] = @ + 1]  BY <4>1, <4>2, Zenon DEF Posts1
      <4>4. /\ board' \in [(1..MaxThreads) \X Posts \X Part -> Nat]
            /\ \A u \in 1..MaxThreads, n \in Posts, j \in Part :
                 board'[<<u, n, j>>] = IF u = t /\ n = m /\ j = 1 THEN board[<<u, n, j>>] + 1
                                       ELSE board[<<u, n, j>>]
        BY ONLY DiscordInv, <1>3, <4>2, <4>3, Arriving, Zenon
      <4> QED  BY ONLY <1>3, <4>2, <4>4 DEF Landed
    <3>4. /\ thread' \in [id : Nat, fresh : BOOLEAN] /\ thread'.id = thread.id
          /\ (thread.fresh => thread'.fresh) /\ (thread.id = 0 => ~ thread'.fresh)
      BY <1>3, <2>2, PoolShape
    <3> HIDE DEF Posts1
    <3>5. unclear' = unclear /\ q.at \in {"append", "backoff"}  BY <1>2, <1>7, <2>2
    <3>6. r = [x \in SendFields |-> r[x]] /\ r.at = "lookup rest" /\ r.msg = q.msg
      BY <1>2, <3>1 DEF SendFields
    <3> QED  BY ONLY DiscordInv, p \in Senders, <1>1, <1>4, <3>2, <3>3, <3>4, <3>5, <3>6, PostStep
  <2>3. CASE /\ \E r : Goes(r)
             /\ thread' = thread
             /\ Unposted \/ (Posts1(1) /\ unclear' = unclear \cup {q.msg})
    <3>1. PICK r : Goes(r)  BY <2>3
    <3>2. /\ board' \in [(1..MaxThreads) \X Posts \X Part -> Nat] /\ unclear \subseteq unclear'
          /\ \A u \in 1..MaxThreads, n \in Posts :
               n \notin unclear' => board'[<<u, n, 1>>] = board[<<u, n, 1>>]
      <4>1. CASE Unposted  BY <1>3, <4>1
      <4>2. CASE ~ Unposted
        <5> HIDE DEF Posts1, Unposted
        <5>1. Posts1(1) /\ unclear' = unclear \cup {q.msg}  BY <2>3, <4>2
        <5>2. PICK t, m : t = q.to /\ m = q.msg /\ t \in 1..MaxThreads /\ m \in Posts  BY <1>2
        <5>3. board' = [board EXCEPT ![<<t, m, 1>>] = @ + 1]  BY <5>1, <5>2, Zenon DEF Posts1
        <5>4. /\ board' \in [(1..MaxThreads) \X Posts \X Part -> Nat]
              /\ \A u \in 1..MaxThreads, n \in Posts, j \in Part :
                   board'[<<u, n, j>>] = IF u = t /\ n = m /\ j = 1 THEN board[<<u, n, j>>] + 1
                                         ELSE board[<<u, n, j>>]
          BY ONLY DiscordInv, <1>3, <5>2, <5>3, Arriving, Zenon
        <5>5. unclear' = unclear \cup {m}  BY <5>1, <5>2
        <5> QED  BY ONLY <1>3, <5>4, <5>5
      <4> QED  BY <4>1, <4>2
    <3>3. /\ send' = [send EXCEPT ![p] = r] /\ r = [x \in SendFields |-> r[x]]
          /\ r.at # "idle" => r.msg \in Posts
          /\ r.at \notin {"check", "rest", "create", "create rest"}
          /\ r.at \in {"limit", "append", "backoff"} =>
               q.at \in {"limit", "append", "backoff"} /\ r.to = q.to /\ r.msg = q.msg
      BY <1>2, <3>1
    <3> HIDE DEF Posts1
    <3>4. thread' = thread  BY <2>3
    <3> QED  BY ONLY DiscordInv, p \in Senders, <1>1, <1>3, <1>4, <3>2, <3>3, <3>4, SendStep
  <2> HIDE DEF Goes, Unposted, Posts1
  <2> QED  BY <2>1, <2>2, <2>3
<1>8. CASE AppendRest(p)
  <2>1. \E r : Goes(r)
    <3> HIDE DEF Goes
    <3> QED  BY <1>6, <1>8 DEF AppendRest
  <2>2. PICK r : Goes(r)  BY <2>1
  <2>3. /\ send' = [send EXCEPT ![p] = r] /\ r = [x \in SendFields |-> r[x]]
        /\ r.at # "idle" => r.msg \in Posts
        /\ r.at \notin {"check", "rest", "create", "create rest"}
        /\ r.at \in {"limit", "append", "backoff"} =>
             q.at \in {"limit", "append", "backoff"} /\ r.to = q.to /\ r.msg = q.msg
    BY <1>2, <2>2
  <2>4. unclear' = unclear  BY <1>8 DEF AppendRest
  <2>5. board' = board \/ Posts1(2)  BY <1>1, <1>8 DEF AppendRest, Arrives
  <2>6. thread' = thread \/ thread' = [thread EXCEPT !.fresh = TRUE]
    BY <1>8 DEF AppendRest, Arrives
  <2>7. /\ thread' \in [id : Nat, fresh : BOOLEAN] /\ thread'.id = thread.id
        /\ (thread.fresh => thread'.fresh) /\ (thread.id = 0 => ~ thread'.fresh)
    BY <1>3, <2>6, PoolShape
  <2>8. /\ board' \in [(1..MaxThreads) \X Posts \X Part -> Nat]
        /\ \A u \in 1..MaxThreads, n \in Posts : board'[<<u, n, 1>>] = board[<<u, n, 1>>]
    <3>1. CASE board' = board  BY <1>3, <3>1
    <3>2. CASE Posts1(2)
      <4> HIDE DEF Posts1
      <4>2. PICK t, m : t = q.to /\ m = q.msg /\ t \in 1..MaxThreads /\ m \in Posts  BY <1>2
      <4>3. board' = [board EXCEPT ![<<t, m, 2>>] = @ + 1]  BY <3>2, <4>2, Zenon DEF Posts1
      <4>4. /\ board' \in [(1..MaxThreads) \X Posts \X Part -> Nat]
            /\ \A u \in 1..MaxThreads, n \in Posts, j \in Part :
                 board'[<<u, n, j>>] = IF u = t /\ n = m /\ j = 2 THEN board[<<u, n, j>>] + 1
                                       ELSE board[<<u, n, j>>]
        BY ONLY DiscordInv, <1>3, <4>2, <4>3, Arriving, Zenon
      <4> QED  BY ONLY <1>3, <4>4
    <3> QED  BY <2>5, <3>1, <3>2
  <2> HIDE DEF Posts1
  <2> QED  BY ONLY DiscordInv, p \in Senders, <1>1, <1>4, <2>3, <2>4, <2>7, <2>8, SendStep
<1> QED  BY <1>7, <1>8

\* A thread is made, and the pool knows it.
LEMMA CreateStep ==
  ASSUME DiscordInv, NEW p \in Senders, CreateThread(p)
  PROVE  DiscordInv'
<1>1. PICK q : q = send[p]  OBVIOUS
<1>2. PICK t : t = Cardinality(made) + 1  OBVIOUS
<1>3. PICK a : a = IF q.at = "create" THEN "check" ELSE "rest"  OBVIOUS
<1>4. PICK r : r = [q EXCEPT !.at = a, !.to = t]  OBVIOUS
<1>5. /\ q = [x \in SendFields |-> q[x]] /\ q.at \in {"create", "create rest"} /\ q.msg \in Posts
      /\ Cardinality(made) < MaxThreads /\ a \in {"check", "rest"}
  BY <1>1, <1>3, AtSend DEF CreateThread
<1>6. /\ made' = made \cup {t} /\ thread' = [id |-> t, fresh |-> TRUE]
      /\ send' = [send EXCEPT ![p].at = a, ![p].to = t]
      /\ UNCHANGED <<noted, board, confirmed, unclear, sends, stale>>
  BY <1>1, <1>2, <1>3 DEF CreateThread, Pooled
<1>7. r = [x \in SendFields |-> r[x]] /\ r.at = a /\ r.to = t /\ r.msg = q.msg
  BY <1>4, <1>5 DEF SendFields
<1>8. send' = [send EXCEPT ![p] = r]
  <2>1. send = [s \in Senders |-> send[s]]  BY DEF DiscordInv, ForumShape
  <2> QED  BY <1>1, <1>4, <1>5, <1>6, <2>1, Zenon
<1>9. /\ IsFiniteSet(made) /\ made = 1..Cardinality(made) /\ made \subseteq 1..MaxThreads
      /\ Cardinality(made) \in Nat
  BY FS_CardinalityType DEF DiscordInv, ForumShape
<1>10. /\ t \in 1..MaxThreads /\ t \notin made /\ IsFiniteSet(made')
       /\ Cardinality(made') = t /\ made' = 1..t /\ made' \subseteq 1..MaxThreads
  <2>1. t \in 1..MaxThreads /\ t \notin made
    <3>1. PICK n : n = Cardinality(made)  OBVIOUS
    <3>2. n \in Nat /\ made = 1..n /\ n < MaxThreads /\ t = n + 1  BY <1>2, <1>5, <1>9, <3>1
    <3> QED  BY <3>2, DiscordAssumption
  <2>2. IsFiniteSet(made') /\ Cardinality(made') = Cardinality(made) + 1
    BY <1>6, <1>9, <2>1, FS_AddElement
  <2>3. made' = 1..t
    <3>1. PICK n : n = Cardinality(made)  OBVIOUS
    <3>2. n \in Nat /\ t = n + 1 /\ made' = (1..n) \cup {t}  BY <1>2, <1>6, <1>9, <3>1
    <3> QED  BY <3>2
  <2> QED  BY <1>2, <1>6, <1>9, <2>1, <2>2, <2>3
<1>11. /\ send' = [s \in Senders |-> send'[s]]
       /\ send'[p] = r /\ \A s \in Senders \ {p} : send'[s] = send[s]
       /\ \A s \in Senders :
            /\ send'[s] = [x \in SendFields |-> send'[s][x]]
            /\ send'[s].at # "idle" => send'[s].msg \in Posts
            /\ send'[s].at \in {"check", "limit", "append", "backoff", "rest"} => send'[s].to \in made'
  BY <1>5, <1>6, <1>7, <1>8, OneSend DEF DiscordInv
<1>12. ForumShape'
  <2>1. thread' \in [id : Nat, fresh : BOOLEAN] /\ thread'.id = t /\ thread'.fresh /\ t # 0
    BY <1>6, <1>10
  <2> QED  BY <1>6, <1>10, <1>11, <2>1 DEF DiscordInv, ForumShape
<1>13. FirstPartClaims'
  <2>1. \A s \in Senders, u \in 1..MaxThreads, m \in Posts : Appending(s, u, m)' => Appending(s, u, m)
    BY <1>5, <1>7, <1>11 DEF Appending
  <2> QED  BY <1>6, <2>1, ClaimsKeep DEF DiscordInv
<1>14. ThreadsCounted'
  <2>1. p \in Creating /\ Creating' = Creating \ {p}
    BY <1>1, <1>5, <1>7, <1>11 DEF Creating
  <2>2. /\ Cardinality(Creating) \in Nat /\ IsFiniteSet(Creating)
        /\ Cardinality(Creating) <= Cardinality(Senders) /\ Cardinality(Senders) \in Nat
    BY CreatorsCount
  <2>3. Cardinality(Creating') = Cardinality(Creating) - 1  BY <2>1, <2>2, FS_RemoveElement
  <2> DEFINE N == Cardinality(Senders)
             C == Cardinality(Creating)
             D == Cardinality(Creating')
             M == Cardinality(made)
  <2>4. M + C <= (stale + 1) * N
    <3>1. (stale + 1) * N = stale * N + N /\ stale * N \in Nat
      <4>1. stale \in Nat /\ N \in Nat  BY <2>2 DEF DiscordInv, ForumShape
      <4> HIDE DEF N
      <4> QED  BY <4>1, SMTT(30)
    <3>2. CASE thread.fresh  BY <3>2 DEF DiscordInv, ThreadsCounted
    <3>3. CASE ~ thread.fresh
      <4>1. M <= stale * N /\ C <= N /\ M \in Nat /\ C \in Nat /\ N \in Nat
        BY <1>9, <2>2, <3>3 DEF DiscordInv, ThreadsCounted
      <4> HIDE DEF N, C, M
      <4> QED  BY <3>1, <4>1
    <3> QED  BY <3>2, <3>3
  <2>5. thread'.fresh /\ stale' = stale  BY <1>6
  <2>6. Cardinality(made') + D <= (stale + 1) * N
    <3>1. Cardinality(made') = M + 1 /\ D = C - 1 /\ M \in Nat /\ C \in Nat  BY <1>2, <1>9, <1>10, <2>2, <2>3
    <3> HIDE DEF N, C, D, M
    <3> QED  BY <2>4, <3>1
  <2> QED  BY <2>5, <2>6 DEF ThreadsCounted
<1> QED  BY <1>12, <1>13, <1>14 DEF DiscordInv

\* The hour is over for a thread or for a message of it.
LEMMA LapseSteps ==
  ASSUME DiscordInv, ThreadStale \/ \E e \in noted : ForgetMessage(e)
  PROVE  DiscordInv'
<1>1. /\ UNCHANGED <<made, send, board>> /\ stale' = stale + 1 /\ unclear \subseteq unclear'
      /\ noted' \subseteq noted /\ (ThreadStale => noted' = noted /\ unclear' = unclear)
      /\ thread' = [thread EXCEPT !.fresh = FALSE] \/ thread' = thread
  BY DEF ThreadStale, ForgetMessage
<1>2. /\ thread \in [id : Nat, fresh : BOOLEAN] /\ stale \in Nat /\ (thread.id = 0 => ~ thread.fresh)
      /\ Cardinality(made) \in Nat
  BY FS_CardinalityType DEF DiscordInv, ForumShape
<1>3. /\ thread' \in [id : Nat, fresh : BOOLEAN] /\ thread'.id = thread.id
      /\ thread'.fresh => thread.fresh
      /\ thread.id = 0 => ~ thread'.fresh
  BY <1>1, <1>2
<1>4. ForumShape'  BY <1>1, <1>2, <1>3 DEF DiscordInv, ForumShape
<1>5. \A p \in Senders, t \in 1..MaxThreads, m \in Posts : Appending(p, t, m)' <=> Appending(p, t, m)
  BY <1>1 DEF Appending
<1>6. FirstPartClaims'
  <2>1. CASE ThreadStale  BY <1>1, <1>5, <2>1, ClaimsKeep DEF DiscordInv
  <2>2. CASE \E e \in noted : ForgetMessage(e)
    <3>1. PICK e \in noted : noted' = noted \ {e} /\ unclear' = unclear \cup {e.msg}
      BY <2>2 DEF ForgetMessage
    <3>2. \A t \in 1..MaxThreads, m \in Posts :
            m \notin unclear' => m \notin unclear /\ (Entry(t, m) \in noted' <=> Entry(t, m) \in noted)
      BY <3>1 DEF Entry
    <3> QED  BY <1>1, <1>5, <3>2 DEF DiscordInv, FirstPartClaims
  <2> QED  BY <2>1, <2>2
<1>7. ThreadsCounted'
  <2>1. Creating' = Creating  BY <1>1 DEF Creating
  <2> DEFINE N == Cardinality(Senders)
             C == Cardinality(Creating)
             M == Cardinality(made)
  <2>2. N \in Nat /\ C \in Nat /\ C <= N /\ M \in Nat  BY <1>2, CreatorsCount
  <2>3. /\ (stale + 1) * N = stale * N + N /\ (stale' + 1) * N = (stale + 1) * N + N
        /\ stale' * N = (stale + 1) * N /\ stale * N \in Nat
    <3> HIDE DEF N
    <3> QED  BY <1>1, <1>2, <2>2, SMTT(30)
  <2>4. M <= stale' * N
    <3>1. CASE thread.fresh
      <4>1. M + C <= (stale + 1) * N  BY <3>1 DEF DiscordInv, ThreadsCounted
      <4> HIDE DEF N, C, M
      <4> QED  BY <2>2, <2>3, <4>1
    <3>2. CASE ~ thread.fresh
      <4>1. M <= stale * N  BY <3>2 DEF DiscordInv, ThreadsCounted
      <4> HIDE DEF N, C, M
      <4> QED  BY <2>2, <2>3, <4>1
    <3> QED  BY <3>1, <3>2
  <2>5. M + C <= (stale' + 1) * N
    <3> HIDE DEF N, C, M
    <3> QED  BY <2>2, <2>3, <2>4
  <2> QED  BY <1>1, <2>1, <2>4, <2>5 DEF ThreadsCounted
<1> QED  BY <1>4, <1>6, <1>7 DEF DiscordInv

LEMMA DiscordSpecInvariant == DiscordSpec => []DiscordInv
<1>1. DiscordInit => DiscordInv
  <2> SUFFICES ASSUME DiscordInit  PROVE DiscordInv  OBVIOUS
  <2>1. NoSend = [x \in SendFields |-> NoSend[x]] /\ NoSend.at = "idle"  BY DEF NoSend, SendFields
  <2>2. /\ thread = [id |-> 0, fresh |-> FALSE] /\ made = {} /\ noted = {} /\ stale = 0
        /\ send = [p \in Senders |-> NoSend]
        /\ board = [x \in (1..MaxThreads) \X Posts \X Part |-> 0]
    BY DEF DiscordInit
  <2> HIDE DEF NoSend
  <2>3. /\ board \in [(1..MaxThreads) \X Posts \X Part -> Nat]
        /\ \A t \in 1..MaxThreads, m \in Posts : board[<<t, m, 1>>] = 0
    <3>1. board = [x \in (1..MaxThreads) \X Posts \X Part |-> 0]  BY <2>2
    <3>2. 1 \in Part  BY DEF Part
    <3> QED  BY <3>1, <3>2
  <2>4. IsFiniteSet(made) /\ Cardinality(made) = 0  BY <2>2, FS_EmptySet
  <2>5. ForumShape
    <3>1. made = 1..Cardinality(made)  BY <2>2, <2>4
    <3> QED  BY <2>1, <2>2, <2>3, <2>4, <3>1 DEF ForumShape
  <2>6. FirstPartClaims  BY <2>1, <2>2, <2>3 DEF FirstPartClaims, Appending
  <2>7. ThreadsCounted
    <3>1. PICK n : n = Cardinality(Senders) /\ n \in Nat  BY CreatorsCount
    <3>2. 0 * n = 0  BY <3>1
    <3> QED  BY <2>2, <2>4, <3>1, <3>2 DEF ThreadsCounted
  <2> QED  BY <2>5, <2>6, <2>7 DEF DiscordInv
<1>2. DiscordInv /\ [DiscordNext]_discordVars => DiscordInv'
  <2> SUFFICES ASSUME DiscordInv, [DiscordNext]_discordVars  PROVE DiscordInv'  OBVIOUS
  <2>1. CASE UNCHANGED discordVars
    <3>1. UNCHANGED <<thread, made, noted, send, board, confirmed, unclear, sends, stale>>
      BY <2>1 DEF discordVars
    <3>2. ForumShape'  BY <3>1 DEF DiscordInv, ForumShape
    <3>3. Creating' = Creating /\ \A p \in Senders, t \in 1..MaxThreads, m \in Posts :
                                   Appending(p, t, m)' <=> Appending(p, t, m)
      BY <3>1 DEF Creating, Appending
    <3>4. FirstPartClaims'  BY <3>1, <3>3, ClaimsKeep DEF DiscordInv
    <3>5. ThreadsCounted'  BY <3>1, <3>3, CountKeeps DEF DiscordInv
    <3> QED  BY <3>2, <3>4, <3>5 DEF DiscordInv
  <2>2. CASE ThreadStale \/ \E e \in noted : ForgetMessage(e)  BY <2>2, LapseSteps
  <2>3. ASSUME NEW p \in Senders,
               \/ \E m \in Posts : BeginSend(p, m)
               \/ FindThread(p) \/ MissThread(p) \/ CreateThread(p) \/ CreateFails(p)
               \/ CheckThread(p) \/ AskLimiter(p)
               \/ AppendFirst(p) \/ AppendAgain(p) \/ AppendRest(p)
        PROVE  DiscordInv'
    BY <2>3, QuietSteps, CreateStep, NewEntry, AppendSteps
  <2> QED  BY <2>1, <2>2, <2>3 DEF DiscordNext
<1> QED  BY <1>1, <1>2, PTL DEF DiscordSpec

(* The first part of a message is in a thread at most once, and no more    *)
(* threads are made between two lapses than there are senders              *)
(* (Send, GetOrCreateThread, ShouldSend).                                  *)
THEOREM ForumStaysTidy == DiscordSpec => []ForumIsTidy
<1>1. DiscordInv => ForumIsTidy
  <2> SUFFICES ASSUME DiscordInv  PROVE ForumIsTidy  OBVIOUS
  <2>1. FirstPartOnce  BY DEF DiscordInv, ForumShape, FirstPartClaims, FirstPartOnce
  <2>2. ThreadsAreShared
    <3> DEFINE N == Cardinality(Senders)
               C == Cardinality(Creating)
               M == Cardinality(made)
    <3>1. N \in Nat /\ C \in Nat /\ C <= N /\ M \in Nat /\ stale \in Nat
      BY CreatorsCount, FS_CardinalityType DEF DiscordInv, ForumShape
    <3>2. (stale + 1) * N = stale * N + N /\ stale * N \in Nat
      <4> HIDE DEF N
      <4> QED  BY <3>1, SMTT(30)
    <3>3. M + C <= (stale + 1) * N \/ M <= stale * N  BY DEF DiscordInv, ThreadsCounted
    <3>4. M <= (stale + 1) * N
      <4> HIDE DEF N, C, M
      <4> QED  BY <3>1, <3>2, <3>3
    <3> QED  BY <3>4 DEF ThreadsAreShared
  <2> QED  BY <2>1, <2>2 DEF ForumIsTidy
<1> QED  BY <1>1, DiscordSpecInvariant, PTL

-----------------------------------------------------------------------------
(* The parts of a message.                                                 *)

Message == text \in Seq(Character) /\ Len(text) >= 1

\* A set of numbers up to a bound that is not empty has a least element and a
\* greatest.
LEMMA LeastUpTo ==
  ASSUME NEW n \in Nat, NEW S \in SUBSET (0..n), S # {}
  PROVE  \E x \in S : \A y \in S : x <= y
<1>1. S \in SUBSET Nat  OBVIOUS
<1>2. PICK x \in S : \A y \in S : <<y, x>> \notin OpToRel(<, Nat)
  BY <1>1, NatLessThanWellFounded, WFMin, Zenon
<1>3. ASSUME NEW y \in S  PROVE x <= y
  <2>1. x \in Nat /\ y \in Nat  BY <1>1
  <2>2. ~ (y < x)  BY <1>2, <2>1 DEF OpToRel
  <2> QED  BY <2>1, <2>2
<1> QED  BY <1>3

LEMMA GreatestUpTo ==
  ASSUME NEW n \in Nat, NEW S \in SUBSET (0..n), S # {}
  PROVE  \E x \in S : \A y \in S : y <= x
<1> DEFINE T == {n - x : x \in S}
<1>1. T \in SUBSET (0..n) /\ T # {}
  <2>1. \A x \in S : n - x \in 0..n  OBVIOUS
  <2> QED  BY <2>1
<1>2. PICK t \in T : \A y \in T : t <= y
  <2> HIDE DEF T
  <2> QED  BY <1>1, LeastUpTo
<1>3. PICK x \in S : t = n - x  OBVIOUS
<1>4. ASSUME NEW y \in S  PROVE y <= x
  <2>1. n - x <= n - y  BY <1>2, <1>3
  <2> QED  BY <2>1
<1> QED  BY <1>4

\* The extrema of numbers up to a bound.
LEMMA Extrema ==
  ASSUME NEW n \in Nat, NEW S \in SUBSET (0..n), S # {}
  PROVE  /\ Max(S) \in S /\ \A x \in S : x <= Max(S)
         /\ Min(S) \in S /\ \A x \in S : Min(S) <= x
<1>1. S \in SUBSET Nat  OBVIOUS
<1>3. PICK x \in S : \A y \in S : y <= x  BY GreatestUpTo
<1>4. PICK z \in S : \A y \in S : z <= y  BY LeastUpTo
<1>5. \A y \in S : x >= y  BY <1>1, <1>3
<1>6. Max(S) \in S /\ \A y \in S : Max(S) >= y  BY <1>5 DEF Max
<1>7. Min(S) \in S /\ \A y \in S : Min(S) <= y  BY <1>4 DEF Min
<1> QED  BY <1>1, <1>6, <1>7

\* The bytes of a stretch of the text.
ByteSet(a, b) == {x \in (a..b) \X (1..Widest) : x[2] <= Width(x[1])}

LEMMA BytesAreFinite ==
  ASSUME NEW a \in Int, NEW b \in Int
  PROVE  IsFiniteSet(ByteSet(a, b)) /\ Bytes(a, b) \in Nat
<1>1. IsFiniteSet(a..b) /\ IsFiniteSet(1..Widest)
  <2>1. 1 \in Int /\ Widest \in Int  BY DEF Widest
  <2> QED  BY <2>1, FS_Interval
<1>2. IsFiniteSet((a..b) \X (1..Widest))  BY <1>1, FS_Product
<1>3. ByteSet(a, b) \in SUBSET ((a..b) \X (1..Widest))  BY DEF ByteSet
<1>4. IsFiniteSet(ByteSet(a, b))  BY <1>2, <1>3, FS_Subset
<1> QED  BY <1>4, FS_CardinalityType DEF Bytes, ByteSet

LEMMA BytesGrow ==
  ASSUME NEW a \in Int, NEW b \in Int, NEW c \in Int, b <= c
  PROVE  Bytes(a, b) <= Bytes(a, c)
<1>1. ByteSet(a, b) \in SUBSET ByteSet(a, c)  BY DEF ByteSet
<1> QED  BY <1>1, BytesAreFinite, FS_Subset DEF Bytes, ByteSet

LEMMA FewBytes ==
  ASSUME NEW a \in Int
  PROVE  Bytes(a, a) <= Widest /\ \A b \in Int : b < a => Bytes(a, b) = 0
<1>1. Bytes(a, a) <= Widest
  <2>1. a..a = {a}  OBVIOUS
  <2>2. IsFiniteSet({a}) /\ Cardinality({a}) = 1  BY FS_Singleton
  <2>3. IsFiniteSet(1..Widest) /\ Cardinality(1..Widest) = 3
    <3>1. \A n \in Nat \ {0} : IsFiniteSet(1..n) /\ Cardinality(1..n) = n  BY FS_Interval
    <3>2. Widest \in Nat \ {0} /\ Widest = 3  BY DEF Widest
    <3> QED  BY <3>1, <3>2, Zenon
  <2>4. IsFiniteSet({a} \X (1..Widest)) /\ Cardinality({a} \X (1..Widest)) = 3
    <3>1. IsFiniteSet({a} \X (1..Widest))
          /\ Cardinality({a} \X (1..Widest)) = Cardinality({a}) * Cardinality(1..Widest)
      BY <2>2, <2>3, FS_Product, Zenon
    <3>2. Cardinality({a} \X (1..Widest)) = 1 * 3  BY <2>2, <2>3, <3>1, Zenon
    <3> QED  BY <3>1, <3>2
  <2>5. ByteSet(a, a) \in SUBSET ({a} \X (1..Widest))  BY <2>1 DEF ByteSet
  <2>6. Cardinality(ByteSet(a, a)) <= 3  BY <2>4, <2>5, FS_Subset
  <2> QED  BY <2>6 DEF Bytes, ByteSet, Widest
<1>2. ASSUME NEW b \in Int, b < a  PROVE Bytes(a, b) = 0
  <2>1. a..b = {}  BY <1>2
  <2>2. ByteSet(a, b) = {}  BY <2>1 DEF ByteSet
  <2> QED  BY <2>2, FS_EmptySet DEF Bytes, ByteSet
<1> QED  BY <1>1, <1>2

\* A full part is not empty and fits, and so does one that ends at a break.
LEMMA FullFits ==
  ASSUME Message, NEW a \in 1..Len(text)
  PROVE  Full(a) \in a..Len(text) /\ Bytes(a, Full(a)) <= MaxBytes
<1> DEFINE S == {b \in a..Len(text) : Bytes(a, b) <= MaxBytes}
<1>1. Len(text) \in Nat  BY DEF Message
<1>2. a \in S
  <2>1. Bytes(a, a) <= Widest  BY FewBytes
  <2>2. Bytes(a, a) \in Nat  BY BytesAreFinite
  <2> QED  BY <1>1, <2>1, <2>2, PartedAssumption DEF Widest
<1>3. S \in SUBSET (0..Len(text))  BY <1>1
<1>4. Max(S) \in S
  <2> HIDE DEF S
  <2> QED  BY <1>1, <1>2, <1>3, Extrema
<1> QED  BY <1>4 DEF Full

LEMMA CutFits ==
  ASSUME Message, NEW a \in 1..Len(text)
  PROVE  CutEnd(a) \in a..Len(text) /\ Bytes(a, CutEnd(a)) <= MaxBytes
<1>1. Len(text) \in Nat /\ Full(a) \in a..Len(text) /\ Bytes(a, Full(a)) <= MaxBytes
  BY FullFits DEF Message
<1>2. CASE Breaks(a) = {}  BY <1>1, <1>2 DEF CutEnd
<1>3. CASE Breaks(a) # {}
  <2>1. Breaks(a) \in SUBSET (0..Len(text))  BY <1>1 DEF Breaks
  <2>2. Max(Breaks(a)) \in Breaks(a)  BY <1>1, <1>3, <2>1, Extrema
  <2>3. PICK m \in a..Full(a) : m = Max(Breaks(a)) /\ Bytes(a, m - 1) > MaxBytes \div 2
    BY <2>2 DEF Breaks
  <2>4. MaxBytes \div 2 \in Nat /\ Bytes(a, m - 1) \in Nat
    <3>1. a \in Int /\ m - 1 \in Int  BY <1>1
    <3>2. Bytes(a, m - 1) \in Nat  BY <3>1, BytesAreFinite
    <3> QED  BY <3>2, PartedAssumption
  <2>9. a \in Int /\ m - 1 \in Int /\ Full(a) \in Int /\ m - 1 <= Full(a)  BY <1>1
  <2>5. ~ (m - 1 < a)
    <3>1. m - 1 < a => Bytes(a, m - 1) = 0  BY <2>9, FewBytes
    <3> QED  BY <2>3, <2>4, <3>1
  <2>6. Bytes(a, m - 1) <= Bytes(a, Full(a))  BY <2>9, BytesGrow
  <2>7. Bytes(a, Full(a)) \in Nat /\ MaxBytes \in Nat  BY <1>1, BytesAreFinite, PartedAssumption
  <2>8. CutEnd(a) = m - 1  BY <1>3, <2>3 DEF CutEnd
  <2> QED  BY <1>1, <2>3, <2>4, <2>5, <2>6, <2>7, <2>8
<1> QED  BY <1>2, <1>3

\* Only newlines are dropped behind a cut.
LEMMA RestSkipsNewlines ==
  ASSUME Message, NEW b \in 1..Len(text)
  PROVE  /\ RestFrom(b) \in (b + 1)..(Len(text) + 1)
         /\ \A i \in (b + 1)..(RestFrom(b) - 1) : text[i] = Newline
<1> DEFINE S == {i \in (b + 1)..Len(text) : text[i] # Newline} \cup {Len(text) + 1}
<1>1. Len(text) \in Nat  BY DEF Message
<1>2. S \in SUBSET (0..(Len(text) + 1)) /\ S # {} /\ Len(text) + 1 \in Nat  BY <1>1
<1>3. Min(S) \in S /\ \A x \in S : Min(S) <= x
  <2> HIDE DEF S
  <2> QED  BY <1>2, Extrema
<1>4. RestFrom(b) = Min(S)  BY DEF RestFrom
<1>5. Min(S) \in (b + 1)..(Len(text) + 1)  BY <1>1, <1>3
<1>6. ASSUME NEW i \in (b + 1)..(Min(S) - 1)  PROVE text[i] = Newline
  <2>1. i \in (b + 1)..Len(text)  BY <1>1, <1>5
  <2>2. i \notin S
    <3> HIDE DEF S
    <3> QED  BY <1>1, <1>3, <1>5, <2>1
  <2> QED  BY <2>1, <2>2
<1> HIDE DEF S
<1> QED  BY <1>4, <1>5, <1>6

Places(k) == {i \in DOMAIN shown : shown[i] = k}
StillDue(k) == IF call.at = "post" /\ call.part <= k THEN 1 ELSE 0

PartedTypes ==
  /\ Message /\ driver \in {"wechat", "discord", "telegram"}
  /\ from \in 1..(Len(text) + 1)
  /\ parts \in Seq(Nat \X Nat) /\ shown \in Seq(Nat)
  /\ attempts \in Nat /\ answered \in BOOLEAN
  /\ call \in [at : {"idle", "post"}, part : Nat, tries : Nat, ended : BOOLEAN]

\* What was cut lies before the rest, and fits.
PartsFit ==
  \A k \in DOMAIN parts : /\ 1 <= parts[k][1] /\ parts[k][1] <= parts[k][2]
                          /\ parts[k][2] < from
                          /\ Bytes(parts[k][1], parts[k][2]) <= MaxBytes
PartsFollow ==
  driver # "telegram" =>
    /\ \A k \in DOMAIN parts : k - 1 \in DOMAIN parts => parts[k - 1][2] < parts[k][1]
    /\ \A i \in 1..(from - 1) :
         text[i] = Newline \/ \E k \in DOMAIN parts : i \in parts[k][1]..parts[k][2]
\* Nothing is posted before all is cut.
CutBeforePost ==
  /\ from <= Len(text) => call.at = "idle" /\ shown = <<>> /\ ~ answered
  /\ from > Len(text) => parts # <<>>
\* A send has just posted the parts before the one it is at.
PostsInOrder ==
  call.at = "post" =>
    /\ call.part \in 1..Len(parts) /\ ~ answered /\ Len(shown) >= call.part - 1
    /\ \A k \in 1..(call.part - 1) : shown[Len(shown) - (call.part - 1) + k] = k
AnsweredIsShown ==
  answered => /\ Len(shown) >= Len(parts)
              /\ \A k \in DOMAIN parts : shown[Len(shown) - Len(parts) + k] = k
\* A send under way may still post the part it is at, and those after it.
PostsAreCounted == \A k \in DOMAIN parts : Cardinality(Places(k)) + StillDue(k) <= attempts

PartedInv == /\ PartedTypes /\ PartsFit /\ PartsFollow /\ CutBeforePost
             /\ PostsInOrder /\ AnsweredIsShown /\ PostsAreCounted

\* The first cut.
LEMMA PartedStarts ==
  PartedInit => PartedInv
<1> SUFFICES ASSUME PartedInit  PROVE PartedInv  OBVIOUS
<1>1. Message
  <2>1. PICK n \in 1..MaxText : text \in [1..n -> Character]  BY DEF PartedInit
  <2>2. n \in Nat /\ n >= 1  BY <2>1
  <2> QED  BY <2>1, <2>2 DEF Message
<1>2. Len(text) \in Nat /\ Len(text) >= 1  BY <1>1 DEF Message
<1>3. PartedTypes
  <2>1. call \in [at : {"idle", "post"}, part : Nat, tries : Nat, ended : BOOLEAN]
    BY DEF PartedInit, Idle0
  <2>2. from \in 1..(Len(text) + 1)  BY <1>2 DEF PartedInit
  <2>3. parts \in Seq(Nat \X Nat) /\ shown \in Seq(Nat)  BY DEF PartedInit
  <2>4. attempts \in Nat /\ answered \in BOOLEAN  BY DEF PartedInit
  <2>5. driver \in {"wechat", "discord", "telegram"}  BY DEF PartedInit
  <2> QED  BY <1>1, <2>1, <2>2, <2>3, <2>4, <2>5 DEF PartedTypes
<1>4. call.at = "idle"  BY DEF PartedInit, Idle0
<1>5. parts = <<>> /\ DOMAIN parts = {}  BY DEF PartedInit
<1>6. PartsFit /\ PostsAreCounted  BY <1>5 DEF PartsFit, PostsAreCounted
<1>7. PartsFollow  BY <1>5 DEF PartsFollow, PartedInit
<1>8. CutBeforePost  BY <1>2, <1>4 DEF CutBeforePost, PartedInit
<1>9. PostsInOrder /\ AnsweredIsShown  BY <1>4 DEF PostsInOrder, AnsweredIsShown, PartedInit
<1> QED  BY <1>3, <1>6, <1>7, <1>8, <1>9 DEF PartedInv

\* While the text is cut nothing is on the board.
LEMMA CuttingShowsNothing ==
  ASSUME PartedInv, from <= Len(text), UNCHANGED <<call, attempts, shown, answered>>
  PROVE  PostsInOrder' /\ AnsweredIsShown' /\ PostsAreCounted'
<1>1. call.at = "idle" /\ shown = <<>> /\ ~ answered  BY DEF PartedInv, CutBeforePost
<1>2. PostsInOrder' /\ AnsweredIsShown'  BY <1>1 DEF PostsInOrder, AnsweredIsShown
<1>3. ASSUME NEW k  PROVE Cardinality(Places(k))' + StillDue(k)' <= attempts'
  <2>1. Places(k)' = {}
    <3>1. shown' = <<>> /\ DOMAIN shown' = {}  BY <1>1
    <3> QED  BY <3>1 DEF Places
  <2>2. Cardinality(Places(k))' = 0
    <3>1. Cardinality({}) = 0  BY FS_EmptySet
    <3> QED  BY <2>1, <3>1
  <2>3. StillDue(k)' = 0  BY <1>1 DEF StillDue
  <2> QED  BY <2>2, <2>3 DEF PartedInv, PartedTypes
<1> QED  BY <1>2, <1>3 DEF PostsAreCounted

LEMMA SplitKeeps ==
  ASSUME PartedInv, SplitText
  PROVE  PartedInv'
<1> DEFINE last == IF Bytes(from, Len(text)) > MaxBytes THEN CutEnd(from) ELSE Len(text)
<1>1. Message /\ Len(text) \in Nat /\ from \in 1..Len(text) /\ driver # "telegram"
  BY DEF PartedInv, PartedTypes, Message, SplitText
<1>2. last \in from..Len(text) /\ Bytes(from, last) <= MaxBytes
  <2>1. CutEnd(from) \in from..Len(text) /\ Bytes(from, CutEnd(from)) <= MaxBytes
    BY <1>1, CutFits
  <2>2. Bytes(from, Len(text)) \in Nat /\ MaxBytes \in Nat
    <3>1. from \in Int /\ Len(text) \in Int  BY <1>1
    <3> QED  BY <3>1, BytesAreFinite, PartedAssumption
  <2> QED  BY <1>1, <2>1, <2>2
<1>3. PICK e \in from..Len(text) : e = last /\ Bytes(from, e) <= MaxBytes  BY <1>2
<1>4. /\ parts' = Append(parts, <<from, e>>)
      /\ from' = IF e = Len(text) THEN Len(text) + 1 ELSE RestFrom(e)
      /\ UNCHANGED <<driver, text, call, attempts, shown, answered>>
  BY <1>3 DEF SplitText
<1> HIDE DEF last
<1>5. /\ from' \in (e + 1)..(Len(text) + 1)
      /\ \A i \in (e + 1)..(from' - 1) : text[i] = Newline
  <2>1. CASE e = Len(text)  BY <1>1, <1>4, <2>1
  <2>2. CASE e # Len(text)
    <3>1. e \in 1..Len(text)  BY <1>1
    <3>2. /\ RestFrom(e) \in (e + 1)..(Len(text) + 1)
          /\ \A i \in (e + 1)..(RestFrom(e) - 1) : text[i] = Newline
      BY <1>1, <3>1, RestSkipsNewlines
    <3> QED  BY <1>4, <2>2, <3>2
  <2> QED  BY <2>1, <2>2
<1>6. parts \in Seq(Nat \X Nat) /\ Len(parts) \in Nat  BY DEF PartedInv, PartedTypes
<1>7. PICK r \in Nat : r = from'  BY <1>1, <1>5
<1>8. /\ parts' \in Seq(Nat \X Nat) /\ DOMAIN parts' = 1..(Len(parts) + 1)
      /\ parts'[Len(parts) + 1] = <<from, e>> /\ \A k \in DOMAIN parts : parts'[k] = parts[k]
      /\ DOMAIN parts = 1..Len(parts) /\ parts' # <<>>
  <2>1. <<from, e>> \in Nat \X Nat  BY <1>1
  <2> HIDE DEF last
  <2> QED  BY <1>4, <1>6, <2>1
<1>14. \A k \in DOMAIN parts' : k = Len(parts) + 1 \/ k \in DOMAIN parts
  <2>1. PICK n \in Nat : n = Len(parts)  BY <1>6
  <2>2. \A k \in 1..(n + 1) : k = n + 1 \/ k \in 1..n  OBVIOUS
  <2>3. DOMAIN parts' = 1..(n + 1) /\ DOMAIN parts = 1..n  BY <1>8, <2>1, Zenon
  <2> QED  BY <2>1, <2>2, <2>3, Zenon
<1>9. PartedTypes'
  BY <1>1, <1>4, <1>5, <1>8 DEF PartedInv, PartedTypes, Message
<1>10. PartsFit'
  <2>0. \A a, b : Bytes(a, b)' = Bytes(a, b)  BY <1>4 DEF Bytes, Width
  <2>1. ASSUME NEW k \in DOMAIN parts'
        PROVE  /\ 1 <= parts'[k][1] /\ parts'[k][1] <= parts'[k][2] /\ parts'[k][2] < r
               /\ Bytes(parts'[k][1], parts'[k][2]) <= MaxBytes
    <3>1. CASE k = Len(parts) + 1
      <4>1. parts'[k] = <<from, e>>  BY <1>8, <3>1
      <4> QED  BY <1>1, <1>3, <1>5, <1>7, <4>1
    <3>2. CASE k # Len(parts) + 1
      <4>1. k \in DOMAIN parts /\ parts'[k] = parts[k]  BY <1>8, <1>14, <3>2, Zenon
      <4>2. parts[k] \in Nat \X Nat  BY <1>6, <4>1
      <4>3. /\ 1 <= parts[k][1] /\ parts[k][1] <= parts[k][2] /\ parts[k][2] < from
            /\ Bytes(parts[k][1], parts[k][2]) <= MaxBytes
        BY <4>1 DEF PartedInv, PartsFit
      <4> QED  BY <1>1, <1>5, <1>7, <4>1, <4>2, <4>3
    <3> QED  BY <3>1, <3>2
  <2> QED  BY <1>7, <2>0, <2>1 DEF PartsFit
<1>11. PartsFollow'
  <2>1. ASSUME NEW k \in DOMAIN parts', k - 1 \in DOMAIN parts'
        PROVE  parts'[k - 1][2] < parts'[k][1]
    <3>1. CASE k = Len(parts) + 1
      <4>1. parts'[k] = <<from, e>> /\ k - 1 \in DOMAIN parts /\ parts'[k - 1] = parts[k - 1]
        BY <1>6, <1>8, <2>1, <3>1
      <4>2. parts[k - 1][2] < from  BY <4>1 DEF PartedInv, PartsFit
      <4> QED  BY <4>1, <4>2
    <3>2. CASE k # Len(parts) + 1
      <4>1. k \in DOMAIN parts /\ parts'[k] = parts[k]  BY <1>8, <1>14, <3>2, Zenon
      <4>2. k - 1 \in DOMAIN parts
        <5>1. PICK n \in Nat : n = Len(parts) /\ DOMAIN parts = 1..n
                                /\ DOMAIN parts' = 1..(n + 1)
          BY <1>6, <1>8
        <5>2. k \in 1..n /\ k - 1 \in 1..(n + 1)  BY <2>1, <4>1, <5>1
        <5>3. k - 1 \in 1..n  BY <5>1, <5>2
        <5> QED  BY <5>1, <5>3
      <4>3. parts'[k - 1] = parts[k - 1]  BY <1>8, <4>2
      <4> QED  BY <1>1, <4>1, <4>2, <4>3 DEF PartedInv, PartsFollow
    <3> QED  BY <3>1, <3>2
  <2>2. ASSUME NEW i \in 1..(r - 1)
        PROVE  text[i] = Newline \/ \E k \in DOMAIN parts' : i \in parts'[k][1]..parts'[k][2]
    <3>1. CASE i < from
      <4>1. i \in 1..(from - 1)  BY <1>1, <3>1
      <4>2. text[i] = Newline \/ \E k \in DOMAIN parts : i \in parts[k][1]..parts[k][2]
        BY <1>1, <4>1 DEF PartedInv, PartsFollow
      <4>3. \A k \in DOMAIN parts : k \in DOMAIN parts' /\ parts'[k] = parts[k]  BY <1>6, <1>8
      <4> QED  BY <4>2, <4>3
    <3>2. CASE from <= i /\ i <= e
      <4>1. Len(parts) + 1 \in DOMAIN parts'  BY <1>6, <1>8
      <4>2. PICK k \in DOMAIN parts' : parts'[k] = <<from, e>>  BY <1>8, <4>1
      <4>3. parts'[k][1] = from /\ parts'[k][2] = e  BY <4>2
      <4>4. i \in parts'[k][1]..parts'[k][2]  BY <1>1, <3>2, <4>3
      <4> QED  BY <4>4
    <3>3. CASE e < i
      <4>1. i \in (e + 1)..(r - 1)  BY <1>1, <3>3
      <4>2. \A k \in (e + 1)..(r - 1) : text[k] = Newline  BY <1>5, <1>7
      <4> QED  BY <4>1, <4>2
    <3> QED  BY <1>1, <3>1, <3>2, <3>3
  <2> QED  BY <1>4, <1>7, <2>1, <2>2 DEF PartsFollow
<1>12. CutBeforePost'
  <2>1. call.at = "idle" /\ shown = <<>> /\ ~ answered
    BY <1>1 DEF PartedInv, CutBeforePost
  <2> QED  BY <1>4, <1>8, <2>1 DEF CutBeforePost
<1>13. PostsInOrder' /\ AnsweredIsShown' /\ PostsAreCounted'
  <2>1. from <= Len(text)  BY <1>1
  <2> QED  BY <1>4, <2>1, CuttingShowsNothing
<1> QED  BY <1>9, <1>10, <1>11, <1>12, <1>13 DEF PartedInv

LEMMA ClampKeeps ==
  ASSUME PartedInv, ClampText
  PROVE  PartedInv'
<1>1. Message /\ Len(text) \in Nat /\ from \in 1..Len(text) /\ driver = "telegram"
  BY DEF PartedInv, PartedTypes, Message, ClampText
<1>2. PICK e \in 1..Len(text) : e = Full(1) /\ Bytes(1, e) <= MaxBytes
  <2>1. 1 \in 1..Len(text)  BY <1>1
  <2> QED  BY <1>1, <2>1, FullFits
<1>3. /\ parts' = <<<<1, e>>>> /\ from' = Len(text) + 1
      /\ UNCHANGED <<driver, text, call, attempts, shown, answered>>
  BY <1>2 DEF ClampText
<1>4. parts' \in Seq(Nat \X Nat) /\ parts' # <<>> /\ DOMAIN parts' = {1} /\ parts'[1] = <<1, e>>
  BY <1>1, <1>3
<1>5. PartedTypes'
  BY <1>1, <1>3, <1>4 DEF PartedInv, PartedTypes, Message
<1>6. PartsFit'
  <2>1. Bytes(1, e)' <= MaxBytes  BY <1>2, <1>3 DEF Bytes, Width
  <2> QED  BY <1>1, <1>3, <1>4, <2>1 DEF PartsFit
<1>7. PartsFollow'  BY <1>1, <1>3 DEF PartsFollow
<1>8. CutBeforePost'  BY <1>1, <1>3, <1>4 DEF CutBeforePost
<1>9. PostsInOrder' /\ AnsweredIsShown' /\ PostsAreCounted'
  <2>1. from <= Len(text)  BY <1>1
  <2> QED  BY <1>3, <2>1, CuttingShowsNothing
<1> QED  BY <1>5, <1>6, <1>7, <1>8, <1>9 DEF PartedInv


\* Nothing but the posting changes.
PostingOnly == UNCHANGED <<driver, text, from, parts>>

\* What a step of a send leaves alone.
LEMMA PostingKeepsParts ==
  ASSUME PartedInv, PostingOnly
  PROVE  /\ Message' /\ driver' \in {"wechat", "discord", "telegram"}
         /\ from' \in 1..(Len(text') + 1) /\ parts' \in Seq(Nat \X Nat)
         /\ PartsFit' /\ PartsFollow'
<1>1. \A a, b : Bytes(a, b)' = Bytes(a, b)  BY DEF PostingOnly, Bytes, Width
<1>2. PartsFit'  BY <1>1 DEF PartedInv, PartsFit, PostingOnly
<1>3. PartsFollow'  BY DEF PartedInv, PartsFollow, PostingOnly
<1> QED  BY <1>2, <1>3 DEF PartedInv, PartedTypes, Message, PostingOnly

\* A part that arrives is there once more.
LEMMA ArrivingAddsOne ==
  ASSUME PartedInv, NEW p \in Nat, shown' = Append(shown, p)
  PROVE  /\ Cardinality(Places(p))' = Cardinality(Places(p)) + 1
         /\ \A k \in Nat : k # p => Cardinality(Places(k))' = Cardinality(Places(k))
         /\ \A k \in Nat : Cardinality(Places(k)) \in Nat
<1>1. shown \in Seq(Nat) /\ Len(shown) \in Nat  BY DEF PartedInv, PartedTypes
<1>2. PICK n \in Nat : n = Len(shown)  BY <1>1
<1>3. /\ DOMAIN shown = 1..n /\ DOMAIN shown' = 1..(n + 1) /\ shown'[n + 1] = p
      /\ \A i \in 1..n : shown'[i] = shown[i]
  BY <1>1, <1>2
<1>4. \A i : i \in 1..(n + 1) <=> i \in 1..n \/ i = n + 1  BY <1>2
<1>5. n + 1 \notin 1..n  BY <1>2
<1>6. ASSUME NEW k \in Nat  PROVE IsFiniteSet(Places(k)) /\ Cardinality(Places(k)) \in Nat
  <2>1. IsFiniteSet(1..n)
    <3>1. 1 \in Int /\ n \in Int  BY <1>2
    <3> QED  BY <3>1, FS_Interval
  <2>2. Places(k) \in SUBSET (1..n)  BY <1>3 DEF Places
  <2>3. IsFiniteSet(Places(k))  BY <2>1, <2>2, FS_Subset
  <2> QED  BY <2>3, FS_CardinalityType
<1>7. Cardinality(Places(p))' = Cardinality(Places(p)) + 1
  <2>1. Places(p)' = Places(p) \cup {n + 1}  BY <1>3, <1>4 DEF Places
  <2>2. n + 1 \notin Places(p)  BY <1>3, <1>5 DEF Places
  <2>3. Cardinality(Places(p) \cup {n + 1}) = Cardinality(Places(p)) + 1
    BY <1>6, <2>2, FS_AddElement
  <2> QED  BY <2>1, <2>3
<1>8. ASSUME NEW k \in Nat, k # p  PROVE Cardinality(Places(k))' = Cardinality(Places(k))
  <2>1. Places(k)' = Places(k)  BY <1>3, <1>4, <1>8 DEF Places
  <2> QED  BY <2>1
<1> QED  BY <1>6, <1>7, <1>8

\* A send begins.
LEMMA BeginKeeps ==
  ASSUME PartedInv, BeginPost
  PROVE  PartedInv'
<1>1. /\ call' = [Idle0 EXCEPT !.at = "post"] /\ attempts' = attempts + 1
      /\ PostingOnly /\ UNCHANGED <<shown, answered>>
      /\ from > Len(text) /\ call.at = "idle" /\ ~ answered
  BY DEF BeginPost, PostingOnly
<1>2. call'.at = "post" /\ call'.part = 1
      /\ call' \in [at : {"idle", "post"}, part : Nat, tries : Nat, ended : BOOLEAN]
  BY <1>1 DEF Idle0
<1>3. parts \in Seq(Nat \X Nat) /\ parts # <<>> /\ shown \in Seq(Nat) /\ attempts \in Nat
  BY <1>1 DEF PartedInv, PartedTypes, CutBeforePost
<1>4. PartedTypes'
  BY <1>1, <1>2, <1>3, PostingKeepsParts DEF PartedInv, PartedTypes
<1>5. CutBeforePost'
  <2>1. Len(text) \in Nat /\ from \in Nat  BY DEF PartedInv, PartedTypes, Message
  <2> QED  BY <1>1, <1>3, <2>1 DEF CutBeforePost, PostingOnly
<1>6. PostsInOrder'
  <2>1. Len(parts) \in Nat /\ Len(parts) >= 1 /\ Len(shown) \in Nat  BY <1>3
  <2>2. call'.part \in 1..Len(parts)' /\ ~ answered' /\ Len(shown') >= call'.part - 1
    BY <1>1, <1>2, <2>1 DEF PostingOnly
  <2>3. 1..(call'.part - 1) = {}  BY <1>2
  <2> QED  BY <2>2, <2>3 DEF PostsInOrder
<1>7. AnsweredIsShown'  BY <1>1 DEF AnsweredIsShown
<1>8. PostsAreCounted'
  <2>1. ASSUME NEW k \in DOMAIN parts'
        PROVE  Cardinality(Places(k))' + StillDue(k)' <= attempts'
    <3>1. k \in DOMAIN parts /\ k \in Nat  BY <1>1, <1>3, <2>1 DEF PostingOnly
    <3>2. Cardinality(Places(k)) + StillDue(k) <= attempts
      BY <3>1 DEF PartedInv, PostsAreCounted
    <3>3. StillDue(k) = 0  BY <1>1 DEF StillDue
    <3>4. StillDue(k)' <= 1 /\ StillDue(k)' \in Nat  BY DEF StillDue
    <3>5. Places(k)' = Places(k)  BY <1>1 DEF Places
    <3>6. Cardinality(Places(k)) \in Nat
      <4>1. IsFiniteSet(DOMAIN shown)
        <5>1. PICK n \in Nat : DOMAIN shown = 1..n  BY <1>3
        <5>2. 1 \in Int /\ n \in Int  BY <5>1
        <5> QED  BY <5>1, <5>2, FS_Interval
      <4>2. Places(k) \in SUBSET DOMAIN shown  BY DEF Places
      <4>3. IsFiniteSet(Places(k))  BY <4>1, <4>2, FS_Subset
      <4> QED  BY <4>3, FS_CardinalityType
    <3> QED  BY <1>1, <1>3, <3>2, <3>3, <3>4, <3>5, <3>6
  <2> QED  BY <2>1 DEF PostsAreCounted
<1> QED  BY <1>1, <1>4, <1>5, <1>6, <1>7, <1>8, PostingKeepsParts DEF PartedInv

\* A send goes on with the part it is at, or ends.
LEMMA NothingArrives ==
  ASSUME PartedInv, PostingOnly, UNCHANGED <<attempts, shown, answered>>, call.at = "post",
         call' \in [at : {"idle", "post"}, part : Nat, tries : Nat, ended : BOOLEAN],
         call'.at = "post" => call'.part = call.part
  PROVE  PartedInv'
<1>1. PartedTypes'  BY PostingKeepsParts DEF PartedInv, PartedTypes
<1>2. from > Len(text)
  <2>1. Len(text) \in Nat /\ from \in Nat  BY DEF PartedInv, PartedTypes, Message
  <2> QED  BY <2>1 DEF PartedInv, CutBeforePost
<1>3. CutBeforePost'
  <2>1. Len(text) \in Nat /\ from \in Nat  BY DEF PartedInv, PartedTypes, Message
  <2> QED  BY <1>2, <2>1 DEF PartedInv, CutBeforePost, PostingOnly
<1>4. PostsInOrder'  BY DEF PartedInv, PostsInOrder, PostingOnly
<1>5. AnsweredIsShown'  BY DEF PartedInv, AnsweredIsShown, PostingOnly
<1>6. PostsAreCounted'
  <2>1. ASSUME NEW k \in DOMAIN parts'
        PROVE  Cardinality(Places(k))' + StillDue(k)' <= attempts'
    <3>1. k \in DOMAIN parts  BY DEF PostingOnly
    <3>2. k \in Nat /\ shown \in Seq(Nat)  BY <3>1 DEF PartedInv, PartedTypes
    <3>3. Cardinality(Places(k)) + StillDue(k) <= attempts
      BY <3>1 DEF PartedInv, PostsAreCounted
    <3>4. StillDue(k)' <= StillDue(k) /\ StillDue(k) \in Nat /\ StillDue(k)' \in Nat
      BY DEF StillDue
    <3>5. Places(k)' = Places(k)  BY DEF Places
    <3>6. Cardinality(Places(k)) \in Nat
      <4>1. IsFiniteSet(DOMAIN shown)
        <5>1. PICK n \in Nat : DOMAIN shown = 1..n  BY <3>2
        <5>2. 1 \in Int /\ n \in Int  BY <5>1
        <5> QED  BY <5>1, <5>2, FS_Interval
      <4>2. Places(k) \in SUBSET DOMAIN shown  BY DEF Places
      <4>3. IsFiniteSet(Places(k))  BY <4>1, <4>2, FS_Subset
      <4> QED  BY <4>3, FS_CardinalityType
    <3>7. attempts \in Nat  BY DEF PartedInv, PartedTypes
    <3> QED  BY <3>3, <3>4, <3>5, <3>6, <3>7
  <2> QED  BY <2>1 DEF PostsAreCounted
<1> QED  BY <1>1, <1>3, <1>4, <1>5, <1>6, PostingKeepsParts DEF PartedInv

\* The part a send is at arrives, and the send goes on with the next or ends.
LEMMA PartArrives ==
  ASSUME PartedInv, PostingOnly, UNCHANGED attempts, call.at = "post",
         shown' = Append(shown, call.part),
         call' \in [at : {"idle", "post"}, part : Nat, tries : Nat, ended : BOOLEAN],
         answered' \in BOOLEAN,
         call'.at = "post" => call'.part = call.part + 1 /\ call.part # Len(parts) /\ ~ answered',
         answered' => call'.at = "idle" /\ call.part = Len(parts)
  PROVE  PartedInv'
<1>1. PICK p \in Nat : p = call.part  BY DEF PartedInv, PartedTypes
<1>2. PICK l \in Nat : l = Len(parts) /\ DOMAIN parts = 1..l
  BY DEF PartedInv, PartedTypes
<1>3. PICK n \in Nat : n = Len(shown) /\ DOMAIN shown = 1..n /\ shown \in Seq(Nat)
  BY DEF PartedInv, PartedTypes
<1>4. /\ shown' \in Seq(Nat) /\ Len(shown') = n + 1 /\ shown'[n + 1] = p
      /\ \A i \in 1..n : shown'[i] = shown[i]
  BY <1>1, <1>3
<1>5. /\ p \in 1..l /\ n >= p - 1
      /\ \A k \in 1..(p - 1) : shown[n - (p - 1) + k] = k
  BY <1>1, <1>2, <1>3 DEF PartedInv, PostsInOrder
<1>6. \A k \in 1..p : shown'[n + 1 - p + k] = k
  <2>1. ASSUME NEW k \in 1..p  PROVE shown'[n + 1 - p + k] = k
    <3>1. CASE k = p
      <4>1. n + 1 - p + k = n + 1  BY <1>1, <3>1
      <4> QED  BY <1>4, <3>1, <4>1
    <3>2. CASE k # p
      <4>1. k \in 1..(p - 1) /\ n - (p - 1) + k \in 1..n  BY <1>1, <1>5, <3>2
      <4>2. n + 1 - p + k = n - (p - 1) + k  BY <1>1
      <4>3. shown[n - (p - 1) + k] = k  BY <1>5, <4>1
      <4>4. shown'[n - (p - 1) + k] = shown[n - (p - 1) + k]  BY <1>4, <4>1
      <4> QED  BY <4>2, <4>3, <4>4
    <3> QED  BY <3>1, <3>2
  <2> QED  BY <2>1
<1>7. PartedTypes'  BY <1>4, PostingKeepsParts DEF PartedInv, PartedTypes
<1>8. from > Len(text) /\ from' > Len(text') /\ from \in Nat /\ Len(text) \in Nat
  <2>1. Len(text) \in Nat /\ from \in Nat  BY DEF PartedInv, PartedTypes, Message
  <2> QED  BY <2>1 DEF PartedInv, CutBeforePost, PostingOnly
<1>9. CutBeforePost'
  BY <1>8 DEF PartedInv, CutBeforePost, PostingOnly
<1>10. PostsInOrder'
  <2>1. SUFFICES ASSUME call'.at = "post"  PROVE PostsInOrder'  BY DEF PostsInOrder
  <2>2. call'.part = p + 1 /\ p # l /\ ~ answered'  BY <1>1, <1>2, <2>1
  <2>3. p + 1 \in 1..l /\ n + 1 >= p /\ p + 1 - 1 = p  BY <1>1, <1>2, <1>3, <1>5, <2>2
  <2>4. Len(parts') = l  BY <1>2 DEF PostingOnly
  <2>5. n + 1 - (p + 1 - 1) = n + 1 - p  BY <1>1, <1>3
  <2>6. call'.part \in 1..Len(parts') /\ Len(shown') >= call'.part - 1
    BY <1>4, <2>2, <2>3, <2>4
  <2>7. \A k \in 1..(call'.part - 1) : shown'[Len(shown') - (call'.part - 1) + k] = k
    <3>1. call'.part - 1 = p  BY <1>1, <2>2
    <3>2. Len(shown') - p = n + 1 - p  BY <1>4
    <3> QED  BY <1>6, <3>1, <3>2
  <2> QED  BY <2>2, <2>6, <2>7 DEF PostsInOrder
<1>11. AnsweredIsShown'
  <2>1. SUFFICES ASSUME answered'  PROVE AnsweredIsShown'  BY DEF AnsweredIsShown
  <2>2. p = l /\ Len(parts') = l /\ DOMAIN parts' = 1..l
    BY <1>1, <1>2, <2>1 DEF PostingOnly
  <2>3. Len(shown') >= Len(parts')  BY <1>1, <1>3, <1>4, <1>5, <2>2
  <2>4. Len(shown') - Len(parts') = n + 1 - p  BY <1>4, <2>2
  <2>5. \A k \in DOMAIN parts' : shown'[Len(shown') - Len(parts') + k] = k
    BY <1>6, <2>2, <2>4
  <2> QED  BY <2>3, <2>5 DEF AnsweredIsShown
<1>12. PostsAreCounted'
  <2>1. ASSUME NEW k \in DOMAIN parts'
        PROVE  Cardinality(Places(k))' + StillDue(k)' <= attempts'
    <3>1. k \in DOMAIN parts /\ k \in Nat  BY <1>2, <2>1 DEF PostingOnly
    <3>2. Cardinality(Places(k)) + StillDue(k) <= attempts
      BY <3>1 DEF PartedInv, PostsAreCounted
    <3>3. /\ Cardinality(Places(p))' = Cardinality(Places(p)) + 1
          /\ \A j \in Nat : j # p => Cardinality(Places(j))' = Cardinality(Places(j))
          /\ \A j \in Nat : Cardinality(Places(j)) \in Nat
      <4>1. shown' = Append(shown, p)  BY <1>1
      <4> QED  BY <4>1, ArrivingAddsOne
    <3>4. attempts \in Nat  BY DEF PartedInv, PartedTypes
    <3>5. CASE k = p
      <4>1. StillDue(k) = 1  BY <1>1, <3>5 DEF StillDue
      <4>2. StillDue(k)' = 0  BY <1>1, <3>5 DEF StillDue
      <4> QED  BY <3>1, <3>2, <3>3, <3>4, <3>5, <4>1, <4>2
    <3>6. CASE k # p
      <4>1. StillDue(k)' <= StillDue(k) /\ StillDue(k) \in Nat /\ StillDue(k)' \in Nat
        BY <1>1, <3>1, <3>6 DEF StillDue
      <4>2. Cardinality(Places(k))' = Cardinality(Places(k)) /\ Cardinality(Places(k)) \in Nat
        BY <3>1, <3>3, <3>6
      <4> QED  BY <3>2, <3>4, <4>1, <4>2
    <3> QED  BY <3>5, <3>6
  <2> QED  BY <2>1 DEF PostsAreCounted
<1> QED  BY <1>7, <1>9, <1>10, <1>11, <1>12, PostingKeepsParts DEF PartedInv

\* Every step keeps the invariant.
LEMMA PartedSteps ==
  PartedInv /\ [PartedNext]_partedVars => PartedInv'
<1> SUFFICES ASSUME PartedInv, [PartedNext]_partedVars  PROVE PartedInv'  OBVIOUS
<1> DEFINE Calls == [at : {"idle", "post"}, part : Nat, tries : Nat, ended : BOOLEAN]
<1>1. Idle0 \in Calls /\ Idle0.at = "idle"  BY DEF Idle0
<1>2. call \in Calls  BY DEF PartedInv, PartedTypes
<1>3. CASE SplitText  BY <1>3, SplitKeeps
<1>4. CASE ClampText  BY <1>4, ClampKeeps
<1>5. CASE BeginPost  BY <1>5, BeginKeeps
<1>6. CASE EndSendContext
  <2>1. call' = [call EXCEPT !.ended = TRUE] /\ PostingOnly
        /\ UNCHANGED <<attempts, shown, answered>> /\ call.at = "post"
    BY <1>6 DEF EndSendContext, PostingOnly
  <2>2. call' \in Calls /\ call'.part = call.part  BY <1>2, <2>1
  <2> QED  BY <2>1, <2>2, NothingArrives
<1>7. CASE PostPart
  <2>1. shown' = Append(shown, call.part) /\ PostingOnly /\ UNCHANGED attempts /\ call.at = "post"
    BY <1>7 DEF PostPart, PostingOnly
  <2>2. ~ answered /\ answered \in BOOLEAN  BY <2>1 DEF PartedInv, PostsInOrder, PartedTypes
  <2>3. CASE call.part = Len(parts)
    <3>1. call' = Idle0 /\ answered' = TRUE  BY <1>7, <2>3 DEF PostPart
    <3> QED  BY <1>1, <2>1, <2>3, <3>1, PartArrives
  <2>4. CASE call.part # Len(parts)
    <3>1. call' = [call EXCEPT !.part = @ + 1, !.tries = 0] /\ answered' = answered
      BY <1>7, <2>4 DEF PostPart
    <3>2. call' \in Calls /\ call'.part = call.part + 1
      <4>1. /\ call'.at = call.at /\ call'.ended = call.ended /\ call'.tries = 0
            /\ call'.part = call.part + 1 /\ call.part + 1 \in Nat
        BY <1>2, <3>1
      <4>2. call' = [x \in {"at", "part", "tries", "ended"} |-> call'[x]]  BY <1>2, <3>1
      <4>3. 0 \in Nat /\ call.at \in {"idle", "post"} /\ call.ended \in BOOLEAN  BY <1>2
      <4> QED  BY <4>1, <4>2, <4>3
    <3> QED  BY <2>1, <2>2, <2>4, <3>1, <3>2, PartArrives
  <2> QED  BY <2>3, <2>4
<1>8. CASE PostRefused
  <2>1. PostingOnly /\ UNCHANGED <<attempts, shown, answered>> /\ call.at = "post"
        /\ (call' = Idle0 \/ call' = [call EXCEPT !.tries = @ + 1])
    BY <1>8 DEF PostRefused, PostingOnly, Fail
  <2>2. call' \in Calls /\ (call'.at = "post" => call'.part = call.part)
    BY <1>1, <1>2, <2>1
  <2> QED  BY <2>1, <2>2, NothingArrives
<1>9. CASE PostFails
  <2>1. PostingOnly /\ UNCHANGED <<attempts, answered>> /\ call.at = "post" /\ call' = Idle0
        /\ (shown' = shown \/ shown' = Append(shown, call.part))
    BY <1>9 DEF PostFails, PostingOnly, Fail
  <2>2. ~ answered /\ answered \in BOOLEAN  BY <2>1 DEF PartedInv, PostsInOrder, PartedTypes
  <2>3. CASE shown' = shown  BY <1>1, <2>1, <2>3, NothingArrives
  <2>4. CASE shown' = Append(shown, call.part)  BY <1>1, <2>1, <2>2, <2>4, PartArrives
  <2> QED  BY <2>1, <2>3, <2>4
<1>10. CASE UNCHANGED partedVars
  <2>1. PostingOnly /\ UNCHANGED <<call, attempts, shown, answered>>
    BY <1>10 DEF partedVars, PostingOnly
  <2>2. PartedTypes'  BY <2>1, PostingKeepsParts DEF PartedInv, PartedTypes
  <2>3. CutBeforePost' /\ PostsInOrder' /\ AnsweredIsShown'
    BY <2>1 DEF PostingOnly, PartedInv, CutBeforePost, PostsInOrder, AnsweredIsShown
  <2>4. PostsAreCounted'
    BY <2>1 DEF PostingOnly, PartedInv, PostsAreCounted, Places, StillDue
  <2> QED  BY <2>1, <2>2, <2>3, <2>4, PostingKeepsParts DEF PartedInv
<1> QED  BY <1>3, <1>4, <1>5, <1>6, <1>7, <1>8, <1>9, <1>10 DEF PartedNext

\* What is kept says what was promised.
LEMMA PartedIsWhole ==
  PartedInv => MessageIsWhole
<1> SUFFICES ASSUME PartedInv  PROVE MessageIsWhole  OBVIOUS
<1>1. parts \in Seq(Nat \X Nat) /\ shown \in Seq(Nat) /\ attempts \in Nat
  BY DEF PartedInv, PartedTypes
<1>2. PICK l \in Nat : l = Len(parts) /\ DOMAIN parts = 1..l  BY <1>1
<1>3. SplitLosesNothing
  <2>1. \A k \in DOMAIN parts :
          parts[k][1] <= parts[k][2] /\ Bytes(parts[k][1], parts[k][2]) <= MaxBytes
    <3> USE DEF PartedInv, PartsFit
    <3> QED  OBVIOUS
  <2>2. ASSUME driver # "telegram", NEW k \in 2..Len(parts)
        PROVE  parts[k - 1][2] < parts[k][1]
    <3>1. k \in DOMAIN parts /\ k - 1 \in DOMAIN parts  BY <1>2
    <3> QED  BY <2>2, <3>1 DEF PartedInv, PartsFollow
  <2>3. ASSUME driver # "telegram",
               NEW i \in (1..(from - 1)) \ UNION {parts[k][1]..parts[k][2] : k \in DOMAIN parts}
        PROVE  text[i] = Newline
    BY <2>3 DEF PartedInv, PartsFollow
  <2> QED  BY <2>1, <2>2, <2>3 DEF SplitLosesNothing
<1>4. ConfirmedIsWhole
  <2>1. ASSUME NEW k \in DOMAIN parts
        PROVE  Cardinality({i \in DOMAIN shown : shown[i] = k}) <= attempts
    <3>1. Cardinality(Places(k)) + StillDue(k) <= attempts
      BY DEF PartedInv, PostsAreCounted
    <3>2. StillDue(k) \in Nat  BY DEF StillDue
    <3>3. Cardinality(Places(k)) \in Nat
      <4>1. IsFiniteSet(DOMAIN shown)
        <5>1. PICK n \in Nat : DOMAIN shown = 1..n  BY <1>1
        <5>2. 1 \in Int /\ n \in Int  BY <5>1
        <5> QED  BY <5>1, <5>2, FS_Interval
      <4>2. Places(k) \in SUBSET DOMAIN shown  BY DEF Places
      <4>3. IsFiniteSet(Places(k))  BY <4>1, <4>2, FS_Subset
      <4> QED  BY <4>3, FS_CardinalityType
    <3>4. Cardinality(Places(k)) <= attempts  BY <1>1, <3>1, <3>2, <3>3
    <3> QED  BY <3>4 DEF Places
  <2> QED  BY <2>1 DEF ConfirmedIsWhole, PartedInv, AnsweredIsShown
<1> QED  BY <1>3, <1>4 DEF MessageIsWhole

\* Whatever the text and wherever a send fails, the parts that were posted are
\* the text but for newlines, each fits, a send that returned without an error
\* has put all of them on the board in their order, and no part is there more
\* often than the message was tried (splitWechatText, splitDiscordText and the
\* loops of the Send methods).
THEOREM MessagesArriveWhole ==
  PartedSpec => []MessageIsWhole
<1>1. PartedSpec => []PartedInv  BY PartedStarts, PartedSteps, PTL DEF PartedSpec
<1> QED  BY <1>1, PartedIsWhole, PTL

-----------------------------------------------------------------------------
(* The subscribers and who walks over them: h stands for the arrays, s for   *)
(* the slice and w for a walk.                                               *)

Rows == [Room -> SUBSET Users]
Slices == [array : Nat, len : Nat]
Walks == [at : {"idle", "ask", "store", "take", "walk"}, answer : Seq(Users), array : Nat,
          len : Nat, next : Nat, due : SUBSET Users, reached : [Users -> Nat], left : Nat]

\* A slice holds each subscriber at one place.
SliceGood(h, s) ==
  /\ h \in Seq(Rows) /\ s \in Slices /\ s.array \in 1..Len(h) /\ s.len <= Cardinality(Users)
  /\ \A p \in 1..s.len : \E u \in Users : h[s.array][p] = {u}
  /\ \A p, q \in 1..s.len : h[s.array][p] = h[s.array][q] => p = q

\* u is still to come, whoever leaves or joins: not behind the end of a slice
\* that is written to.
Ahead(h, s, w, u) ==
  \E p \in w.next..w.len : (s.array = w.array => p <= s.len) /\ h[w.array][p] = {u}
PassedOver(h, s, w) == {u \in w.due : w.reached[u] = 0 /\ ~ Ahead(h, s, w, u)}
\* The places where the walk may meet u, those behind the end among them.
Meets(h, s, w, u) ==
  {p \in w.next..w.len : (s.array = w.array /\ p > s.len) \/ u \in h[w.array][p]}

WalkGood(h, s, w) ==
  /\ w.at \in {"ask", "store", "take"} => w.reached = [u \in Users |-> 0]
  /\ w.at = "store" => /\ Len(w.answer) <= Cardinality(Users)
                       /\ \A p, q \in 1..Len(w.answer) : w.answer[p] = w.answer[q] => p = q
  /\ w.at = "walk" =>
       /\ w.array \in 1..Len(h) /\ w.len <= Cardinality(Users) /\ w.next \in 1..(w.len + 1)
       /\ Cardinality(PassedOver(h, s, w)) <= w.left
       /\ \A u \in Users : w.reached[u] + Cardinality(Meets(h, s, w, u)) <= 1 + w.left

ListedIn(h, s) == UNION {h[s.array][k] : k \in 1..s.len}

FollowerInv ==
  /\ handler \in BOOLEAN /\ followers \in SUBSET Users
  /\ walk \in [Broadcasts -> Walks]
  /\ SliceGood(heap, slice) /\ \A b \in Broadcasts : WalkGood(heap, slice, walk[b])
  /\ KnowsFollowers

LEMMA UsersAreCounted ==
  Cardinality(Users) \in Nat /\ \A S \in SUBSET Users : IsFiniteSet(S) /\ Cardinality(S) \in Nat
<1>1. IsFiniteSet(Users)  BY SubscribersAssumption
<1>2. ASSUME NEW S \in SUBSET Users  PROVE IsFiniteSet(S)  BY <1>1, FS_Subset
<1> QED  BY <1>1, <1>2, FS_CardinalityType

\* The sets of a walk are finite.
LEMMA WalksAreFinite ==
  ASSUME NEW w \in Walks, NEW h, NEW s
  PROVE  /\ IsFiniteSet(PassedOver(h, s, w)) /\ Cardinality(PassedOver(h, s, w)) \in Nat
         /\ \A u : IsFiniteSet(Meets(h, s, w, u)) /\ Cardinality(Meets(h, s, w, u)) \in Nat
<1>1. PassedOver(h, s, w) \in SUBSET Users  BY DEF PassedOver, Walks
<1>2. IsFiniteSet(w.next..w.len)
  <2>1. w.next \in Int /\ w.len \in Int  BY DEF Walks
  <2> QED  BY <2>1, FS_Interval
<1>3. ASSUME NEW u  PROVE IsFiniteSet(Meets(h, s, w, u))
  <2>1. Meets(h, s, w, u) \in SUBSET (w.next..w.len)  BY DEF Meets
  <2> QED  BY <1>2, <2>1, FS_Subset
<1>4. \A u : Cardinality(Meets(h, s, w, u)) \in Nat  BY <1>3, FS_CardinalityType
<1> QED  BY <1>1, <1>3, <1>4, UsersAreCounted

\* A walk that misses nobody more and meets nobody more often.
LEMMA WalkGoesOn ==
  ASSUME NEW h, NEW s, NEW w \in Walks, NEW h2, NEW s2, NEW w2 \in Walks,
         WalkGood(h, s, w), w.at = "walk", w2.at = "walk",
         w2.array \in 1..Len(h2), w2.len = w.len, w2.next \in 1..(w2.len + 1),
         w2.left = w.left, PassedOver(h2, s2, w2) \subseteq PassedOver(h, s, w),
         \A u \in Users : w2.reached[u] + Cardinality(Meets(h2, s2, w2, u))
                          <= w.reached[u] + Cardinality(Meets(h, s, w, u))
  PROVE  WalkGood(h2, s2, w2)
<1>1. Cardinality(PassedOver(h2, s2, w2)) <= Cardinality(PassedOver(h, s, w))
  BY WalksAreFinite, FS_Subset
<1>2. Cardinality(PassedOver(h, s, w)) <= w.left /\ w.len <= Cardinality(Users)
      /\ \A u \in Users : w.reached[u] + Cardinality(Meets(h, s, w, u)) <= 1 + w.left
  BY DEF WalkGood
<1>3. /\ Cardinality(PassedOver(h2, s2, w2)) \in Nat /\ Cardinality(PassedOver(h, s, w)) \in Nat
      /\ \A u : Cardinality(Meets(h2, s2, w2, u)) \in Nat /\ Cardinality(Meets(h, s, w, u)) \in Nat
  <2>1. /\ Cardinality(PassedOver(h2, s2, w2)) \in Nat
        /\ \A u : Cardinality(Meets(h2, s2, w2, u)) \in Nat
    BY WalksAreFinite
  <2>2. /\ Cardinality(PassedOver(h, s, w)) \in Nat
        /\ \A u : Cardinality(Meets(h, s, w, u)) \in Nat
    BY WalksAreFinite
  <2> QED  BY <2>1, <2>2
<1>4. w.left \in Nat /\ \A u \in Users : w.reached[u] \in Nat /\ w2.reached[u] \in Nat
  BY DEF Walks
<1>5. Cardinality(PassedOver(h2, s2, w2)) <= w2.left  BY <1>1, <1>2, <1>3, <1>4
<1>6. ASSUME NEW u \in Users
      PROVE  w2.reached[u] + Cardinality(Meets(h2, s2, w2, u)) <= 1 + w2.left
  <2>1. PICK c \in Nat, c2 \in Nat : c = Cardinality(Meets(h, s, w, u))
                                   /\ c2 = Cardinality(Meets(h2, s2, w2, u))
    BY <1>3
  <2>2. PICK r \in Nat, r2 \in Nat : r = w.reached[u] /\ r2 = w2.reached[u]  BY <1>4
  <2>3. r2 + c2 <= r + c /\ r + c <= 1 + w.left  BY <1>2, <2>1, <2>2
  <2>4. r2 + c2 <= 1 + w2.left  BY <1>4, <2>3
  <2> QED  BY <2>1, <2>2, <2>4
<1> QED  BY <1>2, <1>5, <1>6 DEF WalkGood

\* What is at the places of a slice.
LEMMA ListedAre ==
  ASSUME NEW h, NEW s, SliceGood(h, s)
  PROVE  /\ ListedIn(h, s) \in SUBSET Users
         /\ \A u : u \in ListedIn(h, s) <=> \E p \in 1..s.len : h[s.array][p] = {u}
         /\ \A p \in 1..s.len : p \in Room
<1>1. s.len \in Nat /\ s.len <= Cardinality(Users)  BY DEF SliceGood, Slices
<1>2. \A p \in 1..s.len : \E u \in Users : h[s.array][p] = {u}  BY DEF SliceGood
<1>3. \A p \in 1..s.len : p \in Room  BY <1>1, UsersAreCounted DEF Room
<1>4. ASSUME NEW u  PROVE u \in ListedIn(h, s) <=> \E p \in 1..s.len : h[s.array][p] = {u}
  <2>1. u \in ListedIn(h, s) <=> \E p \in 1..s.len : u \in h[s.array][p]  BY DEF ListedIn
  <2>2. \A p \in 1..s.len : u \in h[s.array][p] <=> h[s.array][p] = {u}  BY <1>2
  <2> QED  BY <2>1, <2>2
<1>5. ListedIn(h, s) \in SUBSET Users  BY <1>2 DEF ListedIn
<1> QED  BY <1>3, <1>4, <1>5

\* There is room for somebody who is not listed.
LEMMA RoomForOneMore ==
  ASSUME NEW h, NEW s, SliceGood(h, s), NEW u \in Users, u \notin ListedIn(h, s)
  PROVE  s.len < Cardinality(Users) /\ s.len + 1 \in Room
<1> DEFINE f == [p \in 1..s.len |-> CHOOSE v \in Users : h[s.array][p] = {v}]
<1>1. s.len \in Nat  BY DEF SliceGood, Slices
<1>2. ASSUME NEW p \in 1..s.len  PROVE f[p] \in Users \ {u} /\ h[s.array][p] = {f[p]}
  <2>1. \E v \in Users : h[s.array][p] = {v}  BY DEF SliceGood
  <2>2. f[p] \in Users /\ h[s.array][p] = {f[p]}  BY <2>1
  <2>3. f[p] \in ListedIn(h, s)
    <3> HIDE DEF f
    <3> QED  BY <2>2, ListedAre
  <2> QED  BY <2>2, <2>3
<1>3. \A p, q \in 1..s.len : f[p] = f[q] => p = q
  <2>1. \A p, q \in 1..s.len : h[s.array][p] = h[s.array][q] => p = q  BY DEF SliceGood
  <2> HIDE DEF f
  <2> QED  BY <1>2, <2>1
<1>4. f \in Injection(1..s.len, Users \ {u})
  <2>1. f \in [1..s.len -> Users \ {u}]
    <3>1. f = [p \in 1..s.len |-> f[p]]  OBVIOUS
    <3> HIDE DEF f
    <3> QED  BY <1>2, <3>1
  <2> HIDE DEF f
  <2> QED  BY <1>3, <2>1 DEF Injection, IsInjective
<1>5. IsFiniteSet(1..s.len) /\ Cardinality(1..s.len) = s.len  BY <1>1, FS_Interval
<1>6. Cardinality(1..s.len) <= Cardinality(Users \ {u})
  <2> HIDE DEF f
  <2>1. IsFiniteSet(Users \ {u})  BY SubscribersAssumption, FS_RemoveElement
  <2> QED  BY <1>4, <2>1, FS_Injection
<1>7. Cardinality(Users \ {u}) = Cardinality(Users) - 1
  BY SubscribersAssumption, FS_RemoveElement
<1> QED  BY <1>1, <1>5, <1>6, <1>7, UsersAreCounted DEF Room

\* What appending and filling do.
InPlace(h, s, h2, s2, u) ==
  /\ h2 = [h EXCEPT ![s.array] = [@ EXCEPT ![s.len + 1] = {u}]]
  /\ s2 = [s EXCEPT !.len = @ + 1]
Moved(h, s, h2, s2, u) ==
  /\ h2 = Append(h, [h[s.array] EXCEPT ![s.len + 1] = {u}])
  /\ s2 = [array |-> Len(h) + 1, len |-> s.len + 1]
Filled(h, h2, s2, answer) ==
  /\ h2 = Append(h, [k \in Room |-> IF k <= Len(answer) THEN {answer[k]} ELSE {}])
  /\ s2 = [array |-> Len(h) + 1, len |-> Len(answer)]

\* Joining in place leaves the places before the end alone.
LEMMA JoinInPlace ==
  ASSUME NEW h, NEW s, NEW h2, NEW s2, NEW u \in Users, SliceGood(h, s), u \notin ListedIn(h, s),
         InPlace(h, s, h2, s2, u)
  PROVE  /\ SliceGood(h2, s2) /\ ListedIn(h2, s2) = ListedIn(h, s) \cup {u}
         /\ \A w \in Walks : WalkGood(h, s, w) => WalkGood(h2, s2, w)
<1>1. h \in Seq(Rows) /\ s \in Slices /\ s.array \in 1..Len(h)  BY DEF SliceGood
<1>2. s.len \in Nat /\ s.array \in Nat /\ s.len < Cardinality(Users) /\ s.len + 1 \in Room
  BY <1>1, RoomForOneMore DEF Slices
<1>3. s2 \in Slices /\ s2.array = s.array /\ s2.len = s.len + 1  BY <1>1, <1>2 DEF Slices, InPlace
<1>4. h[s.array] \in Rows /\ \A i \in 1..Len(h) : h[i] \in Rows  BY <1>1
<1>5. /\ h2[s.array][s.len + 1] = {u}
      /\ \A p : p # s.len + 1 => h2[s.array][p] = h[s.array][p]
      /\ h2[s.array] \in Rows
  <2>1. s.array \in DOMAIN h  BY <1>1
  <2>2. h2[s.array] = [h[s.array] EXCEPT ![s.len + 1] = {u}]  BY <2>1, Zenon DEF InPlace
  <2> QED  BY <1>2, <1>4, <2>2 DEF Rows
<1>6. h2 \in Seq(Rows) /\ Len(h2) = Len(h) /\ \A i : i # s.array => h2[i] = h[i]
  <2>1. [h[s.array] EXCEPT ![s.len + 1] = {u}] \in Rows  BY <1>2, <1>4 DEF Rows
  <2> QED  BY <1>1, <2>1 DEF InPlace
<1>7. \A p \in 1..s2.len : p \in 1..s.len \/ p = s.len + 1  BY <1>2, <1>3
<1>8. \A p \in 1..s.len : p \in 1..s2.len /\ p # s.len + 1 /\ h2[s.array][p] = h[s.array][p]
  BY <1>2, <1>3, <1>5
<1>9. s.len + 1 \in 1..s2.len  BY <1>2, <1>3
<1>10. /\ \A p \in 1..s.len : \E v \in Users : h[s.array][p] = {v}
       /\ \A p, q \in 1..s.len : h[s.array][p] = h[s.array][q] => p = q
       /\ \A p \in 1..s.len : h[s.array][p] # {u}
  BY ListedAre DEF SliceGood
<1>11. SliceGood(h2, s2)
  <2>1. \A p \in 1..s2.len : \E v \in Users : h2[s.array][p] = {v}
    BY <1>5, <1>7, <1>8, <1>10
  <2>2. \A p, q \in 1..s2.len : h2[s.array][p] = h2[s.array][q] => p = q
    BY <1>5, <1>7, <1>8, <1>10
  <2>3. s2.len <= Cardinality(Users)  BY <1>2, <1>3, UsersAreCounted
  <2>4. h2[s2.array] = h2[s.array] /\ s2.array \in 1..Len(h2)  BY <1>1, <1>3, <1>6
  <2>5. \A p \in 1..s2.len : \E v \in Users : h2[s2.array][p] = {v}  BY <2>1, <2>4, Zenon
  <2>6. \A p, q \in 1..s2.len : h2[s2.array][p] = h2[s2.array][q] => p = q
    BY <2>2, <2>4, Zenon
  <2> QED  BY <1>3, <1>6, <2>3, <2>4, <2>5, <2>6, Zenon DEF SliceGood
<1>12. ListedIn(h2, s2) = ListedIn(h, s) \cup {u}
  <2>1. \A v : v \in ListedIn(h2, s2) <=> \E p \in 1..s2.len : h2[s.array][p] = {v}
    <3>1. \A v : v \in ListedIn(h2, s2) <=> \E p \in 1..s2.len : h2[s2.array][p] = {v}
      BY <1>11, ListedAre
    <3>2. h2[s2.array] = h2[s.array]  BY <1>3
    <3> QED  BY <3>1, <3>2, Zenon
  <2>2. \A v : v \in ListedIn(h, s) <=> \E p \in 1..s.len : h[s.array][p] = {v}  BY ListedAre
  <2>3. ASSUME NEW v  PROVE v \in ListedIn(h2, s2) <=> v \in ListedIn(h, s) \cup {u}
    <3>1. CASE v = u  BY <1>5, <1>9, <2>1, <3>1
    <3>2. CASE v # u  BY <1>5, <1>7, <1>8, <2>1, <2>2, <3>2
    <3> QED  BY <3>1, <3>2
  <2> QED  BY <2>3
<1>13. ASSUME NEW w \in Walks, WalkGood(h, s, w)  PROVE WalkGood(h2, s2, w)
  <2>1. CASE w.at # "walk"  BY <1>13, <2>1 DEF WalkGood
  <2>2. CASE w.at = "walk"
    <3>1. w.array \in 1..Len(h2) /\ w.next \in 1..(w.len + 1) /\ w.len \in Nat /\ w.next \in Nat
      BY <1>6, <1>13, <2>2 DEF WalkGood, Walks
    <3>2. PassedOver(h2, s2, w) \subseteq PassedOver(h, s, w)
      <4>1. ASSUME NEW v, Ahead(h, s, w, v)  PROVE Ahead(h2, s2, w, v)
        <5>1. PICK p \in w.next..w.len : (s.array = w.array => p <= s.len) /\ h[w.array][p] = {v}
          BY <4>1 DEF Ahead
        <5>2. p \in Nat  BY <3>1
        <5>3. CASE s.array = w.array
          <6>1. p <= s2.len /\ p # s.len + 1  BY <1>2, <1>3, <5>1, <5>2, <5>3
          <6>2. h2[w.array][p] = {v}  BY <1>5, <5>1, <5>3, <6>1
          <6> QED  BY <6>1, <6>2 DEF Ahead
        <5>4. CASE s.array # w.array  BY <1>3, <1>6, <5>1, <5>4 DEF Ahead
        <5> QED  BY <5>3, <5>4
      <4> QED  BY <4>1 DEF PassedOver
    <3>3. ASSUME NEW v \in Users
          PROVE  Cardinality(Meets(h2, s2, w, v)) <= Cardinality(Meets(h, s, w, v))
      <4>1. Meets(h2, s2, w, v) \subseteq Meets(h, s, w, v)
        <5>1. ASSUME NEW p \in Meets(h2, s2, w, v)  PROVE p \in Meets(h, s, w, v)
          <6>1. p \in w.next..w.len /\ p \in Nat  BY <3>1 DEF Meets
          <6>2. CASE s.array = w.array
            <7>1. CASE p > s.len  BY <6>1, <6>2, <7>1 DEF Meets
            <7>2. CASE ~ (p > s.len)
              <8>1. ~ (p > s2.len) /\ p # s.len + 1  BY <1>2, <1>3, <6>1, <7>2
              <8>2. v \in h2[w.array][p]  BY <8>1 DEF Meets
              <8> QED  BY <1>5, <6>1, <6>2, <8>1, <8>2 DEF Meets
            <7> QED  BY <7>1, <7>2
          <6>3. CASE s.array # w.array  BY <1>3, <1>6, <6>3 DEF Meets
          <6> QED  BY <6>2, <6>3
        <5> QED  BY <5>1
      <4>2. IsFiniteSet(Meets(h, s, w, v))  BY WalksAreFinite
      <4> QED  BY <4>1, <4>2, FS_Subset
    <3>4. \A v \in Users : w.reached[v] + Cardinality(Meets(h2, s2, w, v))
                           <= w.reached[v] + Cardinality(Meets(h, s, w, v))
      <4>1. ASSUME NEW v \in Users
            PROVE  w.reached[v] \in Nat /\ Cardinality(Meets(h, s, w, v)) \in Nat
                   /\ Cardinality(Meets(h2, s2, w, v)) \in Nat
        BY WalksAreFinite DEF Walks
      <4>2. ASSUME NEW v \in Users
            PROVE  w.reached[v] + Cardinality(Meets(h2, s2, w, v))
                   <= w.reached[v] + Cardinality(Meets(h, s, w, v))
        <5>1. PICK r \in Nat, c \in Nat, c2 \in Nat :
                r = w.reached[v] /\ c = Cardinality(Meets(h, s, w, v))
                /\ c2 = Cardinality(Meets(h2, s2, w, v))
          BY <4>1
        <5>3. c2 <= c  BY <3>3, <5>1
        <5>2. r + c2 <= r + c  BY <5>3
        <5> QED  BY <5>1, <5>2
      <4> QED  BY <4>2
    <3> QED  BY <1>13, <2>2, <3>1, <3>2, <3>4, WalkGoesOn
  <2> QED  BY <2>1, <2>2
<1> QED  BY <1>11, <1>12, <1>13

\* A new array is none a walk reads from.
LEMMA NewArray ==
  ASSUME NEW h, NEW s, NEW h2, NEW s2, SliceGood(h, s), SliceGood(h2, s2), NEW row,
         h2 = Append(h, row), s2.array = Len(h) + 1, NEW w \in Walks, WalkGood(h, s, w)
  PROVE  WalkGood(h2, s2, w)
<1>1. h \in Seq(Rows) /\ s.array \in 1..Len(h)  BY DEF SliceGood
<1>2. Len(h2) = Len(h) + 1 /\ Len(h) \in Nat /\ \A i \in 1..Len(h) : h2[i] = h[i]  BY <1>1
<1>3. CASE w.at # "walk"  BY <1>3 DEF WalkGood
<1>4. CASE w.at = "walk"
  <2>1. w.array \in 1..Len(h) /\ w.next \in 1..(w.len + 1)  BY <1>4 DEF WalkGood
  <2>2. w.array \in 1..Len(h2) /\ w.array # s2.array /\ h2[w.array] = h[w.array]
    BY <1>2, <2>1
  <2>3. \A v : Ahead(h, s, w, v) => Ahead(h2, s2, w, v)  BY <2>2 DEF Ahead
  <2>4. PassedOver(h2, s2, w) \subseteq PassedOver(h, s, w)  BY <2>3 DEF PassedOver
  <2>5. ASSUME NEW v \in Users
        PROVE  w.reached[v] + Cardinality(Meets(h2, s2, w, v))
               <= w.reached[v] + Cardinality(Meets(h, s, w, v))
    <3>1. Meets(h2, s2, w, v) \subseteq Meets(h, s, w, v)  BY <2>2 DEF Meets
    <3>2. IsFiniteSet(Meets(h, s, w, v))  BY WalksAreFinite
    <3>3. Cardinality(Meets(h2, s2, w, v)) <= Cardinality(Meets(h, s, w, v))
      BY <3>1, <3>2, FS_Subset
    <3>4. PICK r \in Nat, c \in Nat, c2 \in Nat :
            r = w.reached[v] /\ c = Cardinality(Meets(h, s, w, v))
            /\ c2 = Cardinality(Meets(h2, s2, w, v))
      <4>1. Cardinality(Meets(h, s, w, v)) \in Nat  BY WalksAreFinite
      <4>2. Cardinality(Meets(h2, s2, w, v)) \in Nat  BY WalksAreFinite
      <4>3. w.reached[v] \in Nat  BY DEF Walks
      <4> QED  BY <4>1, <4>2, <4>3
    <3>5. r + c2 <= r + c  BY <3>3, <3>4
    <3> QED  BY <3>4, <3>5
  <2> QED  BY <1>4, <2>1, <2>2, <2>4, <2>5, WalkGoesOn
<1> QED  BY <1>3, <1>4

\* The array a growing slice moves to.
LEMMA JoinElsewhere ==
  ASSUME NEW h, NEW s, NEW h2, NEW s2, NEW u \in Users, SliceGood(h, s), u \notin ListedIn(h, s),
         Moved(h, s, h2, s2, u)
  PROVE  /\ SliceGood(h2, s2) /\ ListedIn(h2, s2) = ListedIn(h, s) \cup {u}
         /\ \A w \in Walks : WalkGood(h, s, w) => WalkGood(h2, s2, w)
<1>1. h \in Seq(Rows) /\ s \in Slices /\ s.array \in 1..Len(h)  BY DEF SliceGood
<1>2. s.len \in Nat /\ s.len < Cardinality(Users) /\ s.len + 1 \in Room /\ Len(h) \in Nat
  BY <1>1, RoomForOneMore DEF Slices
<1>3. s2 \in Slices /\ s2.array = Len(h) + 1 /\ s2.len = s.len + 1  BY <1>2 DEF Slices, Moved
<1> DEFINE row == [h[s.array] EXCEPT ![s.len + 1] = {u}]
<1>4. h[s.array] \in Rows  BY <1>1
<1>5. /\ row[s.len + 1] = {u} /\ row \in Rows
      /\ \A p : p # s.len + 1 => row[p] = h[s.array][p]
  BY <1>2, <1>4 DEF Rows
<1>6. h2 = Append(h, row)  BY DEF Moved
<1> HIDE DEF row
<1>7. h2 \in Seq(Rows) /\ h2[s2.array] = row /\ s2.array \in 1..Len(h2)
  BY <1>1, <1>2, <1>3, <1>5, <1>6
<1>8. \A p \in 1..s2.len : p \in 1..s.len \/ p = s.len + 1  BY <1>2, <1>3
<1>9. \A p \in 1..s.len : p \in 1..s2.len /\ p # s.len + 1 /\ row[p] = h[s.array][p]
  BY <1>2, <1>3, <1>5
<1>10. s.len + 1 \in 1..s2.len  BY <1>2, <1>3
<1>11. /\ \A p \in 1..s.len : \E v \in Users : h[s.array][p] = {v}
       /\ \A p, q \in 1..s.len : h[s.array][p] = h[s.array][q] => p = q
       /\ \A p \in 1..s.len : h[s.array][p] # {u}
  BY ListedAre DEF SliceGood
<1>12. SliceGood(h2, s2)
  <2>1. \A p \in 1..s2.len : \E v \in Users : row[p] = {v}  BY <1>5, <1>8, <1>9, <1>11
  <2>2. \A p, q \in 1..s2.len : row[p] = row[q] => p = q  BY <1>5, <1>8, <1>9, <1>11
  <2>3. s2.len <= Cardinality(Users)  BY <1>2, <1>3, UsersAreCounted
  <2> QED  BY <1>3, <1>7, <2>1, <2>2, <2>3, Zenon DEF SliceGood
<1>13. ListedIn(h2, s2) = ListedIn(h, s) \cup {u}
  <2>1. \A v : v \in ListedIn(h2, s2) <=> \E p \in 1..s2.len : row[p] = {v}
    <3>1. \A v : v \in ListedIn(h2, s2) <=> \E p \in 1..s2.len : h2[s2.array][p] = {v}
      BY <1>12, ListedAre
    <3> QED  BY <1>7, <3>1, Zenon
  <2>2. \A v : v \in ListedIn(h, s) <=> \E p \in 1..s.len : h[s.array][p] = {v}  BY ListedAre
  <2>3. ASSUME NEW v  PROVE v \in ListedIn(h2, s2) <=> v \in ListedIn(h, s) \cup {u}
    <3>1. CASE v = u  BY <1>5, <1>10, <2>1, <3>1
    <3>2. CASE v # u  BY <1>5, <1>8, <1>9, <2>1, <2>2, <3>2
    <3> QED  BY <3>1, <3>2
  <2> QED  BY <2>3
<1> QED  BY <1>3, <1>6, <1>12, <1>13, NewArray

\* The array that is filled with what WeChat answered.
Distinct(answer) == \A p, q \in 1..Len(answer) : answer[p] = answer[q] => p = q

LEMMA FilledAnew ==
  ASSUME NEW h, NEW s, NEW h2, NEW s2, SliceGood(h, s), NEW answer \in Seq(Users),
         Len(answer) <= Cardinality(Users),
         Distinct(answer), Filled(h, h2, s2, answer)
  PROVE  /\ SliceGood(h2, s2) /\ ListedIn(h2, s2) = {answer[k] : k \in DOMAIN answer}
         /\ \A w \in Walks : WalkGood(h, s, w) => WalkGood(h2, s2, w)
<1>1. h \in Seq(Rows) /\ Len(h) \in Nat  BY DEF SliceGood
<1>2. PICK n \in Nat : n = Len(answer) /\ DOMAIN answer = 1..n /\ n <= Cardinality(Users)
  OBVIOUS
<1>3. s2 \in Slices /\ s2.array = Len(h) + 1 /\ s2.len = n  BY <1>1, <1>2 DEF Slices, Filled
<1> DEFINE row == [k \in Room |-> IF k <= Len(answer) THEN {answer[k]} ELSE {}]
<1>4. \A p \in 1..n : p \in Room /\ answer[p] \in Users
  BY <1>2, UsersAreCounted DEF Room
<1>5. \A p \in 1..n : row[p] = {answer[p]}  BY <1>2, <1>4
<1>6. row \in Rows
  <2>1. ASSUME NEW k \in Room  PROVE (IF k <= Len(answer) THEN {answer[k]} ELSE {}) \in SUBSET Users
    <3>1. CASE k <= Len(answer)
      <4>1. k \in 1..n  BY <1>2, <3>1, UsersAreCounted DEF Room
      <4> QED  BY <1>4, <3>1, <4>1
    <3>2. CASE ~ (k <= Len(answer))  BY <3>2
    <3> QED  BY <3>1, <3>2
  <2> QED  BY <2>1 DEF Rows
<1>7. h2 = Append(h, row)  BY DEF Filled
<1> HIDE DEF row
<1>8. h2 \in Seq(Rows) /\ h2[s2.array] = row /\ s2.array \in 1..Len(h2)
  BY <1>1, <1>3, <1>6, <1>7
<1>9. SliceGood(h2, s2)
  <2>1. \A p \in 1..n : \E v \in Users : row[p] = {v}  BY <1>4, <1>5
  <2>2. ASSUME NEW p \in 1..n, NEW q \in 1..n, row[p] = row[q]  PROVE p = q
    <3>1. answer[p] = answer[q]  BY <1>5, <2>2
    <3> QED  BY <1>2, <3>1 DEF Distinct
  <2>3. \A p \in 1..s2.len : \E v \in Users : h2[s2.array][p] = {v}  BY <1>3, <1>8, <2>1, Zenon
  <2>4. \A p, q \in 1..s2.len : h2[s2.array][p] = h2[s2.array][q] => p = q
    BY <1>3, <1>8, <2>2, Zenon
  <2>5. s2.len <= Cardinality(Users)  BY <1>2, <1>3
  <2> QED  BY <1>3, <1>8, <2>3, <2>4, <2>5, Zenon DEF SliceGood
<1>10. ListedIn(h2, s2) = {answer[k] : k \in DOMAIN answer}
  <2>1. ListedIn(h2, s2) = UNION {row[k] : k \in 1..n}  BY <1>3, <1>8, Zenon DEF ListedIn
  <2>2. UNION {row[k] : k \in 1..n} = {answer[k] : k \in 1..n}
    <3>1. ASSUME NEW v  PROVE v \in UNION {row[k] : k \in 1..n} <=> v \in {answer[k] : k \in 1..n}
      <4>1. v \in UNION {row[k] : k \in 1..n} <=> \E k \in 1..n : v \in row[k]  OBVIOUS
      <4>2. \A k \in 1..n : v \in row[k] <=> v = answer[k]  BY <1>5
      <4> QED  BY <4>1, <4>2
    <3> QED  BY <3>1
  <2> QED  BY <1>2, <2>1, <2>2, Zenon
<1> QED  BY <1>3, <1>7, <1>9, <1>10, NewArray

\* What leaving does: the places behind i move down by one.
Shifted(h, s, h2, s2, i) ==
  /\ h2 = [h EXCEPT ![s.array] = ShiftedFrom(@, i, s.len)]
  /\ s2 = [s EXCEPT !.len = @ - 1]

\* Who is at i leaves; what becomes of a walk meanwhile.
Dropped(h, s, h2, s2, i, u) == Shifted(h, s, h2, s2, i) /\ h[s.array][i] = {u}
LeftBehind(w, u) == [w EXCEPT !.due = @ \ {u}, !.left = @ + 1]
Sent(h, w) ==
  [w EXCEPT !.next = @ + 1,
            !.reached = [u \in Users |-> IF u \in h[w.array][w.next] THEN @[u] + 1 ELSE @[u]]]

LEMMA ShiftedPlaces ==
  ASSUME NEW h, NEW s, NEW h2, NEW s2, SliceGood(h, s), NEW i \in 1..s.len,
         Shifted(h, s, h2, s2, i)
  PROVE  /\ h2 \in Seq(Rows) /\ Len(h2) = Len(h) /\ \A a : a # s.array => h2[a] = h[a]
         /\ s2 \in Slices /\ s2.array = s.array /\ s2.len = s.len - 1 /\ s.len \in Nat
         /\ \A p \in Room : (p < i \/ p >= s.len) => h2[s.array][p] = h[s.array][p]
         /\ \A p \in Room : i <= p /\ p < s.len => h2[s.array][p] = h[s.array][p + 1]
<1>1. h \in Seq(Rows) /\ s \in Slices /\ s.array \in 1..Len(h) /\ s.len <= Cardinality(Users)
  BY DEF SliceGood
<1>2. s.len \in Nat /\ s.array \in Nat /\ i \in Nat  BY <1>1 DEF Slices
<1>3. s2 \in Slices /\ s2.array = s.array /\ s2.len = s.len - 1
  BY <1>1, <1>2 DEF Slices, Shifted
<1>4. PICK row \in Rows : row = h[s.array]  BY <1>1
<1>5. \A p \in Room : p \in Nat /\ (p < s.len => p + 1 \in Room)
  BY <1>1, <1>2, UsersAreCounted DEF Room
<1>6. ShiftedFrom(row, i, s.len) \in Rows
  BY <1>2, <1>4, <1>5 DEF ShiftedFrom, Rows
<1>7. h2 = [h EXCEPT ![s.array] = ShiftedFrom(row, i, s.len)]
  BY <1>4, Zenon DEF Shifted
<1>8. h2 \in Seq(Rows) /\ Len(h2) = Len(h) /\ \A a : a # s.array => h2[a] = h[a]
  BY <1>1, <1>6, <1>7
<1>9. h2[s.array] = ShiftedFrom(row, i, s.len)  BY <1>1, <1>7
<1>10. \A p \in Room : (p < i \/ p >= s.len) => h2[s.array][p] = row[p]
  BY <1>2, <1>5, <1>9 DEF ShiftedFrom
<1>11. \A p \in Room : i <= p /\ p < s.len => h2[s.array][p] = row[p + 1]
  BY <1>2, <1>5, <1>9 DEF ShiftedFrom
<1> QED  BY <1>2, <1>3, <1>4, <1>8, <1>10, <1>11, Zenon

LEMMA ShiftedSlice ==
  ASSUME NEW h, NEW s, NEW h2, NEW s2, SliceGood(h, s), NEW i \in 1..s.len,
         NEW u, Dropped(h, s, h2, s2, i, u)
  PROVE  SliceGood(h2, s2) /\ ListedIn(h2, s2) = ListedIn(h, s) \ {u}
<1>1. /\ h2 \in Seq(Rows) /\ Len(h2) = Len(h)
      /\ s2 \in Slices /\ s2.array = s.array /\ s2.len = s.len - 1 /\ s.len \in Nat
      /\ \A p \in Room : (p < i \/ p >= s.len) => h2[s.array][p] = h[s.array][p]
      /\ \A p \in Room : i <= p /\ p < s.len => h2[s.array][p] = h[s.array][p + 1]
  BY ShiftedPlaces DEF Dropped
<1>2. /\ s.array \in 1..Len(h) /\ s.len <= Cardinality(Users)
      /\ \A p \in 1..s.len : \E v \in Users : h[s.array][p] = {v}
      /\ \A p, q \in 1..s.len : h[s.array][p] = h[s.array][q] => p = q
  BY DEF SliceGood
<1>3. \A p \in 1..s.len : p \in Room  BY ListedAre
<1> DEFINE g(p) == IF p < i THEN p ELSE p + 1
<1>4. \A p \in 1..s2.len : p \in 1..s.len /\ g(p) \in 1..s.len /\ g(p) # i  BY <1>1
<1>5. \A p, q \in 1..s2.len : g(p) = g(q) => p = q  BY <1>1
<1>6. ASSUME NEW p \in 1..s2.len  PROVE h2[s.array][p] = h[s.array][g(p)]
  <2>1. p \in Room /\ p \in Nat /\ i \in Nat /\ p < s.len  BY <1>1, <1>3, <1>4
  <2>2. CASE p < i  BY <1>1, <2>1, <2>2
  <2>3. CASE ~ (p < i)
    <3>1. i <= p  BY <2>1, <2>3
    <3> QED  BY <1>1, <2>1, <2>3, <3>1
  <2> QED  BY <2>2, <2>3
<1>7. \A p \in 1..s.len : p # i => \E q \in 1..s2.len : g(q) = p
  <2>1. ASSUME NEW p \in 1..s.len, p # i  PROVE \E q \in 1..s2.len : g(q) = p
    <3>1. p \in Nat /\ i \in Nat  BY <1>1
    <3>2. CASE p < i
      <4>1. p \in 1..s2.len /\ g(p) = p  BY <1>1, <3>1, <3>2
      <4> QED  BY <4>1
    <3>3. CASE p > i
      <4>1. p - 1 \in 1..s2.len /\ g(p - 1) = p  BY <1>1, <3>1, <3>3
      <4> QED  BY <4>1
    <3> QED  BY <2>1, <3>1, <3>2, <3>3
  <2> QED  BY <2>1
<1> HIDE DEF g
<1>8. SliceGood(h2, s2)
  <2>1. \A p \in 1..s2.len : \E v \in Users : h2[s2.array][p] = {v}
    <3>1. \A p \in 1..s2.len : \E v \in Users : h2[s.array][p] = {v}
      BY <1>2, <1>4, <1>6, Zenon
    <3> QED  BY <1>1, <3>1, Zenon
  <2>2. \A p, q \in 1..s2.len : h2[s2.array][p] = h2[s2.array][q] => p = q
    <3>1. \A p, q \in 1..s2.len : h2[s.array][p] = h2[s.array][q] => p = q
      BY <1>2, <1>4, <1>5, <1>6, Zenon
    <3> QED  BY <1>1, <3>1, Zenon
  <2>3. s2.len <= Cardinality(Users)  BY <1>1, <1>2, UsersAreCounted
  <2>4. s2.array \in 1..Len(h2)  BY <1>1, <1>2
  <2> QED  BY <1>1, <2>1, <2>2, <2>3, <2>4, Zenon DEF SliceGood
<1>9. ASSUME NEW v  PROVE v \in ListedIn(h2, s2) <=> v \in ListedIn(h, s) \ {u}
  <2>1. v \in ListedIn(h2, s2) <=> \E p \in 1..s2.len : h2[s2.array][p] = {v}
    BY <1>8, ListedAre
  <2>2. v \in ListedIn(h2, s2) <=> \E p \in 1..s2.len : h2[s.array][p] = {v}
    BY <1>1, <2>1, Zenon
  <2>3. v \in ListedIn(h, s) <=> \E p \in 1..s.len : h[s.array][p] = {v}  BY ListedAre
  <2>4. (\E p \in 1..s2.len : h2[s.array][p] = {v})
        <=> \E p \in 1..s.len : p # i /\ h[s.array][p] = {v}
    BY <1>4, <1>6, <1>7, Zenon
  <2>5. \A p \in 1..s.len : h[s.array][p] = {v} => (p # i <=> v # u)
    <3>1. ASSUME NEW p \in 1..s.len, h[s.array][p] = {v}  PROVE p # i <=> v # u
      <4>0. h[s.array][i] = {u}  BY DEF Dropped
      <4>1. CASE p = i  BY <3>1, <4>0, <4>1
      <4>2. CASE p # i
        <5>1. h[s.array][p] # h[s.array][i]  BY <1>2, <4>2
        <5> QED  BY <3>1, <4>0, <4>2, <5>1
      <4> QED  BY <4>1, <4>2
    <3> QED  BY <3>1
  <2> QED  BY <2>2, <2>3, <2>4, <2>5
<1> QED  BY <1>8, <1>9

\* Of whom a walk does not meet in time there is one more at most, and it meets
\* nobody more than once more.
LEMMA ShiftedWalk ==
  ASSUME NEW h, NEW s, NEW h2, NEW s2, SliceGood(h, s), NEW i \in 1..s.len,
         NEW u, Dropped(h, s, h2, s2, i, u),
         NEW w \in Walks, WalkGood(h, s, w), NEW w2 \in Walks, w2 = LeftBehind(w, u)
  PROVE  WalkGood(h2, s2, w2)
<1>1. /\ Len(h2) = Len(h) /\ \A a : a # s.array => h2[a] = h[a]
      /\ s2.array = s.array /\ s2.len = s.len - 1 /\ s.len \in Nat
      /\ \A p \in Room : (p < i \/ p >= s.len) => h2[s.array][p] = h[s.array][p]
      /\ \A p \in Room : i <= p /\ p < s.len => h2[s.array][p] = h[s.array][p + 1]
  BY ShiftedPlaces DEF Dropped
<1>0. h[s.array][i] = {u}  BY DEF Dropped
<1>2. /\ w2.at = w.at /\ w2.answer = w.answer /\ w2.array = w.array /\ w2.len = w.len
      /\ w2.next = w.next /\ w2.reached = w.reached
      /\ w2.due = w.due \ {u} /\ w2.left = w.left + 1
  BY DEF Walks, LeftBehind
<1>3. w.left \in Nat /\ w.len \in Nat /\ w.next \in Nat /\ i \in Nat /\ \A v \in Users : w.reached[v] \in Nat
  BY <1>1 DEF Walks
<1>4. CASE w.at # "walk"  BY <1>2, <1>4 DEF WalkGood
<1>5. CASE w.at = "walk"
  <2>1. /\ w.array \in 1..Len(h) /\ w.len <= Cardinality(Users) /\ w.next \in 1..(w.len + 1)
        /\ Cardinality(PassedOver(h, s, w)) <= w.left
        /\ \A v \in Users : w.reached[v] + Cardinality(Meets(h, s, w, v)) <= 1 + w.left
    BY <1>5 DEF WalkGood
  <2>2. \A p \in w.next..w.len : p \in Room /\ p \in Nat  BY <1>3, <2>1, UsersAreCounted DEF Room
  <2>3. PICK x : \A v : h[w.array][w.next] = {v} => v = x
    <3>1. CASE \E v : h[w.array][w.next] = {v}  BY <3>1
    <3>2. CASE ~ \E v : h[w.array][w.next] = {v}  BY <3>2
    <3> QED  BY <3>1, <3>2
  <2>4. PassedOver(h2, s2, w2) \subseteq PassedOver(h, s, w) \cup {x}
    <3>1. ASSUME NEW v, v # x, v # u, Ahead(h, s, w, v)  PROVE Ahead(h2, s2, w2, v)
      <4>1. PICK p \in w.next..w.len : (s.array = w.array => p <= s.len) /\ h[w.array][p] = {v}
        BY <3>1 DEF Ahead
      <4>2. p \in Room /\ p \in Nat /\ p # w.next  BY <2>2, <2>3, <3>1, <4>1
      <4>3. CASE s.array # w.array
        <5>1. h2[w.array][p] = {v}  BY <1>1, <4>1, <4>3
        <5>2. p \in w2.next..w2.len /\ w2.array = w.array  BY <1>2
        <5> QED  BY <1>1, <4>3, <5>1, <5>2 DEF Ahead
      <4>4. CASE s.array = w.array
        <5>1. p <= s.len /\ p # i  BY <1>0, <3>1, <4>1, <4>4
        <5>2. CASE p < i
          <6>1. h2[w.array][p] = {v}  BY <1>1, <4>1, <4>2, <4>4, <5>2
          <6>2. p <= s2.len  BY <1>1, <1>3, <4>2, <5>2
          <6>3. p \in w2.next..w2.len /\ w2.array = w.array  BY <1>2
          <6> QED  BY <6>1, <6>2, <6>3 DEF Ahead
        <5>3. CASE p > i
          <6>1. p - 1 \in w.next..w.len /\ p - 1 <= s2.len /\ i <= p - 1 /\ p - 1 < s.len
            BY <1>1, <1>3, <4>2, <5>1, <5>3
          <6>2. h2[s.array][p - 1] = h[s.array][p - 1 + 1]  BY <1>1, <2>2, <6>1
          <6>3. p - 1 + 1 = p  BY <4>2
          <6>4. h2[w.array][p - 1] = {v}  BY <4>1, <4>4, <6>2, <6>3
          <6>5. p - 1 \in w2.next..w2.len /\ w2.array = w.array  BY <1>2, <6>1
          <6> QED  BY <6>1, <6>4, <6>5 DEF Ahead
        <5> QED  BY <1>3, <4>2, <5>1, <5>2, <5>3
      <4> QED  BY <4>3, <4>4
    <3> QED  BY <1>2, <3>1 DEF PassedOver
  <2>5. Cardinality(PassedOver(h2, s2, w2)) <= w2.left
    <3>1. IsFiniteSet(PassedOver(h, s, w)) /\ Cardinality(PassedOver(h, s, w)) \in Nat  BY WalksAreFinite
    <3>2. /\ IsFiniteSet(PassedOver(h, s, w) \cup {x})
          /\ Cardinality(PassedOver(h, s, w) \cup {x}) <= Cardinality(PassedOver(h, s, w)) + 1
          /\ Cardinality(PassedOver(h, s, w) \cup {x}) \in Nat
      <4>1. /\ IsFiniteSet(PassedOver(h, s, w) \cup {x})
            /\ Cardinality(PassedOver(h, s, w) \cup {x}) =
               IF x \in PassedOver(h, s, w) THEN Cardinality(PassedOver(h, s, w))
               ELSE Cardinality(PassedOver(h, s, w)) + 1
        BY <3>1, FS_AddElement
      <4> QED  BY <3>1, <4>1
    <3>3. Cardinality(PassedOver(h2, s2, w2)) <= Cardinality(PassedOver(h, s, w) \cup {x})
      BY <2>4, <3>2, FS_Subset
    <3>4. Cardinality(PassedOver(h2, s2, w2)) \in Nat  BY WalksAreFinite
    <3> QED  BY <1>2, <1>3, <2>1, <3>1, <3>2, <3>3, <3>4
  <2>6. ASSUME NEW v \in Users
        PROVE  Cardinality(Meets(h2, s2, w2, v)) <= Cardinality(Meets(h, s, w, v)) + 1
    <3> DEFINE e == IF w.len >= s.len THEN s.len ELSE w.len
               M2 == Meets(h2, s2, w2, v) \ {e}
               g == [p \in M2 |-> IF s.array = w.array /\ i <= p /\ p < s.len THEN p + 1 ELSE p]
    <3>1. e \in Nat  BY <1>1, <1>3
    <3>2. ASSUME NEW p \in M2  PROVE p \in Nat /\ p # s.len /\ g[p] \in Meets(h, s, w, v)
      <4>1. p \in w.next..w.len /\ p \in Room /\ p \in Nat /\ p # e
            /\ ((s2.array = w2.array /\ p > s2.len) \/ v \in h2[w2.array][p])
        BY <1>2, <2>2 DEF Meets
      <4>2. p # s.len  BY <1>1, <1>3, <4>1
      <4>3. CASE s.array # w.array
        <5>1. g[p] = p  BY <4>3
        <5>2. v \in h[w.array][p]  BY <1>1, <1>2, <4>1, <4>3
        <5> QED  BY <4>1, <4>2, <5>1, <5>2 DEF Meets
      <4>4. CASE s.array = w.array /\ p > s.len
        <5>1. g[p] = p  BY <1>1, <1>3, <4>1, <4>4
        <5> QED  BY <4>1, <4>2, <4>4, <5>1 DEF Meets
      <4>5. CASE s.array = w.array /\ p < s.len
        <5>1. v \in h2[s.array][p]  BY <1>1, <1>2, <1>3, <4>1, <4>5
        <5>2. CASE p < i
          <6>1. g[p] = p  BY <1>3, <4>1, <5>2
          <6>2. v \in h[w.array][p]  BY <1>1, <4>1, <4>5, <5>1, <5>2
          <6> QED  BY <4>1, <4>2, <6>1, <6>2 DEF Meets
        <5>3. CASE i <= p
          <6>1. g[p] = p + 1  BY <4>5, <5>3
          <6>2. v \in h[w.array][p + 1]  BY <1>1, <4>1, <4>5, <5>1, <5>3
          <6>3. p + 1 \in w.next..w.len  BY <1>1, <1>3, <4>1, <4>5
          <6>4. p + 1 \in Meets(h, s, w, v)  BY <6>2, <6>3 DEF Meets
          <6> QED  BY <4>1, <4>2, <6>1, <6>4
        <5> QED  BY <1>3, <4>1, <5>2, <5>3
      <4> QED  BY <1>1, <4>1, <4>2, <4>3, <4>4, <4>5
    <3>3. ASSUME NEW p \in M2, NEW q \in M2, g[p] = g[q]  PROVE p = q
      <4>1. p \in Nat /\ q \in Nat /\ p # s.len /\ q # s.len  BY <3>2
      <4>2. g[p] = IF s.array = w.array /\ i <= p /\ p < s.len THEN p + 1 ELSE p  OBVIOUS
      <4>3. g[q] = IF s.array = w.array /\ i <= q /\ q < s.len THEN q + 1 ELSE q  OBVIOUS
      <4> HIDE DEF g, M2
      <4>4. PICK n \in Nat : n = s.len  BY <1>1
      <4>5. CASE s.array # w.array
        <5>1. g[p] = p /\ g[q] = q  BY <4>2, <4>3, <4>5
        <5> QED  BY <3>3, <5>1
      <4>6. CASE s.array = w.array
        <5>1. g[p] = IF i <= p /\ p < n THEN p + 1 ELSE p  BY <4>2, <4>4, <4>6
        <5>2. g[q] = IF i <= q /\ q < n THEN q + 1 ELSE q  BY <4>3, <4>4, <4>6
        <5>3. p # n /\ q # n  BY <4>1, <4>4
        <5>4. (IF i <= p /\ p < n THEN p + 1 ELSE p) = IF i <= q /\ q < n THEN q + 1 ELSE q
          BY <3>3, <5>1, <5>2
        <5> QED  BY <1>3, <4>1, <4>4, <5>3, <5>4
      <4> QED  BY <4>5, <4>6
    <3>4. g \in Injection(M2, Meets(h, s, w, v))
      <4>1. g = [p \in M2 |-> g[p]]  OBVIOUS
      <4> HIDE DEF g, M2
      <4>2. g \in [M2 -> Meets(h, s, w, v)]  BY <3>2, <4>1
      <4> QED  BY <3>3, <4>2 DEF Injection, IsInjective
    <3>5. IsFiniteSet(Meets(h, s, w, v)) /\ Cardinality(Meets(h, s, w, v)) \in Nat
      BY WalksAreFinite
    <3>6. IsFiniteSet(Meets(h2, s2, w2, v)) /\ Cardinality(Meets(h2, s2, w2, v)) \in Nat
      BY WalksAreFinite
    <3>7. Cardinality(M2) <= Cardinality(Meets(h, s, w, v))
      <4> HIDE DEF g, M2
      <4> QED  BY <3>4, <3>5, FS_Injection
    <3>8. Cardinality(M2) = IF e \in Meets(h2, s2, w2, v) THEN Cardinality(Meets(h2, s2, w2, v)) - 1
                            ELSE Cardinality(Meets(h2, s2, w2, v))
      <4>1. \A y : Cardinality(Meets(h2, s2, w2, v) \ {y}) =
                   IF y \in Meets(h2, s2, w2, v) THEN Cardinality(Meets(h2, s2, w2, v)) - 1
                   ELSE Cardinality(Meets(h2, s2, w2, v))
        BY <3>6, FS_RemoveElement
      <4> HIDE DEF e
      <4> QED  BY <4>1
    <3> HIDE DEF M2
    <3> QED  BY <3>5, <3>6, <3>7, <3>8
  <2>7. ASSUME NEW v \in Users
        PROVE  w2.reached[v] + Cardinality(Meets(h2, s2, w2, v)) <= 1 + w2.left
    <3>1. PICK r \in Nat, c \in Nat, c2 \in Nat :
            r = w.reached[v] /\ c = Cardinality(Meets(h, s, w, v))
            /\ c2 = Cardinality(Meets(h2, s2, w2, v))
      <4>1. Cardinality(Meets(h, s, w, v)) \in Nat  BY WalksAreFinite
      <4>2. Cardinality(Meets(h2, s2, w2, v)) \in Nat  BY WalksAreFinite
      <4> QED  BY <1>3, <4>1, <4>2
    <3>2. r + c <= 1 + w.left /\ c2 <= c + 1  BY <2>1, <2>6, <3>1
    <3>3. r + c2 <= 1 + (w.left + 1)  BY <1>3, <3>1, <3>2
    <3> QED  BY <1>2, <3>1, <3>3
  <2>8. w2.array \in 1..Len(h2) /\ w2.len <= Cardinality(Users) /\ w2.next \in 1..(w2.len + 1)
    BY <1>1, <1>2, <2>1
  <2> QED  BY <1>2, <1>5, <2>5, <2>7, <2>8 DEF WalkGood
<1> QED  BY <1>4, <1>5

\* Whoever takes the slice has everybody on it ahead, at one place.
LEMMA TakenWalk ==
  ASSUME SliceGood(heap, slice), NEW w \in Walks, w.reached = [u \in Users |-> 0],
         followers \in SUBSET Users
  PROVE  Take(w) \in Walks /\ WalkGood(heap, slice, Take(w))
<1>1. /\ slice \in Slices /\ slice.array \in 1..Len(heap) /\ slice.len <= Cardinality(Users)
      /\ \A p, q \in 1..slice.len : heap[slice.array][p] = heap[slice.array][q] => p = q
      /\ \A p \in 1..slice.len : \E u \in Users : heap[slice.array][p] = {u}
  BY DEF SliceGood
<1>2. slice.array \in Nat /\ slice.len \in Nat  BY <1>1 DEF Slices
<1>3. Listed \cap followers \in SUBSET Users
  OBVIOUS
<1>4. PICK w2 : w2 = Take(w)  OBVIOUS
<1>5. /\ w2.at = "walk" /\ w2.array = slice.array /\ w2.len = slice.len /\ w2.next = 1
      /\ w2.due = Listed \cap followers /\ w2.left = 0 /\ w2.reached = [u \in Users |-> 0]
      /\ w2.answer = w.answer
  BY <1>4 DEF Take, Walks
<1>6. w2 \in Walks
  <2>1. w2 = [x \in {"at", "answer", "array", "len", "next", "due", "reached", "left"} |-> w2[x]]
    BY <1>4 DEF Take, Walks
  <2>2. w.answer \in Seq(Users)  BY DEF Walks
  <2>3. w2.reached \in [Users -> Nat]  BY <1>5
  <2> QED  BY <1>2, <1>3, <1>5, <2>1, <2>2, <2>3 DEF Walks
<1>7. PassedOver(heap, slice, w2) = {}
  <2>1. ASSUME NEW u \in w2.due  PROVE Ahead(heap, slice, w2, u)
    <3>1. u \in ListedIn(heap, slice)  BY <1>5 DEF Listed, ListedIn
    <3>2. PICK p \in 1..slice.len : heap[slice.array][p] = {u}  BY <3>1, ListedAre
    <3>3. p \in w2.next..w2.len /\ p <= slice.len  BY <1>2, <1>5
    <3> QED  BY <1>5, <3>2, <3>3 DEF Ahead
  <2> QED  BY <2>1 DEF PassedOver
<1>8. ASSUME NEW u \in Users  PROVE Cardinality(Meets(heap, slice, w2, u)) <= 1
  <2>1. \A p \in Meets(heap, slice, w2, u) :
           p \in 1..slice.len /\ heap[slice.array][p] = {u}
    <3>1. ASSUME NEW p \in Meets(heap, slice, w2, u)
          PROVE  p \in 1..slice.len /\ heap[slice.array][p] = {u}
      <4>1. p \in 1..slice.len /\ ~ (p > slice.len)  BY <1>2, <1>5 DEF Meets
      <4>2. u \in heap[slice.array][p]  BY <1>5, <4>1 DEF Meets
      <4> QED  BY <1>1, <4>1, <4>2
    <3> QED  BY <3>1
  <2>2. \A p, q \in Meets(heap, slice, w2, u) : p = q  BY <1>1, <2>1
  <2>3. CASE Meets(heap, slice, w2, u) = {}
    <3>1. Cardinality({}) = 0  BY FS_EmptySet
    <3> QED  BY <2>3, <3>1
  <2>4. CASE Meets(heap, slice, w2, u) # {}
    <3>1. PICK p \in Meets(heap, slice, w2, u) : TRUE  BY <2>4
    <3>2. Meets(heap, slice, w2, u) = {p}  BY <2>2, <3>1
    <3>3. Cardinality({p}) = 1  BY FS_Singleton
    <3> QED  BY <3>2, <3>3
  <2> QED  BY <2>3, <2>4
<1>9. Cardinality(PassedOver(heap, slice, w2)) <= w2.left
  <2>1. Cardinality({}) = 0  BY FS_EmptySet
  <2> QED  BY <1>5, <1>7, <2>1
<1>10. ASSUME NEW u \in Users
       PROVE  w2.reached[u] + Cardinality(Meets(heap, slice, w2, u)) <= 1 + w2.left
  <2>1. w2.reached[u] = 0  BY <1>5
  <2>2. Cardinality(Meets(heap, slice, w2, u)) \in Nat  BY <1>6, WalksAreFinite
  <2> QED  BY <1>5, <1>8, <2>1, <2>2
<1>11. w2.next \in 1..(w2.len + 1)  BY <1>2, <1>5
<1> QED  BY <1>1, <1>4, <1>5, <1>6, <1>9, <1>10, <1>11 DEF WalkGood

\* A send to the next place counts those who are there.
LEMMA SentWalk ==
  ASSUME NEW h, NEW s, SliceGood(h, s), NEW w \in Walks, WalkGood(h, s, w), NEW w2,
         w.at = "walk", w.next <= w.len, w2 = Sent(h, w)
  PROVE  w2 \in Walks /\ WalkGood(h, s, w2)
<1>1. w.next \in Nat /\ w.len \in Nat /\ w.reached \in [Users -> Nat]  BY DEF Walks
<1>2. /\ w2.at = w.at /\ w2.answer = w.answer /\ w2.array = w.array /\ w2.len = w.len
      /\ w2.next = w.next + 1 /\ w2.due = w.due /\ w2.left = w.left
      /\ w2.reached = [u \in Users |-> IF u \in h[w.array][w.next] THEN w.reached[u] + 1 ELSE w.reached[u]]
  BY DEF Walks, Sent
<1>3. w2 \in Walks
  <2>1. w2 = [x \in {"at", "answer", "array", "len", "next", "due", "reached", "left"} |-> w2[x]]
    BY DEF Walks, Sent
  <2>2. w2.reached \in [Users -> Nat]  BY <1>1, <1>2
  <2>3. /\ w.at \in {"idle", "ask", "store", "take", "walk"} /\ w.answer \in Seq(Users)
        /\ w.array \in Nat /\ w.due \in SUBSET Users /\ w.left \in Nat
    BY DEF Walks
  <2>4. /\ w2.at \in {"idle", "ask", "store", "take", "walk"} /\ w2.answer \in Seq(Users)
        /\ w2.array \in Nat /\ w2.len \in Nat /\ w2.next \in Nat
        /\ w2.due \in SUBSET Users /\ w2.left \in Nat
    BY <1>1, <1>2, <2>3
  <2> HIDE DEF Walks
  <2>5. \A r : /\ r = [x \in {"at", "answer", "array", "len", "next", "due", "reached", "left"} |-> r[x]]
               /\ r.at \in {"idle", "ask", "store", "take", "walk"} /\ r.answer \in Seq(Users)
               /\ r.array \in Nat /\ r.len \in Nat /\ r.next \in Nat
               /\ r.due \in SUBSET Users /\ r.reached \in [Users -> Nat] /\ r.left \in Nat
               => r \in Walks
    BY DEF Walks
  <2> QED  BY <2>1, <2>2, <2>4, <2>5
<1>4. w.array \in 1..Len(h) /\ w.next \in 1..(w.len + 1)  BY DEF WalkGood
<1>5. /\ \A p \in w2.next..w2.len : p \in w.next..w.len /\ p # w.next
      /\ \A p \in w.next..w.len : p \in w2.next..w2.len \/ p = w.next
      /\ w.next \in w.next..w.len
  BY <1>1, <1>2
<1>6. PassedOver(h, s, w2) \subseteq PassedOver(h, s, w)
  <2>1. ASSUME NEW u \in PassedOver(h, s, w2)  PROVE u \in PassedOver(h, s, w)
    <3>1. u \in w.due /\ u \in Users /\ w2.reached[u] = 0 /\ ~ Ahead(h, s, w2, u)
      BY <1>2 DEF PassedOver, Walks
    <3>2. w.reached[u] = 0 /\ u \notin h[w.array][w.next]  BY <1>1, <1>2, <3>1
    <3>3. ~ Ahead(h, s, w, u)  BY <1>2, <1>5, <3>1, <3>2 DEF Ahead
    <3> QED  BY <3>1, <3>2, <3>3 DEF PassedOver
  <2> QED  BY <2>1
<1>7. ASSUME NEW u \in Users
      PROVE  w2.reached[u] + Cardinality(Meets(h, s, w2, u))
             <= w.reached[u] + Cardinality(Meets(h, s, w, u))
  <2>1. PICK r \in Nat, c \in Nat, c2 \in Nat :
          r = w.reached[u] /\ c = Cardinality(Meets(h, s, w, u))
          /\ c2 = Cardinality(Meets(h, s, w2, u))
    <3>1. Cardinality(Meets(h, s, w, u)) \in Nat  BY WalksAreFinite
    <3>2. Cardinality(Meets(h, s, w2, u)) \in Nat  BY <1>3, WalksAreFinite
    <3> QED  BY <1>1, <3>1, <3>2
  <2>2. IsFiniteSet(Meets(h, s, w, u))  BY WalksAreFinite
  <2>3. Meets(h, s, w2, u) \subseteq Meets(h, s, w, u) \ {w.next}  BY <1>2, <1>5 DEF Meets
  <2>4. CASE u \in h[w.array][w.next]
    <3>1. w.next \in Meets(h, s, w, u)  BY <1>5, <2>4 DEF Meets
    <3>2. IsFiniteSet(Meets(h, s, w, u) \ {w.next})
          /\ Cardinality(Meets(h, s, w, u) \ {w.next}) = c - 1
      BY <2>1, <2>2, <3>1, FS_RemoveElement
    <3>6. Cardinality(Meets(h, s, w2, u)) <= Cardinality(Meets(h, s, w, u) \ {w.next})
      BY <2>3, <3>2, FS_Subset
    <3>3. c2 <= c - 1  BY <2>1, <3>2, <3>6
    <3>4. w2.reached[u] = r + 1  BY <1>2, <2>1, <2>4
    <3>5. r + 1 + c2 <= r + c  BY <3>3
    <3> QED  BY <2>1, <3>4, <3>5
  <2>5. CASE u \notin h[w.array][w.next]
    <3>1. Meets(h, s, w2, u) \subseteq Meets(h, s, w, u)  BY <2>3
    <3>2. c2 <= c  BY <2>1, <2>2, <3>1, FS_Subset
    <3>3. w2.reached[u] = r  BY <1>2, <2>1, <2>5
    <3>4. r + c2 <= r + c  BY <3>2
    <3> QED  BY <2>1, <3>3, <3>4
  <2> QED  BY <2>4, <2>5
<1>8. w2.array \in 1..Len(h) /\ w2.next \in 1..(w2.len + 1)  BY <1>1, <1>2, <1>4
<1> QED  BY <1>2, <1>3, <1>6, <1>7, <1>8, WalkGoesOn

\* An answer that names every follower once.
LEMMA AnswersAreDistinct ==
  ASSUME followers \in SUBSET Users, NEW answer \in [1..Cardinality(followers) -> followers],
         {answer[k] : k \in DOMAIN answer} = followers
  PROVE  /\ answer \in Seq(Users) /\ Len(answer) <= Cardinality(Users)
         /\ \A p, q \in 1..Len(answer) : answer[p] = answer[q] => p = q
<1>1. PICK n \in Nat : n = Cardinality(followers)  BY UsersAreCounted
<1>2. answer \in Seq(Users) /\ Len(answer) = n  BY <1>1
<1>3. n <= Cardinality(Users)  BY <1>1, SubscribersAssumption, FS_Subset
<1>4. answer \in Surjection(1..n, followers)
  BY <1>1 DEF Surjection
<1>5. IsFiniteSet(1..n) /\ Cardinality(1..n) = n
  BY <1>1, FS_Interval
<1>6. answer \in Injection(1..n, followers)
  <2>1. Cardinality(1..n) = Cardinality(followers)  BY <1>1, <1>5
  <2> QED  BY <1>4, <1>5, <2>1, FS_SurjSameCardinalityImpliesInj
<1>7. \A p, q \in 1..n : answer[p] = answer[q] => p = q  BY <1>1, <1>6 DEF Injection, IsInjective
<1> QED  BY <1>2, <1>3, <1>7

LEMMA FollowersStart ==
  SubscribersInit => FollowerInv
<1> SUFFICES ASSUME SubscribersInit  PROVE FollowerInv  OBVIOUS
<1>1. handler \in BOOLEAN /\ followers \in SUBSET Users  BY DEF SubscribersInit
<1>2. NoWalk \in Walks /\ NoWalk.at = "idle"  BY DEF NoWalk, Walks
<1>3. walk \in [Broadcasts -> Walks]  BY <1>2 DEF SubscribersInit
<1>4. SliceGood(heap, slice)
  <2>1. NoArray \in Rows  BY DEF NoArray, Rows
  <2>2. heap = <<NoArray>> /\ slice = [array |-> 1, len |-> 0]  BY DEF SubscribersInit
  <2>3. heap \in Seq(Rows) /\ Len(heap) = 1  BY <2>1, <2>2
  <2>4. slice \in Slices /\ slice.array = 1 /\ slice.len = 0  BY <2>2 DEF Slices
  <2>5. 1..slice.len = {}  BY <2>4
  <2> QED  BY <2>3, <2>4, <2>5, UsersAreCounted DEF SliceGood
<1>5. \A b \in Broadcasts : WalkGood(heap, slice, walk[b])
  BY <1>2 DEF SubscribersInit, WalkGood
<1>6. KnowsFollowers  BY DEF SubscribersInit, KnowsFollowers
<1> QED  BY <1>1, <1>3, <1>4, <1>5, <1>6 DEF FollowerInv

LEMMA JoinKeeps ==
  ASSUME FollowerInv, NEW u \in Users, Join(u)
  PROVE  FollowerInv'
<1>1. SliceGood(heap, slice) /\ walk \in [Broadcasts -> Walks]
      /\ \A b \in Broadcasts : WalkGood(heap, slice, walk[b])
  BY DEF FollowerInv
<1>2. /\ followers' = followers \cup {u} /\ UNCHANGED <<handler, walk>>
      /\ astray' = IF slice.len = 0 THEN followers ELSE astray
  BY DEF Join
<1>3. slice.len \in Nat  BY <1>1 DEF SliceGood, Slices
<1>4. Listed = ListedIn(heap, slice) /\ Listed' = ListedIn(heap', slice')  BY DEF Listed, ListedIn
<1>5. handler' \in BOOLEAN /\ followers' \in SUBSET Users /\ walk' \in [Broadcasts -> Walks]
  BY <1>1, <1>2 DEF FollowerInv
<1>6. handler /\ slice.len > 0 => followers \subseteq Listed \cup astray
  BY DEF FollowerInv, KnowsFollowers
<1>7. CASE handler /\ ~ AlreadyIn(u)
  <2>1. u \notin ListedIn(heap, slice)  BY <1>4, <1>7 DEF AlreadyIn
  <2>2. /\ SliceGood(heap', slice') /\ ListedIn(heap', slice') = ListedIn(heap, slice) \cup {u}
        /\ \A w \in Walks : WalkGood(heap, slice, w) => WalkGood(heap', slice', w)
    <3>1. InPlace(heap, slice, heap', slice', u) \/ Moved(heap, slice, heap', slice', u)
      BY <1>7 DEF Join, Appended, InPlace, Moved
    <3>2. CASE InPlace(heap, slice, heap', slice', u)  BY <1>1, <2>1, <3>2, JoinInPlace
    <3>3. CASE Moved(heap, slice, heap', slice', u)  BY <1>1, <2>1, <3>3, JoinElsewhere
    <3> QED  BY <3>1, <3>2, <3>3
  <2>3. \A b \in Broadcasts : WalkGood(heap', slice', walk'[b])  BY <1>1, <1>2, <2>2
  <2>4. followers' \subseteq Listed' \cup astray'
    <3>1. CASE slice.len = 0  BY <1>2, <1>4, <2>2, <3>1
    <3>2. CASE slice.len # 0
      <4>1. slice.len > 0  BY <1>3, <3>2
      <4> QED  BY <1>2, <1>4, <1>6, <1>7, <2>2, <3>2, <4>1
    <3> QED  BY <3>1, <3>2
  <2> QED  BY <1>5, <2>2, <2>3, <2>4 DEF FollowerInv, KnowsFollowers
<1>8. CASE ~ (handler /\ ~ AlreadyIn(u))
  <2>1. heap' = heap /\ slice' = slice  BY <1>8 DEF Join
  <2>2. SliceGood(heap', slice') /\ \A b \in Broadcasts : WalkGood(heap', slice', walk'[b])
    BY <1>1, <1>2, <2>1
  <2>3. handler' /\ slice'.len > 0 => followers' \subseteq Listed' \cup astray'
    <3>1. SUFFICES ASSUME handler, slice.len > 0  PROVE followers' \subseteq Listed' \cup astray'
      BY <1>2, <2>1
    <3>2. u \in Listed  BY <1>8, <3>1 DEF AlreadyIn
    <3>3. Listed' = Listed /\ astray' = astray  BY <1>2, <1>3, <2>1, <3>1 DEF Listed
    <3> QED  BY <1>2, <1>6, <3>1, <3>2, <3>3
  <2> QED  BY <1>5, <2>2, <2>3 DEF FollowerInv, KnowsFollowers
<1> QED  BY <1>7, <1>8

\* Somebody who leaves without being listed is no longer due.
LEMMA NotDue ==
  ASSUME NEW h, NEW s, NEW w \in Walks, WalkGood(h, s, w), NEW u, NEW w2,
         w2 = [w EXCEPT !.due = @ \ {u}]
  PROVE  w2 \in Walks /\ WalkGood(h, s, w2)
<1>1. /\ w2.at = w.at /\ w2.answer = w.answer /\ w2.array = w.array /\ w2.len = w.len
      /\ w2.next = w.next /\ w2.due = w.due \ {u} /\ w2.left = w.left /\ w2.reached = w.reached
      /\ w2 \in Walks
  BY DEF Walks
<1>2. CASE w.at # "walk"  BY <1>1, <1>2 DEF WalkGood
<1>3. CASE w.at = "walk"
  <2>1. w.array \in 1..Len(h) /\ w.next \in 1..(w.len + 1)  BY <1>3 DEF WalkGood
  <2>2. \A v : Ahead(h, s, w2, v) <=> Ahead(h, s, w, v)  BY <1>1 DEF Ahead
  <2>3. PassedOver(h, s, w2) \subseteq PassedOver(h, s, w)  BY <1>1, <2>2 DEF PassedOver
  <2>4. ASSUME NEW v \in Users
        PROVE  w2.reached[v] + Cardinality(Meets(h, s, w2, v))
               <= w.reached[v] + Cardinality(Meets(h, s, w, v))
    <3>1. Meets(h, s, w2, v) = Meets(h, s, w, v)  BY <1>1 DEF Meets
    <3>2. Cardinality(Meets(h, s, w, v)) \in Nat  BY WalksAreFinite
    <3>3. w.reached[v] \in Nat  BY DEF Walks
    <3> QED  BY <1>1, <3>1, <3>2, <3>3
  <2> QED  BY <1>1, <1>3, <2>1, <2>3, <2>4, WalkGoesOn
<1> QED  BY <1>2, <1>3

LEMMA LeaveKeeps ==
  ASSUME FollowerInv, NEW u \in Users, Leave(u)
  PROVE  FollowerInv'
<1>1. SliceGood(heap, slice) /\ walk \in [Broadcasts -> Walks]
      /\ \A b \in Broadcasts : WalkGood(heap, slice, walk[b])
  BY DEF FollowerInv
<1>2. followers' = followers \ {u} /\ UNCHANGED <<handler, astray>>  BY DEF Leave
<1>3. slice.len \in Nat  BY <1>1 DEF SliceGood, Slices
<1>4. Listed = ListedIn(heap, slice) /\ Listed' = ListedIn(heap', slice')  BY DEF Listed, ListedIn
<1>5. handler' \in BOOLEAN /\ followers' \in SUBSET Users
  BY <1>2 DEF FollowerInv
<1>6. handler /\ slice.len > 0 => followers \subseteq Listed \cup astray
  BY DEF FollowerInv, KnowsFollowers
<1>7. CASE handler /\ u \in Listed
  <2> DEFINE i == CHOOSE k \in 1..slice.len : heap[slice.array][k] = {u}
  <2>1. \E k \in 1..slice.len : heap[slice.array][k] = {u}  BY <1>1, <1>4, <1>7, ListedAre
  <2>2. i \in 1..slice.len /\ heap[slice.array][i] = {u}  BY <2>1
  <2>3. /\ Shifted(heap, slice, heap', slice', i)
        /\ walk' = [b \in Broadcasts |-> [walk[b] EXCEPT !.due = @ \ {u}, !.left = @ + 1]]
    BY <1>7, Zenon DEF Leave, Shifted
  <2> HIDE DEF i
  <2>4. PICK j \in 1..slice.len :
          Dropped(heap, slice, heap', slice', j, u) /\ Shifted(heap, slice, heap', slice', j)
    BY <2>2, <2>3 DEF Dropped
  <2>5. SliceGood(heap', slice') /\ ListedIn(heap', slice') = ListedIn(heap, slice) \ {u}
    BY <1>1, <2>4, ShiftedSlice
  <2>6. slice'.len > 0 => slice.len > 0
    <3>1. slice' = [slice EXCEPT !.len = @ - 1] /\ slice \in Slices
      BY <1>1, <2>4 DEF Shifted, SliceGood
    <3>2. slice'.len = slice.len - 1  BY <3>1 DEF Slices
    <3> QED  BY <1>3, <3>2
  <2>7. ASSUME NEW b \in Broadcasts  PROVE walk'[b] \in Walks /\ WalkGood(heap', slice', walk'[b])
    <3>1. PICK w \in Walks : w = walk[b]  BY <1>1
    <3>2. walk'[b] = LeftBehind(w, u)  BY <2>3, <3>1, Zenon DEF LeftBehind
    <3>3. LeftBehind(w, u) \in Walks
      <4>1. /\ w.left + 1 \in Nat /\ w.due \ {u} \in SUBSET Users  BY DEF Walks
      <4>2. LeftBehind(w, u) = [[w EXCEPT !.due = w.due \ {u}] EXCEPT !.left = w.left + 1]
        BY DEF LeftBehind, Walks
      <4>3. [w EXCEPT !.due = w.due \ {u}] \in Walks  BY <4>1 DEF Walks
      <4> QED  BY <4>1, <4>2, <4>3 DEF Walks
    <3>4. PICK w2 \in Walks : w2 = LeftBehind(w, u) /\ w2 = walk'[b]
      BY <3>2, <3>3
    <3>5. WalkGood(heap, slice, w)  BY <1>1, <3>1
    <3>6. WalkGood(heap', slice', w2)  BY <1>1, <2>4, <3>4, <3>5, ShiftedWalk
    <3> QED  BY <3>4, <3>6
  <2>8. walk' \in [Broadcasts -> Walks]
    <3>1. walk' = [b \in Broadcasts |-> walk'[b]]  BY <2>3
    <3> QED  BY <2>7, <3>1
  <2>9. KnowsFollowers'  BY <1>2, <1>4, <1>6, <2>5, <2>6 DEF KnowsFollowers
  <2> QED  BY <1>5, <2>5, <2>7, <2>8, <2>9 DEF FollowerInv
<1>8. CASE ~ (handler /\ u \in Listed)
  <2>1. heap' = heap /\ slice' = slice
        /\ walk' = [b \in Broadcasts |-> [walk[b] EXCEPT !.due = @ \ {u}]]
    BY <1>8 DEF Leave
  <2>2. ASSUME NEW b \in Broadcasts  PROVE walk'[b] \in Walks /\ WalkGood(heap', slice', walk'[b])
    <3>1. PICK w \in Walks : w = walk[b]  BY <1>1
    <3>2. walk'[b] = [w EXCEPT !.due = @ \ {u}]  BY <2>1, <3>1
    <3>3. WalkGood(heap, slice, w)  BY <1>1, <3>1
    <3> QED  BY <2>1, <3>2, <3>3, NotDue
  <2>3. walk' \in [Broadcasts -> Walks]
    <3>1. walk' = [b \in Broadcasts |-> walk'[b]]  BY <2>1
    <3> QED  BY <2>2, <3>1
  <2>4. KnowsFollowers'
    <3>1. Listed' = Listed  BY <2>1 DEF Listed
    <3> QED  BY <1>2, <1>6, <2>1, <3>1 DEF KnowsFollowers
  <2> QED  BY <1>1, <1>5, <2>1, <2>2, <2>3, <2>4 DEF FollowerInv
<1> QED  BY <1>7, <1>8

\* A broadcast takes a step of its own.
LEMMA OneWalkSteps ==
  ASSUME FollowerInv, NEW b \in Broadcasts, NEW w2,
         UNCHANGED <<handler, followers, heap, slice, astray>>,
         walk' = [walk EXCEPT ![b] = w2], w2 \in Walks, WalkGood(heap, slice, w2)
  PROVE  FollowerInv'
<1>1. walk \in [Broadcasts -> Walks] /\ \A c \in Broadcasts : WalkGood(heap, slice, walk[c])
  BY DEF FollowerInv
<1>2. walk' \in [Broadcasts -> Walks] /\ \A c \in Broadcasts : walk'[c] = IF c = b THEN w2 ELSE walk[c]
  BY <1>1
<1>3. \A c \in Broadcasts : WalkGood(heap, slice, walk'[c])  BY <1>1, <1>2
<1>4. KnowsFollowers'
  <2>1. Listed' = Listed  BY DEF Listed
  <2> QED  BY <2>1 DEF FollowerInv, KnowsFollowers
<1> QED  BY <1>2, <1>3, <1>4 DEF FollowerInv

LEMMA StoreKeeps ==
  ASSUME FollowerInv, NEW b \in Broadcasts, StoreFollowers(b)
  PROVE  FollowerInv'
<1>1. SliceGood(heap, slice) /\ walk \in [Broadcasts -> Walks]
      /\ \A c \in Broadcasts : WalkGood(heap, slice, walk[c])
  BY DEF FollowerInv
<1>2. PICK w \in Walks : w = walk[b] /\ w.at = "store" /\ WalkGood(heap, slice, w)
  BY <1>1 DEF StoreFollowers
<1>3. PICK answer \in Seq(Users) :
        /\ answer = w.answer /\ Len(answer) <= Cardinality(Users)
        /\ Distinct(answer)
  BY <1>2 DEF WalkGood, Walks, Distinct
<1>4. /\ Filled(heap, heap', slice', answer)
      /\ walk' = [walk EXCEPT ![b].at = "take", ![b].answer = <<>>]
      /\ astray' = followers \ {answer[k] : k \in DOMAIN answer}
      /\ UNCHANGED <<handler, followers>>
  BY <1>2, <1>3 DEF StoreFollowers, Filled
<1>5. /\ SliceGood(heap', slice') /\ ListedIn(heap', slice') = {answer[k] : k \in DOMAIN answer}
      /\ \A x \in Walks : WalkGood(heap, slice, x) => WalkGood(heap', slice', x)
  BY <1>1, <1>3, <1>4, FilledAnew
<1>6. PICK w2 : w2 = [w EXCEPT !.at = "take", !.answer = <<>>]  OBVIOUS
<1>7. w2 \in Walks /\ w2.at = "take" /\ w2.reached = w.reached
  <2>1. <<>> \in Seq(Users)  OBVIOUS
  <2> QED  BY <1>6, <2>1 DEF Walks
<1>8. WalkGood(heap', slice', w2)  BY <1>2, <1>7 DEF WalkGood
<1>9. walk' = [walk EXCEPT ![b] = w2]  BY <1>2, <1>4, <1>6, Zenon
<1>10. walk' \in [Broadcasts -> Walks]
       /\ \A c \in Broadcasts : walk'[c] = IF c = b THEN w2 ELSE walk[c]
  BY <1>1, <1>7, <1>9
<1>11. \A c \in Broadcasts : WalkGood(heap', slice', walk'[c])  BY <1>1, <1>5, <1>8, <1>10
<1>12. KnowsFollowers'
  <2>1. Listed' = ListedIn(heap', slice')  BY DEF Listed, ListedIn
  <2> QED  BY <1>4, <1>5, <2>1 DEF KnowsFollowers
<1> QED  BY <1>4, <1>5, <1>10, <1>11, <1>12 DEF FollowerInv

LEMMA BroadcastKeeps ==
  ASSUME FollowerInv, NEW b \in Broadcasts,
         BeginBroadcast(b) \/ AskFollowers(b) \/ TakeFilled(b) \/ SendToNext(b) \/ EndBroadcast(b)
  PROVE  FollowerInv'
<1>1. SliceGood(heap, slice) /\ walk \in [Broadcasts -> Walks] /\ followers \in SUBSET Users
      /\ \A c \in Broadcasts : WalkGood(heap, slice, walk[c])
  BY DEF FollowerInv
<1>2. PICK w \in Walks : w = walk[b] /\ WalkGood(heap, slice, w)  BY <1>1
<1>3. NoWalk \in Walks /\ NoWalk.at = "idle" /\ NoWalk.reached = [u \in Users |-> 0]
  BY DEF NoWalk, Walks
<1>4. WalkGood(heap, slice, NoWalk)  BY <1>3 DEF WalkGood
<1>5. UNCHANGED <<handler, followers, heap, slice, astray>>
  BY DEF BeginBroadcast, AskFollowers, TakeFilled, SendToNext, EndBroadcast
<1>6. CASE BeginBroadcast(b)
  <2>1. CASE slice.len > 0
    <3>1. walk' = [walk EXCEPT ![b] = Take(NoWalk)]  BY <1>6, <2>1 DEF BeginBroadcast
    <3>2. Take(NoWalk) \in Walks /\ WalkGood(heap, slice, Take(NoWalk))  BY <1>1, <1>3, TakenWalk
    <3> QED  BY <1>5, <3>1, <3>2, OneWalkSteps
  <2>2. CASE ~ (slice.len > 0)
    <3>1. PICK w2 : w2 = [NoWalk EXCEPT !.at = "ask"]  OBVIOUS
    <3>2. walk' = [walk EXCEPT ![b] = w2]  BY <1>6, <2>2, <3>1 DEF BeginBroadcast
    <3>3. w2 \in Walks /\ w2.at = "ask" /\ w2.reached = NoWalk.reached  BY <1>3, <3>1 DEF Walks
    <3>4. WalkGood(heap, slice, w2)  BY <1>3, <3>3 DEF WalkGood
    <3> QED  BY <1>5, <3>2, <3>3, <3>4, OneWalkSteps
  <2> QED  BY <2>1, <2>2
<1>7. CASE AskFollowers(b)
  <2>1. w.at = "ask" /\ w.reached = [u \in Users |-> 0]  BY <1>2, <1>7 DEF AskFollowers, WalkGood
  <2>2. CASE walk' = [walk EXCEPT ![b] = NoWalk]  BY <1>3, <1>4, <1>5, <2>2, OneWalkSteps
  <2>3. CASE \E answer \in [1..Cardinality(followers) -> followers] :
               /\ {answer[k] : k \in DOMAIN answer} = followers
               /\ walk' = [walk EXCEPT ![b].at = "store", ![b].answer = answer]
    <3>1. PICK answer \in [1..Cardinality(followers) -> followers] :
            /\ {answer[k] : k \in DOMAIN answer} = followers
            /\ walk' = [walk EXCEPT ![b].at = "store", ![b].answer = answer]
      BY <2>3
    <3>2. /\ answer \in Seq(Users) /\ Len(answer) <= Cardinality(Users)
          /\ \A p, q \in 1..Len(answer) : answer[p] = answer[q] => p = q
      BY <1>1, <3>1, AnswersAreDistinct
    <3>3. PICK w2 : w2 = [w EXCEPT !.at = "store", !.answer = answer]  OBVIOUS
    <3>4. w2 \in Walks /\ w2.at = "store" /\ w2.reached = w.reached /\ w2.answer = answer
      BY <3>2, <3>3 DEF Walks
    <3>5. WalkGood(heap, slice, w2)  BY <2>1, <3>2, <3>4 DEF WalkGood
    <3>6. walk' = [walk EXCEPT ![b] = w2]  BY <1>2, <3>1, <3>3, Zenon
    <3> QED  BY <1>5, <3>4, <3>5, <3>6, OneWalkSteps
  <2> QED  BY <1>7, <2>2, <2>3 DEF AskFollowers
<1>8. CASE TakeFilled(b)
  <2>1. w.at = "take" /\ w.reached = [u \in Users |-> 0]  BY <1>2, <1>8 DEF TakeFilled, WalkGood
  <2>2. CASE slice.len > 0
    <3>1. walk' = [walk EXCEPT ![b] = Take(w)]  BY <1>2, <1>8, <2>2 DEF TakeFilled
    <3>2. Take(w) \in Walks /\ WalkGood(heap, slice, Take(w))  BY <1>1, <2>1, TakenWalk
    <3> QED  BY <1>5, <3>1, <3>2, OneWalkSteps
  <2>3. CASE ~ (slice.len > 0)
    <3>1. walk' = [walk EXCEPT ![b] = NoWalk]  BY <1>8, <2>3 DEF TakeFilled
    <3> QED  BY <1>3, <1>4, <1>5, <3>1, OneWalkSteps
  <2> QED  BY <2>2, <2>3
<1>9. CASE SendToNext(b)
  <2>1. PICK w2 : w2 = Sent(heap, w)  OBVIOUS
  <2>2. w.at = "walk" /\ w.next <= w.len /\ walk' = [walk EXCEPT ![b] = w2]
    <3>1. w.at = "walk" /\ w.next <= w.len  BY <1>2, <1>9 DEF SendToNext
    <3>2. walk' = [walk EXCEPT ![b].next = @ + 1,
                    ![b].reached = [u \in Users |-> IF u \in heap[w.array][w.next] THEN @[u] + 1 ELSE @[u]]]
      BY <1>2, <1>9, Zenon DEF SendToNext
    <3>3. walk' = [walk EXCEPT ![b] = w2]  BY <1>2, <2>1, <3>2, Zenon DEF Sent
    <3> QED  BY <3>1, <3>3
  <2>3. w2 \in Walks /\ WalkGood(heap, slice, w2)  BY <1>1, <1>2, <2>1, <2>2, SentWalk
  <2> QED  BY <1>5, <2>2, <2>3, OneWalkSteps
<1>10. CASE EndBroadcast(b)
  <2>1. walk' = [walk EXCEPT ![b] = NoWalk]  BY <1>10 DEF EndBroadcast
  <2> QED  BY <1>3, <1>4, <1>5, <2>1, OneWalkSteps
<1> QED  BY <1>6, <1>7, <1>8, <1>9, <1>10

LEMMA FollowersStay ==
  FollowerInv /\ [SubscribersNext]_subscriberVars => FollowerInv'
<1> SUFFICES ASSUME FollowerInv, [SubscribersNext]_subscriberVars  PROVE FollowerInv'  OBVIOUS
<1>1. ASSUME NEW u \in Users, Join(u)  PROVE FollowerInv'  BY <1>1, JoinKeeps
<1>2. ASSUME NEW u \in Users, Leave(u)  PROVE FollowerInv'  BY <1>2, LeaveKeeps
<1>3. ASSUME NEW b \in Broadcasts, StoreFollowers(b)  PROVE FollowerInv'  BY <1>3, StoreKeeps
<1>4. ASSUME NEW b \in Broadcasts,
             BeginBroadcast(b) \/ AskFollowers(b) \/ TakeFilled(b) \/ SendToNext(b) \/ EndBroadcast(b)
      PROVE  FollowerInv'
  BY <1>4, BroadcastKeeps
<1>5. CASE UNCHANGED subscriberVars
  <2>1. UNCHANGED <<handler, followers, heap, slice, walk, astray>>  BY <1>5 DEF subscriberVars
  <2>2. Listed' = Listed  BY <2>1 DEF Listed
  <2> QED  BY <2>1, <2>2 DEF FollowerInv, KnowsFollowers
<1> QED  BY <1>1, <1>2, <1>3, <1>4, <1>5 DEF SubscribersNext

\* At its end a walk has nobody ahead.
LEMMA FollowersReached ==
  FollowerInv => FollowersAreReached
<1> SUFFICES ASSUME FollowerInv  PROVE FollowersAreReached  OBVIOUS
<1>1. ASSUME NEW b \in Broadcasts, walk[b].at = "walk" /\ walk[b].next > walk[b].len
      PROVE  /\ Cardinality({u \in walk[b].due : walk[b].reached[u] = 0}) <= walk[b].left
             /\ \A u \in Users : walk[b].reached[u] <= 1 + walk[b].left
  <2>1. PICK w \in Walks : w = walk[b] /\ WalkGood(heap, slice, w)  BY DEF FollowerInv
  <2>2. /\ Cardinality(PassedOver(heap, slice, w)) <= w.left
        /\ \A u \in Users : w.reached[u] + Cardinality(Meets(heap, slice, w, u)) <= 1 + w.left
    BY <1>1, <2>1 DEF WalkGood
  <2>3. w.next..w.len = {}
    <3>1. w.next \in Nat /\ w.len \in Nat /\ w.next > w.len  BY <1>1, <2>1 DEF Walks
    <3> QED  BY <3>1
  <2>4. PassedOver(heap, slice, w) = {u \in w.due : w.reached[u] = 0}  BY <2>3 DEF PassedOver, Ahead
  <2>5. ASSUME NEW u \in Users  PROVE w.reached[u] <= 1 + w.left
    <3>1. Cardinality(Meets(heap, slice, w, u)) \in Nat  BY WalksAreFinite
    <3>2. w.reached[u] \in Nat /\ w.left \in Nat  BY DEF Walks
    <3> QED  BY <2>2, <3>1, <3>2
  <2> QED  BY <2>1, <2>2, <2>4, <2>5
<1>2. WalkReachesAll  BY <1>1 DEF WalkReachesAll
<1> QED  BY <1>2 DEF FollowerInv, FollowersAreReached

\* However followers come and go while broadcasts walk over the slice they
\* share, a broadcast misses at most one follower and repeats one at most once
\* for each that left, and nobody the channel could know is unknown to it
\* (addSubscriber, removeSubscriber, broadcastToSubscribers).
THEOREM BroadcastsReachFollowers ==
  SubscribersSpec => []FollowersAreReached
<1>1. SubscribersSpec => []FollowerInv  BY FollowersStart, FollowersStay, PTL DEF SubscribersSpec
<1> QED  BY <1>1, FollowersReached, PTL

-----------------------------------------------------------------------------
(* The messages between the filters and the channels.                      *)

\* A message for a sink, and what stands for it in the retry queue.
Pairs   == [msg : News, sink : Lanes]
Entries == [msg : News, sink : Lanes, tries : Nat]
PairOf(e)  == [msg |-> e.msg, sink |-> e.sink]
PairsIn(q) == {PairOf(q[i]) : i \in DOMAIN q}
Unique(q)  == \A i, j \in DOMAIN q : PairOf(q[i]) = PairOf(q[j]) => i = j

Rounds == [on : BOOLEAN, todo : Seq(Entries), keep : Seq(Entries)]
Polls  == [at : {"idle", "dedup", "limit", "enhance", "send"}, batch : Seq(News),
           todo : Seq(Pairs), passed : SUBSET Pairs]
Counts == [open : BOOLEAN, count : Nat]

\* What still waits in the retry queue, of it what is limited by a rule, and
\* the queue and the round: no pair twice, and never more than fit.
WaitingIn(q, r) == IF r.on THEN PairsIn(r.todo) \cup PairsIn(r.keep) ELSE PairsIn(q)
Limited(w, k) == {p \in w : p.msg.source = k[1] /\ p.sink = k[2]}
QueueGood(q, r) ==
  /\ q \in Seq(Entries) /\ r \in Rounds
  /\ Unique(q) /\ Len(q) <= QueueLength
  /\ Unique(r.todo) /\ Unique(r.keep) /\ PairsIn(r.todo) \cap PairsIn(r.keep) = {}
  /\ Len(r.todo) + Len(r.keep) <= QueueLength
  /\ ~ r.on => r.todo = <<>> /\ r.keep = <<>>

\* A poll is about messages of its source.
PollGood(s, p) ==
  /\ p \in Polls
  /\ \A i \in DOMAIN p.todo : p.todo[i].msg.source = s
  /\ \A d \in p.passed : d.msg.source = s
  /\ p.at \in {"dedup", "limit"} => p.todo # <<>>

\* What was sent of a rule in its minute, and what the retries may add.
BurstGood(c, b, w) ==
  /\ c.open => c.count <= MaxPerMinute
  /\ c.open /\ c.count < MaxPerMinute => b + Cardinality(w) <= c.count + QueueLength
  /\ c.open /\ c.count >= MaxPerMinute => b <= MaxPerMinute + QueueLength
  /\ ~ c.open => b + Cardinality(w) <= MaxPerMinute + 2 * QueueLength

\* The copies of a message for a sink that the deduplication let through: at
\* the rate limit, in the batch, in the retry queue, received.
One(b) == IF b THEN 1 ELSE 0
OnItsWay(p, o, w, n) ==
  One(o.at = "limit" /\ Head(o.todo) = p) + One(p \in o.passed) + One(p \in w) + n
Copies(p) == OnItsWay(p, poll[p.msg.source], WaitingIn(retryQ, round), received[<<p.msg, p.sink>>])

Sure(k) == {d \in doubt : d.sink = k} = {}
InGroup(p) == p.msg.kind = "news" /\ p.msg.source \in Grouped
Marked(p) == /\ ExactKey(p.msg, p.sink) \in seen
             /\ InGroup(p) => ContentKey(p.msg, p.sink) \in seen
SameStory(p, q) == InGroup(p) /\ InGroup(q) /\ p.sink = q.sink /\ p.msg.story = q.msg.story

CopyInv ==
  \A p \in Pairs : p.sink \in Sinks \ Skipped /\ Sure(p.sink) =>
     /\ Copies(p) <= 1
     /\ Copies(p) >= 1 => Marked(p)
     /\ \A q \in Pairs : Copies(p) >= 1 /\ Copies(q) >= 1 /\ SameStory(p, q) => p = q

PipeTypes ==
  /\ counter \in [Counters2 -> Counts] /\ burst \in [Counters2 -> Nat]
  /\ received \in [News \X Lanes -> Nat] /\ DOMAIN poll = Sources /\ poll = [s \in Sources |-> poll[s]]

PipeInv ==
  /\ PipeTypes /\ CopyInv /\ QueueGood(retryQ, round)
  /\ \A s \in Sources : PollGood(s, poll[s])
  /\ \A k \in Counters2 : BurstGood(counter[k], burst[k], Limited(WaitingIn(retryQ, round), k))

-----------------------------------------------------------------------------
(* Sequences.                                                              *)

LEMMA HeadAndTail ==
  ASSUME NEW T, NEW q \in Seq(T), q # <<>>
  PROVE  /\ Len(q) \in Nat \ {0} /\ Head(q) = q[1] /\ Head(q) \in T /\ 1 \in DOMAIN q
         /\ Tail(q) \in Seq(T) /\ Len(Tail(q)) = Len(q) - 1
         /\ DOMAIN q = 1..Len(q) /\ DOMAIN Tail(q) = 1..(Len(q) - 1)
         /\ \A i \in DOMAIN Tail(q) : i + 1 \in DOMAIN q /\ Tail(q)[i] = q[i + 1]
  OBVIOUS

LEMMA PairsOfTail ==
  ASSUME NEW q \in Seq(Entries), q # <<>>, Unique(q)
  PROVE  /\ Unique(Tail(q)) /\ PairOf(Head(q)) \in PairsIn(q)
         /\ PairsIn(Tail(q)) = PairsIn(q) \ {PairOf(Head(q))}
<1>1. /\ Len(q) \in Nat \ {0} /\ Head(q) = q[1] /\ 1 \in DOMAIN q
      /\ DOMAIN q = 1..Len(q) /\ DOMAIN Tail(q) = 1..(Len(q) - 1)
      /\ \A i \in DOMAIN Tail(q) : i + 1 \in DOMAIN q /\ Tail(q)[i] = q[i + 1]
  BY HeadAndTail
<1>2. Unique(Tail(q))
  <2> SUFFICES ASSUME NEW i \in DOMAIN Tail(q), NEW j \in DOMAIN Tail(q),
                      PairOf(Tail(q)[i]) = PairOf(Tail(q)[j])
               PROVE  i = j
    BY DEF Unique
  <2>1. i + 1 = j + 1  BY <1>1 DEF Unique
  <2> QED  BY <1>1, <2>1
<1>3. ASSUME NEW i \in DOMAIN Tail(q)  PROVE PairOf(Tail(q)[i]) \in PairsIn(q) \ {PairOf(Head(q))}
  <2>1. i + 1 \in DOMAIN q /\ i + 1 # 1 /\ Tail(q)[i] = q[i + 1]  BY <1>1
  <2> QED  BY <1>1, <2>1 DEF PairsIn, Unique
<1>4. ASSUME NEW i \in DOMAIN q, PairOf(q[i]) # PairOf(Head(q))
      PROVE  PairOf(q[i]) \in PairsIn(Tail(q))
  <2>1. i # 1  BY <1>1, <1>4
  <2>2. i - 1 \in DOMAIN Tail(q) /\ Tail(q)[i - 1] = q[i]
    <3>1. i - 1 \in DOMAIN Tail(q)  BY <1>1, <2>1
    <3>2. (i - 1) + 1 = i  BY <1>1
    <3> QED  BY <1>1, <3>1, <3>2
  <2> QED  BY <2>2 DEF PairsIn
<1>5. PairOf(Head(q)) \in PairsIn(q)  BY <1>1 DEF PairsIn
<1>6. PairsIn(Tail(q)) \subseteq PairsIn(q) \ {PairOf(Head(q))}  BY <1>3 DEF PairsIn
<1>7. PairsIn(q) \ {PairOf(Head(q))} \subseteq PairsIn(Tail(q))  BY <1>4 DEF PairsIn
<1> QED  BY <1>2, <1>5, <1>6, <1>7

LEMMA PairsOfAppend ==
  ASSUME NEW q \in Seq(Entries), NEW e \in Entries
  PROVE  /\ Append(q, e) \in Seq(Entries) /\ Len(Append(q, e)) = Len(q) + 1
         /\ PairsIn(Append(q, e)) = PairsIn(q) \cup {PairOf(e)}
         /\ Unique(q) /\ PairOf(e) \notin PairsIn(q) => Unique(Append(q, e))
<1>1. PICK n \in Nat : n = Len(q) /\ DOMAIN q = 1..n  OBVIOUS
<1>2. PICK r \in Seq(Entries) : r = Append(q, e) /\ DOMAIN r = 1..(n + 1) /\ Len(r) = n + 1
  <2>1. Append(q, e) \in Seq(Entries) /\ Len(Append(q, e)) = Len(q) + 1  OBVIOUS
  <2>2. DOMAIN Append(q, e) = 1..Len(Append(q, e))  BY <2>1
  <2> QED  BY <1>1, <2>1, <2>2
<1>3. r[n + 1] = e /\ \A i \in 1..n : r[i] = q[i]  BY <1>1, <1>2
<1>4. PairsIn(r) = PairsIn(q) \cup {PairOf(e)}
  <2>1. ASSUME NEW i \in 1..(n + 1)  PROVE PairOf(r[i]) \in PairsIn(q) \cup {PairOf(e)}
    <3>1. CASE i = n + 1  BY <1>3, <3>1
    <3>2. CASE i # n + 1
      <4>1. i \in 1..n  BY <3>2
      <4> QED  BY <1>1, <1>3, <4>1 DEF PairsIn
    <3> QED  BY <3>1, <3>2
  <2>2. ASSUME NEW i \in 1..n  PROVE PairOf(q[i]) \in PairsIn(r)
    <3>1. i \in DOMAIN r /\ r[i] = q[i]  BY <1>2, <1>3
    <3> QED  BY <3>1 DEF PairsIn
  <2>3. PairOf(e) \in PairsIn(r)
    <3>1. n + 1 \in DOMAIN r  BY <1>2
    <3> QED  BY <1>3, <3>1 DEF PairsIn
  <2>4. PairsIn(r) \subseteq PairsIn(q) \cup {PairOf(e)}  BY <1>2, <2>1 DEF PairsIn
  <2>5. PairsIn(q) \subseteq PairsIn(r)  BY <1>1, <2>2 DEF PairsIn
  <2> QED  BY <2>3, <2>4, <2>5
<1>5. ASSUME Unique(q), PairOf(e) \notin PairsIn(q)  PROVE Unique(r)
  <2> SUFFICES ASSUME NEW i \in 1..(n + 1), NEW j \in 1..(n + 1), PairOf(r[i]) = PairOf(r[j])
               PROVE  i = j
    BY <1>2 DEF Unique
  <2>1. \A k \in 1..(n + 1) : k = n + 1 \/ k \in 1..n  OBVIOUS
  <2>2. \A k \in 1..n : PairOf(r[k]) # PairOf(r[n + 1])  BY <1>1, <1>3, <1>5 DEF PairsIn
  <2>3. CASE i \in 1..n /\ j \in 1..n  BY <1>1, <1>3, <1>5, <2>3 DEF Unique
  <2> QED  BY <2>1, <2>2, <2>3
<1> QED  BY <1>1, <1>2, <1>4, <1>5

\* A queue has no more pairs than entries.
LEMMA FewPairs ==
  ASSUME NEW q \in Seq(Entries)
  PROVE  IsFiniteSet(PairsIn(q)) /\ Cardinality(PairsIn(q)) \in Nat /\ Cardinality(PairsIn(q)) <= Len(q)
<1> DEFINE f == [i \in 1..Len(q) |-> PairOf(q[i])]
<1>1. Len(q) \in Nat /\ DOMAIN q = 1..Len(q)  OBVIOUS
<1>2. f \in Surjection(1..Len(q), PairsIn(q))  BY <1>1 DEF Surjection, PairsIn
<1>3. IsFiniteSet(1..Len(q)) /\ Cardinality(1..Len(q)) = Len(q)
  <2>1. 1 \in Int /\ Len(q) \in Int  BY <1>1
  <2>2. /\ IsFiniteSet(1..Len(q))
        /\ Cardinality(1..Len(q)) = IF 1 > Len(q) THEN 0 ELSE Len(q) - 1 + 1
    BY <2>1, FS_Interval
  <2> QED  BY <1>1, <2>2
<1> HIDE DEF f
<1>4. IsFiniteSet(PairsIn(q)) /\ Cardinality(PairsIn(q)) <= Cardinality(1..Len(q))
  BY <1>2, <1>3, FS_Surjection
<1> QED  BY <1>3, <1>4, FS_CardinalityType

LEMMA PairsAre ==
  ASSUME NEW q \in Seq(Entries)
  PROVE  PairsIn(q) \subseteq Pairs
<1>1. ASSUME NEW i \in DOMAIN q  PROVE PairOf(q[i]) \in Pairs
  <2>1. q[i] \in Entries  OBVIOUS
  <2> QED  BY <2>1 DEF PairOf, Pairs, Entries
<1> QED  BY <1>1 DEF PairsIn

\* No more waits than fits into the queue.
LEMMA FewWait ==
  ASSUME NEW q, NEW r, QueueGood(q, r)
  PROVE  /\ WaitingIn(q, r) \subseteq Pairs /\ IsFiniteSet(WaitingIn(q, r))
         /\ \A k : /\ IsFiniteSet(Limited(WaitingIn(q, r), k))
                   /\ Cardinality(Limited(WaitingIn(q, r), k)) \in Nat
                   /\ Cardinality(Limited(WaitingIn(q, r), k)) <= QueueLength
<1>1. /\ q \in Seq(Entries) /\ r.todo \in Seq(Entries) /\ r.keep \in Seq(Entries)
      /\ Len(q) <= QueueLength /\ Len(r.todo) + Len(r.keep) <= QueueLength
  BY DEF QueueGood, Rounds
<1>2. WaitingIn(q, r) \subseteq Pairs  BY <1>1, PairsAre DEF WaitingIn
<1>3. IsFiniteSet(WaitingIn(q, r)) /\ Cardinality(WaitingIn(q, r)) <= QueueLength
  <2> DEFINE A == PairsIn(r.todo)
             B == PairsIn(r.keep)
  <2>1. IsFiniteSet(A) /\ IsFiniteSet(B) /\ Cardinality(A) \in Nat /\ Cardinality(B) \in Nat
        /\ Cardinality(A) <= Len(r.todo) /\ Cardinality(B) <= Len(r.keep)
    BY <1>1, FewPairs
  <2>2. IsFiniteSet(A \cup B)
        /\ Cardinality(A \cup B) = Cardinality(A) + Cardinality(B) - Cardinality(A \cap B)
    <3> HIDE DEF A, B
    <3> QED  BY <2>1, FS_Union
  <2>3. Cardinality(A \cap B) \in Nat
    <3>1. A \cap B \in SUBSET A  OBVIOUS
    <3> HIDE DEF A, B
    <3>2. IsFiniteSet(A \cap B)  BY <2>1, <3>1, FS_Subset
    <3> QED  BY <3>2, FS_CardinalityType
  <2>4. IsFiniteSet(PairsIn(q)) /\ Cardinality(PairsIn(q)) <= Len(q)
    BY <1>1, FewPairs
  <2>5. Len(q) \in Nat /\ Len(r.todo) \in Nat /\ Len(r.keep) \in Nat /\ QueueLength \in Nat
    BY <1>1, PipelineAssumption
  <2>6. Cardinality(PairsIn(q)) \in Nat  BY <2>4, FS_CardinalityType
  <2>7. Cardinality(A \cup B) <= QueueLength
    <3> HIDE DEF A, B
    <3>1. Cardinality(A \cup B) <= Cardinality(A) + Cardinality(B)  BY <2>1, <2>2, <2>3
    <3>2. Cardinality(A) + Cardinality(B) <= QueueLength
      <4>1. PICK a \in Nat, b \in Nat : a = Cardinality(A) /\ b = Cardinality(B)  BY <2>1
      <4>2. PICK m \in Nat, n \in Nat : m = Len(r.todo) /\ n = Len(r.keep)  BY <2>5
      <4>3. a <= m /\ b <= n /\ m + n <= QueueLength  BY <1>1, <2>1, <4>1, <4>2
      <4>4. a + b <= QueueLength  BY <2>5, <4>3
      <4> QED  BY <4>1, <4>4
    <3>3. Cardinality(A \cup B) \in Nat  BY <2>2, FS_CardinalityType
    <3> QED  BY <2>1, <2>5, <3>1, <3>2, <3>3
  <2> QED  BY <1>1, <2>2, <2>4, <2>5, <2>6, <2>7 DEF WaitingIn
<1>4. Cardinality(WaitingIn(q, r)) \in Nat /\ QueueLength \in Nat
  BY <1>3, FS_CardinalityType, PipelineAssumption
<1>5. ASSUME NEW k
      PROVE  /\ IsFiniteSet(Limited(WaitingIn(q, r), k))
             /\ Cardinality(Limited(WaitingIn(q, r), k)) \in Nat
             /\ Cardinality(Limited(WaitingIn(q, r), k)) <= QueueLength
  <2>1. Limited(WaitingIn(q, r), k) \in SUBSET WaitingIn(q, r)  BY DEF Limited
  <2>2. /\ IsFiniteSet(Limited(WaitingIn(q, r), k))
        /\ Cardinality(Limited(WaitingIn(q, r), k)) <= Cardinality(WaitingIn(q, r))
    BY <1>3, <2>1, FS_Subset
  <2>3. Cardinality(Limited(WaitingIn(q, r), k)) \in Nat  BY <2>2, FS_CardinalityType
  <2> QED  BY <1>3, <1>4, <2>2, <2>3
<1> QED  BY <1>2, <1>3, <1>5

\* A full queue forgets its oldest entry.
LEMMA EnqueuedIsGood ==
  ASSUME NEW q, NEW r, QueueGood(q, r), NEW d \in Pairs
  PROVE  /\ QueueGood(Enqueued(q, d), r)
         /\ WaitingIn(Enqueued(q, d), r) \subseteq WaitingIn(q, r) \cup {d}
<1> DEFINE old == IF Len(q) >= QueueLength THEN Tail(q) ELSE q
           e == [msg |-> d.msg, sink |-> d.sink, tries |-> 0]
<1>1. q \in Seq(Entries) /\ Unique(q) /\ Len(q) \in Nat /\ Len(q) <= QueueLength
      /\ QueueLength \in Nat \ {0}
  BY PipelineAssumption DEF QueueGood
<1>2. e \in Entries /\ PairOf(e) = d  BY DEF Entries, Pairs, PairOf
<1>3. /\ old \in Seq(Entries) /\ Unique(old) /\ PairsIn(old) \subseteq PairsIn(q)
      /\ Len(old) + 1 <= QueueLength
  <2>1. CASE Len(q) >= QueueLength
    <3>1. q # <<>>  BY <1>1, <2>1
    <3>2. Tail(q) \in Seq(Entries) /\ Len(Tail(q)) = Len(q) - 1  BY <1>1, <3>1, HeadAndTail
    <3>3. Unique(Tail(q)) /\ PairsIn(Tail(q)) \subseteq PairsIn(q)  BY <1>1, <3>1, PairsOfTail
    <3> QED  BY <1>1, <2>1, <3>2, <3>3
  <2>2. CASE ~ Len(q) >= QueueLength  BY <1>1, <2>2
  <2> QED  BY <2>1, <2>2
<1>4. PICK n \in Seq(Entries) : /\ n = Enqueued(q, d) /\ Unique(n) /\ Len(n) <= QueueLength
                                /\ PairsIn(n) \subseteq PairsIn(q) \cup {d}
  <2>1. CASE \E i \in DOMAIN q : q[i].msg = d.msg /\ q[i].sink = d.sink
    BY <1>1, <2>1 DEF Enqueued
  <2>2. CASE ~ \E i \in DOMAIN q : q[i].msg = d.msg /\ q[i].sink = d.sink
    <3>1. d \notin PairsIn(q)  BY <2>2 DEF PairsIn, PairOf
    <3>2. Enqueued(q, d) = Append(old, e)  BY <2>2 DEF Enqueued
    <3> HIDE DEF old, e
    <3>3. /\ Append(old, e) \in Seq(Entries) /\ Len(Append(old, e)) = Len(old) + 1
          /\ PairsIn(Append(old, e)) = PairsIn(old) \cup {PairOf(e)}
          /\ Unique(old) /\ PairOf(e) \notin PairsIn(old) => Unique(Append(old, e))
      BY <1>2, <1>3, PairsOfAppend
    <3> QED  BY <1>2, <1>3, <3>1, <3>2, <3>3
  <2> QED  BY <2>1, <2>2
<1>5. QueueGood(n, r)  BY <1>4 DEF QueueGood
<1>6. WaitingIn(n, r) \subseteq WaitingIn(q, r) \cup {d}  BY <1>4 DEF WaitingIn
<1> QED  BY <1>4, <1>5, <1>6

-----------------------------------------------------------------------------
(* Polls.                                                                  *)

LEMMA Quotient ==
  ASSUME NEW n \in Nat \ {0}, NEW l \in Nat, NEW a \in Nat, a < l * n
  PROVE  a % n \in 0..(n - 1) /\ a \div n \in 0..(l - 1)
<1>1. a % n \in Int /\ a \div n \in Int  BY SMT
<1>2. a % n >= 0 /\ a % n < n  BY SMTT(30)
<1>3. a = n * (a \div n) + (a % n)  BY SMTT(30)
<1>4. PICK k \in Int, r \in 0..(n - 1) : k = a \div n /\ r = a % n /\ a = n * k + r
  BY <1>1, <1>2, <1>3
<1>5. k >= 0
  <2>1. ASSUME k <= -1  PROVE n * k <= - n  BY <2>1, SMTT(30)
  <2>2. n * k \in Int  BY SMTT(30)
  <2> QED  BY <1>4, <2>1, <2>2
<1>6. k < l
  <2>1. ASSUME k >= l  PROVE n * k >= l * n  BY <2>1, SMTT(30)
  <2>2. n * k \in Int /\ l * n \in Int  BY SMTT(30)
  <2> QED  BY <1>4, <2>1, <2>2
<1> QED  BY <1>4, <1>5, <1>6

LEMMA SeqOfSet ==
  ASSUME NEW S, IsFiniteSet(S), S # {}
  PROVE  /\ SetToSeq(S) \in Seq(S) /\ Len(SetToSeq(S)) \in Nat \ {0}
         /\ DOMAIN SetToSeq(S) = 1..Len(SetToSeq(S))
<1>1. Cardinality(S) \in Nat \ {0}  BY FS_CardinalityType, FS_EmptySet
<1>2. \E f \in [1..Cardinality(S) -> S] : IsInjective(f)
  BY FS_CardinalityType DEF ExistsBijection, Bijection, Injection
<1>3. SetToSeq(S) \in [1..Cardinality(S) -> S]  BY <1>2 DEF SetToSeq
<1>4. PICK n \in Nat \ {0} : SetToSeq(S) \in [1..n -> S]  BY <1>1, <1>3
<1>5. PICK q \in [1..n -> S] : q = SetToSeq(S)  BY <1>4
<1>6. q \in Seq(S) /\ Len(q) = n /\ DOMAIN q = 1..n  OBVIOUS
<1> QED  BY <1>5, <1>6

\* The checks of a batch: every message of it for a sink.
LEMMA ChecksAre ==
  ASSUME NEW s \in Sources, NEW ms \in SUBSET {m \in News : m.source = s}, ms # {}
  PROVE  /\ SetToSeq(ms) \in Seq(News)
         /\ Checks(s, SetToSeq(ms)) \in Seq(Pairs) /\ Checks(s, SetToSeq(ms)) # <<>>
         /\ \A i \in DOMAIN Checks(s, SetToSeq(ms)) : Checks(s, SetToSeq(ms))[i].msg.source = s
<1>1. IsFiniteSet(ms)  BY PipelineAssumption, FS_Subset
<1>2. SinksOf(s) \subseteq Lanes /\ SinksOf(s) # {} /\ IsFiniteSet(SinksOf(s))
  BY PipelineAssumption, FS_Singleton DEF SinksOf, Lanes
<1>3. PICK b : b = SetToSeq(ms)  OBVIOUS
<1>4. PICK ks : ks = SetToSeq(SinksOf(s))  OBVIOUS
<1>5. b \in Seq(ms) /\ Len(b) \in Nat \ {0} /\ DOMAIN b = 1..Len(b)  BY <1>1, <1>3, SeqOfSet
<1>6. ks \in Seq(SinksOf(s)) /\ Len(ks) \in Nat \ {0} /\ DOMAIN ks = 1..Len(ks)
  BY <1>2, <1>4, SeqOfSet
<1>7. PICK l \in Nat \ {0}, n \in Nat \ {0} : l = Len(b) /\ n = Len(ks)  BY <1>5, <1>6
<1>8. PICK m \in Nat \ {0} : m = l * n
  <2>1. l * n \in Nat \ {0}  BY SMTT(30)
  <2> QED  BY <2>1
<1>9. PICK c : c = Checks(s, b)  OBVIOUS
<1>10. c = [i \in 1..m |-> [msg |-> b[((i - 1) \div n) + 1], sink |-> ks[((i - 1) % n) + 1]]]
  BY <1>4, <1>7, <1>8, <1>9 DEF Checks
<1>11. ASSUME NEW i \in 1..m  PROVE c[i] \in Pairs /\ c[i].msg.source = s
  <2>1. PICK a \in Nat : a = i - 1 /\ a < l * n  BY <1>8
  <2>2. a % n \in 0..(n - 1) /\ a \div n \in 0..(l - 1)  BY <2>1, Quotient
  <2>3. PICK x \in 1..l, y \in 1..n : x = (a \div n) + 1 /\ y = (a % n) + 1  BY <2>2
  <2>4. c[i] = [msg |-> b[x], sink |-> ks[y]]  BY <1>10, <2>1, <2>3
  <2>5. b[x] \in ms /\ ks[y] \in SinksOf(s)  BY <1>5, <1>6, <1>7
  <2> QED  BY <1>2, <2>4, <2>5 DEF Pairs
<1>12. DOMAIN c = 1..m  BY <1>10
<1>13. c \in [1..m -> Pairs]
  <2>1. c = [i \in 1..m |-> c[i]]  BY <1>10
  <2> QED  BY <1>11, <2>1
<1>14. c \in Seq(Pairs) /\ Len(c) = m  BY <1>13
<1>15. c # <<>>  BY <1>14
<1>16. b \in Seq(News)  BY <1>5
<1> QED  BY <1>3, <1>9, <1>11, <1>12, <1>14, <1>15, <1>16

\* What is at the head of a check under way.
LEMMA HeadIsChecked ==
  ASSUME NEW s \in Sources, NEW p, PollGood(s, p), p.at \in {"dedup", "limit"}
  PROVE  Head(p.todo) \in Pairs /\ Head(p.todo).msg.source = s
<1>1. p.todo \in Seq(Pairs) /\ p.todo # <<>>  BY DEF PollGood, Polls
<1>2. Head(p.todo) = p.todo[1] /\ 1 \in DOMAIN p.todo /\ Head(p.todo) \in Pairs
  BY <1>1, HeadAndTail
<1> QED  BY <1>2 DEF PollGood

LEMMA CheckedIsGood ==
  ASSUME NEW s \in Sources, NEW p, PollGood(s, p), p.at \in {"dedup", "limit"}, NEW pass \in BOOLEAN
  PROVE  /\ PollGood(s, Checked(p, pass)) /\ Checked(p, pass).at \in {"dedup", "enhance"}
         /\ Checked(p, pass).passed = IF pass THEN p.passed \cup {Head(p.todo)} ELSE p.passed
<1>1. p.todo \in Seq(Pairs) /\ p.todo # <<>> /\ p \in Polls  BY DEF PollGood, Polls
<1>2. Head(p.todo) \in Pairs /\ Head(p.todo).msg.source = s  BY HeadIsChecked
<1>3. /\ Tail(p.todo) \in Seq(Pairs)
      /\ \A i \in DOMAIN Tail(p.todo) : i + 1 \in DOMAIN p.todo /\ Tail(p.todo)[i] = p.todo[i + 1]
  BY <1>1, HeadAndTail
<1>4. PICK c : c = Checked(p, pass)  OBVIOUS
<1>5. /\ c.at = (IF Tail(p.todo) # <<>> THEN "dedup" ELSE "enhance")
      /\ c.todo = Tail(p.todo) /\ c.batch = p.batch
      /\ c.passed = (IF pass THEN p.passed \cup {Head(p.todo)} ELSE p.passed)
      /\ c = [x \in {"at", "batch", "todo", "passed"} |-> c[x]]
  BY <1>1, <1>4 DEF Checked, Polls
<1>6. c \in Polls
  <2>1. c.passed \in SUBSET Pairs  BY <1>1, <1>2, <1>5 DEF Polls
  <2>2. c.batch \in Seq(News)  BY <1>1, <1>5 DEF Polls
  <2> QED  BY <1>3, <1>5, <2>1, <2>2 DEF Polls
<1>7. \A i \in DOMAIN c.todo : c.todo[i].msg.source = s  BY <1>3, <1>5 DEF PollGood
<1>8. \A d \in c.passed : d.msg.source = s  BY <1>2, <1>5 DEF PollGood
<1> QED  BY <1>4, <1>5, <1>6, <1>7, <1>8 DEF PollGood

-----------------------------------------------------------------------------
(* Steps that let no message through.                                      *)

LEMMA CopiesCount ==
  /\ PipeTypes => \A p \in Pairs : Copies(p) \in Nat /\ received[<<p.msg, p.sink>>] \in Nat
  /\ PipeTypes' => \A p \in Pairs : Copies(p)' \in Nat /\ received'[<<p.msg, p.sink>>] \in Nat
<1>1. ASSUME NEW p, NEW o, NEW w, NEW n \in Nat  PROVE OnItsWay(p, o, w, n) \in Nat
  <2>1. \A b : One(b) \in Nat  BY DEF One
  <2> QED  BY <2>1 DEF OnItsWay
<1>2. \A p \in Pairs : <<p.msg, p.sink>> \in News \X Lanes  BY DEF Pairs
<1>3. ASSUME PipeTypes, NEW p \in Pairs  PROVE Copies(p) \in Nat /\ received[<<p.msg, p.sink>>] \in Nat
  <2>1. received[<<p.msg, p.sink>>] \in Nat  BY <1>2, <1>3 DEF PipeTypes
  <2> QED  BY <1>1, <2>1 DEF Copies
<1>4. ASSUME PipeTypes', NEW p \in Pairs
      PROVE  Copies(p)' \in Nat /\ received'[<<p.msg, p.sink>>] \in Nat
  <2>1. received'[<<p.msg, p.sink>>] \in Nat  BY <1>2, <1>4 DEF PipeTypes
  <2> QED  BY <1>1, <2>1 DEF Copies
<1> QED  BY <1>3, <1>4

NoNewCopy == \A p \in Pairs : Copies(p)' <= Copies(p)

LEMMA CopiesStay ==
  ASSUME PipeTypes, PipeTypes', CopyInv, seen \subseteq seen', doubt \subseteq doubt', NoNewCopy
  PROVE  CopyInv'
<1>1. ASSUME NEW p \in Pairs, Copies(p)' >= 1  PROVE Copies(p) >= 1
  <2>1. Copies(p) \in Nat /\ Copies(p)' \in Nat  BY CopiesCount
  <2>2. Copies(p)' <= Copies(p)  BY DEF NoNewCopy
  <2> QED  BY <1>1, <2>1, <2>2
<1>2. SUFFICES ASSUME NEW p \in Pairs, p.sink \in Sinks \ Skipped, Sure(p.sink)'
      PROVE  /\ Copies(p)' <= 1
             /\ Copies(p)' >= 1 => Marked(p)'
             /\ \A q \in Pairs : Copies(p)' >= 1 /\ Copies(q)' >= 1 /\ SameStory(p, q) => p = q
  BY DEF CopyInv, SameStory, InGroup
<1>3. Sure(p.sink)  BY <1>2 DEF Sure
<1>4. /\ Copies(p) <= 1
      /\ Copies(p) >= 1 => Marked(p)
      /\ \A q \in Pairs : Copies(p) >= 1 /\ Copies(q) >= 1 /\ SameStory(p, q) => p = q
  BY <1>2, <1>3 DEF CopyInv
<1>5. Copies(p)' <= 1
  <2>1. Copies(p) \in Nat /\ Copies(p)' \in Nat  BY CopiesCount
  <2>2. Copies(p)' <= Copies(p)  BY DEF NoNewCopy
  <2> QED  BY <1>4, <2>1, <2>2
<1>6. Copies(p)' >= 1 => Marked(p)'  BY <1>1, <1>4 DEF Marked, InGroup
<1> QED  BY <1>1, <1>4, <1>5, <1>6

\* One poll goes on.
PollMoves(s, o) == /\ poll' = [t \in Sources |-> poll'[t]]
                   /\ poll'[s] = o /\ \A t \in Sources \ {s} : poll'[t] = poll[t]

LEMMA Replaced ==
  ASSUME DOMAIN poll = Sources, NEW s \in Sources, NEW o, poll' = [poll EXCEPT ![s] = o]
  PROVE  PollMoves(s, o)
  BY DEF PollMoves

LEMMA OnePollMoves ==
  ASSUME PipeInv, NEW s \in Sources, NEW o, PollGood(s, o), PollMoves(s, o)
  PROVE  /\ DOMAIN poll' = Sources /\ poll' = [t \in Sources |-> poll'[t]]
         /\ \A t \in Sources : PollGood(t, poll'[t])
         /\ poll'[s] = o /\ \A t \in Sources : t # s => poll'[t] = poll[t]
<1>1. DOMAIN poll = Sources  BY DEF PipeInv, PipeTypes
<1>2. /\ DOMAIN poll' = Sources /\ poll' = [t \in Sources |-> poll'[t]]
      /\ poll'[s] = o /\ \A t \in Sources : t # s => poll'[t] = poll[t]
  BY <1>1 DEF PollMoves
<1>3. \A t \in Sources : PollGood(t, poll'[t])  BY <1>2 DEF PipeInv
<1> QED  BY <1>2, <1>3

\* Nothing new is at the rate limit or in the batch.
Shrinks(o, o2) ==
  /\ o2.at = "limit" => o.at = "limit" /\ Head(o2.todo) = Head(o.todo)
  /\ o2.passed \subseteq o.passed

LEMMA FewerOnTheWay ==
  ASSUME NEW p, NEW o, NEW o2, NEW w, NEW w2, NEW n \in Nat, NEW n2 \in Nat, Shrinks(o, o2),
         p \in w2 => p \in w, n2 <= n
  PROVE  OnItsWay(p, o2, w2, n2) <= OnItsWay(p, o, w, n)
<1>1. One(o2.at = "limit" /\ Head(o2.todo) = p) <= One(o.at = "limit" /\ Head(o.todo) = p)
  BY DEF Shrinks, One
<1>2. One(p \in o2.passed) <= One(p \in o.passed) /\ One(p \in w2) <= One(p \in w)
  BY DEF Shrinks, One
<1>3. \A b : One(b) \in Nat  BY DEF One
<1> QED  BY <1>1, <1>2, <1>3 DEF OnItsWay

LEMMA PollStep ==
  ASSUME PipeInv, NEW s \in Sources, NEW o, PollGood(s, o), PollMoves(s, o), Shrinks(poll[s], o),
         UNCHANGED <<counter, burst, retryQ, round, received>>,
         seen \subseteq seen', doubt \subseteq doubt'
  PROVE  PipeInv'
<1>1. /\ DOMAIN poll' = Sources /\ poll' = [t \in Sources |-> poll'[t]]
      /\ \A t \in Sources : PollGood(t, poll'[t])
      /\ poll'[s] = o /\ \A t \in Sources : t # s => poll'[t] = poll[t]
  BY OnePollMoves
<1>2. PipeTypes'  BY <1>1 DEF PipeInv, PipeTypes
<1>3. NoNewCopy
  <2> SUFFICES ASSUME NEW p \in Pairs  PROVE Copies(p)' <= Copies(p)
    BY DEF NoNewCopy
  <2>1. p.msg.source \in Sources  BY PipelineAssumption DEF Pairs
  <2>2. Shrinks(poll[p.msg.source], poll'[p.msg.source])
    <3>1. CASE p.msg.source = s  BY <1>1, <3>1
    <3>2. CASE p.msg.source # s
      <4>1. poll'[p.msg.source] = poll[p.msg.source]  BY <1>1, <2>1, <3>2
      <4> QED  BY <4>1 DEF Shrinks
    <3> QED  BY <3>1, <3>2
  <2>3. received[<<p.msg, p.sink>>] \in Nat  BY CopiesCount DEF PipeInv
  <2>4. OnItsWay(p, poll'[p.msg.source], WaitingIn(retryQ, round), received[<<p.msg, p.sink>>])
        <= OnItsWay(p, poll[p.msg.source], WaitingIn(retryQ, round), received[<<p.msg, p.sink>>])
    BY <2>2, <2>3, FewerOnTheWay
  <2> QED  BY <2>4 DEF Copies
<1>4. CopyInv'  BY <1>2, <1>3, CopiesStay DEF PipeInv
<1>5. QueueGood(retryQ', round')  BY DEF PipeInv
<1>6. \A k \in Counters2 : BurstGood(counter'[k], burst'[k], Limited(WaitingIn(retryQ', round'), k))
  BY DEF PipeInv
<1> QED  BY <1>1, <1>2, <1>4, <1>5, <1>6 DEF PipeInv

LEMMA FetchKeeps ==
  ASSUME PipeInv, NEW s \in Sources, Fetch(s)
  PROVE  PipeInv'
<1>1. PICK ms \in SUBSET {m \in News : m.source = s} :
        /\ ms # {}
        /\ poll' = [poll EXCEPT ![s] = [at |-> "dedup", batch |-> SetToSeq(ms),
                                        todo |-> Checks(s, SetToSeq(ms)), passed |-> {}]]
  BY DEF Fetch
<1>2. PICK o : /\ o = [at |-> "dedup", batch |-> SetToSeq(ms), todo |-> Checks(s, SetToSeq(ms)),
                       passed |-> {}]
               /\ poll' = [poll EXCEPT ![s] = o]
  BY <1>1
<1>3. /\ SetToSeq(ms) \in Seq(News)
      /\ Checks(s, SetToSeq(ms)) \in Seq(Pairs) /\ Checks(s, SetToSeq(ms)) # <<>>
      /\ \A i \in DOMAIN Checks(s, SetToSeq(ms)) : Checks(s, SetToSeq(ms))[i].msg.source = s
  BY <1>1, ChecksAre
<1>4. PollGood(s, o)
  <2>1. o \in Polls  BY <1>2, <1>3 DEF Polls
  <2> QED  BY <1>2, <1>3, <2>1 DEF PollGood
<1>5. Shrinks(poll[s], o)  BY <1>2 DEF Shrinks
<1>6. PollMoves(s, o)  BY <1>2, Replaced DEF PipeInv, PipeTypes
<1>7. UNCHANGED <<counter, burst, retryQ, round, received>> /\ seen \subseteq seen' /\ doubt \subseteq doubt'
  BY DEF Fetch
<1> QED  BY <1>4, <1>5, <1>6, <1>7, PollStep

LEMMA EnhanceKeeps ==
  ASSUME PipeInv, NEW s \in Sources, Enhance(s)
  PROVE  PipeInv'
<1>1. PICK dropped :
        poll' = [poll EXCEPT ![s].at = "send", ![s].passed = {d \in @ : d.msg \notin dropped}]
  BY DEF Enhance
<1>2. PollGood(s, poll[s]) /\ poll[s] \in Polls /\ DOMAIN poll = Sources
  BY DEF PipeInv, PipeTypes, PollGood
<1>3. PICK o : o = poll'[s]  OBVIOUS
<1>4. /\ o.at = "send" /\ o.passed = {d \in poll[s].passed : d.msg \notin dropped}
      /\ o.todo = poll[s].todo /\ o.batch = poll[s].batch
      /\ o = [x \in {"at", "batch", "todo", "passed"} |-> o[x]]
  BY <1>1, <1>2, <1>3 DEF Polls
<1>8. PollMoves(s, o)  BY <1>1, <1>2, <1>3 DEF PollMoves
<1>5. PollGood(s, o)
  <2>1. o.passed \in SUBSET Pairs /\ o.todo \in Seq(Pairs) /\ o.batch \in Seq(News)
    BY <1>2, <1>4 DEF Polls
  <2>2. o \in Polls  BY <1>4, <2>1 DEF Polls
  <2> QED  BY <1>2, <1>4, <2>2 DEF PollGood
<1>6. Shrinks(poll[s], o)  BY <1>4 DEF Shrinks
<1>7. UNCHANGED <<counter, burst, retryQ, round, received>> /\ seen \subseteq seen' /\ doubt \subseteq doubt'
  BY DEF Enhance
<1> QED  BY <1>5, <1>6, <1>7, <1>8, PollStep

LEMMA EndPollKeeps ==
  ASSUME PipeInv, NEW s \in Sources, EndPoll(s)
  PROVE  PipeInv'
<1>1. PollMoves(s, NoPoll)  BY Replaced DEF EndPoll, PipeInv, PipeTypes
<1>2. PollGood(s, NoPoll)  BY DEF PollGood, NoPoll, Polls
<1>3. Shrinks(poll[s], NoPoll)  BY DEF Shrinks, NoPoll
<1>4. UNCHANGED <<counter, burst, retryQ, round, received>> /\ seen \subseteq seen' /\ doubt \subseteq doubt'
  BY DEF EndPoll
<1> QED  BY <1>1, <1>2, <1>3, <1>4, PollStep

-----------------------------------------------------------------------------
(* A message is let through: its keys were new.                            *)

LEMMA KeysWereNew ==
  ASSUME NEW m, NEW k, k \notin Skipped, ~ Dedup(m, k, {}).stops
  PROVE  /\ ExactKey(m, k) \notin seen /\ ExactKey(m, k) \in Dedup(m, k, {}).set
         /\ m.kind = "news" /\ m.source \in Grouped =>
              ContentKey(m, k) \notin seen /\ ContentKey(m, k) \in Dedup(m, k, {}).set
<1> DEFINE ks == Keys(m, k)
           hit == {i \in DOMAIN ks : ks[i] \in seen /\ ks[i] \notin {}}
           upto == IF hit = {} THEN Len(ks) + 1 ELSE CHOOSE i \in hit : \A j \in hit : i <= j
<1>1. Dedup(m, k, {}) = [stops |-> hit # {}, set |-> {ks[i] : i \in 1..(upto - 1)} \ {},
                         sem |-> hit = {} /\ m.kind = "news" /\ k # DigestSink]
  BY DEF Dedup
<1>2. hit = {}
  <2> HIDE DEF hit, upto, ks
  <2>1. PICK b, x, y : b = (hit # {}) /\ Dedup(m, k, {}) = [stops |-> b, set |-> x, sem |-> y]
    BY <1>1, Zenon
  <2>2. Dedup(m, k, {}).stops = b  BY <2>1
  <2>3. ~ b  BY <2>2, Zenon
  <2> QED  BY <2>1, <2>3, Zenon
<1>3. Dedup(m, k, {}).set = {ks[i] : i \in 1..(Len(ks) + 1 - 1)}  BY <1>1, <1>2
<1>4. CASE m.kind = "news" /\ m.source \in Grouped
  <2>1. ks = <<ExactKey(m, k), ContentKey(m, k)>>  BY <1>4 DEF Keys
  <2>2. ks[1] = ExactKey(m, k) /\ ks[2] = ContentKey(m, k) /\ Len(ks) = 2 /\ DOMAIN ks = {1, 2}
    BY <2>1
  <2>3. 1 \in 1..(Len(ks) + 1 - 1) /\ 2 \in 1..(Len(ks) + 1 - 1)  BY <2>2
  <2>4. ks[1] \notin seen /\ ks[2] \notin seen  BY <1>2, <2>2
  <2> HIDE DEF ks
  <2>5. ks[1] \in Dedup(m, k, {}).set /\ ks[2] \in Dedup(m, k, {}).set  BY <1>3, <2>3
  <2> QED  BY <2>2, <2>4, <2>5
<1>5. CASE ~ (m.kind = "news" /\ m.source \in Grouped)
  <2>1. ks = <<ExactKey(m, k)>>  BY <1>5 DEF Keys
  <2>2. ks[1] = ExactKey(m, k) /\ Len(ks) = 1 /\ DOMAIN ks = {1}  BY <2>1
  <2>3. 1 \in 1..(Len(ks) + 1 - 1)  BY <2>2
  <2> QED  BY <1>2, <1>3, <1>5, <2>2, <2>3
<1> QED  BY <1>4, <1>5

\* No copy of another message with the story of a new one is about.
LEMMA StoryWasNew ==
  ASSUME CopyInv, NEW p \in Pairs, NEW d \in Pairs, p.sink \in Sinks \ Skipped, Sure(p.sink),
         SameStory(p, d) \/ SameStory(d, p), Copies(p) >= 1, ContentKey(d.msg, d.sink) \notin seen
  PROVE  FALSE
<1>1. Marked(p)  BY DEF CopyInv
<1>2. InGroup(p) /\ p.sink = d.sink /\ p.msg.story = d.msg.story  BY DEF SameStory
<1>3. p.sink # DigestSink  BY PipelineAssumption
<1>4. ContentKey(p.msg, p.sink) = ContentKey(d.msg, d.sink)  BY <1>2, <1>3 DEF ContentKey
<1> QED  BY <1>1, <1>2, <1>4 DEF Marked

FreshKeys(d) == /\ ExactKey(d.msg, d.sink) \notin seen
                /\ InGroup(d) => ContentKey(d.msg, d.sink) \notin seen

LEMMA CopyIsFirst ==
  ASSUME PipeTypes, PipeTypes', CopyInv, NEW d \in Pairs, seen \subseteq seen', doubt \subseteq doubt',
         \A p \in Pairs : p # d => Copies(p)' <= Copies(p), Copies(d)' <= Copies(d) + 1,
         d.sink \in Sinks \ Skipped /\ Sure(d.sink)' => FreshKeys(d) /\ Marked(d)'
  PROVE  CopyInv'
<1>1. \A p \in Pairs : Copies(p) \in Nat /\ Copies(p)' \in Nat  BY CopiesCount
<1>2. ASSUME NEW p \in Pairs, p # d, Copies(p)' >= 1  PROVE Copies(p) >= 1
  <2>1. Copies(p)' <= Copies(p)  BY <1>2
  <2> QED  BY <1>1, <1>2, <2>1
<1>3. SUFFICES ASSUME NEW p \in Pairs, p.sink \in Sinks \ Skipped, Sure(p.sink)'
      PROVE  /\ Copies(p)' <= 1
             /\ Copies(p)' >= 1 => Marked(p)'
             /\ \A q \in Pairs : Copies(p)' >= 1 /\ Copies(q)' >= 1 /\ SameStory(p, q) => p = q
  BY DEF CopyInv, SameStory, InGroup
<1>4. Sure(p.sink)  BY <1>3 DEF Sure
<1>5. /\ Copies(p) <= 1
      /\ Copies(p) >= 1 => Marked(p)
      /\ \A q \in Pairs : Copies(p) >= 1 /\ Copies(q) >= 1 /\ SameStory(p, q) => p = q
  BY <1>3, <1>4 DEF CopyInv
<1>6. CASE p # d
  <2>1. Copies(p)' <= 1
    <3>1. Copies(p)' <= Copies(p)  BY <1>6
    <3> QED  BY <1>1, <1>5, <3>1
  <2>2. Copies(p)' >= 1 => Marked(p)'  BY <1>2, <1>5, <1>6 DEF Marked, InGroup
  <2>3. ASSUME NEW q \in Pairs, Copies(p)' >= 1, Copies(q)' >= 1, SameStory(p, q)  PROVE p = q
    <3>1. Copies(p) >= 1  BY <1>2, <1>6, <2>3
    <3>2. CASE q # d  BY <1>2, <1>5, <2>3, <3>1, <3>2
    <3>3. CASE q = d
      <4>1. d.sink = p.sink /\ InGroup(d)  BY <2>3, <3>3 DEF SameStory
      <4>2. FreshKeys(d)
        <5>1. Sure(d.sink)' <=> Sure(p.sink)'  BY <4>1
        <5> QED  BY <1>3, <4>1, <5>1
      <4>3. ContentKey(d.msg, d.sink) \notin seen  BY <4>1, <4>2 DEF FreshKeys
      <4> QED  BY <1>3, <1>4, <2>3, <3>1, <3>3, <4>3, StoryWasNew
    <3> QED  BY <3>2, <3>3
  <2> QED  BY <2>1, <2>2, <2>3
<1>7. CASE p = d
  <2>1. FreshKeys(d) /\ Marked(d)'
    <3>1. Sure(d.sink)' <=> Sure(p.sink)'  BY <1>7
    <3> QED  BY <1>3, <1>7, <3>1
  <2>2. Copies(d)' <= 1
    <3>1. ~ Marked(d)  BY <2>1 DEF FreshKeys, Marked
    <3>2. ~ (Copies(d) >= 1)  BY <1>5, <1>7, <3>1
    <3> QED  BY <1>1, <3>2
  <2>3. ASSUME NEW q \in Pairs, q # d, Copies(q)' >= 1, SameStory(d, q)  PROVE FALSE
    <3>1. Copies(q) >= 1  BY <1>2, <2>3
    <3>2. d.sink = q.sink /\ InGroup(d)  BY <2>3 DEF SameStory
    <3>3. q.sink \in Sinks \ Skipped /\ Sure(q.sink)  BY <1>3, <1>4, <1>7, <3>2
    <3>4. ContentKey(d.msg, d.sink) \notin seen  BY <2>1, <3>2 DEF FreshKeys
    <3> QED  BY <2>3, <3>1, <3>3, <3>4, StoryWasNew
  <2>4. Copies(p)' <= 1 /\ Marked(p)'
    <3>1. Copies(p)' = Copies(d)' /\ (Marked(p)' <=> Marked(d)')  BY <1>7
    <3> QED  BY <2>1, <2>2, <3>1
  <2> QED  BY <1>7, <2>3, <2>4
<1> QED  BY <1>6, <1>7

LEMMA CheckSeenKeeps ==
  ASSUME PipeInv, NEW s \in Sources, CheckSeen(s)
  PROVE  PipeInv'
<1>0. PICK d : d = Head(poll[s].todo)  OBVIOUS
<1>1. PollGood(s, poll[s]) /\ DOMAIN poll = Sources /\ poll[s].at = "dedup" /\ poll[s] \in Polls
  BY DEF PipeInv, PipeTypes, PollGood, CheckSeen
<1>2. d \in Pairs /\ d.msg.source = s  BY <1>0, <1>1, HeadIsChecked
<1>3. UNCHANGED <<counter, burst, retryQ, round, received>>  BY DEF CheckSeen
<1>4. CASE /\ poll' = [poll EXCEPT ![s] = Checked(poll[s], FALSE)]
           /\ seen \subseteq seen' /\ doubt \subseteq doubt'
  <2>1. PollGood(s, Checked(poll[s], FALSE)) /\ Shrinks(poll[s], Checked(poll[s], FALSE))
    <3>1. /\ PollGood(s, Checked(poll[s], FALSE)) /\ Checked(poll[s], FALSE).at \in {"dedup", "enhance"}
          /\ Checked(poll[s], FALSE).passed = poll[s].passed
      BY <1>1, CheckedIsGood
    <3> QED  BY <3>1 DEF Shrinks
  <2>2. PollMoves(s, Checked(poll[s], FALSE))  BY <1>1, <1>4, Replaced
  <2> QED  BY <1>3, <1>4, <2>1, <2>2, PollStep
<1>5. CASE Noise(d.msg)
  <2>1. poll' = [poll EXCEPT ![s] = Checked(poll[s], FALSE)] /\ seen' = seen /\ doubt' = doubt
    BY <1>0, <1>5 DEF CheckSeen
  <2> QED  BY <1>4, <2>1
<1>6. CASE ~ Noise(d.msg)
  <2>1. PICK broken, v :
          /\ v = Dedup(d.msg, d.sink, broken) /\ seen' = seen \cup v.set
          /\ doubt' = IF broken # {} THEN doubt \cup {[msg |-> d.msg, sink |-> d.sink]} ELSE doubt
          /\ \/ poll' = [poll EXCEPT ![s] = Checked(poll[s], FALSE)]
             \/ poll' = [poll EXCEPT ![s] = [poll[s] EXCEPT !.at = "limit"]] /\ ~ v.stops
    BY <1>0, <1>6 DEF CheckSeen
  <2>2. seen \subseteq seen' /\ doubt \subseteq doubt'  BY <2>1
  <2>3. CASE poll' = [poll EXCEPT ![s] = Checked(poll[s], FALSE)]  BY <1>4, <2>2, <2>3
  <2>4. CASE poll' = [poll EXCEPT ![s] = [poll[s] EXCEPT !.at = "limit"]] /\ ~ v.stops
    <3>1. PICK o : o = [poll[s] EXCEPT !.at = "limit"]  OBVIOUS
    <3>2. /\ o.at = "limit" /\ o.todo = poll[s].todo /\ o.passed = poll[s].passed /\ o \in Polls
      BY <1>1, <3>1 DEF Polls
    <3>3. PollGood(s, o)  BY <1>1, <3>2 DEF PollGood
    <3>4. PollMoves(s, o)  BY <1>1, <2>4, <3>1, Replaced
    <3>5. /\ DOMAIN poll' = Sources /\ poll' = [t \in Sources |-> poll'[t]]
          /\ \A t \in Sources : PollGood(t, poll'[t])
          /\ poll'[s] = o /\ \A t \in Sources : t # s => poll'[t] = poll[t]
      BY <3>3, <3>4, OnePollMoves
    <3>6. PipeTypes /\ PipeTypes' /\ CopyInv  BY <1>3, <3>5 DEF PipeInv, PipeTypes
    <3>7. ASSUME NEW p \in Pairs
          PROVE  Copies(p)' <= Copies(p) + 1 /\ (p # d => Copies(p)' <= Copies(p))
      <4>1. p.msg.source \in Sources  BY PipelineAssumption DEF Pairs
      <4>2. PICK n \in Nat : n = received[<<p.msg, p.sink>>]  BY <3>6, CopiesCount
      <4>3. Copies(p) = OnItsWay(p, poll[p.msg.source], WaitingIn(retryQ, round), n)
        BY <4>2 DEF Copies
      <4>4. Copies(p)' = OnItsWay(p, poll'[p.msg.source], WaitingIn(retryQ, round), n)
        BY <1>3, <4>2 DEF Copies
      <4>5. CASE p.msg.source # s
        <5>1. Copies(p)' = Copies(p)  BY <3>5, <4>1, <4>3, <4>4, <4>5
        <5>2. Copies(p) \in Nat  BY <3>6, CopiesCount
        <5> QED  BY <5>1, <5>2
      <4>6. CASE p.msg.source = s
        <5>1. One(o.at = "limit" /\ Head(o.todo) = p) = IF p = d THEN 1 ELSE 0  BY <1>0, <3>2 DEF One
        <5>2. One(poll[s].at = "limit" /\ Head(poll[s].todo) = p) = 0  BY <1>1 DEF One
        <5>3. PICK a \in Nat, b \in Nat : a = One(p \in poll[s].passed) /\ b = One(p \in WaitingIn(retryQ, round))
          BY DEF One
        <5>4. Copies(p) = 0 + a + b + n  BY <4>3, <4>6, <5>2, <5>3 DEF OnItsWay
        <5>5. Copies(p)' = (IF p = d THEN 1 ELSE 0) + a + b + n
          BY <3>2, <3>5, <4>4, <4>6, <5>1, <5>3 DEF OnItsWay
        <5> QED  BY <5>4, <5>5
      <4> QED  BY <4>5, <4>6
    <3>8. ASSUME d.sink \in Sinks \ Skipped, Sure(d.sink)'  PROVE FreshKeys(d) /\ Marked(d)'
      <4>1. broken = {}
        <5>1. d = [msg |-> d.msg, sink |-> d.sink]
          <6> QED  BY <1>2 DEF Pairs
        <5>2. d \notin doubt'  BY <3>8 DEF Sure
        <5> QED  BY <2>1, <5>1, <5>2
      <4>2. d.sink \notin Skipped /\ ~ Dedup(d.msg, d.sink, {}).stops /\ seen' = seen \cup Dedup(d.msg, d.sink, {}).set
        BY <2>1, <2>4, <3>8, <4>1
      <4>3. /\ ExactKey(d.msg, d.sink) \notin seen /\ ExactKey(d.msg, d.sink) \in Dedup(d.msg, d.sink, {}).set
            /\ d.msg.kind = "news" /\ d.msg.source \in Grouped =>
                 /\ ContentKey(d.msg, d.sink) \notin seen
                 /\ ContentKey(d.msg, d.sink) \in Dedup(d.msg, d.sink, {}).set
        BY <4>2, KeysWereNew
      <4>4. FreshKeys(d)  BY <4>3 DEF FreshKeys, InGroup
      <4>5. ExactKey(d.msg, d.sink) \in seen' /\ (InGroup(d) => ContentKey(d.msg, d.sink) \in seen')
        BY <4>2, <4>3 DEF InGroup
      <4> QED  BY <1>2, <4>4, <4>5 DEF Marked
    <3>9. CopyInv'
      <4> QED  BY <1>2, <2>2, <3>6, <3>7, <3>8, CopyIsFirst
    <3>10. QueueGood(retryQ', round')  BY <1>3 DEF PipeInv
    <3>11. \A k \in Counters2 : BurstGood(counter'[k], burst'[k], Limited(WaitingIn(retryQ', round'), k))
      BY <1>3 DEF PipeInv
    <3> QED  BY <3>5, <3>6, <3>9, <3>10, <3>11 DEF PipeInv
  <2> QED  BY <2>1, <2>3, <2>4
<1> QED  BY <1>5, <1>6

-----------------------------------------------------------------------------
(* Messages that were let through are sent, or wait.                       *)

LEMMA SendKeeps ==
  ASSUME PipeInv, NEW s \in Sources, Send(s)
  PROVE  PipeInv'
<1>1. PollGood(s, poll[s]) /\ DOMAIN poll = Sources /\ poll[s].at = "send" /\ poll[s] \in Polls
      /\ received \in [News \X Lanes -> Nat] /\ PipeTypes
  BY DEF PipeInv, PipeTypes, PollGood, Send
<1>2. UNCHANGED <<counter, burst, retryQ, round, seen, doubt>>  BY DEF Send
<1>3. PICK mine, ok :
        /\ mine \subseteq poll[s].passed /\ ok \subseteq mine
        /\ received' = [d \in DOMAIN received |->
              received[d] + (IF [msg |-> d[1], sink |-> d[2]] \in ok THEN 1 ELSE 0)]
        /\ poll' = [poll EXCEPT ![s].passed =
                      IF s \in DigestSources /\ ok = {} THEN {} ELSE @ \ mine]
  BY DEF Send
<1>4. PICK o : /\ o = poll'[s] /\ o.at = "send" /\ o.todo = poll[s].todo /\ o \in Polls
               /\ o.passed \subseteq poll[s].passed /\ o.passed \cap ok = {}
  <2>1. PICK left : /\ left = (IF s \in DigestSources /\ ok = {} THEN {} ELSE poll[s].passed \ mine)
                    /\ poll' = [poll EXCEPT ![s].passed = left]
    BY <1>3
  <2>2. left \subseteq poll[s].passed /\ left \cap ok = {}
    BY <1>3, <2>1
  <2>3. PICK o : o = poll'[s] /\ o = [poll[s] EXCEPT !.passed = left]  BY <1>1, <2>1
  <2>4. o.at = "send" /\ o.todo = poll[s].todo /\ o.passed = left /\ o \in Polls
    BY <1>1, <2>2, <2>3 DEF Polls
  <2> QED  BY <2>2, <2>3, <2>4
<1>5. PollGood(s, o)  BY <1>1, <1>4 DEF PollGood
<1>6. PollMoves(s, o)  BY <1>1, <1>3, <1>4 DEF PollMoves
<1>7. /\ DOMAIN poll' = Sources /\ poll' = [t \in Sources |-> poll'[t]]
      /\ \A t \in Sources : PollGood(t, poll'[t])
      /\ poll'[s] = o /\ \A t \in Sources : t # s => poll'[t] = poll[t]
  BY <1>5, <1>6, OnePollMoves
<1>8. received' \in [News \X Lanes -> Nat]
  <2>1. \A d \in News \X Lanes : received[d] + (IF [msg |-> d[1], sink |-> d[2]] \in ok THEN 1 ELSE 0) \in Nat
    BY <1>1
  <2> QED  BY <1>1, <1>3, <2>1
<1>9. PipeTypes'  BY <1>1, <1>2, <1>7, <1>8 DEF PipeTypes
<1>10. ASSUME NEW p \in Pairs  PROVE Copies(p)' <= Copies(p)
  <2>1. p.msg.source \in Sources /\ <<p.msg, p.sink>> \in News \X Lanes
    BY PipelineAssumption DEF Pairs
  <2>2. p = [msg |-> p.msg, sink |-> p.sink]  BY DEF Pairs
  <2>3. received'[<<p.msg, p.sink>>] = received[<<p.msg, p.sink>>] + (IF p \in ok THEN 1 ELSE 0)
    BY <1>1, <1>3, <2>1, <2>2
  <2>4. PICK n \in Nat : n = received[<<p.msg, p.sink>>]  BY <1>1, <2>1
  <2>5. Copies(p) = OnItsWay(p, poll[p.msg.source], WaitingIn(retryQ, round), n)
    BY <2>4 DEF Copies
  <2>6. Copies(p)' = OnItsWay(p, poll'[p.msg.source], WaitingIn(retryQ, round),
                              n + (IF p \in ok THEN 1 ELSE 0))
    BY <1>2, <2>3, <2>4 DEF Copies
  <2>7. CASE p \notin ok
    <3>1. Shrinks(poll[p.msg.source], poll'[p.msg.source])
      <4>1. CASE p.msg.source = s  BY <1>4, <1>7, <4>1 DEF Shrinks
      <4>2. CASE p.msg.source # s
        <5>1. poll'[p.msg.source] = poll[p.msg.source]  BY <1>7, <2>1, <4>2
        <5> QED  BY <5>1 DEF Shrinks
      <4> QED  BY <4>1, <4>2
    <3>2. Copies(p)' = OnItsWay(p, poll'[p.msg.source], WaitingIn(retryQ, round), n)  BY <2>6, <2>7
    <3> QED  BY <2>5, <3>1, <3>2, FewerOnTheWay
  <2>8. CASE p \in ok
    <3>1. p.msg.source = s /\ p \in poll[s].passed /\ p \notin o.passed
      BY <1>1, <1>3, <1>4, <2>8 DEF PollGood
    <3>2. One(p \in poll[s].passed) = 1 /\ One(p \in o.passed) = 0  BY <3>1 DEF One
    <3>3. One(poll[s].at = "limit" /\ Head(poll[s].todo) = p) = 0
          /\ One(o.at = "limit" /\ Head(o.todo) = p) = 0
      BY <1>1, <1>4 DEF One
    <3>4. PICK b \in Nat : b = One(p \in WaitingIn(retryQ, round))  BY DEF One
    <3>5. Copies(p) = 0 + 1 + b + n  BY <2>5, <3>1, <3>2, <3>3, <3>4 DEF OnItsWay
    <3>6. Copies(p)' = 0 + 0 + b + (n + 1)
      BY <1>7, <2>6, <2>8, <3>1, <3>2, <3>3, <3>4 DEF OnItsWay
    <3> QED  BY <3>5, <3>6
  <2> QED  BY <2>7, <2>8
<1>11. CopyInv'
  <2>1. NoNewCopy  BY <1>10 DEF NoNewCopy
  <2> QED  BY <1>2, <1>9, <2>1, CopiesStay DEF PipeInv
<1>12. QueueGood(retryQ', round')  BY <1>2 DEF PipeInv
<1>13. \A k \in Counters2 : BurstGood(counter'[k], burst'[k], Limited(WaitingIn(retryQ', round'), k))
  BY <1>2 DEF PipeInv
<1> QED  BY <1>7, <1>9, <1>11, <1>12, <1>13 DEF PipeInv

\* A message leaves the rate limit for the batch, for the queue or for good.
LeavesLimit(d, o, o2, w, w2) ==
  /\ o.at = "limit" /\ Head(o.todo) = d /\ o2.at # "limit"
  /\ \/ o2.passed = o.passed /\ w2 \subseteq w \cup {d}
     \/ o2.passed = o.passed \cup {d} /\ w2 = w

LEMMA LeavingAddsNothing ==
  ASSUME NEW p, NEW d, NEW o, NEW o2, NEW w, NEW w2, NEW n \in Nat, LeavesLimit(d, o, o2, w, w2)
  PROVE  OnItsWay(p, o2, w2, n) <= OnItsWay(p, o, w, n)
<1>1. One(o2.at = "limit" /\ Head(o2.todo) = p) = 0  BY DEF LeavesLimit, One
<1>2. One(o.at = "limit" /\ Head(o.todo) = p) = IF p = d THEN 1 ELSE 0  BY DEF LeavesLimit, One
<1>3. PICK a \in {0, 1}, b \in {0, 1}, a2 \in {0, 1}, b2 \in {0, 1} :
        /\ a = One(p \in o.passed) /\ b = One(p \in w)
        /\ a2 = One(p \in o2.passed) /\ b2 = One(p \in w2)
  BY DEF One
<1>4. p # d => a2 <= a /\ b2 <= b  BY <1>3 DEF LeavesLimit, One
<1>5. a2 = a \/ b2 = b  BY <1>3 DEF LeavesLimit, One
<1>6. (p # d => a2 = a) /\ (a2 = a \/ p = d)  BY <1>3 DEF LeavesLimit, One
<1>7. OnItsWay(p, o2, w2, n) = 0 + a2 + b2 + n  BY <1>1, <1>3 DEF OnItsWay
<1>8. OnItsWay(p, o, w, n) = (IF p = d THEN 1 ELSE 0) + a + b + n  BY <1>2, <1>3 DEF OnItsWay
<1> QED  BY <1>4, <1>5, <1>7, <1>8

\* The rule and the retries under it.
LEMMA FewerWait ==
  ASSUME NEW c \in Counts, NEW b \in Nat, NEW w, IsFiniteSet(w), NEW w2 \in SUBSET w,
         BurstGood(c, b, w)
  PROVE  BurstGood(c, b, w2)
<1>1. Cardinality(w2) \in Nat /\ Cardinality(w) \in Nat /\ Cardinality(w2) <= Cardinality(w)
  BY FS_Subset, FS_CardinalityType
<1>2. PICK x \in Nat, y \in Nat : x = Cardinality(w2) /\ y = Cardinality(w) /\ x <= y  BY <1>1
<1>3. MaxPerMinute \in Nat /\ QueueLength \in Nat /\ c.count \in Nat  BY PipelineAssumption DEF Counts
<1> QED  BY <1>2, <1>3 DEF BurstGood

\* The counter of a minute that has just begun, or goes on.
Minute(c) == IF c.open THEN c ELSE [open |-> TRUE, count |-> 0]
Sofar(c, b) == IF c.open THEN b ELSE 0

LEMMA OneMoreCounted ==
  ASSUME NEW c \in Counts, NEW b \in Nat, NEW w, Cardinality(w) \in Nat, Cardinality(w) <= QueueLength,
         BurstGood(c, b, w), Minute(c).count < MaxPerMinute
  PROVE  BurstGood([Minute(c) EXCEPT !.count = @ + 1], Sofar(c, b) + 1, w)
<1>1. MaxPerMinute \in Nat /\ QueueLength \in Nat  BY PipelineAssumption
<1>2. PICK x \in Nat : x = Cardinality(w) /\ x <= QueueLength  OBVIOUS
<1>3. PICK m \in Nat : m = Minute(c).count /\ m < MaxPerMinute  BY DEF Minute, Counts
<1>4. PICK e : /\ e = [Minute(c) EXCEPT !.count = @ + 1] /\ e.open /\ e.count = m + 1
  <2>1. PICK g \in Counts : g = Minute(c) /\ g.open
    <3>1. CASE c.open  BY <3>1 DEF Minute
    <3>2. CASE ~ c.open
      <4>1. [open |-> TRUE, count |-> 0] \in Counts  BY DEF Counts
      <4>2. [open |-> TRUE, count |-> 0].open  OBVIOUS
      <4> QED  BY <3>2, <4>1, <4>2 DEF Minute
    <3> QED  BY <3>1, <3>2
  <2>2. PICK e : e = [g EXCEPT !.count = @ + 1]  OBVIOUS
  <2>3. e.open /\ e.count = g.count + 1  BY <2>1, <2>2 DEF Counts
  <2> QED  BY <1>3, <2>1, <2>2, <2>3
<1>5. PICK z \in Nat : z = Sofar(c, b)  BY DEF Sofar
<1>6. z + x <= m + QueueLength
  <2>1. CASE c.open
    <3>1. m = c.count /\ z = b  BY <1>3, <1>5, <2>1 DEF Minute, Sofar
    <3> QED  BY <1>2, <1>3, <2>1, <3>1 DEF BurstGood
  <2>2. CASE ~ c.open
    <3>1. m = 0 /\ z = 0  BY <1>3, <1>5, <2>2 DEF Minute, Sofar
    <3> QED  BY <1>1, <1>2, <3>1
  <2> QED  BY <2>1, <2>2
<1>7. BurstGood(e, z + 1, w)  BY <1>1, <1>2, <1>3, <1>4, <1>6 DEF BurstGood
<1> QED  BY <1>4, <1>5, <1>7

LEMMA FullIsNotCounted ==
  ASSUME NEW c \in Counts, NEW b \in Nat, NEW w, NEW w2, BurstGood(c, b, w),
         Minute(c).count >= MaxPerMinute
  PROVE  BurstGood(Minute(c), Sofar(c, b), w2)
<1>1. MaxPerMinute \in Nat /\ QueueLength \in Nat  BY PipelineAssumption
<1>2. CASE c.open
  <2>1. Minute(c) = c /\ Sofar(c, b) = b  BY <1>2 DEF Minute, Sofar
  <2>2. c.count \in Nat /\ c.count <= MaxPerMinute /\ c.count >= MaxPerMinute
        /\ b <= MaxPerMinute + QueueLength
    BY <1>2, <2>1 DEF BurstGood, Counts
  <2> QED  BY <1>1, <1>2, <2>1, <2>2 DEF BurstGood
<1>3. CASE ~ c.open
  <2>1. Minute(c).open /\ Minute(c).count = 0 /\ Sofar(c, b) = 0  BY <1>3 DEF Minute, Sofar
  <2> QED  BY <1>1, <2>1 DEF BurstGood
<1> QED  BY <1>2, <1>3

LEMMA CheckLimitKeeps ==
  ASSUME PipeInv, NEW s \in Sources, CheckLimit(s)
  PROVE  PipeInv'
<1>0. PICK d : d = Head(poll[s].todo)  OBVIOUS
<1>1. /\ PollGood(s, poll[s]) /\ DOMAIN poll = Sources /\ poll[s].at = "limit" /\ poll[s] \in Polls
      /\ PipeTypes /\ QueueGood(retryQ, round)
  BY DEF PipeInv, PipeTypes, PollGood, CheckLimit
<1>2. d \in Pairs /\ d.msg.source = s  BY <1>0, <1>1, HeadIsChecked
<1>3. UNCHANGED <<seen, round, received, doubt>>  BY DEF CheckLimit
<1>4. PICK k \in Counters2 : k = <<s, d.sink>>  BY <1>2 DEF Counters2, Pairs
<1>5. counter[k] \in Counts /\ burst[k] \in Nat /\ DOMAIN counter = Counters2 /\ DOMAIN burst = Counters2
  BY <1>1 DEF PipeTypes
<1>6. \A pass \in BOOLEAN :
        /\ PollGood(s, Checked(poll[s], pass)) /\ Checked(poll[s], pass).at \in {"dedup", "enhance"}
        /\ Checked(poll[s], pass).passed = IF pass THEN poll[s].passed \cup {d} ELSE poll[s].passed
  BY <1>0, <1>1, CheckedIsGood
<1>7. \/ /\ poll' = [poll EXCEPT ![s] = Checked(poll[s], FALSE)]
         /\ UNCHANGED <<counter, burst, retryQ>>
      \/ /\ Minute(counter[k]).count < MaxPerMinute
         /\ poll' = [poll EXCEPT ![s] = Checked(poll[s], TRUE)]
         /\ counter' = [counter EXCEPT ![k] = [Minute(counter[k]) EXCEPT !.count = @ + 1]]
         /\ burst' = [burst EXCEPT ![k] = Sofar(counter[k], burst[k]) + 1]
         /\ retryQ' = retryQ
      \/ /\ Minute(counter[k]).count >= MaxPerMinute
         /\ poll' = [poll EXCEPT ![s] = Checked(poll[s], FALSE)]
         /\ counter' = [counter EXCEPT ![k] = Minute(counter[k])]
         /\ burst' = [burst EXCEPT ![k] = Sofar(counter[k], burst[k])]
         /\ retryQ' = Enqueued(retryQ, d)
  <2>1. Open(k) = Minute(counter[k])  BY DEF Open, Minute
  <2>2. Minute(counter[k]).count \in Nat /\ MaxPerMinute \in Nat
    BY <1>5, PipelineAssumption DEF Minute, Counts
  <2>3. PICK n \in Nat : n = Sofar(counter[k], burst[k])  BY <1>5 DEF Sofar
  <2> DEFINE full == Open(k).count >= MaxPerMinute
  <2>4. CASE /\ poll' = [poll EXCEPT ![s] = Checked(poll[s], FALSE)]
             /\ UNCHANGED <<counter, burst, retryQ>>
    BY <2>4
  <2>5. CASE /\ counter' = [counter EXCEPT ![k] = IF full THEN Open(k) ELSE [Open(k) EXCEPT !.count = @ + 1]]
             /\ burst' = [burst EXCEPT ![k] =
                   (IF counter[k].open THEN burst[k] ELSE 0) + (IF full THEN 0 ELSE 1)]
             /\ retryQ' = IF full THEN Enqueued(retryQ, d) ELSE retryQ
             /\ poll' = [poll EXCEPT ![s] = Checked(poll[s], ~ full)]
    <3>1. CASE full
      <4>1. Minute(counter[k]).count >= MaxPerMinute  BY <2>1, <3>1
      <4>2. (~ full) = FALSE  BY <3>1
      <4>3. poll' = [poll EXCEPT ![s] = Checked(poll[s], FALSE)]  BY <2>5, <4>2, Zenon
      <4>4. /\ counter' = [counter EXCEPT ![k] = Open(k)] /\ retryQ' = Enqueued(retryQ, d)
            /\ burst' = [burst EXCEPT ![k] = (IF counter[k].open THEN burst[k] ELSE 0) + 0]
        BY <2>5, <3>1, Zenon
      <4>5. n + 0 = n  OBVIOUS
      <4> QED  BY <2>1, <2>3, <4>1, <4>3, <4>4, <4>5 DEF Sofar
    <3>2. CASE ~ full
      <4>1. Minute(counter[k]).count < MaxPerMinute  BY <2>1, <2>2, <3>2
      <4>2. (~ full) = TRUE  BY <3>2
      <4>3. poll' = [poll EXCEPT ![s] = Checked(poll[s], TRUE)]  BY <2>5, <4>2, Zenon
      <4>4. /\ counter' = [counter EXCEPT ![k] = [Open(k) EXCEPT !.count = @ + 1]] /\ retryQ' = retryQ
            /\ burst' = [burst EXCEPT ![k] = (IF counter[k].open THEN burst[k] ELSE 0) + 1]
        BY <2>5, <3>2, Zenon
      <4> QED  BY <2>1, <4>1, <4>3, <4>4 DEF Sofar
    <3> QED  BY <3>1, <3>2
  <2> QED  BY <1>0, <1>4, <2>4, <2>5 DEF CheckLimit
<1>17. PICK w2 : w2 = WaitingIn(retryQ', round)  OBVIOUS
<1>8. PICK pass \in BOOLEAN :
        /\ poll' = [poll EXCEPT ![s] = Checked(poll[s], pass)]
        /\ QueueGood(retryQ', round)
        /\ LeavesLimit(d, poll[s], Checked(poll[s], pass), WaitingIn(retryQ, round), w2)
        /\ w2 \subseteq WaitingIn(retryQ, round) \cup {d}
  <2>1. /\ QueueGood(Enqueued(retryQ, d), round)
        /\ WaitingIn(Enqueued(retryQ, d), round) \subseteq WaitingIn(retryQ, round) \cup {d}
    BY <1>1, <1>2, EnqueuedIsGood
  <2>2. ASSUME NEW pass \in BOOLEAN, NEW u, u \subseteq WaitingIn(retryQ, round) \cup {d},
               pass => u = WaitingIn(retryQ, round)
        PROVE  LeavesLimit(d, poll[s], Checked(poll[s], pass), WaitingIn(retryQ, round), u)
    <3>1. Checked(poll[s], pass).at # "limit"
          /\ Checked(poll[s], pass).passed = IF pass THEN poll[s].passed \cup {d} ELSE poll[s].passed
      BY <1>6
    <3> QED  BY <1>0, <1>1, <2>2, <3>1 DEF LeavesLimit
  <2>3. CASE retryQ' = retryQ
    <3>1. PICK pass \in BOOLEAN : poll' = [poll EXCEPT ![s] = Checked(poll[s], pass)]  BY <1>7
    <3>2. LeavesLimit(d, poll[s], Checked(poll[s], pass), WaitingIn(retryQ, round), WaitingIn(retryQ, round))
      BY <2>2
    <3> QED  BY <1>1, <1>17, <2>3, <3>1, <3>2
  <2>4. CASE retryQ' # retryQ
    <3>1. retryQ' = Enqueued(retryQ, d) /\ poll' = [poll EXCEPT ![s] = Checked(poll[s], FALSE)]
      BY <1>7, <2>4
    <3>2. LeavesLimit(d, poll[s], Checked(poll[s], FALSE), WaitingIn(retryQ, round),
                      WaitingIn(Enqueued(retryQ, d), round))
      BY <2>1, <2>2
    <3> QED  BY <1>17, <2>1, <3>1, <3>2
  <2> QED  BY <2>3, <2>4
<1>9. /\ DOMAIN poll' = Sources /\ poll' = [t \in Sources |-> poll'[t]]
      /\ \A t \in Sources : PollGood(t, poll'[t])
      /\ poll'[s] = Checked(poll[s], pass) /\ \A t \in Sources : t # s => poll'[t] = poll[t]
  <2>1. PollMoves(s, Checked(poll[s], pass))  BY <1>1, <1>8, Replaced
  <2>2. PollGood(s, Checked(poll[s], pass))  BY <1>6
  <2> QED  BY <2>1, <2>2, OnePollMoves
<1>10. /\ counter' \in [Counters2 -> Counts] /\ burst' \in [Counters2 -> Nat]
       /\ \A j \in Counters2 : j # k => counter'[j] = counter[j] /\ burst'[j] = burst[j]
  <2>1. [Minute(counter[k]) EXCEPT !.count = @ + 1] \in Counts /\ Minute(counter[k]) \in Counts
    <3>1. PICK g \in Counts : g = Minute(counter[k])  BY <1>5 DEF Minute, Counts
    <3>2. [g EXCEPT !.count = @ + 1] \in Counts  BY DEF Counts
    <3> QED  BY <3>1, <3>2
  <2>2. Sofar(counter[k], burst[k]) \in Nat /\ Sofar(counter[k], burst[k]) + 1 \in Nat
    BY <1>5 DEF Sofar
  <2>3. counter \in [Counters2 -> Counts] /\ burst \in [Counters2 -> Nat]  BY <1>1 DEF PipeTypes
  <2>4. PICK c \in Counts, b \in Nat :
          \/ UNCHANGED <<counter, burst>>
          \/ counter' = [counter EXCEPT ![k] = c] /\ burst' = [burst EXCEPT ![k] = b]
    BY <1>5, <1>7, <2>1, <2>2
  <2> QED  BY <2>3, <2>4
<1>11. PipeTypes'  BY <1>1, <1>3, <1>9, <1>10 DEF PipeTypes
<1>12. ASSUME NEW p \in Pairs  PROVE Copies(p)' <= Copies(p)
  <2>1. p.msg.source \in Sources  BY PipelineAssumption DEF Pairs
  <2>2. PICK n \in Nat : n = received[<<p.msg, p.sink>>]  BY <1>1, CopiesCount
  <2>3. Copies(p) = OnItsWay(p, poll[p.msg.source], WaitingIn(retryQ, round), n)
    BY <2>2 DEF Copies
  <2>4. Copies(p)' = OnItsWay(p, poll'[p.msg.source], w2, n)  BY <1>3, <1>17, <2>2 DEF Copies
  <2>5. CASE p.msg.source = s
    <3>1. OnItsWay(p, Checked(poll[s], pass), w2, n) <= OnItsWay(p, poll[s], WaitingIn(retryQ, round), n)
      BY <1>8, LeavingAddsNothing
    <3> QED  BY <1>9, <2>3, <2>4, <2>5, <3>1
  <2>6. CASE p.msg.source # s
    <3>1. p \in w2 => p \in WaitingIn(retryQ, round)  BY <1>2, <1>8, <2>6
    <3>2. poll'[p.msg.source] = poll[p.msg.source]  BY <1>9, <2>1, <2>6
    <3>3. Shrinks(poll[p.msg.source], poll'[p.msg.source])  BY <3>2 DEF Shrinks
    <3> QED  BY <2>3, <2>4, <3>1, <3>3, FewerOnTheWay
  <2> QED  BY <2>5, <2>6
<1>13. CopyInv'
  <2>1. NoNewCopy  BY <1>12 DEF NoNewCopy
  <2> QED  BY <1>1, <1>3, <1>11, <2>1, CopiesStay DEF PipeInv
<1>14. ASSUME NEW j \in Counters2  PROVE BurstGood(counter'[j], burst'[j], Limited(w2, j))
  <2>1. PICK w : w = WaitingIn(retryQ, round)  OBVIOUS
  <2>2. /\ IsFiniteSet(Limited(w, j)) /\ Cardinality(Limited(w, j)) \in Nat
        /\ Cardinality(Limited(w, j)) <= QueueLength
    BY <1>1, <2>1, FewWait
  <2>3. BurstGood(counter[j], burst[j], Limited(w, j)) /\ counter[j] \in Counts /\ burst[j] \in Nat
    BY <1>1, <2>1 DEF PipeInv, PipeTypes
  <2>4. CASE w2 = w /\ counter'[j] = counter[j] /\ burst'[j] = burst[j]  BY <2>3, <2>4
  <2>5. CASE j # k
    <3>1. Limited(w2, j) \subseteq Limited(w, j)
      <4>1. ~ (d.msg.source = j[1] /\ d.sink = j[2])
        <5>1. j = <<j[1], j[2]>>  BY DEF Counters2
        <5> QED  BY <1>2, <1>4, <2>5, <5>1
      <4> QED  BY <1>8, <2>1, <4>1 DEF Limited
    <3>2. BurstGood(counter[j], burst[j], Limited(w2, j))  BY <2>2, <2>3, <3>1, FewerWait
    <3> QED  BY <1>10, <2>5, <3>2
  <2>6. CASE j = k
    <3>1. CASE UNCHANGED <<counter, burst, retryQ>>  BY <1>17, <2>1, <2>4, <3>1
    <3>2. CASE /\ Minute(counter[k]).count < MaxPerMinute
               /\ counter' = [counter EXCEPT ![k] = [Minute(counter[k]) EXCEPT !.count = @ + 1]]
               /\ burst' = [burst EXCEPT ![k] = Sofar(counter[k], burst[k]) + 1]
               /\ retryQ' = retryQ
      <4>1. BurstGood([Minute(counter[k]) EXCEPT !.count = @ + 1], Sofar(counter[k], burst[k]) + 1,
                      Limited(w, k))
        BY <2>2, <2>3, <2>6, <3>2, OneMoreCounted
      <4>2. /\ counter'[k] = [Minute(counter[k]) EXCEPT !.count = @ + 1]
            /\ burst'[k] = Sofar(counter[k], burst[k]) + 1 /\ w2 = w
        BY <1>5, <1>17, <2>1, <3>2
      <4> QED  BY <2>6, <4>1, <4>2
    <3>3. CASE /\ Minute(counter[k]).count >= MaxPerMinute
               /\ counter' = [counter EXCEPT ![k] = Minute(counter[k])]
               /\ burst' = [burst EXCEPT ![k] = Sofar(counter[k], burst[k])]
      <4>1. BurstGood(Minute(counter[k]), Sofar(counter[k], burst[k]), Limited(w2, k))
        BY <2>3, <2>6, <3>3, FullIsNotCounted
      <4>2. counter'[k] = Minute(counter[k]) /\ burst'[k] = Sofar(counter[k], burst[k])
        BY <1>5, <3>3
      <4> QED  BY <2>6, <4>1, <4>2
    <3> QED  BY <1>7, <3>1, <3>2, <3>3
  <2> QED  BY <2>5, <2>6
<1>15. QueueGood(retryQ', round')  BY <1>3, <1>8
<1>16. \A j \in Counters2 : BurstGood(counter'[j], burst'[j], Limited(WaitingIn(retryQ', round'), j))
  BY <1>3, <1>14, <1>17
<1> QED  BY <1>9, <1>11, <1>13, <1>15, <1>16 DEF PipeInv

-----------------------------------------------------------------------------
(* The retry processor.                                                    *)

\* Steps of the processor that send nothing.
LEMMA QueueTurns ==
  ASSUME PipeInv, UNCHANGED <<counter, burst, poll, received, seen, doubt>>,
         QueueGood(retryQ', round'), WaitingIn(retryQ', round') \subseteq WaitingIn(retryQ, round)
  PROVE  PipeInv'
<1>1. PipeTypes /\ PipeTypes' /\ CopyInv /\ QueueGood(retryQ, round)  BY DEF PipeInv, PipeTypes
<1>2. ASSUME NEW p \in Pairs  PROVE Copies(p)' <= Copies(p)
  <2>1. PICK n \in Nat : n = received[<<p.msg, p.sink>>]  BY <1>1, CopiesCount
  <2>2. Shrinks(poll[p.msg.source], poll[p.msg.source])  BY DEF Shrinks
  <2>3. OnItsWay(p, poll[p.msg.source], WaitingIn(retryQ', round'), n)
        <= OnItsWay(p, poll[p.msg.source], WaitingIn(retryQ, round), n)
    BY <2>2, FewerOnTheWay
  <2> QED  BY <2>1, <2>3 DEF Copies
<1>3. CopyInv'
  <2>1. NoNewCopy  BY <1>2 DEF NoNewCopy
  <2> QED  BY <1>1, <2>1, CopiesStay
<1>4. ASSUME NEW k \in Counters2
      PROVE  BurstGood(counter[k], burst[k], Limited(WaitingIn(retryQ', round'), k))
  <2>1. IsFiniteSet(Limited(WaitingIn(retryQ, round), k))  BY <1>1, FewWait
  <2>2. Limited(WaitingIn(retryQ', round'), k) \subseteq Limited(WaitingIn(retryQ, round), k)
    BY DEF Limited
  <2>3. BurstGood(counter[k], burst[k], Limited(WaitingIn(retryQ, round), k))  BY DEF PipeInv
  <2>4. counter[k] \in Counts /\ burst[k] \in Nat  BY <1>1 DEF PipeTypes
  <2> QED  BY <2>1, <2>2, <2>3, <2>4, FewerWait
<1> QED  BY <1>1, <1>3, <1>4 DEF PipeInv

LEMMA NothingIn == PairsIn(<<>>) = {} /\ Unique(<<>>) /\ Len(<<>>) = 0 /\ <<>> \in Seq(Entries)
  BY DEF PairsIn, Unique

LEMMA StartRoundKeeps ==
  ASSUME PipeInv, StartRound
  PROVE  PipeInv'
<1>1. QueueGood(retryQ, round) /\ ~ round.on /\ retryQ' = retryQ  BY DEF PipeInv, StartRound
<1>2. PICK r : /\ r = [on |-> TRUE, todo |-> retryQ, keep |-> <<>>] /\ r = round'
               /\ r.on /\ r.todo = retryQ /\ r.keep = <<>>
  BY DEF StartRound
<1>3. /\ retryQ \in Seq(Entries) /\ Unique(retryQ) /\ Len(retryQ) \in Nat /\ Len(retryQ) <= QueueLength
  BY <1>1 DEF QueueGood
<1>4. r \in Rounds  BY <1>2, <1>3, NothingIn DEF Rounds
<1>5. QueueGood(retryQ, r)  BY <1>2, <1>3, <1>4, NothingIn DEF QueueGood
<1>6. WaitingIn(retryQ, r) \subseteq WaitingIn(retryQ, round)  BY <1>1, <1>2, NothingIn DEF WaitingIn
<1>7. UNCHANGED <<counter, burst, poll, received, seen, doubt>>  BY DEF StartRound
<1> QED  BY <1>1, <1>2, <1>5, <1>6, <1>7, QueueTurns

LEMMA EndRoundKeeps ==
  ASSUME PipeInv, EndRound
  PROVE  PipeInv'
<1>1. QueueGood(retryQ, round) /\ round.on /\ round.todo = <<>> /\ retryQ' = round.keep /\ round' = NoRound
  BY DEF PipeInv, EndRound
<1>2. round.keep \in Seq(Entries) /\ Unique(round.keep) /\ Len(round.keep) <= QueueLength
  <2>1. /\ round.keep \in Seq(Entries) /\ Unique(round.keep)
        /\ Len(round.todo) + Len(round.keep) <= QueueLength
    BY <1>1 DEF QueueGood, Rounds
  <2>2. Len(round.keep) \in Nat /\ Len(round.todo) = 0  BY <1>1, <2>1, NothingIn
  <2> QED  BY <2>1, <2>2
<1>3. PICK n : n = NoRound /\ ~ n.on /\ n.todo = <<>> /\ n.keep = <<>>
  <2>1. NoRound.on = FALSE /\ NoRound.todo = <<>> /\ NoRound.keep = <<>>  BY DEF NoRound
  <2> QED  BY <2>1
<1>4. QueueLength \in Nat  BY PipelineAssumption
<1>5. n \in Rounds  BY <1>3, NothingIn DEF NoRound, Rounds
<1>6. QueueGood(round.keep, n)
  <2>1. Len(<<>>) + Len(<<>>) <= QueueLength  BY <1>4, NothingIn
  <2> QED  BY <1>2, <1>3, <1>5, <2>1, NothingIn DEF QueueGood
<1>7. WaitingIn(round.keep, n) \subseteq WaitingIn(retryQ, round)  BY <1>1, <1>3 DEF WaitingIn
<1>8. UNCHANGED <<counter, burst, poll, received, seen, doubt>>  BY DEF EndRound
<1> QED  BY <1>1, <1>3, <1>6, <1>7, <1>8, QueueTurns

\* An entry that was tried is gone from the round, or stays for the next.
LEMMA RoundTurns ==
  ASSUME NEW q, NEW r, QueueGood(q, r), r.on, r.todo # <<>>, NEW keep,
         \/ keep = r.keep
         \/ \E f \in Entries : PairOf(f) = PairOf(Head(r.todo)) /\ keep = Append(r.keep, f)
  PROVE  /\ QueueGood(q, [r EXCEPT !.todo = Tail(@), !.keep = keep])
         /\ WaitingIn(q, [r EXCEPT !.todo = Tail(@), !.keep = keep]) \subseteq WaitingIn(q, r)
         /\ PairOf(Head(r.todo)) \in WaitingIn(q, r)
         /\ keep = r.keep => WaitingIn(q, [r EXCEPT !.todo = Tail(@), !.keep = keep])
                             = WaitingIn(q, r) \ {PairOf(Head(r.todo))}
<1>1. /\ r.todo \in Seq(Entries) /\ r.keep \in Seq(Entries) /\ Unique(r.todo) /\ Unique(r.keep)
      /\ PairsIn(r.todo) \cap PairsIn(r.keep) = {}
      /\ Len(r.todo) + Len(r.keep) <= QueueLength /\ r \in Rounds
  BY DEF QueueGood, Rounds
<1>2. PICK r2 : /\ r2 = [r EXCEPT !.todo = Tail(@), !.keep = keep]
                /\ r2.on /\ r2.todo = Tail(r.todo) /\ r2.keep = keep
                /\ r2 = [x \in {"on", "todo", "keep"} |-> r2[x]]
  <2>1. PICK r2 : r2 = [r EXCEPT !.todo = Tail(@), !.keep = keep]  OBVIOUS
  <2>2. r = [x \in {"on", "todo", "keep"} |-> r[x]]  BY <1>1 DEF Rounds
  <2>3. r2.on = r.on /\ r2.todo = Tail(r.todo) /\ r2.keep = keep
    BY <2>1, <2>2
  <2>4. r2 = [x \in {"on", "todo", "keep"} |-> r2[x]]  BY <2>1, <2>2
  <2>5. r2.on  BY <2>3, Zenon
  <2> QED  BY <2>1, <2>3, <2>4, <2>5
<1>3. PICK a : a = PairOf(Head(r.todo))  OBVIOUS
<1>4. /\ Unique(Tail(r.todo)) /\ a \in PairsIn(r.todo)
      /\ PairsIn(Tail(r.todo)) = PairsIn(r.todo) \ {a}
  BY <1>1, <1>3, PairsOfTail
<1>5. Tail(r.todo) \in Seq(Entries) /\ Len(r.todo) \in Nat /\ Len(Tail(r.todo)) = Len(r.todo) - 1
  BY <1>1, HeadAndTail
<1>6. /\ keep \in Seq(Entries) /\ Unique(keep) /\ Len(keep) \in Nat /\ Len(keep) <= Len(r.keep) + 1
      /\ PairsIn(r.keep) \subseteq PairsIn(keep) /\ PairsIn(keep) \subseteq PairsIn(r.keep) \cup {a}
  <2>1. CASE keep = r.keep  BY <1>1, <2>1
  <2>2. ASSUME NEW f \in Entries, PairOf(f) = a, keep = Append(r.keep, f)
        PROVE  /\ keep \in Seq(Entries) /\ Unique(keep) /\ Len(keep) \in Nat /\ Len(keep) <= Len(r.keep) + 1
               /\ PairsIn(r.keep) \subseteq PairsIn(keep) /\ PairsIn(keep) \subseteq PairsIn(r.keep) \cup {a}
    <3>1. /\ keep \in Seq(Entries) /\ Len(keep) = Len(r.keep) + 1
          /\ PairsIn(keep) = PairsIn(r.keep) \cup {PairOf(f)}
          /\ Unique(r.keep) /\ PairOf(f) \notin PairsIn(r.keep) => Unique(keep)
      BY <1>1, <2>2, PairsOfAppend
    <3>2. PairOf(f) \notin PairsIn(r.keep)  BY <1>1, <1>4, <2>2
    <3> QED  BY <1>1, <2>2, <3>1, <3>2
  <2> QED  BY <1>3, <2>1, <2>2
<1>7. Len(Tail(r.todo)) + Len(keep) <= QueueLength
  <2>1. PICK x \in Nat, y \in Nat, z \in Nat : x = Len(r.todo) /\ y = Len(r.keep) /\ z = Len(keep)
    BY <1>1, <1>5, <1>6
  <2>2. x + y <= QueueLength /\ z <= y + 1 /\ QueueLength \in Nat
    BY <1>1, <1>6, <2>1, PipelineAssumption
  <2>3. Len(Tail(r.todo)) = x - 1 /\ Len(keep) = z  BY <1>5, <2>1
  <2>4. (x - 1) + z <= QueueLength  BY <2>2
  <2> QED  BY <2>3, <2>4
<1>8. PairsIn(Tail(r.todo)) \cap PairsIn(keep) = {}  BY <1>1, <1>4, <1>6
<1>9. r2 \in Rounds  BY <1>2, <1>5, <1>6 DEF Rounds
<1>10. QueueGood(q, r2)  BY <1>2, <1>4, <1>6, <1>7, <1>8, <1>9 DEF QueueGood
<1>11. WaitingIn(q, r) = PairsIn(r.todo) \cup PairsIn(r.keep)
       /\ WaitingIn(q, r2) = PairsIn(Tail(r.todo)) \cup PairsIn(keep)
  BY <1>2 DEF WaitingIn
<1>12. WaitingIn(q, r2) \subseteq WaitingIn(q, r) /\ a \in WaitingIn(q, r)  BY <1>4, <1>6, <1>11
<1>13. keep = r.keep => WaitingIn(q, r2) = WaitingIn(q, r) \ {a}  BY <1>1, <1>4, <1>11
<1> QED  BY <1>2, <1>3, <1>10, <1>12, <1>13

LEMMA AgainIs ==
  ASSUME NEW e \in Entries
  PROVE  \/ Again(e) = round.keep
         \/ \E f \in Entries : PairOf(f) = PairOf(e) /\ Again(e) = Append(round.keep, f)
<1>1. PICK f : f = [e EXCEPT !.tries = @ + 1]  OBVIOUS
<1>2. f \in Entries /\ f.msg = e.msg /\ f.sink = e.sink  BY <1>1 DEF Entries
<1>3. Again(e) = IF f.tries < MaxRetries THEN Append(round.keep, f) ELSE round.keep
  BY <1>1 DEF Again
<1> QED  BY <1>2, <1>3 DEF PairOf

\* A retry that is sent: one more message of the minute, and one less waits.
LEMMA OneMoreSent ==
  ASSUME NEW c \in Counts, NEW b \in Nat, NEW w, IsFiniteSet(w), NEW p \in w, BurstGood(c, b, w),
         ~ (c.open /\ c.count >= MaxPerMinute)
  PROVE  BurstGood(c, b + 1, w \ {p})
<1>1. /\ IsFiniteSet(w \ {p})
      /\ Cardinality(w \ {p}) = IF p \in w THEN Cardinality(w) - 1 ELSE Cardinality(w)
  BY FS_RemoveElement
<1>2. Cardinality(w) \in Nat  BY FS_CardinalityType
<1>3. PICK x \in Nat : x = Cardinality(w) /\ Cardinality(w \ {p}) = x - 1  BY <1>1, <1>2
<1>4. MaxPerMinute \in Nat /\ QueueLength \in Nat /\ c.count \in Nat  BY PipelineAssumption DEF Counts
<1> QED  BY <1>3, <1>4 DEF BurstGood

LEMMA RetryKeeps ==
  ASSUME PipeInv, Retry
  PROVE  PipeInv'
<1>1. PICK e : e = Head(round.todo)  OBVIOUS
<1>2. /\ QueueGood(retryQ, round) /\ round.on /\ round.todo # <<>> /\ round.todo \in Seq(Entries)
      /\ PipeTypes /\ CopyInv
  BY DEF PipeInv, Retry, QueueGood, Rounds
<1>3. e \in Entries  BY <1>1, <1>2, HeadAndTail
<1>4. UNCHANGED <<counter, poll, seen, doubt, retryQ>>  BY DEF Retry
<1>5. PICK k \in Counters2 : k = <<e.msg.source, e.sink>>
  BY <1>3, PipelineAssumption DEF Counters2, Entries
<1>6. \/ /\ round' = [round EXCEPT !.todo = Tail(@), !.keep = Again(e)]
         /\ UNCHANGED <<received, burst>>
      \/ /\ round' = [round EXCEPT !.todo = Tail(@), !.keep = round.keep]
         /\ ~ (counter[k].open /\ counter[k].count >= MaxPerMinute)
         /\ received' = [received EXCEPT ![<<e.msg, e.sink>>] = @ + 1]
         /\ burst' = [burst EXCEPT ![k] = @ + 1]
  BY <1>1, <1>5 DEF Retry
<1>7. CASE /\ round' = [round EXCEPT !.todo = Tail(@), !.keep = Again(e)]
           /\ UNCHANGED <<received, burst>>
  <2>1. PICK keep : keep = Again(e)  OBVIOUS
  <2>2. \/ keep = round.keep
        \/ \E f \in Entries : PairOf(f) = PairOf(Head(round.todo)) /\ keep = Append(round.keep, f)
    BY <1>1, <1>3, <2>1, AgainIs
  <2>3. round' = [round EXCEPT !.todo = Tail(@), !.keep = keep]  BY <1>7, <2>1
  <2>4. QueueGood(retryQ', round') /\ WaitingIn(retryQ', round') \subseteq WaitingIn(retryQ, round)
    BY <1>2, <1>4, <2>2, <2>3, RoundTurns
  <2> QED  BY <1>4, <1>7, <2>4, QueueTurns
<1>8. CASE /\ round' = [round EXCEPT !.todo = Tail(@), !.keep = round.keep]
           /\ ~ (counter[k].open /\ counter[k].count >= MaxPerMinute)
           /\ received' = [received EXCEPT ![<<e.msg, e.sink>>] = @ + 1]
           /\ burst' = [burst EXCEPT ![k] = @ + 1]
  <2>1. PICK a : a = PairOf(e)  OBVIOUS
  <2>2. a \in Pairs /\ a.msg = e.msg /\ a.sink = e.sink  BY <1>3, <2>1 DEF PairOf, Pairs, Entries
  <2>3. PICK w, w2 : w = WaitingIn(retryQ, round) /\ w2 = WaitingIn(retryQ', round')  OBVIOUS
  <2>4. QueueGood(retryQ', round') /\ a \in w /\ w2 = w \ {a}
    BY <1>1, <1>2, <1>4, <1>8, <2>1, <2>3, RoundTurns
  <2>5. /\ received' \in [News \X Lanes -> Nat] /\ burst' \in [Counters2 -> Nat]
        /\ burst'[k] = burst[k] + 1 /\ \A j \in Counters2 : j # k => burst'[j] = burst[j]
        /\ \A i \in News \X Lanes :
             received'[i] = received[i] + (IF i = <<a.msg, a.sink>> THEN 1 ELSE 0)
    <3>1. received \in [News \X Lanes -> Nat] /\ burst \in [Counters2 -> Nat]  BY <1>2 DEF PipeTypes
    <3>2. <<e.msg, e.sink>> \in News \X Lanes  BY <1>3 DEF Entries
    <3> QED  BY <1>8, <2>2, <3>1, <3>2
  <2>6. PipeTypes'  BY <1>2, <1>4, <2>5 DEF PipeTypes
  <2>7. ASSUME NEW p \in Pairs  PROVE Copies(p)' <= Copies(p)
    <3>1. <<p.msg, p.sink>> \in News \X Lanes  BY DEF Pairs
    <3>2. (<<p.msg, p.sink>> = <<a.msg, a.sink>>) <=> p = a
      <4>1. p = [msg |-> p.msg, sink |-> p.sink] /\ a = [msg |-> a.msg, sink |-> a.sink]
        BY <2>2 DEF Pairs
      <4> QED  BY <4>1
    <3>3. PICK n \in Nat : n = received[<<p.msg, p.sink>>]  BY <1>2, CopiesCount
    <3>4. received'[<<p.msg, p.sink>>] = n + (IF p = a THEN 1 ELSE 0)  BY <2>5, <3>1, <3>2, <3>3
    <3>5. PICK x \in Nat, y \in Nat :
            /\ x = One(poll[p.msg.source].at = "limit" /\ Head(poll[p.msg.source].todo) = p)
            /\ y = One(p \in poll[p.msg.source].passed)
      BY DEF One
    <3>6. Copies(p) = x + y + One(p \in w) + n  BY <2>3, <3>3, <3>5 DEF Copies, OnItsWay
    <3>7. Copies(p)' = x + y + One(p \in w2) + (n + (IF p = a THEN 1 ELSE 0))
      BY <1>4, <2>3, <3>4, <3>5 DEF Copies, OnItsWay
    <3>8. CASE p = a
      <4>1. One(p \in w) = 1 /\ One(p \in w2) = 0  BY <2>4, <3>8 DEF One
      <4> QED  BY <3>6, <3>7, <3>8, <4>1
    <3>9. CASE p # a
      <4>1. PICK z \in Nat : z = One(p \in w) /\ z = One(p \in w2)  BY <2>4, <3>9 DEF One
      <4> QED  BY <3>6, <3>7, <3>9, <4>1
    <3> QED  BY <3>8, <3>9
  <2>8. CopyInv'
    <3>1. NoNewCopy  BY <2>7 DEF NoNewCopy
    <3> QED  BY <1>2, <1>4, <2>6, <3>1, CopiesStay
  <2>9. ASSUME NEW j \in Counters2  PROVE BurstGood(counter[j], burst'[j], Limited(w2, j))
    <3>1. IsFiniteSet(Limited(w, j)) /\ BurstGood(counter[j], burst[j], Limited(w, j))
          /\ counter[j] \in Counts /\ burst[j] \in Nat
      BY <1>2, <2>3, FewWait DEF PipeInv, PipeTypes
    <3>2. CASE j = k
      <4>1. a \in Limited(w, k) /\ Limited(w2, k) = Limited(w, k) \ {a}
        BY <1>5, <2>2, <2>4 DEF Limited
      <4>2. BurstGood(counter[k], burst[k] + 1, Limited(w, k) \ {a})
        BY <1>8, <3>1, <3>2, <4>1, OneMoreSent
      <4> QED  BY <2>5, <3>2, <4>1, <4>2
    <3>3. CASE j # k
      <4>1. Limited(w2, j) \subseteq Limited(w, j)  BY <2>4 DEF Limited
      <4>2. BurstGood(counter[j], burst[j], Limited(w2, j))  BY <3>1, <4>1, FewerWait
      <4> QED  BY <2>5, <3>3, <4>2
    <3> QED  BY <3>2, <3>3
  <2> QED  BY <1>4, <2>3, <2>4, <2>6, <2>8, <2>9 DEF PipeInv
<1> QED  BY <1>6, <1>7, <1>8

-----------------------------------------------------------------------------
(* Time and restarts.                                                      *)

\* The minute of a full counter leaves what still waits to be sent after it.
LEMMA MinuteEndsKeeps ==
  ASSUME PipeInv, NEW k \in Counters2, MinuteEnds(k)
  PROVE  PipeInv'
<1>1. PipeTypes /\ QueueGood(retryQ, round) /\ CopyInv  BY DEF PipeInv
<1>2. UNCHANGED <<seen, retryQ, round, poll, received, burst, doubt>> /\ counter[k].open
      /\ counter' = [counter EXCEPT ![k].open = FALSE]
  BY DEF MinuteEnds
<1>3. counter \in [Counters2 -> Counts]  BY <1>1 DEF PipeTypes
<1>4. PICK c : c = [counter[k] EXCEPT !.open = FALSE]  OBVIOUS
<1>5. c.open = FALSE /\ c \in Counts
  <2>1. counter[k] \in Counts  BY <1>3
  <2> QED  BY <1>4, <2>1 DEF Counts
<1>6. counter' \in [Counters2 -> Counts] /\ counter'[k] = c
      /\ \A j \in Counters2 : j # k => counter'[j] = counter[j]
  <2>1. counter' = [counter EXCEPT ![k] = c]  BY <1>2, <1>3, <1>4
  <2> QED  BY <1>3, <1>5, <2>1
<1>7. PipeTypes'  BY <1>1, <1>2, <1>6 DEF PipeTypes
<1>8. CopyInv'
  <2>1. ASSUME NEW p \in Pairs  PROVE Copies(p)' <= Copies(p)
    <3>1. Copies(p)' = Copies(p)  BY <1>2 DEF Copies
    <3>2. Copies(p) \in Nat  BY <1>1, CopiesCount
    <3> QED  BY <3>1, <3>2
  <2>2. NoNewCopy  BY <2>1 DEF NoNewCopy
  <2> QED  BY <1>1, <1>2, <1>7, <2>2, CopiesStay
<1>9. PICK w : w = Limited(WaitingIn(retryQ, round), k)  OBVIOUS
<1>10. BurstGood(c, burst[k], w)
  <2>1. Cardinality(w) \in Nat /\ Cardinality(w) <= QueueLength  BY <1>1, <1>9, FewWait
  <2>2. BurstGood(counter[k], burst[k], w)  BY <1>9 DEF PipeInv
  <2>3. counter[k].count \in Nat /\ burst[k] \in Nat
    <3>1. counter[k] \in Counts  BY <1>3
    <3> QED  BY <1>1, <3>1 DEF PipeTypes, Counts
  <2>4. PICK m \in Nat, n \in Nat, b \in Nat, x \in Nat :
          m = counter[k].count /\ n = Cardinality(w) /\ b = burst[k] /\ x = MaxPerMinute
    BY <2>1, <2>3, PipelineAssumption
  <2>5. QueueLength \in Nat  BY PipelineAssumption
  <2>6. b + n <= x + 2 * QueueLength
    <3>1. CASE m < x
      <4>1. b + n <= m + QueueLength  BY <1>2, <2>2, <2>4, <3>1 DEF BurstGood
      <4> QED  BY <2>5, <3>1, <4>1
    <3>2. CASE m >= x
      <4>1. b <= x + QueueLength /\ n <= QueueLength  BY <1>2, <2>1, <2>2, <2>4, <3>2 DEF BurstGood
      <4> QED  BY <2>5, <4>1
    <3> QED  BY <2>4, <3>1, <3>2
  <2>7. ~ c.open  BY <1>5
  <2> QED  BY <2>4, <2>6, <2>7 DEF BurstGood
<1>11. ASSUME NEW j \in Counters2
       PROVE  BurstGood(counter'[j], burst[j], Limited(WaitingIn(retryQ, round), j))
  <2>1. CASE j = k  BY <1>6, <1>9, <1>10, <2>1
  <2>2. CASE j # k  BY <1>6, <2>2 DEF PipeInv
  <2> QED  BY <2>1, <2>2
<1> QED  BY <1>1, <1>2, <1>7, <1>8, <1>11 DEF PipeInv

\* Of a sink that has nothing under way, what was received is all there is.
LEMMA QuietCounts ==
  ASSUME PipeInv, NEW k \in Lanes, Quiet(k), NEW p \in Pairs, p.sink = k
  PROVE  Copies(p) = received[<<p.msg, p.sink>>]
<1>1. PICK s \in Sources : s = p.msg.source  BY PipelineAssumption DEF Pairs
<1>2. PollGood(s, poll[s])  BY DEF PipeInv
<1>3. p \notin poll[s].passed  BY <1>1 DEF Quiet
<1>4. ~ (poll[s].at = "limit" /\ Head(poll[s].todo) = p)
  <2> SUFFICES ASSUME poll[s].at = "limit", Head(poll[s].todo) = p  PROVE FALSE
    OBVIOUS
  <2>1. poll[s].todo \in Seq(Pairs) /\ poll[s].todo # <<>>  BY <1>2 DEF PollGood, Polls
  <2>2. Head(poll[s].todo) = poll[s].todo[1] /\ 1 \in DOMAIN poll[s].todo  BY <2>1, HeadAndTail
  <2>3. p \in Range(poll[s].todo)  BY <2>2 DEF Range
  <2> QED  BY <2>3 DEF Quiet
<1>5. p \notin WaitingIn(retryQ, round)
  <2>1. ASSUME NEW q \in Seq(Entries), \A e \in Range(q) : e.sink # k  PROVE p \notin PairsIn(q)
    <3>1. \A i \in DOMAIN q : q[i].sink # k  BY <2>1 DEF Range
    <3> QED  BY <3>1 DEF PairsIn, PairOf
  <2>2. retryQ \in Seq(Entries) /\ round.todo \in Seq(Entries) /\ round.keep \in Seq(Entries)
    BY DEF PipeInv, QueueGood, Rounds
  <2>3. p \notin PairsIn(retryQ) /\ p \notin PairsIn(round.todo) /\ p \notin PairsIn(round.keep)
    BY <2>1, <2>2 DEF Quiet
  <2> QED  BY <2>3 DEF WaitingIn
<1>6. PICK n \in Nat : n = received[<<p.msg, p.sink>>]  BY CopiesCount DEF PipeInv
<1>7. Copies(p) = One(FALSE) + One(FALSE) + One(FALSE) + n
  <2>1. One(poll[s].at = "limit" /\ Head(poll[s].todo) = p) = 0 /\ One(p \in poll[s].passed) = 0
        /\ One(p \in WaitingIn(retryQ, round)) = 0
    BY <1>3, <1>4, <1>5 DEF One
  <2>2. Copies(p) = 0 + 0 + 0 + n  BY <1>1, <1>6, <2>1 DEF Copies, OnItsWay
  <2> QED  BY <2>2 DEF One
<1> QED  BY <1>6, <1>7 DEF One

LEMMA KeysExpireKeeps ==
  ASSUME PipeInv, NEW k \in Lanes, KeysExpire(k)
  PROVE  PipeInv'
<1>1. PipeTypes /\ CopyInv /\ Quiet(k)  BY DEF PipeInv, KeysExpire
<1>2. /\ UNCHANGED <<counter, retryQ, round, poll, burst>>
      /\ seen' = {x \in seen : x.sink # k} /\ doubt' = {d \in doubt : d.sink # k}
      /\ received' = [d \in DOMAIN received |-> IF d[2] = k THEN 0 ELSE received[d]]
  BY DEF KeysExpire
<1>3. /\ received' \in [News \X Lanes -> Nat]
      /\ \A p \in Pairs : received'[<<p.msg, p.sink>>] = IF p.sink = k THEN 0 ELSE received[<<p.msg, p.sink>>]
  <2>1. received \in [News \X Lanes -> Nat]  BY <1>1 DEF PipeTypes
  <2>2. \A p \in Pairs : <<p.msg, p.sink>> \in News \X Lanes  BY DEF Pairs
  <2> QED  BY <1>2, <2>1, <2>2
<1>4. PipeTypes'  BY <1>1, <1>2, <1>3 DEF PipeTypes
<1>5. ASSUME NEW p \in Pairs  PROVE Copies(p)' = IF p.sink = k THEN 0 ELSE Copies(p)
  <2>1. PICK x \in Nat : x = One(poll[p.msg.source].at = "limit" /\ Head(poll[p.msg.source].todo) = p)
                             + One(p \in poll[p.msg.source].passed) + One(p \in WaitingIn(retryQ, round))
    <3>1. \A b : One(b) \in Nat  BY DEF One
    <3> QED  BY <3>1
  <2>2. PICK n \in Nat : n = received[<<p.msg, p.sink>>]  BY <1>1, CopiesCount
  <2>3. Copies(p) = x + n  BY <2>1, <2>2 DEF Copies, OnItsWay
  <2>4. Copies(p)' = x + (IF p.sink = k THEN 0 ELSE n)
    BY <1>2, <1>3, <2>1, <2>2 DEF Copies, OnItsWay
  <2>5. CASE p.sink = k
    <3>1. Copies(p) = n  BY <1>1, <2>2, <2>5, QuietCounts
    <3> QED  BY <2>3, <2>4, <2>5, <3>1
  <2>6. CASE p.sink # k  BY <2>3, <2>4, <2>6
  <2> QED  BY <2>5, <2>6
<1>6. CopyInv'
  <2> SUFFICES ASSUME NEW p \in Pairs, p.sink \in Sinks \ Skipped, Sure(p.sink)'
      PROVE  /\ Copies(p)' <= 1
             /\ Copies(p)' >= 1 => Marked(p)'
             /\ \A q \in Pairs : Copies(p)' >= 1 /\ Copies(q)' >= 1 /\ SameStory(p, q) => p = q
    BY DEF CopyInv, SameStory, InGroup
  <2>1. CASE p.sink = k  BY <1>5, <2>1
  <2>2. CASE p.sink # k
    <3>1. Sure(p.sink)  BY <1>2, <2>2 DEF Sure
    <3>2. /\ Copies(p) <= 1
          /\ Copies(p) >= 1 => Marked(p)
          /\ \A q \in Pairs : Copies(p) >= 1 /\ Copies(q) >= 1 /\ SameStory(p, q) => p = q
      BY <1>1, <3>1 DEF CopyInv
    <3>3. Marked(p) => Marked(p)'
      <4>1. ExactKey(p.msg, p.sink).sink = p.sink /\ ContentKey(p.msg, p.sink).sink = p.sink
        BY DEF ExactKey, ContentKey
      <4> QED  BY <1>2, <2>2, <4>1 DEF Marked, InGroup
    <3>4. ASSUME NEW q \in Pairs, Copies(q)' >= 1, SameStory(p, q)  PROVE Copies(q) >= 1
      <4>1. q.sink # k  BY <2>2, <3>4 DEF SameStory
      <4> QED  BY <1>5, <3>4, <4>1
    <3> QED  BY <1>5, <2>2, <3>2, <3>3, <3>4
  <2> QED  BY <2>1, <2>2
<1> QED  BY <1>2, <1>4, <1>6 DEF PipeInv

\* Nothing waits any more after a restart.
LEMMA EmptyIsGood ==
  /\ QueueGood(<<>>, NoRound) /\ WaitingIn(<<>>, NoRound) = {}
  /\ \A k : BurstGood(Closed, 0, Limited({}, k)) /\ PollGood(k, NoPoll)
  /\ Closed \in Counts
<1>1. NoRound \in Rounds /\ NoRound.on = FALSE /\ NoRound.todo = <<>> /\ NoRound.keep = <<>>
  BY NothingIn DEF NoRound, Rounds
<1>2. QueueLength \in Nat /\ MaxPerMinute \in Nat  BY PipelineAssumption
<1>3. QueueGood(<<>>, NoRound)  BY <1>1, <1>2, NothingIn DEF QueueGood
<1>4. WaitingIn(<<>>, NoRound) = {}  BY <1>1, NothingIn DEF WaitingIn
<1>5. Closed.open = FALSE /\ Closed \in Counts  BY DEF Closed, Counts
<1>6. ASSUME NEW k  PROVE BurstGood(Closed, 0, Limited({}, k)) /\ PollGood(k, NoPoll)
  <2>1. Limited({}, k) = {} /\ Cardinality({}) = 0  BY FS_EmptySet DEF Limited
  <2>2. PollGood(k, NoPoll)  BY DEF PollGood, NoPoll, Polls
  <2>3. ~ Closed.open /\ 0 + 0 <= MaxPerMinute + 2 * QueueLength  BY <1>2, <1>5
  <2>4. BurstGood(Closed, 0, {})
    <3>1. Closed.open = FALSE /\ Cardinality({}) = 0  BY <1>5, <2>1
    <3> QED  BY <2>3, <3>1 DEF BurstGood
  <2> QED  BY <2>1, <2>2, <2>4
<1> QED  BY <1>3, <1>4, <1>5, <1>6

LEMMA RestartKeeps ==
  ASSUME PipeInv, Restart
  PROVE  PipeInv'
<1>1. PipeTypes /\ CopyInv  BY DEF PipeInv
<1>2. /\ UNCHANGED <<seen, received, doubt>> /\ retryQ' = <<>> /\ round' = NoRound
      /\ counter' = [k \in Counters2 |-> Closed] /\ burst' = [k \in Counters2 |-> 0]
      /\ poll' = [s \in Sources |-> NoPoll]
  BY DEF Restart
<1>3. PipeTypes'  BY <1>1, <1>2, EmptyIsGood DEF PipeTypes
<1>4. ASSUME NEW p \in Pairs  PROVE Copies(p)' <= Copies(p)
  <2>1. PICK s \in Sources : s = p.msg.source  BY PipelineAssumption DEF Pairs
  <2>2. Shrinks(poll[s], NoPoll)  BY DEF Shrinks, NoPoll
  <2>3. PICK n \in Nat : n = received[<<p.msg, p.sink>>]  BY <1>1, CopiesCount
  <2>4. OnItsWay(p, NoPoll, WaitingIn(<<>>, NoRound), n)
        <= OnItsWay(p, poll[s], WaitingIn(retryQ, round), n)
    BY <2>2, EmptyIsGood, FewerOnTheWay
  <2> QED  BY <1>2, <2>1, <2>3, <2>4 DEF Copies
<1>5. CopyInv'
  <2>1. NoNewCopy  BY <1>4 DEF NoNewCopy
  <2> QED  BY <1>1, <1>2, <1>3, <2>1, CopiesStay
<1>6. WaitingIn(retryQ', round') = {} /\ QueueGood(retryQ', round')  BY <1>2, EmptyIsGood
<1> QED  BY <1>2, <1>3, <1>5, <1>6, EmptyIsGood DEF PipeInv

-----------------------------------------------------------------------------

LEMMA PipeInvHolds == PipelineSpec => []PipeInv
<1>1. ASSUME PipelineInit  PROVE PipeInv
  <2>1. PipeTypes  BY <1>1, EmptyIsGood DEF PipelineInit, PipeTypes
  <2>2. ASSUME NEW p \in Pairs  PROVE Copies(p) = 0
    <3>1. PICK s \in Sources : s = p.msg.source  BY PipelineAssumption DEF Pairs
    <3>2. /\ WaitingIn(retryQ, round) = {} /\ received[<<p.msg, p.sink>>] = 0
          /\ poll[s].at = "idle" /\ poll[s].passed = {}
      BY <1>1, EmptyIsGood DEF PipelineInit, NoPoll, Pairs
    <3> QED  BY <3>1, <3>2 DEF Copies, OnItsWay, One
  <2>3. CopyInv  BY <2>2 DEF CopyInv
  <2>4. WaitingIn(retryQ, round) = {} /\ QueueGood(retryQ, round)  BY <1>1, EmptyIsGood DEF PipelineInit
  <2> QED  BY <1>1, <2>1, <2>3, <2>4, EmptyIsGood DEF PipelineInit, PipeInv
<1>2. ASSUME PipeInv, UNCHANGED pipelineVars  PROVE PipeInv'
  <2>1. UNCHANGED <<seen, counter, retryQ, round, poll, received, burst, doubt>>
    BY <1>2 DEF pipelineVars
  <2>2. PipeTypes' /\ CopyInv'
    BY <1>2, <2>1 DEF PipeInv, PipeTypes, CopyInv, Copies, Sure, Marked, InGroup, SameStory
  <2> QED  BY <1>2, <2>1, <2>2 DEF PipeInv
<1>3. ASSUME PipeInv, PipelineNext  PROVE PipeInv'
  <2>1. ASSUME NEW s \in Sources, Fetch(s)       PROVE PipeInv'  BY <1>3, <2>1, FetchKeeps
  <2>2. ASSUME NEW s \in Sources, CheckSeen(s)   PROVE PipeInv'  BY <1>3, <2>2, CheckSeenKeeps
  <2>3. ASSUME NEW s \in Sources, CheckLimit(s)  PROVE PipeInv'  BY <1>3, <2>3, CheckLimitKeeps
  <2>4. ASSUME NEW s \in Sources, Enhance(s)     PROVE PipeInv'  BY <1>3, <2>4, EnhanceKeeps
  <2>5. ASSUME NEW s \in Sources, Send(s)        PROVE PipeInv'  BY <1>3, <2>5, SendKeeps
  <2>6. ASSUME NEW s \in Sources, EndPoll(s)     PROVE PipeInv'  BY <1>3, <2>6, EndPollKeeps
  <2>7. ASSUME StartRound                        PROVE PipeInv'  BY <1>3, <2>7, StartRoundKeeps
  <2>8. ASSUME Retry                             PROVE PipeInv'  BY <1>3, <2>8, RetryKeeps
  <2>9. ASSUME EndRound                          PROVE PipeInv'  BY <1>3, <2>9, EndRoundKeeps
  <2>10. ASSUME NEW k \in Counters2, MinuteEnds(k)  PROVE PipeInv'  BY <1>3, <2>10, MinuteEndsKeeps
  <2>11. ASSUME NEW k \in Lanes, KeysExpire(k)   PROVE PipeInv'  BY <1>3, <2>11, KeysExpireKeeps
  <2>12. ASSUME Restart                          PROVE PipeInv'  BY <1>3, <2>12, RestartKeeps
  <2> QED  BY <1>3, <2>1, <2>2, <2>3, <2>4, <2>5, <2>6, <2>7, <2>8, <2>9, <2>10, <2>11, <2>12
           DEF PipelineNext
<1> QED  BY <1>1, <1>2, <1>3, PTL DEF PipelineSpec

\* The messages between the filters and the channels (checkAndSet of the
\* deduplication, ShouldFilter, fetchAndDispatchGeneration, Enqueue and
\* ProcessRetries): unless the bucket has failed for the sink, there is at
\* any time at most one copy of a message for it, at the rate limit, in the
\* batch, in the retry queue or sent, and of the group's messages of one
\* story at most one at all; and what a minute sends beyond its rule is
\* never more than the retry queue holds twice.
THEOREM ChannelsAreSpared == PipelineSpec => []SinksAreSpared
<1>1. ASSUME PipeInv  PROVE NoSecondCopy
  <2> SUFFICES ASSUME NEW k \in Sinks \ Skipped, {d \in doubt : d.sink = k} = {}
      PROVE  /\ \A m \in News : received[<<m, k>>] <= 1
             /\ \A m, n \in {u \in News : received[<<u, k>>] > 0} :
                  m.source \in Grouped /\ n.source \in Grouped
                  /\ m.kind = "news" /\ n.kind = "news" /\ m.story = n.story => m = n
    BY DEF NoSecondCopy
  <2>1. Sure(k)  BY DEF Sure
  <2>2. ASSUME NEW m \in News
        PROVE  PairOf([msg |-> m, sink |-> k]) \in Pairs
               /\ received[<<m, k>>] <= Copies(PairOf([msg |-> m, sink |-> k]))
               /\ Copies(PairOf([msg |-> m, sink |-> k])) \in Nat /\ received[<<m, k>>] \in Nat
    <3>1. PICK p : p = PairOf([msg |-> m, sink |-> k])  OBVIOUS
    <3>2. p \in Pairs /\ p.msg = m /\ p.sink = k  BY <3>1 DEF PairOf, Pairs, Lanes
    <3>3. Copies(p) \in Nat /\ received[<<m, k>>] \in Nat  BY <1>1, <3>2, CopiesCount DEF PipeInv
    <3>4. PICK x \in Nat, y \in Nat, z \in Nat, n \in Nat :
            /\ x = One(poll[p.msg.source].at = "limit" /\ Head(poll[p.msg.source].todo) = p)
            /\ y = One(p \in poll[p.msg.source].passed) /\ z = One(p \in WaitingIn(retryQ, round))
            /\ n = received[<<m, k>>]
      BY <3>3 DEF One
    <3>5. Copies(p) = x + y + z + n  BY <3>2, <3>4 DEF Copies, OnItsWay
    <3> QED  BY <3>1, <3>2, <3>3, <3>4, <3>5
  <2>3. ASSUME NEW m \in News  PROVE received[<<m, k>>] <= 1
    <3>1. PICK p \in Pairs : /\ p = PairOf([msg |-> m, sink |-> k]) /\ p.sink = k
                             /\ received[<<m, k>>] <= Copies(p) /\ Copies(p) \in Nat
                             /\ received[<<m, k>>] \in Nat
      BY <2>2 DEF PairOf
    <3>2. Copies(p) <= 1  BY <1>1, <2>1, <3>1 DEF PipeInv, CopyInv
    <3> QED  BY <3>1, <3>2
  <2>4. ASSUME NEW m \in News, NEW n \in News, received[<<m, k>>] > 0, received[<<n, k>>] > 0,
               m.source \in Grouped, n.source \in Grouped,
               m.kind = "news", n.kind = "news", m.story = n.story
        PROVE  m = n
    <3>0. ASSUME NEW u \in News, received[<<u, k>>] > 0
          PROVE  \E p \in Pairs : p.msg = u /\ p.sink = k /\ Copies(p) >= 1
      <4>1. PICK p \in Pairs : /\ p = PairOf([msg |-> u, sink |-> k])
                               /\ received[<<u, k>>] <= Copies(p) /\ Copies(p) \in Nat
                               /\ received[<<u, k>>] \in Nat
        BY <2>2
      <4>2. Copies(p) >= 1  BY <3>0, <4>1
      <4>3. p.msg = u /\ p.sink = k  BY <4>1 DEF PairOf
      <4> QED  BY <4>2, <4>3
    <3>1. PICK p \in Pairs : p.msg = m /\ p.sink = k /\ Copies(p) >= 1
      BY <2>4, <3>0
    <3>2. PICK q \in Pairs : q.msg = n /\ q.sink = k /\ Copies(q) >= 1
      BY <2>4, <3>0
    <3>3. SameStory(p, q)  BY <2>4, <3>1, <3>2 DEF SameStory, InGroup
    <3>4. p = q  BY <1>1, <2>1, <3>1, <3>2, <3>3 DEF PipeInv, CopyInv
    <3> QED  BY <3>1, <3>2, <3>4
  <2> QED  BY <2>3, <2>4
<1>2. ASSUME PipeInv  PROVE BurstIsBounded
  <2> SUFFICES ASSUME NEW k \in Counters2  PROVE burst[k] <= MaxPerMinute + 2 * QueueLength
    BY DEF BurstIsBounded
  <2>1. PICK w : w = Limited(WaitingIn(retryQ, round), k)  OBVIOUS
  <2>2. BurstGood(counter[k], burst[k], w)  BY <1>2, <2>1 DEF PipeInv
  <2>3. Cardinality(w) \in Nat  BY <1>2, <2>1, FewWait DEF PipeInv
  <2>4. counter[k] \in Counts /\ burst[k] \in Nat  BY <1>2 DEF PipeInv, PipeTypes
  <2>5. counter[k].count \in Nat /\ QueueLength \in Nat /\ MaxPerMinute \in Nat
    BY <2>4, PipelineAssumption DEF Counts
  <2>6. CASE counter[k].open
    <3>1. CASE counter[k].count < MaxPerMinute  BY <2>2, <2>3, <2>4, <2>5, <2>6, <3>1 DEF BurstGood
    <3>2. CASE counter[k].count >= MaxPerMinute  BY <2>2, <2>4, <2>5, <2>6, <3>2 DEF BurstGood
    <3> QED  BY <2>5, <3>1, <3>2
  <2>7. CASE ~ counter[k].open  BY <2>2, <2>3, <2>4, <2>5, <2>7 DEF BurstGood
  <2> QED  BY <2>6, <2>7
<1>3. PipeInv => SinksAreSpared  BY <1>1, <1>2 DEF SinksAreSpared
<1> QED  BY <1>3, PipeInvHolds, PTL

=============================================================================
