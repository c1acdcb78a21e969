--------------------------- MODULE ContentProofs ----------------------------
(***************************************************************************)
(* What holds of what is fetched, kept and shown for every value of the    *)
(* constants: the exactness of the indexes of the digest store and of its  *)
(* statistics, the validators of a feed, the slots of a schedule, the      *)
(* items a briefing shows, and the list of the news archive.               *)
(***************************************************************************)
EXTENDS DigestIndex, FeedFetch, ScheduleSlots, Briefing, NewsArchive, FiniteSetTheorems,
        WellFoundedInduction, TLAPS

-----------------------------------------------------------------------------
(* Orders.                                                                 *)

\* A strict order on a finite set that is not empty has an end.
LEMMA Extremal ==
  ASSUME NEW S, IsFiniteSet(S), S # {}, NEW R,
         \A x \in S : <<x, x>> \notin R,
         \A x, y, z \in S : <<x, y>> \in R /\ <<y, z>> \in R => <<x, z>> \in R
  PROVE  \E x \in S : \A y \in S : <<y, x>> \notin R
<1> DEFINE above(x) == {y \in S : <<y, x>> \in R}
           T == {above(x) : x \in S}
<1>1. IsWellFoundedOn(StrictSubsetOrdering(S), FiniteSubsetsOf(S))
  BY FS_StrictSubsetOrderingWellFounded
<1>2. T \subseteq FiniteSubsetsOf(S)  BY FS_Subset DEF FiniteSubsetsOf
<1>3. T # {}
  <2>1. PICK x : x \in S  OBVIOUS
  <2>2. above(x) \in T  BY <2>1
  <2> QED  BY <2>2
<1>4. PICK b \in T : \A c \in T : <<c, b>> \notin StrictSubsetOrdering(S)
  <2> HIDE DEF T
  <2> QED  BY <1>1, <1>2, <1>3, WFMin, Zenon
<1>5. PICK x \in S : b = above(x)  OBVIOUS
<1>6. ASSUME NEW y \in S, <<y, x>> \in R  PROVE FALSE
  <2>1. above(y) \subseteq above(x)  BY <1>6
  <2>2. y \in above(x) /\ y \notin above(y)  BY <1>6
  <2>3. <<above(y), above(x)>> \in StrictSubsetOrdering(S)
    BY <2>1, <2>2, Zenon DEF StrictSubsetOrdering
  <2> QED  BY <1>4, <1>5, <2>3
<1> QED  BY <1>6

\* A finite set of numbers that is not empty has a least element.
LEMMA LeastOf ==
  ASSUME NEW S \in SUBSET Nat, IsFiniteSet(S), S # {}
  PROVE  \E x \in S : \A y \in S : x <= y
<1> DEFINE R == {p \in S \X S : p[1] < p[2]}
<1>1. \A x, y \in S : <<x, y>> \in R <=> x < y  OBVIOUS
<1> HIDE DEF R
<1>2. PICK x \in S : \A y \in S : <<y, x>> \notin R
  <2>1. \A x \in S : <<x, x>> \notin R  BY <1>1
  <2>2. \A x, y, z \in S : <<x, y>> \in R /\ <<y, z>> \in R => <<x, z>> \in R  BY <1>1
  <2> QED  BY <2>1, <2>2, Extremal
<1>3. ASSUME NEW y \in S  PROVE x <= y
  <2>1. x \in Nat /\ y \in Nat  OBVIOUS
  <2>2. ~ (y < x)  BY <1>1, <1>2
  <2> QED  BY <2>1, <2>2
<1> QED  BY <1>3

\* A finite set of numbers that is not empty has a greatest element.
LEMMA GreatestOf ==
  ASSUME NEW S \in SUBSET Nat, IsFiniteSet(S), S # {}
  PROVE  \E x \in S : \A y \in S : y <= x
<1> DEFINE R == {p \in S \X S : p[1] > p[2]}
<1>1. \A x, y \in S : <<x, y>> \in R <=> x > y  OBVIOUS
<1> HIDE DEF R
<1>2. PICK x \in S : \A y \in S : <<y, x>> \notin R
  <2>1. \A x \in S : <<x, x>> \notin R  BY <1>1
  <2>2. \A x, y, z \in S : <<x, y>> \in R /\ <<y, z>> \in R => <<x, z>> \in R  BY <1>1
  <2> QED  BY <2>1, <2>2, Extremal
<1>3. ASSUME NEW y \in S  PROVE y <= x
  <2>1. x \in Nat /\ y \in Nat  OBVIOUS
  <2>2. ~ (y > x)  BY <1>1, <1>2
  <2> QED  BY <2>1, <2>2
<1> QED  BY <1>3

-----------------------------------------------------------------------------
(* The indexes.                                                            *)

Fields == {"items", "deliveries", "entries", "format", "buckets", "canonical", "indexed"}

\* A data base of the digest store: its fields, and a record for every id.
Shaped(d) ==
  /\ d = [f \in Fields |-> d[f]]
  /\ d.items = [i \in IxItems |-> d.items[i]]
  /\ d.deliveries = [k \in IxDeliveries |-> d.deliveries[k]]
  /\ d.canonical \in Int /\ d.indexed \in Int

\* The second counter never passes the first, and while both agree the
\* entries are those of the records.
Exact(d) == Shaped(d) /\ d.indexed <= d.canonical /\ (Usable(d) => d.entries = AllEntries(d))

\* The inductive invariant of the indexes.
IndexInv == Exact(db)

\* Every index entry names its record, so two records share no entry.
LEMMA EntriesNameTheirRecord ==
  /\ \A r, i : \A e \in ItemEntries(r, i) : e[3] = i
  /\ \A r, k : \A e \in DeliveryEntries(r, k) : e[3] = k
<1>1. ASSUME NEW r, NEW i, NEW e \in ItemEntries(r, i)  PROVE e[3] = i
  BY SMT DEF ItemEntries
<1>2. ASSUME NEW r, NEW k, NEW e \in DeliveryEntries(r, k)  PROVE e[3] = k
  BY SMT DEF DeliveryEntries
<1> QED  BY <1>1, <1>2

\* What the entries of a data base are made of.
LEMMA EntriesOfAll ==
  ASSUME NEW d, NEW e
  PROVE  e \in AllEntries(d) <=> \/ \E i \in IxItems : e \in ItemEntries(d.items[i], i)
                                 \/ \E k \in IxDeliveries : e \in DeliveryEntries(d.deliveries[k], k)
BY DEF AllEntries

\* Storing an item takes its old entries away and adds the new ones.
LEMMA ItemStored ==
  ASSUME NEW d, Exact(d), NEW i \in IxItems, NEW r
  PROVE  Exact(Stored(d, "items", i, r))
<1> DEFINE s == Stored(d, "items", i, r)
           new == EntriesWith(d, "items", i, r)
<1>1. /\ s.items = [d.items EXCEPT ![i] = r] /\ s.deliveries = d.deliveries
      /\ s.canonical = d.canonical + 1 /\ s.format = d.format /\ s.buckets = d.buckets
      /\ s.entries = (IF Usable(d) THEN new ELSE d.entries)
      /\ s.indexed = (IF Usable(d) THEN d.canonical + 1 ELSE d.indexed)
      /\ s = [f \in Fields |-> s[f]]
  BY DEF Stored, Exact, Shaped, Fields
<1>2. Shaped(s) /\ s.indexed <= s.canonical  BY <1>1 DEF Exact, Shaped
<1>3. ASSUME Usable(s)  PROVE s.entries = AllEntries(s)
  <2>1. Usable(d)  BY <1>1, <1>3 DEF Usable, Exact, Shaped
  <2>2. d.entries = AllEntries(d)  BY <2>1 DEF Exact
  <2>3. new = (d.entries \ ItemEntries(d.items[i], i)) \cup ItemEntries(r, i)
    BY DEF EntriesWith, Entries
  <2>4. s.entries = new  BY <1>1, <2>1
  <2>5. /\ s.items[i] = r /\ \A j \in IxItems : j # i => s.items[j] = d.items[j]
    BY <1>1 DEF Exact, Shaped
  <2>6. ASSUME NEW e  PROVE e \in new <=> e \in AllEntries(s)
    <3>1. e \in AllEntries(s) <=> \/ \E j \in IxItems : e \in ItemEntries(s.items[j], j)
                                  \/ \E k \in IxDeliveries : e \in DeliveryEntries(d.deliveries[k], k)
      BY <1>1, EntriesOfAll
    <3>2. e \in d.entries <=> \/ \E j \in IxItems : e \in ItemEntries(d.items[j], j)
                              \/ \E k \in IxDeliveries : e \in DeliveryEntries(d.deliveries[k], k)
      BY <2>2, EntriesOfAll
    <3>3. e \in ItemEntries(d.items[i], i) \/ e \in ItemEntries(r, i) => e[3] = i
      BY EntriesNameTheirRecord
    <3>4. /\ \A j \in IxItems : e \in ItemEntries(d.items[j], j) => e[3] = j
          /\ \A k \in IxDeliveries : e \in DeliveryEntries(d.deliveries[k], k) => e[3] = k /\ k # i
      BY EntriesNameTheirRecord, IndexAssumption
    <3>5. e \in new <=> (e \in d.entries /\ e \notin ItemEntries(d.items[i], i)) \/ e \in ItemEntries(r, i)
      BY <2>3
    <3>6. \A j \in IxItems : e \in ItemEntries(s.items[j], j) <=>
             IF j = i THEN e \in ItemEntries(r, i) ELSE e \in ItemEntries(d.items[j], j)
      BY <2>5
    <3> HIDE DEF s, new
    <3> QED  BY <3>1, <3>2, <3>3, <3>4, <3>5, <3>6
  <2> QED  BY <2>4, <2>6
<1> QED  BY <1>2, <1>3 DEF Exact

\* Storing a delivery does the same for a delivery.
LEMMA DeliveryStored ==
  ASSUME NEW d, Exact(d), NEW k \in IxDeliveries, NEW r
  PROVE  Exact(Stored(d, "deliveries", k, r))
<1> DEFINE s == Stored(d, "deliveries", k, r)
           new == EntriesWith(d, "deliveries", k, r)
<1>1. /\ s.deliveries = [d.deliveries EXCEPT ![k] = r] /\ s.items = d.items
      /\ s.canonical = d.canonical + 1 /\ s.format = d.format /\ s.buckets = d.buckets
      /\ s.entries = (IF Usable(d) THEN new ELSE d.entries)
      /\ s.indexed = (IF Usable(d) THEN d.canonical + 1 ELSE d.indexed)
      /\ s = [f \in Fields |-> s[f]]
  BY DEF Stored, Exact, Shaped, Fields
<1>2. Shaped(s) /\ s.indexed <= s.canonical  BY <1>1 DEF Exact, Shaped
<1>3. ASSUME Usable(s)  PROVE s.entries = AllEntries(s)
  <2>1. Usable(d)  BY <1>1, <1>3 DEF Usable, Exact, Shaped
  <2>2. d.entries = AllEntries(d)  BY <2>1 DEF Exact
  <2>3. new = (d.entries \ DeliveryEntries(d.deliveries[k], k)) \cup DeliveryEntries(r, k)
    BY DEF EntriesWith, Entries
  <2>4. s.entries = new  BY <1>1, <2>1
  <2>5. /\ s.deliveries[k] = r /\ \A j \in IxDeliveries : j # k => s.deliveries[j] = d.deliveries[j]
    BY <1>1 DEF Exact, Shaped
  <2>6. ASSUME NEW e  PROVE e \in new <=> e \in AllEntries(s)
    <3>1. e \in AllEntries(s) <=> \/ \E j \in IxItems : e \in ItemEntries(d.items[j], j)
                                  \/ \E j \in IxDeliveries : e \in DeliveryEntries(s.deliveries[j], j)
      BY <1>1, EntriesOfAll
    <3>2. e \in d.entries <=> \/ \E j \in IxItems : e \in ItemEntries(d.items[j], j)
                              \/ \E j \in IxDeliveries : e \in DeliveryEntries(d.deliveries[j], j)
      BY <2>2, EntriesOfAll
    <3>3. e \in DeliveryEntries(d.deliveries[k], k) \/ e \in DeliveryEntries(r, k) => e[3] = k
      BY EntriesNameTheirRecord
    <3>4. /\ \A j \in IxDeliveries : e \in DeliveryEntries(d.deliveries[j], j) => e[3] = j
          /\ \A j \in IxItems : e \in ItemEntries(d.items[j], j) => e[3] = j /\ j # k
      BY EntriesNameTheirRecord, IndexAssumption
    <3>5. e \in new <=> (e \in d.entries /\ e \notin DeliveryEntries(d.deliveries[k], k)) \/ e \in DeliveryEntries(r, k)
      BY <2>3
    <3>6. \A j \in IxDeliveries : e \in DeliveryEntries(s.deliveries[j], j) <=>
             IF j = k THEN e \in DeliveryEntries(r, k) ELSE e \in DeliveryEntries(d.deliveries[j], j)
      BY <2>5
    <3> HIDE DEF s, new
    <3> QED  BY <3>1, <3>2, <3>3, <3>4, <3>5, <3>6
  <2> QED  BY <2>4, <2>6
<1> QED  BY <1>2, <1>3 DEF Exact

\* A transaction that maintains the indexes moves both counters together,
\* which the records it stored have done already.
LEMMA Committed ==
  ASSUME Exact(db), NEW d, Exact(d), Commit(d), Usable(db) => Usable(d)
  PROVE  Exact(db')
<1>1. CASE Maintains(db)
  <2>1. db' = [d EXCEPT !.indexed = d.canonical] /\ Usable(d)  BY <1>1 DEF Commit, Maintains
  <2>2. db' = d  BY <2>1 DEF Exact, Shaped, Fields, Usable
  <2> QED  BY <2>2
<1>2. CASE ~Maintains(db)
  BY <1>2 DEF Commit
<1> QED  BY <1>1, <1>2

\* Storing keeps usable indexes usable.
LEMMA StoredStaysUsable ==
  ASSUME NEW d, Exact(d), Usable(d), NEW bucket \in {"items", "deliveries"}, NEW id, NEW r
  PROVE  Usable(Stored(d, bucket, id, r))
BY DEF Exact, Shaped, Fields, Usable, Stored

\* Indexes made anew are exact.
LEMMA RebuiltIsExact ==
  ASSUME NEW d, Shaped(d)
  PROVE  Exact(Rebuilt(d))
<1> DEFINE s == Rebuilt(d)
<1>1. /\ s.items = d.items /\ s.deliveries = d.deliveries /\ s.canonical = d.canonical
      /\ s.indexed = d.canonical /\ s.entries = AllEntries(d)
      /\ s = [f \in Fields |-> s[f]]
  BY DEF Rebuilt, Shaped, Fields
<1>2. AllEntries(s) = AllEntries(d)  BY <1>1 DEF AllEntries
<1> QED  BY <1>1, <1>2 DEF Exact, Shaped

\* No step leaves an index wrong that may be used.
LEMMA IndexStep == Exact(db) /\ [IndexNext]_indexVars => Exact(db')
<1> SUFFICES ASSUME Exact(db), [IndexNext]_indexVars  PROVE Exact(db')
  OBVIOUS
<1>1. ASSUME NEW i \in IxItems, NEW r, Commit(Stored(db, "items", i, r))  PROVE Exact(db')
  BY <1>1, ItemStored, StoredStaysUsable, Committed
<1>2. ASSUME NEW k \in IxDeliveries, NEW r, Commit(Stored(db, "deliveries", k, r))  PROVE Exact(db')
  BY <1>2, DeliveryStored, StoredStaysUsable, Committed
<1>3. ASSUME NEW i \in IxItems, NEW k \in IxDeliveries, NEW r, NEW q,
             \/ Commit(Stored(Stored(db, "deliveries", k, r), "items", i, q))
             \/ Commit(Stored(Stored(db, "items", i, q), "deliveries", k, r))
      PROVE  Exact(db')
  <2>1. CASE Commit(Stored(Stored(db, "deliveries", k, r), "items", i, q))
    <3>1. Exact(Stored(db, "deliveries", k, r))  BY DeliveryStored
    <3>2. Exact(Stored(Stored(db, "deliveries", k, r), "items", i, q))  BY <3>1, ItemStored
    <3>3. Usable(db) => Usable(Stored(Stored(db, "deliveries", k, r), "items", i, q))
      BY <3>1, StoredStaysUsable
    <3> QED  BY <2>1, <3>2, <3>3, Committed
  <2>2. CASE Commit(Stored(Stored(db, "items", i, q), "deliveries", k, r))
    <3>1. Exact(Stored(db, "items", i, q))  BY ItemStored
    <3>2. Exact(Stored(Stored(db, "items", i, q), "deliveries", k, r))  BY <3>1, DeliveryStored
    <3>3. Usable(db) => Usable(Stored(Stored(db, "items", i, q), "deliveries", k, r))
      BY <3>1, StoredStaysUsable
    <3> QED  BY <2>2, <3>2, <3>3, Committed
  <2> QED  BY <1>3, <2>1, <2>2
<1>4. ASSUME NEW i \in IxItems, WriteItem(i)  PROVE Exact(db')
  BY <1>1, <1>4 DEF WriteItem
<1>5. ASSUME NEW k \in IxDeliveries, WriteDelivery(k)  PROVE Exact(db')
  BY <1>2, <1>5 DEF WriteDelivery
<1>6. ASSUME NEW i \in IxItems, NEW k \in IxDeliveries, Prepare(i, k) \/ Settle(i, k)  PROVE Exact(db')
  <2>1. CASE Prepare(i, k)  BY <1>3, <2>1 DEF Prepare
  <2>2. CASE Settle(i, k)  BY <1>3, <2>2 DEF Settle
  <2> QED  BY <1>6, <2>1, <2>2
<1>7. CASE Purge
  BY <1>1, <1>3, <1>7 DEF Purge
<1>8. CASE ForeignChange
  <2>1. CASE \E i \in IxItems, r \in ItemRecords \cup {Malformed} :
               db' = [db EXCEPT !.items[i] = r, !.canonical = @ + 1]
    <3>1. PICK i \in IxItems, r \in ItemRecords \cup {Malformed} : db' = [db EXCEPT !.items[i] = r, !.canonical = @ + 1]
      BY <2>1
    <3>2. /\ db'.items = [db.items EXCEPT ![i] = r] /\ db'.deliveries = db.deliveries
          /\ db'.canonical = db.canonical + 1 /\ db'.indexed = db.indexed
          /\ db' = [f \in Fields |-> db'[f]]
      BY <3>1 DEF Exact, Shaped, Fields
    <3>3. Shaped(db')  BY <3>2 DEF Exact, Shaped
    <3>4. db'.indexed < db'.canonical  BY <3>2 DEF Exact, Shaped
    <3> QED  BY <3>3, <3>4 DEF Exact, Shaped, Usable
  <2>2. CASE db' = [db EXCEPT !.buckets = FALSE]
    BY <2>2 DEF Exact, Shaped, Fields, Usable
  <2>3. CASE db' = [db EXCEPT !.format = "obsolete"]
    BY <2>3 DEF Exact, Shaped, Fields, Usable
  <2> QED  BY <1>8, <2>1, <2>2, <2>3 DEF ForeignChange
<1>9. CASE Reopen
  <2>1. Exact(Reopened)
    <3>1. CASE db.format = "current"
      BY <3>1 DEF Reopened
    <3>2. CASE db.format # "current"
      <4> DEFINE s == [db EXCEPT !.format = "current", !.canonical = 0, !.indexed = Missing]
      <4>1. /\ s.items = db.items /\ s.deliveries = db.deliveries /\ s.canonical = 0 /\ s.indexed = -1
            /\ s = [f \in Fields |-> s[f]]
        BY DEF Exact, Shaped, Fields, Missing
      <4>2. Exact(s)
        <5> HIDE DEF s
        <5> QED  BY <4>1 DEF Exact, Shaped, Usable
      <4> QED  BY <3>2, <4>2 DEF Reopened
    <3> QED  BY <3>1, <3>2
  <2>2. Exact(Rebuilt(Reopened))  BY <2>1, RebuiltIsExact DEF Exact
  <2> QED  BY <1>9, <2>1, <2>2 DEF Reopen
<1>10. ASSUME NEW sinks, SetActiveSinks(sinks)  PROVE Exact(db')
  BY <1>10 DEF SetActiveSinks
<1>11. ASSUME NEW c \in Askers, StatsStep(c)  PROVE Exact(db')
  BY <1>11 DEF StatsStep, AskStats, ReadRevision, CheckCache, CountFromIndexes, CountFromScan,
               StoreStats, ReturnStats, Turn
<1>12. CASE UNCHANGED indexVars
  BY <1>12 DEF indexVars
<1> QED  BY <1>4, <1>5, <1>6, <1>7, <1>8, <1>9, <1>10, <1>11, <1>12 DEF IndexNext

\* Whatever the operations, other programs and restarts do, indexes that may
\* be used hold exactly the entries of the records (digest_index.go:
\* putDigestItem to deleteDigestDelivery, updateDigest, indexesUsableTx,
\* rebuildDigestIndexes).
THEOREM IndexesStayExact == IndexSpec => []IndexesAreExact
<1>1. IndexInit => IndexInv
  <2> SUFFICES ASSUME IndexInit  PROVE Exact(db)  BY DEF IndexInv
  <2>1. PICK it, dl : db = Rebuilt([items |-> [i \in IxItems |-> it],
                      deliveries |-> [k \in IxDeliveries |-> dl], entries |-> {}, format |-> "current",
                      buckets |-> FALSE, canonical |-> 0, indexed |-> Missing])
    BY DEF IndexInit
  <2> DEFINE d == [items |-> [i \in IxItems |-> it], deliveries |-> [k \in IxDeliveries |-> dl],
                   entries |-> {}, format |-> "current", buckets |-> FALSE, canonical |-> 0, indexed |-> Missing]
  <2>2. /\ d.items = [i \in IxItems |-> it] /\ d.deliveries = [k \in IxDeliveries |-> dl]
        /\ d.canonical = 0 /\ d.indexed = -1
    BY DEF Missing
  <2>3. d = [f \in Fields |-> d[f]]  BY DEF Fields
  <2>4. Shaped(d)
    <3> HIDE DEF d
    <3> QED  BY <2>2, <2>3 DEF Shaped
  <2>5. db = Rebuilt(d)  BY <2>1, Zenon
  <2> HIDE DEF d
  <2> QED  BY <2>4, <2>5, RebuiltIsExact
<1>2. IndexInv => IndexesAreExact  BY DEF IndexInv, Exact, IndexesAreExact
<1>3. IndexInv /\ [IndexNext]_indexVars => IndexInv'  BY IndexStep DEF IndexInv
<1> QED  BY <1>1, <1>2, <1>3, PTL DEF IndexSpec

-----------------------------------------------------------------------------
(* The statistics.                                                         *)

\* A record is there, missing or malformed, and a delivery has a reason
\* when it has expired.
ItemFields == {"state", "until", "expires", "at"}
GoodItem(r) == /\ r = [x \in ItemFields |-> r[x]] /\ r.at \in Nat
               /\ r.state = "none" => r = NoItem
               /\ r.state = "malformed" => r = Malformed
GoodDigest(r) == /\ r.state = "none" => r = NoDigest
                 /\ r.reason \in {"deadline", "max_attempts"} <=> r.state = "expired"
GoodRecords(d) == /\ \A i \in IxItems : GoodItem(d.items[i])
                  /\ \A k \in IxDeliveries : GoodDigest(d.deliveries[k])

\* An expiry at no time is none.
LEMMA LatestWithoutZero ==
  ASSUME NEW T \in SUBSET Nat, IsFiniteSet(T)
  PROVE  Latest(T) = Latest(T \ {0})
<1>1. ASSUME NEW S \in SUBSET Nat, IsFiniteSet(S), S # {}
      PROVE  Latest(S) \in S /\ \A u \in S : u <= Latest(S)
  BY <1>1, GreatestOf DEF Latest
<1>2. T \ {0} \in SUBSET Nat /\ IsFiniteSet(T \ {0})  BY FS_Subset
<1>3. CASE T \ {0} # {}
  <2> DEFINE a == Latest(T)
             b == Latest(T \ {0})
  <2>1. a \in T /\ \A u \in T : u <= a  BY <1>1, <1>3
  <2>2. b \in T \ {0} /\ \A u \in T \ {0} : u <= b  BY <1>1, <1>2, <1>3
  <2> HIDE DEF a, b
  <2>3. a \in Nat /\ b \in Nat /\ b # 0 /\ b <= a  BY <2>1, <2>2
  <2>4. a \in T \ {0}  BY <2>1, <2>3
  <2>5. a = b  BY <2>2, <2>3, <2>4
  <2> QED  BY <2>5 DEF a, b
<1>4. CASE T = {}  BY <1>4
<1>5. CASE T = {0}
  <2>1. Latest(T) \in T  BY <1>1, <1>5
  <2>2. T \ {0} = {}  BY <1>5
  <2>3. Latest(T \ {0}) = 0  BY <2>2, Zenon DEF Latest
  <2> QED  BY <1>5, <2>1, <2>3
<1> QED  BY <1>3, <1>4, <1>5

\* On records that can be read, exact indexes count what a scan counts.
LEMMA CountsAgree ==
  ASSUME NEW d, GoodRecords(d), Readable(d), d.entries = AllEntries(d)
  PROVE  IndexCounts(d) = ScanCounts(d)
<1> DEFINE of(name) == {e \in d.entries : e[1] = name}
<1>1. ASSUME NEW e
      PROVE  e \in d.entries <=> \/ \E i \in IxItems : e \in ItemEntries(d.items[i], i)
                                 \/ \E k \in IxDeliveries : e \in DeliveryEntries(d.deliveries[k], k)
  BY EntriesOfAll
<1>2. ASSUME NEW i \in IxItems
      PROVE  d.items[i].state \notin {"none", "malformed"} <=> d.items[i] # NoItem
  <2>1. d.items[i].state = "none" => d.items[i] = NoItem  BY DEF GoodRecords, GoodItem
  <2>2. d.items[i].state # "malformed"  BY DEF GoodRecords, GoodItem, Readable
  <2>3. NoItem.state = "none"  BY DEF NoItem
  <2> QED  BY <2>1, <2>2, <2>3
<1>3. ASSUME NEW k \in IxDeliveries
      PROVE  d.deliveries[k].state # "none" <=> d.deliveries[k] # NoDigest
  BY DEF GoodRecords, GoodDigest, NoDigest
<1>4. \A e : e \in of("itemState") <=>
        \E i \in IxItems : d.items[i] # NoItem /\ e = <<"itemState", d.items[i].state, i>>
  <2> SUFFICES ASSUME NEW e
               PROVE  e \in of("itemState") <=>
                        \E i \in IxItems : d.items[i] # NoItem /\ e = <<"itemState", d.items[i].state, i>>
    OBVIOUS
  <2>1. ASSUME NEW i \in IxItems
        PROVE  e \in ItemEntries(d.items[i], i) /\ e[1] = "itemState" <=>
                 d.items[i] # NoItem /\ e = <<"itemState", d.items[i].state, i>>
    BY <1>2 DEF ItemEntries
  <2>2. ASSUME NEW k \in IxDeliveries, e \in DeliveryEntries(d.deliveries[k], k)
        PROVE  e[1] # "itemState"
    BY <2>2 DEF DeliveryEntries, GoodRecords, GoodDigest
  <2>3. e \in of("itemState") <=> e \in d.entries /\ e[1] = "itemState"  OBVIOUS
  <2> HIDE DEF of
  <2> QED  BY <1>1, <2>1, <2>2, <2>3
<1>5. \A e : e \in of("ttlEnd") <=>
        \E i \in IxItems : d.items[i].state = "expired" /\ d.items[i].at # 0 /\ e = <<"ttlEnd", d.items[i].at, i>>
  <2> SUFFICES ASSUME NEW e
               PROVE  e \in of("ttlEnd") <=>
                 \E i \in IxItems : d.items[i].state = "expired" /\ d.items[i].at # 0 /\ e = <<"ttlEnd", d.items[i].at, i>>
    OBVIOUS
  <2>1. ASSUME NEW i \in IxItems
        PROVE  e \in ItemEntries(d.items[i], i) /\ e[1] = "ttlEnd" <=>
                 d.items[i].state = "expired" /\ d.items[i].at # 0 /\ e = <<"ttlEnd", d.items[i].at, i>>
    BY DEF ItemEntries
  <2>2. ASSUME NEW k \in IxDeliveries, e \in DeliveryEntries(d.deliveries[k], k)
        PROVE  e[1] # "ttlEnd"
    BY <2>2 DEF DeliveryEntries, GoodRecords, GoodDigest
  <2>3. e \in of("ttlEnd") <=> e \in d.entries /\ e[1] = "ttlEnd"  OBVIOUS
  <2> HIDE DEF of
  <2> QED  BY <1>1, <2>1, <2>2, <2>3
<1>6. \A e : e \in of("deliveryState") <=>
        \E k \in IxDeliveries : d.deliveries[k] # NoDigest /\ e = <<"deliveryState", d.deliveries[k].state, k>>
  <2> SUFFICES ASSUME NEW e
               PROVE  e \in of("deliveryState") <=>
                 \E k \in IxDeliveries : d.deliveries[k] # NoDigest /\ e = <<"deliveryState", d.deliveries[k].state, k>>
    OBVIOUS
  <2>1. ASSUME NEW k \in IxDeliveries
        PROVE  e \in DeliveryEntries(d.deliveries[k], k) /\ e[1] = "deliveryState" <=>
                 d.deliveries[k] # NoDigest /\ e = <<"deliveryState", d.deliveries[k].state, k>>
    BY <1>3 DEF DeliveryEntries, GoodRecords, GoodDigest
  <2>2. ASSUME NEW i \in IxItems, e \in ItemEntries(d.items[i], i)
        PROVE  e[1] # "deliveryState"
    BY <2>2 DEF ItemEntries
  <2>3. e \in of("deliveryState") <=> e \in d.entries /\ e[1] = "deliveryState"  OBVIOUS
  <2> HIDE DEF of
  <2> QED  BY <1>1, <2>1, <2>2, <2>3
<1>7. ASSUME NEW x \in {"deadline", "max_attempts"}
      PROVE  \A e : e \in of(x) <=>
               \E k \in IxDeliveries : d.deliveries[k].reason = x /\ e = <<x, d.deliveries[k].at, k>>
  <2> SUFFICES ASSUME NEW e
               PROVE  e \in of(x) <=>
                 \E k \in IxDeliveries : d.deliveries[k].reason = x /\ e = <<x, d.deliveries[k].at, k>>
    OBVIOUS
  <2>1. ASSUME NEW k \in IxDeliveries
        PROVE  e \in DeliveryEntries(d.deliveries[k], k) /\ e[1] = x <=>
                 d.deliveries[k].reason = x /\ e = <<x, d.deliveries[k].at, k>>
    <3>1. d.deliveries[k].reason \in {"deadline", "max_attempts"} <=> d.deliveries[k].state = "expired"
      BY DEF GoodRecords, GoodDigest
    <3> QED  BY <3>1 DEF DeliveryEntries
  <2>2. ASSUME NEW i \in IxItems, e \in ItemEntries(d.items[i], i)
        PROVE  e[1] # x
    BY <2>2 DEF ItemEntries
  <2>3. e \in of(x) <=> e \in d.entries /\ e[1] = x  OBVIOUS
  <2> HIDE DEF of
  <2> QED  BY <1>1, <2>1, <2>2, <2>3
<1> HIDE DEF of
<1>8. {<<e[2], e[3]>> : e \in of("itemState")} = {<<d.items[i].state, i>> : i \in {i \in IxItems : d.items[i] # NoItem}}
  <2>1. ASSUME NEW i \in IxItems, d.items[i] # NoItem
        PROVE  <<d.items[i].state, i>> \in {<<e[2], e[3]>> : e \in of("itemState")}
    <3>1. <<"itemState", d.items[i].state, i>> \in of("itemState")  BY <1>4, <2>1
    <3> QED  BY <3>1
  <2>2. ASSUME NEW e \in of("itemState")
        PROVE  \E i \in IxItems : d.items[i] # NoItem /\ <<e[2], e[3]>> = <<d.items[i].state, i>>
    <3>1. PICK i \in IxItems : d.items[i] # NoItem /\ e = <<"itemState", d.items[i].state, i>>  BY <1>4, <2>2
    <3>2. e[2] = d.items[i].state /\ e[3] = i  BY <3>1
    <3> QED  BY <3>1, <3>2
  <2> QED  BY <2>1, <2>2
<1>9. {<<e[2], e[3]>> : e \in of("deliveryState")}
        = {<<d.deliveries[k].state, k>> : k \in {k \in IxDeliveries : d.deliveries[k] # NoDigest}}
  <2>1. ASSUME NEW k \in IxDeliveries, d.deliveries[k] # NoDigest
        PROVE  <<d.deliveries[k].state, k>> \in {<<e[2], e[3]>> : e \in of("deliveryState")}
    <3>1. <<"deliveryState", d.deliveries[k].state, k>> \in of("deliveryState")  BY <1>6, <2>1
    <3> QED  BY <3>1
  <2>2. ASSUME NEW e \in of("deliveryState")
        PROVE  \E k \in IxDeliveries : d.deliveries[k] # NoDigest /\ <<e[2], e[3]>> = <<d.deliveries[k].state, k>>
    <3>1. PICK k \in IxDeliveries : d.deliveries[k] # NoDigest /\ e = <<"deliveryState", d.deliveries[k].state, k>>
      BY <1>6, <2>2
    <3>2. e[2] = d.deliveries[k].state /\ e[3] = k  BY <3>1
    <3> QED  BY <3>1, <3>2
  <2> QED  BY <2>1, <2>2
<1>10. PendingSinks(d, {e[3] : e \in of("deliveryState")}) = PendingSinks(d, IxDeliveries)
  <2>1. \A k : k \in {e[3] : e \in of("deliveryState")} <=> k \in IxDeliveries /\ d.deliveries[k].state # "none"
    <3>1. ASSUME NEW k \in IxDeliveries, d.deliveries[k] # NoDigest
          PROVE  k \in {e[3] : e \in of("deliveryState")}
      <4>1. <<"deliveryState", d.deliveries[k].state, k>> \in of("deliveryState")  BY <1>6, <3>1
      <4> QED  BY <4>1
    <3>2. ASSUME NEW e \in of("deliveryState")
          PROVE  e[3] \in IxDeliveries /\ d.deliveries[e[3]] # NoDigest
      <4>1. PICK k \in IxDeliveries : d.deliveries[k] # NoDigest /\ e = <<"deliveryState", d.deliveries[k].state, k>>
        BY <1>6, <3>2
      <4>2. e[3] = k  BY <4>1
      <4> QED  BY <4>1, <4>2
    <3> QED  BY <1>3, <3>1, <3>2
  <2> QED  BY <2>1 DEF PendingSinks
<1>11. Latest({e[2] : e \in of("ttlEnd")}) = Latest({d.items[i].at : i \in {i \in IxItems : d.items[i].state = "expired"}})
  <2> DEFINE I == {i \in IxItems : d.items[i].state = "expired"}
             T == {d.items[i].at : i \in I}
             E == {e[2] : e \in of("ttlEnd")}
  <2>1. E = T \ {0}
    <3>1. ASSUME NEW i \in I, d.items[i].at # 0  PROVE d.items[i].at \in E
      <4>1. <<"ttlEnd", d.items[i].at, i>> \in of("ttlEnd")  BY <1>5, <3>1
      <4> QED  BY <4>1
    <3>2. ASSUME NEW e \in of("ttlEnd")  PROVE e[2] \in T /\ e[2] # 0
      <4>1. PICK i \in IxItems : d.items[i].state = "expired" /\ d.items[i].at # 0 /\ e = <<"ttlEnd", d.items[i].at, i>>
        BY <1>5, <3>2
      <4>2. e[2] = d.items[i].at  BY <4>1
      <4> QED  BY <4>1, <4>2
    <3> QED  BY <3>1, <3>2
  <2>2. T \in SUBSET Nat  BY DEF GoodRecords, GoodItem
  <2>3. IsFiniteSet(T)
    <3>1. IsFiniteSet(I)  BY IndexAssumption, FS_Subset
    <3> DEFINE f == [i \in I |-> d.items[i].at]
    <3>2. f \in Surjection(I, T)  BY DEF Surjection
    <3> QED  BY <3>1, <3>2, FS_Surjection
  <2> HIDE DEF T, E
  <2>4. Latest(E) = Latest(T)  BY <2>1, <2>2, <2>3, LatestWithoutZero
  <2> QED  BY <2>4 DEF T, E
<1>12. ASSUME NEW x \in {"deadline", "max_attempts"}
       PROVE  {e[2] : e \in of(x)} = {d.deliveries[k].at : k \in {k \in IxDeliveries : d.deliveries[k].reason = x}}
  <2>1. ASSUME NEW k \in IxDeliveries, d.deliveries[k].reason = x
        PROVE  d.deliveries[k].at \in {e[2] : e \in of(x)}
    <3>1. <<x, d.deliveries[k].at, k>> \in of(x)  BY <1>7, <2>1
    <3> QED  BY <3>1
  <2>2. ASSUME NEW e \in of(x)
        PROVE  \E k \in IxDeliveries : d.deliveries[k].reason = x /\ e[2] = d.deliveries[k].at
    <3>1. PICK k \in IxDeliveries : d.deliveries[k].reason = x /\ e = <<x, d.deliveries[k].at, k>>
      BY <1>7, <2>2
    <3>2. e[2] = d.deliveries[k].at  BY <3>1
    <3> QED  BY <3>1, <3>2
  <2> QED  BY <2>1, <2>2
<1>13. [x \in {"deadline", "max_attempts"} |-> Latest({e[2] : e \in of(x)})]
        = [x \in {"deadline", "max_attempts"} |->
             Latest({d.deliveries[k].at : k \in {k \in IxDeliveries : d.deliveries[k].reason = x}})]
  BY <1>12, Zenon
<1>14. IndexCounts(d) = [items |-> {<<e[2], e[3]>> : e \in of("itemState")},
      deliveries |-> {<<e[2], e[3]>> : e \in of("deliveryState")},
      pending |-> PendingSinks(d, {e[3] : e \in of("deliveryState")}),
      ttlEnd |-> Latest({e[2] : e \in of("ttlEnd")}),
      ends |-> [x \in {"deadline", "max_attempts"} |-> Latest({e[2] : e \in of(x)})]]
  BY Zenon DEF IndexCounts, of
<1> QED  BY <1>8, <1>9, <1>10, <1>11, <1>13, <1>14, Zenon DEF ScanCounts

\* A data base whose indexes are exact, and are not used on records that
\* cannot be read.
Sound(d) == /\ Exact(d) /\ GoodRecords(d) /\ d.canonical \in Nat
            /\ Usable(d) => Readable(d)

LEMMA TimesAreNumbers == \A x : x \in {0} \/ x \in Times \cup {0} => x \in Nat
<1> SUFFICES ASSUME NEW x, x \in Times \/ x = 0  PROVE x \in Nat  OBVIOUS
<1>1. CASE x \in Times
  <2>1. Times \subseteq Nat  BY IndexAssumption
  <2> QED  BY <1>1, <2>1
<1>2. CASE x = 0  BY <1>2
<1> QED  BY <1>1, <1>2

LEMMA RecordsAreGood ==
  /\ \A r \in ItemRecords : GoodItem(r) /\ r # Malformed
  /\ GoodItem(NoItem) /\ NoItem # Malformed /\ GoodItem(Malformed)
  /\ \A r \in DigestRecords \cup {NoDigest} : GoodDigest(r)
<1>1. ASSUME NEW r \in ItemRecords  PROVE GoodItem(r) /\ r # Malformed
  <2>0. \/ r \in [state : {"pending"}, until : {0}, expires : Times, at : {0}]
        \/ r \in [state : {"leased"}, until : Times, expires : Times, at : {0}]
        \/ r \in [state : {"delivering", "acked"}, until : {0}, expires : Times, at : {0}]
        \/ r \in [state : {"expired"}, until : {0}, expires : Times, at : Times \cup {0}]
    BY Zenon DEF ItemRecords
  <2>1. r = [x \in ItemFields |-> r[x]]
    <3>1. ASSUME NEW S, NEW U, NEW E, NEW A, r \in [state : S, until : U, expires : E, at : A]
          PROVE  r = [x \in ItemFields |-> r[x]]
      BY <3>1 DEF ItemFields
    <3> QED  BY <2>0, <3>1
  <2>2. r.at \in Nat
    <3>1. ASSUME NEW S, NEW U, NEW E, NEW A, r \in [state : S, until : U, expires : E, at : A]
          PROVE  r.at \in A
      BY <3>1
    <3>2. r.at \in {0} \/ r.at \in Times \cup {0}  BY <2>0, <3>1, Zenon
    <3> QED  BY <3>2, TimesAreNumbers, Zenon
  <2>3. r.state \notin {"none", "malformed"}  BY DEF ItemRecords
  <2>4. Malformed.state = "malformed"  BY DEF Malformed, NoItem
  <2> QED  BY <2>1, <2>2, <2>3, <2>4 DEF GoodItem
<1>2. GoodItem(NoItem) /\ NoItem # Malformed /\ GoodItem(Malformed)
  <2>1. NoItem.state = "none" /\ Malformed.state = "malformed" /\ NoItem.at = 0 /\ Malformed.at = 0
    BY DEF NoItem, Malformed
  <2>2. NoItem = [x \in ItemFields |-> NoItem[x]] /\ Malformed = [x \in ItemFields |-> Malformed[x]]
    BY DEF NoItem, Malformed, ItemFields
  <2> QED  BY <2>1, <2>2 DEF GoodItem
<1>3. ASSUME NEW r \in DigestRecords  PROVE GoodDigest(r)
  BY DEF DigestRecords, GoodDigest
<1>4. GoodDigest(NoDigest)  BY DEF NoDigest, GoodDigest
<1> QED  BY <1>1, <1>2, <1>3, <1>4

\* An item that moves on to another state is a record still.
LEMMA NextItem ==
  ASSUME NEW r, GoodItem(r), NEW s \in {"delivering", "acked", "expired"}
  PROVE  /\ GoodItem([r EXCEPT !.state = s]) /\ [r EXCEPT !.state = s] # Malformed
         /\ GoodItem([r EXCEPT !.state = s, !.until = 0]) /\ [r EXCEPT !.state = s, !.until = 0] # Malformed
<1>1. Malformed.state = "malformed"  BY DEF Malformed, NoItem
<1>2. r = [x \in ItemFields |-> r[x]] /\ r.at \in Nat  BY DEF GoodItem
<1>3. PICK q : q = [r EXCEPT !.state = s]  OBVIOUS
<1>4. q = [x \in ItemFields |-> q[x]] /\ q.at = r.at /\ q.state = s  BY <1>2, <1>3 DEF ItemFields
<1>5. PICK u : u = [r EXCEPT !.state = s, !.until = 0]  OBVIOUS
<1>6. u = [x \in ItemFields |-> u[x]] /\ u.at = r.at /\ u.state = s  BY <1>2, <1>5 DEF ItemFields
<1>7. GoodItem(q) /\ q # Malformed  BY <1>1, <1>2, <1>4 DEF GoodItem
<1>8. GoodItem(u) /\ u # Malformed  BY <1>1, <1>2, <1>6 DEF GoodItem
<1> QED  BY <1>3, <1>5, <1>7, <1>8

LEMMA SoundItem ==
  ASSUME NEW d, Sound(d), NEW i \in IxItems, NEW r, GoodItem(r), r # Malformed
  PROVE  LET s == Stored(d, "items", i, r)
         IN Sound(s) /\ s.canonical = d.canonical + 1 /\ (Usable(d) => Usable(s))
            /\ s.items[i] = r /\ s.deliveries = d.deliveries
            /\ \A j \in IxItems : j # i => s.items[j] = d.items[j]
<1>1. PICK s : s = Stored(d, "items", i, r)  OBVIOUS
<1>2. Exact(s)  BY <1>1, ItemStored DEF Sound
<1>3. Usable(d) => Usable(s)  BY <1>1, StoredStaysUsable DEF Sound
<1>4. /\ s.items = [d.items EXCEPT ![i] = r] /\ s.deliveries = d.deliveries
      /\ s.canonical = d.canonical + 1 /\ s.format = d.format /\ s.buckets = d.buckets
      /\ s.indexed = (IF Usable(d) THEN d.canonical + 1 ELSE d.indexed)
  BY <1>1 DEF Stored, Sound, Exact, Shaped, Fields
<1>5. s.items[i] = r /\ \A j \in IxItems : j # i => s.items[j] = d.items[j]
  BY <1>4 DEF Sound, Exact, Shaped
<1>6. GoodRecords(s)  BY <1>4, <1>5 DEF Sound, GoodRecords
<1>7. Usable(s) => Readable(s)
  <2>1. Usable(s) => Usable(d)  BY <1>4 DEF Usable, Sound, Exact, Shaped
  <2> QED  BY <2>1, <1>5 DEF Sound, Readable
<1> QED  BY <1>1, <1>2, <1>3, <1>4, <1>5, <1>6, <1>7 DEF Sound

LEMMA SoundDigest ==
  ASSUME NEW d, Sound(d), NEW k \in IxDeliveries, NEW r, GoodDigest(r)
  PROVE  LET s == Stored(d, "deliveries", k, r)
         IN Sound(s) /\ s.canonical = d.canonical + 1 /\ (Usable(d) => Usable(s)) /\ s.items = d.items
<1>1. PICK s : s = Stored(d, "deliveries", k, r)  OBVIOUS
<1>2. Exact(s)  BY <1>1, DeliveryStored DEF Sound
<1>3. Usable(d) => Usable(s)  BY <1>1, StoredStaysUsable DEF Sound
<1>4. /\ s.deliveries = [d.deliveries EXCEPT ![k] = r] /\ s.items = d.items
      /\ s.canonical = d.canonical + 1 /\ s.format = d.format /\ s.buckets = d.buckets
      /\ s.indexed = (IF Usable(d) THEN d.canonical + 1 ELSE d.indexed)
  BY <1>1 DEF Stored, Sound, Exact, Shaped, Fields
<1>5. s.deliveries[k] = r /\ \A j \in IxDeliveries : j # k => s.deliveries[j] = d.deliveries[j]
  BY <1>4 DEF Sound, Exact, Shaped
<1>6. GoodRecords(s)  BY <1>4, <1>5 DEF Sound, GoodRecords
<1>7. Usable(s) => Readable(s)
  <2>1. Usable(s) => Usable(d)  BY <1>4 DEF Usable, Sound, Exact, Shaped
  <2> QED  BY <2>1, <1>4 DEF Sound, Readable
<1> QED  BY <1>1, <1>2, <1>3, <1>4, <1>6, <1>7 DEF Sound

AskFields == {"at", "gen", "rev", "sinks", "counts", "seen", "actives"}
CacheFields == {"valid", "gen", "rev", "sinks", "counts"}

\* What was counted under a generation belongs to one state of the records,
\* which every caller that asked in that generation has seen.
CountsStamp(g, counts) ==
  g # Missing => /\ g \in Nat /\ g <= db.canonical
                 /\ g = db.canonical => counts = ScanCounts(db)
                 /\ \A c \in Askers : askers[c].at \in {"asked", "checking"} /\ askers[c].gen = g =>
                      counts \in askers[c].seen
\* What was noted under a revision belongs to one set of active sinks.
SinksStamp(v, sinks) ==
  /\ v \in Nat /\ v <= configured.rev
  /\ v = configured.rev => sinks = configured.sinks
  /\ \A c \in Askers : askers[c].at = "checking" /\ askers[c].rev = v => sinks \in askers[c].actives

Attentive(r) ==
  /\ r = [x \in AskFields |-> r[x]]
  /\ r.at # "rest" => ScanCounts(db) \in r.seen /\ configured.sinks \in r.actives
  /\ r.at \in {"missed", "scanning", "counted", "answered"} => r.sinks \in r.actives
  /\ r.at \in {"counted", "answered"} => r.counts \in r.seen
Stamped(r) == /\ r.at = "counted" => CountsStamp(r.gen, r.counts)
              /\ r.at \in {"missed", "scanning", "counted"} => SinksStamp(r.rev, r.sinks)

StatsInv ==
  /\ Sound(db) /\ configured.rev \in Nat
  /\ askers = [c \in Askers |-> askers[c]] /\ cache = [x \in CacheFields |-> cache[x]]
  /\ \A c \in Askers : Attentive(askers[c]) /\ Stamped(askers[c])
  /\ cache.valid => CountsStamp(cache.gen, cache.counts) /\ SinksStamp(cache.rev, cache.sinks)

\* The callers witness what becomes of the records and of the active sinks;
\* the stamps stay good, for a change of either is a new generation or a
\* new revision.
LEMMA WitnessKeeps ==
  ASSUME StatsInv, Sound(db'),
         db'.canonical >= db.canonical, db'.canonical = db.canonical => ScanCounts(db') = ScanCounts(db),
         configured' = configured \/ configured'.rev = configured.rev + 1,
         askers' = Witness(db', configured'.sinks),
         cache' = cache \/ cache' = [cache EXCEPT !.valid = FALSE]
  PROVE  StatsInv'
<1>1. ASSUME NEW c \in Askers, askers[c].at # "rest"
      PROVE  /\ askers'[c] = [x \in AskFields |-> askers'[c][x]]
             /\ askers'[c].at = askers[c].at /\ askers'[c].gen = askers[c].gen /\ askers'[c].rev = askers[c].rev
             /\ askers'[c].sinks = askers[c].sinks /\ askers'[c].counts = askers[c].counts
             /\ askers'[c].seen = askers[c].seen \cup {ScanCounts(db')}
             /\ askers'[c].actives = askers[c].actives \cup {configured'.sinks}
  <2>1. PICK a : a = askers[c]  OBVIOUS
  <2>2. PICK n : n = ScanCounts(db')  OBVIOUS
  <2>3. PICK s : s = configured'.sinks  OBVIOUS
  <2>4. askers'[c] = [a EXCEPT !.seen = @ \cup {n}, !.actives = @ \cup {s}]
    BY <1>1, <2>1, <2>2, <2>3 DEF Witness
  <2>5. a = [x \in AskFields |-> a[x]]  BY <2>1 DEF StatsInv, Attentive
  <2> QED  BY <2>1, <2>2, <2>3, <2>4, <2>5 DEF AskFields
<1>2. ASSUME NEW c \in Askers, askers[c].at = "rest"
      PROVE  askers'[c] = [x \in AskFields |-> askers'[c][x]] /\ askers'[c].at = "rest"
  <2>1. askers'[c] = Resting  BY <1>2 DEF Witness
  <2> QED  BY <2>1 DEF Resting, AskFields
<1>3. askers' = [c \in Askers |-> askers'[c]]  BY DEF Witness
<1>4. ASSUME NEW g, NEW n, CountsStamp(g, n)  PROVE CountsStamp(g, n)'
  <2>1. db.canonical \in Nat /\ db'.canonical \in Nat  BY DEF StatsInv, Sound
  <2>2. ASSUME g # Missing
        PROVE  g \in Nat /\ g <= db.canonical /\ (g = db.canonical => n = ScanCounts(db))
    BY <1>4, <2>2 DEF CountsStamp
  <2>3. ASSUME g # Missing, NEW c \in Askers, askers'[c].at \in {"asked", "checking"}, askers'[c].gen = g
        PROVE  n \in askers'[c].seen
    <3>1. askers[c].at # "rest"  BY <1>2, <2>3
    <3>2. n \in askers[c].seen  BY <1>1, <1>4, <2>3, <3>1 DEF CountsStamp
    <3> QED  BY <1>1, <3>1, <3>2
  <2>4. ASSUME g # Missing  PROVE g <= db'.canonical /\ (g = db'.canonical => n = ScanCounts(db'))
    BY <2>1, <2>2, <2>4
  <2> QED  BY <2>2, <2>3, <2>4 DEF CountsStamp
<1>5. ASSUME NEW v, NEW s, SinksStamp(v, s)  PROVE SinksStamp(v, s)'
  <2>1. configured.rev \in Nat  BY DEF StatsInv
  <2>2. v \in Nat /\ v <= configured'.rev /\ (v = configured'.rev => s = configured'.sinks)
    BY <1>5, <2>1 DEF SinksStamp
  <2>3. ASSUME NEW c \in Askers, askers'[c].at = "checking", askers'[c].rev = v
        PROVE  s \in askers'[c].actives
    <3>1. askers[c].at # "rest"  BY <1>2, <2>3
    <3>2. s \in askers[c].actives  BY <1>1, <1>5, <2>3, <3>1 DEF SinksStamp
    <3> QED  BY <1>1, <3>1, <3>2
  <2> QED  BY <2>2, <2>3 DEF SinksStamp
<1>6. ASSUME NEW c \in Askers  PROVE Attentive(askers[c])' /\ Stamped(askers[c])'
  <2>1. CASE askers[c].at = "rest"  BY <1>2, <2>1 DEF Attentive, Stamped
  <2>2. CASE askers[c].at # "rest"
    <3>1. Attentive(askers[c]) /\ Stamped(askers[c])  BY DEF StatsInv
    <3>2. Attentive(askers[c])'  BY <1>1, <2>2, <3>1 DEF Attentive
    <3>3. PICK a : a = askers[c]  OBVIOUS
    <3>4. PICK b : b = askers'[c]  OBVIOUS
    <3>5. b.at = a.at /\ b.gen = a.gen /\ b.counts = a.counts /\ b.rev = a.rev /\ b.sinks = a.sinks
      BY <1>1, <2>2, <3>3, <3>4
    <3>6. a.at = "counted" => CountsStamp(a.gen, a.counts)'  BY <1>4, <3>1, <3>3 DEF Stamped
    <3>7. a.at \in {"missed", "scanning", "counted"} => SinksStamp(a.rev, a.sinks)'
      BY <1>5, <3>1, <3>3 DEF Stamped
    <3>8. Stamped(b)'  BY <3>5, <3>6, <3>7 DEF Stamped
    <3> QED  BY <3>2, <3>4, <3>8 DEF Stamped
  <2> QED  BY <2>1, <2>2
<1>7. configured'.rev \in Nat  BY DEF StatsInv
<1>8. cache' = [x \in CacheFields |-> cache'[x]] /\ (cache'.valid => cache' = cache)
  BY DEF StatsInv, CacheFields
<1>9. cache'.valid => CountsStamp(cache.gen, cache.counts)' /\ SinksStamp(cache.rev, cache.sinks)'
  <2> SUFFICES ASSUME cache'.valid  PROVE CountsStamp(cache.gen, cache.counts)' /\ SinksStamp(cache.rev, cache.sinks)'
    OBVIOUS
  <2>1. PICK k : k = cache  OBVIOUS
  <2>2. k = cache'  BY <1>8, <2>1
  <2>3. CountsStamp(k.gen, k.counts) /\ SinksStamp(k.rev, k.sinks)  BY <1>8, <2>1, <2>2 DEF StatsInv
  <2>4. CountsStamp(k.gen, k.counts)' /\ SinksStamp(k.rev, k.sinks)'  BY <1>4, <1>5, <2>3
  <2> QED  BY <2>2, <2>4 DEF CountsStamp, SinksStamp
<1> QED  BY <1>3, <1>6, <1>7, <1>8, <1>9 DEF StatsInv

\* A transaction brings the data base it has made.
LEMMA CommitKeeps ==
  ASSUME StatsInv, NEW d, Sound(d), d.canonical > db.canonical, Usable(db) => Usable(d), Commit(d)
  PROVE  StatsInv'
<1>1. db' = d
  <2>1. CASE Maintains(db)
    <3>1. db' = [d EXCEPT !.indexed = d.canonical] /\ Usable(d)  BY <2>1 DEF Commit, Maintains
    <3> QED  BY <3>1 DEF Sound, Exact, Shaped, Fields, Usable
  <2>2. CASE ~ Maintains(db)  BY <2>2 DEF Commit
  <2> QED  BY <2>1, <2>2
<1>2. db'.canonical >= db.canonical /\ db'.canonical # db.canonical  BY <1>1 DEF StatsInv, Sound
<1>3. configured' = configured /\ cache' = cache /\ askers' = Witness(db', configured'.sinks)
  BY DEF Commit
<1> QED  BY <1>1, <1>2, <1>3, WitnessKeeps

LEMMA CommitItem ==
  ASSUME StatsInv, NEW i \in IxItems, NEW r, GoodItem(r), r # Malformed, Commit(Stored(db, "items", i, r))
  PROVE  StatsInv'
<1>1. PICK d : d = Stored(db, "items", i, r)  OBVIOUS
<1>2. Sound(d) /\ d.canonical = db.canonical + 1 /\ (Usable(db) => Usable(d))  BY <1>1, SoundItem DEF StatsInv
<1>3. d.canonical > db.canonical  BY <1>2 DEF StatsInv, Sound
<1> QED  BY <1>1, <1>2, <1>3, CommitKeeps

LEMMA CommitDigest ==
  ASSUME StatsInv, NEW k \in IxDeliveries, NEW r, GoodDigest(r), Commit(Stored(db, "deliveries", k, r))
  PROVE  StatsInv'
<1>1. PICK d : d = Stored(db, "deliveries", k, r)  OBVIOUS
<1>2. Sound(d) /\ d.canonical = db.canonical + 1 /\ (Usable(db) => Usable(d))  BY <1>1, SoundDigest DEF StatsInv
<1>3. d.canonical > db.canonical  BY <1>2 DEF StatsInv, Sound
<1> QED  BY <1>1, <1>2, <1>3, CommitKeeps

LEMMA CommitBoth ==
  ASSUME StatsInv, NEW i \in IxItems, NEW k \in IxDeliveries, NEW r, GoodDigest(r),
         NEW q, GoodItem(q), q # Malformed,
         \/ Commit(Stored(Stored(db, "deliveries", k, r), "items", i, q))
         \/ Commit(Stored(Stored(db, "items", i, q), "deliveries", k, r))
  PROVE  StatsInv'
<1>0. Sound(db) /\ db.canonical \in Nat  BY DEF StatsInv, Sound
<1>1. CASE Commit(Stored(Stored(db, "deliveries", k, r), "items", i, q))
  <2>1. PICK d : d = Stored(db, "deliveries", k, r)  OBVIOUS
  <2>2. Sound(d) /\ d.canonical = db.canonical + 1 /\ (Usable(db) => Usable(d))  BY <1>0, <2>1, SoundDigest
  <2>3. PICK e : e = Stored(d, "items", i, q)  OBVIOUS
  <2>4. Sound(e) /\ e.canonical = d.canonical + 1 /\ (Usable(d) => Usable(e))  BY <2>2, <2>3, SoundItem
  <2>5. e.canonical > db.canonical  BY <1>0, <2>2, <2>4
  <2> QED  BY <1>1, <2>1, <2>2, <2>3, <2>4, <2>5, CommitKeeps
<1>2. CASE Commit(Stored(Stored(db, "items", i, q), "deliveries", k, r))
  <2>1. PICK d : d = Stored(db, "items", i, q)  OBVIOUS
  <2>2. Sound(d) /\ d.canonical = db.canonical + 1 /\ (Usable(db) => Usable(d))  BY <1>0, <2>1, SoundItem
  <2>3. PICK e : e = Stored(d, "deliveries", k, r)  OBVIOUS
  <2>4. Sound(e) /\ e.canonical = d.canonical + 1 /\ (Usable(d) => Usable(e))  BY <2>2, <2>3, SoundDigest
  <2>5. e.canonical > db.canonical  BY <1>0, <2>2, <2>4
  <2> QED  BY <1>2, <2>1, <2>2, <2>3, <2>4, <2>5, CommitKeeps
<1> QED  BY <1>1, <1>2

\* Another program's record leaves the counters apart.
LEMMA ForeignKeeps == ASSUME StatsInv, ForeignChange  PROVE StatsInv'
<1>1. configured' = configured /\ cache' = cache /\ askers' = Witness(db', configured'.sinks)
  BY DEF ForeignChange
<1>2. Sound(db)  BY DEF StatsInv
<1>3. CASE \E i \in IxItems, r \in ItemRecords \cup {Malformed} : db' = [db EXCEPT !.items[i] = r, !.canonical = @ + 1]
  <2>1. PICK i \in IxItems, r \in ItemRecords \cup {Malformed} : db' = [db EXCEPT !.items[i] = r, !.canonical = @ + 1]
    BY <1>3
  <2>2. /\ db'.items = [db.items EXCEPT ![i] = r] /\ db'.deliveries = db.deliveries
        /\ db'.canonical = db.canonical + 1 /\ db'.indexed = db.indexed
        /\ db' = [f \in Fields |-> db'[f]]
    BY <1>2, <2>1 DEF Sound, Exact, Shaped, Fields
  <2>3. db'.indexed < db'.canonical /\ db'.canonical \in Nat  BY <1>2, <2>2 DEF Sound, Exact, Shaped
  <2>4. Exact(db') /\ ~ Usable(db')  BY <1>2, <2>2, <2>3 DEF Sound, Exact, Shaped, Usable
  <2>5. GoodItem(r)  BY <2>1, RecordsAreGood
  <2>6. \A j \in IxItems : db'.items[j] = IF j = i THEN r ELSE db.items[j]
    BY <1>2, <2>2 DEF Sound, Exact, Shaped
  <2>7. GoodRecords(db')  BY <1>2, <2>2, <2>5, <2>6 DEF Sound, GoodRecords
  <2>8. Sound(db')  BY <2>3, <2>4, <2>7 DEF Sound
  <2>9. db'.canonical >= db.canonical /\ db'.canonical # db.canonical  BY <1>2, <2>2 DEF Sound
  <2> QED  BY <1>1, <2>8, <2>9, WitnessKeeps
<1>4. CASE db' = [db EXCEPT !.buckets = FALSE] \/ db' = [db EXCEPT !.format = "obsolete"]
  <2>1. /\ db'.items = db.items /\ db'.deliveries = db.deliveries /\ db'.entries = db.entries
        /\ db'.canonical = db.canonical /\ db'.indexed = db.indexed
        /\ db' = [f \in Fields |-> db'[f]] /\ ~ Usable(db')
    BY <1>2, <1>4 DEF Sound, Exact, Shaped, Fields, Usable
  <2>2. Sound(db')  BY <1>2, <2>1 DEF Sound, Exact, Shaped, GoodRecords
  <2>3. ScanCounts(db') = ScanCounts(db)  BY <2>1 DEF ScanCounts, PendingSinks
  <2>4. db'.canonical >= db.canonical  BY <1>2, <2>1 DEF Sound
  <2> QED  BY <1>1, <2>2, <2>3, <2>4, WitnessKeeps
<1> QED  BY <1>3, <1>4 DEF ForeignChange

\* The store is opened: nobody is asking, and what is cached was counted.
LEMMA ReopenKeeps == ASSUME StatsInv, Reopen  PROVE StatsInv'
<1>1. Sound(db)  BY DEF StatsInv
<1>2. PICK e : e = Reopened  OBVIOUS
<1>3. /\ e.items = db.items /\ e.deliveries = db.deliveries /\ e.canonical \in Nat /\ Exact(e)
      /\ Usable(e) => Readable(e)
  <2>1. CASE db.format = "current"  BY <1>1, <1>2, <2>1 DEF Reopened, Sound
  <2>2. CASE db.format # "current"
    <3>1. e = [db EXCEPT !.format = "current", !.canonical = 0, !.indexed = Missing]  BY <1>2, <2>2 DEF Reopened
    <3>2. /\ e.items = db.items /\ e.deliveries = db.deliveries /\ e.canonical = 0 /\ e.indexed = -1
          /\ e = [f \in Fields |-> e[f]]
      BY <1>1, <3>1 DEF Sound, Exact, Shaped, Fields, Missing
    <3> QED  BY <1>1, <3>2 DEF Sound, Exact, Shaped, Usable
  <2> QED  BY <2>1, <2>2
<1>4. GoodRecords(e)  BY <1>1, <1>3 DEF Sound, GoodRecords
<1>5. configured'.rev = 0 /\ configured'.sinks = {} /\ askers' = [c \in Askers |-> Resting]
  BY DEF Reopen
<1>6. \A c \in Askers : askers'[c] = [x \in AskFields |-> askers'[c][x]] /\ askers'[c].at = "rest"
  BY <1>5 DEF Resting, AskFields
<1>7. \A c \in Askers : Attentive(askers[c])' /\ Stamped(askers[c])'
  BY <1>6 DEF Attentive, Stamped
<1>8. CASE ~ Readable(db)
  <2>1. db' = e /\ cache' = NoCache  BY <1>2, <1>8 DEF Reopen
  <2>2. cache' = [x \in CacheFields |-> cache'[x]] /\ ~ cache'.valid  BY <2>1 DEF NoCache, CacheFields
  <2> QED  BY <1>3, <1>4, <1>5, <1>7, <2>1, <2>2 DEF StatsInv, Sound
<1>9. CASE Readable(db)
  <2>1. db' = Rebuilt(e) /\ cache' = [NoCache EXCEPT !.valid = TRUE, !.gen = db'.canonical, !.counts = IndexCounts(db')]
    BY <1>2, <1>9 DEF Reopen
  <2>2. Exact(db')  BY <1>3, <2>1, RebuiltIsExact DEF Exact
  <2>3. /\ db'.items = e.items /\ db'.deliveries = e.deliveries /\ db'.canonical = e.canonical
        /\ db'.entries = AllEntries(e)
    BY <1>3, <2>1 DEF Rebuilt, Exact, Shaped, Fields
  <2>4. GoodRecords(db') /\ Readable(db')  BY <1>3, <1>4, <1>9, <2>3 DEF GoodRecords, Readable
  <2>5. Sound(db')  BY <1>3, <2>2, <2>3, <2>4 DEF Sound
  <2>6. db'.entries = AllEntries(db')  BY <2>3 DEF AllEntries
  <2>7. IndexCounts(db') = ScanCounts(db')  BY <2>4, <2>6, CountsAgree
  <2>8. PICK n : n = IndexCounts(db')  OBVIOUS
  <2>9. PICK g : g = db'.canonical  OBVIOUS
  <2>10. cache' = [NoCache EXCEPT !.valid = TRUE, !.gen = g, !.counts = n]  BY <2>1, <2>8, <2>9
  <2>11. /\ cache' = [x \in CacheFields |-> cache'[x]] /\ cache'.gen = g /\ cache'.counts = n
         /\ cache'.rev = 0 /\ cache'.sinks = {}
    BY <2>10 DEF NoCache, CacheFields
  <2>12. CountsStamp(cache.gen, cache.counts)'
    <3>1. cache'.gen = db'.canonical /\ cache'.counts = ScanCounts(db')  BY <2>7, <2>8, <2>9, <2>11
    <3>2. db'.canonical \in Nat  BY <1>3, <2>3
    <3>3. \A c \in Askers : ~ (askers'[c].at \in {"asked", "checking"})  BY <1>6
    <3> QED  BY <3>1, <3>2, <3>3 DEF CountsStamp
  <2>13. SinksStamp(cache.rev, cache.sinks)'  BY <1>5, <1>6, <2>11 DEF SinksStamp
  <2> QED  BY <1>5, <1>7, <2>5, <2>11, <2>12, <2>13 DEF StatsInv
<1> QED  BY <1>8, <1>9

\* A caller's turn leaves the records and the active sinks alone.
LEMMA TurnKeeps ==
  ASSUME StatsInv, NEW c \in Askers, NEW r, Turn(c, r), Attentive(r), Stamped(r),
         r.at \in {"asked", "checking"} =>
           \/ r.gen \in {Missing, db.canonical}
           \/ askers[c].at \in {"asked", "checking"} /\ r.gen = askers[c].gen /\ r.seen = askers[c].seen,
         r.at = "checking" => r.rev = configured.rev,
         cache' = [x \in CacheFields |-> cache'[x]],
         cache'.valid => \/ cache' = cache
                         \/ CountsStamp(cache'.gen, cache'.counts) /\ SinksStamp(cache'.rev, cache'.sinks)
  PROVE  StatsInv'
<1>1. db' = db /\ configured' = configured /\ askers' = [askers EXCEPT ![c] = r]  BY DEF Turn
<1>2. /\ askers' = [d \in Askers |-> askers'[d]] /\ askers'[c] = r
      /\ \A d \in Askers : d # c => askers'[d] = askers[d]
  BY <1>1 DEF StatsInv
<1>3. ASSUME NEW g, NEW n, CountsStamp(g, n)  PROVE CountsStamp(g, n)'
  <2>1. ASSUME g # Missing, NEW d \in Askers, askers'[d].at \in {"asked", "checking"}, askers'[d].gen = g
        PROVE  n \in askers'[d].seen
    <3>1. CASE d # c  BY <1>2, <1>3, <2>1, <3>1 DEF CountsStamp
    <3>2. CASE d = c /\ r.gen \in {Missing, db.canonical}
      <4>1. g = db.canonical /\ n = ScanCounts(db)  BY <1>2, <1>3, <2>1, <3>2 DEF CountsStamp
      <4> QED  BY <1>2, <2>1, <3>2, <4>1 DEF Attentive
    <3>3. CASE d = c /\ askers[c].at \in {"asked", "checking"} /\ r.gen = askers[c].gen /\ r.seen = askers[c].seen
      BY <1>2, <1>3, <2>1, <3>3 DEF CountsStamp
    <3> QED  BY <1>2, <2>1, <3>1, <3>2, <3>3
  <2>2. g # Missing => g \in Nat /\ g <= db.canonical /\ (g = db.canonical => n = ScanCounts(db))
    BY <1>3 DEF CountsStamp
  <2> QED  BY <1>1, <2>1, <2>2 DEF CountsStamp
<1>4. ASSUME NEW v, NEW s, SinksStamp(v, s)  PROVE SinksStamp(v, s)'
  <2>1. ASSUME NEW d \in Askers, askers'[d].at = "checking", askers'[d].rev = v
        PROVE  s \in askers'[d].actives
    <3>1. CASE d # c  BY <1>2, <1>4, <2>1, <3>1 DEF SinksStamp
    <3>2. CASE d = c
      <4>1. v = configured.rev /\ s = configured.sinks  BY <1>2, <1>4, <2>1, <3>2 DEF SinksStamp
      <4> QED  BY <1>2, <2>1, <3>2, <4>1 DEF Attentive
    <3> QED  BY <3>1, <3>2
  <2> QED  BY <1>1, <1>4, <2>1 DEF SinksStamp
<1>5. ASSUME NEW q, Attentive(q), Stamped(q)  PROVE Attentive(q)' /\ Stamped(q)'
  <2>1. Attentive(q)'  BY <1>1, <1>5 DEF Attentive
  <2>2. Stamped(q)'  BY <1>3, <1>4, <1>5 DEF Stamped
  <2> QED  BY <2>1, <2>2
<1>6. ASSUME NEW d \in Askers  PROVE Attentive(askers[d])' /\ Stamped(askers[d])'
  <2>1. PICK q : q = IF d = c THEN r ELSE askers[d]  OBVIOUS
  <2>2. q = askers'[d]  BY <1>2, <2>1
  <2>3. Attentive(q) /\ Stamped(q)  BY <2>1 DEF StatsInv
  <2>4. Attentive(q)' /\ Stamped(q)'  BY <1>5, <2>3
  <2> QED  BY <2>2, <2>4 DEF Attentive, Stamped, CountsStamp, SinksStamp
<1>7. cache'.valid => CountsStamp(cache.gen, cache.counts)' /\ SinksStamp(cache.rev, cache.sinks)'
  <2> SUFFICES ASSUME cache'.valid  PROVE CountsStamp(cache.gen, cache.counts)' /\ SinksStamp(cache.rev, cache.sinks)'
    OBVIOUS
  <2>1. PICK k : k = cache'  OBVIOUS
  <2>2. CountsStamp(k.gen, k.counts) /\ SinksStamp(k.rev, k.sinks)  BY <2>1 DEF StatsInv
  <2>3. CountsStamp(k.gen, k.counts)' /\ SinksStamp(k.rev, k.sinks)'  BY <1>3, <1>4, <2>2
  <2> QED  BY <2>1, <2>3 DEF CountsStamp, SinksStamp
<1>8. Sound(db)' /\ configured'.rev \in Nat
  BY <1>1 DEF StatsInv, Sound, Exact, Shaped, GoodRecords, Usable, Readable
<1> QED  BY <1>2, <1>6, <1>7, <1>8 DEF StatsInv

LEMMA AskKeeps ==
  ASSUME StatsInv, NEW c \in Askers, AskStats(c) \/ ReadRevision(c) \/ ReturnStats(c)
  PROVE  StatsInv'
<1>0. Attentive(askers[c]) /\ cache = [x \in CacheFields |-> cache[x]]  BY DEF StatsInv
<1>1. cache' = cache  BY DEF AskStats, ReadRevision, ReturnStats
<1>2. CASE AskStats(c)
  <2>1. PICK g : g = IF db.format = "current" THEN db.canonical ELSE Missing  OBVIOUS
  <2>2. PICK n : n = {ScanCounts(db)}  OBVIOUS
  <2>3. PICK s : s = {configured.sinks}  OBVIOUS
  <2>4. PICK r : r = [Resting EXCEPT !.at = "asked", !.gen = g, !.seen = n, !.actives = s]  OBVIOUS
  <2>5. Turn(c, r)  BY <1>2, <2>1, <2>2, <2>3, <2>4 DEF AskStats
  <2>6. r = [x \in AskFields |-> r[x]] /\ r.at = "asked" /\ r.gen = g /\ r.seen = n /\ r.actives = s
    BY <2>4 DEF Resting, AskFields
  <2>7. Attentive(r) /\ Stamped(r)  BY <2>2, <2>3, <2>6 DEF Attentive, Stamped
  <2>8. r.gen \in {Missing, db.canonical}  BY <2>1, <2>6
  <2> QED  BY <1>0, <1>1, <2>5, <2>6, <2>7, <2>8, TurnKeeps
<1>3. CASE ReadRevision(c)
  <2>1. PICK r : r = [askers[c] EXCEPT !.at = "checking", !.rev = configured.rev]  OBVIOUS
  <2>2. Turn(c, r) /\ askers[c].at = "asked"  BY <1>3, <2>1 DEF ReadRevision
  <2>3. /\ r = [x \in AskFields |-> r[x]] /\ r.at = "checking" /\ r.rev = configured.rev
        /\ r.gen = askers[c].gen /\ r.seen = askers[c].seen /\ r.actives = askers[c].actives
    BY <1>0, <2>1 DEF Attentive, AskFields
  <2>4. Attentive(r) /\ Stamped(r)  BY <1>0, <2>2, <2>3 DEF Attentive, Stamped
  <2> QED  BY <1>0, <1>1, <2>2, <2>3, <2>4, TurnKeeps
<1>4. CASE ReturnStats(c)
  <2>1. Turn(c, Resting)  BY <1>4 DEF ReturnStats
  <2>2. Resting = [x \in AskFields |-> Resting[x]] /\ Resting.at = "rest"  BY DEF Resting, AskFields
  <2>3. Attentive(Resting) /\ Stamped(Resting)  BY <2>2 DEF Attentive, Stamped
  <2> QED  BY <1>0, <1>1, <2>1, <2>2, <2>3, TurnKeeps
<1> QED  BY <1>2, <1>3, <1>4

\* The cache answers with what was counted in the generation of the caller.
LEMMA CheckKeeps ==
  ASSUME StatsInv, NEW c \in Askers, CheckCache(c)  PROVE StatsInv'
<1>1. PICK me : me = askers[c]  OBVIOUS
<1>2. Attentive(me) /\ me.at = "checking" /\ cache = [x \in CacheFields |-> cache[x]] /\ cache' = cache
  BY <1>1 DEF StatsInv, CheckCache
<1>3. CASE Cached(me)
  <2>1. PICK r : r = [me EXCEPT !.at = "answered", !.counts = cache.counts, !.sinks = cache.sinks]  OBVIOUS
  <2>2. Turn(c, r)  BY <1>1, <1>3, <2>1 DEF CheckCache
  <2>3. /\ r = [x \in AskFields |-> r[x]] /\ r.at = "answered" /\ r.counts = cache.counts /\ r.sinks = cache.sinks
        /\ r.seen = me.seen /\ r.actives = me.actives
    BY <1>2, <2>1 DEF Attentive, AskFields
  <2>4. CountsStamp(cache.gen, cache.counts) /\ SinksStamp(cache.rev, cache.sinks)
    BY <1>3 DEF StatsInv, Cached
  <2>5. cache.counts \in me.seen  BY <1>1, <1>2, <1>3, <2>4 DEF Cached, CountsStamp
  <2>6. cache.sinks \in me.actives  BY <1>1, <1>2, <1>3, <2>4 DEF Cached, SinksStamp
  <2>7. Attentive(r) /\ Stamped(r)  BY <1>2, <2>3, <2>5, <2>6 DEF Attentive, Stamped
  <2> QED  BY <1>2, <2>2, <2>3, <2>7, TurnKeeps
<1>4. CASE ~ Cached(me)
  <2>1. PICK r : r = [me EXCEPT !.at = "missed", !.rev = configured.rev, !.sinks = configured.sinks]  OBVIOUS
  <2>2. Turn(c, r)  BY <1>1, <1>4, <2>1 DEF CheckCache
  <2>3. /\ r = [x \in AskFields |-> r[x]] /\ r.at = "missed" /\ r.rev = configured.rev /\ r.sinks = configured.sinks
        /\ r.seen = me.seen /\ r.actives = me.actives
    BY <1>2, <2>1 DEF Attentive, AskFields
  <2>4. \A d \in Askers : askers[d].at = "checking" => configured.sinks \in askers[d].actives
    BY DEF StatsInv, Attentive
  <2>5. SinksStamp(configured.rev, configured.sinks)  BY <2>4 DEF StatsInv, SinksStamp
  <2>6. Attentive(r)  BY <1>2, <2>3 DEF Attentive
  <2>7. Stamped(r)  BY <2>3, <2>5 DEF Stamped
  <2> QED  BY <1>2, <2>2, <2>3, <2>6, <2>7, TurnKeeps
<1> QED  BY <1>3, <1>4

\* What a caller counts is stamped with the generation it counted in.
Counted(me, g, n) == [me EXCEPT !.at = "counted", !.gen = g, !.counts = n]
LEMMA CountedKeeps ==
  ASSUME StatsInv, NEW c \in Askers, NEW g, NEW n, NEW r, g \in {Missing, db.canonical}, n = ScanCounts(db),
         askers[c].at \in {"missed", "scanning"},
         r = Counted(askers[c], g, n), Turn(c, r), cache' = cache
  PROVE  StatsInv'
<1>1. PICK me : me = askers[c]  OBVIOUS
<1>2. Attentive(me) /\ Stamped(me) /\ cache = [x \in CacheFields |-> cache[x]]
  BY <1>1 DEF StatsInv
<1>3. /\ r = [x \in AskFields |-> r[x]] /\ r.at = "counted" /\ r.gen = g /\ r.counts = n /\ r.rev = me.rev
      /\ r.sinks = me.sinks /\ r.seen = me.seen /\ r.actives = me.actives
  BY <1>1, <1>2 DEF Attentive, AskFields, Counted
<1>4. \A d \in Askers : askers[d].at \in {"asked", "checking"} => n \in askers[d].seen
  BY DEF StatsInv, Attentive
<1>5. CountsStamp(g, n)  BY <1>4 DEF CountsStamp, StatsInv, Sound
<1>6. SinksStamp(me.rev, me.sinks)  BY <1>1, <1>2 DEF Stamped
<1>7. Attentive(r) /\ Stamped(r)  BY <1>1, <1>2, <1>3, <1>5, <1>6 DEF Attentive, Stamped
<1> QED  BY <1>2, <1>3, <1>7, TurnKeeps

\* Counting, from the indexes or from a scan, and storing what was counted.
LEMMA CountKeeps ==
  ASSUME StatsInv, NEW c \in Askers, CountFromIndexes(c) \/ CountFromScan(c) \/ StoreStats(c)
  PROVE  StatsInv'
<1>1. PICK me : me = askers[c]  OBVIOUS
<1>2. Attentive(me) /\ Stamped(me) /\ cache = [x \in CacheFields |-> cache[x]]
  BY <1>1 DEF StatsInv
<1>4. CASE CountFromIndexes(c)
  <2>1. me.at = "missed" /\ cache' = cache  BY <1>1, <1>4 DEF CountFromIndexes
  <2>2. CASE Maintains(db)
    <3>1. IndexCounts(db) = ScanCounts(db)
      <4>1. Usable(db) /\ Sound(db)  BY <2>2 DEF Maintains, StatsInv
      <4> QED  BY <4>1, CountsAgree DEF Sound, Exact
    <3>2. Turn(c, [me EXCEPT !.at = "counted", !.gen = db.canonical, !.counts = IndexCounts(db)])
      BY <1>1, <1>4, <2>2 DEF CountFromIndexes
    <3>3. PICK n : n = IndexCounts(db)  OBVIOUS
    <3>4. PICK g : g = db.canonical  OBVIOUS
    <3>5. Turn(c, [me EXCEPT !.at = "counted", !.gen = g, !.counts = n])  BY <3>2, <3>3, <3>4
    <3>6. g \in {Missing, db.canonical} /\ n = ScanCounts(db)  BY <3>1, <3>3, <3>4
    <3>7. PICK r : r = Counted(askers[c], g, n)  OBVIOUS
    <3>8. Turn(c, r)  BY <1>1, <3>5, <3>7 DEF Counted
    <3> QED  BY <1>1, <2>1, <3>6, <3>7, <3>8, CountedKeeps
  <2>3. CASE ~ Maintains(db)
    <3>1. PICK r : r = [me EXCEPT !.at = "scanning"]  OBVIOUS
    <3>2. Turn(c, r)  BY <1>1, <1>4, <2>3, <3>1 DEF CountFromIndexes
    <3>3. /\ r = [x \in AskFields |-> r[x]] /\ r.at = "scanning" /\ r.rev = me.rev
          /\ r.sinks = me.sinks /\ r.seen = me.seen /\ r.actives = me.actives
      BY <1>2, <3>1 DEF Attentive, AskFields
    <3>4. Attentive(r) /\ Stamped(r)  BY <1>2, <2>1, <3>3 DEF Attentive, Stamped
    <3> QED  BY <1>2, <2>1, <3>2, <3>3, <3>4, TurnKeeps
  <2> QED  BY <2>2, <2>3
<1>5. CASE CountFromScan(c)
  <2>1. me.at = "scanning" /\ cache' = cache  BY <1>1, <1>5 DEF CountFromScan
  <2>2. CASE Readable(db)
    <3>1. PICK g : g = IF db.format = "current" THEN db.canonical ELSE Missing  OBVIOUS
    <3>2. Turn(c, [me EXCEPT !.at = "counted", !.counts = ScanCounts(db), !.gen = g])
      BY <1>1, <1>5, <2>2, <3>1 DEF CountFromScan
    <3>3. [me EXCEPT !.at = "counted", !.counts = ScanCounts(db), !.gen = g]
            = [me EXCEPT !.at = "counted", !.gen = g, !.counts = ScanCounts(db)]
      <4>1. PICK n : n = ScanCounts(db)  OBVIOUS
      <4>2. me = [x \in AskFields |-> me[x]]  BY <1>2 DEF Attentive
      <4>3. [me EXCEPT !.at = "counted", !.counts = n, !.gen = g]
              = [me EXCEPT !.at = "counted", !.gen = g, !.counts = n]
        BY <4>2 DEF AskFields
      <4> QED  BY <4>1, <4>3
    <3>4. g \in {Missing, db.canonical}  BY <3>1
    <3>5. Turn(c, [me EXCEPT !.at = "counted", !.gen = g, !.counts = ScanCounts(db)])  BY <3>2, <3>3
    <3>6. PICK n : n = ScanCounts(db)  OBVIOUS
    <3>7. Turn(c, [me EXCEPT !.at = "counted", !.gen = g, !.counts = n])  BY <3>5, <3>6
    <3>8. PICK r : r = Counted(askers[c], g, n)  OBVIOUS
    <3>9. Turn(c, r)  BY <1>1, <3>7, <3>8 DEF Counted
    <3> QED  BY <1>1, <2>1, <3>4, <3>6, <3>8, <3>9, CountedKeeps
  <2>3. CASE ~ Readable(db)
    <3>1. Turn(c, Resting)  BY <1>5, <2>3 DEF CountFromScan
    <3>2. Resting = [x \in AskFields |-> Resting[x]] /\ Resting.at = "rest"  BY DEF Resting, AskFields
    <3>3. Attentive(Resting) /\ Stamped(Resting)  BY <3>2 DEF Attentive, Stamped
    <3> QED  BY <1>2, <2>1, <3>1, <3>2, <3>3, TurnKeeps
  <2> QED  BY <2>2, <2>3
<1>6. CASE StoreStats(c)
  <2>1. PICK r : r = [me EXCEPT !.at = "answered"]  OBVIOUS
  <2>2. /\ me.at = "counted" /\ Turn(c, r)
        /\ cache' = [valid |-> me.gen # Missing, gen |-> me.gen, rev |-> me.rev, sinks |-> me.sinks, counts |-> me.counts]
    BY <1>1, <1>6, <2>1 DEF StoreStats
  <2>3. /\ r = [x \in AskFields |-> r[x]] /\ r.at = "answered" /\ r.counts = me.counts
        /\ r.sinks = me.sinks /\ r.seen = me.seen /\ r.actives = me.actives
    BY <1>2, <2>1 DEF Attentive, AskFields
  <2>4. Attentive(r) /\ Stamped(r)  BY <1>2, <2>2, <2>3 DEF Attentive, Stamped
  <2>5. /\ cache' = [x \in CacheFields |-> cache'[x]] /\ cache'.gen = me.gen /\ cache'.counts = me.counts
        /\ cache'.rev = me.rev /\ cache'.sinks = me.sinks
    BY <2>2 DEF CacheFields
  <2>6. CountsStamp(cache'.gen, cache'.counts) /\ SinksStamp(cache'.rev, cache'.sinks)
    <3>1. CountsStamp(me.gen, me.counts) /\ SinksStamp(me.rev, me.sinks)  BY <1>2, <2>2 DEF Stamped
    <3> QED  BY <2>5, <3>1
  <2> QED  BY <2>2, <2>3, <2>4, <2>5, <2>6, TurnKeeps
<1> QED  BY <1>4, <1>5, <1>6

LEMMA StatsStepKeeps == StatsInv /\ [IndexNext]_indexVars => StatsInv'
<1> SUFFICES ASSUME StatsInv, [IndexNext]_indexVars  PROVE StatsInv'
  OBVIOUS
<1>1. ASSUME NEW i \in IxItems, WriteItem(i)  PROVE StatsInv'
  BY <1>1, CommitItem, RecordsAreGood DEF WriteItem
<1>2. ASSUME NEW k \in IxDeliveries, WriteDelivery(k)  PROVE StatsInv'
  BY <1>2, CommitDigest, RecordsAreGood DEF WriteDelivery
<1>3. ASSUME NEW i \in IxItems, NEW k \in IxDeliveries, Prepare(i, k) \/ Settle(i, k)  PROVE StatsInv'
  <2>1. GoodItem(db.items[i])  BY DEF StatsInv, Sound, GoodRecords
  <2>2. CASE Prepare(i, k)
    <3>1. PICK q : q = [db.items[i] EXCEPT !.state = "delivering", !.until = 0]  OBVIOUS
    <3>2. PICK r \in DigestRecords : Commit(Stored(Stored(db, "deliveries", k, r), "items", i, q))
      BY <2>2, <3>1 DEF Prepare
    <3>3. GoodItem(q) /\ q # Malformed  BY <2>1, <3>1, NextItem
    <3> QED  BY <3>2, <3>3, CommitBoth, RecordsAreGood
  <2>3. CASE Settle(i, k)
    <3>1. PICK r \in DigestRecords :
            Commit(Stored(Stored(db, "items", i, [db.items[i] EXCEPT !.state = IF r.state = "delivered" THEN "acked" ELSE "expired"]),
                          "deliveries", k, r))
      BY <2>3 DEF Settle
    <3>2. PICK s : s = IF r.state = "delivered" THEN "acked" ELSE "expired"  OBVIOUS
    <3>3. PICK q : q = [db.items[i] EXCEPT !.state = s]  OBVIOUS
    <3>4. s \in {"delivering", "acked", "expired"}  BY <3>2
    <3>5. GoodItem(q) /\ q # Malformed  BY <2>1, <3>3, <3>4, NextItem
    <3>6. Commit(Stored(Stored(db, "items", i, q), "deliveries", k, r))  BY <3>1, <3>2, <3>3
    <3> QED  BY <3>5, <3>6, CommitBoth, RecordsAreGood
  <2> QED  BY <1>3, <2>2, <2>3
<1>4. CASE Purge
  <2>1. CASE \E i \in IxItems : Commit(Stored(db, "items", i, NoItem))
    BY <2>1, CommitItem, RecordsAreGood
  <2>2. CASE \E i \in IxItems, k \in IxDeliveries :
               Commit(Stored(Stored(db, "items", i, NoItem), "deliveries", k, NoDigest))
    BY <2>2, CommitBoth, RecordsAreGood
  <2> QED  BY <1>4, <2>1, <2>2 DEF Purge
<1>5. ASSUME NEW sinks, SetActiveSinks(sinks)  PROVE StatsInv'
  <2>1. /\ db' = db /\ configured'.rev = configured.rev + 1 /\ askers' = Witness(db', configured'.sinks)
        /\ cache' = [cache EXCEPT !.valid = FALSE]
    BY <1>5 DEF SetActiveSinks
  <2>2. Sound(db') /\ db'.canonical >= db.canonical /\ ScanCounts(db') = ScanCounts(db)
    BY <2>1 DEF StatsInv, Sound
  <2> QED  BY <2>1, <2>2, WitnessKeeps
<1>6. ASSUME NEW c \in Askers, StatsStep(c)  PROVE StatsInv'
  BY <1>6, AskKeeps, CheckKeeps, CountKeeps DEF StatsStep
<1>7. CASE UNCHANGED indexVars
  <2>1. UNCHANGED <<db, configured, cache, askers>>  BY <1>7 DEF indexVars
  <2> QED  BY <2>1 DEF StatsInv, Sound, Exact, Shaped, GoodRecords, Usable, Readable, Attentive, Stamped,
             CountsStamp, SinksStamp
<1> QED  BY <1>1, <1>2, <1>3, <1>4, <1>5, <1>6, <1>7, ForeignKeeps, ReopenKeeps DEF IndexNext

\* For any records, any callers and any sinks: the statistics a caller gets
\* were true while it waited (digest_store.go: Stats, rebuildStatsIndex).
THEOREM StatsStayCurrent == IndexSpec => []StatsAreCurrent
<1>1. IndexInit => StatsInv
  <2> SUFFICES ASSUME IndexInit  PROVE StatsInv  OBVIOUS
  <2>1. PICK it \in {r \in ItemRecords : r.state \in {"leased", "acked"}},
             dl \in {NoDigest} \cup {r \in DigestRecords : r.state = "delivered"} :
               db = Rebuilt([items |-> [i \in IxItems |-> it],
                      deliveries |-> [k \in IxDeliveries |-> dl], entries |-> {}, format |-> "current",
                      buckets |-> FALSE, canonical |-> 0, indexed |-> Missing])
    BY DEF IndexInit
  <2>2. PICK d : d = [items |-> [i \in IxItems |-> it], deliveries |-> [k \in IxDeliveries |-> dl],
                      entries |-> {}, format |-> "current", buckets |-> FALSE, canonical |-> 0, indexed |-> Missing]
    OBVIOUS
  <2>3. /\ d.items = [i \in IxItems |-> it] /\ d.deliveries = [k \in IxDeliveries |-> dl]
        /\ d.canonical = 0 /\ d.indexed = -1 /\ d = [f \in Fields |-> d[f]]
    BY <2>2 DEF Missing, Fields
  <2>4. Shaped(d)  BY <2>3 DEF Shaped
  <2>5. db = Rebuilt(d)  BY <2>1, <2>2
  <2>6. Exact(db)  BY <2>4, <2>5, RebuiltIsExact
  <2>7. db.items = d.items /\ db.deliveries = d.deliveries /\ db.canonical = 0
    BY <2>3, <2>5 DEF Rebuilt, Fields
  <2>8. GoodItem(it) /\ it # Malformed /\ GoodDigest(dl)  BY <2>1, RecordsAreGood
  <2>9. Sound(db)  BY <2>3, <2>6, <2>7, <2>8 DEF Sound, GoodRecords, Readable
  <2>10. \A c \in Askers : askers[c] = [x \in AskFields |-> askers[c][x]] /\ askers[c].at = "rest"
    BY DEF IndexInit, Resting, AskFields
  <2>11. PICK n : n = ScanCounts(db)  OBVIOUS
  <2>12. cache = [NoCache EXCEPT !.valid = TRUE, !.counts = n]  BY <2>11 DEF IndexInit
  <2>13. /\ cache = [x \in CacheFields |-> cache[x]] /\ cache.gen = 0 /\ cache.counts = n
         /\ cache.rev = 0 /\ cache.sinks = {}
    BY <2>12 DEF NoCache, CacheFields
  <2>14. configured.rev = 0 /\ configured.sinks = {} /\ askers = [c \in Askers |-> askers[c]]
    BY DEF IndexInit
  <2>15. CountsStamp(cache.gen, cache.counts) /\ SinksStamp(cache.rev, cache.sinks)
    <3>1. cache.gen = db.canonical /\ cache.counts = ScanCounts(db) /\ db.canonical \in Nat
      BY <2>7, <2>11, <2>13
    <3>4. \A c \in Askers : ~ (askers[c].at \in {"asked", "checking"})  BY <2>10
    <3>2. CountsStamp(cache.gen, cache.counts)  BY <3>1, <3>4 DEF CountsStamp
    <3>3. SinksStamp(cache.rev, cache.sinks)  BY <2>10, <2>13, <2>14 DEF SinksStamp
    <3> QED  BY <3>2, <3>3
  <2>16. \A c \in Askers : Attentive(askers[c]) /\ Stamped(askers[c])  BY <2>10 DEF Attentive, Stamped
  <2> QED  BY <2>9, <2>13, <2>14, <2>15, <2>16 DEF StatsInv
<1>2. StatsInv => StatsAreCurrent  BY DEF StatsInv, Attentive, StatsAreCurrent
<1> QED  BY <1>1, <1>2, StatsStepKeeps, PTL DEF IndexSpec

-----------------------------------------------------------------------------
(* The fetch of a feed.                                                    *)

FetchFields == {"at", "sent", "reply", "of", "batch"}
FetchShape == /\ fetch = [f \in Fetchers |-> fetch[f]]
              /\ \A f \in Fetchers : fetch[f] = [x \in FetchFields |-> fetch[f][x]]

Accounted(v) == v \in spoiled \/ Reading(v) \/ Missed(v) = {}
Tags(sent) == {sent.etag, sent.modified} \ {NoTag}

\* Whatever validators the source object has, or a request has sent, or an
\* answer was based on: the version they stand for is accounted for.
QuietInv ==
  /\ FetchShape
  /\ \A v \in Tags(validators) : Accounted(v)
  /\ \A f \in Fetchers :
        /\ \A v \in Tags(fetch[f].sent) : Accounted(v)
        /\ fetch[f].at = "answered" /\ fetch[f].reply = "not modified" => Accounted(fetch[f].of)
        /\ fetch[f].at = "quiet" => Accounted(fetch[f].of)
        /\ fetch[f].at = "batch" => fetch[f].batch = Batch(fetch[f].of)

\* What becomes of a version that was accounted for, when one fetch goes on.
Goes(f, r) ==
  /\ fetch' = [fetch EXCEPT ![f] = r] /\ r = [x \in FetchFields |-> r[x]]
  /\ spoiled \subseteq spoiled' /\ handed \subseteq handed'
  /\ fetch[f].at \in {"body", "batch"} =>
       \/ r.at \in {"body", "batch"} /\ r.of = fetch[f].of
       \/ fetch[f].of \in spoiled'
       \/ {i \in 1..Len(Batch(fetch[f].of)) :
             MessageId(Batch(fetch[f].of)[i]) \notin {MessageId(h) : h \in handed'}} = {}

LEMMA GoingOn ==
  ASSUME FetchShape, NEW f \in Fetchers, NEW r, Goes(f, r)
  PROVE  /\ FetchShape' /\ fetch'[f] = r /\ \A g \in Fetchers \ {f} : fetch'[g] = fetch[g]
         /\ \A v : Accounted(v) => Accounted(v)'
<1>1. FetchShape' /\ fetch'[f] = r /\ \A g \in Fetchers \ {f} : fetch'[g] = fetch[g]
  BY DEF FetchShape, Goes
<1>2. ASSUME NEW v, Accounted(v)  PROVE Accounted(v)'
  <2>1. CASE v \in spoiled  BY <2>1 DEF Goes, Accounted
  <2>2. CASE Missed(v) = {}
    <3>1. Missed(v)' = {}
      BY <2>2 DEF Goes, Missed
    <3> QED  BY <3>1 DEF Accounted
  <2>3. ASSUME NEW g \in Fetchers, fetch[g].of = v, fetch[g].at \in {"body", "batch"}
        PROVE  Accounted(v)'
    <3>1. CASE g # f
      BY <1>1, <2>3, <3>1 DEF Accounted, Reading
    <3>2. CASE g = f
      <4>1. CASE r.at \in {"body", "batch"} /\ r.of = fetch[f].of
        BY <1>1, <2>3, <3>2, <4>1 DEF Accounted, Reading
      <4>2. CASE fetch[f].of \in spoiled'
        BY <2>3, <3>2, <4>2 DEF Accounted
      <4>3. CASE {i \in 1..Len(Batch(v)) : MessageId(Batch(v)[i]) \notin {MessageId(h) : h \in handed'}} = {}
        BY <4>3 DEF Accounted, Missed
      <4> QED  BY <2>3, <3>2, <4>1, <4>2, <4>3 DEF Goes
    <3> QED  BY <3>1, <3>2
  <2> QED  BY <1>2, <2>1, <2>2, <2>3 DEF Accounted, Reading
<1> QED  BY <1>1, <1>2

\* What a record of a fetch has to fulfil.
InOrder(r) == /\ \A v \in Tags(r.sent) : Accounted(v)
              /\ r.at = "answered" /\ r.reply = "not modified" => Accounted(r.of)
              /\ r.at = "quiet" => Accounted(r.of)
              /\ r.at = "batch" => r.batch = Batch(r.of)

LEMMA OneFetch ==
  ASSUME QuietInv, NEW f \in Fetchers, NEW r, Goes(f, r), InOrder(r)',
         \A v \in Tags(validators') : Accounted(v) \/ Accounted(v)'
  PROVE  QuietInv'
<1>1. /\ FetchShape' /\ fetch'[f] = r /\ \A g \in Fetchers \ {f} : fetch'[g] = fetch[g]
      /\ \A v : Accounted(v) => Accounted(v)'
  BY GoingOn DEF QuietInv
<1>2. ASSUME NEW g \in Fetchers  PROVE InOrder(fetch[g])'
  <2>1. CASE g = f  BY <1>1, <2>1
  <2>2. CASE g # f
    <3>1. InOrder(fetch[g])  BY DEF QuietInv, InOrder
    <3>2. fetch'[g] = fetch[g]  BY <1>1, <2>2
    <3> QED  BY <1>1, <3>1, <3>2 DEF InOrder
  <2> QED  BY <2>1, <2>2
<1>3. \A v \in Tags(validators') : Accounted(v)'  BY <1>1
<1> QED  BY <1>1, <1>2, <1>3 DEF QuietInv, InOrder

\* A source object without validators has no tags.
LEMMA NothingSent ==
  /\ Tags(NoFetch.sent) = {}
  /\ NoFetch = [x \in FetchFields |-> NoFetch[x]] /\ NoFetch.at = "idle"
BY DEF NoFetch, Tags, FetchFields

\* A fetch that is over leaves nothing to account for.
LEMMA BackToIdle ==
  ASSUME QuietInv, NEW f \in Fetchers, Goes(f, NoFetch), UNCHANGED validators
  PROVE  QuietInv'
<1>1. InOrder(NoFetch)'  BY NothingSent DEF InOrder
<1>2. \A v \in Tags(validators') : Accounted(v)  BY DEF QuietInv
<1> QED  BY <1>1, <1>2, OneFetch

\* The request carries the validators of the moment.
LEMMA RequestInOrder ==
  ASSUME QuietInv, NEW f \in Fetchers, SendRequest(f)  PROVE QuietInv'
<1>0. PICK r : r = [NoFetch EXCEPT !.at = "sent", !.sent = validators]  OBVIOUS
<1>1. fetch' = [fetch EXCEPT ![f] = r] /\ fetch[f].at = "idle"
      /\ UNCHANGED <<validators, spoiled, handed, version>>
  BY <1>0 DEF SendRequest
<1>2. r = [x \in FetchFields |-> r[x]] /\ r.at = "sent" /\ r.sent = validators
  BY <1>0, NothingSent DEF FetchFields, NoFetch
<1>3. Goes(f, r)  BY <1>1, <1>2 DEF Goes
<1>4. \A v \in Tags(validators) : Accounted(v)  BY DEF QuietInv
<1>5. \A v : Accounted(v) => Accounted(v)'  BY <1>3, GoingOn DEF QuietInv
<1>6. InOrder(r)'  BY <1>2, <1>4, <1>5 DEF InOrder
<1> QED  BY <1>1, <1>3, <1>4, <1>6, OneFetch

\* Upstream answers "not modified" only to the tags of its version.
LEMMA AnswerInOrder ==
  ASSUME QuietInv, NEW f \in Fetchers, Answer(f)  PROVE QuietInv'
<1>1. PICK reply :
        /\ fetch' = [fetch EXCEPT ![f].at = "answered", ![f].of = version, ![f].reply = reply]
        /\ reply = "not modified" => Unchanged(fetch[f].sent)
        /\ fetch[f].at = "sent" /\ UNCHANGED <<validators, spoiled, handed>>
  <2>1. CASE fetch' = [fetch EXCEPT ![f].at = "answered", ![f].of = version,
                               ![f].reply = IF Unchanged(fetch[f].sent) THEN "not modified" ELSE "ok"]
    <3>1. CASE Unchanged(fetch[f].sent)  BY <2>1, <3>1 DEF Answer
    <3>2. CASE ~ Unchanged(fetch[f].sent)
      <4>1. fetch' = [fetch EXCEPT ![f].at = "answered", ![f].of = version, ![f].reply = "ok"]
        BY <2>1, <3>2
      <4>2. fetch[f].at = "sent" /\ UNCHANGED <<validators, spoiled, handed>>  BY DEF Answer
      <4>3. "ok" # "not modified"  OBVIOUS
      <4> QED  BY ONLY <4>1, <4>2, <4>3
    <3> QED  BY <3>1, <3>2
  <2>2. CASE \E reply \in {"no connection", "error status"} :
              fetch' = [fetch EXCEPT ![f].at = "answered", ![f].of = version, ![f].reply = reply]
    BY <2>2 DEF Answer
  <2> QED  BY <2>1, <2>2 DEF Answer
<1>0. PICK r : r = [fetch[f] EXCEPT !.at = "answered", !.of = version, !.reply = reply]  OBVIOUS
<1>2. fetch' = [fetch EXCEPT ![f] = r]  BY <1>0, <1>1, Zenon DEF QuietInv, FetchShape
<1>3. r = [x \in FetchFields |-> r[x]] /\ r.at = "answered" /\ r.of = version /\ r.reply = reply
      /\ r.sent = fetch[f].sent
  BY <1>0 DEF QuietInv, FetchShape, FetchFields
<1>4. Goes(f, r)  BY <1>1, <1>2, <1>3 DEF Goes
<1>5. \A v : Accounted(v) => Accounted(v)'  BY <1>4, GoingOn DEF QuietInv
<1>6. \A v \in Tags(fetch[f].sent) : Accounted(v)  BY DEF QuietInv
<1>7. Unchanged(fetch[f].sent) => version \in Tags(fetch[f].sent)
  BY DEF Unchanged, Tags, NoTag
<1>8. InOrder(r)'  BY <1>1, <1>3, <1>5, <1>6, <1>7 DEF InOrder
<1>9. \A v \in Tags(validators') : Accounted(v)  BY <1>1 DEF QuietInv
<1> QED  BY <1>4, <1>8, <1>9, OneFetch

\* The validators of an answer are remembered when its body is about to be
\* read.
LEMMA RememberInOrder ==
  ASSUME QuietInv, NEW f \in Fetchers, Remember(f)  PROVE QuietInv'
<1>0. PICK o, sent : o = fetch[f].of /\ sent = fetch[f].sent  OBVIOUS
<1>1. PICK r :
        /\ fetch' = [fetch EXCEPT ![f] = r] /\ r = [x \in FetchFields |-> r[x]]
        /\ \/ fetch[f].reply = "ok" /\ r.at = "body" /\ r.of = o /\ r.sent = sent
           \/ fetch[f].reply = "not modified" /\ r.at = "quiet" /\ r.of = o /\ r.sent = sent
           \/ fetch[f].reply # "ok" /\ r = NoFetch
  <2>1. fetch' = [fetch EXCEPT ![f] = IF fetch[f].reply = "ok" THEN [fetch[f] EXCEPT !.at = "body"]
                                      ELSE IF fetch[f].reply = "not modified" THEN [fetch[f] EXCEPT !.at = "quiet"]
                                      ELSE NoFetch]
    BY DEF Remember
  <2>2. fetch[f] = [x \in FetchFields |-> fetch[f][x]]  BY DEF QuietInv, FetchShape
  <2>3. CASE fetch[f].reply = "ok"
    <3>1. PICK r : r = [fetch[f] EXCEPT !.at = "body"]  OBVIOUS
    <3>2. r = [x \in FetchFields |-> r[x]] /\ r.at = "body" /\ r.of = o /\ r.sent = sent
      BY <1>0, <2>2, <3>1 DEF FetchFields
    <3> QED  BY <2>1, <2>3, <3>1, <3>2
  <2>4. CASE fetch[f].reply = "not modified"
    <3>1. PICK r : r = [fetch[f] EXCEPT !.at = "quiet"]  OBVIOUS
    <3>2. r = [x \in FetchFields |-> r[x]] /\ r.at = "quiet" /\ r.of = o /\ r.sent = sent
      BY <1>0, <2>2, <3>1 DEF FetchFields
    <3> QED  BY <2>1, <2>4, <3>1, <3>2
  <2>5. CASE fetch[f].reply \notin {"ok", "not modified"}
    BY <2>1, <2>5, NothingSent
  <2> QED  BY <2>3, <2>4, <2>5
<1>2. fetch[f].at = "answered" /\ UNCHANGED <<spoiled, handed>>  BY DEF Remember
<1>3. Goes(f, r)  BY <1>1, <1>2 DEF Goes
<1>4. /\ fetch'[f] = r /\ \A v : Accounted(v) => Accounted(v)'  BY <1>3, GoingOn DEF QuietInv
<1>5. InOrder(r)'
  <2>1. \A v \in Tags(sent) : Accounted(v)'  BY <1>0, <1>4 DEF QuietInv
  <2>2. fetch[f].reply = "not modified" => Accounted(o)
    BY <1>0, <1>2 DEF QuietInv
  <2>3. fetch[f].reply = "not modified" => Accounted(o)'  BY <1>4, <2>2
  <2> QED  BY <1>1, <2>1, <2>3, NothingSent DEF InOrder
<1>6. ASSUME NEW v \in Tags(validators')  PROVE Accounted(v) \/ Accounted(v)'
  <2>1. v \in Tags(validators) \/ (fetch[f].reply = "ok" /\ v = o)
    BY <1>0 DEF Remember, Tagged, Tags
  <2>2. CASE v \in Tags(validators)  BY <2>2 DEF QuietInv
  <2>3. CASE fetch[f].reply = "ok" /\ v = o
    <3>1. fetch'[f].at = "body" /\ fetch'[f].of = v  BY <1>1, <1>4, <2>3
    <3> QED  BY <3>1 DEF Accounted, Reading
  <2> QED  BY <2>1, <2>2, <2>3
<1> QED  BY <1>3, <1>5, <1>6, OneFetch

LEMMA BodyInOrder ==
  ASSUME QuietInv, NEW f \in Fetchers, ReadBody(f)  PROVE QuietInv'
<1>1. fetch[f].at = "body" /\ UNCHANGED <<validators, handed>>  BY DEF ReadBody
<1>2. CASE fetch' = [fetch EXCEPT ![f].at = "batch", ![f].batch = Batch(fetch[f].of)] /\ UNCHANGED spoiled
  <2>0. PICK o, sent : o = fetch[f].of /\ sent = fetch[f].sent  OBVIOUS
  <2>1. PICK r : r = [fetch[f] EXCEPT !.at = "batch", !.batch = Batch(o)]  OBVIOUS
  <2>2. fetch' = [fetch EXCEPT ![f] = r]  BY <1>2, <2>0, <2>1, Zenon DEF QuietInv, FetchShape
  <2>3. r = [x \in FetchFields |-> r[x]] /\ r.at = "batch" /\ r.of = o
        /\ r.batch = Batch(o) /\ r.sent = sent
    BY <2>0, <2>1 DEF QuietInv, FetchShape, FetchFields
  <2>4. Goes(f, r)  BY <1>1, <1>2, <2>0, <2>2, <2>3 DEF Goes
  <2>5. \A v : Accounted(v) => Accounted(v)'  BY <2>4, GoingOn DEF QuietInv
  <2>6. \A v \in Tags(sent) : Accounted(v)  BY <2>0 DEF QuietInv
  <2>7. InOrder(r)'  BY <2>3, <2>5, <2>6 DEF InOrder
  <2>8. \A v \in Tags(validators') : Accounted(v)  BY <1>1 DEF QuietInv
  <2> QED  BY <2>4, <2>7, <2>8, OneFetch
<1>3. CASE spoiled' = spoiled \cup {fetch[f].of} /\ fetch' = [fetch EXCEPT ![f] = NoFetch]
  <2>1. Goes(f, NoFetch)  BY <1>1, <1>3, NothingSent DEF Goes
  <2> QED  BY <1>1, <2>1, BackToIdle
<1> QED  BY <1>2, <1>3 DEF ReadBody

\* The engine takes the whole batch, or the version is spoiled.
LEMMA HandOverInOrder ==
  ASSUME QuietInv, NEW f \in Fetchers, HandOver(f)  PROVE QuietInv'
<1> DEFINE B == Batch(fetch[f].of)
<1>1. fetch[f].at = "batch" /\ fetch[f].batch = B /\ UNCHANGED validators
      /\ fetch' = [fetch EXCEPT ![f] = NoFetch]
  BY DEF HandOver, QuietInv
<1>2. PICK n \in 0..Len(B) :
          /\ handed' = handed \cup {B[i] : i \in 1..n}
          /\ IF n = Len(B) THEN spoiled' = spoiled ELSE spoiled' = spoiled \cup {fetch[f].of}
  BY <1>1 DEF HandOver
<1>3. \/ fetch[f].of \in spoiled'
      \/ {i \in 1..Len(B) : MessageId(B[i]) \notin {MessageId(h) : h \in handed'}} = {}
  <2>1. CASE n = Len(B)
    <3>1. \A i \in 1..Len(B) : B[i] \in handed'  BY <1>2, <2>1
    <3> QED  BY <3>1
  <2> QED  BY <1>2, <2>1
<1>4. spoiled \subseteq spoiled' /\ handed \subseteq handed'  BY <1>2
<1>5. Goes(f, NoFetch)  BY <1>1, <1>3, <1>4, NothingSent DEF Goes
<1> QED  BY <1>1, <1>5, BackToIdle

LEMMA FeedStep == QuietInv /\ [FeedNext]_feedVars => QuietInv'
<1> SUFFICES ASSUME QuietInv, [FeedNext]_feedVars  PROVE QuietInv'
  OBVIOUS
<1>1. CASE UNCHANGED <<validators, fetch, handed, spoiled>>
  BY <1>1 DEF QuietInv, FetchShape, Accounted, Reading, Missed
<1>2. CASE Publish \/ UNCHANGED feedVars
  BY <1>1, <1>2 DEF Publish, feedVars
<1>3. CASE ReplaceSource
  <2>1. validators' = NoFetch.sent /\ fetch' = [f \in Fetchers |-> NoFetch]
    BY <1>3 DEF ReplaceSource
  <2>2. FetchShape' /\ \A f \in Fetchers : fetch'[f] = NoFetch
    BY <2>1, NothingSent DEF FetchShape
  <2> QED  BY <2>1, <2>2, NothingSent DEF QuietInv
<1>4. ASSUME NEW f \in Fetchers, EndQuietly(f)  PROVE QuietInv'
  <2>1. Goes(f, NoFetch) /\ UNCHANGED validators
    BY <1>4, NothingSent DEF EndQuietly, Goes
  <2> QED  BY <2>1, BackToIdle
<1> QED
  BY <1>2, <1>3, <1>4, RequestInOrder, AnswerInOrder, RememberInOrder, BodyInOrder, HandOverInOrder
  DEF FeedNext

\* Whatever upstream publishes, however many polls share the source object:
\* a poll that is told "not modified" was handed everything before, unless
\* the body of that version failed or is being read (rss.go: Fetch,
\* conditional headers; news_engine.go: the batch of a poll).
THEOREM QuietPollsMissNothing == FeedSpec => []QuietMeansHandedOver
<1>1. FeedInit => QuietInv
  <2> SUFFICES ASSUME FeedInit  PROVE QuietInv  OBVIOUS
  <2>1. validators = NoFetch.sent /\ fetch = [f \in Fetchers |-> NoFetch]
    BY DEF FeedInit
  <2> QED  BY <2>1, NothingSent DEF QuietInv, FetchShape
<1>2. QuietInv => QuietMeansHandedOver
  BY DEF QuietInv, QuietMeansHandedOver, Accounted
<1> QED  BY <1>1, <1>2, FeedStep, PTL DEF FeedSpec

-----------------------------------------------------------------------------
(* The briefings.                                                          *)

\* The items and the lines of a message belong together.
Shows(items, lines) ==
  \A i \in items : Headline(i) # "none" =>
    \E l \in lines, j \in items :
      LeaseTopicKey(j) = LeaseTopicKey(i) /\ l.head = Headline(j) /\ i.source \in l.sources

RunFields == {"at", "content", "lease", "lines"}
ShownInv ==
  /\ waiting \subseteq BriefingStories /\ lapsing \subseteq BriefingStories
  /\ run = [x \in RunFields |-> run[x]]
  /\ run.lease \subseteq BriefingStories /\ Shows(run.lease, run.lines)
  /\ \A p \in deliveries : Shows(p.items, p.lines)

\* The aspects of an item, from the weightiest to the lightest.
Aspects(i) == /\ Usefulness(i)[1] \in Nat /\ Usefulness(i)[2] \in Nat
              /\ Usefulness(i)[3] \in Nat /\ Usefulness(i)[4] \in Nat
Heavier(i, j) ==
  LET a == Usefulness(i)  b == Usefulness(j)
  IN \/ a[1] > b[1]
     \/ a[1] = b[1] /\ a[2] > b[2]
     \/ a[1] = b[1] /\ a[2] = b[2] /\ a[3] > b[3]
     \/ a[1] = b[1] /\ a[2] = b[2] /\ a[3] = b[3] /\ a[4] > b[4]

LEMMA AspectsAreNumbers ==
  ASSUME NEW i \in BriefingStories  PROVE Aspects(i)
<1>1. i.length \in Nat /\ i.short \in Nat /\ i.media \in Nat  BY StoryAssumption
<1> QED  BY <1>1 DEF Aspects, Usefulness

LEMMA MoreUsefulIsHeavier ==
  ASSUME NEW i \in BriefingStories, NEW j \in BriefingStories
  PROVE  MoreUseful(i, j) <=> Heavier(i, j)
<1>1. Aspects(i) /\ Aspects(j)  BY AspectsAreNumbers
<1> DEFINE a == Usefulness(i)
           b == Usefulness(j)
           At(k) == a[k] # b[k] /\ a[k] > b[k] /\ \A l \in 1..(k - 1) : a[l] = b[l]
<1>2. MoreUseful(i, j) <=> At(1) \/ At(2) \/ At(3) \/ At(4)
  BY DEF MoreUseful
<1>3. At(1) <=> a[1] # b[1] /\ a[1] > b[1]  OBVIOUS
<1>4. At(2) <=> a[2] # b[2] /\ a[2] > b[2] /\ a[1] = b[1]  OBVIOUS
<1>5. At(3) <=> a[3] # b[3] /\ a[3] > b[3] /\ a[1] = b[1] /\ a[2] = b[2]  OBVIOUS
<1>6. At(4) <=> a[4] # b[4] /\ a[4] > b[4] /\ a[1] = b[1] /\ a[2] = b[2] /\ a[3] = b[3]  OBVIOUS
<1>7. /\ a[1] \in Nat /\ b[1] \in Nat /\ a[2] \in Nat /\ b[2] \in Nat
      /\ a[3] \in Nat /\ b[3] \in Nat /\ a[4] \in Nat /\ b[4] \in Nat
  BY <1>1 DEF Aspects
<1>8. Heavier(i, j) <=> \/ a[1] > b[1]
                        \/ a[1] = b[1] /\ a[2] > b[2]
                        \/ a[1] = b[1] /\ a[2] = b[2] /\ a[3] > b[3]
                        \/ a[1] = b[1] /\ a[2] = b[2] /\ a[3] = b[3] /\ a[4] > b[4]
  BY DEF Heavier
<1> HIDE DEF a, b, At
<1> QED  BY <1>2, <1>3, <1>4, <1>5, <1>6, <1>7, <1>8

LEMMA HeavierIsStrict ==
  ASSUME NEW i \in BriefingStories, NEW j \in BriefingStories, NEW k \in BriefingStories
  PROVE  /\ ~ Heavier(i, i)
         /\ Heavier(i, j) /\ Heavier(j, k) => Heavier(i, k)
<1>1. Aspects(i) /\ Aspects(j) /\ Aspects(k)  BY AspectsAreNumbers
<1> QED  BY <1>1 DEF Aspects, Heavier

\* Every topic of waiting items has an item that leads it.
LEMMA TopicHasLead ==
  ASSUME NEW t, t \subseteq BriefingStories, t # {}
  PROVE  \E i \in t : Leads(i, t)
<1>1. IsFiniteSet(t)  BY FS_Subset, StoryAssumption
<1> DEFINE R == {p \in t \X t : Heavier(p[1], p[2])}
<1>2. \A x, y \in t : <<x, y>> \in R <=> Heavier(x, y)  OBVIOUS
<1> HIDE DEF R
<1>3. \A x \in t : <<x, x>> \notin R  BY <1>2, HeavierIsStrict
<1>4. \A x, y, z \in t : <<x, y>> \in R /\ <<y, z>> \in R => <<x, z>> \in R
  <2> SUFFICES ASSUME NEW x \in t, NEW y \in t, NEW z \in t, <<x, y>> \in R, <<y, z>> \in R
               PROVE  <<x, z>> \in R
    OBVIOUS
  <2>1. Heavier(x, y) /\ Heavier(y, z)  BY <1>2
  <2>2. x \in BriefingStories /\ y \in BriefingStories /\ z \in BriefingStories  OBVIOUS
  <2> QED  BY <1>2, <2>1, <2>2, HeavierIsStrict
<1>5. PICK x \in t : \A y \in t : <<y, x>> \notin R  BY <1>1, <1>3, <1>4, Extremal
<1>6. \A y \in t : ~ MoreUseful(y, x)  BY <1>2, <1>5, MoreUsefulIsHeavier
<1> QED  BY <1>6 DEF Leads

LEMMA TopicHasPriority ==
  ASSUME NEW t, t \subseteq BriefingStories, t # {}
  PROVE  PriorityOf(t) \in Nat
<1> DEFINE P == {i.priority : i \in t}
<1>1. P \in SUBSET Nat /\ P # {}  BY StoryAssumption
<1>2. IsFiniteSet(P)
  <2>1. IsFiniteSet(t)  BY FS_Subset, StoryAssumption
  <2> DEFINE f == [i \in t |-> i.priority]
  <2>2. f \in Surjection(t, P)  BY DEF Surjection
  <2> QED  BY <2>1, <2>2, FS_Surjection
<1>3. \E p \in P : \A q \in P : q <= p
  <2> HIDE DEF P
  <2> QED  BY <1>1, <1>2, GreatestOf
<1>4. \E p \in P : \A i \in t : i.priority <= p  BY <1>3
<1>5. PriorityOf(t) \in P  BY <1>4 DEF PriorityOf
<1> QED  BY <1>1, <1>5

\* The line of a topic that has something to show shows it.
LEMMA LeadShows ==
  ASSUME NEW t, t \subseteq BriefingStories, NEW lead \in t, Leads(lead, t),
         NEW i \in t, Headline(i) # "none", LeaseTopicKey(i) = LeaseTopicKey(lead)
  PROVE  Headline(lead) # "none"
<1>1. CASE i.title # "none"
  <2>1. LeaseTopicKey(lead) = <<"lease", i.title>>  BY <1>1 DEF LeaseTopicKey
  <2>2. lead.title # "none"  BY <2>1 DEF LeaseTopicKey, TopicKey
  <2> QED  BY <2>2 DEF Headline
<1>2. CASE i.title = "none" /\ lead.title = "none" /\ lead.text = "none"
  <2>1. i.text # "none" /\ i # lead  BY <1>2 DEF Headline
  <2>2. i.length \in Nat /\ i.length > 0  BY <2>1, StoryAssumption
  <2>3. Usefulness(i)[1] = i.length /\ Usefulness(lead)[1] = 0  BY <1>2, <2>1 DEF Usefulness
  <2>4. Heavier(i, lead)  BY <2>2, <2>3 DEF Heavier
  <2>5. MoreUseful(i, lead)  BY <2>4, MoreUsefulIsHeavier
  <2> QED  BY <2>1, <2>5 DEF Leads
<1> QED  BY <1>1, <1>2 DEF Headline

\* Leased topics have a line each, unless they have nothing to show.
LEMMA RenderedShows ==
  ASSUME NEW items, items \subseteq BriefingStories, NEW chosen \in BestTopics(TopicsOf(items))
  PROVE  Shows(UNION chosen, Rendered(chosen)) /\ UNION chosen \subseteq items
<1>1. chosen \subseteq TopicsOf(items)  BY DEF BestTopics
<1>2. \A t \in chosen : /\ t # {} /\ t \subseteq items
                        /\ \A i, j \in t : LeaseTopicKey(i) = LeaseTopicKey(j)
  <2> SUFFICES ASSUME NEW t \in chosen
               PROVE  /\ t # {} /\ t \subseteq items
                      /\ \A i, j \in t : LeaseTopicKey(i) = LeaseTopicKey(j)
    OBVIOUS
  <2>1. PICK k \in items : t = {j \in items : LeaseTopicKey(j) = LeaseTopicKey(k)}
    BY <1>1 DEF TopicsOf
  <2> QED  BY <2>1
<1>3. IsFiniteSet(TopicsOf(items))
  <2>1. IsFiniteSet(items)  BY FS_Subset, StoryAssumption
  <2> DEFINE f == [i \in items |-> {j \in items : LeaseTopicKey(j) = LeaseTopicKey(i)}]
  <2>2. f \in Surjection(items, TopicsOf(items))  BY DEF Surjection, TopicsOf
  <2> QED  BY <2>1, <2>2, FS_Surjection
<1>4. IsFiniteSet(chosen)  BY <1>1, <1>3, FS_Subset
<1>5. Cardinality(chosen) \in Nat /\ Cardinality(chosen) <= MaxRendered
  <2>1. Cardinality(TopicsOf(items)) \in Nat /\ Cardinality(chosen) \in Nat
    BY <1>3, <1>4, FS_CardinalityType
  <2>2. Cardinality(chosen) <= TopicLimit  BY <2>1, BriefingAssumption DEF BestTopics
  <2> QED  BY <2>1, <2>2, BriefingAssumption
<1>6. ASSUME NEW t \in chosen
      PROVE  Cardinality({u \in chosen : PriorityOf(u) > PriorityOf(t)}) < MaxRendered
  <2> DEFINE V == {u \in chosen : PriorityOf(u) > PriorityOf(t)}
  <2>1. PriorityOf(t) \in Nat  BY <1>2, TopicHasPriority
  <2>2. V \subseteq chosen \ {t}  BY <2>1
  <2>3. IsFiniteSet(chosen \ {t}) /\ Cardinality(chosen \ {t}) = Cardinality(chosen) - 1
    BY <1>4, FS_RemoveElement
  <2>4. Cardinality(V) <= Cardinality(chosen \ {t}) /\ IsFiniteSet(V)  BY <2>2, <2>3, FS_Subset
  <2>5. Cardinality(V) \in Nat  BY <2>4, FS_CardinalityType
  <2> HIDE DEF V
  <2>6. Cardinality(V) < MaxRendered  BY <1>5, <2>3, <2>4, <2>5, BriefingAssumption
  <2> QED  BY <2>6 DEF V
<1>7. ASSUME NEW i \in UNION chosen, Headline(i) # "none"
      PROVE  \E l \in Rendered(chosen), j \in UNION chosen :
               LeaseTopicKey(j) = LeaseTopicKey(i) /\ l.head = Headline(j) /\ i.source \in l.sources
  <2>1. PICK t \in chosen : i \in t  OBVIOUS
  <2>2. t # {} /\ t \subseteq BriefingStories  BY <1>2
  <2> DEFINE j == CHOOSE k \in t : Leads(k, t)
  <2>3. j \in t /\ Leads(j, t)  BY <2>2, TopicHasLead
  <2>4. LeaseTopicKey(i) = LeaseTopicKey(j)  BY <1>2, <2>1, <2>3
  <2>5. Headline(j) # "none"
    <3>1. \A k \in t : Leads(k, t) => Headline(k) # "none"
      <4> SUFFICES ASSUME NEW k \in t, Leads(k, t)  PROVE Headline(k) # "none"  OBVIOUS
      <4>1. LeaseTopicKey(i) = LeaseTopicKey(k)  BY <1>2, <2>1
      <4> QED  BY <2>1, <2>2, <4>1, <1>7, LeadShows
    <3> QED  BY <2>3, <3>1
  <2> DEFINE l == [head |-> Headline(j), sources |-> {k.source : k \in t}]
  <2>6. l \in Rendered(chosen)  BY <1>6, <2>5 DEF Rendered
  <2>7. l.head = Headline(j) /\ i.source \in l.sources  BY <2>1
  <2>8. j \in UNION chosen  BY <2>3
  <2> HIDE DEF j, l
  <2> QED  BY <2>4, <2>6, <2>7, <2>8
<1>8. Shows(UNION chosen, Rendered(chosen))  BY <1>7 DEF Shows
<1>9. UNION chosen \subseteq items  BY <1>2
<1> QED  BY <1>8, <1>9

LEMMA IdleShows ==
  /\ Idle2 = [x \in RunFields |-> Idle2[x]] /\ Idle2.lease = {}
  /\ Idle2.lease \subseteq BriefingStories /\ Shows(Idle2.lease, Idle2.lines)
BY DEF Idle2, RunFields, Shows

\* A fetch starts without a lease.
LEMMA GatheredShows ==
  ASSUME ShownInv, UNCHANGED <<waiting, lapsing, deliveries>>, NEW next, NEW parts, Gathered(next, parts)
  PROVE  ShownInv'
<1>1. CASE run' = Idle2  BY <1>1, IdleShows DEF ShownInv
<1>2. CASE run' = [Idle2 EXCEPT !.at = next, !.content = TRUE]
  <2>1. /\ run' = [x \in RunFields |-> run'[x]]
        /\ run'.lease = {} /\ Shows(run'.lease, run'.lines)
    BY <1>2 DEF Idle2, RunFields, Shows
  <2> QED  BY <2>1 DEF ShownInv
<1> QED  BY <1>1, <1>2 DEF Gathered, Continue

\* The message carries the topics that were leased.
LEMMA CarriedShows ==
  ASSUME ShownInv, NEW k, NEW chosen \in BestTopics(TopicsOf(waiting)), LeaseTopics(k, chosen), Carries(chosen)
  PROVE  ShownInv'
<1>1. Shows(UNION chosen, Rendered(chosen)) /\ UNION chosen \subseteq waiting  BY RenderedShows DEF ShownInv
<1>2. PICK r : r = [run EXCEPT !.at = "dispatch", !.lease = UNION chosen, !.lines = Rendered(chosen)]  OBVIOUS
<1>3. run' = r /\ UNCHANGED <<lapsing, deliveries>> /\ waiting' = waiting \ UNION chosen
  BY <1>2 DEF Carries, Continue, LeaseTopics
<1>4. r = [x \in RunFields |-> r[x]] /\ r.lease = UNION chosen /\ r.lines = Rendered(chosen)
  <2>1. run = [x \in RunFields |-> run[x]]  BY DEF ShownInv
  <2> QED  BY <1>2, <2>1 DEF RunFields
<1>5. Shows(r.lease, r.lines) /\ r.lease \subseteq BriefingStories  BY <1>1, <1>4 DEF ShownInv
<1> QED  BY <1>3, <1>4, <1>5 DEF ShownInv

\* Topics that no message carries lapse, and the fetch goes on as r.
LEMMA LeftOverShows ==
  ASSUME ShownInv, NEW k, NEW chosen \in BestTopics(TopicsOf(waiting)), LeaseTopics(k, chosen),
         NEW r, LeftOver(r, chosen), r = [x \in RunFields |-> r[x]],
         r.lease \subseteq BriefingStories, Shows(r.lease, r.lines)
  PROVE  ShownInv'
<1>1. UNION chosen \subseteq waiting  BY RenderedShows DEF ShownInv
<1>2. run' = r /\ UNCHANGED deliveries /\ waiting' = waiting \ UNION chosen /\ lapsing' = lapsing \cup UNION chosen
  BY DEF LeftOver, Continue, LeaseTopics
<1> QED  BY <1>1, <1>2 DEF ShownInv

LEMMA BriefingStep == ShownInv /\ [BriefingNext]_briefingVars => ShownInv'
<1> SUFFICES ASSUME ShownInv, [BriefingNext]_briefingVars  PROVE ShownInv'
  OBVIOUS
<1>1. CASE FetchPreMarket  BY <1>1, GatheredShows DEF FetchPreMarket, StartRun
<1>2. CASE FetchClosing  BY <1>2, GatheredShows DEF FetchClosing, StartRun
<1>3. CASE FetchUSPreview  BY <1>3, GatheredShows DEF FetchUSPreview, StartRun
<1>4. CASE FetchBlockBeats
  <2>1. UNCHANGED <<waiting, lapsing, deliveries>>  BY <1>4 DEF FetchBlockBeats, StartRun
  <2>2. PICK content \in BOOLEAN : run' = [Idle2 EXCEPT !.at = "lease", !.content = content]
    BY <1>4 DEF FetchBlockBeats, Continue
  <2>3. run' = [x \in RunFields |-> run'[x]] /\ run'.lease = {} /\ Shows(run'.lease, run'.lines)
    BY <2>2 DEF Idle2, RunFields, Shows
  <2> QED  BY <2>1, <2>3 DEF ShownInv
<1>5. CASE LeaseFails  BY <1>5, IdleShows DEF LeaseFails, Continue, ShownInv
<1>6. CASE AppendDigest
  <2>1. PICK chosen \in BestTopics(TopicsOf(waiting)) :
          /\ LeaseTopics("us_preview", chosen)
          /\ IF Rendered(chosen) = {} THEN LeftOver([run EXCEPT !.at = "dispatch"], chosen) ELSE Carries(chosen)
    BY <1>6 DEF AppendDigest
  <2>2. CASE Rendered(chosen) # {}  BY <2>1, <2>2, CarriedShows
  <2>3. CASE Rendered(chosen) = {}
    <3>1. PICK r : r = [run EXCEPT !.at = "dispatch"]  OBVIOUS
    <3>2. r = [x \in RunFields |-> r[x]] /\ r.lease = run.lease /\ r.lines = run.lines
      <4>1. run = [x \in RunFields |-> run[x]]  BY DEF ShownInv
      <4> QED  BY <3>1, <4>1 DEF RunFields
    <3>3. r.lease \subseteq BriefingStories /\ Shows(r.lease, r.lines)  BY <3>2 DEF ShownInv
    <3>4. LeftOver(r, chosen)  BY <2>1, <2>3, <3>1
    <3> QED  BY <2>1, <3>2, <3>3, <3>4, LeftOverShows
  <2> QED  BY <2>2, <2>3
<1>7. CASE LeaseForAggregate
  <2>1. PICK chosen \in BestTopics(TopicsOf(waiting)) :
          /\ LeaseTopics("aggregate", chosen)
          /\ IF ~ run.content /\ Rendered(chosen) = {} THEN LeftOver(Idle2, chosen) ELSE Carries(chosen)
    BY <1>7 DEF LeaseForAggregate
  <2>2. CASE Carries(chosen)  BY <2>1, <2>2, CarriedShows
  <2>3. CASE LeftOver(Idle2, chosen)  BY <2>1, <2>3, IdleShows, LeftOverShows
  <2> QED  BY <2>1, <2>2, <2>3
<1>8. CASE Dispatch
  <2>1. /\ run' = Idle2 /\ waiting' = waiting
        /\ \/ lapsing' = lapsing \cup run.lease /\ deliveries' = deliveries
           \/ /\ deliveries' = deliveries \cup {[items |-> run.lease, lines |-> run.lines]}
              /\ lapsing' = lapsing
    BY <1>8 DEF Dispatch, Continue
  <2>2. lapsing' \subseteq BriefingStories  BY <2>1 DEF ShownInv
  <2>3. \A p \in deliveries' : Shows(p.items, p.lines)  BY <2>1 DEF ShownInv
  <2> QED  BY <2>1, <2>2, <2>3, IdleShows DEF ShownInv
<1>9. CASE LeasesLapse  BY <1>9 DEF LeasesLapse, ShownInv
<1>10. CASE UNCHANGED briefingVars  BY <1>10 DEF briefingVars, ShownInv
<1> QED  BY <1>1, <1>2, <1>3, <1>4, <1>5, <1>6, <1>7, <1>8, <1>9, <1>10 DEF BriefingNext

\* For any topics, items and leases: a delivery of a briefing acknowledges only
\* items that its text shows (market_briefing.go: Fetch, renderTopics).
THEOREM BriefingsShowWhatTheyTake == BriefingSpec => []PreparedIsShown
<1>1. BriefingInit => ShownInv  BY IdleShows DEF BriefingInit, ShownInv
<1>2. ShownInv => PreparedIsShown  BY DEF ShownInv, Shows, PreparedIsShown
<1> QED  BY <1>1, <1>2, BriefingStep, PTL DEF BriefingSpec

-----------------------------------------------------------------------------
(* The archive of news.                                                    *)

\* A finite set of news in which an identifier occurs once.
NewsRecords == [id : NewsIds, time : Nat]
NewsSet(S) == /\ S \subseteq NewsRecords /\ IsFiniteSet(S)
              /\ \A m, n \in S : m.id = n.id => m = n

\* What the list shows while nobody writes, and in the middle of a write.
ListAgrees ==
  /\ Ids(list) \subseteq Ids(records)
  /\ \A n \in records : n.id \in Ids(list) \/ Expired(n, hour)
ListWillAgree ==
  /\ Ids(Kept) \subseteq Ids(records)
  /\ \A n \in records : n.id \in Ids(Kept) \/ Expired(n, hour) \/ (writer.retained /\ n \in writer.news)
  /\ writer.retained => \E n \in NewsRecords : writer.news = {n} /\ n.id \in Ids(records)

ArchiveInv ==
  /\ durable \in BOOLEAN /\ limit \in Nat \ {0} /\ hour \in Nat /\ hour >= TTL
  /\ NewsSet(records) /\ NewsSet(list) /\ index = records /\ count = Cardinality(records)
  /\ Cardinality(list) <= limit /\ Cardinality(records) <= limit
  /\ writer.at \in {"free", "saved"}
  /\ ~ durable => records = {} /\ writer.at = "free"
  /\ durable /\ writer.at = "free" => ListAgrees
  /\ writer.at = "saved" => ListWillAgree

LEMMA NewerIsStrict ==
  /\ \A n \in NewsRecords : ~ Newer(n, n)
  /\ \A n, m, k \in NewsRecords : Newer(n, m) /\ Newer(m, k) => Newer(n, k)
  /\ \A n, m \in NewsRecords : n.id # m.id => Newer(n, m) \/ Newer(m, n)
<1>1. \A n \in NewsRecords : n.id \in Nat /\ n.time \in Nat  BY ArchiveAssumption DEF NewsRecords
<1> QED  BY <1>1 DEF Newer

LEMMA SubNewsSet ==
  ASSUME NEW S, NewsSet(S), NEW T, T \subseteq S
  PROVE  NewsSet(T) /\ Cardinality(T) <= Cardinality(S) /\ Cardinality(T) \in Nat
BY FS_Subset, FS_CardinalityType DEF NewsSet

LEMMA OldestIsThere ==
  ASSUME NEW S, NewsSet(S), S # {}
  PROVE  Oldest(S) \in S /\ \A m \in S \ {Oldest(S)} : Newer(m, Oldest(S))
<1> DEFINE R == {w \in S \X S : Newer(w[2], w[1])}
<1>1. \A x, y \in S : <<x, y>> \in R <=> Newer(y, x)  OBVIOUS
<1>2. S \subseteq NewsRecords /\ IsFiniteSet(S)  BY DEF NewsSet
<1>3. PICK x \in S : \A y \in S : <<y, x>> \notin R
  <2>1. \A y \in S : <<y, y>> \notin R  BY <1>1, <1>2, NewerIsStrict
  <2>2. \A u, v, w \in S : <<u, v>> \in R /\ <<v, w>> \in R => <<u, w>> \in R
    <3> HIDE DEF R
    <3> QED  BY <1>1, <1>2, NewerIsStrict
  <2> HIDE DEF R
  <2> QED  BY <1>2, <2>1, <2>2, Extremal
<1>4. ASSUME NEW y \in S \ {x}  PROVE Newer(y, x)
  <2>1. ~ Newer(x, y)  BY <1>1, <1>3
  <2>2. y.id # x.id  BY <1>4 DEF NewsSet
  <2> QED  BY <1>2, <2>1, <2>2, NewerIsStrict
<1> QED  BY <1>4 DEF Oldest

\* Another news set fits where its identifiers occur.
LEMMA ListFits ==
  ASSUME NEW S, NewsSet(S), NEW T, NewsSet(T), Ids(S) \subseteq Ids(T)
  PROVE  Cardinality(S) <= Cardinality(T)
<1> DEFINE f == [m \in S |-> CHOOSE n \in T : n.id = m.id]
<1>1. \A m \in S : f[m] \in T /\ f[m].id = m.id
  <2> SUFFICES ASSUME NEW m \in S  PROVE \E n \in T : n.id = m.id
    OBVIOUS
  <2>1. m.id \in Ids(T)  BY DEF Ids
  <2> QED  BY <2>1 DEF Ids
<1>2. f \in Injection(S, T)
  <2>1. \A m, n \in S : f[m] = f[n] => m = n
    <3> HIDE DEF f
    <3> QED  BY <1>1 DEF NewsSet
  <2>2. f \in [S -> T]  BY <1>1
  <2> HIDE DEF f
  <2> QED  BY <2>1, <2>2 DEF Injection, IsInjective
<1> HIDE DEF f
<1> QED  BY <1>2, FS_Injection DEF NewsSet

\* The newest k are at most k: no two have the same rank.
LEMMA NewestAreFew ==
  ASSUME NEW S, NewsSet(S), NEW k \in Nat
  PROVE  Cardinality(Newest(S, k)) <= k
<1> DEFINE above(n) == {m \in S : Newer(m, n)}
           rank == [n \in Newest(S, k) |-> Cardinality(above(n))]
<1>1. S \subseteq NewsRecords /\ IsFiniteSet(S)  BY DEF NewsSet
<1>2. \A n \in S : IsFiniteSet(above(n)) /\ Cardinality(above(n)) \in Nat
  <2> SUFFICES ASSUME NEW n \in S  PROVE IsFiniteSet(above(n)) /\ Cardinality(above(n)) \in Nat
    OBVIOUS
  <2>1. above(n) \in SUBSET S  OBVIOUS
  <2> HIDE DEF above
  <2> QED  BY <1>1, <2>1, FS_Subset, FS_CardinalityType
<1>3. \A n, m \in S : Newer(n, m) => Cardinality(above(n)) # Cardinality(above(m))
  <2> SUFFICES ASSUME NEW n \in S, NEW m \in S, Newer(n, m)
               PROVE  Cardinality(above(n)) # Cardinality(above(m))
    OBVIOUS
  <2>1. above(n) \in SUBSET above(m)
    <3> SUFFICES ASSUME NEW x \in S, Newer(x, n)  PROVE Newer(x, m)
      OBVIOUS
    <3> QED  BY <1>1, NewerIsStrict
  <2>2. n \in above(m) /\ n \notin above(n)  BY <1>1, NewerIsStrict
  <2> HIDE DEF above
  <2> QED  BY <1>2, <2>1, <2>2, FS_Subset
<1>4. rank \in Injection(Newest(S, k), 0..(k - 1))
  <2>1. \A n \in Newest(S, k) : n \in S /\ Cardinality(above(n)) < k  BY DEF Newest
  <2>2. \A n \in Newest(S, k) : rank[n] = Cardinality(above(n))  OBVIOUS
  <2>3. rank \in [Newest(S, k) -> 0..(k - 1)]
    <3>1. \A n \in Newest(S, k) : Cardinality(above(n)) \in 0..(k - 1)
      <4> HIDE DEF above
      <4> QED  BY <1>2, <2>1
    <3> QED  BY <3>1
  <2>4. \A n, m \in Newest(S, k) : rank[n] = rank[m] => n = m
    <3> SUFFICES ASSUME NEW n \in Newest(S, k), NEW m \in Newest(S, k), n # m
                 PROVE  rank[n] # rank[m]
      OBVIOUS
    <3>1. n.id # m.id  BY <2>1 DEF NewsSet
    <3>2. Newer(n, m) \/ Newer(m, n)  BY <1>1, <2>1, <3>1, NewerIsStrict
    <3> HIDE DEF above, rank
    <3> QED  BY <1>3, <2>1, <2>2, <3>2
  <2> HIDE DEF rank
  <2> QED  BY <2>3, <2>4 DEF Injection, IsInjective
<1>5. IsFiniteSet(0..(k - 1)) /\ Cardinality(0..(k - 1)) = k
  BY FS_Interval
<1> HIDE DEF rank
<1> QED  BY <1>4, <1>5, FS_Injection

\* What pruneNews leaves of an index with its counter keeps the limit.
LEMMA PrunedFits ==
  ASSUME NEW idx, NewsSet(idx), limit \in Nat \ {0}, Cardinality(idx) <= limit + 1
  PROVE  LET gone == Pruned(idx, Cardinality(idx))
         IN  /\ NewsSet(idx \ gone) /\ Cardinality(idx \ gone) <= limit
             /\ Cardinality(idx \ gone) = Cardinality(idx) - Cardinality(gone)
             /\ gone \subseteq idx
<1> DEFINE gone == Pruned(idx, Cardinality(idx))
<1>1. gone \subseteq idx  BY DEF Pruned
<1>2. IsFiniteSet(idx) /\ Cardinality(idx) \in Nat  BY FS_CardinalityType DEF NewsSet
<1>3. Cardinality(idx \ gone) = Cardinality(idx) - Cardinality(gone)
  <2>1. idx \cap gone = gone  BY <1>1
  <2> HIDE DEF gone
  <2> QED  BY <1>2, <2>1, FS_Difference
<1>4. NewsSet(idx \ gone) /\ Cardinality(idx \ gone) <= Cardinality(idx)
  <2> HIDE DEF gone
  <2> QED  BY SubNewsSet
<1>5. CASE Cardinality(idx) = limit + 1
  <2>1. idx # {}  BY <1>2, <1>5, FS_EmptySet
  <2>2. PICK o \in idx : \A m \in idx \ {o} : Newer(m, o)  BY <2>1, OldestIsThere
  <2>3. {m \in idx : Newer(o, m)} = {}
    <3> SUFFICES ASSUME NEW m \in idx, Newer(o, m)  PROVE FALSE
      OBVIOUS
    <3>1. o \in NewsRecords /\ m \in NewsRecords  BY DEF NewsSet
    <3>2. ~ Newer(o, o)  BY <3>1, NewerIsStrict
    <3>3. m # o  BY <3>2
    <3>4. Newer(m, o)  BY <2>2, <3>3
    <3>5. Newer(o, o)  BY <3>1, <3>4, NewerIsStrict
    <3> QED  BY <3>2, <3>5
  <2>4. Cardinality({m \in idx : Newer(o, m)}) + limit < Cardinality(idx)
    BY <1>5, <2>3, FS_EmptySet
  <2>5. o \in gone  BY <2>4 DEF Pruned
  <2>6. idx \ gone \in SUBSET (idx \ {o})  BY <2>5
  <2>7. IsFiniteSet(idx \ {o}) /\ Cardinality(idx \ {o}) = limit
    BY <1>2, <1>5, FS_RemoveElement
  <2>8. Cardinality(idx \ gone) <= limit
    <3> HIDE DEF gone
    <3> QED  BY <2>6, <2>7, FS_Subset
  <2> QED  BY <1>1, <1>3, <1>4, <2>8
<1>6. CASE Cardinality(idx) # limit + 1
  <2>1. Cardinality(idx) <= limit  BY <1>2, <1>6
  <2>2. Cardinality(idx \ gone) \in Nat
    <3> HIDE DEF gone
    <3> QED  BY <1>4, FS_CardinalityType DEF NewsSet
  <2>3. Cardinality(idx \ gone) <= limit
    <3> HIDE DEF gone
    <3> QED  BY <1>2, <1>4, <2>1, <2>2
  <2> QED  BY <1>1, <1>3, <1>4, <2>3
<1> QED  BY <1>5, <1>6

\* What an insertion does to a list within the limit.
LEMMA InsertedFits ==
  ASSUME NEW lst, NewsSet(lst), NEW n \in NewsRecords, n.id \notin Ids(lst),
         limit \in Nat \ {0}, Cardinality(lst) <= limit
  PROVE  /\ NewsSet(Inserted(lst, n)) /\ Cardinality(Inserted(lst, n)) <= limit
         /\ Inserted(lst, n) \subseteq lst \cup {n}
         /\ Cardinality(lst) < limit /\ ~ Expired(n, hour) => Inserted(lst, n) = lst \cup {n}
<1>1. IsFiniteSet(lst) /\ Cardinality(lst) \in Nat  BY FS_CardinalityType DEF NewsSet
<1>2. \A S \in SUBSET lst : NewsSet(S \cup {n})
  <2> SUFFICES ASSUME NEW S \in SUBSET lst  PROVE NewsSet(S \cup {n})
    OBVIOUS
  <2>1. IsFiniteSet(S \cup {n})  BY <1>1, FS_Subset, FS_AddElement
  <2>2. \A m \in S : m.id # n.id  BY DEF Ids
  <2> QED  BY <2>1, <2>2 DEF NewsSet
<1>3. CASE Expired(n, hour)  BY <1>3 DEF Inserted
<1>4. CASE ~ Expired(n, hour) /\ Cardinality(lst) < limit
  <2>1. Inserted(lst, n) = lst \cup {n}  BY <1>4 DEF Inserted
  <2>2. Cardinality(lst \cup {n}) <= limit  BY <1>1, <1>4, FS_AddElement
  <2> QED  BY <1>2, <2>1, <2>2
<1>5. CASE ~ Expired(n, hour) /\ ~ Cardinality(lst) < limit
  <2>1. lst # {} /\ Cardinality(lst) = limit  BY <1>1, <1>5, FS_EmptySet
  <2>2. PICK o \in lst : o = Oldest(lst)  BY <2>1, OldestIsThere
  <2>3. IsFiniteSet(lst \ {o}) /\ Cardinality(lst \ {o}) = limit - 1
    BY <1>1, <2>1, FS_RemoveElement
  <2>4. Cardinality((lst \ {o}) \cup {n}) <= limit
    <3>1. n \notin lst \ {o}  BY DEF Ids
    <3>2. Cardinality((lst \ {o}) \cup {n}) = Cardinality(lst \ {o}) + 1
      BY <2>3, <3>1, FS_AddElement
    <3> QED  BY <2>3, <3>2
  <2>5. NewsSet((lst \ {o}) \cup {n})  BY <1>2
  <2>6. Inserted(lst, n) = (lst \ {o}) \cup {n} \/ Inserted(lst, n) = lst
    BY <1>5, <2>2 DEF Inserted
  <2> QED  BY <1>1, <1>5, <2>1, <2>4, <2>5, <2>6
<1> QED  BY <1>3, <1>4, <1>5

LEMMA FetchedNews == ArchiveInv => \A n \in Fetched : n \in NewsRecords
<1> SUFFICES ASSUME ArchiveInv, NEW n \in Fetched  PROVE n \in NewsRecords
  OBVIOUS
<1>1. hour - TTL \in Nat  BY ArchiveAssumption DEF ArchiveInv
<1> QED  BY <1>1 DEF Fetched, NewsRecords, ArchiveInv

LEMMA MemoryKeeps ==
  ArchiveInv /\ ((\E n \in Fetched : SaveInMemory(n)) \/ CleanupMemory) => ArchiveInv'
<1> SUFFICES ASSUME ArchiveInv, (\E n \in Fetched : SaveInMemory(n)) \/ CleanupMemory
             PROVE  ArchiveInv'
  OBVIOUS
<1> DEFINE valid == {m \in list : ~ Expired(m, hour)}
<1>1. /\ ~ durable /\ UNCHANGED <<durable, limit, database, writer, hour, deaths>>
      /\ writer.at = "free"
  BY DEF SaveInMemory, CleanupMemory, ArchiveInv
<1>2. NewsSet(valid) /\ Cardinality(valid) <= limit
  <2>1. NewsSet(list) /\ Cardinality(list) <= limit /\ limit \in Nat  BY DEF ArchiveInv
  <2>2. Cardinality(list) \in Nat  BY <2>1, FS_CardinalityType DEF NewsSet
  <2>3. valid \subseteq list  OBVIOUS
  <2> HIDE DEF valid
  <2> QED  BY <2>1, <2>2, <2>3, SubNewsSet
<1>3. NewsSet(list') /\ Cardinality(list') <= limit
  <2>1. CASE CleanupMemory  BY <1>2, <2>1 DEF CleanupMemory
  <2>2. ASSUME NEW n \in Fetched, SaveInMemory(n)  PROVE NewsSet(list') /\ Cardinality(list') <= limit
    <3>1. n.id \notin Ids(valid) /\ list' = Inserted(valid, n)
      BY <2>2 DEF SaveInMemory, Ids
    <3>2. n \in NewsRecords /\ limit \in Nat \ {0}  BY FetchedNews DEF ArchiveInv
    <3> HIDE DEF valid
    <3> QED  BY <1>2, <3>1, <3>2, InsertedFits
  <2> QED  BY <2>1, <2>2
<1> QED  BY <1>1, <1>3 DEF ArchiveInv, database, NewsSet

\* The database and the list after its half of a write: what was deleted
\* leaves both, and the new record is there.
LEMMA PersistKeeps ==
  ASSUME NEW n \in Fetched
  PROVE  ArchiveInv /\ PersistNews(n) => ArchiveInv'
<1> SUFFICES ASSUME ArchiveInv, PersistNews(n)  PROVE ArchiveInv'
  OBVIOUS
<1>1. /\ durable /\ writer.at = "free" /\ ListAgrees /\ n \in NewsRecords
      /\ UNCHANGED <<durable, limit, list, hour, deaths>>
  BY FetchedNews DEF PersistNews, ArchiveInv
<1>2. CASE n.id \in Ids(records)
  <2>1. /\ UNCHANGED <<records, index, count>>
        /\ writer' = [Free EXCEPT !.at = "saved", !.news = {n}, !.retained = TRUE]
    BY <1>2 DEF PersistNews, database
  <2>2. /\ writer'.at = "saved" /\ writer'.news = {n} /\ writer'.deleted = {} /\ writer'.retained
    BY <2>1 DEF Free
  <2>3. Kept' = list  BY <1>1, <2>2 DEF Kept
  <2>4. ListWillAgree'
    BY <1>1, <1>2, <2>1, <2>2, <2>3 DEF ListWillAgree, ListAgrees, Expired, Ids
  <2> QED  BY <1>1, <2>1, <2>2, <2>4 DEF ArchiveInv, NewsSet
<1>3. CASE n.id \notin Ids(records)
  <2> DEFINE idx == index \cup {n}
             gone == Pruned(idx, count + 1)
  <2>1. /\ records' = (records \cup {n}) \ gone /\ index' = idx \ gone
        /\ count' = count + 1 - Cardinality(gone)
        /\ writer' = [at |-> "saved", news |-> {n}, deleted |-> Ids(gone), retained |-> n \notin gone]
    BY <1>3 DEF PersistNews
  <2>2. /\ NewsSet(records) /\ index = records /\ count = Cardinality(records)
        /\ Cardinality(records) <= limit /\ limit \in Nat \ {0} /\ Cardinality(records) \in Nat
    BY FS_CardinalityType DEF ArchiveInv, NewsSet
  <2>3. NewsSet(idx) /\ Cardinality(idx) = count + 1
    <3>1. n \notin records /\ \A m \in records : m.id # n.id  BY <1>3 DEF Ids
    <3>2. IsFiniteSet(records \cup {n}) /\ Cardinality(records \cup {n}) = Cardinality(records) + 1
      BY <2>2, <3>1, FS_AddElement DEF NewsSet
    <3> QED  BY <1>1, <2>2, <3>1, <3>2 DEF NewsSet
  <2>4. /\ NewsSet(idx \ gone) /\ Cardinality(idx \ gone) <= limit
        /\ Cardinality(idx \ gone) = count + 1 - Cardinality(gone) /\ gone \subseteq idx
    <3>1. Cardinality(idx) <= limit + 1 /\ gone = Pruned(idx, Cardinality(idx))  BY <2>2, <2>3
    <3> HIDE DEF idx, gone
    <3>2. /\ NewsSet(idx \ gone) /\ Cardinality(idx \ gone) <= limit
          /\ Cardinality(idx \ gone) = Cardinality(idx) - Cardinality(gone) /\ gone \subseteq idx
      BY <2>2, <2>3, <3>1, PrunedFits
    <3>3. Cardinality(gone) \in Nat  BY <2>3, <3>2, FS_Subset, FS_CardinalityType DEF NewsSet
    <3> QED  BY <2>2, <2>3, <3>2, <3>3
  <2>5. records' = idx \ gone  BY <2>1, <2>2
  <2>6. /\ writer'.at = "saved" /\ writer'.news = {n} /\ writer'.deleted = Ids(gone)
        /\ writer'.retained = (n \notin gone)
    <3> HIDE DEF gone
    <3> QED  BY <2>1
  <2>7. Ids(Kept') \subseteq Ids(records')
    <3> SUFFICES ASSUME NEW m \in list, m.id \notin Ids(gone)  PROVE m.id \in Ids(idx \ gone)
      <4> HIDE DEF idx, gone
      <4> QED  BY <1>1, <2>5, <2>6 DEF Kept, Ids
    <3>1. PICK r \in records : r.id = m.id  BY <1>1 DEF ListAgrees, Ids
    <3>2. r \in idx \ gone  BY <2>2, <3>1 DEF Ids
    <3> HIDE DEF idx, gone
    <3> QED  BY <3>1, <3>2 DEF Ids
  <2>8. \A r \in records' : r.id \in Ids(Kept') \/ Expired(r, hour) \/ (writer'.retained /\ r \in writer'.news)
    <3> SUFFICES ASSUME NEW r \in idx \ gone, ~ Expired(r, hour), r # n
                 PROVE  r.id \in Ids(Kept')
      BY <2>5, <2>6
    <3>1. r.id \in Ids(list)  BY <1>1, <2>2 DEF ListAgrees
    <3>2. r.id \notin Ids(gone)
      <4> HIDE DEF idx, gone
      <4> QED  BY <2>3, <2>4 DEF Ids, NewsSet
    <3> HIDE DEF idx, gone
    <3> QED  BY <1>1, <2>6, <3>1, <3>2 DEF Ids, Kept
  <2>9. writer'.retained => \E m \in NewsRecords : writer'.news = {m} /\ m.id \in Ids(records')
    <3> SUFFICES ASSUME n \notin gone  PROVE n.id \in Ids(idx \ gone)
      BY <1>1, <2>5, <2>6
    <3> HIDE DEF gone
    <3> QED  BY DEF Ids
  <2>10. ListWillAgree'
    <3> HIDE DEF idx, gone
    <3> QED  BY <1>1, <2>7, <2>8, <2>9, Zenon DEF ListWillAgree, Expired
  <2> HIDE DEF idx, gone
  <2> QED  BY <1>1, <2>1, <2>2, <2>4, <2>5, <2>6, <2>10 DEF ArchiveInv, NewsSet
<1> QED  BY <1>2, <1>3

LEMMA PurgeKeeps == ArchiveInv /\ PurgePersistent => ArchiveInv'
<1> SUFFICES ASSUME ArchiveInv, PurgePersistent  PROVE ArchiveInv'
  OBVIOUS
<1> DEFINE gone == Pruned(index, count)
<1>1. /\ durable /\ writer.at = "free" /\ ListAgrees
      /\ records' = records \ gone /\ index' = index \ gone /\ count' = count - Cardinality(gone)
      /\ writer' = [Free EXCEPT !.at = "saved", !.deleted = Ids(gone)]
      /\ UNCHANGED <<durable, limit, list, hour, deaths>>
  BY DEF PurgePersistent, ArchiveInv
<1>2. /\ NewsSet(records) /\ index = records /\ count = Cardinality(records)
      /\ Cardinality(records) <= limit /\ limit \in Nat \ {0} /\ Cardinality(records) \in Nat
  BY FS_CardinalityType DEF ArchiveInv, NewsSet
<1>3. /\ NewsSet(records \ gone) /\ Cardinality(records \ gone) <= limit
      /\ Cardinality(records \ gone) = count - Cardinality(gone) /\ gone \subseteq records
  <2>1. Cardinality(records) <= limit + 1  BY <1>2
  <2> QED  BY <1>2, <2>1, PrunedFits
<1>4. writer'.at = "saved" /\ writer'.deleted = Ids(gone) /\ ~ writer'.retained
  <2> HIDE DEF gone
  <2> QED  BY <1>1 DEF Free
<1>5. Ids(Kept') \subseteq Ids(records')
  <2> SUFFICES ASSUME NEW m \in list, m.id \notin Ids(gone)  PROVE m.id \in Ids(records \ gone)
    BY <1>1, <1>4 DEF Kept, Ids
  <2> HIDE DEF gone
  <2> QED  BY <1>1 DEF ListAgrees, Ids
<1>6. \A r \in records' : r.id \in Ids(Kept') \/ Expired(r, hour)
  <2> SUFFICES ASSUME NEW r \in records \ gone, ~ Expired(r, hour)  PROVE r.id \in Ids(Kept')
    BY <1>1
  <2>1. r.id \in Ids(list)  BY <1>1 DEF ListAgrees
  <2> HIDE DEF gone
  <2>2. r.id \notin Ids(gone)  BY <1>2, <1>3 DEF Ids, NewsSet
  <2> QED  BY <1>1, <1>4, <2>1, <2>2 DEF Ids, Kept
<1>7. ListWillAgree'
  <2> HIDE DEF gone
  <2> QED  BY <1>1, <1>4, <1>5, <1>6 DEF ListWillAgree, Expired
<1> HIDE DEF gone
<1> QED  BY <1>1, <1>2, <1>3, <1>4, <1>7 DEF ArchiveInv, NewsSet

\* A retained record that the list does not hold has room in it: the other
\* records outnumber the list.
LEMMA UpdateKeeps == ArchiveInv /\ UpdateList => ArchiveInv'
<1> SUFFICES ASSUME ArchiveInv, UpdateList  PROVE ArchiveInv'
  OBVIOUS
<1>1. /\ writer.at = "saved" /\ writer' = Free /\ ListWillAgree /\ durable
      /\ UNCHANGED <<durable, limit, database, hour, deaths>>
  BY DEF UpdateList, ArchiveInv
<1>2. /\ NewsSet(records) /\ Cardinality(records) <= limit /\ limit \in Nat \ {0}
      /\ NewsSet(list) /\ Cardinality(list) <= limit /\ Cardinality(records) \in Nat
  BY FS_CardinalityType DEF ArchiveInv, NewsSet
<1>3. NewsSet(Kept) /\ Cardinality(Kept) <= limit /\ Cardinality(Kept) \in Nat
  <2>1. Kept \subseteq list  BY DEF Kept
  <2>2. Cardinality(list) \in Nat  BY <1>2, FS_CardinalityType DEF NewsSet
  <2> QED  BY <1>2, <2>1, <2>2, SubNewsSet
<1>4. /\ NewsSet(list') /\ Cardinality(list') <= limit /\ Ids(list') \subseteq Ids(records)
      /\ \A r \in records : r.id \in Ids(list') \/ Expired(r, hour)
  <2>1. CASE ~ writer.retained
    <3>1. list' = Kept  BY <2>1 DEF UpdateList
    <3> QED  BY <1>1, <1>3, <2>1, <3>1 DEF ListWillAgree
  <2>2. CASE writer.retained
    <3>1. PICK n \in NewsRecords : writer.news = {n} /\ n.id \in Ids(records)
      BY <1>1, <2>2 DEF ListWillAgree
    <3>2. list' = IF n.id \in Ids(Kept) THEN Kept ELSE Inserted(Kept, n)
      BY <2>2, <3>1 DEF UpdateList
    <3>3. Ids(Kept) \subseteq Ids(records)
          /\ \A r \in records : r.id \in Ids(Kept) \/ Expired(r, hour) \/ r = n
      BY <1>1, <3>1 DEF ListWillAgree
    <3>4. CASE n.id \in Ids(Kept)
      BY <1>3, <3>2, <3>3, <3>4
    <3>5. CASE n.id \notin Ids(Kept)
      <4>1. /\ NewsSet(Inserted(Kept, n)) /\ Cardinality(Inserted(Kept, n)) <= limit
            /\ Inserted(Kept, n) \subseteq Kept \cup {n}
            /\ Cardinality(Kept) < limit /\ ~ Expired(n, hour) => Inserted(Kept, n) = Kept \cup {n}
        BY <1>2, <1>3, <3>5, InsertedFits
      <4>2. PICK r \in records : r.id = n.id  BY <3>1 DEF Ids
      <4>3. Cardinality(Kept) < limit
        <5>1. IsFiniteSet(records \ {r}) /\ Cardinality(records \ {r}) = Cardinality(records) - 1
          BY <1>2, FS_RemoveElement DEF NewsSet
        <5>2. NewsSet(records \ {r})  BY <1>2, <5>1 DEF NewsSet
        <5>3. Ids(Kept) \subseteq Ids(records \ {r})  BY <3>3, <3>5, <4>2 DEF Ids
        <5>4. Cardinality(Kept) <= Cardinality(records \ {r})  BY <1>3, <5>2, <5>3, ListFits
        <5> QED  BY <1>2, <1>3, <5>1, <5>4
      <4>4. list' = Inserted(Kept, n)  BY <3>2, <3>5
      <4>5. Ids(list') \subseteq Ids(records)  BY <3>1, <3>3, <4>1, <4>4 DEF Ids
      <4>6. ASSUME NEW q \in records, ~ Expired(q, hour)  PROVE q.id \in Ids(list')
        <5>1. CASE q = n
          <6>1. n \in list'  BY <4>1, <4>3, <4>4, <4>6, <5>1
          <6> QED  BY <5>1, <6>1 DEF Ids
        <5>2. CASE q # n
          <6>1. q.id \in Ids(Kept)  BY <3>3, <4>6, <5>2
          <6>2. CASE Expired(n, hour)
            <7>1. list' = Kept  BY <4>4, <6>2 DEF Inserted
            <7> QED  BY <6>1, <7>1
          <6>3. CASE ~ Expired(n, hour)
            <7>1. list' = Kept \cup {n}  BY <4>1, <4>3, <4>4, <6>3
            <7> QED  BY <6>1, <7>1 DEF Ids
          <6> QED  BY <6>2, <6>3
        <5> QED  BY <5>1, <5>2
      <4> QED  BY <4>1, <4>4, <4>5, <4>6
    <3> QED  BY <3>4, <3>5
  <2> QED  BY <2>1, <2>2
<1>5. writer'.at = "free"  BY <1>1 DEF Free
<1>6. ListAgrees'  BY <1>1, <1>4 DEF ListAgrees, database, Expired, Ids
<1> QED  BY <1>1, <1>2, <1>4, <1>5, <1>6 DEF ArchiveInv, database, NewsSet

LEMMA RestartKeeps == ASSUME NEW max \in Limits  PROVE ArchiveInv /\ RestartArchive(max) => ArchiveInv'
<1> SUFFICES ASSUME ArchiveInv, RestartArchive(max)  PROVE ArchiveInv'
  OBVIOUS
<1> DEFINE valid == {n \in records : ~ Expired(n, hour)}
           kept == Newest(valid, max)
<1>1. /\ limit' = max /\ writer' = Free /\ UNCHANGED <<durable, hour>>
      /\ records' = kept /\ index' = kept /\ count' = Cardinality(kept) /\ list' = kept
  BY DEF RestartArchive
<1>2. max \in Nat \ {0}  BY ArchiveAssumption
<1>3. kept \subseteq records  BY DEF Newest
<1>4. NewsSet(records)  BY DEF ArchiveInv
<1>5. NewsSet(valid)
  <2>1. valid \subseteq records  OBVIOUS
  <2> HIDE DEF valid
  <2> QED  BY <1>4, <2>1, SubNewsSet
<1>6. NewsSet(kept)
  <2> HIDE DEF kept
  <2> QED  BY <1>3, <1>4, SubNewsSet
<1>7. Cardinality(kept) <= max
  <2> HIDE DEF valid
  <2> QED  BY <1>2, <1>5, NewestAreFew
<1>8. writer'.at = "free"  BY <1>1 DEF Free
<1> HIDE DEF kept
<1>9. ListAgrees'  BY <1>1 DEF ListAgrees, Ids
<1>10. ~ durable => kept = {}  BY <1>3 DEF ArchiveInv
<1>11. NewsSet(records') /\ NewsSet(list')  BY <1>1, <1>6 DEF NewsSet
<1> QED  BY <1>1, <1>2, <1>7, <1>8, <1>9, <1>10, <1>11 DEF ArchiveInv

\* Time only lets more of the records expire.
LEMMA TimeKeeps == ArchiveInv /\ (TimePasses \/ UNCHANGED archiveVars) => ArchiveInv'
<1> SUFFICES ASSUME ArchiveInv, TimePasses \/ UNCHANGED archiveVars  PROVE ArchiveInv'
  OBVIOUS
<1>1. /\ hour' \in Nat /\ hour' >= hour /\ hour' >= TTL
      /\ UNCHANGED <<durable, limit, records, index, count, list, writer>>
  BY ArchiveAssumption DEF TimePasses, archiveVars, database, ArchiveInv
<1>2. \A n \in NewsRecords : Expired(n, hour) => Expired(n, hour')
  BY <1>1, ArchiveAssumption DEF Expired, NewsRecords, ArchiveInv
<1>3. records \subseteq NewsRecords  BY DEF ArchiveInv, NewsSet
<1>4. ListAgrees => ListAgrees'
  <2> SUFFICES ASSUME ListAgrees  PROVE ListAgrees'
    OBVIOUS
  <2>1. \A r \in records : r.id \in Ids(list) \/ Expired(r, hour')  BY <1>2, <1>3 DEF ListAgrees
  <2> QED  BY <1>1, <2>1 DEF ListAgrees, Ids
<1>5. ListWillAgree => ListWillAgree'
  <2> SUFFICES ASSUME ListWillAgree  PROVE ListWillAgree'
    OBVIOUS
  <2>1. Kept' = Kept  BY <1>1 DEF Kept
  <2>2. \A r \in records : r.id \in Ids(Kept) \/ Expired(r, hour') \/ (writer.retained /\ r \in writer.news)
    BY <1>2, <1>3 DEF ListWillAgree
  <2> QED  BY <1>1, <2>1, <2>2 DEF ListWillAgree, Ids
<1> QED  BY <1>1, <1>4, <1>5 DEF ArchiveInv, NewsSet

\* For any limits and any deaths of the process: between writes the list holds
\* what the database holds, but for expired records, and both keep the limit
\* (news_archive.go: Save, savePersistent, pruneNews, insertNewsUnsafe).
THEOREM QueriesSeeTheDatabase == ArchiveSpec => []ListShowsRecords
<1>1. ArchiveInit => ArchiveInv
  <2> SUFFICES ASSUME ArchiveInit  PROVE ArchiveInv
    OBVIOUS
  <2>1. limit \in Nat \ {0} /\ hour \in Nat /\ hour >= TTL  BY ArchiveAssumption DEF ArchiveInit
  <2>2. NewsSet({}) /\ Cardinality({}) = 0  BY FS_EmptySet DEF NewsSet
  <2>3. writer.at = "free"  BY DEF ArchiveInit, Free
  <2>4. ListAgrees  BY DEF ArchiveInit, ListAgrees, Ids
  <2> QED  BY <2>1, <2>2, <2>3, <2>4 DEF ArchiveInit, ArchiveInv
<1>2. ArchiveInv /\ [ArchiveNext]_archiveVars => ArchiveInv'
  <2> SUFFICES ASSUME ArchiveInv, [ArchiveNext]_archiveVars  PROVE ArchiveInv'
    OBVIOUS
  <2>1. ASSUME NEW n \in Fetched, SaveInMemory(n)  PROVE ArchiveInv'  BY <2>1, MemoryKeeps
  <2>2. ASSUME NEW n \in Fetched, PersistNews(n)  PROVE ArchiveInv'  BY <2>2, PersistKeeps
  <2>3. CASE UpdateList  BY <2>3, UpdateKeeps
  <2>4. CASE PurgePersistent  BY <2>4, PurgeKeeps
  <2>5. CASE CleanupMemory  BY <2>5, MemoryKeeps
  <2>6. ASSUME NEW max \in Limits, RestartArchive(max)  PROVE ArchiveInv'  BY <2>6, RestartKeeps
  <2>7. CASE TimePasses \/ UNCHANGED archiveVars  BY <2>7, TimeKeeps
  <2> QED  BY <2>1, <2>2, <2>3, <2>4, <2>5, <2>6, <2>7 DEF ArchiveNext
<1>3. ArchiveInv => ListShowsRecords  BY DEF ArchiveInv, ListAgrees, ListShowsRecords
<1> QED  BY <1>1, <1>2, <1>3, PTL DEF ArchiveSpec

-----------------------------------------------------------------------------
(* The slots of a source.                                                  *)

Stages == {"start", "ended", "lookup", "wait", "fetch", "mark"}
Covered(s) == s \in fired \cup overrun \cup slotsExcused

\* A slot that has run is marked, or about to be; the slot the goroutine is
\* about has not run; and the slots up to now, or to the one it waits for,
\* are accounted for.
SlotInv ==
  /\ now \in 0..End /\ timer \in Nat /\ since \in Nat /\ slotRuns \in [AllSlots -> Nat]
  /\ slotLoop = Begin(slotLoop.at, slotLoop.slot) /\ slotLoop.at \in Stages
  /\ \A s \in AllSlots \ slotsExcused :
       /\ slotRuns[s] <= 1
       /\ slotRuns[s] > 0 => s <= now /\ (s \in mark \/ slotLoop = Begin("mark", s))
       /\ slotLoop.slot = s =>
            /\ slotLoop.at = "lookup" => s <= now
            /\ slotLoop.at = "fetch" => s <= now /\ slotRuns[s] = 0
            /\ slotLoop.at = "wait" => s = now + timer /\ slotRuns[s] = 0
  /\ slotLoop.at = "wait" =>
       /\ slotLoop.slot \in AllSlots /\ now + timer <= slotLoop.slot
       /\ \A s \in AllSlots : since < s /\ s < slotLoop.slot => Covered(s)
  /\ slotLoop.at \in {"fetch", "mark"} => \A s \in AllSlots : since < s /\ s <= now => Covered(s)

LEMMA Division ==
  ASSUME NEW d \in Nat \ {0}, NEW a \in Nat
  PROVE  a % d \in 0..(d - 1) /\ a \div d \in Int /\ a = d * (a \div d) + (a % d)
<1>1. a % d \in Int /\ a \div d \in Int  BY SMT
<1>2. a % d >= 0 /\ a % d < d  BY SMTT(30)
<1>3. a = d * (a \div d) + (a % d)  BY SMTT(30)
<1> QED  BY <1>1, <1>2, <1>3

LEMMA Remainder ==
  ASSUME NEW d \in Nat \ {0}, NEW q \in Nat, NEW r \in 0..(d - 1)
  PROVE  (q * d + r) % d = r
<1> DEFINE a == q * d + r
<1>1. q * d \in Nat  BY SMTT(30)
<1>2. a \in Nat  BY <1>1
<1>3. PICK p \in Int, t \in 0..(d - 1) : a = d * p + t /\ a % d = t
  <2> HIDE DEF a
  <2> QED  BY <1>2, Division
<1>4. d * (q - p) = t - r
  <2>1. q * d + r = d * p + t  BY <1>3
  <2>2. q * d = d * q  BY SMTT(30)
  <2>3. d * (q - p) = d * q - d * p  BY SMTT(30)
  <2>4. d * q \in Int /\ d * p \in Int  BY SMTT(30)
  <2> QED  BY <2>1, <2>2, <2>3, <2>4
<1>5. q = p
  <2>1. ASSUME NEW k \in Int, k >= 1  PROVE d * k >= d  BY <2>1, SMTT(30)
  <2>2. ASSUME NEW k \in Int, k <= -1  PROVE d * k <= - d  BY <2>2, SMTT(30)
  <2>3. t - r < d /\ t - r > - d  OBVIOUS
  <2>4. ~ (q - p >= 1)  BY <1>4, <2>1, <2>3
  <2>5. ~ (q - p <= -1)  BY <1>4, <2>2, <2>3
  <2> QED  BY <2>4, <2>5
<1>6. t = r
  <2>1. d * 0 = 0  OBVIOUS
  <2>2. q - p = 0  BY <1>5
  <2> QED  BY <1>4, <2>1, <2>2
<1> QED  BY <1>3, <1>6

\* There is a slot after every moment of the model, and a next one.
LEMMA NextIsLater ==
  ASSUME NEW t \in 0..End
  PROVE  /\ NextSlot(t) \in AllSlots /\ NextSlot(t) > t
         /\ \A s \in AllSlots : s > t => NextSlot(t) <= s
<1> DEFINE later == {s \in AllSlots : s > t}
<1>1. Days * DayLength \in Nat /\ (Days + 1) * DayLength = Days * DayLength + DayLength
      /\ DayLength \in Nat \ {0} /\ Days \in Nat
  BY ScheduleAssumption, SMTT(30)
<1>2. End \in Nat  BY <1>1 DEF End
<1>3. PICK c \in Schedule : c \in 0..(DayLength - 1)  BY ScheduleAssumption
<1>4. later # {}
  <2>1. CASE c > 0
    <3>1. (Days * DayLength + c) % DayLength = c  BY <1>1, <1>3, Remainder
    <3>2. End + c \in later  BY <1>1, <1>2, <1>3, <2>1, <3>1 DEF AllSlots, End
    <3> QED  BY <3>2
  <2>2. CASE c = 0
    <3>1. 0 \in 0..(DayLength - 1) /\ Days + 1 \in Nat  BY <1>1
    <3>2. ((Days + 1) * DayLength + 0) % DayLength = 0  BY <1>1, <3>1, Remainder
    <3>3. (Days + 1) * DayLength + 0 = End + DayLength  BY <1>1 DEF End
    <3>4. (End + DayLength) % DayLength = 0  BY <3>2, <3>3
    <3>5. End + DayLength \in later  BY <1>1, <1>2, <1>3, <2>2, <3>4 DEF AllSlots
    <3> QED  BY <3>5
  <2> QED  BY <1>1, <1>3, <2>1, <2>2
<1>5. IsFiniteSet(later) /\ later \in SUBSET Nat
  <2>1. later \in SUBSET (0..(End + DayLength))  BY DEF AllSlots
  <2>2. IsFiniteSet(0..(End + DayLength))  BY <1>1, <1>2, FS_Interval
  <2>3. 0..(End + DayLength) \subseteq Nat  OBVIOUS
  <2> HIDE DEF later
  <2>4. IsFiniteSet(later)  BY <2>1, <2>2, FS_Subset
  <2> QED  BY <2>1, <2>3, <2>4
<1>6. PICK x \in later : \A y \in later : x <= y
  <2> HIDE DEF later
  <2> QED  BY <1>4, <1>5, LeastOf
<1>7. NextSlot(t) \in later /\ \A y \in later : NextSlot(t) <= y
  BY <1>6 DEF NextSlot, Min
<1> QED  BY <1>7

LEMMA LatestIsPast ==
  ASSUME NEW t \in Nat, PastSlots(t) # {}
  PROVE  Max(PastSlots(t)) \in AllSlots /\ Max(PastSlots(t)) <= t
<1>1. PastSlots(t) \in SUBSET (0..t)  BY DEF PastSlots, AllSlots
<1>2. IsFiniteSet(0..t)  BY FS_Interval
<1>3. IsFiniteSet(PastSlots(t)) /\ PastSlots(t) \in SUBSET Nat  BY <1>1, <1>2, FS_Subset
<1>4. PICK x \in PastSlots(t) : \A y \in PastSlots(t) : y <= x  BY <1>3, GreatestOf
<1>5. Max(PastSlots(t)) \in PastSlots(t)
  <2>1. \A y \in PastSlots(t) : x >= y  BY <1>3, <1>4
  <2> QED  BY <2>1 DEF Max
<1> QED  BY <1>5 DEF PastSlots

\* Going to wait: no slot lies between now and the next one.
LEMMA WaitKeeps ==
  ASSUME SlotInv, NEW begun \in Nat, Wait(begun), UNCHANGED <<now, slotRuns>>,
         slotsExcused \subseteq slotsExcused',
         \A s \in AllSlots : begun < s /\ s <= now => Covered(s)',
         \A s \in AllSlots \ slotsExcused' : slotRuns[s] > 0 => s \in mark'
  PROVE  SlotInv'
<1> DEFINE next == NextSlot(now)
<1>1. next \in AllSlots /\ next > now /\ \A s \in AllSlots : s > now => next <= s
  BY NextIsLater DEF SlotInv
<1>2. now \in Nat /\ next \in Nat
  BY <1>1 DEF SlotInv, AllSlots
<1>3. slotLoop' = Begin("wait", next) /\ timer' = next - now /\ since' = begun
  BY DEF Wait
<1> HIDE DEF next
<1>4. slotLoop'.at = "wait" /\ slotLoop'.slot = next /\ slotLoop' = Begin(slotLoop'.at, slotLoop'.slot)
  BY <1>3 DEF Begin
<1>5. timer' \in Nat /\ now + timer' = next  BY <1>1, <1>2, <1>3
<1>6. AllSlots \subseteq Nat  BY DEF AllSlots
<1>7. ASSUME NEW s \in AllSlots \ slotsExcused'
      PROVE  /\ slotRuns[s] <= 1
             /\ slotRuns[s] > 0 => s <= now /\ s \in mark'
             /\ next = s => slotRuns[s] = 0
  <2>1. slotRuns[s] \in Nat  BY DEF SlotInv
  <2> QED  BY <1>1, <1>2, <1>6, <2>1 DEF SlotInv
<1>8. \A s \in AllSlots : begun < s /\ s < next => Covered(s)'
  BY <1>1, <1>2, <1>6
<1> QED  BY <1>1, <1>3, <1>4, <1>5, <1>7, <1>8 DEF SlotInv, Stages

LEMMA StartSteps == SlotInv /\ StartLoop => SlotInv'
<1> SUFFICES ASSUME SlotInv, StartLoop  PROVE SlotInv'
  OBVIOUS
<1>1. /\ slotLoop.at = "start" /\ fired' = {} /\ overrun' = {}
      /\ UNCHANGED <<now, mark, slotRuns, slotsExcused, crashes, slotFaults, steps>>
  BY DEF StartLoop
<1>2. now \in Nat  BY DEF SlotInv
<1>3. \A s \in AllSlots \ slotsExcused : slotRuns[s] <= 1 /\ (slotRuns[s] > 0 => s <= now /\ s \in mark)
  BY <1>1 DEF SlotInv, Begin
<1>4. CASE ~ Trading(now)
  <2>1. slotLoop' = Begin("ended", None) /\ UNCHANGED <<timer, since>>  BY <1>4 DEF StartLoop
  <2>2. slotLoop'.at = "ended" /\ slotLoop' = Begin(slotLoop'.at, slotLoop'.slot)  BY <2>1 DEF Begin
  <2> QED  BY <1>1, <1>3, <2>1, <2>2 DEF SlotInv, Stages
<1>5. CASE Trading(now) /\ PastSlots(now) = {}
  <2>1. Wait(now)  BY <1>5 DEF StartLoop
  <2>2. \A s \in AllSlots : now < s /\ s <= now => Covered(s)'  BY <1>2 DEF AllSlots
  <2> QED  BY <1>1, <1>2, <1>3, <2>1, <2>2, WaitKeeps
<1>6. CASE Trading(now) /\ PastSlots(now) # {}
  <2> DEFINE slot == Max(PastSlots(now))
  <2>1. slotLoop' = Begin("lookup", slot) /\ UNCHANGED <<timer, since>>  BY <1>6 DEF StartLoop
  <2>2. slot \in AllSlots /\ slot <= now  BY <1>2, <1>6, LatestIsPast
  <2> HIDE DEF slot
  <2>3. slotLoop'.at = "lookup" /\ slotLoop'.slot = slot /\ slotLoop' = Begin(slotLoop'.at, slotLoop'.slot)
    BY <2>1 DEF Begin
  <2> QED  BY <1>1, <1>3, <2>1, <2>2, <2>3 DEF SlotInv, Stages
<1> QED  BY <1>4, <1>5, <1>6

LEMMA CatchUpSteps == SlotInv /\ CatchUp => SlotInv'
<1> SUFFICES ASSUME SlotInv, CatchUp  PROVE SlotInv'
  OBVIOUS
<1> DEFINE now0 == (DayOf(now) * DayLength) + (slotLoop.slot % DayLength)
<1>1. PICK key : key = now0  OBVIOUS
<1>2. /\ slotLoop.at = "lookup" /\ since' = now
      /\ UNCHANGED <<now, mark, slotRuns, fired, overrun, crashes, steps>>
      /\ \/ key \in mark /\ Wait(now) /\ UNCHANGED <<slotsExcused, slotFaults>>
         \/ /\ key \notin mark /\ slotLoop' = Begin("fetch", key)
            /\ slotsExcused' = IF key = slotLoop.slot THEN slotsExcused ELSE slotsExcused \cup {key}
            /\ UNCHANGED <<timer, slotFaults>>
         \/ /\ slotFaults < MaxSlotFaults /\ slotFaults' = slotFaults + 1
            /\ slotLoop' = Begin("fetch", key) /\ slotsExcused' = slotsExcused \cup {key}
            /\ UNCHANGED timer
  BY <1>1 DEF CatchUp
<1> HIDE DEF now0
<1>3. now \in Nat  BY DEF SlotInv
<1>4. \A s \in AllSlots \ slotsExcused : slotRuns[s] <= 1 /\ (slotRuns[s] > 0 => s <= now /\ s \in mark)
  BY <1>2 DEF SlotInv, Begin
<1>5. \A s \in AllSlots : now < s /\ s <= now => Covered(s)'  BY <1>3 DEF AllSlots
<1>6. CASE Wait(now) /\ UNCHANGED slotsExcused
  BY <1>2, <1>3, <1>4, <1>5, <1>6, WaitKeeps
<1>7. CASE /\ slotLoop' = Begin("fetch", key) /\ UNCHANGED timer
           /\ slotsExcused' = slotsExcused \cup {key} \/ (slotsExcused' = slotsExcused /\ key \notin mark /\ key = slotLoop.slot)
  <2>1. slotLoop'.at = "fetch" /\ slotLoop'.slot = key /\ slotLoop' = Begin(slotLoop'.at, slotLoop'.slot)
    BY <1>7 DEF Begin
  <2>2. ASSUME NEW s \in AllSlots \ slotsExcused'
        PROVE  /\ slotRuns[s] <= 1 /\ (slotRuns[s] > 0 => s <= now /\ s \in mark)
               /\ key = s => s <= now /\ slotRuns[s] = 0
    <3>1. s \notin slotsExcused  BY <1>7
    <3>2. CASE key # s  BY <1>4, <3>1, <3>2
    <3>3. CASE key = s
      <4>1. key \notin mark /\ key = slotLoop.slot  BY <1>7, <3>3
      <4>2. slotRuns[s] \in Nat  BY DEF SlotInv
      <4> QED  BY <1>2, <1>4, <3>1, <3>3, <4>1, <4>2 DEF SlotInv
    <3> QED  BY <3>2, <3>3
  <2>3. since' \in Nat /\ timer' \in Nat  BY <1>2, <1>3, <1>7 DEF SlotInv
  <2> QED  BY <1>2, <1>5, <2>1, <2>2, <2>3 DEF SlotInv, Stages
<1>8. \/ Wait(now) /\ UNCHANGED slotsExcused
      \/ /\ slotLoop' = Begin("fetch", key) /\ UNCHANGED timer
         /\ slotsExcused' = slotsExcused \cup {key} \/ (slotsExcused' = slotsExcused /\ key \notin mark /\ key = slotLoop.slot)
  BY <1>2
<1> QED  BY <1>6, <1>7, <1>8

LEMMA FireSteps == SlotInv /\ Fire => SlotInv'
<1> SUFFICES ASSUME SlotInv, Fire  PROVE SlotInv'
  OBVIOUS
<1>1. /\ slotLoop.at = "wait" /\ timer = 0 /\ fired' = fired \cup {slotLoop.slot}
      /\ UNCHANGED <<now, mark, slotRuns, overrun, slotsExcused, crashes, slotFaults, steps>>
  BY DEF Fire
<1>2. now \in Nat /\ since \in Nat /\ slotLoop.slot \in AllSlots /\ now <= slotLoop.slot
  BY <1>1 DEF SlotInv
<1>3. AllSlots \subseteq Nat  BY DEF AllSlots
<1>4. \A s \in AllSlots : since < s /\ s <= now => Covered(s)'
  <2> SUFFICES ASSUME NEW s \in AllSlots, since < s, s <= now  PROVE Covered(s)'
    OBVIOUS
  <2>1. s \in Nat /\ slotLoop.slot \in Nat  BY <1>2, <1>3
  <2>2. CASE s = slotLoop.slot  BY <1>1, <2>2 DEF Covered
  <2>3. CASE s < slotLoop.slot
    <3>1. Covered(s)  BY <1>1, <2>3 DEF SlotInv
    <3> QED  BY <1>1, <3>1 DEF Covered
  <2> QED  BY <1>2, <2>1, <2>2, <2>3
<1>5. \A s \in AllSlots \ slotsExcused : slotRuns[s] <= 1 /\ (slotRuns[s] > 0 => s <= now /\ s \in mark)
  BY <1>1 DEF SlotInv, Begin
<1>6. CASE ~ Trading(now)
  <2>1. Wait(since)  BY <1>6 DEF Fire
  <2> QED  BY <1>1, <1>2, <1>4, <1>5, <2>1, WaitKeeps
<1>7. CASE Trading(now)
  <2>1. slotLoop' = [slotLoop EXCEPT !.at = "fetch"] /\ UNCHANGED <<timer, since>>
    BY <1>7 DEF Fire
  <2>2. slotLoop'.at = "fetch" /\ slotLoop'.slot = slotLoop.slot /\ slotLoop' = Begin(slotLoop'.at, slotLoop'.slot)
    BY <2>1 DEF Begin, SlotInv
  <2> QED  BY <1>1, <1>2, <1>3, <1>4, <1>5, <2>1, <2>2 DEF SlotInv, Stages
<1> QED  BY <1>6, <1>7

LEMMA FetchSteps == SlotInv /\ (FetchSucceeds \/ FetchFails) => SlotInv'
<1> SUFFICES ASSUME SlotInv, FetchSucceeds \/ FetchFails  PROVE SlotInv'
  OBVIOUS
<1>1. /\ slotLoop.at = "fetch"
      /\ UNCHANGED <<now, mark, fired, overrun, slotsExcused, crashes, slotFaults, steps>>
  BY DEF FetchSucceeds, FetchFails
<1>2. \A s \in AllSlots \ slotsExcused : slotRuns[s] <= 1 /\ (slotRuns[s] > 0 => s <= now /\ s \in mark)
  BY <1>1 DEF SlotInv, Begin
<1>3. \A s \in AllSlots : since < s /\ s <= now => Covered(s)'
  BY <1>1 DEF SlotInv, Covered
<1>4. CASE FetchFails
  <2>1. Wait(since) /\ UNCHANGED slotRuns  BY <1>4 DEF FetchFails
  <2> QED  BY <1>1, <1>2, <1>3, <2>1, WaitKeeps DEF SlotInv
<1>5. CASE FetchSucceeds
  <2>1. /\ slotLoop' = [slotLoop EXCEPT !.at = "mark"] /\ UNCHANGED <<timer, since>>
        /\ slotRuns' = [slotRuns EXCEPT ![slotLoop.slot] = @ + 1]
    BY <1>5 DEF FetchSucceeds
  <2>2. slotLoop'.at = "mark" /\ slotLoop'.slot = slotLoop.slot /\ slotLoop' = Begin("mark", slotLoop.slot)
    BY <2>1 DEF Begin, SlotInv
  <2>3. slotRuns' \in [AllSlots -> Nat]
    <3>1. slotRuns \in [AllSlots -> Nat]  BY DEF SlotInv
    <3>2. CASE slotLoop.slot \in AllSlots  BY <2>1, <3>1, <3>2
    <3>3. CASE slotLoop.slot \notin AllSlots
      <4>1. slotRuns' = slotRuns
        <5>1. \A s \in AllSlots : slotRuns'[s] = slotRuns[s]  BY <2>1, <3>1, <3>3
        <5>2. DOMAIN slotRuns' = AllSlots /\ slotRuns' = [s \in AllSlots |-> slotRuns'[s]]
          BY <2>1, <3>1
        <5> QED  BY <3>1, <5>1, <5>2
      <4> QED  BY <3>1, <4>1
    <3> QED  BY <3>2, <3>3
  <2>4. ASSUME NEW s \in AllSlots \ slotsExcused
        PROVE  slotRuns'[s] <= 1 /\ (slotRuns'[s] > 0 => s <= now /\ (s \in mark \/ slotLoop' = Begin("mark", s)))
    <3>1. CASE s = slotLoop.slot  BY <1>1, <2>1, <2>2, <3>1 DEF SlotInv
    <3>2. CASE s # slotLoop.slot  BY <1>2, <2>1, <3>2 DEF SlotInv
    <3> QED  BY <3>1, <3>2
  <2>5. slotLoop' = Begin(slotLoop'.at, slotLoop'.slot)  BY <2>2
  <2> QED  BY <1>1, <1>3, <2>1, <2>2, <2>3, <2>4, <2>5 DEF SlotInv, Stages
<1> QED  BY <1>4, <1>5

LEMMA MarkSteps == SlotInv /\ MarkRun => SlotInv'
<1> SUFFICES ASSUME SlotInv, MarkRun  PROVE SlotInv'
  OBVIOUS
<1>1. /\ slotLoop.at = "mark" /\ Wait(since)
      /\ UNCHANGED <<now, slotRuns, fired, overrun, crashes, steps>>
      /\ \/ mark' = mark \cup {slotLoop.slot} /\ UNCHANGED slotsExcused
         \/ slotsExcused' = slotsExcused \cup {slotLoop.slot} /\ UNCHANGED mark
  BY DEF MarkRun, MarkKey
<1>2. slotsExcused \subseteq slotsExcused' /\ since \in Nat  BY <1>1 DEF SlotInv
<1>3. \A s \in AllSlots : since < s /\ s <= now => Covered(s)'
  BY <1>1 DEF SlotInv, Covered
<1>4. \A s \in AllSlots \ slotsExcused' : slotRuns[s] > 0 => s \in mark'
  <2>1. slotLoop = Begin("mark", slotLoop.slot)  BY <1>1 DEF SlotInv
  <2>2. \A s : slotLoop = Begin("mark", s) => s = slotLoop.slot  BY DEF Begin
  <2> QED  BY <1>1, <2>2 DEF SlotInv
<1> QED  BY <1>1, <1>2, <1>3, <1>4, WaitKeeps

\* Time goes on or is set back, and the process dies.
LEMMA ClockSteps == SlotInv /\ (ClockTicks \/ ClockSetBack \/ CrashProcess \/ UNCHANGED slotVars) => SlotInv'
<1> SUFFICES ASSUME SlotInv, ClockTicks \/ ClockSetBack \/ CrashProcess \/ UNCHANGED slotVars
             PROVE  SlotInv'
  OBVIOUS
<1>1. AllSlots \subseteq Nat /\ now \in 0..End /\ End \in Int
  <2>1. Days * DayLength \in Nat  BY ScheduleAssumption, SMTT(30)
  <2> QED  BY <2>1 DEF AllSlots, End, SlotInv
<1>2. CASE ClockTicks
  <2>1. /\ now < End /\ ~ (slotLoop.at = "wait" /\ timer = 0) /\ now' = now + 1
        /\ timer' = IF slotLoop.at = "wait" THEN timer - 1 ELSE timer
        /\ overrun' = IF slotLoop.at = "wait" THEN overrun ELSE overrun \cup ({now + 1} \cap AllSlots)
        /\ UNCHANGED <<slotLoop, mark, slotRuns, fired, since, slotsExcused, crashes, slotFaults, steps>>
    BY <1>2 DEF ClockTicks
  <2>2. now' \in 0..End /\ timer' \in Nat  BY <1>1, <2>1 DEF SlotInv
  <2>3. CASE slotLoop.at = "wait"
    <3>1. timer' = timer - 1 /\ overrun' = overrun  BY <2>1, <2>3
    <3> QED  BY <1>1, <2>1, <2>2, <2>3, <3>1 DEF SlotInv, Covered
  <2>4. CASE slotLoop.at # "wait"
    <3>1. timer' = timer /\ overrun' = overrun \cup ({now + 1} \cap AllSlots)  BY <2>1, <2>4
    <3>2. slotLoop.at \in {"fetch", "mark"} => \A s \in AllSlots : since < s /\ s <= now + 1 => Covered(s)'
      BY <1>1, <2>1, <3>1 DEF SlotInv, Covered
    <3> QED  BY <1>1, <2>1, <2>2, <2>4, <3>1, <3>2 DEF SlotInv
  <2> QED  BY <2>3, <2>4
<1>3. CASE ClockSetBack
  <2>1. /\ now > 0 /\ now' = now - 1
        /\ slotsExcused' = slotsExcused \cup {s \in AllSlots : s \in {now - 1, now, slotLoop.slot}}
        /\ UNCHANGED <<slotLoop, timer, mark, slotRuns, fired, since, overrun, crashes, slotFaults>>
    BY <1>3 DEF ClockSetBack
  <2>2. now' \in 0..End  BY <1>1, <2>1
  <2>3. \A s \in AllSlots \ slotsExcused' : s \notin slotsExcused /\ s # now /\ s # now - 1 /\ s # slotLoop.slot
    BY <2>1
  <2>4. \A s : Covered(s) => Covered(s)'  BY <2>1 DEF Covered
  <2>5. slotLoop.at = "wait" => now' + timer <= slotLoop.slot
    <3> SUFFICES ASSUME slotLoop.at = "wait"  PROVE now' + timer <= slotLoop.slot
      OBVIOUS
    <3>1. slotLoop.slot \in Nat /\ timer \in Nat /\ now + timer <= slotLoop.slot
      BY <1>1 DEF SlotInv
    <3> QED  BY <1>1, <2>1, <3>1
  <2>6. \A s \in AllSlots \ slotsExcused' : slotRuns[s] > 0 => s <= now'  BY <1>1, <2>1, <2>3 DEF SlotInv
  <2>7. \A s \in AllSlots : s <= now' => s <= now  BY <1>1, <2>1
  <2> QED  BY <1>1, <2>1, <2>2, <2>3, <2>4, <2>5, <2>6, <2>7 DEF SlotInv
<1>4. CASE CrashProcess
  <2>1. /\ slotLoop' = Begin("start", None) /\ timer' = 0
        /\ slotsExcused' = IF slotLoop.at = "mark" THEN slotsExcused \cup {slotLoop.slot} ELSE slotsExcused
        /\ UNCHANGED <<now, mark, slotRuns, fired, since, overrun, slotFaults, steps>>
    BY <1>4 DEF CrashProcess
  <2>2. slotLoop'.at = "start" /\ slotLoop' = Begin(slotLoop'.at, slotLoop'.slot)  BY <2>1 DEF Begin
  <2>3. \A s \in AllSlots \ slotsExcused' : s \notin slotsExcused /\ slotLoop # Begin("mark", s)
    BY <2>1 DEF Begin
  <2> QED  BY <2>1, <2>2, <2>3 DEF SlotInv, Stages
<1>5. CASE UNCHANGED slotVars  BY <1>5 DEF slotVars, SlotInv, Covered
<1> QED  BY <1>2, <1>3, <1>4, <1>5

\* For any schedule, any trading days, crashes, failures and clocks set back:
\* no slot has its effects twice and the loop sleeps through none, but for
\* those excused (news_engine.go: runScheduledSourceWithCtx,
\* runScheduleCatchUpGeneration, calculateNextScheduledTimeAt, markScheduleRun).
THEOREM SlotsRunAsScheduled == SlotSpec => []ScheduleIsKept
<1>1. SlotInit => SlotInv
  <2> SUFFICES ASSUME SlotInit  PROVE SlotInv
    OBVIOUS
  <2>1. Days * DayLength \in Nat  BY ScheduleAssumption, SMTT(30)
  <2>2. now \in 0..End  BY <2>1 DEF SlotInit, End
  <2>3. slotLoop.at = "start" /\ slotLoop = Begin(slotLoop.at, slotLoop.slot)
    BY DEF SlotInit, Begin
  <2>4. slotRuns \in [AllSlots -> Nat] /\ \A s \in AllSlots : slotRuns[s] = 0  BY DEF SlotInit
  <2>5. timer \in Nat /\ since \in Nat  BY DEF SlotInit
  <2> QED  BY <2>2, <2>3, <2>4, <2>5 DEF SlotInv, Stages
<1>2. SlotInv /\ [SlotNext]_slotVars => SlotInv'
  BY StartSteps, CatchUpSteps, FireSteps, FetchSteps, MarkSteps, ClockSteps DEF SlotNext
<1>3. SlotInv => ScheduleIsKept
  BY DEF SlotInv, ScheduleIsKept, SlotRunsOnce, NoSlotSlept, Covered
<1> QED  BY <1>1, <1>2, <1>3, PTL DEF SlotSpec

=============================================================================
