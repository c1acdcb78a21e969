---------------------------- MODULE NewsArchive ------------------------------
(***************************************************************************)
(* The archive of news: canonical records with a time index and a counter  *)
(* in the database, and a bounded list in memory that answers the queries. *)
(* A save or a cleanup commits to the database first and then brings the   *)
(* list up to date, under a mutex; queries do not take it, time goes on    *)
(* between the two, and the process may die there.  An archive without a   *)
(* database has the list only.                                             *)
(* Records are ordered by their fetch time and then by their identifier.   *)
(***************************************************************************)
EXTENDS Naturals, FiniteSets, FiniteSetsExt

CONSTANTS NewsIds,                 \* identifiers, in their order: numbers
          Limits,                  \* the values max_items is configured to
          TTL, MaxHour, MaxDeaths   \* the last two are bounds of the model

ASSUME ArchiveAssumption == NewsIds \subseteq Nat /\ Limits \subseteq Nat \ {0} /\ TTL \in Nat \ {0}

VARIABLES durable,   \* there is a database
          limit,
          records, index, count,  \* the database
          list,      \* the list in memory
          writer,    \* the call that holds the mutex
          hour, deaths

archiveVars == <<durable, limit, records, index, count, list, writer, hour, deaths>>
database == <<records, index, count>>

Free == [at |-> "free", news |-> {}, deleted |-> {}, retained |-> FALSE]

Expired(n, t) == n.time + TTL <= t
Newer(n, m) == n.time > m.time \/ (n.time = m.time /\ n.id > m.id)
Oldest(set) == CHOOSE n \in set : \A m \in set \ {n} : Newer(m, n)
Newest(set, k) == {n \in set : Cardinality({m \in set : Newer(m, n)}) < k}
Ids(set) == {n.id : n \in set}

ArchiveInit ==
  /\ durable \in BOOLEAN /\ limit \in Limits
  /\ records = {} /\ index = {} /\ count = 0 /\ list = {}
  /\ writer = Free /\ hour = TTL /\ deaths = 0

\* pruneNews: the oldest entries of the index go while they have expired or
\* the counter is above the limit.
Pruned(idx, cnt) == {n \in idx : \/ Expired(n, hour)
                                 \/ Cardinality({m \in idx : Newer(n, m)}) + limit < cnt}

\* insertNewsUnsafe: bounded, sorted, and not for what has expired.
Inserted(lst, n) ==
  IF Expired(n, hour) THEN lst
  ELSE IF Cardinality(lst) < limit THEN lst \cup {n}
  ELSE IF Newer(n, Oldest(lst)) THEN (lst \ {Oldest(lst)}) \cup {n} ELSE lst

\* Save in an archive without a database.
SaveInMemory(n) ==
  /\ ~ durable /\ n.id \notin Ids(list)
  /\ list' = Inserted({m \in list : ~ Expired(m, hour)}, n)
  /\ UNCHANGED <<durable, limit, database, writer, hour, deaths>>

\* savePersistent: a known identifier stays as it is; a new one is put,
\* indexed and counted, and the oldest records make room.
PersistNews(n) ==
  LET idx  == index \cup {n}
      gone == Pruned(idx, count + 1)
  IN /\ durable /\ writer.at = "free"
     /\ IF n.id \in Ids(records)
        THEN /\ writer' = [Free EXCEPT !.at = "saved", !.news = {n}, !.retained = TRUE]
             /\ UNCHANGED database
        ELSE /\ records' = (records \cup {n}) \ gone /\ index' = idx \ gone
             /\ count' = count + 1 - Cardinality(gone)
             /\ writer' = [at |-> "saved", news |-> {n}, deleted |-> Ids(gone), retained |-> n \notin gone]
     /\ UNCHANGED <<durable, limit, list, hour, deaths>>

\* The rest of Save and of cleanup: what was deleted leaves the list, what
\* was retained and is not there enters it.
\* Mutant: what was deleted stays in the list.
KeptAll == list
Kept == {m \in list : m.id \notin writer.deleted}

UpdateList ==
  LET kept == Kept
  IN /\ writer.at = "saved" /\ writer' = Free
     /\ \/ /\ writer.retained
           /\ \E n \in writer.news : list' = IF n.id \in Ids(kept) THEN kept ELSE Inserted(kept, n)
        \/ ~ writer.retained /\ list' = kept
     /\ UNCHANGED <<durable, limit, database, hour, deaths>>

\* The hourly cleanup.
PurgePersistent ==
  LET gone == Pruned(index, count)
  IN /\ durable /\ writer.at = "free" /\ gone # {}
     /\ records' = records \ gone /\ index' = index \ gone /\ count' = count - Cardinality(gone)
     /\ writer' = [Free EXCEPT !.at = "saved", !.deleted = Ids(gone)]
     /\ UNCHANGED <<durable, limit, list, hour, deaths>>

CleanupMemory ==
  /\ ~ durable /\ list' = {m \in list : ~ Expired(m, hour)} /\ list' # list
  /\ UNCHANGED <<durable, limit, database, writer, hour, deaths>>

\* The process dies, perhaps between the database and the list, and starts
\* with another limit: rebuildPersistent keeps the newest records, and writes
\* index and counter anew.
RestartArchive(max) ==
  LET kept == Newest({n \in records : ~ Expired(n, hour)}, max)
  IN /\ deaths < MaxDeaths /\ deaths' = deaths + 1
     /\ limit' = max /\ writer' = Free
     /\ records' = kept /\ index' = kept /\ count' = Cardinality(kept) /\ list' = kept
     /\ UNCHANGED <<durable, hour>>

TimePasses == /\ hour < MaxHour /\ hour' = hour + 1
              /\ UNCHANGED <<durable, limit, database, list, writer, deaths>>

\* News is saved when it was just fetched, or some time after that.
Fetched == [id : NewsIds, time : (hour - TTL)..hour]

ArchiveNext ==
  \/ \E n \in Fetched : SaveInMemory(n) \/ PersistNews(n)
  \/ UpdateList \/ PurgePersistent \/ CleanupMemory
  \/ \E max \in Limits : RestartArchive(max)
  \/ TimePasses

ArchiveSpec == ArchiveInit /\ [][ArchiveNext]_archiveVars

----------------------------------------------------------------------------
(* Properties.                                                             *)

\* Between writes the queries see what the database holds: every identifier in
\* the list has its record, and only expired records are missing from it, also
\* when time passed between the two halves of a save or the process died
\* there; index and counter agree with the records, and all keep the limit.
ListShowsRecords ==
  /\ Cardinality(list) <= limit /\ Cardinality(records) <= limit
  /\ index = records /\ count = Cardinality(records)
  /\ durable /\ writer.at = "free" =>
       /\ Ids(list) \subseteq Ids(records)
       /\ \A n \in records : n.id \in Ids(list) \/ Expired(n, hour)

=============================================================================
