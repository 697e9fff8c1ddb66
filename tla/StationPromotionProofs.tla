------------------------ MODULE StationPromotionProofs ------------------------
(***************************************************************************)
(* Theorems about StationPromotion, for every set of workers, stations,    *)
(* readings and snapshots.                                                 *)
(***************************************************************************)
EXTENDS StationPromotion, TLAPS

RowPcs == {"authorize", "dedupe", "lock", "retire", "used", "duplicate", "classify", "write"}

\* Staging ids the workers hold name rows that exist, and no row exists yet in a batch
\* that has not been written: rows are only ever added and have their status changed.
Staged ==
  /\ \A i \in Ids : i[1] > batches => staging[i] = None
  /\ \A w \in Workers :
       /\ \A i \in todo[w] \cup settled[w] : staging[i] # None
       /\ pc[w] \in RowPcs => cur[w] \in Ids /\ staging[cur[w]] # None
       /\ pc[w] # "idle" => cycle[w].gen \in Gens

TInv == TypeOK /\ Staged

\* What a step may do to the staging table.
StagingKept ==
  /\ staging' \in [Ids -> StagingRows \cup {None}]
  /\ \A i \in Ids : staging[i] # None =>
       /\ staging'[i] # None
       /\ staging'[i].obs = staging[i].obs /\ staging'[i].val = staging[i].val
       /\ staging'[i].gen = staging[i].gen /\ staging'[i].flag = staging[i].flag
       /\ staging'[i].raw = staging[i].raw
  /\ \A i \in Ids : i[1] > batches' => staging'[i] = None

-----------------------------------------------------------------------------
\* What the staging writer builds is a staging row, and a status change keeps it one.
LEMMA StagingRowType ==
  ASSUME NEW o \in Times, NEW v \in Values, NEW f \in Flags, NEW g \in Gens,
         NEW r \in Snapshots
  PROVE  [obs |-> o, val |-> v, flag |-> f, gen |-> g, raw |-> r, status |-> "accepted"]
           \in StagingRows
BY DEF StagingRows, Statuses

\* Replacing a row's status by one of the statuses gives a staging row again.
LEMMA StatusChange ==
  ASSUME NEW r \in StagingRows, NEW reason \in Statuses
  PROVE  LET q == [r EXCEPT !.status = reason] IN
         /\ q \in StagingRows /\ q # None /\ q.status = reason
         /\ q.obs = r.obs /\ q.val = r.val /\ q.gen = r.gen /\ q.flag = r.flag
         /\ q.raw = r.raw
<1>1. [r EXCEPT !.status = reason] \in StagingRows
  BY DEF StagingRows
<1> QED
  BY <1>1, NoneAssumption DEF StagingRows

\* A terminal rejection changes one row's status and nothing else of the table.
LEMMA RejectKept ==
  ASSUME TInv, NEW i \in Ids, staging[i] # None, NEW reason \in Statuses, Reject(i, reason),
         batches' = batches
  PROVE  StagingKept
<1>1. staging[i] \in StagingRows
  BY DEF TInv, TypeOK
<1>2. [staging[i] EXCEPT !.status = reason] \in StagingRows
  BY <1>1 DEF StagingRows
<1>3. staging' = [staging EXCEPT ![i] = [staging[i] EXCEPT !.status = reason]]
  BY DEF Reject
<1>4. staging' \in [Ids -> StagingRows \cup {None}]
  BY <1>2, <1>3 DEF TInv, TypeOK
<1>5. staging'[i] = [staging[i] EXCEPT !.status = reason] /\ staging'[i] # None
  BY <1>2, <1>3, NoneAssumption DEF TInv, TypeOK
<1>6. \A j \in Ids : j # i => staging'[j] = staging[j]
  BY <1>3 DEF TInv, TypeOK
<1>7. \A j \in Ids : staging[j] # None =>
       /\ staging'[j] # None
       /\ staging'[j].obs = staging[j].obs /\ staging'[j].val = staging[j].val
       /\ staging'[j].gen = staging[j].gen /\ staging'[j].flag = staging[j].flag
       /\ staging'[j].raw = staging[j].raw
  BY <1>1, <1>5, <1>6 DEF StagingRows
<1>8. \A j \in Ids : j[1] > batches' => staging'[j] = None
  BY <1>6 DEF TInv, Staged
<1> QED
  BY <1>4, <1>7, <1>8 DEF StagingKept

\* The staged batch only fills rows that did not exist.
LEMMA StageKept ==
  ASSUME TInv, NEW w \in Workers, StageBatch(w)
  PROVE  StagingKept
<1>1. PICK s \in Snapshots :
        staging' = [i \in Ids |->
            IF i[1] = batches + 1 /\ KeyOf(i) \in DOMAIN s
            THEN [obs |-> s[KeyOf(i)].obs, val |-> s[KeyOf(i)].val, flag |-> s[KeyOf(i)].flag,
                  gen |-> cycle[w].gen, raw |-> s, status |-> "accepted"]
            ELSE staging[i]]
  BY DEF StageBatch
<1>2. cycle[w].gen \in Gens /\ batches \in Nat /\ batches' = batches + 1
  BY DEF TInv, TypeOK, Staged, StageBatch
<1>3. \A k \in DOMAIN s : s[k].obs \in Times /\ s[k].val \in Values /\ s[k].flag \in Flags
  BY SnapshotsAssumption DEF Readings
<1>4. \A i \in Ids : i[1] \in Nat
  BY TimesAssumption DEF Ids, Gens
<1>5. \A i \in Ids : KeyOf(i) \in DOMAIN s =>
        [obs |-> s[KeyOf(i)].obs, val |-> s[KeyOf(i)].val, flag |-> s[KeyOf(i)].flag,
         gen |-> cycle[w].gen, raw |-> s, status |-> "accepted"] \in StagingRows
  <2> TAKE i \in Ids
  <2> HAVE KeyOf(i) \in DOMAIN s
  <2>1. s[KeyOf(i)].obs \in Times /\ s[KeyOf(i)].val \in Values /\ s[KeyOf(i)].flag \in Flags
    BY <1>3
  <2> QED
    BY <1>2, <2>1, StagingRowType
<1>6. staging' \in [Ids -> StagingRows \cup {None}]
  BY <1>1, <1>5 DEF TInv, TypeOK
<1>7. \A i \in Ids : staging[i] # None => staging'[i] = staging[i]
  BY <1>1, <1>2, <1>4 DEF TInv, Staged
<1>8. \A i \in Ids : i[1] > batches' => staging'[i] = None
  BY <1>1, <1>2, <1>4 DEF TInv, Staged
<1> QED
  BY <1>6, <1>7, <1>8 DEF StagingKept

\* The settle transaction only changes the status of rows it found accepted.
LEMMA SettleKept ==
  ASSUME TInv, NEW w \in Workers, SettleCommit(w)
  PROVE  StagingKept
<1> DEFINE settling == {i \in settled[w] : Accepted(i)}
           row(i) == [staging[i] EXCEPT !.status = "idempotent_existing_observation"]
<1>1. staging' = [i \in Ids |-> IF i \in settling THEN row(i) ELSE staging[i]] /\ batches' = batches
  BY DEF SettleCommit
<1>2. \A i \in Ids : i \in settling => staging[i] \in StagingRows
  BY DEF TInv, TypeOK, Accepted
<1>a. "idempotent_existing_observation" \in Statuses
  BY DEF Statuses
<1>3. \A i \in Ids : i \in settling => /\ row(i) \in StagingRows /\ row(i) # None
                                      /\ row(i).obs = staging[i].obs /\ row(i).val = staging[i].val
                                      /\ row(i).gen = staging[i].gen /\ row(i).flag = staging[i].flag
                                      /\ row(i).raw = staging[i].raw
  BY <1>2, <1>a, StatusChange
<1>4. \A i \in Ids : i \in settling => staging[i] # None
  BY DEF Accepted
<1> HIDE DEF settling, row
<1>5. staging' \in [Ids -> StagingRows \cup {None}]
  BY <1>1, <1>3 DEF TInv, TypeOK
<1>6. \A i \in Ids : i[1] > batches' => staging'[i] = None
  BY <1>1, <1>4 DEF TInv, Staged
<1> QED
  BY <1>1, <1>3, <1>5, <1>6 DEF StagingKept

\* Deleting a peer's row and upserting the own one keep the shape of the latest table.
LEMMA DroppedType ==
  ASSUME TypeOK, NEW w \in Workers
  PROVE  Dropped(w) \in [Keys -> LatestRows \cup {None}]
BY DEF TypeOK, Dropped

\* _upsert_official_realtime_latest writes a well-formed row for the candidate's station.
LEMMA UpsertType ==
  ASSUME TypeOK, NEW i \in Ids, staging[i] # None,
         NEW table \in [Keys -> LatestRows \cup {None}]
  PROVE  /\ Upsert(table, i) \in [Keys -> LatestRows \cup {None}]
         /\ \A k \in Keys : k # KeyOf(i) => Upsert(table, i)[k] = table[k]
         /\ \/ Upsert(table, i)[KeyOf(i)] = table[KeyOf(i)]
            \/ /\ table[KeyOf(i)] # None => table[KeyOf(i)].obs < staging[i].obs
               /\ Upsert(table, i)[KeyOf(i)] =
                    [obs |-> staging[i].obs, val |-> staging[i].val, gen |-> staging[i].gen, ev |-> i]
               /\ Upsert(table, i)[KeyOf(i)] # None
<1> DEFINE new == [obs |-> staging[i].obs, val |-> staging[i].val, gen |-> staging[i].gen, ev |-> i]
<1>1. staging[i] \in StagingRows
  BY DEF TypeOK
<1>2. new \in LatestRows
  BY <1>1 DEF StagingRows, LatestRows
<1>3. new # None /\ KeyOf(i) \in Keys
  BY <1>2, NoneAssumption DEF Ids, KeyOf
<1>4. table[KeyOf(i)] # None => table[KeyOf(i)].obs \in Nat /\ staging[i].obs \in Nat
  BY <1>1, <1>3, TimesAssumption DEF StagingRows, LatestRows
<1>5. Upsert(table, i) = IF table[KeyOf(i)] = None \/ staging[i].obs > table[KeyOf(i)].obs
                         THEN [table EXCEPT ![KeyOf(i)] = new] ELSE table
  BY DEF Upsert
<1> HIDE DEF new
<1>6. Upsert(table, i) \in [Keys -> LatestRows \cup {None}]
  BY <1>2, <1>3, <1>5
<1>7. \A k \in Keys : k # KeyOf(i) => Upsert(table, i)[k] = table[k]
  BY <1>3, <1>5
<1>8. \/ Upsert(table, i)[KeyOf(i)] = table[KeyOf(i)]
      \/ /\ table[KeyOf(i)] # None => table[KeyOf(i)].obs < staging[i].obs
         /\ Upsert(table, i)[KeyOf(i)] = new
  BY <1>3, <1>4, <1>5
<1> QED
  BY <1>3, <1>6, <1>7, <1>8 DEF new

\* The end of a per-row transaction, given what the commit left in the tables.
LEMMA EndRowTInv ==
  ASSUME TInv, NEW w \in Workers, pc[w] \in RowPcs, EndRow(w), StagingKept,
         evidence' \subseteq EvidenceRows, latest' \in [Keys -> LatestRows \cup {None}]
  PROVE  TInv'
<1> USE DEF TInv
<1>a. clock' = clock /\ batches' = batches /\ cycle' = cycle /\ settled' = settled
      /\ shared' = shared
  BY DEF EndRow
<1>b. pc' \in [Workers -> Promoting \cup {"idle", "fetching"}] /\ pc'[w] = "rows"
      /\ \A v \in Workers : v # w => pc'[v] = pc[v]
  BY DEF EndRow, Goto, TypeOK, Promoting
<1>c. promote' \in [Workers -> BOOLEAN]
  BY DEF EndRow, TypeOK
<1>d. /\ todo' \in [Workers -> SUBSET Ids] /\ cur' \in [Workers -> Ids \cup {None}]
      /\ drop' \in [Workers -> Local \cup {None}]
      /\ \A v \in Workers : v # w => cur'[v] = cur[v]
      /\ \A v \in Workers : todo'[v] \subseteq todo[v]
  BY DEF EndRow, TypeOK
<1>e. done' \in [Workers -> SUBSET Ids]
  <2>1. done[w] \cup {cur[w]} \in SUBSET Ids
    BY DEF TypeOK, Staged
  <2> QED
    BY <2>1 DEF EndRow, TypeOK
<1>f. held' \in [Workers -> SUBSET Locks]
  BY DEF EndRow, TypeOK
<1>1. TypeOK'
  BY <1>a, <1>b, <1>c, <1>d, <1>e, <1>f DEF TypeOK, StagingKept
<1>2. Staged'
  BY <1>a, <1>b, <1>d DEF TypeOK, Staged, StagingKept, RowPcs
<1> QED
  BY <1>1, <1>2

\* Rolling back the open transaction (timeout, retry, crash) keeps the shape of the state.
LEMMA RollbackTInv ==
  ASSUME TInv, NEW w \in Workers, Rollback(w), NEW label \in {"idle", "promote"},
         Goto(w, label), cycle' \in [Workers -> [gen : Gens \cup {0}, raw : Snapshots \cup {None}, attempt : 0..2]],
         label # "idle" => cycle'[w].gen \in Gens,
         \A v \in Workers : v # w => cycle'[v] = cycle[v]
  PROVE  TInv'
<1> USE DEF TInv
<1>a. clock' = clock /\ batches' = batches /\ staging' = staging
      /\ evidence' = evidence /\ latest' = latest
  BY DEF Rollback, tables
<1>b. pc' \in [Workers -> Promoting \cup {"idle", "fetching"}] /\ pc'[w] = label
      /\ \A v \in Workers : v # w => pc'[v] = pc[v]
  BY DEF Goto, TypeOK, Promoting
<1>c. promote' \in [Workers -> BOOLEAN]
  BY DEF Rollback, TypeOK
<1>1. TypeOK'
  BY <1>a, <1>b, <1>c DEF Rollback, TypeOK
<1>2. Staged'
  BY <1>a, <1>b DEF Rollback, TypeOK, Staged, RowPcs
<1> QED
  BY <1>1, <1>2

\* A step that leaves the tables alone.
LEMMA QuietKept ==
  ASSUME TInv, UNCHANGED staging, batches' = batches
  PROVE  StagingKept
BY DEF TInv, TypeOK, Staged, StagingKept

\* A transaction only ever takes locks that exist.
LEMMA LockTypes ==
  /\ \A i \in Ids : StagingLock(i) \in Locks
  /\ \A t \in Times : DedupeLock(t) \in Locks
  /\ \A k \in Keys : LatestLock(k) \in Locks /\ RowLock(k) \in Locks
BY DEF Locks

\* What the rows that a worker is working on look like.
LEMMA CurFacts ==
  ASSUME TInv, NEW w \in Workers, pc[w] \in RowPcs
  PROVE  /\ cur[w] \in Ids /\ staging[cur[w]] # None /\ staging[cur[w]] \in StagingRows
         /\ KeyOf(cur[w]) \in Keys /\ staging[cur[w]].obs \in Times
<1>1. cur[w] \in Ids /\ staging[cur[w]] # None
  BY DEF TInv, Staged
<1>2. staging[cur[w]] \in StagingRows
  BY <1>1 DEF TInv, TypeOK
<1> QED
  BY <1>1, <1>2 DEF KeyOf, Ids, StagingRows

\* Every step keeps the shape of the state; one lemma per kind of step.
LEMMA QuietTInv ==
  ASSUME TInv, NEW w \in Workers,
         \/ StartCycle(w) \/ FetchCandidates(w) \/ SettleRead(w) \/ NextRow(w)
         \/ Authorize(w) \/ LockDedupe(w) \/ LockLatest(w) \/ CheckUnused(w)
         \/ ReplaceLocal(w) \/ NoDuplicate(w) \/ Classify(w) \/ FinishCycle(w)
  PROVE  TInv'
<1> USE DEF TInv, tables
<1>1. CASE StartCycle(w)
  <2>a. clock + 1 \in 1..MaxGen /\ clock' = clock + 1
    BY <1>1, TimesAssumption DEF StartCycle, TypeOK
  <2>b. [gen |-> clock + 1, raw |-> None, attempt |-> 1]
          \in [gen : Gens \cup {0}, raw : Snapshots \cup {None}, attempt : 0..2]
    BY <2>a DEF Gens
  <2>c. cycle' \in [Workers -> [gen : Gens \cup {0}, raw : Snapshots \cup {None}, attempt : 0..2]]
        /\ cycle'[w].gen \in Gens /\ \A v \in Workers : v # w => cycle'[v] = cycle[v]
    BY <1>1, <2>a, <2>b DEF StartCycle, TypeOK, Gens
  <2>1. TypeOK'
    BY <1>1, <2>a, <2>c, TimesAssumption DEF StartCycle, Goto, TypeOK, Promoting
  <2>2. Staged'
    BY <1>1, <2>c DEF StartCycle, Goto, TypeOK, Staged, RowPcs
  <2> QED
    BY <2>1, <2>2
<1>2. CASE FetchCandidates(w)
  <2>1. TypeOK'
    BY <1>2 DEF FetchCandidates, Goto, TypeOK, Promoting, FetchAccepted, Accepted
  <2>2. Staged'
    BY <1>2 DEF FetchCandidates, Goto, TypeOK, Staged, RowPcs, FetchAccepted, Accepted
  <2> QED
    BY <2>1, <2>2
<1>3. CASE SettleRead(w)
  <2>a. \A i \in todo[w] : KeyOf(i) \in Keys
    BY DEF TypeOK, KeyOf, Ids
  <2>b. shared' \in [Workers -> SUBSET Keys] /\ settled' \in [Workers -> SUBSET Ids]
    BY <1>3, <2>a DEF SettleRead, TypeOK
  <2>1. TypeOK'
    BY <1>3, <2>b DEF SettleRead, Goto, TypeOK, Promoting
  <2>2. Staged'
    BY <1>3 DEF SettleRead, Goto, TypeOK, Staged, RowPcs
  <2> QED
    BY <2>1, <2>2
<1>4. CASE NextRow(w)
  <2>1. TypeOK'
    BY <1>4 DEF NextRow, Goto, TypeOK, Promoting
  <2>2. Staged'
    BY <1>4 DEF NextRow, Goto, TypeOK, Staged, RowPcs
  <2> QED
    BY <2>1, <2>2
<1>5. CASE Authorize(w)
  <2>a. held' \in [Workers -> SUBSET Locks]
    BY <1>5, CurFacts, LockTypes DEF Authorize, TypeOK, RowPcs, LocalPeers
  <2>1. TypeOK'
    BY <1>5, <2>a DEF Authorize, Goto, TypeOK, Promoting
  <2>2. Staged'
    BY <1>5 DEF Authorize, Goto, TypeOK, Staged, RowPcs
  <2> QED
    BY <2>1, <2>2
<1>6. CASE LockDedupe(w)
  <2>a. held' \in [Workers -> SUBSET Locks]
    BY <1>6, CurFacts, LockTypes DEF LockDedupe, TypeOK, RowPcs, LocalPeers
  <2>1. TypeOK'
    BY <1>6, <2>a DEF LockDedupe, Goto, TypeOK, Promoting
  <2>2. Staged'
    BY <1>6 DEF LockDedupe, Goto, TypeOK, Staged, RowPcs
  <2> QED
    BY <2>1, <2>2
<1>7. CASE LockLatest(w)
  <2>a. held' \in [Workers -> SUBSET Locks]
    BY <1>7, CurFacts, LockTypes DEF LockLatest, TypeOK, RowPcs, LocalPeers
  <2>1. TypeOK'
    BY <1>7, <2>a DEF LockLatest, Goto, TypeOK, Promoting
  <2>2. Staged'
    BY <1>7 DEF LockLatest, Goto, TypeOK, Staged, RowPcs
  <2> QED
    BY <2>1, <2>2
<1>8. CASE CheckUnused(w)
  <2>1. TypeOK'
    BY <1>8 DEF CheckUnused, Goto, TypeOK, Promoting
  <2>2. Staged'
    BY <1>8 DEF CheckUnused, Goto, TypeOK, Staged, RowPcs
  <2> QED
    BY <2>1, <2>2
<1>9. CASE ReplaceLocal(w)
  <2>a. held' \in [Workers -> SUBSET Locks] /\ drop' \in [Workers -> Local \cup {None}]
    BY <1>9, CurFacts, LockTypes, KeysAssumption DEF ReplaceLocal, TypeOK, RowPcs, LocalPeers
  <2>1. TypeOK'
    BY <1>9, <2>a DEF ReplaceLocal, Goto, TypeOK, Promoting
  <2>2. Staged'
    BY <1>9 DEF ReplaceLocal, Goto, TypeOK, Staged, RowPcs, LocalPeers
  <2> QED
    BY <2>1, <2>2
<1>10. CASE NoDuplicate(w)
  <2>1. TypeOK'
    BY <1>10 DEF NoDuplicate, Goto, TypeOK, Promoting
  <2>2. Staged'
    BY <1>10 DEF NoDuplicate, Goto, TypeOK, Staged, RowPcs
  <2> QED
    BY <2>1, <2>2
<1>11. CASE Classify(w)
  <2>a. held' \in [Workers -> SUBSET Locks] /\ promote' \in [Workers -> BOOLEAN]
    BY <1>11, CurFacts, LockTypes DEF Classify, TypeOK, RowPcs, LocalPeers
  <2>1. TypeOK'
    BY <1>11, <2>a DEF Classify, Goto, TypeOK, Promoting
  <2>2. Staged'
    BY <1>11 DEF Classify, Goto, TypeOK, Staged, RowPcs
  <2> QED
    BY <2>1, <2>2
<1>12. CASE FinishCycle(w)
  <2>1. TypeOK'
    BY <1>12 DEF FinishCycle, Goto, TypeOK, Promoting
  <2>2. Staged'
    BY <1>12 DEF FinishCycle, Goto, TypeOK, Staged, RowPcs
  <2> QED
    BY <2>1, <2>2
<1> QED
  BY <1>1, <1>2, <1>3, <1>4, <1>5, <1>6, <1>7, <1>8, <1>9, <1>10, <1>11, <1>12

\* The steps that end a per-row transaction.
RowEnds(w) ==
  \/ Unauthorized(w) \/ RejectInvalid(w) \/ RetireInactive(w) \/ SkipUsed(w)
  \/ RejectDuplicate(w) \/ RejectEqualTime(w) \/ RejectInsert(w) \/ InsertEvidence(w)

\* What they leave in the three tables.
LEMMA RowEndsKept ==
  ASSUME TInv, NEW w \in Workers, RowEnds(w)
  PROVE  /\ pc[w] \in RowPcs /\ EndRow(w) /\ StagingKept
         /\ evidence' \subseteq EvidenceRows /\ latest' \in [Keys -> LatestRows \cup {None}]
<1>0. /\ pc[w] \in RowPcs /\ EndRow(w) /\ batches' = batches
      /\ cur[w] \in Ids /\ staging[cur[w]] # None /\ staging[cur[w]] \in StagingRows
      /\ KeyOf(cur[w]) \in Keys
  BY DEF TInv, Staged, TypeOK, RowEnds, Unauthorized, RejectInvalid, RetireInactive, SkipUsed,
         RejectDuplicate, RejectEqualTime, RejectInsert, InsertEvidence, RowPcs, EndRow, KeyOf, Ids
<1>t. evidence \subseteq EvidenceRows /\ latest \in [Keys -> LatestRows \cup {None}]
  BY DEF TInv, TypeOK
<1>1. CASE Unauthorized(w) \/ SkipUsed(w)
  BY <1>0, <1>1, <1>t, QuietKept DEF Unauthorized, SkipUsed, tables
<1>2. CASE RejectInvalid(w)
  <2>1. StagingKept
    BY <1>0, <1>2, RejectKept DEF RejectInvalid, Statuses
  <2> QED
    BY <1>0, <1>2, <1>t, <2>1 DEF RejectInvalid
<1>3. CASE RetireInactive(w)
  <2>1. StagingKept
    BY <1>0, <1>3, RejectKept DEF RetireInactive, Statuses
  <2> QED
    BY <1>0, <1>3, <1>t, <2>1 DEF RetireInactive
<1>4. CASE RejectDuplicate(w)
  <2>1. StagingKept
    BY <1>0, <1>4, RejectKept DEF RejectDuplicate, Statuses
  <2> QED
    BY <1>0, <1>4, <1>t, <2>1 DEF RejectDuplicate
<1>5. CASE RejectEqualTime(w)
  <2>1. \E reason \in Statuses : Reject(cur[w], reason)
    BY <1>5 DEF RejectEqualTime, Statuses
  <2>2. StagingKept
    BY <1>0, <2>1, RejectKept
  <2> QED
    BY <1>0, <1>5, <1>t, <2>2, DroppedType DEF RejectEqualTime, TInv
<1>6. CASE RejectInsert(w)
  <2>1. \E reason \in Statuses : Reject(cur[w], reason)
    BY <1>6 DEF RejectInsert, Statuses
  <2>2. StagingKept
    BY <1>0, <2>1, RejectKept
  <2> QED
    BY <1>0, <1>6, <1>t, <2>2, DroppedType DEF RejectInsert, TInv
<1>7. CASE InsertEvidence(w)
  <2>1. StagingKept
    BY <1>0, <1>7, QuietKept DEF InsertEvidence
  <2>2. [id |-> cur[w], raw |-> staging[cur[w]].raw, obs |-> staging[cur[w]].obs,
         val |-> staging[cur[w]].val] \in EvidenceRows
    BY <1>0 DEF StagingRows, EvidenceRows
  <2>3. latest' \in [Keys -> LatestRows \cup {None}]
    BY <1>0, <1>7, DroppedType, UpsertType DEF InsertEvidence, TInv
  <2> QED
    BY <1>0, <1>7, <1>t, <2>1, <2>2, <2>3 DEF InsertEvidence
<1> QED
  BY <1>1, <1>2, <1>3, <1>4, <1>5, <1>6, <1>7 DEF RowEnds

\* The open transaction of a failed attempt changes no table.
LEMMA FailureTInv ==
  ASSUME TInv, NEW w \in Workers, RetryPromotion(w) \/ GiveUp(w) \/ Crash(w)
  PROVE  TInv'
<1> DEFINE Cycles == [gen : Gens \cup {0}, raw : Snapshots \cup {None}, attempt : 0..2]
<1>1. CASE RetryPromotion(w)
  <2>a. cycle \in [Workers -> Cycles] /\ cycle[w].gen \in Gens
    BY <1>1 DEF RetryPromotion, TInv, TypeOK, Staged, Promoting
  <2>1. cycle' \in [Workers -> Cycles] /\ cycle'[w].gen \in Gens
        /\ \A v \in Workers : v # w => cycle'[v] = cycle[v]
    BY <1>1, <2>a DEF RetryPromotion
  <2> QED
    BY <1>1, <2>1, RollbackTInv DEF RetryPromotion
<1>2. CASE EndCycle(w)
  <2>1. cycle' \in [Workers -> Cycles] /\ \A v \in Workers : v # w => cycle'[v] = cycle[v]
    BY <1>2 DEF EndCycle, TInv, TypeOK
  <2> QED
    BY <1>2, <2>1, RollbackTInv DEF EndCycle
<1> QED
  BY <1>1, <1>2 DEF GiveUp, Crash

\* Staging a batch and settling re-observations keep the shape of the state.
LEMMA BatchTInv ==
  ASSUME TInv, NEW w \in Workers, StageBatch(w) \/ SettleCommit(w)
  PROVE  TInv'
<1>1. CASE StageBatch(w)
  <2>1. PICK s \in Snapshots : cycle' = [cycle EXCEPT ![w].raw = s]
    BY <1>1 DEF StageBatch
  <2>2. cycle' \in [Workers -> [gen : Gens \cup {0}, raw : Snapshots \cup {None}, attempt : 0..2]]
        /\ \A v \in Workers : cycle'[v].gen = cycle[v].gen
    BY <2>1 DEF TInv, TypeOK
  <2>3. batches' \in 0..MaxGen
    BY <1>1, TimesAssumption DEF StageBatch, TInv, TypeOK
  <2>4. TypeOK'
    BY <1>1, <2>2, <2>3, StageKept DEF StageBatch, TInv, TypeOK, Goto, Promoting, StagingKept
  <2>5. Staged'
    BY <1>1, <2>2, StageKept DEF StageBatch, TInv, TypeOK, Staged, Goto, RowPcs, StagingKept
  <2> QED
    BY <2>4, <2>5 DEF TInv
<1>2. CASE SettleCommit(w)
  <2>1. TypeOK'
    BY <1>2, SettleKept DEF SettleCommit, TInv, TypeOK, Goto, Promoting, StagingKept
  <2>a. /\ cur' = cur /\ cycle' = cycle /\ pc[w] # "idle" /\ pc'[w] = "rows"
        /\ \A v \in Workers : todo'[v] \subseteq todo[v] /\ settled'[v] \subseteq settled[v]
        /\ \A v \in Workers : v # w => pc'[v] = pc[v]
    BY <1>2 DEF SettleCommit, TInv, TypeOK, Goto
  <2>b. /\ \A v \in Workers : todo[v] \subseteq Ids /\ settled[v] \subseteq Ids
    BY DEF TInv, TypeOK
  <2>2. Staged'
    BY <1>2, <2>a, <2>b, SettleKept DEF TInv, Staged, RowPcs, StagingKept
  <2> QED
    BY <2>1, <2>2 DEF TInv
<1> QED
  BY <1>1, <1>2

\* An empty database with idle workers satisfies the invariant.
LEMMA InitTInv == Init => TInv
<1> SUFFICES ASSUME Init PROVE TInv
  OBVIOUS
<1>1. TypeOK
  BY TimesAssumption DEF Init, TypeOK, Gens, Promoting
<1>2. Staged
  BY DEF Init, Staged, RowPcs
<1> QED
  BY <1>1, <1>2 DEF TInv

\* The steps grouped as the lemmas treat them.
LEMMA NextCases ==
  ASSUME Next
  PROVE  \E w \in Workers :
           \/ StartCycle(w) \/ FetchCandidates(w) \/ SettleRead(w) \/ NextRow(w)
           \/ Authorize(w) \/ LockDedupe(w) \/ LockLatest(w) \/ CheckUnused(w)
           \/ ReplaceLocal(w) \/ NoDuplicate(w) \/ Classify(w) \/ FinishCycle(w)
           \/ StageBatch(w) \/ SettleCommit(w) \/ RowEnds(w)
           \/ RetryPromotion(w) \/ GiveUp(w) \/ Crash(w)
BY DEF Next, Step, RowEnds

\* The shape of the state is inductive.
LEMMA NextTInv == TInv /\ [Next]_vars => TInv'
<1> SUFFICES ASSUME TInv, [Next]_vars PROVE TInv'
  OBVIOUS
<1>1. CASE UNCHANGED vars
  BY <1>1 DEF TInv, TypeOK, Staged, vars
<1>2. CASE Next
  BY <1>2, NextCases, QuietTInv, BatchTInv, FailureTInv, RowEndsKept, EndRowTInv
<1> QED
  BY <1>1, <1>2

\* No interleaving of cycles, settle and per-row transactions, retries and crashes
\* takes the tables or a worker's transaction state out of their types; in particular
\* no promotion is attempted a third time (_promote_accepted_staging_with_retry).
THEOREM TypeCorrect == Spec => []TypeOK
<1>1. Init => TInv
  BY InitTInv
<1>2. TInv /\ [Next]_vars => TInv'
  BY NextTInv
<1>3. TInv => TypeOK
  BY DEF TInv
<1> QED
  BY <1>1, <1>2, <1>3, PTL DEF Spec

-----------------------------------------------------------------------------
(***************************************************************************)
(* The latest table.  A transaction's decisions stay true because whoever  *)
(* could falsify them needs a lock that the transaction holds.             *)
(***************************************************************************)
Locked == {"lock", "retire", "used", "duplicate", "classify", "write"}
Decided == {"classify", "write"}

\* No two transactions hold the same exclusive lock, nor one a row lock and the other
\* a share lock on the same latest row.
Exclusive ==
  \A v, w \in Workers : v # w => /\ \A x \in held[w] : x \notin held[v]
                                 /\ \A k \in shared[w] : RowLock(k) \notin held[v]

\* What worker w's transaction holds and has established from the latest table.
Holds(w) ==
  /\ pc[w] \in Locked => DedupeLock(staging[cur[w]].obs) \in held[w]
  /\ pc[w] \in Locked \ {"lock"} => LatestLock(KeyOf(cur[w])) \in held[w]
  /\ drop[w] # None => /\ pc[w] \in Decided /\ KeyOf(cur[w]) \in Central
                       /\ RowLock(drop[w]) \in held[w] /\ SameReading(drop[w], cur[w])
                       /\ <<KeyOf(cur[w]), drop[w]>> \in Near
  /\ pc[w] = "retire" => KeyOf(cur[w]) \in Local
  /\ pc[w] = "write" =>
       /\ promote[w] = (latest[KeyOf(cur[w])] = None
                          \/ latest[KeyOf(cur[w])].obs < staging[cur[w]].obs)
       /\ latest[KeyOf(cur[w])] # None => RowLock(KeyOf(cur[w])) \in held[w]
  /\ pc[w] = "settling" =>
       \A i \in settled[w] : SameReading(KeyOf(i), i) /\ KeyOf(i) \in shared[w]

\* The LIMIT 1 of the duplicate query removes every exact local peer of a central
\* station when no two local stations are near the same central one.
OneLocalPeer == \A p, q \in Near : p[1] = q[1] => p = q

\* Its duplicate check is still good: no peer but the one to be deleted matches.
Decides(w) ==
  pc[w] \in Decided =>
    /\ KeyOf(cur[w]) \in Local => CentralPeers(cur[w]) = {}
    /\ OneLocalPeer /\ KeyOf(cur[w]) \in Central => LocalPeers(cur[w]) \subseteq {drop[w]}

LInv == TInv /\ Exclusive /\ \A w \in Workers : Holds(w) /\ Decides(w)

\* A change of the latest table that worker v's locks allow.
Harmless(v) ==
  \A k \in Keys : latest'[k] # latest[k] =>
    /\ latest[k] # None => RowLock(k) \notin held[v] /\ k \notin shared[v]
    /\ latest[k] = None => LatestLock(k) \notin held[v]
    /\ latest'[k] # None => DedupeLock(latest'[k].obs) \notin held[v]

\* A step of another worker that v's locks allow keeps what v established.
LEMMA OthersKept ==
  ASSUME TInv, NEW v \in Workers, Holds(v), Decides(v), StagingKept, Harmless(v),
         pc'[v] = pc[v], cur'[v] = cur[v], drop'[v] = drop[v], promote'[v] = promote[v],
         held'[v] = held[v], shared'[v] = shared[v], settled'[v] = settled[v]
  PROVE  Holds(v)' /\ Decides(v)'
<1>0. pc[v] \in Locked => /\ cur[v] \in Ids /\ staging[cur[v]] # None /\ KeyOf(cur[v]) \in Keys
                          /\ staging'[cur[v]].obs = staging[cur[v]].obs
                          /\ staging'[cur[v]].val = staging[cur[v]].val
  BY CurFacts DEF Locked, RowPcs, StagingKept
<1>1. drop[v] # None => /\ drop[v] \in Keys /\ latest'[drop[v]] = latest[drop[v]]
                        /\ SameReading(drop[v], cur[v])'
  <2> SUFFICES ASSUME drop[v] # None
               PROVE  /\ drop[v] \in Keys /\ latest'[drop[v]] = latest[drop[v]]
                      /\ SameReading(drop[v], cur[v])'
    OBVIOUS
  <2>1. drop[v] \in Keys /\ latest[drop[v]] # None /\ pc[v] \in Locked
    BY KeysAssumption DEF TInv, TypeOK, Holds, SameReading, Decided, Locked
  <2>2. latest'[drop[v]] = latest[drop[v]]
    BY <2>1 DEF Harmless, Holds
  <2> QED
    BY <1>0, <2>1, <2>2 DEF Holds, SameReading
<1>2. pc[v] = "write" => latest'[KeyOf(cur[v])] = latest[KeyOf(cur[v])]
  BY <1>0 DEF Holds, Harmless, Locked
<1>3. pc[v] = "settling" =>
        \A i \in settled[v] : SameReading(KeyOf(i), i)' /\ KeyOf(i) \in shared[v]
  <2> SUFFICES ASSUME pc[v] = "settling", NEW i \in settled[v]
               PROVE  SameReading(KeyOf(i), i)' /\ KeyOf(i) \in shared[v]
    OBVIOUS
  <2>1. i \in Ids /\ staging[i] # None /\ KeyOf(i) \in Keys
    BY DEF TInv, TypeOK, Staged, Ids, KeyOf
  <2>2. SameReading(KeyOf(i), i) /\ KeyOf(i) \in shared[v]
    BY DEF Holds
  <2>3. latest'[KeyOf(i)] = latest[KeyOf(i)]
    BY <2>1, <2>2 DEF Harmless, SameReading
  <2> QED
    BY <2>1, <2>2, <2>3 DEF SameReading, StagingKept
<1>4. Holds(v)'
  BY <1>0, <1>1, <1>2, <1>3 DEF Holds, Locked
<1>5. \A k \in Keys : pc[v] \in Decided /\ SameReading(k, cur[v])' => SameReading(k, cur[v])
  <2> SUFFICES ASSUME NEW k \in Keys, pc[v] \in Decided, SameReading(k, cur[v])'
               PROVE  SameReading(k, cur[v])
    OBVIOUS
  <2>1. pc[v] \in Locked
    BY DEF Decided, Locked
  <2>2. latest'[k] # None /\ latest'[k].obs = staging[cur[v]].obs
        /\ latest'[k].val = staging[cur[v]].val
    BY <1>0, <2>1 DEF SameReading
  <2>3. latest'[k] = latest[k]
    BY <2>1, <2>2 DEF Holds, Harmless
  <2> QED
    BY <2>2, <2>3 DEF SameReading
<1>6. Decides(v)'
  BY <1>5, KeysAssumption DEF Decides, CentralPeers, LocalPeers
<1> QED
  BY <1>4, <1>6

\* Locks of different kinds, or of the same kind and different rows, differ.
LEMMA LocksDiffer ==
  /\ \A j, k : RowLock(j) = RowLock(k) => j = k
  /\ \A j, k : LatestLock(j) = LatestLock(k) => j = k
  /\ \A t, u : DedupeLock(t) = DedupeLock(u) => t = u
  /\ \A k, t : RowLock(k) # DedupeLock(t)
  /\ \A j, k : RowLock(k) # LatestLock(j)
  /\ \A k, i : RowLock(k) # StagingLock(i)
BY DEF RowLock, LatestLock, DedupeLock, StagingLock

\* What another worker's view needs of a step of w.
OthersSame(w) ==
  \A v \in Workers : v # w =>
    /\ pc'[v] = pc[v] /\ cur'[v] = cur[v] /\ drop'[v] = drop[v] /\ promote'[v] = promote[v]
    /\ held'[v] = held[v] /\ shared'[v] = shared[v] /\ settled'[v] = settled[v]

\* The end of a per-row transaction, once its effect on the latest table is harmless.
LEMMA EndRowLInv ==
  ASSUME LInv, NEW w \in Workers, EndRow(w), StagingKept,
         \A v \in Workers : v # w => Harmless(v)
  PROVE  Exclusive' /\ \A v \in Workers : Holds(v)' /\ Decides(v)'
<1> USE DEF LInv
<1>1. OthersSame(w) /\ pc'[w] = "rows" /\ drop'[w] = None /\ held'[w] = {} /\ shared' = shared
  BY DEF EndRow, Goto, OthersSame, TInv, TypeOK
<1>2. \A v \in Workers : v # w => Holds(v)' /\ Decides(v)'
  BY <1>1, OthersKept DEF OthersSame
<1>3. Holds(w)' /\ Decides(w)'
  BY <1>1 DEF Holds, Decides, Locked, Decided
<1>4. Exclusive'
  BY <1>1 DEF Exclusive, OthersSame
<1> QED
  BY <1>2, <1>3, <1>4

\* The row a commit deletes for a central candidate is locked by it.
LEMMA DropHarmless ==
  ASSUME LInv, NEW w \in Workers, latest' = Dropped(w)
  PROVE  \A v \in Workers : v # w => Harmless(v)
<1> SUFFICES ASSUME NEW v \in Workers, v # w PROVE Harmless(v)
  OBVIOUS
<1>1. \A k \in Keys : latest'[k] # latest[k] => k = drop[w] /\ latest'[k] = None
  BY DEF Dropped
<1>2. drop[w] # None => RowLock(drop[w]) \notin held[v] /\ drop[w] \notin shared[v]
  BY DEF LInv, Holds, Exclusive
<1>3. \A k \in Keys : k # None
  BY NoneAssumption
<1>4. drop[w] # None => latest[drop[w]] # None
  BY DEF LInv, Holds, SameReading
<1> QED
  BY <1>1, <1>2, <1>3, <1>4 DEF Harmless

\* What InsertEvidence does to the latest table, row by row.
LEMMA InsertEffect ==
  ASSUME LInv, NEW w \in Workers, InsertEvidence(w)
  PROVE  /\ KeyOf(cur[w]) # drop[w] /\ KeyOf(cur[w]) \in Keys
         /\ \A k \in Keys : k # KeyOf(cur[w]) =>
              latest'[k] = (IF k = drop[w] THEN None ELSE latest[k])
         /\ \/ latest'[KeyOf(cur[w])] = latest[KeyOf(cur[w])]
            \/ /\ latest[KeyOf(cur[w])] # None => latest[KeyOf(cur[w])].obs < staging[cur[w]].obs
               /\ latest'[KeyOf(cur[w])] = [obs |-> staging[cur[w]].obs, val |-> staging[cur[w]].val,
                                            gen |-> staging[cur[w]].gen, ev |-> cur[w]]
<1>1. cur[w] \in Ids /\ staging[cur[w]] # None /\ KeyOf(cur[w]) \in Keys
  BY CurFacts DEF LInv, InsertEvidence, RowPcs
<1>2. KeyOf(cur[w]) # drop[w]
  <2>1. CASE drop[w] = None
    BY <1>1, <2>1, NoneAssumption
  <2>2. CASE drop[w] # None
    BY <2>2, KeysAssumption DEF LInv, Holds, TInv, TypeOK
  <2> QED
    BY <2>1, <2>2
<1>3. \A k \in Keys : Dropped(w)[k] = (IF k = drop[w] THEN None ELSE latest[k])
  BY DEF Dropped
<1>4. Dropped(w) \in [Keys -> LatestRows \cup {None}]
  BY DroppedType DEF LInv, TInv
<1>5. CASE promote[w]
  <2>1. latest' = Upsert(Dropped(w), cur[w])
    BY <1>5 DEF InsertEvidence
  <2> QED
    BY <1>1, <1>2, <1>3, <1>4, <2>1, UpsertType DEF LInv, TInv
<1>6. CASE ~promote[w]
  BY <1>1, <1>2, <1>3, <1>6 DEF InsertEvidence
<1> QED
  BY <1>1, <1>2, <1>5, <1>6

\* Promoting a row over an older reading disturbs nothing another transaction relies on.
LEMMA InsertHarmless ==
  ASSUME LInv, NEW w \in Workers, InsertEvidence(w)
  PROVE  \A v \in Workers : v # w => Harmless(v)
<1> SUFFICES ASSUME NEW v \in Workers, v # w, NEW k \in Keys, latest'[k] # latest[k]
             PROVE  /\ latest[k] # None => RowLock(k) \notin held[v] /\ k \notin shared[v]
                    /\ latest[k] = None => LatestLock(k) \notin held[v]
                    /\ latest'[k] # None => DedupeLock(latest'[k].obs) \notin held[v]
  BY DEF Harmless
<1>1. pc[w] = "write" /\ Holds(w)
  BY DEF InsertEvidence, LInv
<1>2. CASE k = KeyOf(cur[w])
  <2>a. latest'[k] = [obs |-> staging[cur[w]].obs, val |-> staging[cur[w]].val,
                      gen |-> staging[cur[w]].gen, ev |-> cur[w]]
    BY <1>2, InsertEffect
  <2>1. latest'[k].obs = staging[cur[w]].obs
    BY <2>a
  <2>2. /\ DedupeLock(staging[cur[w]].obs) \in held[w] /\ LatestLock(k) \in held[w]
        /\ latest[k] # None => RowLock(k) \in held[w]
    BY <1>1, <1>2 DEF Holds, Locked
  <2> QED
    BY <2>1, <2>2 DEF LInv, Exclusive
<1>3. CASE k # KeyOf(cur[w])
  <2>1. k = drop[w] /\ latest'[k] = None /\ k # None
    BY <1>3, InsertEffect, NoneAssumption
  <2>2. RowLock(k) \in held[w] /\ latest[k] # None
    BY <1>1, <2>1 DEF Holds, SameReading
  <2> QED
    BY <2>1, <2>2 DEF LInv, Exclusive
<1> QED
  BY <1>2, <1>3

\* Retiring a switched-off station waits for the row, and holds the station's lock.
LEMMA RetireHarmless ==
  ASSUME LInv, NEW w \in Workers, RetireInactive(w)
  PROVE  \A v \in Workers : v # w => Harmless(v)
<1> SUFFICES ASSUME NEW v \in Workers, v # w PROVE Harmless(v)
  OBVIOUS
<1>1. \A k \in Keys : latest'[k] # latest[k] =>
        k = KeyOf(cur[w]) /\ latest'[k] = None /\ Retires(cur[w])
  BY DEF RetireInactive, LInv, TInv, TypeOK
<1>2. Retires(cur[w]) => /\ latest[KeyOf(cur[w])] # None
                         /\ RowLock(KeyOf(cur[w])) \notin held[v] /\ KeyOf(cur[w]) \notin shared[v]
  BY DEF RetireInactive, RowFree, Free, Retires
<1> QED
  BY <1>1, <1>2 DEF Harmless

\* Every way a per-row transaction can end keeps the lock invariant.
LEMMA RowEndsLInv ==
  ASSUME LInv, NEW w \in Workers, RowEnds(w)
  PROVE  LInv'
<1>1. TInv /\ EndRow(w) /\ StagingKept
  BY RowEndsKept DEF LInv
<1>2. TInv'
  BY RowEndsKept, EndRowTInv DEF LInv
<1>3. latest' = latest => \A v \in Workers : Harmless(v)
  BY DEF Harmless
<1>4. \A v \in Workers : v # w => Harmless(v)
  BY <1>3, DropHarmless, InsertHarmless, RetireHarmless
     DEF RowEnds, Unauthorized, RejectInvalid, SkipUsed, RejectDuplicate, RejectEqualTime,
         RejectInsert, tables
<1> QED
  BY <1>1, <1>2, <1>4, EndRowLInv DEF LInv

\* Steps that leave the latest table alone: only w's own part needs an argument.
LEMMA QuietLInv ==
  ASSUME LInv, NEW w \in Workers, TInv', StagingKept, UNCHANGED latest, OthersSame(w),
         \A x \in held'[w] : x \in held[w] \/ Free(w, x),
         \A k \in shared'[w] : k \in shared[w] \/ Free(w, RowLock(k)),
         \A k \in Keys : RowLock(k) \in held'[w] => RowLock(k) \in held[w] \/ RowFree(w, k),
         Holds(w)', Decides(w)'
  PROVE  LInv'
<1>2. \A v \in Workers : Harmless(v)
  BY DEF Harmless
<1>3. \A v \in Workers : v # w => Holds(v)' /\ Decides(v)'
  BY <1>2, OthersKept DEF OthersSame, LInv
<1>a. \A v \in Workers : shared'[v] \subseteq Keys
  BY DEF TInv, TypeOK
<1>4. Exclusive'
  <2> SUFFICES ASSUME NEW u \in Workers, NEW v \in Workers, u # v
               PROVE  /\ \A x \in held'[v] : x \notin held'[u]
                      /\ \A k \in shared'[v] : RowLock(k) \notin held'[u]
    BY DEF Exclusive
  <2>1. CASE u # w /\ v # w
    BY <2>1 DEF LInv, Exclusive, OthersSame
  <2>2. CASE v = w
    BY <2>2 DEF LInv, Exclusive, OthersSame, Free
  <2>3. CASE u = w
    BY <1>a, <2>3 DEF LInv, Exclusive, OthersSame, Free, RowFree
  <2> QED
    BY <2>1, <2>2, <2>3
<1> QED
  BY <1>3, <1>4 DEF LInv


\* So does every step that only takes a lock or makes a decision.
LEMMA QuietStepLInv ==
  ASSUME LInv, NEW w \in Workers,
         \/ StartCycle(w) \/ FetchCandidates(w) \/ SettleRead(w) \/ NextRow(w)
         \/ Authorize(w) \/ LockDedupe(w) \/ LockLatest(w) \/ CheckUnused(w)
         \/ NoDuplicate(w) \/ Classify(w) \/ FinishCycle(w)
  PROVE  LInv'
<1>a. TInv /\ TInv' /\ Holds(w) /\ Decides(w)
  BY QuietTInv DEF LInv
<1>b. StagingKept /\ UNCHANGED latest
  BY <1>a, QuietKept DEF tables, StartCycle, FetchCandidates, SettleRead, NextRow, Authorize,
     LockDedupe, LockLatest, CheckUnused, NoDuplicate, Classify, FinishCycle
<1>c. OthersSame(w)
  BY <1>a DEF OthersSame, Goto, TInv, TypeOK, tables, StartCycle, FetchCandidates, SettleRead,
     NextRow, Authorize, LockDedupe, LockLatest, CheckUnused, NoDuplicate, Classify, FinishCycle
<1>t. /\ pc \in [Workers -> Promoting \cup {"idle", "fetching"}]
      /\ cur \in [Workers -> Ids \cup {None}]
      /\ drop \in [Workers -> Local \cup {None}]
      /\ promote \in [Workers -> BOOLEAN] /\ settled \in [Workers -> SUBSET Ids]
      /\ held \in [Workers -> SUBSET Locks] /\ shared \in [Workers -> SUBSET Keys]
  BY <1>a DEF TInv, TypeOK
<1> DEFINE LockOK ==
             /\ \A x \in held'[w] : x \in held[w] \/ Free(w, x)
             /\ \A k \in shared'[w] : k \in shared[w] \/ Free(w, RowLock(k))
             /\ \A k \in Keys : RowLock(k) \in held'[w] => RowLock(k) \in held[w] \/ RowFree(w, k)
<1>1. CASE StartCycle(w)
  <2>1. LockOK
    BY <1>1, <1>t, LocksDiffer DEF StartCycle
  <2>2. Holds(w)'
    BY <1>1, <1>a, <1>t DEF StartCycle, Goto, Holds, Locked, Decided, tables
  <2>3. Decides(w)'
    BY <1>1, <1>a, <1>t DEF StartCycle, Goto, Decides, Decided, tables
  <2> QED
    BY <1>a, <1>b, <1>c, <2>1, <2>2, <2>3, QuietLInv
<1>2. CASE FetchCandidates(w)
  <2>1. LockOK
    BY <1>2, <1>t, LocksDiffer DEF FetchCandidates
  <2>2. Holds(w)'
    BY <1>2, <1>a, <1>t DEF FetchCandidates, Goto, Holds, Locked, Decided, tables
  <2>3. Decides(w)'
    BY <1>2, <1>a, <1>t DEF FetchCandidates, Goto, Decides, Decided, tables
  <2> QED
    BY <1>a, <1>b, <1>c, <2>1, <2>2, <2>3, QuietLInv
<1>3. CASE SettleRead(w)
  <2>1. LockOK
    BY <1>3, <1>t, LocksDiffer DEF SettleRead
  <2>2. Holds(w)'
    BY <1>3, <1>a, <1>t DEF SettleRead, Goto, Holds, Locked, Decided, tables, SameReading
  <2>3. Decides(w)'
    BY <1>3, <1>a, <1>t DEF SettleRead, Goto, Decides, Decided, tables
  <2> QED
    BY <1>a, <1>b, <1>c, <2>1, <2>2, <2>3, QuietLInv
<1>4. CASE NextRow(w)
  <2>1. LockOK
    BY <1>4, <1>t, LocksDiffer DEF NextRow
  <2>2. Holds(w)'
    BY <1>4, <1>a, <1>t DEF NextRow, Goto, Holds, Locked, Decided, tables
  <2>3. Decides(w)'
    BY <1>4, <1>a, <1>t DEF NextRow, Goto, Decides, Decided, tables
  <2> QED
    BY <1>a, <1>b, <1>c, <2>1, <2>2, <2>3, QuietLInv
<1>5. CASE Authorize(w)
  <2>1. LockOK
    BY <1>5, <1>t, LocksDiffer DEF Authorize
  <2>2. Holds(w)'
    BY <1>5, <1>a, <1>t DEF Authorize, Goto, Holds, Locked, Decided, tables
  <2>3. Decides(w)'
    BY <1>5, <1>a, <1>t DEF Authorize, Goto, Decides, Decided, tables
  <2> QED
    BY <1>a, <1>b, <1>c, <2>1, <2>2, <2>3, QuietLInv
<1>6. CASE LockDedupe(w)
  <2>1. LockOK
    BY <1>6, <1>t, LocksDiffer DEF LockDedupe
  <2>2. Holds(w)'
    BY <1>6, <1>a, <1>t DEF LockDedupe, Goto, Holds, Locked, Decided, tables
  <2>3. Decides(w)'
    BY <1>6, <1>a, <1>t DEF LockDedupe, Goto, Decides, Decided, tables
  <2> QED
    BY <1>a, <1>b, <1>c, <2>1, <2>2, <2>3, QuietLInv
<1>7. CASE LockLatest(w)
  <2>1. LockOK
    BY <1>7, <1>t, LocksDiffer DEF LockLatest
  <2>2. Holds(w)'
    BY <1>7, <1>a, <1>t DEF LockLatest, Goto, Holds, Locked, Decided, tables, Inactive
  <2>3. Decides(w)'
    BY <1>7, <1>a, <1>t DEF LockLatest, Goto, Decides, Decided, tables
  <2> QED
    BY <1>a, <1>b, <1>c, <2>1, <2>2, <2>3, QuietLInv
<1>8. CASE CheckUnused(w)
  <2>1. LockOK
    BY <1>8, <1>t, LocksDiffer DEF CheckUnused
  <2>2. Holds(w)'
    BY <1>8, <1>a, <1>t DEF CheckUnused, Goto, Holds, Locked, Decided, tables
  <2>3. Decides(w)'
    BY <1>8, <1>a, <1>t DEF CheckUnused, Goto, Decides, Decided, tables
  <2> QED
    BY <1>a, <1>b, <1>c, <2>1, <2>2, <2>3, QuietLInv
<1>9. CASE NoDuplicate(w)
  <2>1. LockOK
    BY <1>9, <1>t, LocksDiffer DEF NoDuplicate
  <2>2. Holds(w)'
    BY <1>9, <1>a, <1>t DEF NoDuplicate, Goto, Holds, Locked, Decided, tables
  <2>a. staging' = staging /\ latest' = latest /\ cur' = cur /\ drop' = drop
    BY <1>9 DEF NoDuplicate, tables
  <2>b. CentralPeers(cur[w])' = CentralPeers(cur[w]) /\ LocalPeers(cur[w])' = LocalPeers(cur[w])
    BY <2>a DEF CentralPeers, LocalPeers, SameReading
  <2>3. Decides(w)'
    BY <1>9, <2>a, <2>b DEF NoDuplicate, Decides
  <2> QED
    BY <1>a, <1>b, <1>c, <2>1, <2>2, <2>3, QuietLInv
<1>10. CASE Classify(w)
  <2>a. staging' = staging /\ latest' = latest /\ cur' = cur /\ drop' = drop
        /\ shared' = shared /\ pc[w] = "classify" /\ pc'[w] = "write"
    BY <1>10, <1>t DEF Classify, tables, Goto
  <2>k. KeyOf(cur[w]) \in Keys
    BY <1>a, <2>a, CurFacts DEF RowPcs
  <2>b. latest[KeyOf(cur[w])] # None =>
          RowFree(w, KeyOf(cur[w])) /\ held'[w] = held[w] \cup {RowLock(KeyOf(cur[w]))}
    BY <1>10, <1>t DEF Classify
  <2>c. latest[KeyOf(cur[w])] = None => held'[w] = held[w]
    BY <1>10, <1>t DEF Classify
  <2>d. promote'[w] = (latest[KeyOf(cur[w])] = None
                         \/ latest[KeyOf(cur[w])].obs < staging[cur[w]].obs)
    BY <1>10, <1>t DEF Classify
  <2>1. LockOK
    BY <2>a, <2>b, <2>c, LocksDiffer DEF RowFree
  <2>2. Holds(w)'
    <3>1. held[w] \subseteq held'[w]
      BY <2>b, <2>c
    <3>2. DedupeLock(staging[cur[w]].obs) \in held[w] /\ LatestLock(KeyOf(cur[w])) \in held[w]
      BY <1>a, <2>a DEF Holds, Locked
    <3>3. drop[w] # None => /\ KeyOf(cur[w]) \in Central /\ RowLock(drop[w]) \in held[w]
                            /\ SameReading(drop[w], cur[w])'
                            /\ <<KeyOf(cur[w]), drop[w]>> \in Near
      BY <1>a, <2>a DEF Holds, SameReading
    <3> QED
      BY <2>a, <2>b, <2>d, <3>1, <3>2, <3>3 DEF Holds, Decided, Locked
  <2>e. CentralPeers(cur[w])' = CentralPeers(cur[w]) /\ LocalPeers(cur[w])' = LocalPeers(cur[w])
    BY <2>a DEF CentralPeers, LocalPeers, SameReading
  <2>3. Decides(w)'
    BY <1>a, <2>a, <2>e DEF Decides, Decided
  <2> QED
    BY <1>a, <1>b, <1>c, <2>1, <2>2, <2>3, QuietLInv
<1>11. CASE FinishCycle(w)
  <2>1. LockOK
    BY <1>11, <1>t, LocksDiffer DEF FinishCycle
  <2>2. Holds(w)'
    BY <1>11, <1>a, <1>t DEF FinishCycle, Goto, Holds, Locked, Decided, tables
  <2>3. Decides(w)'
    BY <1>11, <1>a, <1>t DEF FinishCycle, Goto, Decides, Decided, tables
  <2> QED
    BY <1>a, <1>b, <1>c, <2>1, <2>2, <2>3, QuietLInv
<1> QED
  BY <1>1, <1>2, <1>3, <1>4, <1>5, <1>6, <1>7, <1>8, <1>9, <1>10, <1>11

\* A central candidate locks the one local row it is going to delete.
LEMMA ReplaceLInv ==
  ASSUME LInv, NEW w \in Workers, ReplaceLocal(w)
  PROVE  LInv'
<1>a. TInv /\ TInv' /\ Holds(w)
  BY QuietTInv DEF LInv
<1>t. /\ pc \in [Workers -> Promoting \cup {"idle", "fetching"}]
      /\ drop \in [Workers -> Local \cup {None}] /\ held \in [Workers -> SUBSET Locks]
  BY <1>a DEF TInv, TypeOK
<1>b. PICK l \in LocalPeers(cur[w]) :
        /\ RowFree(w, l) /\ held' = [held EXCEPT ![w] = @ \cup {RowLock(l)}]
        /\ drop' = [drop EXCEPT ![w] = l]
  BY DEF ReplaceLocal
<1>c. /\ staging' = staging /\ latest' = latest /\ cur' = cur /\ shared' = shared
      /\ pc[w] = "duplicate" /\ pc'[w] = "classify" /\ KeyOf(cur[w]) \in Central
      /\ drop'[w] = l /\ held'[w] = held[w] \cup {RowLock(l)} /\ batches' = batches
  BY <1>b, <1>t DEF ReplaceLocal, tables, Goto
<1>d. StagingKept /\ OthersSame(w)
  BY <1>a, <1>b, <1>c, <1>t, QuietKept DEF OthersSame, ReplaceLocal, Goto
<1>1. /\ \A x \in held'[w] : x \in held[w] \/ Free(w, x)
      /\ \A k \in shared'[w] : k \in shared[w] \/ Free(w, RowLock(k))
      /\ \A k \in Keys : RowLock(k) \in held'[w] => RowLock(k) \in held[w] \/ RowFree(w, k)
  BY <1>b, <1>c, LocksDiffer DEF RowFree
<1>2. Holds(w)'
  <2>1. DedupeLock(staging[cur[w]].obs) \in held[w] /\ LatestLock(KeyOf(cur[w])) \in held[w]
    BY <1>a, <1>c DEF Holds, Locked
  <2>2. SameReading(l, cur[w])' /\ <<KeyOf(cur[w]), l>> \in Near
    BY <1>b, <1>c DEF LocalPeers, SameReading
  <2> QED
    BY <1>c, <2>1, <2>2 DEF Holds, Decided, Locked
<1>3. Decides(w)'
  <2>1. OneLocalPeer => LocalPeers(cur[w])' \subseteq {l}
    BY <1>b, <1>c DEF LocalPeers, SameReading, OneLocalPeer
  <2> QED
    BY <1>c, <2>1, KeysAssumption DEF Decides
<1> QED
  BY <1>a, <1>c, <1>d, <1>1, <1>2, <1>3, QuietLInv

\* A failed attempt lets go of everything; staging and settling touch no latest row.
LEMMA OtherStepLInv ==
  ASSUME LInv, NEW w \in Workers,
         RetryPromotion(w) \/ GiveUp(w) \/ Crash(w) \/ StageBatch(w) \/ SettleCommit(w)
  PROVE  LInv'
<1>a. TInv /\ TInv' /\ Holds(w)
  BY FailureTInv, BatchTInv DEF LInv
<1>t. /\ pc \in [Workers -> Promoting \cup {"idle", "fetching"}]
      /\ cur \in [Workers -> Ids \cup {None}] /\ settled \in [Workers -> SUBSET Ids]
      /\ drop \in [Workers -> Local \cup {None}] /\ promote \in [Workers -> BOOLEAN]
      /\ held \in [Workers -> SUBSET Locks] /\ shared \in [Workers -> SUBSET Keys]
  BY <1>a DEF TInv, TypeOK
<1>1. CASE RetryPromotion(w) \/ GiveUp(w) \/ Crash(w)
  <2>1. /\ batches' = batches /\ staging' = staging /\ latest' = latest
        /\ held'[w] = {} /\ shared'[w] = {} /\ drop'[w] = None /\ OthersSame(w)
        /\ pc'[w] \in {"idle", "promote"}
    BY <1>1, <1>t DEF RetryPromotion, GiveUp, Crash, EndCycle, Rollback, Goto, tables, OthersSame
  <2>2. Holds(w)' /\ Decides(w)'
    BY <2>1 DEF Holds, Decides, Locked, Decided
  <2> QED
    BY <1>a, <2>1, <2>2, QuietKept, QuietLInv
<1>2. CASE StageBatch(w)
  <2>1. /\ latest' = latest /\ held' = held /\ shared' = shared /\ drop' = drop /\ OthersSame(w)
        /\ pc[w] = "fetching" /\ pc'[w] = "promote"
    BY <1>2, <1>t DEF StageBatch, Goto, OthersSame
  <2>2. Holds(w)' /\ Decides(w)'
    BY <1>a, <2>1 DEF Holds, Decides, Locked, Decided
  <2> QED
    BY <1>a, <1>2, <2>1, <2>2, StageKept, QuietLInv
<1>3. CASE SettleCommit(w)
  <2>1. /\ latest' = latest /\ held' = held /\ shared'[w] = {} /\ drop' = drop /\ OthersSame(w)
        /\ pc[w] = "settling" /\ pc'[w] = "rows"
    BY <1>3, <1>t DEF SettleCommit, Goto, OthersSame
  <2>2. Holds(w)' /\ Decides(w)'
    BY <1>a, <2>1 DEF Holds, Decides, Locked, Decided
  <2> QED
    BY <1>a, <1>3, <2>1, <2>2, SettleKept, QuietLInv
<1> QED
  BY <1>1, <1>2, <1>3

\* No transaction is open in an initial state.
LEMMA InitLInv == Init => LInv
<1> SUFFICES ASSUME Init PROVE LInv
  OBVIOUS
<1>1. Exclusive /\ \A w \in Workers : Holds(w) /\ Decides(w)
  BY DEF Init, Exclusive, Holds, Decides, Locked, Decided
<1> QED
  BY <1>1, InitTInv DEF LInv

\* The lock invariant is inductive.
LEMMA NextLInv == LInv /\ [Next]_vars => LInv'
<1> SUFFICES ASSUME LInv, [Next]_vars PROVE LInv'
  OBVIOUS
<1>1. CASE UNCHANGED vars
  <2>1. TInv'
    BY NextTInv DEF LInv
  <2>2. Exclusive'
    BY <1>1 DEF LInv, Exclusive, vars
  <2>3. \A w \in Workers : Holds(w)' /\ Decides(w)'
    <3>1. StagingKept /\ \A v \in Workers : Harmless(v)
      BY <1>1, QuietKept DEF LInv, vars, Harmless
    <3> QED
      BY <1>1, <3>1, OthersKept DEF LInv, vars
  <2> QED
    BY <2>1, <2>2, <2>3 DEF LInv
<1>2. CASE Next
  BY <1>2, NextCases, QuietStepLInv, ReplaceLInv, OtherStepLInv, RowEndsLInv
<1> QED
  BY <1>1, <1>2

\* A transaction's view of the latest table never goes stale before its commit: the
\* advisory locks and the row locks of _write_evidence_transaction together exclude
\* every transaction that could change what it decided from, settle and retirement
\* included.
THEOREM DecisionsStayFresh == Spec => []DecisionFresh
<1>1. LInv => DecisionFresh
  <2> SUFFICES ASSUME LInv, NEW w \in Workers, pc[w] = "write"
               PROVE  /\ promote[w] = (latest[KeyOf(cur[w])] = None
                                         \/ latest[KeyOf(cur[w])].obs < staging[cur[w]].obs)
                      /\ drop[w] # None => SameReading(drop[w], cur[w])
    BY DEF DecisionFresh
  <2> QED
    BY DEF LInv, Holds
<1> QED
  BY <1>1, InitLInv, NextLInv, PTL DEF Spec

\* What any step does to the latest table, row by row: nothing, a deletion, or the
\* promotion of the inserted row over nothing or over an older reading.
LEMMA LatestStep ==
  ASSUME LInv, [Next]_vars, NEW k \in Keys, latest'[k] # None, latest'[k] # latest[k]
  PROVE  \E w \in Workers :
           /\ InsertEvidence(w) /\ KeyOf(cur[w]) = k
           /\ latest[k] # None => latest[k].obs < staging[cur[w]].obs
           /\ latest'[k] = [obs |-> staging[cur[w]].obs, val |-> staging[cur[w]].val,
                            gen |-> staging[cur[w]].gen, ev |-> cur[w]]
<1>1. Next
  BY DEF vars
<1>2. PICK w \in Workers : Step(w) \/ StartCycle(w) \/ RetryPromotion(w) \/ GiveUp(w) \/ Crash(w)
  BY <1>1 DEF Next
<1>3. InsertEvidence(w)
  <2>1. CASE RejectEqualTime(w) \/ RejectInsert(w)
    BY <2>1 DEF RejectEqualTime, RejectInsert, Dropped
  <2>2. CASE RetireInactive(w)
    BY <2>2 DEF RetireInactive, LInv, TInv, TypeOK
  <2> QED
    BY <1>2, <2>1, <2>2
       DEF Step, StartCycle, StageBatch, FetchCandidates, SettleRead, SettleCommit, NextRow,
           Authorize, Unauthorized, RejectInvalid, LockDedupe, LockLatest, SkipUsed, CheckUnused,
           RejectDuplicate, ReplaceLocal, NoDuplicate, Classify, FinishCycle, RetryPromotion,
           GiveUp, Crash, EndCycle, Rollback, tables
<1> QED
  BY <1>3, InsertEffect

\* Under every overlap of cycles, a station's latest row is only ever replaced by a
\* strictly newer observation: equal-time conflicts and late arrivals of older
\* readings never overwrite it (_classify_latest_decision and the upsert's WHERE).
THEOREM LatestOnlyMovesForward == Spec => LatestMonotone
<1>1. LInv /\ [Next]_vars =>
        [\A k \in Keys : (latest[k] # None /\ latest'[k] # None /\ latest'[k] # latest[k])
                            => latest'[k].obs > latest[k].obs]_vars
  <2> SUFFICES ASSUME LInv, [Next]_vars, NEW k \in Keys,
                      latest[k] # None, latest'[k] # None, latest'[k] # latest[k]
               PROVE  latest'[k].obs > latest[k].obs
    OBVIOUS
  <2>1. PICK w \in Workers :
           /\ latest[k].obs < staging[cur[w]].obs
           /\ latest'[k] = [obs |-> staging[cur[w]].obs, val |-> staging[cur[w]].val,
                            gen |-> staging[cur[w]].gen, ev |-> cur[w]]
    BY LatestStep
  <2>2. latest'[k].obs = staging[cur[w]].obs /\ latest[k].obs < staging[cur[w]].obs
    BY <2>1
  <2>3. latest[k] \in LatestRows /\ latest'[k] \in LatestRows
    BY NextLInv DEF LInv, TInv, TypeOK
  <2>4. latest[k].obs \in Nat /\ latest'[k].obs \in Nat
    BY <2>3, TimesAssumption DEF LatestRows
  <2> QED
    BY <2>2, <2>4
<1> QED
  BY <1>1, InitLInv, NextLInv, PTL DEF Spec, LatestMonotone

\* The map never shows one flood-sensor reading twice: a central station and a local
\* one near it never both carry the same instant and value, in whichever order and
\* however interleaved the two adapters' transactions commit.  The LIMIT 1 of the
\* duplicate query makes the assumption necessary.
THEOREM NoReadingShownTwice ==
  ASSUME OneLocalPeer
  PROVE  Spec => []NoExactPair
<1> DEFINE PInv == LInv /\ NoExactPair
<1>1. Init => PInv
  BY InitLInv, KeysAssumption DEF Init, NoExactPair
<1>2. PInv /\ [Next]_vars => PInv'
  <2> SUFFICES ASSUME LInv, NoExactPair, [Next]_vars, NEW p \in Near,
                      latest'[p[1]] # None, latest'[p[2]] # None,
                      latest'[p[1]].obs = latest'[p[2]].obs, latest'[p[1]].val = latest'[p[2]].val
               PROVE  FALSE
    BY NextLInv DEF NoExactPair
  <2>0. p[1] \in Central /\ p[2] \in Local /\ p[1] \in Keys /\ p[2] \in Keys /\ p[1] # p[2]
        /\ p = <<p[1], p[2]>>
    BY KeysAssumption
  <2>1. CASE latest'[p[1]] = latest[p[1]] /\ latest'[p[2]] = latest[p[2]]
    BY <2>1 DEF NoExactPair
  <2>2. CASE latest'[p[1]] # latest[p[1]]
    <3>1. PICK w \in Workers :
             /\ InsertEvidence(w) /\ KeyOf(cur[w]) = p[1]
             /\ latest'[p[1]] = [obs |-> staging[cur[w]].obs, val |-> staging[cur[w]].val,
                                 gen |-> staging[cur[w]].gen, ev |-> cur[w]]
      BY <2>0, <2>2, LatestStep
    <3>2. latest'[p[1]].obs = staging[cur[w]].obs /\ latest'[p[1]].val = staging[cur[w]].val
      BY <3>1
    <3>3. p[2] # drop[w] /\ latest'[p[2]] = latest[p[2]]
      BY <2>0, <3>1, InsertEffect
    <3>4. p[2] \in LocalPeers(cur[w])
      BY <2>0, <3>1, <3>2, <3>3 DEF LocalPeers, SameReading
    <3>5. pc[w] = "write" /\ Decides(w)
      BY <3>1 DEF InsertEvidence, LInv
    <3> QED
      BY <2>0, <3>1, <3>3, <3>4, <3>5 DEF Decides, Decided
  <2>3. CASE latest'[p[2]] # latest[p[2]]
    <3>1. PICK w \in Workers :
             /\ InsertEvidence(w) /\ KeyOf(cur[w]) = p[2]
             /\ latest'[p[2]] = [obs |-> staging[cur[w]].obs, val |-> staging[cur[w]].val,
                                 gen |-> staging[cur[w]].gen, ev |-> cur[w]]
      BY <2>0, <2>3, LatestStep
    <3>2. latest'[p[2]].obs = staging[cur[w]].obs /\ latest'[p[2]].val = staging[cur[w]].val
      BY <3>1
    <3>3. latest'[p[1]] = latest[p[1]]
      BY <2>0, <3>1, InsertEffect
    <3>4. p[1] \in CentralPeers(cur[w])
      BY <2>0, <3>1, <3>2, <3>3 DEF CentralPeers, SameReading
    <3>5. pc[w] = "write" /\ Decides(w)
      BY <3>1 DEF InsertEvidence, LInv
    <3> QED
      BY <2>0, <3>1, <3>4, <3>5 DEF Decides, Decided
  <2> QED
    BY <2>1, <2>2, <2>3
<1>3. PInv => NoExactPair
  OBVIOUS
<1> HIDE DEF PInv
<1> QED
  BY <1>1, <1>2, <1>3, PTL DEF Spec

\* A row settled or rejected as an unchanged re-observation leaves its latest row in
\* place: neither a retirement nor a peer replacement can delete it between the read
\* and the commit (the FOR SHARE of _settle_unchanged_observations, the FOR UPDATE of
\* _classify_latest_decision).
THEOREM ReobservationKeepsLatest == Spec => IdempotentHasLatest
<1>1. LInv /\ [Next]_vars =>
        [\A i \in Ids : (Accepted(i) /\ staging'[i].status = "idempotent_existing_observation")
                           => SameReading(KeyOf(i), i) /\ latest'[KeyOf(i)] = latest[KeyOf(i)]]_vars
  <2> SUFFICES ASSUME LInv, [Next]_vars, NEW i \in Ids, Accepted(i),
                      staging'[i].status = "idempotent_existing_observation"
               PROVE  SameReading(KeyOf(i), i) /\ latest'[KeyOf(i)] = latest[KeyOf(i)]
    OBVIOUS
  <2>0. staging[i].status = "accepted" /\ staging'[i] # staging[i] /\ KeyOf(i) \in Keys
        /\ staging[i] # None
    BY DEF Accepted, KeyOf, Ids
  <2>t. staging \in [Ids -> StagingRows \cup {None}] /\ settled \in [Workers -> SUBSET Ids]
        /\ drop \in [Workers -> Local \cup {None}]
    BY DEF LInv, TInv, TypeOK
  <2>1. PICK w \in Workers : Step(w) \/ StartCycle(w) \/ RetryPromotion(w) \/ GiveUp(w) \/ Crash(w)
    BY <2>0 DEF Next, vars
  <2>2. SettleCommit(w) \/ RejectEqualTime(w)
    <3>1. CASE StageBatch(w)
      <4>1. staging'[i] = staging[i]
        <5>1. staging[i] # None => ~(i[1] = batches + 1)
          BY TimesAssumption DEF LInv, TInv, Staged, TypeOK, Ids, Gens
        <5> QED
          BY <2>0, <3>1, <5>1 DEF StageBatch
      <4> QED
        BY <2>0, <4>1
    <3>2. \A j, reason : Reject(j, reason) /\ reason # "idempotent_existing_observation" => FALSE
      <4> SUFFICES ASSUME NEW j, NEW reason, Reject(j, reason),
                          reason # "idempotent_existing_observation"
                   PROVE  FALSE
        OBVIOUS
      <4>1. staging' = [staging EXCEPT ![j] = [staging[j] EXCEPT !.status = reason]]
        BY DEF Reject
      <4>2. i = j
        BY <2>0, <2>t, <4>1
      <4>3. staging[i] \in StagingRows
        BY <2>0, <2>t
      <4>4. staging'[i].status = reason
        BY <2>t, <4>1, <4>2, <4>3 DEF StagingRows
      <4> QED
        BY <4>4
    <3>3. CASE RejectInvalid(w) \/ RetireInactive(w) \/ RejectDuplicate(w) \/ RejectInsert(w)
      BY <3>2, <3>3 DEF RejectInvalid, RetireInactive, RejectDuplicate, RejectInsert
    <3> QED
      BY <2>0, <2>1, <3>1, <3>3
         DEF Step, StartCycle, FetchCandidates, SettleRead, NextRow, Authorize, Unauthorized,
             LockDedupe, LockLatest, SkipUsed, CheckUnused, ReplaceLocal, NoDuplicate, Classify,
             InsertEvidence, FinishCycle, RetryPromotion, GiveUp, Crash, EndCycle, Rollback, tables
  <2>3. CASE SettleCommit(w)
    <3>1. i \in settled[w] /\ latest' = latest /\ pc[w] = "settling"
      BY <2>0, <2>3 DEF SettleCommit
    <3> QED
      BY <3>1 DEF LInv, Holds
  <2>4. CASE RejectEqualTime(w)
    <3>1. PICK reason : /\ Reject(cur[w], reason)
                        /\ reason = IF SameReading(KeyOf(cur[w]), cur[w])
                                    THEN "idempotent_existing_observation" ELSE "conflicting_latest"
      BY <2>4 DEF RejectEqualTime
    <3>2. staging' = [staging EXCEPT ![cur[w]] = [staging[cur[w]] EXCEPT !.status = reason]]
      BY <3>1 DEF Reject
    <3>3. i = cur[w]
      BY <2>0, <2>t, <3>2
    <3>4. staging'[i].status = reason
      <4>1. staging[i] \in StagingRows
        BY <2>0, <2>t
      <4> QED
        BY <2>t, <3>2, <3>3, <4>1 DEF StagingRows
    <3>5. SameReading(KeyOf(i), i)
      BY <3>1, <3>3, <3>4
    <3>6. KeyOf(i) # drop[w]
      <4>1. CASE drop[w] = None
        BY <2>0, <4>1, NoneAssumption
      <4>2. CASE drop[w] # None
        BY <2>t, <3>3, <4>2, KeysAssumption DEF LInv, Holds
      <4> QED
        BY <4>1, <4>2
    <3> QED
      BY <2>0, <2>4, <3>5, <3>6 DEF RejectEqualTime, Dropped
  <2> QED
    BY <2>2, <2>3, <2>4
<1> QED
  BY <1>1, InitLInv, NextLInv, PTL DEF Spec, IdempotentHasLatest

\* A latest row always shows a reading that evidence of this very station backs.
THEOREM LatestIsBacked == Spec => []LatestBacked
<1> DEFINE BInv == LInv /\ LatestBacked
<1>1. Init => BInv
  BY InitLInv DEF Init, LatestBacked
<1>2. BInv /\ [Next]_vars => BInv'
  <2> SUFFICES ASSUME LInv, LatestBacked, [Next]_vars, NEW k \in Keys, latest'[k] # None
               PROVE  \E e \in evidence' : /\ e.id = latest'[k].ev /\ KeyOf(e.id) = k
                                           /\ e.obs = latest'[k].obs /\ e.val = latest'[k].val
    BY NextLInv DEF LatestBacked
  <2>1. evidence \subseteq evidence'
    BY DEF Next, vars, Step, StartCycle, StageBatch, FetchCandidates, SettleRead, SettleCommit,
           NextRow, Authorize, Unauthorized, RejectInvalid, LockDedupe, LockLatest,
           RetireInactive, SkipUsed, CheckUnused, RejectDuplicate, ReplaceLocal, NoDuplicate,
           Classify, RejectEqualTime, RejectInsert, InsertEvidence, FinishCycle,
           RetryPromotion, GiveUp, Crash, EndCycle, Rollback, tables
  <2>2. CASE latest'[k] = latest[k]
    BY <2>1, <2>2 DEF LatestBacked
  <2>3. CASE latest'[k] # latest[k]
    <3>1. PICK w \in Workers :
             /\ InsertEvidence(w) /\ KeyOf(cur[w]) = k
             /\ latest'[k] = [obs |-> staging[cur[w]].obs, val |-> staging[cur[w]].val,
                              gen |-> staging[cur[w]].gen, ev |-> cur[w]]
      BY <2>3, LatestStep
    <3> DEFINE e == [id |-> cur[w], raw |-> staging[cur[w]].raw,
                     obs |-> staging[cur[w]].obs, val |-> staging[cur[w]].val]
    <3>2. e \in evidence'
      BY <3>1 DEF InsertEvidence
    <3>3. e.id = latest'[k].ev /\ KeyOf(e.id) = k /\ e.obs = latest'[k].obs /\ e.val = latest'[k].val
      BY <3>1
    <3> QED
      BY <3>2, <3>3
  <2> QED
    BY <2>2, <2>3
<1>3. BInv => LatestBacked
  OBVIOUS
<1> HIDE DEF BInv
<1> QED
  BY <1>1, <1>2, <1>3, PTL DEF Spec

-----------------------------------------------------------------------------
\* The transactions implement the map that StationMap describes.

\* A station shows nothing exactly when it has no latest row.
LEMMA ReadingNotNone ==
  ASSUME LInv, NEW k \in Keys
  PROVE  Shown[k] = None <=> latest[k] = None
<1>1. latest[k] \in LatestRows \cup {None}
  BY DEF LInv, TInv, TypeOK
<1>2. latest[k] \in LatestRows => [obs |-> latest[k].obs, val |-> latest[k].val] \in [obs : Times, val : Values]
  BY DEF LatestRows
<1> QED
  BY <1>1, <1>2, NoneAssumption DEF Shown, Reading

\* A commit that only deletes the peer row is a step of the map, or none at all.
LEMMA DropOnMap ==
  ASSUME LInv, NEW w \in Workers, latest' = Dropped(w)
  PROVE  [Map!Next]_Shown
<1>1. CASE drop[w] = None
  <2>1. \A k \in Keys : latest'[k] = latest[k]
    BY <1>1, NoneAssumption DEF Dropped
  <2> QED
    BY <2>1 DEF Shown, Reading
<1>2. CASE drop[w] # None
  <2>1. drop[w] \in Local /\ drop[w] \in Keys /\ latest[drop[w]] # None
    BY <1>2, KeysAssumption DEF LInv, TInv, TypeOK, Holds, SameReading
  <2>2. Map!TakeDown(drop[w])
    <3>1. Shown[drop[w]] # None
      BY <2>1, ReadingNotNone DEF Shown, Reading
    <3>2. Shown' = [Shown EXCEPT ![drop[w]] = None]
      BY <2>1 DEF Shown, Reading, Dropped
    <3> QED
      BY <3>1, <3>2 DEF Map!TakeDown
  <2> QED
    BY <2>1, <2>2 DEF Map!Next
<1> QED
  BY <1>1, <1>2

\* A commit that promotes a reading puts it on the map in one step with the deletion
\* of the local row that shows the same.
LEMMA InsertOnMap ==
  ASSUME OneLocalPeer, LInv, LInv', NEW w \in Workers, InsertEvidence(w)
  PROVE  [Map!Next]_Shown
<1> DEFINE i == cur[w]
           k == KeyOf(cur[w])
           r == [obs |-> staging[cur[w]].obs, val |-> staging[cur[w]].val]
<1>0. pc[w] = "write" /\ Holds(w) /\ Decides(w) /\ pc[w] \in Decided
  BY DEF InsertEvidence, LInv, Decided
<1>1. CASE latest'[k] = latest[k]
  <2>1. \A n \in Keys : latest'[n] = (IF n = drop[w] THEN None ELSE latest[n])
    BY <1>1, InsertEffect
  <2>2. latest' = Dropped(w)
    BY <2>1 DEF Dropped, LInv, TInv, TypeOK
  <2> QED
    BY <2>2, DropOnMap
<1>2. CASE latest'[k] # latest[k]
  <2>1. /\ k # drop[w] /\ k \in Keys
        /\ \A n \in Keys : n # k => latest'[n] = (IF n = drop[w] THEN None ELSE latest[n])
        /\ latest[k] # None => latest[k].obs < staging[i].obs
        /\ latest'[k] = [obs |-> staging[i].obs, val |-> staging[i].val,
                         gen |-> staging[i].gen, ev |-> i]
    BY <1>2, InsertEffect
  <2>2. i \in Ids /\ staging[i] \in StagingRows /\ r \in [obs : Times, val : Values]
    BY <1>0, CurFacts DEF LInv, TInv, TypeOK, RowPcs, StagingRows
  <2>3. \A n \in Keys : Shown[n] = r <=> SameReading(n, i)
    <3> SUFFICES ASSUME NEW n \in Keys PROVE Shown[n] = r <=> SameReading(n, i)
      OBVIOUS
    <3>1. CASE latest[n] = None
      BY <2>2, <3>1, NoneAssumption DEF Shown, Reading, SameReading
    <3>2. CASE latest[n] # None
      <4>1. Shown[n] = [obs |-> latest[n].obs, val |-> latest[n].val]
        BY <3>2 DEF Shown, Reading
      <4> QED
        BY <3>2, <4>1 DEF SameReading
    <3> QED
      BY <3>1, <3>2
  <2>4. Shown'[k] = r
    <3>1. latest'[k] # None
      <4>1. latest'[k] \in LatestRows
        BY <2>1, <2>2 DEF LatestRows, StagingRows
      <4> QED
        BY <4>1, NoneAssumption
    <3> QED
      BY <2>1, <3>1 DEF Shown, Reading
  <2>5. Shown[k] = None \/ Shown[k].obs < r.obs
    BY <2>1 DEF Shown, Reading
  <2>6. \A c \in Keys : <<c, k>> \in Near => Shown[c] # r
    BY <1>0, <2>1, <2>3, KeysAssumption DEF Decides, CentralPeers
  <2>7. \A n \in Keys : n # k =>
          Shown'[n] = (IF <<k, n>> \in Near /\ Shown[n] = r THEN None ELSE Shown[n])
    <3> SUFFICES ASSUME NEW n \in Keys, n # k
                 PROVE  Shown'[n] = (IF <<k, n>> \in Near /\ Shown[n] = r THEN None ELSE Shown[n])
      OBVIOUS
    <3>1. CASE n = drop[w]
      <4>1. <<k, n>> \in Near /\ Shown[n] = r
        BY <1>0, <2>3, <3>1, NoneAssumption DEF Holds
      <4>2. latest'[n] = None
        BY <2>1, <3>1
      <4> QED
        BY <4>1, <4>2 DEF Shown, Reading
    <3>2. CASE n # drop[w]
      <4>1. ~(<<k, n>> \in Near /\ Shown[n] = r)
        BY <1>0, <2>3, <3>2, KeysAssumption DEF Decides, LocalPeers
      <4>2. latest'[n] = latest[n]
        BY <2>1, <3>2
      <4> QED
        BY <4>1, <4>2 DEF Shown, Reading
    <3> QED
      BY <3>1, <3>2
  <2>8. Shown' = [n \in Keys |-> IF n = k THEN r
                                 ELSE IF <<k, n>> \in Near /\ Shown[n] = r THEN None
                                 ELSE Shown[n]]
    BY <2>1, <2>4, <2>7 DEF Shown
  <2>9. Map!Show(k, r)
    BY <2>4, <2>5, <2>6, <2>8 DEF Map!Show
  <2> QED
    BY <2>1, <2>2, <2>9 DEF Map!Next
<1> QED
  BY <1>1, <1>2

\* Whatever cycles overlap, fail, are retried or crash, every commit is one step of the
\* map: the detailed transactions implement StationMap.  The LIMIT 1 of the duplicate
\* query makes the assumption necessary.
THEOREM PromotionImplementsMap ==
  ASSUME OneLocalPeer
  PROVE  Spec => ImplementsMap
<1>1. Init => Map!Init
  BY DEF Init, Map!Init, Shown, Reading
<1>2. LInv /\ [Next]_vars => [Map!Next]_Shown
  <2> SUFFICES ASSUME LInv, [Next]_vars PROVE [Map!Next]_Shown
    OBVIOUS
  <2>0. LInv'
    BY NextLInv
  <2>1. CASE UNCHANGED latest
    BY <2>1 DEF Shown, Reading
  <2>2. CASE ~UNCHANGED latest
    <3>1. PICK w \in Workers :
             Step(w) \/ StartCycle(w) \/ RetryPromotion(w) \/ GiveUp(w) \/ Crash(w)
      BY <2>2 DEF Next, vars
    <3>2. RetireInactive(w) \/ RejectEqualTime(w) \/ RejectInsert(w) \/ InsertEvidence(w)
      BY <2>2, <3>1
         DEF Step, StartCycle, StageBatch, FetchCandidates, SettleRead, SettleCommit, NextRow,
             Authorize, Unauthorized, RejectInvalid, LockDedupe, LockLatest, SkipUsed, CheckUnused,
             RejectDuplicate, ReplaceLocal, NoDuplicate, Classify, FinishCycle, RetryPromotion,
             GiveUp, Crash, EndCycle, Rollback, tables
    <3>3. CASE RejectEqualTime(w) \/ RejectInsert(w)
      BY <3>3, DropOnMap DEF RejectEqualTime, RejectInsert
    <3>4. CASE InsertEvidence(w)
      BY <2>0, <3>4, InsertOnMap
    <3>5. CASE RetireInactive(w)
      <4> DEFINE k == KeyOf(cur[w])
      <4>1. k \in Local /\ k \in Keys /\ Retires(cur[w])
        BY <2>2, <3>5, KeysAssumption DEF RetireInactive, LInv, Holds, TInv, TypeOK
      <4>2. latest[k] # None /\ latest' = [latest EXCEPT ![k] = None]
        BY <3>5, <4>1 DEF RetireInactive, Retires
      <4>3. Shown[k] # None
        BY <4>1, <4>2, ReadingNotNone DEF Shown, Reading
      <4>4. Shown' = [Shown EXCEPT ![k] = None]
        BY <4>1, <4>2 DEF Shown, Reading, LInv, TInv, TypeOK
      <4>5. Map!TakeDown(k)
        BY <4>3, <4>4 DEF Map!TakeDown
      <4> QED
        BY <4>1, <4>5 DEF Map!Next
    <3> QED
      BY <3>2, <3>3, <3>4, <3>5
  <2> QED
    BY <2>1, <2>2
<1> QED
  BY <1>1, <1>2, InitLInv, NextLInv, PTL DEF Spec, ImplementsMap, Map!Spec

-----------------------------------------------------------------------------
(***************************************************************************)
(* Rows a promotion has decided.  fetch_accepted_staging offers a row only *)
(* while it is accepted and its (source_id, raw_ref) has no evidence: both *)
(* are one-way.  A row found used has evidence of its own raw_ref, because *)
(* evidence is written from the staging row and neither is rewritten.      *)
(***************************************************************************)
Terminal(i) == staging[i] # None /\ (~Accepted(i) \/ HasEvidence(KeyOf(i), staging[i].raw))

FromStaging == \A e \in evidence : staging[e.id] # None /\ e.raw = staging[e.id].raw

PInv == TInv /\ FromStaging /\ \A w \in Workers : \A i \in done[w] : Terminal(i)

\* A status change to anything but "accepted" leaves the row rejected.
LEMMA RejectIsTerminal ==
  ASSUME TInv, NEW i \in Ids, staging[i] # None, NEW reason \in Statuses \ {"accepted"},
         Reject(i, reason)
  PROVE  /\ staging'[i] # None /\ ~Accepted(i)'
         /\ \A j \in Ids : j # i => staging'[j] = staging[j]
<1>1. staging[i] \in StagingRows /\ staging \in [Ids -> StagingRows \cup {None}]
  BY DEF TInv, TypeOK
<1>2. /\ staging'[i] = [staging[i] EXCEPT !.status = reason]
      /\ \A j \in Ids : j # i => staging'[j] = staging[j]
  BY <1>1 DEF Reject
<1>3. staging'[i] # None /\ staging'[i].status = reason
  BY <1>1, <1>2, StatusChange
<1> QED
  BY <1>2, <1>3 DEF Accepted

\* What the end of a per-row transaction does to the staging table: nothing, or the
\* terminal rejection of its own row.
LEMMA RowEndsReject ==
  ASSUME TInv, NEW w \in Workers, RowEnds(w)
  PROVE  \/ UNCHANGED staging
         \/ \E reason \in Statuses \ {"accepted"} : Reject(cur[w], reason)
<1>1. {"invalid_candidate", "inactive_station", "duplicate_central",
       "idempotent_existing_observation", "conflicting_latest", "source_catalog_missing",
       "idempotent_existing_evidence"} \subseteq Statuses \ {"accepted"}
  BY DEF Statuses
<1> QED
  BY <1>1 DEF RowEnds, Unauthorized, RejectInvalid, RetireInactive, SkipUsed, RejectDuplicate,
              RejectEqualTime, RejectInsert, InsertEvidence, tables

\* No step rewrites what a staging row or an evidence row says, removes one, or makes a
\* rejected row accepted again.
LEMMA RowsStay ==
  ASSUME TInv, [Next]_vars
  PROVE  /\ StagingKept /\ evidence \subseteq evidence'
         /\ \A i \in Ids : (staging[i] # None /\ ~Accepted(i)) => ~Accepted(i)'
<1>1. evidence \subseteq evidence'
  BY DEF Next, vars, Step, StartCycle, StageBatch, FetchCandidates, SettleRead, SettleCommit,
         NextRow, Authorize, Unauthorized, RejectInvalid, LockDedupe, LockLatest,
         RetireInactive, SkipUsed, CheckUnused, RejectDuplicate, ReplaceLocal, NoDuplicate,
         Classify, RejectEqualTime, RejectInsert, InsertEvidence, FinishCycle,
         RetryPromotion, GiveUp, Crash, EndCycle, Rollback, tables
<1>2. CASE UNCHANGED staging /\ batches' = batches
  BY <1>1, <1>2, QuietKept DEF Accepted
<1>3. ASSUME NEW w \in Workers, RowEnds(w)
      PROVE  StagingKept /\ \A i \in Ids : (staging[i] # None /\ ~Accepted(i)) => ~Accepted(i)'
  <2>1. StagingKept /\ cur[w] \in Ids /\ staging[cur[w]] # None
    BY <1>3, RowEndsKept, CurFacts
  <2> QED
    BY <1>3, <2>1, RowEndsReject, RejectIsTerminal DEF Accepted
<1>4. ASSUME NEW w \in Workers, SettleCommit(w)
      PROVE  StagingKept /\ \A i \in Ids : (staging[i] # None /\ ~Accepted(i)) => ~Accepted(i)'
  <2>1. \A i \in Ids : ~Accepted(i) => staging'[i] = staging[i]
    BY <1>4 DEF SettleCommit
  <2> QED
    BY <1>4, <2>1, SettleKept DEF Accepted
<1>5. ASSUME NEW w \in Workers, StageBatch(w)
      PROVE  StagingKept /\ \A i \in Ids : (staging[i] # None /\ ~Accepted(i)) => ~Accepted(i)'
  <2>1. \A i \in Ids : staging[i] # None => staging'[i] = staging[i]
    <3>1. \A i \in Ids : staging[i] # None => i[1] # batches + 1
      BY TimesAssumption DEF TInv, TypeOK, Staged, Ids, Gens
    <3> QED
      BY <1>5, <3>1 DEF StageBatch
  <2> QED
    BY <1>5, <2>1, StageKept DEF Accepted
<1>6. CASE UNCHANGED vars
  BY <1>2, <1>6 DEF vars, tables
<1>7. CASE Next
  <2>1. PICK w \in Workers :
           \/ StartCycle(w) \/ FetchCandidates(w) \/ SettleRead(w) \/ NextRow(w)
           \/ Authorize(w) \/ LockDedupe(w) \/ LockLatest(w) \/ CheckUnused(w)
           \/ ReplaceLocal(w) \/ NoDuplicate(w) \/ Classify(w) \/ FinishCycle(w)
           \/ RetryPromotion(w) \/ GiveUp(w) \/ Crash(w)
           \/ StageBatch(w) \/ SettleCommit(w) \/ RowEnds(w)
    BY <1>7, NextCases
  <2>2. \/ UNCHANGED staging /\ batches' = batches
        \/ StageBatch(w) \/ SettleCommit(w) \/ RowEnds(w)
    BY <2>1 DEF StartCycle, FetchCandidates, SettleRead, NextRow, Authorize, LockDedupe,
                LockLatest, CheckUnused, ReplaceLocal, NoDuplicate, Classify, FinishCycle,
                RetryPromotion, GiveUp, Crash, EndCycle, Rollback, tables
  <2> QED
    BY <1>1, <1>2, <1>3, <1>4, <1>5, <2>2
<1> QED
  BY <1>6, <1>7

\* Once terminal, a row stays terminal: it is never offered to a promotion again.
LEMMA TerminalStays ==
  ASSUME TInv, [Next]_vars, NEW i \in Ids, Terminal(i)
  PROVE  Terminal(i)'
<1>1. staging'[i] # None /\ staging'[i].raw = staging[i].raw
  BY RowsStay DEF StagingKept, Terminal
<1> QED
  BY <1>1, RowsStay DEF Terminal, HasEvidence

\* Evidence says what its staging row says, and goes on doing so.
LEMMA FromStagingStays ==
  ASSUME TInv, FromStaging, [Next]_vars
  PROVE  FromStaging'
<1> SUFFICES ASSUME NEW e \in evidence' PROVE staging'[e.id] # None /\ e.raw = staging'[e.id].raw
  BY DEF FromStaging
<1>1. CASE e \in evidence
  <2>1. e.id \in Ids /\ staging[e.id] # None /\ e.raw = staging[e.id].raw
    BY <1>1 DEF FromStaging, TInv, TypeOK, EvidenceRows
  <2> QED
    BY <2>1, RowsStay DEF StagingKept
<1>2. CASE e \notin evidence
  <2>1. PICK w \in Workers : InsertEvidence(w)
    BY <1>2 DEF Next, vars, Step, StartCycle, StageBatch, FetchCandidates, SettleRead,
           SettleCommit, NextRow, Authorize, Unauthorized, RejectInvalid, LockDedupe,
           LockLatest, RetireInactive, SkipUsed, CheckUnused, RejectDuplicate, ReplaceLocal,
           NoDuplicate, Classify, RejectEqualTime, RejectInsert, FinishCycle,
           RetryPromotion, GiveUp, Crash, EndCycle, Rollback, tables
  <2>2. staging[cur[w]] # None
    BY <2>1, CurFacts DEF InsertEvidence, RowPcs
  <2> QED
    BY <1>2, <2>1, <2>2 DEF InsertEvidence
<1> QED
  BY <1>1, <1>2

\* The row whose transaction ends is terminal from then on, whichever way it ends.
LEMMA EndedRowIsTerminal ==
  ASSUME TInv, FromStaging, [Next]_vars, NEW w \in Workers, RowEnds(w),
         NEW i \in Ids, i = cur[w]
  PROVE  Terminal(i)'
<1>1. staging[i] # None /\ staging'[i] # None /\ staging'[i].raw = staging[i].raw
  BY RowEndsKept, CurFacts DEF StagingKept
<1>2. CASE Unauthorized(w)
  BY <1>1, <1>2, TerminalStays DEF Unauthorized, Terminal
<1>3. CASE SkipUsed(w)
  <2>1. PICK e \in evidence : e.id = i
    BY <1>3 DEF SkipUsed, AlreadyUsed
  <2>2. e.id[2] = KeyOf(i) /\ e.raw = staging[i].raw
    BY <2>1 DEF FromStaging, KeyOf
  <2> QED
    BY <1>1, <2>2, TerminalStays DEF Terminal, HasEvidence
<1>4. CASE \E reason \in Statuses \ {"accepted"} : Reject(i, reason)
  BY <1>1, <1>4, RejectIsTerminal DEF Terminal
<1>5. CASE InsertEvidence(w)
  <2> DEFINE e == [id |-> i, raw |-> staging[i].raw, obs |-> staging[i].obs, val |-> staging[i].val]
  <2>1. e \in evidence'
    BY <1>5 DEF InsertEvidence
  <2>2. e.id[2] = KeyOf(i) /\ e.raw = staging'[i].raw
    BY <1>1 DEF KeyOf
  <2> QED
    BY <1>1, <2>1, <2>2 DEF Terminal, HasEvidence
<1>6. CASE RejectInvalid(w) \/ RetireInactive(w) \/ RejectDuplicate(w)
  BY <1>4, <1>6 DEF RejectInvalid, RetireInactive, RejectDuplicate, Statuses
<1>7. CASE RejectEqualTime(w) \/ RejectInsert(w)
  BY <1>4, <1>7 DEF RejectEqualTime, RejectInsert, Statuses
<1> QED
  BY <1>2, <1>3, <1>5, <1>6, <1>7 DEF RowEnds

\* A row becomes decided when its transaction ends or the settle transaction commits.
LEMMA NewlyDone ==
  ASSUME TInv, [Next]_vars, NEW v \in Workers, NEW i \in done'[v]
  PROVE  \/ i \in done[v]
         \/ \E w \in Workers : RowEnds(w) /\ i = cur[w]
         \/ \E w \in Workers : SettleCommit(w) /\ i \in settled[w] /\ Accepted(i)
<1>1. done \in [Workers -> SUBSET Ids]
  BY DEF TInv, TypeOK
<1>2. CASE UNCHANGED done
  BY <1>2
<1>3. ASSUME NEW w \in Workers, FetchCandidates(w) \/ FinishCycle(w) \/ RetryPromotion(w)
                                  \/ GiveUp(w) \/ Crash(w)
      PROVE  i \in done[v]
  BY <1>1, <1>3 DEF FetchCandidates, FinishCycle, RetryPromotion, GiveUp, Crash, EndCycle,
                    Rollback
<1>4. ASSUME NEW w \in Workers, RowEnds(w)
      PROVE  i \in done[v] \/ i = cur[w]
  <2>1. done' = [done EXCEPT ![w] = @ \cup {cur[w]}]
    BY <1>4, RowEndsKept DEF EndRow
  <2> QED
    BY <1>1, <2>1
<1>5. ASSUME NEW w \in Workers, SettleCommit(w)
      PROVE  i \in done[v] \/ (i \in settled[w] /\ Accepted(i))
  BY <1>1, <1>5 DEF SettleCommit
<1>6. CASE Next
  <2>1. PICK w \in Workers :
           \/ StartCycle(w) \/ SettleRead(w) \/ NextRow(w) \/ Authorize(w) \/ LockDedupe(w)
           \/ LockLatest(w) \/ CheckUnused(w) \/ ReplaceLocal(w) \/ NoDuplicate(w)
           \/ Classify(w) \/ StageBatch(w)
           \/ FetchCandidates(w) \/ FinishCycle(w) \/ RetryPromotion(w) \/ GiveUp(w) \/ Crash(w)
           \/ SettleCommit(w) \/ RowEnds(w)
    BY <1>6, NextCases
  <2>2. \/ UNCHANGED done
        \/ FetchCandidates(w) \/ FinishCycle(w) \/ RetryPromotion(w) \/ GiveUp(w) \/ Crash(w)
        \/ SettleCommit(w) \/ RowEnds(w)
    BY <2>1 DEF StartCycle, SettleRead, NextRow, Authorize, LockDedupe, LockLatest,
                CheckUnused, ReplaceLocal, NoDuplicate, Classify, StageBatch
  <2> QED
    BY <1>2, <1>3, <1>4, <1>5, <2>2
<1> QED
  BY <1>2, <1>6 DEF vars

\* A re-observation that the settle transaction found accepted is rejected by it.
LEMMA SettledIsTerminal ==
  ASSUME TInv, NEW w \in Workers, SettleCommit(w), NEW i \in settled[w], Accepted(i)
  PROVE  Terminal(i)'
<1>1. i \in Ids /\ staging[i] \in StagingRows
  BY DEF TInv, TypeOK, Accepted
<1>2. staging'[i] = [staging[i] EXCEPT !.status = "idempotent_existing_observation"]
  BY <1>1 DEF SettleCommit
<1>3. "idempotent_existing_observation" \in Statuses
  BY DEF Statuses
<1>4. staging'[i] # None /\ staging'[i].status = "idempotent_existing_observation"
  BY <1>1, <1>2, <1>3, StatusChange
<1> QED
  BY <1>4 DEF Terminal, Accepted

\* Every row a promotion has gone through is rejected or backed by evidence of its
\* (source_id, raw_ref), whatever other cycles do to it meanwhile: the retry and the next
\* cycle never see it again (fetch_accepted_staging).
THEOREM ProcessedRowsAreTerminal == Spec => []ProcessedIsTerminal
<1>1. Init => PInv
  BY InitTInv DEF Init, PInv, FromStaging
<1>2. PInv /\ [Next]_vars => PInv'
  <2> SUFFICES ASSUME PInv, [Next]_vars, NEW w \in Workers, NEW i \in done'[w]
               PROVE  Terminal(i)'
    BY NextTInv, FromStagingStays DEF PInv
  <2>1. TInv /\ FromStaging /\ i \in Ids
    BY NextTInv DEF PInv, TInv, TypeOK
  <2> QED
    BY <2>1, NewlyDone, TerminalStays, EndedRowIsTerminal, SettledIsTerminal DEF PInv
<1>3. PInv => ProcessedIsTerminal
  BY DEF PInv, Terminal, ProcessedIsTerminal
<1> QED
  BY <1>1, <1>2, <1>3, PTL DEF Spec
===============================================================================
