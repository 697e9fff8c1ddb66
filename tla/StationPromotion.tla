--------------------------- MODULE StationPromotion ---------------------------
(***************************************************************************)
(* Promotion of station observations: staging rows become evidence rows    *)
(* and the one official_realtime_latest row of their station.              *)
(*                                                                         *)
(* Several ingestion cycles overlap (the scheduler lease can be lost while *)
(* a cycle runs).  Each cycle stages one adapter snapshot and promotes it: *)
(* one batched "settle" transaction for re-observations, then one          *)
(* transaction per remaining row.  A transaction is split at the points    *)
(* where it may wait for a lock; what it writes appears at its commit.     *)
(* A station key stands for (adapter_key, event_type, station_id); a       *)
(* snapshot's raw_ref is content-addressed, so it is the content itself.   *)
(***************************************************************************)
EXTENDS Naturals, FiniteSets

CONSTANTS
  Workers,     \* processes that may run an ingestion cycle at the same time
  Keys,        \* station keys
  Central,     \* keys of official.wra_iow.flood_depth
  Local,       \* keys of local.tainan.flood_sensor
  Near,        \* <<central, local>> pairs: same station id or within 150 m
  Uncatalogued,\* keys whose adapter has no data_sources row
  Times,       \* observed_at instants
  Values,      \* metric fingerprints of a reading
  Snapshots,   \* what one fetch may return: partial functions Keys -> Readings
  MaxGen,      \* bound: number of ingestion generations
  None         \* absence of a row, key or snapshot

Flags == {"ok", "invalid", "rt_off", "meta_off"}
\* validation_status, a rejected one named by its rejection_reason
Statuses == {"accepted", "invalid_candidate", "inactive_station", "duplicate_central",
             "idempotent_existing_observation", "conflicting_latest",
             "source_catalog_missing", "idempotent_existing_evidence"}
Readings == [obs : Times, val : Values, flag : Flags]
Gens == 1..MaxGen

ASSUME KeysAssumption ==
  /\ Central \subseteq Keys /\ Local \subseteq Keys /\ Central \cap Local = {}
  /\ Near \subseteq Central \X Local /\ Uncatalogued \subseteq Keys
ASSUME TimesAssumption == Times \subseteq Nat /\ MaxGen \in Nat
ASSUME SnapshotsAssumption ==
  /\ None \notin Snapshots
  /\ \A s \in Snapshots : DOMAIN s \subseteq Keys /\ \A k \in DOMAIN s : s[k] \in Readings

VARIABLES
  clock,    \* generations handed out so far (cycle start times)
  batches,  \* staging batches written so far (created_at order)
  staging,  \* staging_evidence: <<batch, key>> -> row, or None
  evidence, \* set of evidence rows
  latest,   \* official_realtime_latest: key -> row, or None
  pc,       \* where each worker's cycle is
  cycle,    \* its generation, staged snapshot and promotion attempt
  todo,     \* staging ids fetched and not yet decided in this attempt
  done,     \* staging ids decided in this attempt
  cur,      \* staging id of the transaction in progress
  settled,  \* staging ids the settle transaction read as unchanged
  drop,     \* local peer whose latest row the transaction deletes
  promote,  \* the transaction's promote_latest
  held,     \* exclusive locks of the worker's open transaction
  shared    \* latest rows it holds FOR SHARE

tables == <<staging, evidence, latest>>
vars == <<clock, batches, staging, evidence, latest, pc, cycle, todo, done, cur,
          settled, drop, promote, held, shared>>

Ids == Gens \X Keys
StagingRows == [obs : Times, val : Values, flag : Flags, gen : Gens,
                raw : Snapshots, status : Statuses]
LatestRows == [obs : Times, val : Values, gen : Gens, ev : Ids]
EvidenceRows == [id : Ids, raw : Snapshots, obs : Times, val : Values]

ASSUME NoneAssumption ==
  None \notin Keys /\ None \notin Ids /\ None \notin StagingRows /\ None \notin LatestRows
  /\ None \notin [obs : Times, val : Values]

\* Locks: FOR UPDATE on a staging row, the two advisory locks of
\* _lock_realtime_decision, and the row lock on a latest row.
StagingLock(i) == [kind |-> "staging", of |-> i[2], at |-> i[1]]
DedupeLock(t) == [kind |-> "dedupe", of |-> None, at |-> t]
LatestLock(k) == [kind |-> "latest", of |-> k, at |-> 0]
RowLock(k) == [kind |-> "row", of |-> k, at |-> 0]
Locks == {StagingLock(i) : i \in Ids} \cup {DedupeLock(t) : t \in Times}
           \cup {LatestLock(k) : k \in Keys} \cup {RowLock(k) : k \in Keys}

Free(w, lock) == \A v \in Workers \ {w} : lock \notin held[v]
\* An exclusive row lock also waits for other transactions' share locks.
RowFree(w, k) == Free(w, RowLock(k)) /\ \A v \in Workers \ {w} : k \notin shared[v]

KeyOf(i) == i[2]
Accepted(i) == staging[i] # None /\ staging[i].status = "accepted"
Inactive(i) == KeyOf(i) \in Local /\ staging[i].flag \in {"rt_off", "meta_off"}
HasEvidence(k, raw) == \E e \in evidence : e.id[2] = k /\ e.raw = raw
AlreadyUsed(i) == \E e \in evidence : e.id = i
SameReading(k, i) == /\ latest[k] # None
                     /\ latest[k].obs = staging[i].obs
                     /\ latest[k].val = staging[i].val

\* _current_candidate_rejection_reason: the row never reaches the latest decision.
Refused(i) == staging[i].flag = "invalid" \/ Inactive(i)

\* fetch_accepted_staging: the oldest accepted row per (source_id, raw_ref) that
\* has no evidence yet.
FetchAccepted(raw) ==
  {i \in Ids : /\ Accepted(i) /\ staging[i].raw = raw /\ ~HasEvidence(KeyOf(i), raw)
               /\ \A j \in Ids : (KeyOf(j) = KeyOf(i) /\ Accepted(j) /\ staging[j].raw = raw)
                                    => i[1] <= j[1]}

Init ==
  /\ clock = 0 /\ batches = 0
  /\ staging = [i \in Ids |-> None]
  /\ evidence = {}
  /\ latest = [k \in Keys |-> None]
  /\ pc = [w \in Workers |-> "idle"]
  /\ cycle = [w \in Workers |-> [gen |-> 0, raw |-> None, attempt |-> 0]]
  /\ todo = [w \in Workers |-> {}] /\ done = [w \in Workers |-> {}]
  /\ cur = [w \in Workers |-> None]
  /\ settled = [w \in Workers |-> {}]
  /\ drop = [w \in Workers |-> None]
  /\ promote = [w \in Workers |-> FALSE]
  /\ held = [w \in Workers |-> {}] /\ shared = [w \in Workers |-> {}]

Goto(w, label) == pc' = [pc EXCEPT ![w] = label]
Reject(i, reason) == staging' = [staging EXCEPT ![i].status = reason]

\* run_adapter_batch: a cycle takes its generation before it fetches ...
StartCycle(w) ==
  /\ pc[w] = "idle" /\ clock < MaxGen
  /\ clock' = clock + 1
  /\ cycle' = [cycle EXCEPT ![w] = [gen |-> clock + 1, raw |-> None, attempt |-> 1]]
  /\ Goto(w, "fetching")
  /\ UNCHANGED <<batches, tables, todo, done, cur, settled, drop, promote, held, shared>>

\* ... and write_batch stages what the fetch returned, in one transaction.
StageBatch(w) ==
  /\ pc[w] = "fetching" /\ batches < MaxGen
  /\ \E s \in Snapshots :
       /\ staging' = [i \in Ids |->
            IF i[1] = batches + 1 /\ KeyOf(i) \in DOMAIN s
            THEN [obs |-> s[KeyOf(i)].obs, val |-> s[KeyOf(i)].val, flag |-> s[KeyOf(i)].flag,
                  gen |-> cycle[w].gen, raw |-> s, status |-> "accepted"]
            ELSE staging[i]]
       /\ cycle' = [cycle EXCEPT ![w].raw = s]
  /\ batches' = batches + 1
  /\ Goto(w, "promote")
  /\ UNCHANGED <<clock, evidence, latest, todo, done, cur, settled, drop, promote, held, shared>>

\* promote_accepted_staging reads the candidates of this cycle's raw_ref once.
FetchCandidates(w) ==
  /\ pc[w] = "promote"
  /\ todo' = [todo EXCEPT ![w] = FetchAccepted(cycle[w].raw)]
  /\ done' = [done EXCEPT ![w] = {}]
  /\ Goto(w, "settle")
  /\ UNCHANGED <<clock, batches, tables, cycle, cur, settled, drop, promote, held, shared>>

\* Mutant: the settle read without FOR SHARE.
SettleReadUnlocked(w) ==
  /\ pc[w] = "settle"
  /\ settled' = [settled EXCEPT ![w] = {i \in todo[w] : ~Refused(i) /\ SameReading(KeyOf(i), i)}]
  /\ Goto(w, "settling")
  /\ UNCHANGED <<clock, batches, tables, cycle, todo, done, cur, drop, promote, held, shared>>

\* _settle_unchanged_observations, its read: every latest row it decides from is
\* share-locked, so it waits for transactions that changed or deleted one.
SettleRead(w) ==
  LET keyed == {i \in todo[w] : ~Refused(i)}
      rows  == {KeyOf(i) : i \in {j \in keyed : latest[KeyOf(j)] # None}}
  IN
  /\ pc[w] = "settle"
  /\ \A k \in rows : Free(w, RowLock(k))
  /\ shared' = [shared EXCEPT ![w] = rows]
  /\ settled' = [settled EXCEPT ![w] = {i \in keyed : SameReading(KeyOf(i), i)}]
  /\ Goto(w, "settling")
  /\ UNCHANGED <<clock, batches, tables, cycle, todo, done, cur, drop, promote, held>>

\* Its write: the matches whose staging row is still authorized are rejected
\* together; the others fall through to the per-row path.
SettleCommit(w) ==
  LET settling == {i \in settled[w] : Accepted(i)} IN
  /\ pc[w] = "settling"
  /\ \A i \in settled[w] : Free(w, StagingLock(i))
  /\ staging' = [i \in Ids |-> IF i \in settling
                               THEN [staging[i] EXCEPT !.status = "idempotent_existing_observation"]
                               ELSE staging[i]]
  /\ todo' = [todo EXCEPT ![w] = @ \ settling]
  /\ done' = [done EXCEPT ![w] = @ \cup settling]
  /\ settled' = [settled EXCEPT ![w] = {}]
  /\ shared' = [shared EXCEPT ![w] = {}]
  /\ Goto(w, "rows")
  /\ UNCHANGED <<clock, batches, evidence, latest, cycle, cur, drop, promote, held>>

\* write_evidence_batch goes on to the next payload of the chunk.
NextRow(w) ==
  /\ pc[w] = "rows"
  /\ \E i \in todo[w] : cur' = [cur EXCEPT ![w] = i]
  /\ Goto(w, "authorize")
  /\ UNCHANGED <<clock, batches, tables, cycle, todo, done, settled, drop, promote, held, shared>>

\* Commit or rollback of a per-row transaction: locks go, the row is decided.
EndRow(w) ==
  /\ held' = [held EXCEPT ![w] = {}]
  /\ todo' = [todo EXCEPT ![w] = @ \ {cur[w]}]
  /\ done' = [done EXCEPT ![w] = @ \cup {cur[w]}]
  /\ cur' = [cur EXCEPT ![w] = None]
  /\ drop' = [drop EXCEPT ![w] = None]
  /\ promote' = [promote EXCEPT ![w] = FALSE]
  /\ Goto(w, "rows")
  /\ UNCHANGED <<clock, batches, cycle, settled, shared>>

\* _authorize_staging_candidate: lock the staging row if it is still accepted;
\* otherwise roll back and skip it.
Authorize(w) ==
  /\ pc[w] = "authorize"
  /\ Free(w, StagingLock(cur[w]))
  /\ Accepted(cur[w]) /\ staging[cur[w]].flag # "invalid"
  /\ held' = [held EXCEPT ![w] = @ \cup {StagingLock(cur[w])}]
  /\ Goto(w, "dedupe")
  /\ UNCHANGED <<clock, batches, tables, cycle, todo, done, cur, settled, drop, promote, shared>>

Unauthorized(w) ==
  /\ pc[w] = "authorize"
  /\ Free(w, StagingLock(cur[w]))
  /\ ~Accepted(cur[w])
  /\ EndRow(w)
  /\ UNCHANGED tables

\* invalid_observation_time, future_observation, bad geometry: terminal, and
\* nothing but the staging row changes.
RejectInvalid(w) ==
  /\ pc[w] = "authorize"
  /\ Free(w, StagingLock(cur[w]))
  /\ Accepted(cur[w]) /\ staging[cur[w]].flag = "invalid"
  /\ Reject(cur[w], "invalid_candidate")
  /\ EndRow(w)
  /\ UNCHANGED <<evidence, latest>>

\* Mutant: _lock_realtime_decision without the dedupe lock.
LockDedupeSkipped(w) ==
  /\ pc[w] = "dedupe"
  /\ Goto(w, "lock")
  /\ UNCHANGED <<clock, batches, tables, cycle, todo, done, cur, settled, drop, promote, held, shared>>

\* _lock_realtime_decision: the observation-dedupe lock, then the latest lock.
LockDedupe(w) ==
  LET lock == DedupeLock(staging[cur[w]].obs) IN
  /\ pc[w] = "dedupe"
  /\ Free(w, lock)
  /\ held' = [held EXCEPT ![w] = @ \cup {lock}]
  /\ Goto(w, "lock")
  /\ UNCHANGED <<clock, batches, tables, cycle, todo, done, cur, settled, drop, promote, shared>>

LockLatest(w) ==
  LET lock == LatestLock(KeyOf(cur[w])) IN
  /\ pc[w] = "lock"
  /\ Free(w, lock)
  /\ held' = [held EXCEPT ![w] = @ \cup {lock}]
  /\ Goto(w, IF Inactive(cur[w]) THEN "retire" ELSE "used")
  /\ UNCHANGED <<clock, batches, tables, cycle, todo, done, cur, settled, drop, promote, shared>>

\* _retire_inactive_station_latest's WHERE: switched off in the metadata retires
\* by generation, switched off in the reading retires by observation time.
Retires(i) ==
  LET row == latest[KeyOf(i)] IN
  /\ row # None
  /\ IF staging[i].flag = "meta_off" THEN row.gen <= staging[i].gen
                                     ELSE row.obs <= staging[i].obs

RetireInactive(w) ==
  LET i == cur[w] IN
  /\ pc[w] = "retire"
  /\ Retires(i) => RowFree(w, KeyOf(i))
  /\ latest' = [latest EXCEPT ![KeyOf(i)] = IF Retires(i) THEN None ELSE @]
  /\ Reject(i, "inactive_station")
  /\ EndRow(w)
  /\ UNCHANGED evidence

\* _staging_evidence_was_already_used: another transaction promoted this very row.
SkipUsed(w) ==
  /\ pc[w] = "used"
  /\ AlreadyUsed(cur[w])
  /\ EndRow(w)
  /\ UNCHANGED tables

CheckUnused(w) ==
  /\ pc[w] = "used"
  /\ ~AlreadyUsed(cur[w])
  /\ Goto(w, "duplicate")
  /\ UNCHANGED <<clock, batches, tables, cycle, todo, done, cur, settled, drop, promote, held, shared>>

\* _handle_exact_central_local_duplicate: peers showing the same instant and value.
CentralPeers(i) == {c \in Central : <<c, KeyOf(i)>> \in Near /\ SameReading(c, i)}
LocalPeersAtInstant(i) == \* Mutant: the values of the two readings are not compared.
  {l \in Local : /\ <<KeyOf(i), l>> \in Near
                 /\ latest[l] # None /\ latest[l].obs = staging[i].obs}
LocalPeers(i) == {l \in Local : <<KeyOf(i), l>> \in Near /\ SameReading(l, i)}

RejectDuplicate(w) ==
  /\ pc[w] = "duplicate"
  /\ KeyOf(cur[w]) \in Local /\ CentralPeers(cur[w]) # {}
  /\ Reject(cur[w], "duplicate_central")
  /\ EndRow(w)
  /\ UNCHANGED <<evidence, latest>>

\* A central candidate deletes one such local row (LIMIT 1) at its commit.
ReplaceLocal(w) ==
  /\ pc[w] = "duplicate"
  /\ KeyOf(cur[w]) \in Central
  /\ \E l \in LocalPeers(cur[w]) :
       /\ RowFree(w, l)
       /\ held' = [held EXCEPT ![w] = @ \cup {RowLock(l)}]
       /\ drop' = [drop EXCEPT ![w] = l]
  /\ Goto(w, "classify")
  /\ UNCHANGED <<clock, batches, tables, cycle, todo, done, cur, settled, promote, shared>>

NoDuplicate(w) ==
  /\ pc[w] = "duplicate"
  /\ KeyOf(cur[w]) \in Local => CentralPeers(cur[w]) = {}
  /\ KeyOf(cur[w]) \in Central => LocalPeers(cur[w]) = {}
  /\ Goto(w, "classify")
  /\ UNCHANGED <<clock, batches, tables, cycle, todo, done, cur, settled, drop, promote, held, shared>>

\* The latest table with the peer row that the transaction deleted gone.
Dropped(w) == [k \in Keys |-> IF k = drop[w] THEN None ELSE latest[k]]

\* _classify_latest_decision, which locks the row it reads.
Classify(w) ==
  LET k == KeyOf(cur[w])  row == latest[k] IN
  /\ pc[w] = "classify"
  /\ row # None => RowFree(w, k) /\ row.obs # staging[cur[w]].obs
  /\ promote' = [promote EXCEPT ![w] = row = None \/ row.obs < staging[cur[w]].obs]
  /\ held' = [held EXCEPT ![w] = IF row = None THEN @ ELSE @ \cup {RowLock(k)}]
  /\ Goto(w, "write")
  /\ UNCHANGED <<clock, batches, tables, cycle, todo, done, cur, settled, drop, shared>>

\* At an equal instant the stored row stays: idempotent or conflicting.
RejectEqualTime(w) ==
  LET k == KeyOf(cur[w]) IN
  /\ pc[w] = "classify"
  /\ latest[k] # None /\ RowFree(w, k) /\ latest[k].obs = staging[cur[w]].obs
  /\ Reject(cur[w], IF SameReading(k, cur[w]) THEN "idempotent_existing_observation"
                                              ELSE "conflicting_latest")
  /\ latest' = Dropped(w)
  /\ EndRow(w)
  /\ UNCHANGED evidence

\* _upsert_official_realtime_latest: ON CONFLICT ... WHERE EXCLUDED is newer.
Upsert(table, i) ==
  LET k == KeyOf(i) IN
  IF table[k] = None \/ staging[i].obs > table[k].obs
  THEN [table EXCEPT ![k] = [obs |-> staging[i].obs, val |-> staging[i].val,
                             gen |-> staging[i].gen, ev |-> i]]
  ELSE table

\* Mutants: a row without an inserted evidence row is left accepted, or still upserted.
RejectInsertForgets(w) ==
  /\ pc[w] = "write"
  /\ KeyOf(cur[w]) \in Uncatalogued \/ HasEvidence(KeyOf(cur[w]), staging[cur[w]].raw)
  /\ EndRow(w)
  /\ UNCHANGED tables

RejectInsertUpserts(w) ==
  LET i == cur[w] IN
  /\ pc[w] = "write"
  /\ KeyOf(i) \in Uncatalogued \/ HasEvidence(KeyOf(i), staging[i].raw)
  /\ Reject(i, "source_catalog_missing")
  /\ latest' = Upsert(Dropped(w), i)
  /\ EndRow(w)
  /\ UNCHANGED evidence

\* INSERT INTO evidence ... ON CONFLICT (source_id, raw_ref) DO NOTHING; a source
\* without a catalog row and a natural-key loser are terminally rejected.
RejectInsert(w) ==
  LET i == cur[w] IN
  /\ pc[w] = "write"
  /\ KeyOf(i) \in Uncatalogued \/ HasEvidence(KeyOf(i), staging[i].raw)
  /\ Reject(i, IF KeyOf(i) \in Uncatalogued THEN "source_catalog_missing"
                                            ELSE "idempotent_existing_evidence")
  /\ latest' = Dropped(w)
  /\ EndRow(w)
  /\ UNCHANGED evidence

InsertEvidence(w) ==
  LET i == cur[w] IN
  /\ pc[w] = "write"
  /\ KeyOf(i) \notin Uncatalogued /\ ~HasEvidence(KeyOf(i), staging[i].raw)
  /\ evidence' = evidence \cup {[id |-> i, raw |-> staging[i].raw,
                                 obs |-> staging[i].obs, val |-> staging[i].val]}
  /\ latest' = IF promote[w] THEN Upsert(Dropped(w), i) ELSE Dropped(w)
  /\ EndRow(w)
  /\ UNCHANGED staging

FinishCycle(w) ==
  /\ pc[w] = "rows" /\ todo[w] = {}
  /\ Goto(w, "idle")
  /\ done' = [done EXCEPT ![w] = {}]
  /\ cycle' = [cycle EXCEPT ![w] = [gen |-> 0, raw |-> None, attempt |-> 0]]
  /\ UNCHANGED <<clock, batches, tables, todo, cur, settled, drop, promote, held, shared>>

\* The open transaction rolls back and the attempt is over.
Rollback(w) ==
  /\ held' = [held EXCEPT ![w] = {}] /\ shared' = [shared EXCEPT ![w] = {}]
  /\ todo' = [todo EXCEPT ![w] = {}] /\ done' = [done EXCEPT ![w] = {}]
  /\ cur' = [cur EXCEPT ![w] = None] /\ settled' = [settled EXCEPT ![w] = {}]
  /\ drop' = [drop EXCEPT ![w] = None] /\ promote' = [promote EXCEPT ![w] = FALSE]
  /\ UNCHANGED <<clock, batches, tables>>

Promoting == {"promote", "settle", "settling", "rows", "authorize", "dedupe", "lock",
              "retire", "used", "duplicate", "classify", "write"}

\* Mutant: the retry loop without its counter.
RetryUncounted(w) ==
  /\ pc[w] \in Promoting
  /\ Goto(w, "promote")
  /\ Rollback(w)
  /\ UNCHANGED cycle

\* A lock or statement timeout, a deadlock victim, a lost connection: transient, so
\* _promote_accepted_staging_with_retry starts the promotion over, once.
RetryPromotion(w) ==
  /\ pc[w] \in Promoting /\ cycle[w].attempt = 1
  /\ cycle' = [cycle EXCEPT ![w].attempt = 2]
  /\ Goto(w, "promote")
  /\ Rollback(w)

EndCycle(w) ==
  /\ cycle' = [cycle EXCEPT ![w] = [gen |-> 0, raw |-> None, attempt |-> 0]]
  /\ Goto(w, "idle")
  /\ Rollback(w)

\* The second transient failure ends the cycle as promotion_failed.
GiveUp(w) == pc[w] \in Promoting /\ cycle[w].attempt = 2 /\ EndCycle(w)

\* A failed fetch, an error that is not transient, or a process that dies.
Crash(w) == pc[w] # "idle" /\ EndCycle(w)

Step(w) ==
  \/ StageBatch(w) \/ FetchCandidates(w) \/ SettleRead(w) \/ SettleCommit(w)
  \/ NextRow(w) \/ Authorize(w) \/ Unauthorized(w) \/ RejectInvalid(w)
  \/ LockDedupe(w) \/ LockLatest(w) \/ RetireInactive(w)
  \/ SkipUsed(w) \/ CheckUnused(w)
  \/ RejectDuplicate(w) \/ ReplaceLocal(w) \/ NoDuplicate(w)
  \/ Classify(w) \/ RejectEqualTime(w) \/ RejectInsert(w) \/ InsertEvidence(w)
  \/ FinishCycle(w)

Next == \E w \in Workers :
  StartCycle(w) \/ Step(w) \/ RetryPromotion(w) \/ GiveUp(w) \/ Crash(w)
Spec == Init /\ [][Next]_vars

\* The process runs while its cycle is open, and lock_timeout and statement_timeout
\* turn every wait into a transient failure.  Nothing makes a process crash.
FairSpec ==
  Spec /\ \A w \in Workers : WF_vars(Step(w) \/ RetryPromotion(w) \/ GiveUp(w))

-----------------------------------------------------------------------------
\* Every variable keeps its shape: a promotion is attempted at most twice, and only a
\* local row is ever marked for deletion by its central peer.
TypeOK ==
  /\ clock \in 0..MaxGen /\ batches \in 0..MaxGen
  /\ staging \in [Ids -> StagingRows \cup {None}]
  /\ evidence \subseteq EvidenceRows
  /\ latest \in [Keys -> LatestRows \cup {None}]
  /\ pc \in [Workers -> Promoting \cup {"idle", "fetching"}]
  /\ cycle \in [Workers -> [gen : Gens \cup {0}, raw : Snapshots \cup {None}, attempt : 0..2]]
  /\ todo \in [Workers -> SUBSET Ids] /\ done \in [Workers -> SUBSET Ids]
  /\ cur \in [Workers -> Ids \cup {None}]
  /\ settled \in [Workers -> SUBSET Ids]
  /\ drop \in [Workers -> Local \cup {None}]
  /\ promote \in [Workers -> BOOLEAN]
  /\ held \in [Workers -> SUBSET Locks] /\ shared \in [Workers -> SUBSET Keys]

\* A central station and a local station near it never both show the same reading:
\* the advisory dedupe lock serialises the two duplicate checks, whatever the order
\* in which the two adapters' cycles commit (_handle_exact_central_local_duplicate).
NoExactPair ==
  \A p \in Near : ~(/\ latest[p[1]] # None /\ latest[p[2]] # None
                    /\ latest[p[1]].obs = latest[p[2]].obs
                    /\ latest[p[1]].val = latest[p[2]].val)

\* What a transaction decided from the latest table still holds when it commits: the
\* advisory locks cover the absent row that FOR UPDATE cannot lock, and the row locks
\* cover the rest (_lock_realtime_decision, _classify_latest_decision).
DecisionFresh ==
  \A w \in Workers : pc[w] = "write" =>
    LET k == KeyOf(cur[w]) IN
    /\ promote[w] = (latest[k] = None \/ latest[k].obs < staging[cur[w]].obs)
    /\ drop[w] # None => SameReading(drop[w], cur[w])

\* Every row a promotion has gone through is terminal: rejected, or backed by evidence
\* of its (source_id, raw_ref), so fetch_accepted_staging never offers it again.
ProcessedIsTerminal ==
  \A w \in Workers : \A i \in done[w] :
    ~Accepted(i) \/ HasEvidence(KeyOf(i), staging[i].raw)

\* A latest row always shows what its evidence row says, and that evidence row was
\* written for this station (_write_evidence_transaction upserts after the insert).
LatestBacked ==
  \A k \in Keys : latest[k] # None =>
    \E e \in evidence : /\ e.id = latest[k].ev /\ KeyOf(e.id) = k
                        /\ e.obs = latest[k].obs /\ e.val = latest[k].val

\* While a station has a latest row, that row only ever moves to a strictly newer
\* observation; an equal-time or older one never overwrites it.
LatestMonotone ==
  [][\A k \in Keys : (latest[k] # None /\ latest'[k] # None /\ latest'[k] # latest[k])
                        => latest'[k].obs > latest[k].obs]_vars

\* A row rejected as an unchanged re-observation leaves a latest row with that very
\* reading behind: the share lock of _settle_unchanged_observations keeps a concurrent
\* retirement or peer replacement from deleting it between the read and the update.
IdempotentHasLatest ==
  [][\A i \in Ids : (Accepted(i) /\ staging'[i].status = "idempotent_existing_observation")
                       => SameReading(KeyOf(i), i) /\ latest'[KeyOf(i)] = latest[KeyOf(i)]]_vars

\* A cycle always comes to an end: waits time out and the promotion is retried once.
CycleEnds == \A w \in Workers : pc[w] # "idle" ~> pc[w] = "idle"

\* An equal-time conflict deletes no latest row (core official baseline plan, step 5).
ConflictDeletesNothing ==
  [][(\E i \in Ids : Accepted(i) /\ staging'[i].status = "conflicting_latest")
       => latest' = latest]_vars

\* Seen from outside, the transactions are invisible: each commit is one step of the map
\* that StationMap describes, whatever cycles overlap, fail and are retried
\* (_write_evidence_transaction, _retire_inactive_station_latest).
Reading(k) == IF latest[k] = None THEN None ELSE [obs |-> latest[k].obs, val |-> latest[k].val]
Shown == [k \in Keys |-> Reading(k)]
Map == INSTANCE StationMap WITH shown <- Shown
ImplementsMap == Map!Spec
==============================================================================
