--------------------------- MODULE WarningLifecycle ---------------------------
(***************************************************************************)
(* The life of official flood warnings (CAP messages) in the latest table. *)
(*                                                                         *)
(* A cycle polls one warning adapter.  An Alert or Update becomes evidence *)
(* and a latest row; an Update or Cancel retires the messages it refers    *)
(* to, of either adapter, and stays behind as a tombstone; a poll without  *)
(* an active event retires the adapter's rows of its own and of earlier    *)
(* generations.  Cycles overlap and commit in any order; advisory locks    *)
(* (one per adapter, one per message) order their decisions.  The adapter  *)
(* official.ncdr.cap publishes complete snapshots: the API shows one of    *)
(* its rows only if the row belongs to the active snapshot.                *)
(* A message stands for its (sender, identifier, sent) triple and its one  *)
(* area; a feed is content-addressed, so it is its own raw_ref.            *)
(***************************************************************************)
EXTENDS Naturals, FiniteSets

CONSTANTS
  Workers,   \* processes that may run a cycle at the same time
  Adapters,  \* the reviewed warning adapters
  Snapshot,  \* those in complete_replace mode (official.ncdr.cap)
  Alerts, Updates, Cancels,  \* the messages, by cap_message_type
  Refs,      \* messages an Update or Cancel refers to, all sent before it
  Unmapped,  \* messages for an area without a reviewed boundary
  Expiring,  \* messages whose active window may end
  Feeds,     \* adapter -> what a poll of it may return
  MaxGen,    \* bound: number of cycles
  Failing,   \* bound: generations whose polls and database calls may fail, and processes die
  None       \* absence of a row, message or feed

Messages == Alerts \cup Updates \cup Cancels
Active == Alerts \cup Updates
Gens == 1..MaxGen
AllFeeds == UNION {Feeds[a] : a \in Adapters}

ASSUME MessagesAssumption ==
  /\ Alerts \cap Updates = {} /\ Alerts \cap Cancels = {} /\ Updates \cap Cancels = {}
  /\ Refs \in [Updates \cup Cancels -> SUBSET Messages]
  /\ \A m \in Updates \cup Cancels : m \notin Refs[m]  \* _effectful_cap_references: sent < own_sent
  /\ Snapshot \subseteq Adapters /\ Unmapped \subseteq Active /\ Expiring \subseteq Active
ASSUME GensAssumption == MaxGen \in Nat /\ Failing \subseteq 1..MaxGen
\* A feed: its accepted messages, and how many of its items were valid ("most" is
\* enough for activation, COMPLETE_REPLACE_MIN_VALID_FRACTION).
FeedRecords == [msgs : SUBSET Messages, valid : {"all", "most", "few"}]
ASSUME FeedsAssumption == \A a \in Adapters : Feeds[a] \subseteq FeedRecords

Ids == Gens \X Messages
Slots == Adapters \X Messages
Rejections == {"inactive_cap_window", "retired_cap_replay", "unreviewed_warning_boundary"}
Statuses == Rejections \cup {"accepted", "idempotent_existing_cap_message", "idempotent_existing_evidence"}
StagingRows == [adapter : Adapters, gen : Gens, raw : AllFeeds, status : Statuses]
EvidenceRows == [id : Ids, adapter : Adapters, msg : Messages, raw : AllFeeds, gen : Gens,
                 scope : {"current", "historical"}]
LatestRows == [gen : Gens, raw : AllFeeds, ev : Ids]
ASSUME NoneAssumption ==
  None \notin AllFeeds /\ None \notin StagingRows /\ None \notin LatestRows

VARIABLES
  clock,    \* generations handed out so far (cycle start times)
  batches,  \* created_at of the staging batches written so far
  staging,  \* staging_evidence: <<batch, message>> -> row, or None
  evidence, \* set of evidence rows
  latest,   \* official_realtime_latest: <<adapter, message>> -> row, or None
  jobs,     \* ingestion_jobs: one row per written summary
  runAt,    \* runtime_pipeline_run_at of each adapter
  active,   \* metadata.active_snapshot_raw_ref of each adapter, or None
  expired,  \* messages whose active_until has passed
  pc,       \* where each worker's cycle is
  cycle,    \* its generation, adapter, feed and promotion attempt
  todo,     \* staging ids fetched and not yet decided
  cur,      \* staging id of the transaction in progress
  verdict,  \* what that transaction decided from what it read
  held,     \* advisory locks of the open transaction
  retired   \* history: the last empty generation whose retirement committed

tables == <<staging, evidence, latest>>
sources == <<jobs, runAt, active>>
work == <<todo, cur, verdict, held>>
vars == <<clock, batches, staging, evidence, latest, jobs, runAt, active, expired,
          pc, cycle, todo, cur, verdict, held, retired>>

Idle == [gen |-> 0, adapter |-> None, feed |-> None, attempt |-> 0]

Init ==
  /\ clock = 0 /\ batches = {}
  /\ staging = [i \in Ids |-> None] /\ evidence = {}
  /\ latest = [s \in Slots |-> None]
  /\ jobs = {}
  /\ runAt = [a \in Adapters |-> 0] /\ active = [a \in Adapters |-> None]
  /\ expired = {}
  /\ pc = [w \in Workers |-> "idle"]
  /\ cycle = [w \in Workers |-> Idle]
  /\ todo = [w \in Workers |-> {}] /\ cur = [w \in Workers |-> None]
  /\ verdict = [w \in Workers |-> None] /\ held = [w \in Workers |-> {}]
  /\ retired = [a \in Adapters |-> 0]

-----------------------------------------------------------------------------
\* warning_lifecycle_lock_key and _cap_origin_lock_keys.
LifecycleLock(a) == <<"lifecycle", a>>
OriginLocksNone(m) == {}  \* mutant: only the adapter's own lock
OriginLocks(m) == {<<"origin", n>> : n \in (IF m \in Active THEN {m} ELSE {})
                                             \cup (IF m \in Alerts THEN {} ELSE Refs[m])}
Free(w, locks) == \A v \in Workers \ {w} : locks \cap held[v] = {}

Accepted(i) == staging[i] # None /\ staging[i].status = "accepted"
HasEvidence(a, m, raw) == \E e \in evidence : e.adapter = a /\ e.msg = m /\ e.raw = raw
AlreadyUsed(i) == \E e \in evidence : e.id = i

\* fetch_accepted_staging: the oldest accepted row of each message of this raw_ref,
\* unless evidence of that (source_id, raw_ref) exists.
FetchAccepted(a, raw) ==
  {i \in Ids :
     /\ Accepted(i) /\ staging[i].adapter = a /\ staging[i].raw = raw
     /\ ~HasEvidence(a, i[2], raw)
     /\ \A j \in Ids : (/\ j[2] = i[2] /\ Accepted(j)
                        /\ staging[j].adapter = a /\ staging[j].raw = raw) => i[1] <= j[1]}

\* retained-cap-tombstone: a current Update or Cancel of either adapter refers to m.
Tombstoned(m) ==
  \E e \in evidence : e.scope = "current" /\ e.msg \notin Alerts /\ m \in Refs[e.msg]

\* _canonical_cap_message_evidence_id.
Canonical(a, m) == {e \in evidence : e.scope = "current" /\ e.adapter = a /\ e.msg = m}

\* _max_successful_no_active_event_generation, compared with the candidate's: only
\* polls that fetched nothing count.
BlockedNever(a, g) == FALSE  \* mutant: the persisted empty polls are not consulted
BlockedByEmpty(a, g) == \E j \in jobs : j.adapter = a /\ j.kind = "empty" /\ g <= j.gen

\* The decisions of _write_evidence_transaction for a warning, in the order it makes them.
Verdict(i) ==
  LET m == i[2]  row == staging[i] IN
  IF ~Accepted(i) \/ AlreadyUsed(i) THEN "skip"
  ELSE IF m \in Active /\ m \in expired THEN "inactive_cap_window"
  ELSE IF m \in Active /\ Tombstoned(m) THEN "retired_cap_replay"
  ELSE IF Canonical(row.adapter, m) # {} THEN "idempotent_existing_cap_message"
  ELSE IF m \in Unmapped THEN "unreviewed_warning_boundary"
  ELSE IF m \in Active /\ BlockedByEmpty(row.adapter, row.gen) THEN "historical"
  ELSE "current"

-----------------------------------------------------------------------------
Goto(w, label) == pc' = [pc EXCEPT ![w] = label]

EndCycle(w) ==
  /\ Goto(w, "idle")
  /\ cycle' = [cycle EXCEPT ![w] = Idle]
  /\ todo' = [todo EXCEPT ![w] = {}] /\ cur' = [cur EXCEPT ![w] = None]
  /\ verdict' = [verdict EXCEPT ![w] = None] /\ held' = [held EXCEPT ![w] = {}]

\* run_adapter_batch takes the generation before the adapter fetches ...
StartPoll(w) ==
  /\ pc[w] = "idle" /\ clock < MaxGen
  /\ clock' = clock + 1
  /\ \E a \in Adapters :
       cycle' = [cycle EXCEPT ![w] = [gen |-> clock + 1, adapter |-> a, feed |-> None, attempt |-> 1]]
  /\ Goto(w, "polling")
  /\ UNCHANGED <<batches, tables, sources, expired, work, retired>>

\* ... and stages what it returned, if anything.  created_at is the start of the staging
\* transaction: batches may be committed in another order.
StageFeed(w) ==
  /\ pc[w] = "polling"
  /\ \E f \in Feeds[cycle[w].adapter] :
       /\ cycle' = [cycle EXCEPT ![w].feed = f]
       /\ \/ f.msgs = {} /\ UNCHANGED <<staging, batches>>
          \/ \E b \in (1..clock) \ batches :
               /\ f.msgs # {}
               /\ batches' = batches \cup {b}
               /\ staging' = [i \in Ids |->
                    IF i[1] = b /\ i[2] \in f.msgs
                    THEN [adapter |-> cycle[w].adapter, gen |-> cycle[w].gen, raw |-> f, status |-> "accepted"]
                    ELSE staging[i]]
  /\ Goto(w, "summary")
  /\ UNCHANGED <<clock, evidence, latest, sources, expired, work, retired>>

NewerJob(a, g) == \E j \in jobs : j.adapter = a /\ j.gen > g

\* A failed poll: its job row, and the health update unless a newer job exists.
PollFails(w) ==
  LET a == cycle[w].adapter  g == cycle[w].gen IN
  /\ cycle[w].gen \in Failing /\ pc[w] = "polling"
  /\ jobs' = jobs \cup {[adapter |-> a, gen |-> g, kind |-> "failed"]}
  /\ runAt' = [runAt EXCEPT ![a] = IF NewerJob(a, g) THEN @ ELSE g]
  /\ EndCycle(w)
  /\ UNCHANGED <<clock, batches, tables, active, expired, retired>>

\* is_successful_no_active_warning_summary: nothing fetched, or cancellations only.
Kind(a, f) ==
  IF f.msgs = {} /\ f.valid = "all" THEN "empty"
  ELSE IF a \in Snapshot /\ f.msgs \subseteq Cancels /\ f.valid = "all" THEN "cancel_only"
  ELSE "active"

\* write_summary: a summary without an active event takes the lifecycle lock.
WriteSummary(w) ==
  LET a == cycle[w].adapter  kind == Kind(a, cycle[w].feed) IN
  /\ pc[w] = "summary"
  /\ kind # "active" => Free(w, {LifecycleLock(a)})
  /\ jobs' = jobs \cup {[adapter |-> a, gen |-> cycle[w].gen, kind |-> kind]}
  /\ Goto(w, IF kind = "active" THEN "promote" ELSE "retire")
  /\ UNCHANGED <<clock, batches, tables, runAt, active, expired, cycle, work, retired>>

\* retire_warning_latest_for_no_active_event.
Retire(w) ==
  LET a == cycle[w].adapter  g == cycle[w].gen IN
  /\ pc[w] = "retire"
  /\ Free(w, {LifecycleLock(a)})
  /\ latest' = [s \in Slots |-> IF s[1] = a /\ latest[s] # None /\ latest[s].gen <= g
                                THEN None ELSE latest[s]]
  /\ retired' = [retired EXCEPT ![a] = IF cycle[w].feed.msgs = {} /\ g > @ THEN g ELSE @]
  /\ Goto(w, "promote")
  /\ UNCHANGED <<clock, batches, staging, evidence, sources, expired, cycle, work>>

\* promote_accepted_staging for the raw_ref of this cycle; an empty poll has none.
FetchCandidates(w) ==
  /\ pc[w] = "promote"
  /\ todo' = [todo EXCEPT ![w] = FetchAccepted(cycle[w].adapter, cycle[w].feed)]
  /\ Goto(w, "rows")
  /\ UNCHANGED <<clock, batches, tables, sources, expired, cycle, cur, verdict, held, retired>>

\* Mutant: the decision is read without any advisory lock.
DecideUnlocked(w) ==
  /\ pc[w] = "rows"
  /\ \E i \in todo[w] : /\ cur' = [cur EXCEPT ![w] = i]
                        /\ verdict' = [verdict EXCEPT ![w] = Verdict(i)]
  /\ Goto(w, "write")
  /\ UNCHANGED <<clock, batches, tables, sources, expired, cycle, todo, held, retired>>

\* The next row: its transaction takes all its locks and then reads what it decides from.
Decide(w) ==
  /\ pc[w] = "rows"
  /\ \E i \in todo[w] :
       LET locks == {LifecycleLock(cycle[w].adapter)} \cup OriginLocks(i[2]) IN
       /\ Free(w, locks)
       /\ held' = [held EXCEPT ![w] = locks]
       /\ cur' = [cur EXCEPT ![w] = i]
       /\ verdict' = [verdict EXCEPT ![w] = Verdict(i)]
  /\ Goto(w, "write")
  /\ UNCHANGED <<clock, batches, tables, sources, expired, cycle, todo, retired>>

EndRow(w) ==
  /\ pc[w] = "write"
  /\ Goto(w, "rows")
  /\ todo' = [todo EXCEPT ![w] = @ \ {cur[w]}]
  /\ cur' = [cur EXCEPT ![w] = None]
  /\ verdict' = [verdict EXCEPT ![w] = None]
  /\ held' = [held EXCEPT ![w] = {}]
  /\ UNCHANGED <<clock, batches, sources, expired, cycle, retired>>

Reject(i, reason) == staging' = [staging EXCEPT ![i].status = reason]

SkipRow(w) ==
  /\ verdict[w] = "skip"
  /\ EndRow(w)
  /\ UNCHANGED tables

RejectRow(w) ==
  /\ verdict[w] \in Rejections
  /\ Reject(cur[w], verdict[w])
  /\ EndRow(w)
  /\ UNCHANGED <<evidence, latest>>

\* _upsert_official_realtime_latest: observed_at is the time sent, the same for every
\* copy of a message, so an existing row is never overwritten.
Upsert(table, i, e) ==
  LET s == <<staging[i].adapter, i[2]>> IN
  IF table[s] # None THEN table
  ELSE [table EXCEPT ![s] = [gen |-> staging[i].gen, raw |-> staging[i].raw, ev |-> e]]

\* A message seen before: for a snapshot adapter its latest row is restored and moved
\* to this snapshot (_refresh_ncdr_latest_snapshot_marker).
RejectExisting(w) ==
  LET i == cur[w]  a == staging[i].adapter  m == i[2] IN
  /\ verdict[w] = "idempotent_existing_cap_message"
  /\ IF a \in Snapshot /\ m \in Active
     THEN \E e \in Canonical(a, m) :
            latest' = [Upsert(latest, i, e.id) EXCEPT ![<<a, m>>].raw = staging[i].raw]
     ELSE UNCHANGED latest
  /\ Reject(i, verdict[w])
  /\ EndRow(w)
  /\ UNCHANGED evidence

Evidence(i, scope) ==
  [id |-> i, adapter |-> staging[i].adapter, msg |-> i[2], raw |-> staging[i].raw,
   gen |-> staging[i].gen, scope |-> scope]

\* Another row of this (source_id, raw_ref) got there first: ON CONFLICT DO NOTHING.
LoseInsert(w) ==
  /\ verdict[w] \in {"historical", "current"}
  /\ HasEvidence(staging[cur[w]].adapter, cur[w][2], staging[cur[w]].raw)
  /\ Reject(cur[w], "idempotent_existing_evidence")
  /\ EndRow(w)
  /\ UNCHANGED <<evidence, latest>>

\* Mutant: promote_latest stays set for an overtaken message.
KeepHistoricalShown(w) ==
  /\ verdict[w] = "historical"
  /\ ~HasEvidence(staging[cur[w]].adapter, cur[w][2], staging[cur[w]].raw)
  /\ evidence' = evidence \cup {Evidence(cur[w], "historical")}
  /\ latest' = Upsert(latest, cur[w], cur[w])
  /\ EndRow(w)
  /\ UNCHANGED staging

\* An Alert or Update that a newer empty poll has overtaken is kept for the record only.
KeepHistorical(w) ==
  /\ verdict[w] = "historical"
  /\ ~HasEvidence(staging[cur[w]].adapter, cur[w][2], staging[cur[w]].raw)
  /\ evidence' = evidence \cup {Evidence(cur[w], "historical")}
  /\ EndRow(w)
  /\ UNCHANGED <<staging, latest>>

\* _retire_cap_references: rows of either adapter, but none of a later generation.
RetireRefs(i) ==
  [s \in Slots |-> IF /\ i[2] \notin Alerts /\ s[2] \in Refs[i[2]]
                      /\ latest[s] # None /\ latest[s].gen <= staging[i].gen
                   THEN None ELSE latest[s]]

Promote(w) ==
  LET i == cur[w] IN
  /\ verdict[w] = "current"
  /\ ~HasEvidence(staging[i].adapter, i[2], staging[i].raw)
  /\ evidence' = evidence \cup {Evidence(i, "current")}
  /\ latest' = IF i[2] \in Active THEN Upsert(RetireRefs(i), i, i) ELSE RetireRefs(i)
  /\ EndRow(w)
  /\ UNCHANGED staging

\* write_pipeline_status: unless a newer run has reported or a newer job exists.
WriteStatus(a, g, feed) ==
  IF runAt[a] <= g /\ ~NewerJob(a, g)
  THEN /\ runAt' = [runAt EXCEPT ![a] = g]
       /\ active' = [active EXCEPT ![a] = IF feed = None THEN @ ELSE feed]
  ELSE UNCHANGED <<runAt, active>>

\* _snapshot_activation_eligible.
Activates(a, f) == a \in Snapshot /\ f.msgs # {} /\ f.valid # "few"

\* The cycle succeeds; a valid complete snapshot becomes the active one.
Finish(w) ==
  LET a == cycle[w].adapter  f == cycle[w].feed IN
  /\ pc[w] = "rows" /\ todo[w] = {}
  /\ WriteStatus(a, cycle[w].gen, IF Activates(a, f) THEN f ELSE None)
  /\ EndCycle(w)
  /\ UNCHANGED <<clock, batches, tables, jobs, expired, retired>>

\* A transient failure starts the promotion over, once.
RetryPromotion(w) ==
  /\ cycle[w].gen \in Failing /\ pc[w] \in {"promote", "rows", "write"} /\ cycle[w].attempt = 1
  /\ Goto(w, "promote")
  /\ cycle' = [cycle EXCEPT ![w].attempt = 2]
  /\ todo' = [todo EXCEPT ![w] = {}] /\ cur' = [cur EXCEPT ![w] = None]
  /\ verdict' = [verdict EXCEPT ![w] = None] /\ held' = [held EXCEPT ![w] = {}]
  /\ UNCHANGED <<clock, batches, tables, sources, expired, retired>>

\* A failed retirement or promotion ends the cycle with a failed pipeline status.
GiveUp(w) ==
  /\ cycle[w].gen \in Failing /\ pc[w] \in {"retire", "promote", "rows", "write"}
  /\ WriteStatus(cycle[w].adapter, cycle[w].gen, None)
  /\ EndCycle(w)
  /\ UNCHANGED <<clock, batches, tables, jobs, expired, retired>>

\* The process dies, or the summary cannot be written.
Crash(w) ==
  /\ cycle[w].gen \in Failing /\ pc[w] # "idle"
  /\ EndCycle(w)
  /\ UNCHANGED <<clock, batches, tables, sources, expired, retired>>

Expire ==
  /\ \E m \in Expiring \ expired : expired' = expired \cup {m}
  /\ UNCHANGED <<clock, batches, tables, sources, pc, cycle, work, retired>>

Next ==
  \/ Expire
  \/ \E w \in Workers :
       \/ StartPoll(w) \/ StageFeed(w) \/ PollFails(w) \/ WriteSummary(w) \/ Retire(w)
       \/ FetchCandidates(w) \/ Decide(w) \/ SkipRow(w) \/ RejectRow(w) \/ RejectExisting(w)
       \/ LoseInsert(w) \/ KeepHistorical(w) \/ Promote(w) \/ Finish(w)
       \/ RetryPromotion(w) \/ GiveUp(w) \/ Crash(w)
Spec == Init /\ [][Next]_vars

-----------------------------------------------------------------------------
\* The realtime query of the API: current evidence, inside its window, of the active
\* snapshot, and not overtaken by a poll without an active event.
VisibleAnySnapshot(a, m) ==  \* mutant: the snapshot marker is not compared
  /\ latest[<<a, m>>] # None /\ m \notin expired
  /\ \E e \in evidence :
       /\ e.id = latest[<<a, m>>].ev /\ e.scope = "current"
       /\ ~\E j \in jobs : j.adapter = a /\ j.kind \in {"empty", "cancel_only"} /\ j.gen >= e.gen

Visible(a, m) ==
  /\ latest[<<a, m>>] # None /\ m \notin expired
  /\ a \in Snapshot => latest[<<a, m>>].raw = active[a]
  /\ \E e \in evidence :
       /\ e.id = latest[<<a, m>>].ev /\ e.scope = "current"
       /\ ~\E j \in jobs : j.adapter = a /\ j.kind \in {"empty", "cancel_only"} /\ j.gen >= e.gen

\* A message that a current Update or Cancel refers to is gone from the latest table, in
\* the rows of both adapters, unless the row is of a later generation than the Update or
\* Cancel: whichever of the two commits first, and whichever adapters carried them
\* (_cap_rejection_reason, _retire_cap_references).
CancelledStaysGone ==
  \A e \in evidence : (e.scope = "current" /\ e.msg \notin Alerts) =>
    \A a \in Adapters, m \in Refs[e.msg] :
      latest[<<a, m>>] # None => latest[<<a, m>>].gen > e.gen

\* A message of an adapter has at most one current evidence row, however many snapshots
\* carried it and however the cycles that promote them overlap.
OneCurrentEvidence ==
  \A d, e \in evidence : (/\ d.scope = "current" /\ e.scope = "current"
                          /\ d.adapter = e.adapter /\ d.msg = e.msg) => d = e

\* "newer empty/older Alert never leaves the Alert": once an empty poll has retired the
\* adapter's rows, no row of its generation or an earlier one is left or comes back.  A
\* complete-snapshot adapter does restore one for a slow earlier poll, because
\* RejectExisting precedes the check against the empty poll: the API never shows it.
NewerEmptyWins ==
  \A s \in Slots : (latest[s] # None /\ latest[s].gen <= retired[s[1]]) =>
    s[1] \in Snapshot /\ ~Visible(s[1], s[2])

\* The API shows no warning that the active complete snapshot no longer contains.
RemovedHidden ==
  \A a \in Snapshot, m \in Messages :
    Visible(a, m) => active[a] # None /\ m \in active[a].msgs

\* A row backed by current evidence of its own message: what an Update or Cancel looks
\* for when it retires a row, and what the API joins with.
LatestIsCurrent ==
  \A s \in Slots : latest[s] # None =>
    \E e \in Canonical(s[1], s[2]) : e.id = latest[s].ev

\* "an older slow poll cannot erase a newer Alert that committed first": a retirement
\* deletes no row of the snapshot that a newer generation has made the active one.
OlderEmptyKeeps ==
  [][\A w \in Workers : (pc[w] = "retire" /\ pc'[w] = "promote") =>
       LET a == cycle[w].adapter IN
       \A m \in Messages :
         (/\ a \in Snapshot /\ latest[<<a, m>>] # None /\ latest'[<<a, m>>] = None
          /\ latest[<<a, m>>].raw = active[a]) => runAt[a] <= cycle[w].gen]_vars

\* When a complete snapshot becomes the active one, every warning in it that is in force
\* (inside its window, of a reviewed area, not retired by an Update or Cancel) is shown.
SnapshotShown ==
  [][\A a \in Snapshot : active'[a] # active[a] =>
       \A m \in (active'[a].msgs \cap Active) \ (expired \cup Unmapped) :
         Tombstoned(m) \/ Visible(a, m)']_vars
==============================================================================
