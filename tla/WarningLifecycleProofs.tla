------------------------ MODULE WarningLifecycleProofs ------------------------
(***************************************************************************)
(* Theorems about WarningLifecycle, for every set of workers, adapters,    *)
(* messages and feeds, and any number of cycles.                           *)
(***************************************************************************)
EXTENDS WarningLifecycle, TLAPS

Labels == {"idle", "polling", "summary", "retire", "promote", "rows", "write"}
Polled == {"summary", "retire", "promote", "rows", "write"}
Verdicts == Rejections \cup {"skip", "idempotent_existing_cap_message", "historical", "current"}
JobRows == [adapter : Adapters, gen : Gens, kind : {"failed", "empty", "cancel_only", "active"}]
Cycles == [gen : 0..MaxGen, adapter : Adapters \cup {None}, feed : AllFeeds \cup {None},
           attempt : 0..2]
Locks == {LifecycleLock(a) : a \in Adapters} \cup {<<"origin", m>> : m \in Messages}

TablesTyped ==
  /\ clock \in 0..MaxGen /\ batches \subseteq Gens
  /\ staging \in [Ids -> StagingRows \cup {None}]
  /\ evidence \subseteq EvidenceRows
  /\ latest \in [Slots -> LatestRows \cup {None}]
  /\ jobs \subseteq JobRows
  /\ runAt \in [Adapters -> 0..MaxGen] /\ active \in [Adapters -> AllFeeds \cup {None}]
  /\ expired \subseteq Messages /\ retired \in [Adapters -> 0..MaxGen]

WorkTyped ==
  /\ pc \in [Workers -> Labels] /\ cycle \in [Workers -> Cycles]
  /\ todo \in [Workers -> SUBSET Ids] /\ cur \in [Workers -> Ids \cup {None}]
  /\ verdict \in [Workers -> Verdicts \cup {None}] /\ held \in [Workers -> SUBSET Locks]

TypeOK == TablesTyped /\ WorkTyped

\* What a cycle carries from one step to the next: its adapter, generation and feed, rows
\* of its own adapter, and in a row's transaction the locks of that row.
WorkOK ==
  \A w \in Workers :
    /\ pc[w] # "idle" => cycle[w].adapter \in Adapters /\ cycle[w].gen \in Gens
    /\ pc[w] \in Polled => cycle[w].feed \in AllFeeds
    /\ pc[w] \notin {"rows", "write"} => todo[w] = {}
    /\ \A i \in todo[w] : staging[i] # None /\ staging[i].adapter = cycle[w].adapter
    /\ pc[w] = "write" =>
         /\ cur[w] \in todo[w] /\ verdict[w] \in Verdicts
         /\ LifecycleLock(cycle[w].adapter) \in held[w] /\ OriginLocks(cur[w][2]) \subseteq held[w]

\* A staged row belongs to a written batch and its message to the feed.
StagedOK ==
  \A i \in Ids : staging[i] # None => i[1] \in batches /\ i[2] \in staging[i].raw.msgs

TInv == TypeOK /\ WorkOK /\ StagedOK

\* What every step does to the staging table: rows are added, and a row's status changes.
StagingKept ==
  /\ staging' \in [Ids -> StagingRows \cup {None}]
  /\ \A i \in Ids : staging[i] # None =>
       /\ staging'[i] # None
       /\ staging'[i].adapter = staging[i].adapter
       /\ staging'[i].gen = staging[i].gen /\ staging'[i].raw = staging[i].raw

-----------------------------------------------------------------------------
\* The wording of a terminal rejection is one of the statuses: a row keeps what it says.
LEMMA RejectKept ==
  ASSUME TInv, NEW i \in Ids, staging[i] # None, NEW reason \in Statuses, Reject(i, reason),
         UNCHANGED batches
  PROVE  StagingKept /\ StagedOK'
<1>1. staging[i] \in StagingRows
  BY DEF TInv, TypeOK, TablesTyped
<1>2. [staging[i] EXCEPT !.status = reason] \in StagingRows
  BY <1>1 DEF StagingRows
<1>3. /\ staging' \in [Ids -> StagingRows \cup {None}]
      /\ \A j \in Ids : j # i => staging'[j] = staging[j]
      /\ staging'[i] = [staging[i] EXCEPT !.status = reason]
  BY <1>2 DEF Reject, TInv, TypeOK, TablesTyped
<1>4. /\ staging'[i] # None /\ staging'[i].adapter = staging[i].adapter
      /\ staging'[i].gen = staging[i].gen /\ staging'[i].raw = staging[i].raw
  BY <1>1, <1>2, <1>3, NoneAssumption DEF StagingRows
<1> QED
  BY <1>3, <1>4 DEF StagingKept, StagedOK, TInv

\* A batch writes rows where none were: its ids are new.
LEMMA StageKept ==
  ASSUME TInv, NEW w \in Workers, StageFeed(w)
  PROVE  /\ StagingKept /\ StagedOK' /\ batches' \subseteq Gens
         /\ \E f \in Feeds[cycle[w].adapter] : cycle' = [cycle EXCEPT ![w].feed = f]
<1>1. PICK f \in Feeds[cycle[w].adapter] :
        /\ cycle' = [cycle EXCEPT ![w].feed = f]
        /\ \/ f.msgs = {} /\ UNCHANGED <<staging, batches>>
           \/ \E b \in (1..clock) \ batches :
                /\ batches' = batches \cup {b}
                /\ staging' = [i \in Ids |->
                     IF i[1] = b /\ i[2] \in f.msgs
                     THEN [adapter |-> cycle[w].adapter, gen |-> cycle[w].gen, raw |-> f, status |-> "accepted"]
                     ELSE staging[i]]
  BY DEF StageFeed
<1>2. CASE UNCHANGED <<staging, batches>>
  BY <1>1, <1>2 DEF StagingKept, StagedOK, TInv, TypeOK, TablesTyped
<1>3. ASSUME NEW b \in (1..clock) \ batches,
             batches' = batches \cup {b},
             staging' = [i \in Ids |->
               IF i[1] = b /\ i[2] \in f.msgs
               THEN [adapter |-> cycle[w].adapter, gen |-> cycle[w].gen, raw |-> f, status |-> "accepted"]
               ELSE staging[i]]
      PROVE  StagingKept /\ StagedOK' /\ batches' \subseteq Gens
  <2> DEFINE row == [adapter |-> cycle[w].adapter, gen |-> cycle[w].gen, raw |-> f, status |-> "accepted"]
  <2>1. cycle[w].adapter \in Adapters /\ cycle[w].gen \in Gens /\ f \in AllFeeds
    BY DEF StageFeed, TInv, WorkOK, AllFeeds
  <2>2. row \in StagingRows
    BY <2>1 DEF StagingRows, Statuses
  <2>3. \A i \in Ids : i[1] = b => staging[i] = None
    BY <1>3 DEF TInv, StagedOK
  <2>4. \A i \in Ids : staging'[i] = IF i[1] = b /\ i[2] \in f.msgs THEN row ELSE staging[i]
    BY <1>3
  <2>5. staging' \in [Ids -> StagingRows \cup {None}]
    BY <1>3, <2>2 DEF TInv, TypeOK, TablesTyped
  <2>6. StagedOK'
    BY <1>3, <2>4 DEF TInv, StagedOK
  <2>7. batches' \subseteq Gens
    BY <1>3, GensAssumption DEF TInv, TypeOK, TablesTyped, Gens
  <2> QED
    BY <2>3, <2>4, <2>5, <2>6, <2>7 DEF StagingKept
<1> QED
  BY <1>1, <1>2, <1>3 DEF TInv, TypeOK, TablesTyped

\* The origin locks are locks.
LEMMA LocksTyped ==
  ASSUME NEW a \in Adapters, NEW m \in Messages
  PROVE  {LifecycleLock(a)} \cup OriginLocks(m) \subseteq Locks
<1>1. m \notin Alerts => Refs[m] \subseteq Messages
  BY MessagesAssumption DEF Messages
<1>2. ASSUME NEW n \in (IF m \in Active THEN {m} ELSE {}) \cup (IF m \in Alerts THEN {} ELSE Refs[m])
      PROVE  n \in Messages
  BY <1>1, <1>2
<1> QED
  BY <1>2 DEF OriginLocks, Locks

-----------------------------------------------------------------------------
\* What a worker is left with at the end of a cycle and of a row.

\* At the end of a cycle a worker carries nothing.
LEMMA EndCycleKept ==
  ASSUME TInv, NEW w \in Workers, EndCycle(w), UNCHANGED staging
  PROVE  WorkTyped' /\ WorkOK'
<1>1. Idle \in Cycles
  BY GensAssumption DEF Idle, Cycles
<1>2. WorkTyped'
  BY <1>1 DEF EndCycle, Goto, TInv, TypeOK, WorkTyped, Labels
<1>3. ASSUME NEW v \in Workers, v # w
      PROVE  /\ pc'[v] = pc[v] /\ cycle'[v] = cycle[v] /\ todo'[v] = todo[v] /\ cur'[v] = cur[v]
             /\ verdict'[v] = verdict[v] /\ held'[v] = held[v]
  BY <1>3 DEF EndCycle, Goto, TInv, TypeOK, WorkTyped
<1>4. pc'[w] = "idle" /\ todo'[w] = {}
  BY DEF EndCycle, Goto, TInv, TypeOK, WorkTyped
<1>5. WorkOK'
  BY <1>3, <1>4 DEF TInv, WorkOK, Polled
<1> QED
  BY <1>2, <1>5

\* At the end of a row its locks are gone and the row is no longer to do.
LEMMA EndRowKept ==
  ASSUME TInv, NEW w \in Workers, EndRow(w), StagingKept
  PROVE  WorkTyped' /\ WorkOK'
<1>1. WorkTyped'
  BY DEF EndRow, Goto, TInv, TypeOK, WorkTyped, Labels
<1>2. ASSUME NEW v \in Workers, v # w
      PROVE  /\ pc'[v] = pc[v] /\ todo'[v] = todo[v] /\ cur'[v] = cur[v]
             /\ verdict'[v] = verdict[v] /\ held'[v] = held[v]
  BY <1>2 DEF EndRow, Goto, TInv, TypeOK, WorkTyped
<1>3. pc[w] = "write" /\ pc'[w] = "rows" /\ todo'[w] \subseteq todo[w] /\ cycle' = cycle
  BY DEF EndRow, Goto, TInv, TypeOK, WorkTyped
<1>4. \A v \in Workers : todo'[v] \subseteq todo[v] /\ todo[v] \subseteq Ids
  BY <1>2, <1>3 DEF TInv, TypeOK, WorkTyped
<1>5. \A v \in Workers : \A i \in todo'[v] : staging'[i] # None /\ staging'[i].adapter = cycle'[v].adapter
  BY <1>3, <1>4 DEF TInv, WorkOK, StagingKept
<1>6. WorkOK'
  BY <1>2, <1>3, <1>5 DEF TInv, WorkOK, Polled
<1> QED
  BY <1>1, <1>6

\* The row under decision exists and is of the worker's adapter.
LEMMA CurFacts ==
  ASSUME TInv, NEW w \in Workers, pc[w] = "write"
  PROVE  /\ cur[w] \in Ids /\ cur[w][1] \in Gens /\ cur[w][2] \in Messages
         /\ staging[cur[w]] \in StagingRows /\ staging[cur[w]] # None
         /\ staging[cur[w]].adapter = cycle[w].adapter
         /\ staging[cur[w]].adapter \in Adapters /\ staging[cur[w]].gen \in Gens
         /\ staging[cur[w]].raw \in AllFeeds /\ cur[w][2] \in staging[cur[w]].raw.msgs
         /\ <<staging[cur[w]].adapter, cur[w][2]>> \in Slots
         /\ LifecycleLock(cycle[w].adapter) \in held[w] /\ OriginLocks(cur[w][2]) \subseteq held[w]
<1>1. cur[w] \in todo[w] /\ cur[w] \in Ids /\ staging[cur[w]] # None
      /\ staging[cur[w]].adapter = cycle[w].adapter
  BY DEF TInv, TypeOK, WorkTyped, WorkOK
<1>2. staging[cur[w]] \in StagingRows
  BY <1>1 DEF TInv, TypeOK, TablesTyped
<1>3. staging[cur[w]].adapter \in Adapters /\ staging[cur[w]].gen \in Gens
      /\ staging[cur[w]].raw \in AllFeeds
  BY <1>2 DEF StagingRows
<1>4. cur[w][1] \in Gens /\ cur[w][2] \in Messages
  BY <1>1 DEF Ids
<1> QED
  BY <1>1, <1>2, <1>3, <1>4 DEF TInv, StagedOK, WorkOK, Slots

-----------------------------------------------------------------------------
\* The type invariant, action by action.  Kept is what is shown of each of them.
Kept == TInv' /\ StagingKept

\* A step that leaves the staging table alone.
LEMMA SameStaging ==
  ASSUME TInv, UNCHANGED <<staging, batches>>
  PROVE  StagingKept /\ StagedOK'
BY DEF TInv, StagedOK, StagingKept, TypeOK, TablesTyped

\* One lemma per step: what each leaves of the types and of what the workers carry.
LEMMA StartPollKept ==
  ASSUME TInv, NEW w \in Workers, StartPoll(w)
  PROVE  Kept
<1>1. PICK a \in Adapters :
        cycle' = [cycle EXCEPT ![w] = [gen |-> clock + 1, adapter |-> a, feed |-> None, attempt |-> 1]]
  BY DEF StartPoll
<1>2. clock' \in 0..MaxGen /\ clock + 1 \in Gens
  BY GensAssumption DEF StartPoll, TInv, TypeOK, TablesTyped, Gens
<1>3. [gen |-> clock + 1, adapter |-> a, feed |-> None, attempt |-> 1] \in Cycles
  BY <1>2, GensAssumption DEF Cycles, Gens
<1>4. WorkTyped'
  BY <1>1, <1>3 DEF StartPoll, Goto, work, TInv, TypeOK, WorkTyped, Labels
<1>5. TablesTyped'
  BY <1>2 DEF StartPoll, tables, sources, TInv, TypeOK, TablesTyped
<1>6. ASSUME NEW v \in Workers, v # w
      PROVE  pc'[v] = pc[v] /\ cycle'[v] = cycle[v]
  BY <1>1, <1>6 DEF StartPoll, Goto, TInv, TypeOK, WorkTyped
<1>7. pc'[w] = "polling" /\ cycle'[w].adapter = a /\ cycle'[w].gen = clock + 1 /\ todo[w] = {}
  BY <1>1 DEF StartPoll, Goto, TInv, TypeOK, WorkTyped, WorkOK
<1>8. WorkOK'
  BY <1>2, <1>6, <1>7 DEF StartPoll, work, tables, TInv, WorkOK, Polled
<1>9. StagingKept /\ StagedOK'
  BY SameStaging DEF StartPoll, tables
<1> QED
  BY <1>4, <1>5, <1>8, <1>9 DEF Kept, TInv, TypeOK

\* Staging a feed hands the cycle its feed and the table its rows.
LEMMA StageFeedKept ==
  ASSUME TInv, NEW w \in Workers, StageFeed(w)
  PROVE  Kept
<1>1. StagingKept /\ StagedOK' /\ batches' \subseteq Gens
  BY StageKept
<1>2. PICK f \in Feeds[cycle[w].adapter] : cycle' = [cycle EXCEPT ![w].feed = f]
  BY StageKept
<1>3. f \in AllFeeds /\ pc[w] = "polling" /\ todo[w] = {}
  BY DEF StageFeed, TInv, WorkOK, AllFeeds
<1>4. WorkTyped'
  BY <1>2, <1>3 DEF StageFeed, Goto, work, TInv, TypeOK, WorkTyped, Labels, Cycles
<1>5. TablesTyped'
  BY <1>1 DEF StageFeed, sources, TInv, TypeOK, TablesTyped, StagingKept
<1>6. /\ \A v \in Workers : v # w => pc'[v] = pc[v] /\ cycle'[v] = cycle[v]
      /\ pc'[w] = "summary" /\ cycle'[w].adapter = cycle[w].adapter
      /\ cycle'[w].gen = cycle[w].gen /\ cycle'[w].feed = f
  BY <1>2 DEF StageFeed, Goto, TInv, TypeOK, WorkTyped, Cycles
<1>7. \A v \in Workers : todo'[v] = todo[v] /\ todo[v] \subseteq Ids
  BY DEF StageFeed, work, TInv, TypeOK, WorkTyped
<1>8. WorkOK'
  BY <1>1, <1>3, <1>6, <1>7 DEF StageFeed, work, TInv, WorkOK, Polled, StagingKept
<1> QED
  BY <1>1, <1>4, <1>5, <1>8 DEF Kept, TInv, TypeOK

\* The steps that only move a cycle to another place and leave what it carries.
LEMMA MoveKept ==
  ASSUME TInv, NEW w \in Workers, NEW label \in {"promote", "retire"}, Goto(w, label),
         pc[w] \in {"summary", "retire"}, UNCHANGED <<staging, cycle, work>>
  PROVE  WorkTyped' /\ WorkOK'
<1>1. WorkTyped'
  BY DEF Goto, work, TInv, TypeOK, WorkTyped, Labels
<1>2. /\ \A v \in Workers : v # w => pc'[v] = pc[v]
      /\ pc'[w] = label
  BY DEF Goto, TInv, TypeOK, WorkTyped
<1>3. WorkOK'
  BY <1>2 DEF work, TInv, WorkOK, Polled
<1> QED
  BY <1>1, <1>3

\* Writing the run summary moves the worker on.
LEMMA WriteSummaryKept ==
  ASSUME TInv, NEW w \in Workers, WriteSummary(w)
  PROVE  Kept
<1> DEFINE kind == Kind(cycle[w].adapter, cycle[w].feed)
<1>1. kind \in {"empty", "cancel_only", "active"}
  BY DEF Kind
<1>2. cycle[w].adapter \in Adapters /\ cycle[w].gen \in Gens
  BY DEF WriteSummary, TInv, WorkOK
<1>3. jobs' \subseteq JobRows
  BY <1>1, <1>2 DEF WriteSummary, TInv, TypeOK, TablesTyped, JobRows
<1>4. TablesTyped'
  BY <1>3 DEF WriteSummary, tables, TInv, TypeOK, TablesTyped
<1>5. WorkTyped' /\ WorkOK'
  <2>1. /\ pc[w] = "summary" /\ Goto(w, IF kind = "active" THEN "promote" ELSE "retire")
        /\ UNCHANGED <<staging, cycle, work>>
    BY DEF WriteSummary, tables
  <2> QED
    BY <2>1, MoveKept
<1>6. StagingKept /\ StagedOK'
  BY SameStaging DEF WriteSummary, tables
<1> QED
  BY <1>4, <1>5, <1>6 DEF Kept, TInv, TypeOK

\* Retiring deletes latest rows and records the generation.
LEMMA RetireKept ==
  ASSUME TInv, NEW w \in Workers, Retire(w)
  PROVE  Kept
<1>1. cycle[w].gen \in 0..MaxGen
  BY DEF TInv, TypeOK, WorkTyped, Cycles
<1>2. latest' \in [Slots -> LatestRows \cup {None}]
  BY DEF Retire, TInv, TypeOK, TablesTyped
<1>3. retired' \in [Adapters -> 0..MaxGen]
  BY <1>1 DEF Retire, TInv, TypeOK, TablesTyped
<1>4. TablesTyped'
  BY <1>2, <1>3 DEF Retire, sources, TInv, TypeOK, TablesTyped
<1>5. WorkTyped' /\ WorkOK'
  BY MoveKept DEF Retire
<1>6. StagingKept /\ StagedOK'
  BY SameStaging DEF Retire
<1> QED
  BY <1>4, <1>5, <1>6 DEF Kept, TInv, TypeOK

\* The candidates of a promotion are staged rows of the cycle's adapter.
LEMMA FetchKept ==
  ASSUME TInv, NEW w \in Workers, FetchCandidates(w)
  PROVE  Kept
<1> DEFINE rows == FetchAccepted(cycle[w].adapter, cycle[w].feed)
<1>1. rows \subseteq Ids /\ \A i \in rows : staging[i] # None /\ staging[i].adapter = cycle[w].adapter
  BY DEF FetchAccepted, Accepted
<1>2. /\ pc[w] = "promote" /\ pc'[w] = "rows" /\ todo'[w] = rows
      /\ \A v \in Workers : v # w => pc'[v] = pc[v] /\ todo'[v] = todo[v]
  BY DEF FetchCandidates, Goto, TInv, TypeOK, WorkTyped
<1>3. WorkTyped'
  BY <1>1 DEF FetchCandidates, Goto, TInv, TypeOK, WorkTyped, Labels
<1>4. WorkOK'
  BY <1>1, <1>2 DEF FetchCandidates, tables, TInv, WorkOK, Polled
<1>5. TablesTyped'
  BY DEF FetchCandidates, tables, sources, TInv, TypeOK, TablesTyped
<1>6. StagingKept /\ StagedOK'
  BY SameStaging DEF FetchCandidates, tables
<1> QED
  BY <1>3, <1>4, <1>5, <1>6 DEF Kept, TInv, TypeOK

\* What Decide chooses: a row that is due, all of its locks, and the verdict on it.
LEMMA DecideFacts ==
  ASSUME TInv, NEW w \in Workers, Decide(w)
  PROVE  \E i \in todo[w] :
           LET locks == {LifecycleLock(cycle[w].adapter)} \cup OriginLocks(i[2]) IN
           /\ i \in Ids /\ locks \subseteq Locks /\ Verdict(i) \in Verdicts /\ Free(w, locks)
           /\ pc[w] = "rows" /\ pc'[w] = "write" /\ cur'[w] = i /\ verdict'[w] = Verdict(i)
           /\ held'[w] = locks
           /\ \A v \in Workers : v # w =>
                /\ pc'[v] = pc[v] /\ cur'[v] = cur[v] /\ verdict'[v] = verdict[v]
                /\ held'[v] = held[v]
           /\ held' \in [Workers -> SUBSET Locks] /\ cur' \in [Workers -> Ids \cup {None}]
           /\ verdict' \in [Workers -> Verdicts \cup {None}] /\ pc' \in [Workers -> Labels]
<1>1. PICK i \in todo[w] :
        LET locks == {LifecycleLock(cycle[w].adapter)} \cup OriginLocks(i[2]) IN
        /\ Free(w, locks)
        /\ held' = [held EXCEPT ![w] = locks]
        /\ cur' = [cur EXCEPT ![w] = i]
        /\ verdict' = [verdict EXCEPT ![w] = Verdict(i)]
  BY DEF Decide
<1> DEFINE locks == {LifecycleLock(cycle[w].adapter)} \cup OriginLocks(i[2])
<1>2. i \in Ids /\ i[2] \in Messages /\ cycle[w].adapter \in Adapters
  BY DEF Decide, TInv, TypeOK, WorkTyped, WorkOK, Ids
<1>3. locks \subseteq Locks
  BY <1>2, LocksTyped
<1>4. Verdict(i) \in Verdicts
  BY DEF Verdict, Verdicts, Rejections
<1>5. pc[w] = "rows" /\ pc' = [pc EXCEPT ![w] = "write"]
  BY DEF Decide, Goto
<1>6. /\ held' \in [Workers -> SUBSET Locks] /\ cur' \in [Workers -> Ids \cup {None}]
      /\ verdict' \in [Workers -> Verdicts \cup {None}] /\ pc' \in [Workers -> Labels]
  BY <1>1, <1>2, <1>3, <1>4, <1>5 DEF TInv, TypeOK, WorkTyped, Labels
<1>7. /\ pc'[w] = "write" /\ cur'[w] = i /\ verdict'[w] = Verdict(i) /\ held'[w] = locks
      /\ \A v \in Workers : v # w =>
           pc'[v] = pc[v] /\ cur'[v] = cur[v] /\ verdict'[v] = verdict[v] /\ held'[v] = held[v]
  BY <1>1, <1>5 DEF TInv, TypeOK, WorkTyped
<1> QED
  BY <1>1, <1>2, <1>3, <1>4, <1>5, <1>6, <1>7

\* Deciding takes the locks of the row and writes nothing.
LEMMA DecideKept ==
  ASSUME TInv, NEW w \in Workers, Decide(w)
  PROVE  Kept
<1>1. PICK i \in todo[w] :
        LET locks == {LifecycleLock(cycle[w].adapter)} \cup OriginLocks(i[2]) IN
        /\ i \in Ids /\ locks \subseteq Locks /\ Verdict(i) \in Verdicts
        /\ pc[w] = "rows" /\ pc'[w] = "write" /\ cur'[w] = i /\ verdict'[w] = Verdict(i)
        /\ held'[w] = locks
        /\ \A v \in Workers : v # w =>
             pc'[v] = pc[v] /\ cur'[v] = cur[v] /\ verdict'[v] = verdict[v] /\ held'[v] = held[v]
        /\ held' \in [Workers -> SUBSET Locks] /\ cur' \in [Workers -> Ids \cup {None}]
        /\ verdict' \in [Workers -> Verdicts \cup {None}] /\ pc' \in [Workers -> Labels]
  BY DecideFacts
<1>2. UNCHANGED <<tables, sources, cycle, todo, clock, batches, expired, retired>>
  BY DEF Decide
<1>3. WorkTyped' /\ TablesTyped'
  BY <1>1, <1>2 DEF tables, sources, TInv, TypeOK, WorkTyped, TablesTyped
<1>4. WorkOK'
  BY <1>1, <1>2 DEF tables, TInv, WorkOK, Polled
<1>5. StagingKept /\ StagedOK'
  BY <1>2, SameStaging DEF tables
<1> QED
  BY <1>3, <1>4, <1>5 DEF Kept, TInv, TypeOK

\* The ways a row ends without touching evidence or latest rows.
LEMMA QuietRowKept ==
  ASSUME TInv, NEW w \in Workers, SkipRow(w) \/ RejectRow(w) \/ LoseInsert(w)
  PROVE  Kept /\ UNCHANGED <<evidence, latest, sources, retired>> /\ EndRow(w)
<1>1. EndRow(w) /\ pc[w] = "write" /\ UNCHANGED <<evidence, latest, clock, batches, sources, expired, retired>>
  BY DEF SkipRow, RejectRow, LoseInsert, EndRow, tables
<1>2. StagingKept /\ StagedOK'
  <2>1. CASE SkipRow(w)
    BY <1>1, <2>1, SameStaging DEF SkipRow, tables
  <2>2. CASE RejectRow(w)
    BY <1>1, <2>2, CurFacts, RejectKept DEF RejectRow, Statuses
  <2>3. CASE LoseInsert(w)
    BY <1>1, <2>3, CurFacts, RejectKept DEF LoseInsert, Statuses
  <2> QED
    BY <2>1, <2>2, <2>3
<1>3. WorkTyped' /\ WorkOK'
  BY <1>1, <1>2, EndRowKept
<1>4. TablesTyped'
  BY <1>1, <1>2 DEF sources, StagingKept, TInv, TypeOK, TablesTyped
<1> QED
  BY <1>1, <1>2, <1>3, <1>4 DEF Kept, TInv, TypeOK

\* A row put into the table is of the message's adapter, generation and feed.
LEMMA UpsertTyped ==
  ASSUME TInv, NEW w \in Workers, pc[w] = "write", NEW table \in [Slots -> LatestRows \cup {None}],
         NEW e \in Ids
  PROVE  LET i == cur[w]  s == <<staging[i].adapter, i[2]>>
             row == [gen |-> staging[i].gen, raw |-> staging[i].raw, ev |-> e]
         IN  /\ row \in LatestRows /\ row # None /\ s \in Slots
             /\ Upsert(table, i, e) \in [Slots -> LatestRows \cup {None}]
             /\ \A t \in Slots : Upsert(table, i, e)[t] = IF t = s /\ table[s] = None THEN row ELSE table[t]
<1> DEFINE i == cur[w]
           s == <<staging[i].adapter, i[2]>>
           row == [gen |-> staging[i].gen, raw |-> staging[i].raw, ev |-> e]
<1>1. row \in LatestRows /\ row # None /\ s \in Slots
  BY CurFacts, NoneAssumption DEF LatestRows
<1>2. Upsert(table, i, e) = IF table[s] # None THEN table ELSE [table EXCEPT ![s] = row]
  BY DEF Upsert
<1>3. Upsert(table, i, e) \in [Slots -> LatestRows \cup {None}]
  BY <1>1, <1>2
<1>4. \A t \in Slots : Upsert(table, i, e)[t] = IF t = s /\ table[s] = None THEN row ELSE table[t]
  BY <1>1, <1>2
<1> QED
  BY <1>1, <1>3, <1>4

\* What RejectExisting does to the latest table: at most the slot of its own message, whose
\* row keeps its generation and evidence, or is restored from a canonical evidence row.
LEMMA RestoreFacts ==
  ASSUME TInv, NEW w \in Workers, RejectExisting(w)
  PROVE  LET i == cur[w]  a == staging[i].adapter  s == <<a, i[2]>> IN
         /\ pc[w] = "write" /\ verdict[w] = "idempotent_existing_cap_message"
         /\ latest' \in [Slots -> LatestRows \cup {None}]
         /\ \A t \in Slots : t # s => latest'[t] = latest[t]
         /\ \/ latest' = latest
            \/ /\ a \in Snapshot /\ i[2] \in Active
               /\ latest'[s] # None /\ latest'[s].raw = staging[i].raw
               /\ latest[s] # None => /\ latest'[s].gen = latest[s].gen
                                      /\ latest'[s].ev = latest[s].ev
               /\ latest[s] = None => /\ latest'[s].gen = staging[i].gen
                                      /\ \E e \in Canonical(a, i[2]) : latest'[s].ev = e.id
<1> DEFINE i == cur[w]
           a == staging[i].adapter
           s == <<a, i[2]>>
<1>1. pc[w] = "write" /\ verdict[w] = "idempotent_existing_cap_message"
  BY DEF RejectExisting, EndRow
<1>2. s \in Slots /\ staging[i].raw \in AllFeeds /\ staging[i].gen \in Gens
  BY <1>1, CurFacts
<1>3. latest \in [Slots -> LatestRows \cup {None}]
  BY DEF TInv, TypeOK, TablesTyped
<1>4. CASE ~(a \in Snapshot /\ i[2] \in Active)
  BY <1>1, <1>3, <1>4 DEF RejectExisting
<1>5. CASE a \in Snapshot /\ i[2] \in Active
  <2>1. PICK e \in Canonical(a, i[2]) :
          latest' = [Upsert(latest, i, e.id) EXCEPT ![s].raw = staging[i].raw]
    BY <1>5 DEF RejectExisting
  <2>2. e.id \in Ids
    BY DEF Canonical, TInv, TypeOK, TablesTyped, EvidenceRows
  <2> DEFINE row == [gen |-> staging[i].gen, raw |-> staging[i].raw, ev |-> e.id]
             up == Upsert(latest, i, e.id)
  <2>3. /\ row \in LatestRows /\ row # None /\ up \in [Slots -> LatestRows \cup {None}]
        /\ \A t \in Slots : up[t] = IF t = s /\ latest[s] = None THEN row ELSE latest[t]
    BY <1>1, <1>3, <2>2, UpsertTyped
  <2>4. up[s] \in LatestRows
    BY <1>2, <1>3, <2>3
  <2>5. latest' = [up EXCEPT ![s] = [up[s] EXCEPT !.raw = staging[i].raw]]
    BY <2>1
  <2> DEFINE marked == [up[s] EXCEPT !.raw = staging[i].raw]
  <2>6. /\ marked \in LatestRows /\ marked # None /\ marked.raw = staging[i].raw
        /\ marked.gen = up[s].gen /\ marked.ev = up[s].ev
    BY <1>2, <2>4, NoneAssumption DEF LatestRows
  <2> HIDE DEF marked, up
  <2>7. /\ latest' \in [Slots -> LatestRows \cup {None}] /\ latest'[s] = marked
        /\ \A t \in Slots : t # s => latest'[t] = up[t]
    BY <1>2, <2>3, <2>5, <2>6 DEF marked
  <2>8. latest[s] # None => up[s] = latest[s]
    BY <1>2, <2>3
  <2>9. latest[s] = None => up[s].gen = staging[i].gen /\ up[s].ev = e.id
    BY <1>2, <2>3
  <2> QED
    BY <1>1, <1>5, <2>3, <2>6, <2>7, <2>8, <2>9
<1> QED
  BY <1>4, <1>5

\* A repeated message may restore the latest row of the evidence it has, and writes none.
LEMMA RejectExistingKept ==
  ASSUME TInv, NEW w \in Workers, RejectExisting(w)
  PROVE  Kept
<1>1. pc[w] = "write" /\ EndRow(w) /\ latest' \in [Slots -> LatestRows \cup {None}]
      /\ verdict[w] = "idempotent_existing_cap_message"
      /\ Reject(cur[w], verdict[w])
      /\ UNCHANGED <<evidence, clock, batches, sources, expired, retired>>
  BY RestoreFacts DEF RejectExisting, EndRow
<1>2. StagingKept /\ StagedOK'
  BY <1>1, CurFacts, RejectKept DEF Statuses
<1>3. WorkTyped' /\ WorkOK'
  BY <1>1, <1>2, EndRowKept
<1>4. TablesTyped'
  BY <1>1, <1>2 DEF sources, StagingKept, TInv, TypeOK, TablesTyped
<1> QED
  BY <1>2, <1>3, <1>4 DEF Kept, TInv, TypeOK

\* The evidence a row becomes.
LEMMA EvidenceTyped ==
  ASSUME TInv, NEW w \in Workers, pc[w] = "write", NEW scope \in {"current", "historical"}
  PROVE  Evidence(cur[w], scope) \in EvidenceRows
BY CurFacts DEF Evidence, EvidenceRows

\* A historical message is kept as evidence that is not current.
LEMMA KeepHistoricalKept ==
  ASSUME TInv, NEW w \in Workers, KeepHistorical(w)
  PROVE  Kept
<1>1. pc[w] = "write" /\ EndRow(w) /\ evidence' = evidence \cup {Evidence(cur[w], "historical")}
      /\ UNCHANGED <<staging, latest, clock, batches, sources, expired, retired>>
  BY DEF KeepHistorical, EndRow
<1>2. StagingKept /\ StagedOK'
  BY <1>1, SameStaging
<1>3. WorkTyped' /\ WorkOK'
  BY <1>1, <1>2, EndRowKept
<1>4. evidence' \subseteq EvidenceRows
  BY <1>1, EvidenceTyped DEF TInv, TypeOK, TablesTyped
<1>5. TablesTyped'
  BY <1>1, <1>4 DEF sources, TInv, TypeOK, TablesTyped
<1> QED
  BY <1>2, <1>3, <1>5 DEF Kept, TInv, TypeOK

\* What Promote does: rows of referenced messages go if they are not of a later generation,
\* and an active message gets a row unless its slot has one.
LEMMA PromoteFacts ==
  ASSUME TInv, NEW w \in Workers, Promote(w)
  PROVE  LET i == cur[w]  s == <<staging[i].adapter, i[2]>>
             row == [gen |-> staging[i].gen, raw |-> staging[i].raw, ev |-> i]
             gone(t) == /\ i[2] \notin Alerts /\ t[2] \in Refs[i[2]]
                        /\ latest[t] # None /\ latest[t].gen <= staging[i].gen
         IN  /\ pc[w] = "write" /\ verdict[w] = "current" /\ row \in LatestRows /\ row # None
             /\ evidence' = evidence \cup {Evidence(i, "current")}
             /\ latest' \in [Slots -> LatestRows \cup {None}]
             /\ \A t \in Slots : t # s => latest'[t] = IF gone(t) THEN None ELSE latest[t]
             /\ ~gone(s)
             /\ latest'[s] = IF i[2] \in Active /\ latest[s] = None THEN row ELSE latest[s]
<1> DEFINE i == cur[w]
           s == <<staging[i].adapter, i[2]>>
           row == [gen |-> staging[i].gen, raw |-> staging[i].raw, ev |-> i]
           gone(t) == /\ i[2] \notin Alerts /\ t[2] \in Refs[i[2]]
                      /\ latest[t] # None /\ latest[t].gen <= staging[i].gen
           left == [t \in Slots |-> IF gone(t) THEN None ELSE latest[t]]
<1>1. /\ pc[w] = "write" /\ verdict[w] = "current"
      /\ evidence' = evidence \cup {Evidence(i, "current")}
      /\ latest' = IF i[2] \in Active THEN Upsert(left, i, i) ELSE left
  BY DEF Promote, EndRow, RetireRefs
<1>2. i \in Ids /\ i[2] \in Messages /\ s \in Slots
  BY <1>1, CurFacts
<1>3. left \in [Slots -> LatestRows \cup {None}]
  BY DEF TInv, TypeOK, TablesTyped
<1>4. ~gone(s)
  BY <1>2, MessagesAssumption DEF Messages
<1>5. left[s] = latest[s]
  BY <1>2, <1>4
<1> HIDE DEF left
<1>6. /\ row \in LatestRows /\ row # None
      /\ Upsert(left, i, i) \in [Slots -> LatestRows \cup {None}]
      /\ \A t \in Slots : Upsert(left, i, i)[t] = IF t = s /\ left[s] = None THEN row ELSE left[t]
  BY <1>1, <1>2, <1>3, UpsertTyped
<1>7. \A t \in Slots : latest'[t] = IF i[2] \in Active /\ t = s /\ left[s] = None THEN row ELSE left[t]
  BY <1>1, <1>6
<1>8. latest' \in [Slots -> LatestRows \cup {None}]
  BY <1>1, <1>3, <1>6
<1>9. \A t \in Slots : left[t] = IF gone(t) THEN None ELSE latest[t]
  BY DEF left
<1> HIDE DEF gone, row
<1>10. /\ \A t \in Slots : t # s => latest'[t] = IF gone(t) THEN None ELSE latest[t]
       /\ latest'[s] = IF i[2] \in Active /\ latest[s] = None THEN row ELSE latest[s]
  BY <1>2, <1>5, <1>7, <1>9
<1> QED
  BY <1>1, <1>4, <1>6, <1>8, <1>10 DEF gone, row

\* A current message becomes the evidence and the latest row of its slot.
LEMMA PromoteKept ==
  ASSUME TInv, NEW w \in Workers, Promote(w)
  PROVE  Kept
<1>1. pc[w] = "write" /\ EndRow(w) /\ evidence' = evidence \cup {Evidence(cur[w], "current")}
      /\ latest' \in [Slots -> LatestRows \cup {None}]
      /\ UNCHANGED <<staging, clock, batches, sources, expired, retired>>
  BY PromoteFacts DEF Promote, EndRow
<1>2. StagingKept /\ StagedOK'
  BY <1>1, SameStaging
<1>3. WorkTyped' /\ WorkOK'
  BY <1>1, <1>2, EndRowKept
<1>4. evidence' \subseteq EvidenceRows
  BY <1>1, EvidenceTyped DEF TInv, TypeOK, TablesTyped
<1>5. TablesTyped'
  BY <1>1, <1>4 DEF sources, TInv, TypeOK, TablesTyped
<1> QED
  BY <1>2, <1>3, <1>5 DEF Kept, TInv, TypeOK

\* The adapter's status row.
LEMMA StatusTyped ==
  ASSUME TInv, NEW a \in Adapters, NEW g \in Gens, NEW feed \in AllFeeds \cup {None},
         WriteStatus(a, g, feed)
  PROVE  runAt' \in [Adapters -> 0..MaxGen] /\ active' \in [Adapters -> AllFeeds \cup {None}]
<1>1. g \in 0..MaxGen
  BY GensAssumption DEF Gens
<1>2. CASE runAt[a] <= g /\ ~NewerJob(a, g)
  BY <1>1, <1>2 DEF WriteStatus, TInv, TypeOK, TablesTyped
<1>3. CASE ~(runAt[a] <= g /\ ~NewerJob(a, g))
  BY <1>3 DEF WriteStatus, TInv, TypeOK, TablesTyped
<1> QED
  BY <1>2, <1>3

\* The ways a cycle ends.
LEMMA CycleEndKept ==
  ASSUME TInv, NEW w \in Workers, PollFails(w) \/ Finish(w) \/ GiveUp(w) \/ Crash(w)
  PROVE  Kept /\ EndCycle(w) /\ UNCHANGED <<tables, retired>>
<1>1. EndCycle(w) /\ UNCHANGED <<tables, clock, batches, expired, retired>> /\ pc[w] # "idle"
  BY DEF PollFails, Finish, GiveUp, Crash
<1>2. cycle[w].adapter \in Adapters /\ cycle[w].gen \in Gens
  BY <1>1 DEF TInv, WorkOK
<1>3. StagingKept /\ StagedOK'
  BY <1>1, SameStaging DEF tables
<1>4. WorkTyped' /\ WorkOK'
  BY <1>1, EndCycleKept DEF tables
<1>5. /\ jobs' \subseteq JobRows /\ runAt' \in [Adapters -> 0..MaxGen]
      /\ active' \in [Adapters -> AllFeeds \cup {None}]
  <2>1. CASE PollFails(w)
    BY <1>2, <2>1, GensAssumption DEF PollFails, TInv, TypeOK, TablesTyped, JobRows, Gens
  <2>2. CASE Finish(w)
    <3>1. cycle[w].feed \in AllFeeds /\ jobs' = jobs
      BY <2>2 DEF Finish, TInv, WorkOK, Polled
    <3>2. WriteStatus(cycle[w].adapter, cycle[w].gen,
                      IF Activates(cycle[w].adapter, cycle[w].feed) THEN cycle[w].feed ELSE None)
      BY <2>2 DEF Finish
    <3> QED
      BY <1>2, <3>1, <3>2, StatusTyped DEF TInv, TypeOK, TablesTyped
  <2>3. CASE GiveUp(w)
    BY <1>2, <2>3, StatusTyped DEF GiveUp, TInv, TypeOK, TablesTyped
  <2>4. CASE Crash(w)
    BY <2>4 DEF Crash, sources, TInv, TypeOK, TablesTyped
  <2> QED
    BY <2>1, <2>2, <2>3, <2>4
<1>6. TablesTyped'
  BY <1>1, <1>5 DEF tables, TInv, TypeOK, TablesTyped
<1> QED
  BY <1>1, <1>3, <1>4, <1>6 DEF Kept, TInv, TypeOK

\* A retry starts the promotion over with nothing in hand.
LEMMA RetryKept ==
  ASSUME TInv, NEW w \in Workers, RetryPromotion(w)
  PROVE  Kept
<1>1. /\ pc[w] \in {"promote", "rows", "write"} /\ pc' = [pc EXCEPT ![w] = "promote"]
      /\ cycle' = [cycle EXCEPT ![w].attempt = 2]
      /\ UNCHANGED <<clock, batches, tables, sources, expired, retired>>
  BY DEF RetryPromotion, Goto
<1>2. WorkTyped'
  BY <1>1 DEF RetryPromotion, TInv, TypeOK, WorkTyped, Labels, Cycles
<1>3. /\ pc'[w] = "promote" /\ todo'[w] = {} /\ cycle'[w].adapter = cycle[w].adapter
      /\ cycle'[w].gen = cycle[w].gen /\ cycle'[w].feed = cycle[w].feed
      /\ \A v \in Workers : v # w =>
           /\ pc'[v] = pc[v] /\ cycle'[v] = cycle[v] /\ todo'[v] = todo[v] /\ cur'[v] = cur[v]
           /\ verdict'[v] = verdict[v] /\ held'[v] = held[v]
  BY <1>1 DEF RetryPromotion, TInv, TypeOK, WorkTyped, Cycles
<1>4. WorkOK'
  BY <1>1, <1>3 DEF tables, TInv, WorkOK, Polled
<1>5. StagingKept /\ StagedOK'
  BY <1>1, SameStaging DEF tables
<1>6. TablesTyped'
  BY <1>1 DEF tables, sources, TInv, TypeOK, TablesTyped
<1> QED
  BY <1>2, <1>4, <1>5, <1>6 DEF Kept, TInv, TypeOK

\* A warning that expires.
LEMMA ExpireKept ==
  ASSUME TInv, Expire
  PROVE  Kept
<1>1. expired' \subseteq Messages
  BY MessagesAssumption DEF Expire, TInv, TypeOK, TablesTyped, Messages, Active
<1>2. UNCHANGED <<clock, batches, tables, sources, pc, cycle, work, retired>>
  BY DEF Expire
<1>3. StagingKept /\ StagedOK'
  BY <1>2, SameStaging DEF tables
<1> QED
  BY <1>1, <1>2, <1>3 DEF tables, sources, work, Kept, TInv, TypeOK, TablesTyped, WorkTyped, WorkOK

\* A step in which nothing happens.
LEMMA StutterKept ==
  ASSUME TInv, UNCHANGED vars
  PROVE  Kept
<1>1. StagingKept /\ StagedOK'
  BY SameStaging DEF vars
<1> QED
  BY <1>1 DEF vars, Kept, TInv, TypeOK, TablesTyped, WorkTyped, WorkOK

\* The disjuncts of the next-state relation, as the lemmas treat them.
LEMMA NextCases ==
  ASSUME [Next]_vars
  PROVE  \/ Expire \/ UNCHANGED vars
         \/ \E w \in Workers :
              \/ StartPoll(w) \/ StageFeed(w) \/ PollFails(w) \/ WriteSummary(w) \/ Retire(w)
              \/ FetchCandidates(w) \/ Decide(w) \/ SkipRow(w) \/ RejectRow(w) \/ RejectExisting(w)
              \/ LoseInsert(w) \/ KeepHistorical(w) \/ Promote(w) \/ Finish(w)
              \/ RetryPromotion(w) \/ GiveUp(w) \/ Crash(w)
BY DEF Next

\* Types and what the workers carry are inductive.
LEMMA NextTInv == TInv /\ [Next]_vars => Kept
<1> SUFFICES ASSUME TInv, [Next]_vars
             PROVE  Kept
  OBVIOUS
<1> QED
  BY NextCases, ExpireKept, StutterKept, StartPollKept, StageFeedKept, CycleEndKept,
     WriteSummaryKept, RetireKept, FetchKept, DecideKept, QuietRowKept, RejectExistingKept,
     KeepHistoricalKept, PromoteKept, RetryKept

\* The empty database satisfies them.
LEMMA InitTInv == Init => TInv
<1> SUFFICES ASSUME Init
             PROVE  TInv
  OBVIOUS
<1>1. Idle \in Cycles
  BY GensAssumption DEF Idle, Cycles
<1>2. TablesTyped
  BY GensAssumption DEF Init, TablesTyped, Gens
<1>3. WorkTyped
  BY <1>1 DEF Init, WorkTyped, Labels
<1>4. WorkOK /\ StagedOK
  BY DEF Init, WorkOK, StagedOK, Polled
<1> QED
  BY <1>2, <1>3, <1>4 DEF TInv, TypeOK

\* Every variable keeps its shape: the tables of the warnings and what a cycle carries.
THEOREM WarningTypeCorrect == Spec => []TypeOK
<1>1. TInv /\ [Next]_vars => TInv'
  BY NextTInv DEF Kept
<1>2. TInv => TypeOK
  BY DEF TInv
<1> QED
  BY InitTInv, <1>1, <1>2, PTL DEF Spec

-----------------------------------------------------------------------------
\* The inductive invariant.  What the tables say ...

\* An evidence row says what the staging row it came from says.
EvidenceOfStaging ==
  \A e \in evidence :
    /\ staging[e.id] # None /\ e.msg = e.id[2]
    /\ e.adapter = staging[e.id].adapter /\ e.gen = staging[e.id].gen

\* A latest row is marked with a feed that has its message.
RowInFeed == \A s \in Slots : latest[s] # None => s[2] \in latest[s].raw.msgs

\* A Cancel has no row.
RowIsActive == \A s \in Slots : latest[s] # None => s[2] \in Active

\* An empty poll has its job row before it retires anything.
RetiredByPoll ==
  \A a \in Adapters : retired[a] # 0 =>
    \E j \in jobs : j.adapter = a /\ j.kind = "empty" /\ j.gen = retired[a]

\* Without restoring, nothing comes back below an empty poll.
OthersForward ==
  \A s \in Slots : (latest[s] # None /\ s[1] \notin Snapshot) => latest[s].gen > retired[s[1]]

\* The reader's condition: a poll without an active event is as new as the evidence.
Overtaken(e) ==
  \E j \in jobs : j.adapter = e.adapter /\ j.kind \in {"empty", "cancel_only"} /\ j.gen >= e.gen

\* A warning whose row is lost, or restored with an older generation, was retired for a
\* reason that the reader, or a later restore, sees.
LostForAReason ==
  \A e \in evidence : (e.scope = "current" /\ e.msg \in Active) =>
    \/ latest[<<e.adapter, e.msg>>] # None /\ latest[<<e.adapter, e.msg>>].gen >= e.gen
    \/ latest[<<e.adapter, e.msg>>] = None /\ Tombstoned(e.msg)
    \/ Overtaken(e)

RowsInv ==
  /\ EvidenceOfStaging /\ LatestIsCurrent /\ OneCurrentEvidence /\ CancelledStaysGone
  /\ RowInFeed /\ RowIsActive /\ RetiredByPoll /\ OthersForward /\ LostForAReason

\* ... and what the open transactions know: no two hold a lock in common, and what a
\* transaction has read to decide is still so while it holds its locks.
Apart == \A v, w \in Workers : v # w => held[v] \cap held[w] = {}

Fresh(w) ==
  LET i == cur[w]  a == staging[i].adapter IN
  pc[w] = "write" =>
    /\ verdict[w] = "current" => Canonical(a, i[2]) = {}
    /\ (verdict[w] \in {"current", "idempotent_existing_cap_message"} /\ i[2] \in Active) =>
         ~Tombstoned(i[2])
    /\ (verdict[w] = "current" /\ i[2] \in Active) => ~BlockedByEmpty(a, staging[i].gen)

VerdictFresh == \A w \in Workers : Fresh(w)

\* A cycle that is about to retire rows has recorded its poll.
RetiringRecorded ==
  \A w \in Workers : pc[w] = "retire" =>
    \E j \in jobs :
      /\ j.adapter = cycle[w].adapter /\ j.gen = cycle[w].gen
      /\ j.kind \in {"empty", "cancel_only"}
      /\ cycle[w].feed.msgs = {} => j.kind = "empty"

VInv == TInv /\ RowsInv /\ Apart /\ VerdictFresh /\ RetiringRecorded

-----------------------------------------------------------------------------
\* Steps that write neither evidence nor latest rows keep what the tables say.

\* The invariant of the tables survives every step that leaves evidence, latest rows and
\* the retired generations alone.
LEMMA SameTables ==
  ASSUME TInv, RowsInv, StagingKept, UNCHANGED <<evidence, latest, retired>>, jobs \subseteq jobs'
  PROVE  RowsInv'
<1>1. \A e \in evidence : e.id \in Ids
  BY DEF TInv, TypeOK, TablesTyped, EvidenceRows
<1>2. EvidenceOfStaging'
  BY <1>1 DEF RowsInv, EvidenceOfStaging, StagingKept
<1>3. LatestIsCurrent' /\ OneCurrentEvidence' /\ CancelledStaysGone' /\ RowInFeed' /\ RowIsActive'
      /\ OthersForward'
  BY DEF RowsInv, LatestIsCurrent, Canonical, OneCurrentEvidence, CancelledStaysGone, RowInFeed, RowIsActive,
     OthersForward
<1>4. RetiredByPoll'
  BY DEF RowsInv, RetiredByPoll
<1>5. LostForAReason'
  BY DEF RowsInv, LostForAReason, Tombstoned, Overtaken
<1> QED
  BY <1>2, <1>3, <1>4, <1>5 DEF RowsInv

\* The steps that do.
LEMMA QuietTables ==
  ASSUME TInv, RowsInv, NEW w \in Workers,
         \/ StartPoll(w) \/ StageFeed(w) \/ PollFails(w) \/ WriteSummary(w) \/ FetchCandidates(w)
         \/ Decide(w) \/ SkipRow(w) \/ RejectRow(w) \/ LoseInsert(w) \/ Finish(w)
         \/ RetryPromotion(w) \/ GiveUp(w) \/ Crash(w)
  PROVE  RowsInv'
<1>1. Kept
  BY StartPollKept, StageFeedKept, CycleEndKept, WriteSummaryKept, FetchKept, DecideKept,
     QuietRowKept, RetryKept
<1>2. UNCHANGED <<evidence, latest, retired>> /\ jobs \subseteq jobs'
  <2>1. CASE SkipRow(w) \/ RejectRow(w) \/ LoseInsert(w)
    BY <2>1, QuietRowKept DEF sources
  <2>2. CASE StartPoll(w) \/ StageFeed(w) \/ PollFails(w) \/ WriteSummary(w) \/ FetchCandidates(w)
             \/ Decide(w) \/ Finish(w) \/ RetryPromotion(w) \/ GiveUp(w) \/ Crash(w)
    BY <2>2 DEF StartPoll, StageFeed, PollFails, WriteSummary, FetchCandidates, Decide, Finish,
       RetryPromotion, GiveUp, Crash, tables, sources
  <2> QED
    BY <2>1, <2>2
<1> QED
  BY <1>1, <1>2, SameTables DEF Kept

\* A retirement only deletes, and its poll is on record.
LEMMA RetireRows ==
  ASSUME VInv, NEW w \in Workers, Retire(w)
  PROVE  RowsInv'
<1> DEFINE a == cycle[w].adapter
           g == cycle[w].gen
<1>1. /\ pc[w] = "retire" /\ a \in Adapters /\ g \in Gens
      /\ UNCHANGED <<staging, evidence, jobs, batches>>
  BY DEF Retire, sources, VInv, TInv, WorkOK
<1>2. PICK j \in jobs : /\ j.adapter = a /\ j.gen = g /\ j.kind \in {"empty", "cancel_only"}
                        /\ cycle[w].feed.msgs = {} => j.kind = "empty"
  BY <1>1 DEF VInv, RetiringRecorded
<1>3. \A s \in Slots : latest'[s] = IF s[1] = a /\ latest[s] # None /\ latest[s].gen <= g
                                    THEN None ELSE latest[s]
  BY DEF Retire
<1>4. /\ \A b \in Adapters \ {a} : retired'[b] = retired[b]
      /\ retired'[a] = IF cycle[w].feed.msgs = {} /\ g > retired[a] THEN g ELSE retired[a]
  BY <1>1 DEF Retire, VInv, TInv, TypeOK, TablesTyped
<1>5. EvidenceOfStaging' /\ OneCurrentEvidence'
  BY <1>1 DEF VInv, RowsInv, EvidenceOfStaging, OneCurrentEvidence
<1>6. LatestIsCurrent' /\ RowInFeed' /\ RowIsActive'
  BY <1>1, <1>3 DEF VInv, RowsInv, LatestIsCurrent, Canonical, RowInFeed, RowIsActive
<1>7. CancelledStaysGone'
  <2>1. ASSUME NEW e \in evidence, e.msg \notin Alerts, NEW b \in Adapters, NEW m \in Refs[e.msg]
        PROVE  <<b, m>> \in Slots
    BY <2>1, MessagesAssumption DEF VInv, TInv, TypeOK, TablesTyped, EvidenceRows, Slots, Messages
  <2> QED
    BY <1>1, <1>3, <2>1 DEF VInv, RowsInv, CancelledStaysGone
<1>8. RetiredByPoll'
  BY <1>1, <1>2, <1>4 DEF VInv, RowsInv, RetiredByPoll
<1>9. OthersForward'
  <2> SUFFICES ASSUME NEW s \in Slots, latest'[s] # None, s[1] \notin Snapshot
               PROVE  latest'[s].gen > retired'[s[1]]
    BY DEF OthersForward
  <2>1. latest'[s] = latest[s] /\ latest[s] # None /\ ~(s[1] = a /\ latest[s].gen <= g)
    BY <1>3
  <2>2. latest[s].gen \in Nat /\ g \in Nat /\ s[1] \in Adapters
    BY <1>1, <2>1 DEF VInv, TInv, TypeOK, TablesTyped, LatestRows, Gens, Slots
  <2>3. latest[s].gen > retired[s[1]]
    BY <2>1 DEF VInv, RowsInv, OthersForward
  <2> QED
    BY <1>4, <2>1, <2>2, <2>3
<1>10. LostForAReason'
  <2> SUFFICES ASSUME NEW e \in evidence, e.scope = "current", e.msg \in Active
               PROVE  (\/ latest[<<e.adapter, e.msg>>] # None /\ latest[<<e.adapter, e.msg>>].gen >= e.gen
                       \/ latest[<<e.adapter, e.msg>>] = None /\ Tombstoned(e.msg)
                       \/ Overtaken(e))'
    BY <1>1 DEF LostForAReason
  <2> DEFINE s == <<e.adapter, e.msg>>
  <2>1. s \in Slots /\ e.gen \in Nat /\ g \in Nat
    BY <1>1 DEF VInv, TInv, TypeOK, TablesTyped, EvidenceRows, Slots, Gens
  <2>2. CASE (latest[s] = None /\ Tombstoned(e.msg)) \/ Overtaken(e)
    BY <1>1, <1>3, <2>1, <2>2 DEF Tombstoned, Overtaken
  <2>3. CASE latest[s] # None /\ latest[s].gen >= e.gen
    <3>1. CASE latest'[s] = latest[s]
      BY <2>3, <3>1
    <3>2. CASE s[1] = a /\ latest[s].gen <= g
      <4>1. latest[s].gen \in Nat
        BY <2>1, <2>3 DEF VInv, TInv, TypeOK, TablesTyped, LatestRows, Gens
      <4>2. j.adapter = e.adapter /\ j.gen >= e.gen
        BY <1>2, <2>1, <2>3, <3>2, <4>1
      <4> QED
        BY <1>1, <1>2, <4>2 DEF Overtaken
    <3> QED
      BY <1>3, <2>1, <3>1, <3>2
  <2> QED
    BY <2>2, <2>3 DEF VInv, RowsInv, LostForAReason
<1> QED
  BY <1>5, <1>6, <1>7, <1>8, <1>9, <1>10 DEF RowsInv

\* A restored row is backed by the canonical evidence, is of a snapshot adapter, and was
\* not cancelled: what its transaction read is still so.
LEMMA RestoreRows ==
  ASSUME VInv, NEW w \in Workers, RejectExisting(w)
  PROVE  RowsInv'
<1> DEFINE i == cur[w]
           a == staging[i].adapter
           m == i[2]
           s == <<a, m>>
<1>1. /\ pc[w] = "write" /\ verdict[w] = "idempotent_existing_cap_message"
      /\ \A t \in Slots : t # s => latest'[t] = latest[t]
      /\ \/ latest' = latest
         \/ /\ a \in Snapshot /\ m \in Active
            /\ latest'[s] # None /\ latest'[s].raw = staging[i].raw
            /\ latest[s] # None => latest'[s].gen = latest[s].gen /\ latest'[s].ev = latest[s].ev
            /\ latest[s] = None => /\ latest'[s].gen = staging[i].gen
                                   /\ \E e \in Canonical(a, m) : latest'[s].ev = e.id
  BY RestoreFacts DEF VInv
<1>2. s \in Slots /\ m \in staging[i].raw.msgs
  BY <1>1, CurFacts DEF VInv
<1>3. StagingKept /\ UNCHANGED <<evidence, jobs, retired>>
  BY RejectExistingKept DEF VInv, Kept, RejectExisting, EndRow, sources
<1>4. CASE latest' = latest
  BY <1>3, <1>4, SameTables DEF VInv
<1>5. CASE /\ a \in Snapshot /\ m \in Active
           /\ latest'[s] # None /\ latest'[s].raw = staging[i].raw
           /\ latest[s] # None => latest'[s].gen = latest[s].gen /\ latest'[s].ev = latest[s].ev
           /\ latest[s] = None => /\ latest'[s].gen = staging[i].gen
                                  /\ \E e \in Canonical(a, m) : latest'[s].ev = e.id
  <2>1. ~Tombstoned(m)
    BY <1>1, <1>5 DEF VInv, VerdictFresh, Fresh
  <2>2. EvidenceOfStaging'
    <3>1. \A e \in evidence : e.id \in Ids
      BY DEF VInv, TInv, TypeOK, TablesTyped, EvidenceRows
    <3> QED
      BY <1>3, <3>1 DEF VInv, RowsInv, EvidenceOfStaging, StagingKept
  <2>3. OneCurrentEvidence' /\ RetiredByPoll'
    BY <1>3 DEF VInv, RowsInv, OneCurrentEvidence, RetiredByPoll
  <2>4. LatestIsCurrent'
    BY <1>1, <1>2, <1>3, <1>5 DEF VInv, RowsInv, LatestIsCurrent, Canonical
  <2>5. RowInFeed' /\ RowIsActive'
    BY <1>1, <1>2, <1>5 DEF VInv, RowsInv, RowInFeed, RowIsActive
  <2>6. OthersForward'
    BY <1>1, <1>2, <1>3, <1>5 DEF VInv, RowsInv, OthersForward
  <2>7. CancelledStaysGone'
    <3> SUFFICES ASSUME NEW e \in evidence, e.scope = "current", e.msg \notin Alerts,
                        NEW b \in Adapters, NEW n \in Refs[e.msg], latest'[<<b, n>>] # None
                 PROVE  latest'[<<b, n>>].gen > e.gen
      BY <1>3 DEF CancelledStaysGone
    <3>1. <<b, n>> \in Slots
      BY MessagesAssumption DEF VInv, TInv, TypeOK, TablesTyped, EvidenceRows, Slots, Messages
    <3>2. n # m
      BY <2>1 DEF Tombstoned
    <3> QED
      BY <1>1, <3>1, <3>2 DEF VInv, RowsInv, CancelledStaysGone
  <2>8. LostForAReason'
    <3> SUFFICES ASSUME NEW e \in evidence, e.scope = "current", e.msg \in Active
                 PROVE  (\/ latest[<<e.adapter, e.msg>>] # None /\ latest[<<e.adapter, e.msg>>].gen >= e.gen
                         \/ latest[<<e.adapter, e.msg>>] = None /\ Tombstoned(e.msg)
                         \/ Overtaken(e))'
      BY <1>3 DEF LostForAReason
    <3>1. <<e.adapter, e.msg>> \in Slots
      BY DEF VInv, TInv, TypeOK, TablesTyped, EvidenceRows, Slots
    <3>2. CASE (latest[<<e.adapter, e.msg>>] = None /\ Tombstoned(e.msg)) \/ Overtaken(e)
      BY <1>1, <1>3, <2>1, <3>1, <3>2 DEF Tombstoned, Overtaken
    <3>3. CASE latest[<<e.adapter, e.msg>>] # None /\ latest[<<e.adapter, e.msg>>].gen >= e.gen
      BY <1>1, <1>5, <3>1, <3>3
    <3> QED
      BY <3>2, <3>3 DEF VInv, RowsInv, LostForAReason
  <2> QED
    BY <2>2, <2>3, <2>4, <2>5, <2>6, <2>7, <2>8 DEF RowsInv
<1> QED
  BY <1>1, <1>4, <1>5

\* Evidence that a message was overtaken is of no consequence for the latest table.
LEMMA HistoricalRows ==
  ASSUME VInv, NEW w \in Workers, KeepHistorical(w)
  PROVE  RowsInv'
<1> DEFINE i == cur[w]
           new == Evidence(i, "historical")
<1>1. pc[w] = "write" /\ evidence' = evidence \cup {new} /\ UNCHANGED <<staging, latest, jobs, retired>>
  BY DEF KeepHistorical, EndRow, sources
<1>2. new.scope = "historical" /\ new.id = i /\ new.msg = i[2]
      /\ new.adapter = staging[i].adapter /\ new.gen = staging[i].gen /\ staging[i] # None
  BY <1>1, CurFacts DEF Evidence, VInv
<1> HIDE DEF new
<1>3. EvidenceOfStaging'
  BY <1>1, <1>2 DEF VInv, RowsInv, EvidenceOfStaging
<1>4. LatestIsCurrent' /\ OneCurrentEvidence' /\ CancelledStaysGone' /\ LostForAReason'
  BY <1>1, <1>2 DEF VInv, RowsInv, LatestIsCurrent, Canonical, OneCurrentEvidence,
     CancelledStaysGone, LostForAReason, Tombstoned, Overtaken
<1>5. RowInFeed' /\ RowIsActive' /\ RetiredByPoll' /\ OthersForward'
  BY <1>1 DEF VInv, RowsInv, RowInFeed, RowIsActive, RetiredByPoll, OthersForward
<1> QED
  BY <1>3, <1>4, <1>5 DEF RowsInv

\* A promoted message is the first of its adapter and name, is not cancelled, and is newer
\* than every empty poll; what it refers to goes.
LEMMA PromoteRows ==
  ASSUME VInv, NEW w \in Workers, Promote(w)
  PROVE  RowsInv'
<1> DEFINE i == cur[w]
           a == staging[i].adapter
           m == i[2]
           s == <<a, m>>
           new == Evidence(i, "current")
           row == [gen |-> staging[i].gen, raw |-> staging[i].raw, ev |-> i]
           gone(t) == /\ m \notin Alerts /\ t[2] \in Refs[m]
                      /\ latest[t] # None /\ latest[t].gen <= staging[i].gen
<1>1. /\ pc[w] = "write" /\ verdict[w] = "current" /\ row # None
      /\ evidence' = evidence \cup {new}
      /\ \A t \in Slots : t # s => latest'[t] = IF gone(t) THEN None ELSE latest[t]
      /\ ~gone(s)
      /\ latest'[s] = IF m \in Active /\ latest[s] = None THEN row ELSE latest[s]
  BY PromoteFacts DEF VInv
<1>2. UNCHANGED <<staging, jobs, retired>>
  BY DEF Promote, EndRow, sources
<1>3. /\ i \in Ids /\ m \in Messages /\ s \in Slots /\ a \in Adapters /\ staging[i] # None
      /\ staging[i].gen \in Gens /\ m \in staging[i].raw.msgs
  BY <1>1, CurFacts DEF VInv
<1>4. /\ new.scope = "current" /\ new.id = i /\ new.msg = m /\ new.adapter = a
      /\ new.gen = staging[i].gen
  BY DEF Evidence
<1>5. /\ row.gen = staging[i].gen /\ row.ev = i /\ row.raw = staging[i].raw
  OBVIOUS
<1>6. /\ Canonical(a, m) = {}
      /\ m \in Active => ~Tombstoned(m) /\ ~BlockedByEmpty(a, staging[i].gen)
  BY <1>1 DEF VInv, VerdictFresh, Fresh
<1>7. latest[s] = None
  BY <1>3, <1>6 DEF VInv, RowsInv, LatestIsCurrent
<1> HIDE DEF new, row
<1>8. \A t \in Slots : latest'[t] # None =>
        \/ t = s /\ m \in Active /\ latest'[t] = row
        \/ t # s /\ ~gone(t) /\ latest'[t] = latest[t]
  BY <1>1, <1>3, <1>7
<1>9. EvidenceOfStaging'
  BY <1>1, <1>2, <1>3, <1>4 DEF VInv, RowsInv, EvidenceOfStaging
<1>10. LatestIsCurrent'
  BY <1>1, <1>4, <1>5, <1>8 DEF VInv, RowsInv, LatestIsCurrent, Canonical
<1>11. OneCurrentEvidence'
  BY <1>1, <1>4, <1>6 DEF VInv, RowsInv, OneCurrentEvidence, Canonical
<1>12. RowInFeed' /\ RowIsActive' /\ RetiredByPoll'
  BY <1>2, <1>3, <1>5, <1>8 DEF VInv, RowsInv, RowInFeed, RowIsActive, RetiredByPoll
<1>13. OthersForward'
  <2> SUFFICES ASSUME NEW t \in Slots, latest'[t] # None, t[1] \notin Snapshot
               PROVE  latest'[t].gen > retired[t[1]]
    BY <1>2 DEF OthersForward
  <2>1. CASE t # s
    BY <1>8, <2>1 DEF VInv, RowsInv, OthersForward
  <2>2. CASE t = s
    <3>1. latest'[t].gen = staging[i].gen /\ m \in Active /\ t[1] = a
      BY <1>5, <1>8, <2>2
    <3>2. retired[a] \in Nat /\ staging[i].gen \in Nat /\ staging[i].gen > 0
      BY <1>3 DEF VInv, TInv, TypeOK, TablesTyped, Gens
    <3>3. CASE retired[a] = 0
      BY <3>1, <3>2, <3>3
    <3>4. CASE retired[a] # 0
      <4>1. PICK j \in jobs : j.adapter = a /\ j.kind = "empty" /\ j.gen = retired[a]
        BY <1>3, <3>4 DEF VInv, RowsInv, RetiredByPoll
      <4>2. ~(staging[i].gen <= j.gen)
        BY <1>6, <3>1, <4>1 DEF BlockedByEmpty
      <4> QED
        BY <3>1, <3>2, <4>1, <4>2
    <3> QED
      BY <3>3, <3>4
  <2> QED
    BY <2>1, <2>2
<1>14. CancelledStaysGone'
  <2> SUFFICES ASSUME NEW e \in evidence', e.scope = "current", e.msg \notin Alerts,
                      NEW b \in Adapters, NEW n \in Refs[e.msg], latest'[<<b, n>>] # None
               PROVE  latest'[<<b, n>>].gen > e.gen
    BY DEF CancelledStaysGone
  <2>1. <<b, n>> \in Slots
    <3>1. e.msg \in Messages
      BY <1>1, <1>3, <1>4 DEF VInv, TInv, TypeOK, TablesTyped, EvidenceRows
    <3> QED
      BY <3>1, MessagesAssumption DEF Slots, Messages
  <2>2. CASE e \in evidence
    <3>1. n = m => m \notin Active
      BY <1>6, <2>2 DEF Tombstoned
    <3>2. latest'[<<b, n>>] = latest[<<b, n>>]
      BY <1>8, <2>1, <3>1
    <3> QED
      BY <2>2, <3>2 DEF VInv, RowsInv, CancelledStaysGone
  <2>3. CASE e = new
    <3>1. e.msg = m /\ e.gen = staging[i].gen /\ n # m
      BY <1>3, <1>4, <2>3, MessagesAssumption DEF Messages
    <3>2. /\ latest'[<<b, n>>] = latest[<<b, n>>] /\ ~(latest[<<b, n>>].gen <= staging[i].gen)
          /\ latest[<<b, n>>] # None
      BY <1>8, <2>1, <3>1
    <3>3. latest[<<b, n>>].gen \in Nat /\ staging[i].gen \in Nat
      BY <1>3, <2>1, <3>2 DEF VInv, TInv, TypeOK, TablesTyped, LatestRows, Gens
    <3> QED
      BY <3>1, <3>2, <3>3
  <2> QED
    BY <1>1, <2>2, <2>3
<1>15. LostForAReason'
  <2> SUFFICES ASSUME NEW e \in evidence', e.scope = "current", e.msg \in Active
               PROVE  (\/ latest[<<e.adapter, e.msg>>] # None /\ latest[<<e.adapter, e.msg>>].gen >= e.gen
                       \/ latest[<<e.adapter, e.msg>>] = None /\ Tombstoned(e.msg)
                       \/ Overtaken(e))'
    BY DEF LostForAReason
  <2>1. CASE e \in evidence
    <3> DEFINE t == <<e.adapter, e.msg>>
    <3>1. t \in Slots
      BY <2>1 DEF VInv, TInv, TypeOK, TablesTyped, EvidenceRows, Slots
    <3>2. CASE Overtaken(e)
      BY <1>2, <3>2 DEF Overtaken
    <3>3. CASE latest[t] = None /\ Tombstoned(e.msg)
      <4>1. Tombstoned(e.msg)'
        BY <1>1, <3>3 DEF Tombstoned
      <4>2. latest'[t] = None
        BY <1>6, <1>8, <3>1, <3>3
      <4> QED
        BY <4>1, <4>2
    <3>4. CASE latest[t] # None /\ latest[t].gen >= e.gen
      <4>1. t # s
        BY <1>7, <3>4
      <4>2. CASE ~gone(t)
        BY <1>1, <3>1, <3>4, <4>1, <4>2
      <4>3. CASE gone(t)
        BY <1>1, <1>4, <3>1, <4>1, <4>3 DEF Tombstoned
      <4> QED
        BY <4>2, <4>3
    <3> QED
      BY <2>1, <3>2, <3>3, <3>4 DEF VInv, RowsInv, LostForAReason
  <2>2. CASE e = new
    <3>1. latest'[s] = row /\ staging[i].gen \in Nat
      BY <1>1, <1>3, <1>4, <1>7, <2>2 DEF Gens
    <3> QED
      BY <1>1, <1>4, <1>5, <2>2, <3>1
  <2> QED
    BY <1>1, <2>1, <2>2
<1> QED
  BY <1>9, <1>10, <1>11, <1>12, <1>13, <1>14, <1>15 DEF RowsInv

-----------------------------------------------------------------------------
\* Locks and verdicts.

\* A worker's verdict stays fresh through a step of another one that adds no evidence of
\* its message or that refers to it, and no empty poll of its adapter.
LEMMA FreshKept ==
  ASSUME TInv, StagingKept, NEW v \in Workers, Fresh(v),
         pc'[v] = pc[v], cur'[v] = cur[v], verdict'[v] = verdict[v],
         pc[v] = "write" =>
           /\ \A e \in evidence' : (e \notin evidence /\ e.scope = "current") =>
                /\ ~(e.adapter = cycle[v].adapter /\ e.msg = cur[v][2])
                /\ ~(cur[v][2] \in Active /\ e.msg \notin Alerts /\ cur[v][2] \in Refs[e.msg])
           /\ \A j \in jobs' : (j \notin jobs /\ j.kind = "empty") => j.adapter # cycle[v].adapter
  PROVE  Fresh(v)'
<1> SUFFICES ASSUME pc'[v] = "write"
             PROVE  Fresh(v)'
  BY DEF Fresh
<1> DEFINE i == cur[v]
           a == cycle[v].adapter
<1>1. /\ pc[v] = "write" /\ i \in Ids /\ staging[i] # None /\ staging[i].adapter = a
      /\ staging'[i].adapter = a /\ staging'[i].gen = staging[i].gen
  BY CurFacts DEF StagingKept
<1>2. verdict[v] = "current" =>
        \A e \in evidence' : ~(e.scope = "current" /\ e.adapter = a /\ e.msg = i[2])
  BY <1>1 DEF Fresh, Canonical
<1>3. (verdict[v] \in {"current", "idempotent_existing_cap_message"} /\ i[2] \in Active) =>
        \A e \in evidence' : ~(e.scope = "current" /\ e.msg \notin Alerts /\ i[2] \in Refs[e.msg])
  BY <1>1 DEF Fresh, Tombstoned
<1>4. (verdict[v] = "current" /\ i[2] \in Active) =>
        \A j \in jobs' : ~(j.adapter = a /\ j.kind = "empty" /\ staging[i].gen <= j.gen)
  BY <1>1 DEF Fresh, BlockedByEmpty
<1> QED
  BY <1>1, <1>2, <1>3, <1>4 DEF Fresh, Canonical, Tombstoned, BlockedByEmpty

\* Two transactions of the same adapter, or about the same origin, cannot both be open.
LEMMA TransactionsApart ==
  ASSUME TInv, Apart, NEW v \in Workers, NEW w \in Workers, v # w, pc[v] = "write", pc[w] = "write"
  PROVE  /\ cycle[v].adapter # cycle[w].adapter
         /\ (cur[v][2] \in Active /\ cur[w][2] \notin Alerts) => cur[v][2] \notin Refs[cur[w][2]]
<1>1. held[v] \cap held[w] = {}
  BY DEF Apart
<1>2. /\ LifecycleLock(cycle[v].adapter) \in held[v] /\ OriginLocks(cur[v][2]) \subseteq held[v]
      /\ LifecycleLock(cycle[w].adapter) \in held[w] /\ OriginLocks(cur[w][2]) \subseteq held[w]
  BY CurFacts
<1>3. ASSUME cur[v][2] \in Active, cur[w][2] \notin Alerts, cur[v][2] \in Refs[cur[w][2]]
      PROVE  FALSE
  <2>1. <<"origin", cur[v][2]>> \in OriginLocks(cur[v][2])
    BY <1>3 DEF OriginLocks
  <2>2. <<"origin", cur[v][2]>> \in OriginLocks(cur[w][2])
    BY <1>3 DEF OriginLocks
  <2> QED
    BY <1>1, <1>2, <2>1, <2>2
<1> QED
  BY <1>1, <1>2, <1>3

\* What holds of the transactions: the rest of the inductive invariant.
WorkInv == Apart /\ VerdictFresh /\ RetiringRecorded

\* Steps that change no verdict and no lock but to let it go.
LEMMA LettingGo ==
  ASSUME TInv, WorkInv, Kept, NEW w \in Workers,
         \A v \in Workers : v # w =>
           /\ pc'[v] = pc[v] /\ cur'[v] = cur[v] /\ verdict'[v] = verdict[v]
           /\ held'[v] = held[v] /\ cycle'[v] = cycle[v],
         held'[w] \subseteq held[w], pc'[w] \notin {"write", "retire"},
         jobs \subseteq jobs',
         \A v \in Workers : (v # w /\ pc[v] = "write") =>
           /\ \A e \in evidence' : (e \notin evidence /\ e.scope = "current") =>
                /\ ~(e.adapter = cycle[v].adapter /\ e.msg = cur[v][2])
                /\ ~(cur[v][2] \in Active /\ e.msg \notin Alerts /\ cur[v][2] \in Refs[e.msg])
           /\ \A j \in jobs' : (j \notin jobs /\ j.kind = "empty") => j.adapter # cycle[v].adapter
  PROVE  WorkInv'
<1>1. Apart'
  BY DEF WorkInv, Apart
<1>2. VerdictFresh'
  <2> SUFFICES ASSUME NEW v \in Workers
               PROVE  Fresh(v)'
    BY DEF VerdictFresh
  <2>1. CASE v = w
    BY <2>1 DEF Fresh
  <2>2. CASE v # w
    BY <2>2, FreshKept DEF Kept, WorkInv, VerdictFresh
  <2> QED
    BY <2>1, <2>2
<1>3. RetiringRecorded'
  BY DEF WorkInv, RetiringRecorded
<1> QED
  BY <1>1, <1>2, <1>3 DEF WorkInv

\* A row's end leaves the other workers' decisions true: the locks it held are disjoint from
\* theirs wherever a decision depends on them.
LEMMA RowEndsWork ==
  ASSUME TInv, WorkInv, NEW w \in Workers,
         \/ SkipRow(w) \/ RejectRow(w) \/ RejectExisting(w) \/ LoseInsert(w)
         \/ KeepHistorical(w) \/ Promote(w)
  PROVE  WorkInv'
<1>1. EndRow(w) /\ pc[w] = "write" /\ jobs' = jobs /\ Kept
  BY QuietRowKept, RejectExistingKept, KeepHistoricalKept, PromoteKept
     DEF SkipRow, RejectRow, RejectExisting, LoseInsert, KeepHistorical, Promote, EndRow, sources
<1>2. /\ \A v \in Workers : v # w =>
           /\ pc'[v] = pc[v] /\ cur'[v] = cur[v] /\ verdict'[v] = verdict[v]
           /\ held'[v] = held[v] /\ cycle'[v] = cycle[v]
      /\ held'[w] \subseteq held[w] /\ pc'[w] = "rows"
  BY <1>1 DEF EndRow, Goto, TInv, TypeOK, WorkTyped
<1>3. \A e \in evidence' : (e \notin evidence /\ e.scope = "current") =>
        e.adapter = cycle[w].adapter /\ e.msg = cur[w][2]
  <2>1. CASE SkipRow(w) \/ RejectRow(w) \/ RejectExisting(w) \/ LoseInsert(w)
    BY <2>1 DEF SkipRow, RejectRow, RejectExisting, LoseInsert, tables
  <2>2. CASE KeepHistorical(w) \/ Promote(w)
    <3>1. PICK scope \in {"current", "historical"} :
            evidence' = evidence \cup {Evidence(cur[w], scope)}
      BY <2>2 DEF KeepHistorical, Promote
    <3>2. /\ Evidence(cur[w], scope).adapter = staging[cur[w]].adapter
          /\ Evidence(cur[w], scope).msg = cur[w][2]
      BY DEF Evidence
    <3> QED
      BY <1>1, <3>1, <3>2, CurFacts
  <2> QED
    BY <2>1, <2>2
<1>4. ASSUME NEW v \in Workers, v # w, pc[v] = "write",
             NEW e \in evidence', e \notin evidence, e.scope = "current"
      PROVE  /\ ~(e.adapter = cycle[v].adapter /\ e.msg = cur[v][2])
             /\ ~(cur[v][2] \in Active /\ e.msg \notin Alerts /\ cur[v][2] \in Refs[e.msg])
  BY <1>1, <1>3, <1>4, TransactionsApart DEF WorkInv
<1> QED
  BY <1>1, <1>2, <1>4, LettingGo

\* So do the steps outside a row's transaction.
LEMMA OtherStepsWork ==
  ASSUME TInv, WorkInv, NEW w \in Workers,
         \/ StartPoll(w) \/ StageFeed(w) \/ PollFails(w) \/ Retire(w) \/ FetchCandidates(w)
         \/ Finish(w) \/ RetryPromotion(w) \/ GiveUp(w) \/ Crash(w)
  PROVE  WorkInv'
<1>1. Kept
  BY StartPollKept, StageFeedKept, CycleEndKept, RetireKept, FetchKept, RetryKept
<1>2. /\ \A v \in Workers : v # w =>
           /\ pc'[v] = pc[v] /\ cur'[v] = cur[v] /\ verdict'[v] = verdict[v]
           /\ held'[v] = held[v] /\ cycle'[v] = cycle[v]
      /\ held'[w] \subseteq held[w] /\ pc'[w] \notin {"write", "retire"}
  <2>1. CASE StartPoll(w)
    BY <2>1 DEF StartPoll, Goto, work, TInv, TypeOK, WorkTyped
  <2>2. CASE StageFeed(w)
    BY <2>2 DEF StageFeed, Goto, work, TInv, TypeOK, WorkTyped
  <2>3. CASE PollFails(w) \/ Finish(w) \/ GiveUp(w) \/ Crash(w)
    <3>1. EndCycle(w)
      BY <2>3, CycleEndKept
    <3> QED
      BY <3>1 DEF EndCycle, Goto, TInv, TypeOK, WorkTyped
  <2>4. CASE Retire(w)
    BY <2>4 DEF Retire, Goto, work, TInv, TypeOK, WorkTyped
  <2>5. CASE FetchCandidates(w)
    BY <2>5 DEF FetchCandidates, Goto, TInv, TypeOK, WorkTyped
  <2>6. CASE RetryPromotion(w)
    BY <2>6 DEF RetryPromotion, Goto, TInv, TypeOK, WorkTyped
  <2> QED
    BY <2>1, <2>2, <2>3, <2>4, <2>5, <2>6
<1>3. evidence' = evidence /\ jobs \subseteq jobs' /\ \A j \in jobs' : j \in jobs \/ j.kind = "failed"
  BY DEF StartPoll, StageFeed, PollFails, Retire, FetchCandidates, Finish, RetryPromotion, GiveUp,
     Crash, tables, sources
<1> QED
  BY <1>1, <1>2, <1>3, LettingGo

\* A poll without an active event is recorded while no transaction of its adapter is open.
LEMMA WriteSummaryWork ==
  ASSUME TInv, WorkInv, NEW w \in Workers, WriteSummary(w)
  PROVE  WorkInv'
<1> DEFINE a == cycle[w].adapter
           kind == Kind(a, cycle[w].feed)
           job == [adapter |-> a, gen |-> cycle[w].gen, kind |-> kind]
<1>1. /\ pc[w] = "summary" /\ jobs' = jobs \cup {job}
      /\ kind # "active" => Free(w, {LifecycleLock(a)})
      /\ pc' = [pc EXCEPT ![w] = IF kind = "active" THEN "promote" ELSE "retire"]
      /\ UNCHANGED <<staging, evidence, cycle, work>>
  BY DEF WriteSummary, Goto, tables
<1>2. Kept
  BY WriteSummaryKept
<1>3. /\ kind \in {"empty", "cancel_only", "active"}
      /\ (kind # "active" /\ cycle[w].feed.msgs = {}) => kind = "empty"
  BY DEF Kind
<1>4. /\ \A v \in Workers : v # w => pc'[v] = pc[v]
      /\ pc'[w] = IF kind = "active" THEN "promote" ELSE "retire"
  BY <1>1 DEF TInv, TypeOK, WorkTyped
<1>5. Apart'
  BY <1>1 DEF work, WorkInv, Apart
<1>6. VerdictFresh'
  <2> SUFFICES ASSUME NEW v \in Workers
               PROVE  Fresh(v)'
    BY DEF VerdictFresh
  <2>1. CASE v = w
    BY <1>4, <2>1 DEF Fresh
  <2>2. CASE v # w
    <3>1. ASSUME pc[v] = "write", kind = "empty"
          PROVE  a # cycle[v].adapter
      <4>1. LifecycleLock(cycle[v].adapter) \in held[v]
        BY <3>1, CurFacts
      <4>2. LifecycleLock(a) \notin held[v]
        BY <1>1, <2>2, <3>1 DEF Free
      <4> QED
        BY <4>1, <4>2
    <3> QED
      BY <1>1, <1>2, <1>4, <2>2, <3>1, FreshKept DEF work, Kept, WorkInv, VerdictFresh
  <2> QED
    BY <2>1, <2>2
<1>7. RetiringRecorded'
  <2> SUFFICES ASSUME NEW v \in Workers, pc'[v] = "retire"
               PROVE  \E j \in jobs' :
                        /\ j.adapter = cycle[v].adapter /\ j.gen = cycle[v].gen
                        /\ j.kind \in {"empty", "cancel_only"}
                        /\ cycle[v].feed.msgs = {} => j.kind = "empty"
    BY <1>1 DEF RetiringRecorded
  <2>1. CASE v = w
    <3>1. kind \in {"empty", "cancel_only"} /\ (cycle[w].feed.msgs = {} => kind = "empty")
      BY <1>3, <1>4, <2>1
    <3>2. job \in jobs' /\ job.adapter = a /\ job.gen = cycle[w].gen /\ job.kind = kind
      BY <1>1
    <3> HIDE DEF kind, job
    <3> QED
      BY <2>1, <3>1, <3>2
  <2>2. CASE v # w
    BY <1>1, <1>4, <2>2 DEF WorkInv, RetiringRecorded
  <2> QED
    BY <2>1, <2>2
<1> QED
  BY <1>5, <1>6, <1>7 DEF WorkInv

\* Decide takes locks that are free and reads what it decides from under them.
LEMMA DecideWork ==
  ASSUME TInv, WorkInv, NEW w \in Workers, Decide(w)
  PROVE  WorkInv'
<1>1. PICK i \in todo[w] :
        LET locks == {LifecycleLock(cycle[w].adapter)} \cup OriginLocks(i[2]) IN
        /\ i \in Ids /\ Free(w, locks)
        /\ pc[w] = "rows" /\ pc'[w] = "write" /\ cur'[w] = i /\ verdict'[w] = Verdict(i)
        /\ held'[w] = locks
        /\ \A v \in Workers : v # w =>
             pc'[v] = pc[v] /\ cur'[v] = cur[v] /\ verdict'[v] = verdict[v] /\ held'[v] = held[v]
  BY DecideFacts
<1>2. Kept /\ UNCHANGED <<staging, evidence, jobs, cycle>>
  BY DecideKept DEF Decide, tables, sources
<1>3. Apart'
  BY <1>1 DEF WorkInv, Apart, Free
<1>4. VerdictFresh'
  <2> SUFFICES ASSUME NEW v \in Workers
               PROVE  Fresh(v)'
    BY DEF VerdictFresh
  <2>1. CASE v = w
    <3>1. Verdict(i) = "current" => Canonical(staging[i].adapter, i[2]) = {}
      BY DEF Verdict
    <3>2. (Verdict(i) \in {"current", "idempotent_existing_cap_message"} /\ i[2] \in Active) =>
            ~Tombstoned(i[2])
      BY DEF Verdict
    <3>3. (Verdict(i) = "current" /\ i[2] \in Active) =>
            ~BlockedByEmpty(staging[i].adapter, staging[i].gen)
      BY DEF Verdict
    <3> HIDE DEF Verdict
    <3> QED
      BY <1>1, <1>2, <2>1, <3>1, <3>2, <3>3 DEF Fresh, Canonical, Tombstoned, BlockedByEmpty
  <2>2. CASE v # w
    BY <1>1, <1>2, <2>2, FreshKept DEF Kept, WorkInv, VerdictFresh
  <2> QED
    BY <2>1, <2>2
<1>5. RetiringRecorded'
  BY <1>1, <1>2 DEF WorkInv, RetiringRecorded
<1> QED
  BY <1>3, <1>4, <1>5 DEF WorkInv

\* The invariant of the warning lifecycle is inductive.
LEMMA NextVInv == VInv /\ [Next]_vars => VInv'
<1> SUFFICES ASSUME VInv, [Next]_vars
             PROVE  VInv'
  OBVIOUS
<1> USE DEF WorkInv
<1>1. TInv' /\ StagingKept
  BY NextTInv DEF VInv, Kept
<1>2. ASSUME NEW w \in Workers,
             \/ StartPoll(w) \/ StageFeed(w) \/ PollFails(w) \/ WriteSummary(w) \/ FetchCandidates(w)
             \/ Decide(w) \/ SkipRow(w) \/ RejectRow(w) \/ LoseInsert(w) \/ Finish(w)
             \/ RetryPromotion(w) \/ GiveUp(w) \/ Crash(w)
      PROVE  RowsInv'
  BY <1>2, QuietTables DEF VInv
<1>3. ASSUME NEW w \in Workers, Retire(w) \/ RejectExisting(w) \/ KeepHistorical(w) \/ Promote(w)
      PROVE  RowsInv'
  BY <1>3, RetireRows, RestoreRows, HistoricalRows, PromoteRows
<1>4. ASSUME NEW w \in Workers,
             \/ SkipRow(w) \/ RejectRow(w) \/ RejectExisting(w) \/ LoseInsert(w)
             \/ KeepHistorical(w) \/ Promote(w)
      PROVE  WorkInv'
  BY <1>4, RowEndsWork DEF VInv
<1>5. ASSUME NEW w \in Workers,
             \/ StartPoll(w) \/ StageFeed(w) \/ PollFails(w) \/ Retire(w) \/ FetchCandidates(w)
             \/ Finish(w) \/ RetryPromotion(w) \/ GiveUp(w) \/ Crash(w)
      PROVE  WorkInv'
  BY <1>5, OtherStepsWork DEF VInv
<1>6. ASSUME NEW w \in Workers, WriteSummary(w) \/ Decide(w)
      PROVE  WorkInv'
  BY <1>6, WriteSummaryWork, DecideWork DEF VInv
<1>7. CASE Expire \/ UNCHANGED vars
  <2>1. UNCHANGED <<staging, evidence, latest, jobs, retired, pc, cycle, cur, verdict, held>>
    BY <1>7 DEF Expire, vars, tables, sources, work
  <2>2. RowsInv'
    BY <1>1, <2>1, SameTables DEF VInv
  <2>3. WorkInv'
    BY <2>1 DEF VInv, Apart, VerdictFresh, Fresh, Canonical, Tombstoned, BlockedByEmpty,
       RetiringRecorded
  <2> QED
    BY <1>1, <2>2, <2>3 DEF VInv
<1> HIDE DEF WorkInv
<1>8. WorkInv' /\ RowsInv' /\ TInv' => VInv'
  BY DEF VInv, WorkInv
<1> QED
  BY NextCases, <1>1, <1>2, <1>3, <1>4, <1>5, <1>6, <1>7, <1>8

\* The empty database satisfies it.
LEMMA InitVInv == Init => VInv
<1> SUFFICES ASSUME Init
             PROVE  VInv
  OBVIOUS
<1>1. RowsInv
  BY DEF Init, RowsInv, EvidenceOfStaging, LatestIsCurrent, OneCurrentEvidence, CancelledStaysGone,
     RowInFeed, RowIsActive, RetiredByPoll, OthersForward, LostForAReason
<1>2. Apart /\ VerdictFresh /\ RetiringRecorded
  BY DEF Init, Apart, VerdictFresh, Fresh, RetiringRecorded
<1> QED
  BY <1>1, <1>2, InitTInv DEF VInv

\* So it holds in every state of every run.
LEMMA AlwaysVInv == Spec => []VInv
BY InitVInv, NextVInv, PTL DEF Spec

-----------------------------------------------------------------------------
\* What a warning's transaction decided from the tables under its locks is still so when it
\* writes, whatever other cycles of either adapter commit in between
\* (_lock_realtime_decision, _cap_origin_lock_keys).
THEOREM WarningDecisionsStayFresh == Spec => []VerdictFresh
<1>1. VInv => VerdictFresh
  BY DEF VInv
<1> QED
  BY <1>1, AlwaysVInv, PTL

\* A message referred to by a current Update or Cancel has no row of its generation or an
\* earlier one, in either adapter's slot (_retire_cap_references, _cap_rejection_reason).
THEOREM CancelledWarningsStayGone == Spec => []CancelledStaysGone
<1>1. VInv => CancelledStaysGone
  BY DEF VInv, RowsInv
<1> QED
  BY <1>1, AlwaysVInv, PTL

\* A message of an adapter never becomes current evidence twice
\* (_canonical_cap_message_evidence_id under the adapter's lock).
THEOREM EvidenceIsUnique == Spec => []OneCurrentEvidence
<1>1. VInv => OneCurrentEvidence
  BY DEF VInv, RowsInv
<1> QED
  BY <1>1, AlwaysVInv, PTL

\* Every latest row of a warning is backed by the current evidence of its own message,
\* restored rows included (_upsert_official_realtime_latest).
THEOREM LatestHasEvidence == Spec => []LatestIsCurrent
<1>1. VInv => LatestIsCurrent
  BY DEF VInv, RowsInv
<1> QED
  BY <1>1, AlwaysVInv, PTL

\* A complete-snapshot adapter's warning is shown only while the active snapshot has it
\* (the marker condition of the realtime query).
THEOREM DroppedWarningsAreHidden == Spec => []RemovedHidden
<1>1. VInv => RemovedHidden
  <2> SUFFICES ASSUME VInv, NEW a \in Snapshot, NEW m \in Messages, Visible(a, m)
               PROVE  active[a] # None /\ m \in active[a].msgs
    BY DEF RemovedHidden
  <2>1. latest[<<a, m>>] # None /\ latest[<<a, m>>].raw = active[a]
    BY DEF Visible
  <2>2. <<a, m>> \in Slots
    BY MessagesAssumption DEF Slots
  <2>3. latest[<<a, m>>].raw \in AllFeeds /\ m \in latest[<<a, m>>].raw.msgs
    BY <2>1, <2>2 DEF VInv, TInv, TypeOK, TablesTyped, LatestRows, RowsInv, RowInFeed
  <2> QED
    BY <2>1, <2>3, NoneAssumption
<1> QED
  BY <1>1, AlwaysVInv, PTL

\* No warning at or below the generation of an empty poll stays or comes back, but for rows
\* a complete-snapshot adapter restores, which the reader hides: a row it shows is at least
\* as new as its evidence, and its evidence is newer than every empty poll
\* (retire_warning_latest_for_no_active_event, _max_successful_no_active_event_generation).
THEOREM EmptyPollsWin == Spec => []NewerEmptyWins
<1>1. VInv => NewerEmptyWins
  <2> SUFFICES ASSUME VInv, NEW s \in Slots, latest[s] # None, latest[s].gen <= retired[s[1]]
               PROVE  s[1] \in Snapshot /\ ~Visible(s[1], s[2])
    BY DEF NewerEmptyWins
  <2> DEFINE a == s[1]
             m == s[2]
  <2>1. a \in Adapters /\ m \in Messages /\ s = <<a, m>>
    BY DEF Slots
  <2>2. latest[s].gen \in Nat /\ latest[s].gen > 0 /\ retired[a] \in Nat
    BY <2>1 DEF VInv, TInv, TypeOK, TablesTyped, LatestRows, Gens
  <2>3. a \in Snapshot
    BY <2>2 DEF VInv, RowsInv, OthersForward
  <2>4. PICK j \in jobs : j.adapter = a /\ j.kind = "empty" /\ j.gen = retired[a]
    BY <2>1, <2>2 DEF VInv, RowsInv, RetiredByPoll
  <2>5. ASSUME Visible(a, m)
        PROVE  FALSE
    <3>1. PICK e \in evidence :
            /\ e.id = latest[s].ev /\ e.scope = "current"
            /\ ~\E k \in jobs : k.adapter = a /\ k.kind \in {"empty", "cancel_only"} /\ k.gen >= e.gen
      BY <2>1, <2>5 DEF Visible
    <3>2. PICK d \in Canonical(a, m) : d.id = latest[s].ev
      BY <2>1 DEF VInv, RowsInv, LatestIsCurrent
    <3>3. e.adapter = a /\ e.msg = m /\ e.gen \in Nat
      BY <3>1, <3>2 DEF VInv, RowsInv, EvidenceOfStaging, Canonical, TInv, TypeOK, TablesTyped,
         EvidenceRows, Gens
    <3>4. ~(j.gen >= e.gen) /\ ~Overtaken(e)
      BY <2>4, <3>1, <3>3 DEF Overtaken
    <3>5. m \in Active
      BY DEF VInv, RowsInv, RowIsActive
    <3>6. latest[s].gen >= e.gen
      BY <2>1, <3>1, <3>3, <3>4, <3>5 DEF VInv, RowsInv, LostForAReason
    <3> QED
      BY <2>2, <2>4, <3>3, <3>4, <3>6
  <2> QED
    BY <2>3, <2>5
<1> QED
  BY <1>1, AlwaysVInv, PTL
===============================================================================
