----------------------- MODULE SchemaMigrationsProofs -----------------------
(***************************************************************************)
(* What SchemaMigrations promises, for every set of containers, every set  *)
(* of manifests and every number of starts.                                *)
(***************************************************************************)
EXTENDS SchemaMigrations, WellFoundedInduction, TLAPS

Inside == {"reading", "migrating", "recording"}

MigrationsTypeOK ==
  /\ stage \in [Containers -> {"down", "waiting", "reading", "migrating", "recording", "serving"}]
  /\ known \in [Containers -> SUBSET Versions]
  /\ session \in Containers \cup {NoContainer}
  /\ recorded \in [Versions -> MigrationFiles \cup {NoFile}]
  /\ applied \in [MigrationFiles -> Nat]
  /\ starts \in Nat

\* A container is between its first look at the records and its end only with the lock.
LockHeld == \A c \in Containers : stage[c] \in Inside => session = c

\* With the lock held nobody else writes: what the holder found or wrote is what is there.
RecordsKnown ==
  \A c \in Containers : stage[c] \in {"migrating", "recording"} =>
    /\ known[c] = RecordedVersions
    /\ ~Drifted(c)
    /\ stage[c] = "recording" =>
         /\ LeftToApply(c) # {}
         /\ Manifest[c][UpcomingVersion(c)] \in OwnCommit =>
              applied[Manifest[c][UpcomingVersion(c)]] > 0

\* A served image has its manifest recorded, and what is recorded has been applied.
ServedRecorded ==
  \A c \in Containers : stage[c] = "serving" =>
    \A v \in DOMAIN Manifest[c] : recorded[v] = Manifest[c][v]

\* A file is recorded under its own version, and its SQL has been committed.
FilesInPlace ==
  \A v \in Versions : recorded[v] # NoFile =>
    /\ \E c \in Containers : v \in DOMAIN Manifest[c] /\ recorded[v] = Manifest[c][v]
    /\ applied[recorded[v]] > 0

SInv ==
  /\ MigrationsTypeOK /\ LockHeld /\ RecordsKnown /\ ServedRecorded
  /\ FilesInPlace /\ AppliedWhenRecorded
-----------------------------------------------------------------------------
LEMMA ManifestShape ==
  ASSUME NEW c \in Containers
  PROVE  /\ Len(Manifest[c]) \in Nat
         /\ DOMAIN Manifest[c] = 1..Len(Manifest[c]) /\ DOMAIN Manifest[c] \subseteq Versions
         /\ \A v \in DOMAIN Manifest[c] :
              Manifest[c][v] \in MigrationFiles /\ Manifest[c][v] # NoFile
BY ManifestAssumption DEF Versions

LEMMA VersionsAreNat == Versions \subseteq Nat
BY ManifestShape DEF Versions

\* There is a next file as long as one is left.
LEMMA UpcomingIsLeft ==
  ASSUME NEW c \in Containers, LeftToApply(c) # {}
  PROVE  UpcomingVersion(c) \in LeftToApply(c)
<1>1. LeftToApply(c) \subseteq Nat
  BY ManifestShape DEF LeftToApply
<1>2. \E v \in LeftToApply(c) : \A u \in LeftToApply(c) : ~(<<u, v>> \in OpToRel(<, Nat))
  BY <1>1, NatLessThanWellFounded, WFMin
<1>3. PICK v \in LeftToApply(c) : \A u \in LeftToApply(c) : ~(<<u, v>> \in OpToRel(<, Nat))
  BY <1>2
<1>4. \A u \in LeftToApply(c) : v <= u
  <2> TAKE u \in LeftToApply(c)
  <2>1. u \in Nat /\ v \in Nat /\ ~(u < v)
    BY <1>1, <1>3, <<u, v>> \in Nat \X Nat, <<u, v>>[1] = u, <<u, v>>[2] = v DEF OpToRel
  <2> QED
    BY <2>1
<1> QED
  BY <1>4 DEF UpcomingVersion

LEMMA SInit == MigrationsInit => SInv
BY ManifestAssumption DEF MigrationsInit, SInv, MigrationsTypeOK, LockHeld, RecordsKnown,
   ServedRecorded, FilesInPlace, AppliedWhenRecorded, Inside

\* Steps that change neither the records nor what has been applied.
LEMMA SBookkeeping ==
  ASSUME SInv, NEW c \in Containers,
         StartContainer(c) \/ TakeSession(c) \/ ReadRecorded(c) \/ Serve(c) \/ EndContainer(c)
  PROVE  SInv'
<1>0. UNCHANGED <<recorded, applied>> /\ stage' = [stage EXCEPT ![c] = stage'[c]]
  BY DEF StartContainer, TakeSession, ReadRecorded, Serve, EndContainer, Move, SInv, MigrationsTypeOK
<1>1. MigrationsTypeOK'
  BY DEF SInv, MigrationsTypeOK, StartContainer, TakeSession, ReadRecorded, Serve, EndContainer,
     Move, RecordedVersions
<1>2. LockHeld'
  BY ManifestAssumption DEF SInv, MigrationsTypeOK, LockHeld, Inside, StartContainer, TakeSession,
     ReadRecorded, Serve, EndContainer, Move
<1>3. RecordsKnown'
  <2> SUFFICES ASSUME NEW d \in Containers, stage'[d] \in {"migrating", "recording"}
               PROVE  /\ known'[d] = RecordedVersions
                      /\ ~Drifted(d)
                      /\ stage'[d] = "recording" =>
                           /\ DOMAIN Manifest[d] \ known'[d] # {}
                           /\ LET v == CHOOSE v \in DOMAIN Manifest[d] \ known'[d] :
                                         \A u \in DOMAIN Manifest[d] \ known'[d] : v <= u
                              IN Manifest[d][v] \in OwnCommit => applied[Manifest[d][v]] > 0
    BY <1>0 DEF RecordsKnown, LeftToApply, UpcomingVersion, Drifted, RecordedVersions
  <2>1. CASE d = c
    BY <1>0, <2>1 DEF SInv, MigrationsTypeOK, StartContainer, TakeSession, ReadRecorded, Serve,
       EndContainer, Move
  <2>2. CASE d # c
    <3>1. stage[d] = stage'[d] /\ known[d] = known'[d]
      BY <1>0, <2>2 DEF SInv, MigrationsTypeOK, StartContainer, TakeSession, ReadRecorded, Serve,
         EndContainer
    <3> QED
      BY <3>1 DEF SInv, RecordsKnown, LeftToApply, UpcomingVersion
  <2> QED
    BY <2>1, <2>2
<1>4. ServedRecorded'
  <2> SUFFICES ASSUME NEW d \in Containers, stage'[d] = "serving", NEW v \in DOMAIN Manifest[d]
               PROVE  recorded[v] = Manifest[d][v]
    BY <1>0 DEF ServedRecorded
  <2>1. CASE stage[d] = "serving"
    BY <2>1 DEF SInv, ServedRecorded
  <2>2. CASE stage[d] # "serving"
    <3>1. d = c /\ Serve(c)
      BY <2>2 DEF SInv, MigrationsTypeOK, StartContainer, TakeSession, ReadRecorded, Serve,
         EndContainer, Move
    <3>2. v \in RecordedVersions /\ ~Drifted(d)
      BY <3>1 DEF Serve, LeftToApply, SInv, RecordsKnown
    <3> QED
      BY <3>2 DEF Drifted
  <2> QED
    BY <2>1, <2>2
<1>5. FilesInPlace' /\ AppliedWhenRecorded'
  BY <1>0 DEF SInv, FilesInPlace, AppliedWhenRecorded
<1> QED
  BY <1>1, <1>2, <1>3, <1>4, <1>5 DEF SInv

LEMMA SRunSql ==
  ASSUME SInv, NEW c \in Containers, RunSql(c)
  PROVE  SInv'
<1> DEFINE w == UpcomingVersion(c)
           f == Manifest[c][w]
<1>1. w \in LeftToApply(c) /\ w \in DOMAIN Manifest[c] /\ f \in MigrationFiles
  BY UpcomingIsLeft, ManifestShape DEF RunSql, LeftToApply
<1>2. /\ UNCHANGED <<known, session, recorded, starts>>
      /\ stage[c] = "migrating" /\ stage' = [stage EXCEPT ![c] = "recording"]
      /\ applied' = [applied EXCEPT ![f] = IF f \in OwnCommit THEN @ + 1 ELSE @]
  BY DEF RunSql, Move
<1>3. MigrationsTypeOK'
  BY <1>1, <1>2 DEF SInv, MigrationsTypeOK
<1>4. \A g \in MigrationFiles : applied'[g] >= applied[g]
  BY <1>1, <1>2 DEF SInv, MigrationsTypeOK
<1>5. LockHeld' /\ ServedRecorded'
  BY <1>2 DEF SInv, MigrationsTypeOK, LockHeld, Inside, ServedRecorded
<1>6. FilesInPlace'
  <2> SUFFICES ASSUME NEW v \in Versions, recorded[v] # NoFile
               PROVE  /\ \E d \in Containers : v \in DOMAIN Manifest[d] /\ recorded[v] = Manifest[d][v]
                      /\ applied'[recorded[v]] > 0
    BY <1>2 DEF FilesInPlace
  <2>1. recorded[v] \in MigrationFiles /\ applied[recorded[v]] > 0
    BY DEF SInv, FilesInPlace, MigrationsTypeOK
  <2> QED
    BY <1>3, <1>4, <2>1 DEF SInv, FilesInPlace, MigrationsTypeOK
<1>7. AppliedWhenRecorded'
  BY <1>1, <1>2 DEF SInv, AppliedWhenRecorded, MigrationsTypeOK
<1>8. f \in OwnCommit => applied'[f] > 0
  BY <1>1, <1>2 DEF SInv, MigrationsTypeOK
<1>9. RecordsKnown'
  <2>0. \A d \in Containers :
          /\ Drifted(d)' = Drifted(d) /\ RecordedVersions' = RecordedVersions
          /\ LeftToApply(d)' = LeftToApply(d) /\ UpcomingVersion(d)' = UpcomingVersion(d)
    BY <1>2 DEF LeftToApply, UpcomingVersion, Drifted, RecordedVersions
  <2> SUFFICES ASSUME NEW d \in Containers, stage'[d] \in {"migrating", "recording"}
               PROVE  /\ known[d] = RecordedVersions
                      /\ ~Drifted(d)
                      /\ LeftToApply(d) # {}
                      /\ Manifest[d][UpcomingVersion(d)] \in OwnCommit =>
                           applied'[Manifest[d][UpcomingVersion(d)]] > 0
    BY <1>2, <2>0 DEF RecordsKnown
  <2>1. d = c
    BY <1>2 DEF SInv, MigrationsTypeOK, LockHeld, Inside
  <2> QED
    BY <1>2, <1>8, <2>1 DEF SInv, RecordsKnown, RunSql
<1> QED
  BY <1>3, <1>5, <1>6, <1>7, <1>9 DEF SInv

LEMMA SRecordFile ==
  ASSUME SInv, NEW c \in Containers, RecordFile(c)
  PROVE  SInv'
<1> DEFINE w == UpcomingVersion(c)
           f == Manifest[c][w]
<1>1. /\ stage[c] = "recording" /\ known[c] = RecordedVersions /\ ~Drifted(c)
      /\ LeftToApply(c) # {} /\ (f \in OwnCommit => applied[f] > 0)
  BY DEF RecordFile, SInv, RecordsKnown
<1>2. w \in LeftToApply(c) /\ w \in DOMAIN Manifest[c] /\ w \in Versions
      /\ f \in MigrationFiles /\ f # NoFile
  BY <1>1, UpcomingIsLeft, ManifestShape DEF LeftToApply
<1>3. /\ recorded[w] = NoFile /\ recorded' = [recorded EXCEPT ![w] = f]
      /\ applied' = [applied EXCEPT ![f] = IF f \in OwnCommit THEN @ ELSE @ + 1]
      /\ known' = [known EXCEPT ![c] = @ \cup {w}]
      /\ stage' = [stage EXCEPT ![c] = "migrating"] /\ UNCHANGED <<session, starts>>
  BY DEF RecordFile, Move
<1>4. MigrationsTypeOK'
  BY <1>2, <1>3 DEF SInv, MigrationsTypeOK
<1>5. LockHeld'
  BY <1>1, <1>3 DEF SInv, MigrationsTypeOK, LockHeld, Inside
<1>6. RecordedVersions' = RecordedVersions \cup {w}
  BY <1>2, <1>3 DEF SInv, MigrationsTypeOK, RecordedVersions
<1>7. RecordsKnown'
  <2> SUFFICES ASSUME NEW d \in Containers, stage'[d] \in {"migrating", "recording"}
               PROVE  known'[d] = RecordedVersions' /\ ~Drifted(d)' /\ stage'[d] # "recording"
    BY DEF RecordsKnown
  <2>1. d = c
    BY <1>1, <1>3 DEF SInv, MigrationsTypeOK, LockHeld, Inside
  <2>2. ~Drifted(c)'
    BY <1>1, <1>2, <1>3, <1>6 DEF Drifted, SInv, MigrationsTypeOK, RecordedVersions
  <2> QED
    BY <1>1, <1>3, <1>6, <2>1, <2>2 DEF SInv, MigrationsTypeOK
<1>8. ServedRecorded'
  BY <1>2, <1>3, ManifestShape DEF SInv, MigrationsTypeOK, ServedRecorded
<1>9. applied'[f] > 0 /\ \A g \in MigrationFiles : applied[g] > 0 => applied'[g] > 0
  BY <1>1, <1>2, <1>3 DEF SInv, MigrationsTypeOK
<1>10. FilesInPlace'
  BY <1>2, <1>3, <1>9 DEF SInv, MigrationsTypeOK, FilesInPlace
<1>11. \A v \in Versions : recorded[v] # f
  <2> SUFFICES ASSUME NEW v \in Versions, recorded[v] = f
               PROVE  FALSE
    OBVIOUS
  <2>1. PICK d \in Containers : v \in DOMAIN Manifest[d] /\ f = Manifest[d][v]
    BY <1>2 DEF SInv, FilesInPlace
  <2>2. v = w
    BY <1>2, <2>1, ManifestAssumption
  <2> QED
    BY <1>2, <1>3, <2>2
<1>12. AppliedWhenRecorded'
  <2> SUFFICES ASSUME NEW g \in MigrationFiles \ OwnCommit
               PROVE  applied'[g] = IF \E v \in Versions : recorded'[v] = g THEN 1 ELSE 0
    BY DEF AppliedWhenRecorded
  <2>1. applied[g] = IF \E v \in Versions : recorded[v] = g THEN 1 ELSE 0
    BY DEF SInv, AppliedWhenRecorded
  <2>2. CASE g = f
    BY <1>2, <1>3, <1>11, <2>1, <2>2 DEF SInv, MigrationsTypeOK
  <2>3. CASE g # f
    <3>1. applied'[g] = applied[g]
      BY <1>2, <1>3, <2>3 DEF SInv, MigrationsTypeOK
    <3>2. \A v \in Versions : recorded'[v] = g <=> recorded[v] = g
      BY <1>2, <1>3, <2>3, ManifestAssumption DEF SInv, MigrationsTypeOK
    <3> QED
      BY <2>1, <3>1, <3>2
  <2> QED
    BY <2>2, <2>3
<1> QED
  BY <1>4, <1>5, <1>7, <1>8, <1>10, <1>12 DEF SInv

LEMMA SStep == SInv /\ [MigrationsNext]_migrationVars => SInv'
<1> SUFFICES ASSUME SInv, [MigrationsNext]_migrationVars
             PROVE  SInv'
  OBVIOUS
<1>1. CASE UNCHANGED migrationVars
  <2>1. UNCHANGED <<stage, known, session, recorded, applied, starts>>
    BY <1>1 DEF migrationVars
  <2>2. RecordsKnown'
    <3>1. \A c \in Containers :
            /\ Drifted(c)' = Drifted(c) /\ RecordedVersions' = RecordedVersions
            /\ LeftToApply(c)' = LeftToApply(c) /\ UpcomingVersion(c)' = UpcomingVersion(c)
      BY <2>1 DEF LeftToApply, UpcomingVersion, Drifted, RecordedVersions
    <3> QED
      BY <2>1, <3>1 DEF SInv, RecordsKnown
  <2>3. MigrationsTypeOK' /\ LockHeld' /\ ServedRecorded' /\ FilesInPlace' /\ AppliedWhenRecorded'
    BY <2>1 DEF SInv, MigrationsTypeOK, LockHeld, ServedRecorded, FilesInPlace, AppliedWhenRecorded
  <2> QED
    BY <2>2, <2>3 DEF SInv
<1>2. ASSUME NEW c \in Containers, StartContainer(c) \/ Migrate(c) \/ EndContainer(c)
      PROVE  SInv'
  BY <1>2, SBookkeeping, SRunSql, SRecordFile DEF Migrate
<1> QED
  BY <1>1, <1>2 DEF MigrationsNext

LEMMA SAlways == MigrationsSpec => []SInv
BY SInit, SStep, PTL DEF MigrationsSpec

\* apply_migrations.py 132-149: a file without a COMMIT of its own is applied exactly once,
\* when its row appears, whatever crashes and however many runners there are.
THEOREM EachFileOnce == MigrationsSpec => []AppliedWhenRecorded
BY SAlways, PTL DEF SInv

\* health.py 157-186: the check of the last version alone is enough for any two images
\* whose manifests are numbered without gaps.
THEOREM ReadinessSuffices == MigrationsSpec => []ReadyMeansMigrated
<1>1. SInv => ReadyMeansMigrated
  <2> SUFFICES ASSUME SInv, NEW c \in Containers, Ready(c)
               PROVE  /\ \A v \in DOMAIN Manifest[c] :
                           recorded[v] = Manifest[c][v] /\ applied[Manifest[c][v]] > 0
                      /\ RecordedVersions = DOMAIN Manifest[c]
    BY DEF ReadyMeansMigrated
  <2>1. \A v \in DOMAIN Manifest[c] :
          /\ recorded[v] = Manifest[c][v] /\ v \in RecordedVersions
          /\ applied[Manifest[c][v]] > 0
    BY ManifestShape DEF SInv, ServedRecorded, FilesInPlace, Ready, RecordedVersions
  <2>2. \A v \in RecordedVersions : v \in 1..Len(Manifest[c])
    BY ManifestShape DEF Ready, RecordedVersions, Versions
  <2> QED
    BY <2>1, <2>2, ManifestShape
<1> QED
  BY <1>1, SAlways, PTL
=============================================================================
