-------------------------- MODULE SchemaMigrations --------------------------
(***************************************************************************)
(* infra/scripts/apply_migrations.py, as every API container runs it when  *)
(* it starts, and the schema part of the API's readiness check.            *)
(*                                                                         *)
(* A release carries a manifest, the files 0001, 0002, ... in order.  The  *)
(* runner's connection is in autocommit mode; it holds one session lock    *)
(* from its first statement to its end, whatever the end is.  A file whose *)
(* SQL contains its own BEGIN and COMMIT (nine of them do, from 0040 on)   *)
(* commits before the runner's transaction block does.                     *)
(***************************************************************************)
EXTENDS Naturals, Sequences

CONSTANTS
  Containers,   \* API containers, of the old and of the new release
  MigrationFiles,
  Manifest,     \* container -> the sequence of files of its image
  OwnCommit,    \* the files that commit by themselves
  NoFile,
  NoContainer,
  MaxStarts     \* bound: container starts

ASSUME ManifestAssumption ==
  /\ Manifest \in [Containers -> Seq(MigrationFiles)]
  /\ OwnCommit \subseteq MigrationFiles /\ NoFile \notin MigrationFiles
  /\ NoContainer \notin Containers /\ MaxStarts \in Nat
  \* a file name carries its version
  /\ \A c, d \in Containers : \A v \in DOMAIN Manifest[c], u \in DOMAIN Manifest[d] :
       Manifest[c][v] = Manifest[d][u] => v = u

VARIABLES
  stage,      \* where each container is
  known,      \* versions it will not apply: found recorded, or just applied
  session,    \* holder of the advisory lock
  recorded,   \* schema_migrations: version -> file
  applied,    \* how often the SQL of a file has been committed
  starts

migrationVars == <<stage, known, session, recorded, applied, starts>>

Versions == UNION {DOMAIN Manifest[c] : c \in Containers}
RecordedVersions == {v \in Versions : recorded[v] # NoFile}
LeftToApply(c) == DOMAIN Manifest[c] \ known[c]
\* the loop goes through the files in order
UpcomingVersion(c) == CHOOSE v \in LeftToApply(c) : \A u \in LeftToApply(c) : v <= u

DriftedVersion(c) == RecordedVersions \ DOMAIN Manifest[c] # {}  \* mutant: file names unread

\* _validate_recorded_migrations: a version the image lacks, or another file for a version.
Drifted(c) ==
  \E v \in RecordedVersions : v \notin DOMAIN Manifest[c] \/ recorded[v] # Manifest[c][v]

MigrationsInit ==
  /\ stage = [c \in Containers |-> "down"]
  /\ known = [c \in Containers |-> {}]
  /\ session = NoContainer
  /\ recorded = [v \in Versions |-> NoFile]
  /\ applied = [f \in MigrationFiles |-> 0]
  /\ starts = 0

Move(c, where) == stage' = [stage EXCEPT ![c] = where]

StartContainer(c) ==
  /\ stage[c] = "down" /\ starts < MaxStarts
  /\ starts' = starts + 1
  /\ Move(c, "waiting")
  /\ UNCHANGED <<known, session, recorded, applied>>

\* _acquire_migration_lock
TakeSession(c) ==
  /\ stage[c] = "waiting" /\ session = NoContainer
  /\ session' = c
  /\ Move(c, "reading")
  /\ UNCHANGED <<known, recorded, applied, starts>>

\* _recorded_migrations and their validation; drift ends the runner.
ReadRecorded(c) ==
  /\ stage[c] = "reading" /\ ~Drifted(c)
  /\ known' = [known EXCEPT ![c] = RecordedVersions]
  /\ Move(c, "migrating")
  /\ UNCHANGED <<session, recorded, applied, starts>>

\* Mutant: every file is committed before its row is written.
RunSqlCommitted(c) ==
  /\ stage[c] = "migrating" /\ LeftToApply(c) # {}
  /\ applied' = [applied EXCEPT ![Manifest[c][UpcomingVersion(c)]] = @ + 1]
  /\ Move(c, "recording")
  /\ UNCHANGED <<known, session, recorded, starts>>

\* cursor.execute(migration.sql): a COMMIT in the file ends the runner's transaction.
RunSql(c) ==
  /\ stage[c] = "migrating" /\ LeftToApply(c) # {}
  /\ LET f == Manifest[c][UpcomingVersion(c)] IN
       applied' = [applied EXCEPT ![f] = IF f \in OwnCommit THEN @ + 1 ELSE @]
  /\ Move(c, "recording")
  /\ UNCHANGED <<known, session, recorded, starts>>

\* The INSERT, whose key must be new, and the commit of the block: of the row and the
\* SQL, or of the row alone.
RecordFile(c) ==
  /\ stage[c] = "recording"
  /\ LET v == UpcomingVersion(c)
         f == Manifest[c][v]
     IN /\ recorded[v] = NoFile
        /\ recorded' = [recorded EXCEPT ![v] = f]
        /\ applied' = [applied EXCEPT ![f] = IF f \in OwnCommit THEN @ ELSE @ + 1]
        /\ known' = [known EXCEPT ![c] = @ \cup {v}]
  /\ Move(c, "migrating")
  /\ UNCHANGED <<session, starts>>

\* Nothing left: the connection closes and the API starts.
Serve(c) ==
  /\ stage[c] = "migrating" /\ LeftToApply(c) = {}
  /\ session' = NoContainer
  /\ Move(c, "serving")
  /\ UNCHANGED <<known, recorded, applied, starts>>

\* Drift, a lock or statement timeout, failed SQL, a duplicate key, a lost connection or
\* a killed container, and a served container's stop.  What is not committed is undone.
EndContainer(c) ==
  /\ stage[c] # "down"
  /\ session' = IF session = c THEN NoContainer ELSE session
  /\ known' = [known EXCEPT ![c] = {}]
  /\ Move(c, "down")
  /\ UNCHANGED <<recorded, applied, starts>>

Migrate(c) ==
  TakeSession(c) \/ ReadRecorded(c) \/ RunSql(c) \/ RecordFile(c) \/ Serve(c)

MigrationsNext ==
  \E c \in Containers : StartContainer(c) \/ Migrate(c) \/ EndContainer(c)

MigrationsSpec == MigrationsInit /\ [][MigrationsNext]_migrationVars

\* _check_required_schema: the image's last version is recorded with its file, and is the
\* greatest version recorded.
Ready(c) ==
  LET last == Len(Manifest[c]) IN
  /\ stage[c] = "serving" /\ last > 0
  /\ recorded[last] = Manifest[c][last]
  /\ \A v \in RecordedVersions : v <= last

-----------------------------------------------------------------------------
\* apply_migrations.py 132-149: a file that leaves its transaction to the runner is applied
\* exactly once, when its row appears, through crashes, lost answers and other runners.
AppliedWhenRecorded ==
  \A f \in MigrationFiles \ OwnCommit :
    applied[f] = IF \E v \in Versions : recorded[v] = f THEN 1 ELSE 0

\* health.py 157-186 looks at the last version alone.  It is enough: a container that is
\* ready sees the whole manifest of its image applied, and no recorded file besides.
ReadyMeansMigrated ==
  \A c \in Containers : Ready(c) =>
    /\ \A v \in DOMAIN Manifest[c] : recorded[v] = Manifest[c][v] /\ applied[Manifest[c][v]] > 0
    /\ RecordedVersions = DOMAIN Manifest[c]

\* apply_migrations.py 137: "The SQL and its manifest row succeed or roll back together."
SqlAndRowTogether ==
  session = NoContainer =>
    \A f \in MigrationFiles : applied[f] > 0 => \E v \in Versions : recorded[v] = f
=============================================================================
