CONSTANTS
  Containers = {"old", "new", "branch"}
  MigrationFiles = {"f1", "f2", "g2", "f3"}
  Manifest <- Released
  OwnCommit = {"f3"}
  NoFile = NoFile
  NoContainer = NoContainer
  MaxStarts = 4
SPECIFICATION MigrationsSpec
CHECK_DEADLOCK FALSE
INVARIANT SqlAndRowTogether
