SPECIFICATION Spec
CONSTANTS
  Backups = 3
  MaySave = TRUE
  MaxRecs = 3
  MaxStarts = 5
  MaxCrashes = 3
INVARIANTS
  StartedLogKept
  BackupsInOrder
  FileIsLog
