SPECIFICATION JobSpec
CONSTANTS
  NoFile = NoFile
  MaxRuns = 4
INVARIANTS
  JobTypeOK
  StoredIsWhole
  ExitZeroRefreshed
PROPERTIES
  NeverOlder
CHECK_DEADLOCK FALSE
