SPECIFICATION FairSpec
CONSTANTS
  MaxCursor = 3
  BackfillStarts = {0, 1}
INVARIANTS
  TypeOK
  SnapshotPreserved
  FinalSaveIsLast
PROPERTIES
  ResumePointAdvances
  ShutdownCompletes
CHECK_DEADLOCK FALSE
