SPECIFICATION Spec
CONSTANTS
  MaxCursor = 2
  BackfillStarts = {0, 1}
PROPERTY
  ResumePointKept
CHECK_DEADLOCK FALSE
