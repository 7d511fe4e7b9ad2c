SPECIFICATION FairSpec
CONSTANTS
  Setups <- RawEngine
  MaxItems = 5
  Garbage <- Second
  Cap = 1
PROPERTY CancelEndsSource
CHECK_DEADLOCK FALSE
