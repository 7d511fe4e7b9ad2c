SPECIFICATION FairSpec
CONSTANTS
  Setups <- AllSetups
  MaxItems = 5
  Garbage <- Second
  Cap = 1
INVARIANTS
  NothingLostInTransit
  

  
  
CHECK_DEADLOCK FALSE
