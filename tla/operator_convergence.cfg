SPECIFICATION FairSpec
CONSTANTS
  Targets = 2
  Interval = 1
  MaxTime = 2
  MaxKey = 2
  MaxDisruptions = 1
  Disruptions = {"call", "crash", "deleteBoot"}
CHECK_DEADLOCK FALSE
PROPERTIES
  KeysInCustody
  Converges
  
