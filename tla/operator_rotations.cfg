SPECIFICATION FairSpec
CONSTANTS
  Targets = 1
  Interval = 1
  MaxTime = 2
  MaxKey = 3
  MaxDisruptions = 1
  Disruptions = {"crash"}
CHECK_DEADLOCK FALSE
PROPERTIES
  CountedRotationsSpaced
  OnlyHeldKeysInjected
  DueRotationHappens
