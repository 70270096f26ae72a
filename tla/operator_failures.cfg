SPECIFICATION Spec
CONSTANTS
  Targets = 2
  Interval = 1
  MaxTime = 2
  MaxKey = 2
  MaxDisruptions = 2
  Disruptions = {"call", "crash", "deleteBoot", "deletePol", "suspend", "deleteSecret"}
CHECK_DEADLOCK FALSE
INVARIANTS
  IInv
  ReadyMeansInjected
  CountedRotationsStored
PROPERTY
  EnvelopeOnlyAdvances
