SPECIFICATION Spec
CONSTANTS
  Targets = 1
  Interval = 1
  MaxTime = 2
  MaxKey = 2
  MaxDisruptions = 0
  Disruptions = {}
CHECK_DEADLOCK FALSE
INVARIANT
  RotationAnnotated
