SPECIFICATION Spec
CONSTANTS
  Key = {k1, k2, k3}
  t1 = t1
  t2 = t2
  Target = {t1, t2}
  Requests <- MCRequests
  Garbage = garbage
  None = none
INVARIANTS
  IInv
  TrailTellsState
  VouchedPairMatches
  FingerprintTrue
  TrailNamesSecrets
PROPERTIES
  ImplementsLifecycle
