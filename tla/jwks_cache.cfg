SPECIFICATION FairSpec
CONSTANTS
  Caller = {c1, c2}
  Kid = {k1}
  None = none
  Duration = 1
  Timeout = 1
  MaxTime = 4
INVARIANTS
  IInv
  NoRetiredKey
  KnownKeyFound
PROPERTIES
  FetchedOnlyWhenExpired
  VerifierReturns
