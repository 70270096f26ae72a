SPECIFICATION Spec
CONSTANTS
  None = None
  Torn = Torn
  KmsKeys <- MCKmsKeys
  Environments <- MCEnvironments
  MaxKey = 3
  MaxVersion = 2
INVARIANTS
  TypeOK
  AgeKeyFromInit
  RecordedKeyOpens
  SealedForTheKeyInUse
CHECK_DEADLOCK FALSE
