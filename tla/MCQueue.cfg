CONSTANTS
  j1 = j1  j2 = j2  w1 = w1  w2 = w2  t1 = t1  t2 = t2
  None = None
  Jobs = {j1, j2}
  Workers = {w1, w2}
  Tokens = {t1, t2}
  Names <- MCNames
  NameOf <- MCNameOf
  WorkStages <- MCWorkStages
  MaxAttempts = 2
  BatchSize = 1
  MaxClaims = 2
  MaxVersion = 4
SPECIFICATION Spec
INVARIANTS
  RowsValid
  CancelSticks
  CancelSeen
PROPERTIES
  LeaseNotStolen
  StaleHolderFenced
  LifecycleSpec
