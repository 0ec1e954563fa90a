CONSTANTS
  j1 = j1  w1 = w1  w2 = w2  t1 = t1  t2 = t2  t3 = t3  c1 = c1  c2 = c2
  None = None
  Jobs = {j1}
  Workers = {w1, w2}
  Tokens = {t1, t2, t3}
  Requests = {}
  Expiring = {j1}
  Names <- MCNames
  NameOf <- MCNameOf
  MaxAttempts = 2
SPECIFICATION SteadySpec
CHECK_DEADLOCK FALSE
PROPERTIES
  JobsEnd
