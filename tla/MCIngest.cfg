CONSTANTS
  c1 = c1  c2 = c2  c3 = c3  k1 = k1  k2 = k2  k3 = k3  x1 = x1  x2 = x2
  None = None
  Calls = {c1, c2, c3}
  SubmitKeys = {k1}
  RetryKeys = {k2, k3}
  Contents = {x1, x2}
SPECIFICATION Spec
SYMMETRY MCSymmetry
CHECK_DEADLOCK FALSE
INVARIANTS
  OneJobPerKey
  AnswersMatch
  JobHasSource
  FailureSettled
