SPECIFICATION Spec
CONSTANTS
  c1 = c1
  c2 = c2
  c3 = c3
  f1 = f1
  f2 = f2
  s1 = s1
  s2 = s2
  Calls = {c1, c2, c3}
  Faces = {f1, f2}
  Samples = {s1, s2}
  OldFaces <- OneOld
  OldSample <- OneOldSample
  Ops <- AllOps
  MaxFaces = 1
  LostReplies = TRUE
  Job = Job
  None = None
SYMMETRY FreshSymmetry
CHECK_DEADLOCK FALSE
INVARIANTS
  ActiveSampleStored
  FailureCompensated
  EnrolledOnce
  DeactivatedNotMatched
