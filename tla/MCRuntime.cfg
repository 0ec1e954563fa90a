CONSTANTS
  c1 = c1  c2 = c2  s1 = s1
  pair = pair  crowd = crowd  broken = broken  empty = empty
  a1 = a1  a2 = a2  a3 = a3  a4 = a4
  Callers = {c1, c2}
  Slots = {s1}
  Pictures = {pair, crowd, broken, empty}
  Picture <- MCPicture
  Empty = empty
  Corrupt = {broken}
  MaxFaces = 2
  MaxCandidates = 3
  ConfThreshold = 1
  Nobody = Nobody
SPECIFICATION FairSpec
CHECK_DEADLOCK FALSE
INVARIANTS
  SlotsAccounted
  ResultIsOwn
PROPERTIES
  CallsReturn
