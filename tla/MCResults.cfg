CONSTANTS
  f1 = f1
  f2 = f2
  Faces = {f1, f2}
  Parts <- MCParts
  MaxAttempts = 2
  MaxChanges = 2
  Headers <- MCHeaders
  Sizes = {1, 4}
  ChunkSize = 2
  None = None
  Blank = Blank
  Junk = Junk
SYMMETRY MCSymmetry
SPECIFICATION Spec
INVARIANTS
  ReadsWhole
  ChangeCostsAnAttempt
  RangeServed
