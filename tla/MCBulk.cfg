CONSTANTS
  r1 = r1  r2 = r2  f1 = f1  f2 = f2 
  Runs = {r1, r2}
  Manifest <- MCManifest
  Kind <- MCKind
  Raw <- MCRaw
  Confidence = 5
  MaxCandidates = 2
  Unit = 10
  NmsTenths = 4
  Raising = {"sync", "check"}
  BatchSize = 2
  EngineMax = 3
  Overlapping = FALSE
  Deactivated = {f1}
SPECIFICATION BulkSpec
CHECK_DEADLOCK FALSE
SYMMETRY RunSymmetry
INVARIANTS
  VectorIsOwn
  RunsSettle
  ExtractionHolds
PROPERTIES
  JournalHolds
