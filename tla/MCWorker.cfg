CONSTANTS
  Videos <- MCVideos
  Limits <- MCLimits
  BatchSize = 2
  RecBatch = 2
  Near = 3
  MaxMisses = 0
SPECIFICATION BundleSpec
CHECK_DEADLOCK FALSE
INVARIANTS
  Recordings
  TakenMeansWhole
PROPERTY
  WorkerEnds
