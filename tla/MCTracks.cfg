CONSTANTS
  Videos <- MCVideos
  Modes <- MCModes
  Galleries <- MCGalleries
  Width = 10
  MaxGap = 1
  MinGap = 2
  MaxSamples = 2
  Limit = 3
SPECIFICATION TracksSpec
INVARIANTS
  FacesTrackedOnce
  OnePlaceAtOnce
  ResultsTell
