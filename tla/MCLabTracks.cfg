SPECIFICATION Spec
CONSTANTS
    Scenes <- SomeScenes
    Clock = {0, 3}
    MaxFrames = 4
    MaxLostFrames = 1
    MaxLostNs = 2
    MaxSelected = 2
    MinSelected = 1
    Separation = 3
CHECK_DEADLOCK FALSE
INVARIANTS
  TrackletsSound
  PersonsApart
  TracksTold
