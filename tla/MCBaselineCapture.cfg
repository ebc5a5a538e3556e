CONSTANTS
  Regions <- MCRegions
  Listers <- MCListers
  Kinds <- MCKinds
  KindOf <- MCKindOf
  Skipped <- MCSkipped
  Resources <- MCResources
  Shows <- MCShows
  RegionWorkers = 2
  ListerWorkers = 1
  Invokes = 2
  Forbidden = {"t2"}
SPECIFICATION Spec
INVARIANTS BaselineComplete NoFalseTimeout
PROPERTIES EveryCaptureEnds
CHECK_DEADLOCK FALSE
