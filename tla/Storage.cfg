SPECIFICATION MCSpec
CONSTANTS
  Types = {"direct", "log", "ideal"}
  NumLogical = 3
  NumBlocks = 3
  PagesPerBlock = 2
  HighWater = 2
  LowWater = 1
  Data = {"a", "b"}
  Arrays <- MCArrays
  RandRange = 7
  NumRequests = 2
  DiskSize = 12
  TrackSize = 2
INVARIANTS TypeOK MapsConsistent NeverFull
PROPERTIES ImplementsStore UpkeepProgress Redundant
