SPECIFICATION Spec
CONSTANTS
  Types = {"log"}
  NumLogical = 3
  NumBlocks = 2
  PagesPerBlock = 2
  HighWater = 2
  LowWater = 1
  Data = {"a", "b"}
PROPERTIES ImplementsStore
