SPECIFICATION MCSpec
CONSTANTS
  MAX_HEAP = 104
  CHUNKSIZE = 40
  Sizes = {5, 24}
  Handles <- MCHandles
  ListStart = 10
  ListSize = 10
  Options <- MCOptions
  ListSizes = {1, 3}
  MaxAllocs = 4
  Runs <- MCRuns
  Traces <- MCTraces
  pageSize = 2
  physPages = 6
  vpages = 4
  Allocated = {0, 3, 4}
  Machines <- MCMachines
  Given <- MCGiven
INVARIANTS MemoryTypeOK CacheKept HeapsConsistent HeldIntact TranslationSound
PROPERTIES ImplementAllocator ReplacementSound
CHECK_DEADLOCK FALSE
