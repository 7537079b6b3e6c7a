SPECIFICATION MCSpec
CONSTANTS
  NUM_IMAP_PTRS_IN_CR = 2
  NUM_INODES_PER_IMAP_CHUNK = 2
  NUM_INODE_PTRS = 2
  DirSlots = 2
  Paths <- MCPaths
  Writes <- MCWrites
  Options <- FromMemory
  MaxLog = 16
  numInodes = 4
  numData = 4
  maxUsed = 4
  VContents = {1}
  FOptions <- MCFOptions
  FSizes = {0, 1, 2}
  NumSymbols = 4
INVARIANTS DisksTypeOK RefuseForCause DisksConsistent DamageShows
PROPERTIES CheckpointKept ImplementTree
CHECK_DEADLOCK FALSE
