SPECIFICATION Spec
CONSTANTS
  NUM_IMAP_PTRS_IN_CR = 2
  NUM_INODES_PER_IMAP_CHUNK = 2
  NUM_INODE_PTRS = 2
  DirSlots = 2
  Paths <- MCPaths
  Writes <- MCWrites
  Options <- FromDisk
  MaxLog = 16
INVARIANT RefsMatch
CHECK_DEADLOCK FALSE
