SPECIFICATION FairSpec
CONSTANTS
  MAXJOBS = 2
  Pids = {1, 2}
  MaxJid = 3
PROPERTIES WaitfgReturns
CHECK_DEADLOCK FALSE
