SPECIFICATION Spec
CONSTANTS
  MAXJOBS = 2
  Pids = {1, 2, 3}
  MaxJid = 2
INVARIANTS TypeOK AtMostOneFG NoReapedJobs ReapIsDue
CHECK_DEADLOCK FALSE
