SPECIFICATION Spec
CONSTANTS
  CPUs = {0, 1}
  Workloads <- MCWorkloads
  Options <- MCOptions
INVARIANT AffinityKept
CHECK_DEADLOCK FALSE
