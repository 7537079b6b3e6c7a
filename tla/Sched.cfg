SPECIFICATION MCSpec
CONSTANTS
  MLFQWorkloads <- MCMLFQWorkloads
  MLFQOptions <- MCMLFQOptions
  Programs <- MCPrograms
  ProcessOptions <- MCProcessOptions
  CPUs = {0, 1}
  MultiWorkloads <- MCMultiWorkloads
  MultiOptions <- MCMultiOptions
  Joblists <- MCJoblists
  Quanta = {1, 2}
  X86Set <- MCX86Set
  Schedules <- MCSchedules
  Intfreqs = {2, 3}
  Loadaddr = 1000
  Memsize = 128
  Names <- MCNames
  MaxActions = 4
  ActionLists <- MCActionLists
  DEGREES = 12
  trackWidth = 2
  Setups <- MCSetups
  MaxStarts = 2
  MaxPauses = 1
INVARIANTS SchedTypeOK OnePlace RightOneRuns FairShare
PROPERTIES MachineSound DiskTimesTrue Termination
CHECK_DEADLOCK FALSE
