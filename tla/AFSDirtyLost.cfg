SPECIFICATION Spec
CONSTANTS
  Clients = {c0, c1}
  Files = {a}
  Fds = {1, 2}
  NoFile = NoFile
  Nested = TRUE
  MaxSteps = 6
PROPERTIES DirtyIsFlushed
CHECK_DEADLOCK FALSE
