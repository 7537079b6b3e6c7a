SPECIFICATION Spec
CONSTANTS
  Clients = {c0, c1}
  Files = {a}
  Fds = {1, 2}
  NoFile = NoFile
  Nested = FALSE
  MaxSteps = 6
INVARIANTS TypeOK Coherent NoAssertionFailure
PROPERTIES ImplementsSession
CHECK_DEADLOCK FALSE
