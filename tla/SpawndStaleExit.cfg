\* A second thread exits while the first is in exec
SPECIFICATION Spec
CONSTANTS
  MAX = 1
  MaxSpawns = 1
  MaxImages = 2
  ExitCodes = {0, 3}
  MultiThreaded = TRUE
INVARIANTS
  ExitIsOfCurrentProgram
