SPECIFICATION Spec
CONSTANTS
  MAX = 2
  MaxSpawns = 2
  MaxImages = 3
  ExitCodes = {0, 3}
  MultiThreaded = FALSE
INVARIANTS
  HandlesUnique
  WaitedSlotStable
  NoOrphan
  LoadingInFlight
  ExitRecorded
  ExitIsOfCurrentProgram
PROPERTIES
  LifecycleSpec
