\* Programs with several threads: exits and crashes are noticed and waits are
\* answered
SPECIFICATION FairSpec
CONSTANTS
  MAX = 1
  MaxSpawns = 2
  MaxImages = 2
  ExitCodes = {0}
  MultiThreaded = TRUE
PROPERTIES
  ExitNoticed
  CrashNoticed
  WaitReturns
