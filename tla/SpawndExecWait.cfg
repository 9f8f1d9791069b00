\* A program that replaces itself by exec while its parent waits for it
SPECIFICATION EndingSpec
CONSTANTS
  MAX = 1
  MaxSpawns = 1
  MaxImages = 2
  ExitCodes = {0, 3}
  MultiThreaded = FALSE
PROPERTIES
  BlockingWaitReturns
