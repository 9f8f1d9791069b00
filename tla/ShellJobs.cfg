\* Two shells on one spawnd
SPECIFICATION FairSpec
CONSTANTS
  Shells = {s1, s2}
  NoShell = NoShell
  MAX_TASKS = 1
  MAX = 2
  MaxHandle = 2
  Codes <- CrashCodes
INVARIANTS
  NoLostChild
  NoGhostJob
PROPERTIES
  CommandReturns
