\* The process of the shell: its two threads, redirections, the login dialogue,
\* tmpfs files and directories, and /dev
SPECIFICATION ShellSpec
CONSTANTS
  Keys = {"q", "nl", "etx", "eot"}
  KbdSize = 3
  MaxFds = 2
  Chars = {"a", "b"}
  LineMax = 2
  MAX_LOGIN_ATTEMPTS = 3
  Shadows <- ShadowFiles
  Fallback <- Builtin
  Handles = {h1, h2}
  MinCap = 1
  MaxInodes = 2
  MaxSize = 2
  Names = {a, b}
  Readers = {r1, r2}
  MaxDirs = 1
  MaxDev = 3
  DevReaders = {r1, r2}
INVARIANTS
  InodeLifetime
  DirectoriesSound
  SnapshotListed
  InterruptExact
  RedirectionUndone
PROPERTIES
  IsPosixFile
  KeysInOrder
  InterruptEnds
  LoginExact
\* the loop ends with Ctrl-D, the dialogue with the login, and the file systems
\* may come to rest at their bounds
CHECK_DEADLOCK FALSE
