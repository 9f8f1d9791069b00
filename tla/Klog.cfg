\* Two threads that log, flush and clear at the same time, with and without
\* syslogd
SPECIFICATION LogSpec
CONSTANTS
  Threads = {t1, t2}
  SIZE = 2
  MaxSeq = 3
  REOPEN_BYTES = 2
  LineLens = {1, 2}
INVARIANTS
  RingConsistent
  FlushedInFile
  WarnOnDisk
  SyslogKept
  ThreadOrder
