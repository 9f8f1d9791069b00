\* Two threads flush the same entry
SPECIFICATION Spec
CONSTANTS
  Threads = {t1, t2}
  SIZE = 2
  MaxSeq = 3
INVARIANTS
  FileInOrder
