\* Clients that share an ext4 file
SPECIFICATION Ext4Spec
CONSTANTS
  Clients = {c1, c2}
  BUF_SIZE = 1
  MaxRw = 2
  MaxBytes = 3
  MaxOff = 1
  MaxOpens = 2
SYMMETRY ClientSymmetry
INVARIANTS
  SeenAppendsKept
  CachedSize
  ObjectsAccounted
PROPERTIES
  ReadsSound
\* everybody may have closed the file, with nothing left within the bounds
CHECK_DEADLOCK FALSE
