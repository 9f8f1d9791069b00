\* Two clients append to one ext4 file: does an append overwrite another?
SPECIFICATION Ext4Spec
CONSTANTS
  Clients = {c1, c2}
  BUF_SIZE = 1
  MaxRw = 2
  MaxBytes = 3
  MaxOff = 2
  MaxOpens = 2
INVARIANTS
  AppendsKept
CHECK_DEADLOCK FALSE
