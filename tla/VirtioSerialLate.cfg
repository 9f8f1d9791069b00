\* A device that takes a message only after the poll has given up
SPECIFICATION Spec
CONSTANTS
  VQ_SIZE = 2
  IDX = 4
  RX_BUF_SIZE = 1
  MaxRead = 1
  MaxTyped = 1
  MaxWrites = 2
INVARIANTS
  SentIntact
