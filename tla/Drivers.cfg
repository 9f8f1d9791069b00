\* Rings of two entries whose indices wrap, for the console and the network;
\* three descriptors for netd's sockets
SPECIFICATION DriversSpec
CONSTANTS
  VQ_SIZE = 2
  IDX = 4
  RX_BUF_SIZE = 2
  MaxRead = 3
  MaxTyped = 6
  MaxWrites = 5
  MaxArrive = 5
  MaxFrames = 5
  NetFds = {3, 4, 5}
  Workers = {w1, w2}
INVARIANTS
  BufferOwnership
  BytesAccounted
  RxBufferOwnership
  FramesIntact
  SocketsAccounted
  EchoOnce
PROPERTIES
  WriteReturns
  FramesTaken
\* a part may come to rest at its bounds
CHECK_DEADLOCK FALSE
