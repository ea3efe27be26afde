SPECIFICATION FairSpec
CONSTANTS
  Base = 3
  LengthBytes = 2
  Texts <- MCTexts
  BufferSize = 3
  SocketBuffer = 6
  MaxMessages = 4
INVARIANTS TypeOK
PROPERTIES ImplementsChannel EveryMessageArrives
CHECK_DEADLOCK FALSE
