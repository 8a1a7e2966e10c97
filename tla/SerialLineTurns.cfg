SPECIFICATION LineSpec
CONSTANTS
  RXBUFSIZE = 3
  BUFSIZE = 3
  NumEvents = 2
  MaxLines = 2
  MaxLength = 3
  Paced = TRUE
INVARIANT LinesInOrder
PROPERTY EndIsDelivered
CHECK_DEADLOCK FALSE
