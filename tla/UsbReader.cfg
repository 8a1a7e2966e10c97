SPECIFICATION UsbSpec
CONSTANTS
  Senders = {10}
  Seqs = {0, 10}
  PayloadBytes = {1, 10, 126}
  MaxPayload = 2
  MaxRecords = 2
INVARIANT WrittenWereSent
PROPERTY AllWritten
CHECK_DEADLOCK FALSE
