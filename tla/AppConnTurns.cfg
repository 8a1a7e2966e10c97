SPECIFICATION Spec
CONSTANTS
  PACKETBUF_HDR_SIZE = 3
  PACKETBUF_SIZE = 7
  HeaderLen = 2
  MAX_PKT_PAYLOAD_SIZE = 4
  DataLens = {1, 3, 4}
  FrameLens = {0, 3, 6}
  Preempt = FALSE
  MaxBytes = 12
INVARIANTS RingInv
PROPERTIES TakesLatest FramingSucceeds ShortFramesIntact
