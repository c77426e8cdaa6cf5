SPECIFICATION Spec
CONSTANTS
  DataBits = 1
  Datagrams <- OneBitDatagrams
  Heard <- AnyBit
  ReceiveBufferSize = 4
  FramingErrors = TRUE
INVARIANT PendingDataHasTimer
