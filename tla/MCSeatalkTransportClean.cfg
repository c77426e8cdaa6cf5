SPECIFICATION FairSpec
CONSTANTS
  DataBits = 1
  Datagrams <- OneBitDatagrams
  Heard <- AnyBit
  ReceiveBufferSize = 4
  FramingErrors = FALSE
INVARIANT PendingDataHasTimer
PROPERTY PendingDataIsSent
