SPECIFICATION Spec
CONSTANTS
  DataBits = 2
  Datagrams <- TwoBitDatagrams
  Heard <- AnyBit
  ReceiveBufferSize = 6
  FramingErrors = TRUE
INVARIANTS
  TypeOK
  WireFollowsCursor
  ReceptionCounted
  BusyStateIsLeft
PROPERTY ImplementsStopAndWait
