SPECIFICATION FairStreamSpec
CONSTANTS
  DataBits = 1
  Datagrams <- DriverDatagrams
  TalkerDatagrams <- OtherDatagrams
  Heard = {}
  ReceiveBufferSize = 4
  FramingErrors = TRUE
INVARIANTS
  ClearIsHandled
  DataHasTimer
PROPERTY
  DataIsSent
