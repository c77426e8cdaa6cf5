SPECIFICATION BusSpec
CONSTANTS
  DataBits = 1
  Datagrams <- ShortOrNothing
  Heard <- NoBytes
  ReceiveBufferSize = 4
  FramingErrors = TRUE
  BitTicks = 4
  StartBitDelay = 1
  DebounceTicks = 2
  IDLE_BITS = 3
  Latency = 0
  HostPreempted = FALSE
  RemoteBytes <- ShortBytes
  RemoteGuard = 12
INVARIANTS
  LayersAgree
  NotHeldLow
