SPECIFICATION BusSpec
CONSTANTS
  DataBits = 8
  Datagrams <- OneLamp
  Heard <- NoBytes
  ReceiveBufferSize = 18
  FramingErrors = TRUE
  BitTicks = 4
  StartBitDelay = 1
  DebounceTicks = 2
  IDLE_BITS = 10
  Latency = 0
  HostPreempted = FALSE
  RemoteBytes <- DepthBytes
  RemoteGuard = 40
PROPERTY GuardTimeKept
