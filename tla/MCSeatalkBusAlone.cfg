SPECIFICATION BusFairSpec
CONSTANTS
  DataBits = 8
  Datagrams <- OneKeystroke
  Heard <- NoBytes
  ReceiveBufferSize = 18
  FramingErrors = TRUE
  BitTicks = 12
  StartBitDelay = 3
  DebounceTicks = 4
  IDLE_BITS = 10
  Latency = 1
  HostPreempted = FALSE
  RemoteBytes <- NoBytes
  RemoteGuard = 120
INVARIANTS
  BusTypeOK
  EchoIsPrefix
PROPERTIES
  EchoBeforeNext
  GuardTimeKept
  MidCharacterEdgeIgnored
  DatagramEnds
