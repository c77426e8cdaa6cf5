\* Both properties named here are violated.  The first is checked; put the other
\* one in its place to see that.
SPECIFICATION BusSpec
CONSTANTS
  DataBits = 8
  Datagrams <- OneKeystroke
  Heard <- NoBytes
  ReceiveBufferSize = 18
  FramingErrors = TRUE
  BitTicks = 4
  StartBitDelay = 1
  DebounceTicks = 2
  IDLE_BITS = 10
  Latency = 1
  HostPreempted = FALSE
  RemoteBytes <- NoBytes
  RemoteGuard = 40
PROPERTY
  EchoBeforeNext
  \* MidCharacterEdgeIgnored
