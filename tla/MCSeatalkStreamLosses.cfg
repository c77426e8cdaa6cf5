\* Every property named here is violated.  The first is checked; put another
\* one in its place to see that (ConfirmedWasHeard as a PROPERTY).
SPECIFICATION StreamSpec
CONSTANTS
  DataBits = 1
  Datagrams <- DriverDatagrams
  TalkerDatagrams <- OtherDatagrams
  Heard = {}
  ReceiveBufferSize = 6
  FramingErrors = FALSE
INVARIANT
  WinnerIsHandled
  \* HandledWasSent  HandledOnce  ConfirmedWasHeard
