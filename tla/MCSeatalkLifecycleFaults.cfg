\* Every property named here is violated.  The first is checked; put another
\* one in its place to see that.
SPECIFICATION Spec
CONSTANTS
  Drivers <- AllDrivers
  MayFail = {"reserve", "map_irq", "request_irq"}
  MaxFailures = 1
INVARIANT
  FilesInPlace
  \* CleanupComplete  NothingWiped  NoUnreservedPin  NoUninitializedTimer
  \* NoUnloadedCode  NoPinFreedTwice  NoPinLeaked
