SPECIFICATION FairSpec
CONSTANTS
  Drivers <- AllDrivers
  MayFail = {"create_file", "reserve", "map_irq", "request_irq"}
  MaxFailures = 1
INVARIANTS
  TypeOK
  InterruptBacked
  CodeStays
PROPERTIES
  NothingLeft
  CleanupEnds
