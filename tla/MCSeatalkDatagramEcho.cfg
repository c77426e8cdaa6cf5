\* Both properties named here are violated.  The first is checked; put the other
\* one in its place to see that.
SPECIFICATION Spec
CONSTANTS
  Reports <- NoReports
  Writings <- SensorWritings
  Modes = {0, 2, 4, 8}
  MaxDamage = 0
INVARIANT
  EchoInventsNothing
  \* EchoShowsWaterSpeed
