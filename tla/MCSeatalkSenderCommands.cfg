\* Both properties named here are violated.  The first is checked; put the other
\* one, a PROPERTY, in its place to see that.
SPECIFICATION Spec
CONSTANTS
  Sensors = {}
  Values <- TwoValues
  None = none
  SENSOR_TIME_TO_LIVE = 2
  Expiry = TRUE
  Commands <- TwoCommands
  CommandsIssued = 2
  MAX_COMMAND_LOOPS = 30
  SLEEP_DURATION = 100
  Collisions = FALSE
  SMP = FALSE
  v1 = v1
  v2 = v2
  c1 = c1
  c2 = c2
  none = none
INVARIANT
  CommandsIntact
  \* GivesUpAfterDelay
