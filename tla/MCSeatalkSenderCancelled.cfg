SPECIFICATION Spec
CONSTANTS
  Sensors = {"depth_below_transducer"}
  Values <- TwoValues
  None = none
  SENSOR_TIME_TO_LIVE = 2
  Expiry = FALSE
  Commands <- NoCommand
  CommandsIssued = 0
  MAX_COMMAND_LOOPS = 30
  SLEEP_DURATION = 100
  Collisions = TRUE
  SMP = FALSE
  v1 = v1
  v2 = v2
  c1 = c1
  c2 = c2
  none = none
INVARIANTS
  LastValueSent
