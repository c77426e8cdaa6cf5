SPECIFICATION FairSpec
CONSTANTS
  Sensors = {"depth_below_transducer"}
  Values <- TwoValues
  None = none
  SENSOR_TIME_TO_LIVE = 2
  Expiry = FALSE
  Commands <- OneCommand
  CommandsIssued = 1
  MAX_COMMAND_LOOPS = 3
  SLEEP_DURATION = 100
  Collisions = FALSE
  SMP = FALSE
  v1 = v1
  v2 = v2
  c1 = c1
  c2 = c2
  none = none
PROPERTIES
  FirstSensorIsSent
