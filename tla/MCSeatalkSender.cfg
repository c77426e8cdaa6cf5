SPECIFICATION FairSpec
CONSTANTS
  Sensors = {"heading", "rudder_position"}
  Values <- TwoValues
  None = none
  SENSOR_TIME_TO_LIVE = 2
  Expiry = TRUE
  Commands <- TwoCommands
  CommandsIssued = 2
  MAX_COMMAND_LOOPS = 0
  SLEEP_DURATION = 1
  Collisions = FALSE
  SMP = FALSE
  v1 = v1
  v2 = v2
  c1 = c1
  c2 = c2
  none = none
INVARIANTS
  TypeOK
  LastValueSent
  NothingStaleIsTaken
PROPERTIES
  CommandsMixOnlyInBuild
  CommandIsSent
  FirstSensorIsSentOrCommand
