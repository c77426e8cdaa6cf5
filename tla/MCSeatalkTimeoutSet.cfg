SPECIFICATION Spec
CONSTANTS
  Items = {"heading", "active_alarms"}
  TIME_TO_LIVE = 2
  INT_MAX = 7
  Settings <- BackAndForward
  MaxSettings = 2
  LastSecond = 5
  None = none
  none = none
PROPERTY
  StaysExpired
