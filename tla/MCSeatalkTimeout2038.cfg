SPECIFICATION Spec
CONSTANTS
  Items = {"heading", "active_alarms"}
  TIME_TO_LIVE = 2
  INT_MAX = 7
  Settings <- NoSettings
  MaxSettings = 2
  LastSecond = 9
  None = none
  none = none
INVARIANT
  UnwrittenIsInvalid
