SPECIFICATION Spec
CONSTANTS
  Heard = {"05"}
  Asked = {"engine_single"}
  AlarmsUsed = {}
  Readings <- TwoReadings
  None = none
  STATUS_TIME_TO_LIVE = 2
  r1 = r1
  r2 = r2
  none = none
INVARIANTS
  ReturnedIsOneReading
