\* Every property named here is violated.  The first is checked; put another
\* one in its place to see that.
SPECIFICATION Spec
CONSTANTS
  Heard = {"00", "66"}
  Asked = {}
  AlarmsUsed = {"shallow_water", "anchor", "apparent_wind_angle_low"}
  Readings <- OneReading
  None = none
  STATUS_TIME_TO_LIVE = 2
  r1 = r1
  r2 = r2
  none = none
INVARIANT
  AlarmTimesOut
  \* AlarmEnds  NoPhantomAlarm
