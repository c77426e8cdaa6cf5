SPECIFICATION Spec
CONSTANTS
  Heard = {"00", "54", "56", "66"}
  Asked = {"gmt_date_and_time"}
  AlarmsUsed = {"shallow_water", "apparent_wind_angle_low"}
  Readings <- OneReading
  None = none
  STATUS_TIME_TO_LIVE = 2
  r1 = r1
  r2 = r2
  none = none
INVARIANTS
  TypeOK
  AlarmKept
  AlarmsEndTogether
PROPERTIES
  ReturnedIsFresh
  NoAlarmRevived
