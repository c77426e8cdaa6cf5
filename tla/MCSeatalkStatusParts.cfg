\* Both properties named here are violated.  The first is checked; put the other
\* one, an INVARIANT, in its place to see that.
SPECIFICATION Spec
CONSTANTS
  Heard = {"54", "56", "85"}
  Asked = {"gmt_date_and_time", "navigation"}
  AlarmsUsed = {}
  Readings <- TwoReadings
  None = none
  STATUS_TIME_TO_LIVE = 2
  r1 = r1
  r2 = r2
  none = none
PROPERTY
  FlaggedIsFresh
  \* ReturnedIsOneReading
