------------------------- MODULE MCSeatalkDatagram -------------------------
(***************************************************************************)
(* SeatalkDatagram for TLC: for each kind the values around the boundaries *)
(* of its fields, for headings all of them.                                *)
(***************************************************************************)
EXTENDS SeatalkDatagram

CONSTANT Modes    \* mode nibbles of autopilots

Reading(kind, readings) == {[kind |-> kind, reading |-> r] : r \in readings}

Byte == {0, 127, 128, 255}
TwoBytes == {0, 1, 255, 256, 32767, 32768, 65535}
Circle == 0..359
Corner == {0, 1, 89, 90, 179, 180, 269, 270, 359}
FifthNibble == {0, 255, 256, 65535, 65536, 1048575}

InstrumentReports == UNION {
  Reading("00", [depth : TwoBytes, metres : BOOLEAN,
                 alarms : SUBSET DOMAIN DepthAlarm, defective : BOOLEAN]),
  Reading("05", [engine : DOMAIN EngineCode, rpm : TwoBytes,
                 pitch : {-128, -10, 0, 127}]),
  Reading("10", [half_degrees : {-360, -359, -1, 0, 1, 255, 256, 360}]),
  Reading("11", [knots_times_10 : {0, 9, 10, 1279}, metric : BOOLEAN]),
  Reading("20", [knots_times_10 : TwoBytes]),
  Reading("21", [miles_times_100 : FifthNibble]),
  Reading("22", [miles_times_10 : TwoBytes]),
  Reading("23", [fahrenheit : {0, 31, 32, 75, 255}, defective : BOOLEAN]),
  Reading("24", [units : DOMAIN UnitsCode]),
  Reading("30", [level : 0..3]),
  Reading("83", [failure : DOMAIN FailureCode]),
  Reading("87", [level : DOMAIN LevelCode]),
  Reading("91", [gain : 1..9]),
  Reading("25", [total : FifthNibble, trip : FifthNibble]),
  Reading("26", [knots_1 : TwoBytes, knots_2 : {0, 600},
                 speed_1_from_sensor : BOOLEAN, speed_2_is_average : BOOLEAN,
                 stopped : BOOLEAN, statute : BOOLEAN]),
  Reading("27", [celsius_times_10 : {-100, -1, 0, 155, 156, 400}]),
  Reading("50", [hemisphere : {"N", "S"}, degrees : {0, 89, 90},
                 minutes_times_100 : {0, 255, 256, 5999}]),
  Reading("51", [hemisphere : {"E", "W"}, degrees : {0, 127, 128, 180},
                 minutes_times_100 : {0, 255, 256, 5999}]),
  Reading("52", [knots_times_10 : TwoBytes]),
  Reading("53", [degrees : Circle]),
  Reading("54", [hour : {0, 23}, minute : {0, 59}, second : 0..59]),
  Reading("56", [year : {1970, 2000, 2225}, month : 1..12, day : {1, 31}]),
  Reading("57", [satellites : 0..15, dilution : Byte]),
  Reading("58", [ns : {"N", "S"}, lat : {0, 90},
                 lat_minutes_times_1000 : {0, 255, 256, 59999},
                 ew : {"E", "W"}, lon : {0, 180},
                 lon_minutes_times_1000 : {0, 59999}]),
  Reading("66", [alarms : SUBSET DOMAIN WindAlarm]),
  Reading("82", [name : [1..4 -> {48, 90}] \cup {<<63, 64, 111, 65>>}]),
  Reading("84", [heading : Circle, turning : {"left", "right"},
                 target : {0, 359}, mode : Modes, alarms : {{}},
                 rudder : {-30}, display : {0}]),
  Reading("84", [heading : Corner, turning : {"left", "right"},
                 target : {89, 90, 359}, mode : Modes,
                 alarms : SUBSET DOMAIN AutopilotAlarm,
                 rudder : {-128, 127}, display : {0, 128}]),
  Reading("85", [error : {0, 30, 4095}, bearing : {1, 90, 359},
                 magnetic : BOOLEAN, range : {0, 999, 1009, 40950},
                 steer : {-1, 1}, error_present : BOOLEAN,
                 bearing_present : {TRUE}, range_present : BOOLEAN]),
  Reading("86", [command : {1, 2, 40, 104, 128, 132}]),
  Reading("89", [heading : Circle, locked_active : BOOLEAN,
                 locked : {0, 359}]),
  Reading("99", [degrees : {-128, -45, 0, 45, 127}]),
  Reading("9c", [heading : Circle, turning : {"left", "right"},
                 rudder : {-128, -3, 127}]) }

SensorWritings == UNION {
  [heading : Circle],
  [heading : Circle, rudder_position : {-128, -3, 127}],
  [water_speed : TwoBytes],
  [apparent_wind_angle : -180..180],
  [apparent_wind_speed : {0, 9, 10, 1279}],
  [depth_below_transducer : TwoBytes],
  [course_over_ground : Circle],
  [speed_over_ground : {0, 9, 10, 2559, 2560, 655359}],
  [water_temperature : {-100, -1, 0, 155, 156, 400}] }

AutopilotReports == {r \in InstrumentReports : r.kind = "84"}
ResponseLevels == Reading("87", [level : DOMAIN LevelCode])
ReversedEngine ==
  Reading("05", [engine : DOMAIN EngineCode, rpm : {-100, 100}, pitch : {0}])
NoReports == {}

=============================================================================
