-------------------------- MODULE SeatalkDatagram --------------------------
(***************************************************************************)
(* The bytes of datagrams: how seatalk_datagram.c builds and parses them,  *)
(* how seatalk_protocol.c makes them of sensor values and makes statuses   *)
(* of them.  A datagram comes from another instrument, which packs it as   *)
(* the build functions do, or from a sensor of our own, whose echo the     *)
(* driver handles like any other datagram.  Another talker may meanwhile   *)
(* pull bits of it low.                                                    *)
(*                                                                         *)
(* Bit fields that do not overlap are added where the code ORs them; a     *)
(* set of alarms stands for the word of their bits.  char is unsigned, as  *)
(* it is on the ARM processors of the boards.                              *)
(***************************************************************************)
EXTENDS Integers, Sequences, FiniteSets

CONSTANTS
  Reports,      \* what instruments report: records of a kind and a reading
  Writings,     \* sensor values pending together: from sensor to value
  MaxDamage     \* bits pulled low in one datagram

VARIABLES
  phase,        \* "idle", "sent" or "handled"
  origin,       \* what the datagram on the bus was made of
  datagram,     \* its bytes, from 0
  damage,       \* bits pulled low so far
  parsed,       \* what was parsed: a set of at most one reading
  status        \* from the names of the statuses it set to their values

vars == <<phase, origin, datagram, damage, parsed, status>>

-----------------------------------------------------------------------------
(* Bytes, nibbles and bits                                                 *)

high_byte(value) == value \div 256
low_byte(value) == value % 256

Bit(condition, weight) == IF condition THEN weight ELSE 0
flag(flags, mask) == (flags \div mask) % 2 = 1

\* The alarms that flags stand for
Marked(flags, weight) == {a \in DOMAIN weight : flag(flags, weight[a])}

first_nibble(byte) == (byte \div 16) % 16
last_nibble(byte) == byte % 16
get_datagram_length(second_byte) == last_nibble(second_byte)

two_bytes(d, i) == 256 * d[i] + d[i + 1]

fix_twos_complement_char(value) == IF value < 128 THEN value ELSE value - 256
\* Mutant of fix_twos_complement_word: the sign is lost
Mutant_fix_twos_complement_word(value) == value

fix_twos_complement_word(value) ==
  IF value < 32768 THEN value ELSE value - 65536

complement_checksum(value) == 255 - value
Weights == {1, 2, 4, 8, 16, 32, 64, 128}
OrIsFull(a, b) == \A bit \in Weights : flag(a, bit) \/ flag(b, bit)

\* Division of C
Quotient(a, b) == IF a < 0 THEN -((-a) \div b) ELSE a \div b

\* Mutant of initialize_datagram: the high nibble is not shifted
Mutant_initialize_datagram(number, length, high) ==
  [i \in 0..length - 1 |->
     IF i = 0 THEN number
     ELSE IF i = 1 THEN (length - 3 + high) % 256 ELSE 0]

initialize_datagram(number, length, high) ==
  [i \in 0..length - 1 |->
     IF i = 0 THEN number
     ELSE IF i = 1 THEN (length - 3 + 16 * high) % 256 ELSE 0]

\* Mutant of Assigned: a byte that is not cut to eight bits
Mutant_Assigned(d, bytes) ==
  [i \in DOMAIN d |-> IF i - 1 \in DOMAIN bytes THEN bytes[i - 1] ELSE d[i]]

\* datagram[2] and on are assigned; what is not stays 0.
Assigned(d, bytes) ==
  [i \in DOMAIN d |-> IF i - 1 \in DOMAIN bytes THEN bytes[i - 1] % 256
                                                ELSE d[i]]

Datagram(number, length, high, bytes) ==
  Assigned(initialize_datagram(number, length, high), bytes)

-----------------------------------------------------------------------------
(* Headings: quarter turns in u, pairs of degrees in vw                    *)

uvw_compass(compass) ==
  [u  |-> compass \div 90 + 8 * ((compass % 90) % 2),
   vw |-> (compass % 90) \div 2]

\* Mutant of uvw_heading_and_turning_direction: without the degree that the
\* high bit adds taken off
Mutant_uvw(heading, turning) ==
  [u  |-> Bit(turning = "right", 8)
            + Bit((heading % 2 = 1) # (turning = "right"), 4)
            + heading \div 90,
   vw |-> (heading % 90) \div 2]

uvw_heading_and_turning_direction(heading, turning) ==
  LET right == turning = "right"
      odd   == heading % 2 = 1
      rest  == IF right /\ ~odd THEN (heading + 359) % 360 ELSE heading
  IN  [u  |-> Bit(right, 8) + Bit(odd # right, 4) + rest \div 90,
       vw |-> (rest % 90) \div 2]

QuarterTurns(u, vw) == 90 * (u % 4) + 2 * (vw % 64)
HighBits(u) == Bit(flag(u, 4), 1) + Bit(flag(u, 8), 1)
Turning(u) == IF flag(u, 8) THEN "right" ELSE "left"

-----------------------------------------------------------------------------
(* Instruments: depth, engine, wind, water                                 *)

DepthAlarm == [shallow_water |-> 1, deep_water |-> 2, anchor |-> 128]

build_depth_below_transducer(r) ==
  Datagram(\h00, 5, 0,
    <<Bit("shallow_water" \in r.alarms, 1) + Bit("deep_water" \in r.alarms, 2)
        + Bit(r.defective, 4) + Bit(r.metres, 64)
        + Bit("anchor" \in r.alarms, 128),
      high_byte(r.depth), low_byte(r.depth)>>)
parse_depth_below_transducer(d) ==
  [depth |-> two_bytes(d, 3), metres |-> flag(d[2], 64),
   alarms |-> Marked(d[2], DepthAlarm), defective |-> flag(d[2], 4)]

EngineCode == [single |-> 0, starboard |-> 1, port |-> 2]

build_engine_rpm_and_pitch(r) ==
  Datagram(\h05, 6, 0,
    <<EngineCode[r.engine], high_byte(r.rpm), low_byte(r.rpm), r.pitch>>)
parse_engine_rpm_and_pitch(d) ==
  [engine |-> CASE d[2] = 1 -> "starboard"
                [] d[2] = 2 -> "port"
                [] OTHER    -> "single",
   rpm |-> two_bytes(d, 3), pitch |-> fix_twos_complement_char(d[5])]

build_apparent_wind_angle(r) ==
  Datagram(\h10, 4, 0, <<high_byte(r.half_degrees), low_byte(r.half_degrees)>>)
parse_apparent_wind_angle(d) ==
  [half_degrees |-> fix_twos_complement_word(two_bytes(d, 2))]

build_apparent_wind_speed(r) ==
  LET knots == r.knots_times_10 \div 10
  IN  Datagram(\h11, 4, 0,
        <<(IF knots > 127 THEN 127 ELSE knots) + Bit(r.metric, 128),
          r.knots_times_10 % 10>>)
parse_apparent_wind_speed(d) ==
  [knots_times_10 |-> 10 * (d[2] % 128) + last_nibble(d[3]),
   metric |-> flag(d[2], 128)]

build_water_speed(r) ==
  Datagram(\h20, 4, 0,
    <<high_byte(r.knots_times_10), low_byte(r.knots_times_10)>>)
parse_water_speed(d) == [knots_times_10 |-> two_bytes(d, 2)]

build_trip_mileage(r) ==
  LET rest == r.miles_times_100 \div 16
  IN  Datagram(\h21, 5, 0,
        <<high_byte(rest), low_byte(rest), r.miles_times_100 % 16>>)
parse_trip_mileage(d) ==
  [miles_times_100 |-> 16 * two_bytes(d, 2) + last_nibble(d[4])]

build_total_mileage(r) ==
  Datagram(\h22, 5, 0,
    <<high_byte(r.miles_times_10), low_byte(r.miles_times_10)>>)
parse_total_mileage(d) == [miles_times_10 |-> two_bytes(d, 2)]

build_water_temperature(r) ==
  Datagram(\h23, 4, Bit(r.defective, 4),
    <<Quotient(5 * (r.fahrenheit - 32), 9), r.fahrenheit>>)
parse_water_temperature(d) ==
  [fahrenheit |-> d[3], defective |-> flag(first_nibble(d[1]), 4)]

\* z and w are the highest of five nibbles and clamped.
Fifth(value) == IF value \div 65536 > 15 THEN 15 ELSE value \div 65536

build_total_and_trip_mileage(r) ==
  Datagram(\h25, 7, Fifth(r.total),
    <<low_byte(r.total), high_byte(r.total), low_byte(r.trip),
      high_byte(r.trip), 160 + Fifth(r.trip)>>)
parse_total_and_trip_mileage(d) ==
  [total |-> 65536 * first_nibble(d[1]) + 256 * d[3] + d[2],
   trip  |-> 65536 * last_nibble(d[6]) + 256 * d[5] + d[4]]

build_average_water_speed(r) ==
  Datagram(\h26, 7, 0,
    <<high_byte(r.knots_1), low_byte(r.knots_1), high_byte(r.knots_2),
      low_byte(r.knots_2),
      Bit(r.stopped, 1) + Bit(r.statute, 2) + Bit(r.speed_1_from_sensor, 64)
        + Bit(r.speed_2_is_average, 128)>>)
parse_average_water_speed(d) ==
  [knots_1 |-> two_bytes(d, 2), knots_2 |-> two_bytes(d, 4),
   speed_1_from_sensor |-> flag(d[6], 64),
   speed_2_is_average |-> flag(d[6], 128),
   stopped |-> flag(d[6], 1), statute |-> flag(d[6], 2)]

build_precise_water_temperature(r) ==
  LET value == r.celsius_times_10 + 100
  IN  Datagram(\h27, 4, 0, <<high_byte(value), low_byte(value)>>)
parse_precise_water_temperature(d) ==
  [celsius_times_10 |-> two_bytes(d, 2) - 100]

WindAlarm ==
  [ apparent_wind_angle_low |-> 128, apparent_wind_angle_high |-> 64,
    apparent_wind_speed_low |-> 32,  apparent_wind_speed_high |-> 16,
    true_wind_angle_low     |-> 8,   true_wind_angle_high     |-> 4,
    true_wind_speed_low     |-> 2,   true_wind_speed_high     |-> 1 ]

build_wind_alarm(r) ==
  LET yz(alarm) == Bit(alarm \in r.alarms, WindAlarm[alarm])
  IN  Datagram(\h66, 3, 0,
        <<yz("apparent_wind_angle_low") + yz("apparent_wind_angle_high")
            + yz("apparent_wind_speed_low") + yz("apparent_wind_speed_high")
            + yz("true_wind_angle_low") + yz("true_wind_angle_high")
            + yz("true_wind_speed_low") + yz("true_wind_speed_high")>>)
parse_wind_alarm(d) == [alarms |-> Marked(d[2], WindAlarm)]

-----------------------------------------------------------------------------
(* Units, lamps, failures, settings: one code for each choice              *)

UnitsCode == [nautical |-> 0, statute |-> 6, metric |-> 134]
FailureCode == [none |-> 0, auto_release_error |-> 1, drive_stopped |-> 8]
LevelCode == [automatic_deadband |-> 0, minimum_deadband |-> 1]

Coded(codes, byte) == CHOOSE choice \in DOMAIN codes : codes[choice] = byte

build_speed_distance_units(r) ==
  Datagram(\h24, 5, 0, <<0, 0, UnitsCode[r.units]>>)
parse_speed_distance_units(d) ==
  [units |-> IF d[4] \in {0, 6} THEN Coded(UnitsCode, d[4]) ELSE "metric"]

build_lamp_intensity(r) == Datagram(\h30, 3, 0, <<4 * r.level>>)
parse_lamp_intensity(d) == [level |-> last_nibble(d[2]) \div 4]

build_course_computer_failure(r) ==
  Datagram(\h83, 10, 0, <<FailureCode[r.failure]>>)
parse_course_computer_failure(d) == [failure |-> Coded(FailureCode, d[2])]

build_set_autopilot_response_level(r) ==
  Datagram(\h87, 3, 0, <<LevelCode[r.level]>>)
parse_set_autopilot_response_level(d) ==
  [level |-> Coded(LevelCode, last_nibble(d[2]))]

build_set_rudder_gain(r) == Datagram(\h91, 3, 0, <<r.gain % 16>>)
parse_set_rudder_gain(d) == [gain |-> last_nibble(d[2])]

-----------------------------------------------------------------------------
(* Position, speed and course over ground, time, satellites                *)

\* South and east are the high bit of the minutes.
build_lat_position(r) ==
  LET minutes == r.minutes_times_100 + Bit(r.hemisphere = "S", 32768)
  IN  Datagram(\h50, 5, 0, <<r.degrees, high_byte(minutes), low_byte(minutes)>>)
parse_lat_position(d) ==
  [hemisphere |-> IF flag(two_bytes(d, 3), 32768) THEN "S" ELSE "N",
   degrees |-> d[2], minutes_times_100 |-> two_bytes(d, 3) % 32768]

build_lon_position(r) ==
  LET minutes == r.minutes_times_100 + Bit(r.hemisphere # "W", 32768)
  IN  Datagram(\h51, 5, 0, <<r.degrees, high_byte(minutes), low_byte(minutes)>>)
parse_lon_position(d) ==
  [hemisphere |-> IF flag(two_bytes(d, 3), 32768) THEN "E" ELSE "W",
   degrees |-> d[2], minutes_times_100 |-> two_bytes(d, 3) % 32768]

build_speed_over_ground(r) ==
  Datagram(\h52, 4, 0,
    <<high_byte(r.knots_times_10), low_byte(r.knots_times_10)>>)
parse_speed_over_ground(d) == [knots_times_10 |-> two_bytes(d, 2)]

build_course_over_ground(r) ==
  LET c == uvw_compass(r.degrees) IN Datagram(\h53, 3, c.u, <<c.vw>>)
parse_course_over_ground(d) ==
  LET u == first_nibble(d[1])
  IN  [degrees |-> QuarterTurns(u, d[2]) + u \div 8]

build_gmt_time(r) ==
  Datagram(\h54, 4, r.second % 16,
    <<4 * r.minute + r.second \div 16, r.hour>>)
parse_gmt_time(d) ==
  [hour |-> d[3], minute |-> d[2] \div 4,
   second |-> 16 * (d[2] % 4) + first_nibble(d[1])]

build_date(r) == Datagram(\h56, 4, r.month, <<r.day, r.year - 1970>>)
parse_date(d) ==
  [year |-> d[3] + 1970, month |-> first_nibble(d[1]), day |-> d[2]]

build_satellite_info(r) == Datagram(\h57, 3, r.satellites, <<r.dilution>>)
parse_satellite_info(d) ==
  [satellites |-> first_nibble(d[1]), dilution |-> d[2]]

build_lat_lon_position(r) ==
  Datagram(\h58, 8, Bit(r.ns = "S", 1) + Bit(r.ew = "E", 2),
    <<r.lat, high_byte(r.lat_minutes_times_1000),
      low_byte(r.lat_minutes_times_1000),
      r.lon, high_byte(r.lon_minutes_times_1000),
      low_byte(r.lon_minutes_times_1000)>>)
parse_lat_lon_position(d) ==
  LET z == first_nibble(d[1])
  IN  [ns |-> IF flag(z, 1) THEN "S" ELSE "N", lat |-> d[2],
       lat_minutes_times_1000 |-> two_bytes(d, 3),
       ew |-> IF flag(z, 2) THEN "E" ELSE "W", lon |-> d[5],
       lon_minutes_times_1000 |-> two_bytes(d, 6)]

-----------------------------------------------------------------------------
(* Navigation and autopilot.  What a parse function that checks complements*)
(* returns is a set: empty when it finds an error.                         *)

build_target_waypoint_name(r) ==
  LET c  == [i \in 1..4 |-> r.name[i] - 48]
      xx == (c[1] % 64) + 64 * (c[2] % 4)
      yy == c[2] \div 4 + 16 * (c[3] % 16)
      zz == ((c[3] \div 16) % 4) + 4 * c[4]
  IN  Datagram(\h82, 8, 0,
        <<xx, complement_checksum(xx), yy, complement_checksum(yy),
          zz, complement_checksum(zz)>>)
\* The letters, once the complements are right
NameIn(d) ==
  [name |-> << 48 + (d[2] % 64),
               48 + 4 * (d[4] % 16) + d[2] \div 64,
               48 + 16 * (d[6] % 4) + d[4] \div 16,
               48 + d[6] \div 4 >>]

\* Mutant of parse_target_waypoint_name: the last pair is not checked
Mutant_parse_target_waypoint_name(d) ==
  IF \E i \in {2, 4} : d[i] + d[i + 1] # 255 THEN {} ELSE {NameIn(d)}

parse_target_waypoint_name(d) ==
  IF \E i \in {2, 4, 6} : d[i] + d[i + 1] # 255 THEN {} ELSE {NameIn(d)}

AutopilotAlarm == [autopilot_off_course |-> 4, autopilot_wind_shift |-> 8]

build_autopilot_status(r) ==
  LET c == uvw_heading_and_turning_direction(r.heading, r.turning)
  IN  Datagram(\h84, 9, c.u,
        <<c.vw + 64 * (r.target \div 90), 2 * (r.target % 90), r.mode,
          Bit("autopilot_off_course" \in r.alarms, 4)
            + Bit("autopilot_wind_shift" \in r.alarms, 8),
          r.rudder, r.display, 0>>)
parse_autopilot_status(d) ==
  LET u == first_nibble(d[1])
  IN  [heading |-> QuarterTurns(u, d[2]) + HighBits(u),
       turning |-> Turning(u),
       target |-> 90 * (d[2] \div 64) + d[3] \div 2,
       mode |-> last_nibble(d[4]),
       alarms |-> Marked(last_nibble(d[5]), AutopilotAlarm),
       rudder |-> fix_twos_complement_char(d[6]),
       display |-> d[7]]

build_waypoint_navigation(r) ==
  LET near  == r.range < 1000
      range == IF near THEN r.range ELSE r.range \div 10
      turn  == 2 * (r.bearing % 90)
      yf    == Bit(near, 16) + Bit(r.steer > 0, 64)
                 + Bit(r.error_present, 1) + Bit(r.bearing_present, 2)
                 + Bit(r.range_present, 4) + Bit(r.error >= 30, 8)
  IN  Datagram(\h85, 9, (r.error \div 256) % 16,
        << r.error % 256,
           16 * (turn % 16) + r.bearing \div 90 + Bit(~r.magnetic, 8),
           16 * (range \div 256) + turn \div 16,
           range % 256, yf, 0, complement_checksum(yf) >>)
parse_waypoint_navigation(d) ==
  IF ~OrIsFull(d[6], d[8]) THEN {}
  ELSE {[error |-> 256 * first_nibble(d[1]) + d[2],
         bearing |-> 90 * (d[3] % 4)
                       + (16 * last_nibble(d[4]) + first_nibble(d[3])) \div 2,
         magnetic |-> ~flag(d[3], 8),
         range |-> (256 * first_nibble(d[4]) + d[5])
                     * (IF flag(d[6], 16) THEN 1 ELSE 10),
         steer |-> IF flag(d[6], 64) THEN 1 ELSE -1,
         error_present |-> flag(d[6], 1),
         bearing_present |-> flag(d[6], 2),
         range_present |-> flag(d[6], 4)]}

build_autopilot_command(r) ==
  Datagram(\h86, 4, 2, <<r.command, complement_checksum(r.command)>>)
parse_autopilot_command(d) ==
  IF ~OrIsFull(d[2], d[3]) THEN {} ELSE {[command |-> d[2]]}

build_heading(r) ==
  LET c == uvw_compass(r.heading)
  IN  Datagram(\h89, 5, c.u,
        <<c.vw + 64 * (r.locked \div 90), 2 * (r.locked % 90),
          32 + Bit(r.locked_active, 2)>>)
parse_heading(d) ==
  LET u == first_nibble(d[1])
  IN  [heading |-> QuarterTurns(u, d[2]) + u \div 8,
       locked_active |-> flag(last_nibble(d[4]), 2),
       locked |-> 90 * (d[2] \div 64) + d[3] \div 2]

build_compass_variation(r) == Datagram(\h99, 3, 0, <<r.degrees>>)
parse_compass_variation(d) == [degrees |-> fix_twos_complement_char(d[2])]

build_heading_and_rudder_position(r) ==
  LET c == uvw_heading_and_turning_direction(r.heading, r.turning)
  IN  Datagram(\h9C, 4, c.u, <<c.vw, r.rudder>>)
parse_heading_and_rudder_position(d) ==
  LET u == first_nibble(d[1])
  IN  [heading |-> (QuarterTurns(u, d[2]) + HighBits(u)) % 360,
       turning |-> Turning(u), rudder |-> fix_twos_complement_char(d[3])]

-----------------------------------------------------------------------------
(* A datagram's command byte decides who builds and parses it.             *)

Build(kind, r) ==
  CASE kind = "00" -> build_depth_below_transducer(r)
    [] kind = "05" -> build_engine_rpm_and_pitch(r)
    [] kind = "10" -> build_apparent_wind_angle(r)
    [] kind = "11" -> build_apparent_wind_speed(r)
    [] kind = "20" -> build_water_speed(r)
    [] kind = "21" -> build_trip_mileage(r)
    [] kind = "22" -> build_total_mileage(r)
    [] kind = "23" -> build_water_temperature(r)
    [] kind = "24" -> build_speed_distance_units(r)
    [] kind = "25" -> build_total_and_trip_mileage(r)
    [] kind = "26" -> build_average_water_speed(r)
    [] kind = "27" -> build_precise_water_temperature(r)
    [] kind = "30" -> build_lamp_intensity(r)
    [] kind = "50" -> build_lat_position(r)
    [] kind = "51" -> build_lon_position(r)
    [] kind = "52" -> build_speed_over_ground(r)
    [] kind = "53" -> build_course_over_ground(r)
    [] kind = "54" -> build_gmt_time(r)
    [] kind = "56" -> build_date(r)
    [] kind = "57" -> build_satellite_info(r)
    [] kind = "58" -> build_lat_lon_position(r)
    [] kind = "66" -> build_wind_alarm(r)
    [] kind = "82" -> build_target_waypoint_name(r)
    [] kind = "83" -> build_course_computer_failure(r)
    [] kind = "84" -> build_autopilot_status(r)
    [] kind = "85" -> build_waypoint_navigation(r)
    [] kind = "86" -> build_autopilot_command(r)
    [] kind = "87" -> build_set_autopilot_response_level(r)
    [] kind = "89" -> build_heading(r)
    [] kind = "91" -> build_set_rudder_gain(r)
    [] kind = "99" -> build_compass_variation(r)
    [] kind = "9c" -> build_heading_and_rudder_position(r)

Parse(kind, d) ==
  CASE kind = "00" -> {parse_depth_below_transducer(d)}
    [] kind = "05" -> {parse_engine_rpm_and_pitch(d)}
    [] kind = "10" -> {parse_apparent_wind_angle(d)}
    [] kind = "11" -> {parse_apparent_wind_speed(d)}
    [] kind = "20" -> {parse_water_speed(d)}
    [] kind = "21" -> {parse_trip_mileage(d)}
    [] kind = "22" -> {parse_total_mileage(d)}
    [] kind = "23" -> {parse_water_temperature(d)}
    [] kind = "24" -> {parse_speed_distance_units(d)}
    [] kind = "25" -> {parse_total_and_trip_mileage(d)}
    [] kind = "26" -> {parse_average_water_speed(d)}
    [] kind = "27" -> {parse_precise_water_temperature(d)}
    [] kind = "30" -> {parse_lamp_intensity(d)}
    [] kind = "50" -> {parse_lat_position(d)}
    [] kind = "51" -> {parse_lon_position(d)}
    [] kind = "52" -> {parse_speed_over_ground(d)}
    [] kind = "53" -> {parse_course_over_ground(d)}
    [] kind = "54" -> {parse_gmt_time(d)}
    [] kind = "56" -> {parse_date(d)}
    [] kind = "57" -> {parse_satellite_info(d)}
    [] kind = "58" -> {parse_lat_lon_position(d)}
    [] kind = "66" -> {parse_wind_alarm(d)}
    [] kind = "82" -> parse_target_waypoint_name(d)
    [] kind = "83" -> {parse_course_computer_failure(d)}
    [] kind = "84" -> {parse_autopilot_status(d)}
    [] kind = "85" -> parse_waypoint_navigation(d)
    [] kind = "86" -> parse_autopilot_command(d)
    [] kind = "87" -> {parse_set_autopilot_response_level(d)}
    [] kind = "89" -> {parse_heading(d)}
    [] kind = "91" -> {parse_set_rudder_gain(d)}
    [] kind = "99" -> {parse_compass_variation(d)}
    [] kind = "9c" -> {parse_heading_and_rudder_position(d)}

-----------------------------------------------------------------------------
(* What a datagram has room for                                            *)

\* As a filter: an interval of all words is long for a prover.
Between(lowest, highest) == {n \in Int : lowest <= n /\ n <= highest}

Nibble == 0..15
Char == 0..255
SignedChar == -128..127
Word == Between(0, 65535)
SignedWord == Between(-32768, 32767)
FifteenBits == Between(0, 32767)
FiveNibbles == Between(0, 1048575)
Rpm == Between(-32768, 65535)
Celsius == Between(-100, 65435)
Degrees == Between(0, 359)
Knots == Between(0, 1279)
Turns == {"left", "right"}

\* The readings that fit the fields of a kind of datagram.  An engine's speed
\* may also be negative: build_engine_rpm_and_pitch says so.
Readings(kind) ==
  CASE kind = "00" -> [depth : Word, metres : BOOLEAN,
                       alarms : SUBSET DOMAIN DepthAlarm, defective : BOOLEAN]
    [] kind = "05" -> [engine : DOMAIN EngineCode, rpm : Rpm,
                       pitch : SignedChar]
    [] kind = "10" -> [half_degrees : SignedWord]
    [] kind = "11" -> [knots_times_10 : Knots, metric : BOOLEAN]
    [] kind = "20" -> [knots_times_10 : Word]
    [] kind = "21" -> [miles_times_100 : FiveNibbles]
    [] kind = "22" -> [miles_times_10 : Word]
    [] kind = "23" -> [fahrenheit : Char, defective : BOOLEAN]
    [] kind = "24" -> [units : DOMAIN UnitsCode]
    [] kind = "25" -> [total : FiveNibbles, trip : FiveNibbles]
    [] kind = "26" -> [knots_1 : Word, knots_2 : Word,
                       speed_1_from_sensor : BOOLEAN,
                       speed_2_is_average : BOOLEAN,
                       stopped : BOOLEAN, statute : BOOLEAN]
    [] kind = "27" -> [celsius_times_10 : Celsius]
    [] kind = "30" -> [level : 0..3]
    [] kind = "50" -> [hemisphere : {"N", "S"}, degrees : Char,
                       minutes_times_100 : FifteenBits]
    [] kind = "51" -> [hemisphere : {"E", "W"}, degrees : Char,
                       minutes_times_100 : FifteenBits]
    [] kind = "52" -> [knots_times_10 : Word]
    [] kind = "53" -> [degrees : Degrees]
    [] kind = "54" -> [hour : Char, minute : 0..63, second : 0..63]
    [] kind = "56" -> [year : Between(1970, 2225), month : Nibble, day : Char]
    [] kind = "57" -> [satellites : Nibble, dilution : Char]
    [] kind = "58" -> [ns : {"N", "S"}, lat : Char,
                       lat_minutes_times_1000 : Word,
                       ew : {"E", "W"}, lon : Char,
                       lon_minutes_times_1000 : Word]
    [] kind = "66" -> [alarms : SUBSET DOMAIN WindAlarm]
    [] kind = "82" -> [name : [1..4 -> 48..111]]
    [] kind = "83" -> [failure : DOMAIN FailureCode]
    [] kind = "84" -> [heading : Degrees, turning : Turns, target : Degrees,
                       mode : Nibble, alarms : SUBSET DOMAIN AutopilotAlarm,
                       rudder : SignedChar, display : Char]
    [] kind = "85" -> [error : Between(0, 4095), bearing : Degrees,
                       magnetic : BOOLEAN, range : Between(0, 40959),
                       steer : {-1, 1}, error_present : BOOLEAN,
                       bearing_present : BOOLEAN, range_present : BOOLEAN]
    [] kind = "86" -> [command : Char]
    [] kind = "87" -> [level : DOMAIN LevelCode]
    [] kind = "89" -> [heading : Degrees, locked_active : BOOLEAN,
                       locked : Degrees]
    [] kind = "91" -> [gain : Nibble]
    [] kind = "99" -> [degrees : SignedChar]
    [] kind = "9c" -> [heading : Degrees, turning : Turns, rudder : SignedChar]

Kinds ==
  { "00", "05", "10", "11", "20", "21", "22", "23", "24", "25", "26", "27",
    "30", "50", "51", "52", "53", "54", "56", "57", "58", "66", "82", "83",
    "84", "85", "86", "87", "89", "91", "99", "9c" }

ASSUME ReportsAssumption ==
  \A report \in Reports :
    report.kind \in Kinds /\ report.reading \in Readings(report.kind)

\* The sensors that go out together, and the values their datagrams have room
\* for
SensorValues ==
  [heading : Degrees]
    \cup [heading : Degrees, rudder_position : SignedChar]
    \cup [water_speed : Word]
    \cup [apparent_wind_angle : Between(-16384, 16383)]
    \cup [apparent_wind_speed : Knots]
    \cup [depth_below_transducer : Word]
    \cup [course_over_ground : Degrees]
    \cup [speed_over_ground : Between(0, 655359)]
    \cup [water_temperature : Celsius]
ASSUME WritingsAssumption == Writings \subseteq SensorValues

ASSUME DamageAssumption == MaxDamage \in Nat

-----------------------------------------------------------------------------
(* seatalk_protocol.c: statuses from readings.  Alarms are in              *)
(* SeatalkStatus.  The other kinds have no handler or one without effect.  *)

Given(condition, names) == IF condition THEN names ELSE {}

Statuses(kind, p) ==
  CASE kind = "00" -> [depth_below_transducer |-> p.depth]
    [] kind = "05" -> [engine |-> p]
    [] kind = "10" -> [apparent_wind_angle |-> p.half_degrees \div 2]
    [] kind = "11" -> [apparent_wind_speed |-> p.knots_times_10]
    [] kind = "20" -> [water_speed |-> 10 * p.knots_times_10]
    [] kind = "21" -> [trip_mileage |-> p.miles_times_100]
    [] kind = "22" -> [total_mileage |-> p.miles_times_10]
    [] kind = "23" -> [water_temperature |->
                         Quotient(50 * (p.fahrenheit - 32), 9)]
    [] kind = "25" -> [trip_mileage |-> p.trip, total_mileage |-> p.total]
    [] kind = "26" -> [average_water_speed |-> p.knots_2]
    [] kind = "27" -> [water_temperature |-> p.celsius_times_10]
    [] kind = "50" -> [position_latitude |->
                         <<p.hemisphere, p.degrees, 10 * p.minutes_times_100>>]
    [] kind = "51" -> [position_longitude |->
                         <<p.hemisphere, p.degrees, 10 * p.minutes_times_100>>]
    [] kind = "52" -> [speed_over_ground |-> 10 * p.knots_times_10]
    [] kind = "53" -> [course_over_ground |-> p.degrees]
    [] kind = "54" -> [gmt_time |-> p]
    [] kind = "56" -> [gmt_date |-> p]
    [] kind = "57" -> [satellite_count |-> <<p.satellites, 0>>,
                       position_error |-> p.dilution]
    [] kind = "58" -> [position_latitude |->
                         <<p.ns, p.lat, p.lat_minutes_times_1000>>,
                       position_longitude |->
                         <<p.ew, p.lon, p.lon_minutes_times_1000>>]
    [] kind = "84" -> [heading |-> p.heading, turn_direction |-> p.turning,
                       target_heading |-> p.target, mode |-> p.mode,
                       rudder_position |-> p.rudder]
    [] kind = "85" ->
         [name \in Given(p.error_present, {"cross_track_error"})
                      \cup Given(p.bearing_present /\ p.range_present,
                                 {"waypoint_bearing", "waypoint_range"}) |->
            CASE name = "cross_track_error" -> p.error
              [] name = "waypoint_bearing"  -> <<p.bearing, p.magnetic>>
              [] name = "waypoint_range"    -> p.range]
    [] kind = "89" -> [heading |-> p.heading]
    [] kind = "99" -> [compass_variation |-> p.degrees]
    [] kind = "9c" -> [heading |-> p.heading, turn_direction |-> p.turning,
                       rudder_position |-> p.rudder]
    [] OTHER       -> << >>

\* What the datagram of the sensors that w has values of is made of
SensorReport(w) ==
  LET Of(kind, reading) == [kind |-> kind, reading |-> reading]
      Has(sensors) == DOMAIN w = sensors
  IN  CASE Has({"heading", "rudder_position"}) ->
             Of("9c", [heading |-> w.heading, turning |-> "none",
                       rudder |-> w.rudder_position])
        [] Has({"heading"}) ->
             Of("89", [heading |-> w.heading, locked_active |-> FALSE,
                       locked |-> 0])
        [] Has({"water_speed"}) ->
             Of("26", [knots_1 |-> w.water_speed, knots_2 |-> 0,
                       speed_1_from_sensor |-> TRUE,
                       speed_2_is_average |-> FALSE,
                       stopped |-> TRUE, statute |-> FALSE])
        [] Has({"apparent_wind_angle"}) ->
             Of("10", [half_degrees |-> 2 * w.apparent_wind_angle])
        [] Has({"apparent_wind_speed"}) ->
             Of("11", [knots_times_10 |-> w.apparent_wind_speed,
                       metric |-> FALSE])
        [] Has({"depth_below_transducer"}) ->
             Of("00", [depth |-> w.depth_below_transducer, metres |-> FALSE,
                       alarms |-> {}, defective |-> FALSE])
        [] Has({"course_over_ground"}) ->
             Of("53", [degrees |-> w.course_over_ground])
        [] Has({"speed_over_ground"}) ->
             Of("52", [knots_times_10 |-> w.speed_over_ground \div 10])
        [] Has({"water_temperature"}) ->
             Of("27", [celsius_times_10 |-> w.water_temperature])

-----------------------------------------------------------------------------
(* A datagram at a time                                                    *)

Nothing == [kind |-> "", reading |-> << >>, written |-> << >>]

Init ==
  /\ phase = "idle"
  /\ origin = Nothing
  /\ datagram = << >>
  /\ damage = 0
  /\ parsed = {}
  /\ status = << >>

Send(report, written) ==
  /\ phase = "idle"
  /\ phase' = "sent"
  /\ origin' = [kind |-> report.kind, reading |-> report.reading,
                written |-> written]
  /\ datagram' = Build(report.kind, report.reading)
  /\ UNCHANGED <<damage, parsed, status>>

\* Another instrument reports something.
Report == \E report \in Reports : Send(report, << >>)

\* build_sensor_datagram
TransmitSensor == \E w \in Writings : Send(SensorReport(w), w)

\* The bytes that come with complements
Checked ==
  CASE origin.kind = "82" -> 2..7
    [] origin.kind = "85" -> {6, 8}
    [] origin.kind = "86" -> {2, 3}
    [] OTHER              -> {}

\* Another talker pulls a bit low: the line is the AND of all outputs.
PullLow ==
  /\ phase = "sent"
  /\ damage < MaxDamage
  /\ \E i \in Checked, bit \in Weights :
       /\ flag(datagram[i], bit)
       /\ datagram' = [datagram EXCEPT ![i] = @ - bit]
  /\ damage' = damage + 1
  /\ UNCHANGED <<phase, origin, parsed, status>>

handle_seatalk_datagram ==
  /\ phase = "sent"
  /\ phase' = "handled"
  /\ parsed' = Parse(origin.kind, datagram)
  /\ status' = IF parsed' = {} THEN << >>
               ELSE Statuses(origin.kind, CHOOSE p \in parsed' : TRUE)
  /\ UNCHANGED <<origin, datagram, damage>>

Forget ==
  /\ phase = "handled"
  /\ phase' = "idle"
  /\ origin' = Nothing
  /\ datagram' = << >>
  /\ damage' = 0
  /\ parsed' = {}
  /\ status' = << >>

Next == Report \/ TransmitSensor \/ PullLow \/ handle_seatalk_datagram \/ Forget

Spec == Init /\ [][Next]_vars

-----------------------------------------------------------------------------
(* Properties                                                              *)

\* Type invariant: a datagram is bytes, from the command byte on.
TypeOK ==
  /\ phase \in {"idle", "sent", "handled"}
  /\ damage \in 0..MaxDamage
  /\ \A i \in DOMAIN datagram : datagram[i] \in 0..255
  /\ phase # "idle" => DOMAIN datagram = 0..Cardinality(DOMAIN datagram) - 1

\* The length nibble of the second byte says how long a datagram is whatever
\* the other nibble carries, so that the transport layer (which counts the
\* bytes to come from it) takes it for complete at its last byte.
LengthAnnounced ==
  phase = "sent" =>
    Cardinality(DOMAIN datagram) = get_datagram_length(datagram[1]) + 3

\* What a kind resolves: a heading that turns right may be 360 for 0 in the
\* autopilot's datagram; a range of ten miles or more is in tenths.
Resolved(kind, r) ==
  CASE kind = "84" -> [r EXCEPT !.heading = @ % 360]
    [] kind = "85" -> [r EXCEPT !.range = IF @ < 1000 THEN @
                                          ELSE 10 * (@ \div 10)]
    [] OTHER       -> r

\* What an instrument reports is what parsing its datagram gives, at every
\* boundary of the fields the values are cut into.
RoundTrips ==
  phase = "handled" /\ origin.written = << >> /\ damage = 0 =>
    {Resolved(origin.kind, p) : p \in parsed}
      = {Resolved(origin.kind, origin.reading)}

\* The driver hears its own sensors.  A status that the echo of a sensor's
\* datagram sets and that has the sensor's name is the value written to the
\* sensor (speed over ground is sent in tenths of a knot), and all sensors but
\* the water speed set theirs.
EchoShowsReading ==
  phase = "handled" =>
    LET written == origin.written
        Shown(s) == IF s = "speed_over_ground" THEN 10 * (written[s] \div 10)
                                               ELSE written[s]
    IN  /\ DOMAIN written \ {"water_speed"} \subseteq DOMAIN status
        /\ \A s \in DOMAIN written \cap DOMAIN status : status[s] = Shown(s)

\* Bits pulled low in bytes that come with complements are noticed: nothing is
\* made of the datagram.
DamageNoticed == phase = "handled" /\ damage > 0 => parsed = {} /\ status = << >>

(* Properties that do not hold *)

\* convert_AUTOPILOT_MODE_to_string
ModeShown(mode) ==
  CASE mode = 1 -> "auto" [] mode = 2 -> "vane" [] mode = 3 -> "track"
    [] OTHER -> "standby"

\* ST_AUTOPILOT_MODE and the comment in build_autopilot_status: how an
\* autopilot says its mode.
ModeReported(mode) ==
  CASE mode = 2 -> "auto" [] mode = 4 -> "vane" [] mode = 8 -> "track"
    [] OTHER -> "standby"

\* The mode that is shown is the mode that the autopilot reports.
ModeIsShown ==
  phase = "handled" /\ origin.kind = "84" =>
    ModeShown(status.mode) = ModeReported(origin.reading.mode)

\* The echo of a sensor's datagram sets nothing but what was written to it.
EchoInventsNothing ==
  phase = "handled" /\ origin.written # << >> =>
    DOMAIN status \subseteq DOMAIN origin.written

\* The water speed that is written is shown as well.
EchoShowsWaterSpeed ==
  phase = "handled" => DOMAIN origin.written \subseteq DOMAIN status

\* A heading that is set is less than 360.
HeadingInRange == "heading" \in DOMAIN status => status.heading \in 0..359

\* The response level is sent as the comment in
\* build_set_autopilot_response_level says.
LevelIsSentAsDocumented ==
  phase = "sent" /\ origin.kind = "87" =>
    datagram[2] = (IF origin.reading.level = "automatic_deadband" THEN 1 ELSE 2)

\* An engine that turns backwards has a negative speed ("signed value").
RpmIsSigned ==
  phase = "handled" /\ origin.kind = "05" =>
    status.engine.rpm = origin.reading.rpm

=============================================================================
