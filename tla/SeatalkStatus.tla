--------------------------- MODULE SeatalkStatus ---------------------------
(***************************************************************************)
(* What received datagrams do (update_seatalk_state, seatalk_protocol.c),  *)
(* the status values they leave behind (boat_status.c), and their readers  *)
(* (the sysfs files of linux/seatalk_module.c).  A datagram is handled in  *)
(* the receive interrupt, which may come between any two words a reader    *)
(* copies.                                                                 *)
(*                                                                         *)
(* A value is a tag: every field a datagram sets takes the datagram's      *)
(* reading.  How a value is coded in a datagram is not modelled here.      *)
(***************************************************************************)
EXTENDS Naturals, TLC

CONSTANTS
  Heard,                \* the command bytes heard on the bus
  Asked,                \* what readers ask for, of Getter
  AlarmsUsed,           \* the alarms that may be raised
  Readings,
  None,                 \* a field that was never set
  STATUS_TIME_TO_LIVE

\* Statuses of one word, with one setter each.
Word ==
  { "depth_below_transducer", "apparent_wind_angle", "apparent_wind_speed",
    "heading", "turn_direction", "water_speed", "average_water_speed",
    "rudder_position", "course_over_ground", "speed_over_ground",
    "trip_mileage", "total_mileage", "water_temperature", "compass_variation" }

EngineWords ==
     "engine_single"    :> {"rpm_single", "pitch_percent_single"}
  @@ "engine_port"      :> {"rpm_port", "pitch_percent_port"}
  @@ "engine_starboard" :> {"rpm_starboard", "pitch_percent_starboard"}
Engine == DOMAIN EngineWords

\* What a setter writes: the words, and the timeout it restarts.
Sets(timeout, words) == [timeout |-> timeout, words |-> words]

GpsSetters ==
     "signal_quality"  :> {"signal_quality"}
  @@ "position_error"  :> {"position_error"}
  @@ "antenna_height"  :> {"antenna_height"}
  @@ "satellite_count" :> {"satellite_count", "geoseparation"}
  @@ "dgps_age"        :> {"dgps_age"}
  @@ "dgps_station_id" :> {"dgps_station_id"}

\* bearing_and_range comes with set_navigation_waypoint_bearing_reference.
NavigationSetters ==
     "cross_track_error" :> {"cross_track_error"}
  @@ "bearing_and_range" :> {"waypoint_bearing", "waypoint_range",
                             "waypoint_bearing_reference"}

StructSetters ==
     "position_latitude"  :> Sets("position_latitude",
                                  {"degrees_latitude", "minutes_latitude"})
  @@ "position_longitude" :> Sets("position_longitude",
                                  {"degrees_longitude", "minutes_longitude"})
  @@ "gmt_date"  :> Sets("gmt_date", {"year", "month", "day"})
  @@ "gmt_time"  :> Sets("gmt_time", {"hour", "minute", "second"})
  @@ "autopilot" :> Sets("autopilot", {"target_heading", "mode"})
  @@ [e \in Engine |-> Sets(e, EngineWords[e])]

Setter ==
     [w \in Word |-> Sets(w, {w})]
  @@ StructSetters
  @@ [g \in DOMAIN GpsSetters |-> Sets("gps_fix_quality", GpsSetters[g])]
  @@ [n \in DOMAIN NavigationSetters |-> Sets("navigation", NavigationSetters[n])]

Status == {Setter[s].timeout : s \in DOMAIN Setter} \cup {"active_alarms"}
Field == UNION {Setter[s].words : s \in DOMAIN Setter}

WordsUnder(timeouts) ==
  UNION {Setter[s].words : s \in {s \in DOMAIN Setter : Setter[s].timeout \in timeouts}}

\* A getter copies a word or a whole struct, if all the timeouts it looks at
\* are still valid.
Getter ==
     [s \in Word \cup Engine \cup {"autopilot", "gps_fix_quality", "navigation"} |-> {s}]
  @@ "position"          :> {"position_latitude", "position_longitude"}
  @@ "gmt_date_and_time" :> {"gmt_date", "gmt_time"}

-----------------------------------------------------------------------------
(* The datagrams *)

DepthAlarm == {"shallow_water", "deep_water", "anchor"}
WindAlarm ==
  { "apparent_wind_angle_low", "apparent_wind_angle_high",
    "apparent_wind_speed_low", "apparent_wind_speed_high",
    "true_wind_angle_low", "true_wind_angle_high",
    "true_wind_speed_low", "true_wind_speed_high" }
AutopilotAlarm == {"autopilot_off_course", "autopilot_wind_shift"}
Alarm == DepthAlarm \cup WindAlarm \cup AutopilotAlarm

\* The setters each datagram calls, when there is no choice.
PlainUpdates ==
     "00" :> {"depth_below_transducer"}
  @@ "10" :> {"apparent_wind_angle"}
  @@ "11" :> {"apparent_wind_speed"}
  @@ "20" :> {"water_speed"}
  @@ "21" :> {"trip_mileage"}
  @@ "22" :> {"total_mileage"}
  @@ "23" :> {"water_temperature"}
  @@ "25" :> {"trip_mileage", "total_mileage"}
  @@ "26" :> {"average_water_speed"}
  @@ "27" :> {"water_temperature"}
  @@ "50" :> {"position_latitude"}
  @@ "51" :> {"position_longitude"}
  @@ "52" :> {"speed_over_ground"}
  @@ "53" :> {"course_over_ground"}
  @@ "54" :> {"gmt_time"}
  @@ "56" :> {"gmt_date"}
  @@ "57" :> {"satellite_count", "position_error"}
  @@ "58" :> {"position_latitude", "position_longitude"}
  @@ "66" :> {}
  @@ "84" :> {"heading", "turn_direction", "autopilot", "rudder_position"}
  @@ "89" :> {"heading"}
  @@ "99" :> {"compass_variation"}
  @@ "9c" :> {"heading", "turn_direction", "rudder_position"}

\* 05 names an engine, 85 and a5 say which of their parts are present.  The
\* flag of dgps_age is one that also announces a dgps_station_id.
update_engine_rpm_and_pitch == { {e} : e \in Engine }
update_waypoint_navigation == SUBSET DOMAIN NavigationSetters
update_gps_and_dgps_fix_info ==
  { setters \in SUBSET DOMAIN GpsSetters :
      /\ "antenna_height" \in setters
      /\ "dgps_age" \in setters => "dgps_station_id" \in setters }

Updates(command) ==
  CASE command = "05" -> update_engine_rpm_and_pitch
    [] command = "85" -> update_waypoint_navigation
    [] command = "a5" -> update_gps_and_dgps_fix_info
    [] OTHER          -> {PlainUpdates[command]}

\* The alarms a datagram has bits for.
AlarmsIn(command) ==
  CASE command = "00" -> DepthAlarm
    [] command = "66" -> WindAlarm
    [] command = "84" -> AutopilotAlarm
    [] OTHER          -> {}

ASSUME StatusAssumption ==
  /\ Heard \subseteq DOMAIN PlainUpdates \cup {"05", "85", "a5"}
  /\ Asked \subseteq DOMAIN Getter
  /\ AlarmsUsed \subseteq Alarm
  /\ None \notin Readings /\ None \notin Nat
  /\ STATUS_TIME_TO_LIVE \in Nat \ {0}

\* Facts of the tables that the proofs use: datagrams call setters, and no
\* setter restarts the timeout of the alarms.
ASSUME TablesAssumption ==
  /\ \A command \in Heard : Updates(command) \subseteq SUBSET DOMAIN Setter
  /\ \A s \in DOMAIN Setter : Setter[s].timeout # "active_alarms"

-----------------------------------------------------------------------------

VARIABLES
  expiry,         \* seconds until a status times out; 0: it is not valid
  field,
  active_alarms,
  reader,         \* a getter between its check and its return, or NoReader
  shown,          \* the alarm files that said "on" when they were read last
  age,            \* seconds since a field was set, up to the time to live
  reported,       \* seconds since an alarm was reported, up to the time to
                  \* live, or None
  asserted        \* the alarms that were set in the last datagram with a bit
                  \* for them

statusVars == <<expiry, field, active_alarms>>
ghostVars == <<age, reported, asserted>>
vars == <<statusVars, reader, shown, ghostVars>>

NoReader == [getter |-> "none"]

\* After initialize_status.
Init ==
  /\ expiry = [s \in Status |-> 0]
  /\ field = [f \in Field |-> None]
  /\ active_alarms = {}
  /\ reader = NoReader
  /\ shown = {}
  /\ age = [f \in Field |-> STATUS_TIME_TO_LIVE]
  /\ reported = [a \in Alarm |-> None]
  /\ asserted = {}

valid(status) == expiry[status] > 0

\* Mutants of set_active_alarms: the alarms that are active are forgotten; those
\* that have timed out are not.
Mutant_AlarmsReplaced(alarms) ==
  active_alarms' = IF alarms = {} THEN active_alarms ELSE alarms

Mutant_AlarmsRevived(alarms) == active_alarms' = active_alarms \cup alarms

\* Alarms are only ever added to those that have not timed out, which live
\* on for another time to live.
set_active_alarms(alarms) ==
  active_alarms' =
    IF alarms = {} THEN active_alarms
    ELSE alarms \cup (IF valid("active_alarms") THEN active_alarms ELSE {})

\* Mutant of Restarted: the alarms that are active are written back by every
\* datagram.
Mutant_Restarted(setters, alarms) ==
  {Setter[s].timeout : s \in setters}
    \cup (IF alarms \cup active_alarms = {} THEN {} ELSE {"active_alarms"})

\* The timeouts a datagram restarts.
Restarted(setters, alarms) ==
  {Setter[s].timeout : s \in setters}
    \cup (IF alarms = {} THEN {} ELSE {"active_alarms"})

\* A datagram is handled, in the receive interrupt: its setters and, if it
\* reports any, its alarms.
update_seatalk_state(command, setters, alarms, reading) ==
  LET words == UNION {Setter[s].words : s \in setters}
      timeouts == Restarted(setters, alarms)
  IN  /\ field' = [f \in Field |-> IF f \in words THEN reading ELSE field[f]]
      /\ age' = [f \in Field |-> IF f \in words THEN 0 ELSE age[f]]
      /\ expiry' = [s \in Status |->
                      IF s \in timeouts THEN STATUS_TIME_TO_LIVE ELSE expiry[s]]
      /\ set_active_alarms(alarms)
      /\ reported' = [a \in Alarm |-> IF a \in alarms THEN 0 ELSE reported[a]]
      /\ asserted' = (asserted \ AlarmsIn(command)) \cup alarms
      /\ UNCHANGED <<reader, shown>>

handle_seatalk_datagram ==
  \E command \in Heard, reading \in Readings :
    \E setters \in Updates(command),
       alarms \in SUBSET (AlarmsIn(command) \cap AlarmsUsed) :
      update_seatalk_state(command, setters, alarms, reading)

\* Mutant of AllValid: one of two timeouts is enough.
Mutant_AllValid(getter) == \E s \in Getter[getter] : valid(s)

AllValid(getter) == \A s \in Getter[getter] : valid(s)

\* The getter's check.
CheckTimeouts ==
  /\ reader = NoReader
  /\ \E getter \in Asked :
       /\ AllValid(getter)
       /\ reader' = [getter |-> getter, left |-> WordsUnder(Getter[getter]),
                     copy |-> [f \in {} |-> None]]
  /\ UNCHANGED <<statusVars, shown, ghostVars>>

\* One word is copied, in whatever order the compiler chose.
CopyWord ==
  /\ reader # NoReader
  /\ \E f \in reader.left :
       reader' = [reader EXCEPT
                    !.left = @ \ {f},
                    !.copy = [g \in DOMAIN @ \cup {f} |-> IF g = f THEN field[f] ELSE @[g]]]
  /\ UNCHANGED <<statusVars, shown, ghostVars>>

Return ==
  /\ reader # NoReader
  /\ reader.left = {}
  /\ reader' = NoReader
  /\ UNCHANGED <<statusVars, shown, ghostVars>>

\* An alarm file is read.  When get_active_alarms fails, what is shown is a bit
\* of a local variable that nothing was stored in.
ShowAlarm ==
  \E a \in AlarmsUsed, on \in BOOLEAN :
    /\ valid("active_alarms") => (on <=> a \in active_alarms)
    /\ shown' = IF on THEN shown \cup {a} ELSE shown \ {a}
    /\ UNCHANGED <<statusVars, reader, ghostVars>>

Older(n) == IF n < STATUS_TIME_TO_LIVE THEN n + 1 ELSE n

\* Mutant of Second: a timeout is counted on when it has run out.
Mutant_Second ==
  /\ reader = NoReader
  /\ expiry' = [s \in Status |-> expiry[s] - 1]
  /\ UNCHANGED <<field, active_alarms, reader, shown, ghostVars>>

\* A second passes.  No reader takes that long.
Second ==
  /\ reader = NoReader
  /\ expiry' = [s \in Status |-> IF valid(s) THEN expiry[s] - 1 ELSE 0]
  /\ age' = [f \in Field |-> Older(age[f])]
  /\ reported' = [a \in Alarm |->
                    IF reported[a] = None THEN None ELSE Older(reported[a])]
  /\ UNCHANGED <<field, active_alarms, reader, shown, asserted>>

Next ==
  \/ handle_seatalk_datagram
  \/ CheckTimeouts \/ CopyWord \/ Return
  \/ ShowAlarm
  \/ Second

Spec == Init /\ [][Next]_vars

-----------------------------------------------------------------------------
(* Properties *)

TypeOK ==
  /\ expiry \in [Status -> 0 .. STATUS_TIME_TO_LIVE]
  /\ field \in [Field -> Readings \cup {None}]
  /\ active_alarms \subseteq Alarm
  /\ \/ reader = NoReader
     \/ /\ reader \in [getter : Asked, left : SUBSET Field, copy : {reader.copy}]
        /\ reader.copy \in [DOMAIN reader.copy -> Readings \cup {None}]
        /\ DOMAIN reader.copy \subseteq Field
  /\ shown \subseteq Alarm
  /\ age \in [Field -> 0 .. STATUS_TIME_TO_LIVE]
  /\ reported \in [Alarm -> (0 .. STATUS_TIME_TO_LIVE) \cup {None}]
  /\ asserted \subseteq Alarm

\* Whether a field is younger than the time to live.
Fresh(f) == age[f] < STATUS_TIME_TO_LIVE

\* Whether every setter that restarts a timeout sets all that is valid by it.
\* (Not those of gps_fix_quality and navigation.)
SetTogether(timeout) ==
  \A s \in DOMAIN Setter :
    Setter[s].timeout = timeout => WordsUnder({timeout}) \subseteq Setter[s].words

\* What is asked for and what a getter may return it with: a getter whose parts
\* are always broadcast together, or have timeouts of their own, returns
\* nothing that is older than the time to live, nor what was never received.
ReturnedIsFresh ==
  [][reader = NoReader /\ reader' # NoReader => \A f \in reader'.left : Fresh(f)]_vars

\* A part of a fix or of a navigation status that is flagged as valid (it has
\* been set) is not older than the time to live.
FlaggedIsFresh ==
  [][reader = NoReader /\ reader' # NoReader
       => \A f \in reader'.left : field[f] # None => Fresh(f)]_vars

\* The words a getter returns were all broadcast in one datagram, when a
\* datagram always carries them all.
ReturnedIsOneReading ==
  reader # NoReader =>
    \A f, g \in DOMAIN reader.copy : reader.copy[f] = reader.copy[g]

\* No alarm is lost: an alarm reported within the time to live is among the
\* active ones, whatever other alarms were reported by whom since.
AlarmKept ==
  \A a \in Alarm : reported[a] \in 0 .. STATUS_TIME_TO_LIVE - 1 =>
    valid("active_alarms") /\ a \in active_alarms

\* Once the alarms have timed out, a new one does not bring back the old ones.
NoAlarmRevived ==
  [][~valid("active_alarms") /\ valid("active_alarms")'
       => \A a \in active_alarms' : reported'[a] = 0]_vars

\* While any alarm is shown, one of those shown was reported within the time to
\* live: when no instrument reports an alarm they all end, though the
\* instruments go on sending.
AlarmsEndTogether ==
  valid("active_alarms") =>
    \E a \in active_alarms : reported[a] \in 0 .. STATUS_TIME_TO_LIVE - 1

\* An alarm ends when its instrument says so.
AlarmEnds == valid("active_alarms") => active_alarms \subseteq asserted

\* An alarm that is not reported any more times out.
AlarmTimesOut ==
  valid("active_alarms") =>
    \A a \in active_alarms : reported[a] \in 0 .. STATUS_TIME_TO_LIVE - 1

\* An alarm file that is read shows no alarm that was not on the bus.
NoPhantomAlarm == \A a \in shown : reported[a] # None

=============================================================================
