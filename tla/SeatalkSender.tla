--------------------------- MODULE SeatalkSender ---------------------------
(***************************************************************************)
(* Where datagrams come from: the sensors (boat_sensor.c), the commands    *)
(* (seatalk_command.c) and the choice between them (seatalk_protocol.c).   *)
(* Threads store sensor values and issue commands; the transmit interrupt  *)
(* takes the next datagram and keeps it until it has been sent or          *)
(* cancelled, as StopAndWait says it does.  Between any two accesses of a  *)
(* thread the interrupt may come; on a multiprocessor the thread may also  *)
(* run between two accesses of the interrupt.                              *)
(***************************************************************************)
EXTENDS Naturals

CONSTANTS
  Sensors,              \* those that are used, of SensorPriority
  Values,               \* sensor readings
  None,                 \* what a variable holds that was never written
  SENSOR_TIME_TO_LIVE,
  Expiry,               \* whether seconds pass
  Commands,             \* the datagrams the command functions build
  CommandsIssued,       \* bound: commands issued in a behaviour
  MAX_COMMAND_LOOPS,
  SLEEP_DURATION,
  Collisions,           \* whether a datagram may be cancelled
  SMP                   \* whether threads run beside the interrupt

\* The order in which seatalk_sensor_pending asks.
SensorPriority ==
  << "heading", "water_speed", "apparent_wind_angle", "apparent_wind_speed",
     "depth_below_transducer", "course_over_ground", "speed_over_ground",
     "water_temperature", "rudder_position" >>

ASSUME SenderAssumption ==
  /\ Sensors \subseteq {SensorPriority[i] : i \in 1 .. 9}
  /\ None \notin Values \cup Commands
  /\ SENSOR_TIME_TO_LIVE \in Nat \ {0}
  /\ CommandsIssued \in Nat /\ MAX_COMMAND_LOOPS \in Nat /\ SLEEP_DURATION \in Nat
  /\ Expiry \in BOOLEAN /\ Collisions \in BOOLEAN /\ SMP \in BOOLEAN

VARIABLES
  value, transmitted,   \* sensor_X and sensor_X_transmitted, per sensor
  ttl,                  \* seconds to sensor_X_expiry
  writer,               \* program counter of update_X_sensor
  age,                  \* seconds since value was stored
  command_datagram,     \* its first and its second half
  command_datagram_bytes_remaining,  \* the command whose length it is, None for 0
  commander,            \* program counter of a command function
  count, slept,         \* of the polling loop
  issued,
  pop,                  \* the pops of the interrupt, between reading and marking
  sending,              \* what the loaded datagram carries
  sent                  \* the last reading of each sensor that was sent whole

sensorVars == <<value, transmitted, ttl, writer, age>>
commandVars == <<command_datagram, command_datagram_bytes_remaining, commander,
                 count, slept, issued>>
busVars == <<pop, sending, sent>>
vars == <<sensorVars, commandVars, busVars>>

Idle == [sensor |-> "none"]
Nothing == [kind |-> "nothing"]

Init ==
  /\ value = [s \in Sensors |-> None]
  /\ transmitted = [s \in Sensors |-> TRUE]
  /\ ttl = [s \in Sensors |-> 0]
  /\ writer = [s \in Sensors |-> "idle"]
  /\ age = [s \in Sensors |-> 0]
  /\ command_datagram = <<None, None>>
  /\ command_datagram_bytes_remaining = None
  /\ commander = "idle"
  /\ count = 0 /\ slept = 0 /\ issued = 0
  /\ pop = Idle
  /\ sending = Nothing
  /\ sent = [s \in Sensors |-> None]

\* A thread can run: the interrupt is not in the middle of something.
ThreadRuns == SMP \/ pop = Idle

-----------------------------------------------------------------------------
(* update_X_sensor, three stores and a wake-up *)
StoreValue(s) ==
  /\ ThreadRuns
  /\ writer[s] = "idle"
  /\ \E v \in Values : value' = [value EXCEPT ![s] = v]
  /\ age' = [age EXCEPT ![s] = 0]
  /\ writer' = [writer EXCEPT ![s] = "validate"]
  /\ UNCHANGED <<transmitted, ttl, commandVars, busVars>>

\* Mutant of Validate: the expiry time is moved on from where it was.
Mutant_Validate(s) ==
  /\ ThreadRuns
  /\ writer[s] = "validate"
  /\ ttl' = [ttl EXCEPT ![s] = @ + SENSOR_TIME_TO_LIVE]
  /\ writer' = [writer EXCEPT ![s] = "mark"]
  /\ UNCHANGED <<value, transmitted, age, commandVars, busVars>>

Validate(s) ==
  /\ ThreadRuns
  /\ writer[s] = "validate"
  /\ ttl' = [ttl EXCEPT ![s] = SENSOR_TIME_TO_LIVE]
  /\ writer' = [writer EXCEPT ![s] = "mark"]
  /\ UNCHANGED <<value, transmitted, age, commandVars, busVars>>

MarkUntransmitted(s) ==
  /\ ThreadRuns
  /\ writer[s] = "mark"
  /\ transmitted' = [transmitted EXCEPT ![s] = FALSE]
  /\ writer' = [writer EXCEPT ![s] = "idle"]
  /\ UNCHANGED <<value, ttl, age, commandVars, busVars>>

\* A second passes.  No update takes that long.
Second ==
  /\ Expiry
  /\ ThreadRuns
  /\ \A s \in Sensors : writer[s] = "idle"
  /\ ttl' = [s \in Sensors |-> IF ttl[s] > 0 THEN ttl[s] - 1 ELSE 0]
  /\ age' = [s \in Sensors |->
               IF age[s] < SENSOR_TIME_TO_LIVE THEN age[s] + 1 ELSE age[s]]
  /\ UNCHANGED <<value, transmitted, writer, commandVars, busVars>>

-----------------------------------------------------------------------------
(* A command function: build_X in command_datagram, then send_command *)
BuildCommand ==
  /\ ThreadRuns
  /\ \/ /\ commander = "idle" /\ issued < CommandsIssued
        /\ \E c \in Commands : command_datagram' = [command_datagram EXCEPT ![1] = c]
        /\ commander' = "building"
     \/ /\ commander = "building"
        /\ command_datagram' = [command_datagram EXCEPT ![2] = command_datagram[1]]
        /\ commander' = "built"
  /\ UNCHANGED <<command_datagram_bytes_remaining, count, slept, issued,
                 sensorVars, busVars>>

\* Mutant of SendCommand: while a command is pending its length is left.
Mutant_SendCommand ==
  /\ ThreadRuns
  /\ commander = "built"
  /\ command_datagram_bytes_remaining' =
       IF command_datagram_bytes_remaining = None THEN command_datagram[1]
       ELSE command_datagram_bytes_remaining
  /\ count' = 0 /\ slept' = 0
  /\ issued' = issued + 1
  /\ commander' = "polling"
  /\ UNCHANGED <<command_datagram, sensorVars, busVars>>

SendCommand ==
  /\ ThreadRuns
  /\ commander = "built"
  /\ command_datagram_bytes_remaining' = command_datagram[1]
  /\ count' = 0 /\ slept' = 0
  /\ issued' = issued + 1
  /\ commander' = "polling"
  /\ UNCHANGED <<command_datagram, sensorVars, busVars>>

\* usleep_range(SLEEP_DURATION, SLEEP_DURATION * 2), at most once more than
\* MAX_COMMAND_LOOPS times.
PollCommand ==
  /\ ThreadRuns
  /\ commander = "polling"
  /\ \/ /\ command_datagram_bytes_remaining # None /\ count <= MAX_COMMAND_LOOPS
        /\ count' = count + 1
        /\ \E us \in {SLEEP_DURATION, 2 * SLEEP_DURATION} : slept' = slept + us
        /\ UNCHANGED commander
     \/ /\ command_datagram_bytes_remaining = None \/ count > MAX_COMMAND_LOOPS
        /\ commander' = "idle"
        /\ count' = 0 /\ slept' = 0
  /\ UNCHANGED <<command_datagram, command_datagram_bytes_remaining, issued,
                 sensorVars, busVars>>

-----------------------------------------------------------------------------
(* The transmit interrupt *)

\* Mutant of has_value_to_transmit: the expiry time is not looked at.
Mutant_has_value_to_transmit(s) == s \in Sensors /\ ~transmitted[s]

has_value_to_transmit(s) == s \in Sensors /\ ttl[s] > 0 /\ ~transmitted[s]

PendingSensors == {i \in 1 .. 9 : has_value_to_transmit(SensorPriority[i])}

\* Mutant of FirstPending: the order of the sensors is turned round.
Mutant_FirstPending ==
  SensorPriority[CHOOSE i \in PendingSensors : \A j \in PendingSensors : i >= j]

\* seatalk_sensor_pending's choice
FirstPending ==
  SensorPriority[CHOOSE i \in PendingSensors : \A j \in PendingSensors : i <= j]

\* Mutant of seatalk_command_pending: it lets the sensors go first.
Mutant_CommandsLast ==
  command_datagram_bytes_remaining # None /\ PendingSensors = {}

seatalk_command_pending == command_datagram_bytes_remaining # None

\* As many bytes as the length says are copied, and stay pending.
TakeCommand ==
  /\ sending = Nothing /\ pop = Idle
  /\ seatalk_command_pending
  /\ sending' = [kind |-> "command", halves |-> command_datagram,
               length |-> command_datagram_bytes_remaining]
  /\ UNCHANGED <<sensorVars, commandVars, pop, sent>>

\* pop_X_sensor_value reads the sensor first ...
ReadSensor ==
  /\ sending = Nothing /\ pop = Idle
  /\ ~seatalk_command_pending
  /\ PendingSensors # {}
  /\ pop' = [first |-> FirstPending, sensor |-> FirstPending,
             read |-> [s \in {FirstPending} |-> value[s]]]
  /\ UNCHANGED <<sensorVars, commandVars, sending, sent>>

\* A heading and a rudder position go into one datagram.
Partner ==
  [s \in {"heading", "rudder_position"} |->
     IF s = "heading" THEN "rudder_position" ELSE "heading"]

PartnerPops ==
  /\ pop.sensor = pop.first /\ pop.sensor \in DOMAIN Partner
  /\ has_value_to_transmit(Partner[pop.sensor])

\* ... and marks it after.  Its partner is popped next, if it has a value.  What
\* was popped for a rudder position is not sent: its function returns 0.
MarkTransmitted ==
  /\ pop # Idle
  /\ transmitted' = [transmitted EXCEPT ![pop.sensor] = TRUE]
  /\ \/ /\ PartnerPops
        /\ LET partner == Partner[pop.sensor]
           IN  pop' = [first |-> pop.first, sensor |-> partner,
                       read |-> [s \in {pop.sensor, partner} |->
                                   IF s = partner THEN value[s] ELSE pop.read[s]]]
        /\ UNCHANGED sending
     \/ /\ ~PartnerPops
        /\ pop' = Idle
        /\ sending' = IF pop.first = "rudder_position" THEN Nothing
                      ELSE [kind |-> "sensors", read |-> pop.read]
  /\ UNCHANGED <<value, ttl, writer, age, commandVars, sent>>

\* Mutant of EndDatagram: the sensors of a datagram are marked when it has been
\* sent, not only when they are taken.
Mutant_EndDatagram ==
  /\ sending # Nothing
  /\ sending' = Nothing
  /\ \/ /\ sending.kind = "sensors"
        /\ sent' = [s \in Sensors |->
                      IF s \in DOMAIN sending.read THEN sending.read[s] ELSE sent[s]]
        /\ transmitted' = [s \in Sensors |->
                             transmitted[s] \/ s \in DOMAIN sending.read]
     \/ /\ sending.kind = "command" \/ Collisions
        /\ UNCHANGED <<sent, transmitted>>
  /\ UNCHANGED <<value, ttl, writer, age, commandVars, pop>>

\* The loaded datagram has been sent to its end, or a collision cancels it.
EndDatagram ==
  /\ sending # Nothing
  /\ sending' = Nothing
  /\ \/ /\ sending.kind = "sensors"
        /\ sent' = [s \in Sensors |->
                      IF s \in DOMAIN sending.read THEN sending.read[s] ELSE sent[s]]
     \/ /\ sending.kind = "command" \/ Collisions
        /\ UNCHANGED sent
  /\ UNCHANGED <<sensorVars, commandVars, pop>>

-----------------------------------------------------------------------------

Update(s) == StoreValue(s) \/ Validate(s) \/ MarkUntransmitted(s)
Command == BuildCommand \/ SendCommand \/ PollCommand
Transmit == TakeCommand \/ ReadSensor \/ MarkTransmitted \/ EndDatagram

Next ==
  \/ \E s \in Sensors : Update(s)
  \/ Second
  \/ Command
  \/ Transmit

Spec == Init /\ [][Next]_vars

\* The transmit timer fires for as long as there is something to send (that is
\* SeatalkTransport's PendingDataIsSent) and a datagram that was begun ends
\* (SeatalkBus's DatagramEnds).  The threads owe nothing but to finish.
FairSpec ==
  /\ Spec
  /\ WF_vars(Transmit)
  /\ \A s \in Sensors : WF_vars(Validate(s) \/ MarkUntransmitted(s))
  /\ WF_vars(SendCommand \/ PollCommand)

-----------------------------------------------------------------------------
(* Properties *)

Carries(s) == sending.kind = "sensors" /\ s \in DOMAIN sending.read

TypeOK ==
  /\ value \in [Sensors -> Values \cup {None}]
  /\ transmitted \in [Sensors -> BOOLEAN]
  /\ ttl \in [Sensors -> 0 .. SENSOR_TIME_TO_LIVE]
  /\ writer \in [Sensors -> {"idle", "validate", "mark"}]
  /\ age \in [Sensors -> 0 .. SENSOR_TIME_TO_LIVE]
  /\ command_datagram \in [1 .. 2 -> Commands \cup {None}]
  /\ command_datagram_bytes_remaining \in Commands \cup {None}
  /\ commander \in {"idle", "building", "built", "polling"}
  /\ count \in 0 .. MAX_COMMAND_LOOPS + 1
  /\ slept \in 0 .. 2 * SLEEP_DURATION * (MAX_COMMAND_LOOPS + 1)
  /\ issued \in 0 .. CommandsIssued
  /\ pop # Idle => pop.first \in Sensors /\ DOMAIN pop.read \subseteq Sensors
  /\ sending.kind \in {"nothing", "command", "sensors"}
  /\ sent \in [Sensors -> Values \cup {None}]

\* Nothing written is lost: when a sensor's update is complete, its value is
\* marked transmitted and the transmitter is at rest, the last reading that
\* went out is the last one written, wherever in the update the interrupt came.
\* (A rudder position without a heading is popped and not sent.)
LastValueSent ==
  \A s \in Sensors \ {"rudder_position"} :
    writer[s] = "idle" /\ transmitted[s] /\ pop = Idle /\ ~Carries(s)
      => sent[s] = value[s]

\* A value older than its time to live is never put into a datagram, even when
\* the interrupt comes in the middle of the update that would renew it.
NothingStaleIsTaken ==
  \A s \in Sensors :
    pop # Idle /\ s \in DOMAIN pop.read => age[s] < SENSOR_TIME_TO_LIVE

\* The transmitter is not told that data is pending when it can build none.
PendingMeansDatagram ==
  [][pop # Idle /\ pop' = Idle => sending' # Nothing]_vars

\* Of one command: both halves of the datagram and its length.
Whole(datagram) == datagram.halves = <<datagram.length, datagram.length>>

\* However many commands were issued before, and although every one of them is
\* still pending when the next is built in its buffer: a datagram that begins
\* while no command function is between its first store in the buffer and its
\* setting of the length is the command issued last, in both halves and in
\* length.  Before the first command is issued none begins.
CommandsMixOnlyInBuild ==
  [][sending = Nothing /\ sending'.kind = "command" =>
       /\ issued > 0
       /\ commander \in {"building", "built"} \/ Whole(sending')]_vars

\* A command goes out as it was built, not half of it and half of the next, nor
\* with the length of the one before.
CommandsIntact == sending.kind = "command" => Whole(sending)

\* A command function that gives up has waited for MAX_COMMAND_DELAY, which is
\* as many seconds as MAX_COMMAND_LOOPS * SLEEP_DURATION milliseconds.
GivesUpAfterDelay ==
  [][commander = "polling" /\ commander' = "idle"
       /\ command_datagram_bytes_remaining # None
       => slept >= 1000 * SLEEP_DURATION * MAX_COMMAND_LOOPS]_vars

\* A command function that has issued its command sees it taken up, however
\* much the sensors have to send.
CommandIsSent == commander = "polling" ~> sending.kind = "command"

\* Whether s is the first of the sensors in use, in the order of
\* seatalk_sensor_pending.
First(s) ==
  \E i \in 1 .. 9 :
    s = SensorPriority[i] /\ \A j \in 1 .. i - 1 : SensorPriority[j] \notin Sensors

\* A value of the first sensor is put into a datagram, or it expires, however
\* often the other sensors are updated; unless a command is in the way.
FirstSensorIsSentOrCommand ==
  \A s \in Sensors : First(s) =>
    (has_value_to_transmit(s) ~> Carries(s) \/ ttl[s] = 0 \/ seatalk_command_pending)

\* The same of a command: it is sent and the sensor's turn comes.
FirstSensorIsSent ==
  \A s \in Sensors : First(s) =>
    (has_value_to_transmit(s) ~> Carries(s) \/ ttl[s] = 0)

=============================================================================
