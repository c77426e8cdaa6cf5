------------------------- MODULE SeatalkSenderProofs -------------------------
(***************************************************************************)
(* Proofs about SeatalkSender, for every set of sensors and readings, every *)
(* time to live and every number of commands: types, what is read of a     *)
(* sensor, what of it has been sent, and the one buffer for commands.      *)
(***************************************************************************)
EXTENDS SeatalkSender, WellFoundedInduction, TLAPS

-----------------------------------------------------------------------------
(* Types.  TypeOK is not inductive: it says of pop and of sending only what *)
(* the program relies on, and nothing of what bounds slept and issued.     *)

Readings == Values \cup {None}
Reads == UNION {[D -> Readings] : D \in SUBSET Sensors}

Pops == [first : Sensors, sensor : Sensors, read : Reads]

Datagrams ==
  [kind : {"command"}, halves : [1 .. 2 -> Commands \cup {None}],
   length : Commands \cup {None}]
    \cup [kind : {"sensors"}, read : Reads]

SensorTypes ==
  /\ value \in [Sensors -> Readings]
  /\ transmitted \in [Sensors -> BOOLEAN]
  /\ ttl \in [Sensors -> 0 .. SENSOR_TIME_TO_LIVE]
  /\ writer \in [Sensors -> {"idle", "validate", "mark"}]
  /\ age \in [Sensors -> 0 .. SENSOR_TIME_TO_LIVE]

CommandTypes ==
  /\ command_datagram \in [1 .. 2 -> Commands \cup {None}]
  /\ command_datagram_bytes_remaining \in Commands \cup {None}
  /\ commander \in {"idle", "building", "built", "polling"}
  /\ count \in 0 .. MAX_COMMAND_LOOPS + 1
  /\ slept \in Nat /\ slept <= (2 * SLEEP_DURATION) * count
  /\ issued \in 0 .. CommandsIssued
  /\ commander \in {"building", "built"} => issued < CommandsIssued

BusTypes ==
  /\ pop \in Pops \cup {Idle}
  /\ pop # Idle => pop.sensor \in DOMAIN pop.read
  /\ sending \in Datagrams \cup {Nothing}
  /\ sent \in [Sensors -> Readings]

TypeInv == SensorTypes /\ CommandTypes /\ BusTypes

\* The bound of slept, and how a round of the loop keeps it.
LEMMA MoreRoundsMoreSleep ==
  ASSUME NEW d \in Nat, NEW m \in Nat, NEW n \in 0 .. m
  PROVE  d * n <= d * m /\ d * (n + 1) = d * n + d /\ d * n \in Nat
<1>1. d * (n + 1) = d * n + d /\ d * n \in Nat
  OBVIOUS
<1>2. PICK k \in Nat : m = n + k
  <2>1. m - n \in Nat /\ m = n + (m - n)
    OBVIOUS
  <2> QED BY <2>1
<1>3. d * m = d * n + d * k /\ d * k \in Nat
  BY <1>2
<1> QED
  BY <1>1, <1>3

LEMMA SensorNames ==
  /\ \A s \in Sensors : s # "none"
  /\ \A i \in 1 .. 9 : SensorPriority[i] = "rudder_position" => i = 9
  /\ SensorPriority[1] = "heading"
  BY SenderAssumption DEF SensorPriority

\* seatalk_sensor_pending's choice is a sensor with a value to transmit, and a
\* rudder position only if there is no heading.
LEMMA FirstPendingHasValue ==
  ASSUME PendingSensors # {}
  PROVE  /\ FirstPending \in Sensors
         /\ has_value_to_transmit(FirstPending)
         /\ FirstPending = "rudder_position" => ~has_value_to_transmit("heading")
<1>1. PendingSensors \subseteq 1 .. 9
  BY DEF PendingSensors
<1>2. \E i \in PendingSensors : \A j \in PendingSensors : i <= j
  <2>1. PendingSensors \subseteq Nat
    BY <1>1
  <2>2. \E i \in PendingSensors :
          \A j \in PendingSensors : ~(<<j, i>> \in OpToRel(<, Nat))
    BY <2>1, WFMin, NatLessThanWellFounded, Zenon
  <2>3. PICK i \in PendingSensors : \A j \in PendingSensors : ~(j < i)
    BY <2>1, <2>2, Zenon DEF OpToRel
  <2> QED
    BY <2>1, <2>3
<1>3. PICK i \in PendingSensors :
         /\ FirstPending = SensorPriority[i]
         /\ \A j \in PendingSensors : i <= j
  BY <1>2 DEF FirstPending
<1>4. has_value_to_transmit(FirstPending)
  BY <1>3 DEF PendingSensors
<1>5. ASSUME FirstPending = "rudder_position", has_value_to_transmit("heading")
      PROVE  FALSE
  <2>1. i = 9
    BY <1>1, <1>3, <1>5, SensorNames
  <2>2. 1 \in PendingSensors
    BY <1>5, SensorNames DEF PendingSensors
  <2> QED
    BY <1>3, <2>1, <2>2
<1> QED
  BY <1>4, <1>5 DEF has_value_to_transmit

\* What PartnerPops means: heading and rudder_position are each other's partner.
LEMMA PartnersDiffer ==
  /\ DOMAIN Partner = {"heading", "rudder_position"}
  /\ Partner["heading"] = "rudder_position"
  /\ Partner["rudder_position"] = "heading"
  BY DEF Partner

LEMMA IdleIsNoPop == \A p \in Pops : p # Idle
  BY SensorNames DEF Pops, Idle

LEMMA NothingIsNoDatagram == \A d \in Datagrams : d # Nothing
  BY DEF Datagrams, Nothing

LEMMA TypeInvInit == Init => TypeInv
<1> SUFFICES ASSUME Init PROVE TypeInv
  OBVIOUS
<1>1. SensorTypes
  BY SenderAssumption DEF Init, SensorTypes, Readings
<1>2. CommandTypes
  <2>1. slept <= (2 * SLEEP_DURATION) * count
    <3>1. (2 * SLEEP_DURATION) * 0 = 0
      BY SenderAssumption
    <3> QED
      BY <3>1 DEF Init
  <2>2. command_datagram \in [1 .. 2 -> Commands \cup {None}]
    BY DEF Init
  <2>3. /\ count \in 0 .. MAX_COMMAND_LOOPS + 1
        /\ slept \in Nat
        /\ issued \in 0 .. CommandsIssued
    BY SenderAssumption DEF Init
  <2>4. commander = "idle" /\ command_datagram_bytes_remaining = None
    BY DEF Init
  <2> QED
    BY <2>1, <2>2, <2>3, <2>4 DEF CommandTypes
<1>3. BusTypes
  BY DEF Init, BusTypes, Readings
<1> QED
  BY <1>1, <1>2, <1>3 DEF TypeInv

LEMMA TypeInvUpdate ==
  ASSUME TypeInv, NEW s \in Sensors, Update(s)
  PROVE  TypeInv'
<1>1. SensorTypes'
  <2>1. CASE StoreValue(s)
    BY <2>1, SenderAssumption DEF TypeInv, SensorTypes, StoreValue, Readings
  <2>2. CASE Validate(s)
    BY <2>2, SenderAssumption DEF TypeInv, SensorTypes, Validate
  <2>3. CASE MarkUntransmitted(s)
    BY <2>3 DEF TypeInv, SensorTypes, MarkUntransmitted
  <2> QED
    BY <2>1, <2>2, <2>3 DEF Update
<1>2. UNCHANGED <<commandVars, busVars>>
  BY DEF Update, StoreValue, Validate, MarkUntransmitted
<1>3. CommandTypes' /\ BusTypes'
  BY <1>2 DEF TypeInv, CommandTypes, BusTypes, commandVars, busVars
<1> QED
  BY <1>1, <1>3 DEF TypeInv

LEMMA TypeInvSecond ==
  ASSUME TypeInv, Second
  PROVE  TypeInv'
<1>1. SensorTypes'
  BY SenderAssumption DEF TypeInv, SensorTypes, Second
<1>2. CommandTypes' /\ BusTypes'
  BY DEF TypeInv, CommandTypes, BusTypes, commandVars, busVars, Second
<1> QED
  BY <1>1, <1>2 DEF TypeInv

LEMMA TypeInvCommand ==
  ASSUME TypeInv, Command
  PROVE  TypeInv'
<1>1. SensorTypes' /\ BusTypes'
  BY DEF TypeInv, SensorTypes, BusTypes, sensorVars, busVars,
         Command, BuildCommand, SendCommand, PollCommand
<1>2. CommandTypes'
  <2>1. CASE BuildCommand
    <3>1. command_datagram' \in [1 .. 2 -> Commands \cup {None}]
      BY <2>1 DEF TypeInv, CommandTypes, BuildCommand
    <3> QED
      BY <2>1, <3>1 DEF TypeInv, CommandTypes, BuildCommand
  <2>2. CASE SendCommand
    <3>1. (2 * SLEEP_DURATION) * 0 = 0
      BY SenderAssumption
    <3> QED
      BY <2>2, <3>1, SenderAssumption DEF TypeInv, CommandTypes, SendCommand
  <2>3. CASE PollCommand
    <3>1. CASE /\ count <= MAX_COMMAND_LOOPS
               /\ count' = count + 1
               /\ \E us \in {SLEEP_DURATION, 2 * SLEEP_DURATION} : slept' = slept + us
               /\ UNCHANGED commander
      <4> DEFINE d == 2 * SLEEP_DURATION
      <4>1. d \in Nat /\ SLEEP_DURATION \in Nat /\ SLEEP_DURATION <= d
        BY SenderAssumption
      <4>2. count \in Nat /\ MAX_COMMAND_LOOPS \in Nat
        BY SenderAssumption DEF TypeInv, CommandTypes
      <4>3. d * (count + 1) = d * count + d /\ d * count \in Nat
        <5> HIDE DEF d
        <5> QED BY <4>1, <4>2, MoreRoundsMoreSleep
      <4>4. slept \in Nat /\ slept <= d * count
        BY DEF TypeInv, CommandTypes
      <4>5. slept' \in Nat /\ slept' <= d * count + d
        <5>1. slept' = slept + SLEEP_DURATION \/ slept' = slept + d
          BY <3>1
        <5> HIDE DEF d
        <5> QED BY <4>1, <4>3, <4>4, <5>1
      <4>6. slept' <= d * count'
        BY <3>1, <4>3, <4>5
      <4>7. count' \in 0 .. MAX_COMMAND_LOOPS + 1
        BY <3>1, <4>2
      <4> QED
        BY <2>3, <3>1, <4>5, <4>6, <4>7 DEF TypeInv, CommandTypes, PollCommand
    <3>2. CASE commander' = "idle" /\ count' = 0 /\ slept' = 0
      <4>1. (2 * SLEEP_DURATION) * 0 = 0
        BY SenderAssumption
      <4> QED
        BY <2>3, <3>2, <4>1, SenderAssumption DEF TypeInv, CommandTypes, PollCommand
    <3> QED
      BY <2>3, <3>1, <3>2 DEF PollCommand
  <2> QED
    BY <2>1, <2>2, <2>3 DEF Command
<1> QED
  BY <1>1, <1>2 DEF TypeInv

LEMMA TypeInvTransmit ==
  ASSUME TypeInv, Transmit
  PROVE  TypeInv'
<1>1. CommandTypes'
  BY DEF TypeInv, CommandTypes, commandVars, Transmit, TakeCommand, ReadSensor,
         MarkTransmitted, EndDatagram
<1>2. SensorTypes'
  <2>1. transmitted' \in [Sensors -> BOOLEAN]
    BY DEF TypeInv, SensorTypes, sensorVars, Transmit, TakeCommand, ReadSensor,
           MarkTransmitted, EndDatagram
  <2> QED
    BY <2>1 DEF TypeInv, SensorTypes, sensorVars, Transmit, TakeCommand,
                ReadSensor, MarkTransmitted, EndDatagram
<1>3. BusTypes'
  <2>1. CASE TakeCommand
    <3>1. sending' \in Datagrams
      BY <2>1 DEF TypeInv, CommandTypes, TakeCommand, Datagrams
    <3> QED
      BY <2>1, <3>1 DEF TypeInv, BusTypes, TakeCommand
  <2>2. CASE ReadSensor
    <3>1. FirstPending \in Sensors
      BY <2>2, FirstPendingHasValue DEF ReadSensor
    <3>2. pop'.read \in Reads
      <4>1. pop'.read \in [{FirstPending} -> Readings]
        BY <2>2, <3>1 DEF ReadSensor, TypeInv, SensorTypes
      <4> QED
        BY <3>1, <4>1 DEF Reads
    <3>3. pop' \in Pops /\ pop'.sensor \in DOMAIN pop'.read
      BY <2>2, <3>1, <3>2 DEF ReadSensor, Pops
    <3> QED
      BY <2>2, <3>3 DEF TypeInv, BusTypes, ReadSensor
  <2>3. CASE MarkTransmitted
    <3>1. pop \in Pops /\ pop.sensor \in DOMAIN pop.read
      BY <2>3 DEF TypeInv, BusTypes, MarkTransmitted
    <3>2. pop.read \in [DOMAIN pop.read -> Readings] /\ DOMAIN pop.read \subseteq Sensors
      BY <3>1 DEF Pops, Reads
    <3>3. CASE PartnerPops
      <4> DEFINE partner == Partner[pop.sensor]
      <4>1. partner \in Sensors
        BY <3>3 DEF PartnerPops, has_value_to_transmit
      <4>2. pop' = [first |-> pop.first, sensor |-> partner,
                    read |-> [s \in {pop.sensor, partner} |->
                                IF s = partner THEN value[s] ELSE pop.read[s]]]
        BY <2>3, <3>3 DEF MarkTransmitted
      <4>3. pop'.read \in [{pop.sensor, partner} -> Readings]
        <5>1. value[partner] \in Readings /\ pop.read[pop.sensor] \in Readings
          BY <3>1, <3>2, <4>1 DEF TypeInv, SensorTypes
        <5> HIDE DEF partner
        <5> QED BY <4>2, <5>1
      <4>4. {pop.sensor, partner} \in SUBSET Sensors
        BY <3>1, <4>1 DEF Pops
      <4>5. pop'.read \in Reads
        <5> HIDE DEF partner
        <5> QED BY <4>3, <4>4 DEF Reads
      <4>6. pop' \in Pops /\ pop'.sensor \in DOMAIN pop'.read
        <5> HIDE DEF partner
        <5> QED BY <3>1, <4>1, <4>2, <4>5 DEF Pops
      <4> QED
        BY <2>3, <3>3, <4>6 DEF TypeInv, BusTypes, MarkTransmitted
    <3>4. CASE ~PartnerPops
      <4>1. sending' \in Datagrams \cup {Nothing}
        BY <2>3, <3>1, <3>4 DEF MarkTransmitted, Datagrams, Pops
      <4> QED
        BY <2>3, <3>4, <4>1 DEF TypeInv, BusTypes, MarkTransmitted
    <3> QED
      BY <3>3, <3>4
  <2>4. CASE EndDatagram
    <3>1. sending \in Datagrams
      BY <2>4 DEF EndDatagram, TypeInv, BusTypes
    <3>2. sent' \in [Sensors -> Readings]
      <4>1. CASE /\ sending.kind = "sensors"
                 /\ sent' = [s \in Sensors |->
                              IF s \in DOMAIN sending.read THEN sending.read[s]
                              ELSE sent[s]]
        <5>1. sending.read \in [DOMAIN sending.read -> Readings]
          BY <3>1, <4>1 DEF Datagrams, Reads
        <5> QED
          BY <4>1, <5>1 DEF TypeInv, BusTypes
      <4>2. CASE UNCHANGED sent
        BY <4>2 DEF TypeInv, BusTypes
      <4> QED
        BY <2>4, <4>1, <4>2 DEF EndDatagram
    <3> QED
      BY <2>4, <3>2 DEF TypeInv, BusTypes, EndDatagram
  <2> QED
    BY <2>1, <2>2, <2>3, <2>4 DEF Transmit
<1> QED
  BY <1>1, <1>2, <1>3 DEF TypeInv

LEMMA TypeInvNext == TypeInv /\ [Next]_vars => TypeInv'
<1> SUFFICES ASSUME TypeInv, [Next]_vars PROVE TypeInv'
  OBVIOUS
<1>1. CASE UNCHANGED vars
  BY <1>1 DEF TypeInv, SensorTypes, CommandTypes, BusTypes,
              vars, sensorVars, commandVars, busVars
<1> QED
  BY <1>1, TypeInvUpdate, TypeInvSecond, TypeInvCommand, TypeInvTransmit DEF Next

LEMMA TypeInvImpliesTypeOK == TypeInv => TypeOK
<1> SUFFICES ASSUME TypeInv PROVE TypeOK
  OBVIOUS
<1>1. slept \in 0 .. 2 * SLEEP_DURATION * (MAX_COMMAND_LOOPS + 1)
  <2> DEFINE d == 2 * SLEEP_DURATION
  <2>1. d \in Nat /\ MAX_COMMAND_LOOPS + 1 \in Nat
    BY SenderAssumption
  <2>2. d * count <= d * (MAX_COMMAND_LOOPS + 1) /\ d * count \in Nat
    <3>1. count \in 0 .. MAX_COMMAND_LOOPS + 1
      BY DEF TypeInv, CommandTypes
    <3> HIDE DEF d
    <3> QED BY <2>1, <3>1, MoreRoundsMoreSleep
  <2>3. d * (MAX_COMMAND_LOOPS + 1) \in Nat
    <3> HIDE DEF d
    <3> QED BY <2>1, MoreRoundsMoreSleep
  <2>4. slept \in Nat /\ slept <= d * count
    BY DEF TypeInv, CommandTypes
  <2>5. slept \in 0 .. d * (MAX_COMMAND_LOOPS + 1)
    <3> HIDE DEF d
    <3> QED BY <2>2, <2>3, <2>4
  <2> QED
    BY <2>5
<1>2. pop # Idle => pop.first \in Sensors /\ DOMAIN pop.read \subseteq Sensors
  BY DEF TypeInv, BusTypes, Pops, Reads
<1>3. sending.kind \in {"nothing", "command", "sensors"}
  BY DEF TypeInv, BusTypes, Datagrams, Nothing
<1> QED
  BY <1>1, <1>2, <1>3 DEF TypeInv, SensorTypes, CommandTypes, BusTypes, TypeOK, Readings

\* The variables keep their types, whatever threads and interrupt do.
THEOREM SenderTypeCorrect == Spec => []TypeOK
<1>1. Spec => []TypeInv
  BY TypeInvInit, TypeInvNext, PTL DEF Spec
<1> QED
  BY <1>1, TypeInvImpliesTypeOK, PTL

-----------------------------------------------------------------------------
(* Age.  What is left of a value's time and the value's age make up the    *)
(* time to live, or the value is younger still: in the middle of an update *)
(* it is new, and what is left is that of the value before it.             *)

AgeBound(s) ==
  /\ ttl[s] > 0 => age[s] <= SENSOR_TIME_TO_LIVE - ttl[s]
  /\ writer[s] # "idle" => age[s] = 0

PoppedIsAlive == pop # Idle => \A s \in DOMAIN pop.read : ttl[s] > 0

AgeInv == (\A s \in Sensors : AgeBound(s)) /\ PoppedIsAlive

LEMMA AgeInvThread ==
  ASSUME SMP = FALSE, TypeInv, AgeInv,
         Second \/ \E s \in Sensors : Update(s)
  PROVE  AgeInv'
<1>1. pop = Idle /\ pop' = Idle
  BY DEF Update, StoreValue, Validate, MarkUntransmitted, Second, ThreadRuns, busVars
<1>2. \A t \in Sensors : ttl[t] \in 0 .. SENSOR_TIME_TO_LIVE /\ age[t] \in Nat
  BY SenderAssumption DEF TypeInv, SensorTypes
<1>3. ASSUME NEW t \in Sensors
      PROVE  AgeBound(t)'
  <2>1. AgeBound(t) /\ SENSOR_TIME_TO_LIVE \in Nat
    BY SenderAssumption DEF AgeInv
  <2>2. CASE Second
    <3>1. ttl'[t] = (IF ttl[t] > 0 THEN ttl[t] - 1 ELSE 0) /\ writer'[t] = "idle"
      BY <2>2 DEF Second
    <3>2. age'[t] = age[t] \/ age'[t] = age[t] + 1
      BY <2>2 DEF Second
    <3> QED
      BY <1>2, <2>1, <3>1, <3>2 DEF AgeBound
  <2>3. ASSUME NEW s \in Sensors, StoreValue(s)
        PROVE  AgeBound(t)'
    BY <1>2, <2>1, <2>3 DEF AgeBound, StoreValue, TypeInv, SensorTypes
  <2>4. ASSUME NEW s \in Sensors, Validate(s)
        PROVE  AgeBound(t)'
    BY <1>2, <2>1, <2>4 DEF AgeBound, Validate, TypeInv, SensorTypes
  <2>5. ASSUME NEW s \in Sensors, MarkUntransmitted(s)
        PROVE  AgeBound(t)'
    BY <1>2, <2>1, <2>5 DEF AgeBound, MarkUntransmitted, TypeInv, SensorTypes
  <2> QED
    BY <2>2, <2>3, <2>4, <2>5 DEF Update
<1> QED
  BY <1>1, <1>3 DEF AgeInv, PoppedIsAlive

LEMMA AgeInvTransmit ==
  ASSUME TypeInv, AgeInv, Transmit
  PROVE  AgeInv'
<1>1. UNCHANGED <<ttl, writer, age>>
  BY DEF Transmit, TakeCommand, ReadSensor, MarkTransmitted, EndDatagram, sensorVars
<1>2. PoppedIsAlive'
  <2>1. CASE TakeCommand \/ EndDatagram
    BY <1>1, <2>1 DEF AgeInv, PoppedIsAlive, TakeCommand, EndDatagram
  <2>2. CASE ReadSensor
    <3>1. ttl[FirstPending] > 0
      BY <2>2, FirstPendingHasValue DEF ReadSensor, has_value_to_transmit
    <3>2. DOMAIN pop'.read = {FirstPending}
      BY <2>2 DEF ReadSensor
    <3> QED
      BY <1>1, <3>1, <3>2 DEF PoppedIsAlive
  <2>3. CASE MarkTransmitted
    <3>1. pop \in Pops /\ pop.sensor \in DOMAIN pop.read /\ pop # Idle
      BY <2>3 DEF TypeInv, BusTypes, MarkTransmitted
    <3>2. CASE PartnerPops
      <4>1. ttl[pop.sensor] > 0
        BY <3>1 DEF AgeInv, PoppedIsAlive
      <4>2. ttl[Partner[pop.sensor]] > 0
        BY <3>2 DEF PartnerPops, has_value_to_transmit
      <4>3. DOMAIN pop'.read = {pop.sensor, Partner[pop.sensor]}
        BY <2>3, <3>2 DEF MarkTransmitted
      <4> QED
        BY <1>1, <4>1, <4>2, <4>3 DEF PoppedIsAlive
    <3>3. CASE ~PartnerPops
      BY <2>3, <3>3 DEF PoppedIsAlive, MarkTransmitted
    <3> QED
      BY <3>2, <3>3
  <2> QED
    BY <2>1, <2>2, <2>3 DEF Transmit
<1> QED
  BY <1>1, <1>2 DEF AgeInv, AgeBound

LEMMA AgeInvNext ==
  ASSUME SMP = FALSE
  PROVE  TypeInv /\ AgeInv /\ [Next]_vars => AgeInv'
<1> SUFFICES ASSUME TypeInv, AgeInv, [Next]_vars PROVE AgeInv'
  OBVIOUS
<1>1. CASE Command
  <2>1. UNCHANGED <<ttl, writer, age, pop>>
    BY <1>1 DEF Command, BuildCommand, SendCommand, PollCommand, sensorVars, busVars
  <2> QED
    BY <2>1 DEF AgeInv, AgeBound, PoppedIsAlive
<1>2. CASE UNCHANGED vars
  BY <1>2 DEF AgeInv, AgeBound, PoppedIsAlive, vars, sensorVars, busVars
<1> QED
  BY <1>1, <1>2, AgeInvThread, AgeInvTransmit DEF Next

\* On one processor no value that has outlived its time is read into a
\* datagram, wherever in an update of it the transmit interrupt comes.
THEOREM SenderTakesNothingStale ==
  ASSUME SMP = FALSE
  PROVE  Spec => []NothingStaleIsTaken
<1>1. Init => AgeInv
  BY DEF Init, AgeInv, AgeBound, PoppedIsAlive
<1>2. TypeInv /\ AgeInv => NothingStaleIsTaken
  <2> SUFFICES ASSUME TypeInv, AgeInv, NEW s \in Sensors,
                      pop # Idle, s \in DOMAIN pop.read
               PROVE  age[s] < SENSOR_TIME_TO_LIVE
    BY DEF NothingStaleIsTaken
  <2>1. ttl[s] > 0 /\ AgeBound(s)
    BY DEF AgeInv, PoppedIsAlive
  <2> QED
    BY <2>1, SenderAssumption DEF AgeBound, TypeInv, SensorTypes
<1> QED
  BY <1>1, <1>2, AgeInvNext, TypeInvInit, TypeInvNext, PTL DEF Spec

-----------------------------------------------------------------------------
(* Commands.  There is one buffer and one length, and both stay as they    *)
(* were issued while the next command is built over them.  Outside that     *)
(* time they agree, and what agrees with the length was issued.             *)

Building == commander \in {"building", "built"}

CommandInv ==
  /\ commander # "building" => command_datagram[1] = command_datagram[2]
  /\ ~Building => command_datagram[1] = command_datagram_bytes_remaining
  /\ command_datagram_bytes_remaining # None => issued > 0

LEMMA CommandInvNext == TypeInv /\ CommandInv /\ [Next]_vars => CommandInv'
<1> SUFFICES ASSUME TypeInv, CommandInv, [Next]_vars PROVE CommandInv'
  OBVIOUS
<1>1. issued \in Nat /\ command_datagram \in [1 .. 2 -> Commands \cup {None}]
  BY SenderAssumption DEF TypeInv, CommandTypes
<1>2. CASE BuildCommand
  \* Building begins or goes on, and length and count of commands stay.
  <2>1. Building' /\ UNCHANGED <<command_datagram_bytes_remaining, issued>>
    BY <1>2 DEF BuildCommand, Building
  <2>2. commander' # "building" => command_datagram'[1] = command_datagram'[2]
    BY <1>1, <1>2 DEF BuildCommand
  <2> QED
    BY <2>1, <2>2 DEF CommandInv
<1>3. CASE SendCommand
  BY <1>1, <1>3 DEF CommandInv, SendCommand
<1>4. CASE PollCommand
  BY <1>4 DEF CommandInv, Building, PollCommand
<1>5. CASE Transmit \/ Second \/ \E s \in Sensors : Update(s)
  <2>1. UNCHANGED commandVars
    BY <1>5 DEF Transmit, TakeCommand, ReadSensor, MarkTransmitted, EndDatagram,
                Second, Update, StoreValue, Validate, MarkUntransmitted
  <2> QED
    BY <2>1 DEF CommandInv, Building, commandVars
<1>6. CASE UNCHANGED vars
  BY <1>6 DEF CommandInv, Building, vars, commandVars
<1> QED
  BY <1>2, <1>3, <1>4, <1>5, <1>6 DEF Next, Command

\* Only TakeCommand loads a command.
LEMMA CommandIsTaken ==
  ASSUME [Next]_vars, sending = Nothing, sending'.kind = "command"
  PROVE  TakeCommand
<1>1. Nothing.kind # "command"
  BY DEF Nothing
<1>2. sending' # sending
  BY <1>1
<1>3. ~MarkTransmitted
  BY <1>1 DEF MarkTransmitted
<1> QED
  BY <1>2, <1>3 DEF Next, Update, StoreValue, Validate, MarkUntransmitted, Second,
                    Command, BuildCommand, SendCommand, PollCommand, Transmit,
                    ReadSensor, EndDatagram, vars, busVars

\* However many commands are issued: a datagram that begins while no command
\* function is building is the command issued last, in both halves and in
\* length, and no command goes out before one is issued.
THEOREM SenderCommandsMixOnlyInBuild == Spec => CommandsMixOnlyInBuild
<1>1. Init => CommandInv
  BY DEF Init, CommandInv
<1>2. ASSUME TypeInv, CommandInv, [Next]_vars
      PROVE  [sending = Nothing /\ sending'.kind = "command" =>
                /\ issued > 0
                /\ commander \in {"building", "built"} \/ Whole(sending')]_vars
  <2> SUFFICES ASSUME sending = Nothing, sending'.kind = "command"
               PROVE  /\ issued > 0
                      /\ Building \/ Whole(sending')
    BY DEF Building
  <2>1. /\ command_datagram_bytes_remaining # None
        /\ sending' = [kind |-> "command", halves |-> command_datagram,
                       length |-> command_datagram_bytes_remaining]
    BY <1>2, CommandIsTaken DEF TakeCommand, seatalk_command_pending
  <2>2. issued > 0
    BY <2>1, <1>2 DEF CommandInv
  <2>3. ASSUME ~Building
        PROVE  Whole(sending')
    <3>1. /\ command_datagram[1] = command_datagram_bytes_remaining
          /\ command_datagram[2] = command_datagram_bytes_remaining
      BY <1>2, <2>3 DEF CommandInv, Building
    <3>2. command_datagram = <<command_datagram[1], command_datagram[2]>>
      BY <1>2 DEF TypeInv, CommandTypes
    <3> QED
      BY <2>1, <3>1, <3>2 DEF Whole
  <2> QED
    BY <2>2, <2>3
<1> QED
  BY <1>1, <1>2, CommandInvNext, TypeInvInit, TypeInvNext, PTL
     DEF Spec, CommandsMixOnlyInBuild

-----------------------------------------------------------------------------
(* The last value.  On its way from the sensor to the bus a value is in the *)
(* interrupt's hands, then in the loaded datagram, then sent: at each place *)
(* it must still be the sensor's, unless an update of it is under way or   *)
(* still to be sent.                                                       *)

Popped(s) == pop # Idle /\ s \in DOMAIN pop.read

\* What the bus has of s, or will have when the loaded datagram is sent.
Latest(s) == IF Carries(s) THEN sending.read[s] ELSE sent[s]

PoppedIsCurrent == \A s \in Sensors : Popped(s) => pop.read[s] = value[s]

\* Of a datagram's two sensors only the first has been read when it is marked,
\* and a rudder position is read first only if there is no heading to send.
PopOrder ==
  pop # Idle =>
    /\ sending = Nothing
    /\ pop.sensor = pop.first => DOMAIN pop.read = {pop.first}
    /\ pop.first = "rudder_position" =>
         pop.sensor = pop.first /\ ~has_value_to_transmit("heading")

LatestIsCurrent ==
  \A s \in Sensors \ {"rudder_position"} :
    writer[s] = "idle" /\ transmitted[s] /\ ~Popped(s) => Latest(s) = value[s]

ValueInv == PoppedIsCurrent /\ PopOrder /\ LatestIsCurrent

LEMMA ValueInvUpdate ==
  ASSUME SMP = FALSE, TypeInv, ValueInv, NEW s \in Sensors, Update(s)
  PROVE  ValueInv'
<1>1. pop = Idle /\ UNCHANGED <<pop, sending, sent>>
  BY DEF Update, StoreValue, Validate, MarkUntransmitted, ThreadRuns, busVars
<1>2. PoppedIsCurrent' /\ PopOrder'
  BY <1>1 DEF PoppedIsCurrent, PopOrder, Popped
<1>3. ASSUME NEW t \in Sensors \ {"rudder_position"},
             writer'[t] = "idle", transmitted'[t]
      PROVE  Latest(t)' = value'[t]
  <2>1. t # s
    BY <1>3 DEF Update, StoreValue, Validate, MarkUntransmitted, TypeInv, SensorTypes
  <2>2. writer[t] = "idle" /\ transmitted[t] /\ value'[t] = value[t]
    BY <1>3, <2>1 DEF Update, StoreValue, Validate, MarkUntransmitted,
                      TypeInv, SensorTypes
  <2>3. Latest(t) = value[t]
    BY <1>1, <2>2 DEF ValueInv, LatestIsCurrent, Popped
  <2> QED
    BY <1>1, <2>2, <2>3 DEF Latest, Carries
<1> QED
  BY <1>2, <1>3 DEF ValueInv, LatestIsCurrent

LEMMA ValueInvMark ==
  ASSUME TypeInv, ValueInv, MarkTransmitted
  PROVE  ValueInv'
<1>1. /\ pop \in Pops /\ pop # Idle /\ pop.sensor \in DOMAIN pop.read
      /\ sending = Nothing
  BY DEF TypeInv, BusTypes, MarkTransmitted, ValueInv, PopOrder
<1>2. /\ UNCHANGED <<value, ttl, writer, sent>>
      /\ transmitted' = [transmitted EXCEPT ![pop.sensor] = TRUE]
      /\ transmitted \in [Sensors -> BOOLEAN]
  BY DEF MarkTransmitted, TypeInv, SensorTypes
<1>3. ASSUME NEW s \in Sensors, s \notin DOMAIN pop.read
      PROVE  /\ transmitted'[s] = transmitted[s]
             /\ Latest(s) = sent[s]
             /\ ~Popped(s)
  BY <1>1, <1>2, <1>3 DEF Latest, Carries, Nothing, Popped
<1>4. \A s \in DOMAIN pop.read : s \in Sensors /\ pop.read[s] = value[s]
  BY <1>1 DEF ValueInv, PoppedIsCurrent, Popped, Pops, Reads
<1>5. CASE PartnerPops
  <2> DEFINE partner == Partner[pop.sensor]
  <2>1. /\ pop' = [first |-> pop.first, sensor |-> partner,
                   read |-> [s \in {pop.sensor, partner} |->
                               IF s = partner THEN value[s] ELSE pop.read[s]]]
        /\ sending' = Nothing
    BY <1>1, <1>5 DEF MarkTransmitted
  <2>2. /\ pop.sensor = pop.first /\ partner # pop.sensor
        /\ DOMAIN pop.read = {pop.sensor}
        /\ has_value_to_transmit(partner) /\ partner \in Sensors
    BY <1>1, <1>5, PartnersDiffer
       DEF PartnerPops, ValueInv, PopOrder, has_value_to_transmit
  <2>3. pop.first # "rudder_position"
    BY <1>1, <1>5, <2>2, PartnersDiffer DEF PartnerPops, ValueInv, PopOrder
  <2> HIDE DEF partner
  <2>4. pop' # Idle
    BY <2>1, <2>2, SensorNames DEF Idle
  <2>5. PoppedIsCurrent'
    BY <1>2, <1>4, <2>1, <2>2 DEF PoppedIsCurrent, Popped
  <2>6. PopOrder'
    BY <2>1, <2>2, <2>3 DEF PopOrder
  <2>7. ASSUME NEW s \in Sensors \ {"rudder_position"},
               writer'[s] = "idle", transmitted'[s], ~Popped(s)'
        PROVE  Latest(s)' = value'[s]
    <3>1. s \notin DOMAIN pop.read
      BY <2>1, <2>2, <2>4, <2>7 DEF Popped
    <3>2. sent[s] = value[s]
      BY <1>2, <1>3, <2>7, <3>1 DEF ValueInv, LatestIsCurrent
    <3> QED
      BY <1>2, <2>1, <3>2 DEF Latest, Carries, Nothing
  <2> QED
    BY <2>5, <2>6, <2>7 DEF ValueInv, LatestIsCurrent
<1>6. CASE ~PartnerPops
  <2>1. /\ pop' = Idle
        /\ sending' = IF pop.first = "rudder_position" THEN Nothing
                      ELSE [kind |-> "sensors", read |-> pop.read]
    BY <1>6 DEF MarkTransmitted
  <2>2. PoppedIsCurrent' /\ PopOrder'
    BY <2>1 DEF PoppedIsCurrent, PopOrder, Popped
  <2>3. ASSUME NEW s \in Sensors \ {"rudder_position"},
               writer'[s] = "idle", transmitted'[s]
        PROVE  Latest(s)' = value'[s]
    <3>1. CASE s \in DOMAIN pop.read
      <4>1. pop.first # "rudder_position"
        BY <1>1, <2>3, <3>1 DEF ValueInv, PopOrder
      <4> QED
        BY <1>2, <1>4, <2>1, <3>1, <4>1 DEF Latest, Carries
    <3>2. CASE s \notin DOMAIN pop.read
      <4>1. sent[s] = value[s]
        BY <1>2, <1>3, <2>3, <3>2 DEF ValueInv, LatestIsCurrent
      <4>2. ~Carries(s)'
        BY <2>1, <3>2 DEF Carries, Nothing
      <4> QED
        BY <1>2, <4>1, <4>2 DEF Latest
    <3> QED
      BY <3>1, <3>2
  <2> QED
    BY <2>2, <2>3 DEF ValueInv, LatestIsCurrent
<1> QED
  BY <1>5, <1>6

LEMMA ValueInvBus ==
  ASSUME Collisions = FALSE, TypeInv, ValueInv,
         TakeCommand \/ ReadSensor \/ EndDatagram
  PROVE  ValueInv'
<1>1. UNCHANGED <<value, transmitted, ttl, writer>>
  BY DEF TakeCommand, ReadSensor, EndDatagram, sensorVars
<1>2. CASE TakeCommand
  <2>1. /\ pop = Idle /\ pop' = Idle /\ sent' = sent
        /\ \A s \in Sensors : ~Carries(s) /\ ~Carries(s)'
    BY <1>2 DEF TakeCommand, Carries, Nothing
  <2> QED
    BY <1>1, <2>1 DEF ValueInv, PoppedIsCurrent, PopOrder, LatestIsCurrent,
                      Popped, Latest
<1>3. CASE ReadSensor
  <2>1. /\ pop = Idle /\ sending = Nothing /\ UNCHANGED <<sending, sent>>
        /\ pop' = [first |-> FirstPending, sensor |-> FirstPending,
                   read |-> [s \in {FirstPending} |-> value[s]]]
    BY <1>3 DEF ReadSensor
  <2>2. /\ FirstPending \in Sensors
        /\ FirstPending = "rudder_position" => ~has_value_to_transmit("heading")
    BY <1>3, FirstPendingHasValue DEF ReadSensor
  <2>3. PoppedIsCurrent'
    BY <1>1, <2>1 DEF PoppedIsCurrent, Popped
  <2>4. PopOrder'
    BY <1>1, <2>1, <2>2 DEF PopOrder, has_value_to_transmit
  <2>5. \A s \in Sensors : ~Popped(s) /\ Latest(s)' = Latest(s)
    BY <2>1 DEF Popped, Latest, Carries
  <2> QED
    BY <1>1, <2>3, <2>4, <2>5 DEF ValueInv, LatestIsCurrent
<1>4. CASE EndDatagram
  <2>1. sending # Nothing /\ pop = Idle /\ pop' = Idle /\ sending' = Nothing
    BY <1>4 DEF EndDatagram, ValueInv, PopOrder
  <2>2. PoppedIsCurrent' /\ PopOrder'
    BY <2>1 DEF PoppedIsCurrent, PopOrder, Popped
  <2>3. ASSUME NEW s \in Sensors
        PROVE  Latest(s)' = Latest(s)
    <3>1. Latest(s)' = sent'[s]
      BY <2>1 DEF Latest, Carries, Nothing
    <3>2. sent'[s] = Latest(s)
      BY <1>4, <2>3 DEF EndDatagram, Latest, Carries
    <3> QED
      BY <3>1, <3>2
  <2> QED
    BY <1>1, <2>1, <2>2, <2>3 DEF ValueInv, LatestIsCurrent, Popped
<1> QED
  BY <1>2, <1>3, <1>4

LEMMA ValueInvNext ==
  ASSUME SMP = FALSE, Collisions = FALSE
  PROVE  TypeInv /\ ValueInv /\ [Next]_vars => ValueInv'
<1> SUFFICES ASSUME TypeInv, ValueInv, [Next]_vars PROVE ValueInv'
  OBVIOUS
<1>1. CASE Command
  <2>1. UNCHANGED <<sensorVars, busVars>>
    BY <1>1 DEF Command, BuildCommand, SendCommand, PollCommand
  <2> QED
    BY <2>1 DEF ValueInv, PoppedIsCurrent, PopOrder, LatestIsCurrent, Popped,
                Latest, Carries, has_value_to_transmit, sensorVars, busVars
<1>2. CASE Second
  <2>1. pop = Idle /\ UNCHANGED <<value, transmitted, writer, pop, sending, sent>>
    BY <1>2 DEF Second, ThreadRuns, busVars
  <2> QED
    BY <2>1 DEF ValueInv, PoppedIsCurrent, PopOrder, LatestIsCurrent, Popped,
                Latest, Carries
<1>3. CASE UNCHANGED vars
  BY <1>3 DEF ValueInv, PoppedIsCurrent, PopOrder, LatestIsCurrent, Popped,
              Latest, Carries, has_value_to_transmit, vars, sensorVars, busVars
<1> QED
  BY <1>1, <1>2, <1>3, ValueInvUpdate, ValueInvMark, ValueInvBus DEF Next, Transmit

\* On one processor, and without collisions, nothing written is lost: when the
\* transmitter is at rest and no update is under way or waiting, what was sent
\* last is what was written last, wherever the interrupt came.
THEOREM SenderSendsLastValue ==
  ASSUME SMP = FALSE, Collisions = FALSE
  PROVE  Spec => []LastValueSent
<1>1. Init => ValueInv
  BY DEF Init, ValueInv, PoppedIsCurrent, PopOrder, LatestIsCurrent, Popped,
         Latest, Carries, Nothing
<1>2. ValueInv => LastValueSent
  BY DEF ValueInv, LatestIsCurrent, Popped, Latest, LastValueSent
<1> QED
  BY <1>1, <1>2, ValueInvNext, TypeInvInit, TypeInvNext, PTL DEF Spec

=============================================================================
