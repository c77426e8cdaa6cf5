-------------------------- MODULE SeatalkBusProofs --------------------------
(***************************************************************************)
(* Proofs about SeatalkBus, for every length of a bit and of a frame, every *)
(* sampling point, debounce and guard time.  The types, the layers and the *)
(* line are for every latency below a bit and every other talker, the echo *)
(* for a driver that is alone and served in time.                          *)
(***************************************************************************)
EXTENDS SeatalkBus, SeatalkTransportProofs

-----------------------------------------------------------------------------
(* Timers *)

\* A timer that was due and is moved forward runs out within an interval.
LEMMA ForwardWithinInterval ==
  ASSUME NEW timer \in Int, timer <= 0, NEW interval \in Nat \ {0}
  PROVE  Forward(timer, interval) \in 1 .. interval
<1> DEFINE late == -timer
           q == late \div interval
<1>1. late \in Nat
  OBVIOUS
<1>2. q \in Nat /\ interval * q <= late /\ late < interval * q + interval
  BY <1>1
<1>3. interval * (1 + q) = interval * q + interval
  BY <1>2
<1>4. interval * q \in Int
  BY <1>2
<1>5. Forward(timer, interval) = interval * q + interval - late
  BY <1>3, <1>4 DEF Forward
<1> HIDE DEF q, late
<1> QED
  BY <1>1, <1>2, <1>4, <1>5

LEMMA TickFacts ==
  /\ BitTicks \in Nat \ {0} /\ DebounceTicks \in Nat \ {0}
  /\ DebounceTicks <= BitTicks
  /\ Latency \in Nat /\ Off \in Int /\ Off < 0
  /\ GuardTicks \in Nat /\ BitTicks <= GuardTicks
  /\ FirstSample \in Nat \ {0} /\ FirstSample <= GuardTicks + BitTicks + StartBitDelay
  /\ StartBitDelay \in Nat
<1>1. /\ BitTicks \in Nat \ {0} /\ DebounceTicks \in Nat \ {0}
      /\ DebounceTicks <= BitTicks /\ Latency \in Nat
      /\ StartBitDelay \in Nat /\ IDLE_BITS \in Nat \ {0}
  BY BusAssumption
<1>2. Off \in Int /\ Off < 0
  BY <1>1 DEF Off
<1>3. GuardTicks \in Nat /\ BitTicks <= GuardTicks
  <2>1. PICK k \in Nat : IDLE_BITS = k + 1
    <3>1. IDLE_BITS - 1 \in Nat /\ IDLE_BITS = (IDLE_BITS - 1) + 1
      BY <1>1
    <3> QED BY <3>1
  <2>2. k * BitTicks \in Nat /\ (k + 1) * BitTicks = k * BitTicks + BitTicks
    BY <1>1
  <2> QED
    BY <1>1, <2>1, <2>2 DEF GuardTicks
<1> QED
  BY <1>1, <1>2, <1>3 DEF FirstSample

-----------------------------------------------------------------------------
(* The hardware's types.  They are those of BusTypeOK but for the transport *)
(* layer's own, of which they need one, the command bit that goes out.     *)

TimerTypes ==
  rx_timer \in Timer /\ tx_timer \in Timer /\ irq \in Off .. 0

ReceiverTypes ==
  /\ debouncing \in BOOLEAN
  /\ rx_bit_number \in -1 .. CommandBit
  /\ rx_byte \in Byte
  /\ rx_command_bit \in BOOLEAN

TransmitterTypes ==
  /\ tx_bit_number \in -1 .. StopBit
  /\ txd \in BOOLEAN
  /\ tx_command_bit \in BOOLEAN

LineTypes ==
  /\ remote \in Silent .. FrameTicks - 1
  /\ remote_char \in [byte : Byte, command : BOOLEAN]
  /\ quiet \in 0 .. GuardTicks

HardwareTypes == TimerTypes /\ ReceiverTypes /\ TransmitterTypes /\ LineTypes

LEMMA NewTimers ==
  /\ Off \in Timer /\ BitTicks \in Timer /\ GuardTicks \in Timer
  /\ FirstSample \in Timer
  /\ \A timer \in Timer : Due(timer) =>
       Forward(timer, BitTicks) \in Timer /\ Forward(timer, DebounceTicks) \in Timer
<1>1. /\ Off \in Timer /\ BitTicks \in Timer /\ GuardTicks \in Timer
      /\ FirstSample \in Timer
  BY TickFacts DEF Timer
<1>2. ASSUME NEW timer \in Timer, Due(timer), NEW interval \in 1 .. BitTicks
      PROVE  Forward(timer, interval) \in Timer
  <2>1. timer \in Int /\ timer <= 0 /\ interval \in Nat \ {0}
    BY <1>2, TickFacts DEF Timer, Due
  <2>2. Forward(timer, interval) \in 1 .. interval
    BY <2>1, ForwardWithinInterval
  <2> QED
    BY <1>2, <2>2, TickFacts DEF Timer
<1> QED
  BY <1>1, <1>2, TickFacts

\* Off is not a time at which a timer runs out.
LEMMA ForwardIsOn ==
  ASSUME NEW timer \in Timer, Due(timer), NEW interval \in 1 .. BitTicks
  PROVE  Forward(timer, interval) # Off /\ Forward(timer, interval) <= interval
<1>1. timer \in Int /\ timer <= 0 /\ interval \in Nat \ {0}
  BY TickFacts DEF Timer, Due
<1> QED
  BY <1>1, ForwardWithinInterval, TickFacts

\* A timer that may wait runs on, and one that is off stays off.
LEMMA ElapseProperties ==
  /\ \A timer \in Timer : MayWait(timer) =>
       Elapse(timer) \in Timer /\ ((Elapse(timer) = Off) = (timer = Off))
  /\ \A timer \in Off .. 0 : MayWait(timer) => Elapse(timer) \in Off .. 0
<1>1. ASSUME NEW top \in Int, NEW timer \in Off .. top, MayWait(timer)
      PROVE  Elapse(timer) \in Off .. top /\ ((Elapse(timer) = Off) = (timer = Off))
  BY <1>1, TickFacts DEF Elapse, MayWait, Off
<1>2. GuardTicks + BitTicks + StartBitDelay \in Int
  BY TickFacts
<1> QED
  BY <1>1, <1>2 DEF Timer

LEMMA FrameFacts ==
  /\ CommandBit \in Nat \ {0} /\ StopBit = CommandBit + 1
  /\ FrameTicks \in Nat \ {0}
<1>1. CommandBit \in Nat \ {0} /\ StopBit = CommandBit + 1
  BY TransportAssumption DEF CommandBit, StopBit
<1>2. FrameTicks \in Nat \ {0}
  <2>1. DataBits + 2 \in Nat /\ BitTicks \in Nat \ {0}
    BY TransportAssumption, TickFacts
  <2>2. ASSUME NEW n \in Nat, NEW d \in Nat \ {0}
        PROVE  (n + 1) * d \in Nat \ {0}
    <3>1. n * d \in Nat /\ (n + 1) * d = n * d + d
      OBVIOUS
    <3> QED BY <3>1
  <2>3. DataBits + 3 = (DataBits + 2) + 1
    BY TransportAssumption
  <2> QED
    BY <2>1, <2>2, <2>3 DEF FrameTicks
<1> QED
  BY <1>1, <1>2

LEMMA HardwareTypesInit == BusInit => HardwareTypes
<1> SUFFICES ASSUME BusInit PROVE HardwareTypes
  OBVIOUS
<1>1. TimerTypes
  BY NewTimers, TickFacts DEF BusInit, TimerTypes
<1>2. ReceiverTypes /\ TransmitterTypes
  <2>1. rx_bit_number \in -1 .. CommandBit /\ tx_bit_number \in -1 .. StopBit
    BY FrameFacts DEF BusInit
  <2>2. rx_byte \in Byte
    BY EmptyValues, Zenon DEF BusInit
  <2>3. /\ debouncing \in BOOLEAN /\ rx_command_bit \in BOOLEAN
        /\ txd \in BOOLEAN /\ tx_command_bit \in BOOLEAN
    BY DEF BusInit, Init
  <2> QED
    BY <2>1, <2>2, <2>3 DEF ReceiverTypes, TransmitterTypes
<1>3. LineTypes
  <2>1. remote \in Silent .. FrameTicks - 1
    BY FrameFacts DEF BusInit, Silent
  <2>2. remote_char \in [byte : Byte, command : BOOLEAN]
    BY EmptyValues DEF BusInit
  <2>3. quiet \in 0 .. GuardTicks
    BY TickFacts DEF BusInit
  <2> QED
    BY <2>1, <2>2, <2>3 DEF LineTypes
<1> QED
  BY <1>1, <1>2, <1>3 DEF HardwareTypes

LEMMA EdgeKeepsType ==
  ASSUME NEW pending \in Off .. 0, EdgeFrom(pending)
  PROVE  irq' \in Off .. 0
  BY TickFacts DEF EdgeFrom

LEMMA HardwareTypesReceive ==
  ASSUME HardwareTypes, RxdInterrupt \/ ReceiveBit
  PROVE  HardwareTypes'
<1>1. UNCHANGED <<txVars, remoteVars, quiet, tx_command_bit>>
  BY DEF RxdInterrupt, ReceiveBit, EndDebounce, SampleBit, SampleStopBit, vars,
         wireVars, initiate_seatalk_receive_character, seatalk_byte_received,
         FramingError
<1>2. TransmitterTypes' /\ LineTypes'
  BY <1>1 DEF HardwareTypes, TransmitterTypes, LineTypes, txVars, remoteVars
<1>3. CASE RxdInterrupt
  BY <1>2, <1>3, NewTimers, TickFacts
     DEF HardwareTypes, TimerTypes, ReceiverTypes, RxdInterrupt, rxVars
<1>4. CASE ReceiveBit
  <2>1. irq' = irq /\ Due(rx_timer) /\ rx_timer \in Timer
    BY <1>4 DEF ReceiveBit, HardwareTypes, TimerTypes
  <2>2. CASE EndDebounce
    BY <1>2, <2>1, <2>2, NewTimers
       DEF HardwareTypes, TimerTypes, ReceiverTypes, EndDebounce
  <2>3. CASE SampleBit
    <3>1. rx_byte' \in Byte
      <4> DEFINE bit == rx_bit_number + 1
      <4>1. bit < CommandBit => {bit} \in Byte
        BY FrameFacts DEF HardwareTypes, ReceiverTypes, Byte, BitNumber, CommandBit
      <4>2. {} \in Byte /\ rx_byte \in Byte
        BY EmptyValues DEF HardwareTypes, ReceiverTypes
      <4>3. rx_byte' = SampledByte(bit)
        BY <2>3 DEF SampleBit
      <4> HIDE DEF bit
      <4> QED
        BY <4>1, <4>2, <4>3 DEF SampledByte, Byte
    <3>2. rx_bit_number' \in -1 .. CommandBit
      BY <2>3, FrameFacts DEF SampleBit, HardwareTypes, ReceiverTypes
    <3>3. rx_command_bit' \in BOOLEAN
      BY <2>3, Zenon DEF SampleBit
    <3> QED
      BY <1>2, <2>1, <2>3, <3>1, <3>2, <3>3, NewTimers
         DEF HardwareTypes, TimerTypes, ReceiverTypes, SampleBit
  <2>4. CASE SampleStopBit
    <3>1. tx_timer' \in Timer
      BY <2>4, NewTimers DEF SampleStopBit, HardwareTypes, TimerTypes
    <3>2. rx_bit_number' \in -1 .. CommandBit
      BY <2>4, FrameFacts DEF SampleStopBit
    <3> QED
      BY <1>2, <2>1, <2>4, <3>1, <3>2, NewTimers
         DEF HardwareTypes, TimerTypes, ReceiverTypes, SampleStopBit
  <2> QED
    BY <1>4, <2>2, <2>3, <2>4 DEF ReceiveBit
<1> QED
  BY <1>3, <1>4

LEMMA HardwareTypesTransmit ==
  ASSUME HardwareTypes, TransmitBit
  PROVE  HardwareTypes'
<1>1. UNCHANGED <<rx_timer, rxVars, remoteVars, quiet>>
  BY DEF TransmitBit
<1>2. irq' \in Off .. 0
  BY EdgeKeepsType DEF TransmitBit, HardwareTypes, TimerTypes
<1>3. Due(tx_timer) /\ tx_timer \in Timer
  BY DEF TransmitBit, HardwareTypes, TimerTypes
<1>4. tx_timer' \in Timer /\ TransmitterTypes'
  <2>1. CASE SendStartBit
    <3>1. tx_command_bit' \in BOOLEAN
      BY <2>1, Zenon DEF SendStartBit, StartCharacter, SendByteAt, wireVars,
                  HardwareTypes, TransmitterTypes
    <3>2. tx_bit_number' \in -1 .. StopBit
      BY <2>1, FrameFacts DEF SendStartBit, HardwareTypes, TransmitterTypes, txVars
    <3>3. txd' \in BOOLEAN
      BY <2>1, Zenon DEF SendStartBit, HardwareTypes, TransmitterTypes, txVars
    <3>4. tx_timer' \in Timer
      BY <1>3, <2>1, NewTimers DEF SendStartBit
    <3> QED
      BY <3>1, <3>2, <3>3, <3>4 DEF TransmitterTypes
  <2>2. CASE SendBit
    <3>1. tx_command_bit' = tx_command_bit
      BY <2>2 DEF SendBit, vars, wireVars
    <3>2. txd' \in BOOLEAN
      <4>1. CASE tx_bit_number = CommandBit
        BY <2>2, <4>1 DEF SendBit, HardwareTypes, TransmitterTypes
      <4>2. CASE tx_bit_number # CommandBit
        <5>1. txd' = (tx_bit_number \in tx_byte)
          BY <2>2, <4>2 DEF SendBit
        <5> QED
          BY <5>1
      <4> QED
        BY <4>1, <4>2
    <3> QED
      BY <1>3, <2>2, <3>1, <3>2, NewTimers, FrameFacts
         DEF SendBit, HardwareTypes, TransmitterTypes
  <2>3. CASE SendStopBit
    BY <1>3, <2>3, NewTimers, FrameFacts
       DEF SendStopBit, CharacterSent, wireVars, HardwareTypes, TransmitterTypes
  <2> QED
    BY <2>1, <2>2, <2>3 DEF TransmitBit
<1> QED
  BY <1>1, <1>2, <1>4
     DEF HardwareTypes, TimerTypes, ReceiverTypes, LineTypes, rxVars, remoteVars

LEMMA HardwareTypesLine ==
  ASSUME HardwareTypes, RemoteStart \/ Tick
  PROVE  HardwareTypes'
<1>1. UNCHANGED <<vars, rxVars, txVars>>
  BY DEF RemoteStart, Tick
<1>2. ReceiverTypes' /\ TransmitterTypes'
  BY <1>1 DEF HardwareTypes, ReceiverTypes, TransmitterTypes, rxVars, txVars,
              vars, wireVars
<1>3. TimerTypes'
  <2>1. CASE RemoteStart
    BY <2>1, EdgeKeepsType DEF RemoteStart, HardwareTypes, TimerTypes
  <2>2. CASE Tick
    BY <2>2, EdgeKeepsType, ElapseProperties DEF Tick, HardwareTypes, TimerTypes
  <2> QED
    BY <2>1, <2>2
<1>4. LineTypes'
  <2>1. remote' \in Silent .. FrameTicks - 1
    BY FrameFacts DEF RemoteStart, Tick, RemoteElapse, HardwareTypes, LineTypes, Silent
  <2>2. remote_char' \in [byte : Byte, command : BOOLEAN]
    <3>1. \A byte \in RemoteBytes, command \in BOOLEAN :
            [byte |-> byte, command |-> command] \in [byte : Byte, command : BOOLEAN]
      BY BusAssumption
    <3>2. \/ remote_char' = remote_char
          \/ \E byte \in RemoteBytes, command \in BOOLEAN :
               remote_char' = [byte |-> byte, command |-> command]
      BY DEF RemoteStart, Tick, RemoteElapse
    <3> QED
      BY <3>1, <3>2 DEF HardwareTypes, LineTypes
  <2>3. quiet' \in 0 .. GuardTicks
    BY TickFacts DEF RemoteStart, Tick, HardwareTypes, LineTypes
  <2> QED
    BY <2>1, <2>2, <2>3 DEF LineTypes
<1> QED
  BY <1>2, <1>3, <1>4 DEF HardwareTypes

LEMMA HardwareTypesStep == HardwareTypes /\ [BusNext]_busVars => HardwareTypes'
<1> SUFFICES ASSUME HardwareTypes, [BusNext]_busVars PROVE HardwareTypes'
  OBVIOUS
<1>1. CASE Host
  <2>1. UNCHANGED <<rx_timer, irq, rxVars, txVars, remoteVars, quiet, tx_command_bit>>
    BY <1>1 DEF Host, HostUpdate, WakeTest, WakeCancel, WakeStart, DataExpires, wireVars
  <2>2. tx_timer' \in Timer
    BY <1>1, NewTimers DEF Host, HardwareTypes, TimerTypes
  <2> QED
    BY <2>1, <2>2 DEF HardwareTypes, TimerTypes, ReceiverTypes, TransmitterTypes,
                      LineTypes, rxVars, txVars, remoteVars
<1>2. CASE UNCHANGED busVars
  BY <1>2 DEF HardwareTypes, TimerTypes, ReceiverTypes, TransmitterTypes, LineTypes,
              busVars, vars, wireVars, timers, rxVars, txVars, remoteVars
<1> QED
  BY <1>1, <1>2, HardwareTypesReceive, HardwareTypesTransmit, HardwareTypesLine
     DEF BusNext

-----------------------------------------------------------------------------
(* The bits implement the characters: every step of the bus is a step of   *)
(* SeatalkTransport or leaves its variables alone.  SeatalkBus assembles   *)
(* the bytes it hears from the line and asks for no Heard; the theorem is  *)
(* about a SeatalkTransport that hears any byte.                           *)

LEMMA BusStepIsStep ==
  ASSUME HardwareTypes, [BusNext]_busVars,
         SampleStopBit => rx_byte \in Heard \cup {tx_byte}
  PROVE  [Next]_vars
<1>1. CASE RxdInterrupt
  BY <1>1 DEF RxdInterrupt, Next
<1>2. CASE ReceiveBit
  <2>1. CASE EndDebounce \/ SampleBit
    BY <2>1 DEF EndDebounce, SampleBit
  <2>2. CASE SampleStopBit
    <3>1. CASE FramingError
      BY <3>1 DEF Next, Receive
    <3>2. CASE seatalk_byte_received(rx_byte, rx_command_bit)
      <4>1. rx_byte \in Heard \cup {tx_byte} /\ rx_command_bit \in BOOLEAN
        BY <2>2 DEF HardwareTypes, ReceiverTypes
      <4>2. receiver
        BY <3>2 DEF seatalk_byte_received
      <4>3. CharacterReceived
        BY <3>2, <4>1, <4>2 DEF CharacterReceived
      <4> QED
        BY <4>3 DEF Next, Receive
    <3> QED
      BY <2>2, <3>1, <3>2 DEF SampleStopBit
  <2> QED
    BY <1>2, <2>1, <2>2 DEF ReceiveBit
<1>3. CASE TransmitBit
  <2>1. CASE SendStartBit \/ SendStopBit
    BY <2>1 DEF SendStartBit, SendStopBit, Next, Transmit
  <2>2. CASE SendBit
    BY <2>2 DEF SendBit
  <2> QED
    BY <1>3, <2>1, <2>2 DEF TransmitBit
<1>4. CASE Host
  BY <1>4 DEF Host, Next, Wake
<1>5. CASE RemoteStart \/ Tick
  BY <1>5 DEF RemoteStart, Tick
<1>6. CASE UNCHANGED busVars
  BY <1>6 DEF busVars
<1> QED
  BY <1>1, <1>2, <1>3, <1>4, <1>5, <1>6 DEF BusNext

\* Bit by bit, on the timers of the hardware layer and with another talker on
\* the line, the driver does nothing that the character model does not do, so
\* what is proved of that model holds of the interrupt handlers that clock it.
THEOREM BusImplementsTransport ==
  ASSUME Heard = Byte, FramingErrors = TRUE
  PROVE  BusSpec => Spec
<1>1. BusInit => Init
  BY DEF BusInit
<1>2. HardwareTypes /\ [BusNext]_busVars => [Next]_vars
  BY BusStepIsStep DEF HardwareTypes, ReceiverTypes
<1> QED
  BY <1>1, <1>2, HardwareTypesInit, HardwareTypesStep, PTL DEF BusSpec, Spec

\* The types of the bits, timers and pins, and of the transport layer with them.
THEOREM BusTypeCorrect ==
  ASSUME Heard = Byte, FramingErrors = TRUE
  PROVE  BusSpec => []BusTypeOK
<1>1. HardwareTypes /\ TypeOK => BusTypeOK
  BY DEF HardwareTypes, TimerTypes, ReceiverTypes, TransmitterTypes, LineTypes,
         BusTypeOK
<1> QED
  BY <1>1, BusImplementsTransport, TypeCorrect, HardwareTypesInit, HardwareTypesStep,
     PTL DEF BusSpec

-----------------------------------------------------------------------------
(* The layers.  LayersAgree is inductive with the debounce time: the rx    *)
(* timer runs while it lasts, and no longer for a reception.               *)

LayersInv ==
  /\ HardwareTypes
  /\ LayersAgree
  /\ debouncing => rx_timer # Off

LEMMA DueTimersMoveOn ==
  ASSUME HardwareTypes
  PROVE  /\ Due(rx_timer) => /\ rx_timer # Off
                             /\ Forward(rx_timer, BitTicks) # Off
                             /\ Forward(rx_timer, DebounceTicks) # Off
         /\ Due(tx_timer) => /\ tx_timer # Off
                             /\ Forward(tx_timer, BitTicks) # Off
                             /\ Forward(tx_timer, BitTicks) <= BitTicks
<1>1. rx_timer \in Timer /\ tx_timer \in Timer
  BY DEF HardwareTypes, TimerTypes
<1>2. BitTicks \in 1 .. BitTicks /\ DebounceTicks \in 1 .. BitTicks
  BY TickFacts
<1> QED
  BY <1>1, <1>2, ForwardIsOn DEF Due

\* The transmit timer is restarted for the guard time, or left alone.
LEMMA ReceptionRestarts ==
  ASSUME seatalk_byte_received(rx_byte, rx_command_bit),
         tx_timer' = IF GuardTimeFollows(rx_byte) THEN GuardTicks ELSE tx_timer
  PROVE  /\ (transmitter' = "sending") = (transmitter = "sending")
         /\ \/ UNCHANGED <<tx_timer, transmitter>>
            \/ tx_timer' # Off /\ transmitter' # "off"
<1>1. CASE GuardTimeFollows(rx_byte)
  BY <1>1, TickFacts DEF seatalk_byte_received, Restarted
<1>2. CASE ~GuardTimeFollows(rx_byte)
  BY <1>2 DEF seatalk_byte_received
<1> QED
  BY <1>1, <1>2

LEMMA LayersInvReceive ==
  ASSUME HostPreempted = FALSE, LayersInv, RxdInterrupt \/ ReceiveBit
  PROVE  LayersAgree' /\ (debouncing => rx_timer # Off)'
<1>1. host' = host /\ host \notin {"stopping", "starting"}
  BY DEF RxdInterrupt, ReceiveBit, EndDebounce, SampleBit, SampleStopBit,
         Interruptible, vars, initiate_seatalk_receive_character,
         seatalk_byte_received, FramingError
<1>2. tx_bit_number' = tx_bit_number
  BY DEF RxdInterrupt, ReceiveBit, txVars
<1>3. CASE RxdInterrupt
  <2>1. UNCHANGED <<tx_timer, debouncing, transmitter>>
    BY <1>3 DEF RxdInterrupt, rxVars, vars, initiate_seatalk_receive_character
  <2>2. receiver' = (rx_timer' # Off /\ ~debouncing')
    <3>1. CASE UNCHANGED <<vars, rx_timer>>
      BY <2>1, <3>1 DEF vars, LayersInv, LayersAgree
    <3>2. CASE /\ ~debouncing
               /\ initiate_seatalk_receive_character
               /\ rx_timer' = FirstSample
      <4>1. rx_timer' # Off
        BY <3>2, TickFacts
      <4>2. receiver' = TRUE /\ ~debouncing'
        BY <2>1, <3>2 DEF initiate_seatalk_receive_character
      <4> QED
        BY <4>1, <4>2
    <3> QED
      BY <1>3, <3>1, <3>2 DEF RxdInterrupt
  <2>3. debouncing' => rx_timer' # Off
    BY <1>3, <2>1 DEF RxdInterrupt, LayersInv
  <2> QED
    BY <1>1, <1>2, <2>1, <2>2, <2>3 DEF LayersInv, LayersAgree
<1>4. CASE ReceiveBit
  <2>1. /\ rx_timer # Off
        /\ Forward(rx_timer, BitTicks) # Off
        /\ Forward(rx_timer, DebounceTicks) # Off
    BY <1>4, DueTimersMoveOn DEF ReceiveBit, LayersInv
  <2>2. CASE EndDebounce
    BY <1>1, <1>2, <2>2 DEF EndDebounce, vars, LayersInv, LayersAgree
  <2>3. CASE SampleBit
    BY <1>1, <1>2, <2>1, <2>3 DEF SampleBit, vars, LayersInv, LayersAgree
  <2>4. CASE SampleStopBit
    <3>1. receiver' = FALSE /\ debouncing' = TRUE /\ rx_timer' # Off
      BY <2>1, <2>4 DEF SampleStopBit, seatalk_byte_received, FramingError
    <3>2. CASE FramingError /\ UNCHANGED tx_timer
      BY <1>1, <1>2, <3>1, <3>2 DEF FramingError, LayersInv, LayersAgree
    <3>3. CASE /\ seatalk_byte_received(rx_byte, rx_command_bit)
               /\ tx_timer' = IF GuardTimeFollows(rx_byte) THEN GuardTicks ELSE tx_timer
      BY <1>1, <1>2, <3>1, <3>3, ReceptionRestarts DEF LayersInv, LayersAgree
    <3> QED
      BY <2>4, <3>2, <3>3 DEF SampleStopBit
  <2> QED
    BY <1>4, <2>2, <2>3, <2>4 DEF ReceiveBit
<1> QED
  BY <1>3, <1>4

LEMMA LayersInvTransmit ==
  ASSUME HostPreempted = FALSE, LayersInv, TransmitBit
  PROVE  LayersAgree' /\ (debouncing => rx_timer # Off)'
<1>1. host' = host /\ host \notin {"stopping", "starting"}
  BY DEF TransmitBit, Interruptible, SendStartBit, SendBit, SendStopBit, vars,
         StartCharacter, CharacterSent
<1>2. UNCHANGED <<receiver, rx_timer, debouncing>>
  BY DEF TransmitBit, rxVars, SendStartBit, SendBit, SendStopBit, vars,
         StartCharacter, CharacterSent
<1>3. tx_timer # Off /\ Forward(tx_timer, BitTicks) # Off
  BY DueTimersMoveOn DEF TransmitBit, LayersInv
<1>4. CASE SendStartBit
  BY <1>1, <1>2, <1>3, <1>4 DEF SendStartBit, txVars, LayersInv, LayersAgree
<1>5. CASE SendBit
  <2>1. tx_bit_number' # -1 /\ tx_bit_number # -1
    BY <1>5, FrameFacts DEF SendBit
  <2>2. transmitter' = transmitter /\ tx_timer' # Off
    BY <1>3, <1>5 DEF SendBit, vars
  <2> QED
    BY <1>1, <1>2, <1>3, <2>1, <2>2 DEF LayersInv, LayersAgree
<1>6. CASE SendStopBit
  BY <1>1, <1>2, <1>3, <1>6 DEF SendStopBit, CharacterSent, LayersInv, LayersAgree
<1> QED
  BY <1>4, <1>5, <1>6 DEF TransmitBit

\* What the host thread does to the transmitter's timer.
LEMMA HostStep ==
  ASSUME Host
  PROVE  /\ UNCHANGED <<receiver, rx_timer, debouncing, tx_bit_number, txd>>
         /\ (transmitter' = "sending") = (transmitter = "sending")
         /\ \/ /\ UNCHANGED <<tx_timer, transmitter>>
               /\ (host' = "starting") = (host = "starting")
            \/ tx_timer' = Off /\ host' = "starting"
            \/ /\ tx_timer' = BitTicks /\ transmitter' # "off"
               /\ host' # "starting"
<1>1. UNCHANGED <<receiver, rx_timer, debouncing, tx_bit_number, txd>>
  BY DEF Host, rxVars, txVars, HostUpdate, WakeTest, WakeCancel, WakeStart, DataExpires
<1>2. CASE (HostUpdate \/ WakeTest \/ DataExpires) /\ UNCHANGED tx_timer
  BY <1>1, <1>2 DEF HostUpdate, WakeTest, DataExpires
<1>3. CASE WakeCancel /\ tx_timer' = Off
  BY <1>1, <1>3 DEF WakeCancel
<1>4. CASE WakeStart /\ tx_timer' = BitTicks
  BY <1>1, <1>4 DEF WakeStart, Restarted
<1> QED
  BY <1>2, <1>3, <1>4 DEF Host

\* The line and the clock stop no timer and start none.
LEMMA LineStep ==
  ASSUME HardwareTypes, RemoteStart \/ Tick
  PROVE  /\ UNCHANGED <<receiver, transmitter, host, debouncing, tx_bit_number, txd>>
         /\ (rx_timer' = Off) = (rx_timer = Off)
         /\ (tx_timer' = Off) = (tx_timer = Off)
         /\ tx_timer' <= BitTicks \/ tx_timer > BitTicks \/ tx_timer = Off
<1>1. UNCHANGED <<receiver, transmitter, host, debouncing, tx_bit_number, txd>>
  BY DEF RemoteStart, Tick, vars, rxVars, txVars
<1>2. (rx_timer' = Off) = (rx_timer = Off) /\ (tx_timer' = Off) = (tx_timer = Off)
  BY ElapseProperties DEF RemoteStart, Tick, HardwareTypes, TimerTypes
<1>3. tx_timer' <= BitTicks \/ tx_timer > BitTicks \/ tx_timer = Off
  BY TickFacts DEF RemoteStart, Tick, Elapse, HardwareTypes, TimerTypes, Timer
<1> QED
  BY <1>1, <1>2, <1>3

LEMMA LayersInvStep ==
  ASSUME HostPreempted = FALSE
  PROVE  LayersInv /\ [BusNext]_busVars => LayersInv'
<1> SUFFICES ASSUME LayersInv, [BusNext]_busVars PROVE LayersInv'
  OBVIOUS
<1>1. HardwareTypes /\ HardwareTypes'
  BY HardwareTypesStep DEF LayersInv
<1>2. CASE UNCHANGED busVars
  BY <1>1, <1>2 DEF busVars, vars, timers, rxVars, txVars, LayersInv, LayersAgree
<1>3. CASE Host
  BY <1>1, <1>3, HostStep, TickFacts DEF LayersInv, LayersAgree
<1>4. CASE RemoteStart \/ Tick
  BY <1>1, <1>4, LineStep DEF LayersInv, LayersAgree
<1> QED
  BY <1>1, <1>2, <1>3, <1>4, LayersInvReceive, LayersInvTransmit
     DEF BusNext, LayersInv

\* As long as the wake-up call is not preempted, each timer runs exactly when
\* the transport layer counts on it, however late the interrupts are.
THEOREM LayersAgreeHolds ==
  ASSUME HostPreempted = FALSE
  PROVE  BusSpec => []LayersAgree
<1>1. BusInit => LayersInv
  BY HardwareTypesInit DEF BusInit, Init, LayersInv, LayersAgree
<1>2. LayersInv => LayersAgree
  BY DEF LayersInv
<1> QED
  BY <1>1, <1>2, LayersInvStep, PTL DEF BusSpec

-----------------------------------------------------------------------------
(* The line.  It is low only inside a character, and inside a character    *)
(* the transmit timer runs, even when the wake-up call is preempted and    *)
(* LayersAgree fails.  A reception that ends sets that timer to the long   *)
(* guard time, but a reception ends well only on a line that is high.      *)

LowInv ==
  /\ HardwareTypes
  /\ (transmitter = "sending") = (tx_bit_number # -1)
  /\ tx_timer = Off => transmitter = "off" \/ host = "starting"
  /\ ~txd => tx_bit_number # -1
  /\ NotHeldLow

LEMMA LowInvReceive ==
  ASSUME LowInv, HardwareTypes', RxdInterrupt \/ ReceiveBit
  PROVE  LowInv'
<1>1. UNCHANGED <<host, tx_bit_number, txd>>
  BY DEF RxdInterrupt, ReceiveBit, EndDebounce, SampleBit, SampleStopBit, vars,
         txVars, initiate_seatalk_receive_character, seatalk_byte_received,
         FramingError
<1>2. CASE UNCHANGED <<tx_timer, transmitter>>
  BY <1>1, <1>2 DEF LowInv, NotHeldLow
<1>3. CASE /\ StopBitHigh
           /\ seatalk_byte_received(rx_byte, rx_command_bit)
           /\ tx_timer' = IF GuardTimeFollows(rx_byte) THEN GuardTicks ELSE tx_timer
  <2>1. txd'
    BY <1>1, <1>3 DEF StopBitHigh, Line
  <2> QED
    BY <1>1, <1>3, <2>1, ReceptionRestarts DEF LowInv, NotHeldLow
<1> QED
  BY <1>2, <1>3 DEF RxdInterrupt, ReceiveBit, EndDebounce, SampleBit, SampleStopBit,
                    vars, initiate_seatalk_receive_character, FramingError

LEMMA LowInvTransmit ==
  ASSUME LowInv, HardwareTypes', TransmitBit
  PROVE  LowInv'
<1>1. host' = host
  BY DEF TransmitBit, SendStartBit, SendBit, SendStopBit, vars, StartCharacter,
         CharacterSent
<1>2. /\ tx_timer # Off /\ Forward(tx_timer, BitTicks) # Off
      /\ Forward(tx_timer, BitTicks) <= BitTicks
  BY DueTimersMoveOn DEF TransmitBit, LowInv
<1>3. CASE SendStartBit
  BY <1>1, <1>2, <1>3 DEF SendStartBit, txVars, LowInv, NotHeldLow
<1>4. CASE SendBit
  <2>1. tx_bit_number' # -1 /\ tx_bit_number # -1
    BY <1>4, FrameFacts DEF SendBit
  <2>2. transmitter' = transmitter /\ tx_timer' = Forward(tx_timer, BitTicks)
    BY <1>4 DEF SendBit, vars
  <2> QED
    BY <1>1, <1>2, <2>1, <2>2 DEF LowInv, NotHeldLow
<1>5. CASE SendStopBit
  BY <1>1, <1>2, <1>5 DEF SendStopBit, CharacterSent, LowInv, NotHeldLow
<1> QED
  BY <1>3, <1>4, <1>5 DEF TransmitBit

LEMMA LowInvStep == LowInv /\ [BusNext]_busVars => LowInv'
<1> SUFFICES ASSUME LowInv, [BusNext]_busVars PROVE LowInv'
  OBVIOUS
<1>1. HardwareTypes /\ HardwareTypes'
  BY HardwareTypesStep DEF LowInv
<1>2. CASE UNCHANGED busVars
  BY <1>1, <1>2 DEF busVars, vars, timers, rxVars, txVars, LowInv, NotHeldLow
<1>3. CASE Host
  BY <1>1, <1>3, HostStep, TickFacts DEF LowInv, NotHeldLow
<1>4. CASE RemoteStart \/ Tick
  <2>1. tx_timer \in Int /\ BitTicks \in Int
    BY <1>1, TickFacts DEF HardwareTypes, TimerTypes, Timer
  <2> QED
    BY <1>1, <1>4, <2>1, LineStep DEF LowInv, NotHeldLow
<1> QED
  BY <1>1, <1>2, <1>3, <1>4, LowInvReceive, LowInvTransmit DEF BusNext

\* The driver lets go of the line within a bit, for every other talker, however
\* late the interrupts are and wherever they come in the wake-up call.
THEOREM NotHeldLowHolds == BusSpec => []NotHeldLow
<1>1. BusInit => LowInv
  BY HardwareTypesInit DEF BusInit, Init, LowInv, NotHeldLow
<1>2. LowInv => NotHeldLow
  BY DEF LowInv
<1> QED
  BY <1>1, <1>2, LowInvStep, PTL DEF BusSpec

-----------------------------------------------------------------------------
(* The driver alone.  With no other talker, and with every interrupt served *)
(* soon enough, a character is echoed bit for bit before the next begins:   *)
(* the receiver's timer stays a fixed time behind the transmitter's, and    *)
(* samples each bit after it has been put on the line and before the next.  *)

\* What the theorems of this section assume.  With the code's START_BIT_DELAY
\* (52 microseconds), DEBOUNCE_NANOS (60) and BIT_INTERVAL (208) it allows for
\* interrupts that are 24 microseconds late.
ServedInTime ==
  /\ RemoteBytes = {} /\ HostPreempted = FALSE
  /\ 2 * Latency < StartBitDelay
  /\ StartBitDelay + DebounceTicks + 4 * Latency < BitTicks
  /\ \A datagram \in Datagrams : Len(datagram) <= ReceiveBufferSize

\* The bit that is on the line: 0 for the start bit, then the data bits, the
\* command bit and, until the next character, the stop bit.
Place == IF tx_bit_number = -1 THEN StopBit + 1 ELSE tx_bit_number

Level(place) ==
  \/ place \in 1 .. DataBits /\ place - 1 \in tx_byte
  \/ place = StopBit /\ tx_command_bit
  \/ place = StopBit + 1

\* The line has been high for what is gone of the guard time.
Guarded ==
  IF transmit_datagram_bytes_remaining = 0
  THEN \/ quiet = GuardTicks
       \/ bus_state = "WAIT_FOR_IDLE" /\ quiet + tx_timer >= GuardTicks
  ELSE bus_state = "WAIT_FOR_IDLE" /\ transmit_buffer_position > 0

\* Between two characters.  The debounce time ends before the next may begin.
Between ==
  /\ bus_state \in {"IDLE", "WAIT_FOR_IDLE"}
  /\ ~receiver /\ rx_bit_number = -1 /\ tx_bit_number = -1 /\ txd /\ irq = Off
  /\ debouncing =>
       rx_timer <= DebounceTicks /\ (tx_timer # Off => tx_timer - rx_timer > Latency)
  /\ bus_state = "WAIT_FOR_IDLE" => tx_timer # Off
  /\ Guarded

\* The edge of the start bit has not been served yet.
Begun ==
  /\ ~receiver /\ rx_bit_number = -1 /\ tx_bit_number = 0
  /\ irq # Off /\ tx_timer - irq \in BitTicks - Latency .. BitTicks

\* The bit on the line has been sampled.
Sampled ==
  /\ Place = rx_bit_number + 1 /\ irq = Off
  /\ rx_timer - tx_timer \in StartBitDelay .. StartBitDelay + 2 * Latency

\* The bit on the line has yet to be sampled.
Unsampled ==
  /\ Place = rx_bit_number + 2
  /\ rx_timer - tx_timer + BitTicks \in StartBitDelay .. StartBitDelay + 2 * Latency
  /\ irq # Off =>
       rx_bit_number >= 0 /\ tx_timer - irq \in BitTicks - Latency .. BitTicks

Echoing ==
  /\ receiver
  /\ rx_bit_number >= 0 => rx_byte = {i \in tx_byte : i <= rx_bit_number}
  /\ rx_bit_number = CommandBit => rx_command_bit = tx_command_bit
  /\ Sampled \/ Unsampled

Sounding ==
  /\ bus_state = "TRANSMITTING" /\ ~debouncing /\ tx_timer # Off
  /\ txd <=> Level(Place)
  /\ Begun \/ Echoing

Alone ==
  /\ remote = Silent
  /\ Len(transmit_buffer) <= ReceiveBufferSize
  /\ EchoIsPrefix
  /\ host \in {"stopping", "starting"} => bus_state = "IDLE"
  /\ Between \/ Sounding

AloneInv == SendInv /\ LayersInv /\ Alone

LEMMA Bounds ==
  ASSUME ServedInTime
  PROVE  /\ BitTicks \in Nat /\ Latency \in Nat /\ StartBitDelay \in Nat
         /\ DebounceTicks \in Nat /\ GuardTicks \in Nat /\ CommandBit \in Nat \ {0}
         /\ BitTicks <= GuardTicks /\ DebounceTicks > 0
         /\ 2 * Latency < StartBitDelay
         /\ StartBitDelay + DebounceTicks + 4 * Latency < BitTicks
         /\ Off = -(Latency + 1)
         /\ StopBit = CommandBit + 1 /\ CommandBit = DataBits
BY TickFacts, FrameFacts DEF ServedInTime, Off, CommandBit

\* A timer that is on is at most Latency late.
LEMMA TimerRange ==
  ASSUME NEW timer \in Timer \cup (Off .. 0)
  PROVE  /\ timer \in Int
         /\ timer # Off => timer >= -Latency
         /\ Due(timer) => timer \in -Latency .. 0
BY TickFacts DEF Timer, Due, Off

\* One that is late by less than a bit is moved forward by one bit.
LEMMA ForwardOnce ==
  ASSUME NEW timer \in -Latency .. 0
  PROVE  Forward(timer, BitTicks) = timer + BitTicks
<1> DEFINE late == -timer
           q == late \div BitTicks
<1>1. late \in Nat /\ late < BitTicks
  BY BusAssumption
<1>2. q \in Nat /\ BitTicks * q <= late
  BY <1>1, TickFacts
<1>3. q = 0
  <2>1. ASSUME q # 0 PROVE FALSE
    <3>1. PICK k \in Nat : q = k + 1
      <4>1. q - 1 \in Nat /\ q = (q - 1) + 1
        BY <1>2, <2>1
      <4> QED BY <4>1
    <3>2. BitTicks * q = BitTicks * k + BitTicks /\ BitTicks * k \in Nat
      BY <3>1, TickFacts
    <3> QED
      BY <1>1, <1>2, <3>2, TickFacts
  <2> QED BY <2>1
<1>4. BitTicks * (1 + q) = BitTicks
  BY <1>3, TickFacts
<1> QED
  BY <1>4 DEF Forward

LEMMA AloneInit == BusInit => Alone
<1> SUFFICES ASSUME BusInit PROVE Alone
  OBVIOUS
<1>1. Len(transmit_buffer) <= ReceiveBufferSize
  <2>1. Len(transmit_buffer) = 0
    BY EmptySeq, Zenon DEF BusInit, Init
  <2> QED
    BY <2>1, TransportAssumption
<1>2. Between
  BY TickFacts DEF BusInit, Init, Between, Guarded
<1> QED
  BY <1>1, <1>2 DEF BusInit, Init, Alone, EchoIsPrefix

\* The timers, once and for all.
LEMMA AloneTimers ==
  ASSUME ServedInTime, AloneInv
  PROVE  /\ rx_timer \in Int /\ tx_timer \in Int /\ irq \in Int
         /\ rx_timer # Off => rx_timer >= -Latency
         /\ tx_timer # Off => tx_timer >= -Latency
         /\ irq # Off => irq >= -Latency
         /\ irq <= 0
         /\ Due(rx_timer) => rx_timer \in -Latency .. 0 /\ rx_timer # Off
         /\ Due(tx_timer) => tx_timer \in -Latency .. 0 /\ tx_timer # Off
         /\ Due(irq) => irq # Off
         /\ quiet \in Int /\ quiet <= GuardTicks
         /\ rx_bit_number \in -1 .. CommandBit
         /\ tx_bit_number \in -1 .. StopBit
         /\ transmit_datagram_bytes_remaining \in Nat
         /\ transmit_buffer_position \in Nat
         /\ tx_byte \subseteq 0 .. DataBits - 1
<1>1. /\ rx_timer \in Timer /\ tx_timer \in Timer /\ irq \in Off .. 0
      /\ quiet \in 0 .. GuardTicks
      /\ rx_bit_number \in -1 .. CommandBit /\ tx_bit_number \in -1 .. StopBit
  BY DEF AloneInv, LayersInv, HardwareTypes, TimerTypes, ReceiverTypes,
         TransmitterTypes, LineTypes
<1>2. /\ transmit_datagram_bytes_remaining \in Nat
      /\ transmit_buffer_position \in Nat
      /\ tx_byte \in Byte
  BY DEF AloneInv, SendInv, TypeOK
<1>3. irq <= 0 /\ quiet \in Int /\ quiet <= GuardTicks
  BY <1>1, TickFacts
<1> QED
  BY <1>1, <1>2, <1>3, TimerRange DEF Due, Byte, BitNumber

\* While a character is on the line, only one of the timers may be due.
LEMMA OneAtATime ==
  ASSUME ServedInTime, AloneInv, Sounding
  PROVE  /\ Begun => tx_timer > 0 /\ rx_timer = Off
         /\ Echoing => rx_timer # Off
         /\ Sampled => rx_timer > 0
         /\ Unsampled /\ Echoing => tx_timer > 0
         /\ Unsampled /\ irq # Off => rx_timer > 0
<1>1. ASSUME Begun PROVE tx_timer > 0 /\ rx_timer = Off
  <2>1. tx_timer > 0
    BY <1>1, Bounds, AloneTimers DEF Begun
  <2>2. rx_timer = Off
    BY <1>1 DEF Begun, AloneInv, LayersInv, LayersAgree, Sounding
  <2> QED
    BY <2>1, <2>2
<1>2. Echoing => rx_timer # Off
  BY DEF Echoing, AloneInv, LayersInv, LayersAgree
<1>3. tx_timer # Off
  BY DEF Sounding
<1>4. Sampled => rx_timer > 0
  BY <1>3, Bounds, AloneTimers DEF Sampled
<1>5. Unsampled /\ Echoing => tx_timer > 0
  BY <1>2, Bounds, AloneTimers DEF Unsampled
<1>6. Unsampled /\ irq # Off => rx_timer > 0
  BY Bounds, AloneTimers DEF Unsampled
<1> QED
  BY <1>1, <1>2, <1>4, <1>5, <1>6

\* rxd_irq_handler takes the edge of a start bit and no other.
LEMMA AloneInterrupt ==
  ASSUME ServedInTime, AloneInv, RxdInterrupt
  PROVE  Alone' /\ (receiver => UNCHANGED rx_timer)
<1>1. /\ irq # Off /\ irq' = Off
      /\ UNCHANGED <<tx_timer, rxVars, txVars, remoteVars, quiet>>
      /\ UNCHANGED <<receiveVars, wireVars, cursorVars, host>>
  BY DEF RxdInterrupt, Due, vars, initiate_seatalk_receive_character
<1>2. Sounding
  BY <1>1 DEF AloneInv, Alone, Between
<1>3. bus_state' = bus_state
  BY <1>2 DEF RxdInterrupt, initiate_seatalk_receive_character, vars, Sounding
<1>4. Place' = Place /\ Level(Place)' = Level(Place)
  BY <1>1 DEF Place, Level, txVars, wireVars
<1>5. CASE Begun
  <2>1. receiver' = TRUE /\ rx_timer' = BitTicks + StartBitDelay
    BY <1>2, <1>5 DEF RxdInterrupt, initiate_seatalk_receive_character, Begun,
                      Sounding, FirstSample
  <2>2. Sampled'
    BY <1>1, <1>5, <2>1, Bounds, AloneTimers DEF Sampled, Begun, Place, rxVars, txVars
  <2>3. Echoing'
    BY <1>1, <1>5, <2>1, <2>2, Bounds DEF Echoing, Begun, rxVars
  <2> QED
    BY <1>1, <1>2, <1>3, <1>4, <1>5, <2>3
       DEF AloneInv, Alone, Sounding, Begun, EchoIsPrefix, rxVars, txVars,
           remoteVars, receiveVars, cursorVars
<1>6. CASE Echoing
  <2>1. Unsampled /\ rx_bit_number >= 0
    BY <1>1, <1>6 DEF Echoing, Sampled, Unsampled
  <2>2. UNCHANGED <<vars, rx_timer>>
    BY <2>1, AloneTimers DEF RxdInterrupt
  <2>3. Unsampled'
    BY <1>1, <1>4, <2>1, <2>2 DEF Unsampled, rxVars
  <2>4. Echoing'
    BY <1>1, <1>6, <2>2, <2>3 DEF Echoing, rxVars, vars, wireVars
  <2> QED
    BY <1>1, <1>2, <1>3, <1>4, <2>2, <2>4
       DEF AloneInv, Alone, Sounding, EchoIsPrefix, rxVars, txVars,
           remoteVars, receiveVars, cursorVars
<1> QED
  BY <1>2, <1>5, <1>6 DEF Sounding

\* receive_bit between two characters: the debounce time ends.
LEMMA AloneDebounced ==
  ASSUME ServedInTime, AloneInv, ReceiveBit, Between
  PROVE  Alone'
<1>1. /\ UNCHANGED <<irq, txVars, remoteVars, quiet>>
      /\ Due(rx_timer) /\ rx_timer # Off
  BY AloneTimers DEF ReceiveBit
<1>2. debouncing
  BY <1>1 DEF Between, AloneInv, LayersInv, LayersAgree
<1>3. EndDebounce
  BY <1>2 DEF ReceiveBit, SampleBit, SampleStopBit
<1>4. /\ UNCHANGED <<vars, tx_timer, rx_bit_number>> /\ ~debouncing'
      /\ UNCHANGED <<receiveVars, cursorVars, host, bus_state, receiver>>
  BY <1>3 DEF EndDebounce, vars
<1>5. Between'
  BY <1>1, <1>4 DEF Between, Guarded, txVars, cursorVars
<1> QED
  BY <1>1, <1>4, <1>5
     DEF AloneInv, Alone, EchoIsPrefix, remoteVars, receiveVars, cursorVars

\* The receiver samples the bit that is on the line.
LEMMA AloneSample ==
  ASSUME ServedInTime, AloneInv, ReceiveBit, SampleBit, Sounding, Echoing
  PROVE  Alone'
<1> DEFINE bit == rx_bit_number + 1
<1>1. /\ UNCHANGED <<irq, txVars, remoteVars, quiet, vars, tx_timer, debouncing>>
      /\ UNCHANGED <<receiveVars, wireVars, cursorVars, host, bus_state, receiver>>
      /\ Due(rx_timer) /\ rx_timer \in -Latency .. 0
      /\ rx_timer' = rx_timer + BitTicks
      /\ rx_bit_number' = bit /\ bit \in 0 .. CommandBit
      /\ rx_byte' = SampledByte(bit)
      /\ rx_command_bit' = (Line /\ bit = CommandBit)
  BY AloneTimers, ForwardOnce DEF ReceiveBit, SampleBit, vars
<1>2. Unsampled /\ irq = Off
  BY <1>1, OneAtATime, AloneTimers DEF Echoing
<1>3. Sampled'
  BY <1>1, <1>2, Bounds, AloneTimers DEF Sampled, Unsampled, Place, txVars
<1>4. Place = bit + 1 /\ (Line <=> Level(bit + 1))
  <2>1. Place = bit + 1
    BY <1>1, <1>2, AloneTimers DEF Unsampled
  <2>2. remote = Silent
    BY DEF AloneInv, Alone
  <2> QED
    BY <2>1, <2>2 DEF Sounding, Line, RemoteHigh
<1>5. rx_byte' = {i \in tx_byte : i <= bit}
  <2>1. ASSUME bit < CommandBit PROVE Line <=> bit \in tx_byte
    <3>1. /\ bit + 1 \in 1 .. DataBits /\ (bit + 1) - 1 = bit
          /\ bit + 1 # StopBit /\ bit + 1 # StopBit + 1
      BY <1>1, <2>1, Bounds
    <3> HIDE DEF bit
    <3> QED
      BY <1>4, <3>1, Zenon DEF Level
  <2>2. (IF bit = 0 THEN {} ELSE rx_byte) = {i \in tx_byte : i <= bit - 1}
    <3>1. CASE bit = 0
      <4>1. {i \in tx_byte : i <= bit - 1} = {}
        BY <3>1, AloneTimers
      <4> QED
        BY <3>1, <4>1
    <3>2. CASE bit # 0
      <4>1. rx_bit_number >= 0 /\ bit - 1 = rx_bit_number
        BY <1>1, <3>2, AloneTimers
      <4> QED
        BY <3>2, <4>1 DEF Echoing
    <3> QED
      BY <3>1, <3>2
  <2>3. rx_byte' = {i \in tx_byte : i <= bit - 1}
                     \cup (IF Line /\ bit < CommandBit THEN {bit} ELSE {})
    BY <1>1, <2>2 DEF SampledByte
  <2>4. \A i \in tx_byte : i \in Int /\ i < CommandBit
    BY AloneTimers, Bounds
  <2> HIDE DEF bit
  <2>5. bit \in Int /\ bit <= CommandBit /\ CommandBit \in Int
    BY <1>1, Bounds
  <2>6. CASE bit = CommandBit
    BY <2>3, <2>4, <2>5, <2>6
  <2>7. CASE bit < CommandBit
    <3>1. CASE Line
      BY <2>1, <2>3, <2>4, <2>5, <2>7, <3>1
    <3>2. CASE ~Line
      BY <2>1, <2>3, <2>4, <2>5, <2>7, <3>2
    <3> QED
      BY <3>1, <3>2
  <2> QED
    BY <2>5, <2>6, <2>7
<1>6. bit = CommandBit => rx_command_bit' = tx_command_bit
  <2>1. ASSUME bit = CommandBit PROVE Line = tx_command_bit
    <3>1. bit + 1 = StopBit /\ ~(bit + 1 \in 1 .. DataBits) /\ StopBit # StopBit + 1
      BY <2>1, Bounds
    <3>2. tx_command_bit \in BOOLEAN
      BY DEF AloneInv, SendInv, TypeOK
    <3> QED
      BY <1>4, <3>1, <3>2, Zenon DEF Level
  <2>2. ASSUME bit = CommandBit PROVE rx_command_bit' = Line
    BY <1>1, <2>2 DEF Line
  <2> QED
    BY <2>1, <2>2
<1>7. Echoing'
  <2>1. tx_byte' = tx_byte /\ tx_command_bit' = tx_command_bit /\ receiver'
    BY <1>1 DEF wireVars, Echoing
  <2> QED
    BY <1>1, <1>3, <1>5, <1>6, <2>1 DEF Echoing
<1>8. Level(Place)' = Level(Place)
  BY <1>1 DEF Level, Place, wireVars, txVars
<1>9. Sounding'
  BY <1>1, <1>7, <1>8 DEF Sounding, txVars
<1> QED
  BY <1>1, <1>9
     DEF AloneInv, Alone, EchoIsPrefix, remoteVars, receiveVars, cursorVars

\* What has been sampled by the time of the stop bit is the character.
LEMMA WholeCharacter ==
  ASSUME ServedInTime, AloneInv, Sounding, Echoing, rx_bit_number = CommandBit
  PROVE  /\ rx_byte = tx_byte /\ rx_command_bit = tx_command_bit
         /\ Unsampled => tx_bit_number = -1 /\ Line
<1>1. rx_byte = tx_byte
  <2>1. rx_byte = {i \in tx_byte : i <= CommandBit}
    BY Bounds DEF Echoing
  <2>2. \A i \in tx_byte : i <= CommandBit
    BY AloneTimers, Bounds
  <2> QED
    BY <2>1, <2>2
<1>2. ASSUME Unsampled PROVE tx_bit_number = -1 /\ Line
  <2>1. Place = StopBit + 1
    BY <1>2, Bounds DEF Unsampled
  <2>2. tx_bit_number = -1
    BY <2>1, AloneTimers, Bounds DEF Place
  <2>3. Level(Place)
    BY <2>1 DEF Level
  <2> QED
    BY <2>2, <2>3 DEF AloneInv, Alone, Sounding, Line, RemoteHigh
<1> QED
  BY <1>1, <1>2 DEF Echoing

\* One more byte of the datagram has come back.
LEMMA PrefixGrows ==
  ASSUME ServedInTime, AloneInv, bus_state = "TRANSMITTING",
         seatalk_byte_received(tx_byte, tx_command_bit)
  PROVE  /\ EchoIsPrefix'
         /\ UNCHANGED <<transmit_buffer, host>>
         /\ bus_state' = "WAIT_FOR_IDLE" /\ ~receiver'
         /\ transmit_buffer_position' = transmit_buffer_position + 1
         /\ transmit_datagram_bytes_remaining' = transmit_datagram_bytes_remaining - 1
<1> DEFINE position == transmit_buffer_position
<1>1. ~Collision(tx_byte)
  BY DEF Collision
<1>2. /\ Assemble(tx_byte, tx_command_bit) /\ seatalk_byte_transmitted
      /\ host' = host /\ bus_state' = "WAIT_FOR_IDLE" /\ ~receiver'
  BY <1>1 DEF seatalk_byte_received
<1>3. /\ position \in Nat /\ position < Len(transmit_buffer)
      /\ transmit_buffer \in Seq(Byte) /\ receive_buffer \in Seq(Byte)
      /\ tx_byte \in Byte
      /\ tx_byte = transmit_buffer[position + 1]
      /\ tx_command_bit = (position = 0)
      /\ Len(transmit_buffer) <= ReceiveBufferSize
      /\ position > 0 => receive_buffer = SubSeq(transmit_buffer, 1, position)
  BY DEF AloneInv, Alone, SendInv, TypeOK, WireFollowsCursor, EchoIsPrefix
<1>4. receive_buffer' = Store(IF position = 0 THEN <<>> ELSE receive_buffer, tx_byte)
  BY <1>2, <1>3 DEF Assemble
<1> DEFINE before == IF position = 0 THEN <<>> ELSE receive_buffer
<1>5. /\ before \in Seq(Byte) /\ Len(before) = position
      /\ \A i \in 1 .. position : before[i] = transmit_buffer[i]
  <2>1. CASE position = 0
    BY <1>3, <2>1, EmptySeq, EmptyValues
  <2>2. CASE position > 0
    BY <1>3, <2>2, SubSeqProperties
  <2> QED
    BY <1>3, <2>1, <2>2
<1>6. /\ receive_buffer' \in Seq(Byte) /\ Len(receive_buffer') = position + 1
      /\ \A i \in 1 .. position + 1 : receive_buffer'[i] = transmit_buffer[i]
  <2> HIDE DEF before
  <2>1. Len(before) < ReceiveBufferSize /\ receive_buffer' = Store(before, tx_byte)
    BY <1>3, <1>4, <1>5, TransportAssumption DEF before
  <2>2. /\ receive_buffer' \in Seq(Byte) /\ Len(receive_buffer') = position + 1
        /\ receive_buffer'[position + 1] = tx_byte
        /\ \A i \in 1 .. position : receive_buffer'[i] = before[i]
    BY <1>3, <1>5, <2>1, StoreProperties
  <2>3. ASSUME NEW i \in 1 .. position + 1
        PROVE  receive_buffer'[i] = transmit_buffer[i]
    <3>1. CASE i = position + 1
      BY <1>3, <2>2, <3>1
    <3>2. CASE i \in 1 .. position
      BY <1>5, <2>2, <3>2
    <3> QED
      BY <1>3, <3>1, <3>2
  <2> QED
    BY <2>2, <2>3
<1>7. receive_buffer' = SubSeq(transmit_buffer, 1, position + 1)
  <2>1. /\ SubSeq(transmit_buffer, 1, position + 1) \in Seq(Byte)
        /\ Len(SubSeq(transmit_buffer, 1, position + 1)) = position + 1
        /\ \A i \in 1 .. position + 1 :
             SubSeq(transmit_buffer, 1, position + 1)[i] = transmit_buffer[i]
    BY <1>3, SubSeqProperties
  <2> QED
    BY <1>6, <2>1, SeqEqual
<1> QED
  BY <1>2, <1>7 DEF seatalk_byte_transmitted, EchoIsPrefix

\* The receiver samples the stop bit: the character has come back.
LEMMA AloneEcho ==
  ASSUME ServedInTime, AloneInv, ReceiveBit, SampleStopBit, Sounding, Echoing
  PROVE  Alone'
<1>1. /\ UNCHANGED <<irq, txVars, remoteVars, quiet>>
      /\ rx_timer \in -Latency .. 0 /\ rx_timer # Off
      /\ rx_bit_number = CommandBit /\ rx_bit_number' = -1
      /\ rx_timer' = Forward(rx_timer, DebounceTicks)
  BY AloneTimers DEF ReceiveBit, SampleStopBit
<1>2. Unsampled /\ irq = Off
  BY <1>1, OneAtATime, AloneTimers DEF Echoing
<1>3. /\ tx_bit_number = -1 /\ Line /\ rx_byte = tx_byte
      /\ rx_command_bit = tx_command_bit
  BY <1>1, <1>2, WholeCharacter
<1>4. /\ seatalk_byte_received(tx_byte, tx_command_bit)
      /\ tx_timer' = IF GuardTimeFollows(tx_byte) THEN GuardTicks ELSE tx_timer
  BY <1>3 DEF SampleStopBit, StopBitHigh
<1>5. /\ EchoIsPrefix'
      /\ UNCHANGED <<transmit_buffer, host>>
      /\ bus_state' = "WAIT_FOR_IDLE" /\ ~receiver'
      /\ transmit_buffer_position' = transmit_buffer_position + 1
      /\ transmit_datagram_bytes_remaining' = transmit_datagram_bytes_remaining - 1
  BY <1>4, PrefixGrows DEF Sounding
<1>6. rx_timer' \in 1 .. DebounceTicks
  BY <1>1, Bounds, AloneTimers, ForwardWithinInterval
<1>7. /\ tx_timer' # Off /\ tx_timer' - rx_timer' > Latency
      /\ tx_timer' = GuardTicks \/ transmit_datagram_bytes_remaining' # 0
  <2>1. tx_timer - DebounceTicks > Latency /\ GuardTicks - DebounceTicks > Latency
    BY <1>1, <1>2, Bounds, AloneTimers DEF Unsampled
  <2>2. tx_timer' \in {tx_timer, GuardTicks}
    BY <1>4
  <2>3. transmit_datagram_bytes_remaining' = 0 => tx_timer' = GuardTicks
    BY <1>4, <1>5, AloneTimers DEF GuardTimeFollows
  <2> QED
    BY <1>6, <2>1, <2>2, <2>3, Bounds, AloneTimers
<1>8. Guarded'
  <2>1. quiet' >= 0 /\ quiet' \in Int
    BY <1>1, Bounds DEF AloneInv, LayersInv, HardwareTypes, LineTypes
  <2> QED
    BY <1>5, <1>7, <2>1, AloneTimers, Bounds DEF Guarded
<1>9. Between'
  <2>1. txd' /\ tx_bit_number' = -1 /\ irq' = Off
    BY <1>1, <1>2, <1>3 DEF Line, txVars
  <2> QED
    BY <1>1, <1>5, <1>6, <1>7, <1>8, <2>1 DEF Between
<1> QED
  BY <1>1, <1>5, <1>9 DEF AloneInv, Alone, Sounding, remoteVars

LEMMA AloneReceive ==
  ASSUME ServedInTime, AloneInv, ReceiveBit
  PROVE  Alone'
<1>1. CASE Between
  BY <1>1, AloneDebounced
<1>2. CASE Sounding
  <2>1. Echoing /\ ~debouncing
    BY <1>2, OneAtATime, AloneTimers DEF ReceiveBit, Sounding
  <2> QED
    BY <1>2, <2>1, AloneSample, AloneEcho DEF ReceiveBit, EndDebounce
<1> QED
  BY <1>1, <1>2 DEF AloneInv, Alone

\* transmit_bit between two characters: the debounce time is over, and the guard
\* time unless a datagram is in progress.
LEMMA ReadyToStart ==
  ASSUME ServedInTime, AloneInv, Between, Due(tx_timer)
  PROVE  /\ ~debouncing
         /\ transmit_datagram_bytes_remaining = 0 => quiet = GuardTicks
<1>1. tx_timer \in -Latency .. 0 /\ tx_timer # Off
  BY AloneTimers
<1>2. ~debouncing
  <2>1. debouncing => rx_timer # Off
    BY DEF AloneInv, LayersInv
  <2> QED
    BY <1>1, <2>1, AloneTimers, Bounds DEF Between
<1>3. transmit_datagram_bytes_remaining = 0 => quiet = GuardTicks
  BY <1>1, AloneTimers, Bounds DEF Between, Guarded
<1> QED
  BY <1>2, <1>3

\* Either a character is begun, or the transmitter sleeps.
LEMMA StartBitFacts ==
  ASSUME ServedInTime, AloneInv, Between, Due(tx_timer), StartCharacter
  PROVE  /\ Len(transmit_buffer') <= ReceiveBufferSize /\ EchoIsPrefix'
         /\ UNCHANGED <<receiver, host>>
         /\ transmitter' = "sending" => bus_state' = "TRANSMITTING"
         /\ transmitter' = "off" =>
              /\ bus_state' = "IDLE" /\ transmit_datagram_bytes_remaining' = 0
              /\ quiet = GuardTicks
         /\ transmitter' = "sending" /\ transmit_buffer_position' = 0 =>
              quiet = GuardTicks
<1>1. BusWhenTimerFires = "IDLE"
  BY DEF Between, BusWhenTimerFires
<1>2. /\ Len(transmit_buffer) <= ReceiveBufferSize /\ EchoIsPrefix
      /\ transmit_datagram_bytes_remaining = 0 => quiet = GuardTicks
      /\ transmit_datagram_bytes_remaining \in Nat
  BY ReadyToStart, AloneTimers DEF AloneInv, Alone
<1>3. UNCHANGED <<receiver, receive_buffer, host>>
  BY DEF StartCharacter, receiveVars
<1>4. CASE /\ ~seatalk_can_transmit
           /\ bus_state' = BusWhenTimerFires
           /\ transmitter' = "off"
           /\ UNCHANGED <<wireVars, cursorVars, data_pending>>
  BY <1>1, <1>2, <1>3, <1>4 DEF seatalk_can_transmit, cursorVars, EchoIsPrefix
<1>5. CASE /\ transmit_datagram_bytes_remaining > 0
           /\ SendByteAt(transmit_buffer, transmit_buffer_position)
           /\ UNCHANGED <<cursorVars, data_pending>>
  <2>1. transmit_buffer_position > 0
    BY <1>5 DEF Between, Guarded
  <2> QED
    BY <1>2, <1>3, <1>5, <2>1, AloneTimers DEF SendByteAt, cursorVars, EchoIsPrefix
<1>6. ASSUME NEW datagram \in Datagrams,
             transmit_datagram_bytes_remaining = 0,
             transmit_buffer' = datagram,
             transmit_buffer_position' = 0,
             transmit_datagram_bytes_remaining' = Len(datagram),
             \/ datagram # <<>> /\ SendByteAt(datagram, 0)
             \/ /\ datagram = <<>>
                /\ bus_state' = BusWhenTimerFires
                /\ transmitter' = "off"
      PROVE  /\ Len(transmit_buffer') <= ReceiveBufferSize /\ EchoIsPrefix'
             /\ transmitter' = "sending" => bus_state' = "TRANSMITTING"
             /\ transmitter' = "off" =>
                  bus_state' = "IDLE" /\ transmit_datagram_bytes_remaining' = 0
             /\ quiet = GuardTicks
  <2>1. Len(datagram) <= ReceiveBufferSize
    BY DEF ServedInTime
  <2>2. datagram = <<>> => Len(datagram) = 0
    BY EmptySeq, Zenon
  <2>3. EchoIsPrefix'
    BY <1>6 DEF EchoIsPrefix
  <2>4. \/ transmitter' = "sending" /\ bus_state' = "TRANSMITTING"
        \/ transmitter' = "off" /\ bus_state' = "IDLE" /\ datagram = <<>>
    BY <1>1, <1>6, Zenon DEF SendByteAt
  <2> QED
    BY <1>2, <1>6, <2>1, <2>2, <2>3, <2>4
<1> QED
  BY <1>3, <1>4, <1>5, <1>6, Zenon DEF StartCharacter

LEMMA AloneStart ==
  ASSUME ServedInTime, AloneInv, TransmitBit, Between
  PROVE  Alone'
<1>1. /\ Due(tx_timer) /\ tx_timer \in -Latency .. 0
      /\ UNCHANGED <<rx_timer, rxVars, remoteVars, quiet>>
      /\ EdgeFrom(irq)
      /\ host \notin {"stopping", "starting"}
  BY AloneTimers DEF TransmitBit, Interruptible, ServedInTime
<1>2. SendStartBit
  BY Bounds DEF TransmitBit, SendBit, SendStopBit, Between
<1>3. StartCharacter /\ ~debouncing
  BY <1>1, <1>2, ReadyToStart DEF SendStartBit
<1>4. remote' = Silent /\ remote = Silent
  BY <1>1 DEF AloneInv, Alone, remoteVars
<1>5. CASE /\ transmitter' = "sending"
           /\ tx_bit_number' = 0
           /\ txd' = FALSE
           /\ tx_timer' = Forward(tx_timer, BitTicks)
  <2>1. tx_timer' = tx_timer + BitTicks
    BY <1>1, <1>5, ForwardOnce
  <2>2. irq' = 0
    BY <1>1, <1>4, <1>5 DEF EdgeFrom, Line, RemoteHigh, Between
  <2>3. Begun'
    BY <1>1, <1>3, <1>5, <2>1, <2>2, StartBitFacts, Bounds
       DEF Begun, Between, rxVars
  <2>4. Sounding'
    <3>1. tx_timer' # Off /\ bus_state' = "TRANSMITTING" /\ ~debouncing'
      BY <1>1, <1>3, <1>5, <2>1, StartBitFacts, Bounds DEF rxVars
    <3>2. Place' = 0
      BY <1>5 DEF Place
    <3>3. ~Level(Place)'
      BY <3>2, Bounds DEF Level
    <3> QED
      BY <1>5, <2>3, <3>1, <3>3 DEF Sounding
  <2> QED
    BY <1>1, <1>3, <1>4, <2>4, StartBitFacts DEF Alone
<1>6. CASE transmitter' = "off" /\ tx_timer' = Off /\ UNCHANGED txVars
  <2>1. irq' = irq
    BY <1>1, <1>4, <1>6 DEF EdgeFrom, Line, RemoteHigh, txVars
  <2>2. Between'
    BY <1>1, <1>3, <1>6, <2>1, StartBitFacts DEF Between, Guarded, rxVars, txVars
  <2> QED
    BY <1>1, <1>3, <1>4, <2>2, StartBitFacts DEF Alone
<1> QED
  BY <1>2, <1>5, <1>6 DEF SendStartBit

\* transmit_bit inside a character: the next bit is put on the line, once the one
\* before has been sampled.
LEMMA AloneNextBit ==
  ASSUME ServedInTime, AloneInv, TransmitBit, Sounding
  PROVE  /\ Alone'
         /\ SendBit \/ SendStopBit
<1>1. /\ tx_timer \in -Latency .. 0
      /\ UNCHANGED <<rx_timer, rxVars, remoteVars, quiet>>
      /\ EdgeFrom(irq)
  BY AloneTimers DEF TransmitBit
<1>2. Echoing /\ Sampled
  BY <1>1, OneAtATime, AloneTimers DEF Sounding, Echoing
<1>3. tx_bit_number # -1 /\ tx_bit_number \in 0 .. StopBit
  BY <1>2, Bounds, AloneTimers DEF Sampled, Place
<1>4. SendBit \/ SendStopBit
  BY <1>3 DEF TransmitBit, SendStartBit
<1>5. /\ UNCHANGED <<bus_state, receiver, receiveVars, wireVars, cursorVars, host>>
      /\ tx_timer' = tx_timer + BitTicks
  BY <1>1, <1>4, ForwardOnce DEF SendBit, SendStopBit, CharacterSent, vars
<1>6. Place' = Place + 1 /\ Place = tx_bit_number
  BY <1>3, <1>4, Bounds DEF Place, SendBit, SendStopBit
<1>7. txd' <=> Level(Place)'
  <2>1. UNCHANGED <<tx_byte, tx_command_bit>>
    BY <1>5 DEF wireVars
  <2>2. CASE SendStopBit
    BY <1>6, <2>2 DEF SendStopBit, Level
  <2>3. CASE SendBit /\ tx_bit_number = CommandBit
    <3>1. /\ Place' = StopBit /\ ~(StopBit \in 1 .. DataBits) /\ StopBit # StopBit + 1
          /\ txd' = tx_command_bit
      BY <1>6, <2>3, Bounds DEF SendBit
    <3> QED
      BY <2>1, <3>1, Zenon DEF Level
  <2>4. CASE SendBit /\ tx_bit_number # CommandBit
    <3>1. tx_bit_number \in 0 .. DataBits - 1 /\ txd' = (tx_bit_number \in tx_byte)
      BY <2>4, Bounds DEF SendBit
    <3>2. /\ Place' \in 1 .. DataBits /\ Place' - 1 = tx_bit_number
          /\ Place' # StopBit /\ Place' # StopBit + 1
      BY <1>6, <3>1, Bounds
    <3> QED
      BY <2>1, <3>1, <3>2, Zenon DEF Level
  <2> QED
    BY <1>4, <2>2, <2>3, <2>4
<1>8. irq' # Off => irq' = 0 /\ rx_bit_number >= 0
  <2>1. irq = Off
    BY <1>2 DEF Sampled
  <2>2. ASSUME irq' # Off PROVE irq' = 0 /\ txd
    BY <1>1, <2>1, <2>2 DEF EdgeFrom, Line
  <2>3. ASSUME irq' # Off PROVE rx_bit_number >= 0
    <3>1. Level(Place)
      BY <2>2, <2>3 DEF Sounding
    <3>2. Place # 0
      BY <3>1, Bounds DEF Level
    <3> QED
      BY <1>2, <3>2, AloneTimers DEF Sampled
  <2> QED
    BY <2>2, <2>3
<1>9. Unsampled'
  <2>1. rx_bit_number' = rx_bit_number
    BY <1>1 DEF rxVars
  <2> QED
    BY <1>1, <1>2, <1>5, <1>6, <1>8, <2>1, Bounds, AloneTimers DEF Unsampled, Sampled
<1>10. Sounding'
  <2>1. Echoing'
    BY <1>1, <1>2, <1>5, <1>9 DEF Echoing, rxVars, wireVars
  <2>2. bus_state' = "TRANSMITTING" /\ ~debouncing' /\ tx_timer' # Off
    BY <1>1, <1>5, Bounds DEF Sounding, rxVars
  <2> QED
    BY <1>7, <2>1, <2>2 DEF Sounding
<1> QED
  BY <1>1, <1>4, <1>5, <1>10
     DEF AloneInv, Alone, Sounding, EchoIsPrefix, remoteVars, receiveVars, cursorVars

LEMMA AloneHost ==
  ASSUME ServedInTime, AloneInv, Host
  PROVE  Alone'
<1>1. /\ UNCHANGED <<rx_timer, irq, rxVars, txVars, remoteVars, quiet>>
      /\ UNCHANGED <<bus_state, receiver, receiveVars, wireVars, cursorVars>>
  BY DEF Host, HostUpdate, WakeTest, WakeCancel, WakeStart, DataExpires
<1>2. host' \in {"stopping", "starting"} => bus_state = "IDLE"
  BY DEF Host, HostUpdate, WakeTest, WakeCancel, WakeStart, DataExpires,
         AloneInv, Alone
<1>3. \/ UNCHANGED tx_timer
      \/ bus_state = "IDLE" /\ tx_timer' \in {Off, BitTicks}
  BY DEF Host, WakeCancel, WakeStart, AloneInv, Alone
<1>4. CASE Between
  <2>1. debouncing =>
          rx_timer <= DebounceTicks /\ (tx_timer' # Off => tx_timer' - rx_timer > Latency)
    BY <1>3, <1>4, Bounds, AloneTimers DEF Between
  <2>2. bus_state = "WAIT_FOR_IDLE" => tx_timer' = tx_timer
    BY <1>3
  <2>3. Guarded'
    BY <1>1, <1>4, <2>2 DEF Between, Guarded, cursorVars
  <2>4. Between'
    BY <1>1, <1>4, <2>1, <2>2, <2>3 DEF Between, rxVars, txVars
  <2> QED
    BY <1>1, <1>2, <2>4
       DEF AloneInv, Alone, EchoIsPrefix, remoteVars, receiveVars, cursorVars
<1>5. CASE Sounding
  <2>1. UNCHANGED tx_timer
    BY <1>3, <1>5 DEF Sounding
  <2>2. /\ Place' = Place /\ (Level(Place)' <=> Level(Place))
        /\ (Begun => Begun') /\ (Sampled => Sampled') /\ (Unsampled => Unsampled')
    BY <1>1, <2>1 DEF Place, Level, Begun, Sampled, Unsampled, rxVars, txVars, wireVars
  <2>3. Echoing => Echoing'
    BY <1>1, <2>2 DEF Echoing, rxVars, wireVars
  <2>4. Sounding'
    BY <1>1, <1>5, <2>1, <2>2, <2>3 DEF Sounding, rxVars, txVars
  <2> QED
    BY <1>1, <1>2, <2>4
       DEF AloneInv, Alone, EchoIsPrefix, remoteVars, receiveVars, cursorVars
<1> QED
  BY <1>4, <1>5 DEF AloneInv, Alone

\* Time passes: the timers keep their distance.
LEMMA AloneTick ==
  ASSUME ServedInTime, AloneInv, Tick
  PROVE  Alone'
<1>1. /\ UNCHANGED <<vars, rxVars, txVars>>
      /\ UNCHANGED <<bus_state, receiver, receiveVars, wireVars, cursorVars, host>>
  BY DEF Tick, vars
<1>2. remote = Silent /\ remote' = Silent
  BY FrameFacts DEF Tick, RemoteElapse, AloneInv, Alone, Silent
<1>3. irq' = Elapse(irq)
  BY <1>1, <1>2 DEF Tick, EdgeFrom, Line, RemoteHigh, txVars
<1>4. /\ rx_timer' = IF rx_timer = Off THEN Off ELSE rx_timer - 1
      /\ tx_timer' = IF tx_timer = Off THEN Off ELSE tx_timer - 1
      /\ irq' = IF irq = Off THEN Off ELSE irq - 1
      /\ rx_timer # Off => rx_timer > -Latency
      /\ tx_timer # Off => tx_timer > -Latency
      /\ irq # Off => irq > -Latency
  BY <1>3 DEF Tick, Elapse, MayWait
<1>5. /\ (rx_timer' = Off) <=> (rx_timer = Off)
      /\ (tx_timer' = Off) <=> (tx_timer = Off)
      /\ (irq' = Off) <=> (irq = Off)
  BY <1>4, Bounds, AloneTimers
<1>6. CASE Between
  <2>1. quiet' = IF quiet < GuardTicks THEN quiet + 1 ELSE quiet
    BY <1>2, <1>6 DEF Tick, Line, RemoteHigh, Between
  <2>2. Guarded'
    BY <1>1, <1>4, <1>5, <1>6, <2>1, Bounds, AloneTimers
       DEF Between, Guarded, cursorVars
  <2>3. debouncing' =>
          rx_timer' <= DebounceTicks /\ (tx_timer' # Off => tx_timer' - rx_timer' > Latency)
    <3>1. debouncing => rx_timer # Off
      BY DEF AloneInv, LayersInv
    <3> QED
      BY <1>1, <1>4, <1>5, <1>6, <3>1, Bounds, AloneTimers DEF Between, rxVars
  <2>4. Between'
    BY <1>1, <1>5, <1>6, <2>2, <2>3 DEF Between, rxVars, txVars
  <2> QED
    BY <1>1, <1>2, <2>4 DEF AloneInv, Alone, EchoIsPrefix, receiveVars, cursorVars
<1>7. CASE Sounding
  <2>1. tx_timer' = tx_timer - 1
    BY <1>4, <1>7 DEF Sounding
  <2>2. Place' = Place /\ (Level(Place)' <=> Level(Place))
    BY <1>1 DEF Place, Level, txVars, wireVars
  <2>3. Begun => Begun'
    BY <1>1, <1>4, <1>5, <2>1, Bounds, AloneTimers DEF Begun, rxVars, txVars
  <2>4. Echoing => Echoing'
    <3>1. ASSUME Echoing PROVE rx_timer' = rx_timer - 1
      BY <1>4, <1>7, <3>1, OneAtATime
    <3>2. ASSUME Echoing PROVE (Sampled => Sampled') /\ (Unsampled => Unsampled')
      BY <1>1, <1>4, <1>5, <2>1, <2>2, <3>1, <3>2, Bounds, AloneTimers
         DEF Sampled, Unsampled, rxVars
    <3> QED
      BY <1>1, <3>2 DEF Echoing, rxVars, wireVars
  <2>5. Sounding'
    BY <1>1, <1>5, <1>7, <2>2, <2>3, <2>4 DEF Sounding, rxVars, txVars
  <2> QED
    BY <1>1, <1>2, <2>5 DEF AloneInv, Alone, EchoIsPrefix, receiveVars, cursorVars
<1> QED
  BY <1>6, <1>7 DEF AloneInv, Alone

LEMMA AloneStep ==
  ASSUME ServedInTime
  PROVE  AloneInv /\ [BusNext]_busVars => AloneInv'
<1> SUFFICES ASSUME AloneInv, [BusNext]_busVars PROVE AloneInv'
  OBVIOUS
<1>1. SendInv'
  <2>1. ASSUME SampleStopBit PROVE rx_byte = tx_byte
    <3>1. rx_bit_number = CommandBit /\ ~debouncing
      BY <2>1 DEF SampleStopBit
    <3>2. Sounding
      BY <3>1, Bounds DEF AloneInv, Alone, Between
    <3>3. Echoing
      BY <3>1, <3>2, Bounds DEF Sounding, Begun
    <3> QED
      BY <3>1, <3>2, <3>3, WholeCharacter
  <2>2. [Next]_vars
    BY <2>1, BusStepIsStep DEF AloneInv, LayersInv
  <2> QED
    BY <2>2, SendInvStep DEF AloneInv
<1>2. LayersInv'
  BY LayersInvStep DEF AloneInv, ServedInTime
<1>3. Alone'
  <2>1. CASE UNCHANGED busVars
    <3>1. UNCHANGED <<vars, timers, rxVars, txVars, remoteVars, quiet>>
      BY <2>1 DEF busVars
    <3>2. /\ (Between <=> Between') /\ (Begun <=> Begun') /\ (Echoing <=> Echoing')
          /\ (Level(Place) <=> Level(Place)')
      BY <3>1 DEF Between, Guarded, Begun, Echoing, Sampled, Unsampled, Level, Place,
                  vars, timers, rxVars, txVars, wireVars, cursorVars
    <3> QED
      BY <3>1, <3>2 DEF AloneInv, Alone, Sounding, EchoIsPrefix, vars, timers,
                        rxVars, txVars, remoteVars, receiveVars, cursorVars
  <2>2. ~RemoteStart
    BY DEF RemoteStart, ServedInTime
  <2>3. CASE TransmitBit
    BY <2>3, AloneStart, AloneNextBit DEF AloneInv, Alone
  <2> QED
    BY <2>1, <2>2, <2>3, AloneInterrupt, AloneReceive, AloneHost, AloneTick DEF BusNext
<1> QED
  BY <1>1, <1>2, <1>3 DEF AloneInv

\* The distance between the two timers, and all that hangs on it, is kept as
\* long as the driver is alone and served in time.
THEOREM AloneInvariant ==
  ASSUME ServedInTime
  PROVE  BusSpec => []AloneInv
<1>1. BusInit => AloneInv
  <2>1. BusInit => SendInv
    BY SendInvInit DEF BusInit
  <2>2. BusInit => LayersInv
    BY HardwareTypesInit DEF BusInit, Init, LayersInv, LayersAgree
  <2> QED
    BY <2>1, <2>2, AloneInit DEF AloneInv
<1> QED
  BY <1>1, AloneStep, PTL DEF BusSpec

\* What the receiver has assembled from the bits on the line is what has been
\* sent, for every datagram and every length of a bit.
THEOREM EchoIsPrefixHolds ==
  ASSUME ServedInTime
  PROVE  BusSpec => []EchoIsPrefix
<1>1. AloneInv => EchoIsPrefix
  BY DEF AloneInv, Alone
<1> QED
  BY <1>1, AloneInvariant, PTL

\* A start bit goes out only between two characters.
LEMMA StartsBetween ==
  ASSUME ServedInTime, AloneInv, BusNext, StartBit
  PROVE  TransmitBit /\ SendStartBit /\ Between
<1>1. TransmitBit
  BY DEF BusNext, StartBit, RxdInterrupt, ReceiveBit, Host, RemoteStart, Tick, txVars
<1>2. SendStartBit
  BY <1>1, Bounds DEF TransmitBit, StartBit, SendBit, SendStopBit
<1>3. Between
  <2>1. ~(SendBit \/ SendStopBit)
    BY <1>2, Bounds DEF SendStartBit, SendBit, SendStopBit
  <2>2. ~Sounding
    BY <1>1, <2>1, AloneNextBit
  <2> QED
    BY <2>2 DEF AloneInv, Alone
<1> QED
  BY <1>1, <1>2, <1>3

\* No character is begun before the one before it has come back, although its
\* interrupts are late.
THEOREM EchoBeforeNextHolds ==
  ASSUME ServedInTime
  PROVE  BusSpec => EchoBeforeNext
<1>1. AloneInv /\ [BusNext]_busVars => [StartBit => bus_state # "TRANSMITTING"]_busVars
  BY StartsBetween DEF Between
<1> QED
  BY <1>1, AloneInvariant, PTL DEF BusSpec, EchoBeforeNext

\* Once a character has been on the bus, a datagram is begun only after the line
\* has been high for the guard time, however late the timer that measures it.
THEOREM GuardTimeKeptHolds ==
  ASSUME ServedInTime
  PROVE  BusSpec => GuardTimeKept
<1>1. ASSUME AloneInv, BusNext, StartBit, transmit_buffer_position' = 0
      PROVE  quiet >= GuardTicks
  <2>1. TransmitBit /\ SendStartBit /\ Between /\ Due(tx_timer)
    BY <1>1, StartsBetween DEF TransmitBit
  <2>2. StartCharacter /\ transmitter' = "sending"
    BY <1>1, <2>1 DEF SendStartBit, StartBit, txVars
  <2> QED
    BY <1>1, <2>1, <2>2, StartBitFacts, Bounds
<1>2. AloneInv /\ [BusNext]_busVars =>
        [StartBit /\ transmit_buffer_position' = 0 /\ receive_buffer # <<>>
           => quiet >= GuardTicks]_busVars
  BY <1>1
<1> QED
  BY <1>2, AloneInvariant, PTL DEF BusSpec, GuardTimeKept

\* The edges inside a character of one's own do not restart the receiver.
THEOREM MidCharacterEdgeIgnoredHolds ==
  ASSUME ServedInTime
  PROVE  BusSpec => MidCharacterEdgeIgnored
<1>1. ASSUME AloneInv, BusNext, receiver, Due(irq), irq' = Off
      PROVE  UNCHANGED rx_timer
  <2>1. CASE RxdInterrupt
    BY <1>1, <2>1, AloneInterrupt
  <2>2. CASE ReceiveBit \/ Host
    BY <1>1, <2>2 DEF ReceiveBit, Host, Due
  <2>3. CASE TransmitBit \/ RemoteStart
    BY <2>3 DEF TransmitBit, RemoteStart
  <2>4. ~Tick
    <3>1. ASSUME Tick PROVE irq' # Off
      <4>1. irq \in Off .. 0 /\ MayWait(irq) /\ irq # Off
        BY <1>1, <3>1 DEF Tick, Due, AloneInv, LayersInv, HardwareTypes, TimerTypes
      <4>2. Elapse(irq) # Off
        BY <4>1, Bounds DEF Elapse, MayWait
      <4> QED
        BY <3>1, <4>2, Bounds DEF Tick, EdgeFrom
    <3> QED
      BY <1>1, <3>1
  <2> QED
    BY <1>1, <2>1, <2>2, <2>3, <2>4 DEF BusNext
<1>2. AloneInv /\ [BusNext]_busVars =>
        [receiver /\ Due(irq) /\ irq' = Off => UNCHANGED rx_timer]_busVars
  BY <1>1
<1> QED
  BY <1>2, AloneInvariant, PTL DEF BusSpec, MidCharacterEdgeIgnored

\* With no other talker there is no collision to detect, and no framing error.
THEOREM NoFalseCollisionHolds ==
  ASSUME ServedInTime
  PROVE  BusSpec => NoFalseCollision
<1>1. ASSUME AloneInv, rx_bit_number = CommandBit
      PROVE  ~Collision(rx_byte)
  <2>1. Sounding /\ Echoing
    BY <1>1, Bounds DEF AloneInv, Alone, Between, Sounding, Begun
  <2> QED
    BY <1>1, <2>1, WholeCharacter DEF Collision
<1>2. AloneInv /\ [BusNext]_busVars =>
        [rx_bit_number = CommandBit /\ rx_bit_number' = -1 /\ Line
           => ~Collision(rx_byte)]_busVars
  BY <1>1
<1> QED
  BY <1>2, AloneInvariant, PTL DEF BusSpec, NoFalseCollision
=============================================================================
