----------------------------- MODULE SeatalkBus -----------------------------
(***************************************************************************)
(* The bits of the transport layer (seatalk_receive_bit and                *)
(* seatalk_transmit_bit), the Linux hardware layer that clocks them        *)
(* (linux/seatalk_hardware_layer.c), the wired-AND line and another talker *)
(* on it.  Where a bit begins or ends a character, the step is a step of   *)
(* SeatalkTransport; every other step leaves that module's variables       *)
(* alone, so each behaviour here is one of SeatalkTransport's Spec.        *)
(*                                                                         *)
(* Time advances in ticks, a fraction of a bit.  A timer is the number of  *)
(* ticks until it fires; a handler may be held off for Latency ticks, its  *)
(* timer then counting below zero.                                         *)
(***************************************************************************)
EXTENDS SeatalkTransport, Integers

CONSTANTS
  BitTicks,       \* BIT_INTERVAL
  StartBitDelay,  \* START_BIT_DELAY: the receiver samples this long into a bit
  DebounceTicks,  \* DEBOUNCE_NANOS, rounded up
  IDLE_BITS,      \* the guard time, in bits
  Latency,        \* bound: how long an interrupt may be held off
  HostPreempted,  \* whether interrupts may come inside initiate_seatalk_transmitter
  RemoteBytes,    \* the bytes of the other talker; {} when there is none
  RemoteGuard     \* ticks the line is high before the other talker begins

ASSUME BusAssumption ==
  /\ BitTicks \in Nat /\ Latency \in Nat /\ Latency < BitTicks
  /\ StartBitDelay \in 1 .. BitTicks - 1
  /\ DebounceTicks \in 1 .. BitTicks
  /\ IDLE_BITS \in Nat \ {0}
  /\ HostPreempted \in BOOLEAN
  /\ RemoteBytes \subseteq Byte
  /\ RemoteGuard \in Nat

VARIABLES
  rx_timer, tx_timer,  \* hrtimer_rxd, hrtimer_txd
  irq,                 \* the pending RxD interrupt, as a timer that is due
  debouncing,
  rx_bit_number, rx_byte, rx_command_bit,
  tx_bit_number,
  txd,                 \* the level of the TxD pin, TRUE for high
  remote,              \* the other talker: the tick of its character, or Silent
  remote_char,         \* that character
  quiet                \* ticks the line has been high, up to GuardTicks

timers == <<rx_timer, tx_timer, irq>>
rxVars == <<debouncing, rx_bit_number, rx_byte, rx_command_bit>>
txVars == <<tx_bit_number, txd>>
remoteVars == <<remote, remote_char>>
busVars == <<vars, timers, rxVars, txVars, remoteVars, quiet>>

Off == -(Latency + 1)
Silent == -1

CommandBit == DataBits       \* rx_bit_number and tx_bit_number count from the
StopBit == DataBits + 1      \* first data bit
FrameTicks == (DataBits + 3) * BitTicks
GuardTicks == IDLE_BITS * BitTicks

-----------------------------------------------------------------------------
(* Timers and the line *)

Due(timer) == timer # Off /\ timer <= 0
MayWait(timer) == timer = Off \/ timer > -Latency
Elapse(timer) == IF timer = Off THEN Off ELSE timer - 1

\* hrtimer_forward_now: from the time the timer was due, by as many intervals
\* as it takes to lie in the future.
Forward(timer, interval) == timer + interval * (1 + (-timer) \div interval)

\* The level of the other talker's output.
RemoteHigh(clock, char) ==
  LET bit == clock \div BitTicks IN
  \/ clock = Silent
  \/ bit \in 1 .. DataBits /\ bit - 1 \in char.byte
  \/ bit = DataBits + 1 /\ char.command
  \/ bit = DataBits + 2

Line == txd /\ RemoteHigh(remote, remote_char)

\* A falling edge of the line raises the RxD interrupt.
EdgeFrom(pending) ==
  irq' = IF Line /\ ~Line' /\ pending = Off THEN 0 ELSE pending

BusInit ==
  /\ Init
  /\ rx_timer = Off /\ tx_timer = Off /\ irq = Off
  /\ debouncing = FALSE
  /\ rx_bit_number = -1 /\ rx_byte = {} /\ rx_command_bit = FALSE
  /\ tx_bit_number = -1 /\ txd = TRUE
  /\ remote = Silent /\ remote_char = [byte |-> {}, command |-> TRUE]
  /\ quiet = GuardTicks

\* An interrupt handler can run: the host thread is not in its critical calls.
Interruptible == HostPreempted \/ host \in {"running", "waking"}

-----------------------------------------------------------------------------
(* rxd_irq_handler *)

\* Mutant of FirstSample: the receiver is started a bit late.
Mutant_FirstSample == 2 * BitTicks + StartBitDelay

FirstSample == BitTicks + StartBitDelay

\* Mutant of RxdInterrupt: only the debounce time is looked at.
Mutant_RxdInterrupt ==
  /\ Interruptible
  /\ Due(irq)
  /\ irq' = Off
  /\ \/ debouncing /\ UNCHANGED <<vars, rx_timer>>
     \/ ~debouncing /\ initiate_seatalk_receive_character /\ rx_timer' = FirstSample
  /\ UNCHANGED <<tx_timer, rxVars, txVars, remoteVars, quiet>>

RxdInterrupt ==
  /\ Interruptible
  /\ Due(irq)
  /\ irq' = Off
  /\ \/ /\ debouncing \/ rx_bit_number # -1
        /\ UNCHANGED <<vars, rx_timer>>
     \/ /\ ~debouncing /\ rx_bit_number = -1
        /\ initiate_seatalk_receive_character
        /\ rx_timer' = FirstSample
  /\ UNCHANGED <<tx_timer, rxVars, txVars, remoteVars, quiet>>

-----------------------------------------------------------------------------
(* receive_bit *)

\* Mutant of EndDebounce: the rx timer is restarted after the debounce time.
Mutant_EndDebounce ==
  /\ debouncing
  /\ debouncing' = FALSE
  /\ rx_timer' = Forward(rx_timer, BitTicks)
  /\ UNCHANGED <<vars, tx_timer, rx_bit_number, rx_byte, rx_command_bit>>

EndDebounce ==
  /\ debouncing
  /\ debouncing' = FALSE
  /\ rx_timer' = Off
  /\ UNCHANGED <<vars, tx_timer, rx_bit_number, rx_byte, rx_command_bit>>

\* Mutant of SampledByte: the byte is not cleared before a new character.
Mutant_SampledByte(bit) ==
  rx_byte \cup (IF Line /\ bit < CommandBit THEN {bit} ELSE {})

SampledByte(bit) ==
  (IF bit = 0 THEN {} ELSE rx_byte)
    \cup (IF Line /\ bit < CommandBit THEN {bit} ELSE {})

\* A data bit or the command bit is sampled.
SampleBit ==
  LET bit == rx_bit_number + 1 IN
  /\ ~debouncing
  /\ bit <= CommandBit
  /\ rx_bit_number' = bit
  /\ rx_byte' = SampledByte(bit)
  /\ rx_command_bit' = (Line /\ bit = CommandBit)
  /\ rx_timer' = Forward(rx_timer, BitTicks)
  /\ UNCHANGED <<vars, tx_timer, debouncing>>

\* Mutant of StopBitHigh: the level of the stop bit is not looked at.
Mutant_StopBitHigh == TRUE

StopBitHigh == Line

\* The stop bit is sampled: the character is complete, or there was none.
SampleStopBit ==
  /\ ~debouncing
  /\ rx_bit_number = CommandBit
  /\ rx_bit_number' = -1
  /\ debouncing' = TRUE
  /\ rx_timer' = Forward(rx_timer, DebounceTicks)
  /\ \/ /\ StopBitHigh
        /\ seatalk_byte_received(rx_byte, rx_command_bit)
        /\ tx_timer' = IF GuardTimeFollows(rx_byte) THEN GuardTicks ELSE tx_timer
     \/ /\ ~StopBitHigh
        /\ FramingError
        /\ UNCHANGED tx_timer
  /\ UNCHANGED <<rx_byte, rx_command_bit>>

ReceiveBit ==
  /\ Interruptible
  /\ Due(rx_timer)
  /\ EndDebounce \/ SampleBit \/ SampleStopBit
  /\ UNCHANGED <<irq, txVars, remoteVars, quiet>>

-----------------------------------------------------------------------------
(* transmit_bit *)

\* Between two characters: a start bit, or nothing more to send.
SendStartBit ==
  /\ tx_bit_number = -1
  /\ StartCharacter
  /\ \/ /\ transmitter' = "sending"
        /\ tx_bit_number' = 0
        /\ txd' = FALSE
        /\ tx_timer' = Forward(tx_timer, BitTicks)
     \/ /\ transmitter' = "off"
        /\ tx_timer' = Off
        /\ UNCHANGED txVars

SendBit ==
  /\ tx_bit_number \in 0 .. CommandBit
  /\ txd' = IF tx_bit_number = CommandBit THEN tx_command_bit
            ELSE tx_bit_number \in tx_byte
  /\ tx_bit_number' = tx_bit_number + 1
  /\ tx_timer' = Forward(tx_timer, BitTicks)
  /\ UNCHANGED vars

\* Mutants of SendStopBit: the transmitter sleeps after every character; the bit
\* number is not reset.
Mutant_SendStopBit ==
  /\ tx_bit_number = StopBit
  /\ CharacterSent
  /\ txd' = TRUE
  /\ tx_bit_number' = -1
  /\ tx_timer' = Off

Mutant_SendStopBitNoReset ==
  /\ tx_bit_number = StopBit
  /\ CharacterSent
  /\ txd' = TRUE
  /\ tx_bit_number' = tx_bit_number + 1
  /\ tx_timer' = Forward(tx_timer, BitTicks)

SendStopBit ==
  /\ tx_bit_number = StopBit
  /\ CharacterSent
  /\ txd' = TRUE
  /\ tx_bit_number' = -1
  /\ tx_timer' = Forward(tx_timer, BitTicks)

TransmitBit ==
  /\ Interruptible
  /\ Due(tx_timer)
  /\ SendStartBit \/ SendBit \/ SendStopBit
  /\ UNCHANGED <<rx_timer, rxVars, remoteVars, quiet>>
  /\ EdgeFrom(irq)

-----------------------------------------------------------------------------
(* The host thread, the other talker and time *)

Host ==
  /\ \/ (HostUpdate \/ WakeTest \/ DataExpires) /\ UNCHANGED tx_timer
     \/ WakeCancel /\ tx_timer' = Off
     \/ WakeStart /\ tx_timer' = BitTicks
  /\ UNCHANGED <<rx_timer, irq, rxVars, txVars, remoteVars, quiet>>

\* The other talker begins a datagram on a line that has been high long enough.
RemoteStart ==
  /\ remote = Silent
  /\ quiet >= RemoteGuard
  /\ remote' = 0
  /\ \E byte \in RemoteBytes : remote_char' = [byte |-> byte, command |-> TRUE]
  /\ UNCHANGED <<vars, rx_timer, tx_timer, rxVars, txVars, quiet>>
  /\ EdgeFrom(irq)

\* Its clock.  After a stop bit it is silent or goes on with the next byte.
RemoteElapse ==
  \/ /\ remote \in 0 .. FrameTicks - 2
     /\ remote' = remote + 1
     /\ UNCHANGED remote_char
  \/ /\ remote \in {Silent, FrameTicks - 1}
     /\ remote' = Silent
     /\ UNCHANGED remote_char
  \/ /\ remote = FrameTicks - 1
     /\ remote' = 0
     /\ \E byte \in RemoteBytes : remote_char' = [byte |-> byte, command |-> FALSE]

\* Time passes when no interrupt has been held off for its full latency.
Tick ==
  /\ Interruptible
  /\ MayWait(rx_timer) /\ MayWait(tx_timer) /\ MayWait(irq)
  /\ rx_timer' = Elapse(rx_timer)
  /\ tx_timer' = Elapse(tx_timer)
  /\ RemoteElapse
  /\ UNCHANGED <<vars, rxVars, txVars>>
  /\ EdgeFrom(Elapse(irq))
  /\ quiet' = IF ~Line THEN 0 ELSE IF quiet < GuardTicks THEN quiet + 1 ELSE quiet

BusNext ==
  \/ RxdInterrupt \/ ReceiveBit \/ TransmitBit
  \/ Host \/ RemoteStart \/ Tick

BusSpec == BusInit /\ [][BusNext]_busVars

\* Time passes and a timer or an interrupt that is due is served; the host
\* thread runs.  Nobody is obliged to talk.
BusFairSpec ==
  /\ BusSpec
  /\ WF_busVars(Tick)
  /\ WF_busVars(RxdInterrupt)
  /\ WF_busVars(ReceiveBit)
  /\ WF_busVars(TransmitBit)
  /\ WF_busVars(Host /\ Wake)

-----------------------------------------------------------------------------
(* Properties *)

Timer == Off .. GuardTicks + BitTicks + StartBitDelay

BusTypeOK ==
  /\ TypeOK
  /\ rx_timer \in Timer /\ tx_timer \in Timer /\ irq \in Off .. 0
  /\ debouncing \in BOOLEAN
  /\ rx_bit_number \in -1 .. CommandBit
  /\ rx_byte \in Byte
  /\ rx_command_bit \in BOOLEAN
  /\ tx_bit_number \in -1 .. StopBit
  /\ txd \in BOOLEAN
  /\ remote \in Silent .. FrameTicks - 1
  /\ remote_char \in [byte : Byte, command : BOOLEAN]
  /\ quiet \in 0 .. GuardTicks

\* The two timers are what the transport layer takes them for: the receiver is
\* clocked from a start bit to its stop bit and no longer, and a transmitter
\* that is not asleep has its timer running, except inside the wake-up call.
LayersAgree ==
  /\ receiver = (rx_timer # Off /\ ~debouncing)
  /\ (transmitter = "sending") = (tx_bit_number # -1)
  /\ (transmitter = "off" \/ host = "starting") = (tx_timer = Off)

\* The driver never jams the line: while it holds the line low, the timer that
\* will release it runs out within a bit, whatever it receives meanwhile and
\* whenever it is woken.
NotHeldLow ==
  ~txd /\ host # "starting" => tx_timer # Off /\ tx_timer <= BitTicks

\* A start bit goes out in this step.
StartBit == tx_bit_number = -1 /\ tx_bit_number' = 0

\* "Pattern is send-byte, receive-byte": no character is begun before the one
\* before it has come back through the receiver.
EchoBeforeNext == [][StartBit => bus_state # "TRANSMITTING"]_busVars

\* With no other talker, what the receiver has assembled from the line is, bit
\* for bit and with its command bit, the part of the datagram counted as sent.
EchoIsPrefix ==
  transmit_buffer_position > 0 =>
    receive_buffer = SubSeq(transmit_buffer, 1, transmit_buffer_position)

\* Once a character has been on the bus, a datagram is begun only after the line
\* has been high for the guard time of IDLE_BITS.
GuardTimeKept ==
  [][StartBit /\ transmit_buffer_position' = 0 /\ receive_buffer # <<>>
       => quiet >= GuardTicks]_busVars

\* With no other talker there is no collision to detect.
NoFalseCollision ==
  [][rx_bit_number = CommandBit /\ rx_bit_number' = -1 /\ Line
       => ~Collision(rx_byte)]_busVars

\* An edge in the middle of a character is ignored: the receiver that is running
\* is not started again.
MidCharacterEdgeIgnored ==
  [][receiver /\ Due(irq) /\ irq' = Off => UNCHANGED rx_timer]_busVars

\* A datagram that has been begun is sent to its end or cancelled.
DatagramEnds ==
  transmit_datagram_bytes_remaining > 0 ~> transmit_datagram_bytes_remaining = 0

=============================================================================
