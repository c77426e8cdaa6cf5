-------------------------- MODULE SeatalkTransport --------------------------
(***************************************************************************)
(* The transport layer (seatalk_transport_layer.c) seen one character at a *)
(* time.  A step is what one interrupt does to the layer when it starts or *)
(* ends a character; the bits in between, the timers' arithmetic and the   *)
(* line itself are in SeatalkBus, which implements this specification.     *)
(*                                                                         *)
(* Three contexts run here.  The rx and tx timers and the RxD interrupt    *)
(* are atomic with respect to each other; the host thread that announces   *)
(* new data (wake_transmitter) is preempted by them between any two of its *)
(* accesses.                                                               *)
(*                                                                         *)
(* A byte is the set of the numbers of its bits that are 1.                *)
(***************************************************************************)
EXTENDS Naturals, Sequences

CONSTANTS
  DataBits,           \* bits of a byte: 8 in the code
  Datagrams,          \* what get_pending_datagram may build; <<>> is "nothing"
  Heard,              \* bytes that other talkers or a collision may produce
  ReceiveBufferSize,  \* bound on receive_buffer: 256 in the code, which writes
                      \* past its end; here the bytes beyond are dropped
  FramingErrors       \* whether a stop bit may be sampled low

BitNumber == 0 .. DataBits - 1
Byte == SUBSET BitNumber

\* The length nibble of a datagram's second byte: the number of its bytes after
\* the first three.
get_datagram_length(b) ==
    (IF 0 \in b THEN 1 ELSE 0) + (IF 1 \in b THEN 2 ELSE 0)
  + (IF 2 \in b THEN 4 ELSE 0) + (IF 3 \in b THEN 8 ELSE 0)

ASSUME TransportAssumption ==
  /\ DataBits \in Nat \ {0}
  /\ Datagrams \subseteq Seq(Byte)
  /\ Heard \subseteq Byte
  /\ ReceiveBufferSize \in Nat
  /\ \A b \in Byte : ReceiveBufferSize >= 3 + get_datagram_length(b)
  /\ FramingErrors \in BOOLEAN

VARIABLES
  bus_state,
  receiver,           \* TRUE from the start bit to the stop bit of a reception
  receive_buffer,     \* its first receive_buffer_position bytes
  receive_datagram_bytes_remaining,
  handled,            \* the datagram the last reception passed to the protocol
  tx_byte, tx_command_bit,
  transmit_buffer,    \* the datagram built last
  transmit_buffer_position,
  transmit_datagram_bytes_remaining,
  transmitter,        \* "off": timer stopped, "armed": running between two
                      \* characters, "sending": inside a character
  data_pending,       \* a command or a sensor has something to send
  host                \* program counter of initiate_seatalk_transmitter

receiveVars == <<receive_buffer, receive_datagram_bytes_remaining>>
cursorVars == <<transmit_buffer, transmit_buffer_position,
                transmit_datagram_bytes_remaining>>
wireVars == <<tx_byte, tx_command_bit>>
vars == <<bus_state, receiver, receiveVars, handled, wireVars, cursorVars,
          transmitter, data_pending, host>>

BusState == {"IDLE", "RECEIVING", "WAIT_FOR_IDLE", "TRANSMITTING"}

Init ==
  /\ bus_state = "IDLE"
  /\ receiver = FALSE
  /\ receive_buffer = <<>>
  /\ receive_datagram_bytes_remaining = 255
  /\ handled = <<>>
  /\ tx_byte = {}
  /\ tx_command_bit = TRUE
  /\ transmit_buffer = <<>>
  /\ transmit_buffer_position = 0
  /\ transmit_datagram_bytes_remaining = 0
  /\ transmitter = "off"
  /\ data_pending = FALSE
  /\ host = "running"

-----------------------------------------------------------------------------
(* Reception *)

\* A falling edge that is taken for a start bit.  The line is ours already when
\* we are transmitting: bus_state then keeps saying so.
initiate_seatalk_receive_character ==
  /\ receiver' = TRUE
  /\ bus_state' = IF bus_state \in {"IDLE", "WAIT_FOR_IDLE"}
                  THEN "RECEIVING" ELSE bus_state
  /\ UNCHANGED <<receiveVars, handled, wireVars, cursorVars,
                 transmitter, data_pending, host>>

\* initiate_seatalk_hardware_transmitter restarts the tx timer; a character
\* that is half sent stays so.
Restarted == IF transmitter = "sending" THEN "sending" ELSE "armed"

\* Mutant of cancel_datagram: the cursor stays in the cancelled datagram.
Mutant_cancel_datagram ==
  /\ transmit_datagram_bytes_remaining' = 0
  /\ UNCHANGED <<transmit_buffer, transmit_buffer_position>>

cancel_datagram ==
  /\ transmit_buffer_position' =
       transmit_buffer_position + transmit_datagram_bytes_remaining
  /\ transmit_datagram_bytes_remaining' = 0
  /\ UNCHANGED transmit_buffer

seatalk_byte_transmitted ==
  /\ transmit_buffer_position' = transmit_buffer_position + 1
  /\ transmit_datagram_bytes_remaining' = transmit_datagram_bytes_remaining - 1
  /\ UNCHANGED transmit_buffer

\* receive_buffer[receive_buffer_position++] = data_byte
Store(buffer, data_byte) ==
  IF Len(buffer) < ReceiveBufferSize THEN Append(buffer, data_byte) ELSE buffer

\* Mutant of BytesBefore: the count is not reset by a command bit.
Mutant_BytesBefore(command_bit) == receive_datagram_bytes_remaining

\* Mutant of BytesAfter: the count runs on below zero after the last byte.
Mutant_BytesAfter(remaining, data_byte) ==
  IF remaining = 254 THEN get_datagram_length(data_byte) ELSE remaining - 1

\* The count of the bytes of a datagram: 255 remain before the first byte, 254
\* before the second, which replaces the count, and at 0 the byte is the last.
BytesBefore(command_bit) ==
  IF command_bit THEN 255 ELSE receive_datagram_bytes_remaining

BytesAfter(remaining, data_byte) ==
  CASE remaining = 254 -> get_datagram_length(data_byte)
    [] remaining = 0   -> 0
    [] OTHER           -> remaining - 1

\* The assembly of datagrams: a command bit starts a new one, and the last byte
\* passes it to the protocol.
Assemble(data_byte, command_bit) ==
  LET buffer == IF command_bit THEN <<>> ELSE receive_buffer
      remaining == BytesBefore(command_bit)
  IN  /\ receive_buffer' = Store(buffer, data_byte)
      /\ receive_datagram_bytes_remaining' = BytesAfter(remaining, data_byte)
      /\ handled' = IF remaining = 0 THEN receive_buffer' ELSE <<>>

\* The character that comes back is not the one on the wire.
Collision(data_byte) == bus_state = "TRANSMITTING" /\ data_byte # tx_byte

\* Mutants of GuardTimeFollows: only our own transmissions restart the timer;
\* nothing does.
Mutant_GuardTimeFollows(data_byte) ==
  Collision(data_byte) \/ transmit_datagram_bytes_remaining = 1

Mutant_NoGuardTime(data_byte) == FALSE

\* seatalk_byte_received returns 1: the tx timer is restarted for the guard time
\* of IDLE_BITS, except between two bytes of a datagram that goes well.
GuardTimeFollows(data_byte) ==
  \/ Collision(data_byte)
  \/ bus_state # "TRANSMITTING"
  \/ transmit_datagram_bytes_remaining = 1

\* A character with its stop bit high.  Only the byte is compared with the one
\* being sent, not the command bit.
seatalk_byte_received(data_byte, command_bit) ==
  /\ receiver /\ receiver' = FALSE
  /\ bus_state' = "WAIT_FOR_IDLE"
  /\ transmitter' = IF GuardTimeFollows(data_byte) THEN Restarted ELSE transmitter
  /\ \/ /\ Collision(data_byte)
        /\ cancel_datagram
        /\ handled' = <<>>
        /\ UNCHANGED receiveVars
     \/ /\ ~Collision(data_byte)
        /\ Assemble(data_byte, command_bit)
        /\ \/ bus_state = "TRANSMITTING" /\ seatalk_byte_transmitted
           \/ bus_state # "TRANSMITTING" /\ UNCHANGED cursorVars
  /\ UNCHANGED <<wireVars, data_pending, host>>

\* A character whose stop bit is low is discarded.
FramingError ==
  /\ FramingErrors
  /\ receiver /\ receiver' = FALSE
  /\ bus_state' = "IDLE"
  /\ handled' = <<>>
  /\ UNCHANGED <<receiveVars, wireVars, cursorVars, transmitter, data_pending, host>>

CharacterReceived ==
  receiver /\ \E data_byte \in Heard \cup {tx_byte}, command_bit \in BOOLEAN :
    seatalk_byte_received(data_byte, command_bit)

-----------------------------------------------------------------------------
(* Transmission *)

seatalk_can_transmit == transmit_datagram_bytes_remaining > 0 \/ data_pending

\* Mutant of BusWhenTimerFires: the guard time never ends.
Mutant_BusWhenTimerFires == bus_state

BusWhenTimerFires == IF bus_state = "WAIT_FOR_IDLE" THEN "IDLE" ELSE bus_state

\* Mutant of SendByteAt: the command bit is not cleared after the first byte.
Mutant_SendByteAt(buffer, position) ==
  /\ tx_byte' = buffer[position + 1]
  /\ tx_command_bit' = (position = 0 \/ tx_command_bit)
  /\ bus_state' = "TRANSMITTING"
  /\ transmitter' = "sending"

\* The start bit: the byte at the cursor of the loaded datagram goes out.
SendByteAt(buffer, position) ==
  /\ tx_byte' = buffer[position + 1]
  /\ tx_command_bit' = (position = 0)
  /\ bus_state' = "TRANSMITTING"
  /\ transmitter' = "sending"

\* The tx timer fires between two characters: seatalk_transmit_bit with
\* tx_bit_number = -1, with seatalk_byte_to_send in it.
StartCharacter ==
  /\ transmitter = "armed"
  /\ \/ \* nothing to send: sleep until woken
        /\ ~seatalk_can_transmit
        /\ bus_state' = BusWhenTimerFires
        /\ transmitter' = "off"
        /\ UNCHANGED <<wireVars, cursorVars, data_pending>>
     \/ \* the next byte of the datagram in progress
        /\ transmit_datagram_bytes_remaining > 0
        /\ SendByteAt(transmit_buffer, transmit_buffer_position)
        /\ UNCHANGED <<cursorVars, data_pending>>
     \/ \* the first byte of a new datagram, or none was built after all
        /\ transmit_datagram_bytes_remaining = 0
        /\ data_pending
        /\ \E datagram \in Datagrams :
             /\ transmit_buffer' = datagram
             /\ transmit_buffer_position' = 0
             /\ transmit_datagram_bytes_remaining' = Len(datagram)
             /\ \/ /\ datagram # <<>>
                   /\ SendByteAt(datagram, 0)
                   /\ data_pending' \in BOOLEAN
                \/ /\ datagram = <<>>
                   /\ bus_state' = BusWhenTimerFires
                   /\ transmitter' = "off"
                   /\ data_pending' = FALSE
                   /\ UNCHANGED wireVars
  /\ UNCHANGED <<receiver, receiveVars, handled, host>>

\* The stop bit of a character has been put on the line.
CharacterSent ==
  /\ transmitter = "sending"
  /\ transmitter' = "armed"
  /\ UNCHANGED <<bus_state, receiver, receiveVars, handled, wireVars, cursorVars,
                 data_pending, host>>

-----------------------------------------------------------------------------
(* The host thread *)

\* A sensor value is stored or a command issued, and the transmitter woken.
HostUpdate ==
  /\ host = "running"
  /\ data_pending' = TRUE
  /\ host' = "waking"
  /\ UNCHANGED <<bus_state, receiver, receiveVars, handled, wireVars, cursorVars,
                 transmitter>>

\* Mutant of WakeTest: the transmitter is only woken in its guard time.
Mutant_WakeTest ==
  /\ host = "waking"
  /\ host' = IF bus_state = "WAIT_FOR_IDLE" THEN "stopping" ELSE "running"
  /\ UNCHANGED <<bus_state, receiver, receiveVars, handled, wireVars, cursorVars,
                 transmitter, data_pending>>

\* initiate_seatalk_transmitter tests bus_state ...
WakeTest ==
  /\ host = "waking"
  /\ host' = IF bus_state = "IDLE" THEN "stopping" ELSE "running"
  /\ UNCHANGED <<bus_state, receiver, receiveVars, handled, wireVars, cursorVars,
                 transmitter, data_pending>>

\* ... then cancels the tx timer ...
WakeCancel ==
  /\ host = "stopping"
  /\ host' = "starting"
  /\ transmitter' = IF transmitter = "sending" THEN "sending" ELSE "off"
  /\ UNCHANGED <<bus_state, receiver, receiveVars, handled, wireVars, cursorVars,
                 data_pending>>

\* ... and starts it again, one bit from now.
WakeStart ==
  /\ host = "starting"
  /\ host' = "running"
  /\ transmitter' = Restarted
  /\ UNCHANGED <<bus_state, receiver, receiveVars, handled, wireVars, cursorVars,
                 data_pending>>

\* A sensor value expires before it is sent.
DataExpires ==
  /\ data_pending
  /\ data_pending' = FALSE
  /\ UNCHANGED <<bus_state, receiver, receiveVars, handled, wireVars, cursorVars,
                 transmitter, host>>

-----------------------------------------------------------------------------

Wake == WakeTest \/ WakeCancel \/ WakeStart
Receive == CharacterReceived \/ FramingError
Transmit == StartCharacter \/ CharacterSent

Next ==
  \/ initiate_seatalk_receive_character
  \/ Receive
  \/ Transmit
  \/ HostUpdate \/ Wake \/ DataExpires

Spec == Init /\ [][Next]_vars

\* A reception that has begun reaches its stop bit and the host thread is
\* scheduled: weak fairness.  A wake-up stops the tx timer for an instant, and a
\* host that stored a value within every bit time (4800 a second) would hold it
\* off for ever; strong fairness is the assumption that it does not.  Nothing
\* makes the host send, nor a talker talk.
FairSpec ==
  Spec /\ SF_vars(Transmit) /\ WF_vars(Receive) /\ WF_vars(Wake)

-----------------------------------------------------------------------------
(* Properties *)

TypeOK ==
  /\ bus_state \in BusState
  /\ receiver \in BOOLEAN
  /\ receive_buffer \in Seq(Byte)
  /\ receive_datagram_bytes_remaining \in 0 .. 255
  /\ handled \in Seq(Byte)
  /\ tx_byte \in Byte
  /\ tx_command_bit \in BOOLEAN
  /\ transmit_buffer \in Seq(Byte)
  /\ transmit_buffer_position \in Nat
  /\ transmit_datagram_bytes_remaining \in Nat
  /\ transmitter \in {"off", "armed", "sending"}
  /\ data_pending \in BOOLEAN
  /\ host \in {"running", "waking", "stopping", "starting"}

\* While the driver believes it is transmitting, the character on the wire is
\* the byte at the cursor of the loaded datagram, flagged as a command exactly
\* when it is the first, and the cursor is inside the datagram: confirming or
\* cancelling a character never runs the counters past its end.
WireFollowsCursor ==
  /\ transmit_buffer_position + transmit_datagram_bytes_remaining = Len(transmit_buffer)
  /\ bus_state = "TRANSMITTING" =>
       /\ transmit_datagram_bytes_remaining > 0
       /\ tx_byte = transmit_buffer[transmit_buffer_position + 1]
       /\ tx_command_bit = (transmit_buffer_position = 0)

\* The count-down and the buffer of a reception agree however receptions,
\* command bits and collisions are interleaved: from the second byte on, the
\* count is what the length nibble still asks for, and a datagram handed to
\* the protocol has all the bytes its own length nibble announces.
ReceptionCounted ==
  LET received == Len(receive_buffer)
      announced == 2 + get_datagram_length(receive_buffer[2])
  IN  /\ received <= 1 => receive_datagram_bytes_remaining = 255 - received
      /\ received >= 2 => receive_datagram_bytes_remaining =
           IF received >= announced THEN 0 ELSE announced - received
      /\ handled # <<>> => handled = receive_buffer /\ received > announced

\* A busy bus state always has something running that will leave it: a
\* reception in progress for RECEIVING, the tx timer for the other two.
BusyStateIsLeft ==
  /\ bus_state = "RECEIVING" => receiver
  /\ bus_state \in {"WAIT_FOR_IDLE", "TRANSMITTING"} =>
       transmitter # "off" \/ host = "starting"

\* Data that was announced is not left behind: once the wake-up call has
\* returned, an idle bus has its transmit timer running.
PendingDataHasTimer ==
  data_pending /\ bus_state = "IDLE" /\ host = "running" => transmitter # "off"

\* Pending data is sent, or expires, whatever receptions it has to wait for.
PendingDataIsSent ==
  data_pending ~> (bus_state = "TRANSMITTING" \/ ~data_pending)

\* The transmit side implements StopAndWait under any reception, framing error,
\* wake-up and expiry: no byte is skipped, repeated after its confirmation, or
\* taken from another datagram than the one begun.
Delivery == INSTANCE StopAndWait WITH
  datagram <- transmit_buffer,
  confirmed <- transmit_buffer_position,
  wire <- IF bus_state = "TRANSMITTING" THEN <<tx_byte, tx_command_bit>> ELSE <<>>

ImplementsStopAndWait == Delivery!Spec

=============================================================================
