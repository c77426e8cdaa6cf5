----------------------- MODULE SeatalkTransportProofs -----------------------
(***************************************************************************)
(* Proofs about SeatalkTransport, for every width of a byte, every set of  *)
(* datagrams, every noise on the line and every size of receive_buffer     *)
(* that holds a whole datagram.                                            *)
(***************************************************************************)
EXTENDS SeatalkTransport, SequenceTheorems, TLAPS

\* The length nibble is a nibble.
LEMMA LengthIsNibble ==
  ASSUME NEW b
  PROVE  get_datagram_length(b) \in 0 .. 15
  BY DEF get_datagram_length

\* What is in receive_buffer after a byte is stored, while there is room for it.
LEMMA StoreProperties ==
  ASSUME NEW s \in Seq(Byte), NEW b \in Byte
  PROVE  /\ Store(s, b) \in Seq(Byte)
         /\ Len(s) < ReceiveBufferSize =>
              /\ Len(Store(s, b)) = Len(s) + 1
              /\ Store(s, b)[Len(s) + 1] = b
              /\ \A i \in 1 .. Len(s) : Store(s, b)[i] = s[i]
         /\ Len(s) >= ReceiveBufferSize => Store(s, b) = s
  BY TransportAssumption DEF Store

LEMMA EmptyValues == {} \in Byte /\ <<>> \in Seq(Byte)
  BY DEF Byte

-----------------------------------------------------------------------------
(* Types and the cursor.  Neither is inductive alone: the count of bytes   *)
(* still to send stays a natural number because a transmission in progress *)
(* has a byte left to send, which only the cursor's invariant says.        *)

SendInv == TypeOK /\ WireFollowsCursor

LEMMA SendInvInit == Init => SendInv
<1> SUFFICES ASSUME Init PROVE SendInv
  OBVIOUS
<1>1. TypeOK
  <2>1. /\ receive_buffer \in Seq(Byte) /\ handled \in Seq(Byte)
        /\ transmit_buffer \in Seq(Byte) /\ tx_byte \in Byte
    BY EmptyValues, Zenon DEF Init
  <2>2. /\ receive_datagram_bytes_remaining \in 0 .. 255
        /\ transmit_buffer_position \in Nat
        /\ transmit_datagram_bytes_remaining \in Nat
    BY DEF Init
  <2>3. /\ bus_state \in BusState /\ receiver \in BOOLEAN
        /\ tx_command_bit \in BOOLEAN /\ data_pending \in BOOLEAN
        /\ transmitter \in {"off", "armed", "sending"}
        /\ host \in {"running", "waking", "stopping", "starting"}
    BY Zenon DEF Init, BusState
  <2> QED
    BY <2>1, <2>2, <2>3 DEF TypeOK
<1>2. WireFollowsCursor
  BY EmptyValues, EmptySeq DEF Init, WireFollowsCursor
<1> QED
  BY <1>1, <1>2 DEF SendInv

\* The end of a reception, with its collision or its confirmation.
LEMMA SendInvReceived ==
  ASSUME SendInv, NEW data_byte \in Byte, NEW command_bit \in BOOLEAN,
         seatalk_byte_received(data_byte, command_bit)
  PROVE  SendInv'
<1> USE DEF SendInv, TypeOK, BusState
<1>1. WireFollowsCursor'
  BY DEF WireFollowsCursor, seatalk_byte_received, cancel_datagram,
         seatalk_byte_transmitted, Collision, cursorVars
<1>2. transmit_buffer' \in Seq(Byte) /\ transmit_buffer_position' \in Nat
  BY DEF seatalk_byte_received, cancel_datagram, seatalk_byte_transmitted, cursorVars
<1>3. transmit_datagram_bytes_remaining' \in Nat
  <2>1. CASE Collision(data_byte)
    BY <2>1 DEF seatalk_byte_received, cancel_datagram
  <2>2. CASE ~Collision(data_byte) /\ bus_state = "TRANSMITTING"
    BY <2>2 DEF seatalk_byte_received, seatalk_byte_transmitted, WireFollowsCursor
  <2>3. CASE ~Collision(data_byte) /\ bus_state # "TRANSMITTING"
    BY <2>3 DEF seatalk_byte_received, cursorVars
  <2> QED
    BY <2>1, <2>2, <2>3
<1>4. /\ receive_buffer' \in Seq(Byte) /\ handled' \in Seq(Byte)
      /\ receive_datagram_bytes_remaining' \in 0 .. 255
  <2>1. CASE Collision(data_byte)
    BY <2>1, EmptyValues DEF seatalk_byte_received, receiveVars
  <2>2. CASE ~Collision(data_byte)
    <3>1. Assemble(data_byte, command_bit)
      BY <2>2 DEF seatalk_byte_received
    <3>2. receive_buffer' \in Seq(Byte) /\ handled' \in Seq(Byte)
      BY <3>1, StoreProperties, EmptyValues DEF Assemble, BytesBefore, BytesAfter
    <3>3. receive_datagram_bytes_remaining' \in 0 .. 255
      BY <3>1, LengthIsNibble DEF Assemble, BytesBefore, BytesAfter
    <3> QED
      BY <3>2, <3>3
  <2> QED
    BY <2>1, <2>2
<1>5. /\ bus_state' \in BusState /\ receiver' \in BOOLEAN
      /\ tx_byte' \in Byte /\ tx_command_bit' \in BOOLEAN
      /\ transmitter' \in {"off", "armed", "sending"}
      /\ data_pending' \in BOOLEAN
      /\ host' \in {"running", "waking", "stopping", "starting"}
  BY DEF seatalk_byte_received, Restarted, wireVars
<1> QED
  BY <1>1, <1>2, <1>3, <1>4, <1>5

\* The tx timer between two characters.
LEMMA SendInvStart ==
  ASSUME SendInv, StartCharacter
  PROVE  SendInv'
<1> USE DEF SendInv, TypeOK, BusState, BusWhenTimerFires
<1>0. UNCHANGED <<receiver, receiveVars, handled, host>>
  BY DEF StartCharacter
<1>1. CASE /\ ~seatalk_can_transmit
           /\ bus_state' = BusWhenTimerFires
           /\ transmitter' = "off"
           /\ UNCHANGED <<wireVars, cursorVars, data_pending>>
  BY <1>0, <1>1 DEF WireFollowsCursor, receiveVars, wireVars, cursorVars
<1>2. CASE /\ transmit_datagram_bytes_remaining > 0
           /\ SendByteAt(transmit_buffer, transmit_buffer_position)
           /\ UNCHANGED <<cursorVars, data_pending>>
  <2>1. transmit_buffer_position + 1 \in 1 .. Len(transmit_buffer)
    BY <1>2 DEF WireFollowsCursor
  <2>2. tx_byte' \in Byte
    BY <1>2, <2>1 DEF SendByteAt
  <2> QED
    BY <1>0, <1>2, <2>2 DEF WireFollowsCursor, SendByteAt, receiveVars, cursorVars
<1>3. ASSUME NEW datagram \in Datagrams,
             transmit_datagram_bytes_remaining = 0,
             transmit_buffer' = datagram,
             transmit_buffer_position' = 0,
             transmit_datagram_bytes_remaining' = Len(datagram),
             \/ /\ datagram # <<>>
                /\ SendByteAt(datagram, 0)
                /\ data_pending' \in BOOLEAN
             \/ /\ datagram = <<>>
                /\ bus_state' = BusWhenTimerFires
                /\ transmitter' = "off"
                /\ data_pending' = FALSE
                /\ UNCHANGED wireVars
      PROVE  SendInv'
  <2>1. datagram \in Seq(Byte)
    BY TransportAssumption
  <2>2. CASE datagram # <<>>
    <3>1. Len(datagram) \in Nat \ {0}
      BY <2>1, <2>2, EmptySeq, Zenon
    <3>2. Len(datagram) > 0 /\ datagram[1] \in Byte
      BY <2>1, <3>1
    <3>3. SendByteAt(datagram, 0) /\ data_pending' \in BOOLEAN
      BY <1>3, <2>2, Zenon
    <3>4. UNCHANGED <<receiver, receiveVars, handled, host>>
      BY <1>0
    <3> QED
      BY <1>3, <2>1, <3>1, <3>2, <3>3, <3>4
         DEF WireFollowsCursor, SendByteAt, receiveVars
  <2>3. CASE datagram = <<>>
    <3>1. Len(datagram) = 0
      BY <2>3, EmptySeq, Zenon
    <3>2. /\ bus_state' = BusWhenTimerFires
          /\ transmitter' = "off"
          /\ data_pending' = FALSE
          /\ UNCHANGED wireVars
      BY <1>3, <2>3, Zenon
    <3>3. /\ transmit_buffer' \in Seq(Byte)
          /\ transmit_buffer_position' = 0
          /\ transmit_datagram_bytes_remaining' = 0
          /\ Len(transmit_buffer') = 0
      BY <1>3, <2>1, <3>1, Zenon
    <3>4. WireFollowsCursor'
      BY <1>3, <3>2, <3>3 DEF WireFollowsCursor
    <3> QED
      BY <1>0, <3>2, <3>3, <3>4 DEF receiveVars, wireVars
  <2> QED
    BY <2>2, <2>3
<1> QED
  BY <1>1, <1>2, <1>3 DEF StartCharacter

LEMMA SendInvStep == SendInv /\ [Next]_vars => SendInv'
<1> SUFFICES ASSUME SendInv, [Next]_vars PROVE SendInv'
  OBVIOUS
<1>1. CASE CharacterReceived
  <2>1. PICK data_byte \in Heard \cup {tx_byte}, command_bit \in BOOLEAN :
          seatalk_byte_received(data_byte, command_bit)
    BY <1>1 DEF CharacterReceived
  <2>2. data_byte \in Byte
    BY TransportAssumption DEF SendInv, TypeOK
  <2> QED
    BY <2>1, <2>2, SendInvReceived
<1>2. CASE StartCharacter
  BY <1>2, SendInvStart
<1> USE DEF SendInv, TypeOK, BusState, WireFollowsCursor,
            receiveVars, wireVars, cursorVars
<1>3. CASE initiate_seatalk_receive_character
  BY <1>3 DEF initiate_seatalk_receive_character
<1>4. CASE FramingError
  BY <1>4, EmptyValues DEF FramingError
<1>5. CASE CharacterSent
  BY <1>5 DEF CharacterSent
<1>6. CASE HostUpdate
  BY <1>6 DEF HostUpdate
<1>7. CASE WakeTest
  BY <1>7 DEF WakeTest
<1>8. CASE WakeCancel
  BY <1>8 DEF WakeCancel
<1>9. CASE WakeStart
  BY <1>9 DEF WakeStart, Restarted
<1>10. CASE DataExpires
  BY <1>10 DEF DataExpires
<1>11. CASE UNCHANGED vars
  BY <1>11 DEF vars
<1> QED
  BY <1>1, <1>2, <1>3, <1>4, <1>5, <1>6, <1>7, <1>8, <1>9, <1>10, <1>11
     DEF Next, Receive, Transmit, Wake

\* Every variable keeps its type, whatever the line delivers: the counts of
\* bytes still to send and still to receive never go below zero.
THEOREM TypeCorrect == Spec => []TypeOK
<1>1. SendInv => TypeOK
  BY DEF SendInv
<1> QED
  BY <1>1, SendInvInit, SendInvStep, PTL DEF Spec

\* The character on the wire is the byte at the cursor of the loaded datagram,
\* and the cursor is inside it, under any noise, wake-up or collision.
THEOREM WireFollowsCursorHolds == Spec => []WireFollowsCursor
<1>1. SendInv => WireFollowsCursor
  BY DEF SendInv
<1> QED
  BY <1>1, SendInvInit, SendInvStep, PTL DEF Spec

-----------------------------------------------------------------------------
(* The assembly of received datagrams. *)

ReceiveInv == SendInv /\ ReceptionCounted

LEMMA ReceptionCountedInit == Init => ReceptionCounted
<1> SUFFICES ASSUME Init PROVE ReceptionCounted
  OBVIOUS
<1>1. Len(receive_buffer) = 0 /\ handled = <<>>
  BY EmptySeq, Zenon DEF Init
<1>2. receive_datagram_bytes_remaining = 255
  BY DEF Init
<1>3. ~(handled # <<>>)
  BY <1>1
<1> QED
  BY <1>1, <1>2, <1>3 DEF ReceptionCounted

\* A byte is added to the reception in progress, or begins a new one.
LEMMA ReceptionCountedAssemble ==
  ASSUME SendInv, ReceptionCounted,
         NEW data_byte \in Byte, NEW command_bit \in BOOLEAN,
         Assemble(data_byte, command_bit)
  PROVE  ReceptionCounted'
<1> DEFINE buffer == IF command_bit THEN <<>> ELSE receive_buffer
           remaining == IF command_bit THEN 255 ELSE receive_datagram_bytes_remaining
           announced == 2 + get_datagram_length(buffer[2])
<1>1. /\ receive_buffer' = Store(buffer, data_byte)
      /\ receive_datagram_bytes_remaining' =
           CASE remaining = 254 -> get_datagram_length(data_byte)
             [] remaining = 0   -> 0
             [] OTHER           -> remaining - 1
      /\ handled' = IF remaining = 0 THEN receive_buffer' ELSE <<>>
  BY DEF Assemble, BytesBefore, BytesAfter
<1>2. /\ Len(buffer) \in Nat /\ buffer \in Seq(Byte)
      /\ Len(buffer) <= 1 => remaining = 255 - Len(buffer)
      /\ Len(buffer) >= 2 => remaining =
           IF Len(buffer) >= announced THEN 0 ELSE announced - Len(buffer)
  <2>1. CASE command_bit
    <3>1. buffer = <<>> /\ remaining = 255
      BY <2>1
    <3>2. Len(buffer) = 0 /\ buffer \in Seq(Byte)
      BY <3>1, EmptySeq, EmptyValues, Zenon
    <3> QED
      BY <3>1, <3>2
  <2>2. CASE ~command_bit
    BY <2>2 DEF ReceptionCounted, SendInv, TypeOK
  <2> QED
    BY <2>1, <2>2
<1> HIDE DEF buffer, remaining
<1>3. get_datagram_length(buffer[2]) \in 0 .. 15
      /\ get_datagram_length(data_byte) \in 0 .. 15
  BY LengthIsNibble
<1>4. CASE Len(buffer) < ReceiveBufferSize
  <2>1. /\ receive_buffer' \in Seq(Byte)
        /\ Len(receive_buffer') = Len(buffer) + 1
        /\ receive_buffer'[Len(buffer) + 1] = data_byte
        /\ \A i \in 1 .. Len(buffer) : receive_buffer'[i] = buffer[i]
    BY <1>1, <1>2, <1>4, StoreProperties
  <2>2. CASE Len(buffer) = 0
    <3>1. remaining = 255
      BY <1>2, <2>2
    <3>2. receive_datagram_bytes_remaining' = 254 /\ handled' = <<>>
      BY <1>1, <3>1
    <3> QED
      BY <2>1, <2>2, <3>2 DEF ReceptionCounted
  <2>3. CASE Len(buffer) = 1
    <3>1. remaining = 254
      BY <1>2, <2>3
    <3>2. /\ receive_datagram_bytes_remaining' = get_datagram_length(data_byte)
          /\ handled' = <<>>
      BY <1>1, <3>1
    <3>3. receive_buffer'[2] = data_byte
      BY <2>1, <2>3
    <3> QED
      BY <1>3, <2>1, <2>3, <3>2, <3>3 DEF ReceptionCounted
  <2>4. CASE Len(buffer) >= 2
    <3>1. receive_buffer'[2] = buffer[2]
      BY <1>2, <2>1, <2>4
    <3>2. remaining # 254
      BY <1>2, <1>3, <2>4
    <3>3. CASE remaining = 0
      <4>1. receive_datagram_bytes_remaining' = 0 /\ handled' = receive_buffer'
        BY <1>1, <3>3
      <4>2. Len(buffer) >= announced
        BY <1>2, <1>3, <2>4, <3>3
      <4> QED
        BY <1>2, <1>3, <2>1, <2>4, <3>1, <4>1, <4>2 DEF ReceptionCounted
    <3>4. CASE remaining # 0
      <4>1. receive_datagram_bytes_remaining' = remaining - 1 /\ handled' = <<>>
        BY <1>1, <3>2, <3>4
      <4>2. Len(buffer) < announced /\ remaining = announced - Len(buffer)
        BY <1>2, <1>3, <2>4, <3>4
      <4>3. 2 + get_datagram_length(receive_buffer'[2]) = announced
        BY <3>1
      <4>4. /\ Len(receive_buffer') = Len(buffer) + 1 /\ Len(buffer) \in Nat
            /\ announced \in Nat /\ Len(receive_buffer') > 2
        BY <1>2, <1>3, <2>1, <2>4
      <4> HIDE DEF announced
      <4>5. receive_datagram_bytes_remaining' =
              IF Len(receive_buffer') >= announced
              THEN 0 ELSE announced - Len(receive_buffer')
        BY <4>1, <4>2, <4>4
      <4>6. ~(handled' # <<>>)
        BY <4>1
      <4> QED
        BY <4>3, <4>4, <4>5, <4>6 DEF ReceptionCounted
    <3> QED
      BY <3>3, <3>4
  <2> QED
    BY <1>2, <2>2, <2>3, <2>4
<1>5. CASE Len(buffer) >= ReceiveBufferSize
  <2>1. receive_buffer' = buffer
    BY <1>1, <1>2, <1>5, StoreProperties
  <2>2. ReceiveBufferSize >= 3
    BY EmptyValues, LengthIsNibble, TransportAssumption
  <2>3. Len(buffer) > announced
    BY <1>2, <1>3, <1>5, <2>2, TransportAssumption
  <2>4. remaining = 0
    BY <1>2, <1>3, <2>2, <2>3, <1>5
  <2>5. receive_datagram_bytes_remaining' = 0 /\ handled' = receive_buffer'
    BY <1>1, <2>4
  <2> QED
    BY <1>2, <1>3, <1>5, <2>1, <2>2, <2>3, <2>5, TransportAssumption
       DEF ReceptionCounted
<1> QED
  BY <1>2, <1>4, <1>5, TransportAssumption

LEMMA ReceiveInvStep == ReceiveInv /\ [Next]_vars => ReceiveInv'
<1> SUFFICES ASSUME ReceiveInv, [Next]_vars PROVE ReceptionCounted'
  BY SendInvStep DEF ReceiveInv
<1>1. CASE CharacterReceived
  <2>1. PICK data_byte \in Heard \cup {tx_byte}, command_bit \in BOOLEAN :
          seatalk_byte_received(data_byte, command_bit)
    BY <1>1 DEF CharacterReceived
  <2>2. data_byte \in Byte
    BY TransportAssumption DEF ReceiveInv, SendInv, TypeOK
  <2>3. CASE Collision(data_byte)
    <3>1. UNCHANGED receiveVars /\ handled' = <<>>
      BY <2>1, <2>3 DEF seatalk_byte_received
    <3> QED
      BY <3>1 DEF ReceiveInv, ReceptionCounted, receiveVars
  <2>4. CASE ~Collision(data_byte)
    <3>1. Assemble(data_byte, command_bit)
      BY <2>1, <2>4 DEF seatalk_byte_received
    <3> QED
      BY <2>2, <3>1, ReceptionCountedAssemble DEF ReceiveInv
  <2> QED
    BY <2>3, <2>4
<1>2. CASE FramingError
  <2>1. UNCHANGED receiveVars /\ handled' = <<>>
    BY <1>2 DEF FramingError
  <2> QED
    BY <2>1 DEF ReceiveInv, ReceptionCounted, receiveVars
<1>3. CASE UNCHANGED <<receiveVars, handled>>
  BY <1>3 DEF ReceiveInv, ReceptionCounted, receiveVars
<1> QED
  BY <1>1, <1>2, <1>3
     DEF Next, Receive, Transmit, Wake, initiate_seatalk_receive_character,
         StartCharacter, CharacterSent, HostUpdate, WakeTest, WakeCancel,
         WakeStart, DataExpires, vars

\* However receptions, command bits, collisions and lost characters follow one
\* another, the count of bytes still to come is what the length nibble asks for,
\* and a datagram passed to the protocol has all the bytes it announces.
THEOREM ReceptionCountedHolds == Spec => []ReceptionCounted
<1>1. Init => ReceiveInv
  BY SendInvInit, ReceptionCountedInit DEF ReceiveInv
<1>2. ReceiveInv => ReceptionCounted
  BY DEF ReceiveInv
<1> QED
  BY <1>1, <1>2, ReceiveInvStep, PTL DEF Spec

-----------------------------------------------------------------------------
(* The bus state and the timers that leave it. *)

BusyInv == SendInv /\ BusyStateIsLeft

LEMMA BusyInvStep == BusyInv /\ [Next]_vars => BusyInv'
<1> SUFFICES ASSUME BusyInv, [Next]_vars PROVE BusyStateIsLeft'
  BY SendInvStep DEF BusyInv
<1> USE DEF BusyInv, BusyStateIsLeft
<1>1. CASE CharacterReceived
  <2>1. PICK data_byte \in Heard \cup {tx_byte}, command_bit \in BOOLEAN :
          seatalk_byte_received(data_byte, command_bit)
    BY <1>1 DEF CharacterReceived
  <2> QED
    BY <2>1 DEF seatalk_byte_received, GuardTimeFollows, Restarted
<1>2. CASE StartCharacter
  <2>1. transmit_datagram_bytes_remaining = 0 => bus_state # "TRANSMITTING"
    BY DEF SendInv, WireFollowsCursor
  <2>2. transmit_datagram_bytes_remaining \in Nat
    BY DEF SendInv, TypeOK
  <2>3. \/ transmitter' = "sending" /\ bus_state' = "TRANSMITTING"
        \/ bus_state' = BusWhenTimerFires /\ bus_state # "TRANSMITTING"
    BY <1>2, <2>1, <2>2 DEF StartCharacter, SendByteAt, seatalk_can_transmit
  <2>4. receiver' = receiver
    BY <1>2 DEF StartCharacter
  <2> QED
    BY <2>3, <2>4 DEF BusWhenTimerFires
<1>3. CASE initiate_seatalk_receive_character
  BY <1>3 DEF initiate_seatalk_receive_character
<1>4. CASE FramingError
  BY <1>4 DEF FramingError
<1>5. CASE CharacterSent \/ HostUpdate \/ DataExpires
  BY <1>5 DEF CharacterSent, HostUpdate, DataExpires
<1>6. CASE Wake
  BY <1>6 DEF Wake, WakeTest, WakeCancel, WakeStart, Restarted
<1>7. CASE UNCHANGED vars
  BY <1>7 DEF vars
<1> QED
  BY <1>1, <1>2, <1>3, <1>4, <1>5, <1>6, <1>7 DEF Next, Receive, Transmit

\* No reception, framing error or wake-up leaves the bus state busy with neither
\* the receiver nor the transmit timer running to leave it.
THEOREM BusyStateIsLeftHolds == Spec => []BusyStateIsLeft
<1>1. Init => BusyInv
  BY SendInvInit DEF Init, BusyInv, BusyStateIsLeft
<1>2. BusyInv => BusyStateIsLeft
  BY DEF BusyInv
<1> QED
  BY <1>1, <1>2, BusyInvStep, PTL DEF Spec

-----------------------------------------------------------------------------
(* Announced data and the timer.  PendingDataHasTimer is inductive but for  *)
(* framing errors, the one way back to an idle bus without the guard time. *)

LEMMA PendingDataHasTimerStep ==
  ASSUME FramingErrors = FALSE
  PROVE  PendingDataHasTimer /\ [Next]_vars => PendingDataHasTimer'
<1> SUFFICES ASSUME PendingDataHasTimer, [Next]_vars,
                    data_pending', bus_state' = "IDLE", host' = "running"
             PROVE  transmitter' # "off"
  BY DEF PendingDataHasTimer
<1>1. CASE Receive \/ initiate_seatalk_receive_character
  BY <1>1 DEF Receive, CharacterReceived, seatalk_byte_received, FramingError,
              initiate_seatalk_receive_character
<1>2. CASE StartCharacter
  BY <1>2 DEF StartCharacter, SendByteAt, seatalk_can_transmit
<1>3. CASE CharacterSent \/ HostUpdate \/ DataExpires
  BY <1>3 DEF CharacterSent, HostUpdate, DataExpires, PendingDataHasTimer
<1>4. CASE Wake
  BY <1>4 DEF Wake, WakeTest, WakeCancel, WakeStart, Restarted
<1>5. CASE UNCHANGED vars
  BY <1>5 DEF vars, PendingDataHasTimer
<1> QED
  BY <1>1, <1>2, <1>3, <1>4, <1>5 DEF Next, Transmit

\* Without framing errors an idle bus with announced data has its transmit timer
\* running: whatever it had to wait for, the wake-up is not lost.
THEOREM PendingDataHasTimerIfClean ==
  ASSUME FramingErrors = FALSE
  PROVE  Spec => []PendingDataHasTimer
<1>1. Init => PendingDataHasTimer
  BY DEF Init, PendingDataHasTimer
<1> QED
  BY <1>1, PendingDataHasTimerStep, PTL DEF Spec

-----------------------------------------------------------------------------
(* The transmit side implements StopAndWait. *)

Wire == IF bus_state = "TRANSMITTING" THEN <<tx_byte, tx_command_bit>> ELSE <<>>

LEMMA PairNotEmpty == ASSUME NEW a, NEW b PROVE <<a, b>> # <<>>
  OBVIOUS

\* What the end of a reception is for the abstract sender.
LEMMA DeliveryReceived ==
  ASSUME SendInv, NEW data_byte, NEW command_bit,
         seatalk_byte_received(data_byte, command_bit)
  PROVE  [Delivery!Next]_(Delivery!vars)
<1>1. transmit_buffer' = transmit_buffer /\ bus_state' = "WAIT_FOR_IDLE"
  BY DEF seatalk_byte_received, cancel_datagram, seatalk_byte_transmitted, cursorVars
<1>2. Wire' = <<>>
  BY <1>1 DEF Wire
<1>3. CASE bus_state # "TRANSMITTING"
  <2>1. UNCHANGED cursorVars
    BY <1>3 DEF seatalk_byte_received, Collision
  <2>2. Wire = <<>>
    BY <1>3 DEF Wire
  <2> QED
    BY <1>2, <2>1, <2>2 DEF Wire, Delivery!vars, cursorVars
<1>4. CASE bus_state = "TRANSMITTING"
  <2>1. Wire # <<>>
    BY <1>4, PairNotEmpty DEF Wire
  <2>2. CASE Collision(data_byte)
    <3>1. transmit_buffer_position' = Len(transmit_buffer)
      BY <2>2 DEF seatalk_byte_received, cancel_datagram, SendInv, WireFollowsCursor
    <3> QED
      BY <1>1, <1>2, <2>1, <3>1 DEF Wire, Delivery!Next, Delivery!GiveUp
  <2>3. CASE ~Collision(data_byte)
    <3>1. transmit_buffer_position' = transmit_buffer_position + 1
      BY <1>4, <2>3 DEF seatalk_byte_received, seatalk_byte_transmitted
    <3> QED
      BY <1>1, <1>2, <2>1, <3>1 DEF Wire, Delivery!Next, Delivery!Confirm
  <2> QED
    BY <2>2, <2>3
<1> QED
  BY <1>3, <1>4

\* What the tx timer between two characters is for the abstract sender.
LEMMA DeliveryStart ==
  ASSUME SendInv, StartCharacter
  PROVE  [Delivery!Next]_(Delivery!vars)
<1> USE DEF SendInv, TypeOK
<1>1. CASE /\ ~seatalk_can_transmit
           /\ bus_state' = BusWhenTimerFires
           /\ UNCHANGED <<wireVars, cursorVars>>
  <2>1. (bus_state = "TRANSMITTING") = (bus_state' = "TRANSMITTING")
    BY <1>1 DEF BusWhenTimerFires
  <2>2. Wire' = Wire
    BY <1>1, <2>1 DEF Wire, wireVars
  <2> QED
    BY <1>1, <2>2 DEF Wire, Delivery!vars, cursorVars
<1>2. CASE /\ transmit_datagram_bytes_remaining > 0
           /\ SendByteAt(transmit_buffer, transmit_buffer_position)
           /\ UNCHANGED cursorVars
  <2>1. transmit_buffer_position < Len(transmit_buffer)
    BY <1>2 DEF WireFollowsCursor
  <2>2. Wire' = Delivery!Character(transmit_buffer, transmit_buffer_position)
    BY <1>2 DEF Wire, SendByteAt, Delivery!Character
  <2> QED
    BY <1>2, <2>1, <2>2 DEF Wire, Delivery!Next, Delivery!Send, cursorVars
<1>3. ASSUME NEW datagram \in Datagrams,
             transmit_datagram_bytes_remaining = 0,
             transmit_buffer' = datagram,
             transmit_buffer_position' = 0,
             \/ datagram # <<>> /\ SendByteAt(datagram, 0)
             \/ datagram = <<>> /\ bus_state' = BusWhenTimerFires
      PROVE  Delivery!Begin
  <2>1. transmit_buffer_position = Len(transmit_buffer) /\ bus_state # "TRANSMITTING"
    BY <1>3 DEF WireFollowsCursor
  <2>2. CASE datagram # <<>>
    <3>1. SendByteAt(datagram, 0)
      BY <1>3, <2>2, Zenon
    <3>2. Wire' = Delivery!Character(datagram, 0)
      BY <3>1 DEF Wire, SendByteAt, Delivery!Character
    <3> QED
      BY <1>3, <2>1, <2>2, <3>2, Zenon DEF Wire, Delivery!Begin
  <2>3. CASE datagram = <<>>
    <3>1. bus_state' # "TRANSMITTING"
      BY <1>3, <2>1, <2>3 DEF BusWhenTimerFires
    <3>2. Wire' = <<>>
      BY <3>1 DEF Wire
    <3> QED
      BY <1>3, <2>1, <2>3, <3>2, Zenon DEF Wire, Delivery!Begin
  <2> QED
    BY <2>2, <2>3
<1> QED
  BY <1>1, <1>2, <1>3 DEF StartCharacter, Delivery!Next

LEMMA DeliveryStep == SendInv /\ [Next]_vars => [Delivery!Next]_(Delivery!vars)
<1> SUFFICES ASSUME SendInv, [Next]_vars PROVE [Delivery!Next]_(Delivery!vars)
  OBVIOUS
<1>1. CASE CharacterReceived
  BY <1>1, DeliveryReceived DEF CharacterReceived
<1>2. CASE StartCharacter
  BY <1>2, DeliveryStart
<1>3. CASE FramingError
  <2>1. UNCHANGED cursorVars /\ Wire' = <<>>
    BY <1>3 DEF FramingError, Wire
  <2>2. CASE Wire = <<>>
    BY <2>1, <2>2 DEF Wire, Delivery!vars, cursorVars
  <2>3. CASE Wire # <<>>
    BY <2>1, <2>3 DEF Wire, Delivery!Next, Delivery!Lose, cursorVars
  <2> QED
    BY <2>2, <2>3
<1>4. CASE initiate_seatalk_receive_character
  <2>1. UNCHANGED <<cursorVars, wireVars>>
    BY <1>4 DEF initiate_seatalk_receive_character
  <2>2. (bus_state = "TRANSMITTING") = (bus_state' = "TRANSMITTING")
    BY <1>4 DEF initiate_seatalk_receive_character
  <2> QED
    BY <2>1, <2>2 DEF cursorVars, wireVars, Delivery!vars
<1>5. CASE UNCHANGED <<bus_state, cursorVars, wireVars>>
  BY <1>5 DEF cursorVars, wireVars, Delivery!vars
<1> QED
  BY <1>1, <1>2, <1>3, <1>4, <1>5
     DEF Next, Receive, Transmit, Wake, CharacterSent, HostUpdate, WakeTest,
         WakeCancel, WakeStart, DataExpires, vars

\* Datagrams go out a byte at a time, each byte until its echo has come back,
\* under any noise, collision, framing error, wake-up and expiry.
THEOREM TransportImplementsStopAndWait == Spec => ImplementsStopAndWait
<1>1. Init => Delivery!Init
  BY DEF Init, Delivery!Init
<1>2. Spec => []SendInv
  BY SendInvInit, SendInvStep, PTL DEF Spec
<1> QED
  BY <1>1, <1>2, DeliveryStep, PTL DEF Spec, ImplementsStopAndWait, Delivery!Spec

=============================================================================
