------------------------- MODULE SeatalkStreamProofs -------------------------
(***************************************************************************)
(* Proofs about SeatalkStream: whatever noise, collisions and half         *)
(* datagrams the line has carried, a datagram that is then heard clearly   *)
(* is assembled and handled as it was sent.  For every width of a byte,    *)
(* all datagrams of both senders, and with any noise and framing errors.   *)
(***************************************************************************)
EXTENDS SeatalkStream, SeatalkTransportProofs

\* What is loaded was built by the driver.
Loaded == transmit_buffer \in Datagrams \cup {<<>>}

StreamInv == ReceiveInv /\ StreamTypeOK /\ Loaded /\ ClearIsHandled

LEMMA SenderCases ==
  /\ Sender = {"driver", "talker"}
  /\ Datagram("driver") = transmit_buffer /\ Said("driver") = transmit_buffer_position
  /\ Datagram("talker") = talk /\ Said("talker") = said
  /\ Character("driver") = <<tx_byte, tx_command_bit>>
  /\ Character("talker") = <<talk[said + 1], said = 0>>
  /\ "driver" \in OnLine <=> bus_state = "TRANSMITTING"
  /\ "talker" \in OnLine <=> theirs
  BY DEF Sender, Datagram, Said, Character, OnLine

\* A byte is appended to the beginning of the datagram that it belongs to.
LEMMA PrefixGrows ==
  ASSUME NEW d \in Seq(Byte), NEW n \in Nat, n < Len(d)
  PROVE  /\ Append(SubSeq(d, 1, n), d[n + 1]) = SubSeq(d, 1, n + 1)
         /\ SubSeq(d, 1, Len(d)) = d
         /\ Len(SubSeq(d, 1, n)) = n
         /\ \A i \in 1 .. n : SubSeq(d, 1, n)[i] = d[i]
         /\ SubSeq(d, 1, 0) = <<>>
  OBVIOUS

LEMMA HearableType ==
  ASSUME NEW character \in Hearable
  PROVE  character[1] \in Byte /\ character[2] \in BOOLEAN
<1> DEFINE byte == {bit \in BitNumber : \A s \in OnLine : bit \in Character(s)[1]}
           flag == \A s \in OnLine : Character(s)[2]
<1>1. CASE character \in Joined
  <2>1. character = <<byte, flag>>
    BY <1>1 DEF Joined
  <2>2. byte \in Byte
    BY DEF Byte
  <2>3. flag \in BOOLEAN
    OBVIOUS
  <2> HIDE DEF byte, flag
  <2> QED
    BY <2>1, <2>2, <2>3
<1>2. CASE character \in Heard \X BOOLEAN
  BY <1>2, TransportAssumption
<1> QED
  BY <1>1, <1>2 DEF Hearable

\* The sender of a character that is on the line has a byte left to send, and it
\* is that byte, flagged as a command if it is the first.
LEMMA OnLineFacts ==
  ASSUME StreamInv, NEW s \in OnLine
  PROVE  /\ s \in Sender
         /\ Datagram(s) \in Seq(Byte) /\ Said(s) \in Nat
         /\ Said(s) < Len(Datagram(s))
         /\ Character(s) = <<Datagram(s)[Said(s) + 1], Said(s) = 0>>
         /\ Len(Datagram(s)) = 3 + get_datagram_length(Datagram(s)[2])
<1>1. s \in Sender
  BY DEF OnLine
<1>2. CASE s = "driver"
  <2>1. bus_state = "TRANSMITTING"
    BY <1>2 DEF OnLine
  <2>2. /\ transmit_datagram_bytes_remaining > 0
        /\ tx_byte = transmit_buffer[transmit_buffer_position + 1]
        /\ tx_command_bit = (transmit_buffer_position = 0)
        /\ transmit_buffer_position + transmit_datagram_bytes_remaining = Len(transmit_buffer)
    BY <2>1 DEF StreamInv, ReceiveInv, SendInv, WireFollowsCursor
  <2>3. /\ transmit_buffer \in Seq(Byte) /\ transmit_buffer_position \in Nat
        /\ transmit_datagram_bytes_remaining \in Nat
    BY DEF StreamInv, ReceiveInv, SendInv, TypeOK
  <2>4. transmit_buffer_position < Len(transmit_buffer)
    BY <2>2, <2>3
  <2>5. transmit_buffer # <<>>
    BY <2>3, <2>4
  <2>6. Len(transmit_buffer) = 3 + get_datagram_length(transmit_buffer[2])
    BY <2>5, StreamAssumption DEF StreamInv, Loaded
  <2> QED
    BY <1>1, <1>2, <2>2, <2>3, <2>4, <2>6, SenderCases
<1>3. CASE s = "talker"
  <2>1. theirs
    BY <1>3 DEF OnLine
  <2>2. talk \in TalkerDatagrams /\ said \in Nat /\ said < Len(talk)
    BY <2>1 DEF StreamInv, StreamTypeOK
  <2>3. talk \in Seq(Byte) /\ Len(talk) = 3 + get_datagram_length(talk[2])
    BY <2>2, StreamAssumption
  <2> QED
    BY <1>1, <1>3, <2>2, <2>3, SenderCases
<1> QED
  BY <1>1, <1>2, <1>3 DEF Sender

-----------------------------------------------------------------------------
(* The end of a character *)

\* The datagrams stay, and the senders of the character are one byte further,
\* unless the driver gave up.
LEMMA HeardProgress ==
  ASSUME StreamInv, NEW character \in Hearable,
         seatalk_byte_received(character[1], character[2]), TalkerGoesOn,
         ~Collision(character[1])
  PROVE  \A s \in OnLine :
           Datagram(s)' = Datagram(s) /\ Said(s)' = Said(s) + 1
<1>1. ASSUME "driver" \in OnLine
      PROVE  /\ transmit_buffer' = transmit_buffer
             /\ transmit_buffer_position' = transmit_buffer_position + 1
  <2>1. bus_state = "TRANSMITTING"
    BY <1>1 DEF OnLine
  <2> QED
    BY <2>1 DEF seatalk_byte_received, seatalk_byte_transmitted
<1>2. ASSUME "talker" \in OnLine
      PROVE  talk' = talk /\ said' = said + 1
  BY <1>2 DEF OnLine, TalkerGoesOn
<1>3. \A s \in OnLine : s = "driver" \/ s = "talker"
  BY DEF OnLine, Sender
<1> QED
  BY <1>1, <1>2, <1>3 DEF Datagram, Said

\* A character that is heard clearly, the first of its datagram or the next.
LEMMA ClearCharacter ==
  ASSUME StreamInv, NEW character \in Hearable,
         seatalk_byte_received(character[1], character[2]), TalkerGoesOn,
         NEW s \in Sender, IntactAfter(s, character) = "clear"
  PROVE  /\ receive_buffer' = SubSeq(Datagram(s)', 1, Said(s)')
         /\ handled' = IF Said(s)' = Len(Datagram(s)') THEN Datagram(s)' ELSE <<>>
<1> DEFINE d == Datagram(s)
           n == Said(s)
<1>1. /\ s \in OnLine /\ Character(s) = character
      /\ \A t \in OnLine : Character(t) = character
      /\ ~character[2] => intact[s] = "clear"
  <2>1. intact[s] \in {"clear", "contested", "lost"}
    BY DEF StreamInv, StreamTypeOK
  <2> QED
    BY <2>1 DEF IntactAfter
<1>2. /\ d \in Seq(Byte) /\ n \in Nat /\ n < Len(d)
      /\ character = <<d[n + 1], n = 0>>
      /\ Len(d) = 3 + get_datagram_length(d[2])
  BY <1>1, OnLineFacts
<1>3. character[1] = d[n + 1] /\ character[1] \in Byte /\ character[2] = (n = 0)
  BY <1>2
<1>4. ~Collision(character[1])
  <2>1. bus_state = "TRANSMITTING" => Character("driver") = character
    BY <1>1, SenderCases
  <2> QED
    BY <2>1, SenderCases DEF Collision
<1>5. Datagram(s)' = d /\ Said(s)' = n + 1
  BY <1>1, <1>4, HeardProgress
<1>6. Assemble(character[1], character[2])
  BY <1>4 DEF seatalk_byte_received
<1>7. get_datagram_length(d[2]) \in 0 .. 15
  BY LengthIsNibble
<1>8. Len(d) <= ReceiveBufferSize /\ ReceiveBufferSize \in Nat
  <2>1. d[2] \in Byte
    BY <1>2, <1>7
  <2> QED
    BY <1>2, <2>1, TransportAssumption
<1> HIDE DEF d, n
<1>9. CASE n = 0
  <2>1. character[2] = TRUE
    BY <1>3, <1>9
  <2>2. receive_buffer' = Store(<<>>, character[1])
    BY <1>6, <2>1 DEF Assemble
  <2>3. handled' = <<>>
    BY <1>6, <2>1 DEF Assemble, BytesBefore
  <2>4. Store(<<>>, character[1]) = Append(SubSeq(d, 1, 0), d[1])
    BY <1>2, <1>3, <1>7, <1>8, <1>9, PrefixGrows DEF Store
  <2>5. receive_buffer' = SubSeq(d, 1, 1)
    BY <1>2, <1>9, <2>2, <2>4, PrefixGrows
  <2>6. Len(d) # 1
    BY <1>2, <1>7
  <2> QED
    BY <1>5, <1>9, <2>3, <2>5, <2>6
<1>10. CASE n # 0
  <2>1. character[2] = FALSE /\ intact[s] = "clear"
    BY <1>1, <1>3, <1>10
  <2>2. receive_buffer = SubSeq(d, 1, n)
    BY <2>1 DEF StreamInv, ClearIsHandled, d, n
  <2>3. Len(receive_buffer) = n /\ \A i \in 1 .. n : receive_buffer[i] = d[i]
    BY <1>2, <2>2, PrefixGrows
  <2>4. receive_buffer' = Store(receive_buffer, character[1])
    BY <1>6, <2>1 DEF Assemble
  <2>5. receive_buffer' = Append(receive_buffer, d[n + 1])
    BY <1>2, <1>3, <1>8, <2>3, <2>4 DEF Store
  <2>6. receive_buffer' = SubSeq(d, 1, n + 1)
    BY <1>2, <2>2, <2>5, PrefixGrows
  <2>7. handled' = IF receive_datagram_bytes_remaining = 0
                   THEN receive_buffer' ELSE <<>>
    BY <1>6, <2>1 DEF Assemble, BytesBefore
  <2>8. (receive_datagram_bytes_remaining = 0) <=> (n + 1 = Len(d))
    <3>1. ReceptionCounted
      BY DEF StreamInv, ReceiveInv
    <3>2. CASE n = 1
      BY <1>2, <1>7, <2>3, <3>1, <3>2 DEF ReceptionCounted
    <3>3. CASE n >= 2
      <4>1. receive_buffer[2] = d[2]
        BY <1>2, <2>3, <3>3
      <4>2. get_datagram_length(receive_buffer[2]) = get_datagram_length(d[2])
        BY <4>1
      <4> DEFINE announced == 2 + get_datagram_length(d[2])
      <4>3. announced \in Nat /\ Len(d) = announced + 1
        BY <1>2, <1>7
      <4>4. receive_datagram_bytes_remaining =
              IF n >= announced THEN 0 ELSE announced - n
        BY <2>3, <3>1, <3>3, <4>2, Zenon DEF ReceptionCounted
      <4> HIDE DEF announced
      <4> QED
        BY <1>2, <4>3, <4>4
    <3> QED
      BY <1>2, <1>10, <3>2, <3>3
  <2>9. n + 1 = Len(d) => receive_buffer' = d
    BY <1>2, <2>6, PrefixGrows
  <2> QED
    BY <1>5, <2>6, <2>7, <2>8, <2>9
<1> QED
  BY <1>9, <1>10

-----------------------------------------------------------------------------
(* The invariant *)

LEMMA StreamInvInit == StreamInit => StreamInv
<1> SUFFICES ASSUME StreamInit PROVE StreamInv
  OBVIOUS
<1>1. ReceiveInv
  BY SendInvInit, ReceptionCountedInit DEF StreamInit, ReceiveInv
<1>2. StreamTypeOK
  <2>1. TypeOK
    BY <1>1 DEF ReceiveInv, SendInv
  <2> QED
    BY <2>1 DEF StreamInit, StreamTypeOK, Sender
<1>3. Loaded
  BY DEF StreamInit, Init, Loaded
<1>4. ClearIsHandled
  BY DEF StreamInit, ClearIsHandled
<1> QED
  BY <1>1, <1>2, <1>3, <1>4 DEF StreamInv

\* What the layer is in keeps its invariant: every step is one of
\* SeatalkTransport, or leaves it alone, or hears one of the two senders.
LEMMA ReceiveInvStreamStep ==
  ASSUME StreamInv, [StreamNext]_allVars
  PROVE  ReceiveInv'
<1>1. ReceiveInv
  BY DEF StreamInv
<1>2. CASE TalkerSpeaks \/ UNCHANGED allVars
  <2>1. UNCHANGED vars
    BY <1>2 DEF TalkerSpeaks, allVars
  <2> QED
    BY <1>1, <2>1, ReceiveInvStep
<1>3. CASE DriverSpeaks \/ LineFalls \/ LineGarbled \/ Host
  <2>1. Next
    BY <1>3 DEF DriverSpeaks, LineFalls, LineGarbled, Host, Next, Receive, Transmit
  <2> QED
    BY <1>1, <2>1, ReceiveInvStep
<1>4. CASE LineHeard
  <2>1. PICK character \in Hearable :
          seatalk_byte_received(character[1], character[2])
    BY <1>4 DEF LineHeard
  <2>2. character[1] \in Byte /\ character[2] \in BOOLEAN
    BY HearableType
  <2>3. SendInv'
    BY <1>1, <2>1, <2>2, SendInvReceived DEF ReceiveInv
  <2>4. ReceptionCounted'
    <3>1. CASE Collision(character[1])
      <4>1. UNCHANGED receiveVars /\ handled' = <<>>
        BY <2>1, <3>1 DEF seatalk_byte_received
      <4> QED
        BY <1>1, <4>1 DEF ReceiveInv, ReceptionCounted, receiveVars
    <3>2. CASE ~Collision(character[1])
      <4>1. Assemble(character[1], character[2])
        BY <2>1, <3>2 DEF seatalk_byte_received
      <4> QED
        BY <1>1, <2>2, <4>1, ReceptionCountedAssemble DEF ReceiveInv
    <3> QED
      BY <3>1, <3>2
  <2> QED
    BY <2>3, <2>4 DEF ReceiveInv
<1> QED
  BY <1>2, <1>3, <1>4 DEF StreamNext

LEMMA LoadedStep ==
  ASSUME StreamInv, [StreamNext]_allVars
  PROVE  Loaded'
<1>1. CASE DriverSpeaks
  BY <1>1 DEF DriverSpeaks, StartCharacter, StreamInv, Loaded, cursorVars
<1>2. CASE LineHeard
  <2>1. transmit_buffer' = transmit_buffer
    BY <1>2 DEF LineHeard, seatalk_byte_received, cancel_datagram,
                seatalk_byte_transmitted, cursorVars
  <2> QED
    BY <2>1 DEF StreamInv, Loaded
<1>3. CASE UNCHANGED transmit_buffer
  BY <1>3 DEF StreamInv, Loaded
<1> QED
  BY <1>1, <1>2, <1>3
     DEF StreamNext, TalkerSpeaks, LineFalls, LineGarbled, Host, CharacterSent,
         HostUpdate, Wake, WakeTest, WakeCancel, WakeStart, DataExpires,
         initiate_seatalk_receive_character, FramingError, cursorVars, vars, allVars

LEMMA StreamTypeStep ==
  ASSUME StreamInv, [StreamNext]_allVars
  PROVE  StreamTypeOK'
<1>0. TypeOK'
  BY ReceiveInvStreamStep DEF ReceiveInv, SendInv
<1> USE DEF StreamInv, StreamTypeOK, Sender
<1>1. \A datagram \in TalkerDatagrams : Len(datagram) \in Nat /\ Len(datagram) >= 3
  BY StreamAssumption
<1>2. CASE TalkerSpeaks
  BY <1>0, <1>1, <1>2 DEF TalkerSpeaks
<1>3. CASE DriverSpeaks
  BY <1>0, <1>3 DEF DriverSpeaks
<1>4. TalkerGoesOn => /\ talk' \in TalkerDatagrams
                      /\ said' \in 0 .. Len(talk')
                      /\ theirs' = FALSE
  <2>1. talk \in TalkerDatagrams /\ said \in 0 .. Len(talk) /\ Len(talk) \in Nat
    BY <1>1
  <2>2. theirs => said + 1 \in 0 .. Len(talk)
    BY <2>1
  <2> QED
    BY <2>1, <2>2 DEF TalkerGoesOn
<1>5. CASE LineHeard
  <2>1. intact' \in [Sender -> {"clear", "contested", "lost"}]
    BY <1>5 DEF LineHeard, IntactAfter
  <2> QED
    BY <1>0, <1>5, <1>4, <2>1 DEF LineHeard
<1>6. CASE LineGarbled
  BY <1>0, <1>6, <1>4 DEF LineGarbled
<1>7. CASE UNCHANGED streamVars
  BY <1>0, <1>7 DEF streamVars
<1> QED
  BY <1>2, <1>3, <1>5, <1>6, <1>7 DEF StreamNext, LineFalls, Host, allVars

LEMMA ClearStep ==
  ASSUME StreamInv, [StreamNext]_allVars
  PROVE  ClearIsHandled'
<1>1. CASE LineHeard
  <2>1. PICK character \in Hearable :
          /\ seatalk_byte_received(character[1], character[2])
          /\ intact' = [s \in Sender |-> IntactAfter(s, character)]
    BY <1>1 DEF LineHeard
  <2>2. TalkerGoesOn
    BY <1>1 DEF LineHeard
  <2> SUFFICES ASSUME NEW s \in Sender, intact'[s] = "clear"
               PROVE  /\ receive_buffer' = SubSeq(Datagram(s)', 1, Said(s)')
                      /\ handled' = IF Said(s)' = Len(Datagram(s)')
                                    THEN Datagram(s)' ELSE <<>>
    BY DEF ClearIsHandled
  <2>3. IntactAfter(s, character) = "clear"
    BY <2>1
  <2> QED
    BY <2>1, <2>2, <2>3, ClearCharacter
<1>2. CASE LineGarbled
  BY <1>2 DEF LineGarbled, ClearIsHandled
<1>3. ASSUME UNCHANGED <<receive_buffer, handled>>,
             \A s \in Sender : intact'[s] = "clear" =>
               intact[s] = "clear" /\ Datagram(s)' = Datagram(s) /\ Said(s)' = Said(s)
      PROVE  ClearIsHandled'
  BY <1>3 DEF StreamInv, ClearIsHandled
<1>4. intact \in [Sender -> {"clear", "contested", "lost"}]
  BY DEF StreamInv, StreamTypeOK
<1>5. CASE TalkerSpeaks
  <2>1. UNCHANGED <<receive_buffer, handled>>
    BY <1>5 DEF TalkerSpeaks, vars, receiveVars
  <2>2. UNCHANGED <<transmit_buffer, transmit_buffer_position>>
    BY <1>5 DEF TalkerSpeaks, vars, cursorVars
  <2>3. \/ UNCHANGED <<talk, said, intact>>
        \/ intact' = [intact EXCEPT !["talker"] = "lost"]
    BY <1>5 DEF TalkerSpeaks
  <2>4. \A s \in Sender : intact'[s] = "clear" =>
          intact[s] = "clear" /\ Datagram(s)' = Datagram(s) /\ Said(s)' = Said(s)
    BY <1>4, <2>2, <2>3 DEF Sender, Datagram, Said
  <2> QED
    BY <1>3, <2>1, <2>4
<1>6. CASE DriverSpeaks
  <2>1. UNCHANGED <<receive_buffer, handled, talk, said>>
    BY <1>6 DEF DriverSpeaks, StartCharacter, receiveVars
  <2>2. transmit_datagram_bytes_remaining # 0 =>
          UNCHANGED <<transmit_buffer, transmit_buffer_position>>
    BY <1>6 DEF DriverSpeaks, StartCharacter, cursorVars
  <2>3. intact' = IF transmit_datagram_bytes_remaining = 0
                  THEN [intact EXCEPT !["driver"] = "lost"] ELSE intact
    BY <1>6 DEF DriverSpeaks
  <2>4. \A s \in Sender : intact'[s] = "clear" =>
          intact[s] = "clear" /\ Datagram(s)' = Datagram(s) /\ Said(s)' = Said(s)
    BY <1>4, <2>1, <2>2, <2>3 DEF Sender, Datagram, Said
  <2> QED
    BY <1>3, <2>1, <2>4
<1>7. CASE LineFalls \/ Host \/ UNCHANGED allVars
  <2>1. UNCHANGED <<receive_buffer, handled, transmit_buffer, transmit_buffer_position>>
    BY <1>7 DEF LineFalls, Host, initiate_seatalk_receive_character, CharacterSent,
                HostUpdate, Wake, WakeTest, WakeCancel, WakeStart, DataExpires,
                receiveVars, cursorVars, vars, allVars
  <2>2. UNCHANGED <<talk, said, intact>>
    BY <1>7 DEF LineFalls, Host, streamVars, allVars
  <2> QED
    BY <1>3, <2>1, <2>2 DEF Datagram, Said
<1> QED
  BY <1>1, <1>2, <1>5, <1>6, <1>7 DEF StreamNext

LEMMA StreamInvStep == StreamInv /\ [StreamNext]_allVars => StreamInv'
  BY ReceiveInvStreamStep, LoadedStep, StreamTypeStep, ClearStep DEF StreamInv

\* The layer keeps its types, and the talker is never past the end of its
\* datagram, whatever the two do to each other.
THEOREM StreamTypeCorrect == StreamSpec => []StreamTypeOK
<1>1. StreamInv => StreamTypeOK
  BY DEF StreamInv
<1> QED
  BY <1>1, StreamInvInit, StreamInvStep, PTL DEF StreamSpec

\* A datagram heard clearly from its first byte is assembled as it was sent and
\* handled with its last byte, after any noise, collision, framing error and
\* half datagram, and for datagrams of any length.
THEOREM ClearIsHandledHolds == StreamSpec => []ClearIsHandled
<1>1. StreamInv => ClearIsHandled
  BY DEF StreamInv
<1> QED
  BY <1>1, StreamInvInit, StreamInvStep, PTL DEF StreamSpec

-----------------------------------------------------------------------------
(* The timer of announced data.  The property is inductive: a timer stops   *)
(* with nothing to send, or in the hands of the host.                       *)

LEMMA DataHasTimerStep ==
  ASSUME DataHasTimer, [StreamNext]_allVars
  PROVE  DataHasTimer'
<1> USE DEF DataHasTimer, PendingDataHasTimer
<1>1. CASE LineHeard
  <2>1. bus_state' = "WAIT_FOR_IDLE"
    BY <1>1 DEF LineHeard, seatalk_byte_received
  <2> QED
    BY <2>1
<1>2. CASE LineGarbled
  BY <1>2 DEF LineGarbled
<1>3. CASE LineFalls
  BY <1>3 DEF LineFalls, initiate_seatalk_receive_character, streamVars
<1>4. CASE DriverSpeaks
  <2>1. \/ data_pending' = FALSE
        \/ bus_state' = "TRANSMITTING"
        \/ ~data_pending /\ UNCHANGED data_pending
    BY <1>4 DEF DriverSpeaks, StartCharacter, SendByteAt, seatalk_can_transmit
  <2> QED
    BY <2>1
<1>5. CASE CharacterSent /\ UNCHANGED streamVars
  BY <1>5 DEF CharacterSent, streamVars
<1>6. CASE (HostUpdate \/ DataExpires) /\ UNCHANGED streamVars
  BY <1>6 DEF HostUpdate, DataExpires, streamVars
<1>7. CASE Wake /\ UNCHANGED streamVars
  BY <1>7 DEF Wake, WakeTest, WakeCancel, WakeStart, Restarted, streamVars
<1>8. CASE TalkerSpeaks
  BY <1>8 DEF TalkerSpeaks, vars
<1>9. CASE UNCHANGED allVars
  BY <1>9 DEF allVars, vars, streamVars
<1> QED
  BY <1>1, <1>2, <1>3, <1>4, <1>5, <1>6, <1>7, <1>8, <1>9 DEF StreamNext, Host

\* Between a host that announces data at any moment and receptions that end at
\* any moment, no data is left on an idle bus with the transmit timer stopped,
\* unless the last character had its stop bit low.
THEOREM DataHasTimerHolds == StreamSpec => []DataHasTimer
<1>1. StreamInit => DataHasTimer
  BY DEF StreamInit, Init, DataHasTimer, PendingDataHasTimer
<1> QED
  BY <1>1, DataHasTimerStep, PTL DEF StreamSpec

=============================================================================
