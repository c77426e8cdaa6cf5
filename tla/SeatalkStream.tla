---------------------------- MODULE SeatalkStream ----------------------------
(***************************************************************************)
(* The transport layer on a line with another talker, which sends          *)
(* datagrams of its own at any time: what the layer makes of the stream of *)
(* characters.  The characters that SeatalkTransport lets be anything are  *)
(* here those of the two senders, or both joined: the line is low when one *)
(* of them pulls it low, and a byte heard is what the bytes sent have in   *)
(* common.                                                                 *)
(***************************************************************************)
EXTENDS SeatalkTransport

CONSTANT TalkerDatagrams    \* what the other talker sends

ASSUME StreamAssumption ==
  /\ TalkerDatagrams \subseteq Seq(Byte)
  /\ \A datagram \in TalkerDatagrams \cup (Datagrams \ {<<>>}) :
       /\ Len(datagram) >= 3
       /\ Len(datagram) = 3 + get_datagram_length(datagram[2])

VARIABLES
  talk,       \* the datagram of the talker
  said,       \* how many of its bytes have been on the line
  theirs,     \* whether the next one is on the line
  intact,     \* how each sender's datagram has been heard so far: "clear";
              \* "contested", as it was sent but while the other sent something
              \* else; or "lost"
  garbled     \* whether the last character had its stop bit low

streamVars == <<talk, said, theirs, intact, garbled>>
allVars == <<vars, streamVars>>

Sender == {"driver", "talker"}

\* The senders with a character on the line, and that character.
OnLine == {s \in Sender : IF s = "driver" THEN bus_state = "TRANSMITTING" ELSE theirs}

Character(s) ==
  IF s = "driver" THEN <<tx_byte, tx_command_bit>> ELSE <<talk[said + 1], said = 0>>

\* The datagram a sender is in and the number of its bytes that are through.
Datagram(s) == IF s = "driver" THEN transmit_buffer ELSE talk
Said(s) == IF s = "driver" THEN transmit_buffer_position ELSE said

\* The driver is started at any time, also in the middle of a datagram.
StreamInit ==
  /\ Init
  /\ talk \in TalkerDatagrams
  /\ said \in 0 .. Len(talk)
  /\ theirs = FALSE
  /\ intact = [s \in Sender |-> "lost"]
  /\ garbled = FALSE

-----------------------------------------------------------------------------

\* The talker sends its next byte, or breaks off and begins another datagram.
TalkerSpeaks ==
  /\ ~theirs /\ theirs' = TRUE
  /\ \/ /\ said < Len(talk)
        /\ UNCHANGED <<talk, said, intact>>
     \/ /\ talk' \in TalkerDatagrams
        /\ said' = 0
        /\ intact' = [intact EXCEPT !["talker"] = "lost"]
  /\ UNCHANGED <<vars, garbled>>

\* The driver sends one, as soon as its timer fires.
DriverSpeaks ==
  /\ StartCharacter
  /\ intact' = IF transmit_datagram_bytes_remaining = 0
               THEN [intact EXCEPT !["driver"] = "lost"] ELSE intact
  /\ UNCHANGED <<talk, said, theirs, garbled>>

\* The line falls: a start bit, or noise where there is some.
LineFalls ==
  /\ ~receiver
  /\ OnLine # {} \/ Heard # {}
  /\ initiate_seatalk_receive_character
  /\ UNCHANGED streamVars

\* What may be heard of the characters on the line: what they have in common.
Joined ==
  IF OnLine = {} THEN {}
  ELSE { << {bit \in BitNumber : \A s \in OnLine : bit \in Character(s)[1]},
            \A s \in OnLine : Character(s)[2] >> }

\* With noise, and where two overlap out of step, anything.
Hearable == Joined \cup (Heard \X BOOLEAN)

TalkerGoesOn ==
  /\ theirs' = FALSE
  /\ said' = IF theirs THEN said + 1 ELSE said
  /\ UNCHANGED talk

\* A datagram is still intact when the character heard is the one that was sent,
\* and the first or not the first that was heard of it.
IntactAfter(s, character) ==
  CASE ~(/\ s \in OnLine /\ Character(s) = character
         /\ character[2] \/ intact[s] # "lost")              -> "lost"
    [] \/ \E t \in OnLine : Character(t) # character
       \/ ~character[2] /\ intact[s] = "contested"           -> "contested"
    [] OTHER                                                 -> "clear"

LineHeard ==
  /\ receiver
  /\ \E character \in Hearable :
       /\ seatalk_byte_received(character[1], character[2])
       /\ intact' = [s \in Sender |-> IntactAfter(s, character)]
  /\ garbled' = FALSE
  /\ TalkerGoesOn

LineGarbled ==
  /\ FramingError
  /\ intact' = [s \in Sender |-> "lost"]
  /\ garbled' = TRUE
  /\ TalkerGoesOn

Host ==
  /\ CharacterSent \/ HostUpdate \/ Wake \/ DataExpires
  /\ UNCHANGED streamVars

StreamNext ==
  \/ TalkerSpeaks \/ DriverSpeaks
  \/ LineFalls \/ LineHeard \/ LineGarbled
  \/ Host

StreamSpec == StreamInit /\ [][StreamNext]_allVars

\* The fairness of SeatalkTransport: the timers run, a reception that has begun
\* ends, the host thread is scheduled.  Nothing makes the talker talk or stop.
FairStreamSpec ==
  /\ StreamSpec
  /\ SF_allVars(DriverSpeaks) /\ SF_allVars(CharacterSent /\ UNCHANGED streamVars)
  /\ WF_allVars(LineHeard \/ LineGarbled)
  /\ WF_allVars(Wake /\ UNCHANGED streamVars)

-----------------------------------------------------------------------------
(* Properties *)

StreamTypeOK ==
  /\ TypeOK
  /\ talk \in TalkerDatagrams
  /\ said \in 0 .. Len(talk)
  /\ theirs \in BOOLEAN
  /\ theirs => said < Len(talk)
  /\ intact \in [Sender -> {"clear", "contested", "lost"}]
  /\ garbled \in BOOLEAN

\* Whatever came before it -- half a datagram, noise, a collision -- a datagram
\* that is heard clearly from its first byte is assembled as it was sent, and is
\* handed to the protocol when its last byte is heard and not before.
ClearIsHandled ==
  \A s \in Sender : intact[s] = "clear" =>
    /\ receive_buffer = SubSeq(Datagram(s), 1, Said(s))
    /\ handled = IF Said(s) = Len(Datagram(s)) THEN Datagram(s) ELSE <<>>

\* Nothing but a character with a low stop bit, and nothing after the next
\* character, leaves announced data on an idle bus without a timer.
DataHasTimer == PendingDataHasTimer \/ garbled

\* But for such a character, data is sent, or expires, however the talker talks.
DataIsSent ==
  data_pending ~> (bus_state = "TRANSMITTING" \/ ~data_pending \/ garbled)

\* A datagram that won the line is handled too.
WinnerIsHandled ==
  intact["talker"] = "contested" /\ said = Len(talk) => handled = talk

\* What is handled has just been sent, by one of the senders.
HandledWasSent ==
  handled # <<>> =>
    \E s \in Sender : handled = Datagram(s) /\ Said(s) = Len(Datagram(s))

\* A datagram is handled with its last byte, and not once more with every byte
\* without a command bit that follows, which the buffer has no room for.
HandledOnce ==
  handled # <<>> => Len(handled) = 3 + get_datagram_length(handled[2])

\* A datagram whose last byte the driver confirms was heard as it was sent.
ConfirmedWasHeard ==
  [][transmit_datagram_bytes_remaining = 1 /\ transmit_datagram_bytes_remaining' = 0
       /\ handled' # <<>> => intact'["driver"] # "lost"]_allVars

=============================================================================
