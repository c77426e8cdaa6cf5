------------------------ MODULE MCSeatalkTransport ------------------------
(***************************************************************************)
(* SeatalkTransport for TLC, with bytes of two bits or of one.  Two values *)
(* are enough to collide on, and a length nibble of 0 or 1 gives datagrams *)
(* of the shortest length (three bytes) and of one byte more.              *)
(***************************************************************************)
EXTENDS SeatalkTransport

\* Nothing built (a rudder angle), three bytes, four bytes.
TwoBitDatagrams == { <<>>, << {1}, {}, {1} >>, << {1}, {0}, {0}, {} >> }

\* The smallest instance: one datagram, for liveness.
OneBitDatagrams == { <<>>, << {0}, {}, {0} >> }

AnyBit == { {}, {0} }

=============================================================================
