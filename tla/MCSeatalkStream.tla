-------------------------- MODULE MCSeatalkStream --------------------------
(***************************************************************************)
(* SeatalkStream for TLC, with bytes of one bit: a datagram has three      *)
(* bytes or four.                                                          *)
(***************************************************************************)
EXTENDS SeatalkStream

DriverDatagrams == { <<>>, << {0}, {}, {0} >> }
OtherDatagrams == { << {}, {}, {0} >>, << {0}, {0}, {}, {} >> }
AnyBit == { {}, {0} }

=============================================================================
