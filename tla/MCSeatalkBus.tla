--------------------------- MODULE MCSeatalkBus ---------------------------
(***************************************************************************)
(* SeatalkBus for TLC: real character frames (eight data bits, a command   *)
(* bit) and the real guard time, in twelfths of a bit, and shorter frames  *)
(* where another talker's characters are interleaved with ours.            *)
(***************************************************************************)
EXTENDS SeatalkBus

\* 30 00 0C, the lamp intensity command: the shortest datagram there is.
LampIntensity == << {4, 5}, {}, {2, 3} >>

\* 86 11 07 F8, the autopilot key +1.  Its second byte, 11, sends a 0 in the
\* start bit, a 1 and a 0 again.
Keystroke == << {1, 2, 7}, {0, 4}, {0, 1, 2}, {3, 4, 5, 6, 7} >>

OneLamp == { LampIntensity }
OneKeystroke == { Keystroke }

\* The first byte of another talker's datagram and one that follows it.
DepthBytes == { {}, {1, 6} }
NoBytes == {}

\* One-bit bytes: frames of four bits and a guard time of three, so that the
\* guard is one bit shorter than a frame as it is in the code.
ShortOrNothing == { << {0}, {}, {0} >>, <<>> }
ShortBytes == { {}, {0} }

=============================================================================
