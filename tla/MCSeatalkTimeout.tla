-------------------------- MODULE MCSeatalkTimeout --------------------------
(***************************************************************************)
(* SeatalkTimeout for TLC: one or two values, a clock of a dozen seconds,  *)
(* which may be set by a second or two or by more than a time to live.     *)
(***************************************************************************)
EXTENDS SeatalkTimeout

CONSTANT none

BackAndForward == {-3, -1, 2}
NoSettings == {}

=============================================================================
