-------------------------- MODULE MCSeatalkSender --------------------------
(***************************************************************************)
(* SeatalkSender for TLC: one or two sensors of different priority, two    *)
(* readings each, a time to live of two seconds, up to two commands.       *)
(***************************************************************************)
EXTENDS SeatalkSender

CONSTANTS v1, v2, c1, c2, none

TwoValues == {v1, v2}
NoCommand == {}
OneCommand == {c1}
TwoCommands == {c1, c2}

=============================================================================
