------------------------ MODULE MCSeatalkLifecycle ------------------------
(***************************************************************************)
(* SeatalkLifecycle for TLC: the whole tree of 14 directories and 75       *)
(* files, any number of loads one after the other.                         *)
(***************************************************************************)
EXTENDS SeatalkLifecycle

AllDrivers == Driver
AllMayFail == Acquisition

=============================================================================
