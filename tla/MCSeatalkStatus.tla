-------------------------- MODULE MCSeatalkStatus --------------------------
(***************************************************************************)
(* SeatalkStatus for TLC: a few of the datagrams and getters at a time,    *)
(* one or two readings, a time to live of two seconds.                     *)
(***************************************************************************)
EXTENDS SeatalkStatus

CONSTANTS r1, r2, none

OneReading == {r1}
TwoReadings == {r1, r2}
Nothing == {}

\* What SeatalkStatusProofs asks of a getter, for those that have it.
ASSUME \A getter \in DOMAIN Getter \ {"gps_fix_quality", "navigation"} :
         \A timeout \in Getter[getter] : timeout \in Status /\ SetTogether(timeout)

=============================================================================
