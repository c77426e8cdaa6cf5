----------------------------- MODULE Countdown -----------------------------
(***************************************************************************)
(* What a timeout promises: it is given a number of seconds, which run     *)
(* down to nothing.  SeatalkSender and SeatalkStatus count their values'   *)
(* times to live like this.                                                *)
(***************************************************************************)
EXTENDS Naturals

CONSTANTS Items, TIME_TO_LIVE

VARIABLE left       \* the seconds each item is still valid for

Init == left = [i \in Items |-> 0]

Restart(i) == left' = [left EXCEPT ![i] = TIME_TO_LIVE]

Invalidate(i) == left' = [left EXCEPT ![i] = 0]

Second == left' = [i \in Items |-> IF left[i] > 0 THEN left[i] - 1 ELSE 0]

Next == (\E i \in Items : Restart(i) \/ Invalidate(i)) \/ Second

Spec == Init /\ [][Next]_left

=============================================================================
