---------------------------- MODULE StopAndWait ----------------------------
(***************************************************************************)
(* What the transmit side of the transport layer promises: datagrams go    *)
(* out one after the other, a byte at a time; a byte stays the next one to *)
(* send until it has come back from the line; a datagram is left at its    *)
(* end or given up as a whole, never resumed or skipped into.              *)
(***************************************************************************)
EXTENDS Naturals, Sequences

CONSTANT Datagrams

VARIABLES
  datagram,   \* the one being sent, or the last one
  confirmed,  \* how many of its bytes are done with
  wire        \* the character in flight, <<byte, is the first>>, or <<>>

vars == <<datagram, confirmed, wire>>

Character(d, n) == <<d[n + 1], n = 0>>

Init == datagram = <<>> /\ confirmed = 0 /\ wire = <<>>

\* The next datagram, when the last is done with; an empty one sends nothing.
Begin ==
  /\ confirmed = Len(datagram)
  /\ datagram' \in Datagrams
  /\ confirmed' = 0
  /\ wire' = IF datagram' = <<>> THEN <<>> ELSE Character(datagram', 0)

\* The next byte, or once more the one whose character was lost.
Send ==
  /\ confirmed < Len(datagram)
  /\ wire' = Character(datagram, confirmed)
  /\ UNCHANGED <<datagram, confirmed>>

\* A character in flight comes back intact, comes back changed, or is lost.
Confirm ==
  /\ wire # <<>> /\ wire' = <<>>
  /\ confirmed' = confirmed + 1
  /\ UNCHANGED datagram

GiveUp ==
  /\ wire # <<>> /\ wire' = <<>>
  /\ confirmed' = Len(datagram)
  /\ UNCHANGED datagram

Lose ==
  /\ wire # <<>> /\ wire' = <<>>
  /\ UNCHANGED <<datagram, confirmed>>

Next == Begin \/ Send \/ Confirm \/ GiveUp \/ Lose

Spec == Init /\ [][Next]_vars

=============================================================================
