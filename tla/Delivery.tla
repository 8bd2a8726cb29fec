------------------------------- MODULE Delivery -------------------------------
(***************************************************************************)
(* What deduplication promises: a message is delivered at most as often as *)
(* there are readers that may handle copies of it at the same time; with a *)
(* single reader, at most once.                                            *)
(***************************************************************************)
EXTENDS Integers

CONSTANTS Messages

VARIABLES
  readers,   \* how many readers there are
  delivered  \* [Messages -> how often the message was delivered]

vars == <<readers, delivered>>

Init == readers \in Nat /\ delivered = [m \in Messages |-> 0]

Deliver(m) ==
  /\ delivered[m] < readers
  /\ delivered' = [delivered EXCEPT ![m] = @ + 1]
  /\ UNCHANGED readers

Next == \E m \in Messages : Deliver(m)

Spec == Init /\ [][Next]_vars
=============================================================================
