---------------------------- MODULE BoundedStream ----------------------------
(***************************************************************************)
(* What a channel queue of the group collectives promises: a stream of      *)
(* Total tokens is produced in batches, each token is delivered exactly     *)
(* once, only after it was produced and before its slot is released, and    *)
(* no more than Capacity tokens are produced and not released.              *)
(***************************************************************************)
EXTENDS Integers

VARIABLES
  Capacity,   \* how many tokens may be produced and not released (never changes)
  Total,      \* how many tokens the stream carries (never changes)
  produced,   \* tokens 0 .. produced-1 have been published
  released,   \* the slots of tokens 0 .. released-1 may be reused
  delivered   \* the set of tokens that have been delivered

vars == <<Capacity, Total, produced, released, delivered>>

Init == Capacity \in Nat /\ Total \in Nat /\ produced = 0 /\ released = 0 /\ delivered = {}

Produce ==
  /\ \E n \in produced + 1 .. released + Capacity : n <= Total /\ produced' = n
  /\ UNCHANGED <<Capacity, Total, released, delivered>>

Deliver ==
  /\ \E p \in released .. produced - 1 : p \notin delivered /\ delivered' = delivered \cup {p}
  /\ UNCHANGED <<Capacity, Total, produced, released>>

Release ==
  /\ \E n \in released + 1 .. produced :
       (0 .. n - 1) \subseteq delivered /\ released' = n
  /\ UNCHANGED <<Capacity, Total, produced, delivered>>

Next == Produce \/ Deliver \/ Release

Spec == Init /\ [][Next]_vars
=============================================================================
