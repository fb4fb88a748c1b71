---------------------------- MODULE MCBlockBarrier ----------------------------
(* Instance of BlockBarrier for TLC: two ranks and three successive calls.    *)
(* BlockBarrierProofs proves the safety properties for any number of either.  *)
EXTENDS BlockBarrier

CONSTANTS r1, r2    \* two ranks (model values)
=============================================================================
