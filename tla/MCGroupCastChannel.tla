------------------------- MODULE MCGroupCastChannel -------------------------
(* Instances of GroupCastChannel for TLC: every choice of the tokens that go  *)
(* to the rank is an initial state.                                         *)
EXTENDS GroupCastChannel
=============================================================================
