------------------------------- MODULE SendHead -------------------------------
(***************************************************************************)
(* The entries of send_head for one destination rank and one channel, as    *)
(* the group cast leaves them and as the group reduce needs them.           *)
(*                                                                         *)
(* The cast stores for each token its position in the queue of the rank, or *)
(* -1 if it is not sent there.  The reduce must know, also at a token that  *)
(* is not sent to the rank, which position comes next: before it,           *)
(* reset_send_head_before_group_reduce_func replaces every -1 by the code   *)
(* of the next valid position, or of a large number if there is none.       *)
(***************************************************************************)
EXTENDS Integers, FiniteSets

CONSTANT LargeHead    \* 1 << 25 in the code

\* utils.cuh encode and decode.
Encode(value) == -value - 1
Decode(code) == -code - 1

\* The position of token t in the queue to a rank, given the tokens sent there.
PositionIn(sent, t) == Cardinality({u \in sent : u < t})

\* What the group cast stores for the tokens of a channel.
CastHead(tokens, sent) == [t \in tokens |-> IF t \in sent THEN PositionIn(sent, t) ELSE -1]

\* The first position not before token t, or LargeHead.
NextPosition(sent, t) ==
  IF \E u \in sent : u >= t THEN PositionIn(sent, t) ELSE LargeHead

\* What the group reduce expects for the tokens of a channel.
ReduceHead(tokens, sent) ==
  [t \in tokens |-> IF t \in sent THEN PositionIn(sent, t) ELSE Encode(NextPosition(sent, t))]
=============================================================================
