------------------------- MODULE MCGroupCollectives -------------------------
(* Instance of GroupCollectives for TLC: two ranks, and matrices of counts that *)
(* change from handle to handle; in them a rank sends to both, to none, or only *)
(* to its peer.                                                             *)
EXTENDS GroupCollectives, TLC

ZeroToOne == [r \in Ranks |-> [d \in Ranks |-> IF r = 0 /\ d = 1 THEN 1 ELSE 0]]
OneToBoth == [r \in Ranks |-> [d \in Ranks |-> IF r = 1 THEN 1 ELSE 0]]
AlternatingMatrices == [h \in Colls |-> {IF h % 2 = 1 THEN OneToBoth ELSE ZeroToOne}]
=============================================================================
