--------------------------- MODULE OrderedReduction ---------------------------
(***************************************************************************)
(* What flexible flash attention promises of the tensors that many tiles    *)
(* reduce into (out and lse, dk and dv, dq): every part enters every cell    *)
(* it is owed to exactly once, a cell never loses a part, and in the         *)
(* deterministic mode the parts of a cell enter in one fixed order, so that  *)
(* floating-point sums do not depend on the schedule.                        *)
(***************************************************************************)
EXTENDS Integers, Sequences, SequencesExt

VARIABLES
  ordered,    \* is the mode deterministic? (input)
  owed,       \* owed[c]: the parts that belong into cell c (input)
  sum         \* sum[c]: the parts that have entered cell c, in order

vars == <<ordered, owed, sum>>

Cells == DOMAIN owed

Init == sum = [c \in Cells |-> <<>>]

\* Part p may enter cell c.
MayEnter(p, c) ==
  /\ p \in owed[c] \ ToSet(sum[c])
  /\ ordered => \A q \in owed[c] : q < p => q \in ToSet(sum[c])

\* A tile adds its part to some cells at once.
Reduce(p, cells) ==
  /\ \A c \in cells : MayEnter(p, c)
  /\ sum' = [c \in Cells |-> IF c \in cells THEN Append(sum[c], p) ELSE sum[c]]
  /\ UNCHANGED <<ordered, owed>>

\* The cells of a step are those whose sum it changes.
Changed == {c \in Cells : sum'[c] # sum[c]}

Next ==
  \E p \in UNION {owed[c] : c \in Cells} : Reduce(p, Changed)

Spec == Init /\ [][Next]_vars
==============================================================================
