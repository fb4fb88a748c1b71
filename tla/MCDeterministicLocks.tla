-------------------------- MODULE MCDeterministicLocks --------------------------
EXTENDS DeterministicLocks

\* Two batches that overlap in blocks of two rows, the first one shifted.
Forward ==
  [path |-> "fwd", deterministic |-> TRUE, kBlock |-> 2, ranges |-> <<<<1, 4>>, <<0, 3>>>>,
   cuBatches |-> <<0, 1, 2>>, numHeadsKv |-> 1, headsPerKv |-> 1, numKeyBlocks |-> 1,
   padded |-> FALSE, maxToMin |-> FALSE, noData |-> {}]

\* Three batches, so that an SM may pass one over, two groups of heads, and a
\* tile that the mask leaves empty.
ForwardGroups ==
  [Forward EXCEPT !.ranges = <<<<1, 3>>, <<0, 2>>, <<1, 3>>>>, !.cuBatches = <<0, 1, 2, 3>>,
                  !.numHeadsKv = 2, !.noData = {<<0, 0, 0>>}]

\* The mutex alone keeps the stores apart; one batch has fewer tiles than the longest.
ForwardAtomic == [Forward EXCEPT !.deterministic = FALSE, !.padded = TRUE, !.ranges = <<<<1, 4>>, <<2, 4>>>>]

Dkv == [Forward EXCEPT !.path = "dkv", !.headsPerKv = 2, !.ranges = <<<<1, 4>>, <<2, 4>>>>]

Dq == [Forward EXCEPT !.path = "dq", !.numKeyBlocks = 2, !.noData = {<<0, 1, 0>>}]

DqReversed == [Dq EXCEPT !.maxToMin = TRUE]

SoundConfigs == {Forward, ForwardGroups, ForwardAtomic, Dkv, Dq, DqReversed}

\* One group of two merged batches, and more heads than SMs.
MergedConfigs ==
  {[Forward EXCEPT !.path = "dq", !.numHeadsKv = 3, !.cuBatches = <<0, 2>>, !.ranges = <<<<0, 2>>, <<2, 4>>>>]}
==============================================================================
