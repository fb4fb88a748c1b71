------------------------ MODULE MCGroupReduceChannel ------------------------
(* Instances of GroupReduceChannel for TLC: every choice of the tokens that   *)
(* each source sends back is an initial state.                              *)
EXTENDS GroupReduceChannel

CONSTANTS a, b    \* two sources (model values)

\* Two sources, whose queues have exactly the slots that the chunk and the two
\* reduce warps need.
TwoSources ==
  [numTokens |-> 3, numSendWarps |-> 1, numReduceWarps |-> 2, queueSize |-> 2, chunkSize |-> 1,
   isLseReduce |-> FALSE, timesOut |-> FALSE, sources |-> {a, b}]

\* One source whose two send warps share a chunk, with lse.
TwoSendWarps ==
  [numTokens |-> 5, numSendWarps |-> 2, numReduceWarps |-> 2, queueSize |-> 3, chunkSize |-> 2,
   isLseReduce |-> TRUE, timesOut |-> TRUE, sources |-> {a}]

\* A queue that the constructor of Config accepts for one reduce warp too many.
SmallQueue ==
  [numTokens |-> 4, numSendWarps |-> 1, numReduceWarps |-> 3, queueSize |-> 2, chunkSize |-> 1,
   isLseReduce |-> FALSE, timesOut |-> FALSE, sources |-> {a}]

\* A queue that wraps once, with lse.
LseQueue ==
  [numTokens |-> 3, numSendWarps |-> 1, numReduceWarps |-> 1, queueSize |-> 2, chunkSize |-> 1,
   isLseReduce |-> TRUE, timesOut |-> FALSE, sources |-> {a}]

SoundConfigs == {TwoSources, TwoSendWarps}
SmallConfigs == {SmallQueue}
LseConfigs == {LseQueue}
=============================================================================
