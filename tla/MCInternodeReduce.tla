--------------------------- MODULE MCInternodeReduce ---------------------------
EXTENDS InternodeReduce

\* Node 0 sends to its own two peers, with two sender warps, round its RDMA ring.
TwoWarps ==
  [ranks |-> 2, peers |-> 2, warps |-> 2, window |-> 2,
   rdmaChunk |-> 1, rdmaSlots |-> 2, nvlChunk |-> 1, nvlSlots |-> 2,
   goes |-> << << <<{0}, {}>>, <<{1}, {}>>, <<{0}, {}>> >>, <<>> >>]

\* Both nodes send to node 1, node 0 also to itself: results from two nodes.
TwoNodes ==
  [ranks |-> 2, peers |-> 1, warps |-> 1, window |-> 2,
   rdmaChunk |-> 1, rdmaSlots |-> 2, nvlChunk |-> 1, nvlSlots |-> 2,
   goes |-> << << <<{0}, {0}>> >>, << <<{}, {0}>> >> >>]

\* Tokens of both nodes round one NVL ring.
TwoSources == [TwoNodes EXCEPT !.goes = << << <<{}, {0}>> >>, << <<{}, {0}>>, <<{}, {0}>> >> >>]

\* Tokens of one node round the RDMA ring and the NVL ring of another.
OneSource == [TwoNodes EXCEPT !.goes = << << <<{}, {0}>>, <<{}, {0}>>, <<{}, {0}>> >>, <<>> >>]

\* Chunks of two tokens, and a rest: node 0 sends to the peers of node 1, round
\* the rings of both levels.
Chunks ==
  [ranks |-> 2, peers |-> 2, warps |-> 2, window |-> 2,
   rdmaChunk |-> 2, rdmaSlots |-> 4, nvlChunk |-> 2, nvlSlots |-> 3,
   goes |-> << << <<{}, {0, 1}>>, <<{}, {1}>>, <<{}, {0}>>, <<{}, {0}>>, <<{}, {0}>> >>, <<>> >>]

Instances == {TwoWarps, TwoNodes, TwoSources, OneSource, Chunks}

\* The reduce: two warps for each destination, NVL queues of three slots that the
\* four tokens of a peer wrap, an RDMA ring of two chunks; or one warp and chunk 1.
TwoReducers == [warps |-> 2, rdmaChunk |-> 2, rdmaSlots |-> 4, nvlChunk |-> 2, nvlSlots |-> 6]
OneReducer == [warps |-> 1, rdmaChunk |-> 1, rdmaSlots |-> 2, nvlChunk |-> 1, nvlSlots |-> 4]
Sizes == [c \in Instances |-> IF c.peers = 1 THEN {OneReducer} ELSE {TwoReducers}]
==============================================================================
