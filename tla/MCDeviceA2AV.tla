----------------------------- MODULE MCDeviceA2AV -----------------------------
EXTENDS DeviceA2AV

\* Two ranks with other splits in the second call, one of them empty.
Pair ==
  [world |-> 2, blocksPerRank |-> 1, unroll |-> 1, blockSize |-> 1,
   splits |-> << <<<<1, 2>>, <<0, 1>>>>, <<<<2, 1>>, <<1, 1>>>> >>]

\* One rank with three blocks: how the rows are shared, from no row to more than
\* two blocks take.
Alone(n) ==
  [world |-> 1, blocksPerRank |-> 3, unroll |-> 2, blockSize |-> 2,
   splits |-> << <<<<n>>>>, <<<<n + 1>>>> >>]

PairAndAlone == {Pair} \union {Alone(n) : n \in {0, 4, 12}}
==============================================================================
