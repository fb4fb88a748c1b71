------------------------------ MODULE DeviceA2AV ------------------------------
(***************************************************************************)
(* The device all-to-all-v (comm/primitive/device_a2av): each rank copies its *)
(* rows and their split sizes into symmetric memory and launches one kernel. *)
(* Block k of the kernel pulls the rows that one remote rank has for this    *)
(* rank, its share of them if several blocks serve a remote rank.  There is  *)
(* no host synchronisation: before and after the copies all blocks with the  *)
(* same index meet in blockwise_barrier, which uses a pad of one-bit signals *)
(* again and again.                                                          *)
(***************************************************************************)
EXTENDS Integers, Sequences, FiniteSets, SequencesExt, FiniteSetsExt, Functions

CONSTANT Configs    \* sequences of calls that are considered: see ConfigType

ConfigType ==
  [world : Nat \ {0},
   blocksPerRank : Nat \ {0},               \* BLOCKS_PER_REMOTE_RANK
   unroll : Nat \ {0},                      \* UNROLL_FACTOR
   blockSize : Nat \ {0},                   \* BLOCK_SIZE
   splits : Seq(Seq(Seq(Nat)))]             \* splits[call][r][s]: the rows that r sends to s

ConfigAccepts(c) ==
  /\ c \in ConfigType
  /\ \A call \in DOMAIN c.splits :
       /\ Len(c.splits[call]) = c.world
       /\ \A r \in 1 .. c.world : Len(c.splits[call][r]) = c.world

ASSUME ConfigAssumption == \A c \in Configs : ConfigAccepts(c)

VARIABLES
  config,      \* the calls (input)
  call,        \* call[r]: the call rank r is in, from 1
  hostPc,      \* hostPc[r]: what the stream of rank r does next
  inputBuf,    \* inputBuf[r]: input_send_buf, symmetric memory
  splitsBuf,   \* splitsBuf[r]: splits_buf, symmetric memory
  pad,         \* pad[r][k][s]: the signal pad of rank r: a signal of rank s for block k
  blockPc,     \* blockPc[r][k]: where block k is in the kernel
  lane,        \* lane[r][k][t]: where its thread t is in blockwise_barrier
  offsets,     \* offsets[r][k]: the result of _exchange_split_offsets
  output,      \* output[r]: a function from rows to rows
  outputSplits \* outputSplits[r]

memory == <<inputBuf, splitsBuf>>
results == <<output, outputSplits>>
vars == <<config, call, hostPc, memory, pad, blockPc, lane, offsets, results>>

Ranks == 0 .. config.world - 1
Blocks == 0 .. config.world * config.blocksPerRank - 1
NumCalls == Len(config.splits)
RemoteRank(k) == k \div config.blocksPerRank
Splits(c, r, s) == config.splits[c][r + 1][s + 1]

\* The rows that rank r sends in call c, numbered so that all rows differ.
Row(c, r, i) == <<c, r, i>>
RowsOf(c, r) == [i \in 1 .. SumFunction([s \in Ranks |-> Splits(c, r, s)]) |-> Row(c, r, i - 1)]

\* What rank r should receive in call c: from each rank in turn the rows for r.
Received(c, r) ==
  LET from(s) == SubSeq(RowsOf(c, s), 1 + SumFunction([t \in 0 .. r - 1 |-> Splits(c, s, t)]),
                        SumFunction([t \in 0 .. r |-> Splits(c, s, t)]))
  IN  FlattenSeq([s \in 1 .. config.world |-> from(s - 1)])

Empty == [r \in Ranks |-> <<>>]

Init ==
  /\ config \in Configs
  /\ call = [r \in Ranks |-> 1]
  /\ hostPc = [r \in Ranks |-> "input"]
  /\ inputBuf = Empty
  /\ splitsBuf = [r \in Ranks |-> [s \in Ranks |-> 0]]
  /\ pad = [r \in Ranks |-> [k \in Blocks |-> [s \in Ranks |-> 0]]]
  /\ blockPc = [r \in Ranks |-> [k \in Blocks |-> "idle"]]
  /\ lane = [r \in Ranks |-> [k \in Blocks |-> [t \in Ranks |-> "put"]]]
  /\ offsets = [r \in Ranks |-> [k \in Blocks |-> <<0, 0, 0>>]]
  /\ output = Empty
  /\ outputSplits = [r \in Ranks |-> [s \in Ranks |-> 0]]

(***************************** the stream of a rank ************************)
CopyInput(r) ==
  /\ hostPc[r] = "input" /\ call[r] <= NumCalls
  /\ inputBuf' = [inputBuf EXCEPT ![r] = RowsOf(call[r], r)]
  /\ hostPc' = [hostPc EXCEPT ![r] = "splits"]
  /\ UNCHANGED <<config, call, splitsBuf, pad, blockPc, lane, offsets, results>>

CopySplits(r) ==
  /\ hostPc[r] = "splits"
  /\ splitsBuf' = [splitsBuf EXCEPT ![r] = [s \in Ranks |-> Splits(call[r], r, s)]]
  /\ hostPc' = [hostPc EXCEPT ![r] = "launch"]
  /\ UNCHANGED <<config, call, inputBuf, pad, blockPc, lane, offsets, results>>

\* The kernel starts on a new output, of the given number of tokens.
Launch(r) ==
  /\ hostPc[r] = "launch"
  /\ hostPc' = [hostPc EXCEPT ![r] = "kernel"]
  /\ blockPc' = [blockPc EXCEPT ![r] = [k \in Blocks |-> "enter"]]
  /\ output' = [output EXCEPT ![r] = [i \in DOMAIN Received(call[r], r) |-> <<>>]]
  /\ outputSplits' = [outputSplits EXCEPT ![r] = [s \in Ranks |-> 0]]
  /\ UNCHANGED <<config, call, memory, pad, lane, offsets>>

\* Later operations of the stream wait until all blocks have ended.
KernelEnded(r) == hostPc[r] = "kernel" /\ \A k \in Blocks : blockPc[r][k] = "ended"

EndKernel(r) ==
  /\ KernelEnded(r)
  /\ call' = [call EXCEPT ![r] = @ + 1]
  /\ hostPc' = [hostPc EXCEPT ![r] = "input"]
  /\ blockPc' = [blockPc EXCEPT ![r] = [k \in Blocks |-> "idle"]]
  /\ UNCHANGED <<config, memory, pad, lane, offsets, results>>

(***************************** blockwise_barrier ***************************)
InBarrier(r, k) == blockPc[r][k] \in {"enter", "exit"}

\* Mutation: the signal is stored, whatever the pad holds.
MayPutAlways(signal) == signal \in {0, 1}

\* put_signal of thread t: spin on CAS(0, 1) at [block, rank] of rank t's pad.
MayPut(signal) == signal = 0

PutSignal(r, k, t) ==
  /\ InBarrier(r, k) /\ lane[r][k][t] = "put"
  /\ MayPut(pad[t][k][r])
  /\ pad' = [pad EXCEPT ![t][k][r] = 1]
  /\ lane' = [lane EXCEPT ![r][k][t] = "wait"]
  /\ UNCHANGED <<config, call, hostPc, memory, blockPc, offsets, results>>

\* Mutation: the signal is read and stays as it is.
AfterWaitKept(signal) == signal

\* wait_signal of thread t: spin on CAS(1, 0) at [block, t] of the own pad.
AfterWait(signal) == signal - 1

WaitSignal(r, k, t) ==
  /\ lane[r][k][t] = "wait"
  /\ pad[r][k][t] = 1
  /\ pad' = [pad EXCEPT ![r][k][t] = AfterWait(@)]
  /\ lane' = [lane EXCEPT ![r][k][t] = "passed"]
  /\ UNCHANGED <<config, call, hostPc, memory, blockPc, offsets, results>>

\* Mutation: no sync_threads after the barrier.
AnyPassed(r, k) == \E t \in Ranks : lane[r][k][t] = "passed"

\* sync_threads after the first barrier, the end of the block after the second.
AllPassed(r, k) == \A t \in Ranks : lane[r][k][t] = "passed"

LeaveBarrier(r, k) ==
  /\ InBarrier(r, k) /\ AllPassed(r, k)
  /\ lane' = [lane EXCEPT ![r][k] = [t \in Ranks |-> "put"]]
  /\ blockPc' = [blockPc EXCEPT ![r][k] = IF @ = "enter" THEN "exchange" ELSE "ended"]
  /\ UNCHANGED <<config, call, hostPc, memory, pad, offsets, results>>

(******************************** the copies *******************************)
\* _exchange_split_offsets, and the first block of a remote rank stores how many
\* rows come from it.
Exchange(r, k) ==
  LET remote == RemoteRank(k)
      numRows == splitsBuf[remote][r]
      inputRow == SumFunction([s \in 0 .. r |-> splitsBuf[remote][s]]) - numRows
      outputRow == SumFunction([s \in 0 .. remote |-> splitsBuf[s][r]]) - numRows
  IN  /\ blockPc[r][k] = "exchange"
      /\ offsets' = [offsets EXCEPT ![r][k] = <<inputRow, outputRow, numRows>>]
      /\ outputSplits' = IF k % config.blocksPerRank = 0
                         THEN [outputSplits EXCEPT ![r][remote] = numRows] ELSE outputSplits
      /\ blockPc' = [blockPc EXCEPT ![r][k] = "copy"]
      /\ UNCHANGED <<config, call, hostPc, memory, pad, lane, output>>

CeilDiv(a, b) == (a + b - 1) \div b
\* Integer division on the device rounds towards zero.
TruncDiv(a, b) == IF a >= 0 THEN a \div b ELSE -((-a) \div b)

\* Mutation: the iterations are divided among the blocks rounding down.
ItersPerBlockDown(numel) == CeilDiv(numel, config.blockSize * config.unroll) \div config.blocksPerRank

ItersPerBlock(numel) == CeilDiv(CeilDiv(numel, config.blockSize * config.unroll), config.blocksPerRank)

\* The elements that the i-th block of a remote rank copies: an unrolled region
\* and the rest.  (A row is one element.)
Share(numel, i) ==
  LET step == config.blockSize * config.unroll
      perBlock == step * ItersPerBlock(numel)
      start == perBlock * i
      end == Min({perBlock * (i + 1), numel})
      unrolledEnd == start + TruncDiv(end - start, step) * step
      restEnd == unrolledEnd + CeilDiv(Max({end - unrolledEnd, 0}), config.blockSize) * config.blockSize
  IN  (start .. unrolledEnd - 1) \union {o \in unrolledEnd .. restEnd - 1 : o < numel}

Copy(r, k) ==
  LET input == inputBuf[RemoteRank(k)]
      share == Share(offsets[r][k][3], k % config.blocksPerRank)
      copied == {offsets[r][k][2] + o + 1 : o \in share}
  IN  /\ blockPc[r][k] = "copy"
      /\ output' = [output EXCEPT ![r] =
                      [i \in DOMAIN @ \union copied |->
                         IF i \in copied THEN input[i - offsets[r][k][2] + offsets[r][k][1]] ELSE @[i]]]
      /\ blockPc' = [blockPc EXCEPT ![r][k] = "exit"]
      /\ UNCHANGED <<config, call, hostPc, memory, pad, lane, offsets, outputSplits>>

Stream(r) == r \in Ranks /\ (CopyInput(r) \/ CopySplits(r) \/ Launch(r) \/ EndKernel(r))

Block(r, k) ==
  /\ r \in Ranks /\ k \in Blocks
  /\ \/ \E t \in Ranks : PutSignal(r, k, t) \/ WaitSignal(r, k, t)
     \/ LeaveBarrier(r, k) \/ Exchange(r, k) \/ Copy(r, k)

AllRanks == UNION {0 .. c.world - 1 : c \in Configs}
AllBlocks == UNION {0 .. c.world * c.blocksPerRank - 1 : c \in Configs}

Next == \E r \in AllRanks : Stream(r) \/ \E k \in AllBlocks : Block(r, k)

Spec == Init /\ [][Next]_vars

\* Some rank goes on as long as one can: the blocks are fewer than the device
\* holds, so that all of them run.  Every step brings its rank nearer to the end.
FairSpec == Spec /\ WF_vars(Next)

(******************************** properties *******************************)
\* The barriers that block k of rank r has left, and begun, in all calls.
Left(r, k) ==
  2 * (call[r] - 1) + CASE blockPc[r][k] \in {"exchange", "copy", "exit"} -> 1
                        [] blockPc[r][k] = "ended" -> 2
                        [] OTHER -> 0
Begun(r, k) == Left(r, k) + IF InBarrier(r, k) THEN 1 ELSE 0

\* No block leaves a barrier that a block with its index has not reached on some
\* rank, although the signals of one barrier serve the next (blockwise_barrier:
\* "Synchronizes blocks with matching block_id across participating devices").
BlocksMeet == \A r, s \in Ranks, k \in Blocks : Left(r, k) <= Begun(s, k)

\* The pad of a block "resets to a zero-filled state after each successful
\* synchronization": it is zero whenever no rank is ahead in any barrier.
PadReturnsToZero ==
  \A k \in Blocks :
    (\A r, s \in Ranks : ~InBarrier(r, k) /\ Left(r, k) = Left(s, k))
      => \A r, s \in Ranks : pad[r][k][s] = 0

\* A kernel that has ended has received exactly the rows that each rank sent to
\* this one in this call, at their places, and their numbers: no buffer was read
\* before it was filled or after it was filled again for the next call.
OutputIsExact ==
  \A r \in Ranks : KernelEnded(r) =>
    /\ output[r] = Received(call[r], r)
    /\ \A s \in Ranks : outputSplits[r][s] = Splits(call[r], s, r)

\* All calls end: no thread spins for ever on a signal.
Completes == <>(\A r \in Ranks : call[r] > NumCalls)
==============================================================================
