# A TLA+ verification development for MagiAttention

MagiAttention computes attention over a sequence that is distributed over the
ranks of a context-parallel group. Python plans which rank needs which keys and
values in which stage; CUDA kernels move them between GPUs (group cast, group
reduce), while the attention kernel of the previous stage runs. This directory
models the parts of the program where correctness hangs on interleavings: the
native group collectives in `csrc/comm/grpcoll`, within a node and between
nodes, the stages of distributed attention that overlap with them, the device
all-to-all-v, and the order in which the tiles of the attention kernels reduce.

Paths below are relative to `src/magi_attention` unless they begin with `src/`.

## 1. Inventory

| Part | State it keeps | Operations | Interacts with | What is hard |
|---|---|---|---|---|
| `barrier_block` (`csrc/comm/grpcoll/kernels/utils.cuh`) | one signal word per pair of ranks, in each rank's buffer | add own, subtract at the peer, poll, vote, trap | all notify kernels of all ranks | signals are never reset; successive calls overlap; partial arrivals |
| Group-cast kernel (`kernels/intranode_kernel.cuh`, first half) | per pair of ranks and channel: offsets, head, tail, ring of slots; private copies in every warp | announce, wait for room, copy, publish; poll, copy, store head | sender and receiver kernels on two GPUs; warps of one group | stale heads, the one tail or head that stands for many warps, slot reuse |
| Group-reduce kernel (second half) | per source a ring with head and tail; shared-memory heads, tails and retire flags | send a chunk; warp 0 scans; reduce warps wait, combine, record the next head, retire | all sources of a rank; `send_head` from the cast | the minimum over racing warps, tokens that skip a source, starvation |
| `send_head` reset (`kernels/intranode_utils.cuh`) | the `send_head` tensor of a handle | warp-wide reverse scan | made by a cast, used by reduces, maybe several times | carrying a value across lanes and chunks; running twice |
| Notify kernels and buffer layout (`kernels/intranode_notify_kernel.cu`, `buffer.cpp`) | a rank's buffer: prefix matrix, metadata, data; the mapped counter; handles | barrier, exchange counts, sum, tell the host, clear, barrier | hosts, comm streams, main kernels, peers | different layouts over the same words; fast ranks; host and kernel waiting for each other |
| Internode kernels (`kernels/internode_*.cu*`) | per pair of nodes a ring of RDMA slots at both ends, a window of open transactions, head and tail; per peer a ring of NVL slots | copy, release in the window, issue, forward, return heads, receive; the reduce runs the levels backwards, with the heads the cast stored | NVSHMEM queue pairs, peers in the node | out-of-order release; heads that return late through the slowest forwarder; circular waiting between the levels |
| Low-latency path (`kernels/internode_ll.cu`) | double buffers, flags | send, receive | NVSHMEM | buffer parity |
| `KernelBarrier` and DistAttn's stages (`csrc/extensions/kernel_barrier.cu`, `functional/dist_attn.py`) | a counter per barrier; streams; the works in flight | arrive, synchronize, reset; fetch, compute, reduce per stage | host, compute stream, comm stream | a compute kernel must not start before a comm kernel holds its SMs; stale arrivals |
| Python collectives and buffer manager (`comm/primitive/grpcoll`, `comm/work.py`) | buffers per group and name; one-shot works | get, release, wait | every rank of the group | creation and release are collectives |
| Device all-to-all-v (`comm/primitive/device_a2av`) | symmetric input and splits, signal pads | fill, launch; put, wait, exchange offsets, copy | all ranks | flags reused by successive barriers; buffers refilled for the next call |
| Flexible flash attention (`csrc/flexible_flash_attention`) | tile counter and work slots, range locks (turn and counter), mutexes, each SM's conflict state | hand out, take, wait, reduce, arrive | thread blocks | the deterministic order of accumulation, blocks that straddle lock blocks, deadlock |
| Solvers (`meta/solver`, `meta/algorithms`) | none across calls | dispatch, slicing, overlap staging | ranges, containers | exact cover of the mask, equal results on all ranks |
| Ranges, rectangles, masks (`common`) | lists of ranges | merge, holes, overlaps | solvers | boundaries, empty ranges |
| Runtime manager (`dist_attn_runtime_mgr.py`, `api`) | LRU of managers per group | get, set, evict | all ranks | ranks must hit and miss alike |
| Dispatch and roll (`functional`) | none | permute, batched send/receive | all ranks | who sends what to whom |
| JIT and kernel caches (`common/jit`, `kernel/cutedsl/cache_utils.py`) | files and lock files | load, export, clear | processes | time-outs, unlinked lock files |

Not part of the inventory of behaviour: environment variables, tests,
benchmarks, examples, experiments, docs, and the tensor arithmetic of the
attention kernels.

What makes each part correct, as far as it is modelled, is stated by the
properties of section 3; PROJECT.json lists under "hazards" each place where the
code could go wrong in a way that a test hardly reaches.

## 2. Modules

| Module | Models | State and actions |
|---|---|---|
| `Barrier` | what users of `barrier_block` rely on | ranks enter, leave when all have entered the same call, or trap |
| `BlockBarrier` | `barrier_block` | one lane per pair of ranks: `AddOwn`, `SubPeer`, `ReadSignal`, and per rank `Leave` (the warp vote passes), `PollAgain`, `TimeOut` |
| `BlockBarrierProofs`, `GroupCastProofs`, `GroupReduceProofs`, `SendHeadResetProofs`, `GroupCollectivesProofs`, `DeviceA2AVProofs`, `OverlapScheduleProofs`, `DeterministicLocksProofs` | - | the theorems of section 5, each about the module it is named for |
| `BoundedStream` | what a queue promises | produce, deliver and release positions of a stream within a capacity |
| `GroupCastChannel` | one cast queue | `AnnounceStart/End`, `BeginChunk`, `SkipToken`, `SendToken`, `EndChunk`, `SenderSync`, `PublishTail`; `ReadStart/End`, `PollTail`, `ReceiverSync1`, `LoadTail`, `CopyToken`, `EndCopy`, `ReceiverSync2`, `StoreHead`; time-outs of each side |
| `SendHead` | the meaning of `send_head` | `CastHead`, `ReduceHead`: pure operators used by the two modules below |
| `SendHeadReset` | the reset before a reduce | `LoadChunk`, `Broadcast`, `StoreChunk`, `EndPass` of one warp |
| `GroupReduceChannel` | one reduce channel with all its sources | `BeginRound`, `CopyShare`, `SenderSync`, `PublishTail`; warp 0's lanes `LoadTail`, `ScanWarp`, `StoreHead`, `LaneRetires`; `WaitForSources`, `ReadLse`, `Reduce`, `Retire`; time-outs |
| `GroupCollectives` | sequences of collectives over one buffer | the hosts `LaunchNotify`, `AwaitCount`, `LaunchMain`; the notify kernels `StartNotify`, `EnterBarrier` ... `Clear`; the main kernels `SendOffsets`, `SendToken`, `RecvOffsets`, `RecvToken`, `EndMain` |
| `InternodeCast` | `group_cast_kernel` between nodes: one channel, all nodes, the ranks with one NVL index | sender warps `SendMeta`, `CopyToken`, `Release`; their coordinator `Issue`; the network `Deliver`, `DeliverHead`; forwarder warps `ReadMeta`, `ForwarderSync`, `BeginRound`, `ForwardToken`, `StoreForwardHead`, `PublishNvlTail`, `Retire`; their coordinator `ReturnHead`; receiver warps `PollNvlTail`, `ReceiveToken`, `StoreNvlHead` |
| `InternodeReduce` | the group reduce between nodes after that cast: the cached notify and `group_reduce_kernel` | `CachedNotify`; NVL senders `ReadNvlHeads`, `SendChunks`, `PublishTails`; forwarder groups `RoomForChunk`, `ReduceOverPeers`, `IssueChunk`, `RetireForwarder`, their coordinator `StoreGatherHead`; RDMA receivers `Expect`, `ReduceOverNodes`, `RetireReceiver`, their coordinator `ReturnRdmaHead`; the network of the cast |
| `OrderedReduction` | what deterministic attention promises of its sums | a part enters some cells, once, and in order if the mode is deterministic |
| `DeterministicLocks` | dynamic tile schedulers, range locks and the epilogues that reduce (out and lse; dk and dv; dq) | producer warp `Hand`, `HandEnd`, `Retry`, `Prefetch`; reducing warps `Take`, `EnterBatches`, `Await`, `Lock`, `Load`, `Store`, `Add`, `Reset`, `Publish`, `Unlock` |
| `DeviceA2AV` | the device all-to-all-v: stream, `blockwise_barrier`, kernel | stream `CopyInput`, `CopySplits`, `Launch`, `EndKernel`; a block's threads `PutSignal`, `WaitSignal`; the block `LeaveBarrier`, `Exchange`, `Copy` |
| `OverlapSchedule` | `DistAttnFunc.forward`, `backward`, `_hide_tail_stage_reduce_backward` with two `KernelBarrier`s | the compute stream of a rank: `ResetBarrier`, `WaitKernel`, `LaunchKernels`, `WaitWorks`, `BeginCompute`, `EndCompute`; its comm streams: `Reach`, `Start`, `Finish` |

How they compose. `GroupCollectives` uses `Barrier` for every `barrier_block`;
`BlockBarrier` is shown (TLC and proof) to implement `Barrier`. It carries at
most one token per queue, because `GroupCastChannel` and `GroupReduceChannel`
check the queues in depth; both implement `BoundedStream`. `GroupReduceChannel`
takes `ReduceHead` as the contents of `send_head`, and `SendHeadReset` checks
that the reset produces exactly that from what the cast stored.
`DeterministicLocks` is shown to implement `OrderedReduction`. `InternodeReduce`
extends `InternodeCast`: one behaviour is a cast, the cached notify and the
reduce, over the same RDMA buffers and queue pairs, and the reduce waits for the
very heads that the cast has stored. These two and `DeviceA2AV` share no code with
the intranode queues and barrier.
`OverlapSchedule` stands above: a collective is there one symmetric kernel that
ends once all ranks run it, which is what `GroupCollectives` shows of them.

`OverlapSchedule` states what the three functions enqueue as sequences of steps
(`FirstStage`, `RemoteStage`, `LastSteps`), built from the same predicates as the
code (`IsLast`, `IsFirst`, `IsPenultimate`, `NoPrefetch`), and the actions run
the step a compute stream has reached. The host is not an actor: it never waits
for the GPU there, it enqueues in program order, and a collective waits for an
event recorded at its launch, so launching when the compute stream gets there
has the same behaviours. `StreamOf` gives each collective the comm stream of the
buffer it names. A cast without a cached handle (the first forward) has its
notify kernel meet the peers before it arrives at the barrier; all others, with
the fused notify of the default, arrive first.

`DeterministicLocks` runs one of three paths of the code, chosen by `config`.
`TileActs` writes down what the epilogue of a tile does as a sequence of
elementary actions, in the order of the code, and the actions execute its head:
so `deterministic_arrive` is an atomic add on the counter, a store that resets it
and a store that publishes the turn, three steps between which others run. The
tile order, the epilogues and the parts each row is owed are functions of
`config`, kept in variables that never change (`order`, `epilogue`, `owed`) so
that TLC computes them once. The producer may fetch its next index any time after
it has handed out a tile.

`InternodeCast` keeps the steps of the two coordinators, the transaction window
and the network apart. A queue pair executes what is posted to it in order, and a
put reads the send buffer when it is executed, not when it is posted; heads
travel on another queue pair and may arrive at any time. A forwarder's round-robin
search over the sources is a free choice among those that have data, since the
time of its look is free. The coordinator's loop over the forwarders' heads is one
step. Channel 0 with freshly cleaned metadata is modelled, with `kCachedMode` off;
`config.window` stands for `WARP_SIZE`.

In `InternodeReduce` the reduce has sizes of its own (`ReduceSizes`), since each call
takes its `Config`. What the sources hold is `recv` of the cast; a partial
result is a function from the peers (or nodes) that were combined to what was read
in their slots, so a result shows whose data entered. The caches of tails in the
registers of forwarders and receivers are left out: a lane reads again until the
tail is past its head, so only the tail matters; the NVL sender's cached heads
are kept, because they decide which lanes a round serves. The retirement of a
warp, which takes it out of a coordinator's minimum, is a step of its own. A group or a receiver warp without
any token retires at the start: nobody waits for it.

Many instances in one run. Where a kernel's behaviour depends on sizes, the
sizes are fields of an input variable `config`, with the assertions of the host
code as `ConfigAccepts`, and the initial states of a run range over a few
configurations that each make another part of the kernel busy
(`GroupReduceChannel`, `InternodeReduce`, `DeterministicLocks`, `DeviceA2AV`).

Granularity. An access to memory that another GPU or another warp may touch is
a step of its own: each atomic of the barrier, each load of a head or tail, the
copy of one token, the store of a head or tail, the scan of one warp's head.
Within a step fall only private registers and data that no one else may touch.
A lane is modelled where lanes act differently (barrier lanes, warp 0's lanes in
the reduce); otherwise a warp is the actor, as its lanes run between
`__syncwarp`. `sync_warp_group` is a step that all warps of a group take
together. Named operators such as `RoomForChunk`, `VotePasses` or `NextHead` are
the conditions of the code, so that a reader can compare them line by line; next
to some of them stands a "Mutation:" operator, the form a plausible bug would
give it. No specification uses those.

Abstractions. Tokens are numbers, and a slot is the token it holds, since hidden
values, lse and source index are written and read together (in the reduce the
lse is kept apart, because the code loads it separately and through another
cache). Data groups (2nd, 3rd), TMA stages, vector types, reduce operators and
dtypes are left out. `clock64` is abstracted: a loop that the code bounds by
`NUM_TIMEOUT_CYCLES` may trap if the constant `TimesOut` allows it. Memory is
sequentially consistent. In `DeviceA2AV` a row is one element, and
`Exchange` and `Copy` of a block are one step each: what they read is filled
before and stays until the barriers. In `DeterministicLocks` the numerics of a
tile are its part, a number; the parts of a row are a sequence in the order of
entry. The internode modules have no time-outs. `GroupCollectives` leaves out all time-outs (device
and host), argument checks and CUDA events: the order on a rank's comm stream is
the order of launches.

## 3. Runs

All bounds are named constants. "States" are distinct states.

| Run | Instance | Properties | Shows |
|---|---|---|---|
| `barrier` | 2 ranks, 3 calls, time-outs; 2.1k states | `TypeOK`, `BarrierSafety`, `SignalsSuffice`, `ImplementsBarrier`, `AllCallsReturn` | nobody leaves early; a signal is -1 only for the next call; refinement; all calls return unless a clock expires (safety is proved for any number of ranks and calls) |
| `cast_channel` | 5 tokens, 3 warps a side, ring 3, chunk 2, offset 3, time-outs; 378k | `UnreadSlotsIntact`, `WarpsAgreeOnTail`, `CompleteAtEnd`, `Completes`, `ImplementsStream` | no unread slot is overwritten, tokens arrive once and at their place; no deadlock between the two kernels; refinement (safety is proved for all sizes) |
| `send_head_reset` | 7 tokens, warp of 3, 2 passes; 3.7k | `ResetIsCorrect`, `CodesAreFinal` | the scan is right across lanes and chunks, and idempotent (proved for all sizes) |
| `reduce` | `TwoSources` (3 tokens, 2 reduce warps, ring 2, chunk 1) and `TwoSendWarps` (5 tokens, 2 reduce warps, ring 3, chunk 2, lse, time-outs); 660k | `TypeOK`, `PendingSlotsIntact`, `ReducedFromItsSources`, `Completes`, `ImplementsStreams` | the minimum head frees nothing still needed; the tail waits for the slowest send warp; the smallest ring that suffices does suffice; refinement (safety is proved for all sizes) |
| `reduce_stuck` | 1 source, 4 tokens, 3 reduce warps, ring 2, chunk 1 | `Completes`, violated | finding 1 |
| `reduce_lse_reuse` | 1 source, 3 tokens, ring 2 | `LseMatchesHidden`, violated | finding 2 |
| `collectives` | 2 ranks, 3 collectives of 4 kinds, counts that change from handle to handle; 398k | `MetadataIsCurrent`, `NothingIsLost`, `DeliveredIsSent`, `PrefixIsTrue`, `RecvCountIsRight`, `Completes` | metadata of successive collectives never mix, hosts running ahead; all complete (safety is proved for any number of ranks and collectives and all counts) |
| `overlap_schedule` | 2 ranks, 1 to 3 remote stages, 3 kinds of pass, qo comm, cached or not; 15k | `ComputeAfterCollectives`, `StagesReadFinishedData`, `GradientsHaveOneWriter`, `ResultIsComplete`, `PrefetchWaitsForReduce`, `Completes` | attention kernels start after the collectives they overlap with and on finished data; no `wait_kernel` spins for ever (safety is proved for any number of ranks and stages) |
| `deterministic_locks` | 2 SMs; forward with overlapping batches (one shifted, one skipped, two groups of heads, an empty tile), forward without determinism, dkv with 2 heads a group, dq with 2 key blocks in both directions; 68k | `TypeOK`, `TurnIsEarned`, `ImplementsReduction`, `Completes` | a turn is published only when all parts below it are in; parts enter once, in one order; no tile waits for ever (safety and the refinement are proved for any number of SMs and every call that `ConfigAccepts`) |
| `deterministic_dq_hang` | 2 SMs, 3 heads, one merged group of 2 batches | `Completes`, violated | finding 3 |
| `device_a2av` | 2 ranks, 2 calls with other splits, one empty; and 1 rank whose 3 blocks share 0 to 13 rows; 127k | `BlocksMeet`, `PadReturnsToZero`, `OutputIsExact`, `Completes` | no block leaves a barrier early, although one pad serves all; calls never mix; the shares cover the rows once (the safety properties are proved for all sizes and splits) |
| `internode` | cast, notify, reduce on 2 nodes: 2 peers, 2 sender warps and chunk 1 within a node; both nodes to one, one token for both; two sources through one NVL ring; 3 tokens round rings of two; chunks of 2 of 5 tokens to two peers with a window of 2; one or two warps per destination in the reduce; 268k | `SlotsIntact`, `ResultsAreExact`, `KernelsComplete` | no slot of either level is overwritten before its slowest reader, in either direction; every peer gets its tokens in order and every token is reduced from exactly what was sent; late heads never starve the senders |

A comment in the reduce asks why the RDMA receivers record `expected_head` and not
`expected_head + 1` like the forwarders (`internode_kernel.cuh:1700`): they record
it before they wait and read, so the position itself is still needed. With the
other form (a mutant of `HeadBefore`) `SlotsIntact` fails.

`PrefetchWaitsForReduce` records something that the comments do not say. The
backward passes announce that the reduce of stage `i` is "overlapped with
(i+1)th bwd partial attn" (`dist_attn.py:3711`). But the dkv reduce goes through
the buffer of the prefetches (the "HACK" in `reduce_partial_dq_dkv`), so on
their common comm stream the prefetch of stage `i+2` starts after that reduce
has ended, and the attention kernel of stage `i+1` waits for the prefetch to
start. Only a stage that prefetches nothing can overlap with the reduce before
it. With the buffers that are commented out the property fails.

Why the bounds are enough. In each queue there are more tokens than slots, so
the ring wraps and every slot is reused; the chunk neither divides the number of
tokens nor the ring, so last chunks are partial; the pattern of tokens sent is
chosen freely at the start, so runs of skipped tokens of every length occur,
also an empty channel. Three warps are needed in the cast for a warp that is
neither the first (publishes, polls) nor the last (stores the head). In the
barrier two successive calls show the reuse of a signal, and the third adds a
return to a state already seen; more ranks are covered by the proofs. Three collectives are needed so that a cast, a reduce and
another cast follow each other in every order; `SlotWords` makes the data of one
reach the metadata words of the other. `NumColls`, `MaxCalls`, `NumPasses` and
`MaxDegree` bound the models, not the code; with three remote stages one is
first, one penultimate and one last, and three ranks were tried as well (354k
states, no error). Two SMs suffice for a tile that waits for one that runs at the
same time and for one whose SM has skipped a batch; a block of two rows can straddle
two lock blocks and share one with another batch. In `DeviceA2AV` two calls
are four barriers on one pad; three blocks with unroll 2 and block size 2 have a
full share, a rest and a share past the end. In `InternodeCast` two warps release
out of order and fill a window of two; two peers make a fast and a slow forwarder;
five tokens in chunks of two leave a rest; rings of two to four slots are used
again. In the reduce the two warps of a group, and two receivers, make the minimum
over heads differ from each; tokens that skip a peer need the codes of the reset. `WARP_SIZE`, the ring sizes and the chunks are smaller than in the code
only in number: the relations that the host asserts hold (`ConfigAccepts`).

`CHECK_DEADLOCK FALSE` appears only where the model really stops
(`BlockBarrier`, also because a peer may trap; `SendHeadReset` after the last
pass; the others when all kernels have returned, where `Completes` is checked
instead, which is the stronger check). The channel models of one node have an
explicit `Terminated` step, so for them TLC's deadlock check is a check of the
code as well.

Fairness. All warps of a running kernel are resident and the hardware schedules
each: weak fairness per warp (per lane and side, in the barrier). A poll loop
repeats: weak fairness of polling again. That a clock expires is always possible
where `TimesOut` is set and never certain, so no progress property leans on it.
Hosts return from their calls (`GroupCollectives`): weak fairness of each. That
all ranks call the same collectives is assumed (weak fairness of `Enter` in
`BlockBarrier`, the common `plan` of `GroupCollectives`), never that a
peer is fast. In `OverlapSchedule` the head of every stream is
eventually scheduled: the attention kernels end and leave SMs free, and the
`wait_kernel` takes one thread. The kernels of two ranks must run at the same time; the comm stream
of each rank is in order. In `DeterministicLocks` the grid is
persistent, one thread block per SM, so all are resident and each is scheduled:
weak fairness of the producer and of the reducing warps of each SM, none of the
order in which SMs take tiles. In `DeviceA2AV` a kernel has at most eight blocks per rank, fewer
than a GPU has SMs, so all are resident; in `InternodeReduce` every step uses up a
token, a transaction, a posted operation or a slot to be freed. In both, no run is infinite, so weak
fairness of the whole system is enough:
it only says that the threads and the network do not all stop.

Every property of a passing run has a mutant in PROJECT.json: the definition of
the code it depends on is replaced by the "Mutation:" form, and the property then
fails.

## 4. Findings

1. `reduce_stuck`. `Config` accepts every chunk smaller than the queue
   (`csrc/comm/grpcoll/config.hpp:81-84`). In the reduce, warp 0 frees only what
   all reduce warps have passed, and a warp passes a position only when it has
   reduced its own next token. The receiver can thus hold one slot for each other
   reduce warp, and a sender that wants a whole chunk at once waits for ever if
   `QueueSize < ChunkSize + NumReduceWarps - 1`. The kernels are launched with 24
   warps for up to four ranks (23 reduce warps), the default queue of 256 with
   chunks of 8 is far from the limit; a queue of 16 is accepted and is not.
   The internode reduce has an "Extra check for avoid-dead-lock design"
   (`buffer.cpp:1950`, and `kernels/internode.cuh:313-322`). It relates the NVL queue
   to the chunks but not to the warps of a forwarder group, which hold slots back in
   the same way: with three warps, both chunks 3 and 4 slots per queue, all asserts
   hold, and added to `Sizes` (six tokens for one peer) this violates
   `KernelsComplete`. After the first chunk the warps stand at 1, 2 and 3, one
   slot is free again, and the sender waits for three, the group for the next token.
   The default configurations leave enough room.
2. `reduce_lse_reuse`. The reduce loads lse by `__ldg`
   (`kernels/intranode_kernel.cuh:1032`, 1137), the read-only cache, from slots
   that peers rewrite while the kernel runs. The cache is not kept coherent, so
   after the ring wraps a load may return the lse of the slot's previous token.
   The model lets a line, once cached, be returned again; the load for hidden
   values goes around the cache in the default build (`utils.cuh:400-410`).
3. `deterministic_dq_hang`. The storer of dq in the backward kernel keeps, per SM
   and lock block, the last batch that was entered (`dq_determin_conflict_state`,
   `mainloop_bwd_sm90_tma_gmma_ws.hpp:2206`), without the head and without ever
   clearing it. With RangeMerge a tile enters the earlier batches of its group
   before it visits a later one. When the SM then takes the tile of another
   head of the same group, block 0 of keys finds its own batch recorded
   and waits for an arrival that only the tile itself can make, after it has stored.
   It takes more tiles than SMs in a group. The tests
   (`src/tests/test_attn/test_flex_flash_attn.py:300`, 412) list deterministic
   together with range_merge; the host rejects only deterministic with the inner
   loop over k.

Read in the code next to finding 3, without a run: a tile that the mask leaves
empty altogether passes through with `offset_q` and `last_n_block`
uninitialised (same file, 2273-2276; only with more queries than keys in a
bi-causal mask); batches that are skipped inside a merged group never arrive; key
block 0 of a second batch may wait for the last key block of the first when their
queries share a lock block and the key blocks are more than the SMs; and a shifted
range of length zero marks the conflict state although no tile of it arrives. The configurations of `deterministic_locks`
avoid these, so its `Completes` speaks of the rest.

## 5. Proofs

`BlockBarrierProofs` proves about `BlockBarrier`, for every finite non-empty
set of ranks, every `MaxCalls` and with or without time-outs (the named
assumptions of the module): `TypeCorrect`, `Safety`, `SignalBound`,
`SignalsReturnToZero`, `StableArrival` and `Refinement` (that `BlockBarrier`
implements `Barrier`).

None of these is inductive as it stands. The argument counts: the signal of `r`
for `t` is the number of tags `r` has added less the number `t` has subtracted,
`signal[r][t] = Added(r, t) - Subtracted(t, r)`, and both numbers follow from
`entered` and from how far the lane is. `IInv` has the types, that lanes are
idle exactly outside a call (`LanesFollowPhase`), that equation
(`SignalsCount`), that a lane that has seen its signal is right about the peer
(`SeenMeansArrived`), and that a rank outside its `k`-th call has peers that
have subtracted `k` times (`PeersArrived`). For every action a lemma states its
effect entry by entry, a second one what it does to the two numbers; the
invariant follows per conjunct. The properties are consequences of `IInv`,
`StableArrival` and `Refinement` of `IInv` and one step.

`GroupCastProofs` proves about `GroupCastChannel`, for every number of tokens and
warps, every pattern of tokens sent, every start offset, all sizes that
`ConfigAccepts`, with or without time-outs: `TypeCorrect`, `SlotsIntact`
(`UnreadSlotsIntact`), `WarpsAgree` (`WarpsAgreeOnTail`), `Complete`
(`CompleteAtEnd`) and `Refinement` (`ImplementsStream`). No property says why
many private copies of a tail may be published by one warp. `IInv` does: all send
warps of a round started from one tail (the round's), each stands at that tail
plus what it has counted since, stays in the chunk it has room for, and a token's
slot follows from its position, the number of sent tokens before it
(`Below`); the slots between head and tail hold the tokens at these
positions. On the receiver, `RoundHead` is the head from which this round
copies, stored or still in the hands of the last warp; everything below it has
arrived, and each warp has copied its turns up to its own index. That two
positions less than a ring apart have distinct slots is a lemma (`DistinctSlots`).

`GroupReduceProofs` proves about `GroupReduceChannel`, for every set of sources,
every number of tokens, send and reduce warps, all sizes that `ConfigAccepts`,
with or without time-outs: `TypeCorrect`, `SlotsIntact` (`PendingSlotsIntact`),
`Reduced` (`ReducedFromItsSources`) and `Refinement` (`ImplementsStreams`).
For the senders `IInv` says that all warps of a source are in one round, which
starts at `Base`, that those at the meeting point have copied their share, and that
whoever copies has room. For the receiver it relates what frees slots to what
is still needed: as long as a token is pending, the head of the warp that will reduce
it, the minimum of the scan if it has passed that warp, and the stored head are at
most the token's position. The scan races with the warps, but warp heads only
grow, so a minimum of old values is safe; a retired warp, which the scan skips,
has nothing pending. A skipped source must leave a code from which the next
position follows (`EntryOf`, from the definition of `ReduceHead`).

`SendHeadResetProofs` proves about `SendHeadReset`, for every number of tokens,
lanes and passes: `TypeCorrect`, `ResetCorrect` (`ResetIsCorrect`) and `CodesFinal`
(`CodesAreFinal`). The invariant is that of a backward scan, lane by lane: what
lies behind the current lane is already what the reduce expects, what lies before
it is as the pass found it, and `last_head` is the next position behind.
Together with `GroupReduceProofs`, which takes that contents of `send_head` as
given, it closes the argument from what a cast stores to what a reduce combines.

`GroupCollectivesProofs` proves about `GroupCollectives`, for every number of
ranks and collectives, every plan of kinds, all counts and any size of the data
of a queue: `CurrentMetadata` (`MetadataIsCurrent`), `NoLoss`
(`NothingIsLost`), `ExactDelivery` (`DeliveredIsSent`), `TrueMatrix`
(`PrefixIsTrue`) and `TrueCount` (`RecvCountIsRight`). The properties speak of the
words of one rank's buffer, which peers write while they are elsewhere in their
programs, so `IInv` first bounds how far apart ranks are (`StreamInv`): the
barriers cut every collective into segments, and two ranks are in one segment or one
of them is still inside the barrier between theirs (`Together`, from `Barrier` as it
stands). `MemoryInv` says segment by segment what the words hold: rows of peers that
have left barrier 1, the sums, zeroes from the clearing on, and after barrier 3
what the queues of this very collective have written. That words of different use do
not overlap, although a cast and a reduce lay them out differently over the same
memory, are lemmas about the layout. `HostInv` ties the launches to the
streams: a host reads the mapped counter only between the reset and the launch
that belongs to it. The prefix of a column of counts is a fold over the ranks, about
which the lemmas know its steps; the data of a queue needs at least one word.

`OverlapScheduleProofs` proves about `OverlapSchedule`, for every set of ranks,
every overlap degree, all three kinds of pass, with and without communication of q and
with cached handles or not: `TypeCorrect`, `CountersFit` (`NoArrivalIsLeft`),
`OverlapIsOrdered` (`ComputeAfterCollectives`), `StagesAreFed`
(`StagesReadFinishedData`), `OneWriter` (`GradientsHaveOneWriter`),
`CompleteResult` (`ResultIsComplete`) and `PrefetchIsLate`
(`PrefetchWaitsForReduce`). The program of a compute stream depends on the place
alone, and so does `Inv`. For every block and step it states which
collectives are launched there (`LaunchedBy`), which of them a
`wait_kernel` has seen begin (`SyncedBy`), whose arrivals a counter may hold
(`CountedBy`), which works have been awaited (`WaitedBy`), and what has been computed
(`NumComputed`). The invariant compares the state with these: what is
computed and busy (`InPlace`), each comm stream holds what is launched on it and not
finished, in the order of the launches (`QueuesInOrder`), a counter counts exactly
the arrivals of the kernels since its reset (`BarriersHold`), and what is awaited is
finished (`WorksHold`). A table of the steps (`StepTable`) and one of what they
change (`Follows` and the lemmas about it) reduce an action to a
comparison of two places; the kernels of other ranks matter only through
`Reach` and `Finish`. A barrier counts what is launched since its reset
and no more, because everything launched under the reset before was synchronised, so it had
arrived already.

`DeterministicLocksProofs` proves about `DeterministicLocks`, for every number of SMs
and every call that `ConfigAccepts` (all three paths, any batches and merged groups,
heads, block sizes and masks, deterministic or not): `TypeCorrect` (`TypeOK`),
`TurnsAreEarned` (`TurnIsEarned`) and `Implements` (`ImplementsReduction`). The
configurations that hang (finding 3) are among these: what is proved is that no sum is
ever wrong, not that it is ever finished.

No property mentions where a tile is, and everything depends on it. A tile is fresh (its
index not handed out), with a producer, in a slot, taken ahead or current, never in two
of these (`OnePlace`; the numbering of the tiles is a bijection,
`BlockIdxBijective`), and `todo` of a current tile is a suffix of its epilogue
(`AllSuffix`). So each action of each epilogue is done or remains (`Done`, `Remains`),
and one step changes this for one action of one tile. `Inv` relates the state to what
is done:

- `ConflictInv`: what an SM keeps or hands on as the batch to wait for is past every
  earlier batch that touches the lock block (`Covers`).
- `TurnMeansArrived`, `AwaitMeansReached`: below a turn all arrivals are done; a wait that
  is done has seen all turns before its own part. The second follows from
  `ConflictInv`, because a tile waits for the batch named to it only, not for all before.
- `CountInv`, `EndingInv`: a counter is the weight of the arrivals at the part whose turn
  it is, and while one tile resets it and publishes the next turn, that tile is the only
  one that does and all of that part have arrived. Here it matters that a lock
  block is shared by at most two blocks of one batch, and that a block which shares none
  counts twice (`AddCount`).
- `SumInv`, `MutexInv`, `LoadedInv`: a part is in a sum exactly when its store is done;
  one tile at a time is between a lock and its unlock; what the forward pass has
  loaded is still what is in the sum when it stores.

The shape of an epilogue (`EpilogueShape`) is what makes one action speak about another:
the actions of a visit come in the order await, lock, load, store, arrive at the right,
arrive at the left, unlock; add, reset and publish are adjacent. It comes from lemmas
about the concatenations that `TileActs` is built from. A turn is earned, since below it
all arrivals are done, arrivals come after stores, and stores put the part in the
sum. A step of the refinement is a store: its part is owed, not yet in, and in
deterministic mode greater than all that are in. The assumption on the call is
`ConfigAssumption`: what the types say, at least one range, and starts of merged
groups as `unique_consecutive_pairs` returns them (`IsCumulative`).

`DeviceA2AVProofs` proves about `DeviceA2AV`, for every number of ranks, blocks and
calls, all splits, unroll factors and block sizes: `Meet` (`BlocksMeet`), `PadZero`
(`PadReturnsToZero`) and `Exact` (`OutputIsExact`). As in `barrier_block` the argument
for the barrier counts, but the signals are compare-and-swaps on 0 and 1: a word of the
pad is the number of signals the peer has put less the number this rank has taken,
over all barriers of all calls. From it follows that neither count is ever more than
one ahead. For the copies `DataInv` says what is in the buffers of a call
(`BuffersFilled`), that the offsets a block has exchanged are the sums of the splits
(`OffsetsRight`), and that the shares that were copied are in place
(`SharesCopied`). A block reads the memory of other ranks only between its two
barriers, and then all ranks are in the kernel of the same call (`Together`, from
`BlocksMeet`: one barrier left is an odd number in every call). The lemmas below this are
about arithmetic: the unrolled region and the rest of a block are what its range leaves
of the rows, also when it starts behind the last one (`ShareIsRange`), all blocks
together cover them (`SharesCover`), and sums of prefixes give every row a place of its
own (`TotalsFit`, `PlacesDiffer`, `PlaceOf`). The sums and concatenations are those of
the community modules, which are defined by recursive functions; that such functions exist
and what they return is shown by a smallest set, or length, without the property
(`SumIsCardinality`, `FlattenAt`), since induction cannot be cited.

The assumptions are the named `ASSUME`s of the modules (finite sets, the types of
the sizes, what the host asserts of them); TLC evaluates them in the runs. No
fairness is used. Most obligations are proved by the SMT solver.

Only model-checked: all liveness (temporal proofs under fairness are out of the
prover's reach), and the two invariants of the internode kernels (`SlotsIntact`,
`ResultsAreExact`), which relate four kinds of warps, their coordinators and the
network over two levels of rings in both directions. `TypeOK` and
the queue properties that the table does not list with a run are consequences of
the theorems.

## 6. Not modelled

- Of the internode path `notify_group_cast`, the cached mode of the cast and the
  time-outs. The notify kernel is a barrier of NVSHMEM and the counting that
  `GroupCollectives` models within a node; the cached notify before a reduce is one
  step, `CachedNotify`, because both of its barriers cover all ranks.
- Low-latency path (`kernels/internode_ll.cu`): buffers by parity and flags over
  IBGDA, whose ordering is that of device queues of which this repository only
  contains the posting side.
- Buffer setup and destruction: an exchange of handles by torch, one barrier,
  straight-line code on one host thread.
- Layout kernels (`kernels/layout.cu`): counting without interaction.
- Python collectives and the buffer manager: tables filled once per process group
  in program order. The fallback by NCCL's all-to-all-v and the hierarchical variant
  rearrange arguments; they keep no state.
- Solvers, ranges, rectangles, masks, meta collections and containers:
  sequential, pure planning over intervals. Their contract (the stages cover
  the mask once, the same plan on all ranks) is over inputs too wide for an
  exhaustive check of small ones to add to the repository's tests.
- The runtime manager's LRU cache (`api/magi_attn_interface.py:65`): whether ranks
  hit and miss alike depends on the keys user code passes, which the repository
  does not determine.
- Dispatch, undispatch and roll: permutations of chunks and one batch of
  sends and receives matched by NCCL.
- Compilation caches (`common/jit`, `kernel/cutedsl/cache_utils.py:148`): advisory
  locks and files of the operating system, outside the attention runtime.
- CuTe-DSL, FA4 and SDPA kernels and the arithmetic of the flexible flash
  attention kernels: numerics.
- The memory model below sequential consistency: `intranode_kernel.cuh:986` (a
  volatile shared tail without a fence between the warp that acquires it and those
  that read slots) depends on what the architecture orders. `intranode_kernel.cuh:868`
  (warp 0 takes part in the initialisation with row -1 of an array, one before its
  first) has the effect that the compiler's layout of shared memory gives it; the
  model starts from the intended contents.

These make up most of the repository's lines: the map covers the control of the
kernels and of the stages, not the breadth of the Python planning and of the
attention kernels' numerics.
