---------------------------- MODULE InternodeReduce ----------------------------
(***************************************************************************)
(* group_reduce_kernel between nodes (csrc/comm/grpcoll/kernels/              *)
(* internode_kernel.cuh) after the group cast whose handle it uses.  It runs   *)
(* the two levels of queues backwards: the peers of a node write what they     *)
(* hold for each token into NVL queues, one for each peer and destination      *)
(* node; a group of forwarder warps for each destination reduces over the      *)
(* peers and sends the partial results by RDMA in chunks; receiver warps at     *)
(* the token's own node reduce over the nodes.                                *)
(*                                                                         *)
(* The positions it waits for are the heads that the cast stored, after the    *)
(* reset.  The RDMA buffers, heads and tails and the network are those of      *)
(* InternodeCast; here sendSlot[r][d], wire[r][d], rdmaHead[r][d] belong to    *)
(* the forwarders of r for d, rdmaSlot[d][r], rdmaTail[d][r], headWire[d][r]   *)
(* and returned[d][r] (last_rdma_head) to the receivers of d.  A partial       *)
(* result is a function from the peers (nodes) combined to what was read.     *)
(***************************************************************************)
EXTENDS InternodeCast

CONSTANTS
  ReduceSizes,   \* for each configuration, the sizes a reduce may have: see SizesType
  LargeHead      \* 1 << 25

INSTANCE SendHead

SizesType ==
  [warps : Nat \ {0},                             \* kNumWarpsPerForwarder
   rdmaChunk : Nat \ {0}, rdmaSlots : Nat \ {0},
   nvlChunk : Nat \ {0}, nvlSlots : Nat \ {0}]

ASSUME SizesAssumption == ReduceSizes \in [Configs -> SUBSET SizesType]

\* What the constructor of Config and the launch assert.
ReduceAccepts(z) ==
  /\ z.nvlChunk < z.nvlSlots
  /\ z.rdmaChunk <= z.rdmaSlots \div 2 /\ z.rdmaSlots % z.rdmaChunk = 0
  /\ z.nvlSlots % config.ranks = 0
  /\ z.nvlSlots \div config.ranks > Max({z.rdmaChunk, z.nvlChunk})
  /\ z.rdmaChunk >= z.warps
  /\ config.ranks * z.warps > config.peers

VARIABLES
  kernel,         \* the kernel that runs, "cast" or "reduce"
  sizes,          \* the Config the reduce is called with
  gatherNext,     \* gatherNext[r][p][d]: cached_channel_tail_idx of the NVL sender of peer p
  gatherSeen,     \* gatherSeen[r][p][d]: its cached_channel_head_idx
  gatherReady,    \* gatherReady[r][p]: the lanes that are ready, once they have sent
  gatherSlot,     \* gatherSlot[r][p][d][i]: nvl_channel_x
  gatherTail,     \* gatherTail[r][p][d]: nvl_channel_tail
  gatherHead,     \* gatherHead[r][p][d]: nvl_channel_head, last_nvl_head
  chunkPc,        \* chunkPc[r][d]: what the forwarder group of r for d does next
  chunkStart,     \* chunkStart[r][d]: its token_start_idx
  chunkToken,     \* chunkToken[r][d][w]: token_idx of its warp w
  groupHead,      \* groupHead[r][d][w][p]: shared_head
  groupRetired,   \* groupRetired[r][d]: the warps with warp_retired
  finalPc,        \* finalPc[s][w]: what RDMA receiver warp w does next
  finalToken,     \* finalToken[s][w]: its token_idx
  finalHead,      \* finalHead[s][w][r]: its shared_head
  reduced         \* reduced[s][t]: reduced_x

gatherVars == <<gatherNext, gatherSeen, gatherReady, gatherSlot, gatherTail>>
groupVars == <<chunkPc, chunkStart, chunkToken, groupHead, groupRetired>>
finalVars == <<finalPc, finalToken, finalHead, reduced>>
reduceVars == <<kernel, sizes, gatherVars, gatherHead, groupVars, finalVars>>
allVars == <<vars, reduceVars>>
bufferVars == <<sendSlot, wire, headWire, rdmaSlot, rdmaTail, rdmaHead, returned>>
\* What the reduce leaves alone from the cast.
castVars == <<config, started, token, releasing, windowTail, window, sendRdmaHead, issued,
              meta, forwarderVars, receiverVars>>

NvlQueueSize == sizes.nvlSlots \div config.ranks   \* num_max_nvl_chunked_recv_tokens_per_rdma
GroupWarps == 0 .. sizes.warps - 1
NumReceivers == config.ranks * sizes.warps - config.peers
Receivers == 0 .. NumReceivers - 1
NotReduced == [r \in {-1} |-> NoToken]

\* reset_{rdma,nvl}_head_before_group_reduce_func: an entry -1 becomes the code of
\* the next valid one, or of a large number.
ResetHead(heads, i) ==
  LET valid == {j \in DOMAIN heads : j >= i /\ heads[j] >= 0}
  IN  IF heads[i] >= 0 THEN heads[i]
      ELSE Encode(IF valid = {} THEN LargeHead ELSE heads[Min(valid)])

KernelsInit ==
  /\ Init
  /\ kernel = "cast" /\ sizes = <<>>
  /\ gatherNext = <<>> /\ gatherSeen = <<>> /\ gatherReady = <<>> /\ gatherSlot = <<>>
  /\ gatherTail = <<>> /\ gatherHead = <<>>
  /\ chunkPc = <<>> /\ chunkStart = <<>> /\ chunkToken = <<>> /\ groupHead = <<>> /\ groupRetired = <<>>
  /\ finalPc = <<>> /\ finalToken = <<>> /\ finalHead = <<>> /\ reduced = <<>>

(***************************** the cached notify ****************************)
\* Between two barriers of all ranks, when all work requests are executed: heads
\* and tails become 0, what the slots hold is stale, the heads of the handle are
\* reset.  A group or a receiver warp without a token retires at once.
CachedNotify(z) ==
  /\ kernel = "cast" /\ Finished
  /\ wire = PerPair(<<>>) /\ headWire = PerPair(<<>>)
  /\ ReduceAccepts(z)
  /\ kernel' = "reduce" /\ sizes' = z
  /\ sendRdmaHead' = [s \in Ranks |-> [t \in Tokens(s) |-> [d \in Ranks |->
                        ResetHead([u \in Tokens(s) |-> sendRdmaHead[s][u][d]], t)]]]
  /\ sendNvlHead' = [r \in Ranks |-> [p \in Peers |-> [d \in Ranks |->
                        [i \in DOMAIN sendNvlHead[r][p][d] |-> ResetHead(sendNvlHead[r][p][d], i)]]]]
  /\ LET blank == [i \in 0 .. z.rdmaSlots - 1 |-> NoToken]
     IN  sendSlot' = PerPair(blank) /\ rdmaSlot' = PerPair(blank)
  /\ rdmaTail' = PerPair(0) /\ rdmaHead' = PerPair(0) /\ returned' = PerPair(0)
  /\ nvlSlot' = PerPeer(<<>>) /\ nvlTail' = PerPeer(0) /\ nvlHead' = PerPeer(0)
  /\ gatherNext' = PerPeer(PerSource(0)) /\ gatherSeen' = PerPeer(PerSource(0))
  /\ gatherReady' = PerPeer({})
  /\ gatherSlot' = PerPeer(PerSource([i \in 0 .. z.nvlSlots \div config.ranks - 1 |-> NoToken]))
  /\ gatherTail' = PerPeer(PerSource(0)) /\ gatherHead' = PerPeer(PerSource(0))
  /\ chunkPc' = [r \in Ranks |-> [d \in Ranks |-> IF NumSent(d, r) > 0 THEN "room" ELSE "done"]]
  /\ chunkStart' = PerPair(0)
  /\ chunkToken' = PerPair([w \in 0 .. z.warps - 1 |-> w])
  /\ groupHead' = PerPair([w \in 0 .. z.warps - 1 |-> [p \in Peers |-> 0]])
  /\ groupRetired' = [r \in Ranks |-> [d \in Ranks |-> IF NumSent(d, r) > 0 THEN {} ELSE 0 .. z.warps - 1]]
  /\ LET receivers == 0 .. config.ranks * z.warps - config.peers - 1
     IN  /\ finalPc' = [s \in Ranks |-> [w \in receivers |-> IF w \in Tokens(s) THEN "expect" ELSE "retired"]]
         /\ finalToken' = [s \in Ranks |-> [w \in receivers |-> w]]
         /\ finalHead' = [s \in Ranks |-> [w \in receivers |-> PerSource(0)]]
  /\ reduced' = [s \in Ranks |-> [t \in Tokens(s) |-> NotReduced]]
  /\ UNCHANGED <<config, started, token, releasing, windowTail, window, issued, wire, headWire, meta,
                 fwdPc, fwdRound, fwdHead, fwdTail, nvlSent, recvTail, recv>>

(****************************** the NVL senders *****************************)
\* The destinations for which peer p of r still holds tokens.
Tasks(r, p) == {d \in Ranks : gatherNext[r][p][d] < Len(recv[r][p][d])}

\* The lanes whose queue has room for a whole chunk, as far as the warp knows.
Ready(r, p) ==
  {d \in Tasks(r, p) : NvlQueueSize - (gatherNext[r][p][d] - gatherSeen[r][p][d]) >= sizes.nvlChunk}

\* None is ready: all lanes with a task read their heads.
ReadNvlHeads(r, p) ==
  /\ gatherReady[r][p] = {} /\ Ready(r, p) = {}
  /\ \E d \in Tasks(r, p) : gatherHead[r][p][d] # gatherSeen[r][p][d]
  /\ gatherSeen' = [gatherSeen EXCEPT ![r][p] =
                      [d \in Ranks |-> IF d \in Tasks(r, p) THEN gatherHead[r][p][d] ELSE @[d]]]
  /\ UNCHANGED <<castVars, bufferVars, kernel, sizes, gatherNext, gatherReady, gatherSlot, gatherTail,
                 gatherHead, groupVars, finalVars>>

\* Every ready lane in turn: a chunk of its tokens, or the rest.
SendChunks(r, p) ==
  LET n(d) == IF d \in Ready(r, p)
              THEN Min({sizes.nvlChunk, Len(recv[r][p][d]) - gatherNext[r][p][d]}) ELSE 0
      written(d) == [k \in gatherNext[r][p][d] .. gatherNext[r][p][d] + n(d) - 1 |-> recv[r][p][d][k + 1]]
  IN  /\ gatherReady[r][p] = {} /\ Ready(r, p) # {}
      /\ gatherReady' = [gatherReady EXCEPT ![r][p] = Ready(r, p)]
      /\ gatherNext' = [gatherNext EXCEPT ![r][p] = [d \in Ranks |-> @[d] + n(d)]]
      /\ gatherSlot' = [gatherSlot EXCEPT ![r][p] = [d \in Ranks |-> [i \in DOMAIN @[d] |->
                          IF \E k \in DOMAIN written(d) : k % NvlQueueSize = i
                          THEN written(d)[CHOOSE k \in DOMAIN written(d) : k % NvlQueueSize = i]
                          ELSE @[d][i]]]]
      /\ UNCHANGED <<castVars, bufferVars, kernel, sizes, gatherSeen, gatherTail, gatherHead,
                     groupVars, finalVars>>

PublishTails(r, p) ==
  /\ gatherReady[r][p] # {}
  /\ gatherTail' = [gatherTail EXCEPT ![r][p] =
                      [d \in Ranks |-> IF d \in gatherReady[r][p] THEN gatherNext[r][p][d] ELSE @[d]]]
  /\ gatherReady' = [gatherReady EXCEPT ![r][p] = {}]
  /\ UNCHANGED <<castVars, bufferVars, kernel, sizes, gatherNext, gatherSeen, gatherSlot, gatherHead,
                 groupVars, finalVars>>

(*************************** the forwarder groups ***************************)
ChunkEnd(r, d) == Min({chunkStart[r][d] + sizes.rdmaChunk, NumSent(d, r)})
ChunkSize(r, d) == ChunkEnd(r, d) - chunkStart[r][d]

\* Mutation: off by one.
HasRoomButOne(r, d) == sizes.rdmaSlots - (chunkStart[r][d] - rdmaHead[r][d]) + 1 >= ChunkSize(r, d)

HasRoom(r, d) == sizes.rdmaSlots - (chunkStart[r][d] - rdmaHead[r][d]) >= ChunkSize(r, d)

\* The first warp waits for room for the chunk, then the group starts on it.
RoomForChunk(r, d) ==
  /\ chunkPc[r][d] = "room" /\ HasRoom(r, d)
  /\ chunkPc' = [chunkPc EXCEPT ![r][d] = "reduce"]
  /\ chunkToken' = [chunkToken EXCEPT ![r][d] = [w \in GroupWarps |-> chunkStart[r][d] + w]]
  /\ UNCHANGED <<castVars, bufferVars, kernel, sizes, gatherVars, gatherHead, chunkStart, groupHead,
                 groupRetired, finalVars>>

\* Mutation: a token is taken when its slot is the next one.
ArrivedEarly(head, tail) == tail >= head

\* A lane waits while cached_channel_tail_idx <= expected_head.
Arrived(head, tail) == tail > head

\* The position to record for an expected head, when it has been used or skipped.
HeadAfter(head) == IF head < 0 THEN Decode(head) ELSE head + 1

\* A warp reduces its token over the peers, into the slot of the send buffer (of
\* the receive buffer, for the own node), and records its heads.
ReduceOverPeers(r, d, w) ==
  LET i == chunkToken[r][d][w]
      head == [p \in Peers |-> sendNvlHead[r][p][d][i + 1]]
      from == {p \in Peers : head[p] >= 0}
      partial == [p \in from |-> gatherSlot[r][p][d][head[p] % NvlQueueSize]]
  IN  /\ chunkPc[r][d] = "reduce" /\ i < ChunkEnd(r, d)
      /\ \A p \in from : Arrived(head[p], gatherTail[r][p][d])
      /\ IF d = r
         THEN /\ rdmaSlot' = [rdmaSlot EXCEPT ![r][r][i % sizes.rdmaSlots] = partial]
              /\ UNCHANGED sendSlot
         ELSE /\ sendSlot' = [sendSlot EXCEPT ![r][d][i % sizes.rdmaSlots] = partial]
              /\ UNCHANGED rdmaSlot
      /\ groupHead' = [groupHead EXCEPT ![r][d][w] = [p \in Peers |-> HeadAfter(head[p])]]
      /\ chunkToken' = [chunkToken EXCEPT ![r][d][w] = @ + sizes.warps]
      /\ UNCHANGED <<castVars, wire, headWire, rdmaTail, rdmaHead, returned, kernel, sizes, gatherVars,
                     gatherHead, chunkPc, chunkStart, groupRetired, finalVars>>

ChunkReduced(r, d) ==
  chunkPc[r][d] = "reduce" /\ \A w \in GroupWarps : chunkToken[r][d][w] >= ChunkEnd(r, d)
LastChunk(r, d) == ChunkEnd(r, d) = NumSent(d, r)

\* When the group has met, its last warp sends the chunk and adds to the tail.
IssueChunk(r, d) ==
  /\ ChunkReduced(r, d)
  /\ IF d = r
     THEN rdmaTail' = [rdmaTail EXCEPT ![r][r] = @ + ChunkSize(r, d)] /\ UNCHANGED wire
     ELSE /\ wire' = [wire EXCEPT ![r][d] =
                        @ \o Operations(chunkStart[r][d] % sizes.rdmaSlots, ChunkSize(r, d))]
          /\ UNCHANGED rdmaTail
  /\ chunkPc' = [chunkPc EXCEPT ![r][d] = IF LastChunk(r, d) THEN "done" ELSE "room"]
  /\ chunkStart' = [chunkStart EXCEPT ![r][d] = @ + sizes.rdmaChunk]
  /\ UNCHANGED <<castVars, sendSlot, headWire, rdmaSlot, rdmaHead, returned, kernel, sizes, gatherVars,
                 gatherHead, chunkToken, groupHead, groupRetired, finalVars>>

\* The last warp retires after it has sent the last chunk, the others need not wait.
RetireForwarder(r, d, w) ==
  /\ w \notin groupRetired[r][d]
  /\ \/ chunkPc[r][d] = "done"
     \/ ChunkReduced(r, d) /\ LastChunk(r, d) /\ w # sizes.warps - 1
  /\ groupRetired' = [groupRetired EXCEPT ![r][d] = @ \union {w}]
  /\ UNCHANGED <<castVars, bufferVars, kernel, sizes, gatherVars, gatherHead, chunkPc, chunkStart,
                 chunkToken, groupHead, finalVars>>

\* Mutation: the head of the warp that is ahead.
FreedByAny(heads) == Max(heads)

\* A slot is free when all warps that have not retired are past it.
FreedByAll(heads) == Min(heads)

\* The forwarders' coordinator; heads only grow, so a warp read too early makes
\* the minimum too small at most.
StoreGatherHead(r, d, p) ==
  LET heads == {groupHead[r][d][w][p] : w \in GroupWarps \ groupRetired[r][d]}
  IN  /\ heads # {} /\ FreedByAll(heads) > gatherHead[r][p][d]
      /\ gatherHead' = [gatherHead EXCEPT ![r][p][d] = FreedByAll(heads)]
      /\ UNCHANGED <<castVars, bufferVars, kernel, sizes, gatherVars, groupVars, finalVars>>

(**************************** the RDMA receivers ****************************)
\* Mutation: the head that counts the token itself ("why not expected_head + 1").
HeadBeforePlusOne(head) == HeadAfter(head)

\* The position to record for an expected head, before the warp waits for it.
HeadBefore(head) == IF head < 0 THEN Decode(head) ELSE head

Expect(s, w) ==
  LET t == finalToken[s][w]
  IN  /\ finalPc[s][w] = "expect" /\ t \in Tokens(s)
      /\ finalHead' = [finalHead EXCEPT ![s][w] = [r \in Ranks |-> HeadBefore(sendRdmaHead[s][t][r])]]
      /\ finalPc' = [finalPc EXCEPT ![s][w] = "reduce"]
      /\ UNCHANGED <<castVars, bufferVars, kernel, sizes, gatherVars, gatherHead, groupVars,
                     finalToken, reduced>>

ReduceOverNodes(s, w) ==
  LET t == finalToken[s][w]
      from == {r \in Ranks : sendRdmaHead[s][t][r] >= 0}
  IN  /\ finalPc[s][w] = "reduce"
      /\ \A r \in from : Arrived(sendRdmaHead[s][t][r], rdmaTail[s][r])
      /\ reduced' = [reduced EXCEPT ![s][t] =
                       [r \in from |-> rdmaSlot[s][r][sendRdmaHead[s][t][r] % sizes.rdmaSlots]]]
      /\ finalToken' = [finalToken EXCEPT ![s][w] = @ + NumReceivers]
      /\ finalPc' = [finalPc EXCEPT ![s][w] = "expect"]
      /\ UNCHANGED <<castVars, bufferVars, kernel, sizes, gatherVars, gatherHead, groupVars, finalHead>>

RetireReceiver(s, w) ==
  /\ finalPc[s][w] = "expect" /\ finalToken[s][w] \notin Tokens(s)
  /\ finalPc' = [finalPc EXCEPT ![s][w] = "retired"]
  /\ UNCHANGED <<castVars, bufferVars, kernel, sizes, gatherVars, gatherHead, groupVars,
                 finalToken, finalHead, reduced>>

\* The receivers' coordinator returns the head lazily, by at least a chunk.
ReturnRdmaHead(s, r) ==
  LET heads == {finalHead[s][w][r] : w \in {v \in Receivers : finalPc[s][v] # "retired"}}
      n == FreedByAll(heads) - returned[s][r]
  IN  /\ heads # {} /\ n >= sizes.rdmaChunk
      /\ returned' = [returned EXCEPT ![s][r] = @ + n]
      /\ IF s = r
         THEN rdmaHead' = [rdmaHead EXCEPT ![r][s] = @ + n] /\ UNCHANGED headWire
         ELSE headWire' = [headWire EXCEPT ![s][r] = Append(@, n)] /\ UNCHANGED rdmaHead
      /\ UNCHANGED <<castVars, sendSlot, wire, rdmaSlot, rdmaTail, kernel, sizes, gatherVars, gatherHead,
                     groupVars, finalVars>>

-----------------------------------------------------------------------------
CastStep == kernel = "cast" /\ Next /\ UNCHANGED reduceVars
NotifyStep == \E z \in ReduceSizes[config] : CachedNotify(z)
Network(r, d) == (Deliver(r, d) \/ DeliverHead(r, d)) /\ UNCHANGED reduceVars

ReduceStep(r) ==
  /\ kernel = "reduce" /\ r \in Ranks
  /\ \/ \E p \in Peers : ReadNvlHeads(r, p) \/ SendChunks(r, p) \/ PublishTails(r, p)
     \/ \E d \in Ranks :
          \/ RoomForChunk(r, d) \/ IssueChunk(r, d) \/ ReturnRdmaHead(r, d) \/ Network(r, d)
          \/ \E w \in GroupWarps : ReduceOverPeers(r, d, w) \/ RetireForwarder(r, d, w)
          \/ \E p \in Peers : StoreGatherHead(r, d, p)
     \/ \E w \in Receivers : Expect(r, w) \/ ReduceOverNodes(r, w) \/ RetireReceiver(r, w)

KernelsNext == CastStep \/ NotifyStep \/ \E r \in AllRanks : ReduceStep(r)

KernelsSpec == KernelsInit /\ [][KernelsNext]_allVars

\* Every step of either kernel uses up something finite (a token, a transaction, an
\* operation, a slot to be freed): that the system as a whole goes on is all the
\* fairness that is needed.
FairKernelsSpec == KernelsSpec /\ WF_allVars(KernelsNext)

(******************************** properties *******************************)
\* What the peers of r hold of token t of s, and what its reduction is.
Partial(s, t, r) == [p \in NvlPeers(s, t, r) |-> <<s, t>>]
Total(s, t) == [r \in Dests(s, t) |-> Partial(s, t, r)]

\* Whether the forwarders of r have reduced the token at position i of those for d.
Taken(r, d, i) ==
  LET start == (i \div sizes.rdmaChunk) * sizes.rdmaChunk
  IN  \/ start < chunkStart[r][d]
      \/ /\ start = chunkStart[r][d] /\ chunkPc[r][d] = "reduce"
         /\ chunkToken[r][d][(i - start) % sizes.warps] > i

\* In both kernels a slot of either level that is announced and still to be read
\* holds its own token or partial result: whoever reuses it learns that it is free
\* from the slowest of many warps, by positions stored for tokens it never got.
SlotsIntact ==
  IF kernel = "cast" THEN UnreadSlotsIntact
  ELSE /\ \A r, d \in Ranks, p \in Peers : \A i \in 0 .. NumSent(d, r) - 1 :
            LET h == sendNvlHead[r][p][d][i + 1]
            IN  h >= 0 /\ h < gatherTail[r][p][d] /\ ~Taken(r, d, i)
                  => gatherSlot[r][p][d][h % NvlQueueSize] = recv[r][p][d][h + 1]
       /\ \A s \in Ranks : \A t \in Tokens(s) : \A r \in Dests(s, t) :
            LET h == sendRdmaHead[s][t][r]
            IN  h < rdmaTail[s][r] /\ reduced[s][t] = NotReduced
                  => rdmaSlot[s][r][h % sizes.rdmaSlots] = Partial(s, t, r)

\* The cast delivers every token in order and leaves exact heads; with these the
\* reduce combines for each token exactly what the cast had sent, once from each
\* peer of each node, whatever warp and chunk it falls to.
ResultsAreExact ==
  IF kernel = "cast" THEN OutputIsExact
  ELSE \A s \in Ranks : \A t \in Tokens(s) : reduced[s][t] \in {NotReduced, Total(s, t)}

ReduceFinished ==
  /\ \A r \in Ranks, p \in Peers : Tasks(r, p) = {} /\ gatherReady[r][p] = {}
  /\ \A r, d \in Ranks : groupRetired[r][d] = GroupWarps
  /\ \A s \in Ranks, w \in Receivers : finalPc[s][w] = "retired"

\* All warps of the cast end, although heads are returned only by the chunk and a
\* token waits for a free slot at all of its nodes (config.hpp: the sizes are related
\* so that "senders always have space to push"); then all warps of the reduce, where
\* an NVL sender waits for room for a whole chunk that the slowest warp of a group
\* frees (buffer.cpp: "avoid-dead-lock design").
KernelsComplete == <>(kernel = "reduce" /\ ReduceFinished)
==============================================================================
