----------------------------- MODULE InternodeCast -----------------------------
(***************************************************************************)
(* group_cast_kernel between nodes (csrc/comm/grpcoll/kernels/               *)
(* internode_kernel.cuh): one channel, and the ranks of all nodes with one    *)
(* NVL index.  A token goes at most once to each node, by RDMA, and is         *)
(* forwarded there over NVLink to the peers that need it.  So there are two    *)
(* levels of queues: a ring of RDMA slots for each source and destination      *)
(* node, read by one forwarder warp per NVL peer, and a ring of NVL slots for  *)
(* each peer, in which the sources are mixed.                                 *)
(*                                                                         *)
(* A token, with its lse and src_meta, is <<source, token_idx>>.  Modelled is  *)
(* channel 0, whose prefixes start at 0, with kCachedMode off.                *)
(***************************************************************************)
EXTENDS Integers, Sequences, FiniteSets, SequencesExt, FiniteSetsExt, Functions

CONSTANT Configs    \* see ConfigType

ConfigType ==
  [ranks : Nat \ {0},        \* kNumRDMARanks
   peers : Nat \ {0},        \* NUM_MAX_NVL_PEERS
   warps : Nat \ {0},        \* kNumSenderWarps
   window : Nat \ {0},       \* transactions in the window, WARP_SIZE
   rdmaChunk : Nat \ {0}, rdmaSlots : Nat \ {0},  \* num_max_rdma_chunked_{send,recv}_tokens
   nvlChunk : Nat \ {0}, nvlSlots : Nat \ {0},    \* num_max_nvl_chunked_{send,recv}_tokens
   goes : Seq(Seq(Seq(SUBSET Nat)))]  \* goes[s][t][d]: the peers of d that token t of s is for

\* The constructor of Config aligns and bounds the sizes.
ConfigAccepts(c) ==
  /\ c \in ConfigType
  /\ c.nvlChunk < c.nvlSlots
  /\ c.rdmaChunk < c.rdmaSlots /\ c.rdmaChunk <= c.rdmaSlots \div 2
  /\ c.rdmaSlots % c.rdmaChunk = 0

ASSUME ConfigAssumption == \A c \in Configs : ConfigAccepts(c)

VARIABLES
  config,       \* input
  started,      \* the ranks whose sender warps have sent the channel meta
  token,        \* token[s][w]: the next token_idx of sender warp w
  releasing,    \* releasing[s][w]: where the token it has just copied is to be released
  windowTail,   \* windowTail[s][d]: rdma_send_channel_tail
  window,       \* window[s][d]: rdma_send_channel_window, the bits that are set
  sendSlot,     \* sendSlot[s][d][i]: the RDMA send buffer
  sendRdmaHead, \* sendRdmaHead[s][t][d]: send_rdma_head
  issued,       \* issued[s][d]: last_issued_tail of the sender coordinator
  wire,         \* wire[s][d]: the operations posted to the channel's queue pair
  headWire,     \* headWire[d][s]: the additions to the head, on a queue pair of their own
  meta,         \* meta[d]: the sources whose rdma_channel_meta has arrived
  rdmaSlot,     \* rdmaSlot[d][s][i]: the RDMA receive buffer
  rdmaTail,     \* rdmaTail[d][s]: rdma_channel_tail, at the receiver
  rdmaHead,     \* rdmaHead[s][d]: rdma_channel_head, at the sender
  fwdPc,        \* fwdPc[d][p]: what the forwarder warp of d for peer p does next
  fwdRound,     \* fwdRound[d][p]: its round: the source, src_rdma_tail, num_tokens_sent
  fwdHead,      \* fwdHead[d][p][s]: forward_channel_head
  fwdTail,      \* fwdTail[d][p][s]: cached_rdma_channel_tail
  sendNvlHead,  \* sendNvlHead[d][p][s]: send_nvl_head, as far as it has been stored
  returned,     \* returned[d][s]: last_head of the forwarder coordinator
  nvlSlot,      \* nvlSlot[d][p][i]: the NVL buffer of peer p
  nvlSent,      \* nvlSent[d][p]: cached_nvl_channel_tail of the forwarder
  nvlTail,      \* nvlTail[d][p]: nvl_channel_tail
  nvlHead,      \* nvlHead[d][p]: nvl_channel_head
  recvTail,     \* recvTail[d][p]: cached_channel_tail_idx of the receiver warp
  recv          \* recv[d][p][s]: recv_x, the part for the tokens of s

senderVars == <<started, token, releasing, windowTail, window, sendSlot, sendRdmaHead, issued>>
forwarderVars == <<fwdPc, fwdRound, fwdHead, fwdTail, sendNvlHead, nvlSlot, nvlSent, nvlTail>>
receiverVars == <<nvlHead, recvTail, recv>>
vars == <<config, senderVars, wire, headWire, meta, rdmaSlot, rdmaTail, rdmaHead,
          forwarderVars, returned, receiverVars>>

Ranks == 0 .. config.ranks - 1
Peers == 0 .. config.peers - 1
Warps == 0 .. config.warps - 1
NumTokens(s) == Len(config.goes[s + 1])
Tokens(s) == 0 .. NumTokens(s) - 1
NvlPeers(s, t, d) == config.goes[s + 1][t + 1][d + 1]

\* is_token_in_rank, for whole nodes: the nodes a token is sent to, the tokens
\* sent to a node, and the position of a token among them.
Dests(s, t) == {d \in Ranks : NvlPeers(s, t, d) # {}}
SentTo(s, d) == {t \in Tokens(s) : d \in Dests(s, t)}
Index(s, d, t) == Cardinality({u \in SentTo(s, d) : u < t})
NumSent(s, d) == Cardinality(SentTo(s, d))
\* The tokens that peer p of d receives from s, in order.
ForPeer(s, d, p) ==
  LET all == [i \in 1 .. NumTokens(s) |-> <<s, i - 1>>]
  IN  SelectSeq(all, LAMBDA x : p \in NvlPeers(s, x[2], d))

NoToken == <<>>
PerPair(value) == [r \in Ranks |-> [s \in Ranks |-> value]]
PerPeer(value) == [r \in Ranks |-> [p \in Peers |-> value]]
PerSource(value) == [s \in Ranks |-> value]
Idle == [source |-> 0, end |-> 0, sent |-> 0]

\* The notify kernel has cleaned the heads, the tails and the meta.
Init ==
  /\ config \in Configs
  /\ started = {}
  /\ token = [s \in Ranks |-> [w \in Warps |-> w]]
  /\ releasing = [s \in Ranks |-> [w \in Warps |-> {}]]
  /\ windowTail = PerPair(0) /\ window = PerPair({})
  /\ sendSlot = PerPair([i \in 0 .. config.rdmaSlots - 1 |-> NoToken])
  /\ sendRdmaHead = [s \in Ranks |-> [t \in Tokens(s) |-> PerSource(-2)]]
  /\ issued = PerPair(0)
  /\ wire = PerPair(<<>>) /\ headWire = PerPair(<<>>)
  /\ meta = PerSource({})
  /\ rdmaSlot = PerPair([i \in 0 .. config.rdmaSlots - 1 |-> NoToken])
  /\ rdmaTail = PerPair(0) /\ rdmaHead = PerPair(0)
  /\ fwdPc = PerPeer("meta") /\ fwdRound = PerPeer(Idle)
  /\ fwdHead = PerPeer(PerSource(0)) /\ fwdTail = PerPeer(PerSource(0))
  /\ sendNvlHead = PerPeer(PerSource(<<>>))
  /\ returned = PerPair(0)
  /\ nvlSlot = PerPeer([i \in 0 .. config.nvlSlots - 1 |-> NoToken])
  /\ nvlSent = PerPeer(0) /\ nvlTail = PerPeer(0)
  /\ nvlHead = PerPeer(0) /\ recvTail = PerPeer(0)
  /\ recv = PerPeer(PerSource(<<>>))

(****************************** the sender warps ****************************)
\* The channel meta of every destination; then the warps meet the coordinator.
SendMeta(s) ==
  /\ s \notin started
  /\ started' = started \union {s}
  /\ meta' = [meta EXCEPT ![s] = @ \union {s}]
  /\ wire' = [wire EXCEPT ![s] = [d \in Ranks |-> IF d = s THEN @[d] ELSE Append(@[d], [op |-> "meta"])]]
  /\ UNCHANGED <<config, token, releasing, windowTail, window, sendSlot, sendRdmaHead, issued,
                 headWire, rdmaSlot, rdmaTail, rdmaHead, forwarderVars, returned, receiverVars>>

\* A warp waits until the queue of every destination has a free slot and copies
\* its token there; for the own node straight into the receive buffer.
CopyToken(s, w) ==
  LET t == token[s][w]
      put(d, buffer) == IF d \in Dests(s, t)
                        THEN [buffer EXCEPT ![Index(s, d, t) % config.rdmaSlots] = <<s, t>>] ELSE buffer
  IN  /\ s \in started /\ t \in Tokens(s) /\ releasing[s][w] = {}
      /\ \A d \in Dests(s, t) : Index(s, d, t) - rdmaHead[s][d] < config.rdmaSlots
      /\ sendRdmaHead' = [sendRdmaHead EXCEPT ![s][t] =
                            [d \in Ranks |-> IF d \in Dests(s, t) THEN Index(s, d, t) ELSE -1]]
      /\ sendSlot' = [sendSlot EXCEPT ![s] = [d \in Ranks |-> IF d = s THEN @[d] ELSE put(d, @[d])]]
      /\ rdmaSlot' = [rdmaSlot EXCEPT ![s][s] = put(s, @)]
      /\ releasing' = [releasing EXCEPT ![s][w] = Dests(s, t)]
      /\ token' = [token EXCEPT ![s][w] = @ + config.warps]
      /\ UNCHANGED <<config, started, windowTail, window, issued, wire, headWire, meta, rdmaTail,
                     rdmaHead, forwarderVars, returned, receiverVars>>

\* Mutation: the tail moves by one for each transaction, in whatever order.
AdvanceByOne(slot, bits) == 1

\* How far the tail moves: over the run of bits set at the start of the window.
Advance(slot, bits) ==
  IF slot = 0 THEN CHOOSE n \in 1 .. config.window : 0 .. n - 1 \subseteq bits /\ n \notin bits ELSE 0

\* Under the lock of the destination: release the transaction in the window, if
\* the window reaches as far (else the lock is dropped and taken again).
Release(s, w, d) ==
  LET slot == Index(s, d, token[s][w] - config.warps) - windowTail[s][d]
      bits == window[s][d] \union {slot}
      n == Advance(slot, bits)
  IN  /\ d \in releasing[s][w]
      /\ slot < config.window
      /\ releasing' = [releasing EXCEPT ![s][w] = @ \ {d}]
      /\ windowTail' = [windowTail EXCEPT ![s][d] = @ + n]
      /\ window' = [window EXCEPT ![s][d] = {b - n : b \in bits \ (0 .. n - 1)}]
      /\ UNCHANGED <<config, started, token, sendSlot, sendRdmaHead, issued, wire, headWire, meta,
                     rdmaSlot, rdmaTail, rdmaHead, forwarderVars, returned, receiverVars>>

(*************************** the sender coordinator *************************)
\* Mutation: only full chunks are sent.
MayIssueFull(ready, left) == ready >= config.rdmaChunk

\* A full chunk, or all that is left.
MayIssue(ready, left) == ready = left \/ ready >= config.rdmaChunk

\* Mutation: the tail is added before the tokens are put.
OperationsSwapped(slot, n) == <<[op |-> "add", n |-> n], [op |-> "put", from |-> slot, n |-> n]>>

\* A put of n tokens and the addition to the tail, in order on one queue pair.
Operations(slot, n) == <<[op |-> "put", from |-> slot, n |-> n], [op |-> "add", n |-> n]>>

Issue(s, d) ==
  LET left == NumSent(s, d) - issued[s][d]
      ready == windowTail[s][d] - issued[s][d]
      n == Min({ready, config.rdmaChunk})
  IN  /\ s \in started /\ left > 0 /\ MayIssue(ready, left)
      /\ issued' = [issued EXCEPT ![s][d] = @ + n]
      /\ IF d = s
         THEN rdmaTail' = [rdmaTail EXCEPT ![s][s] = @ + n] /\ UNCHANGED wire
         ELSE wire' = [wire EXCEPT ![s][d] = @ \o Operations(issued[s][d] % config.rdmaSlots, n)]
              /\ UNCHANGED rdmaTail
      /\ UNCHANGED <<config, started, token, releasing, windowTail, window, sendSlot, sendRdmaHead,
                     headWire, meta, rdmaSlot, rdmaHead, forwarderVars, returned, receiverVars>>

(********************************* the network ******************************)
\* A reliable queue pair executes its operations in order; a put reads the send
\* buffer only now, and writes as many slots from the same index on.
Deliver(s, d) ==
  LET o == Head(wire[s][d])
  IN  /\ wire[s][d] # <<>>
      /\ wire' = [wire EXCEPT ![s][d] = Tail(@)]
      /\ CASE o.op = "meta" -> /\ meta' = [meta EXCEPT ![d] = @ \union {s}]
                               /\ UNCHANGED <<rdmaSlot, rdmaTail>>
           [] o.op = "put" -> /\ rdmaSlot' = [rdmaSlot EXCEPT ![d][s] =
                                   [i \in DOMAIN @ \union (o.from .. o.from + o.n - 1) |->
                                      IF i \in o.from .. o.from + o.n - 1 THEN sendSlot[s][d][i] ELSE @[i]]]
                              /\ UNCHANGED <<meta, rdmaTail>>
           [] o.op = "add" -> /\ rdmaTail' = [rdmaTail EXCEPT ![d][s] = @ + o.n]
                              /\ UNCHANGED <<meta, rdmaSlot>>
      /\ UNCHANGED <<config, senderVars, headWire, rdmaHead, forwarderVars, returned, receiverVars>>

DeliverHead(d, s) ==
  /\ headWire[d][s] # <<>>
  /\ headWire' = [headWire EXCEPT ![d][s] = Tail(@)]
  /\ rdmaHead' = [rdmaHead EXCEPT ![s][d] = @ + Head(headWire[d][s])]
  /\ UNCHANGED <<config, senderVars, wire, meta, rdmaSlot, rdmaTail, forwarderVars, returned, receiverVars>>

(**************************** the forwarder warps ***************************)
\* All metas have come: the prefixes are passed on to the receiver warp.
ReadMeta(d, p) ==
  /\ fwdPc[d][p] = "meta" /\ meta[d] = Ranks
  /\ fwdPc' = [fwdPc EXCEPT ![d][p] = "sync"]
  /\ UNCHANGED <<config, senderVars, wire, headWire, meta, rdmaSlot, rdmaTail, rdmaHead, fwdRound,
                 fwdHead, fwdTail, sendNvlHead, nvlSlot, nvlSent, nvlTail, returned, receiverVars>>

\* sync_forwarder_smem.
ForwarderSync(d) ==
  /\ \A p \in Peers : fwdPc[d][p] = "sync"
  /\ fwdPc' = [fwdPc EXCEPT ![d] = [p \in Peers |-> "find"]]
  /\ UNCHANGED <<config, senderVars, wire, headWire, meta, rdmaSlot, rdmaTail, rdmaHead, fwdRound,
                 fwdHead, fwdTail, sendNvlHead, nvlSlot, nvlSent, nvlTail, returned, receiverVars>>

\* Tokens of s that the warp has looked at, and tokens it still expects.
Forwarded(d, p, s) == Len(sendNvlHead[d][p][s])
Expected(d, p, s) == NumSent(s, d) - Forwarded(d, p, s)

\* There is room for a chunk in the NVL queue, and s is a source that has sent
\* something: which one the search meets first depends on when it looks.
BeginRound(d, p, s) ==
  LET seen == IF fwdHead[d][p][s] = fwdTail[d][p][s] THEN rdmaTail[d][s] ELSE fwdTail[d][p][s]
  IN  /\ fwdPc[d][p] = "find" /\ Expected(d, p, s) > 0
      /\ config.nvlSlots - (nvlSent[d][p] - nvlHead[d][p]) >= config.nvlChunk
      /\ seen > fwdHead[d][p][s]
      /\ fwdTail' = [fwdTail EXCEPT ![d][p][s] = seen]
      /\ fwdRound' = [fwdRound EXCEPT ![d][p] = [source |-> s, end |-> seen, sent |-> 0]]
      /\ fwdPc' = [fwdPc EXCEPT ![d][p] = "copy"]
      /\ UNCHANGED <<config, senderVars, wire, headWire, meta, rdmaSlot, rdmaTail, rdmaHead, fwdHead,
                     sendNvlHead, nvlSlot, nvlSent, nvlTail, returned, receiverVars>>

\* Mutation: the place in the peer's queue, over all sources.
NvlIndexInQueue(d, p, s) == nvlSent[d][p]

\* rdma_nvl_token_idx: how many tokens of s have been copied to the peer.
NvlIndex(d, p, s) == Len(SelectSeq(sendNvlHead[d][p][s], LAMBDA h : h >= 0))

\* The next token of the round: skipped, or copied to the NVL buffer; the round
\* ends early when a chunk has been copied.
ForwardToken(d, p) ==
  LET s == fwdRound[d][p].source
      i == Forwarded(d, p, s)
      x == rdmaSlot[d][s][i % config.rdmaSlots]
      mine == x # NoToken /\ p \in NvlPeers(x[1], x[2], d)
      full == fwdRound[d][p].sent + 1 = config.nvlChunk
  IN  /\ fwdPc[d][p] = "copy" /\ i < fwdRound[d][p].end
      /\ sendNvlHead' = [sendNvlHead EXCEPT ![d][p][s] = Append(@, IF mine THEN NvlIndex(d, p, s) ELSE -1)]
      /\ IF mine
         THEN /\ nvlSlot' = [nvlSlot EXCEPT ![d][p][nvlSent[d][p] % config.nvlSlots] = x]
              /\ nvlSent' = [nvlSent EXCEPT ![d][p] = @ + 1]
              /\ fwdRound' = [fwdRound EXCEPT ![d][p].sent = @ + 1,
                                              ![d][p].end = IF full THEN i + 1 ELSE @]
         ELSE UNCHANGED <<nvlSlot, nvlSent, fwdRound>>
      /\ UNCHANGED <<config, senderVars, wire, headWire, meta, rdmaSlot, rdmaTail, rdmaHead, fwdPc,
                     fwdHead, fwdTail, nvlTail, returned, receiverVars>>

\* The end of a round: first the head, for the coordinator, then the NVL tail.
StoreForwardHead(d, p) ==
  LET r == fwdRound[d][p]
  IN  /\ fwdPc[d][p] = "copy" /\ Forwarded(d, p, r.source) = r.end
      /\ fwdHead' = [fwdHead EXCEPT ![d][p][r.source] = r.end]
      /\ fwdPc' = [fwdPc EXCEPT ![d][p] = "publish"]
      /\ UNCHANGED <<config, senderVars, wire, headWire, meta, rdmaSlot, rdmaTail, rdmaHead, fwdRound,
                     fwdTail, sendNvlHead, nvlSlot, nvlSent, nvlTail, returned, receiverVars>>

PublishNvlTail(d, p) ==
  /\ fwdPc[d][p] = "publish"
  /\ nvlTail' = [nvlTail EXCEPT ![d][p] = nvlSent[d][p]]
  /\ fwdRound' = [fwdRound EXCEPT ![d][p] = Idle]
  /\ fwdPc' = [fwdPc EXCEPT ![d][p] = "find"]
  /\ UNCHANGED <<config, senderVars, wire, headWire, meta, rdmaSlot, rdmaTail, rdmaHead, fwdHead,
                 fwdTail, sendNvlHead, nvlSlot, nvlSent, returned, receiverVars>>

Retire(d, p) ==
  /\ fwdPc[d][p] = "find" /\ \A s \in Ranks : Expected(d, p, s) = 0
  /\ fwdPc' = [fwdPc EXCEPT ![d][p] = "retired"]
  /\ UNCHANGED <<config, senderVars, wire, headWire, meta, rdmaSlot, rdmaTail, rdmaHead, fwdRound,
                 fwdHead, fwdTail, sendNvlHead, nvlSlot, nvlSent, nvlTail, returned, receiverVars>>

(************************** the forwarder coordinator ***********************)
Active(d) == {p \in Peers : fwdPc[d][p] \in {"find", "copy", "publish"}}

\* Mutation: the head of the forwarder that is ahead.
ReleasedHeadMax(d, s) == Max({fwdHead[d][p][s] : p \in Active(d)})

\* The slots that all forwarder warps which have not retired have read.
ReleasedHead(d, s) == Min({fwdHead[d][p][s] : p \in Active(d)})

\* The head at the source moves lazily, by at least a chunk.
ReturnHead(d, s) ==
  /\ Active(d) # {}
  /\ ReleasedHead(d, s) >= returned[d][s] + config.rdmaChunk
  /\ returned' = [returned EXCEPT ![d][s] = ReleasedHead(d, s)]
  /\ IF d = s
     THEN /\ rdmaHead' = [rdmaHead EXCEPT ![s][s] = @ + ReleasedHead(d, s) - returned[d][s]]
          /\ UNCHANGED headWire
     ELSE /\ headWire' = [headWire EXCEPT ![d][s] = Append(@, ReleasedHead(d, s) - returned[d][s])]
          /\ UNCHANGED rdmaHead
  /\ UNCHANGED <<config, senderVars, wire, meta, rdmaSlot, rdmaTail, forwarderVars, receiverVars>>

(***************************** the NVL receivers ****************************)
NumReceived(d, p) == SumFunction([s \in Ranks |-> Len(recv[d][p][s])])
ToReceive(d, p) == SumFunction([s \in Ranks |-> Len(ForPeer(s, d, p))])

\* The receiver warp knows the prefixes, and has copied the tokens it has seen.
BatchDone(d, p) == fwdPc[d][p] # "meta" /\ NumReceived(d, p) = recvTail[d][p]

PollNvlTail(d, p) ==
  /\ BatchDone(d, p) /\ nvlHead[d][p] = recvTail[d][p]
  /\ NumReceived(d, p) < ToReceive(d, p)
  /\ nvlTail[d][p] # recvTail[d][p]
  /\ recvTail' = [recvTail EXCEPT ![d][p] = nvlTail[d][p]]
  /\ UNCHANGED <<config, senderVars, wire, headWire, meta, rdmaSlot, rdmaTail, rdmaHead,
                 forwarderVars, returned, nvlHead, recv>>

\* To the next place of the source that the slot names.
ReceiveToken(d, p) ==
  LET x == nvlSlot[d][p][NumReceived(d, p) % config.nvlSlots]
  IN  /\ NumReceived(d, p) < recvTail[d][p]
      /\ recv' = [recv EXCEPT ![d][p][x[1]] = Append(@, x)]
      /\ UNCHANGED <<config, senderVars, wire, headWire, meta, rdmaSlot, rdmaTail, rdmaHead,
                     forwarderVars, returned, nvlHead, recvTail>>

StoreNvlHead(d, p) ==
  /\ BatchDone(d, p) /\ nvlHead[d][p] # recvTail[d][p]
  /\ nvlHead' = [nvlHead EXCEPT ![d][p] = recvTail[d][p]]
  /\ UNCHANGED <<config, senderVars, wire, headWire, meta, rdmaSlot, rdmaTail, rdmaHead,
                 forwarderVars, returned, recvTail, recv>>

-----------------------------------------------------------------------------
SenderWarp(s, w) == CopyToken(s, w) \/ \E d \in Ranks : Release(s, w, d)
Forwarder(d, p) ==
  \/ ReadMeta(d, p) \/ ForwardToken(d, p) \/ StoreForwardHead(d, p) \/ PublishNvlTail(d, p)
  \/ Retire(d, p) \/ \E s \in Ranks : BeginRound(d, p, s)
Receiver(d, p) == PollNvlTail(d, p) \/ ReceiveToken(d, p) \/ StoreNvlHead(d, p)

Step(r) ==
  /\ r \in Ranks
  /\ \/ SendMeta(r) \/ ForwarderSync(r)
     \/ \E w \in Warps : SenderWarp(r, w)
     \/ \E d \in Ranks : Issue(r, d) \/ Deliver(r, d) \/ ReturnHead(r, d) \/ DeliverHead(r, d)
     \/ \E p \in Peers : Forwarder(r, p) \/ Receiver(r, p)

AllRanks == UNION {0 .. c.ranks - 1 : c \in Configs}
Next == \E r \in AllRanks : Step(r)

Spec == Init /\ [][Next]_vars

(******************************** properties *******************************)
\* A slot of either level that is announced and that some reader has not read
\* holds its own token, although the senders release in any order and learn of
\* free slots late, through the slowest of several forwarders.
UnreadSlotsIntact ==
  \A d \in Ranks, p \in Peers :
    /\ \A s \in Ranks : \A t \in SentTo(s, d) :
         LET i == Index(s, d, t)
         IN  i >= Forwarded(d, p, s) /\ i < rdmaTail[d][s]
               => rdmaSlot[d][s][i % config.rdmaSlots] = <<s, t>>
    /\ \A i \in NumReceived(d, p) .. nvlTail[d][p] - 1 :
         LET x == nvlSlot[d][p][i % config.nvlSlots]
         IN  x # NoToken /\ p \in NvlPeers(x[1], x[2], d)

Finished ==
  /\ \A s \in Ranks, w \in Warps : token[s][w] >= NumTokens(s) /\ releasing[s][w] = {}
  /\ \A d \in Ranks, p \in Peers :
       /\ fwdPc[d][p] = "retired"
       /\ NumReceived(d, p) = ToReceive(d, p) /\ BatchDone(d, p) /\ nvlHead[d][p] = recvTail[d][p]

\* When all warps are done every peer has received from every source its tokens
\* in order, and the two heads that the group reduce will wait for name the place
\* of each token among those for its node, and among the source's for its peer.
OutputIsExact ==
  Finished => \A s, d \in Ranks :
    /\ \A t \in Tokens(s) :
         sendRdmaHead[s][t][d] = IF d \in Dests(s, t) THEN Index(s, d, t) ELSE -1
    /\ \A p \in Peers :
         /\ recv[d][p][s] = ForPeer(s, d, p)
         /\ \A t \in SentTo(s, d) :
              sendNvlHead[d][p][s][Index(s, d, t) + 1] =
                IF p \in NvlPeers(s, t, d)
                THEN Cardinality({u \in SentTo(s, d) : u < t /\ p \in NvlPeers(s, u, d)}) ELSE -1
==============================================================================
