-------------------------- MODULE GroupReduceChannel --------------------------
(***************************************************************************)
(* One channel of group_reduce_kernel (csrc/comm/grpcoll/kernels/           *)
(* intranode_kernel.cuh): every source rank sends back the tokens of the    *)
(* channel it received in the group cast, each through a queue of its own,  *)
(* and the receiver reduces each token from all its sources.                *)
(*                                                                         *)
(* A source's send warps share the chunks of its queue and meet at a named  *)
(* barrier before warp 0 publishes the tail.  At the receiver, warp 0 copies *)
(* the tails into shared memory and frees slots, one lane per source; the   *)
(* reduce warps take the tokens round-robin, wait for the positions that    *)
(* send_head tells, reduce, and record per source which position they need  *)
(* next.  Only the minimum over the warps that have not retired may be      *)
(* freed, since any warp may still read any queue.                          *)
(*                                                                         *)
(* A slot is represented by the token (src_idx) it carries.  A reduction is  *)
(* represented by the set of what entered it: <<source, token whose hidden   *)
(* values, token whose lse>>.                                              *)
(***************************************************************************)
EXTENDS SendHead

CONSTANTS
  AllSources,      \* the ranks
  Configs          \* the instances of a channel: see ConfigType

\* What the constructor of Config (config.hpp) asserts of the two sizes.
ConfigAccepts(c) == c.queueSize \in Nat /\ c.chunkSize \in Nat \ {0} /\ c.chunkSize < c.queueSize

ConfigType ==
  [numTokens : Nat,               \* tokens of the channel at the receiver
   numSendWarps : Nat \ {0},      \* send warps per rank
   numReduceWarps : Nat \ {0},    \* reduce warps of the receiver's block
   queueSize : Nat,               \* num_recv_buffer_tokens
   chunkSize : Nat,               \* num_max_send_tokens
   isLseReduce : BOOLEAN,         \* kIsLSEReduce
   timesOut : BOOLEAN,            \* may NUM_TIMEOUT_CYCLES be exceeded in a waiting loop?
   sources : SUBSET AllSources]   \* the ranks that have a queue to the receiver

ASSUME SourcesAssumption == IsFiniteSet(AllSources)
ASSUME ConfigAssumption == \A c \in Configs : c \in ConfigType /\ ConfigAccepts(c)
ASSUME LargeHeadAssumption == LargeHead \in Nat /\ \A c \in Configs : c.numTokens < LargeHead

VARIABLE config    \* the instance of the channel (input)

NumTokens == config.numTokens
NumSendWarps == config.numSendWarps
NumReduceWarps == config.numReduceWarps
QueueSize == config.queueSize
ChunkSize == config.chunkSize
IsLseReduce == config.isLseReduce
TimesOut == config.timesOut
Sources == config.sources

Tokens == 0 .. NumTokens - 1
Slots == 0 .. QueueSize - 1
SendWarps == 0 .. NumSendWarps - 1
ReduceWarps == 0 .. NumReduceWarps - 1
None == -1
IntMax == LargeHead + 1

VARIABLES
  sentTo,     \* sentTo[r]: the tokens the group cast sent to rank r (input)
  \* the queue of each source, in the receiver's buffer
  head,       \* head[r]: channel_head_idx
  tail,       \* tail[r]: channel_tail_idx
  slot,       \* slot[r][i]: the token in slot i
  \* the sources
  sendPc,     \* sendPc[r][w]: what send warp w of source r does next
  sendTail,   \* sendTail[r][w]: current_channel_tail_idx
  \* warp 0 of the receiver, one lane per source
  lanePc,     \* lanePc[r]: what lane r does next
  scan,       \* scan[r]: the reduce warp whose head lane r reads next
  minHead,    \* minHead[r]: min_head
  sharedTail, \* sharedTail[r]: shared_channel_tail_idx
  \* the reduce warps of the receiver
  reducePc,   \* reducePc[w]: what reduce warp w does next
  token,      \* token[w]: token_idx
  lse,        \* lse[w][r]: the token whose lse warp w has loaded from source r
  warpHead,   \* warpHead[w][r]: shared_warp_channel_head_idx
  retired,    \* retired[w]: shared_warp_retired
  reduced,    \* reduced[t]: what has been reduced into token t
  cache,      \* cache[r][i]: the lse line of slot i in the read-only cache
  trapped     \* has some kernel trapped?

queueVars == <<head, tail, slot>>
sendVars == <<sendPc, sendTail>>
laneVars == <<lanePc, scan, minHead, sharedTail>>
reduceVars == <<reducePc, token, lse, warpHead, retired, reduced, cache>>
inputs == <<config, sentTo>>
vars == <<inputs, queueVars, sendVars, laneVars, reduceVars, trapped>>

NumSent(r) == Cardinality(sentTo[r])
Position(r, t) == PositionIn(sentTo[r], t)
TokenAt(r, p) == CHOOSE t \in sentTo[r] : Position(r, t) = p

\* send_head, as cached_notify_group_reduce has reset it.
SendHeadOf(r, t) == ReduceHead(Tokens, sentTo[r])[t]

TypeOK ==
  /\ config \in Configs
  /\ sentTo \in [Sources -> SUBSET Tokens]
  /\ head \in [Sources -> 0 .. LargeHead]
  /\ tail \in [Sources -> 0 .. NumTokens]
  /\ slot \in [Sources -> [Slots -> Tokens \cup {None}]]
  /\ sendPc \in [Sources -> [SendWarps -> {"wait", "copy", "sync", "publish", "done"}]]
  /\ sendTail \in [Sources -> [SendWarps -> 0 .. NumTokens]]
  /\ lanePc \in [Sources -> {"check", "scan", "done"}]
  /\ scan \in [Sources -> 0 .. NumReduceWarps]
  /\ minHead \in [Sources -> 0 .. IntMax]
  /\ sharedTail \in [Sources -> 0 .. NumTokens]
  /\ reducePc \in [ReduceWarps -> {"wait", "lse", "reduce", "retire", "done"}]
  /\ token \in [ReduceWarps -> Nat]
  /\ lse \in [ReduceWarps -> [Sources -> Tokens \cup {None}]]
  /\ warpHead \in [ReduceWarps -> [Sources -> 0 .. LargeHead]]
  /\ retired \in [ReduceWarps -> BOOLEAN]
  /\ reduced \in [Tokens -> SUBSET (Sources \X (Tokens \cup {None}) \X (Tokens \cup {None}))]
  /\ cache \in [Sources -> [Slots -> Tokens \cup {None}]]
  /\ trapped \in BOOLEAN

\* Where a reduce warp goes at the head of its loop.
NextToken(t) == IF t < NumTokens THEN "wait" ELSE "retire"

Init ==
  /\ config \in Configs
  /\ sentTo \in [Sources -> SUBSET Tokens]
  /\ head = [r \in Sources |-> 0]
  /\ tail = [r \in Sources |-> 0]
  /\ slot = [r \in Sources |-> [i \in Slots |-> None]]
  /\ sendPc = [r \in Sources |-> [w \in SendWarps |-> IF sentTo[r] = {} THEN "done" ELSE "wait"]]
  /\ sendTail = [r \in Sources |-> [w \in SendWarps |-> 0]]
  /\ lanePc = [r \in Sources |-> "check"]
  /\ scan = [r \in Sources |-> 0]
  /\ minHead = [r \in Sources |-> IntMax]
  /\ sharedTail = [r \in Sources |-> 0]
  /\ reducePc = [w \in ReduceWarps |-> NextToken(w)]
  /\ token = [w \in ReduceWarps |-> w]
  /\ lse = [w \in ReduceWarps |-> [r \in Sources |-> None]]
  /\ warpHead = [w \in ReduceWarps |-> [r \in Sources |-> 0]]
  /\ retired = [w \in ReduceWarps |-> FALSE]
  /\ reduced = [t \in Tokens |-> {}]
  /\ cache = [r \in Sources |-> [i \in Slots |-> None]]
  /\ trapped = FALSE

-----------------------------------------------------------------------------
(* The sources.                                                            *)

Smaller(a, b) == IF a <= b THEN a ELSE b

\* num_round_tokens of the chunk that warp w of source r is about to send.
RoundSize(r, w) == Smaller(ChunkSize, NumSent(r) - sendTail[r][w])

\* Mutations: room for one token is taken to be enough; one slot more than the
\* round needs is asked for.
RoomForOne(r, w) == sendTail[r][w] - head[r] < QueueSize
RoomForMore(r, w) == sendTail[r][w] - head[r] < QueueSize - RoundSize(r, w)

RoomForRound(r, w) == sendTail[r][w] - head[r] <= QueueSize - RoundSize(r, w)

BeginRound(r, w) ==
  /\ sendPc[r][w] = "wait"
  /\ RoomForRound(r, w)
  /\ sendPc' = [sendPc EXCEPT ![r][w] = "copy"]
  /\ UNCHANGED <<inputs, queueVars, sendTail, laneVars, reduceVars, trapped>>

\* The warp's share of the round, every NumSendWarps-th token.
Share(r, w) ==
  {p \in sendTail[r][w] .. sendTail[r][w] + RoundSize(r, w) - 1 :
     (p - sendTail[r][w]) % NumSendWarps = w}

CopyShare(r, w) ==
  /\ sendPc[r][w] = "copy"
  /\ slot' = [slot EXCEPT ![r] =
       [i \in Slots |-> IF \E p \in Share(r, w) : p % QueueSize = i
                        THEN TokenAt(r, CHOOSE p \in Share(r, w) : p % QueueSize = i)
                        ELSE slot[r][i]]]
  /\ sendTail' = [sendTail EXCEPT ![r][w] = @ + RoundSize(r, w)]
  /\ sendPc' = [sendPc EXCEPT ![r][w] = "sync"]
  /\ UNCHANGED <<inputs, head, tail, laneVars, reduceVars, trapped>>

NextRound(r, w) == IF sendTail[r][w] < NumSent(r) THEN "wait" ELSE "done"

\* Mutation: warp 0 publishes without waiting for the other warps' copies.
SendersMetAny(r) == sendPc[r][0] = "sync"

SendersMet(r) == \A w \in SendWarps : sendPc[r][w] = "sync"

SenderSync(r) ==
  /\ SendersMet(r)
  /\ sendPc' = [sendPc EXCEPT ![r] =
                  [w \in SendWarps |-> IF w = 0 THEN "publish" ELSE NextRound(r, w)]]
  /\ UNCHANGED <<inputs, queueVars, sendTail, laneVars, reduceVars, trapped>>

PublishTail(r) ==
  /\ sendPc[r][0] = "publish"
  /\ tail' = [tail EXCEPT ![r] = sendTail[r][0]]
  /\ sendPc' = [sendPc EXCEPT ![r][0] = NextRound(r, 0)]
  /\ UNCHANGED <<inputs, head, slot, sendTail, laneVars, reduceVars, trapped>>

-----------------------------------------------------------------------------
(* Warp 0 of the receiver: lane r looks after the queue of source r.        *)

\* All reduce warps have retired, so the lane does too.
LaneRetires(r) ==
  /\ lanePc[r] = "check"
  /\ \A w \in ReduceWarps : retired[w]
  /\ lanePc' = [lanePc EXCEPT ![r] = "done"]
  /\ UNCHANGED <<inputs, queueVars, sendVars, scan, minHead, sharedTail, reduceVars, trapped>>

\* ld_acquire of the tail, then start looking for the minimum head.
LoadTail(r) ==
  /\ lanePc[r] = "check"
  /\ \E w \in ReduceWarps : ~retired[w]
  /\ sharedTail' = [sharedTail EXCEPT ![r] = tail[r]]
  /\ scan' = [scan EXCEPT ![r] = 0]
  /\ minHead' = [minHead EXCEPT ![r] = IntMax]
  /\ lanePc' = [lanePc EXCEPT ![r] = "scan"]
  /\ UNCHANGED <<inputs, queueVars, sendVars, reduceVars, trapped>>

\* Mutation: the maximum instead of the minimum over the warps.
MaxOver(r, w) ==
  IF minHead[r] # IntMax /\ warpHead[w][r] < minHead[r] THEN minHead[r] ELSE warpHead[w][r]

MinOver(r, w) == Smaller(minHead[r], warpHead[w][r])

\* The warps are read one after the other while they move on.
ScanWarp(r) ==
  /\ lanePc[r] = "scan"
  /\ scan[r] < NumReduceWarps
  /\ minHead' = IF retired[scan[r]] THEN minHead ELSE [minHead EXCEPT ![r] = MinOver(r, scan[r])]
  /\ scan' = [scan EXCEPT ![r] = @ + 1]
  /\ UNCHANGED <<inputs, queueVars, sendVars, lanePc, sharedTail, reduceVars, trapped>>

\* last_head of the lane is always the head it stored last.
StoreHead(r) ==
  /\ lanePc[r] = "scan"
  /\ scan[r] = NumReduceWarps
  /\ head' = IF minHead[r] # IntMax /\ minHead[r] > head[r]
             THEN [head EXCEPT ![r] = minHead[r]] ELSE head
  /\ lanePc' = [lanePc EXCEPT ![r] = "check"]
  /\ UNCHANGED <<inputs, tail, slot, sendVars, scan, minHead, sharedTail, reduceVars, trapped>>

-----------------------------------------------------------------------------
(* The reduce warps.                                                       *)

Expected(w, r) == SendHeadOf(r, token[w])
SourcesOf(w) == {r \in Sources : Expected(w, r) >= 0}
SlotOf(w, r) == Expected(w, r) % QueueSize

\* Mutation: the tail may equal the expected position.
ArrivedEarly(w, r) == sharedTail[r] >= Expected(w, r)

Arrived(w, r) == sharedTail[r] > Expected(w, r)

\* any_in_warp over the sources of the token.
WaitForSources(w) ==
  /\ reducePc[w] = "wait"
  /\ \A r \in SourcesOf(w) : Arrived(w, r)
  /\ reducePc' = [reducePc EXCEPT ![w] = IF IsLseReduce THEN "lse" ELSE "reduce"]
  /\ UNCHANGED <<inputs, queueVars, sendVars, laneVars, token, lse, warpHead, retired, reduced, cache, trapped>>

\* What __ldg may return for the lse in slot i: ld.global.nc is only defined for
\* memory that nobody writes during the kernel, so a line that stayed in the
\* read-only cache since an earlier read of the slot may be returned.
LoadThroughCache(r, i) ==
  {slot[r][i]} \cup (IF cache[r][i] = None THEN {} ELSE {cache[r][i]})

ReadLse(w) ==
  /\ reducePc[w] = "lse"
  /\ \E seen \in [SourcesOf(w) -> Tokens \cup {None}] :
       /\ \A r \in SourcesOf(w) : seen[r] \in LoadThroughCache(r, SlotOf(w, r))
       /\ lse' = [lse EXCEPT ![w] = [r \in Sources |-> IF r \in SourcesOf(w) THEN seen[r] ELSE None]]
       /\ cache' = [r \in Sources |-> IF r \in SourcesOf(w)
                                      THEN [cache[r] EXCEPT ![SlotOf(w, r)] = seen[r]] ELSE cache[r]]
  /\ reducePc' = [reducePc EXCEPT ![w] = "reduce"]
  /\ UNCHANGED <<inputs, queueVars, sendVars, laneVars, token, warpHead, retired, reduced, trapped>>

\* Mutation: the code of the next position is not decoded.
NextHeadRaw(w, r) == Expected(w, r) + 1

\* The next position of source r that warp w may need.
NextHead(w, r) == IF Expected(w, r) < 0 THEN Decode(Expected(w, r)) ELSE Expected(w, r) + 1

\* The hidden values are read and reduced, then the warp lets go of the slots.
Reduce(w) ==
  /\ reducePc[w] = "reduce"
  /\ reduced' = [reduced EXCEPT ![token[w]] =
       @ \cup {<<r, slot[r][SlotOf(w, r)], lse[w][r]>> : r \in SourcesOf(w)}]
  /\ warpHead' = [warpHead EXCEPT ![w] = [r \in Sources |-> NextHead(w, r)]]
  /\ token' = [token EXCEPT ![w] = @ + NumReduceWarps]
  /\ reducePc' = [reducePc EXCEPT ![w] = NextToken(token[w] + NumReduceWarps)]
  /\ lse' = [lse EXCEPT ![w] = [r \in Sources |-> None]]
  /\ UNCHANGED <<inputs, queueVars, sendVars, laneVars, retired, cache, trapped>>

Retire(w) ==
  /\ reducePc[w] = "retire"
  /\ retired' = [retired EXCEPT ![w] = TRUE]
  /\ reducePc' = [reducePc EXCEPT ![w] = "done"]
  /\ UNCHANGED <<inputs, queueVars, sendVars, laneVars, token, lse, warpHead, reduced, cache, trapped>>

-----------------------------------------------------------------------------

SendWaits(r, w) == sendPc[r][w] = "wait" /\ ~RoomForRound(r, w)
ReduceWaits(w) == reducePc[w] = "wait" /\ \E r \in SourcesOf(w) : ~Arrived(w, r)

\* trap(): every waiting loop but the one of warp 0 watches the clock.
TimeOut ==
  /\ TimesOut
  /\ \/ \E r \in Sources, w \in SendWarps : SendWaits(r, w)
     \/ \E w \in ReduceWarps : ReduceWaits(w)
  /\ trapped' = TRUE
  /\ UNCHANGED <<inputs, queueVars, sendVars, laneVars, reduceVars>>

SendWarp(r, w) == BeginRound(r, w) \/ CopyShare(r, w)
Source(r) == SenderSync(r) \/ PublishTail(r) \/ \E w \in SendWarps : SendWarp(r, w)
Lane(r) == LaneRetires(r) \/ LoadTail(r) \/ ScanWarp(r) \/ StoreHead(r)
ReduceWarp(w) == WaitForSources(w) \/ ReadLse(w) \/ Reduce(w) \/ Retire(w)

Finished ==
  /\ \A r \in Sources : lanePc[r] = "done" /\ \A w \in SendWarps : sendPc[r][w] = "done"
  /\ \A w \in ReduceWarps : reducePc[w] = "done"

Terminated == (Finished \/ trapped) /\ UNCHANGED vars

Next ==
  \/ ~trapped /\ \/ \E r \in Sources : Source(r) \/ Lane(r)
                 \/ \E w \in ReduceWarps : ReduceWarp(w)
                 \/ TimeOut
  \/ Terminated

Spec == Init /\ [][Next]_vars

\* Resident warps keep running: each reduce warp, each lane of warp 0, and the
\* send warps of a source, which never spin while one of them can move.
AllReduceWarps == UNION {0 .. c.numReduceWarps - 1 : c \in Configs}
WarpFairness ==
  /\ \A r \in AllSources :
       WF_vars(~trapped /\ r \in Sources /\ Source(r)) /\ WF_vars(~trapped /\ r \in Sources /\ Lane(r))
  /\ \A w \in AllReduceWarps : WF_vars(~trapped /\ w \in ReduceWarps /\ ReduceWarp(w))

FairSpec == Spec /\ WarpFairness

-----------------------------------------------------------------------------
(* Properties.                                                             *)

\* The reduce warp of token t has not finished with it.
Pending(t) == LET w == t % NumReduceWarps IN token[w] <= t

\* A published slot keeps its token until the reduce warp that needs it is done,
\* although heads are freed from a scan of the warps that races with them, across
\* tokens that skip the source and warps that have retired.
PendingSlotsIntact ==
  \A r \in Sources : \A t \in sentTo[r] :
    (Pending(t) /\ Position(r, t) < tail[r])
      => /\ head[r] <= Position(r, t)
         /\ slot[r][Position(r, t) % QueueSize] = t

\* Every token is reduced from the hidden values of exactly its sources, each
\* once and each its own.
ReducedFromItsSources ==
  \A t \in Tokens :
    {<<e[1], e[2]>> : e \in reduced[t]} = IF Pending(t) THEN {} ELSE {<<r, t>> : r \in {q \in Sources : t \in sentTo[q]}}

\* The lse that weighs a partial result belongs to the same token as its hidden
\* values.
LseMatchesHidden == \A t \in Tokens : \A e \in reduced[t] : e[3] = e[2]

\* Every chunk a source has room to send is large enough for the receiver to go
\* on: the kernels finish (or trap on their clock).
Completes == <>(Finished \/ trapped)

\* Each queue implements a bounded stream: it is produced at the tail, released
\* at the head (the large number releases it all), and delivered by reductions,
\* which take the tokens of all sources in an order no single source sends.
Delivered(r) ==
  {Position(r, t) : t \in {u \in sentTo[r] : \E e \in reduced[u] : e[1] = r /\ e[2] = u}}
Stream(r) == INSTANCE BoundedStream
               WITH Capacity <- QueueSize, Total <- NumSent(r), produced <- tail[r],
                    released <- Smaller(head[r], NumSent(r)), delivered <- Delivered(r)
ImplementsStreams ==
  /\ \A r \in Sources : Stream(r)!Init
  /\ [][\A r \in Sources : Stream(r)!Next \/ UNCHANGED Stream(r)!vars]_vars
=============================================================================
