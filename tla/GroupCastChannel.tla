--------------------------- MODULE GroupCastChannel ---------------------------
(***************************************************************************)
(* One queue of group_cast_kernel (csrc/comm/grpcoll/kernels/              *)
(* intranode_kernel.cuh): the tokens of one channel that one rank sends to  *)
(* one other rank.                                                         *)
(*                                                                         *)
(* The queue is a ring of QueueSize slots in the receiver's buffer, with a  *)
(* tail the sender stores, a head the receiver stores, and the start and    *)
(* end offset of the channel, which the sender announces once.  On each     *)
(* side a group of warps works on the queue and meets at a named barrier    *)
(* (sync_warp_group).  Every send warp walks over all tokens of the channel *)
(* with a tail of its own, checks the head for itself, and copies only the  *)
(* tokens that are its turn; warp 0 publishes the tail.  Warp 0 of the      *)
(* receiver polls the tail, all warps copy the new tokens, and the LAST     *)
(* warp stores the head.                                                    *)
(*                                                                         *)
(* A slot is represented by the token (channel_src_idx) whose hidden        *)
(* values, source index and lse it holds: the kernel copies the three       *)
(* between the same two syncs.  recv stands for recv_src_idx, indexed by    *)
(* position in the channel; recv_x only adds the fixed post_perm_idx.       *)
(* clock64 is abstracted to the possibility that a waiting loop traps.      *)
(***************************************************************************)
EXTENDS Integers, FiniteSets

CONSTANTS
  NumTokens,    \* tokens of x in this channel (token_end_idx - token_start_idx)
  NumWarps,     \* warps per rank on either side (num_send_warps_per_rank)
  QueueSize,    \* num_recv_buffer_tokens
  ChunkSize,    \* num_max_send_tokens
  StartOffset,  \* tokens that earlier channels send to the same rank
  TimesOut      \* may NUM_TIMEOUT_CYCLES be exceeded in a waiting loop?

ASSUME TokensAssumption == NumTokens \in Nat
ASSUME WarpsAssumption == NumWarps \in Nat \ {0}
ASSUME OffsetAssumption == StartOffset \in Nat
ASSUME TimesOutAssumption == TimesOut \in BOOLEAN

\* What the constructor of Config (config.hpp) asserts of the two sizes.
ConfigAccepts == QueueSize \in Nat /\ ChunkSize \in Nat \ {0} /\ ChunkSize < QueueSize

ASSUME ConfigAssumption == ConfigAccepts

Tokens == 0 .. NumTokens - 1
Warps == 0 .. NumWarps - 1
Slots == 0 .. QueueSize - 1
None == -1

VARIABLES
  inRank,       \* the tokens with is_token_in_rank for this receiver (input)
  \* the queue, in the receiver's buffer
  startOffset,  \* coded start offset, 0 until announced
  endOffset,    \* coded end offset, 0 until announced
  head,         \* channel_head_idx
  tail,         \* channel_tail_idx
  slot,         \* slot[i]: the token in slot i
  \* the sender
  sendPc,       \* sendPc[w]: what send warp w does next
  token,        \* token[w]: token_idx
  sendTail,     \* sendTail[w]: cached_channel_tail_idx
  chunk,        \* chunk[w]: chunk_token_idx
  sendHead,     \* sendHead[t]: send_head of token t for this rank
  \* the receiver
  recvPc,       \* recvPc[v]: what receive warp v does next
  start,        \* start[v]: the decoded start offset
  remaining,    \* remaining[v]: num_tokens_to_recv
  sharedTail,   \* shared_channel_tail_idx
  recvHead,     \* recvHead[v]: cached_channel_head_idx
  recvTail,     \* recvTail[v]: cached_channel_tail_idx
  next,         \* next[v]: chunk_idx of v's next copy in this round
  recv,         \* recv[p]: the token received at position p of the channel
  channelOffset,\* recv_channel_offset of this channel
  trapped       \* the sides whose kernel has trapped

queueVars == <<startOffset, endOffset, head, tail, slot>>
sendVars == <<sendPc, token, sendTail, chunk, sendHead>>
recvVars == <<recvPc, start, remaining, sharedTail, recvHead, recvTail, next,
              recv, channelOffset>>
vars == <<inRank, queueVars, sendVars, recvVars, trapped>>

\* The position of token t among the tokens sent to this rank.
Position(t) == Cardinality({u \in inRank : u < t})
NumSent == Cardinality(inRank)

SendPcs == {"start", "end", "wait", "chunk", "sync", "publish", "done"}
RecvPcs == {"start", "end", "poll", "sync1", "load", "copy", "sync2", "store", "done"}

TypeOK ==
  /\ inRank \subseteq Tokens
  /\ startOffset \in Int /\ endOffset \in Int
  /\ head \in Nat /\ tail \in Nat
  /\ slot \in [Slots -> Tokens \cup {None}]
  /\ sendPc \in [Warps -> SendPcs]
  /\ token \in [Warps -> 0 .. NumTokens]
  /\ sendTail \in [Warps -> Nat]
  /\ chunk \in [Warps -> Nat]
  /\ sendHead \in [Tokens -> Int]
  /\ recvPc \in [Warps -> RecvPcs]
  /\ start \in [Warps -> Int]
  /\ remaining \in [Warps -> Int]
  /\ sharedTail \in Nat
  /\ recvHead \in [Warps -> Nat]
  /\ recvTail \in [Warps -> Nat]
  /\ next \in [Warps -> Nat]
  /\ recv \in [Tokens -> Tokens \cup {None}]
  /\ channelOffset \in Int
  /\ trapped \subseteq {"sender", "receiver"}

\* The notify kernel has just zeroed the offsets, the head and the tail (0 is
\* "not announced"); slots and outputs hold whatever they held before, written
\* None, and send_head is allocated uninitialised (-2 stands for garbage).
Init ==
  /\ inRank \in SUBSET Tokens
  /\ startOffset = 0 /\ endOffset = 0 /\ head = 0 /\ tail = 0
  /\ slot = [i \in Slots |-> None]
  /\ sendPc = [w \in Warps |-> IF w = 0 THEN "start" ELSE IF NumTokens > 0 THEN "wait" ELSE "done"]
  /\ token = [w \in Warps |-> 0]
  /\ sendTail = [w \in Warps |-> 0]
  /\ chunk = [w \in Warps |-> 0]
  /\ sendHead = [t \in Tokens |-> -2]
  /\ recvPc = [v \in Warps |-> "start"]
  /\ start = [v \in Warps |-> None]
  /\ remaining = [v \in Warps |-> 0]
  /\ sharedTail = 0
  /\ recvHead = [v \in Warps |-> 0]
  /\ recvTail = [v \in Warps |-> 0]
  /\ next = [v \in Warps |-> 0]
  /\ recv = [p \in Tokens |-> None]
  /\ channelOffset = None
  /\ trapped = {}

-----------------------------------------------------------------------------
(* The sender.                                                             *)

SenderStep(w, from) == "sender" \notin trapped /\ sendPc[w] = from
SendGoto(w, to) == sendPc' = [sendPc EXCEPT ![w] = to]

\* The loop over the channel's tokens goes on or ends.
NextChunk(w) == IF token[w] < NumTokens THEN "wait" ELSE "done"

\* Mutation: the offset itself instead of its code.
Plain(value) == value

\* encode and decode: 0 is kept for "not announced".
Encode(value) == -value - 1

Decode(code) == -code - 1

\* st_relaxed of the two offsets by warp 0.
AnnounceStart ==
  /\ SenderStep(0, "start")
  /\ startOffset' = Encode(StartOffset)
  /\ SendGoto(0, "end")
  /\ UNCHANGED <<inRank, endOffset, head, tail, slot, token, sendTail, chunk, sendHead, recvVars, trapped>>

AnnounceEnd ==
  /\ SenderStep(0, "end")
  /\ endOffset' = Encode(StartOffset + NumSent)
  /\ SendGoto(0, NextChunk(0))
  /\ UNCHANGED <<inRank, startOffset, head, tail, slot, token, sendTail, chunk, sendHead, recvVars, trapped>>

\* Mutation: room for a single token is taken to be enough.
RoomForOne(w) == sendTail[w] - head < QueueSize

\* num_used_slots <= max_num_used_slots_in_queue: room for a whole chunk.
RoomForChunk(w) == sendTail[w] - head <= QueueSize - ChunkSize

\* A warp finds room, on its own reading of the head, and starts a chunk.
BeginChunk(w) ==
  /\ SenderStep(w, "wait")
  /\ RoomForChunk(w)
  /\ chunk' = [chunk EXCEPT ![w] = 0]
  /\ SendGoto(w, "chunk")
  /\ UNCHANGED <<inRank, queueVars, token, sendTail, sendHead, recvVars, trapped>>

\* Mutation: the last chunk runs past the end of the channel's tokens.
MoreInChunkUnbounded(w) == chunk[w] < ChunkSize

MoreInChunk(w) == chunk[w] < ChunkSize /\ token[w] < NumTokens

\* Round-robin turns: the token index decides who saves send_head, the tail
\* after the increment decides who copies.
SavesHead(w) == token[w] % NumWarps = w
Copies(w) == (sendTail[w] + 1) % NumWarps = w

\* Mutation: a warp counts only the tokens it copies itself.
NewTailOwn(w) == IF Copies(w) THEN sendTail[w] + 1 ELSE sendTail[w]

\* Every warp counts every token sent, whoever copies it.
NewTail(w) == sendTail[w] + 1

SaveHead(w, value) ==
  sendHead' = IF SavesHead(w) THEN [sendHead EXCEPT ![token[w]] = value] ELSE sendHead

SkipToken(w) ==
  /\ SenderStep(w, "chunk")
  /\ MoreInChunk(w)
  /\ token[w] \notin inRank
  /\ SaveHead(w, -1)
  /\ token' = [token EXCEPT ![w] = @ + 1]
  /\ UNCHANGED <<inRank, queueVars, sendPc, sendTail, chunk, recvVars, trapped>>

SendToken(w) ==
  /\ SenderStep(w, "chunk")
  /\ MoreInChunk(w)
  /\ token[w] \in inRank
  /\ SaveHead(w, sendTail[w])
  /\ slot' = IF Copies(w) THEN [slot EXCEPT ![sendTail[w] % QueueSize] = token[w]] ELSE slot
  /\ sendTail' = [sendTail EXCEPT ![w] = NewTail(w)]
  /\ chunk' = [chunk EXCEPT ![w] = @ + 1]
  /\ token' = [token EXCEPT ![w] = @ + 1]
  /\ UNCHANGED <<inRank, startOffset, endOffset, head, tail, sendPc, recvVars, trapped>>

EndChunk(w) ==
  /\ SenderStep(w, "chunk")
  /\ ~MoreInChunk(w)
  /\ SendGoto(w, "sync")
  /\ UNCHANGED <<inRank, queueVars, token, sendTail, chunk, sendHead, recvVars, trapped>>

\* Mutation: warp 0 goes on without waiting for the others.
SendersMetAny == sendPc[0] = "sync"

SendersMet == \A w \in Warps : sendPc[w] = "sync"

\* sync_warp_group; then warp 0 stores the tail, the others start over.
SenderSync ==
  /\ "sender" \notin trapped
  /\ SendersMet
  /\ sendPc' = [w \in Warps |-> IF w = 0 THEN "publish" ELSE NextChunk(w)]
  /\ UNCHANGED <<inRank, queueVars, token, sendTail, chunk, sendHead, recvVars, trapped>>

PublishTail ==
  /\ SenderStep(0, "publish")
  /\ tail' = sendTail[0]
  /\ SendGoto(0, NextChunk(0))
  /\ UNCHANGED <<inRank, startOffset, endOffset, head, slot, token, sendTail, chunk, sendHead, recvVars, trapped>>

SenderTimesOut ==
  /\ TimesOut
  /\ \E w \in Warps : SenderStep(w, "wait") /\ ~RoomForChunk(w)
  /\ trapped' = trapped \cup {"sender"}
  /\ UNCHANGED <<inRank, queueVars, sendVars, recvVars>>

-----------------------------------------------------------------------------
(* The receiver.                                                           *)

RecvStep(v, from) == "receiver" \notin trapped /\ recvPc[v] = from
RecvGoto(v, to) == recvPc' = [recvPc EXCEPT ![v] = to]

\* Where a warp goes at the head of the loop over rounds.
NextRound(v, left) == IF left <= 0 THEN "done" ELSE IF v = 0 THEN "poll" ELSE "sync1"

\* Lane 0 of every warp spins on the two offsets; these loops have no timeout.
ReadStart(v) ==
  /\ RecvStep(v, "start")
  /\ startOffset # 0
  /\ start' = [start EXCEPT ![v] = Decode(startOffset)]
  /\ RecvGoto(v, "end")
  /\ UNCHANGED <<inRank, queueVars, sendVars, remaining, sharedTail, recvHead, recvTail, next, recv, channelOffset, trapped>>

ReadEnd(v) ==
  /\ RecvStep(v, "end")
  /\ endOffset # 0
  /\ LET left == Decode(endOffset) - start[v]
     IN  /\ remaining' = [remaining EXCEPT ![v] = left]
         /\ RecvGoto(v, NextRound(v, left))
  /\ channelOffset' = IF v = 0 THEN start[v] ELSE channelOffset
  /\ UNCHANGED <<inRank, queueVars, sendVars, start, sharedTail, recvHead, recvTail, next, recv, trapped>>

\* ld_acquire of the tail by thread 0, handed to the other warps in shared memory.
PollTail ==
  /\ RecvStep(0, "poll")
  /\ tail # recvHead[0]
  /\ sharedTail' = tail
  /\ RecvGoto(0, "sync1")
  /\ UNCHANGED <<inRank, queueVars, sendVars, start, remaining, recvHead, recvTail, next, recv, channelOffset, trapped>>

\* Mutation: no barrier between the poll and the use of the shared tail.
ReceiversMetAny(pc) == \E v \in Warps : recvPc[v] = pc

ReceiversMet(pc) == \A v \in Warps : recvPc[v] = pc

ReceiverSync1 ==
  /\ "receiver" \notin trapped
  /\ ReceiversMet("sync1")
  /\ recvPc' = [v \in Warps |-> "load"]
  /\ UNCHANGED <<inRank, queueVars, sendVars, start, remaining, sharedTail, recvHead, recvTail, next, recv, channelOffset, trapped>>

LoadTail(v) ==
  /\ RecvStep(v, "load")
  /\ recvTail' = [recvTail EXCEPT ![v] = sharedTail]
  /\ next' = [next EXCEPT ![v] = v]
  /\ RecvGoto(v, "copy")
  /\ UNCHANGED <<inRank, queueVars, sendVars, start, remaining, sharedTail, recvHead, recv, channelOffset, trapped>>

RoundSize(v) == recvTail[v] - recvHead[v]

\* A warp copies every NumWarps-th new token of the round.
CopyToken(v) ==
  /\ RecvStep(v, "copy")
  /\ next[v] < RoundSize(v)
  /\ LET p == recvHead[v] + next[v]
     IN  recv' = [recv EXCEPT ![p] = slot[p % QueueSize]]
  /\ next' = [next EXCEPT ![v] = @ + NumWarps]
  /\ UNCHANGED <<inRank, queueVars, sendVars, recvPc, start, remaining, sharedTail, recvHead, recvTail, channelOffset, trapped>>

EndCopy(v) ==
  /\ RecvStep(v, "copy")
  /\ next[v] >= RoundSize(v)
  /\ recvHead' = [recvHead EXCEPT ![v] = recvTail[v]]
  /\ remaining' = [remaining EXCEPT ![v] = @ - RoundSize(v)]
  /\ RecvGoto(v, "sync2")
  /\ UNCHANGED <<inRank, queueVars, sendVars, start, sharedTail, recvTail, next, recv, channelOffset, trapped>>

Last == NumWarps - 1

\* Mutation: a warp frees the round's slots as soon as its own copies are done.
ReceiverDoneLocal == recvPc[Last] = "sync2"

ReceiverDone == ReceiversMet("sync2")

ReceiverSync2 ==
  /\ "receiver" \notin trapped
  /\ ReceiverDone
  /\ recvPc' = [v \in Warps |-> IF v = Last THEN "store" ELSE NextRound(v, remaining[v])]
  /\ UNCHANGED <<inRank, queueVars, sendVars, start, remaining, sharedTail, recvHead, recvTail, next, recv, channelOffset, trapped>>

\* The last warp frees the slots; the others may already be in the next round.
StoreHead ==
  /\ RecvStep(Last, "store")
  /\ head' = recvHead[Last]
  /\ RecvGoto(Last, NextRound(Last, remaining[Last]))
  /\ UNCHANGED <<inRank, startOffset, endOffset, tail, slot, sendVars, start, remaining, sharedTail, recvHead, recvTail, next, recv, channelOffset, trapped>>

ReceiverTimesOut ==
  /\ TimesOut
  /\ RecvStep(0, "poll") /\ tail = recvHead[0]
  /\ trapped' = trapped \cup {"receiver"}
  /\ UNCHANGED <<inRank, queueVars, sendVars, recvVars>>

-----------------------------------------------------------------------------

SendWarp(w) == BeginChunk(w) \/ SkipToken(w) \/ SendToken(w) \/ EndChunk(w)
Sender == AnnounceStart \/ AnnounceEnd \/ SenderSync \/ PublishTail \/ \E w \in Warps : SendWarp(w)
RecvWarp(v) == ReadStart(v) \/ ReadEnd(v) \/ LoadTail(v) \/ CopyToken(v) \/ EndCopy(v)
Receiver == PollTail \/ ReceiverSync1 \/ ReceiverSync2 \/ StoreHead \/ \E v \in Warps : RecvWarp(v)
TimeOut == SenderTimesOut \/ ReceiverTimesOut

Finished ==
  /\ \A w \in Warps : sendPc[w] = "done" /\ recvPc[w] = "done"

\* The kernels have returned, or have trapped.
Terminated == (Finished \/ trapped # {}) /\ UNCHANGED vars

Next == Sender \/ Receiver \/ TimeOut \/ Terminated

Spec == Init /\ [][Next]_vars

\* A resident warp keeps running; both kernels are resident at once, since
\* neither kernel starts before the barrier of its notify kernel has passed.
WarpFairness ==
  /\ WF_vars(AnnounceStart) /\ WF_vars(AnnounceEnd) /\ WF_vars(SenderSync) /\ WF_vars(PublishTail)
  /\ WF_vars(PollTail) /\ WF_vars(ReceiverSync1) /\ WF_vars(ReceiverSync2) /\ WF_vars(StoreHead)
  /\ \A w \in Warps : WF_vars(SendWarp(w)) /\ WF_vars(RecvWarp(w))

FairSpec == Spec /\ WarpFairness

-----------------------------------------------------------------------------
(* Properties.                                                             *)

\* Between the head and the published tail every slot holds its own token: no
\* send warp that has run ahead, on whatever reading of the head, overwrites a
\* slot that some receive warp has still to copy.
UnreadSlotsIntact ==
  \A t \in inRank :
    (Position(t) >= head /\ Position(t) < tail) => slot[Position(t) % QueueSize] = t

\* When warp 0 publishes the tail, all the tokens below it are in their slots,
\* although warp 0 copied only some of them.
WarpsAgreeOnTail ==
  SendersMet => \A w \in Warps : token[w] = token[0] /\ sendTail[w] = sendTail[0]

\* When both kernels are done every token of the rank has been delivered and
\* send_head tells, for each token of the channel, the queue position that the
\* group reduce must wait for, or -1; recv_channel_offset is the start offset.
CompleteAtEnd ==
  Finished =>
    /\ \A t \in inRank : recv[Position(t)] = t
    /\ \A t \in Tokens : sendHead[t] = IF t \in inRank THEN Position(t) ELSE -1
    /\ channelOffset = StartOffset
    /\ head = NumSent /\ tail = NumSent

\* Neither side waits for ever: without clocks both kernels finish, although the
\* sender waits for the room of a whole chunk, the receiver for offsets that may
\* both be zero, and the head is stored by another warp than the one that polls.
Completes == <>(Finished \/ trapped # {})

\* The queue implements a bounded stream of tokens: it is produced at the tail,
\* released at the head, and in between delivered: each token of the rank, in the
\* order of x, to its own place, whichever warp copied it.
Delivered == {Position(t) : t \in {u \in inRank : recv[Position(u)] = u}}
Stream == INSTANCE BoundedStream
            WITH Capacity <- QueueSize, Total <- NumSent, produced <- tail,
                 released <- head, delivered <- Delivered
ImplementsStream == Stream!Spec
=============================================================================
