--------------------------- MODULE GroupCollectives ---------------------------
(***************************************************************************)
(* A sequence of intranode group collectives over one pair of buffers:      *)
(* Buffer::intranode_group_cast and intranode_group_reduce (buffer.cpp), the *)
(* notify kernels (intranode_notify_kernel.cu, intranode_utils.cuh) and the *)
(* metadata that the cast and reduce kernels (intranode_kernel.cuh) lay out *)
(* in each rank's buffer.                                                  *)
(*                                                                         *)
(* The hosts call the same collectives in the same order but run ahead of   *)
(* their comm streams and of each other.  A collective is a notify kernel,  *)
(* which meets the peers in barrier_block, exchanges the counts (unless the *)
(* handle is cached) and zeroes the rank's metadata, and a main kernel      *)
(* through whose queues tokens flow.  Casts and reduces lay their metadata  *)
(* out differently over the SAME words of the buffer, and one collective's  *)
(* data may lie where the next one's metadata will be.                     *)
(*                                                                         *)
(* barrier_block is the abstract Barrier that BlockBarrier implements.  A   *)
(* queue carries at most one token here, since GroupCastChannel and         *)
(* GroupReduceChannel check the queues themselves; there is one channel.    *)
(* The fused cached notify runs the same steps inside the main kernel, with *)
(* a grid barrier where the separate kernel ends.  A word of memory is      *)
(* <<collective that wrote it, value>>.                                    *)
(***************************************************************************)
EXTENDS Integers, FiniteSets, Functions

CONSTANTS
  NumRanks,   \* kNumRanks
  NumColls,   \* how many collectives every host calls (bounds the model)
  Counts,     \* Counts[h]: the matrices num_tokens_per_rank may form for the
              \* h-th handle, entries 0 or 1
  SlotWords   \* words of data per queue

Ranks == 0 .. NumRanks - 1
Colls == 1 .. NumColls

ASSUME SizesAssumption == NumRanks \in Nat \ {0} /\ NumColls \in Nat /\ SlotWords \in Nat \ {0}
ASSUME CountsAssumption ==
  \A h \in Colls : Counts[h] # {} /\ Counts[h] \subseteq [Ranks -> [Ranks -> {0, 1}]]

\* How a host may call a collective: a cast without a handle, whose output is
\* given ("notify") or allocated once the count is known ("count"), a cast with a
\* cached handle, and a reduce with the handle of a cast.
NotifyKinds == {"notify", "count"}
CastKinds == NotifyKinds \cup {"cached"}
Kinds == CastKinds \cup {"reduce"}

VARIABLES
  plan,       \* the collectives that every host calls (input)
  sent,       \* sent[h][r][d]: tokens rank r sends to d under handle h (input)
  \* the hosts
  hostColl,   \* hostColl[r]: the collective that host r is calling
  hostPc,     \* hostPc[r]: what host r does next
  launched,   \* launched[r]: kernels host r has put on its comm stream
  counter,    \* counter[r]: the mapped grpcoll_recv_counter
  recvCount,  \* recvCount[r]: num_recv_tokens as host r knows it
  \* the comm streams
  coll,       \* coll[r]: the collective the stream of r executes
  pc,         \* pc[r]: the next step of its kernels
  entered,    \* entered[r]: barrier calls begun
  phase,      \* phase[r]: inside or outside the barrier
  rows,       \* rows[r]: peers to which r has still to write its row of counts
  saved,      \* saved[r]: rank_prefix_matrix of the handle
  send,       \* send[r][d]: what r's sender for d does next
  recv,       \* recv[r][s]: what r's receiver for s does next
  got,        \* got[r][s]: the word of data r has taken from the queue of s
  mem         \* mem[r][w]: word w of r's buffer

hostVars == <<hostColl, hostPc, launched, recvCount>>
barrierVars == <<entered, phase>>
queueVars == <<send, recv, got>>
inputs == <<plan, sent>>
vars == <<inputs, hostVars, counter, coll, pc, barrierVars, rows, saved, queueVars, mem>>

-----------------------------------------------------------------------------
(* The layout of a buffer.                                                 *)

Prefix(i, j) == i * NumRanks + j
PrefixWords == 0 .. NumRanks * NumRanks - 1
CastBase == NumRanks * NumRanks
Start(s) == CastBase + s
End(s) == CastBase + NumRanks + s

IsReduce(kind) == kind = "reduce"
MetaBase(kind) == IF IsReduce(kind) THEN 0 ELSE CastBase + 2 * NumRanks
Head(kind, s) == MetaBase(kind) + s
Tail(kind, s) == MetaBase(kind) + NumRanks + s
DataBase(kind) == MetaBase(kind) + 2 * NumRanks
SlotOf(kind, s) ==
  DataBase(kind) + s * SlotWords .. DataBase(kind) + (s + 1) * SlotWords - 1

\* The words whose value the main kernel waits for.
MetaWords(kind) == (IF IsReduce(kind) THEN 0 ELSE CastBase) .. DataBase(kind) - 1
Words == 0 .. DataBase("cached") + NumRanks * SlotWords - 1

Value(r, w) == mem[r][w][2]
Writer(r, w) == mem[r][w][1]

Write(r, ws, word) == [mem EXCEPT ![r] = [w \in Words |-> IF w \in ws THEN word ELSE @[w]]]

\* Whatever the allocation left.
Garbage == <<0, 9>>

-----------------------------------------------------------------------------

\* The handle that collective c makes or uses: that of the last notify.
HandleOf(c) == Cardinality({k \in 1 .. c : plan[k] \in NotifyKinds})

NumSent(c, r, d) == sent[HandleOf(c)][r][d]

\* Tokens that r sends to d in collective c: a reduce returns what a cast brought.
Flow(c, r, d) == IF IsReduce(plan[c]) THEN NumSent(c, d, r) ELSE NumSent(c, r, d)

\* rank_prefix_matrix as it should be.
TruePrefix(c, i, j) == SumFunction([k \in 0 .. i |-> NumSent(c, k, j)])

TypeOK ==
  /\ plan \in [Colls -> Kinds]
  /\ \A h \in Colls : sent[h] \in Counts[h]
  /\ hostColl \in [Ranks -> 1 .. NumColls + 1]
  /\ hostPc \in [Ranks -> {"notify", "await", "main"}]
  /\ launched \in [Ranks -> 0 .. 2 * NumColls]
  /\ counter \in [Ranks -> -1 .. NumRanks]
  /\ recvCount \in [Ranks -> -1 .. NumRanks]
  /\ coll \in [Ranks -> 1 .. NumColls + 1]
  /\ pc \in [Ranks -> {"idle", "barrier1", "rows", "barrier2", "sums", "count",
                       "clear", "barrier3", "notified", "main"}]
  /\ entered \in [Ranks -> Nat]
  /\ phase \in [Ranks -> {"outside", "inside"}]
  /\ rows \in [Ranks -> SUBSET Ranks]
  /\ saved \in [Ranks -> [PrefixWords -> -1 .. NumRanks]]
  /\ send \in [Ranks -> [Ranks -> {"offsets", "token", "done"}]]
  /\ recv \in [Ranks -> [Ranks -> {"offsets", "token", "done"}]]
  /\ got \in [Ranks -> [Ranks -> (0 .. NumColls) \X Int]]
  /\ mem \in [Ranks -> [Words -> (0 .. NumColls) \X Int]]

Init ==
  /\ plan \in {p \in [Colls -> Kinds] : NumColls > 0 => p[1] \in NotifyKinds}
  /\ sent \in [Colls -> UNION {Counts[h] : h \in Colls}]
  /\ \A h \in Colls : /\ sent[h] \in Counts[h]
                      /\ h > HandleOf(NumColls) => sent[h] = CHOOSE m \in Counts[h] : TRUE
  /\ hostColl = [r \in Ranks |-> 1]
  /\ hostPc = [r \in Ranks |-> "notify"]
  /\ launched = [r \in Ranks |-> 0]
  /\ counter = [r \in Ranks |-> -1]
  /\ recvCount = [r \in Ranks |-> -1]
  /\ coll = [r \in Ranks |-> 1]
  /\ pc = [r \in Ranks |-> "idle"]
  /\ entered = [r \in Ranks |-> 0]
  /\ phase = [r \in Ranks |-> "outside"]
  /\ rows = [r \in Ranks |-> {}]
  /\ saved = [r \in Ranks |-> [w \in PrefixWords |-> -1]]
  /\ send = [r \in Ranks |-> [d \in Ranks |-> "done"]]
  /\ recv = [r \in Ranks |-> [s \in Ranks |-> "done"]]
  /\ got = [r \in Ranks |-> [s \in Ranks |-> Garbage]]
  /\ mem = [r \in Ranks |-> [w \in Words |-> Garbage]]

-----------------------------------------------------------------------------
(* The hosts.                                                              *)

Kind(r) == plan[hostColl[r]]

\* Mutation: the counter keeps what the previous collective left in it.
CounterKept(r) == counter

CounterReset(r) == [counter EXCEPT ![r] = -1]

\* The notify kernel is enqueued; the counter is reset first if it is needed.
LaunchNotify(r) ==
  /\ hostPc[r] = "notify"
  /\ hostColl[r] <= NumColls
  /\ launched' = [launched EXCEPT ![r] = @ + 1]
  /\ counter' = IF Kind(r) = "count" THEN CounterReset(r) ELSE counter
  /\ hostPc' = [hostPc EXCEPT ![r] = IF Kind(r) = "count" THEN "await" ELSE "main"]
  /\ UNCHANGED <<inputs, hostColl, recvCount, coll, pc, barrierVars, rows, saved, queueVars, mem>>

\* The host spins on the counter before it can allocate the output.
AwaitCount(r) ==
  /\ hostPc[r] = "await"
  /\ counter[r] >= 0
  /\ recvCount' = [recvCount EXCEPT ![r] = counter[r]]
  /\ hostPc' = [hostPc EXCEPT ![r] = "main"]
  /\ UNCHANGED <<inputs, hostColl, launched, counter, coll, pc, barrierVars, rows, saved, queueVars, mem>>

LaunchMain(r) ==
  /\ hostPc[r] = "main"
  /\ launched' = [launched EXCEPT ![r] = @ + 1]
  /\ hostColl' = [hostColl EXCEPT ![r] = @ + 1]
  /\ hostPc' = [hostPc EXCEPT ![r] = "notify"]
  /\ UNCHANGED <<inputs, recvCount, counter, coll, pc, barrierVars, rows, saved, queueVars, mem>>

-----------------------------------------------------------------------------
(* The notify kernels.                                                     *)

Running(r) == plan[coll[r]]
Goto(r, step) == pc' = [pc EXCEPT ![r] = step]

\* Mutation: the notify kernel does not meet its peers before it starts.
NoFirstBarrier(r) == IF Running(r) \in NotifyKinds THEN "rows" ELSE "clear"

FirstStep(r) == "barrier1"

StartNotify(r) ==
  /\ pc[r] = "idle"
  /\ coll[r] <= NumColls
  /\ launched[r] >= 2 * coll[r] - 1
  /\ Goto(r, FirstStep(r))
  /\ rows' = [rows EXCEPT ![r] = Ranks]
  /\ UNCHANGED <<inputs, hostVars, counter, coll, barrierVars, saved, queueVars, mem>>

Meeting == INSTANCE Barrier WITH MaxCalls <- 3 * NumColls

AtBarrier(r) == pc[r] \in {"barrier1", "barrier2", "barrier3"}

EnterBarrier(r) ==
  /\ AtBarrier(r)
  /\ Meeting!Enter(r)
  /\ UNCHANGED <<inputs, hostVars, counter, coll, pc, rows, saved, queueVars, mem>>

AfterBarrier(r) ==
  CASE pc[r] = "barrier1" -> IF Running(r) \in NotifyKinds THEN "rows" ELSE "clear"
    [] pc[r] = "barrier2" -> "sums"
    [] pc[r] = "barrier3" -> "notified"

LeaveBarrier(r) ==
  /\ AtBarrier(r)
  /\ Meeting!Leave(r)
  /\ Goto(r, AfterBarrier(r))
  /\ UNCHANGED <<inputs, hostVars, counter, coll, rows, saved, queueVars, mem>>

\* Thread d copies the rank's row of counts into the buffer of rank d.
WriteRow(r, d) ==
  /\ pc[r] = "rows"
  /\ d \in rows[r]
  /\ mem' = [mem EXCEPT ![d] = [w \in Words |->
       IF \E j \in Ranks : w = Prefix(r, j)
       THEN <<coll[r], NumSent(coll[r], r, w - r * NumRanks)>> ELSE mem[d][w]]]
  /\ rows' = [rows EXCEPT ![r] = @ \ {d}]
  /\ UNCHANGED <<inputs, hostVars, counter, coll, pc, barrierVars, saved, queueVars>>

\* Mutation: the prefix sums are used without a barrier after the rows.
NoSecondBarrier == "sums"

AfterRows == "barrier2"

EndRows(r) ==
  /\ pc[r] = "rows"
  /\ rows[r] = {}
  /\ Goto(r, AfterRows)
  /\ UNCHANGED <<inputs, hostVars, counter, coll, barrierVars, rows, saved, queueVars, mem>>

\* Thread j sums column j in place.
ColumnSums(r) ==
  /\ pc[r] = "sums"
  /\ mem' = [mem EXCEPT ![r] = [w \in Words |->
       IF w \in PrefixWords
       THEN <<coll[r], SumFunction([k \in 0 .. w \div NumRanks |-> Value(r, Prefix(k, w % NumRanks))])>>
       ELSE mem[r][w]]]
  /\ Goto(r, IF Running(r) = "count" THEN "count" ELSE "clear")
  /\ UNCHANGED <<inputs, hostVars, counter, coll, barrierVars, rows, saved, queueVars>>

\* Mutation: the column of another rank.
NextColumnTotal(r) == Value(r, Prefix(NumRanks - 1, (r + 1) % NumRanks))

\* The last entry of the rank's own column.
ColumnTotal(r) == Value(r, Prefix(NumRanks - 1, r))

\* Thread r hands the total to the host, once the host has reset the counter.
TellCount(r) ==
  /\ pc[r] = "count"
  /\ counter[r] = -1
  /\ counter' = [counter EXCEPT ![r] = ColumnTotal(r)]
  /\ Goto(r, "clear")
  /\ UNCHANGED <<inputs, hostVars, coll, barrierVars, rows, saved, queueVars, mem>>

\* Mutation: every collective zeroes the few words a reduce needs.
ClearedLikeReduce(kind) == 0 .. 2 * NumRanks - 1

\* num_memset_int words after the prefix matrix, if there is one.
Cleared(kind) ==
  IF IsReduce(kind) THEN 0 .. 2 * NumRanks - 1
  ELSE CastBase .. CastBase + 4 * NumRanks - 1

\* Mutation: no barrier after the metadata is zeroed.
NoLastBarrier == "notified"

AfterClear == "barrier3"

\* The prefix matrix is kept with a new handle, restored from a cached one; then
\* the metadata is zeroed.
Clear(r) ==
  /\ pc[r] = "clear"
  /\ saved' = IF Running(r) \in NotifyKinds
              THEN [saved EXCEPT ![r] = [w \in PrefixWords |-> Value(r, w)]] ELSE saved
  /\ mem' = [mem EXCEPT ![r] = [w \in Words |->
       IF w \in Cleared(Running(r)) THEN <<coll[r], 0>>
       ELSE IF Running(r) = "cached" /\ w \in PrefixWords THEN <<coll[r], saved[r][w]>>
       ELSE mem[r][w]]]
  /\ Goto(r, AfterClear)
  /\ UNCHANGED <<inputs, hostVars, counter, coll, barrierVars, rows, queueVars>>

-----------------------------------------------------------------------------
(* The main kernels.                                                       *)

StartMain(r) ==
  /\ pc[r] = "notified"
  /\ launched[r] >= 2 * coll[r]
  /\ Goto(r, "main")
  /\ LET first(n) == IF IsReduce(Running(r)) THEN IF n > 0 THEN "token" ELSE "done" ELSE "offsets"
     IN  /\ send' = [send EXCEPT ![r] = [d \in Ranks |-> first(Flow(coll[r], r, d))]]
         /\ recv' = [recv EXCEPT ![r] = [s \in Ranks |-> first(Flow(coll[r], s, r))]]
  /\ got' = [got EXCEPT ![r] = [s \in Ranks |-> Garbage]]
  /\ UNCHANGED <<inputs, hostVars, counter, coll, barrierVars, rows, saved, mem>>

\* Mutation: offsets are announced as they are.
AnnouncePlain(offset) == offset

Announce(offset) == -offset - 1

\* The coded offsets of the channel; its start is 0, as there is one channel.
SendOffsets(r, d) ==
  /\ pc[r] = "main" /\ send[r][d] = "offsets"
  /\ mem' = [mem EXCEPT ![d][Start(r)] = <<coll[r], Announce(0)>>,
                        ![d][End(r)] = <<coll[r], Announce(Flow(coll[r], r, d))>>]
  /\ send' = [send EXCEPT ![r][d] = IF Flow(coll[r], r, d) > 0 THEN "token" ELSE "done"]
  /\ UNCHANGED <<inputs, hostVars, counter, coll, pc, barrierVars, rows, saved, recv, got>>

\* The token goes into its slot, then the tail is released.
SendToken(r, d) ==
  /\ pc[r] = "main" /\ send[r][d] = "token"
  /\ LET kind == Running(r)
     IN  mem' = [mem EXCEPT ![d] = [w \in Words |->
           IF w \in SlotOf(kind, r) THEN <<coll[r], r + 1>>
           ELSE IF w = Tail(kind, r) THEN <<coll[r], 1>> ELSE mem[d][w]]]
  /\ send' = [send EXCEPT ![r][d] = "done"]
  /\ UNCHANGED <<inputs, hostVars, counter, coll, pc, barrierVars, rows, saved, recv, got>>

RecvOffsets(r, s) ==
  /\ pc[r] = "main" /\ recv[r][s] = "offsets"
  /\ Value(r, Start(s)) # 0 /\ Value(r, End(s)) # 0
  /\ recv' = [recv EXCEPT ![r][s] =
                IF Announce(Value(r, End(s))) - Announce(Value(r, Start(s))) > 0 THEN "token" ELSE "done"]
  /\ UNCHANGED <<inputs, hostVars, counter, coll, pc, barrierVars, rows, saved, send, got, mem>>

\* A tail other than the head: the slot is read and the head stored.
RecvToken(r, s) ==
  /\ pc[r] = "main" /\ recv[r][s] = "token"
  /\ LET kind == Running(r)
     IN  /\ Value(r, Tail(kind, s)) # 0
         /\ got' = [got EXCEPT ![r][s] = mem[r][DataBase(kind) + s * SlotWords]]
         /\ mem' = [mem EXCEPT ![r][Head(kind, s)] = <<coll[r], Value(r, Tail(kind, s))>>]
  /\ recv' = [recv EXCEPT ![r][s] = "done"]
  /\ UNCHANGED <<inputs, hostVars, counter, coll, pc, barrierVars, rows, saved, send>>

MainDone(r) == \A q \in Ranks : send[r][q] = "done" /\ recv[r][q] = "done"

EndMain(r) ==
  /\ pc[r] = "main"
  /\ MainDone(r)
  /\ Goto(r, "idle")
  /\ coll' = [coll EXCEPT ![r] = @ + 1]
  /\ UNCHANGED <<inputs, hostVars, counter, barrierVars, rows, saved, queueVars, mem>>

-----------------------------------------------------------------------------

Host(r) == LaunchNotify(r) \/ AwaitCount(r) \/ LaunchMain(r)
NotifyKernel(r) ==
  \/ StartNotify(r) \/ EnterBarrier(r) \/ LeaveBarrier(r) \/ (\E d \in Ranks : WriteRow(r, d))
  \/ EndRows(r) \/ ColumnSums(r) \/ TellCount(r) \/ Clear(r)
Queue(r, q) == SendOffsets(r, q) \/ SendToken(r, q) \/ RecvOffsets(r, q) \/ RecvToken(r, q)
MainKernel(r) == StartMain(r) \/ EndMain(r)

Finished == \A r \in Ranks : hostColl[r] > NumColls /\ coll[r] > NumColls

Terminated == Finished /\ UNCHANGED vars

Next ==
  \/ \E r \in Ranks : Host(r) \/ NotifyKernel(r) \/ MainKernel(r) \/ \E q \in Ranks : Queue(r, q)
  \/ Terminated

Spec == Init /\ [][Next]_vars

\* Hosts return from their calls and make the next one; kernels that are
\* enqueued run, and all the warps of a running kernel are resident.
Fairness ==
  \A r \in Ranks :
    /\ WF_vars(Host(r)) /\ WF_vars(NotifyKernel(r)) /\ WF_vars(MainKernel(r))
    /\ \A q \in Ranks : WF_vars(SendOffsets(r, q) \/ SendToken(r, q))
                        /\ WF_vars(RecvOffsets(r, q) \/ RecvToken(r, q))

FairSpec == Spec /\ Fairness

-----------------------------------------------------------------------------
(* Properties.                                                             *)

\* The main kernel of a rank finds in its metadata only zeroes and what the peers
\* wrote for this very collective, although the words held other metadata or data
\* of the collective before, and a fast peer may already send when the rank has
\* only just left the last barrier.
MetadataIsCurrent ==
  \A r \in Ranks : pc[r] \in {"notified", "main"} =>
    \A w \in MetaWords(Running(r)) : Value(r, w) = 0 \/ Writer(r, w) = coll[r]

\* Has rank s sent its token of collective c to rank r?
HasSent(s, r, c) ==
  \/ coll[s] > c
  \/ coll[s] = c /\ pc[s] = "main" /\ send[s][r] = "done"

\* What a peer has sent stays until the receiver takes it: neither the receiver's
\* own zeroing nor a peer that has gone on to the next collective wipes it out.
NothingIsLost ==
  \A r, s \in Ranks :
    LET c == coll[r]
    IN  (c <= NumColls /\ HasSent(s, r, c) /\ Flow(c, s, r) > 0
           /\ ~(pc[r] = "main" /\ recv[r][s] = "done"))
          => /\ mem[r][Tail(plan[c], s)] = <<c, 1>>
             /\ \A w \in SlotOf(plan[c], s) : Writer(r, w) = c

\* What a receiver takes from a queue is the token that the source sent in this
\* collective, and it takes one exactly if one was sent.
DeliveredIsSent ==
  \A r, s \in Ranks : (pc[r] = "main" /\ recv[r][s] = "done") =>
    got[r][s] = IF Flow(coll[r], s, r) > 0 THEN <<coll[r], s + 1>> ELSE Garbage

\* The receivers of a cast place tokens by the prefix matrix in the buffer; it
\* and the copy kept with the handle tell what all the ranks really send, until
\* the kernel ends, although peers write their rows for the next cast into it.
PrefixIsTrue ==
  \A r \in Ranks : (pc[r] = "main" /\ Running(r) \in CastKinds) =>
    \A i, j \in Ranks :
      /\ Value(r, Prefix(i, j)) = TruePrefix(coll[r], i, j)
      /\ saved[r][Prefix(i, j)] = TruePrefix(coll[r], i, j)

\* The count by which the host allocates the output is the number of tokens that
\* its main kernel receives.
RecvCountIsRight ==
  \A r \in Ranks : (hostPc[r] = "main" /\ Kind(r) = "count") =>
    recvCount[r] = TruePrefix(hostColl[r], NumRanks - 1, r)

\* All collectives complete on all ranks, however the hosts run ahead.
Completes == <>Finished
=============================================================================
