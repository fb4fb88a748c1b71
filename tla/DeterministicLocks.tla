-------------------------- MODULE DeterministicLocks --------------------------
(***************************************************************************)
(* The order in which the tiles of flexible flash attention reduce into one  *)
(* tensor (csrc/flexible_flash_attention): the dynamic persistent tile       *)
(* schedulers, the range locks of deterministic.h with the conflict state    *)
(* that tells a tile which batch it follows, and the epilogues that use them *)
(*   "fwd"  out and lse, epilogue_fwd.hpp (with a mutex per lock block),     *)
(*   "dkv"  dk and dv, epilogue_bwd.hpp,                                     *)
(*   "dq"   dq, the inner storer of mainloop_bwd_sm90_tma_gmma_ws.hpp.       *)
(*                                                                         *)
(* Rows are cut into lock blocks of kBlock rows.  The blocks of a batch start *)
(* at the batch's first row, so that one may straddle two lock blocks, and a *)
(* lock block may be shared by several batches.  A visit is one block of a   *)
(* batch that a tile reduces into: it waits for its turn at its lock blocks, *)
(* adds, and arrives; a lock block that has been arrived at twice publishes   *)
(* the next turn.  In fwd and dkv a tile is one visit; in dq a tile (a block  *)
(* of keys) visits all blocks of queries of each of its batches.             *)
(***************************************************************************)
EXTENDS Integers, Sequences, FiniteSets, SequencesExt, FiniteSetsExt

CONSTANTS
  Configs,    \* the calls that are considered: see ConfigType
  NumSms      \* gridDim.x: the resident thread blocks, one per SM

ConfigType ==
  [path : {"fwd", "dkv", "dq"},
   deterministic : BOOLEAN,
   kBlock : Nat \ {0},               \* rows of a block
   ranges : Seq(Nat \X Nat),         \* the rows of each batch, [first, end)
   cuBatches : Seq(Nat),             \* cu_batches: the first batch of each merged group, and the end
   numHeadsKv : Nat \ {0},
   headsPerKv : Nat \ {0},           \* qheads_per_kv_group
   numKeyBlocks : Nat \ {0},         \* dq: blocks of keys of every group
   padded : BOOLEAN,                 \* fwd: has_max_outer_range_width
   maxToMin : BOOLEAN,               \* dq: InnerDirMaxToMin
   noData : SUBSET (Nat \X Nat \X Nat)] \* <<batch, block, key block>> that the mask leaves empty

ASSUME SmsAssumption == NumSms \in Nat \ {0}

VARIABLE config    \* the call (input)

Sms == 0 .. NumSms - 1
Path == config.path
BlockSize == config.kBlock
NumHeads == config.numHeadsKv * config.headsPerKv
CeilDiv(a, b) == (a + b - 1) \div b

(***************************** blocks and batches **************************)
NumBatches == Len(config.ranges)
Batches == 0 .. NumBatches - 1
First(b) == config.ranges[b + 1][1]
End(b) == config.ranges[b + 1][2]
NumBlocks(b) == CeilDiv(End(b) - First(b), BlockSize)

\* Are the blocks of batch b shifted against the lock blocks?
Shifted(b) == First(b) % BlockSize # 0

Offset(v) == First(v.batch) + v.block * BlockSize
LeftLock(v) == Offset(v) \div BlockSize
RightLock(v) == (Offset(v) + BlockSize - 1) \div BlockSize
RowsOf(v) == {row \in Offset(v) .. Offset(v) + BlockSize - 1 : row < End(v.batch)}

\* The locks have one block more than the rows need.
Rows == 0 .. Max({End(b) : b \in Batches}) - 1
Locks == 0 .. CeilDiv(Cardinality(Rows), BlockSize)
LockRows(l) == {row \in Rows : row \div BlockSize = l}

\* The heads that have locks and rows of their own: dk and dv of the query
\* heads of a group are summed.
LockHead(head) == IF Path = "dkv" THEN head \div config.headsPerKv ELSE head
LockHeads == {LockHead(head) : head \in 0 .. NumHeads - 1}

\* The conflict state has a row per group of heads in fwd only.
ConflictRow(tile) == IF Path = "fwd" THEN tile.head \div config.headsPerKv ELSE 0

(*********************************** tiles *********************************)
Groups == 0 .. Len(config.cuBatches) - 2
BatchesOf(g) == config.cuBatches[g + 1] .. config.cuBatches[g + 2] - 1
NumOuter(g) == IF Path = "dq" THEN config.numKeyBlocks ELSE NumBlocks(g)
MaxOuter == Max({NumOuter(g) : g \in Groups})

\* With has_max_outer_range_width each batch is given the tiles of the longest.
Tiles == {t \in [head : 0 .. NumHeads - 1, group : Groups, outer : 0 .. MaxOuter - 1] :
            config.padded \/ t.outer < NumOuter(t.group)}
IsHole(tile) == tile.outer >= NumOuter(tile.group)

\* block_idx_to_work_info: which tile has which block_idx.
BlockIdx(t) ==
  LET Q == config.headsPerKv
      key(u) == IF Path = "fwd"
                THEN (((u.head \div Q) * Len(config.cuBatches) + u.group) * MaxOuter + u.outer) * Q + (u.head % Q)
                ELSE (u.group * NumHeads + u.head) * MaxOuter + u.outer
  IN  Cardinality({u \in Tiles : key(u) < key(t)})

\* The steps of a batch: the tiles that reduce into the same block
\* of the same batch one after the other.
StepOf(tile) == CASE Path = "fwd" -> 0
                  [] Path = "dkv" -> tile.head % config.headsPerKv
                  [] Path = "dq" -> tile.outer
NumSteps == CASE Path = "fwd" -> 1
              [] Path = "dkv" -> config.headsPerKv
              [] Path = "dq" -> config.numKeyBlocks * Cardinality(Groups)   \* n_block_max_num
LastStep == (IF Path = "dq" THEN config.numKeyBlocks ELSE NumSteps) - 1
Part(b, s) == b * NumSteps + s

HasData(b, block, s) == <<b, block, IF Path = "dq" THEN s ELSE 0>> \notin config.noData

\* The blocks of batch b in the order in which store_dq goes through them; none
\* if skip_to_first_valid skips the batch.
BlocksInOrder(b, n) ==
  LET data == {m \in 0 .. NumBlocks(b) - 1 : HasData(b, m, n)}
      pass(from, to) == [i \in 1 .. to - from |-> from + i - 1]
      up == pass(Min(data), Max(data) + 1)
  IN  IF data = {} THEN <<>>
      ELSE pass(0, Min(data)) \o (IF config.maxToMin THEN Reverse(up) ELSE up)
             \o pass(Max(data) + 1, NumBlocks(b))

\* The parts that belong into a row: those of all tiles whose block holds it.
PartsOf(row) ==
  {Part(bs[1], bs[2]) : bs \in
     {bs \in Batches \X (0 .. LastStep) :
        /\ First(bs[1]) <= row /\ row < End(bs[1])
        /\ HasData(bs[1], (row - First(bs[1])) \div BlockSize, bs[2])}}

\* The visits of a tile: a sequence of visits per batch.
VisitsByBatch(tile) ==
  IF Path # "dq" THEN << <<[batch |-> tile.group, block |-> tile.outer]>> >>
  ELSE [i \in 1 .. Cardinality(BatchesOf(tile.group)) |->
          LET b == config.cuBatches[tile.group + 1] + i - 1
          IN  [j \in DOMAIN BlocksInOrder(b, tile.outer) |->
                 [batch |-> b, block |-> BlocksInOrder(b, tile.outer)[j]]]]

\* What the epilogue does, action by action: an action of visit v, at a lock block
\* or at a side of the block.
Act(op, v, where) == [op |-> op, visit |-> v, where |-> where]
LockBlocks(v) == IF LeftLock(v) = RightLock(v) THEN <<LeftLock(v)>> ELSE <<LeftLock(v), RightLock(v)>>
ActEach(op, v, locks) == [i \in DOMAIN locks |-> Act(op, v, locks[i])]

\* Mutation: the mutex of the second lock block is not taken.
FirstLockBlock(v) == <<LeftLock(v)>>

MutexBlocks(v) == LockBlocks(v)

\* Mutation: the turn is published before the counter is reset.
ArriveTurnFirst(v, side) == <<Act("add", v, side), Act("publish", v, side), Act("reset", v, side)>>

\* deterministic_arrive at one side of the block.
Arrive(v, side) == <<Act("add", v, side), Act("reset", v, side), Act("publish", v, side)>>

\* fwd corrects lse and out under the mutex of the lock blocks, the others
\* reduce-add by TMA.  A tile without data (store_zero) only waits and arrives.
StoreActs(v) ==
  IF Path = "fwd" THEN ActEach("lock", v, MutexBlocks(v)) \o <<Act("load", v, 0), Act("store", v, 0)>>
  ELSE <<Act("store", v, 0)>>

VisitActs(tile, v) ==
  LET hasData == HasData(v.batch, v.block, StepOf(tile))
      ifDet(acts) == IF config.deterministic THEN acts ELSE <<>>
  IN  ifDet(ActEach("await", v, LockBlocks(v)))
        \o (IF hasData THEN StoreActs(v) ELSE <<>>)
        \o ifDet(Arrive(v, "right") \o Arrive(v, "left"))
        \o (IF hasData /\ Path = "fwd" THEN ActEach("unlock", v, Reverse(MutexBlocks(v))) ELSE <<>>)

\* In dq a tile enters the batches before each of its batches first.
BatchActs(tile, visits) ==
  (IF Path = "dq" /\ visits # <<>> THEN <<Act("enter", visits[1], 0)>> ELSE <<>>)
    \o FlattenSeq([i \in DOMAIN visits |-> VisitActs(tile, visits[i])])

TileActs(tile) ==
  FlattenSeq([i \in DOMAIN VisitsByBatch(tile) |-> BatchActs(tile, VisitsByBatch(tile)[i])])

\* The start of every merged group of n batches, in order, and n (unique_consecutive_pairs).
IsCumulative(cu, n) ==
  /\ Len(cu) > 1 /\ cu[1] = 0 /\ cu[Len(cu)] = n
  /\ \A i, j \in DOMAIN cu : i <= j => cu[i] <= cu[j]

ConfigAccepts(c) ==
  /\ c \in ConfigType
  /\ c.ranges # <<>>
  /\ IsCumulative(c.cuBatches, Len(c.ranges))
  /\ c.path # "dq" => c.cuBatches = [i \in 1 .. Len(c.ranges) + 1 |-> i - 1]
  /\ c.path # "fwd" => c.deterministic /\ ~c.padded

ASSUME ConfigAssumption == \A c \in Configs : ConfigAccepts(c)

VARIABLES
  order,        \* order[i]: the tile whose block_idx is i (given by config)
  epilogue,     \* epilogue[t]: what the epilogue of tile t does (given by config)
  owed,         \* owed[<<h, row>>]: the parts that belong into the row (given by config)
  \* the tile scheduler; its part that runs in the producer warp of each SM
  handedOut,    \* block_count_semaphore
  producerPc,   \* producerPc[sm]: what the producer warp does next
  nextId,       \* nextId[sm]: block_idx
  lastTile,     \* lastTile[sm]: the tile of current_work
  slot,         \* slot[sm]: work_info_smem
  conflict,     \* conflict[sm][row][l]: conflict_state, the last batch before here, plus 1
  \* the warps of each SM that reduce
  ahead,        \* ahead[sm]: fwd: the work taken before the epilogue of the work before it
  current,      \* current[sm]: the work whose epilogue runs
  todo,         \* todo[sm]: what is left of the epilogue
  loaded,       \* loaded[sm]: fwd: lse and out as loaded, per row
  \* in global memory
  turn,         \* turn[h][l]: arrive_num of the range lock
  count,        \* count[h][l]: its counter
  mutex,        \* mutex[h][l]: range_locks of fwd
  sum           \* sum[<<h, row>>]: the parts that have been reduced, in order

producerVars == <<handedOut, producerPc, nextId, lastTile>>
consumerVars == <<ahead, current, todo, loaded>>
lockVars == <<turn, count, mutex>>
inputs == <<config, order, epilogue, owed>>
vars == <<inputs, producerVars, slot, conflict, consumerVars, lockVars, sum>>

Cells == LockHeads \X Rows

NumTiles == Cardinality(DOMAIN order)

\* A work info: a tile with its conflict message; no work, and past the last tile.
Work(kind, tile, left, right) == [kind |-> kind, tile |-> tile, left |-> left, right |-> right]
FirstTile == [head |-> 0, group |-> 0, outer |-> 0]
NoWork == Work("none", FirstTile, 0, 0)
EndWork == Work("end", FirstTile, 0, 0)

TileType == [head : 0 .. NumHeads - 1, group : Groups, outer : Nat]
WorkType == [kind : {"none", "end", "tile"}, tile : TileType, left : 0 .. NumBatches, right : 0 .. NumBatches]

TypeOK ==
  /\ config \in Configs
  /\ handedOut \in Nat
  /\ producerPc \in [Sms -> {"hand", "prefetch", "done"}]
  /\ nextId \in [Sms -> 0 .. handedOut + NumSms]
  /\ lastTile \in [Sms -> TileType]
  /\ slot \in [Sms -> WorkType]
  /\ conflict \in [Sms -> [0 .. NumHeads - 1 -> [Locks -> 0 .. NumBatches]]]
  /\ ahead \in [Sms -> WorkType]
  /\ current \in [Sms -> WorkType]
  /\ \A sm \in Sms : DOMAIN loaded[sm] \subseteq Rows
  /\ turn \in [LockHeads -> [Locks -> 0 .. NumBatches * NumSteps]]
  /\ count \in [LockHeads -> [Locks -> 0 .. 2]]
  /\ mutex \in [LockHeads -> [Locks -> {0, 1}]]
  /\ DOMAIN sum = Cells

Init ==
  /\ config \in Configs
  /\ order = [i \in 0 .. Cardinality(Tiles) - 1 |-> CHOOSE t \in Tiles : BlockIdx(t) = i]
  /\ epilogue = [t \in Tiles |-> IF IsHole(t) THEN <<>> ELSE TileActs(t)]
  /\ owed = [c \in Cells |-> PartsOf(c[2])]
  /\ handedOut = 0
  /\ producerPc = [sm \in Sms |-> "hand"]
  /\ nextId = [sm \in Sms |-> sm]
  /\ lastTile = [sm \in Sms |-> FirstTile]
  /\ slot = [sm \in Sms |-> NoWork]
  /\ conflict = [sm \in Sms |-> [row \in 0 .. NumHeads - 1 |-> [l \in Locks |-> 0]]]
  /\ ahead = [sm \in Sms |-> NoWork]
  /\ current = [sm \in Sms |-> NoWork]
  /\ todo = [sm \in Sms |-> <<>>]
  /\ loaded = [sm \in Sms |-> <<>>]
  /\ turn = [h \in LockHeads |-> [l \in Locks |-> 0]]
  /\ count = [h \in LockHeads |-> [l \in Locks |-> 0]]
  /\ mutex = [h \in LockHeads |-> [l \in Locks |-> 0]]
  /\ sum = [c \in Cells |-> <<>>]

(********************************* producer ********************************)
\* Does batch b have a block that touches lock block l?
Touches(b, l) ==
  First(b) \div BlockSize <= l /\ l <= (First(b) + NumBlocks(b) * BlockSize - 1) \div BlockSize

\* Mutation: only the batch of the tile before is entered.
EnteredLast(state, from, upto) ==
  [l \in Locks |-> IF from < upto /\ Touches(from, l) THEN from + 1 ELSE state[l]]

\* The conflict state after the batches from .. upto - 1 have been entered.
Entered(state, from, upto) ==
  [l \in Locks |->
     LET touching == {b \in from .. upto - 1 : Touches(b, l)}
     IN  IF touching = {} THEN state[l] ELSE Max(touching) + 1]

\* The first batch that has not been entered: a new group of heads has a row of
\* its own and starts again.
EnterFrom(sm, tile) ==
  IF ConflictRow(tile) = ConflictRow(lastTile[sm]) THEN lastTile[sm].group ELSE 0

\* The conflict message of a tile.  Only fwd and dkv keep the state here.
KeepsState == Path # "dq" /\ config.deterministic
StateFor(sm, tile) ==
  IF KeepsState THEN Entered(conflict[sm][ConflictRow(tile)], EnterFrom(sm, tile), tile.group)
  ELSE [l \in Locks |-> 0]

\* block_idx_to_work_info and the write into shared memory, once the consumers
\* have taken the work before.
Hand(sm) ==
  /\ producerPc[sm] = "hand"
  /\ slot[sm].kind = "none"
  /\ nextId[sm] < NumTiles
  /\ LET tile == order[nextId[sm]]
         state == StateFor(sm, tile)
         v == [batch |-> tile.group, block |-> tile.outer]
         work == IF KeepsState THEN Work("tile", tile, state[LeftLock(v)], state[RightLock(v)])
                               ELSE Work("tile", tile, 0, 0)
     IN  /\ ~IsHole(tile)
         /\ lastTile' = [lastTile EXCEPT ![sm] = tile]
         /\ slot' = [slot EXCEPT ![sm] = work]
         /\ conflict' = IF KeepsState THEN [conflict EXCEPT ![sm][ConflictRow(tile)] = state] ELSE conflict
  /\ producerPc' = [producerPc EXCEPT ![sm] = "prefetch"]
  /\ UNCHANGED <<inputs, handedOut, nextId, consumerVars, lockVars, sum>>

\* A block_idx past the last tile ends the loops of the SM.
HandEnd(sm) ==
  /\ producerPc[sm] = "hand"
  /\ slot[sm].kind = "none"
  /\ nextId[sm] >= NumTiles
  /\ slot' = [slot EXCEPT ![sm] = EndWork]
  /\ producerPc' = [producerPc EXCEPT ![sm] = "done"]
  /\ UNCHANGED <<inputs, handedOut, nextId, lastTile, conflict, consumerVars, lockVars, sum>>

FetchId(sm) ==
  /\ nextId' = [nextId EXCEPT ![sm] = handedOut + NumSms]
  /\ handedOut' = handedOut + 1

\* The retry loop for a tile that its batch does not have.
Retry(sm) ==
  /\ producerPc[sm] = "hand"
  /\ nextId[sm] < NumTiles /\ IsHole(order[nextId[sm]])
  /\ FetchId(sm)
  /\ UNCHANGED <<inputs, producerPc, lastTile, slot, conflict, consumerVars, lockVars, sum>>

\* prefetch_next_work, after the loads of the tile.
Prefetch(sm) ==
  /\ producerPc[sm] = "prefetch"
  /\ FetchId(sm)
  /\ producerPc' = [producerPc EXCEPT ![sm] = "hand"]
  /\ UNCHANGED <<inputs, lastTile, slot, conflict, consumerVars, lockVars, sum>>

(********************************* consumer ********************************)
\* Has the loop of the warps ended?  The forward kernel looks one work ahead.
Ended(sm) == todo[sm] = <<>> /\ "end" \in {ahead[sm].kind, current[sm].kind}

\* get_next_work.  The forward kernel calls it before the epilogue.
Take(sm) ==
  LET now == IF Path = "fwd" THEN ahead[sm] ELSE slot[sm]
  IN  /\ todo[sm] = <<>> /\ ~Ended(sm)
      /\ slot[sm].kind # "none"
      /\ slot' = [slot EXCEPT ![sm] = NoWork]
      /\ ahead' = [ahead EXCEPT ![sm] = IF Path = "fwd" THEN slot[sm] ELSE NoWork]
      /\ current' = [current EXCEPT ![sm] = now]
      /\ todo' = [todo EXCEPT ![sm] = IF now.kind = "tile" THEN epilogue[now.tile] ELSE <<>>]
      /\ UNCHANGED <<inputs, producerVars, conflict, loaded, lockVars, sum>>

\* The next n actions of the epilogue are done, the first of which is an op.
Does(sm, op, n) ==
  /\ todo[sm] # <<>> /\ todo[sm][1].op = op
  /\ todo' = [todo EXCEPT ![sm] = SubSeq(@, n + 1, Len(@))]
  /\ UNCHANGED <<inputs, producerVars, slot, ahead, current>>

Tile(sm) == current[sm].tile
Visit(sm) == todo[sm][1].visit
Where(sm) == todo[sm][1].where
HeadAt(sm) == LockHead(Tile(sm).head)

\* update_conflict_state.  (A tile starts at batch 0 and then goes on from its
\* batch before, but to enter a batch again changes nothing.)
EnterBatches(sm) ==
  /\ Does(sm, "enter", 1)
  /\ conflict' = [conflict EXCEPT ![sm][0] = Entered(@, 0, Visit(sm).batch)]
  /\ UNCHANGED <<loaded, lockVars, sum>>

\* The turn a visit waits for at lock block l: the step before in its batch, or
\* for the first step the last batch that touches the lock block.
SyncNum(sm, l) ==
  LET s == StepOf(Tile(sm))
      lastBatch == CASE Path = "dq" -> conflict[sm][0][l]
                     [] Path # "dq" /\ l = LeftLock(Visit(sm)) -> current[sm].left
                     [] OTHER -> current[sm].right
  IN  IF s = 0 THEN lastBatch * NumSteps ELSE Visit(sm).batch * NumSteps + s

\* deterministic_sync at one lock block.
Await(sm) ==
  /\ Does(sm, "await", 1)
  /\ \/ turn[HeadAt(sm)][Where(sm)] = SyncNum(sm, Where(sm))
     \/ \A l \in {LeftLock(Visit(sm)), RightLock(Visit(sm))} : SyncNum(sm, l) = 0
  /\ UNCHANGED <<conflict, loaded, lockVars, sum>>

\* acquire_lock and release_lock, one lock block at a time.
Lock(sm) ==
  /\ Does(sm, "lock", 1)
  /\ mutex[HeadAt(sm)][Where(sm)] = 0
  /\ mutex' = [mutex EXCEPT ![HeadAt(sm)][Where(sm)] = 1]
  /\ UNCHANGED <<conflict, loaded, turn, count, sum>>

Unlock(sm) ==
  /\ Does(sm, "unlock", 1)
  /\ mutex' = [mutex EXCEPT ![HeadAt(sm)][Where(sm)] = 0]
  /\ UNCHANGED <<conflict, loaded, turn, count, sum>>

\* Read lse and out of the rows of the block.
Load(sm) ==
  /\ Does(sm, "load", 1)
  /\ loaded' = [loaded EXCEPT ![sm] = [row \in RowsOf(Visit(sm)) |-> sum[<<HeadAt(sm), row>>]]]
  /\ UNCHANGED <<conflict, lockVars, sum>>

\* Store what was loaded with this tile's part, or reduce-add the part.
Store(sm) ==
  LET cells == {HeadAt(sm)} \X RowsOf(Visit(sm))
      before(c) == IF Path = "fwd" THEN loaded[sm][c[2]] ELSE sum[c]
  IN  /\ Does(sm, "store", 1)
      /\ sum' = [c \in DOMAIN sum |->
                   IF c \in cells THEN Append(before(c), Part(Visit(sm).batch, StepOf(Tile(sm)))) ELSE sum[c]]
      /\ loaded' = [loaded EXCEPT ![sm] = <<>>]
      /\ UNCHANGED <<conflict, lockVars>>

\* Mutation: every block of a shifted batch arrives twice on its left.
ShiftedArrivesTwice(v, side) == IF Shifted(v.batch) /\ side = "left" THEN 2 ELSE 1

\* A lock block that only one block of the batch touches is arrived at twice.
AddCount(v, side) ==
  LET outermost == IF side = "left" THEN 0 ELSE NumBlocks(v.batch) - 1
  IN  IF Shifted(v.batch) /\ v.block = outermost THEN 2 ELSE 1

\* deterministic_arrive: the counter.  Below two, nothing is published.
SideLock(sm) == IF Where(sm) = "left" THEN LeftLock(Visit(sm)) ELSE RightLock(Visit(sm))

Add(sm) ==
  LET total == count[HeadAt(sm)][SideLock(sm)] + AddCount(Visit(sm), Where(sm))
  IN  /\ Does(sm, "add", IF total = 2 THEN 1 ELSE 3)
      /\ count' = [count EXCEPT ![HeadAt(sm)][SideLock(sm)] = total]
      /\ UNCHANGED <<conflict, loaded, turn, mutex, sum>>

Reset(sm) ==
  /\ Does(sm, "reset", 1)
  /\ count' = [count EXCEPT ![HeadAt(sm)][SideLock(sm)] = 0]
  /\ UNCHANGED <<conflict, loaded, turn, mutex, sum>>

\* Mutation: the last block of keys publishes its own number like the others.
ArriveNumOwn(b, s) == b * NumSteps + s + 1

\* The last step of a batch is followed by the next batch that touches the lock block.
ArriveNum(b, s) == IF s = LastStep THEN (b + 1) * NumSteps ELSE b * NumSteps + s + 1

Publish(sm) ==
  /\ Does(sm, "publish", 1)
  /\ turn' = [turn EXCEPT ![HeadAt(sm)][SideLock(sm)] = ArriveNum(Visit(sm).batch, StepOf(Tile(sm)))]
  /\ UNCHANGED <<conflict, loaded, count, mutex, sum>>

Produce(sm) == Hand(sm) \/ HandEnd(sm) \/ Retry(sm) \/ Prefetch(sm)
Consume(sm) ==
  \/ Take(sm) \/ EnterBatches(sm)
  \/ Await(sm) \/ Lock(sm) \/ Load(sm) \/ Store(sm)
  \/ Add(sm) \/ Reset(sm) \/ Publish(sm) \/ Unlock(sm)

Next == \E sm \in Sms : Produce(sm) \/ Consume(sm)

Spec == Init /\ [][Next]_vars

\* All thread blocks of the persistent grid are resident and are scheduled.
FairSpec == Spec /\ \A sm \in Sms : WF_vars(Produce(sm)) /\ WF_vars(Consume(sm))

(******************************** properties *******************************)
\* A turn that a lock block shows has been earned: every part below it has
\* entered every row of the block, although the block may be shared by two
\* blocks of one batch and by several batches (deterministic.h).
TurnIsEarned ==
  \A h \in LockHeads, l \in Locks : \A row \in LockRows(l) \cap Rows :
    \A p \in owed[<<h, row>>] : p < turn[h][l] => p \in ToSet(sum[<<h, row>>])

\* No part is lost or entered twice, and in the deterministic mode the parts of
\* a row enter in the order of batches and steps: the range locks and mutexes
\* implement the abstract ordered reduction.
Reduction == INSTANCE OrderedReduction WITH ordered <- config.deterministic
ImplementsReduction == Reduction!Spec

\* All tiles are done and every row has all its parts.
Complete ==
  /\ \A sm \in Sms : Ended(sm) /\ producerPc[sm] = "done"
  /\ \A c \in Cells : ToSet(sum[c]) = owed[c]

\* No tile waits for a turn that is never published (mainloop_bwd: "ensuring
\* downstream consumers don't deadlock waiting for signals from skipped blocks").
Completes == <>Complete
==============================================================================
