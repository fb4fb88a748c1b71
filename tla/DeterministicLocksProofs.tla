----------------------- MODULE DeterministicLocksProofs -----------------------
(*****************************************************************************)
(* Proofs about DeterministicLocks, for every call and every number of SMs:  *)
(* type correctness, that a turn a range lock shows has been earned, and     *)
(* that the range locks and mutexes implement the ordered reduction.         *)
(*                                                                           *)
(* The inductive invariant Inv says in which place every tile is (at most one*)
(* of: not handed out, a place of one SM, done), so that an action of an     *)
(* epilogue is either still to be done or done, once.  About what is done it *)
(* says that a turn past a part means that all blocks of that part's step    *)
(* have arrived at the lock block; that an await that is over means that all *)
(* parts before have been passed; what a counter has counted; who holds a    *)
(* mutex and that what was loaded under it is still true; and that a part is *)
(* in a sum exactly when its store is done.                                  *)
(*****************************************************************************)
EXTENDS DeterministicLocks, FiniteSetTheorems, TLAPS

-------------------------------------------------------------------------------
(* What an epilogue looks like.                                              *)

\* The actions of a visit v of tile t.
AwaitActs(v) == {Act("await", v, l) : l \in {LeftLock(v), RightLock(v)}}
ArriveActs(v) == {Act(op, v, side) : op \in {"add", "reset", "publish"}, side \in {"left", "right"}}
MutexActs(v) == {Act(op, v, l) : op \in {"lock", "unlock"}, l \in {LeftLock(v), RightLock(v)}}
ActsOf(t, v) ==
  (IF config.deterministic THEN AwaitActs(v) \cup ArriveActs(v) ELSE {})
    \cup (IF HasData(v.batch, v.block, StepOf(t)) THEN {Act("store", v, 0)} ELSE {})
    \cup (IF HasData(v.batch, v.block, StepOf(t)) /\ Path = "fwd" THEN {Act("load", v, 0)} \cup MutexActs(v) ELSE {})

\* The visits that a tile may make.
IsVisitOf(t, v) ==
  /\ v = [batch |-> v.batch, block |-> v.block]
  /\ v.batch \in BatchesOf(t.group) /\ v.block \in 0 .. NumBlocks(v.batch) - 1
  /\ Path # "dq" => v.batch = t.group /\ v.block = t.outer

\* The place of an action in its visit.
SideRank(op) == CASE op = "add" -> 0 [] op = "reset" -> 1 [] op = "publish" -> 2
Rank(a) ==
  CASE a.op = "enter" -> 0
    [] a.op = "await" -> IF a.where = LeftLock(a.visit) THEN 1 ELSE 2
    [] a.op = "lock" -> IF a.where = LeftLock(a.visit) THEN 3 ELSE 4
    [] a.op = "load" -> 5
    [] a.op = "store" -> 6
    [] a.op \in {"add", "reset", "publish"} -> SideRank(a.op) + (IF a.where = "right" THEN 7 ELSE 10)
    [] a.op = "unlock" -> IF a.where = RightLock(a.visit) THEN 13 ELSE 14

IsActOf(t, a) ==
  /\ IsVisitOf(t, a.visit)
  /\ a \in ActsOf(t, a.visit) \/ (Path = "dq" /\ a = Act("enter", a.visit, 0))

\* The actions of a visit come in the order of their ranks.
InOrder(e) == \A i, j \in DOMAIN e : i < j /\ e[i].visit = e[j].visit => Rank(e[i]) < Rank(e[j])

\* What stands next to each other.
Adjacent(e) ==
  \A i \in DOMAIN e :
    /\ e[i].op = "add" =>
         /\ i + 2 \in DOMAIN e
         /\ e[i + 1] = Act("reset", e[i].visit, e[i].where)
         /\ e[i + 2] = Act("publish", e[i].visit, e[i].where)
    /\ e[i].op = "reset" => i > 1 /\ e[i - 1] = Act("add", e[i].visit, e[i].where)
    /\ e[i].op = "publish" => i > 1 /\ e[i - 1] = Act("reset", e[i].visit, e[i].where)
    /\ e[i].op = "store" /\ Path = "fwd" => i > 1 /\ e[i - 1] = Act("load", e[i].visit, 0)

\* In dq a batch is entered before it is visited.
EnteredFirst(e) ==
  \A i \in DOMAIN e : Path = "dq" /\ e[i].op # "enter" => i > 1 /\ e[i - 1].visit.batch = e[i].visit.batch

EpilogueShape(t, e) ==
  /\ \A i \in DOMAIN e : IsActOf(t, e[i])
  /\ InOrder(e) /\ Adjacent(e) /\ EnteredFirst(e)
  /\ \A i \in DOMAIN e : ActsOf(t, e[i].visit) \subseteq ToSet(e)

-------------------------------------------------------------------------------
(* Where a tile is.                                                          *)

HasWork(work, t) == work.kind = "tile" /\ work.tile = t

Places == Sms \X {"next", "slot", "ahead", "current"}
At(x, t) ==
  CASE x[2] = "next" -> producerPc[x[1]] = "hand" /\ nextId[x[1]] < NumTiles /\ order[nextId[x[1]]] = t
    [] x[2] = "slot" -> HasWork(slot[x[1]], t)
    [] x[2] = "ahead" -> HasWork(ahead[x[1]], t)
    [] x[2] = "current" -> HasWork(current[x[1]], t)
Fresh(t) == \E i \in DOMAIN order : i >= handedOut + NumSms /\ order[i] = t

OnePlace ==
  \A t \in Tiles : \A x \in Places : At(x, t) => ~Fresh(t) /\ \A y \in Places : At(y, t) => x = y

\* Actions still to be done, and done.
Waits(t) == Fresh(t) \/ \E x \in Places : x[2] # "current" /\ At(x, t)
Remains(t, a) ==
  \/ Waits(t) /\ a \in ToSet(epilogue[t])
  \/ \E sm \in Sms : HasWork(current[sm], t) /\ a \in ToSet(todo[sm])
Done(t, a) == a \in ToSet(epilogue[t]) /\ ~Remains(t, a)

Suffix(sm) ==
  IF current[sm].kind = "tile"
  THEN \E k \in 0 .. Len(epilogue[current[sm].tile]) :
         todo[sm] = SubSeq(epilogue[current[sm].tile], k + 1, Len(epilogue[current[sm].tile]))
  ELSE todo[sm] = <<>>

-------------------------------------------------------------------------------
(* Messages.                                                                 *)

\* n is past every batch before b that touches lock block l.
Covers(n, b, l) == \A c \in 0 .. b - 1 : Touches(c, l) => n > c

WorkCovers(work) ==
  work.kind = "tile" /\ KeepsState =>
    LET v == [batch |-> work.tile.group, block |-> work.tile.outer]
    IN  Covers(work.left, v.batch, LeftLock(v)) /\ Covers(work.right, v.batch, RightLock(v))

ConflictInv ==
  /\ KeepsState =>
       \A sm \in Sms, l \in Locks : Covers(conflict[sm][ConflictRow(lastTile[sm])][l], lastTile[sm].group, l)
  /\ \A sm \in Sms : WorkCovers(slot[sm]) /\ WorkCovers(ahead[sm]) /\ WorkCovers(current[sm])
  /\ \A sm \in Sms : Path = "dq" /\ todo[sm] # <<>> /\ todo[sm][1].op # "enter" =>
       \A l \in Locks : Covers(conflict[sm][0][l], Visit(sm).batch, l)

-------------------------------------------------------------------------------
(* Turns.                                                                    *)

HeadOf(t) == LockHead(t.head)
PartOf(t, a) == Part(a.visit.batch, StepOf(t))
SideLockOf(a) == IF a.where = "left" THEN LeftLock(a.visit) ELSE RightLock(a.visit)
IsAdd(t, a) == a \in ToSet(epilogue[t]) /\ a.op = "add"

\* The turn has passed all steps before p at lock block l.
Reached(h, l, p) == \A b \in Batches, s \in 0 .. LastStep : Touches(b, l) /\ Part(b, s) < p => Part(b, s) < turn[h][l]

TurnMeansArrived ==
  \A t \in Tiles : \A a \in ToSet(epilogue[t]) :
    a.op = "add" /\ PartOf(t, a) < turn[HeadOf(t)][SideLockOf(a)] => Done(t, a)

AwaitMeansReached ==
  \A t \in Tiles : \A a \in ToSet(epilogue[t]) :
    a.op = "await" /\ Done(t, a) => Reached(HeadOf(t), a.where, PartOf(t, a))

AddsAt(t, a, h, l) == t \in Tiles /\ a \in ToSet(epilogue[t]) /\ a.op = "add" /\ HeadOf(t) = h /\ SideLockOf(a) = l

\* A side of the step whose turn it is has arrived, with weight w.
ArrivedWith(h, l, side, w) ==
  \E t \in Tiles : \E a \in ToSet(epilogue[t]) :
    /\ AddsAt(t, a, h, l) /\ a.where = side /\ AddCount(a.visit, side) = w
    /\ PartOf(t, a) >= turn[h][l] /\ Done(t, a)
Arrived(h, l, side) == IF ArrivedWith(h, l, side, 2) THEN 2 ELSE IF ArrivedWith(h, l, side, 1) THEN 1 ELSE 0

HeadIs(sm, op) == todo[sm] # <<>> /\ todo[sm][1].op = op
PublishingAt(sm, h, l) == HeadIs(sm, "publish") /\ HeadAt(sm) = h /\ SideLock(sm) = l
Publishing(h, l) == \E sm \in Sms : PublishingAt(sm, h, l)
Ending(sm) == HeadIs(sm, "reset") \/ HeadIs(sm, "publish")

CountAt(h, l) == count[h][l] = IF Publishing(h, l) THEN 0 ELSE Arrived(h, l, "left") + Arrived(h, l, "right")
CountInv == \A h \in LockHeads, l \in Locks : CountAt(h, l)

HeadPart(sm) == PartOf(Tile(sm), todo[sm][1])
EndingAt(sm, h, l) == Ending(sm) /\ HeadAt(sm) = h /\ SideLock(sm) = l

\* All sides of the step of part p have arrived at lock block l.
AllArrived(h, l, p) == \A t \in Tiles : \A a \in ToSet(epilogue[t]) : AddsAt(t, a, h, l) /\ PartOf(t, a) = p => Done(t, a)

EndedAt(h, l) ==
  \A sm \in Sms : EndingAt(sm, h, l) =>
    /\ turn[h][l] <= HeadPart(sm) /\ AllArrived(h, l, HeadPart(sm))
    /\ \A sm2 \in Sms : EndingAt(sm2, h, l) => sm2 = sm
EndingInv == \A h \in LockHeads, l \in Locks : EndedAt(h, l)

TurnInv ==
  \A h \in LockHeads, l \in Locks :
    turn[h][l] \in 0 .. NumBatches * NumSteps /\ (~config.deterministic => turn[h][l] = 0)

LockInv == TurnMeansArrived /\ AwaitMeansReached /\ CountInv /\ EndingInv /\ TurnInv

-------------------------------------------------------------------------------
(* Sums.                                                                     *)

\* A part is in a sum exactly when its store is done.
SumInv ==
  \A t \in Tiles : \A a \in ToSet(epilogue[t]) : a.op = "store" =>
    \A row \in RowsOf(a.visit) : PartOf(t, a) \in ToSet(sum[<<HeadOf(t), row>>]) <=> Done(t, a)

\* Tile t has taken the mutex of lock block l for action a and not given it back.
HoldsAt(t, a, h, l) ==
  /\ t \in Tiles /\ a \in ToSet(epilogue[t]) /\ a.op = "lock" /\ HeadOf(t) = h /\ a.where = l
  /\ Done(t, a) /\ ~Done(t, Act("unlock", a.visit, l))

MutexInv ==
  \A h \in LockHeads, l \in Locks, t \in Tiles : \A a \in ToSet(epilogue[t]) : HoldsAt(t, a, h, l) =>
    /\ mutex[h][l] = 1
    /\ \A t2 \in Tiles : \A a2 \in ToSet(epilogue[t2]) : HoldsAt(t2, a2, h, l) => t2 = t

LoadedInv ==
  \A sm \in Sms : Path = "fwd" /\ HeadIs(sm, "store") =>
    loaded[sm] = [row \in RowsOf(Visit(sm)) |-> sum[<<HeadAt(sm), row>>]]

AheadInv == Path # "fwd" => \A sm \in Sms : ahead[sm].kind = "none"
AllShapes == \A t \in Tiles : EpilogueShape(t, epilogue[t])
AllSuffix == \A sm \in Sms : Suffix(sm)

-------------------------------------------------------------------------------
(* Finite sets and division.                                                 *)

\* Among sets of subsets of a finite set there is one without a smaller one.
LEMMA LeastSubset ==
  ASSUME NEW S, IsFiniteSet(S), NEW W \in SUBSET (SUBSET S), W # {}
  PROVE  \E T \in W : \A U \in W : U \subseteq T => U = T
<1>1. W \subseteq FiniteSubsetsOf(S)
  BY FS_FiniteSubsetsOfFinite
<1>2. \E T \in W : \A U \in W : <<U, T>> \notin StrictSubsetOrdering(S)
  BY <1>1, FS_StrictSubsetOrderingWellFounded, WFMin
<1>3. QED
  BY <1>2 DEF StrictSubsetOrdering

\* Every set of indices has a least one.
LEMMA LeastElement ==
  ASSUME NEW n \in Nat, NEW N \in SUBSET (1 .. n), N # {}
  PROVE  \E i \in N : \A j \in N : i <= j
<1> DEFINE S == 1 .. n
           W == {1 .. i : i \in N}
<1>1. IsFiniteSet(S)
  BY FS_Interval
<1>2. W \in SUBSET (SUBSET S) /\ W # {}
  <2>1. \A i \in N : 1 .. i \in SUBSET S
    OBVIOUS
  <2>2. QED
    BY <2>1
<1>3. PICK T \in W : \A U \in W : U \subseteq T => U = T
  <2> HIDE DEF S, W
  <2>1. QED
    BY <1>1, <1>2, LeastSubset
<1>4. PICK i \in N : T = 1 .. i
  BY <1>3
<1>5. ASSUME NEW j \in N, j < i PROVE FALSE
  <2>1. 1 .. j \in W /\ 1 .. j \subseteq 1 .. i
    BY <1>5
  <2>2. 1 .. j = 1 .. i
    BY <1>3, <1>4, <2>1
  <2>3. i \in 1 .. i /\ i \notin 1 .. j
    BY <1>5
  <2>4. QED
    BY <2>2, <2>3
<1>6. QED
  BY <1>5

(* Arithmetic.                                                               *)

\* Quotient and remainder.
LEMMA DivBounds ==
  ASSUME NEW n \in Nat \ {0}, NEW x \in Int
  PROVE  /\ x \div n \in Int /\ x % n \in 0 .. n - 1
         /\ n * (x \div n) \in Int /\ x = n * (x \div n) + (x % n)
         /\ n * (x \div n) <= x /\ x < n * (x \div n) + n
<1>1. x \div n \in Int /\ x % n \in 0 .. n - 1 /\ x = n * (x \div n) + (x % n)
  OBVIOUS
<1>2. n * (x \div n) \in Int
  BY <1>1
<1>3. QED
  BY <1>1, <1>2

\* A product does not leave the multiples of n.
LEMMA MulLe ==
  ASSUME NEW n \in Nat, NEW p \in Int, NEW q \in Int, p <= q
  PROVE  n * p \in Int /\ n * q \in Int /\ n * p <= n * q
OBVIOUS

\* Multiples of neighbours.
LEMMA MulStep ==
  ASSUME NEW n \in Int, NEW p \in Int
  PROVE  n * p \in Int /\ n * (p + 1) = n * p + n /\ n * (p - 1) = n * p - n /\ n * p = p * n
OBVIOUS

\* The quotient is the only number whose multiple is that near.
LEMMA DivUnique ==
  ASSUME NEW n \in Nat \ {0}, NEW x \in Int, NEW q \in Int, n * q <= x, x < n * q + n
  PROVE  x \div n = q
<1> DEFINE d == x \div n
<1>1. d \in Int /\ n * d \in Int /\ n * d <= x /\ x < n * d + n
  BY DivBounds
<1> HIDE DEF d
<1>0. n * q \in Int
  OBVIOUS
<1>2. CASE d < q
  <2>1. n * (d + 1) <= n * q /\ n * (d + 1) = n * d + n
    BY <1>1, <1>2, MulLe, MulStep
  <2>2. QED
    BY <1>0, <1>1, <2>1
<1>3. CASE q < d
  <2>1. n * (q + 1) <= n * d /\ n * (q + 1) = n * q + n
    BY <1>1, <1>3, MulLe, MulStep
  <2>2. QED
    BY <1>0, <1>1, <2>1
<1>4. QED
  BY <1>1, <1>2, <1>3 DEF d

\* Division keeps the order.
LEMMA DivMonotone ==
  ASSUME NEW n \in Nat \ {0}, NEW x \in Int, NEW y \in Int, x <= y
  PROVE  x \div n <= y \div n
<1> DEFINE d == x \div n
           e == y \div n
<1>1. d \in Int /\ n * d \in Int /\ n * d <= x /\ x < n * d + n
  BY DivBounds
<1>2. e \in Int /\ n * e \in Int /\ n * e <= y /\ y < n * e + n
  BY DivBounds
<1> HIDE DEF d, e
<1>3. CASE e < d
  <2>1. n * (e + 1) <= n * d /\ n * (e + 1) = n * e + n
    BY <1>1, <1>2, <1>3, MulLe, MulStep
  <2>2. QED
    BY <1>1, <1>2, <2>1
<1>4. QED
  BY <1>1, <1>2, <1>3 DEF d, e

\* Adding k times n to a number adds k to its quotient by n.
LEMMA DivShift ==
  ASSUME NEW n \in Nat \ {0}, NEW x \in Int, NEW k \in Int
  PROVE  k * n \in Int /\ (x + k * n) \div n = (x \div n) + k
<1> DEFINE d == x \div n
<1>1. d \in Int /\ n * d \in Int /\ n * d <= x /\ x < n * d + n
  BY DivBounds
<1> HIDE DEF d
<1>2. n * (d + k) = n * d + k * n /\ k * n \in Int
  BY <1>1
<1>3. (x + k * n) \div n = d + k
  BY <1>1, <1>2, DivUnique
<1>4. QED
  BY <1>2, <1>3 DEF d

\* The rows of a block reach into one lock block more if it is shifted.
LEMMA DivLast ==
  ASSUME NEW n \in Nat \ {0}, NEW x \in Int
  PROVE  (x + n - 1) \div n = (x \div n) + (IF x % n = 0 THEN 0 ELSE 1)
<1> DEFINE d == x \div n
           r == x % n
<1>1. d \in Int /\ n * d \in Int /\ x = n * d + r /\ r \in 0 .. n - 1
  BY DivBounds
<1> HIDE DEF d, r
<1>2. n * (d + 1) = n * d + n
  BY <1>1, MulStep
<1>3. CASE r = 0
  <2>1. n * d <= x + n - 1 /\ x + n - 1 < n * d + n
    BY <1>1, <1>3
  <2>2. (x + n - 1) \div n = d
    BY <1>1, <2>1, DivUnique
  <2>3. QED
    BY <1>1, <1>3, <2>2 DEF d, r
<1>4. CASE r # 0
  <2>1. n * (d + 1) <= x + n - 1 /\ x + n - 1 < n * (d + 1) + n
    BY <1>1, <1>2, <1>4
  <2>2. (x + n - 1) \div n = d + 1
    BY <1>1, <2>1, DivUnique
  <2>3. QED
    BY <1>1, <1>4, <2>2 DEF d, r
<1>5. QED
  BY <1>3, <1>4

\* Numbers of two digits.
LEMMA TwoDigits ==
  ASSUME NEW n \in Nat \ {0}, NEW p \in Int, NEW q \in Int, NEW r \in 0 .. n - 1, NEW s \in 0 .. n - 1
  PROVE  /\ p * n + r \in Int /\ q * n + s \in Int
         /\ p * n + r < q * n + s <=> p < q \/ (p = q /\ r < s)
         /\ p * n + r = q * n + s <=> p = q /\ r = s
<1>1. p * n \in Int /\ q * n \in Int /\ p * n = n * p /\ q * n = n * q
  OBVIOUS
<1>2. CASE p < q
  <2>1. n * (p + 1) <= n * q /\ n * (p + 1) = n * p + n
    BY <1>2, MulLe, MulStep
  <2>2. QED
    BY <1>1, <1>2, <2>1
<1>3. CASE q < p
  <2>1. n * (q + 1) <= n * p /\ n * (q + 1) = n * q + n
    BY <1>3, MulLe, MulStep
  <2>2. QED
    BY <1>1, <1>3, <2>1
<1>4. CASE p = q
  BY <1>1, <1>4
<1>5. QED
  BY <1>2, <1>3, <1>4

(* What ConfigAccepts gives.                                                 *)

IsConfig == config \in Configs

\* The parts of a call.
LEMMA ConfigFacts ==
  ASSUME IsConfig
  PROVE  /\ Path \in {"fwd", "dkv", "dq"} /\ config.deterministic \in BOOLEAN
         /\ BlockSize \in Nat \ {0}
         /\ config.headsPerKv \in Nat \ {0} /\ config.numHeadsKv \in Nat \ {0}
         /\ config.numKeyBlocks \in Nat \ {0}
         /\ Path # "fwd" => config.deterministic /\ ~config.padded
         /\ config.ranges \in Seq(Nat \X Nat) /\ config.cuBatches \in Seq(Nat)
         /\ NumBatches \in Nat \ {0}
         /\ IsCumulative(config.cuBatches, NumBatches)
         /\ Path # "dq" => config.cuBatches = [i \in 1 .. NumBatches + 1 |-> i - 1]
<1>1. ConfigAccepts(config)
  BY ConfigAssumption DEF IsConfig
<1>2. config \in ConfigType
  BY <1>1 DEF ConfigAccepts
<1>3. config.ranges \in Seq(Nat \X Nat) /\ config.cuBatches \in Seq(Nat)
  BY <1>2 DEF ConfigType
<1>4. NumBatches \in Nat \ {0}
  <2>1. config.ranges # <<>>
    BY <1>1 DEF ConfigAccepts
  <2>2. QED
    BY <1>3, <2>1 DEF NumBatches
<1>5. /\ Path \in {"fwd", "dkv", "dq"} /\ config.deterministic \in BOOLEAN
      /\ BlockSize \in Nat \ {0}
      /\ config.headsPerKv \in Nat \ {0} /\ config.numHeadsKv \in Nat \ {0}
      /\ config.numKeyBlocks \in Nat \ {0}
  BY <1>2 DEF ConfigType, Path, BlockSize
<1>6. /\ Path # "fwd" => config.deterministic /\ ~config.padded
      /\ IsCumulative(config.cuBatches, NumBatches)
      /\ Path # "dq" => config.cuBatches = [i \in 1 .. NumBatches + 1 |-> i - 1]
  BY <1>1 DEF ConfigAccepts, Path, NumBatches
<1>7. QED
  BY <1>3, <1>4, <1>5, <1>6

\* The starts of the merged groups are batches, in order.
LEMMA CuFacts ==
  ASSUME IsConfig
  PROVE  /\ Len(config.cuBatches) \in Nat /\ Len(config.cuBatches) > 1
         /\ \A i \in 1 .. Len(config.cuBatches) : config.cuBatches[i] \in 0 .. NumBatches
         /\ config.cuBatches[1] = 0 /\ config.cuBatches[Len(config.cuBatches)] = NumBatches
         /\ \A i, j \in 1 .. Len(config.cuBatches) : i <= j => config.cuBatches[i] <= config.cuBatches[j]
<1> DEFINE cu == config.cuBatches
<1>1. cu \in Seq(Nat) /\ IsCumulative(cu, NumBatches) /\ NumBatches \in Nat
  BY ConfigFacts
<1> HIDE DEF cu
<1>2. /\ Len(cu) \in Nat /\ Len(cu) > 1 /\ DOMAIN cu = 1 .. Len(cu)
      /\ cu[1] = 0 /\ cu[Len(cu)] = NumBatches
      /\ \A i, j \in 1 .. Len(cu) : i <= j => cu[i] <= cu[j]
  BY <1>1 DEF IsCumulative
<1>3. \A i \in 1 .. Len(cu) : cu[i] \in Nat /\ cu[i] <= NumBatches
  BY <1>1, <1>2
<1>4. QED
  BY <1>1, <1>2, <1>3 DEF cu

\* The merged groups part the batches; without merging a group is a batch.
LEMMA GroupFacts ==
  ASSUME IsConfig
  PROVE  /\ 0 \in Groups /\ Groups \subseteq Nat /\ IsFiniteSet(Groups)
         /\ Cardinality(Groups) \in Nat \ {0} /\ Cardinality(Groups) = Len(config.cuBatches) - 1
         /\ \A g \in Groups : BatchesOf(g) \subseteq Batches
         /\ \A g, g2 \in Groups : \A b \in BatchesOf(g) : b \in BatchesOf(g2) => g = g2
         /\ \A b \in Batches : \E g \in Groups : b \in BatchesOf(g)
         /\ Path # "dq" => Groups = Batches /\ \A g \in Groups : BatchesOf(g) = {g}
<1> DEFINE cu == config.cuBatches
           m == Len(cu)
           nb == NumBatches
<1>1. /\ m \in Nat /\ m > 1 /\ nb \in Nat \ {0}
      /\ \A i \in 1 .. m : cu[i] \in 0 .. nb
      /\ cu[1] = 0 /\ cu[m] = nb
      /\ \A i, j \in 1 .. m : i <= j => cu[i] <= cu[j]
  BY CuFacts, ConfigFacts
<1>2. Path # "dq" => cu = [i \in 1 .. nb + 1 |-> i - 1]
  BY ConfigFacts
<1>3. Groups = 0 .. m - 2 /\ Batches = 0 .. nb - 1
  BY DEF Groups, Batches
<1>4. \A g \in Groups : BatchesOf(g) = cu[g + 1] .. cu[g + 2] - 1
  BY DEF BatchesOf
<1>41. Path # "dq" => m = nb + 1
  BY <1>1, <1>2
<1> HIDE DEF cu, m, nb
<1>5. 0 \in Groups /\ Groups \subseteq Nat
  BY <1>1, <1>3
<1>6. IsFiniteSet(Groups) /\ Cardinality(Groups) = m - 1
  <2>1. IsFiniteSet(0 .. m - 2) /\ Cardinality(0 .. m - 2) = IF 0 > m - 2 THEN 0 ELSE (m - 2) - 0 + 1
    <3>1. 0 \in Int /\ m - 2 \in Int
      BY <1>1
    <3>2. QED
      BY <3>1, FS_Interval
  <2>2. QED
    BY <1>1, <1>3, <2>1
<1>61. \A g \in Groups : /\ g \in Nat /\ g + 1 \in 1 .. m /\ g + 2 \in 1 .. m
                         /\ cu[g + 1] \in 0 .. nb /\ cu[g + 2] \in 0 .. nb
  BY <1>1, <1>3
<1>7. \A g \in Groups : BatchesOf(g) \subseteq Batches
  <2> TAKE g \in Groups
  <2>1. BatchesOf(g) = cu[g + 1] .. cu[g + 2] - 1 /\ cu[g + 1] \in 0 .. nb /\ cu[g + 2] \in 0 .. nb
    BY <1>4, <1>61
  <2> DEFINE lo == cu[g + 1]
             hi == cu[g + 2]
  <2> HIDE DEF lo, hi
  <2>2. BatchesOf(g) = lo .. hi - 1 /\ lo \in 0 .. nb /\ hi \in 0 .. nb
    BY <2>1 DEF lo, hi
  <2>3. QED
    BY <1>1, <1>3, <2>2
<1>8. ASSUME NEW g \in Groups, NEW g2 \in Groups, NEW b \in BatchesOf(g), b \in BatchesOf(g2)
      PROVE  g = g2
  <2>1. g \in Nat /\ g2 \in Nat /\ g + 2 \in 1 .. m /\ g2 + 2 \in 1 .. m /\ g + 1 \in 1 .. m /\ g2 + 1 \in 1 .. m
    BY <1>1, <1>3
  <2>2. b \in Int /\ cu[g + 1] <= b /\ b < cu[g + 2] /\ cu[g2 + 1] <= b /\ b < cu[g2 + 2]
    <3>1. b \in cu[g + 1] .. cu[g + 2] - 1 /\ b \in cu[g2 + 1] .. cu[g2 + 2] - 1
      BY <1>4, <1>8
    <3>2. cu[g + 1] \in Int /\ cu[g + 2] \in Int /\ cu[g2 + 1] \in Int /\ cu[g2 + 2] \in Int
      BY <1>61
    <3>3. QED
      BY <3>1, <3>2
  <2>3. CASE g < g2
    <3>1. cu[g + 2] <= cu[g2 + 1]
      BY <1>1, <2>1, <2>3
    <3>2. QED
      BY <1>1, <2>1, <2>2, <3>1
  <2>4. CASE g2 < g
    <3>1. cu[g2 + 2] <= cu[g + 1]
      BY <1>1, <2>1, <2>4
    <3>2. QED
      BY <1>1, <2>1, <2>2, <3>1
  <2>5. QED
    BY <2>1, <2>3, <2>4
<1>9. ASSUME NEW b \in Batches
      PROVE  \E g \in Groups : b \in BatchesOf(g)
  <2> DEFINE above == {i \in 1 .. m : b < cu[i]}
  <2>1. b \in Nat /\ b < nb
    BY <1>1, <1>3
  <2>2. m \in above
    BY <1>1, <2>1
  <2>3. above \in SUBSET (1 .. m) /\ \A i \in 1 .. m : i \in above <=> b < cu[i]
    OBVIOUS
  <2> HIDE DEF above
  <2>4. PICK i \in above : \A j \in above : i <= j
    BY <1>1, <2>2, <2>3, LeastElement
  <2>5. i \in 1 .. m /\ b < cu[i] /\ i # 1
    BY <1>1, <2>1, <2>3, <2>4
  <2>6. i - 1 \in 1 .. m /\ i - 1 \notin above
    BY <1>1, <2>3, <2>4, <2>5
  <2>7. cu[i - 1] <= b
    BY <1>1, <2>1, <2>3, <2>6
  <2>8. i - 2 \in Groups /\ (i - 2) + 1 = i - 1 /\ (i - 2) + 2 = i
    BY <1>1, <1>3, <2>5
  <2>9. cu[i - 1] \in Nat /\ cu[i] \in Nat
    BY <1>1, <2>5, <2>6
  <2>10. b \in cu[i - 1] .. cu[i] - 1
    BY <2>1, <2>5, <2>7, <2>9
  <2>11. BatchesOf(i - 2) = cu[i - 1] .. cu[i] - 1
    BY <1>4, <2>8
  <2>12. QED
    BY <2>8, <2>10, <2>11
<1>10. ASSUME Path # "dq"
       PROVE  Groups = Batches /\ \A g \in Groups : BatchesOf(g) = {g}
  <2>1. Groups = Batches
    BY <1>1, <1>3, <1>41, <1>10
  <2>2. ASSUME NEW g \in Groups
        PROVE  BatchesOf(g) = {g}
    <3>1. g \in Nat /\ g + 1 \in 1 .. nb + 1 /\ g + 2 \in 1 .. nb + 1
      BY <1>1, <1>3, <1>41, <1>10
    <3>2. cu[g + 1] = g /\ cu[g + 2] = g + 1
      BY <1>2, <1>10, <3>1
    <3>3. BatchesOf(g) = g .. (g + 1) - 1
      BY <1>4, <3>2
    <3>4. QED
      BY <3>1, <3>3
  <2>3. QED
    BY <2>1, <2>2
<1>11. Cardinality(Groups) \in Nat \ {0}
  BY <1>1, <1>6
<1>12. QED
  BY <1>5, <1>6, <1>7, <1>8, <1>9, <1>10, <1>11 DEF m, cu

-------------------------------------------------------------------------------
(* Finite sets of integers.                                                  *)

\* A finite set of integers that has a member.
IsIntSet(S) == S \in SUBSET Int /\ IsFiniteSet(S) /\ S # {}

\* It has a greatest one.
LEMMA GreatestElement ==
  ASSUME NEW S, IsIntSet(S)
  PROVE  Max(S) \in S /\ \A y \in S : y <= Max(S)
<1> DEFINE above(x) == {y \in S : y > x}
           W == {above(x) : x \in S}
<1>1. IsFiniteSet(S) /\ W \in SUBSET (SUBSET S) /\ W # {}
  BY DEF IsIntSet
<1>2. PICK T \in W : \A U \in W : U \subseteq T => U = T
  <2> HIDE DEF W
  <2>1. QED
    BY <1>1, LeastSubset
<1>3. PICK x \in S : T = above(x)
  BY <1>2
<1>4. ASSUME NEW y \in S, y > x PROVE FALSE
  <2>0. S \subseteq Int
    BY DEF IsIntSet
  <2>1. y \in above(x) /\ y \notin above(y)
    BY <2>0, <1>4
  <2>2. above(y) \subseteq above(x)
    <3>1. \A z \in S : z > y => z > x
      BY <2>0, <1>4
    <3>2. QED
      BY <3>1, Zenon
  <2>3. above(y) \in W
    OBVIOUS
  <2>4. QED
    BY <1>2, <1>3, <2>1, <2>2, <2>3
<1>5. \A y \in S : x >= y
  BY <1>4 DEF IsIntSet
<1>6. \E m \in S : \A y \in S : m >= y
  BY <1>5
<1>7. Max(S) \in S /\ \A y \in S : Max(S) >= y
  BY <1>6 DEF Max
<1>8. QED
  BY <1>7 DEF IsIntSet

-------------------------------------------------------------------------------
(* Steps and parts.                                                          *)

\* There is at least one step.
LEMMA StepFacts ==
  ASSUME IsConfig
  PROVE  NumSteps \in Nat \ {0} /\ LastStep \in Nat /\ LastStep < NumSteps
<1>1. /\ Path \in {"fwd", "dkv", "dq"}
      /\ config.headsPerKv \in Nat \ {0} /\ config.numKeyBlocks \in Nat \ {0}
      /\ Cardinality(Groups) \in Nat \ {0}
  BY ConfigFacts, GroupFacts
<1>2. CASE Path = "fwd"
  BY <1>2 DEF NumSteps, LastStep
<1>3. CASE Path = "dkv"
  BY <1>1, <1>3 DEF NumSteps, LastStep
<1>4. CASE Path = "dq"
  <2> DEFINE n == config.numKeyBlocks
             g == Cardinality(Groups)
  <2>1. NumSteps = n * g /\ LastStep = n - 1
    BY <1>4 DEF NumSteps, LastStep
  <2>2. n \in Nat \ {0} /\ g \in Nat \ {0}
    BY <1>1
  <2> HIDE DEF n, g
  <2>3. n * 1 <= n * g /\ n * 1 = n /\ n * g \in Int
    BY <2>2, MulLe
  <2>4. QED
    BY <2>1, <2>2, <2>3
<1>5. QED
  BY <1>1, <1>2, <1>3, <1>4

\* The parts are numbered by batch, then by step.
LEMMA PartOrder ==
  ASSUME IsConfig, NEW b \in Nat, NEW c \in Nat, NEW s \in 0 .. LastStep, NEW u \in 0 .. LastStep
  PROVE  /\ Part(b, s) \in Nat /\ Part(c, u) \in Nat
         /\ Part(b, s) < Part(c, u) <=> b < c \/ (b = c /\ s < u)
         /\ Part(b, s) = Part(c, u) <=> b = c /\ s = u
<1>1. NumSteps \in Nat \ {0} /\ s \in 0 .. NumSteps - 1 /\ u \in 0 .. NumSteps - 1
  BY StepFacts
<1>2. b * NumSteps \in Nat /\ c * NumSteps \in Nat
  BY <1>1
<1>3. /\ b * NumSteps + s < c * NumSteps + u <=> b < c \/ (b = c /\ s < u)
      /\ b * NumSteps + s = c * NumSteps + u <=> b = c /\ s = u
  BY <1>1, TwoDigits
<1>4. QED
  BY <1>1, <1>2, <1>3 DEF Part

\* The parts of a batch lie between its multiples of the number of steps, and what a step publishes is the next part or the next batch.
LEMMA PartBounds ==
  ASSUME IsConfig, NEW b \in Nat, NEW s \in 0 .. LastStep
  PROVE  /\ b * NumSteps \in Nat /\ (b + 1) * NumSteps \in Nat
         /\ b * NumSteps <= Part(b, s) /\ Part(b, s) < (b + 1) * NumSteps
         /\ Part(b, s) < ArriveNum(b, s) /\ ArriveNum(b, s) <= (b + 1) * NumSteps
         /\ ArriveNum(b, s) \in Nat
         /\ b * NumSteps + s = Part(b, s)
         /\ s = LastStep => ArriveNum(b, s) = (b + 1) * NumSteps
         /\ s # LastStep => ArriveNum(b, s) = Part(b, s) + 1
<1>1. NumSteps \in Nat \ {0} /\ LastStep \in Nat /\ LastStep < NumSteps
  BY StepFacts
<1>2. b * NumSteps \in Nat /\ (b + 1) * NumSteps = b * NumSteps + NumSteps
  BY <1>1
<1> DEFINE m == b * NumSteps
           n == (b + 1) * NumSteps
<1>3. Part(b, s) = m + s /\ ArriveNum(b, s) = IF s = LastStep THEN n ELSE m + s + 1
  BY DEF Part, ArriveNum
<1> HIDE DEF m, n
<1>4. m \in Nat /\ n = m + NumSteps
  BY <1>2 DEF m, n
<1>5. n \in Nat /\ m <= m + s /\ m + s < n
  BY <1>1, <1>4
<1>6. CASE s = LastStep
  BY <1>1, <1>3, <1>4, <1>5, <1>6 DEF m, n
<1>7. CASE s # LastStep
  <2>1. s + 1 < NumSteps
    BY <1>1, <1>7
  <2>2. ArriveNum(b, s) = m + s + 1 /\ m + s + 1 < n
    BY <1>1, <1>3, <1>4, <1>7, <2>1
  <2>3. QED
    BY <1>1, <1>3, <1>4, <1>5, <1>7, <2>2 DEF m, n
<1>8. QED
  BY <1>6, <1>7

\* What comes below the turn that a step publishes: itself and the parts before.
LEMMA ArriveNumIsNext ==
  ASSUME IsConfig, NEW b \in Nat, NEW c \in Nat, NEW s \in 0 .. LastStep, NEW u \in 0 .. LastStep
  PROVE  Part(c, u) < ArriveNum(b, s) <=> Part(c, u) <= Part(b, s)
<1>1. /\ Part(b, s) \in Nat /\ Part(c, u) \in Nat
      /\ Part(c, u) < Part(b, s) <=> c < b \/ (c = b /\ u < s)
      /\ Part(c, u) = Part(b, s) <=> c = b /\ u = s
  BY PartOrder
<1>2. /\ Part(b, s) < ArriveNum(b, s) /\ ArriveNum(b, s) \in Nat
      /\ s = LastStep => ArriveNum(b, s) = (b + 1) * NumSteps
      /\ s # LastStep => ArriveNum(b, s) = Part(b, s) + 1
  BY PartBounds
<1>3. CASE s # LastStep
  BY <1>1, <1>2, <1>3
<1>4. CASE s = LastStep
  <2>1. c * NumSteps \in Nat /\ c * NumSteps <= Part(c, u)
    BY PartBounds
  <2>2. CASE c <= b
    <3>1. Part(c, u) <= Part(b, s)
      BY <1>1, <1>4, <2>2
    <3>2. QED
      BY <1>1, <1>2, <3>1
  <2>3. CASE c > b
    <3>1. NumSteps * (b + 1) <= NumSteps * c
      BY <2>3, StepFacts, MulLe
    <3>2. (b + 1) * NumSteps <= c * NumSteps
      <4>1. NumSteps \in Nat
        BY StepFacts
      <4>2. (b + 1) * NumSteps = NumSteps * (b + 1) /\ c * NumSteps = NumSteps * c
        BY <4>1
      <4>3. QED
        BY <3>1, <4>2
    <3>3. ~(Part(c, u) < ArriveNum(b, s))
      BY <1>1, <1>2, <1>4, <2>1, <3>2
    <3>4. ~(Part(c, u) <= Part(b, s))
      BY <1>1, <2>3
    <3>5. QED
      BY <3>3, <3>4
  <2>4. QED
    BY <2>2, <2>3
<1>5. QED
  BY <1>3, <1>4

-------------------------------------------------------------------------------
(* Blocks, rows and lock blocks.                                             *)

\* Is v a block of a batch?
IsVisit(v) ==
  /\ v = [batch |-> v.batch, block |-> v.block]
  /\ v.batch \in Batches /\ v.block \in 0 .. NumBlocks(v.batch) - 1

\* The rows and blocks of a batch.
LEMMA BatchFacts ==
  ASSUME IsConfig, NEW b \in Batches
  PROVE  First(b) \in Nat /\ End(b) \in Nat /\ NumBlocks(b) \in Int /\ b \in Nat
<1>1. config.ranges \in Seq(Nat \X Nat) /\ NumBatches \in Nat \ {0} /\ BlockSize \in Nat \ {0}
  BY ConfigFacts
<1>2. b \in Nat /\ b + 1 \in 1 .. Len(config.ranges)
  BY <1>1 DEF Batches, NumBatches
<1>3. config.ranges[b + 1] \in Nat \X Nat
  BY <1>1, <1>2
<1>4. First(b) \in Nat /\ End(b) \in Nat
  BY <1>3 DEF First, End
<1>5. NumBlocks(b) \in Int
  <2>1. (End(b) - First(b) + BlockSize - 1) \in Int
    BY <1>1, <1>4
  <2>2. QED
    BY <1>1, <2>1, DivBounds DEF NumBlocks, CeilDiv
<1>6. QED
  BY <1>2, <1>4, <1>5

\* The rows end at the greatest end of a batch.
LEMMA RowFacts ==
  ASSUME IsConfig
  PROVE  \E m \in Nat : /\ Rows = 0 .. m - 1 /\ \A b \in Batches : End(b) <= m
                        /\ Locks = 0 .. (m + BlockSize - 1) \div BlockSize
<1> DEFINE S == {End(b) : b \in Batches}
           m == Max(S)
<1>0. NumBatches \in Nat \ {0}
  BY ConfigFacts
<1>1. S \in SUBSET Int /\ S # {}
  <2>1. 0 \in Batches
    BY <1>0 DEF Batches
  <2>2. \A b \in Batches : End(b) \in Int
    BY BatchFacts
  <2>3. QED
    BY <2>1, <2>2
<1>2. IsFiniteSet(S)
  <2>1. IsFiniteSet(Batches)
    <3>1. 0 \in Int /\ NumBatches - 1 \in Int
      BY <1>0
    <3>2. QED
      BY <3>1, FS_Interval DEF Batches
  <2> DEFINE f == [b \in Batches |-> End(b)]
  <2>2. S = {f[b] : b \in Batches}
    OBVIOUS
  <2>3. f \in [Batches -> S] /\ \A y \in S : \E b \in Batches : f[b] = y
    OBVIOUS
  <2>4. f \in Surjection(Batches, S)
    <3> HIDE DEF S, f
    <3>1. QED
      BY <2>3 DEF Surjection
  <2>5. QED
    BY <2>1, <2>4, FS_Surjection
<1>3. m \in S /\ \A y \in S : y <= m
  <2>1. IsIntSet(S)
    BY <1>1, <1>2 DEF IsIntSet
  <2> HIDE DEF S
  <2>2. QED
    BY <2>1, GreatestElement
<1>4. m \in Nat /\ \A b \in Batches : End(b) <= m
  BY <1>3, BatchFacts
<1>5. Rows = 0 .. m - 1
  BY DEF Rows
<1> HIDE DEF m, S
<1>6. Cardinality(Rows) = m
  <2>1. 0 \in Int /\ m - 1 \in Int
    BY <1>4
  <2>2. Cardinality(0 .. m - 1) = IF 0 > m - 1 THEN 0 ELSE (m - 1) - 0 + 1
    BY <2>1, FS_Interval
  <2>3. QED
    BY <1>4, <1>5, <2>2
<1>7. Locks = 0 .. (m + BlockSize - 1) \div BlockSize
  BY <1>6 DEF Locks, CeilDiv
<1>8. QED
  BY <1>4, <1>5, <1>7

\* Where the rows of a block and its lock blocks are.
LEMMA VisitGeometry ==
  ASSUME IsConfig, NEW v, IsVisit(v)
  PROVE  /\ Offset(v) \in Nat /\ Offset(v) < End(v.batch)
         /\ First(v.batch) \div BlockSize \in Nat
         /\ LeftLock(v) = (First(v.batch) \div BlockSize) + v.block
         /\ RightLock(v) = (First(v.batch) \div BlockSize) + v.block + (IF Shifted(v.batch) THEN 1 ELSE 0)
         /\ LeftLock(v) \in Locks /\ RightLock(v) \in Locks
         /\ LeftLock(v) \in Nat /\ RightLock(v) \in Nat
         /\ Touches(v.batch, LeftLock(v)) /\ Touches(v.batch, RightLock(v))
<1> DEFINE B == BlockSize
           F == First(v.batch)
           k == v.block
           n == NumBlocks(v.batch)
           e == End(v.batch)
<1>1. B \in Nat \ {0} /\ F \in Nat /\ n \in Int /\ e \in Nat
  BY ConfigFacts, BatchFacts DEF IsVisit
<1>2. k \in Nat /\ k <= n - 1
  BY <1>1 DEF IsVisit
<1>3. Offset(v) = F + k * B
  BY DEF Offset
<1>4. n = (e - F + B - 1) \div B
  BY DEF NumBlocks, CeilDiv
<1>5. LeftLock(v) = Offset(v) \div B /\ RightLock(v) = (Offset(v) + B - 1) \div B
  BY DEF LeftLock, RightLock
<1>6. Shifted(v.batch) <=> F % B # 0
  BY DEF Shifted
<1>7. \A l : Touches(v.batch, l) <=> F \div B <= l /\ l <= (F + n * B - 1) \div B
  BY DEF Touches
<1>0. v.batch \in Batches
  BY DEF IsVisit
<1> DEFINE o == Offset(v)
           kb == k * B
           nb == n * B
<1> HIDE DEF B, F, k, n, e, o, kb, nb
<1>8. kb \in Nat /\ o = F + kb /\ o \in Nat /\ nb \in Int
  BY <1>1, <1>2, <1>3 DEF o, kb, nb
<1>9. kb + B <= nb
  <2>1. B * (k + 1) <= B * n
    BY <1>1, <1>2, MulLe
  <2>2. B * (k + 1) = kb + B /\ B * n = nb
    BY <1>1, <1>2 DEF kb, nb
  <2>3. QED
    BY <2>1, <2>2
<1>10. nb <= e - F + B - 1
  <2>1. e - F + B - 1 \in Int
    BY <1>1
  <2>2. B * n <= e - F + B - 1
    BY <1>1, <1>4, <2>1, DivBounds
  <2>3. B * n = nb
    BY <1>1 DEF nb
  <2>4. QED
    BY <2>2, <2>3
<1>11. o < e
  BY <1>1, <1>8, <1>9, <1>10
<1>12. F \div B \in Nat
  BY <1>1
<1>13. o \div B = (F \div B) + k
  BY <1>1, <1>2, <1>8, DivShift DEF kb
<1>14. (o + B - 1) \div B = (F \div B) + k + (IF F % B = 0 THEN 0 ELSE 1)
  <2>1. ((F + B - 1) + kb) \div B = ((F + B - 1) \div B) + k
    <3>1. F + B - 1 \in Int
      BY <1>1
    <3>2. QED
      BY <1>1, <1>2, <3>1, DivShift DEF kb
  <2>2. (F + B - 1) \div B = (F \div B) + (IF F % B = 0 THEN 0 ELSE 1)
    <3>1. B \in Nat \ {0} /\ F \in Int
      BY <1>1
    <3>2. QED
      BY <3>1, DivLast, Zenon
  <2>3. o + B - 1 = (F + B - 1) + kb
    BY <1>1, <1>8
  <2> DEFINE d == F \div B
             r == F % B
  <2> HIDE DEF d, r
  <2>4. ((F + B - 1) + kb) \div B = (d + (IF r = 0 THEN 0 ELSE 1)) + k /\ d \in Nat
    BY <2>1, <2>2, <1>12 DEF d, r
  <2>5. ((F + B - 1) + kb) \div B = d + k + (IF r = 0 THEN 0 ELSE 1)
    BY <1>2, <2>4
  <2>6. QED
    BY <2>3, <2>5 DEF d, r
<1>15. o \div B \in Nat /\ (o + B - 1) \div B \in Nat
  BY <1>2, <1>12, <1>13, <1>14
<1>16. (o + B - 1) \div B <= (F + nb - 1) \div B
  <2>1. o + B - 1 \in Int /\ F + nb - 1 \in Int /\ o + B - 1 <= F + nb - 1
    BY <1>1, <1>8, <1>9
  <2>2. QED
    BY <1>1, <2>1, DivMonotone
<1>17. o \div B <= (o + B - 1) \div B
  <2>1. o \in Int /\ o + B - 1 \in Int /\ o <= o + B - 1
    BY <1>1, <1>8
  <2>2. QED
    BY <1>1, <2>1, DivMonotone
<1>18. F \div B <= o \div B
  BY <1>2, <1>12, <1>13
<1>19. PICK m \in Nat : /\ \A b \in Batches : End(b) <= m
                        /\ Locks = 0 .. (m + B - 1) \div B
  BY RowFacts DEF B
<1>20. (o + B - 1) \div B <= (m + B - 1) \div B /\ (m + B - 1) \div B \in Int
  <2>1. o <= m
    BY <1>0, <1>1, <1>8, <1>11, <1>19 DEF e
  <2>2. o + B - 1 \in Int /\ m + B - 1 \in Int /\ o + B - 1 <= m + B - 1
    BY <1>1, <1>8, <2>1
  <2>3. QED
    BY <1>1, <2>2, DivMonotone, DivBounds
<1>21. o \div B \in Locks /\ (o + B - 1) \div B \in Locks
  BY <1>15, <1>17, <1>19, <1>20
<1>22. (F + nb - 1) \div B \in Int
  <2>1. F + nb - 1 \in Int
    BY <1>1, <1>8
  <2>2. QED
    BY <1>1, <2>1, DivBounds
<1>23. Touches(v.batch, o \div B) /\ Touches(v.batch, (o + B - 1) \div B)
  <2>1. Touches(v.batch, o \div B)
    BY <1>7, <1>12, <1>15, <1>16, <1>17, <1>18, <1>22 DEF nb
  <2>2. Touches(v.batch, (o + B - 1) \div B)
    BY <1>7, <1>12, <1>15, <1>16, <1>17, <1>18, <1>22 DEF nb
  <2>3. QED
    BY <2>1, <2>2
<1>24. LeftLock(v) = o \div B /\ RightLock(v) = (o + B - 1) \div B
  BY <1>5 DEF o
<1>25. Offset(v) \in Nat /\ Offset(v) < End(v.batch)
  BY <1>8, <1>11 DEF o, e
<1>26. LeftLock(v) = (First(v.batch) \div BlockSize) + v.block
  BY <1>13, <1>24 DEF F, k, B
<1>27. RightLock(v) = (First(v.batch) \div BlockSize) + v.block + (IF Shifted(v.batch) THEN 1 ELSE 0)
  <2>1. (IF F % B = 0 THEN 0 ELSE 1) = (IF Shifted(v.batch) THEN 1 ELSE 0)
    BY <1>6
  <2>2. QED
    BY <1>14, <1>24, <2>1 DEF F, k, B
<1>28. First(v.batch) \div BlockSize \in Nat
  BY <1>12 DEF F, B
<1>29. QED
  BY <1>15, <1>21, <1>23, <1>24, <1>25, <1>26, <1>27, <1>28

\* A row of a block lies in one of the block's lock blocks.
LEMMA RowOfVisit ==
  ASSUME IsConfig, NEW v, IsVisit(v), NEW row \in RowsOf(v)
  PROVE  /\ row \in Rows /\ row \in Nat
         /\ First(v.batch) <= row /\ row < End(v.batch)
         /\ (row - First(v.batch)) \div BlockSize = v.block
         /\ row \div BlockSize \in {LeftLock(v), RightLock(v)}
<1> DEFINE B == BlockSize
           F == First(v.batch)
           k == v.block
           o == Offset(v)
<1>0. v.batch \in Batches /\ k \in Int /\ k >= 0
  BY BatchFacts DEF IsVisit
<1>1. B \in Nat \ {0} /\ F \in Nat /\ o \in Nat /\ End(v.batch) \in Nat
  BY <1>0, ConfigFacts, BatchFacts, VisitGeometry
<1>2. row \in o .. o + B - 1 /\ row < End(v.batch)
  BY DEF RowsOf
<1>3. o = F + k * B
  BY DEF Offset
<1>4. LeftLock(v) = o \div B /\ RightLock(v) = (o + B - 1) \div B
  BY DEF LeftLock, RightLock
<1>5. PICK m \in Nat : Rows = 0 .. m - 1 /\ \A b \in Batches : End(b) <= m
  BY RowFacts
<1> HIDE DEF B, F, k, o
<1>6. row \in Nat /\ row \in Rows
  BY <1>0, <1>1, <1>2, <1>5
<1>7. B * k \in Nat /\ B * k <= row - F /\ row - F < B * k + B /\ F <= row
  <2>1. B * k \in Nat /\ B * k = k * B
    BY <1>0, <1>1
  <2>2. QED
    BY <1>1, <1>2, <1>3, <1>6, <2>1
<1>8. (row - F) \div B = k
  BY <1>0, <1>1, <1>6, <1>7, DivUnique
<1>9. row \div B \in {o \div B, (o + B - 1) \div B}
  <2> DEFINE a == o \div B
             c == (o + B - 1) \div B
             d == row \div B
  <2>1. a \in Int /\ c \in Int /\ d \in Int /\ a <= d /\ d <= c
    <3>1. o \in Int /\ o + B - 1 \in Int /\ row \in Int /\ o <= row /\ row <= o + B - 1
      BY <1>1, <1>2, <1>6
    <3>2. QED
      BY <1>1, <3>1, DivMonotone, DivBounds
  <2>2. c = a + (IF o % B = 0 THEN 0 ELSE 1)
    <3>1. B \in Nat \ {0} /\ o \in Int
      BY <1>1
    <3>2. QED
      BY <3>1, DivLast, Zenon
  <2> DEFINE r == o % B
  <2> HIDE DEF a, c, d, r
  <2>3. c = a + (IF r = 0 THEN 0 ELSE 1)
    BY <2>2 DEF r
  <2>4. d \in {a, c}
    BY <2>1, <2>3
  <2>5. QED
    BY <2>4 DEF a, c, d
<1>10. QED
  BY <1>2, <1>4, <1>6, <1>7, <1>8, <1>9 DEF B, F, k

\* Every row of a batch lies in one of its blocks.
LEMMA VisitOfRow ==
  ASSUME IsConfig, NEW b \in Batches, NEW row \in Rows, First(b) <= row, row < End(b)
  PROVE  LET v == [batch |-> b, block |-> (row - First(b)) \div BlockSize]
         IN  IsVisit(v) /\ row \in RowsOf(v)
<1> DEFINE B == BlockSize
           F == First(b)
           e == End(b)
           k == (row - F) \div B
           n == NumBlocks(b)
           v == [batch |-> b, block |-> k]
           o == Offset(v)
<1>1. B \in Nat \ {0} /\ F \in Nat /\ e \in Nat /\ n \in Int /\ row \in Nat
  <2>1. PICK m \in Nat : Rows = 0 .. m - 1
    BY RowFacts
  <2>2. QED
    BY <2>1, ConfigFacts, BatchFacts
<1>2. n = (e - F + B - 1) \div B
  BY DEF NumBlocks, CeilDiv
<1>3. F <= row /\ row < e
  OBVIOUS
<1>4. o = F + k * B /\ v.batch = b /\ v.block = k
  BY DEF Offset
<1>5. RowsOf(v) = {r \in o .. o + B - 1 : r < e}
  BY DEF RowsOf
<1>51. IsVisit(v) <=> k \in 0 .. n - 1
  BY DEF IsVisit
<1>6. k \in Int /\ B * k \in Int /\ B * k <= row - F /\ row - F < B * k + B
  <2>1. row - F \in Int
    BY <1>1
  <2>2. QED
    BY <1>1, <2>1, DivBounds
<1> HIDE DEF B, F, e, k, n, o, v
<1>7. k >= 0
  <2>1. CASE k <= -1
    <3>1. B * k <= B * (-1) /\ B * (-1) = -B
      BY <1>1, <1>6, <2>1, MulLe
    <3>2. QED
      BY <1>1, <1>3, <1>6, <3>1
  <2>2. QED
    BY <1>6, <2>1
<1>8. k <= n - 1
  <2>1. e - F + B - 1 \in Int
    BY <1>1
  <2>2. B * n \in Int /\ e - F + B - 1 < B * n + B
    BY <1>1, <1>2, <2>1, DivBounds
  <2>3. CASE n <= k
    <3>1. B * n <= B * k
      BY <1>1, <1>6, <2>3, MulLe
    <3>2. QED
      BY <1>1, <1>3, <1>6, <2>2, <3>1
  <2>4. QED
    BY <1>1, <1>6, <2>3
<1>9. k \in 0 .. n - 1
  BY <1>1, <1>6, <1>7, <1>8
<1>10. row \in RowsOf(v)
  <2>1. k * B = B * k
    BY <1>1, <1>6
  <2>2. o = F + B * k
    BY <1>4, <2>1
  <2>3. QED
    BY <1>1, <1>3, <1>5, <1>6, <2>2
<1>11. QED
  BY <1>9, <1>10, <1>51 DEF v, k, F, B

\* A block has at least one row.
LEMMA VisitHasRows ==
  ASSUME IsConfig, NEW v, IsVisit(v)
  PROVE  Offset(v) \in RowsOf(v)
<1>1. Offset(v) \in Nat /\ Offset(v) < End(v.batch) /\ BlockSize \in Nat \ {0}
  BY VisitGeometry, ConfigFacts
<1>2. QED
  BY <1>1 DEF RowsOf

\* Per side, one block of a batch meets a lock block; a block that alone does
\* arrives with weight two.
LEMMA SidesOfLock ==
  ASSUME IsConfig, NEW v, NEW w, IsVisit(v), IsVisit(w), v.batch = w.batch
  PROVE  /\ LeftLock(v) = LeftLock(w) => v.block = w.block
         /\ RightLock(v) = RightLock(w) => v.block = w.block
         /\ LeftLock(v) = RightLock(w) => AddCount(v, "left") = 1 /\ AddCount(w, "right") = 1
         /\ AddCount(v, "left") \in {1, 2} /\ AddCount(v, "right") \in {1, 2}
<1> DEFINE d == First(v.batch) \div BlockSize
           n == NumBlocks(v.batch)
<1>1. /\ d \in Nat
      /\ LeftLock(v) = d + v.block /\ LeftLock(w) = d + w.block
      /\ RightLock(v) = d + v.block + (IF Shifted(v.batch) THEN 1 ELSE 0)
      /\ RightLock(w) = d + w.block + (IF Shifted(v.batch) THEN 1 ELSE 0)
  BY VisitGeometry
<1>2. v.block \in 0 .. n - 1 /\ w.block \in 0 .. n - 1 /\ n \in Int
  BY BatchFacts DEF IsVisit
<1>3. /\ AddCount(v, "left") = IF Shifted(v.batch) /\ v.block = 0 THEN 2 ELSE 1
      /\ AddCount(v, "right") = IF Shifted(v.batch) /\ v.block = n - 1 THEN 2 ELSE 1
      /\ AddCount(w, "right") = IF Shifted(v.batch) /\ w.block = n - 1 THEN 2 ELSE 1
  BY DEF AddCount
<1> HIDE DEF d, n
<1>4. QED
  BY <1>1, <1>2, <1>3

-------------------------------------------------------------------------------
(* Tiles and their numbers.                                                  *)

\* The image of a finite set is finite.
LEMMA FiniteImage ==
  ASSUME NEW S, IsFiniteSet(S), NEW f
  PROVE  IsFiniteSet({f[x] : x \in S})
<1> DEFINE T == {f[x] : x \in S}
           g == [x \in S |-> f[x]]
<1>1. g \in [S -> T] /\ \A y \in T : \E x \in S : g[x] = y
  OBVIOUS
<1>2. g \in Surjection(S, T)
  <2> HIDE DEF g, T
  <2>1. QED
    BY <1>1 DEF Surjection
<1> HIDE DEF g, T
<1>3. IsFiniteSet(T)
  BY <1>2, FS_Surjection
<1>4. QED
  BY <1>3 DEF T

\* The heads, their groups and their locks.
LEMMA HeadFacts ==
  ASSUME IsConfig
  PROVE  /\ NumHeads \in Nat \ {0} /\ IsFiniteSet(0 .. NumHeads - 1)
         /\ \A h \in 0 .. NumHeads - 1 : /\ h \div config.headsPerKv \in 0 .. NumHeads - 1
                                         /\ h % config.headsPerKv \in 0 .. config.headsPerKv - 1
                                         /\ LockHead(h) \in LockHeads
<1> DEFINE q == config.headsPerKv
           n == NumHeads
<1>1. q \in Nat \ {0} /\ config.numHeadsKv \in Nat \ {0} /\ n = config.numHeadsKv * q
  BY ConfigFacts DEF NumHeads
<1>2. n \in Nat \ {0}
  BY <1>1
<1> HIDE DEF n, q
<1>3. ASSUME NEW h \in 0 .. n - 1
      PROVE  h \div q \in 0 .. n - 1 /\ h % q \in 0 .. q - 1
  <2>1. h \in Int /\ h >= 0 /\ h <= n - 1
    BY <1>2, <1>3
  <2> DEFINE d == h \div q
  <2>2. d \in Int /\ h % q \in 0 .. q - 1 /\ q * d \in Int /\ q * d <= h /\ h < q * d + q
    BY <1>1, <2>1, DivBounds
  <2> HIDE DEF d
  <2>3. CASE d < 0
    <3>1. q * d <= q * (-1) /\ q * (-1) = -q
      BY <1>1, <2>2, <2>3, MulLe
    <3>2. QED
      BY <1>1, <2>1, <2>2, <3>1
  <2>4. CASE d >= 0
    <3>1. 1 * d <= q * d
      <4>1. d * 1 <= d * q /\ d * 1 = 1 * d /\ d * q = q * d
        BY <1>1, <2>2, <2>4, MulLe
      <4>2. QED
        BY <4>1
    <3>2. d <= h
      BY <2>1, <2>2, <3>1
    <3>3. QED
      BY <1>2, <2>1, <2>2, <2>4, <3>2 DEF d
  <2>5. QED
    BY <2>2, <2>3, <2>4
<1>4. IsFiniteSet(0 .. n - 1)
  <2>1. 0 \in Int /\ n - 1 \in Int
    BY <1>2
  <2>2. QED
    BY <2>1, FS_Interval
<1>5. \A h \in 0 .. n - 1 : LockHead(h) \in LockHeads
  BY DEF LockHeads, n
<1>6. QED
  BY <1>2, <1>3, <1>4, <1>5 DEF n, q

\* No group has more blocks than MaxOuter.
LEMMA OuterFacts ==
  ASSUME IsConfig
  PROVE  MaxOuter \in Int /\ \A g \in Groups : NumOuter(g) \in Int /\ NumOuter(g) <= MaxOuter
<1> DEFINE f == [g \in Groups |-> NumOuter(g)]
           S == {f[g] : g \in Groups}
<1>1. \A g \in Groups : NumOuter(g) \in Int
  <2> TAKE g \in Groups
  <2>1. CASE Path = "dq"
    BY <2>1, ConfigFacts DEF NumOuter
  <2>2. CASE Path # "dq"
    <3>1. g \in Batches
      BY <2>2, GroupFacts
    <3>2. QED
      BY <2>2, <3>1, BatchFacts DEF NumOuter
  <2>3. QED
    BY <2>1, <2>2
<1>2. S = {NumOuter(g) : g \in Groups}
  OBVIOUS
<1>3. IsFiniteSet(Groups) /\ 0 \in Groups
  BY GroupFacts
<1>4. IsFiniteSet(S)
  <2> HIDE DEF f
  <2>1. QED
    BY <1>3, FiniteImage
<1>5. IsIntSet(S)
  BY <1>1, <1>2, <1>3, <1>4 DEF IsIntSet
<1>6. MaxOuter = Max(S)
  BY <1>2 DEF MaxOuter
<1>7. \A g \in Groups : NumOuter(g) \in S
  BY <1>2
<1> HIDE DEF S, f
<1>8. Max(S) \in S /\ \A y \in S : y <= Max(S)
  BY <1>5, GreatestElement
<1>9. S \subseteq Int
  BY <1>5 DEF IsIntSet
<1>10. QED
  BY <1>1, <1>6, <1>7, <1>8, <1>9

\* The parts of a tile.
LEMMA TileFacts ==
  ASSUME IsConfig, NEW t \in Tiles
  PROVE  /\ t.head \in 0 .. NumHeads - 1 /\ t.head \in Nat /\ t.group \in Groups
         /\ t.outer \in Nat /\ t.outer < MaxOuter
         /\ t = [head |-> t.head, group |-> t.group, outer |-> t.outer]
         /\ Path # "fwd" => t.outer < NumOuter(t.group)
         /\ HeadOf(t) \in LockHeads /\ StepOf(t) \in 0 .. LastStep
         /\ ConflictRow(t) \in 0 .. NumHeads - 1
         /\ t \in TileType
<1>1. /\ t.head \in 0 .. NumHeads - 1 /\ t.group \in Groups /\ t.outer \in 0 .. MaxOuter - 1
      /\ t = [head |-> t.head, group |-> t.group, outer |-> t.outer]
      /\ config.padded \/ t.outer < NumOuter(t.group)
  BY DEF Tiles
<1>2. /\ Path # "fwd" => ~config.padded /\ config.deterministic
      /\ Path \in {"fwd", "dkv", "dq"} /\ config.headsPerKv \in Nat \ {0}
  BY ConfigFacts
<1>3. MaxOuter \in Int /\ NumHeads \in Nat \ {0} /\ NumOuter(t.group) \in Int
  BY <1>1, OuterFacts, HeadFacts
<1>4. HeadOf(t) \in LockHeads
  BY <1>1, HeadFacts DEF HeadOf
<1>5. StepOf(t) \in 0 .. LastStep
  <2>0. LastStep \in Nat
    BY StepFacts
  <2>1. CASE Path = "fwd"
    BY <2>0, <2>1 DEF StepOf
  <2>2. CASE Path = "dkv"
    <3>1. t.head % config.headsPerKv \in 0 .. config.headsPerKv - 1
      BY <1>1, HeadFacts
    <3>2. QED
      BY <2>2, <3>1 DEF StepOf, LastStep, NumSteps
  <2>3. CASE Path = "dq"
    <3>1. t.outer < config.numKeyBlocks
      BY <1>1, <1>2, <2>3 DEF NumOuter
    <3>2. QED
      BY <1>1, <1>3, <2>3, <3>1, ConfigFacts DEF StepOf, LastStep
  <2>4. QED
    BY <1>2, <2>1, <2>2, <2>3
<1>6. ConflictRow(t) \in 0 .. NumHeads - 1
  BY <1>1, <1>3, HeadFacts DEF ConflictRow
<1>7. t \in TileType
  <2>1. t.outer \in Nat
    BY <1>1, <1>3
  <2>2. QED
    BY <1>1, <2>1 DEF TileType
<1>8. QED
  BY <1>1, <1>2, <1>3, <1>4, <1>5, <1>6, <1>7

-------------------------------------------------------------------------------
(* The order of the tiles.                                                   *)

Key(u) ==
  IF Path = "fwd"
  THEN (((u.head \div config.headsPerKv) * Len(config.cuBatches) + u.group) * MaxOuter + u.outer) * config.headsPerKv
         + (u.head % config.headsPerKv)
  ELSE (u.group * NumHeads + u.head) * MaxOuter + u.outer

\* Tiles are told apart by the keys they are ordered by.
LEMMA KeyInjective ==
  ASSUME IsConfig, NEW t \in Tiles, NEW u \in Tiles
  PROVE  Key(t) \in Int /\ (Key(t) = Key(u) => t = u)
<1> DEFINE q == config.headsPerKv
           m == Len(config.cuBatches)
           x == MaxOuter
           n == NumHeads
<1>1. q \in Nat \ {0} /\ m \in Nat \ {0} /\ n \in Nat \ {0} /\ Groups = 0 .. m - 2
  BY ConfigFacts, CuFacts, HeadFacts DEF Groups
<1>2. /\ t.head \in 0 .. n - 1 /\ t.group \in Groups /\ t.outer \in Nat /\ t.outer < x /\ x \in Int
      /\ u.head \in 0 .. n - 1 /\ u.group \in Groups /\ u.outer \in Nat /\ u.outer < x
      /\ t = [head |-> t.head, group |-> t.group, outer |-> t.outer]
      /\ u = [head |-> u.head, group |-> u.group, outer |-> u.outer]
  BY TileFacts, OuterFacts
<1>3. \A s \in Tiles : Key(s) =
        IF Path = "fwd" THEN (((s.head \div q) * m + s.group) * x + s.outer) * q + (s.head % q)
        ELSE (s.group * n + s.head) * x + s.outer
  BY DEF Key
<1>4. \A h \in 0 .. n - 1 : h \in Int /\ h \div q \in Int /\ h % q \in 0 .. q - 1 /\ h = q * (h \div q) + (h % q)
  <2> HIDE DEF q, n
  <2> TAKE h \in 0 .. n - 1
  <2>1. h \in Int
    BY <1>1
  <2>2. QED
    BY <1>1, <2>1, DivBounds
<1> HIDE DEF q, m, x, n
<1>5. x \in Nat \ {0} /\ t.outer \in 0 .. x - 1 /\ u.outer \in 0 .. x - 1
  BY <1>2
<1>6. t.group \in 0 .. m - 1 /\ u.group \in 0 .. m - 1 /\ t.group \in Int /\ u.group \in Int
  BY <1>1, <1>2
<1>7. CASE Path = "fwd"
  <2> DEFINE ta == t.head \div q
             ua == u.head \div q
             tr == t.head % q
             ur == u.head % q
             tb == ta * m + t.group
             ub == ua * m + u.group
             tc == tb * x + t.outer
             uc == ub * x + u.outer
  <2>1. ta \in Int /\ ua \in Int /\ tr \in 0 .. q - 1 /\ ur \in 0 .. q - 1
        /\ t.head = q * ta + tr /\ u.head = q * ua + ur
    BY <1>2, <1>4
  <2>2. Key(t) = tc * q + tr /\ Key(u) = uc * q + ur
    BY <1>3, <1>7
  <2> HIDE DEF ta, ua, tr, ur
  <2>3. tb \in Int /\ ub \in Int /\ (tb = ub => ta = ua /\ t.group = u.group)
    BY <1>1, <1>6, <2>1, TwoDigits, SMTT(30)
  <2> HIDE DEF tb, ub
  <2>4. tc \in Int /\ uc \in Int /\ (tc = uc => tb = ub /\ t.outer = u.outer)
    BY <1>5, <2>3, TwoDigits
  <2> HIDE DEF tc, uc
  <2>5. tc * q + tr \in Int /\ (tc * q + tr = uc * q + ur => tc = uc /\ tr = ur)
    BY <1>1, <2>1, <2>4, TwoDigits
  <2>6. Key(t) \in Int
    BY <2>2, <2>5
  <2>7. ASSUME Key(t) = Key(u) PROVE t = u
    <3>1. ta = ua /\ tr = ur /\ t.group = u.group /\ t.outer = u.outer
      BY <2>2, <2>3, <2>4, <2>5, <2>7
    <3>2. t.head = u.head
      BY <2>1, <3>1
    <3>3. QED
      BY <1>2, <3>1, <3>2
  <2>8. QED
    BY <2>6, <2>7
<1>8. CASE Path # "fwd"
  <2> DEFINE tb == t.group * n + t.head
             ub == u.group * n + u.head
  <2>1. Key(t) = tb * x + t.outer /\ Key(u) = ub * x + u.outer
    BY <1>3, <1>8
  <2>2. tb \in Int /\ ub \in Int /\ (tb = ub => t.group = u.group /\ t.head = u.head)
    <3>1. t.head \in 0 .. n - 1 /\ u.head \in 0 .. n - 1 /\ t.group \in Int /\ u.group \in Int
      BY <1>2, <1>6
    <3> DEFINE tg == t.group
               ug == u.group
               th == t.head
               uh == u.head
    <3>2. n \in Nat \ {0} /\ th \in 0 .. n - 1 /\ uh \in 0 .. n - 1 /\ tg \in Int /\ ug \in Int
      BY <1>1, <3>1
    <3> HIDE DEF tg, ug, th, uh
    <3>3. tg * n + th \in Int /\ ug * n + uh \in Int /\ (tg * n + th = ug * n + uh => tg = ug /\ th = uh)
      BY <3>2, TwoDigits
    <3>4. QED
      BY <3>3 DEF tg, ug, th, uh
  <2> HIDE DEF tb, ub
  <2>3. tb * x + t.outer \in Int /\ (tb * x + t.outer = ub * x + u.outer => tb = ub /\ t.outer = u.outer)
    BY <1>5, <2>2, TwoDigits
  <2>4. Key(t) \in Int
    BY <2>1, <2>3
  <2>5. ASSUME Key(t) = Key(u) PROVE t = u
    <3>1. t.group = u.group /\ t.head = u.head /\ t.outer = u.outer
      BY <2>1, <2>2, <2>3, <2>5
    <3>2. QED
      BY <1>2, <3>1
  <2>6. QED
    BY <2>4, <2>5
<1>9. QED
  BY <1>7, <1>8

\* There are finitely many tiles.
LEMMA TilesFinite ==
  ASSUME IsConfig
  PROVE  IsFiniteSet(Tiles) /\ Cardinality(Tiles) \in Nat
<1> DEFINE H == 0 .. NumHeads - 1
           O == 0 .. MaxOuter - 1
           P == (H \X Groups) \X O
           f == [p \in P |-> [head |-> p[1][1], group |-> p[1][2], outer |-> p[2]]]
           R == [head : H, group : Groups, outer : O]
<1>1. IsFiniteSet(H) /\ IsFiniteSet(Groups) /\ IsFiniteSet(O)
  <2>1. 0 \in Int /\ MaxOuter - 1 \in Int
    BY OuterFacts
  <2>2. IsFiniteSet(O)
    BY <2>1, FS_Interval
  <2>3. QED
    BY <2>2, HeadFacts, GroupFacts
<1>2. IsFiniteSet(P)
  <2> HIDE DEF H, O
  <2>1. IsFiniteSet(H \X Groups)
    BY <1>1, FS_Product
  <2>2. QED
    BY <1>1, <2>1, FS_Product
<1>3. IsFiniteSet({f[p] : p \in P})
  <2> HIDE DEF f, P
  <2>1. QED
    BY <1>2, FiniteImage
<1>4. R \subseteq {f[p] : p \in P}
  <2> HIDE DEF H, O
  <2> SUFFICES ASSUME NEW r \in R PROVE r \in {f[p] : p \in P}
    OBVIOUS
  <2> DEFINE p == << <<r.head, r.group>>, r.outer>>
  <2>1. p \in P
    OBVIOUS
  <2>2. f[p] = r
    BY <2>1
  <2>3. QED
    BY <2>1, <2>2
<1>5. Tiles \subseteq R
  BY DEF Tiles
<1> HIDE DEF f, P, R
<1>6. IsFiniteSet(Tiles)
  BY <1>3, <1>4, <1>5, FS_Subset
<1>7. QED
  BY <1>6, FS_CardinalityType

Before(t) == {u \in Tiles : Key(u) < Key(t)}

\* The block_idx of a tile is the number of tiles before it.
LEMMA BlockIdxIs ==
  ASSUME NEW t PROVE BlockIdx(t) = Cardinality(Before(t))
BY DEF BlockIdx, Before, Key

\* The tiles have a block_idx of their own, and there is one for each.
LEMMA BlockIdxBijective ==
  ASSUME IsConfig
  PROVE  /\ \A t \in Tiles : BlockIdx(t) \in 0 .. Cardinality(Tiles) - 1
         /\ \A i \in 0 .. Cardinality(Tiles) - 1 : \E t \in Tiles : BlockIdx(t) = i
         /\ \A t, u \in Tiles : BlockIdx(t) = BlockIdx(u) => t = u
<1> DEFINE n == Cardinality(Tiles)
           P == 0 .. n - 1
           f == [t \in Tiles |-> BlockIdx(t)]
<1>1. IsFiniteSet(Tiles) /\ n \in Nat
  BY TilesFinite
<1>2. \A t \in Tiles : Before(t) \in SUBSET Tiles /\ t \notin Before(t)
  BY KeyInjective DEF Before
<1>3. \A t \in Tiles : IsFiniteSet(Before(t)) /\ BlockIdx(t) \in Nat /\ BlockIdx(t) < n
  <2> TAKE t \in Tiles
  <2> DEFINE S == Before(t)
  <2>1. S \in SUBSET Tiles /\ S # Tiles
    BY <1>2
  <2>2. BlockIdx(t) = Cardinality(S)
    BY BlockIdxIs
  <2> HIDE DEF S
  <2>3. IsFiniteSet(S) /\ Cardinality(S) <= n /\ Cardinality(S) # n
    BY <1>1, <2>1, FS_Subset
  <2>4. Cardinality(S) \in Nat
    BY <2>3, FS_CardinalityType
  <2>5. QED
    BY <1>1, <2>2, <2>3, <2>4 DEF S
<1>4. ASSUME NEW t \in Tiles, NEW u \in Tiles, Key(t) < Key(u)
      PROVE  BlockIdx(t) # BlockIdx(u)
  <2>1. Before(t) \subseteq Before(u)
    <3>1. \A w \in Tiles : Key(w) < Key(t) => Key(w) < Key(u)
      BY <1>4, KeyInjective
    <3>2. QED
      BY <3>1, Zenon DEF Before
  <2>2. t \in Before(u) /\ t \notin Before(t)
    BY <1>2, <1>4 DEF Before
  <2>3. Cardinality(Before(t)) # Cardinality(Before(u))
    <3>1. IsFiniteSet(Before(u))
      BY <1>3
    <3>2. QED
      BY <2>1, <2>2, <3>1, FS_Subset
  <2>4. QED
    BY <2>3, BlockIdxIs
<1>5. \A t, u \in Tiles : BlockIdx(t) = BlockIdx(u) => t = u
  BY <1>4, KeyInjective
<1>6. f \in Injection(Tiles, P)
  <2>1. f \in [Tiles -> P]
    BY <1>1, <1>3
  <2>2. \A t, u \in Tiles : f[t] = f[u] => t = u
    BY <1>5
  <2> HIDE DEF f, P
  <2>3. QED
    BY <2>1, <2>2 DEF Injection, IsInjective
<1>7. IsFiniteSet(P) /\ Cardinality(P) = n
  <2>1. 0 \in Int /\ n - 1 \in Int
    BY <1>1
  <2>2. IsFiniteSet(P) /\ Cardinality(P) = IF 0 > n - 1 THEN 0 ELSE (n - 1) - 0 + 1
    BY <2>1, FS_Interval
  <2>3. QED
    BY <1>1, <2>2
<1>8. f \in Surjection(Tiles, P)
  <2> HIDE DEF f, P
  <2>1. QED
    BY <1>1, <1>6, <1>7, FS_Injection
<1>9. \A i \in P : \E t \in Tiles : f[t] = i
  <2> HIDE DEF f, P
  <2>1. QED
    BY <1>8 DEF Surjection
<1>10. \A t \in Tiles : f[t] = BlockIdx(t)
  OBVIOUS
<1>11. QED
  BY <1>1, <1>3, <1>5, <1>9, <1>10

OrderIs == order = [i \in 0 .. Cardinality(Tiles) - 1 |-> CHOOSE t \in Tiles : BlockIdx(t) = i]

\* The order hands out every tile at most once.
LEMMA OrderFacts ==
  ASSUME IsConfig, OrderIs
  PROVE  /\ NumTiles \in Nat /\ DOMAIN order = 0 .. NumTiles - 1
         /\ \A i \in 0 .. NumTiles - 1 : order[i] \in Tiles
         /\ \A i, j \in 0 .. NumTiles - 1 : order[i] = order[j] => i = j
<1> DEFINE n == Cardinality(Tiles)
<1>1. n \in Nat
  BY TilesFinite
<1>2. DOMAIN order = 0 .. n - 1
  BY DEF OrderIs
<1>3. NumTiles = n
  <2>1. 0 \in Int /\ n - 1 \in Int
    BY <1>1
  <2>2. Cardinality(0 .. n - 1) = IF 0 > n - 1 THEN 0 ELSE (n - 1) - 0 + 1
    BY <2>1, FS_Interval
  <2>3. QED
    BY <1>1, <1>2, <2>2 DEF NumTiles
<1>4. \A i \in 0 .. n - 1 : order[i] \in Tiles /\ BlockIdx(order[i]) = i
  <2> TAKE i \in 0 .. n - 1
  <2>1. order[i] = CHOOSE t \in Tiles : BlockIdx(t) = i
    BY DEF OrderIs
  <2>2. \E t \in Tiles : BlockIdx(t) = i
    BY BlockIdxBijective
  <2>3. QED
    BY <2>1, <2>2
<1>5. QED
  BY <1>1, <1>2, <1>3, <1>4

-------------------------------------------------------------------------------
(* Concatenations of actions.                                                *)

Ops == {"enter", "await", "lock", "load", "store", "add", "reset", "publish", "unlock"}
Visits == [batch : Batches, block : Nat]
ActType == [op : Ops, visit : Visits, where : Locks \cup {0, "left", "right"}]

\* The elements of a concatenation.
LEMMA ConcatAt ==
  ASSUME NEW E, NEW a \in Seq(E), NEW b \in Seq(E)
  PROVE  /\ a \o b \in Seq(E) /\ Len(a \o b) = Len(a) + Len(b)
         /\ Len(a) \in Nat /\ Len(b) \in Nat
         /\ DOMAIN a = 1 .. Len(a) /\ DOMAIN b = 1 .. Len(b) /\ DOMAIN (a \o b) = 1 .. Len(a) + Len(b)
         /\ \A p \in 1 .. Len(a) : (a \o b)[p] = a[p]
         /\ \A p \in 1 .. Len(b) : (a \o b)[Len(a) + p] = b[p]
OBVIOUS

\* Concatenation joins the sets of elements.
LEMMA ConcatSet ==
  ASSUME NEW E, NEW a \in Seq(E), NEW b \in Seq(E)
  PROVE  ToSet(a \o b) = ToSet(a) \cup ToSet(b)
<1> DEFINE c == a \o b
           m == Len(a)
           n == Len(b)
<1>1. /\ m \in Nat /\ n \in Nat /\ DOMAIN a = 1 .. m /\ DOMAIN b = 1 .. n /\ DOMAIN c = 1 .. m + n
      /\ \A p \in 1 .. m : c[p] = a[p]
      /\ \A p \in 1 .. n : c[m + p] = b[p]
  BY ConcatAt
<1> HIDE DEF c, m, n
<1>2. ToSet(c) \subseteq ToSet(a) \cup ToSet(b)
  <2> SUFFICES ASSUME NEW i \in 1 .. m + n PROVE c[i] \in ToSet(a) \cup ToSet(b)
    BY <1>1 DEF ToSet
  <2>1. CASE i \in 1 .. m
    BY <1>1, <2>1 DEF ToSet
  <2>2. CASE i \notin 1 .. m
    <3>1. i - m \in 1 .. n /\ m + (i - m) = i
      BY <1>1, <2>2
    <3>2. c[i] = b[i - m]
      BY <1>1, <3>1
    <3>3. QED
      BY <1>1, <3>1, <3>2 DEF ToSet
  <2>3. QED
    BY <2>1, <2>2
<1>3. ToSet(a) \subseteq ToSet(c)
  <2>1. \A i \in 1 .. m : i \in 1 .. m + n
    BY <1>1
  <2>2. QED
    BY <1>1, <2>1 DEF ToSet
<1>4. ToSet(b) \subseteq ToSet(c)
  <2>1. \A i \in 1 .. n : m + i \in 1 .. m + n
    BY <1>1
  <2>2. QED
    BY <1>1, <2>1 DEF ToSet
<1>5. QED
  BY <1>2, <1>3, <1>4 DEF c

\* Every action of a comes before every action of b of the same visit.
Precedes(a, b) == \A i \in DOMAIN a, j \in DOMAIN b : a[i].visit = b[j].visit => Rank(a[i]) < Rank(b[j])

\* Two ordered pieces stay ordered when the first one's actions come before the second one's.
LEMMA ConcatInOrder ==
  ASSUME NEW E, NEW a \in Seq(E), NEW b \in Seq(E), InOrder(a), InOrder(b), Precedes(a, b)
  PROVE  InOrder(a \o b)
<1> DEFINE c == a \o b
           m == Len(a)
           n == Len(b)
<1>1. /\ m \in Nat /\ n \in Nat /\ DOMAIN a = 1 .. m /\ DOMAIN b = 1 .. n /\ DOMAIN c = 1 .. m + n
      /\ \A p \in 1 .. m : c[p] = a[p]
      /\ \A p \in 1 .. n : c[m + p] = b[p]
  BY ConcatAt
<1> HIDE DEF c, m, n
<1> SUFFICES ASSUME NEW i \in 1 .. m + n, NEW j \in 1 .. m + n, i < j, c[i].visit = c[j].visit
             PROVE  Rank(c[i]) < Rank(c[j])
  BY <1>1 DEF InOrder, c
<1>2. CASE j \in 1 .. m
  <2>1. i \in 1 .. m
    BY <1>1, <1>2
  <2>2. c[i] = a[i] /\ c[j] = a[j]
    BY <1>1, <1>2, <2>1
  <2>3. QED
    BY <1>1, <1>2, <2>1, <2>2 DEF InOrder
<1>3. CASE i \in 1 .. m /\ j \notin 1 .. m
  <2>1. j - m \in 1 .. n /\ m + (j - m) = j
    BY <1>1, <1>3
  <2>2. c[i] = a[i] /\ c[j] = b[j - m]
    BY <1>1, <1>3, <2>1
  <2>3. QED
    BY <1>1, <1>3, <2>1, <2>2 DEF Precedes
<1>4. CASE i \notin 1 .. m
  <2>1. /\ j - m \in 1 .. n /\ m + (j - m) = j /\ i - m \in 1 .. n /\ m + (i - m) = i
        /\ i - m < j - m
    BY <1>1, <1>4
  <2>2. c[i] = b[i - m] /\ c[j] = b[j - m]
    BY <1>1, <2>1
  <2>3. QED
    BY <1>1, <2>1, <2>2, SMTT(30) DEF InOrder
<1>5. QED
  BY <1>2, <1>3, <1>4

\* What stands next to each other stays so.
LEMMA ConcatAdjacent ==
  ASSUME NEW E, NEW a \in Seq(E), NEW b \in Seq(E), Adjacent(a), Adjacent(b)
  PROVE  Adjacent(a \o b)
<1> DEFINE c == a \o b
           m == Len(a)
           n == Len(b)
<1>1. /\ m \in Nat /\ n \in Nat /\ DOMAIN a = 1 .. m /\ DOMAIN b = 1 .. n /\ DOMAIN c = 1 .. m + n
      /\ \A p \in 1 .. m : c[p] = a[p]
      /\ \A p \in 1 .. n : c[m + p] = b[p]
  BY ConcatAt
<1> HIDE DEF c, m, n
<1> SUFFICES ASSUME NEW i \in 1 .. m + n
             PROVE  /\ c[i].op = "add" =>
                         /\ i + 2 \in 1 .. m + n
                         /\ c[i + 1] = Act("reset", c[i].visit, c[i].where)
                         /\ c[i + 2] = Act("publish", c[i].visit, c[i].where)
                    /\ c[i].op = "reset" => i > 1 /\ c[i - 1] = Act("add", c[i].visit, c[i].where)
                    /\ c[i].op = "publish" => i > 1 /\ c[i - 1] = Act("reset", c[i].visit, c[i].where)
                    /\ c[i].op = "store" /\ Path = "fwd" => i > 1 /\ c[i - 1] = Act("load", c[i].visit, 0)
  BY <1>1 DEF Adjacent, c
<1>2. CASE i \in 1 .. m
  <2>1. c[i] = a[i]
    BY <1>1, <1>2
  <2>2. ASSUME a[i].op = "add"
        PROVE  /\ i + 2 \in 1 .. m + n
               /\ c[i + 1] = Act("reset", a[i].visit, a[i].where)
               /\ c[i + 2] = Act("publish", a[i].visit, a[i].where)
    <3>1. /\ i + 2 \in 1 .. m
          /\ a[i + 1] = Act("reset", a[i].visit, a[i].where)
          /\ a[i + 2] = Act("publish", a[i].visit, a[i].where)
      BY <1>1, <1>2, <2>2 DEF Adjacent
    <3>2. i + 1 \in 1 .. m /\ i + 2 \in 1 .. m + n
      BY <1>1, <1>2, <3>1
    <3>3. c[i + 1] = a[i + 1] /\ c[i + 2] = a[i + 2]
      BY <1>1, <3>1, <3>2
    <3>4. QED
      BY <3>1, <3>2, <3>3
  <2>3. i > 1 => i - 1 \in 1 .. m /\ c[i - 1] = a[i - 1]
    BY <1>1, <1>2
  <2>4. /\ a[i].op = "reset" => i > 1 /\ a[i - 1] = Act("add", a[i].visit, a[i].where)
        /\ a[i].op = "publish" => i > 1 /\ a[i - 1] = Act("reset", a[i].visit, a[i].where)
        /\ a[i].op = "store" /\ Path = "fwd" => i > 1 /\ a[i - 1] = Act("load", a[i].visit, 0)
    BY <1>1, <1>2 DEF Adjacent
  <2>5. QED
    BY <2>1, <2>2, <2>3, <2>4
<1>3. CASE i \notin 1 .. m
  <2> DEFINE p == i - m
  <2>1. p \in 1 .. n /\ p \in Int /\ i = m + p
    BY <1>1, <1>3
  <2> HIDE DEF p
  <2>2. c[i] = b[p]
    BY <1>1, <2>1
  <2>3. ASSUME b[p].op = "add"
        PROVE  /\ i + 2 \in 1 .. m + n
               /\ c[i + 1] = Act("reset", b[p].visit, b[p].where)
               /\ c[i + 2] = Act("publish", b[p].visit, b[p].where)
    <3>1. /\ p + 2 \in 1 .. n
          /\ b[p + 1] = Act("reset", b[p].visit, b[p].where)
          /\ b[p + 2] = Act("publish", b[p].visit, b[p].where)
      BY <1>1, <2>1, <2>3 DEF Adjacent
    <3>2. p + 1 \in 1 .. n /\ i + 2 \in 1 .. m + n /\ i + 1 = m + (p + 1) /\ i + 2 = m + (p + 2)
      BY <1>1, <2>1, <3>1
    <3>3. c[i + 1] = b[p + 1] /\ c[i + 2] = b[p + 2]
      BY <1>1, <3>1, <3>2
    <3>4. QED
      BY <3>1, <3>2, <3>3
  <2>4. p > 1 => i > 1 /\ c[i - 1] = b[p - 1]
    <3>1. ASSUME p > 1 PROVE i > 1 /\ c[i - 1] = b[p - 1]
      <4>1. p - 1 \in 1 .. n /\ i - 1 = m + (p - 1) /\ i > 1
        BY <1>1, <2>1, <3>1
      <4>2. QED
        BY <1>1, <4>1
    <3>2. QED
      BY <3>1
  <2>5. /\ b[p].op = "reset" => p > 1 /\ b[p - 1] = Act("add", b[p].visit, b[p].where)
        /\ b[p].op = "publish" => p > 1 /\ b[p - 1] = Act("reset", b[p].visit, b[p].where)
        /\ b[p].op = "store" /\ Path = "fwd" => p > 1 /\ b[p - 1] = Act("load", b[p].visit, 0)
    BY <1>1, <2>1 DEF Adjacent
  <2>6. QED
    BY <2>2, <2>3, <2>4, <2>5
<1>4. QED
  BY <1>2, <1>3

\* So does what is entered first.
LEMMA ConcatEntered ==
  ASSUME NEW E, NEW a \in Seq(E), NEW b \in Seq(E), EnteredFirst(a), EnteredFirst(b)
  PROVE  EnteredFirst(a \o b)
<1> DEFINE c == a \o b
           m == Len(a)
           n == Len(b)
<1>1. /\ m \in Nat /\ n \in Nat /\ DOMAIN a = 1 .. m /\ DOMAIN b = 1 .. n /\ DOMAIN c = 1 .. m + n
      /\ \A p \in 1 .. m : c[p] = a[p]
      /\ \A p \in 1 .. n : c[m + p] = b[p]
  BY ConcatAt
<1> HIDE DEF c, m, n
<1> SUFFICES ASSUME NEW i \in 1 .. m + n, Path = "dq", c[i].op # "enter"
             PROVE  i > 1 /\ c[i - 1].visit.batch = c[i].visit.batch
  BY <1>1 DEF EnteredFirst, c
<1>2. CASE i \in 1 .. m
  <2>1. c[i] = a[i]
    BY <1>1, <1>2
  <2>2. i > 1 /\ a[i - 1].visit.batch = a[i].visit.batch
    BY <1>1, <1>2, <2>1 DEF EnteredFirst
  <2>3. c[i - 1] = a[i - 1]
    BY <1>1, <1>2, <2>2
  <2>4. QED
    BY <2>1, <2>2, <2>3
<1>3. CASE i \notin 1 .. m
  <2> DEFINE p == i - m
  <2>1. p \in 1 .. n /\ p \in Int /\ i = m + p
    BY <1>1, <1>3
  <2> HIDE DEF p
  <2>2. c[i] = b[p]
    BY <1>1, <2>1
  <2>3. p > 1 /\ b[p - 1].visit.batch = b[p].visit.batch
    BY <1>1, <2>1, <2>2 DEF EnteredFirst
  <2>4. p - 1 \in 1 .. n /\ i - 1 = m + (p - 1) /\ i > 1
    BY <1>1, <2>1, <2>3
  <2>5. c[i - 1] = b[p - 1]
    BY <1>1, <2>4
  <2>6. QED
    BY <2>2, <2>3, <2>4, <2>5
<1>4. QED
  BY <1>2, <1>3

-------------------------------------------------------------------------------
(* The epilogue of a visit, piece by piece.                                  *)

\* Part of the epilogue of one visit: the actions S of v, with ranks from lo to hi.
Piece(e, v, lo, hi, S) ==
  /\ e \in Seq(ActType) /\ ToSet(e) = S
  /\ \A i \in DOMAIN e : e[i].visit = v /\ Rank(e[i]) \in lo .. hi
  /\ InOrder(e) /\ Adjacent(e)

BlockActs(op, v) == {Act(op, v, l) : l \in {LeftLock(v), RightLock(v)}}
SideActs(v, side) == {Act(op, v, side) : op \in {"add", "reset", "publish"}}

\* Nothing is a piece.
LEMMA EmptyPiece ==
  ASSUME NEW v, NEW lo, NEW hi
  PROVE  Piece(<<>>, v, lo, hi, {})
BY DEF Piece, ToSet, InOrder, Adjacent

\* Pieces of one visit with rising ranks make a piece.
LEMMA ConcatPiece ==
  ASSUME NEW a, NEW b, NEW v, NEW S, NEW T, NEW lo \in Int, NEW m \in Int, NEW n \in Int, NEW hi \in Int,
         Piece(a, v, lo, m, S), Piece(b, v, n, hi, T), m < n, lo <= n, m <= hi
  PROVE  Piece(a \o b, v, lo, hi, S \cup T)
<1>1. a \in Seq(ActType) /\ b \in Seq(ActType)
  BY DEF Piece
<1>2. a \o b \in Seq(ActType) /\ ToSet(a \o b) = S \cup T
  BY <1>1, ConcatAt, ConcatSet DEF Piece
<1>3. Precedes(a, b)
  BY DEF Precedes, Piece
<1>4. InOrder(a \o b)
  BY <1>1, <1>3, ConcatInOrder DEF Piece
<1>5. Adjacent(a \o b)
  BY <1>1, ConcatAdjacent DEF Piece
<1>6. ASSUME NEW i \in DOMAIN (a \o b) PROVE (a \o b)[i].visit = v /\ Rank((a \o b)[i]) \in lo .. hi
  <2>1. (a \o b)[i] \in ToSet(a) \cup ToSet(b)
    BY <1>1, <1>6, ConcatSet DEF ToSet
  <2>2. \A x \in ToSet(a) : x.visit = v /\ Rank(x) \in lo .. hi
    BY DEF Piece, ToSet
  <2>3. \A x \in ToSet(b) : x.visit = v /\ Rank(x) \in lo .. hi
    BY DEF Piece, ToSet
  <2>4. QED
    BY <2>1, <2>2, <2>3
<1>7. QED
  BY <1>2, <1>4, <1>5, <1>6 DEF Piece

\* A visit and its lock blocks have their types.
LEMMA VisitTyped ==
  ASSUME IsConfig, NEW v, IsVisit(v)
  PROVE  /\ v \in Visits /\ LeftLock(v) \in Locks /\ RightLock(v) \in Locks
         /\ LeftLock(v) \in Nat /\ RightLock(v) \in Nat
<1>1. NumBlocks(v.batch) \in Int
  BY BatchFacts DEF IsVisit
<1>2. v.batch \in Batches /\ v.block \in Nat /\ v = [batch |-> v.batch, block |-> v.block]
  BY <1>1 DEF IsVisit
<1>3. QED
  BY <1>2, VisitGeometry DEF Visits

\* So has an action.
LEMMA ActTyped ==
  ASSUME NEW v \in Visits, NEW op \in Ops, NEW w \in Locks \cup {0, "left", "right"}
  PROVE  /\ Act(op, v, w) \in ActType
         /\ Act(op, v, w).op = op /\ Act(op, v, w).visit = v /\ Act(op, v, w).where = w
BY DEF Act, ActType

\* A single action is a piece.
LEMMA OnePiece ==
  ASSUME NEW v, NEW a \in ActType, a.visit = v, NEW lo, NEW hi, Rank(a) \in lo .. hi,
         a.op \notin {"add", "reset", "publish"}, a.op = "store" => Path # "fwd"
  PROVE  Piece(<<a>>, v, lo, hi, {a})
<1>1. <<a>> \in Seq(ActType) /\ DOMAIN <<a>> = {1} /\ <<a>>[1] = a
  OBVIOUS
<1>2. ToSet(<<a>>) = {a}
  BY <1>1 DEF ToSet
<1>3. InOrder(<<a>>)
  BY <1>1 DEF InOrder
<1>4. Adjacent(<<a>>)
  BY <1>1 DEF Adjacent
<1>5. QED
  BY <1>1, <1>2, <1>3, <1>4 DEF Piece

\* Awaiting or locking the lock blocks of a visit is a piece.
LEMMA EachPiece ==
  ASSUME IsConfig, NEW v, IsVisit(v), NEW op \in {"await", "lock"}
  PROVE  /\ op = "await" => Piece(ActEach(op, v, LockBlocks(v)), v, 1, 2, BlockActs(op, v))
         /\ op = "lock" => Piece(ActEach(op, v, LockBlocks(v)), v, 3, 4, BlockActs(op, v))
<1> DEFINE lo == IF op = "await" THEN 1 ELSE 3
           L == LeftLock(v)
           R == RightLock(v)
           a == Act(op, v, L)
           b == Act(op, v, R)
<1>1. v \in Visits /\ L \in Locks /\ R \in Locks /\ op \in Ops
  BY VisitTyped DEF Ops
<1>2. a \in ActType /\ b \in ActType
  BY <1>1, ActTyped
<1>3. a.op = op /\ a.visit = v /\ a.where = L /\ b.op = op /\ b.visit = v /\ b.where = R
  BY DEF Act
<1>4. Rank(a) \in lo .. lo /\ Rank(b) \in lo .. lo + 1 /\ (L # R => Rank(b) \in lo + 1 .. lo + 1)
  BY <1>3 DEF Rank
<1>5. Piece(<<a>>, v, lo, lo, {a})
  BY <1>2, <1>3, <1>4, OnePiece
<1>6. ASSUME L = R PROVE Piece(ActEach(op, v, LockBlocks(v)), v, lo, lo + 1, BlockActs(op, v))
  <2>1. ActEach(op, v, LockBlocks(v)) = <<a>>
    BY <1>6 DEF ActEach, LockBlocks
  <2>2. {Act(op, v, l) : l \in {L, R}} = {a}
    BY <1>6
  <2>3. Rank(a) \in lo .. lo + 1
    BY <1>4
  <2>4. Piece(<<a>>, v, lo, lo + 1, {a})
    BY <1>2, <1>3, <2>3, OnePiece
  <2>5. QED
    BY <2>1, <2>2, <2>4 DEF BlockActs
<1>7. ASSUME L # R PROVE Piece(ActEach(op, v, LockBlocks(v)), v, lo, lo + 1, BlockActs(op, v))
  <2>1. Piece(<<b>>, v, lo + 1, lo + 1, {b})
    BY <1>2, <1>3, <1>4, <1>7, OnePiece
  <2>2. ActEach(op, v, LockBlocks(v)) = <<a>> \o <<b>>
    BY <1>7 DEF ActEach, LockBlocks
  <2>3. {Act(op, v, l) : l \in {L, R}} = {a} \cup {b}
    OBVIOUS
  <2>4. lo \in Int /\ lo + 1 \in Int /\ lo < lo + 1
    OBVIOUS
  <2> HIDE DEF a, b, lo
  <2>5. Piece(<<a>> \o <<b>>, v, lo, lo + 1, {a} \cup {b})
    BY <1>5, <2>1, <2>4, ConcatPiece
  <2>6. QED
    BY <2>2, <2>3, <2>5 DEF a, b, lo, BlockActs
<1>8. Piece(ActEach(op, v, LockBlocks(v)), v, lo, lo + 1, BlockActs(op, v))
  BY <1>6, <1>7
<1>9. QED
  BY <1>8

\* So is giving their mutexes back, from right to left.
LEMMA UnlockPiece ==
  ASSUME IsConfig, NEW v, IsVisit(v)
  PROVE  Piece(ActEach("unlock", v, Reverse(LockBlocks(v))), v, 13, 14, BlockActs("unlock", v))
<1> DEFINE L == LeftLock(v)
           R == RightLock(v)
           a == Act("unlock", v, L)
           b == Act("unlock", v, R)
<1>1. v \in Visits /\ L \in Locks /\ R \in Locks /\ "unlock" \in Ops
  BY VisitTyped DEF Ops
<1>2. a \in ActType /\ b \in ActType
  BY <1>1, ActTyped
<1>3. a.op = "unlock" /\ a.visit = v /\ a.where = L /\ b.op = "unlock" /\ b.visit = v /\ b.where = R
  BY DEF Act
<1>4. Rank(b) \in 13 .. 13 /\ Rank(b) \in 13 .. 14 /\ (L # R => Rank(a) \in 14 .. 14)
  BY <1>3 DEF Rank
<1>5. Piece(<<b>>, v, 13, 13, {b})
  BY <1>2, <1>3, <1>4, OnePiece
<1>6. CASE L = R
  <2>1. ActEach("unlock", v, Reverse(LockBlocks(v))) = <<b>>
    BY <1>6 DEF ActEach, LockBlocks, Reverse
  <2>2. {Act("unlock", v, l) : l \in {L, R}} = {b}
    BY <1>6
  <2>4. Piece(<<b>>, v, 13, 14, {b})
    BY <1>2, <1>3, <1>4, OnePiece
  <2>5. QED
    BY <2>1, <2>2, <2>4 DEF BlockActs
<1>7. CASE L # R
  <2>1. Piece(<<a>>, v, 14, 14, {a})
    BY <1>2, <1>3, <1>4, <1>7, OnePiece
  <2>2. ActEach("unlock", v, Reverse(LockBlocks(v))) = <<b>> \o <<a>>
    <3>1. Reverse(<<L, R>>) = <<R, L>>
      BY DEF Reverse
    <3>2. QED
      BY <1>7, <3>1 DEF ActEach, LockBlocks
  <2>3. {Act("unlock", v, l) : l \in {L, R}} = {b} \cup {a}
    OBVIOUS
  <2> HIDE DEF a, b
  <2>5. Piece(<<b>> \o <<a>>, v, 13, 14, {b} \cup {a})
    BY <1>5, <2>1, ConcatPiece
  <2>6. QED
    BY <2>2, <2>3, <2>5 DEF a, b, BlockActs
<1>8. QED
  BY <1>6, <1>7

\* So is arriving at one side.
LEMMA ArrivePiece ==
  ASSUME IsConfig, NEW v, IsVisit(v), NEW side \in {"left", "right"}
  PROVE  /\ side = "right" => Piece(Arrive(v, side), v, 7, 9, SideActs(v, side))
         /\ side = "left" => Piece(Arrive(v, side), v, 10, 12, SideActs(v, side))
<1> DEFINE lo == IF side = "right" THEN 7 ELSE 10
           a == Act("add", v, side)
           b == Act("reset", v, side)
           c == Act("publish", v, side)
           e == Arrive(v, side)
<1>1. v \in Visits
  BY VisitTyped
<1>2. a \in ActType /\ b \in ActType /\ c \in ActType
  BY <1>1, ActTyped DEF Ops
<1>3. /\ a.op = "add" /\ a.visit = v /\ a.where = side
      /\ b.op = "reset" /\ b.visit = v /\ b.where = side
      /\ c.op = "publish" /\ c.visit = v /\ c.where = side
  BY DEF Act
<1>4. Rank(a) = lo /\ Rank(b) = lo + 1 /\ Rank(c) = lo + 2
  BY <1>3 DEF Rank, SideRank
<1>5. e = <<a, b, c>> /\ DOMAIN e = {1, 2, 3} /\ e[1] = a /\ e[2] = b /\ e[3] = c
  BY DEF Arrive
<1>6. e \in Seq(ActType) /\ ToSet(e) = {a, b, c}
  BY <1>2, <1>5 DEF ToSet
<1>7. {Act(op, v, side) : op \in {"add", "reset", "publish"}} = {a, b, c}
  OBVIOUS
<1>8. lo \in Int
  OBVIOUS
<1> HIDE DEF a, b, c, e, lo
<1>9. InOrder(e)
  BY <1>4, <1>5, <1>8 DEF InOrder
<1>10. Adjacent(e)
  BY <1>3, <1>5 DEF Adjacent, a, b, c
<1>11. \A i \in DOMAIN e : e[i].visit = v /\ Rank(e[i]) \in lo .. lo + 2
  BY <1>3, <1>4, <1>5, <1>8
<1>12. Piece(e, v, lo, lo + 2, {a, b, c})
  BY <1>6, <1>9, <1>10, <1>11 DEF Piece
<1>13. Piece(Arrive(v, side), v, lo, lo + 2, SideActs(v, side))
  BY <1>7, <1>12 DEF e, SideActs
<1>14. QED
  BY <1>13 DEF lo

\* So is loading and storing.
LEMMA LoadPiece ==
  ASSUME IsConfig, NEW v, IsVisit(v)
  PROVE  Piece(<<Act("load", v, 0), Act("store", v, 0)>>, v, 5, 6, {Act("load", v, 0), Act("store", v, 0)})
<1> DEFINE a == Act("load", v, 0)
           b == Act("store", v, 0)
           e == <<a, b>>
<1>1. v \in Visits
  BY VisitTyped
<1>2. a \in ActType /\ b \in ActType
  BY <1>1, ActTyped DEF Ops
<1>3. a.op = "load" /\ a.visit = v /\ b.op = "store" /\ b.visit = v
  BY DEF Act
<1>4. Rank(a) = 5 /\ Rank(b) = 6
  BY <1>3 DEF Rank
<1>5. DOMAIN e = {1, 2} /\ e[1] = a /\ e[2] = b
  OBVIOUS
<1>6. e \in Seq(ActType) /\ ToSet(e) = {a, b}
  BY <1>2, <1>5 DEF ToSet
<1> HIDE DEF a, b, e
<1>9. InOrder(e)
  BY <1>4, <1>5 DEF InOrder
<1>10. Adjacent(e)
  BY <1>3, <1>5 DEF Adjacent, a, b
<1>11. \A i \in DOMAIN e : e[i].visit = v /\ Rank(e[i]) \in 5 .. 6
  BY <1>3, <1>4, <1>5
<1>12. QED
  BY <1>6, <1>9, <1>10, <1>11 DEF Piece, a, b, e

-------------------------------------------------------------------------------
(* The concatenation of visits.                                              *)

\* The visits of a tile are blocks of batches.
LEMMA VisitOfIsVisit ==
  ASSUME IsConfig, NEW t \in Tiles, NEW v, IsVisitOf(t, v)
  PROVE  IsVisit(v) /\ v.batch \in Batches
<1>1. t.group \in Groups
  BY TileFacts
<1>2. QED
  BY <1>1, GroupFacts DEF IsVisit, IsVisitOf

\* The epilogue of one visit has just the actions of the visit, in order.
LEMMA VisitPiece ==
  ASSUME IsConfig, NEW t, NEW v, IsVisit(v)
  PROVE  Piece(VisitActs(t, v), v, 1, 14, ActsOf(t, v))
<1> DEFINE hasData == HasData(v.batch, v.block, StepOf(t))
           A == IF config.deterministic THEN AwaitActs(v) ELSE {}
           B == IF config.deterministic THEN ArriveActs(v) ELSE {}
           S == IF hasData THEN (IF Path = "fwd" THEN BlockActs("lock", v) \cup {Act("load", v, 0), Act("store", v, 0)}
                                 ELSE {Act("store", v, 0)})
                ELSE {}
           U == IF hasData /\ Path = "fwd" THEN BlockActs("unlock", v) ELSE {}
           awaits == IF config.deterministic THEN ActEach("await", v, LockBlocks(v)) ELSE <<>>
           stores == IF hasData THEN StoreActs(v) ELSE <<>>
           arrives == IF config.deterministic THEN Arrive(v, "right") \o Arrive(v, "left") ELSE <<>>
           unlocks == IF hasData /\ Path = "fwd" THEN ActEach("unlock", v, Reverse(MutexBlocks(v))) ELSE <<>>
<1>1. Piece(awaits, v, 1, 2, A)
  <2>1. Piece(ActEach("await", v, LockBlocks(v)), v, 1, 2, AwaitActs(v))
    BY EachPiece DEF AwaitActs, BlockActs
  <2>2. Piece(<<>>, v, 1, 2, {})
    BY EmptyPiece
  <2>3. QED
    BY <2>1, <2>2
<1>2. Piece(stores, v, 3, 6, S)
  <2>1. Piece(<<>>, v, 3, 6, {})
    BY EmptyPiece
  <2>2. Path # "fwd" => Piece(<<Act("store", v, 0)>>, v, 3, 6, {Act("store", v, 0)})
    <3>1. v \in Visits
      BY VisitTyped
    <3>2. Act("store", v, 0) \in ActType
      BY <3>1, ActTyped DEF Ops
    <3>3. Act("store", v, 0).op = "store" /\ Act("store", v, 0).visit = v
      BY DEF Act
    <3>4. Rank(Act("store", v, 0)) \in 3 .. 6
      BY <3>3 DEF Rank
    <3>5. QED
      BY <3>2, <3>3, <3>4, OnePiece
  <2>3. Piece(ActEach("lock", v, LockBlocks(v)), v, 3, 4, BlockActs("lock", v))
    BY EachPiece
  <2>4. Piece(<<Act("load", v, 0), Act("store", v, 0)>>, v, 5, 6, {Act("load", v, 0), Act("store", v, 0)})
    BY LoadPiece
  <2>5. Piece(ActEach("lock", v, LockBlocks(v)) \o <<Act("load", v, 0), Act("store", v, 0)>>, v, 3, 6,
              BlockActs("lock", v) \cup {Act("load", v, 0), Act("store", v, 0)})
    BY <2>3, <2>4, ConcatPiece
  <2>6. QED
    BY <2>1, <2>2, <2>5 DEF StoreActs, MutexBlocks
<1>3. Piece(arrives, v, 7, 12, B)
  <2>1. Piece(<<>>, v, 7, 12, {})
    BY EmptyPiece
  <2>2. Piece(Arrive(v, "right"), v, 7, 9, SideActs(v, "right"))
    BY ArrivePiece
  <2>3. Piece(Arrive(v, "left"), v, 10, 12, SideActs(v, "left"))
    BY ArrivePiece
  <2>4. Piece(Arrive(v, "right") \o Arrive(v, "left"), v, 7, 12,
              SideActs(v, "right") \cup SideActs(v, "left"))
    BY <2>2, <2>3, ConcatPiece
  <2>5. ArriveActs(v) = SideActs(v, "right") \cup SideActs(v, "left")
    BY DEF ArriveActs, SideActs
  <2>6. QED
    BY <2>1, <2>4, <2>5
<1>4. Piece(unlocks, v, 13, 14, U)
  <2>1. Piece(<<>>, v, 13, 14, {})
    BY EmptyPiece
  <2>2. Piece(ActEach("unlock", v, Reverse(LockBlocks(v))), v, 13, 14, BlockActs("unlock", v))
    BY UnlockPiece
  <2>3. QED
    BY <2>1, <2>2 DEF MutexBlocks
<1>5. VisitActs(t, v) = ((awaits \o stores) \o arrives) \o unlocks
  BY DEF VisitActs
<1>6. ActsOf(t, v) = ((A \cup S) \cup B) \cup U
  <2>1. MutexActs(v) = BlockActs("lock", v) \cup BlockActs("unlock", v)
    BY DEF MutexActs, BlockActs
  <2>2. QED
    BY <2>1 DEF ActsOf
<1> HIDE DEF A, B, S, U, awaits, stores, arrives, unlocks
<1>7. Piece(awaits \o stores, v, 1, 6, A \cup S)
  BY <1>1, <1>2, ConcatPiece
<1>8. Piece((awaits \o stores) \o arrives, v, 1, 12, (A \cup S) \cup B)
  BY <1>3, <1>7, ConcatPiece
<1>9. Piece(((awaits \o stores) \o arrives) \o unlocks, v, 1, 14, ((A \cup S) \cup B) \cup U)
  BY <1>4, <1>8, ConcatPiece
<1>10. QED
  BY <1>5, <1>6, <1>9

\* Part of the epilogue of tile t that makes the visits V.
Stretch(t, e, V, entered) ==
  /\ e \in Seq(ActType)
  /\ \A a \in ToSet(e) : /\ a.visit \in V
                         /\ a \in ActsOf(t, a.visit) \/ (entered /\ Path = "dq" /\ a = Act("enter", a.visit, 0))
  /\ \A v \in V : ActsOf(t, v) \subseteq ToSet(e)
  /\ InOrder(e) /\ Adjacent(e) /\ (entered => EnteredFirst(e))

\* Nothing is a stretch.
LEMMA EmptyStretch ==
  ASSUME NEW t, NEW entered
  PROVE  Stretch(t, <<>>, {}, entered)
BY DEF Stretch, ToSet, InOrder, Adjacent, EnteredFirst

\* Stretches of different visits make a stretch.
LEMMA ConcatStretch ==
  ASSUME NEW t, NEW a, NEW b, NEW V, NEW W, NEW entered,
         Stretch(t, a, V, entered), Stretch(t, b, W, entered), V \cap W = {}
  PROVE  Stretch(t, a \o b, V \cup W, entered)
<1>1. a \in Seq(ActType) /\ b \in Seq(ActType)
  BY DEF Stretch
<1>2. a \o b \in Seq(ActType) /\ ToSet(a \o b) = ToSet(a) \cup ToSet(b)
  BY <1>1, ConcatAt, ConcatSet
<1>3. Precedes(a, b)
  BY DEF Precedes, Stretch, ToSet
<1>4. InOrder(a \o b)
  BY <1>1, <1>3, ConcatInOrder DEF Stretch
<1>5. Adjacent(a \o b)
  BY <1>1, ConcatAdjacent DEF Stretch
<1>6. entered => EnteredFirst(a \o b)
  BY <1>1, ConcatEntered DEF Stretch
<1>7. QED
  BY <1>2, <1>4, <1>5, <1>6 DEF Stretch

\* What a tile does in a visit is a stretch.
LEMMA VisitStretch ==
  ASSUME IsConfig, NEW t, NEW v, IsVisit(v)
  PROVE  Stretch(t, VisitActs(t, v), {v}, FALSE)
<1>1. Piece(VisitActs(t, v), v, 1, 14, ActsOf(t, v))
  BY VisitPiece
<1>2. QED
  BY <1>1 DEF Piece, Stretch, ToSet

\* The concatenation of the community module appends one part after the other.
FlattenBody(seqs, g) == [i \in 1 .. Len(seqs) |-> IF i = 1 THEN seqs[i] ELSE g[i - 1] \o seqs[i]]

\* FlattenSeq is the function its definition chooses.
LEMMA FlattenUnfolds ==
  ASSUME NEW seqs, Len(seqs) # 0
  PROVE  FlattenSeq(seqs) = (CHOOSE g : g = FlattenBody(seqs, g))[Len(seqs)]
BY DEF FlattenSeq, FlattenBody

\* Such a function exists, built part by part.
LEMMA FlattenExists ==
  ASSUME NEW n \in Nat \ {0}, NEW seqs, Len(seqs) = n
  PROVE  \E g : g = FlattenBody(seqs, g)
<1> DEFINE body(i, g) == [j \in 1 .. i |-> IF j = 1 THEN seqs[j] ELSE g[j - 1] \o seqs[j]]
           wrong == {i \in 1 .. n : ~ \E g : g = body(i, g)}
<1>1. wrong \in SUBSET (1 .. n) /\ \A i \in 1 .. n : i \in wrong <=> ~ \E g : g = body(i, g)
  OBVIOUS
<1> SUFFICES wrong = {}
  <2>1. n \in 1 .. n
    OBVIOUS
  <2> HIDE DEF wrong
  <2>2. PICK g : g = body(n, g)
    BY <1>1, <2>1
  <2>3. QED
    BY <2>2 DEF FlattenBody
<1> SUFFICES ASSUME wrong # {} PROVE FALSE
  OBVIOUS
<1>2. PICK i \in wrong : \A j \in wrong : i <= j
  <2> HIDE DEF wrong
  <2>1. QED
    BY <1>1, LeastElement
<1>3. i \in 1 .. n /\ ~ \E g : g = body(i, g)
  BY <1>1
<1> HIDE DEF wrong
<1>4. CASE i = 1
  <2> DEFINE h == [j \in 1 .. 1 |-> seqs[j]]
  <2>1. h = body(1, h)
    OBVIOUS
  <2>2. QED
    BY <1>3, <1>4, <2>1
<1>5. CASE i # 1
  <2>1. i - 1 \in 1 .. n /\ i - 1 \notin wrong
    BY <1>2, <1>3, <1>5
  <2>2. PICK g : g = body(i - 1, g)
    BY <1>1, <2>1
  <2> DEFINE h == [j \in 1 .. i |-> IF j = i THEN g[i - 1] \o seqs[i] ELSE g[j]]
  <2>3. \A j \in 1 .. i - 1 : h[j] = g[j] /\ g[j] = IF j = 1 THEN seqs[j] ELSE g[j - 1] \o seqs[j]
    <3>1. \A j \in 1 .. i - 1 : g[j] = body(i - 1, g)[j]
      BY <2>2
    <3>2. \A j \in 1 .. i - 1 : body(i - 1, g)[j] = IF j = 1 THEN seqs[j] ELSE g[j - 1] \o seqs[j]
      OBVIOUS
    <3>3. \A j \in 1 .. i - 1 : j \in 1 .. i /\ j # i
      BY <1>3
    <3>4. QED
      BY <3>1, <3>2, <3>3
  <2>4. \A j \in 1 .. i : j # i => j \in 1 .. i - 1 /\ (j # 1 => j - 1 \in 1 .. i - 1)
    BY <1>3
  <2>5. i - 1 \in 1 .. i - 1
    BY <1>3, <1>5
  <2>6. \A j \in 1 .. i : h[j] = IF j = 1 THEN seqs[j] ELSE h[j - 1] \o seqs[j]
    <3> SUFFICES ASSUME NEW j \in 1 .. i
                 PROVE  h[j] = IF j = 1 THEN seqs[j] ELSE h[j - 1] \o seqs[j]
      OBVIOUS
    <3>1. CASE j = i
      BY <1>5, <2>3, <2>5, <3>1
    <3>2. CASE j # i
      <4> HIDE DEF h
      <4>1. QED
        BY <2>3, <2>4, <3>2
    <3>3. QED
      BY <3>1, <3>2
  <2>7. h = body(i, h)
    BY <2>6
  <2>8. QED
    BY <1>3, <2>7
<1>6. QED
  BY <1>4, <1>5

\* The visits of the first i parts.
VisitsTo(VS, i) == UNION {VS[j] : j \in 1 .. i}
Stretches(t, seqs, VS, entered) ==
  /\ \A i \in DOMAIN seqs : Stretch(t, seqs[i], VS[i], entered)
  /\ \A i, j \in DOMAIN seqs : i # j => VS[i] \cap VS[j] = {}

\* The concatenation of stretches of different visits is a stretch.
LEMMA FlattenStretch ==
  ASSUME NEW t, NEW n \in Nat, NEW seqs, NEW VS, NEW entered,
         DOMAIN seqs = 1 .. n, Len(seqs) = n, n = 0 => seqs = <<>>,
         Stretches(t, seqs, VS, entered)
  PROVE  Stretch(t, FlattenSeq(seqs), VisitsTo(VS, n), entered)
<1>1. CASE n = 0
  <2>1. FlattenSeq(seqs) = <<>>
    BY <1>1 DEF FlattenSeq
  <2>2. VisitsTo(VS, n) = {}
    BY <1>1 DEF VisitsTo
  <2>3. QED
    BY <2>1, <2>2, EmptyStretch
<1>2. CASE n # 0
  <2> DEFINE g == CHOOSE h : h = FlattenBody(seqs, h)
             wrong == {i \in 1 .. n : ~Stretch(t, g[i], VisitsTo(VS, i), entered)}
  <2>1. FlattenSeq(seqs) = g[n]
    BY <1>2, FlattenUnfolds
  <2>2. g = FlattenBody(seqs, g)
    <3>1. \E h : h = FlattenBody(seqs, h)
      BY <1>2, FlattenExists
    <3>2. QED
      BY <3>1
  <2>3. \A i \in 1 .. n : g[i] = IF i = 1 THEN seqs[i] ELSE g[i - 1] \o seqs[i]
    <3> HIDE DEF g
    <3>1. \A i \in 1 .. n : FlattenBody(seqs, g)[i] = IF i = 1 THEN seqs[i] ELSE g[i - 1] \o seqs[i]
      BY DEF FlattenBody
    <3>2. QED
      BY <2>2, <3>1
  <2>4. wrong \in SUBSET (1 .. n) /\ \A i \in 1 .. n : i \in wrong <=> ~Stretch(t, g[i], VisitsTo(VS, i), entered)
    OBVIOUS
  <2> HIDE DEF wrong, g
  <2>5. ASSUME wrong # {} PROVE FALSE
    <3>1. PICK i \in wrong : \A j \in wrong : i <= j
      BY <2>4, <2>5, LeastElement
    <3>2. i \in 1 .. n /\ ~Stretch(t, g[i], VisitsTo(VS, i), entered)
      BY <2>4
    <3>3. Stretch(t, seqs[i], VS[i], entered)
      BY <3>2 DEF Stretches
    <3>4. CASE i = 1
      <4>1. VisitsTo(VS, 1) = VS[1]
        BY DEF VisitsTo
      <4>2. QED
        BY <2>3, <3>2, <3>3, <3>4, <4>1
    <3>5. CASE i # 1
      <4>1. i - 1 \in 1 .. n /\ i - 1 \notin wrong
        BY <3>1, <3>2, <3>5
      <4>2. Stretch(t, g[i - 1], VisitsTo(VS, i - 1), entered)
        BY <2>4, <4>1
      <4>3. 1 .. i = (1 .. i - 1) \cup {i} /\ \A j \in 1 .. i - 1 : j \in 1 .. n /\ j # i
        BY <3>2
      <4>4. VisitsTo(VS, i) = VisitsTo(VS, i - 1) \cup VS[i]
        BY <4>3 DEF VisitsTo
      <4>5. \A j \in 1 .. i - 1 : VS[j] \cap VS[i] = {}
        BY <3>2, <4>3 DEF Stretches
      <4>6. VisitsTo(VS, i - 1) \cap VS[i] = {}
        BY <4>5 DEF VisitsTo
      <4>7. Stretch(t, g[i - 1] \o seqs[i], VisitsTo(VS, i - 1) \cup VS[i], entered)
        BY <3>3, <4>2, <4>6, ConcatStretch
      <4>8. QED
        BY <2>3, <3>2, <3>5, <4>4, <4>7
    <3>6. QED
      BY <3>4, <3>5
  <2>6. n \in 1 .. n
    BY <1>2
  <2>7. QED
    BY <2>1, <2>4, <2>5, <2>6
<1>3. QED
  BY <1>1, <1>2

-------------------------------------------------------------------------------
(* The blocks of a batch.                                                    *)

\* A finite set of integers that has a member has a least one.
LEMMA SmallestElement ==
  ASSUME NEW S, IsIntSet(S)
  PROVE  Min(S) \in S /\ \A y \in S : Min(S) <= y
<1> DEFINE below(x) == {y \in S : y < x}
           W == {below(x) : x \in S}
<1>1. IsFiniteSet(S) /\ W \in SUBSET (SUBSET S) /\ W # {}
  BY DEF IsIntSet
<1>2. PICK T \in W : \A U \in W : U \subseteq T => U = T
  <2> HIDE DEF W
  <2>1. QED
    BY <1>1, LeastSubset
<1>3. PICK x \in S : T = below(x)
  BY <1>2
<1>4. ASSUME NEW y \in S, y < x PROVE FALSE
  <2>0. S \subseteq Int
    BY DEF IsIntSet
  <2>1. y \in below(x) /\ y \notin below(y)
    BY <2>0, <1>4
  <2>2. below(y) \subseteq below(x)
    <3>1. \A z \in S : z < y => z < x
      BY <2>0, <1>4
    <3>2. QED
      BY <3>1, Zenon
  <2>3. below(y) \in W
    OBVIOUS
  <2>4. QED
    BY <1>2, <1>3, <2>1, <2>2, <2>3
<1>5. \A y \in S : x <= y
  BY <1>4 DEF IsIntSet
<1>6. \E m \in S : \A y \in S : m <= y
  BY <1>5
<1>7. Min(S) \in S /\ \A y \in S : Min(S) <= y
  BY <1>6 DEF Min
<1>8. QED
  BY <1>7

\* A sequence that goes through from .. to - 1 once.
Once(s, from, to) ==
  /\ s \in Seq(Int) /\ ToSet(s) = from .. to - 1
  /\ \A i, j \in DOMAIN s : s[i] = s[j] => i = j

\* Two adjoining passes make a pass.
LEMMA OnceConcat ==
  ASSUME NEW a, NEW b, NEW from \in Int, NEW mid \in Int, NEW to \in Int, from <= mid, mid <= to,
         Once(a, from, mid), Once(b, mid, to)
  PROVE  Once(a \o b, from, to)
<1> DEFINE c == a \o b
           m == Len(a)
           n == Len(b)
<1>0. a \in Seq(Int) /\ b \in Seq(Int)
  BY DEF Once
<1>1. /\ c \in Seq(Int) /\ ToSet(c) = ToSet(a) \cup ToSet(b)
      /\ m \in Nat /\ n \in Nat /\ DOMAIN a = 1 .. m /\ DOMAIN b = 1 .. n /\ DOMAIN c = 1 .. m + n
      /\ \A p \in 1 .. m : c[p] = a[p]
      /\ \A p \in 1 .. n : c[m + p] = b[p]
  BY <1>0, ConcatAt, ConcatSet
<1>2. /\ \A i \in 1 .. m : a[i] < mid /\ a[i] \in Int
      /\ \A i \in 1 .. n : b[i] >= mid /\ b[i] \in Int
      /\ \A i, j \in 1 .. m : a[i] = a[j] => i = j
      /\ \A i, j \in 1 .. n : b[i] = b[j] => i = j
  <2>1. \A x \in ToSet(a) : x < mid /\ x \in Int
    BY DEF Once
  <2>2. \A x \in ToSet(b) : x >= mid /\ x \in Int
    BY DEF Once
  <2>3. (\A i \in 1 .. m : a[i] \in ToSet(a)) /\ (\A i \in 1 .. n : b[i] \in ToSet(b))
    BY <1>1 DEF ToSet
  <2>4. (\A i, j \in 1 .. m : a[i] = a[j] => i = j) /\ (\A i, j \in 1 .. n : b[i] = b[j] => i = j)
    BY <1>1 DEF Once
  <2>5. QED
    BY <2>1, <2>2, <2>3, <2>4
<1>3. ToSet(c) = from .. to - 1
  BY <1>1 DEF Once
<1> HIDE DEF c, m, n
<1>4. ASSUME NEW i \in 1 .. m + n
      PROVE  \/ i \in 1 .. m /\ c[i] = a[i]
             \/ i - m \in 1 .. n /\ i = m + (i - m) /\ c[i] = b[i - m]
  <2>1. CASE i \in 1 .. m
    BY <1>1, <2>1
  <2>2. CASE i \notin 1 .. m
    <3>1. i - m \in 1 .. n /\ m + (i - m) = i
      BY <1>1, <2>2
    <3>2. QED
      BY <1>1, <3>1
  <2>3. QED
    BY <2>1, <2>2
<1>5. ASSUME NEW i \in 1 .. m + n, NEW j \in 1 .. m + n, c[i] = c[j] PROVE i = j
  <2>1. CASE i \in 1 .. m /\ c[i] = a[i]
    <3>1. ~(j - m \in 1 .. n /\ c[j] = b[j - m])
      BY <1>2, <1>5, <2>1
    <3>2. j \in 1 .. m /\ c[j] = a[j]
      BY <1>4, <3>1
    <3>3. QED
      BY <1>2, <1>5, <2>1, <3>2
  <2>2. CASE i - m \in 1 .. n /\ i = m + (i - m) /\ c[i] = b[i - m]
    <3>1. ~(j \in 1 .. m /\ c[j] = a[j])
      BY <1>2, <1>5, <2>2
    <3>2. j - m \in 1 .. n /\ j = m + (j - m) /\ c[j] = b[j - m]
      BY <1>4, <3>1
    <3>3. i - m = j - m
      BY <1>2, <1>5, <2>2, <3>2
    <3>4. QED
      BY <2>2, <3>2, <3>3
  <2>3. QED
    BY <1>4, <2>1, <2>2
<1>6. QED
  BY <1>1, <1>3, <1>5 DEF Once, c

Pass(from, to) == [i \in 1 .. to - from |-> from + i - 1]

\* Going up or down through an interval meets each of its numbers once.
LEMMA PassOnce ==
  ASSUME NEW from \in Int, NEW to \in Int, from <= to
  PROVE  Once(Pass(from, to), from, to) /\ Once(Reverse(Pass(from, to)), from, to)
<1> DEFINE n == to - from
           s == Pass(from, to)
           r == Reverse(s)
<1>1. n \in Nat /\ s \in Seq(Int) /\ Len(s) = n /\ DOMAIN s = 1 .. n /\ \A i \in 1 .. n : s[i] = from + i - 1
  BY DEF Pass
<1>2. r = [i \in 1 .. n |-> s[(n - i) + 1]]
  BY <1>1 DEF Reverse
<1>3. \A i \in 1 .. n : (n - i) + 1 \in 1 .. n
  BY <1>1
<1>4. r \in Seq(Int) /\ DOMAIN r = 1 .. n /\ \A i \in 1 .. n : r[i] = to - i
  <2>1. \A i \in 1 .. n : r[i] = s[(n - i) + 1]
    BY <1>2
  <2>2. \A i \in 1 .. n : s[(n - i) + 1] = to - i
    BY <1>1, <1>3
  <2>3. \A i \in 1 .. n : s[(n - i) + 1] \in Int
    BY <2>2
  <2>4. r \in Seq(Int) /\ DOMAIN r = 1 .. n
    BY <1>1, <1>2, <2>3
  <2>5. QED
    BY <2>1, <2>2, <2>4
<1>5. \A x \in from .. to - 1 : x - from + 1 \in 1 .. n /\ to - x \in 1 .. n
  OBVIOUS
<1> HIDE DEF s, r
<1>6. ToSet(s) = from .. to - 1
  <2>1. \A i \in 1 .. n : s[i] \in from .. to - 1
    BY <1>1
  <2>2. \A x \in from .. to - 1 : s[x - from + 1] = x
    BY <1>1, <1>5
  <2>3. QED
    BY <1>1, <1>5, <2>1, <2>2 DEF ToSet
<1>7. ToSet(r) = from .. to - 1
  <2>1. \A i \in 1 .. n : r[i] \in from .. to - 1
    BY <1>1, <1>4
  <2>2. \A x \in from .. to - 1 : r[to - x] = x
    BY <1>4, <1>5
  <2>3. QED
    BY <1>4, <1>5, <2>1, <2>2 DEF ToSet
<1>8. Once(s, from, to)
  BY <1>1, <1>6 DEF Once
<1>9. Once(r, from, to)
  BY <1>4, <1>7 DEF Once
<1>10. QED
  BY <1>8, <1>9 DEF s, r

\* store_dq goes through every block of the batch once, or through none.
LEMMA BlocksOnce ==
  ASSUME IsConfig, NEW b \in Batches, NEW k
  PROVE  /\ BlocksInOrder(b, k) # <<>> => Once(BlocksInOrder(b, k), 0, NumBlocks(b))
         /\ (\E m \in 0 .. NumBlocks(b) - 1 : HasData(b, m, k)) => Once(BlocksInOrder(b, k), 0, NumBlocks(b))
         /\ BlocksInOrder(b, k) \in Seq(Int)
<1> DEFINE n == NumBlocks(b)
           data == {m \in 0 .. n - 1 : HasData(b, m, k)}
           lo == Min(data)
           hi == Max(data)
           up == Pass(lo, hi + 1)
           mid == IF config.maxToMin THEN Reverse(up) ELSE up
<1>1. n \in Int
  BY BatchFacts
<1>2. CASE data = {}
  <2>1. BlocksInOrder(b, k) = <<>>
    BY <1>2 DEF BlocksInOrder
  <2>2. ~ \E m \in 0 .. NumBlocks(b) - 1 : HasData(b, m, k)
    BY <1>2
  <2>3. QED
    BY <2>1, <2>2
<1>3. CASE data # {}
  <2>1. IsFiniteSet(data)
    <3>1. IsFiniteSet(0 .. n - 1) /\ data \subseteq 0 .. n - 1
      BY <1>1, FS_Interval
    <3>2. QED
      BY <3>1, FS_Subset
  <2>2. IsIntSet(data)
    BY <1>1, <1>3, <2>1 DEF IsIntSet
  <2>3. data \subseteq 0 .. n - 1
    OBVIOUS
  <2>4. BlocksInOrder(b, k) = (Pass(0, lo) \o mid) \o Pass(hi + 1, n)
    BY <1>3 DEF BlocksInOrder, Pass
  <2> HIDE DEF data
  <2>5. lo \in data /\ hi \in data /\ \A y \in data : lo <= y
    BY <2>2, GreatestElement, SmallestElement
  <2> HIDE DEF lo, hi
  <2>6. lo \in Int /\ hi \in Int /\ 0 <= lo /\ lo <= hi + 1 /\ hi + 1 <= n /\ hi + 1 \in Int
    <3>1. lo \in 0 .. n - 1 /\ hi \in 0 .. n - 1 /\ lo <= hi
      BY <2>3, <2>5
    <3> HIDE DEF n
    <3>2. QED
      BY <1>1, <3>1
  <2>7. Once(mid, lo, hi + 1)
    BY <2>6, PassOnce
  <2>8. Once(Pass(0, lo), 0, lo) /\ Once(Pass(hi + 1, n), hi + 1, n)
    BY <1>1, <2>6, PassOnce
  <2> HIDE DEF mid, n
  <2>9. Once(Pass(0, lo) \o mid, 0, hi + 1)
    BY <2>6, <2>7, <2>8, OnceConcat
  <2>10. 0 <= hi + 1
    BY <2>6
  <2>11. Once((Pass(0, lo) \o mid) \o Pass(hi + 1, n), 0, n)
    BY <1>1, <2>6, <2>8, <2>9, <2>10, OnceConcat
  <2>12. QED
    BY <2>4, <2>11 DEF Once, n
<1>4. QED
  BY <1>2, <1>3

\* The visits of one batch.
BatchVisits(visits, b) ==
  /\ visits \in Seq(Visits)
  /\ \A i \in DOMAIN visits : IsVisit(visits[i]) /\ visits[i].batch = b
  /\ \A i, j \in DOMAIN visits : visits[i] = visits[j] => i = j

\* The ranks of the actions of a visit.
LEMMA RankPositive ==
  ASSUME NEW t, NEW v, NEW a \in ActsOf(t, v)
  PROVE  Rank(a) \in 1 .. 14 /\ a.op # "enter" /\ a.op \in Ops \ {"enter"} /\ a.visit = v
<1>1. /\ a.visit = v
      /\ \/ a.op \in {"await", "lock", "unlock", "load", "store"}
         \/ a.op \in {"add", "reset", "publish"} /\ a.where \in {"left", "right"}
  BY DEF ActsOf, AwaitActs, ArriveActs, MutexActs, Act
<1>2. QED
  BY <1>1 DEF Rank, SideRank, Ops

\* What a tile does in a batch is a stretch, once the batch is entered.
LEMMA BatchStretch ==
  ASSUME IsConfig, NEW t, NEW b, NEW visits, BatchVisits(visits, b)
  PROVE  Stretch(t, BatchActs(t, visits), ToSet(visits), TRUE)
<1> DEFINE n == Len(visits)
           seqs == [i \in DOMAIN visits |-> VisitActs(t, visits[i])]
           VS == [i \in 1 .. n |-> {visits[i]}]
           f == FlattenSeq(seqs)
           head == IF Path = "dq" /\ visits # <<>> THEN <<Act("enter", visits[1], 0)>> ELSE <<>>
<1>1. n \in Nat /\ DOMAIN visits = 1 .. n /\ (visits = <<>> <=> n = 0)
  BY DEF BatchVisits
<1>2. DOMAIN seqs = 1 .. n /\ Len(seqs) = n /\ (n = 0 => seqs = <<>>)
  BY <1>1
<1>3. Stretches(t, seqs, VS, FALSE)
  <2>1. \A i \in 1 .. n : Stretch(t, VisitActs(t, visits[i]), {visits[i]}, FALSE)
    BY <1>1, VisitStretch DEF BatchVisits
  <2>2. \A i, j \in 1 .. n : i # j => VS[i] \cap VS[j] = {}
    BY <1>1 DEF BatchVisits
  <2>3. \A i \in 1 .. n : seqs[i] = VisitActs(t, visits[i]) /\ VS[i] = {visits[i]}
    BY <1>1
  <2>4. DOMAIN seqs = 1 .. n
    BY <1>2
  <2> HIDE DEF seqs, VS, n
  <2>5. \A i \in DOMAIN seqs : Stretch(t, seqs[i], VS[i], FALSE)
    BY <2>1, <2>3, <2>4
  <2>6. QED
    BY <2>2, <2>4, <2>5 DEF Stretches
<1>4. VisitsTo(VS, n) = ToSet(visits)
  BY <1>1 DEF VisitsTo, ToSet
<1>5. BatchActs(t, visits) = head \o f
  BY DEF BatchActs
<1> HIDE DEF seqs, VS
<1>6. Stretch(t, f, ToSet(visits), FALSE)
  <2> HIDE DEF n
  <2>1. QED
    BY <1>1, <1>2, <1>3, <1>4, FlattenStretch
<1> HIDE DEF f
<1>7. f \in Seq(ActType)
  BY <1>6 DEF Stretch
<1>8. CASE head = <<>>
  <2>1. head \o f = f
    BY <1>7, <1>8
  <2>2. EnteredFirst(f)
    <3>1. CASE Path # "dq"
      BY <3>1 DEF EnteredFirst
    <3>2. CASE Path = "dq"
      <4>1. visits = <<>>
        BY <1>8, <3>2
      <4>2. ToSet(visits) = {}
        BY <4>1 DEF ToSet
      <4>3. f = <<>>
        <5>1. ToSet(f) = {}
          BY <1>6, <4>2 DEF Stretch
        <5>2. Len(f) \in Nat /\ DOMAIN f = 1 .. Len(f) /\ (Len(f) = 0 => f = <<>>)
          BY <1>7
        <5>3. DOMAIN f = {}
          BY <5>1 DEF ToSet
        <5>4. Len(f) # 0 => 1 \in 1 .. Len(f)
          BY <5>2
        <5>5. QED
          BY <5>2, <5>3, <5>4
      <4>4. QED
        BY <4>3 DEF EnteredFirst
    <3>3. QED
      BY <3>1, <3>2
  <2>3. QED
    BY <1>5, <1>6, <2>1, <2>2 DEF Stretch
<1>9. CASE head # <<>>
  <2> DEFINE v == visits[1]
             a == Act("enter", v, 0)
  <2>1. Path = "dq" /\ head = <<a>> /\ n # 0
    BY <1>1, <1>9
  <2>2. v \in ToSet(visits) /\ v.batch = b /\ IsVisit(v)
    BY <1>1, <2>1 DEF BatchVisits, ToSet
  <2>3. a \in ActType
    <3>1. v \in Visits
      BY <2>2, VisitTyped
    <3>2. QED
      BY <3>1, ActTyped DEF Ops
  <2>4. a.op = "enter" /\ a.visit = v
    BY DEF Act
  <2>5. Rank(a) = 0
    BY <2>4 DEF Rank
  <2>6. <<a>> \in Seq(ActType) /\ DOMAIN <<a>> = {1} /\ <<a>>[1] = a /\ ToSet(<<a>>) = {a}
    BY <2>3 DEF ToSet
  <2>7. \A x \in ToSet(f) : x.visit \in ToSet(visits) /\ x \in ActsOf(t, x.visit) /\ x.visit.batch = b
    BY <1>1, <1>6 DEF Stretch, BatchVisits, ToSet
  <2>8. \A x \in ToSet(f) : Rank(x) \in 1 .. 14
    BY <2>7, RankPositive
  <2>9. \A j \in DOMAIN f : f[j] \in ToSet(f)
    BY DEF ToSet
  <2> HIDE DEF a
  <2>10. /\ <<a>> \o f \in Seq(ActType) /\ ToSet(<<a>> \o f) = {a} \cup ToSet(f)
    <3>1. <<a>> \o f \in Seq(ActType)
      BY <1>7, <2>6, ConcatAt
    <3> DEFINE one == <<a>>
    <3>2. ToSet(one \o f) = ToSet(one) \cup ToSet(f)
      <4>1. one \in Seq(ActType)
        BY <2>6
      <4> HIDE DEF one
      <4>2. QED
        BY <1>7, <4>1, ConcatSet
    <3>3. QED
      BY <2>6, <3>1, <3>2
  <2>11. InOrder(<<a>> \o f)
    <3>1. InOrder(<<a>>)
      BY <2>6 DEF InOrder
    <3>2. Precedes(<<a>>, f)
      BY <2>5, <2>6, <2>8, <2>9 DEF Precedes
    <3>3. InOrder(f)
      BY <1>6 DEF Stretch
    <3>4. QED
      BY <1>7, <2>6, <3>1, <3>2, <3>3, ConcatInOrder
  <2>12. Adjacent(<<a>> \o f)
    <3>1. Adjacent(<<a>>)
      BY <2>4, <2>6 DEF Adjacent
    <3>2. Adjacent(f)
      BY <1>6 DEF Stretch
    <3>3. QED
      BY <1>7, <2>6, <3>1, <3>2, ConcatAdjacent
  <2>13. EnteredFirst(<<a>> \o f)
    <3> DEFINE c == <<a>> \o f
               m == Len(f)
    <3>1. /\ m \in Nat /\ DOMAIN c = 1 .. 1 + m /\ c[1] = a
          /\ \A p \in 1 .. m : c[1 + p] = f[p]
      <4>1. Len(<<a>>) = 1
        OBVIOUS
      <4>2. QED
        BY <1>7, <2>6, <4>1, ConcatAt
    <3>2. \A i \in 1 .. 1 + m : c[i] \in {a} \cup ToSet(f)
      BY <2>10, <3>1 DEF ToSet
    <3> HIDE DEF c, m
    <3>3. \A i \in 1 .. 1 + m : c[i].visit.batch = b
      BY <2>2, <2>4, <2>7, <3>2
    <3>4. ASSUME NEW i \in 1 .. 1 + m, c[i].op # "enter" PROVE i > 1 /\ c[i - 1].visit.batch = c[i].visit.batch
      <4>1. i # 1
        BY <2>4, <3>1, <3>4
      <4>2. i > 1 /\ i - 1 \in 1 .. 1 + m
        BY <3>1, <4>1
      <4>3. QED
        BY <3>3, <4>2
    <3>5. QED
      BY <3>1, <3>4 DEF EnteredFirst, c
  <2>14. \A x \in {a} \cup ToSet(f) : /\ x.visit \in ToSet(visits)
                                      /\ x \in ActsOf(t, x.visit) \/ (Path = "dq" /\ x = Act("enter", x.visit, 0))
    BY <2>1, <2>2, <2>4, <2>7 DEF a
  <2>15. \A w \in ToSet(visits) : ActsOf(t, w) \subseteq {a} \cup ToSet(f)
    BY <1>6 DEF Stretch
  <2>16. head \o f = <<a>> \o f
    BY <2>1 DEF a
  <2>17. Stretch(t, <<a>> \o f, ToSet(visits), TRUE)
    BY <2>10, <2>11, <2>12, <2>13, <2>14, <2>15 DEF Stretch
  <2>18. QED
    BY <1>5, <2>16, <2>17
<1>10. QED
  BY <1>8, <1>9

-------------------------------------------------------------------------------
(* The epilogues of all tiles.                                               *)

\* The epilogue of tile t makes the visits V.
TileVisits(t, V) ==
  /\ Stretch(t, TileActs(t), V, TRUE)
  /\ \A v \in V : IsVisitOf(t, v)
  /\ Path # "dq" => V = {[batch |-> t.group, block |-> t.outer]}
  /\ Path = "dq" =>
       \A b \in BatchesOf(t.group) : \A k \in 0 .. NumBlocks(b) - 1 :
         HasData(b, k, StepOf(t)) => [batch |-> b, block |-> k] \in V

\* In fwd and dkv a tile makes one visit.
LEMMA OneBatchStretch ==
  ASSUME IsConfig, NEW t \in Tiles, ~IsHole(t), Path # "dq"
  PROVE  TileVisits(t, {[batch |-> t.group, block |-> t.outer]})
<1> DEFINE v == [batch |-> t.group, block |-> t.outer]
           visits == <<v>>
           seqs == [i \in DOMAIN VisitsByBatch(t) |-> BatchActs(t, VisitsByBatch(t)[i])]
           VS == [i \in 1 .. 1 |-> {v}]
<1>1. /\ t.group \in Groups /\ t.outer \in Nat /\ Groups = Batches /\ BatchesOf(t.group) = {t.group}
  BY TileFacts, GroupFacts
<1>2. t.outer < NumBlocks(t.group) /\ NumBlocks(t.group) \in Int
  <2>1. NumOuter(t.group) = NumBlocks(t.group) /\ NumOuter(t.group) \in Int
    BY <1>1, OuterFacts DEF NumOuter
  <2>2. QED
    BY <1>1, <2>1 DEF IsHole
<1>3. v.batch = t.group /\ v.block = t.outer
  OBVIOUS
<1>4. t.outer \in 0 .. NumBlocks(t.group) - 1
  BY <1>1, <1>2
<1>5. IsVisit(v) /\ IsVisitOf(t, v)
  BY <1>1, <1>4 DEF IsVisit, IsVisitOf
<1>6. v \in Visits
  BY <1>5, VisitTyped
<1> HIDE DEF v
<1>7. BatchVisits(visits, t.group) /\ ToSet(visits) = {v}
  <2>1. visits \in Seq(Visits) /\ DOMAIN visits = {1} /\ visits[1] = v
    BY <1>6
  <2>2. QED
    BY <1>3, <1>5, <2>1 DEF BatchVisits, ToSet
<1>8. Stretch(t, BatchActs(t, visits), {v}, TRUE)
  BY <1>7, BatchStretch
<1>9. VisitsByBatch(t) = <<visits>>
  BY DEF VisitsByBatch, v
<1>10. DOMAIN seqs = 1 .. 1 /\ Len(seqs) = 1 /\ seqs[1] = BatchActs(t, visits)
  BY <1>9
<1>11. VisitsTo(VS, 1) = {v}
  BY DEF VisitsTo
<1>12. TileActs(t) = FlattenSeq(seqs)
  BY DEF TileActs
<1>13. VS[1] = {v} /\ \A i \in DOMAIN seqs : i = 1
  BY <1>10
<1> HIDE DEF seqs, VS
<1>14. Stretches(t, seqs, VS, TRUE)
  <2>1. \A i \in DOMAIN seqs : Stretch(t, seqs[i], VS[i], TRUE)
    BY <1>8, <1>10, <1>13
  <2>2. \A i, j \in DOMAIN seqs : i # j => VS[i] \cap VS[j] = {}
    BY <1>13
  <2>3. QED
    BY <2>1, <2>2 DEF Stretches
<1>16. Stretch(t, FlattenSeq(seqs), VisitsTo(VS, 1), TRUE)
  <2>1. 1 \in Nat /\ 1 # 0
    OBVIOUS
  <2>2. QED
    BY <1>10, <1>14, <2>1, FlattenStretch
<1>15. QED
  BY <1>5, <1>11, <1>12, <1>16 DEF TileVisits, v

\* The visits of a tile of dq to batch b.
BlockVisits(b, k) == [j \in DOMAIN BlocksInOrder(b, k) |-> [batch |-> b, block |-> BlocksInOrder(b, k)[j]]]

\* In dq the blocks of a batch that have data are all visited.
LEMMA BlockVisitsFacts ==
  ASSUME IsConfig, NEW b \in Batches, NEW k
  PROVE  /\ BatchVisits(BlockVisits(b, k), b)
         /\ \A v \in ToSet(BlockVisits(b, k)) : v.batch = b /\ IsVisit(v)
         /\ \A m \in 0 .. NumBlocks(b) - 1 : HasData(b, m, k) => [batch |-> b, block |-> m] \in ToSet(BlockVisits(b, k))
<1> DEFINE s == BlocksInOrder(b, k)
           visits == BlockVisits(b, k)
<1>1. s \in Seq(Int) /\ Len(s) \in Nat /\ DOMAIN s = 1 .. Len(s)
  BY BlocksOnce
<1>2. \A i \in DOMAIN s : s[i] \in 0 .. NumBlocks(b) - 1 /\ \A j \in DOMAIN s : s[i] = s[j] => i = j
  <2>1. CASE s = <<>>
    BY <2>1
  <2>2. CASE s # <<>>
    <3>1. Once(s, 0, NumBlocks(b))
      BY <2>2, BlocksOnce
    <3> HIDE DEF s
    <3>2. QED
      BY <3>1 DEF Once, ToSet
  <2>3. QED
    BY <2>1, <2>2
<1> HIDE DEF s
<1>3. /\ DOMAIN visits = DOMAIN s /\ visits = [j \in 1 .. Len(s) |-> [batch |-> b, block |-> s[j]]]
      /\ \A j \in DOMAIN s : visits[j] = [batch |-> b, block |-> s[j]]
  BY <1>1 DEF BlockVisits, s
<1>4. \A j \in DOMAIN s : IsVisit([batch |-> b, block |-> s[j]])
  BY <1>2 DEF IsVisit
<1>5. \A j \in DOMAIN s : [batch |-> b, block |-> s[j]] \in Visits
  BY <1>4, VisitTyped
<1>6. visits \in Seq(Visits)
  BY <1>1, <1>3, <1>5
<1>7. \A i \in DOMAIN visits : IsVisit(visits[i]) /\ visits[i].batch = b
  BY <1>3, <1>4
<1>8. \A i, j \in DOMAIN visits : visits[i] = visits[j] => i = j
  <2>1. \A i \in DOMAIN visits : visits[i].block = s[i]
    BY <1>3
  <2>2. QED
    BY <1>2, <1>3, <2>1
<1>9. ASSUME NEW m \in 0 .. NumBlocks(b) - 1, HasData(b, m, k)
      PROVE  [batch |-> b, block |-> m] \in ToSet(visits)
  <2>1. Once(s, 0, NumBlocks(b))
    BY <1>9, BlocksOnce DEF s
  <2>2. m \in ToSet(s)
    BY <2>1 DEF Once
  <2>3. PICK j \in DOMAIN s : s[j] = m
    BY <2>2 DEF ToSet
  <2>4. visits[j] = [batch |-> b, block |-> m] /\ j \in DOMAIN visits
    BY <1>3, <2>3
  <2> HIDE DEF visits
  <2>5. QED
    BY <2>4 DEF ToSet
<1> HIDE DEF visits
<1>10. \A v \in ToSet(visits) : v.batch = b /\ IsVisit(v)
  BY <1>7 DEF ToSet
<1>11. QED
  BY <1>6, <1>7, <1>8, <1>9, <1>10 DEF BatchVisits, visits

\* In dq the batches of a tile make a stretch.
LEMMA ManyBatchesStretch ==
  ASSUME IsConfig, NEW t \in Tiles, Path = "dq"
  PROVE  \E V : TileVisits(t, V)
<1> DEFINE lo == config.cuBatches[t.group + 1]
           hi == config.cuBatches[t.group + 2]
           n == Cardinality(BatchesOf(t.group))
           seqs == [i \in DOMAIN VisitsByBatch(t) |-> BatchActs(t, VisitsByBatch(t)[i])]
           VS == [i \in 1 .. n |-> ToSet(BlockVisits(lo + i - 1, t.outer))]
           V == VisitsTo(VS, n)
<1>1. t.group \in Groups /\ t.group \in Nat /\ StepOf(t) = t.outer
  BY TileFacts, GroupFacts DEF StepOf
<1>2. lo \in Nat /\ hi \in Nat /\ lo <= hi
  <2>1. t.group + 1 \in 1 .. Len(config.cuBatches) /\ t.group + 2 \in 1 .. Len(config.cuBatches) /\ t.group + 1 <= t.group + 2
    BY <1>1, CuFacts DEF Groups
  <2>2. lo \in 0 .. NumBatches /\ hi \in 0 .. NumBatches /\ NumBatches \in Nat
    BY <2>1, CuFacts, ConfigFacts
  <2>3. lo <= hi
    BY <2>1, CuFacts
  <2>4. QED
    BY <2>2, <2>3
<1>3. BatchesOf(t.group) = lo .. hi - 1
  BY DEF BatchesOf
<1> HIDE DEF lo, hi
<1>4. n = hi - lo /\ n \in Nat
  <2>1. Cardinality(lo .. hi - 1) = (IF lo > hi - 1 THEN 0 ELSE (hi - 1) - lo + 1)
    BY <1>2, FS_Interval
  <2>2. QED
    BY <1>2, <1>3, <2>1
<1>5. \A i \in 1 .. n : lo + i - 1 \in BatchesOf(t.group) /\ lo + i - 1 \in Batches
  <2>1. \A i \in 1 .. n : lo + i - 1 \in lo .. hi - 1
    BY <1>2, <1>4
  <2>2. BatchesOf(t.group) \subseteq Batches
    BY <1>1, GroupFacts
  <2>3. QED
    BY <1>3, <2>1, <2>2
<1>6. VisitsByBatch(t) = [i \in 1 .. n |-> BlockVisits(lo + i - 1, t.outer)]
  BY DEF VisitsByBatch, BlockVisits, lo
<1>7. TileActs(t) = FlattenSeq(seqs)
  BY DEF TileActs
<1>8. seqs = [i \in 1 .. n |-> BatchActs(t, BlockVisits(lo + i - 1, t.outer))]
  BY <1>6
<1> HIDE DEF seqs, n
<1>9. DOMAIN seqs = 1 .. n /\ Len(seqs) = n /\ (n = 0 => seqs = <<>>)
  BY <1>4, <1>8
<1>10. ASSUME NEW i \in 1 .. n
       PROVE  /\ Stretch(t, seqs[i], VS[i], TRUE)
              /\ \A v \in VS[i] : v.batch = lo + i - 1 /\ IsVisit(v)
  <2>1. BatchVisits(BlockVisits(lo + i - 1, t.outer), lo + i - 1)
    BY <1>5, BlockVisitsFacts
  <2>2. Stretch(t, BatchActs(t, BlockVisits(lo + i - 1, t.outer)), ToSet(BlockVisits(lo + i - 1, t.outer)), TRUE)
    BY <2>1, BatchStretch
  <2>3. \A v \in ToSet(BlockVisits(lo + i - 1, t.outer)) : v.batch = lo + i - 1 /\ IsVisit(v)
    BY <1>5, BlockVisitsFacts
  <2>4. seqs[i] = BatchActs(t, BlockVisits(lo + i - 1, t.outer)) /\ VS[i] = ToSet(BlockVisits(lo + i - 1, t.outer))
    BY <1>8
  <2>5. QED
    BY <2>2, <2>3, <2>4
<1>11. ASSUME NEW b \in BatchesOf(t.group), NEW k \in 0 .. NumBlocks(b) - 1, HasData(b, k, t.outer)
       PROVE  [batch |-> b, block |-> k] \in V
  <2>1. b \in lo .. hi - 1 /\ b \in Batches
    BY <1>1, <1>3, GroupFacts
  <2>2. b - lo + 1 \in 1 .. n /\ lo + (b - lo + 1) - 1 = b
    BY <1>2, <1>4, <2>1
  <2>3. [batch |-> b, block |-> k] \in ToSet(BlockVisits(b, t.outer))
    BY <1>11, <2>1, BlockVisitsFacts
  <2>4. VS[b - lo + 1] = ToSet(BlockVisits(b, t.outer))
    BY <2>2
  <2> HIDE DEF VS
  <2>5. QED
    BY <2>2, <2>3, <2>4 DEF VisitsTo
<1> HIDE DEF VS
<1>12. \A i, j \in 1 .. n : i # j => VS[i] \cap VS[j] = {}
  <2> SUFFICES ASSUME NEW i \in 1 .. n, NEW j \in 1 .. n, NEW v \in VS[i], v \in VS[j] PROVE i = j
    OBVIOUS
  <2>1. v.batch = lo + i - 1 /\ v.batch = lo + j - 1
    BY <1>10
  <2>2. QED
    BY <1>2, <1>4, <2>1
<1>13. Stretches(t, seqs, VS, TRUE)
  BY <1>9, <1>10, <1>12 DEF Stretches
<1>14. Stretch(t, FlattenSeq(seqs), V, TRUE)
  BY <1>4, <1>9, <1>13, FlattenStretch
<1>15. ASSUME NEW v \in V PROVE IsVisitOf(t, v)
  <2>1. PICK i \in 1 .. n : v \in VS[i]
    BY DEF VisitsTo
  <2>2. v.batch \in BatchesOf(t.group) /\ IsVisit(v)
    BY <1>5, <1>10, <2>1
  <2>3. QED
    BY <2>2 DEF IsVisit, IsVisitOf
<1>16. TileVisits(t, V)
  BY <1>1, <1>7, <1>11, <1>14, <1>15 DEF TileVisits
<1>17. QED
  BY <1>16

EpilogueIs == epilogue = [t \in Tiles |-> IF IsHole(t) THEN <<>> ELSE TileActs(t)]

\* What the epilogues look like.
LEMMA EpilogueShapes ==
  ASSUME IsConfig, EpilogueIs
  PROVE  /\ AllShapes /\ DOMAIN epilogue = Tiles
         /\ \A t \in Tiles : epilogue[t] \in Seq(ActType)
<1> SUFFICES ASSUME NEW t \in Tiles
             PROVE  EpilogueShape(t, epilogue[t]) /\ epilogue[t] \in Seq(ActType)
  BY DEF AllShapes, EpilogueIs
<1>1. CASE IsHole(t)
  <2>1. epilogue[t] = <<>>
    BY <1>1 DEF EpilogueIs
  <2>2. QED
    BY <2>1 DEF EpilogueShape, InOrder, Adjacent, EnteredFirst
<1>2. CASE ~IsHole(t)
  <2>1. epilogue[t] = TileActs(t)
    BY <1>2 DEF EpilogueIs
  <2>2. PICK V : TileVisits(t, V)
    BY <1>2, OneBatchStretch, ManyBatchesStretch
  <2>3. Stretch(t, epilogue[t], V, TRUE) /\ \A v \in V : IsVisitOf(t, v)
    BY <2>1, <2>2 DEF TileVisits
  <2>4. \A i \in DOMAIN epilogue[t] : epilogue[t][i] \in ToSet(epilogue[t])
    BY DEF ToSet
  <2>5. \A a \in ToSet(epilogue[t]) : IsActOf(t, a) /\ ActsOf(t, a.visit) \subseteq ToSet(epilogue[t])
    BY <2>3 DEF Stretch, IsActOf
  <2>6. QED
    BY <2>3, <2>4, <2>5 DEF EpilogueShape, Stretch
<1>3. QED
  BY <1>1, <1>2

\* The jobs: for every step of a batch and every block with data there is a tile.
LEMMA JobExists ==
  ASSUME IsConfig, EpilogueIs, NEW b \in Batches, NEW s \in 0 .. LastStep, NEW k \in 0 .. NumBlocks(b) - 1,
         HasData(b, k, s), NEW h \in LockHeads
  PROVE  \E t \in Tiles : /\ HeadOf(t) = h /\ StepOf(t) = s
                          /\ ActsOf(t, [batch |-> b, block |-> k]) \subseteq ToSet(epilogue[t])
<1> DEFINE Q == config.headsPerKv
           v == [batch |-> b, block |-> k]
<1>0. /\ Path \in {"fwd", "dkv", "dq"} /\ Q \in Nat \ {0} /\ config.numHeadsKv \in Nat \ {0}
      /\ NumHeads \in Nat \ {0} /\ config.numKeyBlocks \in Nat \ {0}
  BY ConfigFacts, HeadFacts
<1>1. PICK g \in Groups : b \in BatchesOf(g)
  BY GroupFacts
<1>2. PICK hd \in 0 .. NumHeads - 1 : h = LockHead(hd)
  BY DEF LockHeads
<1>3. \E hd2 \in 0 .. NumHeads - 1 : LockHead(hd2) = h /\ (Path = "dkv" => hd2 % Q = s)
  <2>1. CASE Path # "dkv"
    BY <1>2, <2>1
  <2>2. CASE Path = "dkv"
    <3> DEFINE q == hd \div Q
               new == q * Q + s
    <3>1. s \in 0 .. Q - 1
      BY <1>0, <2>2 DEF LastStep, NumSteps
    <3>2. h = q /\ q \in Int /\ Q * q <= hd /\ hd < Q * q + Q
      <4>1. hd \in Int
        OBVIOUS
      <4>2. q \in Int /\ Q * q <= hd /\ hd < Q * q + Q
        BY <1>0, <4>1, DivBounds
      <4>3. h = q
        BY <1>2, <2>2 DEF LockHead
      <4>4. QED
        BY <4>2, <4>3
    <3>3. q * Q = Q * q /\ q * Q \in Int
      BY <1>0, <3>2, MulStep
    <3>4. new \div Q = q
      <4>1. new \in Int /\ Q * q <= new /\ new < Q * q + Q
        BY <1>0, <3>1, <3>2, <3>3
      <4> HIDE DEF new, q
      <4>2. QED
        BY <1>0, <3>2, <4>1, DivUnique
    <3>5. new % Q = s
      <4>1. new \in Int
        BY <3>1, <3>3
      <4>2. new = Q * (new \div Q) + (new % Q) /\ new % Q \in 0 .. Q - 1
        BY <1>0, <4>1, DivBounds
      <4>3. new = Q * q + (new % Q)
        BY <3>4, <4>2
      <4> DEFINE r == new % Q
      <4>4. r \in Int /\ Q * q + s = Q * q + r /\ Q * q \in Int
        BY <1>0, <3>3, <4>2, <4>3
      <4> HIDE DEF r, new, q
      <4>5. r = s
        BY <3>1, <4>4
      <4>6. QED
        BY <4>5 DEF r
    <3>6. new \in 0 .. NumHeads - 1
      <4> DEFINE K == config.numHeadsKv
      <4>1. NumHeads = K * Q /\ K \in Nat
        BY <1>0 DEF NumHeads
      <4>2. q >= 0 /\ q < K
        <5>1. ASSUME q < 0 PROVE FALSE
          <6>1. Q * q <= Q * (0 - 1) /\ Q * (0 - 1) = 0 - Q
            BY <1>0, <3>2, <5>1, MulLe
          <6>2. Q * q \in Int /\ hd >= 0 /\ hd \in Int
            BY <3>3, <1>2
          <6> HIDE DEF q
          <6>3. QED
            BY <1>0, <3>2, <6>1, <6>2
        <5>2. ASSUME q >= K PROVE FALSE
          <6>1. Q * K <= Q * q /\ Q * K = K * Q
            BY <1>0, <3>2, <4>1, <5>2, MulLe, MulStep
          <6>2. hd < NumHeads /\ hd \in Int /\ Q * q \in Int /\ NumHeads \in Int
            BY <1>0, <1>2, <3>3
          <6> HIDE DEF q, K
          <6>3. QED
            BY <3>2, <4>1, <6>1, <6>2
        <5>3. QED
          BY <3>2, <4>1, <5>1, <5>2
      <4>3. Q * (q + 1) <= Q * K /\ Q * (q + 1) = Q * q + Q /\ Q * K = K * Q
        <5>1. q + 1 <= K /\ q + 1 \in Int /\ K \in Int
          BY <3>2, <4>1, <4>2
        <5> HIDE DEF q, K
        <5>2. QED
          BY <1>0, <3>2, <5>1, MulLe, MulStep
      <4>4. 0 <= Q * q
        <5>1. Q * 0 <= Q * q /\ Q * 0 = 0
          BY <1>0, <3>2, <4>2, MulLe
        <5>2. QED
          BY <5>1
      <4> HIDE DEF q, K
      <4>5. QED
        BY <1>0, <3>1, <3>3, <4>1, <4>3, <4>4
    <3>7. LockHead(new) = h
      BY <2>2, <3>2, <3>4 DEF LockHead
    <3> HIDE DEF new
    <3>8. QED
      BY <3>5, <3>6, <3>7
  <2>3. QED
    BY <2>1, <2>2
<1>4. PICK hd2 \in 0 .. NumHeads - 1 : LockHead(hd2) = h /\ (Path = "dkv" => hd2 % Q = s)
  BY <1>3
<1> DEFINE o == IF Path = "dq" THEN s ELSE k
           t == [head |-> hd2, group |-> g, outer |-> o]
<1>5. o \in Nat /\ o < NumOuter(g)
  <2>1. CASE Path = "dq"
    BY <1>0, <2>1 DEF NumOuter, LastStep
  <2>2. CASE Path # "dq"
    <3>1. g = b
      BY <1>1, <2>2, GroupFacts
    <3>2. NumBlocks(b) \in Int
      BY BatchFacts
    <3>3. QED
      BY <2>2, <3>1, <3>2 DEF NumOuter
  <2>3. QED
    BY <2>1, <2>2
<1>6. o \in 0 .. MaxOuter - 1 /\ NumOuter(g) \in Int
  BY <1>5, OuterFacts
<1>7. t.head = hd2 /\ t.group = g /\ t.outer = o
  OBVIOUS
<1> HIDE DEF o
<1>8. t \in Tiles
  BY <1>5, <1>6 DEF Tiles
<1>9. ~IsHole(t)
  BY <1>5, <1>6, <1>7 DEF IsHole
<1>10. HeadOf(t) = h
  BY <1>4, <1>7 DEF HeadOf
<1>11. StepOf(t) = s
  <2>1. CASE Path = "fwd"
    BY <2>1 DEF StepOf, LastStep, NumSteps
  <2>2. CASE Path = "dkv"
    BY <1>4, <1>7, <2>2 DEF StepOf
  <2>3. CASE Path = "dq"
    BY <1>7, <2>3 DEF StepOf, o
  <2>4. QED
    BY <1>0, <2>1, <2>2, <2>3
<1> HIDE DEF t
<1>12. PICK V : TileVisits(t, V) /\ v \in V
  <2>1. CASE Path # "dq"
    <3>1. TileVisits(t, {[batch |-> t.group, block |-> t.outer]})
      BY <1>8, <1>9, <2>1, OneBatchStretch
    <3>2. v = [batch |-> t.group, block |-> t.outer]
      <4>1. g = b
        BY <1>1, <2>1, GroupFacts
      <4>2. QED
        BY <1>7, <2>1, <4>1 DEF o
    <3>3. QED
      BY <3>1, <3>2
  <2>2. CASE Path = "dq"
    <3>1. PICK V : TileVisits(t, V)
      BY <1>8, <2>2, ManyBatchesStretch
    <3>2. v \in V
      BY <1>1, <1>7, <1>11, <2>2, <3>1 DEF TileVisits
    <3>3. QED
      BY <3>1, <3>2
  <2>3. QED
    BY <2>1, <2>2
<1>13. epilogue[t] = TileActs(t)
  BY <1>8, <1>9 DEF EpilogueIs
<1>14. ActsOf(t, v) \subseteq ToSet(epilogue[t])
  BY <1>12, <1>13 DEF TileVisits, Stretch
<1>15. QED
  BY <1>8, <1>10, <1>11, <1>14

\* There is only one.
LEMMA SameJob ==
  ASSUME IsConfig, NEW t \in Tiles, NEW u \in Tiles, NEW v, NEW w, IsVisitOf(t, v), IsVisitOf(u, w),
         v.batch = w.batch, v.block = w.block, HeadOf(t) = HeadOf(u), StepOf(t) = StepOf(u)
  PROVE  t = u /\ v = w
<1>1. /\ t.head \in 0 .. NumHeads - 1 /\ t.group \in Groups
      /\ t = [head |-> t.head, group |-> t.group, outer |-> t.outer]
      /\ u.head \in 0 .. NumHeads - 1 /\ u.group \in Groups
      /\ u = [head |-> u.head, group |-> u.group, outer |-> u.outer]
  BY TileFacts
<1>2. t.group = u.group
  BY <1>1, GroupFacts DEF IsVisitOf
<1>3. t.outer = u.outer
  <2>1. CASE Path = "dq"
    BY <2>1 DEF StepOf
  <2>2. CASE Path # "dq"
    BY <2>2 DEF IsVisitOf
  <2>3. QED
    BY <2>1, <2>2
<1>4. t.head = u.head
  <2>1. CASE Path # "dkv"
    BY <2>1 DEF HeadOf, LockHead
  <2>2. CASE Path = "dkv"
    <3> DEFINE Q == config.headsPerKv
    <3>1. t.head \div Q = u.head \div Q /\ t.head % Q = u.head % Q
      BY <2>2 DEF HeadOf, LockHead, StepOf
    <3>2. Q \in Nat \ {0}
      BY ConfigFacts
    <3>3. t.head = Q * (t.head \div Q) + (t.head % Q) /\ u.head = Q * (u.head \div Q) + (u.head % Q)
      BY <1>1, <3>2, DivBounds
    <3>4. QED
      BY <3>1, <3>3
  <2>3. QED
    BY <2>1, <2>2
<1>5. v = w
  BY DEF IsVisitOf
<1>6. QED
  BY <1>1, <1>2, <1>3, <1>4, <1>5

-------------------------------------------------------------------------------
(* What is left of an epilogue.                                              *)

\* The elements of a suffix.
LEMMA SuffixAt ==
  ASSUME NEW E, NEW e \in Seq(E), NEW k \in 0 .. Len(e)
  PROVE  LET s == SubSeq(e, k + 1, Len(e))
         IN  /\ s \in Seq(E) /\ Len(s) = Len(e) - k /\ DOMAIN s = 1 .. Len(e) - k
             /\ \A i \in 1 .. Len(e) - k : s[i] = e[k + i]
             /\ s = <<>> <=> k = Len(e)
<1> DEFINE n == Len(e)
           s == SubSeq(e, k + 1, n)
<1>1. n \in Nat /\ DOMAIN e = 1 .. n /\ k \in Nat /\ k <= n
  OBVIOUS
<1>2. s \in Seq(E) /\ \A i \in 1 .. n - k : s[i] = e[k + i]
  <2> HIDE DEF n
  <2>1. QED
    BY <1>1
<1>3. Len(s) = n - k
  <2> HIDE DEF n
  <2>1. CASE k = n
    BY <1>1, <2>1
  <2>2. CASE k < n
    BY <1>1, <2>2
  <2>3. QED
    BY <1>1, <2>1, <2>2
<1> HIDE DEF s, n
<1>4. DOMAIN s = 1 .. n - k
  BY <1>2, <1>3
<1>5. s = <<>> <=> Len(s) = 0
  BY <1>2
<1>6. n - k = 0 <=> k = n
  BY <1>1
<1>7. s = <<>> <=> k = n
  BY <1>3, <1>5, <1>6
<1>8. QED
  BY <1>2, <1>3, <1>4, <1>7 DEF s, n

\* A suffix of a suffix is a suffix.
LEMMA SuffixOfSuffix ==
  ASSUME NEW E, NEW e \in Seq(E), NEW k \in 0 .. Len(e), NEW n \in Nat, k + n <= Len(e)
  PROVE  LET s == SubSeq(e, k + 1, Len(e))
         IN  SubSeq(s, n + 1, Len(s)) = SubSeq(e, k + n + 1, Len(e))
<1> DEFINE s == SubSeq(e, k + 1, Len(e))
           r == SubSeq(s, n + 1, Len(s))
           q == SubSeq(e, k + n + 1, Len(e))
<1>1. s \in Seq(E) /\ Len(s) = Len(e) - k /\ \A i \in 1 .. Len(e) - k : s[i] = e[k + i]
  BY SuffixAt
<1>2. n \in 0 .. Len(s) /\ k + n \in 0 .. Len(e)
  BY <1>1
<1> HIDE DEF s
<1>3. /\ r \in Seq(E) /\ Len(r) = Len(s) - n /\ DOMAIN r = 1 .. Len(s) - n
      /\ \A i \in 1 .. Len(s) - n : r[i] = s[n + i]
  BY <1>1, <1>2, SuffixAt
<1>4. /\ q \in Seq(E) /\ Len(q) = Len(e) - (k + n) /\ DOMAIN q = 1 .. Len(e) - (k + n)
      /\ \A i \in 1 .. Len(e) - (k + n) : q[i] = e[k + n + i]
  BY <1>2, SuffixAt
<1> HIDE DEF r, q
<1>5. Len(s) - n = Len(e) - (k + n) /\ Len(e) \in Nat
  BY <1>1
<1>6. \A i \in 1 .. Len(e) - (k + n) : r[i] = q[i]
  <2> TAKE i \in 1 .. Len(e) - (k + n)
  <2>1. n + i \in 1 .. Len(e) - k /\ k + (n + i) = k + n + i
    BY <1>5
  <2>2. r[i] = s[n + i] /\ s[n + i] = e[k + (n + i)]
    BY <1>1, <1>3, <1>5, <2>1
  <2>3. QED
    BY <1>4, <2>1, <2>2
<1>7. r = q
  <2>1. r = [i \in 1 .. Len(e) - (k + n) |-> r[i]]
    BY <1>3, <1>5
  <2>2. q = [i \in 1 .. Len(e) - (k + n) |-> q[i]]
    BY <1>4
  <2>3. QED
    BY <1>6, <2>1, <2>2
<1>8. QED
  BY <1>7 DEF r, q, s

-------------------------------------------------------------------------------
\* What a call determines.
InputInv == IsConfig /\ OrderIs /\ EpilogueIs /\ owed = [c \in Cells |-> PartsOf(c[2])]

Works == {w \in WorkType : w.kind = "tile" => w.tile \in Tiles}

ProducerOK ==
  /\ handedOut \in Nat
  /\ producerPc \in [Sms -> {"hand", "prefetch", "done"}]
  /\ nextId \in [Sms -> Nat] /\ \A sm \in Sms : nextId[sm] < handedOut + NumSms
  /\ lastTile \in [Sms -> TileType]
WorksOK ==
  /\ slot \in [Sms -> Works] /\ ahead \in [Sms -> Works] /\ current \in [Sms -> Works]
  /\ todo \in [Sms -> Seq(ActType)]
ConflictOK == conflict \in [Sms -> [0 .. NumHeads - 1 -> [Locks -> 0 .. NumBatches]]]
LocksOK ==
  /\ turn \in [LockHeads -> [Locks -> Nat]]
  /\ count \in [LockHeads -> [Locks -> Int]]
  /\ mutex \in [LockHeads -> [Locks -> {0, 1}]]
SumOK ==
  /\ DOMAIN loaded = Sms /\ \A sm \in Sms : DOMAIN loaded[sm] \subseteq Rows
  /\ sum \in [Cells -> Seq(Nat)]
BasicOK == ProducerOK /\ WorksOK /\ ConflictOK /\ LocksOK /\ SumOK

\* What a call determines.
LEMMA InputFacts ==
  ASSUME InputInv
  PROVE  /\ IsConfig /\ OrderIs /\ EpilogueIs /\ AllShapes
         /\ NumTiles \in Nat /\ DOMAIN order = 0 .. NumTiles - 1
         /\ \A i \in 0 .. NumTiles - 1 : order[i] \in Tiles
         /\ \A i, j \in 0 .. NumTiles - 1 : order[i] = order[j] => i = j
         /\ DOMAIN epilogue = Tiles
         /\ \A t \in Tiles : /\ epilogue[t] \in Seq(ActType)
                             /\ Len(epilogue[t]) \in Nat /\ DOMAIN epilogue[t] = 1 .. Len(epilogue[t])
                             /\ EpilogueShape(t, epilogue[t])
                             /\ IsHole(t) => epilogue[t] = <<>>
<1>1. IsConfig /\ OrderIs /\ EpilogueIs
  BY DEF InputInv
<1>2. AllShapes /\ DOMAIN epilogue = Tiles /\ \A t \in Tiles : epilogue[t] \in Seq(ActType)
  BY <1>1, EpilogueShapes
<1>3. \A t \in Tiles : Len(epilogue[t]) \in Nat /\ DOMAIN epilogue[t] = 1 .. Len(epilogue[t])
  BY <1>2
<1>4. \A t \in Tiles : EpilogueShape(t, epilogue[t])
  BY <1>2 DEF AllShapes
<1>5. \A t \in Tiles : IsHole(t) => epilogue[t] = <<>>
  BY <1>1 DEF EpilogueIs
<1>6. QED
  BY <1>1, <1>2, <1>3, <1>4, <1>5, OrderFacts

\* An action of an epilogue.
LEMMA ActFacts ==
  ASSUME InputInv, NEW t \in Tiles, NEW a \in ToSet(epilogue[t])
  PROVE  /\ IsActOf(t, a) /\ IsVisitOf(t, a.visit) /\ IsVisit(a.visit)
         /\ a.visit.batch \in Batches /\ a.visit.batch \in Nat
         /\ ActsOf(t, a.visit) \subseteq ToSet(epilogue[t])
         /\ a.op # "enter" => a \in ActsOf(t, a.visit)
         /\ a \in ActType /\ HeadOf(t) \in LockHeads /\ StepOf(t) \in 0 .. LastStep
         /\ PartOf(t, a) \in Nat
<1>1. IsConfig /\ EpilogueShape(t, epilogue[t]) /\ epilogue[t] \in Seq(ActType)
  BY InputFacts
<1>2. PICK i \in DOMAIN epilogue[t] : a = epilogue[t][i]
  BY DEF ToSet
<1>3. IsActOf(t, a) /\ ActsOf(t, a.visit) \subseteq ToSet(epilogue[t])
  BY <1>1, <1>2 DEF EpilogueShape
<1>4. IsVisitOf(t, a.visit)
  BY <1>3 DEF IsActOf
<1>5. IsVisit(a.visit) /\ a.visit.batch \in Batches
  BY <1>1, <1>4, VisitOfIsVisit
<1>6. a.visit.batch \in Nat
  BY <1>1, <1>5, BatchFacts
<1>7. HeadOf(t) \in LockHeads /\ StepOf(t) \in 0 .. LastStep
  BY <1>1, TileFacts
<1>8. PartOf(t, a) \in Nat
  BY <1>1, <1>6, <1>7, PartOrder DEF PartOf
<1>9. a.op # "enter" => a \in ActsOf(t, a.visit)
  BY <1>3 DEF IsActOf, Act
<1>10. a \in ActType
  BY <1>1, <1>2
<1>11. QED
  BY <1>3, <1>4, <1>5, <1>6, <1>7, <1>8, <1>9, <1>10

\* The epilogue of a tile is at its k-th action on an SM.
Runs(sm, t, k) ==
  /\ HasWork(current[sm], t) /\ t \in Tiles /\ k \in 0 .. Len(epilogue[t])
  /\ todo[sm] = SubSeq(epilogue[t], k + 1, Len(epilogue[t]))

\* A tile that is current is at some action of its epilogue.
LEMMA RunsExists ==
  ASSUME InputInv, BasicOK, AllSuffix, NEW sm \in Sms
  PROVE  /\ current[sm].kind = "tile" => \E k : Runs(sm, Tile(sm), k)
         /\ current[sm].kind # "tile" => todo[sm] = <<>>
<1>1. current[sm] \in Works
  BY DEF BasicOK, WorksOK
<1>2. current[sm].kind = "tile" => Tile(sm) \in Tiles
  BY <1>1 DEF Works, Tile
<1>3. Suffix(sm)
  BY DEF AllSuffix
<1>4. QED
  BY <1>2, <1>3 DEF Suffix, Runs, HasWork, Tile

\* What is left of an epilogue at its k-th action.
LEMMA RunsFacts ==
  ASSUME InputInv, NEW sm, NEW t, NEW k, Runs(sm, t, k)
  PROVE  /\ t \in Tiles /\ Tile(sm) = t /\ HeadAt(sm) = HeadOf(t) /\ k \in Nat /\ k <= Len(epilogue[t])
         /\ Len(epilogue[t]) \in Nat
         /\ todo[sm] = <<>> <=> k = Len(epilogue[t])
         /\ DOMAIN todo[sm] = 1 .. Len(epilogue[t]) - k /\ Len(todo[sm]) = Len(epilogue[t]) - k
         /\ \A i \in 1 .. Len(epilogue[t]) - k : todo[sm][i] = epilogue[t][k + i]
<1> DEFINE e == epilogue[t]
           s == todo[sm]
<1>1. t \in Tiles /\ Tile(sm) = t /\ HeadAt(sm) = HeadOf(t) /\ k \in 0 .. Len(e) /\ s = SubSeq(e, k + 1, Len(e))
  BY DEF Runs, HasWork, Tile, HeadAt, HeadOf
<1>2. e \in Seq(ActType) /\ Len(e) \in Nat
  BY <1>1, InputFacts
<1>3. /\ Len(s) = Len(e) - k /\ DOMAIN s = 1 .. Len(e) - k
      /\ \A i \in 1 .. Len(e) - k : s[i] = e[k + i]
      /\ s = <<>> <=> k = Len(e)
  <2> HIDE DEF e, s
  <2>1. QED
    BY <1>1, <1>2, SuffixAt, SMTT(30)
<1>4. QED
  BY <1>1, <1>2, <1>3

\* The actions that are left.
LEMMA TodoSet ==
  ASSUME InputInv, NEW sm, NEW t, NEW k, Runs(sm, t, k), NEW a
  PROVE  a \in ToSet(todo[sm]) <=> \E i \in k + 1 .. Len(epilogue[t]) : a = epilogue[t][i]
<1> DEFINE e == epilogue[t]
           s == todo[sm]
<1>1. k \in Nat /\ Len(e) \in Nat /\ k <= Len(e) /\ DOMAIN s = 1 .. Len(e) - k /\ \A i \in 1 .. Len(e) - k : s[i] = e[k + i]
  BY RunsFacts
<1> HIDE DEF e, s
<1>2. ASSUME NEW i \in 1 .. Len(e) - k, a = s[i] PROVE \E j \in k + 1 .. Len(e) : a = e[j]
  <2>1. k + i \in k + 1 .. Len(e) /\ a = e[k + i]
    BY <1>1, <1>2
  <2>2. QED
    BY <2>1
<1>3. ASSUME NEW i \in k + 1 .. Len(e), a = e[i] PROVE \E j \in 1 .. Len(e) - k : a = s[j]
  <2>1. i - k \in 1 .. Len(e) - k /\ k + (i - k) = i
    BY <1>1
  <2>2. a = s[i - k]
    BY <1>1, <1>3, <2>1
  <2>3. QED
    BY <2>1, <2>2
<1>4. a \in ToSet(s) <=> \E j \in 1 .. Len(e) - k : a = s[j]
  BY <1>1 DEF ToSet
<1>5. QED
  BY <1>2, <1>3, <1>4 DEF e, s

\* The actions of an epilogue are distinct.
LEMMA Distinct ==
  ASSUME InputInv, NEW t \in Tiles, NEW i \in DOMAIN epilogue[t], NEW j \in DOMAIN epilogue[t],
         epilogue[t][i] = epilogue[t][j]
  PROVE  i = j
<1> DEFINE e == epilogue[t]
<1>1. InOrder(e) /\ DOMAIN e = 1 .. Len(e) /\ Len(e) \in Nat
  BY InputFacts DEF EpilogueShape
<1>2. \A x \in DOMAIN e : Rank(e[x]) \in Int
  <2> SUFFICES ASSUME NEW x \in DOMAIN e PROVE Rank(e[x]) \in Int
    OBVIOUS
  <2>1. e[x] \in ToSet(e)
    BY DEF ToSet
  <2>2. e[x].op # "enter" => e[x] \in ActsOf(t, e[x].visit)
    BY <2>1, ActFacts
  <2>3. CASE e[x].op = "enter"
    BY <2>3 DEF Rank
  <2>4. CASE e[x].op # "enter"
    <3> DEFINE a == e[x]
               v == e[x].visit
    <3>1. a \in ActsOf(t, v)
      BY <2>2, <2>4
    <3> HIDE DEF a, v
    <3>2. Rank(a) \in 1 .. 14
      BY <3>1, RankPositive
    <3>3. QED
      BY <3>2 DEF a
  <2>5. QED
    BY <2>3, <2>4
<1>3. ~(i < j) /\ ~(j < i)
  <2> HIDE DEF e
  <2>1. e[i] = e[j]
    BY DEF e
  <2>2. i \in DOMAIN e /\ j \in DOMAIN e
    BY DEF e
  <2>3. QED
    BY <1>1, <1>2, <2>1, <2>2 DEF InOrder
<1>4. i \in Int /\ j \in Int
  BY <1>1
<1>5. QED
  BY <1>3, <1>4

\* What is left of the epilogue that runs.
LEMMA RemainsAt ==
  ASSUME InputInv, OnePlace, NEW sm \in Sms, NEW t, NEW k, Runs(sm, t, k), NEW i \in DOMAIN epilogue[t]
  PROVE  Remains(t, epilogue[t][i]) <=> i > k
<1> DEFINE e == epilogue[t]
<1>1. t \in Tiles /\ HasWork(current[sm], t)
  BY DEF Runs
<1>2. At(<<sm, "current">>, t) /\ <<sm, "current">> \in Places
  BY <1>1 DEF At, Places
<1>3. ~Fresh(t) /\ \A y \in Places : At(y, t) => <<sm, "current">> = y
  BY <1>1, <1>2 DEF OnePlace
<1>4. ~Waits(t)
  BY <1>3 DEF Waits
<1>5. \A sm2 \in Sms : HasWork(current[sm2], t) => sm2 = sm
  <2> SUFFICES ASSUME NEW sm2 \in Sms, HasWork(current[sm2], t) PROVE sm2 = sm
    OBVIOUS
  <2>1. At(<<sm2, "current">>, t) /\ <<sm2, "current">> \in Places
    BY DEF At, Places
  <2>2. QED
    BY <1>3, <2>1
<1>6. Remains(t, e[i]) <=> e[i] \in ToSet(todo[sm])
  BY <1>1, <1>4, <1>5 DEF Remains
<1>7. e[i] \in ToSet(todo[sm]) <=> \E j \in k + 1 .. Len(e) : e[i] = e[j]
  BY TodoSet
<1>8. DOMAIN e = 1 .. Len(e) /\ Len(e) \in Nat /\ k \in 0 .. Len(e)
  BY <1>1, InputFacts DEF Runs
<1>9. \A j \in k + 1 .. Len(e) : j \in DOMAIN e /\ (e[i] = e[j] => i = j)
  BY <1>1, <1>8, Distinct
<1>10. QED
  BY <1>6, <1>7, <1>8, <1>9

-------------------------------------------------------------------------------
(* What only the call decides.                                               *)

\* What only the call decides does not change.
LEMMA SameConfig ==
  ASSUME config' = config
  PROVE  /\ Path' = Path /\ BlockSize' = BlockSize /\ NumHeads' = NumHeads /\ NumBatches' = NumBatches
         /\ Batches' = Batches /\ Locks' = Locks /\ Rows' = Rows /\ LockHeads' = LockHeads /\ Cells' = Cells
         /\ Groups' = Groups /\ Tiles' = Tiles /\ TileType' = TileType /\ WorkType' = WorkType /\ Works' = Works
         /\ NumSteps' = NumSteps /\ LastStep' = LastStep /\ ActType' = ActType /\ KeepsState' = KeepsState
         /\ \A b : /\ First(b)' = First(b) /\ End(b)' = End(b) /\ NumBlocks(b)' = NumBlocks(b)
                   /\ \A l : Touches(b, l)' = Touches(b, l)
                   /\ \A s : Part(b, s)' = Part(b, s) /\ ArriveNum(b, s)' = ArriveNum(b, s)
                   /\ \A k, s : HasData(b, k, s)' = HasData(b, k, s)
         /\ \A v : /\ LeftLock(v)' = LeftLock(v) /\ RightLock(v)' = RightLock(v) /\ RowsOf(v)' = RowsOf(v)
                   /\ \A side : AddCount(v, side)' = AddCount(v, side)
         /\ \A l : LockRows(l)' = LockRows(l)
         /\ \A t : /\ HeadOf(t)' = HeadOf(t) /\ StepOf(t)' = StepOf(t) /\ ConflictRow(t)' = ConflictRow(t)
                   /\ IsHole(t)' = IsHole(t)
         /\ \A t, a : PartOf(t, a)' = PartOf(t, a)
         /\ \A a : SideLockOf(a)' = SideLockOf(a)
         /\ \A n, b, l : Covers(n, b, l)' = Covers(n, b, l)
         /\ \A w : WorkCovers(w)' = WorkCovers(w)
  BY DEF Path, BlockSize, NumHeads, NumBatches, Batches, Locks, Rows, LockHeads, Cells, Groups, Tiles, TileType, WorkType, Works,
         NumSteps, LastStep, ActType, KeepsState, First, End, NumBlocks, Touches, Part, ArriveNum, HasData, LeftLock, RightLock,
         RowsOf, AddCount, LockRows, HeadOf, StepOf, ConflictRow, IsHole, PartOf, SideLockOf, Covers, WorkCovers, CeilDiv,
         Offset, Shifted, LockHead, NumOuter, MaxOuter, Visits, BatchesOf

\* The order of blocks is determined by the call.
LEMMA SameBlocks ==
  ASSUME config' = config, NEW b, NEW k
  PROVE  BlocksInOrder(b, k)' = BlocksInOrder(b, k)
<1>1. NumBlocks(b)' = NumBlocks(b) /\ \A m : HasData(b, m, k)' = HasData(b, m, k)
  BY SameConfig
<1>2. QED
  BY <1>1 DEF BlocksInOrder

\* So are epilogues, tile numbers and the parts of a row.
LEMMA SameShapes ==
  ASSUME config' = config
  PROVE  /\ \A t : TileActs(t)' = TileActs(t)
         /\ \A t : BlockIdx(t)' = BlockIdx(t)
         /\ \A row : PartsOf(row)' = PartsOf(row)
<1>1. \A b, k : BlocksInOrder(b, k)' = BlocksInOrder(b, k)
  BY SameBlocks
<1>2. \A t : VisitsByBatch(t)' = VisitsByBatch(t)
  BY <1>1, SameConfig, ZenonT(30) DEF VisitsByBatch, BatchesOf
<1>3. \A t, v : VisitActs(t, v)' = VisitActs(t, v)
  <2> TAKE t, v
  <2>1. /\ LeftLock(v)' = LeftLock(v) /\ RightLock(v)' = RightLock(v) /\ Path' = Path
        /\ HasData(v.batch, v.block, StepOf(t))' = HasData(v.batch, v.block, StepOf(t))
    BY SameConfig
  <2>2. LockBlocks(v)' = LockBlocks(v)
    BY <2>1 DEF LockBlocks
  <2>3. StoreActs(v)' = StoreActs(v)
    BY <2>1, <2>2 DEF StoreActs, MutexBlocks
  <2>4. QED
    BY <2>1, <2>2, <2>3 DEF VisitActs, MutexBlocks
<1>4. \A t, visits : BatchActs(t, visits)' = BatchActs(t, visits)
  <2> TAKE t, visits
  <2>1. Path' = Path
    BY SameConfig
  <2>2. [i \in DOMAIN visits |-> VisitActs(t, visits[i])]' = [i \in DOMAIN visits |-> VisitActs(t, visits[i])]
    BY <1>3
  <2>3. QED
    BY <2>1, <2>2 DEF BatchActs
<1>5. \A t : TileActs(t)' = TileActs(t)
  <2> TAKE t
  <2>1. [i \in DOMAIN VisitsByBatch(t) |-> BatchActs(t, VisitsByBatch(t)[i])]' = [i \in DOMAIN VisitsByBatch(t) |-> BatchActs(t, VisitsByBatch(t)[i])]
    BY <1>2, <1>4
  <2>2. QED
    BY <2>1 DEF TileActs
<1>6. \A t : BlockIdx(t)' = BlockIdx(t)
  <2> TAKE t
  <2>1. \A u : Key(u)' = Key(u)
    <3>1. Path' = Path /\ NumHeads' = NumHeads /\ MaxOuter' = MaxOuter
      BY SameConfig DEF MaxOuter, NumOuter
    <3>2. QED
      BY <3>1 DEF Key
  <2>2. Before(t)' = Before(t)
    BY <2>1, SameConfig DEF Before
  <2>3. BlockIdx(t) = Cardinality(Before(t))
    BY BlockIdxIs
  <2>4. BlockIdx(t)' = Cardinality(Before(t)')
    BY DEF BlockIdx, Before, Key
  <2>5. QED
    BY <2>2, <2>3, <2>4
<1>7. \A row : PartsOf(row)' = PartsOf(row)
  BY SameConfig DEF PartsOf
<1>8. QED
  BY <1>5, <1>6, <1>7

\* What a call determines stays so.
LEMMA SameInputs ==
  ASSUME InputInv, UNCHANGED inputs
  PROVE  InputInv'
<1>1. config' = config /\ order' = order /\ epilogue' = epilogue /\ owed' = owed
  BY DEF inputs
<1>2. IsConfig'
  BY <1>1 DEF InputInv, IsConfig
<1>3. OrderIs'
  BY <1>1, SameConfig, SameShapes DEF InputInv, OrderIs
<1>4. EpilogueIs'
  BY <1>1, SameConfig, SameShapes DEF InputInv, EpilogueIs
<1>5. owed' = [c \in Cells |-> PartsOf(c[2])]'
  BY <1>1, SameConfig, SameShapes DEF InputInv
<1>6. QED
  BY <1>2, <1>3, <1>4, <1>5 DEF InputInv

-------------------------------------------------------------------------------
(* How tiles move.                                                           *)

Kinds == {"next", "slot", "ahead", "current"}

\* Where a tile can be on an SM.
LEMMA AtNow ==
  ASSUME NEW s, NEW t
  PROVE  /\ At(<<s, "next">>, t) <=> producerPc[s] = "hand" /\ nextId[s] < NumTiles /\ order[nextId[s]] = t
         /\ At(<<s, "slot">>, t) <=> HasWork(slot[s], t)
         /\ At(<<s, "ahead">>, t) <=> HasWork(ahead[s], t)
         /\ At(<<s, "current">>, t) <=> HasWork(current[s], t)
BY DEF At

\* Where it can be after a step.
LEMMA AtNext ==
  ASSUME NEW s, NEW t, order' = order
  PROVE  /\ At(<<s, "next">>, t)' <=> producerPc'[s] = "hand" /\ nextId'[s] < NumTiles /\ order[nextId'[s]] = t
         /\ At(<<s, "slot">>, t)' <=> HasWork(slot'[s], t)
         /\ At(<<s, "ahead">>, t)' <=> HasWork(ahead'[s], t)
         /\ At(<<s, "current">>, t)' <=> HasWork(current'[s], t)
BY DEF At, HasWork, NumTiles

\* A place is an SM and a kind.
LEMMA PlaceIs ==
  ASSUME NEW x \in Places
  PROVE  \E s \in Sms, k \in Kinds : x = <<s, k>>
BY DEF Places, Kinds

\* A tile that waits is not handed out, or is in front of the epilogue of some SM.
LEMMA WaitsNow ==
  ASSUME NEW t
  PROVE  Waits(t) <=> Fresh(t) \/ \E s \in Sms : At(<<s, "next">>, t) \/ At(<<s, "slot">>, t) \/ At(<<s, "ahead">>, t)
<1>1. Waits(t) <=> Fresh(t) \/ \E x \in Places : x[2] # "current" /\ At(x, t)
  BY DEF Waits, Places
<1>2. ASSUME NEW s \in Sms, NEW k \in {"next", "slot", "ahead"}, At(<<s, k>>, t)
      PROVE  \E x \in Places : x[2] # "current" /\ At(x, t)
  <2>1. <<s, k>> \in Places /\ <<s, k>>[2] # "current"
    BY DEF Places
  <2>2. QED
    BY <1>2, <2>1
<1>3. ASSUME NEW x \in Places, x[2] # "current", At(x, t)
      PROVE  \E s \in Sms : At(<<s, "next">>, t) \/ At(<<s, "slot">>, t) \/ At(<<s, "ahead">>, t)
  <2>1. PICK s \in Sms, k \in Kinds : x = <<s, k>>
    BY PlaceIs
  <2>2. k \in {"next", "slot", "ahead"}
    BY <1>3, <2>1 DEF Kinds
  <2>3. At(<<s, k>>, t)
    BY <1>3, <2>1
  <2>4. At(<<s, "next">>, t) \/ At(<<s, "slot">>, t) \/ At(<<s, "ahead">>, t)
    BY <2>2, <2>3
  <2>5. QED
    BY <2>4
<1>4. QED
  BY <1>1, <1>2, <1>3

\* The same after a step.
LEMMA WaitsNext ==
  ASSUME NEW t
  PROVE  Waits(t)' <=> Fresh(t)' \/ \E s \in Sms : At(<<s, "next">>, t)' \/ At(<<s, "slot">>, t)' \/ At(<<s, "ahead">>, t)'
<1>1. Waits(t)' <=> Fresh(t)' \/ \E x \in Places : x[2] # "current" /\ At(x, t)'
  BY DEF Waits, Places
<1>2. ASSUME NEW s \in Sms, NEW k \in {"next", "slot", "ahead"}, At(<<s, k>>, t)'
      PROVE  \E x \in Places : x[2] # "current" /\ At(x, t)'
  <2>1. <<s, k>> \in Places /\ <<s, k>>[2] # "current"
    BY DEF Places
  <2>2. QED
    BY <1>2, <2>1
<1>3. ASSUME NEW x \in Places, x[2] # "current", At(x, t)'
      PROVE  \E s \in Sms : At(<<s, "next">>, t)' \/ At(<<s, "slot">>, t)' \/ At(<<s, "ahead">>, t)'
  <2>1. PICK s \in Sms, k \in Kinds : x = <<s, k>>
    BY PlaceIs
  <2>2. k \in {"next", "slot", "ahead"}
    BY <1>3, <2>1 DEF Kinds
  <2>3. At(<<s, k>>, t)'
    BY <1>3, <2>1
  <2>4. At(<<s, "next">>, t)' \/ At(<<s, "slot">>, t)' \/ At(<<s, "ahead">>, t)'
    BY <2>2, <2>3
  <2>5. QED
    BY <2>4
<1>4. QED
  BY <1>1, <1>2, <1>3

\* Tiles that come from places of their own have places of their own.
LEMMA MoveKeeps ==
  ASSUME OnePlace, config' = config, NEW f,
         \A x \in Places : f[x] \in Places,
         \A x \in Places : \A t \in Tiles : At(x, t)' => At(f[x], t),
         \A x, y \in Places : \A t \in Tiles : At(x, t)' /\ At(y, t)' /\ f[x] = f[y] => x = y,
         \A t \in Tiles : Fresh(t)' => Fresh(t)
  PROVE  OnePlace'
<1>1. Tiles' = Tiles /\ Places' = Places
  BY SameConfig DEF Places
<1>2. ASSUME NEW t \in Tiles, NEW x \in Places, At(x, t)'
      PROVE  ~Fresh(t)' /\ \A y \in Places : At(y, t)' => x = y
  <2>1. f[x] \in Places /\ At(f[x], t)
    BY <1>2
  <2>2. ~Fresh(t) /\ \A y \in Places : At(y, t) => f[x] = y
    BY <2>1 DEF OnePlace
  <2>3. ASSUME NEW y \in Places, At(y, t)' PROVE x = y
    <3>1. f[y] \in Places /\ At(f[y], t)
      BY <2>3
    <3>2. f[x] = f[y]
      BY <2>2, <3>1
    <3>3. QED
      BY <1>2, <2>3, <3>2
  <2>4. QED
    BY <2>2, <2>3
<1>3. QED
  BY <1>1, <1>2 DEF OnePlace

HandTile(sm) == order[nextId[sm]]

\* What Hand does to the work and the places.
LEMMA HandEffect ==
  ASSUME InputInv, BasicOK, NEW sm \in Sms, Hand(sm)
  PROVE  /\ HandTile(sm) \in Tiles /\ ~IsHole(HandTile(sm)) /\ nextId[sm] \in 0 .. NumTiles - 1
         /\ producerPc[sm] = "hand" /\ slot[sm].kind = "none"
         /\ producerPc' = [producerPc EXCEPT ![sm] = "prefetch"]
         /\ HasWork(slot'[sm], HandTile(sm)) /\ \A s \in Sms : s # sm => slot'[s] = slot[s]
         /\ lastTile' = [lastTile EXCEPT ![sm] = HandTile(sm)]
         /\ UNCHANGED <<inputs, handedOut, nextId, consumerVars, lockVars, sum>>
<1>1. nextId[sm] \in 0 .. NumTiles - 1
  <2>1. nextId[sm] \in Nat /\ nextId[sm] < NumTiles /\ NumTiles \in Nat
    BY InputFacts DEF Hand, BasicOK, ProducerOK
  <2>2. QED
    BY <2>1
<1>2. HandTile(sm) \in Tiles
  BY <1>1, InputFacts DEF HandTile
<1>3. slot \in [Sms -> Works]
  BY DEF BasicOK, WorksOK
<1>4. HasWork(slot'[sm], HandTile(sm)) /\ \A s \in Sms : s # sm => slot'[s] = slot[s]
  BY <1>3 DEF Hand, HasWork, Work, HandTile
<1>5. QED
  BY <1>1, <1>2, <1>4 DEF Hand, HandTile

\* Handing out moves a tile into the slot.
LEMMA HandPlaces ==
  ASSUME InputInv, BasicOK, OnePlace, NEW sm \in Sms, Hand(sm)
  PROVE  OnePlace' /\ \A t \in Tiles : Waits(t)' <=> Waits(t)
<1> DEFINE f == [x \in Places |-> IF x = <<sm, "slot">> THEN <<sm, "next">> ELSE x]
           t0 == HandTile(sm)
<1>0. config' = config /\ order' = order
  BY DEF Hand, inputs
<1>1. /\ producerPc[sm] = "hand" /\ slot[sm].kind = "none" /\ nextId[sm] < NumTiles
      /\ producerPc' = [producerPc EXCEPT ![sm] = "prefetch"]
      /\ HasWork(slot'[sm], t0) /\ (\A s \in Sms : s # sm => slot'[s] = slot[s])
      /\ handedOut' = handedOut /\ nextId' = nextId /\ ahead' = ahead /\ current' = current
  BY HandEffect DEF consumerVars, Hand
<1>2. producerPc'[sm] = "prefetch" /\ \A s \in Sms : s # sm => producerPc'[s] = producerPc[s]
  BY <1>1 DEF BasicOK, ProducerOK
<1>3. ASSUME NEW s \in Sms, NEW t
      PROVE  /\ At(<<s, "next">>, t)' <=> s # sm /\ At(<<s, "next">>, t)
             /\ At(<<s, "slot">>, t)' <=> IF s = sm THEN At(<<sm, "next">>, t) ELSE At(<<s, "slot">>, t)
             /\ At(<<s, "ahead">>, t)' <=> At(<<s, "ahead">>, t)
             /\ At(<<s, "current">>, t)' <=> At(<<s, "current">>, t)
             /\ ~At(<<sm, "slot">>, t)
  <2>1. At(<<s, "next">>, t)' <=> s # sm /\ At(<<s, "next">>, t)
    <3>1. At(<<s, "next">>, t)' <=> producerPc'[s] = "hand" /\ nextId'[s] < NumTiles /\ order[nextId'[s]] = t
      BY <1>0, AtNext
    <3>2. At(<<s, "next">>, t) <=> producerPc[s] = "hand" /\ nextId[s] < NumTiles /\ order[nextId[s]] = t
      BY AtNow
    <3>3. s # sm => producerPc'[s] = producerPc[s]
      BY <1>2
    <3>4. producerPc'[sm] # "hand" /\ nextId'[s] = nextId[s]
      BY <1>1, <1>2
    <3>5. QED
      BY <3>1, <3>2, <3>3, <3>4
  <2>2. At(<<sm, "next">>, t) <=> t = t0
    BY <1>1, AtNow DEF HandTile
  <2>3. HasWork(slot'[sm], t) <=> t = t0
    BY <1>1 DEF HasWork
  <2>4. At(<<s, "slot">>, t)' <=> IF s = sm THEN At(<<sm, "next">>, t) ELSE At(<<s, "slot">>, t)
    BY <1>0, <1>1, <2>2, <2>3, AtNow, AtNext
  <2>5. ~At(<<sm, "slot">>, t)
    BY <1>1, AtNow DEF HasWork
  <2>6. QED
    BY <1>0, <1>1, <2>1, <2>4, <2>5, AtNow, AtNext
<1>4. \A x \in Places : f[x] \in Places /\ f[x] = IF x = <<sm, "slot">> THEN <<sm, "next">> ELSE x
  BY DEF Places
<1> HIDE DEF f
<1>5. ASSUME NEW x \in Places, NEW t, At(x, t)' PROVE At(f[x], t) /\ x # <<sm, "next">>
  <2>1. PICK s \in Sms, k \in Kinds : x = <<s, k>>
    BY PlaceIs
  <2>2. QED
    BY <1>3, <1>4, <1>5, <2>1, ZenonT(30) DEF Kinds
<1>6. \A t : Fresh(t)' <=> Fresh(t)
  BY <1>0, <1>1 DEF Fresh
<1>7. \A x, y \in Places : \A t \in Tiles : At(x, t)' /\ At(y, t)' /\ f[x] = f[y] => x = y
  BY <1>4, <1>5
<1>8. OnePlace'
  BY <1>0, <1>4, <1>5, <1>6, <1>7, MoveKeeps
<1>9. ASSUME NEW t \in Tiles PROVE Waits(t)' <=> Waits(t)
  <2>1. QED
    BY <1>3, <1>6, WaitsNow, WaitsNext
<1>10. QED
  BY <1>8, <1>9

\* When no place changes, no tile moves.
LEMMA SamePlaces ==
  ASSUME OnePlace, config' = config,
         \A s \in Sms, k \in Kinds, t \in Tiles : At(<<s, k>>, t)' <=> At(<<s, k>>, t),
         \A t \in Tiles : Fresh(t)' <=> Fresh(t)
  PROVE  OnePlace' /\ \A t \in Tiles : Waits(t)' <=> Waits(t)
<1> DEFINE f == [x \in Places |-> x]
<1>1. \A x \in Places : f[x] \in Places /\ f[x] = x
  OBVIOUS
<1> HIDE DEF f
<1>2. \A x \in Places : \A t \in Tiles : At(x, t)' => At(f[x], t)
  BY <1>1, PlaceIs
<1>3. OnePlace'
  BY <1>1, <1>2, MoveKeeps
<1>4. ASSUME NEW t \in Tiles PROVE Waits(t)' <=> Waits(t)
  BY WaitsNow, WaitsNext DEF Kinds
<1>5. QED
  BY <1>3, <1>4

\* The end of the tiles moves no tile.
LEMMA HandEndPlaces ==
  ASSUME InputInv, BasicOK, OnePlace, NEW sm \in Sms, HandEnd(sm)
  PROVE  OnePlace' /\ \A t \in Tiles : Waits(t)' <=> Waits(t)
<1>0. config' = config /\ order' = order
  BY DEF HandEnd, inputs
<1>1. /\ slot[sm].kind = "none" /\ ~(nextId[sm] < NumTiles)
      /\ slot'[sm].kind = "end" /\ (\A s \in Sms : s # sm => slot'[s] = slot[s])
      /\ producerPc'[sm] = "done" /\ (\A s \in Sms : s # sm => producerPc'[s] = producerPc[s])
      /\ handedOut' = handedOut /\ nextId' = nextId /\ ahead' = ahead /\ current' = current
  <2>1. nextId[sm] \in Nat /\ NumTiles \in Nat
    BY InputFacts DEF BasicOK, ProducerOK
  <2>2. ~(nextId[sm] < NumTiles)
    BY <2>1 DEF HandEnd
  <2>3. QED
    BY <2>2 DEF HandEnd, BasicOK, ProducerOK, WorksOK, EndWork, Work, consumerVars
<1>2. ASSUME NEW s \in Sms, NEW t
      PROVE  /\ At(<<s, "next">>, t)' <=> At(<<s, "next">>, t)
             /\ At(<<s, "slot">>, t)' <=> At(<<s, "slot">>, t)
             /\ At(<<s, "ahead">>, t)' <=> At(<<s, "ahead">>, t)
             /\ At(<<s, "current">>, t)' <=> At(<<s, "current">>, t)
  <2>1. CASE s = sm
    <3>1. ~At(<<s, "next">>, t)' /\ ~At(<<s, "next">>, t) /\ ~At(<<s, "slot">>, t)' /\ ~At(<<s, "slot">>, t)
      BY <1>0, <1>1, <2>1, AtNow, AtNext DEF HasWork
    <3>2. QED
      BY <1>0, <1>1, <3>1, AtNow, AtNext
  <2>2. CASE s # sm
    <3>1. producerPc'[s] = producerPc[s] /\ slot'[s] = slot[s] /\ nextId'[s] = nextId[s]
      BY <1>1, <2>2
    <3>2. QED
      BY <1>0, <1>1, <3>1, AtNow, AtNext
  <2>3. QED
    BY <2>1, <2>2
<1>3. \A t : Fresh(t)' <=> Fresh(t)
  BY <1>0, <1>1 DEF Fresh
<1>4. \A s \in Sms, k \in Kinds, t \in Tiles : At(<<s, k>>, t)' <=> At(<<s, k>>, t)
  BY <1>2 DEF Kinds
<1>5. QED
  BY <1>0, <1>3, <1>4, SamePlaces

\* A new block_idx is one that no SM has; only a hole may be left behind.
LEMMA FetchPlaces ==
  ASSUME InputInv, BasicOK, OnePlace, NEW sm \in Sms, Retry(sm) \/ Prefetch(sm)
  PROVE  OnePlace' /\ \A t \in Tiles : ~IsHole(t) => (Waits(t)' <=> Waits(t))
<1> DEFINE n == handedOut + NumSms
           At0(t) == n < NumTiles /\ order[n] = t
<1>0. config' = config /\ order' = order
  BY DEF Retry, Prefetch, inputs
<1>1. /\ handedOut' = handedOut + 1 /\ nextId'[sm] = n /\ (\A s \in Sms : s # sm => nextId'[s] = nextId[s])
      /\ producerPc'[sm] = "hand" /\ (\A s \in Sms : s # sm => producerPc'[s] = producerPc[s])
      /\ slot' = slot /\ ahead' = ahead /\ current' = current
  BY DEF Retry, Prefetch, FetchId, BasicOK, ProducerOK, consumerVars
<1>2. producerPc[sm] = "hand" => IsHole(order[nextId[sm]])
  BY DEF Retry, Prefetch
<1>3. handedOut \in Nat /\ NumSms \in Nat /\ n \in Nat /\ NumTiles \in Nat /\ DOMAIN order = 0 .. NumTiles - 1
  BY InputFacts, SmsAssumption DEF BasicOK, ProducerOK
<1>4. ASSUME NEW s \in Sms, NEW t
      PROVE  /\ At(<<s, "next">>, t)' <=> IF s = sm THEN At0(t) ELSE At(<<s, "next">>, t)
             /\ At(<<s, "slot">>, t)' <=> At(<<s, "slot">>, t)
             /\ At(<<s, "ahead">>, t)' <=> At(<<s, "ahead">>, t)
             /\ At(<<s, "current">>, t)' <=> At(<<s, "current">>, t)
  <2>1. CASE s = sm
    <3>1. At(<<s, "next">>, t)' <=> At0(t)
      <4>1. At(<<s, "next">>, t)' <=> producerPc'[s] = "hand" /\ nextId'[s] < NumTiles /\ order[nextId'[s]] = t
        BY <1>0, AtNext
      <4>2. producerPc'[s] = "hand" /\ nextId'[s] = n
        BY <1>1, <2>1
      <4>3. QED
        BY <4>1, <4>2
    <3>2. QED
      BY <1>0, <1>1, <2>1, <3>1, AtNow, AtNext
  <2>2. CASE s # sm
    <3>1. producerPc'[s] = producerPc[s] /\ nextId'[s] = nextId[s]
      BY <1>1, <2>2
    <3>2. QED
      BY <1>0, <1>1, <2>2, <3>1, AtNow, AtNext
  <2>3. QED
    BY <2>1, <2>2
<1>5. ASSUME NEW t PROVE Fresh(t) <=> Fresh(t)' \/ At0(t)
  <2>1. Fresh(t)' <=> \E i \in 0 .. NumTiles - 1 : i >= handedOut + 1 + NumSms /\ order[i] = t
    BY <1>0, <1>1, <1>3 DEF Fresh
  <2>2. Fresh(t) <=> \E i \in 0 .. NumTiles - 1 : i >= n /\ order[i] = t
    BY <1>3 DEF Fresh
  <2>3. \A i \in 0 .. NumTiles - 1 : i >= n <=> i >= handedOut + 1 + NumSms \/ i = n
    BY <1>3
  <2>4. n < NumTiles => n \in 0 .. NumTiles - 1
    BY <1>3
  <2>5. n >= n
    BY <1>3
  <2> HIDE DEF n
  <2>6. At0(t) => \E i \in 0 .. NumTiles - 1 : i = n /\ i >= n /\ order[i] = t
    BY <2>4, <2>5
  <2>7. \A i \in 0 .. NumTiles - 1 : i = n => n < NumTiles
    BY <1>3
  <2>8. Fresh(t) => Fresh(t)' \/ At0(t)
    BY <2>1, <2>2, <2>3, <2>7
  <2>9. Fresh(t)' => Fresh(t)
    BY <2>1, <2>2, <2>3
  <2>10. At0(t) => Fresh(t)
    BY <2>2, <2>6
  <2>11. QED
    BY <2>8, <2>9, <2>10
<1>6. ASSUME NEW t, At0(t), Fresh(t)' PROVE FALSE
  <2>1. PICK i \in 0 .. NumTiles - 1 : i >= handedOut + 1 + NumSms /\ order[i] = t
    BY <1>0, <1>1, <1>3, <1>6 DEF Fresh
  <2>2. n \in 0 .. NumTiles - 1 /\ i # n
    BY <1>3, <1>6, <2>1
  <2>3. \A a, b \in 0 .. NumTiles - 1 : order[a] = order[b] => a = b
    BY InputFacts
  <2> HIDE DEF n
  <2>4. QED
    BY <1>6, <2>1, <2>2, <2>3
<1> HIDE DEF At0, n
<1>7. \A x \in Places : \A t : At(x, t)' => (x # <<sm, "next">> /\ At(x, t)) \/ (x = <<sm, "next">> /\ At0(t))
  <2> SUFFICES ASSUME NEW x \in Places, NEW t, At(x, t)'
               PROVE  (x # <<sm, "next">> /\ At(x, t)) \/ (x = <<sm, "next">> /\ At0(t))
    OBVIOUS
  <2>1. PICK s \in Sms, k \in Kinds : x = <<s, k>>
    BY PlaceIs
  <2>2. QED
    BY <1>4, <2>1 DEF Kinds
<1>8. OnePlace'
  <2>1. Tiles' = Tiles /\ Places' = Places
    BY <1>0, SameConfig DEF Places
  <2>2. ASSUME NEW t \in Tiles, NEW x \in Places, At(x, t)'
        PROVE  ~Fresh(t)' /\ \A y \in Places : At(y, t)' => x = y
    <3>1. CASE x # <<sm, "next">>
      <4>1. At(x, t)
        BY <1>7, <2>2, <3>1
      <4>2. ~Fresh(t) /\ \A y \in Places : At(y, t) => x = y
        BY <4>1 DEF OnePlace
      <4>3. QED
        BY <1>5, <1>7, <4>2
    <3>2. CASE x = <<sm, "next">>
      <4>1. At0(t)
        BY <1>7, <2>2, <3>2
      <4>2. Fresh(t)
        BY <1>5, <4>1
      <4>3. \A y \in Places : ~At(y, t)
        BY <4>2 DEF OnePlace
      <4>4. QED
        BY <1>6, <1>7, <3>2, <4>1, <4>3
    <3>3. QED
      BY <3>1, <3>2
  <2>3. QED
    BY <2>1, <2>2 DEF OnePlace
<1>9. ASSUME NEW t \in Tiles, ~IsHole(t) PROVE Waits(t)' <=> Waits(t)
  <2>1. ~At(<<sm, "next">>, t)
    BY <1>2, <1>9, AtNow
  <2>2. QED
    BY <1>4, <1>5, <2>1, WaitsNow, WaitsNext
<1>10. QED
  BY <1>8, <1>9

\* What taking does to the SM and to the others.
LEMMA TakeEffect ==
  ASSUME InputInv, BasicOK, NEW sm \in Sms, Take(sm)
  PROVE  /\ todo[sm] = <<>> /\ UNCHANGED <<inputs, producerVars, conflict, loaded, lockVars, sum>>
         /\ slot'[sm].kind = "none" /\ (\A s \in Sms : s # sm => slot'[s] = slot[s])
         /\ current'[sm] = (IF Path = "fwd" THEN ahead[sm] ELSE slot[sm])
         /\ (\A s \in Sms : s # sm => current'[s] = current[s])
         /\ ahead'[sm] = (IF Path = "fwd" THEN slot[sm] ELSE NoWork)
         /\ (\A s \in Sms : s # sm => ahead'[s] = ahead[s])
         /\ todo'[sm] = (IF current'[sm].kind = "tile" THEN epilogue[current'[sm].tile] ELSE <<>>)
         /\ (\A s \in Sms : s # sm => todo'[s] = todo[s])
<1>1. slot \in [Sms -> Works] /\ ahead \in [Sms -> Works] /\ current \in [Sms -> Works] /\ todo \in [Sms -> Seq(ActType)]
  BY DEF BasicOK, WorksOK
<1>2. QED
  BY <1>1 DEF Take, NoWork, Work

\* Taking moves the tile of the slot, in fwd by way of the work ahead.
LEMMA TakePlaces ==
  ASSUME InputInv, BasicOK, OnePlace, AheadInv, NEW sm \in Sms, Take(sm)
  PROVE  /\ OnePlace'
         /\ \A t \in Tiles : Waits(t) <=> Waits(t)' \/ HasWork(current'[sm], t)
<1> DEFINE source == IF Path = "fwd" THEN <<sm, "ahead">> ELSE <<sm, "slot">>
           f == [x \in Places |-> IF x = <<sm, "current">> THEN source
                                  ELSE IF x = <<sm, "ahead">> /\ Path = "fwd" THEN <<sm, "slot">> ELSE x]
<1>0. config' = config /\ order' = order /\ producerPc' = producerPc /\ nextId' = nextId /\ handedOut' = handedOut
  BY TakeEffect DEF inputs, producerVars
<1>1. /\ slot'[sm].kind = "none" /\ (\A s \in Sms : s # sm => slot'[s] = slot[s])
      /\ current'[sm] = (IF Path = "fwd" THEN ahead[sm] ELSE slot[sm])
      /\ (\A s \in Sms : s # sm => current'[s] = current[s])
      /\ ahead'[sm] = (IF Path = "fwd" THEN slot[sm] ELSE NoWork)
      /\ (\A s \in Sms : s # sm => ahead'[s] = ahead[s])
  BY TakeEffect
<1>2. Path # "fwd" => ahead[sm].kind = "none" /\ NoWork.kind = "none"
  BY DEF AheadInv, NoWork, Work
<1>3. ASSUME NEW s \in Sms, NEW t
      PROVE  /\ At(<<s, "next">>, t)' <=> At(<<s, "next">>, t)
             /\ At(<<s, "slot">>, t)' <=> s # sm /\ At(<<s, "slot">>, t)
             /\ At(<<s, "ahead">>, t)' <=> IF s = sm THEN Path = "fwd" /\ At(<<s, "slot">>, t) ELSE At(<<s, "ahead">>, t)
             /\ At(<<s, "current">>, t)' <=>
                  IF s = sm THEN IF Path = "fwd" THEN At(<<s, "ahead">>, t) ELSE At(<<s, "slot">>, t) ELSE At(<<s, "current">>, t)
             /\ s = sm /\ Path # "fwd" => ~At(<<s, "ahead">>, t)
  <2>1. CASE s = sm
    <3>1. ~At(<<s, "slot">>, t)'
      BY <1>0, <1>1, <2>1, AtNext DEF HasWork
    <3>2. CASE Path = "fwd"
      BY <1>0, <1>1, <2>1, <3>1, <3>2, AtNow, AtNext
    <3>3. CASE Path # "fwd"
      <4>1. ~HasWork(ahead'[sm], t) /\ ~HasWork(ahead[sm], t)
        BY <1>1, <1>2, <3>3 DEF HasWork
      <4>2. QED
        BY <1>0, <1>1, <2>1, <3>1, <3>3, <4>1, AtNow, AtNext
    <3>4. QED
      BY <3>2, <3>3
  <2>2. CASE s # sm
    <3>1. slot'[s] = slot[s] /\ current'[s] = current[s] /\ ahead'[s] = ahead[s]
      BY <1>1, <2>2
    <3>2. QED
      BY <1>0, <2>2, <3>1, AtNow, AtNext
  <2>3. QED
    BY <2>1, <2>2
<1>4. \A x \in Places : f[x] \in Places /\ f[x] = IF x = <<sm, "current">> THEN source
                                                  ELSE IF x = <<sm, "ahead">> /\ Path = "fwd" THEN <<sm, "slot">> ELSE x
  BY DEF Places
<1> HIDE DEF f
<1>5. ASSUME NEW x \in Places, NEW t, At(x, t)'
      PROVE  At(f[x], t) /\ x # <<sm, "slot">> /\ (Path # "fwd" => x # <<sm, "ahead">>)
  <2>1. PICK s \in Sms, k \in Kinds : x = <<s, k>>
    BY PlaceIs
  <2>2. CASE x = <<sm, "current">>
    <3>1. f[x] = source
      BY <1>4, <2>2
    <3>2. At(source, t)
      BY <1>3, <1>5, <2>2
    <3>3. QED
      BY <2>2, <3>1, <3>2
  <2>3. CASE x = <<sm, "ahead">>
    <3>1. Path = "fwd" /\ At(<<sm, "slot">>, t)
      BY <1>3, <1>5, <2>3
    <3>2. f[x] = <<sm, "slot">>
      BY <1>4, <2>3, <3>1
    <3>3. QED
      BY <2>3, <3>1, <3>2
  <2>4. CASE x # <<sm, "current">> /\ x # <<sm, "ahead">>
    <3>1. f[x] = x
      BY <1>4, <2>4
    <3>2. At(x, t) /\ x # <<sm, "slot">>
      <4>1. CASE s = sm
        <5>1. k \in {"next", "slot"}
          BY <2>1, <2>4, <4>1 DEF Kinds
        <5>2. QED
          BY <1>3, <1>5, <2>1, <4>1, <5>1
      <4>2. CASE s # sm
        BY <1>3, <1>5, <2>1, <4>2 DEF Kinds
      <4>3. QED
        BY <4>1, <4>2
    <3>3. QED
      BY <2>4, <3>1, <3>2
  <2>5. QED
    BY <2>2, <2>3, <2>4
<1>6. \A t : Fresh(t)' <=> Fresh(t)
  BY <1>0 DEF Fresh
<1>7. ASSUME NEW x \in Places, NEW y \in Places, NEW t, At(x, t)', At(y, t)', f[x] = f[y] PROVE x = y
  <2>1. x # <<sm, "slot">> /\ y # <<sm, "slot">> /\ (Path # "fwd" => x # <<sm, "ahead">> /\ y # <<sm, "ahead">>)
    BY <1>5, <1>7
  <2>2. CASE Path = "fwd"
    BY <1>4, <1>7, <2>1, <2>2
  <2>3. CASE Path # "fwd"
    BY <1>4, <1>7, <2>1, <2>3
  <2>4. QED
    BY <2>2, <2>3
<1>11. \A x \in Places : f[x] \in Places
  BY <1>4
<1>8. OnePlace'
  BY <1>0, <1>5, <1>6, <1>7, <1>11, MoveKeeps
<1>9. ASSUME NEW t \in Tiles PROVE Waits(t) <=> Waits(t)' \/ HasWork(current'[sm], t)
  <2>1. HasWork(current'[sm], t) <=> IF Path = "fwd" THEN At(<<sm, "ahead">>, t) ELSE At(<<sm, "slot">>, t)
    BY <1>0, <1>3, AtNext
  <2>2. QED
    BY <1>3, <1>6, <2>1, WaitsNow, WaitsNext
<1>10. QED
  BY <1>8, <1>9

-------------------------------------------------------------------------------
(* What is done.                                                             *)

\* The members of a suffix.
LEMMA SuffixSet ==
  ASSUME NEW E, NEW e \in Seq(E), NEW k \in 0 .. Len(e), NEW a
  PROVE  a \in ToSet(SubSeq(e, k + 1, Len(e))) <=> \E i \in k + 1 .. Len(e) : a = e[i]
<1> DEFINE s == SubSeq(e, k + 1, Len(e))
<1>1. k \in Nat /\ Len(e) \in Nat /\ k <= Len(e) /\ DOMAIN s = 1 .. Len(e) - k /\ \A i \in 1 .. Len(e) - k : s[i] = e[k + i]
  BY SuffixAt
<1> HIDE DEF s
<1>2. ASSUME NEW i \in 1 .. Len(e) - k, a = s[i] PROVE \E j \in k + 1 .. Len(e) : a = e[j]
  <2>1. k + i \in k + 1 .. Len(e) /\ a = e[k + i]
    BY <1>1, <1>2
  <2>2. QED
    BY <2>1
<1>3. ASSUME NEW i \in k + 1 .. Len(e), a = e[i] PROVE \E j \in 1 .. Len(e) - k : a = s[j]
  <2>1. i - k \in 1 .. Len(e) - k /\ k + (i - k) = i
    BY <1>1
  <2>2. a = s[i - k]
    BY <1>1, <1>3, <2>1
  <2>3. QED
    BY <2>1, <2>2
<1>4. a \in ToSet(s) <=> \E j \in 1 .. Len(e) - k : a = s[j]
  BY <1>1 DEF ToSet
<1>5. QED
  BY <1>2, <1>3, <1>4 DEF s

\* Nothing is done.
Quiet ==
  \A t \in Tiles : \A a \in ToSet(epilogue[t]) :
    /\ Remains(t, a)' <=> Remains(t, a)
    /\ Done(t, a)' <=> Done(t, a)

\* A step that leaves what remains does nothing.
LEMMA QuietRemains ==
  ASSUME epilogue' = epilogue, \A t \in Tiles : \A a \in ToSet(epilogue[t]) : Remains(t, a)' <=> Remains(t, a)
  PROVE  Quiet
BY DEF Quiet, Done

\* What remains depends on the epilogues under way and the tiles that wait.
LEMMA SameRemains ==
  ASSUME InputInv, epilogue' = epilogue, current' = current, todo' = todo,
         \A t \in Tiles : ~IsHole(t) => (Waits(t)' <=> Waits(t))
  PROVE  Quiet
<1>1. ASSUME NEW t \in Tiles, NEW a \in ToSet(epilogue[t]) PROVE Remains(t, a)' <=> Remains(t, a)
  <2>1. ~IsHole(t)
    <3>1. IsHole(t) => epilogue[t] = <<>>
      BY InputFacts
    <3>2. ToSet(<<>>) = {}
      BY DEF ToSet
    <3>3. QED
      BY <1>1, <3>1, <3>2
  <2>2. Waits(t)' <=> Waits(t)
    BY <2>1
  <2>3. QED
    BY <2>2 DEF Remains, HasWork
<1>2. QED
  BY <1>1, QuietRemains

\* No action of a producer does anything to an epilogue.
LEMMA ProduceQuiet ==
  ASSUME InputInv, BasicOK, OnePlace, NEW sm \in Sms, Produce(sm)
  PROVE  Quiet /\ OnePlace' /\ UNCHANGED <<inputs, consumerVars, lockVars, sum>>
<1>1. CASE Hand(sm)
  <2>1. UNCHANGED <<inputs, consumerVars, lockVars, sum>>
    BY <1>1 DEF Hand
  <2>2. QED
    BY <1>1, <2>1, HandPlaces, SameRemains DEF inputs, consumerVars
<1>2. CASE HandEnd(sm)
  <2>1. UNCHANGED <<inputs, consumerVars, lockVars, sum>>
    BY <1>2 DEF HandEnd
  <2>2. QED
    BY <1>2, <2>1, HandEndPlaces, SameRemains DEF inputs, consumerVars
<1>3. CASE Retry(sm) \/ Prefetch(sm)
  <2>1. UNCHANGED <<inputs, consumerVars, lockVars, sum>>
    BY <1>3 DEF Retry, Prefetch
  <2>2. QED
    BY <1>3, <2>1, FetchPlaces, SameRemains DEF inputs, consumerVars
<1>4. QED
  BY <1>1, <1>2, <1>3 DEF Produce

\* To take an epilogue does nothing of it.
LEMMA TakeQuiet ==
  ASSUME InputInv, BasicOK, OnePlace, AheadInv, NEW sm \in Sms, Take(sm)
  PROVE  Quiet /\ OnePlace'
<1>1. /\ todo[sm] = <<>> /\ epilogue' = epilogue
      /\ (\A s \in Sms : s # sm => current'[s] = current[s])
      /\ todo'[sm] = (IF current'[sm].kind = "tile" THEN epilogue[current'[sm].tile] ELSE <<>>)
      /\ (\A s \in Sms : s # sm => todo'[s] = todo[s])
  BY TakeEffect DEF inputs
<1>2. OnePlace' /\ \A t \in Tiles : Waits(t) <=> Waits(t)' \/ HasWork(current'[sm], t)
  BY TakePlaces
<1>3. ASSUME NEW t \in Tiles, NEW a \in ToSet(epilogue[t]) PROVE Remains(t, a)' <=> Remains(t, a)
  <2>1. a \notin ToSet(todo[sm])
    BY <1>1 DEF ToSet
  <2>2. HasWork(current'[sm], t) => todo'[sm] = epilogue[t]
    BY <1>1 DEF HasWork
  <2>3. Remains(t, a)' <=> Waits(t)' \/ \E s \in Sms : HasWork(current'[s], t) /\ a \in ToSet(todo'[s])
    BY <1>1, <1>3 DEF Remains, HasWork
  <2>4. Remains(t, a) <=> Waits(t) \/ \E s \in Sms : HasWork(current[s], t) /\ a \in ToSet(todo[s])
    BY <1>3 DEF Remains
  <2>5. QED
    BY <1>1, <1>2, <1>3, <2>1, <2>2, <2>3, <2>4
<1>4. QED
  BY <1>1, <1>2, <1>3, QuietRemains

-------------------------------------------------------------------------------
(* A step of an epilogue.                                                    *)

\* SM sm goes from the k-th action of tile t to the (k + n)-th.
Did(sm, t, k, n) ==
  /\ Runs(sm, t, k) /\ k + n <= Len(epilogue[t]) /\ Runs(sm, t, k + n)'
  /\ \A s \in Sms : s # sm => todo'[s] = todo[s]
  /\ todo' \in [Sms -> Seq(ActType)]
  /\ UNCHANGED <<inputs, producerVars, slot, ahead, current>>

\* A step of an epilogue goes on from the action it does.
LEMMA DoesEffect ==
  ASSUME InputInv, BasicOK, AllSuffix, NEW sm \in Sms, NEW op, NEW n \in {1, 3}, Does(sm, op, n), n = 3 => op = "add"
  PROVE  \E t, k : Did(sm, t, k, n) /\ todo[sm][1] = epilogue[t][k + 1] /\ epilogue[t][k + 1].op = op /\ k + 1 \in DOMAIN epilogue[t]
<1>0. todo[sm] # <<>> /\ todo[sm][1].op = op
  BY DEF Does
<1>1. PICK t, k : Runs(sm, t, k)
  BY <1>0, RunsExists
<1> DEFINE e == epilogue[t]
<1>2. /\ t \in Tiles /\ k \in Nat /\ k < Len(e) /\ Len(e) \in Nat /\ e \in Seq(ActType) /\ DOMAIN e = 1 .. Len(e)
      /\ todo[sm][1] = e[k + 1] /\ k + 1 \in DOMAIN e
  <2>1. /\ t \in Tiles /\ k \in Nat /\ k <= Len(e) /\ Len(e) \in Nat
        /\ todo[sm] = <<>> <=> k = Len(e)
        /\ \A i \in 1 .. Len(e) - k : todo[sm][i] = e[k + i]
    BY <1>1, RunsFacts
  <2>2. e \in Seq(ActType) /\ DOMAIN e = 1 .. Len(e)
    BY <2>1, InputFacts
  <2>3. k < Len(e) /\ 1 \in 1 .. Len(e) - k
    <3> HIDE DEF e
    <3>1. QED
      BY <1>0, <2>1
  <2>4. todo[sm][1] = e[k + 1]
    BY <2>1, <2>3
  <2>5. k + 1 \in 1 .. Len(e)
    <3> HIDE DEF e
    <3>1. QED
      BY <2>1, <2>3
  <2>6. QED
    BY <2>1, <2>2, <2>3, <2>4, <2>5
<1>3. k + n <= Len(e)
  <2>1. CASE n = 1
    BY <1>2, <2>1
  <2>2. CASE n = 3
    <3>1. Adjacent(e)
      BY <1>2, InputFacts DEF EpilogueShape
    <3>2. e[k + 1].op = "add"
      BY <1>0, <1>2, <2>2
    <3> HIDE DEF e
    <3>3. (k + 1) + 2 \in DOMAIN e
      BY <1>2, <3>1, <3>2 DEF Adjacent
    <3>4. QED
      BY <1>2, <2>2, <3>3
  <2>3. QED
    BY <2>1, <2>2
<1>4. todo[sm] = SubSeq(e, k + 1, Len(e)) /\ HasWork(current[sm], t)
  BY <1>1 DEF Runs
<1>5. /\ todo' = [todo EXCEPT ![sm] = SubSeq(@, n + 1, Len(@))]
      /\ UNCHANGED <<inputs, producerVars, slot, ahead, current>>
  BY DEF Does
<1>6. todo \in [Sms -> Seq(ActType)]
  BY DEF BasicOK, WorksOK
<1>7. todo'[sm] = SubSeq(todo[sm], n + 1, Len(todo[sm])) /\ \A s \in Sms : s # sm => todo'[s] = todo[s]
  BY <1>5, <1>6
<1>8. SubSeq(todo[sm], n + 1, Len(todo[sm])) = SubSeq(e, k + n + 1, Len(e))
  <2>1. k \in 0 .. Len(e) /\ n \in Nat
    BY <1>2
  <2> HIDE DEF e
  <2>2. QED
    BY <1>2, <1>3, <1>4, <2>1, SuffixOfSuffix
<1>9. SubSeq(e, k + n + 1, Len(e)) \in Seq(ActType)
  <2>1. k + n \in 0 .. Len(e)
    BY <1>2, <1>3
  <2> HIDE DEF e
  <2>2. QED
    BY <1>2, <2>1, SuffixAt
<1>10. todo' \in [Sms -> Seq(ActType)]
  BY <1>5, <1>6, <1>7, <1>8, <1>9
<1>11. Tiles' = Tiles /\ epilogue' = epilogue /\ current' = current
  BY <1>5, SameConfig DEF inputs
<1>12. Runs(sm, t, k + n)'
  <2>1. k + n \in 0 .. Len(e)
    BY <1>2, <1>3
  <2>2. todo'[sm] = SubSeq(e, k + n + 1, Len(e))
    BY <1>7, <1>8
  <2>3. QED
    BY <1>2, <1>4, <1>11, <2>1, <2>2 DEF Runs, HasWork
<1>13. Did(sm, t, k, n)
  BY <1>1, <1>3, <1>5, <1>7, <1>10, <1>12 DEF Did
<1>14. QED
  BY <1>0, <1>2, <1>13

\* It moves no tile.
LEMMA DidPlaces ==
  ASSUME InputInv, BasicOK, AllSuffix, OnePlace, AheadInv, NEW sm \in Sms, NEW t, NEW k, NEW n, Did(sm, t, k, n)
  PROVE  /\ OnePlace' /\ AllSuffix' /\ AheadInv' /\ WorksOK' /\ ProducerOK'
         /\ \A u : Waits(u)' <=> Waits(u)
<1>1. /\ config' = config /\ order' = order /\ epilogue' = epilogue /\ producerPc' = producerPc /\ nextId' = nextId
      /\ handedOut' = handedOut /\ lastTile' = lastTile /\ slot' = slot /\ ahead' = ahead /\ current' = current
  BY DEF Did, inputs, producerVars
<1>2. ASSUME NEW s, NEW k2 \in Kinds, NEW u PROVE At(<<s, k2>>, u)' <=> At(<<s, k2>>, u)
  BY <1>1, AtNow, AtNext DEF Kinds
<1>3. \A u : Fresh(u)' <=> Fresh(u)
  BY <1>1 DEF Fresh
<1>4. OnePlace'
  BY <1>1, <1>2, <1>3, SamePlaces
<1>5. \A u : Waits(u)' <=> Waits(u)
  <2> TAKE u
  <2>1. \A s \in Sms : \A k2 \in {"next", "slot", "ahead"} : At(<<s, k2>>, u)' <=> At(<<s, k2>>, u)
    BY <1>2 DEF Kinds
  <2>2. QED
    BY <1>3, <2>1, WaitsNow, WaitsNext
<1>6. WorksOK'
  <2>1. Works' = Works /\ ActType' = ActType
    BY <1>1, SameConfig
  <2>2. todo' \in [Sms -> Seq(ActType)]
    BY DEF Did
  <2>3. QED
    BY <1>1, <2>1, <2>2 DEF BasicOK, WorksOK
<1>7. ProducerOK'
  <2>1. TileType' = TileType
    BY <1>1, SameConfig
  <2>2. QED
    BY <1>1, <2>1 DEF BasicOK, ProducerOK
<1>8. AheadInv'
  <2>1. Path' = Path
    BY <1>1, SameConfig
  <2>2. QED
    BY <1>1, <2>1 DEF AheadInv
<1>9. ASSUME NEW s \in Sms PROVE Suffix(s)'
  <2>1. CASE s = sm
    BY <2>1 DEF Did, Runs, Suffix, HasWork
  <2>2. CASE s # sm
    <3>1. todo'[s] = todo[s] /\ Suffix(s)
      BY <2>2 DEF Did, AllSuffix
    <3>2. QED
      BY <1>1, <3>1 DEF Suffix
  <2>3. QED
    BY <2>1, <2>2
<1>10. QED
  BY <1>4, <1>5, <1>6, <1>7, <1>8, <1>9 DEF AllSuffix

\* The actions from k + 1 to k + n are done, no others.
LEMMA DidDone ==
  ASSUME InputInv, BasicOK, AllSuffix, OnePlace, AheadInv, NEW sm \in Sms, NEW t, NEW k, NEW n \in Nat, Did(sm, t, k, n)
  PROVE  /\ \A i \in DOMAIN epilogue[t] : /\ Done(t, epilogue[t][i]) <=> i <= k
                                          /\ Done(t, epilogue[t][i])' <=> i <= k + n
         /\ \A u \in Tiles : \A a \in ToSet(epilogue[u]) : u # t => (Done(u, a)' <=> Done(u, a))
<1> DEFINE e == epilogue[t]
<1>1. /\ Runs(sm, t, k) /\ k + n <= Len(e) /\ Runs(sm, t, k + n)' /\ epilogue' = epilogue /\ current' = current
      /\ \A s \in Sms : s # sm => todo'[s] = todo[s]
  BY DEF Did, inputs
<1>2. t \in Tiles /\ k \in Nat /\ k <= Len(e) /\ Len(e) \in Nat /\ e \in Seq(ActType) /\ DOMAIN e = 1 .. Len(e)
  BY <1>1, RunsFacts, InputFacts
<1>3. HasWork(current[sm], t) /\ todo'[sm] = SubSeq(e, k + n + 1, Len(e))
  BY <1>1 DEF Runs
<1>4. \A u : Waits(u)' <=> Waits(u)
  BY DidPlaces
<1>5. ~Waits(t) /\ \A s \in Sms : HasWork(current[s], t) => s = sm
  <2>1. \A s \in Sms : At(<<s, "current">>, t) <=> HasWork(current[s], t)
    BY AtNow
  <2>2. \A s \in Sms : <<s, "current">> \in Places
    BY DEF Places
  <2>3. ~Fresh(t) /\ \A y \in Places : At(y, t) => <<sm, "current">> = y
    BY <1>2, <1>3, <2>1, <2>2 DEF OnePlace
  <2>4. ~Waits(t)
    BY <2>3 DEF Waits
  <2>5. \A s \in Sms : HasWork(current[s], t) => s = sm
    BY <2>1, <2>2, <2>3
  <2>6. QED
    BY <2>4, <2>5
<1>6. ASSUME NEW i \in DOMAIN e PROVE Done(t, e[i]) <=> i <= k
  <2>1. Remains(t, e[i]) <=> i > k
    BY <1>1, <1>6, RemainsAt
  <2>2. e[i] \in ToSet(e)
    BY DEF ToSet
  <2> HIDE DEF e
  <2>3. i > k <=> ~(i <= k)
    BY <1>2
  <2>4. QED
    BY <2>1, <2>2, <2>3 DEF Done, e
<1>7. ASSUME NEW i \in DOMAIN e PROVE Done(t, e[i])' <=> i <= k + n
  <2> DEFINE a == e[i]
  <2>1. a \in ToSet(e)
    BY DEF ToSet
  <2>2. Remains(t, a)' <=> a \in ToSet(todo'[sm])
    <3>1. Remains(t, a)' <=> Waits(t)' \/ \E s \in Sms : HasWork(current[s], t) /\ a \in ToSet(todo'[s])
      BY <1>1, <1>4, <2>1 DEF Remains, HasWork
    <3>2. QED
      BY <1>3, <1>4, <1>5, <3>1
  <2>3. k + n \in 0 .. Len(e)
    BY <1>1, <1>2
  <2>4. a \in ToSet(SubSeq(e, k + n + 1, Len(e))) <=> \E j \in k + n + 1 .. Len(e) : a = e[j]
    <3> HIDE DEF e, a
    <3>1. QED
      BY <1>2, <2>3, SuffixSet
  <2>5. \A j \in DOMAIN e : e[i] = e[j] => i = j
    BY <1>2, Distinct
  <2>6. (\E j \in k + n + 1 .. Len(e) : a = e[j]) <=> i >= k + n + 1
    <3> HIDE DEF e
    <3>1. \A j \in k + n + 1 .. Len(e) : j \in DOMAIN e /\ j >= k + n + 1
      BY <1>2, <2>3
    <3>2. i >= k + n + 1 => i \in k + n + 1 .. Len(e)
      BY <1>2, <2>3
    <3>3. QED
      BY <2>5, <3>1, <3>2
  <2>7. Done(t, a)' <=> ~Remains(t, a)'
    BY <1>1, <2>1 DEF Done
  <2> HIDE DEF a
  <2>8. i >= k + n + 1 <=> ~(i <= k + n)
    BY <1>2
  <2>9. QED
    BY <1>3, <2>2, <2>4, <2>6, <2>7, <2>8 DEF a
<1>8. ASSUME NEW u \in Tiles, NEW a \in ToSet(epilogue[u]), u # t PROVE Done(u, a)' <=> Done(u, a)
  <2>1. Remains(u, a)' <=> Waits(u)' \/ \E s \in Sms : HasWork(current[s], u) /\ a \in ToSet(todo'[s])
    BY <1>1, <1>4, <1>8 DEF Remains, HasWork
  <2>2. Remains(u, a) <=> Waits(u) \/ \E s \in Sms : HasWork(current[s], u) /\ a \in ToSet(todo[s])
    BY <1>8 DEF Remains
  <2>3. ~HasWork(current[sm], u)
    BY <1>3, <1>8 DEF HasWork
  <2>4. Remains(u, a)' <=> Remains(u, a)
    BY <1>1, <1>4, <2>1, <2>2, <2>3
  <2>5. QED
    BY <1>1, <2>4 DEF Done
<1>9. QED
  BY <1>6, <1>7, <1>8 DEF e

-------------------------------------------------------------------------------
(* An epilogue is done in order.                                             *)

\* Actions are done in the order of the epilogue.
LEMMA DoneBefore ==
  ASSUME InputInv, BasicOK, AllSuffix, OnePlace, NEW t \in Tiles,
         NEW i \in DOMAIN epilogue[t], NEW j \in DOMAIN epilogue[t], i <= j, Done(t, epilogue[t][j])
  PROVE  Done(t, epilogue[t][i])
<1> DEFINE e == epilogue[t]
<1>0. e[i] \in ToSet(e) /\ e[j] \in ToSet(e) /\ DOMAIN e = 1 .. Len(e) /\ Len(e) \in Nat
  BY InputFacts DEF ToSet
<1>1. ~Remains(t, e[j])
  BY DEF Done
<1>2. ~Waits(t)
  BY <1>0, <1>1 DEF Remains
<1>3. CASE \E sm \in Sms : HasWork(current[sm], t)
  <2>1. PICK sm \in Sms : HasWork(current[sm], t)
    BY <1>3
  <2>2. PICK k : Runs(sm, t, k)
    BY <2>1, RunsExists DEF HasWork, Tile
  <2>3. (Remains(t, e[i]) <=> i > k) /\ (Remains(t, e[j]) <=> j > k) /\ k \in Nat
    BY <2>2, RemainsAt, RunsFacts
  <2>4. i \in Nat /\ j \in Nat
    BY <1>0
  <2> HIDE DEF e
  <2>5. ~Remains(t, e[i])
    BY <1>1, <2>3, <2>4
  <2>6. QED
    BY <1>0, <2>5 DEF Done, e
<1>4. CASE ~ \E sm \in Sms : HasWork(current[sm], t)
  <2>1. ~Remains(t, e[i])
    BY <1>2, <1>4 DEF Remains
  <2>2. QED
    BY <1>0, <2>1 DEF Done
<1>5. QED
  BY <1>3, <1>4

\* In a visit, actions are done in the order of their ranks.
LEMMA DoneByRank ==
  ASSUME InputInv, BasicOK, AllSuffix, OnePlace, NEW t \in Tiles,
         NEW a \in ToSet(epilogue[t]), NEW b \in ToSet(epilogue[t]), a.visit = b.visit, Rank(a) < Rank(b), Done(t, b)
  PROVE  Done(t, a)
<1> DEFINE e == epilogue[t]
<1>1. InOrder(e) /\ DOMAIN e = 1 .. Len(e) /\ Len(e) \in Nat
  BY InputFacts DEF EpilogueShape
<1>2. PICK i \in DOMAIN e : a = e[i]
  BY DEF ToSet
<1>3. PICK j \in DOMAIN e : b = e[j]
  BY DEF ToSet
<1>4. Rank(a) \in Int /\ Rank(b) \in Int
  <2>1. \A x \in ToSet(e) : Rank(x) \in Int
    <3> TAKE x \in ToSet(e)
    <3>1. x.op # "enter" => x \in ActsOf(t, x.visit)
      BY ActFacts
    <3>2. CASE x.op = "enter"
      BY <3>2 DEF Rank
    <3>3. CASE x.op # "enter"
      <4> DEFINE v == x.visit
      <4>1. x \in ActsOf(t, v)
        BY <3>1, <3>3
      <4> HIDE DEF v
      <4>2. Rank(x) \in 1 .. 14
        BY <4>1, RankPositive
      <4>3. QED
        BY <4>2
    <3>4. QED
      BY <3>2, <3>3
  <2>2. QED
    BY <2>1
<1>5. ~(j < i)
  <2> HIDE DEF e
  <2>1. j < i => Rank(b) < Rank(a)
    BY <1>1, <1>2, <1>3 DEF InOrder
  <2>2. QED
    BY <1>4, <2>1
<1>6. i <= j
  BY <1>1, <1>5
<1>7. QED
  BY <1>2, <1>3, <1>6, DoneBefore

-------------------------------------------------------------------------------
(* The conflict state and its messages.                                      *)

\* After the batches up to upto have been entered.
LEMMA EnteredFacts ==
  ASSUME IsConfig, NEW state \in [Locks -> 0 .. NumBatches], NEW from \in Nat, NEW upto \in 0 .. NumBatches
  PROVE  /\ Entered(state, from, upto) \in [Locks -> 0 .. NumBatches]
         /\ \A l \in Locks : from = 0 \/ Covers(state[l], from, l) => Covers(Entered(state, from, upto)[l], upto, l)
<1>0. NumBatches \in Nat
  BY ConfigFacts
<1>1. ASSUME NEW l \in Locks
      PROVE  /\ Entered(state, from, upto)[l] \in 0 .. NumBatches
             /\ from = 0 \/ Covers(state[l], from, l) => Covers(Entered(state, from, upto)[l], upto, l)
  <2> DEFINE T == {b \in from .. upto - 1 : Touches(b, l)}
             n == Entered(state, from, upto)[l]
  <2>1. n = IF T = {} THEN state[l] ELSE Max(T) + 1
    BY DEF Entered
  <2>2. T \subseteq from .. upto - 1 /\ \A b \in from .. upto - 1 : Touches(b, l) => b \in T
    OBVIOUS
  <2>3. CASE T = {}
    <3>1. n = state[l] /\ n \in 0 .. NumBatches
      BY <2>1, <2>3
    <3> HIDE DEF n, T
    <3>2. ASSUME from = 0 \/ Covers(state[l], from, l), NEW c \in 0 .. upto - 1, Touches(c, l) PROVE n > c
      <4>1. c \notin from .. upto - 1
        BY <2>2, <2>3, <3>2
      <4>2. c < from
        BY <3>2, <4>1
      <4>3. c \in 0 .. from - 1
        BY <4>2
      <4>4. Covers(state[l], from, l)
        BY <3>2, <4>2
      <4>5. QED
        BY <3>1, <3>2, <4>3, <4>4 DEF Covers
    <3>3. QED
      BY <3>1, <3>2 DEF Covers, n
  <2>4. CASE T # {}
    <3> DEFINE m == Max(T)
    <3>1. IsIntSet(T)
      <4>1. IsFiniteSet(from .. upto - 1) /\ from .. upto - 1 \subseteq Int
        BY <1>0, FS_Interval
      <4> HIDE DEF T
      <4>2. IsFiniteSet(T)
        BY <2>2, <4>1, FS_Subset
      <4>3. QED
        BY <2>2, <2>4, <4>1, <4>2 DEF IsIntSet
    <3> HIDE DEF T
    <3>2. m \in T /\ \A y \in T : y <= m
      BY <3>1, GreatestElement
    <3>3. n = m + 1
      BY <2>1, <2>4
    <3> HIDE DEF m, n
    <3>4. m \in from .. upto - 1
      BY <2>2, <3>2
    <3>5. n \in 0 .. NumBatches
      BY <1>0, <3>3, <3>4
    <3>6. ASSUME NEW c \in 0 .. upto - 1, Touches(c, l) PROVE n > c
      <4>1. CASE c \in from .. upto - 1
        <5>1. c <= m
          BY <2>2, <3>2, <3>6, <4>1
        <5>2. QED
          BY <3>3, <3>4, <5>1
      <4>2. CASE c \notin from .. upto - 1
        BY <3>3, <3>4, <4>2
      <4>3. QED
        BY <4>1, <4>2
    <3>7. QED
      BY <3>5, <3>6 DEF Covers, n
  <2>5. QED
    BY <2>3, <2>4
<1>2. Entered(state, from, upto) = [l \in Locks |-> Entered(state, from, upto)[l]]
  BY DEF Entered
<1>3. QED
  BY <1>1, <1>2

\* The state of a tile is past every batch before it that touches a lock block.
LEMMA StateFacts ==
  ASSUME InputInv, BasicOK, ConflictInv, NEW sm \in Sms, NEW t \in Tiles, KeepsState
  PROVE  /\ StateFor(sm, t) \in [Locks -> 0 .. NumBatches]
         /\ \A l \in Locks : Covers(StateFor(sm, t)[l], t.group, l)
<1>0. IsConfig
  BY InputFacts
<1>1. /\ ConflictRow(t) \in 0 .. NumHeads - 1 /\ t.group \in Groups /\ Groups = Batches /\ NumBatches \in Nat
  <2>1. Path # "dq"
    BY DEF KeepsState
  <2>2. QED
    BY <1>0, <2>1, TileFacts, GroupFacts, ConfigFacts
<1>2. t.group \in 0 .. NumBatches
  BY <1>1 DEF Batches
<1>3. lastTile[sm] \in TileType /\ conflict[sm] \in [0 .. NumHeads - 1 -> [Locks -> 0 .. NumBatches]]
  BY DEF BasicOK, ProducerOK, ConflictOK
<1>4. lastTile[sm].group \in Nat
  BY <1>0, <1>3, GroupFacts DEF TileType
<1>5. EnterFrom(sm, t) \in Nat
  BY <1>4 DEF EnterFrom
<1> DEFINE st == conflict[sm][ConflictRow(t)]
           from == EnterFrom(sm, t)
<1>6. st \in [Locks -> 0 .. NumBatches]
  BY <1>1, <1>3
<1>7. ASSUME NEW l \in Locks PROVE from = 0 \/ Covers(st[l], from, l)
  <2>1. CASE ConflictRow(t) = ConflictRow(lastTile[sm])
    <3>1. Covers(conflict[sm][ConflictRow(lastTile[sm])][l], lastTile[sm].group, l)
      BY DEF ConflictInv
    <3>2. from = lastTile[sm].group
      BY <2>1 DEF EnterFrom
    <3>3. QED
      BY <2>1, <3>1, <3>2
  <2>2. CASE ConflictRow(t) # ConflictRow(lastTile[sm])
    BY <2>2 DEF EnterFrom
  <2>3. QED
    BY <2>1, <2>2
<1>8. StateFor(sm, t) = Entered(st, from, t.group)
  BY DEF StateFor
<1> HIDE DEF st, from
<1>9. from \in Nat
  BY <1>5 DEF from
<1>10. QED
  BY <1>0, <1>2, <1>6, <1>7, <1>8, <1>9, EnteredFacts

\* A tile that is not a hole makes its visit, except in dq.
LEMMA OwnVisit ==
  ASSUME IsConfig, NEW t \in Tiles, ~IsHole(t), Path # "dq"
  PROVE  IsVisit([batch |-> t.group, block |-> t.outer]) /\ IsVisitOf(t, [batch |-> t.group, block |-> t.outer])
<1> DEFINE v == [batch |-> t.group, block |-> t.outer]
<1>1. TileVisits(t, {v})
  BY OneBatchStretch
<1>2. IsVisitOf(t, v)
  BY <1>1 DEF TileVisits
<1>3. IsVisit(v)
  BY <1>2, VisitOfIsVisit
<1>4. QED
  BY <1>2, <1>3

\* A message is made of the state, and the state goes on.
LEMMA HandConflict ==
  ASSUME InputInv, BasicOK, ConflictInv, NEW sm \in Sms, Hand(sm)
  PROVE  ConflictInv' /\ BasicOK'
<1> DEFINE t == HandTile(sm)
           v == [batch |-> t.group, block |-> t.outer]
           st == StateFor(sm, t)
           w == IF KeepsState THEN Work("tile", t, st[LeftLock(v)], st[RightLock(v)]) ELSE Work("tile", t, 0, 0)
<1>0. IsConfig /\ NumBatches \in Nat
  BY InputFacts, ConfigFacts
<1>1. t \in Tiles /\ ~IsHole(t)
  BY HandEffect
<1>2. /\ lastTile' = [lastTile EXCEPT ![sm] = t] /\ slot' = [slot EXCEPT ![sm] = w]
      /\ conflict' = IF KeepsState THEN [conflict EXCEPT ![sm][ConflictRow(t)] = st] ELSE conflict
      /\ producerPc' = [producerPc EXCEPT ![sm] = "prefetch"]
      /\ UNCHANGED <<inputs, handedOut, nextId, consumerVars, lockVars, sum>>
  BY DEF Hand, HandTile
<1>3. config' = config
  BY <1>2 DEF inputs
<1>4. t \in TileType /\ ConflictRow(t) \in 0 .. NumHeads - 1
  BY <1>0, <1>1, TileFacts
<1>5. KeepsState => /\ st \in [Locks -> 0 .. NumBatches] /\ \A l \in Locks : Covers(st[l], t.group, l)
                    /\ Path # "dq" /\ LeftLock(v) \in Locks /\ RightLock(v) \in Locks
  <2>1. ASSUME KeepsState PROVE Path # "dq" /\ LeftLock(v) \in Locks /\ RightLock(v) \in Locks
    <3>1. Path # "dq"
      BY <2>1 DEF KeepsState
    <3>2. IsVisit(v)
      BY <1>0, <1>1, <3>1, OwnVisit
    <3>3. QED
      BY <1>0, <3>1, <3>2, VisitGeometry
  <2>2. QED
    BY <1>1, <2>1, StateFacts
<1> HIDE DEF st, t
<1>6. w \in WorkType /\ w.kind = "tile" /\ w.tile = t
  BY <1>0, <1>4, <1>5 DEF Work, WorkType
<1>7. w \in Works /\ WorkCovers(w)
  <2>1. w \in Works
    BY <1>1, <1>6 DEF Works
  <2>2. CASE KeepsState
    <3>1. w.left = st[LeftLock(v)] /\ w.right = st[RightLock(v)]
      BY <2>2 DEF Work
    <3>2. Covers(w.left, t.group, LeftLock(v)) /\ Covers(w.right, t.group, RightLock(v))
      BY <1>5, <2>2, <3>1
    <3> HIDE DEF w
    <3>3. QED
      BY <1>6, <2>1, <3>2 DEF WorkCovers
  <2>3. CASE ~KeepsState
    BY <2>1, <2>3 DEF WorkCovers
  <2>4. QED
    BY <2>2, <2>3
<1> HIDE DEF w, v
<1>8. /\ lastTile \in [Sms -> TileType] /\ slot \in [Sms -> Works]
      /\ conflict \in [Sms -> [0 .. NumHeads - 1 -> [Locks -> 0 .. NumBatches]]]
      /\ producerPc \in [Sms -> {"hand", "prefetch", "done"}]
  BY DEF BasicOK, ProducerOK, WorksOK, ConflictOK
<1>9. /\ lastTile'[sm] = t /\ (\A s \in Sms : s # sm => lastTile'[s] = lastTile[s]) /\ lastTile' \in [Sms -> TileType]
      /\ slot'[sm] = w /\ (\A s \in Sms : s # sm => slot'[s] = slot[s]) /\ slot' \in [Sms -> Works]
  BY <1>2, <1>4, <1>7, <1>8
<1>10. conflict' \in [Sms -> [0 .. NumHeads - 1 -> [Locks -> 0 .. NumBatches]]]
  BY <1>2, <1>4, <1>5, <1>8
<1>11. /\ KeepsState => conflict'[sm][ConflictRow(t)] = st
       /\ ~KeepsState => conflict' = conflict
       /\ \A s \in Sms : s # sm => conflict'[s] = conflict[s]
  BY <1>2, <1>4, <1>8
<1>12. BasicOK'
  <2>1. ProducerOK'
    <3>1. producerPc' \in [Sms -> {"hand", "prefetch", "done"}]
      BY <1>2, <1>8
    <3>2. QED
      BY <1>2, <1>3, <1>9, <3>1, SameConfig DEF BasicOK, ProducerOK
  <2>2. WorksOK'
    BY <1>2, <1>3, <1>9, SameConfig DEF BasicOK, WorksOK, consumerVars
  <2>3. ConflictOK'
    BY <1>3, <1>10, SameConfig DEF ConflictOK
  <2>4. LocksOK' /\ SumOK'
    BY <1>2, <1>3, SameConfig DEF BasicOK, LocksOK, SumOK, consumerVars, lockVars
  <2>5. QED
    BY <2>1, <2>2, <2>3, <2>4 DEF BasicOK
<1>13. ConflictInv'
  <2>1. ASSUME KeepsState, NEW s \in Sms, NEW l \in Locks
        PROVE  Covers(conflict'[s][ConflictRow(lastTile'[s])], lastTile'[s].group, l) \/ TRUE
    OBVIOUS
  <2>2. ASSUME KeepsState, NEW s \in Sms, NEW l \in Locks
        PROVE  Covers(conflict'[s][ConflictRow(lastTile'[s])][l], lastTile'[s].group, l)
    <3>1. CASE s = sm
      BY <1>5, <1>9, <1>11, <2>2, <3>1
    <3>2. CASE s # sm
      <4>1. Covers(conflict[s][ConflictRow(lastTile[s])][l], lastTile[s].group, l)
        BY <2>2 DEF ConflictInv
      <4>2. QED
        BY <1>9, <1>11, <3>2, <4>1
    <3>3. QED
      BY <3>1, <3>2
  <2>3. \A s \in Sms : WorkCovers(slot'[s]) /\ WorkCovers(ahead'[s]) /\ WorkCovers(current'[s])
    BY <1>2, <1>7, <1>9 DEF ConflictInv, consumerVars
  <2>4. ASSUME NEW s \in Sms, Path = "dq", todo'[s] # <<>>, todo'[s][1].op # "enter", NEW l \in Locks
        PROVE  Covers(conflict'[s][0][l], todo'[s][1].visit.batch, l)
    <3>1. ~KeepsState
      BY <2>4 DEF KeepsState
    <3>2. conflict' = conflict /\ todo' = todo
      BY <1>2, <1>11, <3>1 DEF consumerVars
    <3>3. QED
      BY <2>4, <3>2 DEF ConflictInv, Visit
  <2>5. QED
    BY <1>3, <2>2, <2>3, <2>4, SameConfig DEF ConflictInv, Visit
<1>14. QED
  BY <1>12, <1>13

-------------------------------------------------------------------------------
(* The frame of the invariant, and an action of an epilogue.                 *)

Frame == InputInv /\ BasicOK /\ AllSuffix /\ OnePlace /\ AheadInv /\ ConflictInv

\* SM sm does action a, the (k + 1)-st of tile t, and goes on to the (k + n + 1)-st.
Acted(sm, t, k, n, a) ==
  /\ Did(sm, t, k, n) /\ n \in {1, 3} /\ (n = 3 => a.op = "add")
  /\ k + 1 \in DOMAIN epilogue[t] /\ a = epilogue[t][k + 1] /\ todo[sm] # <<>> /\ todo[sm][1] = a

\* A step of an epilogue does its first action.
LEMMA DoesActed ==
  ASSUME Frame, NEW sm \in Sms, NEW op, NEW n \in {1, 3}, Does(sm, op, n), n = 3 => op = "add"
  PROVE  \E t, k, a : Acted(sm, t, k, n, a) /\ a.op = op
<1>1. PICK t, k : Did(sm, t, k, n) /\ todo[sm][1] = epilogue[t][k + 1] /\ epilogue[t][k + 1].op = op /\ k + 1 \in DOMAIN epilogue[t]
  BY DoesEffect DEF Frame
<1> DEFINE a == epilogue[t][k + 1]
<1>2. Acted(sm, t, k, n, a) /\ a.op = op
  BY <1>1 DEF Acted, Does
<1>3. QED
  BY <1>2

\* The tile and the SM that act.
LEMMA ActedFacts ==
  ASSUME Frame, NEW sm \in Sms, NEW t, NEW k, NEW n, NEW a, Acted(sm, t, k, n, a)
  PROVE  /\ t \in Tiles /\ a \in ToSet(epilogue[t]) /\ k \in Nat /\ n \in Nat /\ DOMAIN epilogue[t] = 1 .. Len(epilogue[t])
         /\ k + n <= Len(epilogue[t]) /\ Len(epilogue[t]) \in Nat
         /\ Tile(sm) = t /\ HeadAt(sm) = HeadOf(t) /\ Visit(sm) = a.visit /\ Where(sm) = a.where /\ SideLock(sm) = SideLockOf(a)
         /\ ~Done(t, a) /\ UNCHANGED <<inputs, producerVars, slot, ahead, current>>
<1>1. InputInv /\ BasicOK /\ AllSuffix /\ OnePlace /\ AheadInv /\ ConflictInv
  BY DEF Frame
<1>2. /\ Did(sm, t, k, n) /\ n \in Nat /\ k + 1 \in DOMAIN epilogue[t] /\ a = epilogue[t][k + 1] /\ todo[sm][1] = a
  BY DEF Acted
<1>3. Runs(sm, t, k) /\ k + n <= Len(epilogue[t]) /\ UNCHANGED <<inputs, producerVars, slot, ahead, current>>
  BY <1>2 DEF Did
<1>4. t \in Tiles /\ Tile(sm) = t /\ HeadAt(sm) = HeadOf(t) /\ k \in Nat /\ Len(epilogue[t]) \in Nat
  BY <1>1, <1>3, RunsFacts
<1>5. Visit(sm) = a.visit /\ Where(sm) = a.where /\ SideLock(sm) = SideLockOf(a)
  BY <1>2 DEF Visit, Where, SideLock, SideLockOf
<1>6. a \in ToSet(epilogue[t])
  BY <1>2 DEF ToSet
<1>7. Done(t, epilogue[t][k + 1]) <=> k + 1 <= k
  BY <1>1, <1>2, DidDone
<1>8. ~Done(t, a)
  BY <1>2, <1>4, <1>7
<1>9. DOMAIN epilogue[t] = 1 .. Len(epilogue[t])
  BY <1>1, <1>4, InputFacts
<1>10. QED
  BY <1>2, <1>3, <1>4, <1>5, <1>6, <1>8, <1>9

\* The action is done, and when it is an add that ends nothing, so are its reset and publish.
LEMMA ActedDone ==
  ASSUME Frame, NEW sm \in Sms, NEW t, NEW k, NEW n, NEW a, Acted(sm, t, k, n, a)
  PROVE  \A u \in Tiles : \A b \in ToSet(epilogue[u]) :
           /\ Done(u, b) => Done(u, b)'
           /\ b.op \notin {"reset", "publish"} => (Done(u, b)' <=> Done(u, b) \/ (u = t /\ b = a))
<1>1. InputInv /\ BasicOK /\ AllSuffix /\ OnePlace /\ AheadInv
  BY DEF Frame
<1> DEFINE e == epilogue[t]
<1>2. Did(sm, t, k, n) /\ n \in {1, 3} /\ (n = 3 => a.op = "add") /\ k + 1 \in DOMAIN e /\ a = e[k + 1]
  BY DEF Acted
<1>3. t \in Tiles /\ k \in Nat /\ n \in Nat /\ DOMAIN e = 1 .. Len(e) /\ Len(e) \in Nat
  BY ActedFacts
<1>4. \A i \in DOMAIN e : (Done(t, e[i]) <=> i <= k) /\ (Done(t, e[i])' <=> i <= k + n)
  BY <1>1, <1>2, <1>3, DidDone
<1>5. \A u \in Tiles : \A b \in ToSet(epilogue[u]) : u # t => (Done(u, b)' <=> Done(u, b))
  BY <1>1, <1>2, <1>3, DidDone
<1>6. Adjacent(e)
  BY <1>1, <1>3, InputFacts DEF EpilogueShape
<1>7. \A i \in DOMAIN e : e[i] = e[k + 1] => i = k + 1
  BY <1>1, <1>2, <1>3, Distinct
<1>8. ASSUME NEW b \in ToSet(e)
      PROVE  /\ Done(t, b) => Done(t, b)'
             /\ b.op \notin {"reset", "publish"} => (Done(t, b)' <=> Done(t, b) \/ b = a)
  <2>1. PICK i \in DOMAIN e : b = e[i]
    BY DEF ToSet
  <2>2. (Done(t, b) <=> i <= k) /\ (Done(t, b)' <=> i <= k + n)
    <3>1. epilogue' = epilogue
      BY <1>2 DEF Did, inputs
    <3>2. b = epilogue[t][i] /\ i \in DOMAIN epilogue[t]
      BY <2>1
    <3>3. Done(t, b)' <=> Done(t, epilogue[t][i])'
      BY <3>1, <3>2 DEF Done, Remains
    <3>4. QED
      BY <1>4, <2>1, <3>2, <3>3
  <2>3. n = 3 => e[k + 2].op = "reset" /\ e[k + 3].op = "publish"
    <3> DEFINE j == k + 1
    <3>0. j \in DOMAIN e /\ (n = 3 => e[j].op = "add")
      BY <1>2
    <3> HIDE DEF e, j
    <3>4. n = 3 => e[j + 1] = Act("reset", e[j].visit, e[j].where) /\ e[j + 2] = Act("publish", e[j].visit, e[j].where)
      BY <1>6, <3>0 DEF Adjacent
    <3>1. n = 3 => e[j + 1].op = "reset" /\ e[j + 2].op = "publish"
      BY <3>4 DEF Act
    <3> USE DEF j
    <3>2. (k + 1) + 1 = k + 2 /\ (k + 1) + 2 = k + 3
      BY <1>3
    <3>3. QED
      BY <3>1, <3>2
  <2>4. b = a <=> i = k + 1
    BY <1>2, <1>7, <2>1
  <2> HIDE DEF e
  <2>5. i \in Nat
    BY <1>3
  <2>6. i <= k => i <= k + n
    BY <1>3, <2>5
  <2>7. b.op \notin {"reset", "publish"} => (i <= k + n <=> i <= k \/ i = k + 1)
    <3>1. CASE n = 1
      BY <1>3, <2>5, <3>1
    <3>2. CASE n = 3
      <4>1. b.op \notin {"reset", "publish"} => i # k + 2 /\ i # k + 3
        BY <2>1, <2>3, <3>2
      <4>2. QED
        BY <1>3, <2>5, <3>2, <4>1
    <3>3. QED
      BY <1>2, <3>1, <3>2
  <2>8. QED
    BY <2>2, <2>4, <2>6, <2>7
<1>9. QED
  BY <1>3, <1>5, <1>8

\* Ranks are integers.
LEMMA RankInt ==
  ASSUME InputInv, NEW t \in Tiles, NEW x \in ToSet(epilogue[t])
  PROVE  Rank(x) \in Int
<1>1. x.op # "enter" => x \in ActsOf(t, x.visit)
  BY ActFacts
<1>2. CASE x.op = "enter"
  BY <1>2 DEF Rank
<1>3. CASE x.op # "enter"
  <2> DEFINE v == x.visit
  <2>1. x \in ActsOf(t, v)
    BY <1>1, <1>3
  <2> HIDE DEF v
  <2>2. Rank(x) \in 1 .. 14
    BY <2>1, RankPositive
  <2>3. QED
    BY <2>2
<1>4. QED
  BY <1>2, <1>3

\* Actions of the same visit and a lesser rank are done.
LEMMA DoneEarlier ==
  ASSUME Frame, NEW sm \in Sms, NEW t, NEW k, NEW n, NEW a, Acted(sm, t, k, n, a),
         NEW b \in ToSet(epilogue[t]), b.visit = a.visit, Rank(b) < Rank(a)
  PROVE  Done(t, b)
<1>1. InputInv /\ BasicOK /\ AllSuffix /\ OnePlace /\ AheadInv
  BY DEF Frame
<1>2. Did(sm, t, k, n) /\ k + 1 \in DOMAIN epilogue[t] /\ a = epilogue[t][k + 1]
  BY DEF Acted
<1>3. t \in Tiles /\ k \in Nat /\ n \in Nat /\ DOMAIN epilogue[t] = 1 .. Len(epilogue[t]) /\ a \in ToSet(epilogue[t])
  BY ActedFacts
<1>4. Did(sm, t, k, n) /\ \A i \in DOMAIN epilogue[t] : Done(t, epilogue[t][i])' <=> i <= k + n
  BY <1>1, <1>2, <1>3, DidDone
<1>5. \A i \in DOMAIN epilogue[t] : Done(t, epilogue[t][i]) <=> i <= k
  BY <1>1, <1>2, <1>3, DidDone
<1>6. PICK i \in DOMAIN epilogue[t] : b = epilogue[t][i]
  BY DEF ToSet
<1>7. InOrder(epilogue[t])
  BY <1>1, <1>3, InputFacts DEF EpilogueShape
<1>8. Rank(a) \in Int /\ Rank(b) \in Int
  BY <1>1, <1>3, RankInt
<1>9. k + 1 < i => Rank(a) < Rank(b)
  BY <1>2, <1>6, <1>7 DEF InOrder
<1>10. i # k + 1
  BY <1>2, <1>6, <1>8
<1>11. i <= k
  BY <1>3, <1>8, <1>9, <1>10
<1>12. QED
  BY <1>5, <1>6, <1>11

\* The action that comes next.
NextIs(sm, a, n) ==
  todo'[sm] # <<>> =>
    LET b == todo'[sm][1]
    IN  /\ b.op = "reset" => a.op = "add" /\ n = 1 /\ b.visit = a.visit /\ b.where = a.where
        /\ b.op = "publish" => a.op = "reset" /\ b.visit = a.visit /\ b.where = a.where
        /\ b.op = "store" /\ Path = "fwd" => a.op = "load" /\ b.visit = a.visit
        /\ b.op # "enter" /\ Path = "dq" => b.visit.batch = a.visit.batch

\* A reset and its publish follow an add that has counted two.
LEMMA NextHead ==
  ASSUME Frame, NEW sm \in Sms, NEW t, NEW k, NEW n, NEW a, Acted(sm, t, k, n, a)
  PROVE  /\ NextIs(sm, a, n)
         /\ a.op = "reset" => todo'[sm] # <<>> /\ todo'[sm][1] = Act("publish", a.visit, a.where)
         /\ a.op = "add" /\ n = 1 => todo'[sm] # <<>> /\ todo'[sm][1] = Act("reset", a.visit, a.where)
<1> DEFINE e == epilogue[t]
<1>1. InputInv
  BY DEF Frame
<1>2. Did(sm, t, k, n) /\ n \in {1, 3} /\ (n = 3 => a.op = "add") /\ k + 1 \in DOMAIN e /\ a = e[k + 1]
  BY DEF Acted
<1>3. t \in Tiles /\ k \in Nat /\ n \in Nat /\ k + n <= Len(e) /\ DOMAIN e = 1 .. Len(e) /\ Len(e) \in Nat /\ e \in Seq(ActType)
  BY <1>1, ActedFacts, InputFacts
<1>4. epilogue' = epilogue /\ todo'[sm] = SubSeq(e, k + n + 1, Len(e))
  BY <1>2 DEF Did, Runs, inputs
<1>5. Adjacent(e) /\ EnteredFirst(e)
  BY <1>1, <1>3, InputFacts DEF EpilogueShape
<1> DEFINE s == todo'[sm]
<1>6. /\ DOMAIN s = 1 .. Len(e) - (k + n) /\ \A i \in 1 .. Len(e) - (k + n) : s[i] = e[(k + n) + i]
      /\ s = <<>> <=> k + n = Len(e)
  <2>1. k + n \in 0 .. Len(e)
    BY <1>3
  <2> HIDE DEF e
  <2> DEFINE m == k + n
  <2>2. e \in Seq(ActType) /\ m \in 0 .. Len(e) /\ s = SubSeq(e, m + 1, Len(e))
    BY <1>3, <1>4, <2>1
  <2> HIDE DEF s, m
  <2>3. /\ DOMAIN s = 1 .. Len(e) - m /\ \A i \in 1 .. Len(e) - m : s[i] = e[m + i]
        /\ s = <<>> <=> m = Len(e)
    BY <2>2, SuffixAt, SMT
  <2>4. QED
    BY <2>3 DEF m
<1> HIDE DEF s, e
<1>7. s # <<>> <=> k + n + 1 \in DOMAIN e
  <2>0. k \in Nat /\ n \in Nat /\ k + n <= Len(e) /\ Len(e) \in Nat
    BY <1>3
  <2>1. k + n # Len(e) <=> k + n + 1 \in 1 .. Len(e)
    BY <2>0
  <2>2. QED
    BY <1>3, <1>6, <2>1
<1>8. s # <<>> => s[1] = e[k + n + 1]
  <2>0. k \in Nat /\ n \in Nat /\ k + n <= Len(e) /\ Len(e) \in Nat
    BY <1>3
  <2>1. k + n # Len(e) => 1 \in 1 .. Len(e) - (k + n)
    BY <2>0
  <2>2. QED
    BY <1>6, <2>1
<1>9. n = 3 => /\ k + 2 \in DOMAIN e /\ k + 3 \in DOMAIN e
               /\ e[k + 2] = Act("reset", a.visit, a.where) /\ e[k + 3] = Act("publish", a.visit, a.where)
  <2>1. n = 3 => /\ (k + 1) + 2 \in DOMAIN e
                 /\ e[(k + 1) + 1] = Act("reset", a.visit, a.where) /\ e[(k + 1) + 2] = Act("publish", a.visit, a.where)
    BY <1>2, <1>5 DEF Adjacent
  <2>2. (k + 1) + 1 = k + 2 /\ (k + 1) + 2 = k + 3
    BY <1>3
  <2>3. (k + 3) \in 1 .. Len(e) => k + 2 \in 1 .. Len(e)
    BY <1>3
  <2>4. QED
    BY <1>3, <2>1, <2>2, <2>3
<1> DEFINE i == k + n + 1
           b == e[i]
           p == e[i - 1]
<1>10. i \in DOMAIN e =>
         /\ b.op = "reset" => p = Act("add", b.visit, b.where)
         /\ b.op = "publish" => p = Act("reset", b.visit, b.where)
         /\ b.op = "store" /\ Path = "fwd" => p = Act("load", b.visit, 0)
         /\ Path = "dq" /\ b.op # "enter" => p.visit.batch = b.visit.batch
  <2> HIDE DEF i
  <2>1. QED
    BY <1>5 DEF Adjacent, EnteredFirst
<1>11. p = IF n = 1 THEN a ELSE Act("publish", a.visit, a.where)
  <2>1. CASE n = 1
    <3>1. i - 1 = k + 1
      BY <1>3, <2>1
    <3>2. QED
      BY <1>2, <2>1, <3>1
  <2>2. CASE n = 3
    <3>1. i - 1 = k + 3
      BY <1>3, <2>2
    <3>2. QED
      BY <1>9, <2>2, <3>1
  <2>3. QED
    BY <1>2, <2>1, <2>2
<1>12. s # <<>> => i \in DOMAIN e /\ s[1] = b
  BY <1>7, <1>8
<1>13. NextIs(sm, a, n)
  <2> HIDE DEF i, b, p
  <2>1. QED
    BY <1>2, <1>10, <1>11, <1>12 DEF NextIs, Act, s
<1>14. a.op = "reset" => s # <<>> /\ s[1] = Act("publish", a.visit, a.where)
  <2> SUFFICES ASSUME a.op = "reset" PROVE s # <<>> /\ s[1] = Act("publish", a.visit, a.where)
    OBVIOUS
  <2>1. n = 1
    BY <1>2
  <2>2. (k + 1) > 1 /\ e[(k + 1) - 1] = Act("add", a.visit, a.where)
    BY <1>2, <1>5 DEF Adjacent
  <2>3. k \in DOMAIN e /\ e[k] = Act("add", a.visit, a.where)
    BY <1>2, <1>3, <2>2
  <2>4. k + 2 \in DOMAIN e /\ e[k + 2] = Act("publish", a.visit, a.where)
    <3>1. e[k].op = "add" /\ e[k].visit = a.visit /\ e[k].where = a.where
      BY <2>3 DEF Act
    <3> HIDE DEF i, b, p
    <3>2. QED
      BY <1>5, <2>3, <3>1 DEF Adjacent
  <2>5. k + n + 1 = k + 2
    BY <1>3, <2>1
  <2>6. QED
    BY <1>7, <1>8, <2>4, <2>5
<1>15. a.op = "add" /\ n = 1 => s # <<>> /\ s[1] = Act("reset", a.visit, a.where)
  <2> SUFFICES ASSUME a.op = "add", n = 1 PROVE s # <<>> /\ s[1] = Act("reset", a.visit, a.where)
    OBVIOUS
  <2>1. (k + 1) + 2 \in DOMAIN e /\ e[(k + 1) + 1] = Act("reset", a.visit, a.where)
    BY <1>2, <1>5 DEF Adjacent
  <2>2. k + n + 1 = (k + 1) + 1 /\ k + n + 1 \in DOMAIN e
    BY <1>3, <2>1
  <2>3. QED
    BY <1>7, <1>8, <2>1, <2>2
<1>16. QED
  BY <1>13, <1>14, <1>15 DEF s

-------------------------------------------------------------------------------
(* Steps that keep the frame.                                                *)

HasPart(t, v) == HasData(v.batch, v.block, StepOf(t))

\* Actions of each kind.
LEMMA ActShape ==
  ASSUME InputInv, NEW t \in Tiles, NEW a \in ToSet(epilogue[t])
  PROVE  /\ LeftLock(a.visit) \in Locks /\ RightLock(a.visit) \in Locks
         /\ a.op = "await" =>
              config.deterministic /\ a = Act("await", a.visit, a.where) /\ a.where \in {LeftLock(a.visit), RightLock(a.visit)}
         /\ a.op \in {"add", "reset", "publish"} =>
              /\ config.deterministic /\ a = Act(a.op, a.visit, a.where) /\ a.where \in {"left", "right"}
              /\ SideLockOf(a) \in {LeftLock(a.visit), RightLock(a.visit)}
         /\ a.op \in {"lock", "unlock"} =>
              /\ Path = "fwd" /\ HasPart(t, a.visit) /\ a = Act(a.op, a.visit, a.where)
              /\ a.where \in {LeftLock(a.visit), RightLock(a.visit)}
         /\ a.op = "load" => Path = "fwd" /\ HasPart(t, a.visit) /\ a = Act("load", a.visit, 0)
         /\ a.op = "store" => HasPart(t, a.visit) /\ a = Act("store", a.visit, 0)
<1>1. IsConfig /\ IsVisit(a.visit) /\ (a.op # "enter" => a \in ActsOf(t, a.visit))
  BY ActFacts, InputFacts
<1>2. LeftLock(a.visit) \in Locks /\ RightLock(a.visit) \in Locks
  BY <1>1, VisitGeometry
<1> DEFINE v == a.visit
<1>3. ASSUME a \in ActsOf(t, v)
      PROVE  \/ config.deterministic /\ \E l \in {LeftLock(v), RightLock(v)} : a = Act("await", v, l)
             \/ config.deterministic /\ \E op \in {"add", "reset", "publish"}, side \in {"left", "right"} : a = Act(op, v, side)
             \/ HasPart(t, v) /\ a = Act("store", v, 0)
             \/ HasPart(t, v) /\ Path = "fwd" /\ a = Act("load", v, 0)
             \/ HasPart(t, v) /\ Path = "fwd" /\ \E op \in {"lock", "unlock"}, l \in {LeftLock(v), RightLock(v)} : a = Act(op, v, l)
  <2> HIDE DEF v
  <2>1. \/ config.deterministic /\ a \in AwaitActs(v)
        \/ config.deterministic /\ a \in ArriveActs(v)
        \/ HasPart(t, v) /\ a = Act("store", v, 0)
        \/ HasPart(t, v) /\ Path = "fwd" /\ a = Act("load", v, 0)
        \/ HasPart(t, v) /\ Path = "fwd" /\ a \in MutexActs(v)
    BY <1>3 DEF ActsOf, HasPart
  <2>2. QED
    BY <2>1 DEF AwaitActs, ArriveActs, MutexActs
<1>4. a \in ActsOf(t, v) =>
         /\ a.op = "await" =>
              config.deterministic /\ a = Act("await", v, a.where) /\ a.where \in {LeftLock(v), RightLock(v)}
         /\ a.op \in {"add", "reset", "publish"} =>
              /\ config.deterministic /\ a = Act(a.op, v, a.where) /\ a.where \in {"left", "right"}
         /\ a.op \in {"lock", "unlock"} =>
              /\ Path = "fwd" /\ HasPart(t, v) /\ a = Act(a.op, v, a.where)
              /\ a.where \in {LeftLock(v), RightLock(v)}
         /\ a.op = "load" => Path = "fwd" /\ HasPart(t, v) /\ a = Act("load", v, 0)
         /\ a.op = "store" => HasPart(t, v) /\ a = Act("store", v, 0)
  <2> HIDE DEF v
  <2>1. QED
    BY <1>3 DEF Act
<1>5. a.op \in {"add", "reset", "publish"} => SideLockOf(a) \in {LeftLock(v), RightLock(v)}
  BY DEF SideLockOf
<1>6. QED
  BY <1>1, <1>2, <1>4, <1>5

\* The other actions of the same visit.
LEMMA ActSiblings ==
  ASSUME InputInv, NEW t \in Tiles, NEW a \in ToSet(epilogue[t])
  PROVE  /\ \A l \in {LeftLock(a.visit), RightLock(a.visit)} :
              /\ config.deterministic => Act("await", a.visit, l) \in ToSet(epilogue[t])
              /\ HasPart(t, a.visit) /\ Path = "fwd" =>
                   Act("lock", a.visit, l) \in ToSet(epilogue[t]) /\ Act("unlock", a.visit, l) \in ToSet(epilogue[t])
         /\ HasPart(t, a.visit) => Act("store", a.visit, 0) \in ToSet(epilogue[t])
         /\ config.deterministic => \A side \in {"left", "right"} : Act("add", a.visit, side) \in ToSet(epilogue[t])
<1> DEFINE v == a.visit
<1>1. ActsOf(t, v) \subseteq ToSet(epilogue[t])
  BY ActFacts
<1> HIDE DEF v
<1>2. config.deterministic => AwaitActs(v) \subseteq ActsOf(t, v) /\ ArriveActs(v) \subseteq ActsOf(t, v)
  BY DEF ActsOf
<1>3. HasPart(t, v) /\ Path = "fwd" => MutexActs(v) \subseteq ActsOf(t, v)
  BY DEF ActsOf, HasPart
<1>4. HasPart(t, v) => Act("store", v, 0) \in ActsOf(t, v)
  BY DEF ActsOf, HasPart
<1>5. \A l \in {LeftLock(v), RightLock(v)} :
        Act("await", v, l) \in AwaitActs(v) /\ Act("lock", v, l) \in MutexActs(v) /\ Act("unlock", v, l) \in MutexActs(v)
  BY DEF AwaitActs, MutexActs
<1>6. \A side \in {"left", "right"} : Act("add", v, side) \in ArriveActs(v)
  BY DEF ArriveActs
<1>7. QED
  BY <1>1, <1>2, <1>3, <1>4, <1>5, <1>6 DEF v

-------------------------------------------------------------------------------
\* To do an action keeps the frame, when the state of the batches does.
LEMMA ActedFrame ==
  ASSUME Frame, NEW sm \in Sms, NEW t, NEW k, NEW n, NEW a, Acted(sm, t, k, n, a),
         ConflictOK', LocksOK', SumOK', KeepsState => conflict' = conflict,
         \A s \in Sms : s # sm => conflict'[s] = conflict[s],
         Path = "dq" => \A l \in Locks : Covers(conflict'[sm][0][l], a.visit.batch, l)
  PROVE  Frame'
<1>1. InputInv /\ BasicOK /\ AllSuffix /\ OnePlace /\ AheadInv /\ ConflictInv
  BY DEF Frame
<1>2. Did(sm, t, k, n)
  BY DEF Acted
<1>3. OnePlace' /\ AllSuffix' /\ AheadInv' /\ WorksOK' /\ ProducerOK'
  BY <1>1, <1>2, DidPlaces
<1>4. /\ UNCHANGED inputs /\ config' = config /\ slot' = slot /\ ahead' = ahead /\ current' = current /\ lastTile' = lastTile
      /\ \A s \in Sms : s # sm => todo'[s] = todo[s]
  BY <1>2 DEF Did, inputs, producerVars
<1>5. InputInv'
  BY <1>1, <1>4, SameInputs
<1>6. BasicOK'
  BY <1>3 DEF BasicOK
<1>7. NextIs(sm, a, n)
  BY NextHead
<1>8. ASSUME NEW s \in Sms, Path = "dq", todo'[s] # <<>>, todo'[s][1].op # "enter", NEW l \in Locks
      PROVE  Covers(conflict'[s][0][l], todo'[s][1].visit.batch, l)
  <2>1. CASE s = sm
    <3>1. todo'[sm][1].visit.batch = a.visit.batch
      BY <1>7, <1>8, <2>1 DEF NextIs
    <3>2. QED
      BY <1>8, <2>1, <3>1
  <2>2. CASE s # sm
    <3>1. todo'[s] = todo[s] /\ conflict'[s] = conflict[s]
      BY <1>4, <2>2
    <3>2. QED
      BY <1>1, <1>8, <3>1 DEF ConflictInv, Visit
  <2>3. QED
    BY <2>1, <2>2
<1>9. ASSUME KeepsState, NEW s \in Sms, NEW l \in Locks
      PROVE  Covers(conflict'[s][ConflictRow(lastTile[s])][l], lastTile[s].group, l)
  BY <1>1, <1>9 DEF ConflictInv
<1>10. \A s \in Sms : WorkCovers(slot[s]) /\ WorkCovers(ahead[s]) /\ WorkCovers(current[s])
  BY <1>1 DEF ConflictInv
<1>11. ConflictInv'
  BY <1>4, <1>8, <1>9, <1>10, SameConfig DEF ConflictInv, Visit
<1>12. QED
  BY <1>3, <1>5, <1>6, <1>11 DEF Frame

\* What the conflict state of an SM covers stays covered.
LEMMA KeptConflict ==
  ASSUME Frame, NEW sm \in Sms, NEW t, NEW k, NEW n, NEW a, Acted(sm, t, k, n, a), a.op # "enter", conflict' = conflict,
         LocksOK', SumOK'
  PROVE  Frame'
<1>1. todo[sm] # <<>> /\ todo[sm][1] = a
  BY DEF Acted
<1>2. Path = "dq" => \A l \in Locks : Covers(conflict'[sm][0][l], a.visit.batch, l)
  BY <1>1 DEF Frame, ConflictInv, Visit
<1>3. ConflictOK'
  <2>1. config' = config
    BY ActedFacts DEF inputs
  <2>2. QED
    BY <2>1, SameConfig DEF Frame, BasicOK, ConflictOK
<1>4. QED
  BY <1>2, <1>3, ActedFrame

\* Types of what does not change.
LEMMA SameLocks ==
  ASSUME Frame, config' = config
  PROVE  /\ UNCHANGED lockVars => LocksOK'
         /\ UNCHANGED <<loaded, sum>> => SumOK'
BY SameConfig DEF Frame, BasicOK, LocksOK, SumOK, lockVars

\* To enter batches: the conflict state is then past the batches before.
LEMMA EnterFrame ==
  ASSUME Frame, NEW sm \in Sms, EnterBatches(sm)
  PROVE  Frame' /\ \E t, k, a : Acted(sm, t, k, 1, a) /\ a.op = "enter"
<1>1. PICK t, k, a : Acted(sm, t, k, 1, a) /\ a.op = "enter"
  BY DoesActed DEF EnterBatches
<1>2. /\ t \in Tiles /\ a \in ToSet(epilogue[t]) /\ Visit(sm) = a.visit /\ UNCHANGED inputs
  BY <1>1, ActedFacts
<1>3. InputInv /\ IsConfig /\ config' = config
  BY <1>2, InputFacts DEF Frame, inputs
<1>4. IsActOf(t, a) /\ a.visit.batch \in Batches
  BY <1>2, <1>3, ActFacts
<1>5. Path = "dq"
  <2>1. a \notin ActsOf(t, a.visit)
    <3> DEFINE v == a.visit
    <3> HIDE DEF v
    <3>1. a \notin ActsOf(t, v)
      BY <1>1, RankPositive
    <3>2. QED
      BY <3>1 DEF v
  <2>2. QED
    BY <1>4, <2>1 DEF IsActOf
<1>6. a.visit.batch \in 0 .. NumBatches /\ 0 \in 0 .. NumHeads - 1
  <2>1. NumBatches \in Nat /\ NumHeads \in Nat \ {0}
    BY <1>3, ConfigFacts, HeadFacts
  <2>2. \A b \in 0 .. NumBatches - 1 : b \in 0 .. NumBatches
    BY <2>1
  <2>3. QED
    BY <1>4, <2>1, <2>2 DEF Batches
<1> DEFINE st == Entered(conflict[sm][0], 0, a.visit.batch)
<1>7. conflict \in [Sms -> [0 .. NumHeads - 1 -> [Locks -> 0 .. NumBatches]]]
  BY DEF Frame, BasicOK, ConflictOK
<1>8. conflict' = [conflict EXCEPT ![sm][0] = st]
  BY <1>2 DEF EnterBatches
<1>9. st \in [Locks -> 0 .. NumBatches] /\ \A l \in Locks : Covers(st[l], a.visit.batch, l)
  <2>1. conflict[sm][0] \in [Locks -> 0 .. NumBatches]
    BY <1>6, <1>7
  <2> DEFINE c == conflict[sm][0]
             b == a.visit.batch
  <2> HIDE DEF c, b
  <2>2. c \in [Locks -> 0 .. NumBatches] /\ b \in 0 .. NumBatches
    BY <1>6, <2>1 DEF c, b
  <2>3. Entered(c, 0, b) \in [Locks -> 0 .. NumBatches] /\ \A l \in Locks : Covers(Entered(c, 0, b)[l], b, l)
    BY <1>3, <2>2, EnteredFacts
  <2>4. QED
    BY <2>3 DEF c, b
<1> HIDE DEF st
<1>10. /\ conflict' \in [Sms -> [0 .. NumHeads - 1 -> [Locks -> 0 .. NumBatches]]]
       /\ conflict'[sm][0] = st /\ \A s \in Sms : s # sm => conflict'[s] = conflict[s]
  BY <1>6, <1>7, <1>8, <1>9
<1>11. ConflictOK'
  BY <1>3, <1>10, SameConfig DEF ConflictOK
<1>12. LocksOK' /\ SumOK'
  BY <1>3, SameLocks DEF EnterBatches
<1>13. ~KeepsState
  BY <1>5 DEF KeepsState
<1>14. Path = "dq" => \A l \in Locks : Covers(conflict'[sm][0][l], a.visit.batch, l)
  BY <1>9, <1>10
<1>15. Frame'
  BY <1>1, <1>10, <1>11, <1>12, <1>13, <1>14, ActedFrame
<1>16. QED
  BY <1>1, <1>15

-------------------------------------------------------------------------------
(* The actions of an epilogue keep the frame.                                *)

\* Where an action of an epilogue takes place.
LEMMA ActWhere ==
  ASSUME InputInv, NEW t \in Tiles, NEW a \in ToSet(epilogue[t])
  PROVE  /\ HeadOf(t) \in LockHeads
         /\ a.op \in {"await", "lock", "unlock"} => a.where \in Locks
         /\ a.op \in {"add", "reset", "publish"} => SideLockOf(a) \in Locks
         /\ \A row \in RowsOf(a.visit) : row \in Rows /\ <<HeadOf(t), row>> \in Cells
         /\ AddCount(a.visit, "left") \in {1, 2} /\ AddCount(a.visit, "right") \in {1, 2}
<1>1. IsConfig /\ IsVisit(a.visit) /\ HeadOf(t) \in LockHeads
  BY ActFacts, InputFacts
<1>2. \A row \in RowsOf(a.visit) : row \in Rows /\ <<HeadOf(t), row>> \in Cells
  BY <1>1, RowOfVisit DEF Cells
<1>3. AddCount(a.visit, "left") \in {1, 2} /\ AddCount(a.visit, "right") \in {1, 2}
  BY <1>1, SidesOfLock
<1>4. QED
  BY <1>1, <1>2, <1>3, ActShape

\* To await a turn.
LEMMA AwaitFrame ==
  ASSUME Frame, NEW sm \in Sms, Await(sm)
  PROVE  Frame' /\ \E t, k, a : Acted(sm, t, k, 1, a) /\ a.op = "await"
<1>1. PICK t, k, a : Acted(sm, t, k, 1, a) /\ a.op = "await"
  BY DoesActed DEF Await
<1>2. config' = config
  BY <1>1, ActedFacts DEF inputs
<1>3. conflict' = conflict /\ LocksOK' /\ SumOK'
  BY <1>2, SameLocks DEF Await
<1>4. Frame'
  BY <1>1, <1>3, KeptConflict
<1>5. QED
  BY <1>1, <1>4

\* To take a mutex.
LEMMA LockFrame ==
  ASSUME Frame, NEW sm \in Sms, Lock(sm)
  PROVE  Frame' /\ \E t, k, a : /\ Acted(sm, t, k, 1, a) /\ a.op = "lock"
                                /\ mutex[HeadOf(t)][a.where] = 0
                                /\ mutex' = [mutex EXCEPT ![HeadOf(t)][a.where] = 1]
<1>1. PICK t, k, a : Acted(sm, t, k, 1, a) /\ a.op = "lock"
  BY DoesActed DEF Lock
<1>2. /\ t \in Tiles /\ a \in ToSet(epilogue[t]) /\ HeadAt(sm) = HeadOf(t) /\ Where(sm) = a.where /\ config' = config
  BY <1>1, ActedFacts DEF inputs
<1>3. /\ mutex[HeadOf(t)][a.where] = 0 /\ mutex' = [mutex EXCEPT ![HeadOf(t)][a.where] = 1]
      /\ UNCHANGED <<conflict, loaded, turn, count, sum>>
  BY <1>2 DEF Lock
<1>4. HeadOf(t) \in LockHeads /\ a.where \in Locks
  BY <1>1, <1>2, ActWhere DEF Frame
<1>5. LocksOK'
  BY <1>2, <1>3, <1>4, SameConfig DEF Frame, BasicOK, LocksOK
<1>6. SumOK'
  BY <1>2, <1>3, SameLocks
<1>7. Frame'
  BY <1>1, <1>3, <1>5, <1>6, KeptConflict
<1>8. QED
  BY <1>1, <1>3, <1>7

\* To give a mutex back.
LEMMA UnlockFrame ==
  ASSUME Frame, NEW sm \in Sms, Unlock(sm)
  PROVE  Frame' /\ \E t, k, a : /\ Acted(sm, t, k, 1, a) /\ a.op = "unlock"
                                /\ mutex' = [mutex EXCEPT ![HeadOf(t)][a.where] = 0]
<1>1. PICK t, k, a : Acted(sm, t, k, 1, a) /\ a.op = "unlock"
  BY DoesActed DEF Unlock
<1>2. /\ t \in Tiles /\ a \in ToSet(epilogue[t]) /\ HeadAt(sm) = HeadOf(t) /\ Where(sm) = a.where /\ config' = config
  BY <1>1, ActedFacts DEF inputs
<1>3. /\ mutex' = [mutex EXCEPT ![HeadOf(t)][a.where] = 0]
      /\ UNCHANGED <<conflict, loaded, turn, count, sum>>
  BY <1>2 DEF Unlock
<1>4. HeadOf(t) \in LockHeads /\ a.where \in Locks
  BY <1>1, <1>2, ActWhere DEF Frame
<1>5. LocksOK'
  BY <1>2, <1>3, <1>4, SameConfig DEF Frame, BasicOK, LocksOK
<1>6. SumOK'
  BY <1>2, <1>3, SameLocks
<1>7. Frame'
  BY <1>1, <1>3, <1>5, <1>6, KeptConflict
<1>8. QED
  BY <1>1, <1>3, <1>7

\* To load the rows of a block.
LEMMA LoadFrame ==
  ASSUME Frame, NEW sm \in Sms, Load(sm)
  PROVE  Frame' /\ \E t, k, a : /\ Acted(sm, t, k, 1, a) /\ a.op = "load"
                                /\ loaded'[sm] = [row \in RowsOf(a.visit) |-> sum[<<HeadOf(t), row>>]]
                                /\ \A s \in Sms : s # sm => loaded'[s] = loaded[s]
<1>1. PICK t, k, a : Acted(sm, t, k, 1, a) /\ a.op = "load"
  BY DoesActed DEF Load
<1>2. /\ t \in Tiles /\ a \in ToSet(epilogue[t]) /\ HeadAt(sm) = HeadOf(t) /\ Visit(sm) = a.visit /\ config' = config
  BY <1>1, ActedFacts DEF inputs
<1>3. /\ loaded' = [loaded EXCEPT ![sm] = [row \in RowsOf(a.visit) |-> sum[<<HeadOf(t), row>>]]]
      /\ UNCHANGED <<conflict, lockVars, sum>>
  BY <1>2 DEF Load
<1>4. DOMAIN loaded = Sms /\ \A s \in Sms : DOMAIN loaded[s] \subseteq Rows
  BY DEF Frame, BasicOK, SumOK
<1>5. /\ loaded'[sm] = [row \in RowsOf(a.visit) |-> sum[<<HeadOf(t), row>>]]
      /\ \A s \in Sms : s # sm => loaded'[s] = loaded[s]
      /\ DOMAIN loaded' = Sms
  BY <1>3, <1>4
<1>6. DOMAIN loaded'[sm] = RowsOf(a.visit) /\ RowsOf(a.visit) \subseteq Rows
  BY <1>2, <1>5, ActWhere DEF Frame
<1>7. \A s \in Sms : DOMAIN loaded'[s] \subseteq Rows
  BY <1>4, <1>5, <1>6
<1>8. SumOK'
  BY <1>2, <1>3, <1>5, <1>7, SameConfig DEF Frame, BasicOK, SumOK
<1>9. LocksOK'
  BY <1>2, <1>3, SameLocks
<1>10. Frame'
  BY <1>1, <1>3, <1>8, <1>9, KeptConflict
<1>11. QED
  BY <1>1, <1>5, <1>10

AddTotal(t, a) == count[HeadOf(t)][SideLockOf(a)] + AddCount(a.visit, a.where)

\* To count an arrival.
LEMMA AddFrame ==
  ASSUME Frame, NEW sm \in Sms, Add(sm)
  PROVE  Frame' /\ \E t, k, n, a : /\ Acted(sm, t, k, n, a) /\ a.op = "add" /\ (n = 1 <=> AddTotal(t, a) = 2)
                                   /\ count' = [count EXCEPT ![HeadOf(t)][SideLockOf(a)] = AddTotal(t, a)]
                                   /\ UNCHANGED <<turn, mutex, sum, loaded>>
<1> DEFINE total == count[HeadAt(sm)][SideLock(sm)] + AddCount(Visit(sm), Where(sm))
           m == IF total = 2 THEN 1 ELSE 3
<1>1. /\ Does(sm, "add", m) /\ count' = [count EXCEPT ![HeadAt(sm)][SideLock(sm)] = total]
      /\ UNCHANGED <<conflict, loaded, turn, mutex, sum>>
  BY DEF Add
<1>2. m \in {1, 3} /\ (m = 1 <=> total = 2)
  OBVIOUS
<1>3. PICK t, k, n, a : Acted(sm, t, k, n, a) /\ a.op = "add" /\ n = m
  <2> HIDE DEF m
  <2>1. QED
    BY <1>1, <1>2, DoesActed
<1>4. /\ t \in Tiles /\ a \in ToSet(epilogue[t]) /\ HeadAt(sm) = HeadOf(t) /\ Visit(sm) = a.visit /\ Where(sm) = a.where
      /\ SideLock(sm) = SideLockOf(a) /\ config' = config
  BY <1>3, ActedFacts DEF inputs
<1>5. total = AddTotal(t, a)
  BY <1>4 DEF AddTotal
<1>6. HeadOf(t) \in LockHeads /\ SideLockOf(a) \in Locks /\ AddCount(a.visit, a.where) \in {1, 2}
  <2>1. a.where \in {"left", "right"}
    BY <1>3, <1>4, ActShape DEF Frame
  <2>2. QED
    BY <1>3, <1>4, <2>1, ActWhere DEF Frame
<1>7. AddTotal(t, a) \in Int
  BY <1>6 DEF AddTotal, Frame, BasicOK, LocksOK
<1>8. count' = [count EXCEPT ![HeadOf(t)][SideLockOf(a)] = AddTotal(t, a)]
  BY <1>1, <1>4, <1>5
<1>9. LocksOK'
  <2>1. count \in [LockHeads -> [Locks -> Int]]
    BY DEF Frame, BasicOK, LocksOK
  <2>2. count' \in [LockHeads -> [Locks -> Int]]
    BY <1>6, <1>7, <1>8, <2>1
  <2>3. QED
    BY <1>1, <1>4, <2>2, SameConfig DEF Frame, BasicOK, LocksOK
<1>10. SumOK'
  BY <1>1, <1>4, SameLocks
<1>11. Frame'
  BY <1>1, <1>3, <1>9, <1>10, KeptConflict
<1>12. n = 1 <=> AddTotal(t, a) = 2
  BY <1>2, <1>3, <1>5
<1>13. QED
  BY <1>1, <1>3, <1>8, <1>11, <1>12

\* To reset a counter.
LEMMA ResetFrame ==
  ASSUME Frame, NEW sm \in Sms, Reset(sm)
  PROVE  Frame' /\ \E t, k, a : /\ Acted(sm, t, k, 1, a) /\ a.op = "reset"
                                /\ count' = [count EXCEPT ![HeadOf(t)][SideLockOf(a)] = 0]
                                /\ UNCHANGED <<turn, mutex, sum, loaded>>
<1>1. PICK t, k, a : Acted(sm, t, k, 1, a) /\ a.op = "reset"
  BY DoesActed DEF Reset
<1>2. /\ t \in Tiles /\ a \in ToSet(epilogue[t]) /\ HeadAt(sm) = HeadOf(t) /\ SideLock(sm) = SideLockOf(a) /\ config' = config
  BY <1>1, ActedFacts DEF inputs
<1>3. /\ count' = [count EXCEPT ![HeadOf(t)][SideLockOf(a)] = 0]
      /\ UNCHANGED <<conflict, loaded, turn, mutex, sum>>
  BY <1>2 DEF Reset
<1>4. HeadOf(t) \in LockHeads /\ SideLockOf(a) \in Locks
  BY <1>1, <1>2, ActWhere DEF Frame
<1>5. LocksOK'
  <2>1. count \in [LockHeads -> [Locks -> Int]]
    BY DEF Frame, BasicOK, LocksOK
  <2>2. count' \in [LockHeads -> [Locks -> Int]]
    BY <1>3, <1>4, <2>1
  <2>3. QED
    BY <1>2, <1>3, <2>2, SameConfig DEF Frame, BasicOK, LocksOK
<1>6. SumOK'
  BY <1>2, <1>3, SameLocks
<1>7. Frame'
  BY <1>1, <1>3, <1>5, <1>6, KeptConflict
<1>8. QED
  BY <1>1, <1>3, <1>7

NextTurnOf(t, a) == ArriveNum(a.visit.batch, StepOf(t))

\* To publish a turn.
LEMMA PublishFrame ==
  ASSUME Frame, NEW sm \in Sms, Publish(sm)
  PROVE  Frame' /\ \E t, k, a : /\ Acted(sm, t, k, 1, a) /\ a.op = "publish"
                                /\ turn' = [turn EXCEPT ![HeadOf(t)][SideLockOf(a)] = NextTurnOf(t, a)]
                                /\ UNCHANGED <<count, mutex, sum, loaded>>
<1>1. PICK t, k, a : Acted(sm, t, k, 1, a) /\ a.op = "publish"
  BY DoesActed DEF Publish
<1>2. /\ t \in Tiles /\ a \in ToSet(epilogue[t]) /\ HeadAt(sm) = HeadOf(t) /\ SideLock(sm) = SideLockOf(a) /\ config' = config
      /\ Visit(sm) = a.visit /\ Tile(sm) = t
  BY <1>1, ActedFacts DEF inputs
<1>3. /\ turn' = [turn EXCEPT ![HeadOf(t)][SideLockOf(a)] = NextTurnOf(t, a)]
      /\ UNCHANGED <<conflict, loaded, count, mutex, sum>>
  BY <1>2 DEF Publish, NextTurnOf
<1>4. HeadOf(t) \in LockHeads /\ SideLockOf(a) \in Locks
  BY <1>1, <1>2, ActWhere DEF Frame
<1>5. NextTurnOf(t, a) \in Nat
  <2>1. IsConfig /\ a.visit.batch \in Nat /\ StepOf(t) \in 0 .. LastStep
    BY <1>2, ActFacts, InputFacts DEF Frame
  <2>2. QED
    BY <2>1, PartBounds DEF NextTurnOf
<1>6. LocksOK'
  BY <1>2, <1>3, <1>4, <1>5, SameConfig DEF Frame, BasicOK, LocksOK
<1>7. SumOK'
  BY <1>2, <1>3, SameLocks
<1>8. Frame'
  BY <1>1, <1>3, <1>6, <1>7, KeptConflict
<1>9. QED
  BY <1>1, <1>3, <1>8

-------------------------------------------------------------------------------
(* Taking, producing and the start keep the frame.                           *)

\* An epilogue starts with none of these.
TakenIs(sm) ==
  todo'[sm] # <<>> =>
    LET b == todo'[sm][1]
    IN  /\ b.op \notin {"reset", "publish"}
        /\ Path = "fwd" => b.op # "store"
        /\ Path = "dq" => b.op = "enter"

\* An epilogue starts with none of the actions that need one before.
LEMMA TakeHead ==
  ASSUME Frame, NEW sm \in Sms, Take(sm)
  PROVE  TakenIs(sm) /\ todo'[sm] \in Seq(ActType)
<1>1. InputInv /\ BasicOK
  BY DEF Frame
<1>2. /\ todo'[sm] = (IF current'[sm].kind = "tile" THEN epilogue[current'[sm].tile] ELSE <<>>)
      /\ current'[sm] = (IF Path = "fwd" THEN ahead[sm] ELSE slot[sm])
  BY <1>1, TakeEffect
<1>3. current'[sm] \in Works
  BY <1>1, <1>2 DEF BasicOK, WorksOK
<1>4. CASE current'[sm].kind = "tile"
  <2> DEFINE t == current'[sm].tile
             e == epilogue[t]
  <2>1. t \in Tiles
    BY <1>3, <1>4 DEF Works
  <2>2. Adjacent(e) /\ EnteredFirst(e) /\ e \in Seq(ActType) /\ DOMAIN e = 1 .. Len(e) /\ Len(e) \in Nat
    BY <1>1, <2>1, InputFacts DEF EpilogueShape
  <2>3. todo'[sm] = e
    BY <1>2, <1>4
  <2> HIDE DEF e
  <2>4. e # <<>> => 1 \in DOMAIN e
    BY <2>2
  <2>5. 1 \in DOMAIN e => /\ e[1].op \notin {"reset", "publish"} /\ (Path = "fwd" => e[1].op # "store")
                          /\ (Path = "dq" => e[1].op = "enter")
    <3>1. ~(1 > 1)
      OBVIOUS
    <3>2. QED
      BY <2>2, <3>1 DEF Adjacent, EnteredFirst
  <2>6. QED
    BY <2>2, <2>3, <2>4, <2>5 DEF TakenIs
<1>5. CASE current'[sm].kind # "tile"
  BY <1>2, <1>5 DEF TakenIs
<1>6. QED
  BY <1>4, <1>5

\* To take a work.
LEMMA TakeFrame ==
  ASSUME Frame, NEW sm \in Sms, Take(sm)
  PROVE  Frame'
<1>1. InputInv /\ BasicOK /\ AllSuffix /\ OnePlace /\ AheadInv /\ ConflictInv
  BY DEF Frame
<1>2. /\ UNCHANGED <<inputs, producerVars, conflict, loaded, lockVars, sum>>
      /\ slot'[sm].kind = "none" /\ (\A s \in Sms : s # sm => slot'[s] = slot[s])
      /\ current'[sm] = (IF Path = "fwd" THEN ahead[sm] ELSE slot[sm])
      /\ (\A s \in Sms : s # sm => current'[s] = current[s])
      /\ ahead'[sm] = (IF Path = "fwd" THEN slot[sm] ELSE NoWork)
      /\ (\A s \in Sms : s # sm => ahead'[s] = ahead[s])
      /\ todo'[sm] = (IF current'[sm].kind = "tile" THEN epilogue[current'[sm].tile] ELSE <<>>)
      /\ (\A s \in Sms : s # sm => todo'[s] = todo[s])
  BY <1>1, TakeEffect
<1>3. config' = config /\ epilogue' = epilogue /\ order' = order /\ lastTile' = lastTile
  BY <1>2 DEF inputs, producerVars
<1>4. InputInv'
  BY <1>1, <1>2, SameInputs
<1>5. OnePlace'
  BY <1>1, TakeQuiet
<1>6. TakenIs(sm) /\ todo'[sm] \in Seq(ActType)
  BY TakeHead
<1>7. slot \in [Sms -> Works] /\ ahead \in [Sms -> Works] /\ current \in [Sms -> Works] /\ todo \in [Sms -> Seq(ActType)]
  BY <1>1 DEF BasicOK, WorksOK
<1>8. NoWork \in Works
  <2>1. IsConfig
    BY <1>1, InputFacts
  <2>2. 0 \in Groups /\ 0 \in 0 .. NumHeads - 1 /\ 0 \in 0 .. NumBatches
    BY <2>1, GroupFacts, HeadFacts, ConfigFacts
  <2>3. QED
    BY <2>2 DEF NoWork, Work, FirstTile, Works, WorkType, TileType
<1>9. slot' \in [Sms -> Works] /\ ahead' \in [Sms -> Works] /\ current' \in [Sms -> Works] /\ todo' \in [Sms -> Seq(ActType)]
  <2>1. slot' = [slot EXCEPT ![sm] = NoWork]
    BY DEF Take
  <2>2. ahead' = [ahead EXCEPT ![sm] = IF Path = "fwd" THEN slot[sm] ELSE NoWork]
    BY DEF Take
  <2>3. \E x : current' = [current EXCEPT ![sm] = x]
    BY DEF Take
  <2>4. \E x : todo' = [todo EXCEPT ![sm] = x]
    BY DEF Take
  <2>5. current'[sm] \in Works
    BY <1>2, <1>7
  <2>6. slot' \in [Sms -> Works] /\ ahead' \in [Sms -> Works]
    BY <1>7, <1>8, <2>1, <2>2
  <2>7. current' \in [Sms -> Works]
    BY <1>7, <2>3, <2>5
  <2>8. todo' \in [Sms -> Seq(ActType)]
    BY <1>6, <1>7, <2>4
  <2>9. QED
    BY <2>6, <2>7, <2>8
<1>10. BasicOK'
  <2>1. WorksOK'
    BY <1>3, <1>9, SameConfig DEF WorksOK
  <2>2. ProducerOK' /\ ConflictOK' /\ LocksOK' /\ SumOK'
    BY <1>1, <1>2, <1>3, SameConfig DEF BasicOK, ProducerOK, ConflictOK, LocksOK, SumOK, producerVars, lockVars
  <2>3. QED
    BY <2>1, <2>2 DEF BasicOK
<1>11. ASSUME NEW s \in Sms PROVE Suffix(s)'
  <2>1. CASE s = sm
    <3>1. CASE current'[sm].kind = "tile"
      <4> DEFINE e == epilogue[current'[sm].tile]
      <4>1. current'[sm] \in Works
        BY <1>9
      <4>2. current'[sm].tile \in Tiles
        BY <3>1, <4>1 DEF Works
      <4>3. e \in Seq(ActType) /\ Len(e) \in Nat
        BY <1>1, <4>2, InputFacts
      <4>4. e = SubSeq(e, 0 + 1, Len(e)) /\ 0 \in 0 .. Len(e)
        <5> HIDE DEF e
        <5>1. QED
          BY <4>3
      <4>5. todo'[sm] = e
        BY <1>2, <3>1
      <4>6. \E k \in 0 .. Len(e) : todo'[sm] = SubSeq(e, k + 1, Len(e))
        <5> HIDE DEF e
        <5>1. QED
          BY <4>4, <4>5
      <4>7. QED
        BY <1>3, <2>1, <3>1, <4>6 DEF Suffix
    <3>2. CASE current'[sm].kind # "tile"
      BY <1>2, <2>1, <3>2 DEF Suffix
    <3>3. QED
      BY <3>1, <3>2
  <2>2. CASE s # sm
    <3>1. todo'[s] = todo[s] /\ current'[s] = current[s] /\ Suffix(s)
      BY <1>1, <1>2, <2>2 DEF AllSuffix
    <3>2. QED
      BY <1>3, <3>1 DEF Suffix
  <2>3. QED
    BY <2>1, <2>2
<1>12. AheadInv'
  <2>1. Path # "fwd" => \A s \in Sms : ahead'[s].kind = "none"
    BY <1>1, <1>2 DEF AheadInv, NoWork, Work
  <2>2. QED
    BY <1>3, <2>1, SameConfig DEF AheadInv
<1>13. ConflictInv'
  <2>1. \A s \in Sms : WorkCovers(slot[s]) /\ WorkCovers(ahead[s]) /\ WorkCovers(current[s])
    BY <1>1 DEF ConflictInv
  <2>2. \A w : w.kind = "none" => WorkCovers(w)
    BY DEF WorkCovers
  <2>3. NoWork.kind = "none"
    BY DEF NoWork, Work
  <2>4. \A s \in Sms : WorkCovers(slot'[s]) /\ WorkCovers(ahead'[s]) /\ WorkCovers(current'[s])
    BY <1>2, <2>1, <2>2, <2>3
  <2>5. ASSUME NEW s \in Sms, Path = "dq", todo'[s] # <<>>, todo'[s][1].op # "enter", NEW l \in Locks
        PROVE  Covers(conflict[s][0][l], todo'[s][1].visit.batch, l)
    <3>1. s # sm
      BY <1>6, <2>5 DEF TakenIs
    <3>2. todo'[s] = todo[s]
      BY <1>2, <3>1
    <3>3. QED
      BY <1>1, <2>5, <3>2 DEF ConflictInv, Visit
  <2>6. ASSUME KeepsState, NEW s \in Sms, NEW l \in Locks
        PROVE  Covers(conflict[s][ConflictRow(lastTile[s])][l], lastTile[s].group, l)
    BY <1>1, <2>6 DEF ConflictInv
  <2>7. QED
    BY <1>2, <1>3, <2>4, <2>5, <2>6, SameConfig DEF ConflictInv, Visit
<1>14. QED
  BY <1>4, <1>5, <1>10, <1>11, <1>12, <1>13 DEF Frame, AllSuffix

\* To hand out, prefetch or end.
LEMMA ProduceFrame ==
  ASSUME Frame, NEW sm \in Sms, Produce(sm)
  PROVE  Frame' /\ Quiet /\ UNCHANGED <<inputs, consumerVars, lockVars, sum>>
<1>1. InputInv /\ BasicOK /\ AllSuffix /\ OnePlace /\ AheadInv /\ ConflictInv
  BY DEF Frame
<1>2. Quiet /\ OnePlace' /\ UNCHANGED <<inputs, consumerVars, lockVars, sum>>
  BY <1>1, ProduceQuiet
<1>3. config' = config /\ epilogue' = epilogue /\ ahead' = ahead /\ current' = current /\ todo' = todo /\ loaded' = loaded
  BY <1>2 DEF inputs, consumerVars
<1>4. InputInv'
  BY <1>1, <1>2, SameInputs
<1>5. AllSuffix' /\ AheadInv'
  <2>1. Path' = Path
    BY <1>3, SameConfig
  <2>2. QED
    BY <1>1, <1>3, <2>1 DEF AllSuffix, Suffix, AheadInv
<1>6. ConflictInv' /\ BasicOK'
  <2>1. CASE Hand(sm)
    BY <1>1, <2>1, HandConflict
  <2>2. CASE HandEnd(sm) \/ Retry(sm) \/ Prefetch(sm)
    <3>1. conflict' = conflict /\ lastTile' = lastTile
      BY <2>2 DEF HandEnd, Retry, Prefetch
    <3>2. LocksOK' /\ SumOK' /\ ConflictOK'
      BY <1>1, <1>2, <1>3, <3>1, SameConfig DEF BasicOK, LocksOK, SumOK, ConflictOK, lockVars
    <3>3. EndWork \in Works /\ WorkCovers(EndWork)
      <4>1. IsConfig
        BY <1>1, InputFacts
      <4>2. 0 \in Groups /\ 0 \in 0 .. NumHeads - 1 /\ 0 \in 0 .. NumBatches
        BY <4>1, GroupFacts, HeadFacts, ConfigFacts
      <4>3. QED
        BY <4>2 DEF EndWork, Work, FirstTile, Works, WorkType, TileType, WorkCovers
    <3>4. slot' \in [Sms -> Works] /\ \A s \in Sms : WorkCovers(slot'[s])
      <4>1. slot \in [Sms -> Works] /\ \A s \in Sms : WorkCovers(slot[s])
        BY <1>1 DEF BasicOK, WorksOK, ConflictInv
      <4>2. slot' = slot \/ slot' = [slot EXCEPT ![sm] = EndWork]
        BY <2>2 DEF HandEnd, Retry, Prefetch
      <4>3. QED
        BY <3>3, <4>1, <4>2
    <3>5. WorksOK'
      BY <1>1, <1>3, <3>4, SameConfig DEF BasicOK, WorksOK
    <3>6. ProducerOK'
      <4>1. handedOut \in Nat /\ NumSms \in Nat \ {0} /\ producerPc \in [Sms -> {"hand", "prefetch", "done"}]
            /\ nextId \in [Sms -> Nat] /\ (\A s \in Sms : nextId[s] < handedOut + NumSms) /\ lastTile \in [Sms -> TileType]
        BY <1>1, SmsAssumption DEF BasicOK, ProducerOK
      <4>2. producerPc' \in [Sms -> {"hand", "prefetch", "done"}]
        BY <2>2, <4>1 DEF HandEnd, Retry, Prefetch
      <4>3. handedOut' \in Nat /\ nextId' \in [Sms -> Nat] /\ (\A s \in Sms : nextId'[s] < handedOut' + NumSms)
        <5>1. CASE HandEnd(sm)
          BY <4>1, <5>1 DEF HandEnd
        <5>2. CASE Retry(sm) \/ Prefetch(sm)
          <6>1. nextId' = [nextId EXCEPT ![sm] = handedOut + NumSms] /\ handedOut' = handedOut + 1
            BY <5>2 DEF Retry, Prefetch, FetchId
          <6>2. handedOut + NumSms \in Nat
            BY <4>1
          <6>3. nextId' \in [Sms -> Nat] /\ nextId'[sm] = handedOut + NumSms /\ \A s \in Sms : s # sm => nextId'[s] = nextId[s]
            BY <4>1, <6>1, <6>2
          <6>4. ASSUME NEW s \in Sms PROVE nextId'[s] < handedOut' + NumSms
            <7>1. nextId[s] \in Nat /\ nextId[s] < handedOut + NumSms
              BY <4>1
            <7>2. CASE s = sm
              BY <4>1, <6>1, <6>3, <7>2
            <7>3. CASE s # sm
              BY <4>1, <6>1, <6>3, <7>1, <7>3
            <7>4. QED
              BY <7>2, <7>3
          <6>5. QED
            BY <4>1, <6>1, <6>3, <6>4
        <5>3. QED
          BY <2>2, <5>1, <5>2
      <4>4. QED
        BY <1>3, <3>1, <4>1, <4>2, <4>3, SameConfig DEF ProducerOK
    <3>7. ConflictInv'
      <4>1. \A s \in Sms : WorkCovers(ahead[s]) /\ WorkCovers(current[s])
        BY <1>1 DEF ConflictInv
      <4>2. ASSUME KeepsState, NEW s \in Sms, NEW l \in Locks
            PROVE  Covers(conflict[s][ConflictRow(lastTile[s])][l], lastTile[s].group, l)
        BY <1>1, <4>2 DEF ConflictInv
      <4>3. ASSUME NEW s \in Sms, Path = "dq", todo[s] # <<>>, todo[s][1].op # "enter", NEW l \in Locks
            PROVE  Covers(conflict[s][0][l], todo[s][1].visit.batch, l)
        BY <1>1, <4>3 DEF ConflictInv, Visit
      <4>4. QED
        BY <1>3, <3>1, <3>4, <4>1, <4>2, <4>3, SameConfig DEF ConflictInv, Visit
    <3>8. QED
      BY <3>2, <3>5, <3>6, <3>7 DEF BasicOK
  <2>3. QED
    BY <2>1, <2>2 DEF Produce
<1>7. QED
  BY <1>2, <1>4, <1>5, <1>6 DEF Frame

\* The frame holds at the start.
LEMMA InitFrame ==
  ASSUME Init
  PROVE  Frame
<1>1. IsConfig /\ OrderIs /\ EpilogueIs /\ InputInv
  BY DEF Init, IsConfig, OrderIs, EpilogueIs, InputInv
<1>2. /\ NumSms \in Nat \ {0} /\ 0 \in Groups /\ 0 \in 0 .. NumHeads - 1 /\ 0 \in 0 .. NumBatches
      /\ NumHeads \in Nat \ {0} /\ NumBatches \in Nat
  BY <1>1, GroupFacts, HeadFacts, ConfigFacts, SmsAssumption
<1>3. FirstTile \in TileType /\ NoWork \in Works /\ NoWork.kind = "none"
  BY <1>2 DEF NoWork, Work, FirstTile, Works, WorkType, TileType
<1>4. ProducerOK
  <2>1. \A s \in Sms : s \in Nat /\ s < 0 + NumSms
    BY <1>2 DEF Sms
  <2>2. QED
    BY <1>3, <2>1 DEF Init, ProducerOK
<1>5. WorksOK
  <2>1. <<>> \in Seq(ActType)
    OBVIOUS
  <2>2. QED
    BY <1>3, <2>1 DEF Init, WorksOK
<1>6. ConflictOK
  BY <1>2 DEF Init, ConflictOK
<1>7. LocksOK
  BY DEF Init, LocksOK
<1>8. SumOK
  <2>1. <<>> \in Seq(Nat)
    OBVIOUS
  <2>2. DOMAIN loaded = Sms /\ \A s \in Sms : DOMAIN loaded[s] = {}
    BY DEF Init
  <2>3. QED
    BY <2>1, <2>2 DEF Init, SumOK
<1>9. AllSuffix /\ AheadInv
  BY <1>3 DEF Init, AllSuffix, Suffix, AheadInv
<1>10. OnePlace
  <2>1. ASSUME NEW s \in Sms, NEW t
        PROVE  /\ ~At(<<s, "slot">>, t) /\ ~At(<<s, "ahead">>, t) /\ ~At(<<s, "current">>, t)
               /\ At(<<s, "next">>, t) <=> s < NumTiles /\ order[s] = t
    <3>1. slot[s].kind = "none" /\ ahead[s].kind = "none" /\ current[s].kind = "none" /\ producerPc[s] = "hand" /\ nextId[s] = s
      BY <1>3 DEF Init
    <3>2. QED
      BY <3>1, AtNow DEF HasWork
  <2>2. /\ NumTiles \in Nat /\ DOMAIN order = 0 .. NumTiles - 1
        /\ \A i, j \in 0 .. NumTiles - 1 : order[i] = order[j] => i = j
    BY <1>1, InputFacts
  <2>3. \A s \in Sms : s \in Nat /\ s < 0 + NumSms
    BY <1>2 DEF Sms
  <2>4. ASSUME NEW t \in Tiles, NEW x \in Places, At(x, t)
        PROVE  ~Fresh(t) /\ \A y \in Places : At(y, t) => x = y
    <3>1. PICK s \in Sms, k \in Kinds : x = <<s, k>>
      BY PlaceIs
    <3>2. k = "next" /\ s < NumTiles /\ order[s] = t
      BY <2>1, <2>4, <3>1 DEF Kinds
    <3>3. s \in 0 .. NumTiles - 1 /\ s < 0 + NumSms
      BY <2>2, <2>3, <3>2
    <3>4. ~Fresh(t)
      <4> SUFFICES ASSUME NEW i \in DOMAIN order, i >= handedOut + NumSms, order[i] = t PROVE FALSE
        BY DEF Fresh
      <4>1. i = s
        BY <2>2, <3>2, <3>3
      <4>2. handedOut = 0
        BY DEF Init
      <4>3. QED
        BY <1>2, <2>3, <3>3, <4>1, <4>2
    <3>5. ASSUME NEW y \in Places, At(y, t) PROVE x = y
      <4>1. PICK s2 \in Sms, k2 \in Kinds : y = <<s2, k2>>
        BY PlaceIs
      <4>2. k2 = "next" /\ s2 < NumTiles /\ order[s2] = t
        BY <2>1, <3>5, <4>1 DEF Kinds
      <4>3. s2 \in 0 .. NumTiles - 1
        BY <2>2, <2>3, <4>2
      <4>4. s = s2
        BY <2>2, <3>2, <3>3, <4>2, <4>3
      <4>5. QED
        BY <3>1, <3>2, <4>1, <4>2, <4>4
    <3>6. QED
      BY <3>4, <3>5
  <2>5. QED
    BY <2>4 DEF OnePlace
<1>11. ConflictInv
  <2>1. \A n, l : Covers(n, 0, l)
    BY DEF Covers
  <2>2. \A s \in Sms : lastTile[s].group = 0
    BY DEF Init, FirstTile
  <2>3. WorkCovers(NoWork)
    BY <1>3 DEF WorkCovers
  <2>4. \A s \in Sms : slot[s] = NoWork /\ ahead[s] = NoWork /\ current[s] = NoWork /\ todo[s] = <<>>
    BY DEF Init
  <2>5. QED
    BY <2>1, <2>2, <2>3, <2>4 DEF ConflictInv
<1>12. QED
  BY <1>1, <1>4, <1>5, <1>6, <1>7, <1>8, <1>9, <1>10, <1>11 DEF Frame, BasicOK

-------------------------------------------------------------------------------
(* Adds, turns and the sides of a lock block.                                *)

\* Actions before the head of an epilogue, of the same visit.
LEMMA HeadEarlier ==
  ASSUME Frame, NEW sm \in Sms, NEW t, NEW k, Runs(sm, t, k), k + 1 \in DOMAIN epilogue[t],
         NEW b \in ToSet(epilogue[t]), b.visit = epilogue[t][k + 1].visit, Rank(b) < Rank(epilogue[t][k + 1])
  PROVE  Done(t, b)
<1> DEFINE a == epilogue[t][k + 1]
<1>1. InputInv /\ OnePlace
  BY DEF Frame
<1>2. t \in Tiles /\ k \in Nat
  BY <1>1, RunsFacts
<1>3. DOMAIN epilogue[t] = 1 .. Len(epilogue[t]) /\ a \in ToSet(epilogue[t]) /\ InOrder(epilogue[t])
  BY <1>1, <1>2, InputFacts DEF EpilogueShape, ToSet
<1>4. PICK i \in DOMAIN epilogue[t] : b = epilogue[t][i]
  BY DEF ToSet
<1>5. Remains(t, b) <=> i > k
  BY <1>1, <1>4, RemainsAt
<1>6. Rank(a) \in Int /\ Rank(b) \in Int
  BY <1>1, <1>2, <1>3, RankInt
<1>7. k + 1 < i => Rank(a) < Rank(b)
  BY <1>3, <1>4 DEF InOrder
<1>8. i # k + 1
  BY <1>4, <1>6
<1>9. i \in Nat
  BY <1>3
<1> HIDE DEF a
<1>10. Rank(b) < Rank(a)
  BY DEF a
<1>11. ~(i > k)
  BY <1>2, <1>6, <1>7, <1>8, <1>9, <1>10
<1>12. QED
  BY <1>5, <1>11 DEF Done

\* The order of awaiting, storing and arriving in a visit.
LEMMA AwaitRank ==
  ASSUME NEW v, NEW l, NEW side \in {"left", "right"}, NEW op \in {"add", "reset", "publish"}
  PROVE  /\ Rank(Act("await", v, l)) < Rank(Act(op, v, side)) /\ Rank(Act("await", v, l)) < Rank(Act("store", v, 0))
         /\ op # "add" => Rank(Act("add", v, side)) < Rank(Act(op, v, side))
         /\ Rank(Act("store", v, 0)) < Rank(Act(op, v, side))
         /\ Act("await", v, l).visit = v /\ Act(op, v, side).visit = v /\ Act("store", v, 0).visit = v
BY DEF Rank, SideRank, Act

\* An add and the lock block it is for.
LEMMA AddsFacts ==
  ASSUME Frame, NEW h, NEW l, NEW t, NEW a, AddsAt(t, a, h, l)
  PROVE  /\ t \in Tiles /\ a \in ToSet(epilogue[t]) /\ a.op = "add" /\ HeadOf(t) = h /\ SideLockOf(a) = l
         /\ h \in LockHeads /\ l \in Locks /\ config.deterministic
         /\ a = Act("add", a.visit, a.where) /\ a.where \in {"left", "right"}
         /\ IsVisit(a.visit) /\ IsVisitOf(t, a.visit) /\ Touches(a.visit.batch, l)
         /\ a.visit.batch \in Batches /\ a.visit.batch \in Nat /\ StepOf(t) \in 0 .. LastStep /\ PartOf(t, a) \in Nat
         /\ Act("await", a.visit, l) \in ToSet(epilogue[t])
<1>1. InputInv /\ IsConfig
  BY InputFacts DEF Frame
<1>2. t \in Tiles /\ a \in ToSet(epilogue[t]) /\ a.op = "add" /\ HeadOf(t) = h /\ SideLockOf(a) = l
  BY DEF AddsAt
<1>3. /\ IsVisit(a.visit) /\ IsVisitOf(t, a.visit) /\ a.visit.batch \in Batches /\ a.visit.batch \in Nat
      /\ StepOf(t) \in 0 .. LastStep /\ PartOf(t, a) \in Nat /\ h \in LockHeads
  BY <1>1, <1>2, ActFacts
<1>4. /\ config.deterministic /\ a = Act("add", a.visit, a.where) /\ a.where \in {"left", "right"}
      /\ l \in {LeftLock(a.visit), RightLock(a.visit)} /\ l \in Locks
  BY <1>1, <1>2, ActShape
<1>5. Touches(a.visit.batch, l)
  BY <1>1, <1>3, <1>4, VisitGeometry
<1>6. Act("await", a.visit, l) \in ToSet(epilogue[t])
  BY <1>1, <1>2, <1>4, ActSiblings
<1>7. QED
  BY <1>2, <1>3, <1>4, <1>5, <1>6

\* What has arrived has been waited for.
LEMMA AddReached ==
  ASSUME Frame, AwaitMeansReached, NEW h, NEW l, NEW t, NEW a, AddsAt(t, a, h, l), Done(t, a)
  PROVE  Reached(h, l, PartOf(t, a))
<1> DEFINE b == Act("await", a.visit, l)
<1>1. /\ t \in Tiles /\ a \in ToSet(epilogue[t]) /\ HeadOf(t) = h /\ b \in ToSet(epilogue[t])
      /\ a = Act("add", a.visit, a.where) /\ a.where \in {"left", "right"}
  BY AddsFacts
<1>2. b.visit = a.visit /\ Rank(b) < Rank(a) /\ b.op = "await" /\ b.where = l
  BY <1>1, AwaitRank, ZenonT(30) DEF Act
<1>3. PartOf(t, b) = PartOf(t, a)
  BY <1>2 DEF PartOf
<1> HIDE DEF b
<1>4. Done(t, b)
  BY <1>1, <1>2, DoneByRank DEF Frame
<1>5. QED
  BY <1>1, <1>2, <1>3, <1>4 DEF AwaitMeansReached

\* The adds whose turn it is are of one part.
LEMMA SamePart ==
  ASSUME Frame, NEW h, NEW l, NEW t, NEW a, NEW u, NEW b, AddsAt(t, a, h, l), AddsAt(u, b, h, l),
         Reached(h, l, PartOf(t, a)), Reached(h, l, PartOf(u, b)), PartOf(t, a) >= turn[h][l], PartOf(u, b) >= turn[h][l]
  PROVE  PartOf(t, a) = PartOf(u, b)
<1>1. /\ h \in LockHeads /\ l \in Locks
      /\ Touches(a.visit.batch, l) /\ a.visit.batch \in Batches /\ StepOf(t) \in 0 .. LastStep /\ PartOf(t, a) \in Nat
  BY AddsFacts
<1>2. Touches(b.visit.batch, l) /\ b.visit.batch \in Batches /\ StepOf(u) \in 0 .. LastStep /\ PartOf(u, b) \in Nat
  BY AddsFacts
<1>3. turn[h][l] \in Nat
  BY <1>1 DEF Frame, BasicOK, LocksOK
<1> DEFINE p == PartOf(t, a)
           q == PartOf(u, b)
<1>4. p < q => p < turn[h][l]
  BY <1>1 DEF Reached, PartOf
<1>5. q < p => q < turn[h][l]
  BY <1>2 DEF Reached, PartOf
<1> HIDE DEF p, q
<1>6. p \in Nat /\ q \in Nat /\ p >= turn[h][l] /\ q >= turn[h][l]
  BY <1>1, <1>2 DEF p, q
<1>7. p = q
  BY <1>3, <1>4, <1>5, <1>6
<1>8. QED
  BY <1>7 DEF p, q

\* Two adds of one part at a lock block are the same, or of a block that shares the lock block.
LEMMA PartSides ==
  ASSUME Frame, NEW h, NEW l, NEW t, NEW a, NEW u, NEW b, AddsAt(t, a, h, l), AddsAt(u, b, h, l), PartOf(t, a) = PartOf(u, b)
  PROVE  /\ a.where = b.where => t = u /\ a = b
         /\ a.where # b.where => AddCount(a.visit, a.where) = 1 /\ AddCount(b.visit, b.where) = 1
<1>1. IsConfig
  BY InputFacts DEF Frame
<1>2. /\ t \in Tiles /\ a \in ToSet(epilogue[t]) /\ a.op = "add" /\ HeadOf(t) = h /\ SideLockOf(a) = l
      /\ a = Act("add", a.visit, a.where) /\ a.where \in {"left", "right"}
      /\ IsVisit(a.visit) /\ IsVisitOf(t, a.visit)
      /\ a.visit.batch \in Nat /\ StepOf(t) \in 0 .. LastStep
  BY AddsFacts
<1>3. /\ u \in Tiles /\ b \in ToSet(epilogue[u]) /\ b.op = "add" /\ HeadOf(u) = h /\ SideLockOf(b) = l
      /\ b = Act("add", b.visit, b.where) /\ b.where \in {"left", "right"}
      /\ IsVisit(b.visit) /\ IsVisitOf(u, b.visit)
      /\ b.visit.batch \in Nat /\ StepOf(u) \in 0 .. LastStep
  BY AddsFacts
<1>4. a.visit.batch = b.visit.batch /\ StepOf(t) = StepOf(u)
  <2> DEFINE ba == a.visit.batch
             bb == b.visit.batch
             sa == StepOf(t)
             sb == StepOf(u)
  <2>1. ba \in Nat /\ bb \in Nat /\ sa \in 0 .. LastStep /\ sb \in 0 .. LastStep /\ Part(ba, sa) = Part(bb, sb)
    BY <1>2, <1>3 DEF PartOf
  <2> HIDE DEF ba, bb, sa, sb
  <2>2. ba = bb /\ sa = sb
    BY <1>1, <2>1, PartOrder
  <2>3. QED
    BY <2>2 DEF ba, bb, sa, sb
<1> DEFINE v == a.visit
           w == b.visit
<1>5. /\ LeftLock(v) = LeftLock(w) => v.block = w.block
      /\ RightLock(v) = RightLock(w) => v.block = w.block
      /\ LeftLock(v) = RightLock(w) => AddCount(v, "left") = 1 /\ AddCount(w, "right") = 1
      /\ LeftLock(w) = RightLock(v) => AddCount(w, "left") = 1 /\ AddCount(v, "right") = 1
  <2>1. IsVisit(v) /\ IsVisit(w) /\ v.batch = w.batch
    BY <1>2, <1>3, <1>4
  <2> HIDE DEF v, w
  <2>2. QED
    BY <1>1, <2>1, SidesOfLock
<1>6. ASSUME a.where = b.where PROVE t = u /\ a = b
  <2>1. v.block = w.block
    <3>1. CASE a.where = "left"
      BY <1>2, <1>3, <1>5, <1>6, <3>1 DEF SideLockOf
    <3>2. CASE a.where = "right"
      BY <1>2, <1>3, <1>5, <1>6, <3>2 DEF SideLockOf
    <3>3. QED
      BY <1>2, <3>1, <3>2
  <2>2. IsVisitOf(t, v) /\ IsVisitOf(u, w) /\ v.batch = w.batch /\ HeadOf(t) = HeadOf(u) /\ StepOf(t) = StepOf(u)
    BY <1>2, <1>3, <1>4
  <2>3. t = u /\ v = w
    <3> HIDE DEF v, w
    <3>1. QED
      BY <1>1, <1>2, <1>3, <2>1, <2>2, SameJob
  <2>4. QED
    BY <1>2, <1>3, <1>6, <2>3
<1>7. ASSUME a.where # b.where PROVE AddCount(v, a.where) = 1 /\ AddCount(w, b.where) = 1
  <2>1. CASE a.where = "left" /\ b.where = "right"
    BY <1>2, <1>3, <1>5, <2>1 DEF SideLockOf
  <2>2. CASE a.where = "right" /\ b.where = "left"
    BY <1>2, <1>3, <1>5, <2>2 DEF SideLockOf
  <2>3. QED
    BY <1>2, <1>3, <1>7, <2>1, <2>2
<1>8. QED
  BY <1>6, <1>7

\* An SM that is about to reset or to publish has added, at the lock block.
LEMMA EndingFacts ==
  ASSUME Frame, NEW sm \in Sms, NEW h, NEW l, EndingAt(sm, h, l)
  PROVE  \E t, a : AddsAt(t, a, h, l) /\ Done(t, a) /\ PartOf(t, a) = HeadPart(sm)
<1>1. InputInv /\ BasicOK /\ AllSuffix /\ OnePlace
  BY DEF Frame
<1>2. todo[sm] # <<>> /\ todo[sm][1].op \in {"reset", "publish"} /\ HeadAt(sm) = h /\ SideLock(sm) = l
  BY DEF EndingAt, Ending, HeadIs
<1>3. PICK t, k : Runs(sm, t, k)
  BY <1>1, <1>2, RunsExists
<1>4. /\ t \in Tiles /\ Tile(sm) = t /\ HeadAt(sm) = HeadOf(t) /\ k \in Nat /\ k <= Len(epilogue[t])
      /\ Len(epilogue[t]) \in Nat
      /\ todo[sm] = <<>> <=> k = Len(epilogue[t])
      /\ \A i \in 1 .. Len(epilogue[t]) - k : todo[sm][i] = epilogue[t][k + i]
  BY <1>1, <1>3, RunsFacts
<1>5. DOMAIN epilogue[t] = 1 .. Len(epilogue[t])
  BY <1>1, <1>4, InputFacts
<1> DEFINE e == epilogue[t]
           c == todo[sm][1]
<1>6. k + 1 \in DOMAIN e /\ c = e[k + 1]
  <2> HIDE DEF e
  <2>1. k # Len(e)
    BY <1>2, <1>4 DEF e
  <2>2. 1 \in 1 .. Len(e) - k /\ k + 1 \in 1 .. Len(e)
    BY <1>4, <2>1 DEF e
  <2>3. QED
    BY <1>4, <1>5, <2>2 DEF e
<1>7. c \in ToSet(e)
  BY <1>6 DEF ToSet
<1> DEFINE a == Act("add", c.visit, c.where)
<1>8. /\ config.deterministic /\ c = Act(c.op, c.visit, c.where) /\ c.where \in {"left", "right"}
      /\ a \in ToSet(e) /\ c.op \in {"reset", "publish"}
  BY <1>1, <1>2, <1>4, <1>7, ActShape, ActSiblings
<1>9. Rank(a) < Rank(c) /\ a.visit = c.visit /\ a.where = c.where /\ a.op = "add"
  BY <1>8, AwaitRank DEF Act
<1>10. Done(t, a)
  <2> HIDE DEF a, c
  <2>1. QED
    BY <1>3, <1>6, <1>8, <1>9, HeadEarlier
<1>11. SideLockOf(a) = l /\ PartOf(t, a) = HeadPart(sm)
  BY <1>2, <1>4, <1>9 DEF SideLockOf, SideLock, Where, Visit, HeadPart, PartOf
<1>12. AddsAt(t, a, h, l)
  BY <1>2, <1>4, <1>8, <1>9, <1>11 DEF AddsAt
<1> HIDE DEF a
<1>13. QED
  BY <1>10, <1>11, <1>12

-------------------------------------------------------------------------------
(* What leaves a lock block alone.                                           *)

\* What SM s is about to end at a lock block does not change.
KeptHead(s, h, l) ==
  /\ EndingAt(s, h, l)' <=> EndingAt(s, h, l)
  /\ PublishingAt(s, h, l)' <=> PublishingAt(s, h, l)
  /\ EndingAt(s, h, l) => HeadPart(s)' = HeadPart(s)

\* An SM that does not move ends what it ended.
LEMMA SameHead ==
  ASSUME config' = config, NEW s, todo'[s] = todo[s], current'[s] = current[s], NEW h, NEW l
  PROVE  KeptHead(s, h, l)
<1>1. \A v : LeftLock(v)' = LeftLock(v) /\ RightLock(v)' = RightLock(v)
  BY SameConfig
<1>2. HeadAt(s)' = HeadAt(s) /\ SideLock(s)' = SideLock(s)
  <2>1. HeadAt(s)' = HeadAt(s)
    BY DEF HeadAt, LockHead, Tile, Path
  <2>2. Where(s)' = Where(s) /\ Visit(s)' = Visit(s)
    BY DEF Where, Visit
  <2>3. SideLock(s) = IF Where(s) = "left" THEN LeftLock(Visit(s)) ELSE RightLock(Visit(s))
    BY DEF SideLock
  <2>4. SideLock(s)' = IF Where(s)' = "left" THEN (LeftLock(Visit(s)))' ELSE (RightLock(Visit(s)))'
    BY DEF SideLock
  <2>5. QED
    BY <2>1, <2>2, <2>3, <2>4 DEF LeftLock, RightLock, Offset, First, BlockSize
<1>3. \A op : HeadIs(s, op)' <=> HeadIs(s, op)
  BY DEF HeadIs
<1>4. HeadPart(s)' = HeadPart(s)
  BY DEF HeadPart, PartOf, Part, NumSteps, StepOf, Path, Tile, Groups
<1>5. QED
  BY <1>2, <1>3, <1>4 DEF KeptHead, EndingAt, PublishingAt, Ending

\* An SM that ends nothing before and after.
LEMMA NoHead ==
  ASSUME NEW s, NEW h, NEW l, ~Ending(s), ~Ending(s)'
  PROVE  KeptHead(s, h, l)
BY DEF KeptHead, EndingAt, PublishingAt, Ending

\* The adds of a lock block are determined by the call.
LEMMA SameAdds ==
  ASSUME config' = config, epilogue' = epilogue, NEW t, NEW a, NEW h, NEW l
  PROVE  AddsAt(t, a, h, l)' <=> AddsAt(t, a, h, l)
BY SameConfig DEF AddsAt

\* What has arrived changes only with turns and adds.
LEMMA SameArrived ==
  ASSUME config' = config, epilogue' = epilogue, NEW h, NEW l, turn'[h][l] = turn[h][l],
         \A t, a : AddsAt(t, a, h, l) => (Done(t, a)' <=> Done(t, a)), NEW side
  PROVE  Arrived(h, l, side)' = Arrived(h, l, side)
<1>1. ASSUME NEW w PROVE ArrivedWith(h, l, side, w)' <=> ArrivedWith(h, l, side, w)
  <2>1. \A t, a : AddsAt(t, a, h, l)' <=> AddsAt(t, a, h, l)
    BY SameAdds
  <2>2. \A t, a : PartOf(t, a)' = PartOf(t, a) /\ AddCount(a.visit, side)' = AddCount(a.visit, side)
    BY SameConfig
  <2>3. Tiles' = Tiles
    BY SameConfig
  <2>4. QED
    BY <2>1, <2>2, <2>3 DEF ArrivedWith
<1>2. QED
  BY <1>1 DEF Arrived

\* A lock block that no add, reset or publish touches.
LEMMA LockKept ==
  ASSUME config' = config, epilogue' = epilogue, NEW h, NEW l, CountAt(h, l), EndedAt(h, l),
         turn'[h][l] = turn[h][l], count'[h][l] = count[h][l],
         \A t, a : AddsAt(t, a, h, l) => (Done(t, a)' <=> Done(t, a)), \A s \in Sms : KeptHead(s, h, l)
  PROVE  CountAt(h, l)' /\ EndedAt(h, l)'
<1>1. \A side : Arrived(h, l, side)' = Arrived(h, l, side)
  BY SameArrived
<1>2. Publishing(h, l)' <=> Publishing(h, l)
  BY DEF Publishing, KeptHead, Sms
<1>3. CountAt(h, l)'
  BY <1>1, <1>2 DEF CountAt
<1>4. \A t, a : AddsAt(t, a, h, l)' <=> AddsAt(t, a, h, l)
  BY SameAdds
<1>5. Tiles' = Tiles /\ \A t, a : PartOf(t, a)' = PartOf(t, a)
  BY SameConfig
<1>6. ASSUME NEW p, AllArrived(h, l, p) PROVE AllArrived(h, l, p)'
  BY <1>4, <1>5, <1>6 DEF AllArrived
<1>7. ASSUME NEW s \in Sms, EndingAt(s, h, l)'
      PROVE  /\ turn'[h][l] <= HeadPart(s)' /\ AllArrived(h, l, HeadPart(s))'
             /\ \A s2 \in Sms : EndingAt(s2, h, l)' => s2 = s
  <2>1. EndingAt(s, h, l) /\ HeadPart(s)' = HeadPart(s)
    BY <1>7 DEF KeptHead
  <2>2. PICK p : p = HeadPart(s)
    OBVIOUS
  <2>3. turn[h][l] <= p /\ AllArrived(h, l, p) /\ \A s2 \in Sms : EndingAt(s2, h, l) => s2 = s
    BY <2>1, <2>2 DEF EndedAt
  <2>4. AllArrived(h, l, p)'
    BY <1>6, <2>3
  <2>5. AllArrived(h, l, HeadPart(s))'
    BY <2>1, <2>2, <2>4 DEF AllArrived
  <2>6. QED
    BY <2>1, <2>2, <2>3, <2>5 DEF KeptHead
<1>8. EndedAt(h, l)'
  BY <1>7 DEF EndedAt, Sms
<1>9. QED
  BY <1>3, <1>8

\* Turns that do not go back.
LEMMA ReachedKept ==
  ASSUME Frame, config' = config, NEW h, NEW l, NEW p, turn[h][l] \in Nat, turn'[h][l] \in Nat, turn[h][l] <= turn'[h][l], Reached(h, l, p)
  PROVE  Reached(h, l, p)'
<1>1. ASSUME NEW b \in Batches, NEW s \in 0 .. LastStep, Touches(b, l), Part(b, s) < p PROVE Part(b, s) < turn'[h][l]
  <2>1. Part(b, s) < turn[h][l]
    BY <1>1 DEF Reached
  <2>2. Part(b, s) \in Nat
    <3>1. IsConfig /\ b \in Nat
      BY InputFacts, BatchFacts DEF Frame
    <3>2. QED
      BY <3>1, PartOrder
  <2>3. QED
    BY <2>1, <2>2
<1>2. QED
  BY <1>1, SameConfig DEF Reached

\* A step that leaves the locks alone.
LEMMA Neutral ==
  ASSUME Frame, LockInv, config' = config, epilogue' = epilogue, turn' = turn, count' = count,
         \A u \in Tiles : \A b \in ToSet(epilogue[u]) : b.op = "add" => (Done(u, b)' <=> Done(u, b)),
         \A u \in Tiles : \A b \in ToSet(epilogue[u]) :
           b.op = "await" /\ Done(u, b)' => Done(u, b) \/ Reached(HeadOf(u), b.where, PartOf(u, b)),
         \A s \in Sms : \A h, l : KeptHead(s, h, l)
  PROVE  LockInv'
<1>1. TurnMeansArrived /\ AwaitMeansReached /\ CountInv /\ EndingInv /\ TurnInv
  BY DEF LockInv
<1>2. /\ Tiles' = Tiles /\ Locks' = Locks /\ LockHeads' = LockHeads /\ NumBatches' = NumBatches /\ NumSteps' = NumSteps
      /\ \A t, a : PartOf(t, a)' = PartOf(t, a)
      /\ \A t : HeadOf(t)' = HeadOf(t)
      /\ \A a : SideLockOf(a)' = SideLockOf(a)
  BY SameConfig
<1>3. TurnMeansArrived'
  <2>1. ASSUME NEW t \in Tiles, NEW a \in ToSet(epilogue[t]), a.op = "add", PartOf(t, a) < turn[HeadOf(t)][SideLockOf(a)]
        PROVE  Done(t, a)'
    BY <1>1, <2>1 DEF TurnMeansArrived
  <2>2. QED
    BY <1>2, <2>1 DEF TurnMeansArrived
<1>4. AwaitMeansReached'
  <2>1. ASSUME NEW t \in Tiles, NEW a \in ToSet(epilogue[t]), a.op = "await", Done(t, a)'
        PROVE  Reached(HeadOf(t), a.where, PartOf(t, a))'
    <3>1. PICK h, l, p : h = HeadOf(t) /\ l = a.where /\ p = PartOf(t, a)
      OBVIOUS
    <3>2. Reached(h, l, p)
      BY <1>1, <2>1, <3>1 DEF AwaitMeansReached
    <3>3. Reached(h, l, p)'
      BY <3>2, SameConfig DEF Reached
    <3>4. h = HeadOf(t)' /\ p = PartOf(t, a)'
      BY <1>2, <3>1
    <3>5. QED
      BY <3>1, <3>3, <3>4 DEF Reached
  <2>2. QED
    BY <1>2, <2>1 DEF AwaitMeansReached
<1>5. ASSUME NEW h \in LockHeads, NEW l \in Locks PROVE CountAt(h, l)' /\ EndedAt(h, l)'
  <2>1. CountAt(h, l) /\ EndedAt(h, l)
    BY <1>1 DEF CountInv, EndingInv
  <2>2. \A t, a : AddsAt(t, a, h, l) => (Done(t, a)' <=> Done(t, a))
    BY DEF AddsAt
  <2>3. QED
    BY <2>1, <2>2, LockKept
<1>6. CountInv' /\ EndingInv'
  BY <1>2, <1>5 DEF CountInv, EndingInv
<1>7. TurnInv'
  BY <1>1, <1>2 DEF TurnInv
<1>8. QED
  BY <1>3, <1>4, <1>6, <1>7 DEF LockInv

\* What an SM is about to end before and after its action.
LEMMA HeadStep ==
  ASSUME Frame, NEW sm \in Sms, NEW t, NEW k, NEW n, NEW a, Acted(sm, t, k, n, a), NEW h, NEW l
  PROVE  /\ EndingAt(sm, h, l) <=> a.op \in {"reset", "publish"} /\ HeadOf(t) = h /\ SideLockOf(a) = l
         /\ PublishingAt(sm, h, l) <=> a.op = "publish" /\ HeadOf(t) = h /\ SideLockOf(a) = l
         /\ EndingAt(sm, h, l)' <=> ((a.op = "add" /\ n = 1) \/ a.op = "reset") /\ HeadOf(t) = h /\ SideLockOf(a) = l
         /\ PublishingAt(sm, h, l)' <=> a.op = "reset" /\ HeadOf(t) = h /\ SideLockOf(a) = l
         /\ HeadPart(sm) = PartOf(t, a)
         /\ EndingAt(sm, h, l)' => HeadPart(sm)' = PartOf(t, a)
<1>1. /\ HeadAt(sm) = HeadOf(t) /\ SideLock(sm) = SideLockOf(a) /\ Tile(sm) = t
      /\ todo[sm] # <<>> /\ todo[sm][1] = a /\ config' = config /\ current' = current
  BY ActedFacts DEF inputs, Acted
<1>2. /\ NextIs(sm, a, n)
      /\ a.op = "reset" => todo'[sm] # <<>> /\ todo'[sm][1] = Act("publish", a.visit, a.where)
      /\ a.op = "add" /\ n = 1 => todo'[sm] # <<>> /\ todo'[sm][1] = Act("reset", a.visit, a.where)
  BY NextHead
<1>3. HeadPart(sm) = PartOf(t, a)
  BY <1>1 DEF HeadPart
<1>4. HeadAt(sm)' = HeadOf(t)
  BY <1>1 DEF HeadAt, HeadOf, LockHead, Tile, Path
<1>5. ASSUME NEW b, todo'[sm][1] = b, b.visit = a.visit, b.where = a.where
      PROVE  SideLock(sm)' = SideLockOf(a) /\ HeadPart(sm)' = PartOf(t, a)
  <2>1. SideLock(sm)' = SideLockOf(a)
    BY <1>1, <1>5 DEF SideLock, SideLockOf, Where, Visit, LeftLock, RightLock, Offset, First, BlockSize
  <2>2. HeadPart(sm)' = PartOf(t, a)
    BY <1>1, <1>5 DEF HeadPart, PartOf, Part, NumSteps, StepOf, Path, Tile, Groups
  <2>3. QED
    BY <2>1, <2>2
<1>6. /\ HeadIs(sm, "reset")' <=> a.op = "add" /\ n = 1
      /\ HeadIs(sm, "publish")' <=> a.op = "reset"
      /\ HeadIs(sm, "reset")' \/ HeadIs(sm, "publish")' => todo'[sm][1].visit = a.visit /\ todo'[sm][1].where = a.where
  BY <1>2 DEF HeadIs, NextIs, Act
<1>7. HeadIs(sm, "reset")' \/ HeadIs(sm, "publish")' => SideLock(sm)' = SideLockOf(a) /\ HeadPart(sm)' = PartOf(t, a)
  BY <1>5, <1>6
<1>8. EndingAt(sm, h, l) <=> a.op \in {"reset", "publish"} /\ HeadOf(t) = h /\ SideLockOf(a) = l
  BY <1>1 DEF EndingAt, Ending, HeadIs
<1>9. PublishingAt(sm, h, l) <=> a.op = "publish" /\ HeadOf(t) = h /\ SideLockOf(a) = l
  BY <1>1 DEF PublishingAt, HeadIs
<1>10. EndingAt(sm, h, l)' <=> (HeadIs(sm, "reset")' \/ HeadIs(sm, "publish")') /\ HeadAt(sm)' = h /\ SideLock(sm)' = l
  BY DEF EndingAt, Ending
<1>11. PublishingAt(sm, h, l)' <=> HeadIs(sm, "publish")' /\ HeadAt(sm)' = h /\ SideLock(sm)' = l
  BY DEF PublishingAt
<1>12. QED
  BY <1>3, <1>4, <1>6, <1>7, <1>8, <1>9, <1>10, <1>11

-------------------------------------------------------------------------------
(* Actions that touch no turn.                                               *)

\* Other SMs end what they ended.
LEMMA OtherHeads ==
  ASSUME Frame, NEW sm \in Sms, NEW t, NEW k, NEW n, NEW a, Acted(sm, t, k, n, a)
  PROVE  /\ config' = config /\ epilogue' = epilogue
         /\ \A s \in Sms : s # sm => \A h, l : KeptHead(s, h, l)
<1>1. config' = config /\ epilogue' = epilogue /\ current' = current
  BY ActedFacts DEF inputs
<1>2. \A s \in Sms : s # sm => todo'[s] = todo[s]
  BY DEF Acted, Did
<1>3. ASSUME NEW s \in Sms, s # sm, NEW h, NEW l PROVE KeptHead(s, h, l)
  BY <1>1, <1>2, <1>3, SameHead
<1>4. QED
  BY <1>1, <1>3

\* Turns that do not go back, and awaits that are done only when they may.
LEMMA AwaitsKept ==
  ASSUME Frame, LocksOK', LockInv, config' = config, epilogue' = epilogue,
         \A h \in LockHeads, l \in Locks : turn[h][l] <= turn'[h][l],
         \A u \in Tiles : \A b \in ToSet(epilogue[u]) :
           b.op = "await" /\ Done(u, b)' => Done(u, b) \/ Reached(HeadOf(u), b.where, PartOf(u, b))
  PROVE  AwaitMeansReached'
<1>1. /\ Tiles' = Tiles /\ Locks' = Locks /\ LockHeads' = LockHeads
      /\ \A t, a : PartOf(t, a)' = PartOf(t, a)
      /\ \A t : HeadOf(t)' = HeadOf(t)
  BY SameConfig
<1>2. ASSUME NEW t \in Tiles, NEW a \in ToSet(epilogue[t]), a.op = "await", Done(t, a)'
      PROVE  Reached(HeadOf(t), a.where, PartOf(t, a))'
  <2>1. PICK h, l, p : h = HeadOf(t) /\ l = a.where /\ p = PartOf(t, a)
    OBVIOUS
  <2>2. Reached(h, l, p)
    BY <1>2, <2>1 DEF LockInv, AwaitMeansReached
  <2>3. h \in LockHeads /\ l \in Locks
    BY <1>2, <2>1, ActWhere DEF Frame
  <2>4. turn[h][l] \in Nat /\ turn'[h][l] \in Nat /\ turn[h][l] <= turn'[h][l]
    BY <1>1, <2>3 DEF Frame, BasicOK, LocksOK
  <2>5. Reached(h, l, p)'
    BY <2>2, <2>4, ReachedKept
  <2>6. h = HeadOf(t)' /\ p = PartOf(t, a)'
    BY <1>1, <2>1
  <2>7. QED
    BY <2>1, <2>5, <2>6 DEF Reached
<1>3. QED
  BY <1>1, <1>2 DEF AwaitMeansReached

\* When no turn changes, what turns mean stays true.
LEMMA TurnsKept ==
  ASSUME TurnMeansArrived, config' = config, epilogue' = epilogue, turn' = turn,
         \A u \in Tiles : \A b \in ToSet(epilogue[u]) : Done(u, b) => Done(u, b)'
  PROVE  TurnMeansArrived'
<1>1. ASSUME NEW t \in Tiles, NEW a \in ToSet(epilogue[t]), a.op = "add", PartOf(t, a) < turn[HeadOf(t)][SideLockOf(a)]
      PROVE  Done(t, a)'
  BY <1>1 DEF TurnMeansArrived
<1>2. QED
  BY <1>1, SameConfig DEF TurnMeansArrived

\* The head of an SM that adds, resets or publishes: its turn has come, and its part is the current one.
LEMMA ArrivingFacts ==
  ASSUME Frame, LockInv, NEW sm \in Sms, NEW t, NEW k, NEW n, NEW a, Acted(sm, t, k, n, a), a.op \in {"add", "reset", "publish"}
  PROVE  /\ t \in Tiles /\ a \in ToSet(epilogue[t]) /\ HeadOf(t) \in LockHeads /\ SideLockOf(a) \in Locks
         /\ a = Act(a.op, a.visit, a.where) /\ a.where \in {"left", "right"} /\ config.deterministic
         /\ AddsAt(t, Act("add", a.visit, a.where), HeadOf(t), SideLockOf(a))
         /\ PartOf(t, Act("add", a.visit, a.where)) = PartOf(t, a) /\ PartOf(t, a) \in Nat
         /\ Reached(HeadOf(t), SideLockOf(a), PartOf(t, a))
         /\ turn[HeadOf(t)][SideLockOf(a)] \in Nat
<1>1. InputInv
  BY DEF Frame
<1>2. t \in Tiles /\ a \in ToSet(epilogue[t])
  BY ActedFacts
<1>3. /\ HeadOf(t) \in LockHeads /\ SideLockOf(a) \in Locks /\ config.deterministic
      /\ a = Act(a.op, a.visit, a.where) /\ a.where \in {"left", "right"}
      /\ SideLockOf(a) \in {LeftLock(a.visit), RightLock(a.visit)} /\ PartOf(t, a) \in Nat
  BY <1>1, <1>2, ActShape, ActFacts, ActWhere
<1> DEFINE c == Act("add", a.visit, a.where)
           b == Act("await", a.visit, SideLockOf(a))
<1>4. c \in ToSet(epilogue[t]) /\ b \in ToSet(epilogue[t])
  BY <1>1, <1>2, <1>3, ActSiblings
<1>5. /\ c.op = "add" /\ c.visit = a.visit /\ c.where = a.where /\ b.op = "await" /\ b.visit = a.visit /\ b.where = SideLockOf(a)
      /\ Rank(b) < Rank(a)
  BY <1>3, AwaitRank DEF Act
<1> HIDE DEF b, c
<1>6. PartOf(t, c) = PartOf(t, a) /\ PartOf(t, b) = PartOf(t, a) /\ SideLockOf(c) = SideLockOf(a)
  BY <1>5 DEF PartOf, SideLockOf
<1>7. AddsAt(t, c, HeadOf(t), SideLockOf(a))
  BY <1>2, <1>4, <1>5, <1>6 DEF AddsAt
<1>8. Done(t, b)
  BY <1>4, <1>5, DoneEarlier
<1>9. Reached(HeadOf(t), SideLockOf(a), PartOf(t, a))
  BY <1>2, <1>4, <1>5, <1>6, <1>8 DEF LockInv, AwaitMeansReached
<1>10. turn[HeadOf(t)][SideLockOf(a)] \in Nat
  BY <1>3 DEF Frame, BasicOK, LocksOK
<1>11. QED
  BY <1>2, <1>3, <1>6, <1>7, <1>9, <1>10 DEF c

\* Actions that touch neither turns nor counters.
LEMMA PlainLocks ==
  ASSUME Frame, LockInv, NEW sm \in Sms, NEW t, NEW k, NEW n, NEW a, Acted(sm, t, k, n, a),
         a.op \notin {"add", "reset", "publish"}, turn' = turn, count' = count,
         a.op = "await" => Reached(HeadOf(t), a.where, PartOf(t, a))
  PROVE  LockInv'
<1>1. config' = config /\ epilogue' = epilogue /\ \A s \in Sms : s # sm => \A h, l : KeptHead(s, h, l)
  BY OtherHeads
<1>2. \A h, l : KeptHead(sm, h, l)
  BY HeadStep DEF KeptHead
<1>3. \A u \in Tiles : \A b \in ToSet(epilogue[u]) :
        b.op \notin {"reset", "publish"} => (Done(u, b)' <=> Done(u, b) \/ (u = t /\ b = a))
  BY ActedDone
<1>4. \A u \in Tiles : \A b \in ToSet(epilogue[u]) : b.op = "add" => (Done(u, b)' <=> Done(u, b))
  BY <1>3
<1>5. \A u \in Tiles : \A b \in ToSet(epilogue[u]) :
        b.op = "await" /\ Done(u, b)' => Done(u, b) \/ Reached(HeadOf(u), b.where, PartOf(u, b))
  BY <1>3
<1>6. QED
  BY <1>1, <1>2, <1>4, <1>5, Neutral

\* Other lock blocks than that of the head.
LEMMA OtherLock ==
  ASSUME Frame, LockInv, NEW sm \in Sms, NEW t, NEW k, NEW n, NEW a, Acted(sm, t, k, n, a), a.op \in {"add", "reset", "publish"},
         NEW h \in LockHeads, NEW l \in Locks, ~(h = HeadOf(t) /\ l = SideLockOf(a)),
         turn'[h][l] = turn[h][l], count'[h][l] = count[h][l]
  PROVE  CountAt(h, l)' /\ EndedAt(h, l)'
<1>1. config' = config /\ epilogue' = epilogue /\ \A s \in Sms : s # sm => KeptHead(s, h, l)
  BY OtherHeads
<1>2. KeptHead(sm, h, l)
  BY HeadStep DEF KeptHead
<1>3. ASSUME NEW u, NEW b, AddsAt(u, b, h, l) PROVE Done(u, b)' <=> Done(u, b)
  <2>1. u \in Tiles /\ b \in ToSet(epilogue[u]) /\ b.op = "add" /\ ~(u = t /\ b = a)
    BY <1>3 DEF AddsAt
  <2>2. QED
    BY <2>1, ActedDone
<1>4. CountAt(h, l) /\ EndedAt(h, l)
  BY DEF LockInv, CountInv, EndingInv
<1>5. QED
  BY <1>1, <1>2, <1>3, <1>4, LockKept

\* A side counts zero, one or two.
LEMMA ArrivedValue ==
  ASSUME NEW h, NEW l, NEW side
  PROVE  /\ Arrived(h, l, side) \in {0, 1, 2}
         /\ Arrived(h, l, side) # 0 => \E w : ArrivedWith(h, l, side, w)
BY DEF Arrived

-------------------------------------------------------------------------------
(* To arrive.                                                                *)

\* An add comes when its part is the current one, and no other SM ends that part.
LEMMA AddTurn ==
  ASSUME Frame, LockInv, NEW sm \in Sms, NEW t, NEW k, NEW n, NEW a, Acted(sm, t, k, n, a), a.op = "add",
         NEW h, NEW l, h = HeadOf(t), l = SideLockOf(a)
  PROVE  /\ AddsAt(t, a, h, l) /\ ~Done(t, a) /\ PartOf(t, a) >= turn[h][l]
         /\ \A u, b : AddsAt(u, b, h, l) /\ Done(u, b) /\ PartOf(u, b) >= turn[h][l] => PartOf(u, b) = PartOf(t, a)
         /\ \A s \in Sms : ~EndingAt(s, h, l)
         /\ \A w : ~ArrivedWith(h, l, a.where, w)
<1>1. /\ t \in Tiles /\ a \in ToSet(epilogue[t]) /\ h \in LockHeads /\ l \in Locks
      /\ AddsAt(t, Act("add", a.visit, a.where), h, l) /\ a = Act("add", a.visit, a.where)
      /\ PartOf(t, a) \in Nat /\ Reached(h, l, PartOf(t, a)) /\ turn[h][l] \in Nat
  BY ArrivingFacts
<1>2. AddsAt(t, a, h, l) /\ ~Done(t, a)
  BY <1>1, ActedFacts
<1>3. TurnMeansArrived /\ AwaitMeansReached /\ EndedAt(h, l)
  BY <1>1 DEF LockInv, EndingInv
<1>4. ~(PartOf(t, a) < turn[h][l])
  BY <1>1, <1>2, <1>3 DEF TurnMeansArrived
<1>5. PartOf(t, a) >= turn[h][l]
  BY <1>1, <1>4
<1>6. ASSUME NEW u, NEW b, AddsAt(u, b, h, l), Done(u, b), PartOf(u, b) >= turn[h][l] PROVE PartOf(u, b) = PartOf(t, a)
  <2>1. Reached(h, l, PartOf(u, b))
    BY <1>3, <1>6, AddReached
  <2>2. QED
    BY <1>1, <1>2, <1>5, <1>6, <2>1, SamePart
<1>7. ASSUME NEW s \in Sms, EndingAt(s, h, l) PROVE FALSE
  <2>1. PICK u, b : AddsAt(u, b, h, l) /\ Done(u, b) /\ PartOf(u, b) = HeadPart(s)
    BY <1>7, EndingFacts
  <2>2. turn[h][l] <= HeadPart(s) /\ AllArrived(h, l, HeadPart(s))
    BY <1>3, <1>7 DEF EndedAt
  <2>3. PartOf(u, b) \in Nat
    BY <2>1, AddsFacts
  <2>4. PartOf(u, b) >= turn[h][l]
    BY <1>1, <2>1, <2>2, <2>3
  <2>5. PartOf(t, a) = HeadPart(s)
    BY <1>6, <2>1, <2>4
  <2>6. Done(t, a)
    BY <1>1, <1>2, <2>2, <2>5 DEF AllArrived
  <2>7. QED
    BY <1>2, <2>6
<1>8. ASSUME NEW w, ArrivedWith(h, l, a.where, w) PROVE FALSE
  <2>1. PICK u, b : AddsAt(u, b, h, l) /\ b.where = a.where /\ PartOf(u, b) >= turn[h][l] /\ Done(u, b)
    BY <1>8 DEF ArrivedWith
  <2>2. PartOf(u, b) = PartOf(t, a)
    BY <1>6, <2>1
  <2>3. u = t /\ b = a
    BY <1>2, <2>1, <2>2, PartSides
  <2>4. QED
    BY <1>2, <2>1, <2>3
<1>9. QED
  BY <1>2, <1>5, <1>6, <1>7, <1>8

\* What has arrived after an add.
LEMMA AddArrived ==
  ASSUME Frame, LockInv, NEW sm \in Sms, NEW t, NEW k, NEW n, NEW a, Acted(sm, t, k, n, a), a.op = "add",
         NEW h, NEW l, h = HeadOf(t), l = SideLockOf(a), turn' = turn, NEW side \in {"left", "right"}
  PROVE  Arrived(h, l, side)' = Arrived(h, l, side) + (IF side = a.where THEN AddCount(a.visit, a.where) ELSE 0)
<1>1. /\ AddsAt(t, a, h, l) /\ ~Done(t, a) /\ PartOf(t, a) >= turn[h][l]
      /\ \A w : ~ArrivedWith(h, l, a.where, w)
  BY AddTurn
<1>2. config' = config /\ epilogue' = epilogue
  BY OtherHeads
<1>3. /\ Tiles' = Tiles /\ (\A u, b : PartOf(u, b)' = PartOf(u, b)) /\ \A b : AddCount(b.visit, side)' = AddCount(b.visit, side)
  BY <1>2, SameConfig
<1>4. \A u, b : AddsAt(u, b, h, l)' <=> AddsAt(u, b, h, l)
  BY <1>2, SameAdds
<1>5. ASSUME NEW u, NEW b, AddsAt(u, b, h, l) PROVE Done(u, b)' <=> Done(u, b) \/ (u = t /\ b = a)
  <2>1. u \in Tiles /\ b \in ToSet(epilogue[u]) /\ b.op = "add"
    BY <1>5 DEF AddsAt
  <2>2. QED
    BY <2>1, ActedDone
<1>6. ASSUME NEW w
      PROVE  ArrivedWith(h, l, side, w)' <=> ArrivedWith(h, l, side, w) \/ (side = a.where /\ w = AddCount(a.visit, side))
  <2>1. ArrivedWith(h, l, side, w)' <=>
          \E u \in Tiles : \E b \in ToSet(epilogue[u]) :
            /\ AddsAt(u, b, h, l) /\ b.where = side /\ AddCount(b.visit, side) = w
            /\ PartOf(u, b) >= turn[h][l] /\ Done(u, b)'
    BY <1>2, <1>3, <1>4 DEF ArrivedWith
  <2>2. t \in Tiles /\ a \in ToSet(epilogue[t])
    BY <1>1 DEF AddsAt
  <2>3. QED
    BY <1>1, <1>5, <2>1, <2>2 DEF ArrivedWith
<1>7. AddCount(a.visit, side) \in {1, 2}
  <2>1. t \in Tiles /\ a \in ToSet(epilogue[t])
    BY <1>1 DEF AddsAt
  <2>2. QED
    BY <2>1, ActWhere DEF Frame
<1>8. CASE side = a.where
  <2>1. Arrived(h, l, side) = 0
    BY <1>1, <1>8 DEF Arrived
  <2>2. Arrived(h, l, side)' = AddCount(a.visit, side)
    BY <1>1, <1>6, <1>7, <1>8 DEF Arrived
  <2>3. QED
    BY <1>7, <1>8, <2>1, <2>2
<1>9. CASE side # a.where
  <2>1. Arrived(h, l, side)' = Arrived(h, l, side)
    BY <1>6, <1>9 DEF Arrived
  <2>2. Arrived(h, l, side) \in {0, 1, 2}
    BY ArrivedValue
  <2>3. QED
    BY <1>9, <2>1, <2>2
<1>10. QED
  BY <1>8, <1>9

\* An add keeps the lock invariant.
LEMMA AddLocks ==
  ASSUME Frame, LockInv, NEW sm \in Sms, NEW t, NEW k, NEW n, NEW a, Acted(sm, t, k, n, a), a.op = "add",
         n = 1 <=> AddTotal(t, a) = 2, turn' = turn,
         count' = [count EXCEPT ![HeadOf(t)][SideLockOf(a)] = AddTotal(t, a)], LocksOK'
  PROVE  LockInv'
<1>0. PICK h, l, p : h = HeadOf(t) /\ l = SideLockOf(a) /\ p = PartOf(t, a)
  OBVIOUS
<1>1. /\ TurnMeansArrived /\ AwaitMeansReached /\ CountInv /\ EndingInv /\ TurnInv
  BY DEF LockInv
<1>2. /\ config' = config /\ epilogue' = epilogue
      /\ \A s \in Sms : s # sm => KeptHead(s, h, l)
  BY OtherHeads
<1>3. /\ t \in Tiles /\ a \in ToSet(epilogue[t]) /\ h \in LockHeads /\ l \in Locks /\ p \in Nat
      /\ turn[h][l] \in Nat /\ a.where \in {"left", "right"}
  BY <1>0, ArrivingFacts
<1>4. /\ AddsAt(t, a, h, l) /\ p >= turn[h][l]
      /\ \A u, b : AddsAt(u, b, h, l) /\ Done(u, b) /\ PartOf(u, b) >= turn[h][l] => PartOf(u, b) = p
      /\ \A s \in Sms : ~EndingAt(s, h, l)
      /\ \A w : ~ArrivedWith(h, l, a.where, w)
  BY <1>0, AddTurn
<1>5. \A side \in {"left", "right"} :
        Arrived(h, l, side)' = Arrived(h, l, side) + (IF side = a.where THEN AddCount(a.visit, a.where) ELSE 0)
  BY <1>0, AddArrived
<1>6. \A u \in Tiles : \A b \in ToSet(epilogue[u]) :
        /\ Done(u, b) => Done(u, b)'
        /\ b.op \notin {"reset", "publish"} => (Done(u, b)' <=> Done(u, b) \/ (u = t /\ b = a))
  BY ActedDone
<1>7. /\ /\ ~EndingAt(sm, h, l) /\ ~PublishingAt(sm, h, l)'
         /\ EndingAt(sm, h, l)' <=> n = 1
         /\ EndingAt(sm, h, l)' => HeadPart(sm)' = p
  BY <1>0, HeadStep
<1>8. count \in [LockHeads -> [Locks -> Int]]
  BY DEF Frame, BasicOK, LocksOK
<1>9. count'[h][l] = AddTotal(t, a) /\ \A h2 \in LockHeads, l2 \in Locks : ~(h2 = h /\ l2 = l) => count'[h2][l2] = count[h2][l2]
  BY <1>0, <1>3, <1>8
<1>10. /\ Arrived(h, l, "left") \in {0, 1, 2} /\ Arrived(h, l, "right") \in {0, 1, 2}
       /\ AddCount(a.visit, a.where) \in {1, 2}
  BY <1>3, ArrivedValue, ActWhere DEF Frame
<1>11. ~Publishing(h, l)
  <2>1. \A s \in Sms : PublishingAt(s, h, l) => EndingAt(s, h, l)
    BY DEF PublishingAt, EndingAt, Ending
  <2>2. QED
    BY <1>4, <2>1 DEF Publishing
<1>12. AddTotal(t, a) = Arrived(h, l, "left") + Arrived(h, l, "right") + AddCount(a.visit, a.where)
  <2>1. CountAt(h, l)
    BY <1>1, <1>3 DEF CountInv
  <2>2. count[h][l] = Arrived(h, l, "left") + Arrived(h, l, "right")
    BY <1>11, <2>1 DEF CountAt
  <2>3. QED
    BY <1>0, <2>2 DEF AddTotal
<1>13. ~Publishing(h, l)'
  <2>1. \A s \in Sms : ~PublishingAt(s, h, l)'
    <3> TAKE s \in Sms
    <3>1. CASE s = sm
      BY <1>7, <3>1
    <3>2. CASE s # sm
      <4>1. PublishingAt(s, h, l)' <=> PublishingAt(s, h, l)
        BY <1>2, <3>2 DEF KeptHead
      <4>2. QED
        BY <1>11, <4>1 DEF Publishing
    <3>3. QED
      BY <3>1, <3>2
  <2>2. QED
    BY <2>1 DEF Publishing, Sms
<1>14. CountAt(h, l)'
  <2>1. Arrived(h, l, "left")' + Arrived(h, l, "right")' = Arrived(h, l, "left") + Arrived(h, l, "right") + AddCount(a.visit, a.where)
    <3>1. CASE a.where = "left"
      <4>1. /\ Arrived(h, l, "left")' = Arrived(h, l, "left") + AddCount(a.visit, a.where)
            /\ Arrived(h, l, "right")' = Arrived(h, l, "right") + 0
        BY <1>5, <3>1
      <4>2. QED
        BY <1>10, <4>1
    <3>2. CASE a.where = "right"
      <4>1. /\ Arrived(h, l, "left")' = Arrived(h, l, "left") + 0
            /\ Arrived(h, l, "right")' = Arrived(h, l, "right") + AddCount(a.visit, a.where)
        BY <1>5, <3>2
      <4>2. QED
        BY <1>10, <4>1
    <3>3. QED
      BY <1>3, <3>1, <3>2
  <2>2. count'[h][l] = Arrived(h, l, "left")' + Arrived(h, l, "right")'
    BY <1>9, <1>12, <2>1
  <2>3. QED
    BY <1>13, <2>2 DEF CountAt
<1>15. ASSUME n = 1 PROVE AllArrived(h, l, p)'
  <2>1. AddTotal(t, a) = 2
    BY <1>15
  <2>2. ASSUME NEW u, NEW b, AddsAt(u, b, h, l), PartOf(u, b) = p PROVE Done(u, b)'
    <3>0. u \in Tiles /\ b \in ToSet(epilogue[u]) /\ b.op = "add" /\ b.where \in {"left", "right"}
      BY <2>2, AddsFacts
    <3>1. CASE b.where = a.where
      <4>1. u = t /\ b = a
        BY <1>0, <1>4, <2>2, <3>1, PartSides
      <4>2. QED
        BY <1>6, <3>0, <4>1
    <3>2. CASE b.where # a.where
      <4>1. AddCount(a.visit, a.where) = 1
        BY <1>0, <1>4, <2>2, <3>2, PartSides
      <4>2. Arrived(h, l, a.where) = 0
        BY <1>4 DEF Arrived
      <4>3. Arrived(h, l, b.where) # 0
        <5>1. CASE a.where = "left"
          BY <1>3, <1>10, <1>12, <2>1, <3>0, <3>2, <4>1, <4>2, <5>1
        <5>2. CASE a.where = "right"
          BY <1>3, <1>10, <1>12, <2>1, <3>0, <3>2, <4>1, <4>2, <5>2
        <5>3. QED
          BY <1>3, <5>1, <5>2
      <4>4. PICK w : ArrivedWith(h, l, b.where, w)
        BY <4>3, ArrivedValue
      <4>5. PICK u2, b2 : AddsAt(u2, b2, h, l) /\ b2.where = b.where /\ PartOf(u2, b2) >= turn[h][l] /\ Done(u2, b2)
        BY <4>4 DEF ArrivedWith
      <4>6. PartOf(u2, b2) = p
        BY <1>4, <4>5
      <4>7. u2 = u /\ b2 = b
        BY <2>2, <4>5, <4>6, PartSides
      <4>8. QED
        BY <1>6, <3>0, <4>5, <4>7
    <3>3. QED
      BY <3>1, <3>2
  <2>3. \A u, b : AddsAt(u, b, h, l)' <=> AddsAt(u, b, h, l)
    BY <1>2, SameAdds
  <2>4. QED
    BY <1>2, <2>2, <2>3, SameConfig DEF AllArrived
<1>16. EndedAt(h, l)'
  <2>1. \A s \in Sms : EndingAt(s, h, l)' => s = sm
    <3> SUFFICES ASSUME NEW s \in Sms, EndingAt(s, h, l)', s # sm PROVE FALSE
      OBVIOUS
    <3>1. EndingAt(s, h, l)
      BY <1>2 DEF KeptHead
    <3>2. QED
      BY <1>4, <3>1
  <2>2. ASSUME EndingAt(sm, h, l)' PROVE turn'[h][l] <= HeadPart(sm)' /\ AllArrived(h, l, HeadPart(sm))'
    <3>1. n = 1 /\ HeadPart(sm)' = p
      BY <1>7, <2>2
    <3>2. AllArrived(h, l, p)' /\ turn[h][l] <= p
      BY <1>3, <1>4, <1>15, <3>1
    <3>3. QED
      BY <3>1, <3>2 DEF AllArrived
  <2>3. QED
    BY <2>1, <2>2 DEF EndedAt, Sms
<1>17. ASSUME NEW h2 \in LockHeads, NEW l2 \in Locks PROVE CountAt(h2, l2)' /\ EndedAt(h2, l2)'
  <2>1. CASE h2 = h /\ l2 = l
    BY <1>14, <1>16, <2>1
  <2>2. CASE ~(h2 = h /\ l2 = l)
    <3>1. count'[h2][l2] = count[h2][l2] /\ turn'[h2][l2] = turn[h2][l2]
      BY <1>9, <2>2
    <3>2. QED
      BY <1>0, <2>2, <3>1, OtherLock
  <2>3. QED
    BY <2>1, <2>2
<1>18. Locks' = Locks /\ LockHeads' = LockHeads /\ NumBatches' = NumBatches /\ NumSteps' = NumSteps
  BY <1>2, SameConfig
<1>19. CountInv' /\ EndingInv' /\ TurnInv'
  BY <1>1, <1>2, <1>17, <1>18 DEF CountInv, EndingInv, TurnInv
<1>20. TurnMeansArrived'
  BY <1>1, <1>2, <1>6, TurnsKept
<1>21. AwaitMeansReached'
  <2>1. \A h2 \in LockHeads, l2 \in Locks : turn[h2][l2] <= turn'[h2][l2]
    <3>1. \A h2 \in LockHeads, l2 \in Locks : turn[h2][l2] \in Nat
      BY DEF Frame, BasicOK, LocksOK
    <3>2. \A x \in Nat : x <= x
      OBVIOUS
    <3>3. QED
      BY <3>1, <3>2
  <2>2. \A u \in Tiles : \A b \in ToSet(epilogue[u]) : b.op = "await" /\ Done(u, b)' => Done(u, b)
    BY <1>6
  <2>3. QED
    BY <1>2, <2>1, <2>2, AwaitsKept
<1>22. QED
  BY <1>19, <1>20, <1>21 DEF LockInv

-------------------------------------------------------------------------------
(* To reset a counter.                                                       *)

\* An SM that resets or publishes: the current part has arrived, and no other SM ends it.
LEMMA EndTurn ==
  ASSUME Frame, LockInv, NEW sm \in Sms, NEW t, NEW k, NEW n, NEW a, Acted(sm, t, k, n, a), a.op \in {"reset", "publish"},
         NEW h, NEW l, h = HeadOf(t), l = SideLockOf(a)
  PROVE  /\ turn[h][l] <= PartOf(t, a) /\ AllArrived(h, l, PartOf(t, a))
         /\ \A s \in Sms : EndingAt(s, h, l) => s = sm
<1>1. h \in LockHeads /\ l \in Locks
  BY ArrivingFacts
<1>2. EndingAt(sm, h, l) /\ HeadPart(sm) = PartOf(t, a)
  BY HeadStep
<1>3. EndedAt(h, l)
  BY <1>1 DEF LockInv, EndingInv
<1>4. QED
  BY <1>2, <1>3 DEF EndedAt

\* What has arrived stays so.
LEMMA AllArrivedKept ==
  ASSUME Frame, NEW sm \in Sms, NEW t, NEW k, NEW n, NEW a, Acted(sm, t, k, n, a), NEW h, NEW l, NEW p, AllArrived(h, l, p)
  PROVE  AllArrived(h, l, p)'
<1>1. config' = config /\ epilogue' = epilogue
  BY OtherHeads
<1>2. \A u \in Tiles : \A b \in ToSet(epilogue[u]) : Done(u, b) => Done(u, b)'
  BY ActedDone
<1>3. \A u, b : AddsAt(u, b, h, l)' <=> AddsAt(u, b, h, l)
  BY <1>1, SameAdds
<1>4. QED
  BY <1>1, <1>2, <1>3, SameConfig DEF AllArrived

\* A reset keeps the lock invariant.
LEMMA ResetLocks ==
  ASSUME Frame, LockInv, NEW sm \in Sms, NEW t, NEW k, NEW n, NEW a, Acted(sm, t, k, n, a), a.op = "reset",
         turn' = turn, count' = [count EXCEPT ![HeadOf(t)][SideLockOf(a)] = 0], LocksOK'
  PROVE  LockInv'
<1>0. PICK h, l, p : h = HeadOf(t) /\ l = SideLockOf(a) /\ p = PartOf(t, a)
  OBVIOUS
<1>1. TurnMeansArrived /\ AwaitMeansReached /\ CountInv /\ EndingInv /\ TurnInv
  BY DEF LockInv
<1>2. /\ config' = config /\ epilogue' = epilogue
      /\ \A s \in Sms : s # sm => KeptHead(s, h, l)
  BY OtherHeads
<1>3. h \in LockHeads /\ l \in Locks
  BY <1>0, ArrivingFacts
<1>4. turn[h][l] <= p /\ AllArrived(h, l, p) /\ \A s \in Sms : EndingAt(s, h, l) => s = sm
  BY <1>0, EndTurn
<1>5. EndingAt(sm, h, l)' /\ PublishingAt(sm, h, l)' /\ HeadPart(sm)' = p
  BY <1>0, HeadStep
<1>6. count \in [LockHeads -> [Locks -> Int]]
  BY DEF Frame, BasicOK, LocksOK
<1>7. count'[h][l] = 0 /\ \A h2 \in LockHeads, l2 \in Locks : ~(h2 = h /\ l2 = l) => count'[h2][l2] = count[h2][l2]
  BY <1>0, <1>3, <1>6
<1>8. CountAt(h, l)'
  <2>1. Publishing(h, l)'
    BY <1>5 DEF Publishing, Sms
  <2>2. QED
    BY <1>7, <2>1 DEF CountAt
<1>9. EndedAt(h, l)'
  <2>1. \A s \in Sms : EndingAt(s, h, l)' => s = sm
    <3> SUFFICES ASSUME NEW s \in Sms, EndingAt(s, h, l)', s # sm PROVE FALSE
      OBVIOUS
    <3>1. EndingAt(s, h, l)
      BY <1>2 DEF KeptHead
    <3>2. QED
      BY <1>4, <3>1
  <2>2. AllArrived(h, l, p)'
    BY <1>4, AllArrivedKept
  <2>3. turn'[h][l] <= HeadPart(sm)' /\ AllArrived(h, l, HeadPart(sm))'
    BY <1>4, <1>5, <2>2 DEF AllArrived
  <2>4. QED
    BY <2>1, <2>3 DEF EndedAt, Sms
<1>10. ASSUME NEW h2 \in LockHeads, NEW l2 \in Locks PROVE CountAt(h2, l2)' /\ EndedAt(h2, l2)'
  <2>1. CASE h2 = h /\ l2 = l
    BY <1>8, <1>9, <2>1
  <2>2. CASE ~(h2 = h /\ l2 = l)
    <3>1. count'[h2][l2] = count[h2][l2] /\ turn'[h2][l2] = turn[h2][l2]
      BY <1>7, <2>2
    <3>2. QED
      BY <1>0, <2>2, <3>1, OtherLock
  <2>3. QED
    BY <2>1, <2>2
<1>11. Locks' = Locks /\ LockHeads' = LockHeads /\ NumBatches' = NumBatches /\ NumSteps' = NumSteps
  BY <1>2, SameConfig
<1>12. CountInv' /\ EndingInv' /\ TurnInv'
  BY <1>1, <1>2, <1>10, <1>11 DEF CountInv, EndingInv, TurnInv
<1>13. \A u \in Tiles : \A b \in ToSet(epilogue[u]) :
         /\ Done(u, b) => Done(u, b)'
         /\ b.op \notin {"reset", "publish"} => (Done(u, b)' <=> Done(u, b) \/ (u = t /\ b = a))
  BY ActedDone
<1>14. TurnMeansArrived'
  BY <1>1, <1>2, <1>13, TurnsKept
<1>15. AwaitMeansReached'
  <2>1. \A h2 \in LockHeads, l2 \in Locks : turn[h2][l2] <= turn'[h2][l2]
    <3>1. \A h2 \in LockHeads, l2 \in Locks : turn[h2][l2] \in Nat
      BY DEF Frame, BasicOK, LocksOK
    <3>2. \A x \in Nat : x <= x
      OBVIOUS
    <3>3. QED
      BY <3>1, <3>2
  <2>2. \A u \in Tiles : \A b \in ToSet(epilogue[u]) : b.op = "await" /\ Done(u, b)' => Done(u, b)
    BY <1>13
  <2>3. QED
    BY <1>2, <2>1, <2>2, AwaitsKept
<1>16. QED
  BY <1>12, <1>14, <1>15 DEF LockInv

-------------------------------------------------------------------------------
\* Below the turn that is published all parts have arrived.
LEMMA PublishBelow ==
  ASSUME Frame, LockInv, NEW sm \in Sms, NEW t, NEW k, NEW n, NEW a, Acted(sm, t, k, n, a), a.op = "publish",
         NEW h, NEW l, h = HeadOf(t), l = SideLockOf(a), NEW u, NEW b, AddsAt(u, b, h, l)
  PROVE  /\ PartOf(u, b) < NextTurnOf(t, a) => Done(u, b)
         /\ Done(u, b) => PartOf(u, b) < NextTurnOf(t, a)
<1>1. IsConfig
  BY InputFacts DEF Frame
<1>2. /\ t \in Tiles /\ a \in ToSet(epilogue[t]) /\ h \in LockHeads /\ l \in Locks /\ PartOf(t, a) \in Nat
      /\ Reached(h, l, PartOf(t, a)) /\ turn[h][l] \in Nat /\ AddsAt(t, Act("add", a.visit, a.where), h, l)
  BY ArrivingFacts
<1>3. turn[h][l] <= PartOf(t, a) /\ AllArrived(h, l, PartOf(t, a))
  BY EndTurn
<1>4. /\ u \in Tiles /\ b \in ToSet(epilogue[u]) /\ b.op = "add" /\ HeadOf(u) = h /\ SideLockOf(b) = l
      /\ b.visit.batch \in Nat /\ b.visit.batch \in Batches /\ StepOf(u) \in 0 .. LastStep /\ PartOf(u, b) \in Nat
      /\ Touches(b.visit.batch, l)
  BY AddsFacts
<1>5. a.visit.batch \in Nat /\ a.visit.batch \in Batches /\ StepOf(t) \in 0 .. LastStep
  BY <1>2, ActFacts DEF Frame
<1>6. Touches(a.visit.batch, l)
  BY <1>2, AddsFacts DEF Act
<1>7. PartOf(u, b) < NextTurnOf(t, a) <=> PartOf(u, b) <= PartOf(t, a)
  <2>1. \A c, s, d, r : c \in Nat /\ s \in 0 .. LastStep /\ d \in Nat /\ r \in 0 .. LastStep
           => (Part(d, r) < ArriveNum(c, s) <=> Part(d, r) <= Part(c, s))
    BY <1>1, ArriveNumIsNext
  <2>2. QED
    BY <1>4, <1>5, <2>1 DEF PartOf, NextTurnOf
<1>8. TurnMeansArrived /\ AwaitMeansReached
  BY DEF LockInv
<1>9. ASSUME PartOf(u, b) < PartOf(t, a) PROVE Done(u, b)
  <2>1. PartOf(u, b) < turn[h][l]
    BY <1>2, <1>4, <1>9 DEF Reached, PartOf
  <2>2. QED
    BY <1>4, <1>8, <2>1 DEF TurnMeansArrived
<1>10. ASSUME PartOf(u, b) = PartOf(t, a) PROVE Done(u, b)
  BY <1>3, <1>4, <1>10 DEF AllArrived
<1>11. ASSUME Done(u, b), PartOf(t, a) < PartOf(u, b) PROVE FALSE
  <2>1. Reached(h, l, PartOf(u, b))
    BY <1>8, <1>11, AddReached
  <2>2. PartOf(t, a) < turn[h][l]
    BY <1>5, <1>6, <1>11, <2>1 DEF Reached, PartOf
  <2>3. QED
    BY <1>2, <1>3, <2>2
<1>12. QED
  <2>1. PartOf(u, b) <= PartOf(t, a) => PartOf(u, b) < PartOf(t, a) \/ PartOf(u, b) = PartOf(t, a)
    BY <1>2, <1>4
  <2>2. PartOf(u, b) <= PartOf(t, a) \/ PartOf(t, a) < PartOf(u, b)
    BY <1>2, <1>4
  <2>3. QED
    BY <1>7, <1>9, <1>10, <1>11, <2>1, <2>2

-------------------------------------------------------------------------------
(* To publish a turn.                                                        *)

\* The turn that a step publishes is past the step.
LEMMA NextTurnBounds ==
  ASSUME InputInv, NEW t \in Tiles, NEW a \in ToSet(epilogue[t])
  PROVE  NextTurnOf(t, a) \in 0 .. NumBatches * NumSteps /\ NextTurnOf(t, a) \in Nat /\ PartOf(t, a) < NextTurnOf(t, a)
<1>1. /\ IsConfig /\ a.visit.batch \in Batches /\ a.visit.batch \in Nat /\ StepOf(t) \in 0 .. LastStep
  BY ActFacts, InputFacts
<1> DEFINE b == a.visit.batch
           s == StepOf(t)
<1>2. /\ (b + 1) * NumSteps \in Nat /\ ArriveNum(b, s) <= (b + 1) * NumSteps /\ ArriveNum(b, s) \in Nat
      /\ Part(b, s) < ArriveNum(b, s)
  <2>1. b \in Nat /\ s \in 0 .. LastStep
    BY <1>1
  <2> HIDE DEF b, s
  <2>2. QED
    BY <1>1, <2>1, PartBounds
<1>3. NumBatches \in Nat /\ NumSteps \in Nat
  BY <1>1, ConfigFacts, StepFacts
<1>4. b + 1 <= NumBatches /\ b + 1 \in Int /\ NumBatches \in Int
  BY <1>1, <1>3 DEF Batches
<1>5. NumSteps * (b + 1) <= NumSteps * NumBatches
  BY <1>3, <1>4, MulLe
<1>6. NumSteps * (b + 1) = (b + 1) * NumSteps /\ NumSteps * NumBatches = NumBatches * NumSteps
  BY <1>3, <1>4, MulStep
<1>7. NumBatches * NumSteps \in Int
  BY <1>3, <1>4, <1>6, MulLe
<1> DEFINE x == ArriveNum(b, s)
           y == (b + 1) * NumSteps
           z == NumBatches * NumSteps
<1>8. x \in Nat /\ y \in Nat /\ z \in Int /\ x <= y /\ y <= z
  BY <1>2, <1>5, <1>6, <1>7
<1> HIDE DEF x, y, z
<1>9. x \in 0 .. z
  BY <1>8
<1>10. QED
  BY <1>2, <1>9 DEF x, z, NextTurnOf, PartOf

\* A publish keeps the lock invariant.
LEMMA PublishLocks ==
  ASSUME Frame, LockInv, NEW sm \in Sms, NEW t, NEW k, NEW n, NEW a, Acted(sm, t, k, n, a), a.op = "publish",
         turn' = [turn EXCEPT ![HeadOf(t)][SideLockOf(a)] = NextTurnOf(t, a)], count' = count, LocksOK'
  PROVE  LockInv'
<1>0. PICK h, l, p, m : h = HeadOf(t) /\ l = SideLockOf(a) /\ p = PartOf(t, a) /\ m = NextTurnOf(t, a)
  OBVIOUS
<1>1. TurnMeansArrived /\ AwaitMeansReached /\ CountInv /\ EndingInv /\ TurnInv
  BY DEF LockInv
<1>2. /\ config' = config /\ epilogue' = epilogue
      /\ \A s \in Sms : s # sm => KeptHead(s, h, l)
  BY OtherHeads
<1>3. /\ h \in LockHeads /\ l \in Locks /\ t \in Tiles /\ a \in ToSet(epilogue[t]) /\ p \in Nat /\ config.deterministic
  BY <1>0, ArrivingFacts
<1>4. turn[h][l] <= p /\ \A s \in Sms : EndingAt(s, h, l) => s = sm
  BY <1>0, EndTurn
<1>5. EndingAt(sm, h, l) /\ PublishingAt(sm, h, l) /\ ~EndingAt(sm, h, l)' /\ ~PublishingAt(sm, h, l)'
  BY <1>0, HeadStep
<1>6. m \in 0 .. NumBatches * NumSteps /\ m \in Nat /\ p < m
  BY <1>0, <1>3, NextTurnBounds DEF Frame
<1>7. turn \in [LockHeads -> [Locks -> Nat]]
  BY DEF Frame, BasicOK, LocksOK
<1>8. /\ turn'[h][l] = m
      /\ \A h2 \in LockHeads, l2 \in Locks : ~(h2 = h /\ l2 = l) => turn'[h2][l2] = turn[h2][l2]
  BY <1>0, <1>3, <1>7
<1>9. \A u \in Tiles : \A b \in ToSet(epilogue[u]) :
        /\ Done(u, b) => Done(u, b)'
        /\ b.op \notin {"reset", "publish"} => (Done(u, b)' <=> Done(u, b) \/ (u = t /\ b = a))
  BY ActedDone
<1>10. \A u, b : AddsAt(u, b, h, l) => (PartOf(u, b) < m <=> Done(u, b))
  BY <1>0, PublishBelow
<1>11. /\ Tiles' = Tiles /\ Locks' = Locks /\ LockHeads' = LockHeads /\ NumBatches' = NumBatches /\ NumSteps' = NumSteps
       /\ (\A u, b : PartOf(u, b)' = PartOf(u, b)) /\ (\A u : HeadOf(u)' = HeadOf(u)) /\ \A b : SideLockOf(b)' = SideLockOf(b)
  BY <1>2, SameConfig
<1>12. \A u, b : AddsAt(u, b, h, l)' <=> AddsAt(u, b, h, l)
  BY <1>2, SameAdds
<1>13. CountAt(h, l)'
  <2>1. ~Publishing(h, l)'
    <3>1. ASSUME NEW s \in Sms, PublishingAt(s, h, l)' PROVE FALSE
      <4>1. s # sm
        BY <1>5, <3>1
      <4>2. PublishingAt(s, h, l)
        BY <1>2, <3>1, <4>1 DEF KeptHead
      <4>3. EndingAt(s, h, l)
        BY <4>2 DEF PublishingAt, EndingAt, Ending
      <4>4. QED
        BY <1>4, <4>1, <4>3
    <3>2. QED
      BY <3>1 DEF Publishing, Sms
  <2>2. count'[h][l] = 0
    <3>1. Publishing(h, l)
      BY <1>5 DEF Publishing
    <3>2. CountAt(h, l)
      BY <1>1, <1>3 DEF CountInv
    <3>3. QED
      BY <3>1, <3>2 DEF CountAt
  <2>3. ASSUME NEW side, NEW w, ArrivedWith(h, l, side, w)' PROVE FALSE
    <3>1. PICK u \in Tiles : \E b \in ToSet(epilogue[u]) : AddsAt(u, b, h, l) /\ PartOf(u, b) >= m /\ Done(u, b)'
      BY <1>2, <1>8, <1>11, <1>12, <2>3 DEF ArrivedWith
    <3>2. PICK b \in ToSet(epilogue[u]) : AddsAt(u, b, h, l) /\ PartOf(u, b) >= m /\ Done(u, b)'
      BY <3>1
    <3>3. b.op = "add"
      BY <3>2 DEF AddsAt
    <3>4. Done(u, b)
      <4>1. b # a
        BY <3>3
      <4>2. QED
        BY <1>9, <3>2, <3>3, <4>1
    <3>5. PartOf(u, b) < m /\ PartOf(u, b) \in Nat
      BY <1>10, <3>2, <3>4, AddsFacts
    <3>6. QED
      BY <1>6, <3>2, <3>5
  <2>4. \A side : Arrived(h, l, side)' = 0
    BY <2>3 DEF Arrived
  <2>5. QED
    BY <2>1, <2>2, <2>4 DEF CountAt
<1>14. EndedAt(h, l)'
  <2>1. ASSUME NEW s \in Sms, EndingAt(s, h, l)' PROVE FALSE
    <3>1. s # sm
      BY <1>5, <2>1
    <3>2. EndingAt(s, h, l)
      BY <1>2, <2>1, <3>1 DEF KeptHead
    <3>3. QED
      BY <1>4, <3>1, <3>2
  <2>2. QED
    BY <2>1 DEF EndedAt, Sms
<1>15. ASSUME NEW h2 \in LockHeads, NEW l2 \in Locks PROVE CountAt(h2, l2)' /\ EndedAt(h2, l2)'
  <2>1. CASE h2 = h /\ l2 = l
    BY <1>13, <1>14, <2>1
  <2>2. CASE ~(h2 = h /\ l2 = l)
    <3>1. count'[h2][l2] = count[h2][l2] /\ turn'[h2][l2] = turn[h2][l2]
      BY <1>8, <2>2
    <3>2. QED
      BY <1>0, <2>2, <3>1, OtherLock
  <2>3. QED
    BY <2>1, <2>2
<1>16. CountInv' /\ EndingInv'
  BY <1>11, <1>15 DEF CountInv, EndingInv
<1>17. TurnInv'
  <2>1. ASSUME NEW h2 \in LockHeads, NEW l2 \in Locks
        PROVE  turn'[h2][l2] \in 0 .. NumBatches * NumSteps /\ (~config.deterministic => turn'[h2][l2] = 0)
    BY <1>1, <1>3, <1>6, <1>8 DEF TurnInv
  <2>2. QED
    BY <1>2, <1>11, <2>1 DEF TurnInv
<1>18. TurnMeansArrived'
  <2>1. ASSUME NEW u \in Tiles, NEW b \in ToSet(epilogue[u]), b.op = "add", PartOf(u, b) < turn'[HeadOf(u)][SideLockOf(b)]
        PROVE  Done(u, b)'
    <3>1. CASE HeadOf(u) = h /\ SideLockOf(b) = l
      <4>1. AddsAt(u, b, h, l) /\ PartOf(u, b) < m
        BY <1>8, <2>1, <3>1 DEF AddsAt
      <4>2. QED
        BY <1>9, <1>10, <4>1
    <3>2. CASE ~(HeadOf(u) = h /\ SideLockOf(b) = l)
      <4>1. HeadOf(u) \in LockHeads /\ SideLockOf(b) \in Locks
        BY <2>1, ActWhere DEF Frame
      <4>2. turn'[HeadOf(u)][SideLockOf(b)] = turn[HeadOf(u)][SideLockOf(b)]
        BY <1>8, <3>2, <4>1
      <4>3. Done(u, b)
        BY <1>1, <2>1, <4>2 DEF TurnMeansArrived
      <4>4. QED
        BY <1>9, <4>3
    <3>3. QED
      BY <3>1, <3>2
  <2>2. QED
    BY <1>2, <1>11, <2>1 DEF TurnMeansArrived
<1>19. AwaitMeansReached'
  <2>1. \A h2 \in LockHeads, l2 \in Locks : turn[h2][l2] <= turn'[h2][l2]
    <3>1. \A h2 \in LockHeads, l2 \in Locks : turn[h2][l2] \in Nat
      BY <1>7
    <3>2. \A x \in Nat : x <= x
      OBVIOUS
    <3>3. turn[h][l] <= m
      BY <1>3, <1>4, <1>6, <3>1
    <3>4. QED
      BY <1>8, <3>1, <3>2, <3>3
  <2>2. \A u \in Tiles : \A b \in ToSet(epilogue[u]) : b.op = "await" /\ Done(u, b)' => Done(u, b)
    BY <1>9
  <2>3. QED
    BY <1>2, <2>1, <2>2, AwaitsKept
<1>20. QED
  BY <1>16, <1>17, <1>18, <1>19 DEF LockInv

-------------------------------------------------------------------------------
(* To await a turn.                                                          *)

\* The conflict message of an await is past the batches before.
LEMMA MessageCovers ==
  ASSUME Frame, NEW sm \in Sms, NEW t, NEW k, NEW n, NEW a, Acted(sm, t, k, n, a), a.op = "await"
  PROVE  LET m == CASE Path = "dq" -> conflict[sm][0][a.where]
                    [] Path # "dq" /\ a.where = LeftLock(Visit(sm)) -> current[sm].left
                    [] OTHER -> current[sm].right
         IN  m \in Nat /\ Covers(m, a.visit.batch, a.where)
<1>1. InputInv /\ BasicOK /\ ConflictInv /\ IsConfig
  BY InputFacts DEF Frame
<1>2. t \in Tiles /\ a \in ToSet(epilogue[t]) /\ Visit(sm) = a.visit /\ Tile(sm) = t
  BY ActedFacts
<1>3. config.deterministic /\ a.where \in Locks /\ a.where \in {LeftLock(a.visit), RightLock(a.visit)} /\ IsVisitOf(t, a.visit)
  BY <1>1, <1>2, ActShape, ActFacts, ActWhere
<1>4. todo[sm] # <<>> /\ todo[sm][1] = a /\ HasWork(current[sm], t)
  BY DEF Acted, Did, Runs
<1>5. NumBatches \in Nat
  BY <1>1, ConfigFacts
<1>6. CASE Path = "dq"
  <2>1. Covers(conflict[sm][0][a.where], a.visit.batch, a.where)
    BY <1>1, <1>2, <1>3, <1>4, <1>6 DEF ConflictInv
  <2>2. 0 \in 0 .. NumHeads - 1
    BY <1>1, HeadFacts
  <2>3. conflict[sm][0] \in [Locks -> 0 .. NumBatches]
    BY <1>1, <2>2 DEF BasicOK, ConflictOK
  <2>4. conflict[sm][0][a.where] \in 0 .. NumBatches
    BY <1>3, <2>3
  <2>5. conflict[sm][0][a.where] \in Nat
    BY <1>5, <2>4
  <2>6. QED
    BY <1>6, <2>1, <2>5
<1>7. CASE Path # "dq"
  <2> DEFINE v == [batch |-> t.group, block |-> t.outer]
             w == current[sm]
  <2>1. KeepsState /\ WorkCovers(w) /\ w.kind = "tile" /\ w.tile = t
    BY <1>1, <1>3, <1>4, <1>7 DEF KeepsState, ConflictInv, HasWork
  <2>2. Covers(w.left, v.batch, LeftLock(v)) /\ Covers(w.right, v.batch, RightLock(v))
    BY <2>1 DEF WorkCovers
  <2>3. a.visit = v
    BY <1>3, <1>7 DEF IsVisitOf
  <2>4. w \in WorkType
    BY <1>1 DEF BasicOK, WorksOK, Works
  <2>5. w.left \in Nat /\ w.right \in Nat
    BY <1>5, <2>4 DEF WorkType
  <2> HIDE DEF v, w
  <2>6. QED
    BY <1>2, <1>3, <1>7, <2>2, <2>3, <2>5 DEF w
<1>8. QED
  BY <1>6, <1>7

\* The number an await waits for is past every part before that touches the lock block.
LEMMA SyncPast ==
  ASSUME Frame, NEW sm \in Sms, NEW t, NEW k, NEW n, NEW a, Acted(sm, t, k, n, a), a.op = "await",
         NEW c \in Batches, NEW u \in 0 .. LastStep, Touches(c, a.where), Part(c, u) < PartOf(t, a)
  PROVE  Part(c, u) \in Nat /\ Part(c, u) < SyncNum(sm, a.where)
<1>1. InputInv /\ IsConfig
  BY InputFacts DEF Frame
<1>2. t \in Tiles /\ a \in ToSet(epilogue[t]) /\ Visit(sm) = a.visit /\ Tile(sm) = t
  BY ActedFacts
<1>3. a.visit.batch \in Nat /\ StepOf(t) \in 0 .. LastStep /\ c \in Nat
  BY <1>1, <1>2, ActFacts, BatchFacts
<1> DEFINE m == CASE Path = "dq" -> conflict[sm][0][a.where]
                  [] Path # "dq" /\ a.where = LeftLock(Visit(sm)) -> current[sm].left
                  [] OTHER -> current[sm].right
           b == a.visit.batch
           s == StepOf(t)
<1>4. m \in Nat /\ Covers(m, b, a.where)
  BY MessageCovers
<1>5. SyncNum(sm, a.where) = IF s = 0 THEN m * NumSteps ELSE b * NumSteps + s
  BY <1>2 DEF SyncNum
<1>6. b \in Nat /\ s \in 0 .. LastStep /\ Part(c, u) < Part(b, s)
  BY <1>3 DEF PartOf
<1> HIDE DEF m, b, s
<1>7. Part(c, u) \in Nat /\ (c < b \/ (c = b /\ u < s))
  BY <1>1, <1>3, <1>6, PartOrder
<1>8. CASE s = 0
  <2>1. c < b /\ c \in 0 .. b - 1
    BY <1>3, <1>6, <1>7, <1>8
  <2>2. m > c
    BY <1>4, <2>1 DEF Covers
  <2>3. NumSteps \in Nat
    BY <1>1, StepFacts
  <2>4. c + 1 <= m /\ c + 1 \in Int /\ m \in Int
    BY <1>3, <1>4, <2>2
  <2>5. NumSteps * (c + 1) <= NumSteps * m
    BY <2>3, <2>4, MulLe
  <2>6. NumSteps * (c + 1) = (c + 1) * NumSteps /\ NumSteps * m = m * NumSteps /\ NumSteps * m \in Int
    BY <2>3, <2>4, MulStep
  <2>7. Part(c, u) < (c + 1) * NumSteps /\ (c + 1) * NumSteps \in Nat
    BY <1>1, <1>3, PartBounds
  <2> DEFINE x == (c + 1) * NumSteps
             y == m * NumSteps
             q == Part(c, u)
  <2>8. q \in Nat /\ x \in Nat /\ y \in Int /\ q < x /\ x <= y
    BY <1>7, <2>5, <2>6, <2>7
  <2> HIDE DEF x, y, q
  <2>9. q < y
    BY <2>8
  <2>10. QED
    BY <1>5, <1>7, <1>8, <2>9 DEF q, y
<1>9. CASE s # 0
  <2>1. b * NumSteps + s = Part(b, s)
    BY <1>1, <1>6, PartBounds
  <2>2. QED
    BY <1>5, <1>6, <1>7, <1>9, <2>1
<1>10. QED
  BY <1>8, <1>9

\* When an await goes on, its lock block has reached the part.
LEMMA AwaitReaches ==
  ASSUME Frame, NEW sm \in Sms, NEW t, NEW k, NEW n, NEW a, Acted(sm, t, k, n, a), a.op = "await", Await(sm)
  PROVE  Reached(HeadOf(t), a.where, PartOf(t, a))
<1>1. /\ t \in Tiles /\ a \in ToSet(epilogue[t]) /\ HeadAt(sm) = HeadOf(t) /\ Where(sm) = a.where /\ Visit(sm) = a.visit
  BY ActedFacts
<1>2. a.where \in {LeftLock(Visit(sm)), RightLock(Visit(sm))}
  BY <1>1, ActShape DEF Frame
<1>3. turn[HeadOf(t)][a.where] = SyncNum(sm, a.where) \/ SyncNum(sm, a.where) = 0
  BY <1>1, <1>2 DEF Await
<1>4. ASSUME NEW c \in Batches, NEW u \in 0 .. LastStep, Touches(c, a.where), Part(c, u) < PartOf(t, a)
      PROVE  Part(c, u) < turn[HeadOf(t)][a.where]
  <2>1. Part(c, u) \in Nat /\ Part(c, u) < SyncNum(sm, a.where)
    BY <1>4, SyncPast
  <2>2. QED
    BY <1>3, <2>1
<1>5. QED
  BY <1>4 DEF Reached

-------------------------------------------------------------------------------
(* All actions keep the lock invariant.                                      *)

\* Every tile has a number.
LEMMA OrderCovers ==
  ASSUME IsConfig, OrderIs, NEW t \in Tiles
  PROVE  \E i \in DOMAIN order : order[i] = t
<1> DEFINE i == BlockIdx(t)
<1>1. i \in 0 .. Cardinality(Tiles) - 1
  BY BlockIdxBijective
<1>2. order[i] = CHOOSE u \in Tiles : BlockIdx(u) = i
  BY <1>1 DEF OrderIs
<1>3. \A u \in Tiles : BlockIdx(u) = i => u = t
  BY BlockIdxBijective
<1>4. BlockIdx(t) = i
  OBVIOUS
<1> HIDE DEF i
<1>5. order[i] = t
  BY <1>2, <1>3, <1>4
<1>6. i \in DOMAIN order
  BY <1>1 DEF OrderIs
<1>7. QED
  BY <1>5, <1>6

\* At first every action of every tile is still to be done.
LEMMA InitNothingDone ==
  ASSUME Init
  PROVE  \A t \in Tiles : \A a : ~Done(t, a)
<1>1. Frame /\ IsConfig /\ OrderIs /\ NumTiles \in Nat /\ DOMAIN order = 0 .. NumTiles - 1
  BY InitFrame, InputFacts DEF Frame
<1>2. ASSUME NEW t \in Tiles, NEW a, a \in ToSet(epilogue[t]) PROVE Remains(t, a)
  <2>1. PICK i \in DOMAIN order : order[i] = t
    BY <1>1, OrderCovers
  <2>2. i \in Nat /\ i < NumTiles
    BY <1>1
  <2>3. handedOut = 0
    BY DEF Init
  <2>4. NumSms \in Nat
    BY SmsAssumption
  <2>5. CASE i >= NumSms
    <3>1. Fresh(t)
      BY <2>1, <2>2, <2>3, <2>4, <2>5 DEF Fresh
    <3>2. QED
      BY <1>2, <3>1 DEF Remains, Waits
  <2>6. CASE i < NumSms
    <3>1. i \in Sms
      BY <2>2, <2>4, <2>6 DEF Sms
    <3>2. producerPc[i] = "hand" /\ nextId[i] = i
      BY <3>1 DEF Init
    <3>3. At(<<i, "next">>, t)
      <4>1. At(<<i, "next">>, t) <=> producerPc[i] = "hand" /\ nextId[i] < NumTiles /\ order[nextId[i]] = t
        BY AtNow
      <4>2. QED
        BY <2>1, <2>2, <2>6, <3>2, <4>1
    <3>4. Waits(t)
      BY <3>1, <3>3, WaitsNow
    <3>5. QED
      BY <1>2, <3>4 DEF Remains
  <2>7. QED
    BY <2>2, <2>4, <2>5, <2>6
<1>3. QED
  BY <1>2 DEF Done

\* The lock invariant holds at the start.
LEMMA InitLocks ==
  ASSUME Init
  PROVE  LockInv
<1>1. Frame /\ IsConfig
  BY InitFrame, InputFacts DEF Frame
<1>2. \A t \in Tiles : \A a : ~Done(t, a)
  BY InitNothingDone
<1>3. \A h \in LockHeads, l \in Locks : turn[h][l] = 0 /\ count[h][l] = 0
  BY DEF Init
<1>4. \A sm \in Sms : todo[sm] = <<>>
  BY DEF Init
<1>5. \A sm \in Sms : \A h, l : ~EndingAt(sm, h, l) /\ ~PublishingAt(sm, h, l)
  BY <1>4 DEF EndingAt, PublishingAt, Ending, HeadIs
<1>6. TurnMeansArrived
  <2>1. ASSUME NEW t \in Tiles, NEW a \in ToSet(epilogue[t]), a.op = "add", PartOf(t, a) < turn[HeadOf(t)][SideLockOf(a)]
        PROVE  FALSE
    <3>1. HeadOf(t) \in LockHeads /\ SideLockOf(a) \in Locks
      BY <1>1, <2>1, ActWhere DEF Frame
    <3>2. PartOf(t, a) \in Nat
      BY <1>1, ActFacts DEF Frame
    <3>3. QED
      BY <1>3, <2>1, <3>1, <3>2
  <2>2. QED
    BY <2>1 DEF TurnMeansArrived
<1>7. AwaitMeansReached
  BY <1>2 DEF AwaitMeansReached
<1>8. CountInv
  <2>1. ASSUME NEW h \in LockHeads, NEW l \in Locks PROVE CountAt(h, l)
    <3>1. ~Publishing(h, l)
      BY <1>5 DEF Publishing
    <3>2. \A side, w : ~ArrivedWith(h, l, side, w)
      BY <1>2 DEF ArrivedWith
    <3>3. Arrived(h, l, "left") = 0 /\ Arrived(h, l, "right") = 0
      BY <3>2 DEF Arrived
    <3>4. QED
      BY <1>3, <3>1, <3>3 DEF CountAt
  <2>2. QED
    BY <2>1 DEF CountInv
<1>9. EndingInv
  BY <1>5 DEF EndingInv, EndedAt
<1>10. TurnInv
  <2>1. NumBatches * NumSteps \in Nat
    <3>1. NumBatches \in Nat /\ NumSteps \in Nat
      BY <1>1, ConfigFacts, StepFacts
    <3>2. NumSteps * 0 <= NumSteps * NumBatches /\ NumSteps * NumBatches \in Int /\ NumSteps * 0 \in Int
      BY <3>1, MulLe
    <3>3. NumSteps * NumBatches = NumBatches * NumSteps
      BY <3>1, MulStep
    <3>4. NumSteps * 0 = 0
      BY <3>1
    <3>5. QED
      BY <3>2, <3>3, <3>4
  <2>2. 0 \in 0 .. NumBatches * NumSteps
    <3> DEFINE z == NumBatches * NumSteps
    <3>1. z \in Nat
      BY <2>1
    <3> HIDE DEF z
    <3>2. 0 \in 0 .. z
      BY <3>1
    <3>3. QED
      BY <3>2 DEF z
  <2>3. QED
    BY <1>3, <2>2 DEF TurnInv
<1>11. QED
  BY <1>6, <1>7, <1>8, <1>9, <1>10 DEF LockInv

-------------------------------------------------------------------------------
\* Every step of an SM keeps the invariants of the range locks.
LEMMA ConsumeLocks ==
  ASSUME Frame, LockInv, NEW sm \in Sms, Consume(sm), ~Take(sm)
  PROVE  LockInv'
<1>1. CASE EnterBatches(sm)
  <2>1. PICK t, k, a : Acted(sm, t, k, 1, a) /\ a.op = "enter"
    BY <1>1, EnterFrame
  <2>2. turn' = turn /\ count' = count
    BY <1>1 DEF EnterBatches, lockVars
  <2>3. QED
    BY <2>1, <2>2, PlainLocks
<1>2. CASE Await(sm)
  <2>1. PICK t, k, a : Acted(sm, t, k, 1, a) /\ a.op = "await"
    BY <1>2, AwaitFrame
  <2>2. turn' = turn /\ count' = count
    BY <1>2 DEF Await, lockVars
  <2>3. Reached(HeadOf(t), a.where, PartOf(t, a))
    BY <1>2, <2>1, AwaitReaches
  <2>4. QED
    BY <2>1, <2>2, <2>3, PlainLocks
<1>3. CASE Lock(sm)
  <2>1. PICK t, k, a : Acted(sm, t, k, 1, a) /\ a.op = "lock"
    BY <1>3, LockFrame
  <2>2. turn' = turn /\ count' = count
    BY <1>3 DEF Lock
  <2>3. QED
    BY <2>1, <2>2, PlainLocks
<1>4. CASE Unlock(sm)
  <2>1. PICK t, k, a : Acted(sm, t, k, 1, a) /\ a.op = "unlock"
    BY <1>4, UnlockFrame
  <2>2. turn' = turn /\ count' = count
    BY <1>4 DEF Unlock
  <2>3. QED
    BY <2>1, <2>2, PlainLocks
<1>5. CASE Load(sm)
  <2>1. PICK t, k, a : Acted(sm, t, k, 1, a) /\ a.op = "load"
    BY <1>5, DoesActed DEF Load
  <2>2. turn' = turn /\ count' = count
    BY <1>5 DEF Load, lockVars
  <2>3. QED
    BY <2>1, <2>2, PlainLocks
<1>6. CASE Store(sm)
  <2>1. PICK t, k, a : Acted(sm, t, k, 1, a) /\ a.op = "store"
    BY <1>6, DoesActed DEF Store
  <2>2. turn' = turn /\ count' = count
    BY <1>6 DEF Store, lockVars
  <2>3. QED
    BY <2>1, <2>2, PlainLocks
<1>7. CASE Add(sm)
  <2>1. Frame' /\ \E t, k, n, a : /\ Acted(sm, t, k, n, a) /\ a.op = "add" /\ (n = 1 <=> AddTotal(t, a) = 2)
                                  /\ count' = [count EXCEPT ![HeadOf(t)][SideLockOf(a)] = AddTotal(t, a)]
                                  /\ UNCHANGED <<turn, mutex, sum, loaded>>
    BY <1>7, AddFrame
  <2>2. LocksOK'
    BY <2>1 DEF Frame, BasicOK
  <2>3. QED
    BY <2>1, <2>2, AddLocks
<1>8. CASE Reset(sm)
  <2>1. Frame' /\ \E t, k, a : /\ Acted(sm, t, k, 1, a) /\ a.op = "reset"
                               /\ count' = [count EXCEPT ![HeadOf(t)][SideLockOf(a)] = 0]
                               /\ UNCHANGED <<turn, mutex, sum, loaded>>
    BY <1>8, ResetFrame
  <2>2. LocksOK'
    BY <2>1 DEF Frame, BasicOK
  <2>3. QED
    BY <2>1, <2>2, ResetLocks
<1>9. CASE Publish(sm)
  <2>1. Frame' /\ \E t, k, a : /\ Acted(sm, t, k, 1, a) /\ a.op = "publish"
                               /\ turn' = [turn EXCEPT ![HeadOf(t)][SideLockOf(a)] = NextTurnOf(t, a)]
                               /\ UNCHANGED <<count, mutex, sum, loaded>>
    BY <1>9, PublishFrame
  <2>2. LocksOK'
    BY <2>1 DEF Frame, BasicOK
  <2>3. QED
    BY <2>1, <2>2, PublishLocks
<1>10. QED
  BY <1>1, <1>2, <1>3, <1>4, <1>5, <1>6, <1>7, <1>8, <1>9 DEF Consume

\* Producers keep the lock invariant.
LEMMA ProduceLocks ==
  ASSUME Frame, LockInv, NEW sm \in Sms, Produce(sm)
  PROVE  LockInv'
<1>1. Quiet /\ UNCHANGED <<inputs, consumerVars, lockVars, sum>>
  BY ProduceFrame
<1>2. config' = config /\ epilogue' = epilogue /\ turn' = turn /\ count' = count /\ todo' = todo /\ current' = current
  BY <1>1 DEF inputs, consumerVars, lockVars
<1>3. \A s \in Sms : \A h, l : KeptHead(s, h, l)
  BY <1>2, SameHead
<1>4. QED
  BY <1>1, <1>2, <1>3, Neutral DEF Quiet

\* So does taking a work.
LEMMA TakeLocks ==
  ASSUME Frame, LockInv, NEW sm \in Sms, Take(sm)
  PROVE  LockInv'
<1>1. InputInv /\ BasicOK /\ OnePlace /\ AheadInv
  BY DEF Frame
<1>2. /\ Quiet /\ todo[sm] = <<>> /\ UNCHANGED <<inputs, lockVars, sum>>
      /\ \A s \in Sms : s # sm => todo'[s] = todo[s] /\ current'[s] = current[s]
  BY <1>1, TakeQuiet, TakeEffect
<1>3. config' = config /\ epilogue' = epilogue /\ turn' = turn /\ count' = count
  BY <1>2 DEF inputs, lockVars
<1>4. TakenIs(sm)
  BY TakeHead
<1>5. ~Ending(sm) /\ ~Ending(sm)'
  BY <1>2, <1>4 DEF Ending, HeadIs, TakenIs
<1>6. ASSUME NEW s \in Sms, NEW h, NEW l PROVE KeptHead(s, h, l)
  <2>1. CASE s = sm
    BY <1>5, <2>1, NoHead
  <2>2. CASE s # sm
    BY <1>2, <1>3, <2>2, SameHead
  <2>3. QED
    BY <2>1, <2>2
<1>7. QED
  BY <1>2, <1>3, <1>6, Neutral DEF Quiet

-------------------------------------------------------------------------------
(* The mutexes of fwd.                                                       *)

\* Only fwd takes mutexes, and a tile gives back what it takes.
LEMMA HolderFacts ==
  ASSUME InputInv, NEW t, NEW a, t \in Tiles, a \in ToSet(epilogue[t]), a.op = "lock"
  PROVE  /\ a = Act("lock", a.visit, a.where) /\ Path = "fwd" /\ HeadOf(t) \in LockHeads /\ a.where \in Locks
         /\ Act("unlock", a.visit, a.where) \in ToSet(epilogue[t])
         /\ a.visit = [batch |-> t.group, block |-> t.outer]
<1>1. /\ Path = "fwd" /\ HasPart(t, a.visit) /\ a = Act("lock", a.visit, a.where)
      /\ a.where \in {LeftLock(a.visit), RightLock(a.visit)}
  BY ActShape
<1>2. HeadOf(t) \in LockHeads /\ a.where \in Locks
  BY ActWhere
<1>3. Act("unlock", a.visit, a.where) \in ToSet(epilogue[t])
  BY <1>1, ActSiblings
<1>4. IsVisitOf(t, a.visit)
  BY ActFacts
<1>5. a.visit = [batch |-> t.group, block |-> t.outer]
  BY <1>1, <1>4 DEF IsVisitOf
<1>6. QED
  BY <1>1, <1>2, <1>3, <1>5

\* A mutex has one holder.
LEMMA OneHolder ==
  ASSUME Frame, MutexInv, NEW t, NEW a, NEW h, NEW l, HoldsAt(t, a, h, l)
  PROVE  mutex[h][l] = 1 /\ \A t2, a2 : HoldsAt(t2, a2, h, l) => t2 = t
<1>1. t \in Tiles /\ a \in ToSet(epilogue[t]) /\ h \in LockHeads /\ l \in Locks
  BY HolderFacts DEF HoldsAt, Frame
<1>2. \A t2, a2 : HoldsAt(t2, a2, h, l) => t2 \in Tiles /\ a2 \in ToSet(epilogue[t2])
  BY DEF HoldsAt
<1>3. QED
  BY <1>1, <1>2 DEF MutexInv

\* What an action does to the holders.
LEMMA HoldersKept ==
  ASSUME Frame, config' = config, epilogue' = epilogue, NEW t, NEW a, NEW h, NEW l,
         \A u \in Tiles : \A b \in ToSet(epilogue[u]) : b.op = "lock" => (Done(u, b)' <=> Done(u, b)),
         \A u \in Tiles : \A b \in ToSet(epilogue[u]) : b.op = "unlock" => (Done(u, b)' <=> Done(u, b))
  PROVE  HoldsAt(t, a, h, l)' <=> HoldsAt(t, a, h, l)
<1>1. Tiles' = Tiles /\ HeadOf(t)' = HeadOf(t)
  BY SameConfig
<1>2. ASSUME t \in Tiles, a \in ToSet(epilogue[t]), a.op = "lock", a.where = l
      PROVE  /\ Done(t, a)' <=> Done(t, a)
             /\ Done(t, Act("unlock", a.visit, l))' <=> Done(t, Act("unlock", a.visit, l))
  <2>1. Act("unlock", a.visit, l) \in ToSet(epilogue[t])
    BY <1>2, HolderFacts DEF Frame
  <2>2. Act("unlock", a.visit, l).op = "unlock"
    BY DEF Act
  <2>3. QED
    BY <1>2, <2>1, <2>2
<1>3. QED
  BY <1>1, <1>2 DEF HoldsAt

\* The invariant of the mutexes, after a step.
LEMMA MutexKept ==
  ASSUME config' = config, epilogue' = epilogue,
         \A h \in LockHeads, l \in Locks : \A t, a : HoldsAt(t, a, h, l)' =>
           mutex'[h][l] = 1 /\ \A t2, a2 : HoldsAt(t2, a2, h, l)' => t2 = t
  PROVE  MutexInv'
<1>1. LockHeads' = LockHeads /\ Locks' = Locks /\ Tiles' = Tiles
  BY SameConfig
<1>2. QED
  BY <1>1 DEF MutexInv

\* It depends on what is locked and unlocked only.
LEMMA SameMutex ==
  ASSUME Frame, MutexInv, config' = config, epilogue' = epilogue, mutex' = mutex,
         \A u \in Tiles : \A b \in ToSet(epilogue[u]) : b.op = "lock" => (Done(u, b)' <=> Done(u, b)),
         \A u \in Tiles : \A b \in ToSet(epilogue[u]) : b.op = "unlock" => (Done(u, b)' <=> Done(u, b))
  PROVE  MutexInv'
<1>1. \A t, a, h, l : HoldsAt(t, a, h, l)' <=> HoldsAt(t, a, h, l)
  BY HoldersKept
<1>2. \A t, a, h, l : HoldsAt(t, a, h, l) =>
        mutex[h][l] = 1 /\ \A t2, a2 : HoldsAt(t2, a2, h, l) => t2 = t
  BY OneHolder
<1>3. \A h \in LockHeads, l \in Locks : \A t, a : HoldsAt(t, a, h, l)' =>
        mutex'[h][l] = 1 /\ \A t2, a2 : HoldsAt(t2, a2, h, l)' => t2 = t
  BY <1>1, <1>2
<1>4. QED
  BY <1>3, MutexKept

\* To take a mutex keeps it: the mutex was free.
LEMMA LockMutex ==
  ASSUME Frame, MutexInv, NEW sm \in Sms, NEW t, NEW k, NEW n, NEW a, Acted(sm, t, k, n, a), a.op = "lock",
         mutex[HeadOf(t)][a.where] = 0, mutex' = [mutex EXCEPT ![HeadOf(t)][a.where] = 1]
  PROVE  MutexInv'
<1>0. PICK h0, l0 : h0 = HeadOf(t) /\ l0 = a.where
  OBVIOUS
<1>1. config' = config /\ epilogue' = epilogue
  BY OtherHeads
<1>2. t \in Tiles /\ a \in ToSet(epilogue[t]) /\ InputInv
  BY ActedFacts DEF Frame
<1>3. h0 \in LockHeads /\ l0 \in Locks
  BY <1>0, <1>2, HolderFacts
<1>4. mutex \in [LockHeads -> [Locks -> {0, 1}]]
  BY DEF Frame, BasicOK, LocksOK
<1>5. /\ mutex'[h0][l0] = 1
      /\ \A h \in LockHeads, l \in Locks : ~(h = h0 /\ l = l0) => mutex'[h][l] = mutex[h][l]
  BY <1>0, <1>3, <1>4
<1>6. ASSUME NEW u, NEW b, NEW h, NEW l, HoldsAt(u, b, h, l)'
      PROVE  HoldsAt(u, b, h, l) \/ (u = t /\ h = h0 /\ l = l0)
  <2>1. Tiles' = Tiles /\ HeadOf(u)' = HeadOf(u)
    BY <1>1, SameConfig
  <2>2. /\ u \in Tiles /\ b \in ToSet(epilogue[u]) /\ b.op = "lock" /\ HeadOf(u) = h /\ b.where = l
        /\ Done(u, b)' /\ ~Done(u, Act("unlock", b.visit, l))'
    BY <1>1, <1>6, <2>1 DEF HoldsAt
  <2>3. Act("unlock", b.visit, l) \in ToSet(epilogue[u])
    BY <1>2, <2>2, HolderFacts
  <2>4. Done(u, Act("unlock", b.visit, l)) => Done(u, Act("unlock", b.visit, l))'
    BY <2>2, <2>3, ActedDone
  <2>5. Done(u, b) \/ (u = t /\ b = a)
    BY <2>2, ActedDone
  <2>6. QED
    BY <1>0, <2>2, <2>4, <2>5 DEF HoldsAt
<1>7. \A u, b : ~HoldsAt(u, b, h0, l0)
  BY <1>0, OneHolder
<1>8. ASSUME NEW h \in LockHeads, NEW l \in Locks, NEW u, NEW b, HoldsAt(u, b, h, l)'
      PROVE  mutex'[h][l] = 1 /\ \A u2, b2 : HoldsAt(u2, b2, h, l)' => u2 = u
  <2>1. CASE h = h0 /\ l = l0
    BY <1>5, <1>6, <1>7, <1>8, <2>1
  <2>2. CASE ~(h = h0 /\ l = l0)
    <3>1. HoldsAt(u, b, h, l) /\ mutex'[h][l] = mutex[h][l]
      BY <1>5, <1>6, <1>8, <2>2
    <3>2. mutex[h][l] = 1 /\ \A u2, b2 : HoldsAt(u2, b2, h, l) => u2 = u
      BY <3>1, OneHolder
    <3>3. QED
      BY <1>6, <2>2, <3>1, <3>2
  <2>3. QED
    BY <2>1, <2>2
<1>9. QED
  BY <1>1, <1>8, MutexKept

\* To give one back keeps it: no other tile held the mutex.
LEMMA UnlockMutex ==
  ASSUME Frame, MutexInv, NEW sm \in Sms, NEW t, NEW k, NEW n, NEW a, Acted(sm, t, k, n, a), a.op = "unlock",
         mutex' = [mutex EXCEPT ![HeadOf(t)][a.where] = 0]
  PROVE  MutexInv'
<1>0. PICK h0, l0 : h0 = HeadOf(t) /\ l0 = a.where
  OBVIOUS
<1>1. config' = config /\ epilogue' = epilogue
  BY OtherHeads
<1>2. t \in Tiles /\ a \in ToSet(epilogue[t]) /\ InputInv /\ ~Done(t, a)
  BY ActedFacts DEF Frame
<1>3. /\ Path = "fwd" /\ HasPart(t, a.visit) /\ a = Act("unlock", a.visit, l0)
      /\ a.where \in {LeftLock(a.visit), RightLock(a.visit)}
  BY <1>0, <1>2, ActShape
<1> DEFINE c == Act("lock", a.visit, l0)
<1>4. c \in ToSet(epilogue[t]) /\ c.op = "lock" /\ c.visit = a.visit /\ c.where = l0
  BY <1>0, <1>2, <1>3, ActSiblings DEF Act
<1>5. Rank(c) < Rank(a)
  BY <1>0, <1>2, <1>3 DEF Rank, Act
<1> HIDE DEF c
<1>6. Done(t, c)
  BY <1>4, <1>5, DoneEarlier
<1>7. HoldsAt(t, c, h0, l0)
  BY <1>0, <1>2, <1>3, <1>4, <1>6 DEF HoldsAt
<1>8. h0 \in LockHeads /\ l0 \in Locks
  BY <1>0, <1>2, <1>4, HolderFacts
<1>9. mutex \in [LockHeads -> [Locks -> {0, 1}]]
  BY DEF Frame, BasicOK, LocksOK
<1>10. \A h \in LockHeads, l \in Locks : ~(h = h0 /\ l = l0) => mutex'[h][l] = mutex[h][l]
  BY <1>0, <1>8, <1>9
<1>11. ASSUME NEW u, NEW b, NEW h, NEW l, HoldsAt(u, b, h, l)'
       PROVE  HoldsAt(u, b, h, l) /\ ~(h = h0 /\ l = l0)
  <2>1. Tiles' = Tiles /\ HeadOf(u)' = HeadOf(u)
    BY <1>1, SameConfig
  <2>2. /\ u \in Tiles /\ b \in ToSet(epilogue[u]) /\ b.op = "lock" /\ HeadOf(u) = h /\ b.where = l
        /\ Done(u, b)' /\ ~Done(u, Act("unlock", b.visit, l))'
    BY <1>1, <1>11, <2>1 DEF HoldsAt
  <2>3. /\ Act("unlock", b.visit, l) \in ToSet(epilogue[u]) /\ Act("unlock", b.visit, l).op = "unlock"
        /\ b.visit = [batch |-> u.group, block |-> u.outer]
    BY <1>2, <2>2, HolderFacts DEF Act
  <2>4. ~Done(u, Act("unlock", b.visit, l)) /\ ~(u = t /\ Act("unlock", b.visit, l) = a)
    BY <2>2, <2>3, ActedDone
  <2>5. Done(u, b)
    <3>1. b # a
      BY <1>3, <2>2 DEF Act
    <3>2. QED
      BY <2>2, <3>1, ActedDone
  <2>6. HoldsAt(u, b, h, l)
    BY <2>2, <2>4, <2>5 DEF HoldsAt
  <2>7. ASSUME h = h0, l = l0 PROVE FALSE
    <3>1. u = t
      BY <1>7, <2>6, <2>7, OneHolder
    <3>2. c.visit = [batch |-> t.group, block |-> t.outer]
      BY <1>2, <1>4, HolderFacts
    <3>3. Act("unlock", b.visit, l) = a
      BY <1>3, <1>4, <2>3, <2>7, <3>1, <3>2
    <3>4. QED
      BY <2>4, <3>1, <3>3
  <2>8. QED
    BY <2>6, <2>7
<1>12. ASSUME NEW h \in LockHeads, NEW l \in Locks, NEW u, NEW b, HoldsAt(u, b, h, l)'
       PROVE  mutex'[h][l] = 1 /\ \A u2, b2 : HoldsAt(u2, b2, h, l)' => u2 = u
  <2>1. HoldsAt(u, b, h, l) /\ mutex'[h][l] = mutex[h][l]
    BY <1>10, <1>11, <1>12
  <2>2. mutex[h][l] = 1 /\ \A u2, b2 : HoldsAt(u2, b2, h, l) => u2 = u
    BY <2>1, OneHolder
  <2>3. QED
    BY <1>11, <2>1, <2>2
<1>13. QED
  BY <1>1, <1>12, MutexKept

-------------------------------------------------------------------------------
(* Stores.                                                                   *)

\* The head of an SM, as an action of its tile.
LEMMA HeadRuns ==
  ASSUME Frame, NEW sm \in Sms, NEW op, HeadIs(sm, op)
  PROVE  \E t, k, a : /\ Runs(sm, t, k) /\ t \in Tiles /\ Tile(sm) = t /\ HeadAt(sm) = HeadOf(t)
                      /\ k + 1 \in DOMAIN epilogue[t] /\ a = epilogue[t][k + 1] /\ a \in ToSet(epilogue[t])
                      /\ todo[sm][1] = a /\ a.op = op /\ Visit(sm) = a.visit
<1>1. InputInv /\ BasicOK /\ AllSuffix /\ OnePlace
  BY DEF Frame
<1>2. todo[sm] # <<>> /\ todo[sm][1].op = op
  BY DEF HeadIs
<1>3. PICK t, k : Runs(sm, t, k)
  BY <1>1, <1>2, RunsExists
<1>4. /\ t \in Tiles /\ Tile(sm) = t /\ HeadAt(sm) = HeadOf(t) /\ k \in Nat /\ k <= Len(epilogue[t])
      /\ Len(epilogue[t]) \in Nat
      /\ todo[sm] = <<>> <=> k = Len(epilogue[t])
      /\ \A i \in 1 .. Len(epilogue[t]) - k : todo[sm][i] = epilogue[t][k + i]
  BY <1>1, <1>3, RunsFacts
<1>5. DOMAIN epilogue[t] = 1 .. Len(epilogue[t])
  BY <1>1, <1>4, InputFacts
<1> DEFINE e == epilogue[t]
           a == e[k + 1]
<1>6. k + 1 \in DOMAIN e /\ todo[sm][1] = a
  <2> HIDE DEF e
  <2>1. k # Len(e)
    BY <1>2, <1>4 DEF e
  <2>2. 1 \in 1 .. Len(e) - k /\ k + 1 \in 1 .. Len(e)
    BY <1>4, <2>1 DEF e
  <2>3. QED
    BY <1>4, <1>5, <2>2 DEF e
<1>7. a \in ToSet(e)
  BY <1>6 DEF ToSet
<1>8. a.op = op /\ Visit(sm) = a.visit
  BY <1>2, <1>6 DEF Visit
<1>9. QED
  BY <1>3, <1>4, <1>6, <1>7, <1>8

\* Actions of the same visit and a greater rank are not done.
LEMMA HeadLater ==
  ASSUME Frame, NEW sm \in Sms, NEW t, NEW k, Runs(sm, t, k), k + 1 \in DOMAIN epilogue[t],
         NEW b \in ToSet(epilogue[t]), b.visit = epilogue[t][k + 1].visit, Rank(epilogue[t][k + 1]) < Rank(b)
  PROVE  ~Done(t, b)
<1> DEFINE a == epilogue[t][k + 1]
<1>1. InputInv /\ OnePlace
  BY DEF Frame
<1>2. t \in Tiles /\ k \in Nat
  BY <1>1, RunsFacts
<1>3. DOMAIN epilogue[t] = 1 .. Len(epilogue[t]) /\ a \in ToSet(epilogue[t]) /\ InOrder(epilogue[t])
  BY <1>1, <1>2, InputFacts DEF EpilogueShape, ToSet
<1>4. PICK i \in DOMAIN epilogue[t] : b = epilogue[t][i]
  BY DEF ToSet
<1>5. Remains(t, b) <=> i > k
  BY <1>1, <1>4, RemainsAt
<1>6. Rank(a) \in Int /\ Rank(b) \in Int
  BY <1>1, <1>2, <1>3, RankInt
<1>7. i < k + 1 => Rank(b) < Rank(a)
  BY <1>3, <1>4 DEF InOrder
<1>8. i \in Nat
  BY <1>3
<1> HIDE DEF a
<1>9. Rank(a) < Rank(b)
  BY DEF a
<1>10. i > k
  BY <1>2, <1>6, <1>7, <1>8, <1>9
<1>11. QED
  BY <1>5, <1>10 DEF Done

\* An SM that is about to store in fwd holds the mutexes of its lock blocks.
LEMMA StoreHolds ==
  ASSUME Frame, NEW sm \in Sms, HeadIs(sm, "store"), Path = "fwd", NEW l \in {LeftLock(Visit(sm)), RightLock(Visit(sm))}
  PROVE  HoldsAt(Tile(sm), Act("lock", Visit(sm), l), HeadAt(sm), l)
<1>1. PICK t, k, a : /\ Runs(sm, t, k) /\ t \in Tiles /\ Tile(sm) = t /\ HeadAt(sm) = HeadOf(t)
                     /\ k + 1 \in DOMAIN epilogue[t] /\ a = epilogue[t][k + 1] /\ a \in ToSet(epilogue[t])
                     /\ todo[sm][1] = a /\ a.op = "store" /\ Visit(sm) = a.visit
  BY HeadRuns
<1>2. InputInv
  BY DEF Frame
<1>3. HasPart(t, a.visit)
  BY <1>1, <1>2, ActShape
<1> DEFINE b == Act("lock", a.visit, l)
           c == Act("unlock", a.visit, l)
<1>4. b \in ToSet(epilogue[t]) /\ c \in ToSet(epilogue[t])
  BY <1>1, <1>2, <1>3, ActSiblings
<1>5. b.visit = a.visit /\ c.visit = a.visit /\ b.op = "lock" /\ b.where = l /\ Rank(b) < Rank(a) /\ Rank(a) < Rank(c)
  BY <1>1 DEF Act, Rank
<1> HIDE DEF b, c
<1>6. Done(t, b)
  BY <1>1, <1>4, <1>5, HeadEarlier
<1>7. ~Done(t, c)
  BY <1>1, <1>4, <1>5, HeadLater
<1>8. HoldsAt(t, b, HeadOf(t), l)
  BY <1>1, <1>4, <1>5, <1>6, <1>7 DEF HoldsAt, c
<1>9. QED
  BY <1>1, <1>8 DEF b

\* The same tile is not current on two SMs.
LEMMA OneSm ==
  ASSUME Frame, NEW sm \in Sms, NEW s \in Sms, current[sm].kind = "tile", current[s].kind = "tile", Tile(sm) = Tile(s)
  PROVE  sm = s
<1> DEFINE t == Tile(sm)
<1>1. current[sm] \in Works
  BY DEF Frame, BasicOK, WorksOK
<1>2. t \in Tiles /\ HasWork(current[sm], t) /\ HasWork(current[s], t)
  BY <1>1 DEF HasWork, Tile, Works
<1> HIDE DEF t
<1>3. At(<<sm, "current">>, t) /\ At(<<s, "current">>, t)
  <2>1. \A x \in Sms : At(<<x, "current">>, t) <=> HasWork(current[x], t)
    BY AtNow
  <2>2. QED
    BY <1>2, <2>1
<1>4. <<sm, "current">> \in Places /\ <<s, "current">> \in Places
  BY DEF Places
<1>5. <<sm, "current">> = <<s, "current">>
  BY <1>2, <1>3, <1>4 DEF Frame, OnePlace
<1>6. QED
  BY <1>5

\* Two SMs that are about to store in fwd share no cell.
LEMMA StoreAlone ==
  ASSUME Frame, MutexInv, NEW sm \in Sms, NEW s \in Sms, Path = "fwd", HeadIs(sm, "store"), HeadIs(s, "store"),
         HeadAt(sm) = HeadAt(s), NEW row, row \in RowsOf(Visit(sm)), row \in RowsOf(Visit(s))
  PROVE  sm = s
<1>1. InputInv /\ IsConfig
  BY InputFacts DEF Frame
<1>2. ASSUME NEW x \in Sms, HeadIs(x, "store") PROVE IsVisit(Visit(x)) /\ current[x].kind = "tile"
  <2>1. PICK t, k, a : /\ Runs(x, t, k) /\ t \in Tiles /\ Tile(x) = t /\ HeadAt(x) = HeadOf(t)
                       /\ k + 1 \in DOMAIN epilogue[t] /\ a = epilogue[t][k + 1] /\ a \in ToSet(epilogue[t])
                       /\ todo[x][1] = a /\ a.op = "store" /\ Visit(x) = a.visit
    BY <1>2, HeadRuns
  <2>2. IsVisit(a.visit)
    BY <1>1, <2>1, ActFacts
  <2>3. QED
    BY <2>1, <2>2 DEF Runs, HasWork
<1> DEFINE v == Visit(sm)
           w == Visit(s)
           l == row \div BlockSize
<1>3. l \in {LeftLock(v), RightLock(v)} /\ l \in {LeftLock(w), RightLock(w)}
  <2>1. IsVisit(v) /\ IsVisit(w) /\ row \in RowsOf(v) /\ row \in RowsOf(w)
    BY <1>2
  <2> HIDE DEF v, w
  <2>2. QED
    BY <1>1, <2>1, RowOfVisit
<1> HIDE DEF l
<1>4. HoldsAt(Tile(sm), Act("lock", v, l), HeadAt(sm), l)
  BY <1>3, StoreHolds
<1>5. HoldsAt(Tile(s), Act("lock", w, l), HeadAt(s), l)
  BY <1>3, StoreHolds
<1>6. Tile(s) = Tile(sm)
  <2> DEFINE t == Tile(sm)
             u == Tile(s)
             a == Act("lock", v, l)
             b == Act("lock", w, l)
             h == HeadAt(sm)
  <2>1. HoldsAt(t, a, h, l) /\ HoldsAt(u, b, h, l)
    BY <1>4, <1>5
  <2> HIDE DEF t, u, a, b, h
  <2>2. u = t
    BY <2>1, OneHolder
  <2>3. QED
    BY <2>2 DEF t, u
<1>7. QED
  BY <1>2, <1>6, OneSm

-------------------------------------------------------------------------------
\* What a store does.
Stored(t, a) == {HeadOf(t)} \X RowsOf(a.visit)

\* A store appends the part to what the sums are now: in fwd, what was loaded is still there.
LEMMA StoreEffect ==
  ASSUME Frame, LoadedInv, NEW sm \in Sms, Store(sm)
  PROVE  \E t, k, a :
           /\ Acted(sm, t, k, 1, a) /\ a.op = "store" /\ Stored(t, a) \subseteq Cells
           /\ sum' = [c \in Cells |-> IF c \in Stored(t, a) THEN Append(sum[c], PartOf(t, a)) ELSE sum[c]]
           /\ loaded' = [loaded EXCEPT ![sm] = <<>>] /\ UNCHANGED <<conflict, lockVars>>
<1>1. PICK t, k, a : Acted(sm, t, k, 1, a) /\ a.op = "store"
  BY DoesActed DEF Store
<1>2. /\ t \in Tiles /\ a \in ToSet(epilogue[t]) /\ Tile(sm) = t /\ HeadAt(sm) = HeadOf(t) /\ Visit(sm) = a.visit
      /\ todo[sm] # <<>> /\ todo[sm][1] = a
  BY <1>1, ActedFacts DEF Acted
<1>3. Stored(t, a) \subseteq Cells
  BY <1>2, ActWhere DEF Frame, Stored
<1>4. DOMAIN sum = Cells
  BY DEF Frame, BasicOK, SumOK
<1> DEFINE before(c) == IF Path = "fwd" THEN loaded[sm][c[2]] ELSE sum[c]
<1>5. sum' = [c \in Cells |-> IF c \in Stored(t, a) THEN Append(before(c), PartOf(t, a)) ELSE sum[c]]
  BY <1>2, <1>4 DEF Store, Stored, PartOf
<1>6. \A c \in Stored(t, a) : before(c) = sum[c]
  <2> SUFFICES ASSUME NEW c \in Stored(t, a), Path = "fwd" PROVE loaded[sm][c[2]] = sum[c]
    OBVIOUS
  <2>1. HeadIs(sm, "store")
    BY <1>1, <1>2 DEF HeadIs
  <2>2. loaded[sm] = [row \in RowsOf(a.visit) |-> sum[<<HeadOf(t), row>>]]
    BY <1>2, <2>1 DEF LoadedInv
  <2>3. c[2] \in RowsOf(a.visit) /\ c = <<HeadOf(t), c[2]>>
    BY DEF Stored
  <2>4. QED
    BY <2>2, <2>3
<1>7. sum' = [c \in Cells |-> IF c \in Stored(t, a) THEN Append(sum[c], PartOf(t, a)) ELSE sum[c]]
  <2> HIDE DEF before
  <2>1. QED
    BY <1>5, <1>6
<1>8. loaded' = [loaded EXCEPT ![sm] = <<>>] /\ UNCHANGED <<conflict, lockVars>>
  BY DEF Store
<1>9. QED
  BY <1>1, <1>3, <1>7, <1>8

\* It keeps the types.
LEMMA StoreFrame ==
  ASSUME Frame, LoadedInv, NEW sm \in Sms, Store(sm)
  PROVE  Frame'
<1>1. PICK t, k, a :
        /\ Acted(sm, t, k, 1, a) /\ a.op = "store" /\ Stored(t, a) \subseteq Cells
        /\ sum' = [c \in Cells |-> IF c \in Stored(t, a) THEN Append(sum[c], PartOf(t, a)) ELSE sum[c]]
        /\ loaded' = [loaded EXCEPT ![sm] = <<>>] /\ UNCHANGED <<conflict, lockVars>>
  BY StoreEffect
<1>2. t \in Tiles /\ a \in ToSet(epilogue[t]) /\ config' = config
  BY <1>1, ActedFacts DEF inputs
<1>3. PartOf(t, a) \in Nat
  BY <1>2, ActFacts DEF Frame
<1>4. sum \in [Cells -> Seq(Nat)] /\ DOMAIN loaded = Sms /\ \A s \in Sms : DOMAIN loaded[s] \subseteq Rows
  BY DEF Frame, BasicOK, SumOK
<1>5. sum' \in [Cells -> Seq(Nat)]
  <2> DEFINE p == PartOf(t, a)
             S == Stored(t, a)
  <2>1. p \in Nat /\ sum' = [c \in Cells |-> IF c \in S THEN Append(sum[c], p) ELSE sum[c]]
    BY <1>1, <1>3
  <2> HIDE DEF p, S
  <2>2. \A q \in Seq(Nat) : Append(q, p) \in Seq(Nat)
    BY <2>1
  <2>3. QED
    BY <1>4, <2>1, <2>2
<1>6. DOMAIN loaded' = Sms /\ \A s \in Sms : DOMAIN loaded'[s] \subseteq Rows
  BY <1>1, <1>4
<1>7. SumOK'
  BY <1>2, <1>5, <1>6, SameConfig DEF SumOK
<1>8. LocksOK'
  BY <1>1, <1>2, SameLocks
<1>9. QED
  BY <1>1, <1>7, <1>8, KeptConflict

-------------------------------------------------------------------------------
(* Sums and what is loaded.                                                  *)

\* The sums agree with the stores when neither changes.
LEMMA SameSums ==
  ASSUME SumInv, config' = config, epilogue' = epilogue, sum' = sum,
         \A u \in Tiles : \A b \in ToSet(epilogue[u]) : b.op = "store" => (Done(u, b)' <=> Done(u, b))
  PROVE  SumInv'
<1>1. ASSUME NEW t \in Tiles, NEW a \in ToSet(epilogue[t]), a.op = "store", NEW row \in RowsOf(a.visit)
      PROVE  PartOf(t, a) \in ToSet(sum'[<<HeadOf(t), row>>]) <=> Done(t, a)'
  BY <1>1 DEF SumInv
<1>2. /\ Tiles' = Tiles /\ (\A t : HeadOf(t)' = HeadOf(t)) /\ (\A t, a : PartOf(t, a)' = PartOf(t, a))
      /\ \A v : RowsOf(v)' = RowsOf(v)
  BY SameConfig
<1>3. QED
  BY <1>1, <1>2 DEF SumInv

\* A store of the same part in the same cell is the same store.
LEMMA OneStore ==
  ASSUME InputInv, NEW t \in Tiles, NEW a \in ToSet(epilogue[t]), NEW u \in Tiles, NEW b \in ToSet(epilogue[u]),
         a.op = "store", b.op = "store", HeadOf(t) = HeadOf(u), PartOf(t, a) = PartOf(u, b),
         NEW row, row \in RowsOf(a.visit), row \in RowsOf(b.visit)
  PROVE  t = u /\ a = b
<1>1. IsConfig
  BY InputFacts
<1> DEFINE v == a.visit
           w == b.visit
           s == StepOf(t)
           r == StepOf(u)
<1>2. /\ IsVisit(v) /\ IsVisitOf(t, v) /\ v.batch \in Nat /\ s \in 0 .. LastStep /\ a = Act("store", v, 0)
      /\ IsVisit(w) /\ IsVisitOf(u, w) /\ w.batch \in Nat /\ r \in 0 .. LastStep /\ b = Act("store", w, 0)
      /\ Part(v.batch, s) = Part(w.batch, r) /\ row \in RowsOf(v) /\ row \in RowsOf(w)
  BY ActFacts, ActShape DEF PartOf
<1> HIDE DEF v, w, s, r
<1>3. v.batch = w.batch /\ s = r
  <2> DEFINE ba == v.batch
             bb == w.batch
  <2>1. ba \in Nat /\ bb \in Nat /\ s \in 0 .. LastStep /\ r \in 0 .. LastStep /\ Part(ba, s) = Part(bb, r)
    BY <1>2
  <2> HIDE DEF ba, bb
  <2>2. ba = bb /\ s = r
    BY <1>1, <2>1, PartOrder
  <2>3. QED
    BY <2>2 DEF ba, bb
<1>4. v.block = w.block
  <2>1. (row - First(v.batch)) \div BlockSize = v.block
    BY <1>1, <1>2, RowOfVisit
  <2>2. (row - First(w.batch)) \div BlockSize = w.block
    BY <1>1, <1>2, RowOfVisit
  <2>3. QED
    BY <1>3, <2>1, <2>2
<1>5. StepOf(t) = StepOf(u)
  BY <1>3 DEF s, r
<1>6. t = u /\ v = w
  BY <1>1, <1>2, <1>3, <1>4, <1>5, SameJob
<1>7. QED
  BY <1>2, <1>6

\* The members of a sequence with one more.
LEMMA AppendSet ==
  ASSUME NEW s \in Seq(Nat), NEW p \in Nat
  PROVE  ToSet(Append(s, p)) = ToSet(s) \cup {p}
<1>1. /\ Len(Append(s, p)) = Len(s) + 1 /\ Len(s) \in Nat /\ DOMAIN s = 1 .. Len(s) /\ DOMAIN Append(s, p) = 1 .. Len(s) + 1
      /\ \A i \in 1 .. Len(s) : Append(s, p)[i] = s[i]
      /\ Append(s, p)[Len(s) + 1] = p
  OBVIOUS
<1> DEFINE q == Append(s, p)
           n == Len(s)
<1> HIDE DEF q, n
<1>2. /\ n \in Nat /\ DOMAIN s = 1 .. n /\ DOMAIN q = 1 .. n + 1 /\ (\A i \in 1 .. n : q[i] = s[i]) /\ q[n + 1] = p
  BY <1>1 DEF q, n
<1>3. \A i \in 1 .. n + 1 : i \in 1 .. n \/ i = n + 1
  BY <1>2
<1>4. (\A i \in 1 .. n : i \in 1 .. n + 1) /\ n + 1 \in 1 .. n + 1
  BY <1>2
<1>5. \A x : x \in ToSet(q) <=> \E i \in 1 .. n + 1 : q[i] = x
  BY <1>2 DEF ToSet
<1>6. \A x : x \in ToSet(s) <=> \E i \in 1 .. n : s[i] = x
  BY <1>2 DEF ToSet
<1>7. \A x : x \in ToSet(q) <=> x \in ToSet(s) \/ x = p
  BY <1>2, <1>3, <1>4, <1>5, <1>6
<1>8. QED
  BY <1>7 DEF q

\* A store and its part in the sums come together.
LEMMA StoreSums ==
  ASSUME Frame, SumInv, LoadedInv, NEW sm \in Sms, Store(sm)
  PROVE  SumInv'
<1>1. PICK t, k, a :
        /\ Acted(sm, t, k, 1, a) /\ a.op = "store" /\ Stored(t, a) \subseteq Cells
        /\ sum' = [c \in Cells |-> IF c \in Stored(t, a) THEN Append(sum[c], PartOf(t, a)) ELSE sum[c]]
        /\ loaded' = [loaded EXCEPT ![sm] = <<>>] /\ UNCHANGED <<conflict, lockVars>>
  BY StoreEffect
<1>2. t \in Tiles /\ a \in ToSet(epilogue[t]) /\ config' = config /\ epilogue' = epilogue /\ ~Done(t, a) /\ InputInv
  BY <1>1, ActedFacts DEF inputs, Frame
<1>3. PartOf(t, a) \in Nat /\ sum \in [Cells -> Seq(Nat)]
  BY <1>2, ActFacts DEF Frame, BasicOK, SumOK
<1>4. \A c \in Cells : ToSet(sum'[c]) = ToSet(sum[c]) \cup IF c \in Stored(t, a) THEN {PartOf(t, a)} ELSE {}
  <2> TAKE c \in Cells
  <2>1. CASE c \in Stored(t, a)
    BY <1>1, <1>3, <2>1, AppendSet
  <2>2. CASE c \notin Stored(t, a)
    BY <1>1, <2>2
  <2>3. QED
    BY <2>1, <2>2
<1>5. ASSUME NEW u \in Tiles, NEW b \in ToSet(epilogue[u]), b.op = "store", NEW row \in RowsOf(b.visit)
      PROVE  PartOf(u, b) \in ToSet(sum'[<<HeadOf(u), row>>]) <=> Done(u, b)'
  <2>1. <<HeadOf(u), row>> \in Cells
    BY <1>2, <1>5, ActWhere
  <2>2. PartOf(u, b) \in ToSet(sum[<<HeadOf(u), row>>]) <=> Done(u, b)
    BY <1>5 DEF SumInv
  <2>3. Done(u, b)' <=> Done(u, b) \/ (u = t /\ b = a)
    BY <1>1, <1>5, ActedDone
  <2>4. <<HeadOf(u), row>> \in Stored(t, a) <=> HeadOf(u) = HeadOf(t) /\ row \in RowsOf(a.visit)
    BY DEF Stored
  <2>5. ASSUME <<HeadOf(u), row>> \in Stored(t, a), PartOf(u, b) = PartOf(t, a) PROVE u = t /\ b = a
    BY <1>1, <1>2, <1>5, <2>4, <2>5, OneStore
  <2>6. u = t /\ b = a => <<HeadOf(u), row>> \in Stored(t, a)
    BY <1>5, <2>4
  <2>7. QED
    BY <1>4, <2>1, <2>2, <2>3, <2>5, <2>6
<1>6. /\ Tiles' = Tiles /\ (\A u : HeadOf(u)' = HeadOf(u)) /\ (\A u, b : PartOf(u, b)' = PartOf(u, b))
      /\ \A v : RowsOf(v)' = RowsOf(v)
  BY <1>2, SameConfig
<1>7. QED
  BY <1>2, <1>5, <1>6 DEF SumInv

-------------------------------------------------------------------------------
(* What has been loaded is still in the sum when it is stored.               *)

LoadedAt(s) ==
  Path = "fwd" /\ HeadIs(s, "store") => loaded[s] = [row \in RowsOf(Visit(s)) |-> sum[<<HeadAt(s), row>>]]

\* An SM that did nothing, while no cell that it is about to store has changed.
LEMMA LoadedKept ==
  ASSUME config' = config, NEW s, LoadedAt(s), todo'[s] = todo[s], current'[s] = current[s], loaded'[s] = loaded[s],
         Path = "fwd" /\ HeadIs(s, "store") =>
           \A row \in RowsOf(Visit(s)) : sum'[<<HeadAt(s), row>>] = sum[<<HeadAt(s), row>>]
  PROVE  LoadedAt(s)'
<1>1. /\ HeadIs(s, "store")' <=> HeadIs(s, "store")
      /\ Visit(s)' = Visit(s) /\ HeadAt(s)' = HeadAt(s) /\ Path' = Path
  <2>1. HeadAt(s)' = HeadAt(s) /\ Path' = Path
    BY DEF HeadAt, LockHead, Tile, Path
  <2>2. QED
    BY <2>1 DEF HeadIs, Visit
<1>2. RowsOf(Visit(s))' = RowsOf(Visit(s))
  BY <1>1 DEF RowsOf, Offset, First, End, BlockSize
<1>3. QED
  BY <1>1, <1>2, ZenonT(30) DEF LoadedAt

\* LoadedInv, SM by SM.
LEMMA LoadedByAll ==
  LoadedInv <=> \A s \in Sms : LoadedAt(s)
BY DEF LoadedInv, LoadedAt

\* The same after a step.
LEMMA LoadedByAllNext ==
  ASSUME \A s \in Sms : LoadedAt(s)'
  PROVE  LoadedInv'
BY DEF LoadedInv, LoadedAt, Sms

\* The head of an SM that has acted is a store in fwd only after a load.
LEMMA ActedLoaded ==
  ASSUME Frame, LoadedInv, NEW sm \in Sms, NEW t, NEW k, NEW n, NEW a, Acted(sm, t, k, n, a),
         a.op = "load" => loaded'[sm] = [row \in RowsOf(a.visit) |-> sum[<<HeadOf(t), row>>]] /\ sum' = sum,
         \A s \in Sms : s # sm =>
           /\ loaded'[s] = loaded[s]
           /\ Path = "fwd" /\ HeadIs(s, "store") =>
                \A row \in RowsOf(Visit(s)) : sum'[<<HeadAt(s), row>>] = sum[<<HeadAt(s), row>>]
  PROVE  LoadedInv'
<1>1. config' = config /\ current' = current /\ HeadAt(sm) = HeadOf(t) /\ t \in Tiles
  BY ActedFacts DEF inputs
<1>2. \A s \in Sms : s # sm => todo'[s] = todo[s]
  BY DEF Acted, Did
<1>3. ASSUME NEW s \in Sms, s # sm PROVE LoadedAt(s)'
  BY <1>1, <1>2, <1>3, LoadedKept, LoadedByAll
<1>4. LoadedAt(sm)'
  <2> SUFFICES ASSUME Path' = "fwd", HeadIs(sm, "store")'
               PROVE  loaded'[sm] = [row \in RowsOf(Visit(sm))' |-> sum'[<<HeadAt(sm)', row>>]]
    BY DEF LoadedAt
  <2>1. Path = "fwd" /\ todo'[sm] # <<>> /\ todo'[sm][1].op = "store"
    BY <1>1, SameConfig DEF HeadIs
  <2>2. a.op = "load" /\ todo'[sm][1].visit = a.visit
    BY <2>1, NextHead DEF NextIs
  <2>3. HeadAt(sm)' = HeadOf(t)
    BY <1>1 DEF HeadAt, HeadOf, LockHead, Tile, Path
  <2>4. RowsOf(Visit(sm))' = RowsOf(a.visit)
    BY <1>1, <2>2 DEF RowsOf, Offset, First, End, BlockSize, Visit
  <2>5. loaded'[sm] = [row \in RowsOf(a.visit) |-> sum[<<HeadOf(t), row>>]] /\ sum' = sum
    BY <2>2
  <2>6. QED
    BY <2>3, <2>4, <2>5
<1>5. QED
  BY <1>3, <1>4, LoadedByAllNext

\* A store leaves what the other SMs have loaded true.
LEMMA StoreLoaded ==
  ASSUME Frame, MutexInv, LoadedInv, NEW sm \in Sms, Store(sm)
  PROVE  LoadedInv'
<1>1. PICK t, k, a :
        /\ Acted(sm, t, k, 1, a) /\ a.op = "store" /\ Stored(t, a) \subseteq Cells
        /\ sum' = [c \in Cells |-> IF c \in Stored(t, a) THEN Append(sum[c], PartOf(t, a)) ELSE sum[c]]
        /\ loaded' = [loaded EXCEPT ![sm] = <<>>] /\ UNCHANGED <<conflict, lockVars>>
  BY StoreEffect
<1>2. HeadAt(sm) = HeadOf(t) /\ Visit(sm) = a.visit /\ HeadIs(sm, "store")
  BY <1>1, ActedFacts DEF HeadIs, Acted
<1>3. DOMAIN loaded = Sms
  BY DEF Frame, BasicOK, SumOK
<1>4. \A s \in Sms : s # sm => loaded'[s] = loaded[s]
  BY <1>1, <1>3
<1>5. ASSUME NEW s \in Sms, s # sm, Path = "fwd", HeadIs(s, "store"), NEW row \in RowsOf(Visit(s))
      PROVE  sum'[<<HeadAt(s), row>>] = sum[<<HeadAt(s), row>>]
  <2>1. <<HeadAt(s), row>> \notin Stored(t, a)
    <3> SUFFICES ASSUME HeadAt(s) = HeadAt(sm), row \in RowsOf(Visit(sm)) PROVE FALSE
      BY <1>2 DEF Stored
    <3>1. sm = s
      BY <1>2, <1>5, StoreAlone
    <3>2. QED
      BY <1>5, <3>1
  <2>2. <<HeadAt(s), row>> \in Cells
    <3>1. PICK u, j, b : /\ Runs(s, u, j) /\ u \in Tiles /\ Tile(s) = u /\ HeadAt(s) = HeadOf(u)
                         /\ j + 1 \in DOMAIN epilogue[u] /\ b = epilogue[u][j + 1] /\ b \in ToSet(epilogue[u])
                         /\ todo[s][1] = b /\ b.op = "store" /\ Visit(s) = b.visit
      BY <1>5, HeadRuns
    <3>2. QED
      BY <1>5, <3>1, ActWhere DEF Frame
  <2>3. QED
    BY <1>1, <2>1, <2>2
<1>6. QED
  BY <1>1, <1>4, <1>5, ActedLoaded

-------------------------------------------------------------------------------
(* The inductive invariant.                                                  *)

Inv == Frame /\ LockInv /\ SumInv /\ MutexInv /\ LoadedInv

\* The invariant holds at the start.
LEMMA InitInv ==
  ASSUME Init
  PROVE  Inv
<1>1. Frame /\ LockInv
  BY InitFrame, InitLocks
<1>2. \A t \in Tiles : \A a : ~Done(t, a)
  BY InitNothingDone
<1>3. SumInv
  <2>1. ASSUME NEW t \in Tiles, NEW a \in ToSet(epilogue[t]), a.op = "store", NEW row \in RowsOf(a.visit)
        PROVE  PartOf(t, a) \notin ToSet(sum[<<HeadOf(t), row>>])
    <3>1. <<HeadOf(t), row>> \in Cells
      BY <1>1, <2>1, ActWhere DEF Frame
    <3>2. sum[<<HeadOf(t), row>>] = <<>>
      BY <3>1 DEF Init
    <3>3. QED
      BY <3>2 DEF ToSet
  <2>2. QED
    BY <1>2, <2>1 DEF SumInv
<1>4. MutexInv
  BY <1>2 DEF MutexInv, HoldsAt
<1>5. LoadedInv
  <2>1. \A s \in Sms : todo[s] = <<>>
    BY DEF Init
  <2>2. QED
    BY <2>1 DEF LoadedInv, HeadIs
<1>6. QED
  BY <1>1, <1>3, <1>4, <1>5 DEF Inv

-------------------------------------------------------------------------------
\* Actions that leave sums and mutexes alone.
LEMMA ActedSame ==
  ASSUME Inv, NEW sm \in Sms, NEW t, NEW k, NEW n, NEW a, Acted(sm, t, k, n, a),
         a.op \notin {"lock", "unlock", "load", "store"}, UNCHANGED <<mutex, sum, loaded>>
  PROVE  SumInv' /\ MutexInv' /\ LoadedInv'
<1>1. Frame /\ SumInv /\ MutexInv /\ LoadedInv
  BY DEF Inv
<1>2. config' = config /\ epilogue' = epilogue
  BY <1>1, OtherHeads
<1>3. \A u \in Tiles : \A b \in ToSet(epilogue[u]) :
        b.op \notin {"reset", "publish"} => (Done(u, b)' <=> Done(u, b) \/ (u = t /\ b = a))
  BY <1>1, ActedDone
<1>4. \A u \in Tiles : \A b \in ToSet(epilogue[u]) : b.op \in {"lock", "unlock", "store"} => (Done(u, b)' <=> Done(u, b))
  BY <1>3
<1>5. SumInv'
  BY <1>1, <1>2, <1>4, SameSums
<1>6. MutexInv'
  BY <1>1, <1>2, <1>4, SameMutex
<1>7. LoadedInv'
  BY <1>1, ActedLoaded
<1>8. QED
  BY <1>5, <1>6, <1>7

\* To take or give back a mutex.
LEMMA LockInvs ==
  ASSUME Inv, NEW sm \in Sms, Lock(sm) \/ Unlock(sm)
  PROVE  Frame' /\ SumInv' /\ MutexInv' /\ LoadedInv'
<1>1. Frame /\ SumInv /\ MutexInv /\ LoadedInv
  BY DEF Inv
<1>2. sum' = sum /\ loaded' = loaded
  BY DEF Lock, Unlock
<1>3. ASSUME NEW t, NEW k, NEW a, Acted(sm, t, k, 1, a), a.op \in {"lock", "unlock"}
      PROVE  SumInv' /\ LoadedInv'
  <2>1. config' = config /\ epilogue' = epilogue
    BY <1>1, <1>3, OtherHeads
  <2>2. \A u \in Tiles : \A b \in ToSet(epilogue[u]) : b.op = "store" => (Done(u, b)' <=> Done(u, b))
    BY <1>1, <1>3, ActedDone
  <2>3. SumInv'
    BY <1>1, <1>2, <2>1, <2>2, SameSums
  <2>4. LoadedInv'
    BY <1>1, <1>2, <1>3, ActedLoaded
  <2>5. QED
    BY <2>3, <2>4
<1>4. CASE Lock(sm)
  <2>1. Frame' /\ \E t, k, a : /\ Acted(sm, t, k, 1, a) /\ a.op = "lock"
                               /\ mutex[HeadOf(t)][a.where] = 0
                               /\ mutex' = [mutex EXCEPT ![HeadOf(t)][a.where] = 1]
    BY <1>1, <1>4, LockFrame
  <2>2. PICK t, k, a : /\ Acted(sm, t, k, 1, a) /\ a.op = "lock"
                       /\ mutex[HeadOf(t)][a.where] = 0
                       /\ mutex' = [mutex EXCEPT ![HeadOf(t)][a.where] = 1]
    BY <2>1
  <2>3. MutexInv'
    BY <1>1, <2>2, LockMutex
  <2>4. QED
    BY <1>3, <2>1, <2>2, <2>3
<1>5. CASE Unlock(sm)
  <2>1. Frame' /\ \E t, k, a : /\ Acted(sm, t, k, 1, a) /\ a.op = "unlock"
                               /\ mutex' = [mutex EXCEPT ![HeadOf(t)][a.where] = 0]
    BY <1>1, <1>5, UnlockFrame
  <2>2. PICK t, k, a : /\ Acted(sm, t, k, 1, a) /\ a.op = "unlock"
                       /\ mutex' = [mutex EXCEPT ![HeadOf(t)][a.where] = 0]
    BY <2>1
  <2>3. MutexInv'
    BY <1>1, <2>2, UnlockMutex
  <2>4. QED
    BY <1>3, <2>1, <2>2, <2>3
<1>6. QED
  BY <1>4, <1>5

\* To load.
LEMMA LoadInvs ==
  ASSUME Inv, NEW sm \in Sms, Load(sm)
  PROVE  Frame' /\ SumInv' /\ MutexInv' /\ LoadedInv'
<1>1. Frame /\ SumInv /\ MutexInv /\ LoadedInv
  BY DEF Inv
<1>2. Frame' /\ \E t, k, a : /\ Acted(sm, t, k, 1, a) /\ a.op = "load"
                             /\ loaded'[sm] = [row \in RowsOf(a.visit) |-> sum[<<HeadOf(t), row>>]]
                             /\ \A s \in Sms : s # sm => loaded'[s] = loaded[s]
  BY <1>1, LoadFrame
<1>3. PICK t, k, a : /\ Acted(sm, t, k, 1, a) /\ a.op = "load"
                     /\ loaded'[sm] = [row \in RowsOf(a.visit) |-> sum[<<HeadOf(t), row>>]]
                     /\ \A s \in Sms : s # sm => loaded'[s] = loaded[s]
  BY <1>2
<1>4. sum' = sum /\ mutex' = mutex
  BY DEF Load, lockVars
<1>5. config' = config /\ epilogue' = epilogue
  BY <1>1, <1>3, OtherHeads
<1>6. \A u \in Tiles : \A b \in ToSet(epilogue[u]) : b.op \in {"lock", "unlock", "store"} => (Done(u, b)' <=> Done(u, b))
  BY <1>1, <1>3, ActedDone
<1>7. SumInv'
  BY <1>1, <1>4, <1>5, <1>6, SameSums
<1>8. MutexInv'
  BY <1>1, <1>4, <1>5, <1>6, SameMutex
<1>9. LoadedInv'
  BY <1>1, <1>3, <1>4, ActedLoaded
<1>10. QED
  BY <1>2, <1>7, <1>8, <1>9

\* To store.
LEMMA StoreInvs ==
  ASSUME Inv, NEW sm \in Sms, Store(sm)
  PROVE  Frame' /\ SumInv' /\ MutexInv' /\ LoadedInv'
<1>1. Frame /\ SumInv /\ MutexInv /\ LoadedInv
  BY DEF Inv
<1>2. PICK t, k, a : Acted(sm, t, k, 1, a) /\ a.op = "store"
  BY <1>1, DoesActed DEF Store
<1>3. mutex' = mutex
  BY DEF Store, lockVars
<1>4. config' = config /\ epilogue' = epilogue
  BY <1>1, <1>2, OtherHeads
<1>5. \A u \in Tiles : \A b \in ToSet(epilogue[u]) : b.op \in {"lock", "unlock"} => (Done(u, b)' <=> Done(u, b))
  BY <1>1, <1>2, ActedDone
<1>6. MutexInv'
  BY <1>1, <1>3, <1>4, <1>5, SameMutex
<1>7. QED
  BY <1>1, <1>6, StoreFrame, StoreSums, StoreLoaded

\* The remaining actions of an epilogue.
LEMMA TurnInvs ==
  ASSUME Inv, NEW sm \in Sms, EnterBatches(sm) \/ Await(sm) \/ Add(sm) \/ Reset(sm) \/ Publish(sm)
  PROVE  Frame' /\ SumInv' /\ MutexInv' /\ LoadedInv'
<1>1. Frame
  BY DEF Inv
<1>2. UNCHANGED <<mutex, sum, loaded>>
  BY DEF EnterBatches, Await, Add, Reset, Publish, lockVars
<1>3. Frame' /\ \E t, k, n, a : Acted(sm, t, k, n, a) /\ a.op \in {"enter", "await", "add", "reset", "publish"}
  <2>1. CASE EnterBatches(sm)
    BY <1>1, <2>1, EnterFrame
  <2>2. CASE Await(sm)
    BY <1>1, <2>2, AwaitFrame
  <2>3. CASE Add(sm)
    <3>1. Frame' /\ \E t, k, n, a : /\ Acted(sm, t, k, n, a) /\ a.op = "add" /\ (n = 1 <=> AddTotal(t, a) = 2)
                                    /\ count' = [count EXCEPT ![HeadOf(t)][SideLockOf(a)] = AddTotal(t, a)]
                                    /\ UNCHANGED <<turn, mutex, sum, loaded>>
      BY <1>1, <2>3, AddFrame
    <3>2. QED
      BY <3>1
  <2>4. CASE Reset(sm)
    <3>1. Frame' /\ \E t, k, a : /\ Acted(sm, t, k, 1, a) /\ a.op = "reset"
                                 /\ count' = [count EXCEPT ![HeadOf(t)][SideLockOf(a)] = 0]
                                 /\ UNCHANGED <<turn, mutex, sum, loaded>>
      BY <1>1, <2>4, ResetFrame
    <3>2. QED
      BY <3>1
  <2>5. CASE Publish(sm)
    <3>1. Frame' /\ \E t, k, a : /\ Acted(sm, t, k, 1, a) /\ a.op = "publish"
                                 /\ turn' = [turn EXCEPT ![HeadOf(t)][SideLockOf(a)] = NextTurnOf(t, a)]
                                 /\ UNCHANGED <<count, mutex, sum, loaded>>
      BY <1>1, <2>5, PublishFrame
    <3>2. QED
      BY <3>1
  <2>6. QED
    BY <2>1, <2>2, <2>3, <2>4, <2>5
<1>4. PICK t, k, n, a : Acted(sm, t, k, n, a) /\ a.op \in {"enter", "await", "add", "reset", "publish"}
  BY <1>3
<1>5. SumInv' /\ MutexInv' /\ LoadedInv'
  BY <1>2, <1>4, ActedSame
<1>6. QED
  BY <1>3, <1>5

\* Steps that do nothing of an epilogue.
LEMMA QuietInvs ==
  ASSUME Inv, Quiet, config' = config, epilogue' = epilogue, UNCHANGED <<mutex, sum, loaded>>,
         \A s \in Sms : \/ todo'[s] = todo[s] /\ current'[s] = current[s]
                        \/ Path = "fwd" => ~HeadIs(s, "store")'
  PROVE  SumInv' /\ MutexInv' /\ LoadedInv'
<1>1. Frame /\ SumInv /\ MutexInv /\ LoadedInv
  BY DEF Inv
<1>2. \A u \in Tiles : \A b \in ToSet(epilogue[u]) : Done(u, b)' <=> Done(u, b)
  BY DEF Quiet
<1>3. SumInv'
  BY <1>1, <1>2, SameSums
<1>4. MutexInv'
  BY <1>1, <1>2, SameMutex
<1>5. ASSUME NEW s \in Sms PROVE LoadedAt(s)'
  <2>1. CASE todo'[s] = todo[s] /\ current'[s] = current[s]
    BY <1>1, <2>1, LoadedKept, LoadedByAll
  <2>2. CASE Path = "fwd" => ~HeadIs(s, "store")'
    BY <2>2, SameConfig DEF LoadedAt
  <2>3. QED
    BY <2>1, <2>2
<1>6. QED
  BY <1>3, <1>4, <1>5, LoadedByAllNext

\* To take a work.
LEMMA TakeInvs ==
  ASSUME Inv, NEW sm \in Sms, Take(sm)
  PROVE  Frame' /\ SumInv' /\ MutexInv' /\ LoadedInv'
<1>1. Frame /\ InputInv /\ BasicOK /\ OnePlace /\ AheadInv
  BY DEF Frame, Inv
<1>2. /\ Quiet /\ UNCHANGED <<inputs, producerVars, conflict, loaded, lockVars, sum>>
      /\ \A s \in Sms : s # sm => todo'[s] = todo[s] /\ current'[s] = current[s]
  BY <1>1, TakeQuiet, TakeEffect
<1>3. config' = config /\ epilogue' = epilogue /\ UNCHANGED <<mutex, sum, loaded>>
  BY <1>2 DEF inputs, lockVars
<1>4. Path = "fwd" => ~HeadIs(sm, "store")'
  BY <1>1, TakeHead DEF TakenIs, HeadIs
<1>5. QED
  BY <1>1, <1>2, <1>3, <1>4, QuietInvs, TakeFrame

\* To hand out, prefetch or end.
LEMMA ProduceInvs ==
  ASSUME Inv, NEW sm \in Sms, Produce(sm)
  PROVE  Frame' /\ SumInv' /\ MutexInv' /\ LoadedInv'
<1>1. Frame
  BY DEF Inv
<1>2. Frame' /\ Quiet /\ UNCHANGED <<inputs, consumerVars, lockVars, sum>>
  BY <1>1, ProduceFrame
<1>3. config' = config /\ epilogue' = epilogue /\ UNCHANGED <<mutex, sum, loaded>> /\ todo' = todo /\ current' = current
  BY <1>2 DEF inputs, consumerVars, lockVars
<1>4. QED
  BY <1>2, <1>3, QuietInvs

\* Every step keeps the invariant.
LEMMA NextInv ==
  ASSUME Inv, Next
  PROVE  Inv'
<1>1. PICK sm \in Sms : Produce(sm) \/ Consume(sm)
  BY DEF Next
<1>2. Frame /\ LockInv
  BY DEF Inv
<1>3. LockInv'
  BY <1>1, <1>2, ProduceLocks, TakeLocks, ConsumeLocks
<1>4. Frame' /\ SumInv' /\ MutexInv' /\ LoadedInv'
  <2>1. CASE Produce(sm)
    BY <2>1, ProduceInvs
  <2>2. CASE Take(sm)
    BY <2>2, TakeInvs
  <2>3. CASE EnterBatches(sm) \/ Await(sm) \/ Add(sm) \/ Reset(sm) \/ Publish(sm)
    BY <2>3, TurnInvs
  <2>4. CASE Lock(sm) \/ Unlock(sm)
    BY <2>4, LockInvs
  <2>5. CASE Load(sm)
    BY <2>5, LoadInvs
  <2>6. CASE Store(sm)
    BY <2>6, StoreInvs
  <2>7. QED
    BY <1>1, <2>1, <2>2, <2>3, <2>4, <2>5, <2>6 DEF Consume
<1>5. QED
  BY <1>3, <1>4 DEF Inv

-------------------------------------------------------------------------------
(* The invariant, types and turns, as theorems.                              *)

\* So does no step.
LEMMA StutterInv ==
  ASSUME Inv, UNCHANGED vars
  PROVE  Inv'
<1>1. Frame /\ LockInv /\ InputInv /\ BasicOK /\ OnePlace /\ AllSuffix /\ AheadInv /\ ConflictInv
  BY DEF Frame, Inv
<1>2. /\ UNCHANGED inputs /\ UNCHANGED lockVars
      /\ config' = config /\ order' = order /\ epilogue' = epilogue
      /\ handedOut' = handedOut /\ producerPc' = producerPc /\ nextId' = nextId /\ lastTile' = lastTile
      /\ slot' = slot /\ conflict' = conflict
      /\ ahead' = ahead /\ current' = current /\ todo' = todo /\ loaded' = loaded
      /\ turn' = turn /\ count' = count /\ mutex' = mutex /\ sum' = sum
  BY DEF vars, inputs, producerVars, consumerVars, lockVars
<1>3. \A s \in Sms, k \in Kinds, t \in Tiles : At(<<s, k>>, t)' <=> At(<<s, k>>, t)
  BY <1>2, AtNow, AtNext DEF Kinds
<1>4. \A t \in Tiles : Fresh(t)' <=> Fresh(t)
  BY <1>2 DEF Fresh
<1>5. OnePlace' /\ \A t \in Tiles : Waits(t)' <=> Waits(t)
  BY <1>1, <1>2, <1>3, <1>4, SamePlaces
<1>6. Quiet
  BY <1>1, <1>2, <1>5, SameRemains
<1>7. InputInv'
  BY <1>1, <1>2, SameInputs
<1>8. BasicOK'
  BY <1>1, <1>2, SameConfig, SameLocks DEF BasicOK, ProducerOK, WorksOK, ConflictOK
<1>9. AllSuffix'
  BY <1>1, <1>2 DEF AllSuffix, Suffix
<1>10. AheadInv'
  BY <1>1, <1>2, SameConfig DEF AheadInv
<1>11. ConflictInv'
  BY <1>1, <1>2, SameConfig DEF ConflictInv, Visit
<1>12. Frame'
  BY <1>5, <1>7, <1>8, <1>9, <1>10, <1>11 DEF Frame
<1>13. LockInv'
  <2>1. \A s \in Sms : \A h, l : KeptHead(s, h, l)
    BY <1>2, SameHead
  <2>2. QED
    BY <1>1, <1>2, <1>6, <2>1, Neutral DEF Quiet
<1>14. SumInv' /\ MutexInv' /\ LoadedInv'
  BY <1>2, <1>6, QuietInvs
<1>15. QED
  BY <1>12, <1>13, <1>14 DEF Inv

\* The inductive invariant of the tile schedulers, the range locks, the mutexes and the sums.
THEOREM Safety == Spec => []Inv
<1>1. Init => Inv
  BY InitInv
<1>2. Inv /\ [Next]_vars => Inv'
  BY NextInv, StutterInv
<1>3. QED
  BY <1>1, <1>2, PTL DEF Spec

-------------------------------------------------------------------------------
(* Types.                                                                    *)

\* A counter is at most 2: the sides of one step.
LEMMA CountBound ==
  ASSUME Inv, NEW h \in LockHeads, NEW l \in Locks
  PROVE  count[h][l] \in 0 .. 2
<1>1. Frame /\ AwaitMeansReached /\ CountAt(h, l)
  BY DEF Inv, LockInv, CountInv
<1>2. /\ Arrived(h, l, "left") \in {0, 1, 2} /\ Arrived(h, l, "right") \in {0, 1, 2}
  BY ArrivedValue
<1>3. ASSUME Arrived(h, l, "left") # 0, Arrived(h, l, "right") # 0
      PROVE  Arrived(h, l, "left") = 1 /\ Arrived(h, l, "right") = 1
  <2>1. \A w1, w2 : ArrivedWith(h, l, "left", w1) /\ ArrivedWith(h, l, "right", w2) => w1 = 1 /\ w2 = 1
    <3> SUFFICES ASSUME NEW w1, NEW w2, ArrivedWith(h, l, "left", w1), ArrivedWith(h, l, "right", w2) PROVE w1 = 1 /\ w2 = 1
      OBVIOUS
    <3>1. PICK t, a : /\ AddsAt(t, a, h, l) /\ a.where = "left" /\ AddCount(a.visit, "left") = w1
                      /\ PartOf(t, a) >= turn[h][l] /\ Done(t, a)
      BY DEF ArrivedWith
    <3>2. PICK u, b : /\ AddsAt(u, b, h, l) /\ b.where = "right" /\ AddCount(b.visit, "right") = w2
                      /\ PartOf(u, b) >= turn[h][l] /\ Done(u, b)
      BY DEF ArrivedWith
    <3>3. Reached(h, l, PartOf(t, a))
      BY <1>1, <3>1, AddReached
    <3>4. Reached(h, l, PartOf(u, b))
      BY <1>1, <3>2, AddReached
    <3>5. PartOf(t, a) = PartOf(u, b)
      BY <1>1, <3>1, <3>2, <3>3, <3>4, SamePart
    <3>6. a.where # b.where
      BY <3>1, <3>2
    <3>7. AddCount(a.visit, a.where) = 1 /\ AddCount(b.visit, b.where) = 1
      BY <1>1, <3>1, <3>2, <3>5, <3>6, PartSides
    <3>8. QED
      BY <3>1, <3>2, <3>7
  <2>2. ArrivedWith(h, l, "left", Arrived(h, l, "left")) /\ ArrivedWith(h, l, "right", Arrived(h, l, "right"))
    BY <1>3 DEF Arrived
  <2>3. QED
    BY <2>1, <2>2
<1>4. Arrived(h, l, "left") + Arrived(h, l, "right") \in 0 .. 2
  <2> DEFINE x == Arrived(h, l, "left")
             y == Arrived(h, l, "right")
  <2> HIDE DEF x, y
  <2>1. x \in {0, 1, 2} /\ y \in {0, 1, 2} /\ (x # 0 /\ y # 0 => x = 1 /\ y = 1)
    BY <1>2, <1>3 DEF x, y
  <2>2. x + y \in 0 .. 2
    BY <2>1
  <2>3. QED
    BY <2>2 DEF x, y
<1>5. QED
  BY <1>1, <1>4 DEF CountAt

\* The invariant implies the types.
LEMMA InvTypes ==
  ASSUME Inv
  PROVE  TypeOK
<1>1. /\ Frame /\ IsConfig /\ config \in Configs
      /\ ProducerOK /\ WorksOK /\ ConflictOK /\ LocksOK /\ SumOK /\ TurnInv
  BY InputFacts DEF Inv, Frame, BasicOK, InputInv, IsConfig, LockInv
<1>2. /\ handedOut \in Nat /\ producerPc \in [Sms -> {"hand", "prefetch", "done"}] /\ lastTile \in [Sms -> TileType]
  BY <1>1 DEF ProducerOK
<1>3. nextId \in [Sms -> 0 .. handedOut + NumSms]
  <2>1. NumSms \in Nat
    BY SmsAssumption
  <2>2. \A s \in Sms : nextId[s] \in 0 .. handedOut + NumSms
    <3> TAKE s \in Sms
    <3>1. nextId[s] \in Nat /\ nextId[s] < handedOut + NumSms /\ handedOut \in Nat
      BY <1>1 DEF ProducerOK
    <3>2. QED
      BY <2>1, <3>1
  <2>3. nextId = [s \in Sms |-> nextId[s]]
    BY <1>1 DEF ProducerOK
  <2>4. QED
    BY <2>2, <2>3
<1>4. Works \subseteq WorkType
  BY DEF Works
<1>5. slot \in [Sms -> WorkType] /\ ahead \in [Sms -> WorkType] /\ current \in [Sms -> WorkType]
  BY <1>1, <1>4 DEF WorksOK
<1>6. turn \in [LockHeads -> [Locks -> 0 .. NumBatches * NumSteps]]
  <2> DEFINE T == 0 .. NumBatches * NumSteps
  <2>1. turn \in [LockHeads -> [Locks -> Nat]] /\ \A h \in LockHeads, l \in Locks : turn[h][l] \in T
    BY <1>1 DEF LocksOK, TurnInv
  <2> HIDE DEF T
  <2>2. \A h \in LockHeads : turn[h] \in [Locks -> T]
    BY <2>1
  <2>3. turn \in [LockHeads -> [Locks -> T]]
    BY <2>1, <2>2
  <2>4. QED
    BY <2>3 DEF T
<1>7. count \in [LockHeads -> [Locks -> 0 .. 2]]
  <2> DEFINE T == 0 .. 2
  <2>1. count \in [LockHeads -> [Locks -> Int]] /\ \A h \in LockHeads, l \in Locks : count[h][l] \in T
    BY <1>1, CountBound DEF LocksOK
  <2> HIDE DEF T
  <2>2. \A h \in LockHeads : count[h] \in [Locks -> T]
    BY <2>1
  <2>3. count \in [LockHeads -> [Locks -> T]]
    BY <2>1, <2>2
  <2>4. QED
    BY <2>3 DEF T
<1>8. /\ conflict \in [Sms -> [0 .. NumHeads - 1 -> [Locks -> 0 .. NumBatches]]]
      /\ mutex \in [LockHeads -> [Locks -> {0, 1}]]
      /\ (\A sm \in Sms : DOMAIN loaded[sm] \subseteq Rows) /\ DOMAIN sum = Cells
  BY <1>1 DEF ConflictOK, LocksOK, SumOK
<1>9. QED
  BY <1>1, <1>2, <1>3, <1>5, <1>6, <1>7, <1>8 DEF TypeOK

\* Every variable keeps its type: above all, no counter of a range lock passes two, and no turn the last batch.
THEOREM TypeCorrect == Spec => []TypeOK
<1>1. Inv => TypeOK
  BY InvTypes
<1>2. QED
  BY <1>1, Safety, PTL

-------------------------------------------------------------------------------
(* Turns.                                                                    *)

\* The parts that a turn has passed are in every row of the lock block.
LEMMA InvEarned ==
  ASSUME Inv, NEW h \in LockHeads, NEW l \in Locks, NEW row \in Rows, row \div BlockSize = l,
         NEW p \in owed[<<h, row>>], p < turn[h][l]
  PROVE  p \in ToSet(sum[<<h, row>>])
<1>1. Frame /\ InputInv /\ BasicOK /\ AllSuffix /\ OnePlace /\ TurnMeansArrived /\ TurnInv /\ SumInv
  BY DEF Inv, Frame, LockInv
<1>2. IsConfig /\ EpilogueIs /\ owed = [c \in Cells |-> PartsOf(c[2])]
  BY <1>1, InputFacts DEF InputInv
<1>3. p \in PartsOf(row)
  BY <1>2 DEF Cells
<1>4. PICK b \in Batches, s \in 0 .. LastStep :
        p = Part(b, s) /\ First(b) <= row /\ row < End(b) /\ HasData(b, (row - First(b)) \div BlockSize, s)
  BY <1>3 DEF PartsOf
<1> DEFINE k == (row - First(b)) \div BlockSize
           v == [batch |-> b, block |-> k]
<1>5. IsVisit(v) /\ row \in RowsOf(v)
  BY <1>2, <1>4, VisitOfRow
<1>6. k \in 0 .. NumBlocks(b) - 1
  BY <1>5 DEF IsVisit
<1>7. PICK t \in Tiles : HeadOf(t) = h /\ StepOf(t) = s /\ ActsOf(t, v) \subseteq ToSet(epilogue[t])
  BY <1>2, <1>4, <1>6, JobExists
<1>8. p \in Nat
  <2>1. b \in Nat
    BY <1>2, BatchFacts
  <2>2. QED
    BY <1>2, <1>4, <2>1, PartOrder
<1>9. config.deterministic
  <2>1. turn[h][l] # 0
    BY <1>8
  <2>2. QED
    BY <1>1, <2>1 DEF TurnInv
<1>10. v.batch = b /\ v.block = k
  OBVIOUS
<1> HIDE DEF v, k
<1>11. l \in {LeftLock(v), RightLock(v)}
  BY <1>2, <1>5, RowOfVisit
<1>12. PICK side : side \in {"left", "right"} /\ l = IF side = "left" THEN LeftLock(v) ELSE RightLock(v)
  <2>1. CASE l = LeftLock(v)
    <3>1. "left" \in {"left", "right"} /\ l = IF "left" = "left" THEN LeftLock(v) ELSE RightLock(v)
      BY <2>1
    <3>2. QED
      BY <3>1
  <2>2. CASE l = RightLock(v)
    <3>1. "right" \in {"left", "right"} /\ l = IF "right" = "left" THEN LeftLock(v) ELSE RightLock(v)
      BY <2>2
    <3>2. QED
      BY <3>1
  <2>3. QED
    BY <1>11, <2>1, <2>2
<1> DEFINE add == Act("add", v, side)
           store == Act("store", v, 0)
<1>13. add \in ToSet(epilogue[t])
  <2>1. add \in ArriveActs(v)
    BY <1>12 DEF ArriveActs
  <2>2. QED
    BY <1>7, <1>9, <2>1 DEF ActsOf
<1>14. store \in ToSet(epilogue[t])
  <2>1. HasData(v.batch, v.block, StepOf(t))
    BY <1>4, <1>7, <1>10 DEF k
  <2>2. QED
    BY <1>7, <2>1 DEF ActsOf
<1>15. /\ add.op = "add" /\ add.visit = v /\ add.where = side /\ store.op = "store" /\ store.visit = v
       /\ Rank(store) < Rank(add)
  BY <1>12, AwaitRank DEF Act
<1> HIDE DEF add, store
<1>16. PartOf(t, add) = p /\ PartOf(t, store) = p /\ SideLockOf(add) = l
  BY <1>4, <1>7, <1>10, <1>12, <1>15 DEF PartOf, SideLockOf
<1>17. Done(t, add)
  BY <1>1, <1>7, <1>13, <1>15, <1>16 DEF TurnMeansArrived
<1>18. Done(t, store)
  BY <1>1, <1>13, <1>14, <1>15, <1>17, DoneByRank
<1>19. QED
  BY <1>1, <1>5, <1>7, <1>14, <1>15, <1>16, <1>18 DEF SumInv

\* It implies that turns are earned.
LEMMA InvTurns ==
  ASSUME Inv
  PROVE  TurnIsEarned
BY InvEarned DEF TurnIsEarned, LockRows

\* A turn that a range lock shows has been earned: every part before it has entered every row of the lock block.
THEOREM TurnsAreEarned == Spec => []TurnIsEarned
<1>1. Inv => TurnIsEarned
  BY InvTurns
<1>2. QED
  BY <1>1, Safety, PTL

-------------------------------------------------------------------------------
(* The implementation of the ordered reduction.                              *)

\* The part of a store is owed to the rows it is stored in.
LEMMA StoreOwed ==
  ASSUME Inv, NEW t \in Tiles, NEW a \in ToSet(epilogue[t]), a.op = "store", NEW row \in RowsOf(a.visit)
  PROVE  PartOf(t, a) \in owed[<<HeadOf(t), row>>]
<1>1. InputInv /\ IsConfig /\ owed = [c \in Cells |-> PartsOf(c[2])]
  BY InputFacts DEF Inv, Frame, InputInv
<1>2. /\ IsVisit(a.visit) /\ a.visit.batch \in Batches /\ StepOf(t) \in 0 .. LastStep
      /\ HasPart(t, a.visit) /\ <<HeadOf(t), row>> \in Cells
  BY <1>1, ActFacts, ActShape, ActWhere
<1>3. /\ First(a.visit.batch) <= row /\ row < End(a.visit.batch)
      /\ (row - First(a.visit.batch)) \div BlockSize = a.visit.block
  BY <1>1, <1>2, RowOfVisit
<1>4. HasData(a.visit.batch, (row - First(a.visit.batch)) \div BlockSize, StepOf(t))
  BY <1>2, <1>3 DEF HasPart
<1> DEFINE b == a.visit.batch
           s == StepOf(t)
<1>5. b \in Batches /\ s \in 0 .. LastStep /\ First(b) <= row /\ row < End(b)
      /\ HasData(b, (row - First(b)) \div BlockSize, s) /\ PartOf(t, a) = Part(b, s)
  BY <1>2, <1>3, <1>4 DEF PartOf
<1> HIDE DEF b, s
<1>6. Part(b, s) \in PartsOf(row)
  <2> DEFINE bs == <<b, s>>
  <2>1. bs \in Batches \X (0 .. LastStep) /\ bs[1] = b /\ bs[2] = s
    BY <1>5
  <2> HIDE DEF bs
  <2>2. /\ First(bs[1]) <= row /\ row < End(bs[1])
        /\ HasData(bs[1], (row - First(bs[1])) \div BlockSize, bs[2])
        /\ Part(b, s) = Part(bs[1], bs[2])
    BY <1>5, <2>1
  <2>3. QED
    BY <2>1, <2>2 DEF PartsOf
<1>7. owed[<<HeadOf(t), row>>] = PartsOf(row)
  BY <1>1, <1>2
<1>8. QED
  BY <1>5, <1>6, <1>7

\* In the deterministic mode the parts before it have entered these rows.
LEMMA StoreInTurn ==
  ASSUME Inv, NEW sm \in Sms, NEW t, NEW k, NEW a, Acted(sm, t, k, 1, a), a.op = "store",
         config.deterministic, NEW row \in RowsOf(a.visit),
         NEW q \in owed[<<HeadOf(t), row>>], q < PartOf(t, a)
  PROVE  q \in ToSet(sum[<<HeadOf(t), row>>])
<1>1. Frame /\ InputInv /\ IsConfig /\ AwaitMeansReached /\ owed = [c \in Cells |-> PartsOf(c[2])]
  BY InputFacts DEF Inv, Frame, LockInv, InputInv
<1>2. t \in Tiles /\ a \in ToSet(epilogue[t])
  BY <1>1, ActedFacts
<1>3. IsVisit(a.visit) /\ HeadOf(t) \in LockHeads /\ row \in Rows /\ <<HeadOf(t), row>> \in Cells
  BY <1>1, <1>2, ActFacts, ActWhere
<1> DEFINE l == row \div BlockSize
           h == HeadOf(t)
           await == Act("await", a.visit, l)
<1>4. l \in {LeftLock(a.visit), RightLock(a.visit)} /\ l \in Locks
  BY <1>1, <1>3, RowOfVisit, VisitGeometry
<1>5. a = Act("store", a.visit, 0)
  BY <1>1, <1>2, ActShape
<1>6. await \in ToSet(epilogue[t]) /\ await.visit = a.visit /\ await.op = "await" /\ await.where = l /\ Rank(await) < Rank(a)
  <2>1. await \in ToSet(epilogue[t])
    BY <1>1, <1>2, <1>4, ActSiblings
  <2>2. "left" \in {"left", "right"} /\ "add" \in {"add", "reset", "publish"}
    OBVIOUS
  <2>3. Rank(await) < Rank(a)
    BY <1>5, <2>2, AwaitRank
  <2>4. QED
    BY <2>1, <2>3 DEF Act
<1>7. PartOf(t, await) = PartOf(t, a)
  BY <1>6 DEF PartOf
<1> HIDE DEF await
<1>8. Done(t, await)
  BY <1>1, <1>2, <1>6, DoneEarlier
<1>9. Reached(h, l, PartOf(t, a))
  BY <1>1, <1>2, <1>6, <1>7, <1>8 DEF AwaitMeansReached
<1>10. q \in PartsOf(row)
  BY <1>1, <1>3
<1>11. PICK b \in Batches, s \in 0 .. LastStep : q = Part(b, s) /\ First(b) <= row /\ row < End(b)
  BY <1>10 DEF PartsOf
<1> DEFINE w == [batch |-> b, block |-> (row - First(b)) \div BlockSize]
<1>12. IsVisit(w) /\ row \in RowsOf(w) /\ w.batch = b
  BY <1>1, <1>3, <1>11, VisitOfRow
<1> HIDE DEF w
<1>13. Touches(b, l)
  <2>1. l \in {LeftLock(w), RightLock(w)}
    BY <1>1, <1>12, RowOfVisit
  <2>2. Touches(w.batch, LeftLock(w)) /\ Touches(w.batch, RightLock(w))
    BY <1>1, <1>12, VisitGeometry
  <2>3. QED
    BY <1>12, <2>1, <2>2
<1>14. q < turn[h][l]
  BY <1>9, <1>11, <1>13 DEF Reached
<1>15. row \div BlockSize = l /\ h \in LockHeads /\ q \in owed[<<h, row>>]
  BY <1>3
<1>16. q \in ToSet(sum[<<h, row>>])
  BY <1>3, <1>4, <1>14, <1>15, InvEarned
<1>17. QED
  BY <1>16

\* A store is a step of the abstract reduction: its part enters all cells of its block.
LEMMA StoreReduces ==
  ASSUME Inv, NEW sm \in Sms, Store(sm)
  PROVE  Reduction!Next
<1>1. Frame /\ InputInv /\ SumInv /\ LoadedInv /\ SumOK /\ IsConfig /\ owed = [c \in Cells |-> PartsOf(c[2])]
  BY InputFacts DEF Inv, Frame, BasicOK, InputInv
<1>2. PICK t, k, a :
        /\ Acted(sm, t, k, 1, a) /\ a.op = "store" /\ Stored(t, a) \subseteq Cells
        /\ sum' = [c \in Cells |-> IF c \in Stored(t, a) THEN Append(sum[c], PartOf(t, a)) ELSE sum[c]]
  BY <1>1, StoreEffect
<1>3. /\ t \in Tiles /\ a \in ToSet(epilogue[t]) /\ ~Done(t, a) /\ UNCHANGED inputs
      /\ IsVisit(a.visit) /\ PartOf(t, a) \in Nat
  BY <1>1, <1>2, ActedFacts, ActFacts
<1> DEFINE p == PartOf(t, a)
           S == Stored(t, a)
<1>4. DOMAIN owed = Cells /\ sum \in [Cells -> Seq(Nat)] /\ p \in Nat
  BY <1>1, <1>3 DEF SumOK
<1>5. \A c \in S : /\ p \in owed[c] /\ p \notin ToSet(sum[c])
                   /\ config.deterministic => \A q \in owed[c] : q < p => q \in ToSet(sum[c])
  <2> SUFFICES ASSUME NEW row \in RowsOf(a.visit)
               PROVE  LET c == <<HeadOf(t), row>>
                      IN  /\ p \in owed[c] /\ p \notin ToSet(sum[c])
                          /\ config.deterministic => \A q \in owed[c] : q < p => q \in ToSet(sum[c])
    BY DEF Stored
  <2>1. p \in owed[<<HeadOf(t), row>>]
    BY <1>2, <1>3, StoreOwed
  <2>2. p \notin ToSet(sum[<<HeadOf(t), row>>])
    BY <1>1, <1>2, <1>3 DEF SumInv
  <2>3. config.deterministic => \A q \in owed[<<HeadOf(t), row>>] : q < p => q \in ToSet(sum[<<HeadOf(t), row>>])
    BY <1>2, StoreInTurn
  <2>4. QED
    BY <2>1, <2>2, <2>3
<1>6. S \subseteq Cells /\ sum' = [c \in Cells |-> IF c \in S THEN Append(sum[c], p) ELSE sum[c]]
  BY <1>2
<1>7. PICK e : e \in S
  <2>1. <<HeadOf(t), Offset(a.visit)>> \in S
    BY <1>1, <1>3, VisitHasRows DEF Stored
  <2>2. QED
    BY <2>1
<1> HIDE DEF p, S
<1>8. p \in UNION {owed[c] : c \in Cells}
  BY <1>5, <1>6, <1>7
<1>9. \A s \in Seq(Nat) : Append(s, p) # s
  <2> TAKE s \in Seq(Nat)
  <2>1. Len(Append(s, p)) = Len(s) + 1 /\ Len(s) \in Nat
    BY <1>4
  <2>2. QED
    BY <2>1
<1>10. Reduction!Changed = S
  BY <1>4, <1>6, <1>9 DEF Reduction!Changed, Reduction!Cells
<1>11. \A c \in S : Reduction!MayEnter(p, c)
  BY <1>5 DEF Reduction!MayEnter, Reduction!ToSet, ToSet
<1>12. config.deterministic' = config.deterministic /\ owed' = owed
  BY <1>3 DEF inputs
<1>13. Reduction!Reduce(p, S)
  BY <1>4, <1>6, <1>11, <1>12 DEF Reduction!Reduce, Reduction!Cells
<1>14. QED
  BY <1>4, <1>8, <1>10, <1>13 DEF Reduction!Next, Reduction!Cells

\* Every other action leaves the sums alone.
LEMMA NextReduces ==
  ASSUME Inv, Next
  PROVE  Reduction!Next \/ UNCHANGED Reduction!vars
<1>1. PICK sm \in Sms : Produce(sm) \/ Consume(sm)
  BY DEF Next
<1>2. CASE Store(sm)
  BY <1>2, StoreReduces
<1>3. CASE ~Store(sm)
  <2>1. UNCHANGED <<inputs, sum>>
    <3>1. CASE Produce(sm)
      BY <3>1 DEF Produce, Hand, HandEnd, Retry, Prefetch
    <3>2. CASE Take(sm)
      BY <3>2 DEF Take
    <3>3. CASE EnterBatches(sm)
      BY <3>3 DEF EnterBatches, Does
    <3>4. CASE Await(sm) \/ Lock(sm) \/ Load(sm)
      BY <3>4 DEF Await, Lock, Load, Does
    <3>5. CASE Add(sm) \/ Reset(sm) \/ Publish(sm) \/ Unlock(sm)
      BY <3>5 DEF Add, Reset, Publish, Unlock, Does
    <3>6. QED
      BY <1>1, <1>3, <3>1, <3>2, <3>3, <3>4, <3>5 DEF Consume
  <2>2. QED
    BY <2>1 DEF inputs, Reduction!vars
<1>4. QED
  BY <1>2, <1>3

\* The range locks, the mutexes and the conflict state implement the abstract
\* reduction: no part is lost or enters twice, and deterministic parts enter in order.
THEOREM Implements == Spec => ImplementsReduction
<1>1. Init => Reduction!Init
  <2>1. ASSUME Init PROVE Reduction!Init
    <3>1. DOMAIN owed = Cells /\ sum = [c \in Cells |-> <<>>]
      BY <2>1 DEF Init
    <3>2. QED
      BY <3>1 DEF Reduction!Init, Reduction!Cells
  <2>2. QED
    BY <2>1
<1>2. Inv /\ [Next]_vars => [Reduction!Next]_Reduction!vars
  <2>1. ASSUME UNCHANGED vars PROVE UNCHANGED Reduction!vars
    BY <2>1 DEF vars, inputs, Reduction!vars
  <2>2. QED
    BY <2>1, NextReduces
<1>3. QED
  BY <1>1, <1>2, Safety, PTL DEF Spec, ImplementsReduction, Reduction!Spec
===============================================================================
