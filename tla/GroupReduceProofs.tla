--------------------------- MODULE GroupReduceProofs ---------------------------
(***************************************************************************)
(* Proofs about the channel of the group reduce, for every number of        *)
(* sources, tokens and warps and all sizes that Config accepts.              *)
(***************************************************************************)
EXTENDS GroupReduceChannel, FiniteSetTheorems, TLAPS

-----------------------------------------------------------------------------
(* Positions and slots: a token's position is the number of tokens before   *)
(* it, and a position's slot in a ring of n is its remainder by n.           *)

\* The number of elements of S below t: the position of t among them.
Below(S, t) == Cardinality({u \in S : u < t})

\* A finite set of integers.
IsFiniteIntSet(S) == S \in SUBSET Int /\ IsFiniteSet(S)

\* The number of elements below t is a number, at most that of all elements.
LEMMA BelowFinite ==
  ASSUME NEW S, IsFiniteIntSet(S), NEW t
  PROVE  /\ IsFiniteSet({u \in S : u < t})
         /\ Below(S, t) \in Nat /\ Cardinality(S) \in Nat
         /\ Below(S, t) <= Cardinality(S)
<1>1. {u \in S : u < t} \in SUBSET S
  OBVIOUS
<1>2. IsFiniteSet(S)
  BY DEF IsFiniteIntSet
<1>3. IsFiniteSet({u \in S : u < t}) /\ Cardinality({u \in S : u < t}) <= Cardinality(S)
  BY <1>1, <1>2, FS_Subset
<1>4. QED
  BY <1>2, <1>3, FS_CardinalityType DEF Below

\* It grows by one past an element.
LEMMA BelowStep ==
  ASSUME NEW S, IsFiniteIntSet(S), NEW t \in Int
  PROVE  Below(S, t + 1) = IF t \in S THEN Below(S, t) + 1 ELSE Below(S, t)
<1> DEFINE B == {u \in S : u < t}
<1>1. S \subseteq Int
  BY DEF IsFiniteIntSet
<1>2. IsFiniteSet(B)
  BY BelowFinite
<1>3. CASE t \in S
  <2>1. {u \in S : u < t + 1} = B \cup {t}
    <3>1. \A u \in S : u < t + 1 <=> (u < t \/ u = t)
      BY <1>1
    <3>2. QED
      BY <1>3, <3>1, Zenon
  <2>2. t \notin B
    BY <1>1
  <2>3. Cardinality(B \cup {t}) = Cardinality(B) + 1
    BY <1>2, <2>2, FS_AddElement
  <2>4. QED
    BY <1>3, <2>1, <2>3 DEF Below
<1>4. CASE t \notin S
  <2>1. {u \in S : u < t + 1} = B
    <3>1. \A u \in S : u < t + 1 <=> u < t
      BY <1>1, <1>4
    <3>2. QED
      BY <3>1, Zenon
  <2>2. QED
    BY <1>4, <2>1 DEF Below
<1>5. QED
  BY <1>3, <1>4

\* It does not fall.
LEMMA BelowMonotone ==
  ASSUME NEW S, IsFiniteIntSet(S), NEW t \in Int, NEW u \in Int, t <= u
  PROVE  Below(S, t) <= Below(S, u)
<1> DEFINE B(n) == {v \in S : v < n}
<1>1. S \subseteq Int
  BY DEF IsFiniteIntSet
<1>2. B(t) \in SUBSET B(u)
  <2>1. \A v \in S : v < t => v < u
    BY <1>1
  <2>2. QED
    BY <2>1, Zenon
<1>3. IsFiniteSet(B(u))
  BY BelowFinite
<1>4. Cardinality(B(t)) <= Cardinality(B(u))
  BY <1>2, <1>3, FS_Subset
<1>5. QED
  BY <1>4 DEF Below

\* The elements have positions of their own, in order, all below their number.
LEMMA BelowStrict ==
  ASSUME NEW S, IsFiniteIntSet(S), NEW t \in S, NEW u \in Int, t < u
  PROVE  Below(S, t) < Below(S, u)
<1>1. t \in Int
  BY DEF IsFiniteIntSet
<1>2. Below(S, t + 1) = Below(S, t) + 1
  BY <1>1, BelowStep
<1>3. Below(S, t + 1) <= Below(S, u)
  BY <1>1, BelowMonotone
<1>4. Below(S, t) \in Nat /\ Below(S, u) \in Nat
  BY BelowFinite
<1>5. QED
  BY <1>2, <1>3, <1>4

\* Elements have different positions.
LEMMA BelowInjective ==
  ASSUME NEW S, IsFiniteIntSet(S), NEW t \in S, NEW u \in S, Below(S, t) = Below(S, u)
  PROVE  t = u
<1>1. t \in Int /\ u \in Int
  BY DEF IsFiniteIntSet
<1>2. ~(t < u) /\ ~(u < t)
  <2>1. Below(S, t) \in Nat
    BY BelowFinite
  <2>2. ASSUME t < u PROVE FALSE
    BY <1>1, <2>1, <2>2, BelowStrict
  <2>3. ASSUME u < t PROVE FALSE
    BY <1>1, <2>1, <2>3, BelowStrict
  <2>4. QED
    BY <2>2, <2>3
<1>3. QED
  BY <1>1, <1>2

\* It is less than the number of elements for every element.
LEMMA BelowNumber ==
  ASSUME NEW S, IsFiniteIntSet(S), NEW t \in S
  PROVE  Below(S, t) < Cardinality(S)
<1>1. t \in Int
  BY DEF IsFiniteIntSet
<1>2. Below(S, t) < Below(S, t + 1)
  BY <1>1, BelowStrict
<1>3. Below(S, t) \in Nat /\ Below(S, t + 1) \in Nat /\ Below(S, t + 1) <= Cardinality(S)
  BY BelowFinite
<1>4. Cardinality(S) \in Nat
  BY BelowFinite
<1>5. QED
  BY <1>2, <1>3, <1>4

\* Every position below the number of elements is that of an element.
LEMMA BelowOnto ==
  ASSUME NEW S, IsFiniteIntSet(S), NEW p \in 0 .. Cardinality(S) - 1
  PROVE  \E t \in S : Below(S, t) = p
<1> DEFINE P == 0 .. Cardinality(S) - 1
           f == [t \in S |-> Below(S, t)]
<1>1. IsFiniteSet(S) /\ Cardinality(S) \in Nat
  BY FS_CardinalityType DEF IsFiniteIntSet
<1>2. IsFiniteSet(P) /\ Cardinality(P) = Cardinality(S)
  <2>1. /\ IsFiniteSet(P)
        /\ Cardinality(P) = IF 0 > Cardinality(S) - 1 THEN 0 ELSE (Cardinality(S) - 1) - 0 + 1
    <3>1. 0 \in Int /\ Cardinality(S) - 1 \in Int
      BY <1>1
    <3>2. QED
      BY <3>1, FS_Interval
  <2>2. QED
    BY <1>1, <2>1
<1>3. f \in [S -> P]
  <2> SUFFICES ASSUME NEW t \in S PROVE Below(S, t) \in P
    OBVIOUS
  <2>1. Below(S, t) \in Nat /\ Below(S, t) < Cardinality(S)
    BY BelowFinite, BelowNumber
  <2>2. QED
    BY <1>1, <2>1
<1>4. f \in Injection(S, P)
  <2>1. \A t, u \in S : f[t] = f[u] => t = u
    BY BelowInjective
  <2>2. QED
    BY <1>3, <2>1 DEF Injection, IsInjective
<1>5. f \in Surjection(S, P)
  BY <1>2, <1>4, FS_Injection
<1>6. QED
  BY <1>5 DEF Surjection

\* Two positions less than n apart fall on different slots of a ring of n.
LEMMA DistinctSlots ==
  ASSUME NEW n \in Nat \ {0}, NEW p \in Nat, NEW q \in Nat,
         p < q, q - p < n
  PROVE  p % n # q % n
<1>1. PICK a \in Nat : p = n * a + (p % n) /\ p % n \in 0 .. n - 1
  <2>1. p = n * (p \div n) + (p % n) /\ p % n \in 0 .. n - 1 /\ p \div n \in Nat
    OBVIOUS
  <2>2. QED
    BY <2>1
<1>2. PICK b \in Nat : q = n * b + (q % n) /\ q % n \in 0 .. n - 1
  <2>1. q = n * (q \div n) + (q % n) /\ q % n \in 0 .. n - 1 /\ q \div n \in Nat
    OBVIOUS
  <2>2. QED
    BY <2>1
<1>3. SUFFICES ASSUME p % n = q % n PROVE FALSE
  OBVIOUS
<1>4. q - p = n * (b - a)
  BY <1>1, <1>2, <1>3
<1>5. b - a >= 1
  <2>1. CASE b <= a
    <3>1. n * (b - a) <= 0
      BY <2>1
    <3>2. QED
      BY <1>4, <3>1
  <2>2. CASE b > a
    BY <2>2
  <2>3. QED
    BY <2>1, <2>2
<1>6. n * (b - a) >= n
  BY <1>5
<1>7. QED
  BY <1>4, <1>6

\* A warp that goes on by n keeps its residue.
LEMMA NextTurn ==
  ASSUME NEW n \in Nat \ {0}, NEW p \in Nat
  PROVE  (p + n) % n = p % n
<1>1. PICK a \in Nat : p = n * a + (p % n) /\ p % n \in 0 .. n - 1
  <2>1. p = n * (p \div n) + (p % n) /\ p % n \in 0 .. n - 1 /\ p \div n \in Nat
    OBVIOUS
  <2>2. QED
    BY <2>1
<1> DEFINE q == p + n
<1>2. PICK b \in Nat : q = n * b + (q % n) /\ q % n \in 0 .. n - 1
  <2>1. q \in Nat
    OBVIOUS
  <2> HIDE DEF q
  <2>2. q = n * (q \div n) + (q % n) /\ q % n \in 0 .. n - 1 /\ q \div n \in Nat
    BY <2>1
  <2>3. QED
    BY <2>2
<1> DEFINE d == b - a - 1
           r == p % n
           s == q % n
<1>3. n * d = r - s
  <2>1. p = n * a + r /\ p + n = n * b + s /\ r \in Int /\ s \in Int
    BY <1>1, <1>2
  <2> HIDE DEF r, s
  <2>2. n * d = n * b - n * a - n
    OBVIOUS
  <2>3. QED
    BY <2>1, <2>2
<1>4. d \in Int
  OBVIOUS
<1> HIDE DEF d
<1>5. d = 0
  <2>1. CASE d >= 1
    <3>1. n * d >= n
      BY <1>4, <2>1
    <3>2. QED
      BY <1>1, <1>2, <1>3, <3>1
  <2>2. CASE d <= -1
    <3>1. n * d <= -n
      BY <1>4, <2>2
    <3>2. QED
      BY <1>1, <1>2, <1>3, <3>1
  <2>3. QED
    BY <1>4, <2>1, <2>2
<1>6. QED
  BY <1>1, <1>2, <1>3, <1>5

\* The slot of a position is a slot, and not past the position.
LEMMA ResidueBelow ==
  ASSUME NEW n \in Nat \ {0}, NEW p \in Nat
  PROVE  p % n \in 0 .. n - 1 /\ p % n <= p
<1>1. PICK a \in Nat : p = n * a + (p % n) /\ p % n \in 0 .. n - 1
  <2>1. p = n * (p \div n) + (p % n) /\ p % n \in 0 .. n - 1 /\ p \div n \in Nat
    OBVIOUS
  <2>2. QED
    BY <2>1
<1>2. n * a >= 0
  OBVIOUS
<1>3. QED
  BY <1>1, <1>2

\* Numbers with the same residue are equal if they are less than n apart.
LEMMA SameTurn ==
  ASSUME NEW n \in Nat \ {0}, NEW p \in Nat, NEW q \in Nat,
         p % n = q % n, p <= q, q < p + n
  PROVE  p = q
<1>1. CASE p < q
  <2>1. q - p < n
    OBVIOUS
  <2>2. QED
    BY <1>1, <2>1, DistinctSlots
<1>2. CASE ~ p < q
  BY <1>2
<1>3. QED
  BY <1>1, <1>2

-----------------------------------------------------------------------------
(* Sizes and positions.                                                    *)

Sizes ==
  /\ LargeHead \in Nat /\ NumTokens \in Nat /\ NumTokens < LargeHead
  /\ NumSendWarps \in Nat \ {0} /\ NumReduceWarps \in Nat \ {0}
  /\ QueueSize \in Nat /\ ChunkSize \in Nat \ {0} /\ ChunkSize < QueueSize

LEMMA SizesHold ==
  ASSUME config \in Configs
  PROVE  Sizes
<1>1. config \in ConfigType /\ ConfigAccepts(config)
  BY ConfigAssumption
<1>2. LargeHead \in Nat /\ config.numTokens < LargeHead
  BY LargeHeadAssumption
<1>3. QED
  BY <1>1, <1>2 DEF Sizes, ConfigType, ConfigAccepts, NumTokens, NumSendWarps, NumReduceWarps,
                    QueueSize, ChunkSize

LEMMA WarpsAndSlots ==
  ASSUME Sizes
  PROVE  /\ 0 \in SendWarps /\ SendWarps \subseteq Nat /\ ReduceWarps \subseteq Nat
         /\ \A p \in Nat : p % NumSendWarps \in SendWarps
         /\ \A p \in Nat : p % NumReduceWarps \in ReduceWarps
         /\ \A p \in Nat : p % QueueSize \in Slots
         /\ Tokens \subseteq Nat
BY DEF Sizes, SendWarps, ReduceWarps, Slots, Tokens

\* What the arguments need to know of the inputs.
Inputs == Sizes /\ sentTo \in [Sources -> SUBSET Tokens]

LEMMA SentFinite ==
  ASSUME Inputs, NEW r \in Sources
  PROVE  IsFiniteIntSet(sentTo[r]) /\ NumSent(r) \in Nat /\ NumSent(r) <= NumTokens
<1>1. sentTo[r] \in SUBSET Tokens /\ NumTokens \in Nat
  BY DEF Inputs, Sizes
<1>2. IsFiniteSet(Tokens) /\ Cardinality(Tokens) = NumTokens
  <2>1. /\ IsFiniteSet(0 .. NumTokens - 1)
        /\ Cardinality(0 .. NumTokens - 1) =
             IF 0 > NumTokens - 1 THEN 0 ELSE (NumTokens - 1) - 0 + 1
    <3>1. 0 \in Int /\ NumTokens - 1 \in Int
      BY <1>1
    <3>2. QED
      BY <3>1, FS_Interval
  <2>2. QED
    BY <1>1, <2>1 DEF Tokens
<1>3. IsFiniteSet(sentTo[r]) /\ Cardinality(sentTo[r]) <= Cardinality(Tokens)
  BY <1>1, <1>2, FS_Subset
<1>4. Cardinality(sentTo[r]) \in Nat
  BY <1>3, FS_CardinalityType
<1>5. QED
  BY <1>1, <1>2, <1>3, <1>4 DEF IsFiniteIntSet, NumSent, Tokens

LEMMA PositionBelow == \A r, t : Position(r, t) = Below(sentTo[r], t)
BY DEF Position, PositionIn, Below

LEMMA PositionType ==
  ASSUME Inputs, NEW r \in Sources, NEW t
  PROVE  Position(r, t) \in Nat /\ Position(r, t) <= NumSent(r)
BY SentFinite, BelowFinite, PositionBelow DEF NumSent

LEMMA PositionOfSent ==
  ASSUME Inputs, NEW r \in Sources, NEW t \in sentTo[r]
  PROVE  /\ t \in Tokens /\ Position(r, t) \in Nat /\ Position(r, t) < NumSent(r)
         /\ TokenAt(r, Position(r, t)) = t
<1>1. IsFiniteIntSet(sentTo[r])
  BY SentFinite
<1>2. \A u \in sentTo[r] : Position(r, u) = Position(r, t) => u = t
  BY <1>1, BelowInjective, PositionBelow
<1>3. TokenAt(r, Position(r, t)) = t
  BY <1>2 DEF TokenAt
<1>4. Position(r, t) < NumSent(r)
  BY <1>1, BelowNumber, PositionBelow DEF NumSent
<1>5. t \in Tokens
  BY DEF Inputs
<1>6. QED
  BY <1>3, <1>4, <1>5, PositionType

LEMMA TokenAtPosition ==
  ASSUME Inputs, NEW r \in Sources, NEW p \in 0 .. NumSent(r) - 1
  PROVE  TokenAt(r, p) \in sentTo[r] /\ Position(r, TokenAt(r, p)) = p
<1>1. \E t \in sentTo[r] : Position(r, t) = p
  BY SentFinite, BelowOnto, PositionBelow DEF NumSent
<1>2. QED
  BY <1>1 DEF TokenAt

LEMMA PositionOrder ==
  ASSUME Inputs, NEW r \in Sources, NEW t \in Tokens, NEW u \in Tokens
  PROVE  /\ t <= u => Position(r, t) <= Position(r, u)
         /\ t < u /\ t \in sentTo[r] => Position(r, t) + 1 <= Position(r, u)
<1>1. IsFiniteIntSet(sentTo[r]) /\ t \in Int /\ u \in Int
  BY SentFinite DEF Tokens
<1>2. ASSUME t <= u PROVE Position(r, t) <= Position(r, u)
  BY <1>1, <1>2, BelowMonotone, PositionBelow
<1>3. ASSUME t < u, t \in sentTo[r] PROVE Position(r, t) < Position(r, u)
  BY <1>1, <1>3, BelowStrict, PositionBelow
<1>4. Position(r, t) \in Nat /\ Position(r, u) \in Nat
  BY PositionType
<1>5. QED
  BY <1>2, <1>3, <1>4

\* The entry of send_head says whether the token was sent and, decoded, bounds
\* from below the positions of all later tokens.
LEMMA EntryOf ==
  ASSUME Inputs, NEW r \in Sources, NEW w \in ReduceWarps, token[w] \in Tokens
  PROVE  /\ Expected(w, r) \in Int
         /\ Expected(w, r) >= 0 <=> token[w] \in sentTo[r]
         /\ token[w] \in sentTo[r] => Expected(w, r) = Position(r, token[w])
         /\ NextHead(w, r) \in 0 .. LargeHead
         /\ \A t \in sentTo[r] : token[w] < t => NextHead(w, r) <= Position(r, t)
<1> DEFINE u == token[w]
<1>1. /\ Position(r, u) \in Nat /\ Position(r, u) <= NumSent(r) /\ NumSent(r) <= NumTokens
      /\ NumSent(r) \in Nat
  BY PositionType, SentFinite
<1>2. LargeHead \in Nat /\ NumTokens \in Nat /\ NumTokens < LargeHead
  BY DEF Inputs, Sizes
<1>3. PositionIn(sentTo[r], u) = Position(r, u)
  BY DEF Position
<1>4. CASE u \in sentTo[r]
  <2>1. Expected(w, r) = Position(r, u)
    BY <1>3, <1>4 DEF Expected, SendHeadOf, ReduceHead
  <2>2. NextHead(w, r) = Position(r, u) + 1
    BY <1>1, <2>1 DEF NextHead
  <2>3. Position(r, u) < NumSent(r)
    BY <1>4, PositionOfSent
  <2>4. \A t \in sentTo[r] : u < t => Position(r, u) + 1 <= Position(r, t)
    BY <1>4, PositionOfSent, PositionOrder
  <2>5. QED
    BY <1>1, <1>2, <1>4, <2>1, <2>2, <2>3, <2>4
<1>5. CASE u \notin sentTo[r]
  <2>1. Expected(w, r) = Encode(NextPosition(sentTo[r], u))
    BY <1>5 DEF Expected, SendHeadOf, ReduceHead
  <2>2. NextPosition(sentTo[r], u) \in 0 .. LargeHead
    BY <1>1, <1>2, <1>3 DEF NextPosition
  <2>3. Expected(w, r) \in Int /\ Expected(w, r) < 0
    BY <2>1, <2>2 DEF Encode
  <2>4. NextHead(w, r) = NextPosition(sentTo[r], u)
    BY <2>1, <2>2, <2>3 DEF NextHead, Decode, Encode
  <2>5. ASSUME NEW t \in sentTo[r], u < t
        PROVE  NextPosition(sentTo[r], u) <= Position(r, t)
    <3>1. t \in Tokens /\ t \in Int /\ u \in Int
      BY PositionOfSent DEF Tokens
    <3>2. NextPosition(sentTo[r], u) = Position(r, u)
      BY <1>3, <2>5, <3>1 DEF NextPosition
    <3>3. QED
      BY <2>5, <3>1, <3>2, PositionOrder
  <2>6. QED
    BY <1>5, <2>2, <2>3, <2>4, <2>5
<1>6. QED
  BY <1>4, <1>5

-----------------------------------------------------------------------------
(* The inductive invariant.                                                *)

\* The position at which the current round of a source's send warps starts.
Base(r) == IF sendPc[r][0] = "publish" THEN sendTail[r][0] ELSE tail[r]
Round(r) == Smaller(ChunkSize, NumSent(r) - Base(r))

\* All send warps are in one round: they start at its base, and those at the
\* meeting point stand at its end.  A warp that copies has room.
RoundTails ==
  \A r \in Sources :
    /\ tail[r] <= Base(r) /\ Base(r) <= NumSent(r)
    /\ sendPc[r][0] = "publish" => tail[r] < Base(r)
    /\ \A w \in SendWarps :
         /\ sendPc[r][w] = "publish" => w = 0
         /\ sendTail[r][w] = IF sendPc[r][w] = "sync" THEN Base(r) + Round(r) ELSE Base(r)
         /\ sendPc[r][w] \in {"wait", "copy", "sync"} => Base(r) < NumSent(r)
         /\ sendPc[r][w] \in {"copy", "sync"} => Base(r) - head[r] <= QueueSize - Round(r)

WithinQueue == \A r \in Sources : Base(r) - head[r] <= QueueSize

\* The position lies before the round, or in the share of a warp that has copied.
Copied(r, p) ==
  \/ p < Base(r)
  \/ p < Base(r) + Round(r) /\ sendPc[r][(p - Base(r)) % NumSendWarps] = "sync"

\* What has been copied and not been freed is there.
SlotsHold ==
  \A r \in Sources : \A t \in sentTo[r] :
    head[r] <= Position(r, t) /\ Copied(r, Position(r, t)) => slot[r][Position(r, t) % QueueSize] = t

SenderInv == RoundTails /\ WithinQueue /\ SlotsHold

\* Each reduce warp is at one of its own tokens until it has none left.
WarpTurns ==
  \A w \in ReduceWarps :
    /\ token[w] % NumReduceWarps = w
    /\ reducePc[w] \in {"wait", "lse", "reduce"} => token[w] < NumTokens
    /\ reducePc[w] \in {"retire", "done"} => token[w] >= NumTokens
    /\ retired[w] => reducePc[w] = "done"

\* A warp's head, the minimum of the heads scanned so far, and the stored head
\* are not past any token that somebody still has to reduce.
WarpHeads ==
  \A r \in Sources : \A t \in sentTo[r] :
    Pending(t) => warpHead[t % NumReduceWarps][r] <= Position(r, t)
Scanned ==
  \A r \in Sources : lanePc[r] = "scan" =>
    \A t \in sentTo[r] :
      Pending(t) /\ t % NumReduceWarps < scan[r] => minHead[r] <= Position(r, t)
HeadsBehind == \A r \in Sources : \A t \in sentTo[r] : Pending(t) => head[r] <= Position(r, t)

\* A warp that reads its slots has seen them published, and so has every warp
\* that has reduced a token.
TailsSeen == \A r \in Sources : sharedTail[r] <= tail[r]
SlotsArrived ==
  \A w \in ReduceWarps : reducePc[w] \in {"lse", "reduce"} =>
    \A r \in Sources : token[w] \in sentTo[r] => Position(r, token[w]) < tail[r]
ReducedArrived ==
  \A r \in Sources : \A t \in sentTo[r] : ~Pending(t) => Position(r, t) < tail[r]

ReceiverInv ==
  WarpTurns /\ WarpHeads /\ Scanned /\ HeadsBehind /\ TailsSeen /\ SlotsArrived /\ ReducedArrived

IInv == TypeOK /\ SenderInv /\ ReceiverInv /\ ReducedFromItsSources

LEMMA InputsHold == TypeOK => Inputs
BY SizesHold DEF TypeOK, Inputs

\* The inputs never change, nor what is defined from them.
LEMMA SameInputs ==
  ASSUME UNCHANGED inputs
  PROVE  /\ Sources' = Sources /\ Tokens' = Tokens /\ Slots' = Slots
         /\ SendWarps' = SendWarps /\ ReduceWarps' = ReduceWarps
         /\ NumTokens' = NumTokens /\ QueueSize' = QueueSize /\ ChunkSize' = ChunkSize
         /\ NumSendWarps' = NumSendWarps /\ NumReduceWarps' = NumReduceWarps
         /\ IsLseReduce' = IsLseReduce
         /\ sentTo' = sentTo /\ config' = config
         /\ \A r : NumSent(r)' = NumSent(r)
         /\ \A r, t : Position(r, t)' = Position(r, t)
BY DEF inputs, Sources, Tokens, Slots, SendWarps, ReduceWarps, NumTokens, QueueSize, ChunkSize,
       NumSendWarps, NumReduceWarps, IsLseReduce, NumSent, Position, PositionIn

LEMMA InitInv == Init => IInv
<1> SUFFICES ASSUME Init PROVE IInv
  OBVIOUS
<1>1. Sizes /\ Inputs
  BY SizesHold DEF Init, Inputs
<1>2. /\ LargeHead \in Nat /\ NumTokens \in Nat /\ NumReduceWarps \in Nat \ {0}
      /\ QueueSize \in Nat /\ IntMax \in Nat
  BY <1>1 DEF Sizes, IntMax
<1>3. \A r \in Sources : NumSent(r) \in Nat /\ (sentTo[r] # {} => 0 < NumSent(r))
  <2> TAKE r \in Sources
  <2>1. NumSent(r) \in Nat /\ IsFiniteSet(sentTo[r])
    BY <1>1, SentFinite DEF IsFiniteIntSet
  <2>2. Cardinality(sentTo[r]) = 0 => sentTo[r] = {}
    BY <2>1, FS_EmptySet
  <2>3. QED
    BY <2>1, <2>2 DEF NumSent
<1>4. \A w \in ReduceWarps : w \in Nat /\ w % NumReduceWarps = w
  BY <1>2 DEF ReduceWarps
<1>5. \A t \in Tokens : Pending(t)
  <2> TAKE t \in Tokens
  <2>1. t \in Nat /\ t % NumReduceWarps \in ReduceWarps /\ t % NumReduceWarps <= t
    <3>1. t \in Nat
      BY <1>1, WarpsAndSlots
    <3>2. QED
      BY <1>1, <1>2, <3>1, ResidueBelow, WarpsAndSlots
  <2>2. QED
    BY <2>1 DEF Init, Pending
<1>6. TypeOK
  <2>1. /\ 0 \in 0 .. LargeHead /\ 0 \in 0 .. NumTokens /\ IntMax \in 0 .. IntMax
        /\ 0 \in 0 .. NumReduceWarps
    BY <1>2
  <2>2. \A w \in ReduceWarps : NextToken(w) \in {"wait", "lse", "reduce", "retire", "done"}
    BY DEF NextToken
  <2>3. QED
    BY <1>4, <2>1, <2>2 DEF Init, TypeOK, None
<1>7. \A r \in Sources :
        /\ tail[r] = 0 /\ head[r] = 0 /\ Base(r) = 0 /\ sharedTail[r] = 0 /\ lanePc[r] = "check"
        /\ \A w \in SendWarps : sendPc[r][w] \in {"wait", "done"} /\ sendTail[r][w] = 0
        /\ \A w \in SendWarps : sendPc[r][w] = "wait" => 0 < NumSent(r)
  BY <1>1, <1>3, WarpsAndSlots DEF Init, Base
<1>8. SenderInv
  <2>1. RoundTails
    BY <1>1, <1>3, <1>7, WarpsAndSlots DEF RoundTails
  <2>2. WithinQueue
    BY <1>2, <1>7 DEF WithinQueue
  <2>3. SlotsHold
    <3> SUFFICES ASSUME NEW r \in Sources, NEW t \in sentTo[r], Copied(r, Position(r, t))
                 PROVE  FALSE
      BY DEF SlotsHold
    <3>1. Position(r, t) \in Nat /\ (Position(r, t) - Base(r)) % NumSendWarps \in SendWarps
      BY <1>1, <1>7, PositionOfSent, WarpsAndSlots
    <3>2. QED
      BY <1>7, <3>1 DEF Copied
  <2>4. QED
    BY <2>1, <2>2, <2>3 DEF SenderInv
<1>9. ReceiverInv
  <2>1. WarpTurns
    BY <1>2, <1>4 DEF Init, WarpTurns, NextToken
  <2>2. \A r \in Sources : \A t \in sentTo[r] :
          /\ t \in Tokens /\ 0 <= Position(r, t)
          /\ warpHead[t % NumReduceWarps][r] = 0 /\ head[r] = 0
    <3> TAKE r \in Sources
    <3> TAKE t \in sentTo[r]
    <3>1. t \in Tokens /\ Position(r, t) \in Nat
      BY <1>1, PositionOfSent
    <3>2. t % NumReduceWarps \in ReduceWarps
      BY <1>1, <3>1, WarpsAndSlots
    <3>3. QED
      BY <3>1, <3>2 DEF Init
  <2>3. WarpHeads /\ HeadsBehind
    BY <2>2 DEF WarpHeads, HeadsBehind
  <2>4. Scanned /\ TailsSeen
    BY <1>7 DEF Scanned, TailsSeen
  <2>5. SlotsArrived
    BY DEF Init, SlotsArrived, NextToken
  <2>6. ReducedArrived
    BY <1>5, <2>2 DEF ReducedArrived
  <2>7. QED
    BY <2>1, <2>3, <2>4, <2>5, <2>6 DEF ReceiverInv
<1>10. ReducedFromItsSources
  BY <1>5 DEF Init, ReducedFromItsSources
<1>11. QED
  BY <1>6, <1>8, <1>9, <1>10 DEF IInv

-----------------------------------------------------------------------------
(* Steps of the sources.                                                   *)

\* The types that a step of a source can change.
LEMMA SenderTypes ==
  ASSUME TypeOK, UNCHANGED <<inputs, head, laneVars, reduceVars>>, trapped' \in BOOLEAN,
         tail' \in [Sources -> 0 .. NumTokens],
         slot' \in [Sources -> [Slots -> Tokens \cup {None}]],
         sendPc' \in [Sources -> [SendWarps -> {"wait", "copy", "sync", "publish", "done"}]],
         sendTail' \in [Sources -> [SendWarps -> 0 .. NumTokens]]
  PROVE  TypeOK'
BY SameInputs DEF TypeOK, laneVars, reduceVars

\* Tails grow, and nothing else of what the receiver relies on changes.
LEMMA SenderKeepsReceiver ==
  ASSUME TypeOK, ReceiverInv, ReducedFromItsSources,
         UNCHANGED <<inputs, head, laneVars, reduceVars>>,
         \A r \in Sources : tail'[r] \in Int /\ tail[r] <= tail'[r]
  PROVE  ReceiverInv' /\ ReducedFromItsSources'
<1>1. /\ Sources' = Sources /\ Tokens' = Tokens /\ ReduceWarps' = ReduceWarps
      /\ NumTokens' = NumTokens /\ NumReduceWarps' = NumReduceWarps /\ sentTo' = sentTo
      /\ \A r, t : Position(r, t)' = Position(r, t)
  BY SameInputs
<1>2. \A t : Pending(t)' = Pending(t)
  BY <1>1 DEF Pending, reduceVars
<1>3. Inputs
  BY InputsHold
<1>4. WarpTurns' /\ WarpHeads' /\ Scanned' /\ HeadsBehind'
  BY <1>1, <1>2 DEF ReceiverInv, WarpTurns, WarpHeads, Scanned, HeadsBehind, laneVars, reduceVars
<1>5. TailsSeen'
  BY <1>1 DEF ReceiverInv, TailsSeen, laneVars, TypeOK
<1>6. SlotsArrived' /\ ReducedArrived'
  <2>1. \A r \in Sources : \A t : Position(r, t) \in Nat /\ tail[r] \in Int
    BY <1>3, PositionType DEF TypeOK
  <2>2. \A r \in Sources : \A t : Position(r, t) < tail[r] => Position(r, t) < tail'[r]
    BY <2>1
  <2>3. QED
    BY <1>1, <1>2, <2>2 DEF ReceiverInv, SlotsArrived, ReducedArrived, reduceVars
<1>7. ReducedFromItsSources'
  BY <1>1, <1>2 DEF ReducedFromItsSources, reduceVars
<1>8. QED
  BY <1>4, <1>5, <1>6, <1>7 DEF ReceiverInv

\* The facts about one source that its steps need.
LEMMA SourceFacts ==
  ASSUME IInv, NEW r \in Sources
  PROVE  /\ head[r] \in Nat /\ tail[r] \in Nat /\ Base(r) \in Nat /\ NumSent(r) \in Nat
         /\ Round(r) \in Nat /\ Round(r) <= ChunkSize /\ Base(r) + Round(r) <= NumSent(r)
         /\ Base(r) < NumSent(r) => 0 < Round(r)
         /\ tail[r] <= Base(r) /\ Base(r) <= NumSent(r) /\ NumSent(r) <= NumTokens
         /\ Base(r) - head[r] <= QueueSize
         /\ 0 \in SendWarps
<1>1. Inputs /\ Sizes
  BY InputsHold DEF IInv, Inputs
<1>2. ChunkSize \in Nat \ {0} /\ NumTokens \in Nat
  BY <1>1 DEF Sizes
<1>3. head[r] \in Nat /\ tail[r] \in Nat /\ 0 \in SendWarps /\ sendTail[r][0] \in Nat
  BY <1>1, WarpsAndSlots DEF IInv, TypeOK
<1>4. Base(r) \in Nat
  BY <1>3 DEF Base
<1>5. tail[r] <= Base(r) /\ Base(r) <= NumSent(r) /\ Base(r) - head[r] <= QueueSize
  BY DEF IInv, SenderInv, RoundTails, WithinQueue
<1>6. NumSent(r) \in Nat /\ NumSent(r) <= NumTokens
  BY <1>1, SentFinite
<1>7. /\ Round(r) \in Nat /\ Round(r) <= ChunkSize /\ Base(r) + Round(r) <= NumSent(r)
      /\ Base(r) < NumSent(r) => 0 < Round(r)
  BY <1>2, <1>4, <1>5, <1>6 DEF Round, Smaller
<1>8. QED
  BY <1>3, <1>4, <1>5, <1>6, <1>7

\* A step that leaves the bases alone, as a copying warp's do.
LEMMA SameBase ==
  ASSUME UNCHANGED <<inputs, tail>>, NEW r \in Sources,
         sendPc'[r][0] = "publish" <=> sendPc[r][0] = "publish",
         sendPc[r][0] = "publish" => sendTail'[r][0] = sendTail[r][0]
  PROVE  Base(r)' = Base(r) /\ Round(r)' = Round(r)
<1>1. NumSent(r)' = NumSent(r) /\ ChunkSize' = ChunkSize
  BY SameInputs
<1>2. Base(r)' = Base(r)
  BY DEF Base
<1>3. QED
  BY <1>1, <1>2 DEF Round, Smaller

LEMMA BeginRoundInv ==
  ASSUME IInv, NEW r \in Sources, NEW w \in SendWarps, BeginRound(r, w)
  PROVE  IInv'
<1> USE DEF BeginRound
<1>1. /\ Sources' = Sources /\ SendWarps' = SendWarps /\ QueueSize' = QueueSize
      /\ NumSendWarps' = NumSendWarps /\ sentTo' = sentTo
      /\ \A q : NumSent(q)' = NumSent(q)
      /\ \A q, t : Position(q, t)' = Position(q, t)
  BY SameInputs
<1>2. TypeOK /\ SenderInv /\ ReceiverInv /\ ReducedFromItsSources
  BY DEF IInv
<1>3. \A q \in Sources, v \in SendWarps :
        IF q = r /\ v = w THEN sendPc[q][v] = "wait" /\ sendPc'[q][v] = "copy"
                         ELSE sendPc'[q][v] = sendPc[q][v]
  BY <1>2 DEF TypeOK
<1>4. \A q \in Sources : Base(q)' = Base(q) /\ Round(q)' = Round(q)
  <2> TAKE q \in Sources
  <2>1. 0 \in SendWarps
    BY SourceFacts
  <2>2. QED
    BY <1>3, <2>1, SameBase DEF queueVars
<1>5. TypeOK'
  <2>1. sendPc' \in [Sources -> [SendWarps -> {"wait", "copy", "sync", "publish", "done"}]]
    BY <1>2 DEF TypeOK
  <2>2. QED
    BY <1>2, <2>1, SenderTypes DEF TypeOK, queueVars
<1>6. Base(r) - head[r] <= QueueSize - Round(r)
  <2>1. sendTail[r][w] = Base(r)
    BY <1>2 DEF SenderInv, RoundTails
  <2>2. QED
    BY <2>1 DEF RoomForRound, RoundSize, Round
<1>7. SenderInv'
  <2>1. RoundTails'
    BY <1>1, <1>2, <1>3, <1>4, <1>6 DEF SenderInv, RoundTails, queueVars
  <2>2. WithinQueue'
    BY <1>1, <1>2, <1>4 DEF SenderInv, WithinQueue, queueVars
  <2>3. SlotsHold'
    <3>1. ASSUME NEW q \in Sources, NEW t \in sentTo[q], Copied(q, Position(q, t))'
          PROVE  Copied(q, Position(q, t))
      <4>1. Sizes /\ Position(q, t) \in Nat /\ Base(q) \in Nat
        BY <1>2, InputsHold, PositionType, SourceFacts DEF Inputs
      <4>2. CASE Position(q, t) < Base(q)
        BY <4>2 DEF Copied
      <4>3. CASE ~ Position(q, t) < Base(q)
        <5>1. (Position(q, t) - Base(q)) % NumSendWarps \in SendWarps
          BY <4>1, <4>3, WarpsAndSlots
        <5>2. QED
          BY <1>1, <1>3, <1>4, <3>1, <5>1 DEF Copied
      <4>4. QED
        BY <4>2, <4>3
    <3>2. QED
      BY <1>1, <1>2, <3>1 DEF SenderInv, SlotsHold, queueVars
  <2>4. QED
    BY <2>1, <2>2, <2>3 DEF SenderInv
<1>8. ReceiverInv' /\ ReducedFromItsSources'
  <2>1. \A q \in Sources : tail'[q] \in Int /\ tail[q] <= tail'[q]
    BY <1>2 DEF TypeOK, queueVars
  <2>2. QED
    BY <1>2, <2>1, SenderKeepsReceiver DEF queueVars
<1>9. QED
  BY <1>5, <1>7, <1>8 DEF IInv

\* Of the positions that are in use while a round is copied, no two share a slot.
LEMMA RoundSlots ==
  ASSUME IInv, NEW r \in Sources, Base(r) - head[r] <= QueueSize - Round(r),
         NEW p \in Nat, NEW q \in Nat, p # q,
         head[r] <= p, p < Base(r) + Round(r), Base(r) <= q, q < Base(r) + Round(r)
  PROVE  p % QueueSize # q % QueueSize
<1>1. /\ head[r] \in Nat /\ Base(r) \in Nat /\ Round(r) \in Nat /\ Round(r) <= ChunkSize
  BY SourceFacts
<1>2. QueueSize \in Nat \ {0} /\ ChunkSize \in Nat /\ ChunkSize < QueueSize
  BY InputsHold DEF IInv, Inputs, Sizes
<1>3. CASE p < q
  <2>1. q - p < QueueSize
    BY <1>1, <1>2
  <2>2. QED
    BY <1>2, <1>3, <2>1, DistinctSlots
<1>4. CASE q < p
  <2>1. p - q < QueueSize
    BY <1>1, <1>2
  <2>2. QED
    BY <1>2, <1>4, <2>1, DistinctSlots
<1>5. QED
  BY <1>3, <1>4

\* What a warp writes: in the slot of each position of its share, the token of
\* that position; in other slots nothing.
LEMMA CopyShareEffect ==
  ASSUME IInv, NEW r \in Sources, NEW w \in SendWarps, CopyShare(r, w)
  PROVE  /\ slot' \in [Sources -> [Slots -> Tokens \cup {None}]]
         /\ \A q \in Sources : q # r => slot'[q] = slot[q]
         /\ \A p \in Share(r, w) : slot'[r][p % QueueSize] = TokenAt(r, p)
         /\ \A i \in Slots : (\A p \in Share(r, w) : p % QueueSize # i) => slot'[r][i] = slot[r][i]
         /\ Share(r, w) = {p \in Base(r) .. Base(r) + Round(r) - 1 :
                             (p - Base(r)) % NumSendWarps = w}
         /\ sendTail[r][w] = Base(r) /\ RoundSize(r, w) = Round(r)
         /\ Base(r) < NumSent(r) /\ Base(r) - head[r] <= QueueSize - Round(r)
<1> DEFINE Chosen(i) == CHOOSE p \in Share(r, w) : p % QueueSize = i
<1>1. TypeOK /\ Inputs /\ Sizes
  BY InputsHold DEF IInv, Inputs
<1>2. sendPc[r][w] = "copy"
  BY DEF CopyShare
<1>3. sendTail[r][w] = Base(r) /\ Base(r) < NumSent(r) /\ Base(r) - head[r] <= QueueSize - Round(r)
  BY <1>2 DEF IInv, SenderInv, RoundTails
<1>4. RoundSize(r, w) = Round(r)
  BY <1>3 DEF RoundSize, Round
<1>5. Share(r, w) = {p \in Base(r) .. Base(r) + Round(r) - 1 : (p - Base(r)) % NumSendWarps = w}
  BY <1>3, <1>4 DEF Share
<1>6. /\ Base(r) \in Nat /\ Round(r) \in Nat /\ NumSent(r) \in Nat
      /\ Base(r) + Round(r) <= NumSent(r) /\ head[r] \in Nat
  BY SourceFacts
<1>7. ASSUME NEW p \in Share(r, w)
      PROVE  /\ p \in Nat /\ Base(r) <= p /\ p < Base(r) + Round(r)
             /\ p \in 0 .. NumSent(r) - 1
  BY <1>5, <1>6
<1>8. ASSUME NEW p \in Share(r, w) PROVE TokenAt(r, p) \in Tokens
  BY <1>1, <1>7, TokenAtPosition DEF Inputs
<1>9. ASSUME NEW p \in Share(r, w), NEW q \in Share(r, w), p % QueueSize = q % QueueSize
      PROVE  p = q
  <2> SUFFICES ASSUME p # q PROVE FALSE
    OBVIOUS
  <2>1. /\ QueueSize \in Nat \ {0} /\ ChunkSize \in Nat /\ ChunkSize < QueueSize
        /\ Round(r) <= ChunkSize
    BY <1>1, SourceFacts DEF Sizes
  <2>2. p \in Nat /\ q \in Nat /\ p - q < QueueSize /\ q - p < QueueSize
    BY <1>6, <1>7, <2>1
  <2>3. CASE p < q
    BY <1>9, <2>1, <2>2, <2>3, DistinctSlots
  <2>4. CASE q < p
    BY <1>9, <2>1, <2>2, <2>4, DistinctSlots
  <2>5. QED
    BY <2>2, <2>3, <2>4
<1>10. ASSUME NEW p \in Share(r, w) PROVE Chosen(p % QueueSize) = p
  <2>1. Chosen(p % QueueSize) \in Share(r, w) /\ Chosen(p % QueueSize) % QueueSize = p % QueueSize
    OBVIOUS
  <2>2. QED
    BY <1>9, <2>1
<1> HIDE DEF Chosen
<1>11. ASSUME NEW i \in Slots, NEW p \in Share(r, w), p % QueueSize = i
       PROVE  TokenAt(r, Chosen(i)) = TokenAt(r, p)
  BY <1>10, <1>11
<1>12. slot' = [slot EXCEPT ![r] =
                 [i \in Slots |-> IF \E p \in Share(r, w) : p % QueueSize = i
                                  THEN TokenAt(r, Chosen(i)) ELSE slot[r][i]]]
  BY DEF CopyShare, Chosen
<1>13. slot'[r] = [i \in Slots |-> IF \E p \in Share(r, w) : p % QueueSize = i
                                   THEN TokenAt(r, Chosen(i)) ELSE slot[r][i]]
  BY <1>1, <1>12 DEF TypeOK
<1>14. \A p \in Share(r, w) : p % QueueSize \in Slots
  BY <1>1, <1>7, WarpsAndSlots
<1>15. slot'[r] \in [Slots -> Tokens \cup {None}]
  <2>1. ASSUME NEW i \in Slots, \E p \in Share(r, w) : p % QueueSize = i
        PROVE  TokenAt(r, Chosen(i)) \in Tokens
    BY <1>8, <1>11, <2>1
  <2>2. \A i \in Slots : slot[r][i] \in Tokens \cup {None}
    BY <1>1 DEF TypeOK
  <2>3. QED
    BY <1>13, <2>1, <2>2
<1>16. slot' \in [Sources -> [Slots -> Tokens \cup {None}]]
  BY <1>1, <1>12, <1>13, <1>15 DEF TypeOK
<1>17. \A q \in Sources : q # r => slot'[q] = slot[q]
  BY <1>1, <1>12 DEF TypeOK
<1>18. \A p \in Share(r, w) : slot'[r][p % QueueSize] = TokenAt(r, p)
  BY <1>11, <1>13, <1>14
<1>19. \A i \in Slots : (\A p \in Share(r, w) : p % QueueSize # i) => slot'[r][i] = slot[r][i]
  BY <1>13
<1>20. QED
  BY <1>3, <1>4, <1>5, <1>16, <1>17, <1>18, <1>19

LEMMA CopyShareInv ==
  ASSUME IInv, NEW r \in Sources, NEW w \in SendWarps, CopyShare(r, w)
  PROVE  IInv'
<1>1. /\ Sources' = Sources /\ SendWarps' = SendWarps /\ QueueSize' = QueueSize
      /\ NumSendWarps' = NumSendWarps /\ sentTo' = sentTo
      /\ \A q : NumSent(q)' = NumSent(q)
      /\ \A q, t : Position(q, t)' = Position(q, t)
  BY SameInputs DEF CopyShare
<1>2. TypeOK /\ SenderInv /\ ReceiverInv /\ ReducedFromItsSources /\ Inputs /\ Sizes
  BY InputsHold DEF IInv, Inputs
<1>3. /\ sendTail[r][w] = Base(r) /\ RoundSize(r, w) = Round(r)
      /\ Base(r) < NumSent(r) /\ Base(r) - head[r] <= QueueSize - Round(r)
  BY CopyShareEffect
<1>4. \A q \in Sources, v \in SendWarps :
        IF q = r /\ v = w
          THEN /\ sendPc[q][v] = "copy" /\ sendPc'[q][v] = "sync"
               /\ sendTail'[q][v] = Base(r) + Round(r)
          ELSE sendPc'[q][v] = sendPc[q][v] /\ sendTail'[q][v] = sendTail[q][v]
  BY <1>2, <1>3 DEF TypeOK, CopyShare
<1>5. \A q \in Sources : Base(q)' = Base(q) /\ Round(q)' = Round(q)
  <2> TAKE q \in Sources
  <2>1. 0 \in SendWarps
    BY SourceFacts
  <2>2. QED
    BY <1>4, <2>1, SameBase DEF CopyShare
<1>6. TypeOK'
  <2>1. Base(r) + Round(r) \in 0 .. NumTokens
    BY <1>2, SourceFacts DEF Sizes
  <2>2. sendPc' \in [Sources -> [SendWarps -> {"wait", "copy", "sync", "publish", "done"}]]
    BY <1>2 DEF TypeOK, CopyShare
  <2>3. sendTail' \in [Sources -> [SendWarps -> 0 .. NumTokens]]
    BY <1>2, <1>3, <2>1 DEF TypeOK, CopyShare
  <2>4. slot' \in [Sources -> [Slots -> Tokens \cup {None}]]
    BY CopyShareEffect
  <2>5. /\ UNCHANGED <<inputs, head, laneVars, reduceVars>> /\ trapped' \in BOOLEAN
        /\ tail' \in [Sources -> 0 .. NumTokens]
    BY <1>2 DEF TypeOK, CopyShare
  <2>6. QED
    BY <1>2, <2>2, <2>3, <2>4, <2>5, SenderTypes
<1>7. RoundTails'
  <2>1. head' = head /\ tail' = tail
    BY DEF CopyShare
  <2>2. ASSUME NEW q \in Sources, NEW v \in SendWarps
        PROVE  /\ tail'[q] <= Base(q)' /\ Base(q)' <= NumSent(q)'
               /\ sendPc'[q][0] = "publish" => tail'[q] < Base(q)'
               /\ sendPc'[q][v] = "publish" => v = 0
               /\ sendTail'[q][v] = IF sendPc'[q][v] = "sync" THEN Base(q)' + Round(q)' ELSE Base(q)'
               /\ sendPc'[q][v] \in {"wait", "copy", "sync"} => Base(q)' < NumSent(q)'
               /\ sendPc'[q][v] \in {"copy", "sync"} => Base(q)' - head'[q] <= QueueSize' - Round(q)'
    <3>1. CASE q = r /\ v = w
      BY <1>1, <1>2, <1>3, <1>4, <1>5, <2>1, <3>1, SourceFacts DEF SenderInv, RoundTails
    <3>2. CASE ~(q = r /\ v = w)
      BY <1>1, <1>2, <1>4, <1>5, <2>1, <3>2, SourceFacts DEF SenderInv, RoundTails
    <3>3. QED
      BY <3>1, <3>2
  <2>3. \A q \in Sources : 0 \in SendWarps
    BY SourceFacts
  <2>4. QED
    BY <1>1, <2>2, <2>3 DEF RoundTails
<1>8. WithinQueue'
  BY <1>1, <1>2, <1>5 DEF SenderInv, WithinQueue, CopyShare
<1>9. SlotsHold'
  <2> SUFFICES ASSUME NEW q \in Sources, NEW t \in sentTo[q],
                      head[q] <= Position(q, t), Copied(q, Position(q, t))'
               PROVE  slot'[q][Position(q, t) % QueueSize] = t
    BY <1>1 DEF SlotsHold, CopyShare
  <2> DEFINE p == Position(q, t)
  <2>1. p \in Nat /\ p < NumSent(q) /\ TokenAt(q, p) = t
    BY <1>2, PositionOfSent
  <2>2. Base(q) \in Nat /\ Round(q) \in Nat
    BY SourceFacts
  <2>3. Copied(q, p)' <=> \/ p < Base(q)
                          \/ p < Base(q) + Round(q)
                             /\ sendPc'[q][(p - Base(q)) % NumSendWarps] = "sync"
    BY <1>1, <1>5 DEF Copied
  <2>4. CASE q = r /\ p \in Share(r, w)
    BY <2>1, <2>4, CopyShareEffect
  <2>5. CASE ~(q = r /\ p \in Share(r, w))
    <3>1. Copied(q, p)
      <4>1. CASE p < Base(q)
        BY <4>1 DEF Copied
      <4>2. CASE ~ p < Base(q)
        <5>1. (p - Base(q)) % NumSendWarps \in SendWarps
          BY <1>2, <2>1, <2>2, <4>2, WarpsAndSlots
        <5>2. p < Base(q) + Round(q) /\ sendPc'[q][(p - Base(q)) % NumSendWarps] = "sync"
          BY <2>3, <4>2
        <5>3. ~(q = r /\ (p - Base(q)) % NumSendWarps = w)
          <6>1. p \in Base(q) .. Base(q) + Round(q) - 1
            BY <2>1, <2>2, <4>2, <5>2
          <6>2. QED
            BY <2>5, <6>1, CopyShareEffect
        <5>4. QED
          BY <1>4, <5>1, <5>2, <5>3 DEF Copied
      <4>3. QED
        BY <4>1, <4>2
    <3>2. slot[q][p % QueueSize] = t
      BY <1>2, <3>1 DEF SenderInv, SlotsHold
    <3>3. slot'[q][p % QueueSize] = slot[q][p % QueueSize]
      <4>1. CASE q # r
        BY <4>1, CopyShareEffect
      <4>2. CASE q = r
        <5>1. p < Base(r) + Round(r)
          BY <2>1, <2>2, <2>3, <4>2
        <5>2. ASSUME NEW o \in Share(r, w) PROVE o % QueueSize # p % QueueSize
          <6>1. o \in Base(r) .. Base(r) + Round(r) - 1 /\ o # p
            BY <2>5, <4>2, <5>2, CopyShareEffect
          <6>2. o \in Nat /\ Base(r) <= o /\ o < Base(r) + Round(r)
            BY <2>2, <4>2, <6>1
          <6> HIDE DEF p
          <6>3. head[r] <= p
            BY <4>2 DEF p
          <6>4. QED
            BY <1>3, <2>1, <5>1, <6>1, <6>2, <6>3, RoundSlots
        <5>3. p % QueueSize \in Slots
          BY <1>2, <2>1, WarpsAndSlots
        <5>4. QED
          BY <4>2, <5>2, <5>3, CopyShareEffect
      <4>3. QED
        BY <4>1, <4>2
    <3>4. QED
      BY <3>2, <3>3
  <2>6. QED
    BY <2>4, <2>5
<1>10. ReceiverInv' /\ ReducedFromItsSources'
  <2>1. \A q \in Sources : tail'[q] \in Int /\ tail[q] <= tail'[q]
    BY <1>2 DEF TypeOK, CopyShare
  <2>2. UNCHANGED <<inputs, head, laneVars, reduceVars>>
    BY DEF CopyShare
  <2>3. QED
    BY <1>2, <2>1, <2>2, SenderKeepsReceiver
<1>11. QED
  BY <1>6, <1>7, <1>8, <1>9, <1>10 DEF IInv, SenderInv

\* All warps stand at the end of the round, which becomes the base of the next;
\* every position of the round is in some warp's share and has been copied.
LEMMA SenderSyncInv ==
  ASSUME IInv, NEW r \in Sources, SenderSync(r)
  PROVE  IInv'
<1>1. /\ Sources' = Sources /\ SendWarps' = SendWarps /\ QueueSize' = QueueSize
      /\ NumSendWarps' = NumSendWarps /\ ChunkSize' = ChunkSize /\ sentTo' = sentTo
      /\ \A q : NumSent(q)' = NumSent(q)
      /\ \A q, t : Position(q, t)' = Position(q, t)
  BY SameInputs DEF SenderSync
<1>2. TypeOK /\ SenderInv /\ ReceiverInv /\ ReducedFromItsSources /\ Inputs /\ Sizes
  BY InputsHold DEF IInv, Inputs
<1>3. UNCHANGED <<inputs, head, tail, slot, sendTail, laneVars, reduceVars, trapped>>
  BY DEF SenderSync, queueVars
<1>4. \A v \in SendWarps : sendPc[r][v] = "sync"
  BY DEF SenderSync, SendersMet
<1>5. \A q \in Sources, v \in SendWarps :
        IF q = r THEN sendPc'[q][v] = IF v = 0 THEN "publish" ELSE NextRound(r, v)
                 ELSE sendPc'[q][v] = sendPc[q][v]
  BY <1>2 DEF TypeOK, SenderSync
<1>6. 0 \in SendWarps
  BY <1>2, WarpsAndSlots
<1>7. \A v \in SendWarps : sendTail[r][v] = Base(r) + Round(r)
  BY <1>2, <1>4 DEF SenderInv, RoundTails
<1>8. Base(r)' = Base(r) + Round(r)
  BY <1>3, <1>5, <1>6, <1>7 DEF Base
<1>9. \A q \in Sources : q # r => Base(q)' = Base(q) /\ Round(q)' = Round(q)
  <2> TAKE q \in Sources
  <2>1. CASE q # r
    BY <1>3, <1>5, <1>6, <2>1, SameBase
  <2>2. QED
    BY <2>1
<1>10. /\ Base(r) < NumSent(r) /\ Base(r) - head[r] <= QueueSize - Round(r)
  BY <1>2, <1>4, <1>6 DEF SenderInv, RoundTails
<1>11. /\ head[r] \in Nat /\ tail[r] \in Nat /\ Base(r) \in Nat /\ NumSent(r) \in Nat
       /\ Round(r) \in Nat /\ 0 < Round(r) /\ Base(r) + Round(r) <= NumSent(r)
       /\ tail[r] <= Base(r)
  BY <1>10, SourceFacts
<1>12. TypeOK'
  <2>1. \A v \in SendWarps : NextRound(r, v) \in {"wait", "copy", "sync", "publish", "done"}
    BY DEF NextRound
  <2>2. sendPc' \in [Sources -> [SendWarps -> {"wait", "copy", "sync", "publish", "done"}]]
    BY <1>2, <2>1 DEF TypeOK, SenderSync
  <2>3. QED
    BY <1>2, <1>3, <2>2, SenderTypes DEF TypeOK
<1>13. RoundTails'
  <2>1. ASSUME NEW q \in Sources, NEW v \in SendWarps
        PROVE  /\ tail'[q] <= Base(q)' /\ Base(q)' <= NumSent(q)'
               /\ sendPc'[q][0] = "publish" => tail'[q] < Base(q)'
               /\ sendPc'[q][v] = "publish" => v = 0
               /\ sendTail'[q][v] = IF sendPc'[q][v] = "sync" THEN Base(q)' + Round(q)' ELSE Base(q)'
               /\ sendPc'[q][v] \in {"wait", "copy", "sync"} => Base(q)' < NumSent(q)'
               /\ sendPc'[q][v] \in {"copy", "sync"} => Base(q)' - head'[q] <= QueueSize' - Round(q)'
    <3>1. CASE q = r
      <4>1. NextRound(r, v) \in {"wait", "done"}
            /\ (NextRound(r, v) = "wait" => Base(r) + Round(r) < NumSent(r))
        BY <1>7 DEF NextRound
      <4>2. QED
        BY <1>1, <1>3, <1>5, <1>7, <1>8, <1>11, <3>1, <4>1
    <3>2. CASE q # r
      BY <1>1, <1>2, <1>3, <1>5, <1>6, <1>9, <3>2 DEF SenderInv, RoundTails
    <3>3. QED
      BY <3>1, <3>2
  <2>2. QED
    BY <1>1, <1>6, <2>1 DEF RoundTails
<1>14. WithinQueue'
  <2>1. Base(r)' - head[r] <= QueueSize
    <3>1. QueueSize \in Nat
      BY <1>2 DEF Sizes
    <3>2. QED
      BY <1>8, <1>10, <1>11, <3>1
  <2>2. \A q \in Sources : Base(q)' - head[q] <= QueueSize
    BY <1>2, <1>9, <2>1 DEF SenderInv, WithinQueue
  <2>3. QED
    BY <1>1, <1>3, <2>2 DEF WithinQueue
<1>15. SlotsHold'
  <2> SUFFICES ASSUME NEW q \in Sources, NEW t \in sentTo[q],
                      head[q] <= Position(q, t), Copied(q, Position(q, t))'
               PROVE  Copied(q, Position(q, t))
    BY <1>1, <1>2, <1>3 DEF SenderInv, SlotsHold
  <2>1. Position(q, t) \in Nat
    BY <1>2, PositionOfSent
  <2>2. CASE q = r
    <3>1. Position(q, t) < Base(r) + Round(r)
      <4>1. CASE Position(q, t) < Base(r)'
        BY <1>8, <2>2, <4>1
      <4>2. CASE ~ Position(q, t) < Base(r)'
        <5>1. (Position(q, t) - Base(r)') % NumSendWarps \in SendWarps
          <6>1. Position(q, t) - Base(r)' \in Nat
            BY <1>8, <1>11, <2>1, <4>2
          <6>2. QED
            BY <1>2, <6>1, WarpsAndSlots
        <5>2. sendPc'[r][(Position(q, t) - Base(r)') % NumSendWarps] = "sync"
          BY <1>1, <2>2, <4>2 DEF Copied
        <5>3. QED
          BY <1>5, <5>1, <5>2 DEF NextRound
      <4>3. QED
        BY <4>1, <4>2
    <3>2. Position(q, t) < Base(r) \/ (Position(q, t) - Base(r)) % NumSendWarps \in SendWarps
      <4>1. CASE ~ Position(q, t) < Base(r)
        <5>1. Position(q, t) - Base(r) \in Nat
          BY <1>11, <2>1, <4>1
        <5>2. QED
          BY <1>2, <5>1, WarpsAndSlots
      <4>2. QED
        BY <4>1
    <3>3. QED
      BY <1>4, <2>2, <3>1, <3>2 DEF Copied
  <2>3. CASE q # r
    <3>1. sendPc'[q] = sendPc[q]
      BY <1>2, <2>3 DEF TypeOK, SenderSync
    <3>2. QED
      BY <1>1, <1>9, <2>3, <3>1 DEF Copied
  <2>4. QED
    BY <2>2, <2>3
<1>16. ReceiverInv' /\ ReducedFromItsSources'
  <2>1. \A q \in Sources : tail'[q] \in Int /\ tail[q] <= tail'[q]
    BY <1>2, <1>3 DEF TypeOK
  <2>2. QED
    BY <1>2, <1>3, <2>1, SenderKeepsReceiver
<1>17. QED
  BY <1>12, <1>13, <1>14, <1>15, <1>16 DEF IInv, SenderInv

\* The tail becomes the base; warp 0 joins the others.
LEMMA PublishTailEffect ==
  ASSUME IInv, NEW r \in Sources, PublishTail(r)
  PROVE  /\ UNCHANGED <<inputs, head, slot, sendTail, laneVars, reduceVars, trapped>>
         /\ tail' = [tail EXCEPT ![r] = Base(r)]
         /\ sendPc[r][0] = "publish" /\ tail[r] < Base(r)
         /\ \A q \in Sources, v \in SendWarps :
              IF q = r /\ v = 0
                THEN /\ sendPc'[q][v] \in {"wait", "done"}
                     /\ sendPc'[q][v] = "wait" => Base(r) < NumSent(r)
                ELSE sendPc'[q][v] = sendPc[q][v]
         /\ \A q \in Sources : Base(q)' = Base(q) /\ Round(q)' = Round(q)
<1>1. TypeOK /\ RoundTails /\ 0 \in SendWarps
  BY SourceFacts DEF IInv, SenderInv
<1>2. sendPc[r][0] = "publish" /\ Base(r) = sendTail[r][0] /\ tail[r] < Base(r)
  BY <1>1 DEF PublishTail, Base, RoundTails
<1>3. UNCHANGED <<inputs, head, slot, sendTail, laneVars, reduceVars, trapped>>
  BY DEF PublishTail
<1>4. tail' = [tail EXCEPT ![r] = Base(r)]
  BY <1>2 DEF PublishTail
<1>5. \A q \in Sources, v \in SendWarps :
        IF q = r /\ v = 0 THEN sendPc'[q][v] = NextRound(r, 0) ELSE sendPc'[q][v] = sendPc[q][v]
  BY <1>1 DEF PublishTail, TypeOK
<1>6. NextRound(r, 0) \in {"wait", "done"} /\ (NextRound(r, 0) = "wait" => Base(r) < NumSent(r))
  BY <1>2 DEF NextRound
<1>7. \A q \in Sources : Base(q)' = Base(q)
  BY <1>1, <1>2, <1>3, <1>4, <1>5, <1>6 DEF Base, TypeOK
<1>8. \A q : NumSent(q)' = NumSent(q) /\ ChunkSize' = ChunkSize
  BY <1>3, SameInputs
<1>9. \A q \in Sources : Round(q)' = Round(q)
  BY <1>7, <1>8 DEF Round, Smaller
<1>10. QED
  BY <1>2, <1>3, <1>4, <1>5, <1>6, <1>7, <1>9

LEMMA PublishTailInv ==
  ASSUME IInv, NEW r \in Sources, PublishTail(r)
  PROVE  IInv'
<1>1. /\ UNCHANGED <<inputs, head, slot, sendTail, laneVars, reduceVars, trapped>>
      /\ tail' = [tail EXCEPT ![r] = Base(r)]
      /\ sendPc[r][0] = "publish" /\ tail[r] < Base(r)
      /\ \A q \in Sources, v \in SendWarps :
           IF q = r /\ v = 0
             THEN /\ sendPc'[q][v] \in {"wait", "done"}
                  /\ sendPc'[q][v] = "wait" => Base(r) < NumSent(r)
             ELSE sendPc'[q][v] = sendPc[q][v]
      /\ \A q \in Sources : Base(q)' = Base(q) /\ Round(q)' = Round(q)
  BY PublishTailEffect
<1>2. /\ Sources' = Sources /\ SendWarps' = SendWarps /\ QueueSize' = QueueSize
      /\ NumSendWarps' = NumSendWarps /\ sentTo' = sentTo
      /\ \A q : NumSent(q)' = NumSent(q)
      /\ \A q, t : Position(q, t)' = Position(q, t)
  BY <1>1, SameInputs
<1>3. TypeOK /\ SenderInv /\ ReceiverInv /\ ReducedFromItsSources /\ Inputs /\ Sizes
  BY InputsHold DEF IInv, Inputs
<1>4. Base(r) \in 0 .. NumTokens
  BY <1>3, SourceFacts DEF Sizes
<1>5. \A q \in Sources : tail'[q] = IF q = r THEN Base(r) ELSE tail[q]
  BY <1>1, <1>3 DEF TypeOK
<1>6. TypeOK'
  <2>1. NextRound(r, 0) \in {"wait", "copy", "sync", "publish", "done"}
    BY DEF NextRound
  <2>2. sendPc' \in [Sources -> [SendWarps -> {"wait", "copy", "sync", "publish", "done"}]]
    BY <1>3, <2>1 DEF TypeOK, PublishTail
  <2>3. tail' \in [Sources -> 0 .. NumTokens]
    BY <1>1, <1>3, <1>4 DEF TypeOK
  <2>4. QED
    BY <1>1, <1>3, <2>2, <2>3, SenderTypes DEF TypeOK
<1>7. RoundTails'
  <2>1. ASSUME NEW q \in Sources, NEW v \in SendWarps
        PROVE  /\ tail'[q] <= Base(q)' /\ Base(q)' <= NumSent(q)'
               /\ sendPc'[q][0] = "publish" => tail'[q] < Base(q)'
               /\ sendPc'[q][v] = "publish" => v = 0
               /\ sendTail'[q][v] = IF sendPc'[q][v] = "sync" THEN Base(q)' + Round(q)' ELSE Base(q)'
               /\ sendPc'[q][v] \in {"wait", "copy", "sync"} => Base(q)' < NumSent(q)'
               /\ sendPc'[q][v] \in {"copy", "sync"} => Base(q)' - head'[q] <= QueueSize' - Round(q)'
    <3>1. /\ Base(q) \in Nat /\ Base(q) <= NumSent(q) /\ tail[q] <= Base(q) /\ 0 \in SendWarps
      BY SourceFacts
    <3>2. CASE q = r /\ v = 0
      BY <1>1, <1>2, <1>3, <1>5, <3>1, <3>2 DEF SenderInv, RoundTails
    <3>3. CASE ~(q = r /\ v = 0)
      <4>1. sendPc'[q][0] = "publish" => q # r
        BY <1>1, <3>1
      <4>2. QED
        BY <1>1, <1>2, <1>3, <1>5, <3>1, <3>3, <4>1 DEF SenderInv, RoundTails
    <3>4. QED
      BY <3>2, <3>3
  <2>2. \A q \in Sources : 0 \in SendWarps
    BY SourceFacts
  <2>3. QED
    BY <1>2, <2>1, <2>2 DEF RoundTails
<1>8. WithinQueue'
  BY <1>1, <1>2, <1>3 DEF SenderInv, WithinQueue
<1>9. SlotsHold'
  <2> SUFFICES ASSUME NEW q \in Sources, NEW t \in sentTo[q],
                      head[q] <= Position(q, t), Copied(q, Position(q, t))'
               PROVE  Copied(q, Position(q, t))
    BY <1>1, <1>2, <1>3 DEF SenderInv, SlotsHold
  <2>1. Position(q, t) \in Nat /\ Base(q) \in Nat
    BY <1>3, PositionOfSent, SourceFacts
  <2>2. CASE Position(q, t) < Base(q)
    BY <2>2 DEF Copied
  <2>3. CASE ~ Position(q, t) < Base(q)
    <3>1. (Position(q, t) - Base(q)) % NumSendWarps \in SendWarps
      BY <1>3, <2>1, <2>3, WarpsAndSlots
    <3>2. /\ Position(q, t) < Base(q) + Round(q)
          /\ sendPc'[q][(Position(q, t) - Base(q)) % NumSendWarps] = "sync"
      BY <1>1, <1>2, <2>3 DEF Copied
    <3>3. sendPc[q][(Position(q, t) - Base(q)) % NumSendWarps] = "sync"
      BY <1>1, <3>1, <3>2
    <3>4. QED
      BY <3>2, <3>3 DEF Copied
  <2>4. QED
    BY <2>2, <2>3
<1>10. ReceiverInv' /\ ReducedFromItsSources'
  <2>1. \A q \in Sources : tail'[q] \in Int /\ tail[q] <= tail'[q]
    BY <1>1, <1>3, <1>4, <1>5 DEF TypeOK
  <2>2. QED
    BY <1>1, <1>3, <2>1, SenderKeepsReceiver
<1>11. QED
  BY <1>6, <1>7, <1>8, <1>9, <1>10 DEF IInv, SenderInv

-----------------------------------------------------------------------------
(* Steps of warp 0 of the receiver.                                        *)

\* Heads may grow: what the sources rely on only becomes easier.
LEMMA ReceiverKeepsSender ==
  ASSUME IInv, UNCHANGED <<inputs, tail, slot, sendVars>>,
         \A r \in Sources : head'[r] \in Int /\ head[r] <= head'[r]
  PROVE  SenderInv'
<1>1. /\ Sources' = Sources /\ SendWarps' = SendWarps /\ QueueSize' = QueueSize
      /\ NumSendWarps' = NumSendWarps /\ sentTo' = sentTo
      /\ sendPc' = sendPc /\ sendTail' = sendTail /\ tail' = tail /\ slot' = slot
      /\ \A q : NumSent(q)' = NumSent(q)
      /\ \A q, t : Position(q, t)' = Position(q, t)
  BY SameInputs DEF sendVars
<1>2. SenderInv /\ Inputs /\ QueueSize \in Nat
  BY InputsHold DEF IInv, Inputs, Sizes
<1>3. \A q \in Sources : Base(q)' = Base(q) /\ Round(q)' = Round(q)
  BY <1>1, SameBase
<1>4. ASSUME NEW q \in Sources
      PROVE  /\ Base(q) \in Nat /\ Round(q) \in Nat /\ head[q] \in Nat
             /\ head'[q] \in Int /\ head[q] <= head'[q]
  BY SourceFacts
<1>5. RoundTails'
  <2>1. ASSUME NEW q \in Sources, Base(q) - head[q] <= QueueSize - Round(q)
        PROVE  Base(q) - head'[q] <= QueueSize - Round(q)
    BY <1>2, <1>4, <2>1
  <2>2. QED
    BY <1>1, <1>2, <1>3, <2>1 DEF SenderInv, RoundTails
<1>6. WithinQueue'
  <2>1. \A q \in Sources : Base(q) - head'[q] <= QueueSize
    BY <1>2, <1>4 DEF SenderInv, WithinQueue
  <2>2. QED
    BY <1>1, <1>3, <2>1 DEF WithinQueue
<1>7. SlotsHold'
  <2>1. ASSUME NEW q \in Sources, NEW t \in sentTo[q], head'[q] <= Position(q, t)
        PROVE  head[q] <= Position(q, t)
    BY <1>2, <1>4, <2>1, PositionOfSent
  <2>2. \A q \in Sources : \A t : Copied(q, Position(q, t))' <=> Copied(q, Position(q, t))
    BY <1>1, <1>3 DEF Copied
  <2>3. QED
    BY <1>1, <1>2, <2>1, <2>2 DEF SenderInv, SlotsHold
<1>8. QED
  BY <1>5, <1>6, <1>7 DEF SenderInv

\* A step of a lane disturbs only its own scan, head and tail.
LEMMA LaneKeepsRest ==
  ASSUME IInv, UNCHANGED <<inputs, tail, slot, sendVars, reduceVars, trapped>>,
         \A r \in Sources : head[r] <= head'[r],
         head' \in [Sources -> 0 .. LargeHead],
         lanePc' \in [Sources -> {"check", "scan", "done"}],
         scan' \in [Sources -> 0 .. NumReduceWarps],
         minHead' \in [Sources -> 0 .. IntMax],
         sharedTail' \in [Sources -> 0 .. NumTokens],
         \A r \in Sources : sharedTail'[r] <= tail[r],
         \A r \in Sources : \A t \in sentTo[r] : Pending(t) => head'[r] <= Position(r, t),
         \A r \in Sources : \A t \in sentTo[r] :
           lanePc'[r] = "scan" /\ Pending(t) /\ t % NumReduceWarps < scan'[r]
             => minHead'[r] <= Position(r, t)
  PROVE  IInv'
<1>1. /\ Sources' = Sources /\ Tokens' = Tokens /\ Slots' = Slots
      /\ SendWarps' = SendWarps /\ ReduceWarps' = ReduceWarps
      /\ NumTokens' = NumTokens /\ NumReduceWarps' = NumReduceWarps
      /\ sentTo' = sentTo /\ config' = config
      /\ \A q, t : Position(q, t)' = Position(q, t)
  BY SameInputs
<1>2. \A t : Pending(t)' = Pending(t)
  BY <1>1 DEF Pending, reduceVars
<1>3. TypeOK /\ ReceiverInv /\ ReducedFromItsSources
  BY DEF IInv
<1>4. SenderInv'
  <2>1. \A r \in Sources : head'[r] \in Int
    OBVIOUS
  <2>2. QED
    BY <2>1, ReceiverKeepsSender
<1>5. TypeOK'
  BY <1>1, <1>3 DEF TypeOK, sendVars, reduceVars
<1>6. WarpTurns' /\ WarpHeads' /\ SlotsArrived' /\ ReducedArrived'
  BY <1>1, <1>2, <1>3 DEF ReceiverInv, WarpTurns, WarpHeads, SlotsArrived, ReducedArrived, reduceVars
<1>7. TailsSeen' /\ HeadsBehind' /\ Scanned'
  BY <1>1, <1>2 DEF TailsSeen, HeadsBehind, Scanned
<1>8. ReducedFromItsSources'
  BY <1>1, <1>2, <1>3 DEF ReducedFromItsSources, reduceVars
<1>9. QED
  BY <1>4, <1>5, <1>6, <1>7, <1>8 DEF IInv, ReceiverInv

LEMMA LaneRetiresInv ==
  ASSUME IInv, NEW r \in Sources, LaneRetires(r)
  PROVE  IInv'
<1>1. TypeOK /\ ReceiverInv
  BY DEF IInv
<1>2. /\ UNCHANGED <<inputs, head, tail, slot, sendVars, scan, minHead, sharedTail, reduceVars, trapped>>
      /\ lanePc' = [lanePc EXCEPT ![r] = "done"]
  BY DEF LaneRetires, queueVars
<1>3. \A q \in Sources : lanePc'[q] = "scan" => lanePc[q] = "scan"
  BY <1>1, <1>2 DEF TypeOK
<1>4. \A q \in Sources : head[q] <= head'[q]
  BY <1>1, <1>2 DEF TypeOK
<1>5. lanePc' \in [Sources -> {"check", "scan", "done"}]
  BY <1>1, <1>2 DEF TypeOK
<1>6. \A q \in Sources : \A t \in sentTo[q] :
        lanePc'[q] = "scan" /\ Pending(t) /\ t % NumReduceWarps < scan'[q]
          => minHead'[q] <= Position(q, t)
  BY <1>1, <1>2, <1>3 DEF ReceiverInv, Scanned
<1>7. \A q \in Sources : sharedTail'[q] <= tail[q]
  BY <1>1, <1>2 DEF ReceiverInv, TailsSeen
<1>8. \A q \in Sources : \A t \in sentTo[q] : Pending(t) => head'[q] <= Position(q, t)
  BY <1>1, <1>2 DEF ReceiverInv, HeadsBehind
<1>9. /\ head' \in [Sources -> 0 .. LargeHead] /\ scan' \in [Sources -> 0 .. NumReduceWarps]
      /\ minHead' \in [Sources -> 0 .. IntMax] /\ sharedTail' \in [Sources -> 0 .. NumTokens]
  BY <1>1, <1>2 DEF TypeOK
<1>10. QED
  BY <1>2, <1>4, <1>5, <1>6, <1>7, <1>8, <1>9, LaneKeepsRest

LEMMA LoadTailInv ==
  ASSUME IInv, NEW r \in Sources, LoadTail(r)
  PROVE  IInv'
<1>1. TypeOK /\ ReceiverInv /\ Sizes
  BY InputsHold DEF IInv, Inputs
<1>2. /\ UNCHANGED <<inputs, head, tail, slot, sendVars, reduceVars, trapped>>
      /\ sharedTail' = [sharedTail EXCEPT ![r] = tail[r]]
      /\ scan' = [scan EXCEPT ![r] = 0]
      /\ minHead' = [minHead EXCEPT ![r] = IntMax]
      /\ lanePc' = [lanePc EXCEPT ![r] = "scan"]
  BY DEF LoadTail, queueVars
<1>3. \A q \in Sources : head[q] <= head'[q]
  BY <1>1, <1>2 DEF TypeOK
<1>4. lanePc' \in [Sources -> {"check", "scan", "done"}]
  BY <1>1, <1>2 DEF TypeOK
<1>5. \A q \in Sources : \A t \in sentTo[q] :
        lanePc'[q] = "scan" /\ Pending(t) /\ t % NumReduceWarps < scan'[q]
          => minHead'[q] <= Position(q, t)
  <2> SUFFICES ASSUME NEW q \in Sources, NEW t \in sentTo[q],
                      lanePc'[q] = "scan", Pending(t), t % NumReduceWarps < scan'[q]
               PROVE  minHead'[q] <= Position(q, t)
    OBVIOUS
  <2>1. t \in Tokens
    BY InputsHold, PositionOfSent DEF IInv
  <2>2. t % NumReduceWarps \in Nat
    BY <1>1, <2>1, WarpsAndSlots
  <2>3. q # r
    BY <1>1, <1>2, <2>2 DEF TypeOK
  <2>4. lanePc[q] = "scan" /\ scan'[q] = scan[q] /\ minHead'[q] = minHead[q]
    BY <1>1, <1>2, <2>3 DEF TypeOK
  <2>5. QED
    BY <1>1, <2>4 DEF ReceiverInv, Scanned
<1>6. \A q \in Sources : sharedTail'[q] <= tail[q]
  BY <1>1, <1>2 DEF ReceiverInv, TailsSeen, TypeOK
<1>7. \A q \in Sources : \A t \in sentTo[q] : Pending(t) => head'[q] <= Position(q, t)
  BY <1>1, <1>2 DEF ReceiverInv, HeadsBehind
<1>8. 0 \in 0 .. NumReduceWarps /\ IntMax \in 0 .. IntMax
  BY <1>1 DEF Sizes, IntMax
<1>9. /\ head' \in [Sources -> 0 .. LargeHead] /\ scan' \in [Sources -> 0 .. NumReduceWarps]
      /\ minHead' \in [Sources -> 0 .. IntMax] /\ sharedTail' \in [Sources -> 0 .. NumTokens]
  BY <1>1, <1>2, <1>8 DEF TypeOK
<1>10. QED
  BY <1>2, <1>3, <1>4, <1>5, <1>6, <1>7, <1>9, LaneKeepsRest

\* The minimum takes in the head of one warp more.  A warp that has retired has
\* no token left.
LEMMA ScanWarpInv ==
  ASSUME IInv, NEW r \in Sources, ScanWarp(r)
  PROVE  IInv'
<1> DEFINE w == scan[r]
<1>1. TypeOK /\ ReceiverInv /\ Sizes /\ Inputs
  BY InputsHold DEF IInv, Inputs
<1>2. UNCHANGED <<inputs, head, tail, slot, sendVars, lanePc, sharedTail, reduceVars, trapped>>
  BY DEF ScanWarp, queueVars
<1>3. lanePc[r] = "scan" /\ w \in ReduceWarps /\ w + 1 \in 0 .. NumReduceWarps
  <2>1. lanePc[r] = "scan" /\ scan[r] < NumReduceWarps
    BY DEF ScanWarp
  <2>2. scan[r] \in 0 .. NumReduceWarps /\ NumReduceWarps \in Nat
    BY <1>1 DEF TypeOK, Sizes
  <2>3. QED
    BY <2>1, <2>2 DEF ReduceWarps
<1>4. /\ minHead[r] \in 0 .. IntMax /\ warpHead[w][r] \in 0 .. LargeHead
      /\ LargeHead \in Nat /\ IntMax = LargeHead + 1
  BY <1>1, <1>3 DEF TypeOK, Sizes, IntMax
<1>5. MinOver(r, w) \in 0 .. IntMax /\ MinOver(r, w) <= minHead[r] /\ MinOver(r, w) <= warpHead[w][r]
  BY <1>4 DEF MinOver, Smaller
<1>6. /\ scan' = [scan EXCEPT ![r] = w + 1]
      /\ minHead' = IF retired[w] THEN minHead ELSE [minHead EXCEPT ![r] = MinOver(r, w)]
  BY DEF ScanWarp
<1> HIDE DEF w
<1>7. /\ minHead' \in [Sources -> 0 .. IntMax] /\ scan' \in [Sources -> 0 .. NumReduceWarps]
      /\ minHead'[r] <= minHead[r] /\ (~retired[w] => minHead'[r] <= warpHead[w][r])
      /\ scan'[r] = w + 1
      /\ \A q \in Sources : q # r => minHead'[q] = minHead[q] /\ scan'[q] = scan[q]
  BY <1>1, <1>3, <1>4, <1>5, <1>6 DEF TypeOK
<1>8. ASSUME NEW q \in Sources, NEW t \in sentTo[q],
             lanePc'[q] = "scan", Pending(t), t % NumReduceWarps < scan'[q]
      PROVE  minHead'[q] <= Position(q, t)
  <2>1. /\ t \in Tokens /\ Position(q, t) \in Nat /\ t % NumReduceWarps \in Nat
        /\ t % NumReduceWarps \in ReduceWarps
    BY <1>1, PositionOfSent, WarpsAndSlots
  <2>2. lanePc[q] = "scan"
    BY <1>2, <1>8
  <2>3. CASE q # r
    BY <1>1, <1>7, <1>8, <2>2, <2>3 DEF ReceiverInv, Scanned
  <2>4. CASE q = r /\ t % NumReduceWarps < w
    <3>1. minHead[q] <= Position(q, t)
      BY <1>1, <1>8, <2>2, <2>4 DEF ReceiverInv, Scanned, w
    <3>2. minHead'[r] \in Int /\ minHead[r] \in Int
      BY <1>4, <1>7
    <3>3. QED
      BY <1>7, <2>1, <2>4, <3>1, <3>2
  <2>5. CASE q = r /\ t % NumReduceWarps = w
    <3>1. ~ retired[w]
      <4>1. token[w] <= t /\ token[w] \in Nat
        BY <1>1, <1>3, <1>8, <2>5 DEF Pending, TypeOK
      <4>2. t < NumTokens /\ t \in Nat /\ NumTokens \in Nat
        BY <1>1, <2>1 DEF Tokens, Sizes
      <4>3. retired[w] => token[w] >= NumTokens
        BY <1>1, <1>3 DEF ReceiverInv, WarpTurns
      <4>4. QED
        BY <4>1, <4>2, <4>3
    <3>2. warpHead[w][r] <= Position(r, t)
      BY <1>1, <1>8, <2>5 DEF ReceiverInv, WarpHeads
    <3>3. minHead'[r] \in Int /\ warpHead[w][r] \in Int
      BY <1>4, <1>7
    <3>4. QED
      BY <1>7, <2>1, <2>5, <3>1, <3>2, <3>3
  <2>6. w \in Nat
    BY <1>1, <1>3, WarpsAndSlots
  <2>7. t % NumReduceWarps < w \/ t % NumReduceWarps = w \/ q # r
    BY <1>7, <1>8, <2>1, <2>6
  <2>8. QED
    BY <2>3, <2>4, <2>5, <2>7
<1>9. \A q \in Sources : head[q] <= head'[q]
  BY <1>1, <1>2 DEF TypeOK
<1>10. \A q \in Sources : sharedTail'[q] <= tail[q]
  BY <1>1, <1>2 DEF ReceiverInv, TailsSeen
<1>11. \A q \in Sources : \A t \in sentTo[q] : Pending(t) => head'[q] <= Position(q, t)
  BY <1>1, <1>2 DEF ReceiverInv, HeadsBehind
<1>12. /\ head' \in [Sources -> 0 .. LargeHead] /\ lanePc' \in [Sources -> {"check", "scan", "done"}]
       /\ sharedTail' \in [Sources -> 0 .. NumTokens]
  BY <1>1, <1>2 DEF TypeOK
<1>13. QED
  BY <1>2, <1>7, <1>8, <1>9, <1>10, <1>11, <1>12, LaneKeepsRest

\* All warps have been scanned: the minimum is behind every token still to be
\* reduced, so it may become the head.
LEMMA StoreHeadInv ==
  ASSUME IInv, NEW r \in Sources, StoreHead(r)
  PROVE  IInv'
<1>1. TypeOK /\ ReceiverInv /\ Sizes /\ Inputs
  BY InputsHold DEF IInv, Inputs
<1>2. /\ UNCHANGED <<inputs, tail, slot, sendVars, scan, minHead, sharedTail, reduceVars, trapped>>
      /\ lanePc[r] = "scan" /\ scan[r] = NumReduceWarps
      /\ lanePc' = [lanePc EXCEPT ![r] = "check"]
      /\ head' = IF minHead[r] # IntMax /\ minHead[r] > head[r]
                 THEN [head EXCEPT ![r] = minHead[r]] ELSE head
  BY DEF StoreHead
<1>3. ASSUME NEW t \in sentTo[r], Pending(t) PROVE minHead[r] <= Position(r, t)
  <2>1. t \in Nat
    BY <1>1, PositionOfSent, WarpsAndSlots
  <2>2. t % NumReduceWarps < NumReduceWarps
    BY <1>1, <2>1 DEF Sizes
  <2>3. QED
    BY <1>1, <1>2, <1>3, <2>2 DEF ReceiverInv, Scanned
<1>4. minHead[r] \in 0 .. IntMax /\ IntMax = LargeHead + 1 /\ LargeHead \in Nat /\ head[r] \in Nat
  BY <1>1 DEF TypeOK, Sizes, IntMax
<1>5. /\ head' \in [Sources -> 0 .. LargeHead]
      /\ \A q \in Sources : q # r => head'[q] = head[q]
      /\ head'[r] = head[r] \/ (head[r] <= minHead[r] /\ head'[r] = minHead[r])
  <2>1. head \in [Sources -> 0 .. LargeHead]
    BY <1>1 DEF TypeOK
  <2>2. CASE minHead[r] # IntMax /\ minHead[r] > head[r]
    <3>1. head' = [head EXCEPT ![r] = minHead[r]] /\ minHead[r] \in 0 .. LargeHead
      BY <1>2, <1>4, <2>2
    <3>2. QED
      BY <1>4, <2>1, <2>2, <3>1
  <2>3. CASE ~(minHead[r] # IntMax /\ minHead[r] > head[r])
    BY <1>2, <2>1, <2>3
  <2>4. QED
    BY <2>2, <2>3
<1>6. /\ lanePc' \in [Sources -> {"check", "scan", "done"}]
       /\ \A q \in Sources : lanePc'[q] = "scan" => lanePc[q] = "scan"
  BY <1>1, <1>2 DEF TypeOK
<1>7. \A q \in Sources : head[q] <= head'[q]
  <2>1. \A q \in Sources : head[q] \in Nat
    BY <1>1 DEF TypeOK, Sizes
  <2>2. QED
    BY <1>4, <1>5, <2>1
<1>8. \A q \in Sources : \A t \in sentTo[q] : Pending(t) => head'[q] <= Position(q, t)
  BY <1>1, <1>3, <1>5 DEF ReceiverInv, HeadsBehind
<1>9. \A q \in Sources : \A t \in sentTo[q] :
        lanePc'[q] = "scan" /\ Pending(t) /\ t % NumReduceWarps < scan'[q]
          => minHead'[q] <= Position(q, t)
  BY <1>1, <1>2, <1>6 DEF ReceiverInv, Scanned
<1>10. \A q \in Sources : sharedTail'[q] <= tail[q]
  BY <1>1, <1>2 DEF ReceiverInv, TailsSeen
<1>11. /\ scan' \in [Sources -> 0 .. NumReduceWarps]
       /\ minHead' \in [Sources -> 0 .. IntMax] /\ sharedTail' \in [Sources -> 0 .. NumTokens]
  BY <1>1, <1>2 DEF TypeOK
<1>12. QED
  BY <1>2, <1>5, <1>6, <1>7, <1>8, <1>9, <1>10, <1>11, LaneKeepsRest

-----------------------------------------------------------------------------
(* Steps of the reduce warps.                                              *)

LEMMA SourcesOfToken ==
  ASSUME Inputs, NEW w \in ReduceWarps, token[w] \in Tokens
  PROVE  SourcesOf(w) = {r \in Sources : token[w] \in sentTo[r]}
BY EntryOf DEF SourcesOf

\* A step that finishes no token keeps everything but the types.
LEMMA ReduceKeepsRest ==
  ASSUME IInv, UNCHANGED <<inputs, queueVars, sendVars, laneVars, token, warpHead, reduced>>,
         WarpTurns', SlotsArrived'
  PROVE  SenderInv' /\ ReceiverInv' /\ ReducedFromItsSources'
<1>1. /\ Sources' = Sources /\ Tokens' = Tokens /\ NumReduceWarps' = NumReduceWarps
      /\ sentTo' = sentTo
      /\ \A q, t : Position(q, t)' = Position(q, t)
  BY SameInputs
<1>2. \A t : Pending(t)' = Pending(t)
  BY <1>1 DEF Pending
<1>3. TypeOK /\ ReceiverInv /\ ReducedFromItsSources
  BY DEF IInv
<1>4. SenderInv'
  <2>1. \A r \in Sources : head'[r] \in Int /\ head[r] <= head'[r]
    BY <1>3 DEF TypeOK, queueVars
  <2>2. QED
    BY <2>1, ReceiverKeepsSender DEF queueVars
<1>5. WarpHeads' /\ Scanned' /\ HeadsBehind' /\ TailsSeen' /\ ReducedArrived'
  BY <1>1, <1>2, <1>3 DEF ReceiverInv, WarpHeads, Scanned, HeadsBehind, TailsSeen, ReducedArrived,
                          queueVars, laneVars
<1>6. ReducedFromItsSources'
  BY <1>1, <1>2, <1>3 DEF ReducedFromItsSources
<1>7. QED
  BY <1>4, <1>5, <1>6 DEF ReceiverInv

LEMMA WaitForSourcesInv ==
  ASSUME IInv, NEW w \in ReduceWarps, WaitForSources(w)
  PROVE  IInv'
<1>1. TypeOK /\ ReceiverInv /\ Inputs
  BY InputsHold DEF IInv
<1>2. /\ Sources' = Sources /\ ReduceWarps' = ReduceWarps /\ NumTokens' = NumTokens
      /\ NumReduceWarps' = NumReduceWarps /\ sentTo' = sentTo
      /\ \A q, t : Position(q, t)' = Position(q, t)
  BY SameInputs DEF WaitForSources
<1>3. \A v \in ReduceWarps :
        IF v = w THEN reducePc[v] = "wait" /\ reducePc'[v] \in {"lse", "reduce"}
                 ELSE reducePc'[v] = reducePc[v]
  BY <1>1 DEF WaitForSources, TypeOK
<1>4. /\ UNCHANGED <<inputs, queueVars, sendVars, laneVars, token, warpHead, reduced>>
      /\ token' = token /\ retired' = retired /\ tail' = tail
  BY DEF WaitForSources, queueVars
<1>5. WarpTurns'
  BY <1>1, <1>2, <1>3, <1>4 DEF ReceiverInv, WarpTurns
<1>6. token[w] \in Tokens
  <2>1. token[w] \in Nat
    BY <1>1 DEF TypeOK
  <2>2. token[w] < NumTokens
    BY <1>1, <1>3 DEF ReceiverInv, WarpTurns
  <2>3. NumTokens \in Nat
    BY <1>1 DEF Inputs, Sizes
  <2>4. QED
    BY <2>1, <2>2, <2>3 DEF Tokens
<1>7. ASSUME NEW r \in Sources, token[w] \in sentTo[r]
      PROVE  Position(r, token[w]) < tail[r]
  <2>1. sharedTail[r] > Position(r, token[w])
    <3>1. r \in SourcesOf(w)
      BY <1>1, <1>6, <1>7, SourcesOfToken
    <3>2. Arrived(w, r)
      BY <3>1 DEF WaitForSources
    <3>3. QED
      BY <1>1, <1>6, <1>7, <3>2, EntryOf DEF Arrived
  <2>2. sharedTail[r] <= tail[r] /\ sharedTail[r] \in Int /\ tail[r] \in Int
    BY <1>1 DEF ReceiverInv, TailsSeen, TypeOK
  <2>3. Position(r, token[w]) \in Nat
    BY <1>1, PositionType
  <2>4. QED
    BY <2>1, <2>2, <2>3
<1>8. SlotsArrived'
  BY <1>1, <1>2, <1>3, <1>4, <1>7 DEF ReceiverInv, SlotsArrived
<1>9. TypeOK'
  <2>1. reducePc' \in [ReduceWarps -> {"wait", "lse", "reduce", "retire", "done"}]
    BY <1>1 DEF WaitForSources, TypeOK
  <2>2. QED
    BY <1>1, <2>1, SameInputs DEF WaitForSources, TypeOK, queueVars, sendVars, laneVars
<1>10. QED
  BY <1>4, <1>5, <1>8, <1>9, ReduceKeepsRest DEF IInv

LEMMA ReadLseInv ==
  ASSUME IInv, NEW w \in ReduceWarps, ReadLse(w)
  PROVE  IInv'
<1>1. TypeOK /\ ReceiverInv /\ Inputs /\ Sizes
  BY InputsHold DEF IInv, Inputs
<1>2. /\ Sources' = Sources /\ ReduceWarps' = ReduceWarps /\ NumTokens' = NumTokens
      /\ NumReduceWarps' = NumReduceWarps /\ sentTo' = sentTo
      /\ \A q, t : Position(q, t)' = Position(q, t)
  BY SameInputs DEF ReadLse
<1>3. PICK seen \in [SourcesOf(w) -> Tokens \cup {None}] :
        /\ lse' = [lse EXCEPT ![w] = [r \in Sources |-> IF r \in SourcesOf(w) THEN seen[r] ELSE None]]
        /\ cache' = [r \in Sources |-> IF r \in SourcesOf(w)
                                       THEN [cache[r] EXCEPT ![SlotOf(w, r)] = seen[r]] ELSE cache[r]]
  BY DEF ReadLse
<1>4. \A v \in ReduceWarps :
        IF v = w THEN reducePc[v] = "lse" /\ reducePc'[v] = "reduce"
                 ELSE reducePc'[v] = reducePc[v]
  BY <1>1 DEF ReadLse, TypeOK
<1>5. /\ UNCHANGED <<inputs, queueVars, sendVars, laneVars, token, warpHead, reduced, retired, trapped>>
      /\ token' = token /\ retired' = retired /\ tail' = tail
  BY DEF ReadLse, queueVars
<1>6. WarpTurns' /\ SlotsArrived'
  BY <1>1, <1>2, <1>4, <1>5 DEF ReceiverInv, WarpTurns, SlotsArrived
<1>7. TypeOK'
  <2>1. reducePc' \in [ReduceWarps -> {"wait", "lse", "reduce", "retire", "done"}]
    BY <1>1 DEF ReadLse, TypeOK
  <2>2. [r \in Sources |-> IF r \in SourcesOf(w) THEN seen[r] ELSE None]
          \in [Sources -> Tokens \cup {None}]
    OBVIOUS
  <2>3. lse' \in [ReduceWarps -> [Sources -> Tokens \cup {None}]]
    BY <1>1, <1>3, <2>2 DEF TypeOK
  <2>4. cache' \in [Sources -> [Slots -> Tokens \cup {None}]]
    <3>1. \A r \in Sources : cache[r] \in [Slots -> Tokens \cup {None}]
      BY <1>1 DEF TypeOK
    <3>2. \A r \in SourcesOf(w) : [cache[r] EXCEPT ![SlotOf(w, r)] = seen[r]] \in [Slots -> Tokens \cup {None}]
      BY <3>1 DEF SourcesOf
    <3>3. QED
      BY <1>3, <3>1, <3>2
  <2>5. QED
    BY <1>1, <1>5, <2>1, <2>3, <2>4, SameInputs DEF TypeOK, queueVars, sendVars, laneVars
<1>8. QED
  BY <1>5, <1>6, <1>7, ReduceKeepsRest DEF IInv

LEMMA RetireInv ==
  ASSUME IInv, NEW w \in ReduceWarps, Retire(w)
  PROVE  IInv'
<1>1. TypeOK /\ ReceiverInv
  BY DEF IInv
<1>2. /\ Sources' = Sources /\ ReduceWarps' = ReduceWarps /\ NumTokens' = NumTokens
      /\ NumReduceWarps' = NumReduceWarps /\ sentTo' = sentTo
      /\ \A q, t : Position(q, t)' = Position(q, t)
  BY SameInputs DEF Retire
<1>3. \A v \in ReduceWarps :
        IF v = w THEN reducePc[v] = "retire" /\ reducePc'[v] = "done" /\ retired'[v]
                 ELSE reducePc'[v] = reducePc[v] /\ retired'[v] = retired[v]
  BY <1>1 DEF Retire, TypeOK
<1>4. /\ UNCHANGED <<inputs, queueVars, sendVars, laneVars, token, warpHead, reduced>>
      /\ token' = token /\ tail' = tail
  BY DEF Retire, queueVars
<1>5. WarpTurns' /\ SlotsArrived'
  BY <1>1, <1>2, <1>3, <1>4 DEF ReceiverInv, WarpTurns, SlotsArrived
<1>6. TypeOK'
  <2>1. /\ reducePc' \in [ReduceWarps -> {"wait", "lse", "reduce", "retire", "done"}]
        /\ retired' \in [ReduceWarps -> BOOLEAN]
    BY <1>1 DEF Retire, TypeOK
  <2>2. QED
    BY <1>1, <2>1, SameInputs DEF Retire, TypeOK, queueVars, sendVars, laneVars
<1>7. QED
  BY <1>4, <1>5, <1>6, ReduceKeepsRest DEF IInv

\* The warp finishes exactly its token: the next one of its own is
\* NumReduceWarps further on.
LEMMA PendingAfter ==
  ASSUME IInv, NEW w \in ReduceWarps, Reduce(w)
  PROVE  /\ token[w] \in Tokens /\ Pending(token[w])
         /\ \A t \in Tokens : Pending(t)' <=> Pending(t) /\ t # token[w]
<1>1. TypeOK /\ WarpTurns /\ Sizes
  BY InputsHold DEF IInv, Inputs, ReceiverInv
<1>2. /\ token[w] \in Nat /\ token[w] < NumTokens /\ token[w] % NumReduceWarps = w
      /\ NumTokens \in Nat /\ NumReduceWarps \in Nat \ {0}
  BY <1>1 DEF Reduce, WarpTurns, TypeOK, Sizes
<1>3. token[w] \in Tokens /\ Pending(token[w])
  BY <1>2 DEF Tokens, Pending
<1>4. NumReduceWarps' = NumReduceWarps
  BY SameInputs DEF Reduce
<1>5. ASSUME NEW t \in Tokens PROVE Pending(t)' <=> Pending(t) /\ t # token[w]
  <2>1. t \in Nat /\ t % NumReduceWarps \in ReduceWarps
    BY <1>1, WarpsAndSlots
  <2>2. CASE t % NumReduceWarps # w
    <3>1. token'[t % NumReduceWarps] = token[t % NumReduceWarps]
      BY <1>1, <2>1, <2>2 DEF Reduce, TypeOK
    <3>2. QED
      BY <1>2, <1>4, <2>2, <3>1 DEF Pending
  <2>3. CASE t % NumReduceWarps = w
    <3>1. token'[w] = token[w] + NumReduceWarps
      BY <1>1 DEF Reduce, TypeOK
    <3>2. (Pending(t)' <=> token[w] + NumReduceWarps <= t) /\ (Pending(t) <=> token[w] <= t)
      BY <1>4, <2>3, <3>1 DEF Pending
    <3>3. token[w] <= t /\ t < token[w] + NumReduceWarps => t = token[w]
      BY <1>2, <2>1, <2>3, SameTurn
    <3>4. QED
      BY <1>2, <2>1, <3>2, <3>3
  <2>4. QED
    BY <2>2, <2>3
<1>6. QED
  BY <1>3, <1>5

\* What is reduced: from each source of the token, the token itself.
LEMMA ReducedPairs ==
  ASSUME IInv, NEW w \in ReduceWarps, Reduce(w)
  PROVE  /\ reduced' \in [Tokens -> SUBSET (Sources \X (Tokens \cup {None}) \X (Tokens \cup {None}))]
         /\ {<<e[1], e[2]>> : e \in reduced'[token[w]]} =
              {<<r, token[w]>> : r \in {q \in Sources : token[w] \in sentTo[q]}}
         /\ \A t \in Tokens : t # token[w] => reduced'[t] = reduced[t]
<1> DEFINE u == token[w]
           new == {<<r, slot[r][SlotOf(w, r)], lse[w][r]>> : r \in SourcesOf(w)}
<1>1. TypeOK /\ Inputs /\ Sizes
  BY InputsHold DEF IInv, Inputs
<1>2. u \in Tokens /\ Pending(u)
  BY PendingAfter
<1>3. reduced' = [reduced EXCEPT ![u] = reduced[u] \cup new]
  BY <1>1, <1>2 DEF Reduce, TypeOK
<1>4. reduced[u] = {}
  <2>1. {<<e[1], e[2]>> : e \in reduced[u]} = {}
    BY <1>2 DEF IInv, ReducedFromItsSources
  <2>2. QED
    BY <2>1
<1>5. SourcesOf(w) = {q \in Sources : u \in sentTo[q]}
  BY <1>1, <1>2, SourcesOfToken
<1>6. ASSUME NEW r \in SourcesOf(w)
      PROVE  slot[r][SlotOf(w, r)] = u
  <2>1. r \in Sources /\ u \in sentTo[r]
    BY <1>5
  <2>2. SlotOf(w, r) = Position(r, u) % QueueSize
    BY <1>1, <1>2, <2>1, EntryOf DEF SlotOf
  <2>3. Position(r, u) < tail[r]
    BY <2>1 DEF Reduce, IInv, ReceiverInv, SlotsArrived
  <2>4. head[r] <= Position(r, u)
    BY <1>2, <2>1 DEF IInv, ReceiverInv, HeadsBehind
  <2>5. Position(r, u) < Base(r)
    <3>1. tail[r] <= Base(r) /\ tail[r] \in Nat /\ Base(r) \in Nat /\ Position(r, u) \in Nat
      BY <1>1, <2>1, SourceFacts, PositionType
    <3>2. QED
      BY <2>3, <3>1
  <2>6. QED
    BY <2>1, <2>2, <2>4, <2>5 DEF IInv, SenderInv, SlotsHold, Copied
<1>7. \A r \in SourcesOf(w) : r \in Sources /\ lse[w][r] \in Tokens \cup {None}
  BY <1>1 DEF SourcesOf, TypeOK
<1> HIDE DEF u
<1>8. new \in SUBSET (Sources \X (Tokens \cup {None}) \X (Tokens \cup {None}))
  BY <1>2, <1>6, <1>7
<1>9. reduced'[u] = new
  BY <1>1, <1>2, <1>3, <1>4 DEF TypeOK
<1>10. {<<e[1], e[2]>> : e \in new} = {<<r, u>> : r \in SourcesOf(w)}
  <2> DEFINE entry(r) == <<r, slot[r][SlotOf(w, r)], lse[w][r]>>
  <2>1. \A r \in SourcesOf(w) : <<entry(r)[1], entry(r)[2]>> = <<r, u>>
    BY <1>6
  <2>2. new = {entry(r) : r \in SourcesOf(w)}
    OBVIOUS
  <2> HIDE DEF entry, new
  <2>3. \A r \in SourcesOf(w) : entry(r) \in new
    BY <2>2
  <2>4. \A e \in new : \E r \in SourcesOf(w) : e = entry(r)
    BY <2>2
  <2>5. ASSUME NEW x PROVE x \in {<<e[1], e[2]>> : e \in new} <=> x \in {<<r, u>> : r \in SourcesOf(w)}
    <3>1. ASSUME x \in {<<e[1], e[2]>> : e \in new} PROVE x \in {<<r, u>> : r \in SourcesOf(w)}
      <4>1. PICK e \in new : x = <<e[1], e[2]>>
        BY <3>1
      <4>2. PICK r \in SourcesOf(w) : e = entry(r)
        BY <2>4
      <4>3. x = <<r, u>>
        BY <2>1, <4>1, <4>2
      <4>4. QED
        BY <4>3
    <3>2. ASSUME x \in {<<r, u>> : r \in SourcesOf(w)} PROVE x \in {<<e[1], e[2]>> : e \in new}
      <4>1. PICK r \in SourcesOf(w) : x = <<r, u>>
        BY <3>2
      <4>2. entry(r) \in new /\ x = <<entry(r)[1], entry(r)[2]>>
        BY <2>1, <2>3, <4>1
      <4>3. QED
        BY <4>2
    <3>3. QED
      BY <3>1, <3>2
  <2>6. QED
    BY <2>5
<1> HIDE DEF new
<1>11. \A t \in Tokens : t # u => reduced'[t] = reduced[t]
  BY <1>1, <1>3 DEF TypeOK
<1>12. reduced' \in [Tokens -> SUBSET (Sources \X (Tokens \cup {None}) \X (Tokens \cup {None}))]
  BY <1>1, <1>2, <1>3, <1>4, <1>8 DEF TypeOK
<1>13. QED
  BY <1>5, <1>9, <1>10, <1>11, <1>12 DEF u

LEMMA ReduceInv ==
  ASSUME IInv, NEW w \in ReduceWarps, Reduce(w)
  PROVE  IInv'
<1> DEFINE u == token[w]
<1>1. TypeOK /\ ReceiverInv /\ Inputs /\ Sizes /\ ReducedFromItsSources
  BY InputsHold DEF IInv, Inputs
<1>2. /\ Sources' = Sources /\ Tokens' = Tokens /\ Slots' = Slots
      /\ SendWarps' = SendWarps /\ ReduceWarps' = ReduceWarps
      /\ NumTokens' = NumTokens /\ NumReduceWarps' = NumReduceWarps
      /\ sentTo' = sentTo /\ config' = config
      /\ \A q, t : Position(q, t)' = Position(q, t)
  BY SameInputs DEF Reduce
<1>3. /\ u \in Tokens /\ Pending(u)
      /\ \A t \in Tokens : Pending(t)' <=> Pending(t) /\ t # u
  BY PendingAfter
<1>4. UNCHANGED <<head, tail, slot, sendPc, sendTail, lanePc, scan, minHead, sharedTail, retired, cache, trapped>>
  BY DEF Reduce, queueVars, sendVars, laneVars
<1>5. u \in Nat /\ NumReduceWarps \in Nat \ {0} /\ NumTokens \in Nat
  BY <1>1, <1>3, WarpsAndSlots DEF Sizes
<1>6. \A v \in ReduceWarps :
        IF v = w THEN /\ reducePc[v] = "reduce" /\ reducePc'[v] = NextToken(u + NumReduceWarps)
                      /\ token'[v] = u + NumReduceWarps
                 ELSE reducePc'[v] = reducePc[v] /\ token'[v] = token[v]
  BY <1>1 DEF Reduce, TypeOK
<1>7. \A r \in Sources : NextHead(w, r) \in 0 .. LargeHead
  BY <1>1, <1>3, EntryOf
<1>8. /\ warpHead' \in [ReduceWarps -> [Sources -> 0 .. LargeHead]]
      /\ \A v \in ReduceWarps, r \in Sources :
           warpHead'[v][r] = IF v = w THEN NextHead(w, r) ELSE warpHead[v][r]
  BY <1>1, <1>7 DEF Reduce, TypeOK
<1>9. TypeOK'
  <2>1. u + NumReduceWarps \in Nat
    BY <1>5
  <2>2. token' \in [ReduceWarps -> Nat]
    BY <1>1, <2>1 DEF Reduce, TypeOK
  <2>3. NextToken(u + NumReduceWarps) \in {"wait", "lse", "reduce", "retire", "done"}
    BY DEF NextToken
  <2>4. reducePc' \in [ReduceWarps -> {"wait", "lse", "reduce", "retire", "done"}]
    BY <1>1, <2>3 DEF Reduce, TypeOK
  <2>5. lse' \in [ReduceWarps -> [Sources -> Tokens \cup {None}]]
    BY <1>1 DEF Reduce, TypeOK
  <2>6. reduced' \in [Tokens -> SUBSET (Sources \X (Tokens \cup {None}) \X (Tokens \cup {None}))]
    BY ReducedPairs
  <2>7. NumTokens' = NumTokens /\ config' \in Configs
    BY <1>1, <1>2 DEF TypeOK
  <2>8. QED
    BY <1>1, <1>2, <1>4, <1>8, <2>2, <2>4, <2>5, <2>6, <2>7 DEF TypeOK
<1>10. SenderInv'
  <2>1. \A r \in Sources : head'[r] \in Int /\ head[r] <= head'[r]
    BY <1>1, <1>4 DEF TypeOK
  <2>2. UNCHANGED inputs
    BY DEF Reduce
  <2>3. QED
    BY <1>4, <2>1, <2>2, ReceiverKeepsSender DEF sendVars
<1>11. WarpTurns'
  <2>1. (u + NumReduceWarps) % NumReduceWarps = w
    <3>1. u % NumReduceWarps = w
      BY <1>1 DEF ReceiverInv, WarpTurns
    <3>2. QED
      BY <1>5, <3>1, NextTurn
  <2>2. /\ NextToken(u + NumReduceWarps) = "wait" => u + NumReduceWarps < NumTokens
        /\ NextToken(u + NumReduceWarps) = "retire" => u + NumReduceWarps >= NumTokens
        /\ NextToken(u + NumReduceWarps) \in {"wait", "retire"}
    BY <1>5 DEF NextToken
  <2>3. ~ retired[w]
    BY <1>1, <1>6 DEF ReceiverInv, WarpTurns
  <2>4. ASSUME NEW v \in ReduceWarps
        PROVE  /\ token'[v] % NumReduceWarps = v
               /\ reducePc'[v] \in {"wait", "lse", "reduce"} => token'[v] < NumTokens
               /\ reducePc'[v] \in {"retire", "done"} => token'[v] >= NumTokens
               /\ retired'[v] => reducePc'[v] = "done"
    <3>1. CASE v = w
      BY <1>4, <1>6, <2>1, <2>2, <2>3, <3>1
    <3>2. CASE v # w
      BY <1>1, <1>4, <1>6, <3>2 DEF ReceiverInv, WarpTurns
    <3>3. QED
      BY <3>1, <3>2
  <2>5. QED
    BY <1>2, <2>4 DEF WarpTurns
<1>12. WarpHeads'
  <2> SUFFICES ASSUME NEW r \in Sources, NEW t \in sentTo[r], Pending(t)'
               PROVE  warpHead'[t % NumReduceWarps][r] <= Position(r, t)
    BY <1>2 DEF WarpHeads
  <2>1. t \in Tokens /\ t \in Nat /\ t % NumReduceWarps \in ReduceWarps
    BY <1>1, PositionOfSent, WarpsAndSlots
  <2>2. Pending(t) /\ t # u
    BY <1>3, <2>1
  <2>3. CASE t % NumReduceWarps # w
    BY <1>1, <1>8, <2>1, <2>2, <2>3 DEF ReceiverInv, WarpHeads
  <2>4. CASE t % NumReduceWarps = w
    <3>1. u < t
      BY <1>5, <2>1, <2>2, <2>4 DEF Pending
    <3>2. NextHead(w, r) <= Position(r, t)
      BY <1>1, <1>3, <3>1, EntryOf
    <3>3. QED
      BY <1>8, <2>1, <2>4, <3>2
  <2>5. QED
    BY <2>3, <2>4
<1>13. Scanned' /\ HeadsBehind' /\ TailsSeen'
  <2>1. \A r \in Sources : \A t \in sentTo[r] : Pending(t)' => Pending(t)
    BY <1>1, <1>3, PositionOfSent
  <2>2. QED
    BY <1>1, <1>2, <1>4, <2>1 DEF ReceiverInv, Scanned, HeadsBehind, TailsSeen
<1>14. SlotsArrived'
  <2>1. reducePc'[w] \notin {"lse", "reduce"}
    BY <1>6 DEF NextToken
  <2>2. QED
    BY <1>1, <1>2, <1>4, <1>6, <2>1 DEF ReceiverInv, SlotsArrived
<1>15. ReducedArrived'
  <2> SUFFICES ASSUME NEW r \in Sources, NEW t \in sentTo[r], ~ Pending(t)'
               PROVE  Position(r, t) < tail[r]
    BY <1>2, <1>4 DEF ReducedArrived
  <2>1. ~ Pending(t) \/ t = u
    BY <1>1, <1>3, PositionOfSent
  <2>2. QED
    BY <1>1, <1>6, <2>1 DEF ReceiverInv, ReducedArrived, SlotsArrived
<1>16. ReducedFromItsSources'
  <2> DEFINE Pairs(t) == {<<r, t>> : r \in {q \in Sources : t \in sentTo[q]}}
  <2> SUFFICES ASSUME NEW t \in Tokens
               PROVE  {<<e[1], e[2]>> : e \in reduced'[t]} = IF Pending(t)' THEN {} ELSE Pairs(t)
    BY <1>2 DEF ReducedFromItsSources
  <2>1. CASE t = u
    <3>1. ~ Pending(t)'
      BY <1>3, <2>1
    <3>2. QED
      BY <2>1, <3>1, ReducedPairs
  <2>2. CASE t # u
    <3>1. reduced'[t] = reduced[t] /\ (Pending(t)' <=> Pending(t))
      BY <1>3, <2>2, ReducedPairs
    <3>2. {<<e[1], e[2]>> : e \in reduced[t]} = IF Pending(t) THEN {} ELSE Pairs(t)
      BY <1>1 DEF ReducedFromItsSources
    <3> HIDE DEF Pairs
    <3>3. QED
      BY <3>1, <3>2
  <2>3. QED
    BY <2>1, <2>2
<1>17. QED
  BY <1>9, <1>10, <1>11, <1>12, <1>13, <1>14, <1>15, <1>16 DEF IInv, ReceiverInv

-----------------------------------------------------------------------------
(* The theorems.                                                           *)

LEMMA StepInv == IInv /\ [Next]_vars => IInv'
<1> SUFFICES ASSUME IInv, [Next]_vars PROVE IInv'
  OBVIOUS
<1>1. ASSUME NEW r \in Sources, Source(r) PROVE IInv'
  BY <1>1, BeginRoundInv, CopyShareInv, SenderSyncInv, PublishTailInv DEF Source, SendWarp
<1>2. ASSUME NEW r \in Sources, Lane(r) PROVE IInv'
  BY <1>2, LaneRetiresInv, LoadTailInv, ScanWarpInv, StoreHeadInv DEF Lane
<1>3. ASSUME NEW w \in ReduceWarps, ReduceWarp(w) PROVE IInv'
  BY <1>3, WaitForSourcesInv, ReadLseInv, ReduceInv, RetireInv DEF ReduceWarp
<1>4. ASSUME UNCHANGED <<inputs, queueVars, sendVars, laneVars, reduceVars>>, trapped' \in BOOLEAN
      PROVE  IInv'
  <2>1. UNCHANGED <<head, tail, slot, sendPc, sendTail, lanePc, scan, minHead, sharedTail, reducePc,
                    token, lse, warpHead, retired, reduced, cache>>
    BY <1>4 DEF queueVars, sendVars, laneVars, reduceVars
  <2>2. /\ Sources' = Sources /\ Tokens' = Tokens /\ Slots' = Slots
        /\ SendWarps' = SendWarps /\ ReduceWarps' = ReduceWarps
        /\ NumTokens' = NumTokens /\ NumReduceWarps' = NumReduceWarps
        /\ sentTo' = sentTo /\ config' = config
        /\ \A q, t : Position(q, t)' = Position(q, t)
    BY <1>4, SameInputs
  <2>3. TypeOK /\ ReceiverInv
    BY DEF IInv
  <2>4. TypeOK'
    BY <1>4, <2>1, <2>2, <2>3 DEF TypeOK
  <2>5. WarpTurns' /\ SlotsArrived'
    BY <2>1, <2>2, <2>3 DEF ReceiverInv, WarpTurns, SlotsArrived
  <2>6. SenderInv' /\ ReceiverInv' /\ ReducedFromItsSources'
    BY <1>4, <2>1, <2>5, ReduceKeepsRest
  <2>7. QED
    BY <2>4, <2>6 DEF IInv
<1>5. CASE TimeOut
  BY <1>4, <1>5 DEF TimeOut
<1>6. CASE UNCHANGED vars
  <2>1. trapped' \in BOOLEAN
    BY <1>6 DEF vars, IInv, TypeOK
  <2>2. QED
    BY <1>4, <1>6, <2>1 DEF vars
<1>7. QED
  BY <1>1, <1>2, <1>3, <1>5, <1>6 DEF Next, Terminated

\* In every run of the channel, with any sources, tokens, warps and sizes that
\* Config accepts and whether or not a kernel traps, senders, lanes and reduce
\* warps keep the relations that IInv names.
THEOREM Invariance == Spec => []IInv
<1>1. QED
  BY InitInv, StepInv, PTL DEF Spec

\* group_reduce_kernel keeps its indices in the ranges that their uses assume.
THEOREM TypeCorrect == Spec => []TypeOK
<1>1. IInv => TypeOK
  BY DEF IInv
<1>2. QED
  BY <1>1, Invariance, PTL

LEMMA SlotsIntactInv == IInv => PendingSlotsIntact
<1> SUFFICES ASSUME IInv, NEW r \in Sources, NEW t \in sentTo[r],
                    Pending(t), Position(r, t) < tail[r]
             PROVE  /\ head[r] <= Position(r, t)
                    /\ slot[r][Position(r, t) % QueueSize] = t
  BY DEF PendingSlotsIntact
<1>1. head[r] <= Position(r, t)
  BY DEF IInv, ReceiverInv, HeadsBehind
<1>2. Position(r, t) \in Nat
  BY InputsHold, PositionType DEF IInv
<1>3. Position(r, t) < Base(r)
  BY <1>2, SourceFacts
<1>4. QED
  BY <1>1, <1>3 DEF IInv, SenderInv, SlotsHold, Copied

\* A slot that a source has published is neither freed nor overwritten before
\* the reduce warp of its token is done, although lanes free by a scan that
\* races with the warps.
THEOREM SlotsIntact == Spec => []PendingSlotsIntact
BY SlotsIntactInv, Invariance, PTL

\* Every finished token was reduced from the partial results of exactly the
\* ranks it had been sent to, and of that token.
THEOREM Reduced == Spec => []ReducedFromItsSources
<1>1. IInv => ReducedFromItsSources
  BY DEF IInv
<1>2. QED
  BY <1>1, Invariance, PTL

-----------------------------------------------------------------------------
(* Each queue implements a bounded stream.                                  *)

\* A token has been delivered from a source iff its reduce warp is done with it.
LEMMA DeliveredIffDone ==
  ASSUME IInv, NEW r \in Sources, NEW t \in sentTo[r]
  PROVE  (\E e \in reduced[t] : e[1] = r /\ e[2] = t) <=> ~Pending(t)
<1>1. t \in Tokens
  BY InputsHold, PositionOfSent DEF IInv
<1>2. {<<e[1], e[2]>> : e \in reduced[t]} =
        IF Pending(t) THEN {} ELSE {<<q, t>> : q \in {q \in Sources : t \in sentTo[q]}}
  BY <1>1 DEF IInv, ReducedFromItsSources
<1>3. ASSUME Pending(t), NEW e \in reduced[t] PROVE FALSE
  <2>1. <<e[1], e[2]>> \in {<<d[1], d[2]>> : d \in reduced[t]}
    OBVIOUS
  <2>2. QED
    BY <1>2, <1>3, <2>1
<1>4. ASSUME ~Pending(t) PROVE \E e \in reduced[t] : e[1] = r /\ e[2] = t
  <2>1. <<r, t>> \in {<<e[1], e[2]>> : e \in reduced[t]}
    BY <1>2, <1>4
  <2>2. PICK e \in reduced[t] : <<r, t>> = <<e[1], e[2]>>
    BY <2>1
  <2>3. QED
    BY <2>2
<1>5. QED
  BY <1>3, <1>4

\* What a position must satisfy to have been delivered.
LEMMA DeliveredPosition ==
  ASSUME IInv, NEW r \in Sources, NEW t \in sentTo[r]
  PROVE  Position(r, t) \in Delivered(r) <=> ~Pending(t)
<1>1. ASSUME ~Pending(t) PROVE Position(r, t) \in Delivered(r)
  BY <1>1, DeliveredIffDone DEF Delivered
<1>2. ASSUME Position(r, t) \in Delivered(r) PROVE ~Pending(t)
  <2>1. PICK u \in sentTo[r] :
          (\E e \in reduced[u] : e[1] = r /\ e[2] = u) /\ Position(r, u) = Position(r, t)
    BY <1>2 DEF Delivered
  <2>2. u = t
    BY <2>1, InputsHold, PositionOfSent DEF IInv
  <2>3. QED
    BY <2>1, <2>2, DeliveredIffDone
<1>3. QED
  BY <1>1, <1>2

\* A queue whose tail, head and reductions do not change stutters.
LEMMA StreamStutters ==
  ASSUME NEW r, UNCHANGED inputs, tail'[r] = tail[r], head'[r] = head[r],
         Delivered(r)' = Delivered(r)
  PROVE  UNCHANGED Stream(r)!vars
<1>1. QueueSize' = QueueSize /\ NumSent(r)' = NumSent(r)
  BY SameInputs
<1>2. QED
  BY <1>1 DEF Stream!vars, Smaller

LEMMA SameDelivered ==
  ASSUME UNCHANGED inputs, UNCHANGED reduced, NEW r
  PROVE  Delivered(r)' = Delivered(r)
<1>1. sentTo' = sentTo /\ \A t : Position(r, t)' = Position(r, t)
  BY SameInputs
<1>2. QED
  BY <1>1 DEF Delivered

LEMMA PublishProduces ==
  ASSUME IInv, NEW r \in Sources, PublishTail(r), NEW q \in Sources
  PROVE  Stream(q)!Next \/ UNCHANGED Stream(q)!vars
<1>1. /\ UNCHANGED inputs /\ UNCHANGED head /\ UNCHANGED reduced
      /\ tail' = [tail EXCEPT ![r] = Base(r)] /\ tail[r] < Base(r)
  BY PublishTailEffect DEF reduceVars
<1>2. Delivered(q)' = Delivered(q)
  BY <1>1, SameDelivered
<1>3. CASE q # r
  <2>1. tail'[q] = tail[q]
    BY <1>1, <1>3
  <2>2. QED
    BY <1>1, <1>2, <2>1, StreamStutters
<1>4. CASE q = r
  <2>1. tail'[r] = Base(r)
    BY <1>1 DEF IInv, TypeOK
  <2>2. QueueSize' = QueueSize /\ NumSent(r)' = NumSent(r)
    BY <1>1, SameInputs
  <2>3. /\ head[r] \in Nat /\ tail[r] \in Nat /\ Base(r) \in Nat /\ NumSent(r) \in Nat
        /\ Base(r) <= NumSent(r) /\ Base(r) - head[r] <= QueueSize
    BY SourceFacts
  <2>4. QueueSize \in Nat
    BY InputsHold DEF IInv, Inputs, Sizes
  <2>5. Base(r) \in tail[r] + 1 .. Smaller(head[r], NumSent(r)) + QueueSize
    BY <1>1, <2>3, <2>4 DEF Smaller
  <2>6. Smaller(head[r], NumSent(r))' = Smaller(head[r], NumSent(r))
    BY <1>1, <2>2 DEF Smaller
  <2>7. Stream(r)!Produce
    BY <1>2, <1>4, <2>1, <2>2, <2>3, <2>5, <2>6 DEF Stream!Produce
  <2>8. QED
    BY <1>4, <2>7 DEF Stream!Next
<1>5. QED
  BY <1>3, <1>4

LEMMA StoreReleases ==
  ASSUME IInv, NEW r \in Sources, StoreHead(r), NEW q \in Sources
  PROVE  Stream(q)!Next \/ UNCHANGED Stream(q)!vars
<1>1. UNCHANGED inputs /\ UNCHANGED tail /\ UNCHANGED reduced /\ UNCHANGED token
  BY DEF StoreHead, reduceVars
<1>2. IInv' /\ Inputs
  BY StoreHeadInv, InputsHold DEF IInv
<1>3. Delivered(q)' = Delivered(q)
  BY <1>1, SameDelivered
<1>4. /\ QueueSize' = QueueSize /\ NumSent(q)' = NumSent(q) /\ sentTo' = sentTo
      /\ Sources' = Sources /\ NumReduceWarps' = NumReduceWarps
      /\ \A t : Position(q, t)' = Position(q, t)
  BY <1>1, SameInputs
<1>5. \A t : Pending(t)' = Pending(t)
  BY <1>1, <1>4 DEF Pending
<1>6. head'[q] = head[q] \/ head[q] < head'[q]
  BY DEF StoreHead, IInv, TypeOK
<1>7. head[q] \in Nat /\ head'[q] \in Nat /\ NumSent(q) \in Nat /\ tail[q] \in Nat
  BY <1>2, <1>4, SentFinite DEF IInv, TypeOK
<1> DEFINE old == Smaller(head[q], NumSent(q))
           n == Smaller(head'[q], NumSent(q))
<1>8. old \in Nat /\ n \in Nat /\ old <= n /\ n <= NumSent(q) /\ n <= head'[q]
  BY <1>6, <1>7 DEF Smaller
<1>9. Smaller(head[q], NumSent(q))' = n
  BY <1>4 DEF Smaller
<1>10. ASSUME NEW p \in 0 .. n - 1 PROVE p \in Delivered(q) /\ p < tail[q]
  <2>1. PICK t \in sentTo[q] : Position(q, t) = p
    <3>1. p \in 0 .. NumSent(q) - 1
      BY <1>7, <1>8
    <3>2. QED
      BY <1>2, <3>1, TokenAtPosition
  <2>2. ~Pending(t)
    <3>1. Pending(t)' => head'[q] <= Position(q, t)
      BY <1>2, <1>4, <2>1 DEF IInv, ReceiverInv, HeadsBehind
    <3>2. p < head'[q]
      BY <1>7, <1>8
    <3>3. QED
      BY <1>5, <1>7, <2>1, <3>1, <3>2
  <2>3. QED
    BY <2>1, <2>2, DeliveredPosition DEF IInv, ReceiverInv, ReducedArrived
<1> HIDE DEF old, n
<1>11. CASE n = old
  BY <1>1, <1>3, <1>4, <1>9, <1>11 DEF Stream!vars, old
<1>12. CASE n # old
  <2>1. n \in old + 1 .. tail[q]
    <3>1. n - 1 \in 0 .. n - 1
      BY <1>8, <1>12
    <3>2. n - 1 < tail[q]
      BY <1>10, <3>1
    <3>3. QED
      BY <1>7, <1>8, <1>12, <3>2
  <2>2. (0 .. n - 1) \subseteq Delivered(q)
    BY <1>10
  <2>3. Stream(q)!Release
    BY <1>1, <1>3, <1>4, <1>9, <2>1, <2>2 DEF Stream!Release, old
  <2>4. QED
    BY <2>3 DEF Stream!Next
<1>13. QED
  BY <1>11, <1>12

LEMMA ReduceDelivers ==
  ASSUME IInv, NEW w \in ReduceWarps, Reduce(w), NEW q \in Sources
  PROVE  Stream(q)!Next \/ UNCHANGED Stream(q)!vars
<1> DEFINE u == token[w]
<1>1. UNCHANGED inputs /\ UNCHANGED tail /\ UNCHANGED head /\ reducePc[w] = "reduce"
  BY DEF Reduce, queueVars
<1>2. Inputs /\ IInv'
  BY InputsHold, ReduceInv DEF IInv
<1>3. /\ u \in Tokens /\ Pending(u)
      /\ \A t \in Tokens : Pending(t)' <=> Pending(t) /\ t # u
  BY PendingAfter
<1>4. /\ QueueSize' = QueueSize /\ NumSent(q)' = NumSent(q) /\ sentTo' = sentTo
      /\ Sources' = Sources /\ \A t : Position(q, t)' = Position(q, t)
  BY <1>1, SameInputs
<1>5. \A t \in sentTo[q] : t # u => reduced'[t] = reduced[t]
  BY <1>2, ReducedPairs, PositionOfSent
<1> HIDE DEF u
<1>6. CASE u \notin sentTo[q]
  <2>1. Delivered(q)' = Delivered(q)
    BY <1>4, <1>5, <1>6 DEF Delivered
  <2>2. QED
    BY <1>1, <2>1, StreamStutters
<1>7. CASE u \in sentTo[q]
  <2> DEFINE p == Position(q, u)
  <2>1. \E e \in reduced'[u] : e[1] = q /\ e[2] = u
    <3>1. <<q, u>> \in {<<e[1], e[2]>> : e \in reduced'[u]}
      BY <1>7, ReducedPairs DEF u
    <3>2. PICK e \in reduced'[u] : <<q, u>> = <<e[1], e[2]>>
      BY <3>1
    <3>3. QED
      BY <3>2
  <2>2. Delivered(q)' = Delivered(q) \cup {p}
    <3> DEFINE done == {t \in sentTo[q] : \E e \in reduced[t] : e[1] = q /\ e[2] = t}
               done2 == {t \in sentTo[q] : \E e \in reduced'[t] : e[1] = q /\ e[2] = t}
    <3>1. done2 = done \cup {u}
      BY <1>5, <1>7, <2>1
    <3>2. Delivered(q) = {Position(q, t) : t \in done} /\ Delivered(q)' = {Position(q, t) : t \in done2}
      BY <1>4 DEF Delivered
    <3> HIDE DEF done, done2
    <3>3. QED
      BY <3>1, <3>2
  <2>3. p \notin Delivered(q)
    BY <1>3, <1>7, DeliveredPosition
  <2>4. p \in Smaller(head[q], NumSent(q)) .. tail[q] - 1
    <3>1. head[q] <= p /\ p < tail[q]
      BY <1>1, <1>3, <1>7 DEF IInv, ReceiverInv, HeadsBehind, SlotsArrived, u
    <3>2. p \in Nat /\ head[q] \in Nat /\ NumSent(q) \in Nat /\ tail[q] \in Nat
      BY <1>2, PositionType, SourceFacts
    <3>3. QED
      BY <3>1, <3>2 DEF Smaller
  <2>5. Smaller(head[q], NumSent(q))' = Smaller(head[q], NumSent(q))
    BY <1>1, <1>4 DEF Smaller
  <2> HIDE DEF p
  <2>6. Stream(q)!Deliver
    BY <1>1, <1>4, <2>2, <2>3, <2>4, <2>5 DEF Stream!Deliver
  <2>7. QED
    BY <2>6 DEF Stream!Next
<1>8. QED
  BY <1>6, <1>7

LEMMA StreamInit ==
  ASSUME Init, NEW r \in Sources
  PROVE  Stream(r)!Init
<1>1. Sizes /\ Inputs
  BY SizesHold DEF Init, Inputs
<1>2. QueueSize \in Nat /\ NumSent(r) \in Nat
  BY <1>1, SentFinite DEF Sizes
<1>3. tail[r] = 0 /\ Smaller(head[r], NumSent(r)) = 0
  BY <1>2 DEF Init, Smaller
<1>4. Delivered(r) = {}
  <2>1. \A t \in sentTo[r] : reduced[t] = {}
    BY <1>1, PositionOfSent DEF Init
  <2>2. QED
    BY <2>1 DEF Delivered
<1>5. QED
  BY <1>2, <1>3, <1>4 DEF Stream!Init

\* Every queue of the group reduce carries its stream: tokens are published in
\* batches that fit the queue, each is reduced once and before its slot is
\* freed.
THEOREM Refinement == Spec => ImplementsStreams
<1>1. Init => \A r \in Sources : Stream(r)!Init
  BY StreamInit
<1>2. IInv /\ [Next]_vars => [\A r \in Sources : Stream(r)!Next \/ UNCHANGED Stream(r)!vars]_vars
  <2> SUFFICES ASSUME IInv, Next, NEW q \in Sources
               PROVE  Stream(q)!Next \/ UNCHANGED Stream(q)!vars
    OBVIOUS
  <2>1. ASSUME UNCHANGED <<inputs, head, tail, reduced>>
        PROVE  UNCHANGED Stream(q)!vars
    BY <2>1, SameDelivered, StreamStutters
  <2>2. ASSUME NEW r \in Sources, Source(r) PROVE Stream(q)!Next \/ UNCHANGED Stream(q)!vars
    <3>1. CASE PublishTail(r)
      BY <3>1, PublishProduces
    <3>2. CASE SenderSync(r)
      BY <2>1, <3>2 DEF SenderSync, queueVars, reduceVars
    <3>3. ASSUME NEW w \in SendWarps, SendWarp(r, w) PROVE UNCHANGED Stream(q)!vars
      BY <2>1, <3>3 DEF SendWarp, BeginRound, CopyShare, queueVars, reduceVars
    <3>4. QED
      BY <2>2, <3>1, <3>2, <3>3 DEF Source
  <2>3. ASSUME NEW r \in Sources, Lane(r) PROVE Stream(q)!Next \/ UNCHANGED Stream(q)!vars
    <3>1. CASE StoreHead(r)
      BY <3>1, StoreReleases
    <3>2. CASE LaneRetires(r) \/ LoadTail(r) \/ ScanWarp(r)
      BY <2>1, <3>2 DEF LaneRetires, LoadTail, ScanWarp, queueVars, reduceVars
    <3>3. QED
      BY <2>3, <3>1, <3>2 DEF Lane
  <2>4. ASSUME NEW w \in ReduceWarps, ReduceWarp(w) PROVE Stream(q)!Next \/ UNCHANGED Stream(q)!vars
    <3>1. CASE Reduce(w)
      BY <3>1, ReduceDelivers
    <3>2. CASE WaitForSources(w) \/ ReadLse(w) \/ Retire(w)
      BY <2>1, <3>2 DEF WaitForSources, ReadLse, Retire, queueVars
    <3>3. QED
      BY <2>4, <3>1, <3>2 DEF ReduceWarp
  <2>5. CASE TimeOut
    BY <2>1, <2>5 DEF TimeOut, queueVars, reduceVars
  <2>6. CASE Terminated
    BY <2>1, <2>6 DEF Terminated, vars, queueVars, reduceVars
  <2>7. QED
    BY <2>2, <2>3, <2>4, <2>5, <2>6 DEF Next
<1>3. QED
  BY <1>1, <1>2, Invariance, PTL DEF Spec, ImplementsStreams
================================================================================
