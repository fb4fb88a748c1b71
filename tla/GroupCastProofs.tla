---------------------------- MODULE GroupCastProofs ----------------------------
(***************************************************************************)
(* Proofs about the queue of the group cast, for every number of tokens and *)
(* warps and all sizes of queue and chunk that Config accepts.              *)
(***************************************************************************)
EXTENDS GroupCastChannel, FiniteSetTheorems, TLAPS

-----------------------------------------------------------------------------
(* Positions and slots: a token's position is the number of tokens before   *)
(* it, and a position's slot in a ring of n is its remainder by n.           *)

\* The number of elements of S below t: the position of t among them.
Below(S, t) == Cardinality({u \in S : u < t})

\* A finite set of integers.
IsFiniteIntSet(S) == S \in SUBSET Int /\ IsFiniteSet(S)

\* The number of elements below t is a number, at most that of all elements.
LEMMA BelowFinite ==
  ASSUME NEW S, IsFiniteIntSet(S), NEW t
  PROVE  /\ IsFiniteSet({u \in S : u < t})
         /\ Below(S, t) \in Nat /\ Cardinality(S) \in Nat
         /\ Below(S, t) <= Cardinality(S)
<1>1. {u \in S : u < t} \in SUBSET S
  OBVIOUS
<1>2. IsFiniteSet(S)
  BY DEF IsFiniteIntSet
<1>3. IsFiniteSet({u \in S : u < t}) /\ Cardinality({u \in S : u < t}) <= Cardinality(S)
  BY <1>1, <1>2, FS_Subset
<1>4. QED
  BY <1>2, <1>3, FS_CardinalityType DEF Below

\* It grows by one past an element.
LEMMA BelowStep ==
  ASSUME NEW S, IsFiniteIntSet(S), NEW t \in Int
  PROVE  Below(S, t + 1) = IF t \in S THEN Below(S, t) + 1 ELSE Below(S, t)
<1> DEFINE B == {u \in S : u < t}
<1>1. S \subseteq Int
  BY DEF IsFiniteIntSet
<1>2. IsFiniteSet(B)
  BY BelowFinite
<1>3. CASE t \in S
  <2>1. {u \in S : u < t + 1} = B \cup {t}
    <3>1. \A u \in S : u < t + 1 <=> (u < t \/ u = t)
      BY <1>1
    <3>2. QED
      BY <1>3, <3>1, Zenon
  <2>2. t \notin B
    BY <1>1
  <2>3. Cardinality(B \cup {t}) = Cardinality(B) + 1
    BY <1>2, <2>2, FS_AddElement
  <2>4. QED
    BY <1>3, <2>1, <2>3 DEF Below
<1>4. CASE t \notin S
  <2>1. {u \in S : u < t + 1} = B
    <3>1. \A u \in S : u < t + 1 <=> u < t
      BY <1>1, <1>4
    <3>2. QED
      BY <3>1, Zenon
  <2>2. QED
    BY <1>4, <2>1 DEF Below
<1>5. QED
  BY <1>3, <1>4

\* It does not fall.
LEMMA BelowMonotone ==
  ASSUME NEW S, IsFiniteIntSet(S), NEW t \in Int, NEW u \in Int, t <= u
  PROVE  Below(S, t) <= Below(S, u)
<1> DEFINE B(n) == {v \in S : v < n}
<1>1. S \subseteq Int
  BY DEF IsFiniteIntSet
<1>2. B(t) \in SUBSET B(u)
  <2>1. \A v \in S : v < t => v < u
    BY <1>1
  <2>2. QED
    BY <2>1, Zenon
<1>3. IsFiniteSet(B(u))
  BY BelowFinite
<1>4. Cardinality(B(t)) <= Cardinality(B(u))
  BY <1>2, <1>3, FS_Subset
<1>5. QED
  BY <1>4 DEF Below

\* The elements have positions of their own, in order, all below their number.
LEMMA BelowStrict ==
  ASSUME NEW S, IsFiniteIntSet(S), NEW t \in S, NEW u \in Int, t < u
  PROVE  Below(S, t) < Below(S, u)
<1>1. t \in Int
  BY DEF IsFiniteIntSet
<1>2. Below(S, t + 1) = Below(S, t) + 1
  BY <1>1, BelowStep
<1>3. Below(S, t + 1) <= Below(S, u)
  BY <1>1, BelowMonotone
<1>4. Below(S, t) \in Nat /\ Below(S, u) \in Nat
  BY BelowFinite
<1>5. QED
  BY <1>2, <1>3, <1>4

\* Elements have different positions.
LEMMA BelowInjective ==
  ASSUME NEW S, IsFiniteIntSet(S), NEW t \in S, NEW u \in S, Below(S, t) = Below(S, u)
  PROVE  t = u
<1>1. t \in Int /\ u \in Int
  BY DEF IsFiniteIntSet
<1>2. ~(t < u) /\ ~(u < t)
  <2>1. Below(S, t) \in Nat
    BY BelowFinite
  <2>2. ASSUME t < u PROVE FALSE
    BY <1>1, <2>1, <2>2, BelowStrict
  <2>3. ASSUME u < t PROVE FALSE
    BY <1>1, <2>1, <2>3, BelowStrict
  <2>4. QED
    BY <2>2, <2>3
<1>3. QED
  BY <1>1, <1>2

\* It is less than the number of elements for every element.
LEMMA BelowNumber ==
  ASSUME NEW S, IsFiniteIntSet(S), NEW t \in S
  PROVE  Below(S, t) < Cardinality(S)
<1>1. t \in Int
  BY DEF IsFiniteIntSet
<1>2. Below(S, t) < Below(S, t + 1)
  BY <1>1, BelowStrict
<1>3. Below(S, t) \in Nat /\ Below(S, t + 1) \in Nat /\ Below(S, t + 1) <= Cardinality(S)
  BY BelowFinite
<1>4. Cardinality(S) \in Nat
  BY BelowFinite
<1>5. QED
  BY <1>2, <1>3, <1>4

\* Every position below the number of elements is that of an element.
LEMMA BelowOnto ==
  ASSUME NEW S, IsFiniteIntSet(S), NEW p \in 0 .. Cardinality(S) - 1
  PROVE  \E t \in S : Below(S, t) = p
<1> DEFINE P == 0 .. Cardinality(S) - 1
           f == [t \in S |-> Below(S, t)]
<1>1. IsFiniteSet(S) /\ Cardinality(S) \in Nat
  BY FS_CardinalityType DEF IsFiniteIntSet
<1>2. IsFiniteSet(P) /\ Cardinality(P) = Cardinality(S)
  <2>1. /\ IsFiniteSet(P)
        /\ Cardinality(P) = IF 0 > Cardinality(S) - 1 THEN 0 ELSE (Cardinality(S) - 1) - 0 + 1
    <3>1. 0 \in Int /\ Cardinality(S) - 1 \in Int
      BY <1>1
    <3>2. QED
      BY <3>1, FS_Interval
  <2>2. QED
    BY <1>1, <2>1
<1>3. f \in [S -> P]
  <2> SUFFICES ASSUME NEW t \in S PROVE Below(S, t) \in P
    OBVIOUS
  <2>1. Below(S, t) \in Nat /\ Below(S, t) < Cardinality(S)
    BY BelowFinite, BelowNumber
  <2>2. QED
    BY <1>1, <2>1
<1>4. f \in Injection(S, P)
  <2>1. \A t, u \in S : f[t] = f[u] => t = u
    BY BelowInjective
  <2>2. QED
    BY <1>3, <2>1 DEF Injection, IsInjective
<1>5. f \in Surjection(S, P)
  BY <1>2, <1>4, FS_Injection
<1>6. QED
  BY <1>5 DEF Surjection

\* Two positions less than n apart fall on different slots of a ring of n.
LEMMA DistinctSlots ==
  ASSUME NEW n \in Nat \ {0}, NEW p \in Nat, NEW q \in Nat,
         p < q, q - p < n
  PROVE  p % n # q % n
<1>1. PICK a \in Nat : p = n * a + (p % n) /\ p % n \in 0 .. n - 1
  <2>1. p = n * (p \div n) + (p % n) /\ p % n \in 0 .. n - 1 /\ p \div n \in Nat
    OBVIOUS
  <2>2. QED
    BY <2>1
<1>2. PICK b \in Nat : q = n * b + (q % n) /\ q % n \in 0 .. n - 1
  <2>1. q = n * (q \div n) + (q % n) /\ q % n \in 0 .. n - 1 /\ q \div n \in Nat
    OBVIOUS
  <2>2. QED
    BY <2>1
<1>3. SUFFICES ASSUME p % n = q % n PROVE FALSE
  OBVIOUS
<1>4. q - p = n * (b - a)
  BY <1>1, <1>2, <1>3
<1>5. b - a >= 1
  <2>1. CASE b <= a
    <3>1. n * (b - a) <= 0
      BY <2>1
    <3>2. QED
      BY <1>4, <3>1
  <2>2. CASE b > a
    BY <2>2
  <2>3. QED
    BY <2>1, <2>2
<1>6. n * (b - a) >= n
  BY <1>5
<1>7. QED
  BY <1>4, <1>6

\* A warp that goes on by n keeps its residue.
LEMMA NextTurn ==
  ASSUME NEW n \in Nat \ {0}, NEW p \in Nat
  PROVE  (p + n) % n = p % n
<1>1. PICK a \in Nat : p = n * a + (p % n) /\ p % n \in 0 .. n - 1
  <2>1. p = n * (p \div n) + (p % n) /\ p % n \in 0 .. n - 1 /\ p \div n \in Nat
    OBVIOUS
  <2>2. QED
    BY <2>1
<1> DEFINE q == p + n
<1>2. PICK b \in Nat : q = n * b + (q % n) /\ q % n \in 0 .. n - 1
  <2>1. q \in Nat
    OBVIOUS
  <2> HIDE DEF q
  <2>2. q = n * (q \div n) + (q % n) /\ q % n \in 0 .. n - 1 /\ q \div n \in Nat
    BY <2>1
  <2>3. QED
    BY <2>2
<1> DEFINE d == b - a - 1
           r == p % n
           s == q % n
<1>3. n * d = r - s
  <2>1. p = n * a + r /\ p + n = n * b + s /\ r \in Int /\ s \in Int
    BY <1>1, <1>2
  <2> HIDE DEF r, s
  <2>2. n * d = n * b - n * a - n
    OBVIOUS
  <2>3. QED
    BY <2>1, <2>2
<1>4. d \in Int
  OBVIOUS
<1> HIDE DEF d
<1>5. d = 0
  <2>1. CASE d >= 1
    <3>1. n * d >= n
      BY <1>4, <2>1
    <3>2. QED
      BY <1>1, <1>2, <1>3, <3>1
  <2>2. CASE d <= -1
    <3>1. n * d <= -n
      BY <1>4, <2>2
    <3>2. QED
      BY <1>1, <1>2, <1>3, <3>1
  <2>3. QED
    BY <1>4, <2>1, <2>2
<1>6. QED
  BY <1>1, <1>2, <1>3, <1>5

-----------------------------------------------------------------------------
(* Sizes and tokens.                                                       *)

USE TokensAssumption, WarpsAssumption, OffsetAssumption, ConfigAssumption DEF ConfigAccepts

LEMMA TokensFinite ==
  ASSUME NEW S \in SUBSET Tokens
  PROVE  /\ IsFiniteSet(S)
         /\ Cardinality(S) \in Nat
         /\ Cardinality(S) <= NumTokens
<1>1. IsFiniteSet(Tokens) /\ Cardinality(Tokens) = NumTokens
  <2>1. /\ IsFiniteSet(0 .. NumTokens - 1)
        /\ Cardinality(0 .. NumTokens - 1) =
             IF 0 > NumTokens - 1 THEN 0 ELSE (NumTokens - 1) - 0 + 1
    BY FS_Interval
  <2>2. QED
    BY <2>1 DEF Tokens
<1>2. IsFiniteSet(S) /\ Cardinality(S) <= Cardinality(Tokens)
  BY <1>1, FS_Subset
<1>3. Cardinality(S) \in Nat
  BY <1>2, FS_CardinalityType
<1>4. QED
  BY <1>1, <1>2, <1>3

LEMMA TokensInt ==
  ASSUME NEW S \in SUBSET Tokens
  PROVE  IsFiniteIntSet(S)
BY TokensFinite DEF IsFiniteIntSet, Tokens

\* The lemmas about positions, for the tokens of the channel.
LEMMA CountType ==
  ASSUME NEW S \in SUBSET Tokens, NEW t
  PROVE  Below(S, t) \in Nat /\ Below(S, t) <= Cardinality(S)
BY TokensInt, BelowFinite

LEMMA CountStep ==
  ASSUME NEW S \in SUBSET Tokens, NEW t \in Int
  PROVE  Below(S, t + 1) = IF t \in S THEN Below(S, t) + 1 ELSE Below(S, t)
BY TokensInt, BelowStep

LEMMA CountMonotone ==
  ASSUME NEW S \in SUBSET Tokens, NEW t \in Int, NEW u \in Int, t <= u
  PROVE  Below(S, t) <= Below(S, u)
BY TokensInt, BelowMonotone

LEMMA CountStrict ==
  ASSUME NEW S \in SUBSET Tokens, NEW t \in S, NEW u \in Int, t < u
  PROVE  Below(S, t) < Below(S, u)
BY TokensInt, BelowStrict

LEMMA CountInjective ==
  ASSUME NEW S \in SUBSET Tokens, NEW t \in S, NEW u \in S, Below(S, t) = Below(S, u)
  PROVE  t = u
BY TokensInt, BelowInjective

LEMMA CountEnds ==
  ASSUME NEW S \in SUBSET Tokens
  PROVE  Below(S, 0) = 0 /\ Below(S, NumTokens) = Cardinality(S)
<1>1. {u \in S : u < 0} = {} /\ {u \in S : u < NumTokens} = S
  <2>1. \A u \in S : ~(u < 0) /\ u < NumTokens
    BY DEF Tokens
  <2>2. QED
    BY <2>1, Zenon
<1>2. QED
  BY <1>1, FS_EmptySet DEF Below

LEMMA CountOnto ==
  ASSUME NEW S \in SUBSET Tokens, NEW p \in 0 .. Cardinality(S) - 1
  PROVE  \E t \in S : Below(S, t) = p
BY TokensInt, BelowOnto

-----------------------------------------------------------------------------
(* Types.                                                                  *)

LEMMA WarpsType ==
  /\ 0 \in Warps /\ Last \in Warps /\ Warps \subseteq Nat
  /\ \A p \in Nat : p % NumWarps \in Warps
  /\ \A p \in Nat : p % QueueSize \in Slots
  BY DEF Warps, Last, Slots

LEMMA LastType == 0 \in Warps /\ Last \in Warps
  BY WarpsType

LEMMA NumSentType == TypeOK => NumSent \in Nat /\ NumSent <= NumTokens
  BY TokensFinite DEF TypeOK, NumSent

LEMMA TypeInit == Init => TypeOK
  BY WarpsType DEF Init, TypeOK, SendPcs, RecvPcs, None, Tokens

LEMMA TypeStep == TypeOK /\ [Next]_vars => TypeOK'
<1> SUFFICES ASSUME TypeOK, [Next]_vars PROVE TypeOK'
  OBVIOUS
<1> USE DEF SendPcs, RecvPcs, queueVars, sendVars, recvVars,
        SenderStep, SendGoto, NextChunk, RecvStep, RecvGoto, NextRound
<1>1. CASE AnnounceStart
  <2>1. Encode(StartOffset) \in Int
    BY DEF Encode
  <2>2. QED
    BY <1>1, <2>1, WarpsType DEF AnnounceStart, TypeOK
<1>2. CASE AnnounceEnd
  <2>1. Encode(StartOffset + NumSent) \in Int
    BY NumSentType DEF Encode
  <2>2. QED
    BY <1>2, <2>1, WarpsType DEF AnnounceEnd, TypeOK
<1>3. ASSUME NEW w \in Warps, BeginChunk(w) PROVE TypeOK'
  BY <1>3 DEF BeginChunk, TypeOK
<1>4. ASSUME NEW w \in Warps, SkipToken(w) PROVE TypeOK'
  <2>1. token[w] + 1 \in 0 .. NumTokens /\ token[w] \in Tokens
    BY <1>4 DEF SkipToken, MoreInChunk, Tokens, TypeOK
  <2>2. sendHead' \in [Tokens -> Int]
    BY <1>4, <2>1 DEF SkipToken, SaveHead, TypeOK
  <2>3. QED
    BY <1>4, <2>1, <2>2 DEF SkipToken, TypeOK
<1>5. ASSUME NEW w \in Warps, SendToken(w) PROVE TypeOK'
  <2>1. /\ sendTail[w] % QueueSize \in Slots /\ sendTail[w] \in Int
        /\ NewTail(w) \in Nat /\ chunk[w] + 1 \in Nat
    <3>1. sendTail[w] \in Nat /\ chunk[w] \in Nat
      BY DEF TypeOK
    <3>2. sendTail[w] % QueueSize \in Slots
      BY <3>1, WarpsType
    <3>3. QED
      BY <3>1, <3>2 DEF NewTail
  <2>2. token[w] + 1 \in 0 .. NumTokens /\ token[w] \in Tokens
    BY <1>5 DEF SendToken, MoreInChunk, Tokens, TypeOK
  <2>3. slot' \in [Slots -> Tokens \cup {None}]
    BY <1>5, <2>1, <2>2 DEF SendToken, TypeOK
  <2>4. sendHead' \in [Tokens -> Int]
    BY <1>5, <2>1, <2>2 DEF SendToken, SaveHead, TypeOK
  <2>5. /\ sendTail' \in [Warps -> Nat] /\ chunk' \in [Warps -> Nat]
        /\ token' \in [Warps -> 0 .. NumTokens]
    BY <1>5, <2>1, <2>2 DEF SendToken, TypeOK
  <2>6. QED
    BY <1>5, <2>3, <2>4, <2>5 DEF SendToken, TypeOK
<1>6. ASSUME NEW w \in Warps, EndChunk(w) PROVE TypeOK'
  BY <1>6 DEF EndChunk, TypeOK
<1>7. CASE SenderSync
  BY <1>7 DEF SenderSync, TypeOK
<1>8. CASE PublishTail
  BY <1>8, WarpsType DEF PublishTail, TypeOK
<1>9. CASE TimeOut
  BY <1>9 DEF TimeOut, SenderTimesOut, ReceiverTimesOut, TypeOK
<1>10. ASSUME NEW v \in Warps, ReadStart(v) PROVE TypeOK'
  <2>1. Decode(startOffset) \in Int
    BY DEF Decode, TypeOK
  <2>2. QED
    BY <1>10, <2>1 DEF ReadStart, TypeOK
<1>11. ASSUME NEW v \in Warps, ReadEnd(v) PROVE TypeOK'
  <2>1. Decode(endOffset) - start[v] \in Int /\ start[v] \in Int
    BY DEF Decode, TypeOK
  <2>2. QED
    BY <1>11, <2>1 DEF ReadEnd, TypeOK
<1>12. CASE PollTail
  BY <1>12, WarpsType DEF PollTail, TypeOK
<1>13. CASE ReceiverSync1
  BY <1>13 DEF ReceiverSync1, TypeOK
<1>14. ASSUME NEW v \in Warps, LoadTail(v) PROVE TypeOK'
  BY <1>14, WarpsType DEF LoadTail, TypeOK
<1>15. ASSUME NEW v \in Warps, CopyToken(v) PROVE TypeOK'
  <2>1. recvHead[v] + next[v] \in Nat /\ next[v] + NumWarps \in Nat
    BY DEF TypeOK
  <2>2. slot[(recvHead[v] + next[v]) % QueueSize] \in Tokens \cup {None}
    BY <2>1, WarpsType DEF TypeOK
  <2>3. recv' \in [Tokens -> Tokens \cup {None}]
    BY <1>15, <2>2 DEF CopyToken, TypeOK
  <2>4. next' \in [Warps -> Nat]
    BY <1>15, <2>1 DEF CopyToken, TypeOK
  <2>5. QED
    BY <1>15, <2>3, <2>4 DEF CopyToken, TypeOK
<1>16. ASSUME NEW v \in Warps, EndCopy(v) PROVE TypeOK'
  <2>1. remaining[v] - RoundSize(v) \in Int
    BY DEF RoundSize, TypeOK
  <2>2. QED
    BY <1>16, <2>1 DEF EndCopy, TypeOK
<1>17. CASE ReceiverSync2
  BY <1>17 DEF ReceiverSync2, TypeOK
<1>18. CASE StoreHead
  BY <1>18, WarpsType DEF StoreHead, TypeOK
<1>19. CASE UNCHANGED vars
  BY <1>19 DEF vars, TypeOK
<1>20. QED
  BY <1>1, <1>2, <1>3, <1>4, <1>5, <1>6, <1>7, <1>8, <1>9, <1>10, <1>11, <1>12, <1>13,
     <1>14, <1>15, <1>16, <1>17, <1>18, <1>19
  DEF Next, Sender, SendWarp, Receiver, RecvWarp, Terminated

\* Every variable keeps its type; the tails, heads and chunk counts of the warps
\* never become negative.
THEOREM TypeCorrect == Spec => []TypeOK
  BY TypeInit, TypeStep, PTL DEF Spec

-----------------------------------------------------------------------------
(* The senders.                                                            *)

Sending(w) == sendPc[w] \in {"chunk", "sync"}

\* The tail at which the chunk of warp w began, or will begin.
RoundTail(w) == IF Sending(w) THEN sendTail[w] - chunk[w] ELSE sendTail[w]

TailsCount == \A w \in Warps : sendTail[w] = Below(inRank, token[w])

RoundsAgree == \A v, w \in Warps : RoundTail(v) = RoundTail(w)

\* A full chunk ends with a token of the rank, any other with the channel.
ChunksBounded ==
  \A w \in Warps : Sending(w) =>
    /\ chunk[w] <= ChunkSize
    /\ chunk[w] = ChunkSize => token[w] - 1 \in inRank
    /\ (sendPc[w] = "sync" /\ chunk[w] < ChunkSize) => token[w] = NumTokens

DoneAtEnd == \A w \in Warps : sendPc[w] = "done" => token[w] = NumTokens

SenderInv == TailsCount /\ RoundsAgree /\ ChunksBounded /\ DoneAtEnd

\* The types that the arguments about the senders need.
SenderTypes ==
  /\ inRank \in SUBSET Tokens
  /\ sendPc \in [Warps -> SendPcs]
  /\ token \in [Warps -> 0 .. NumTokens]
  /\ sendTail \in [Warps -> Nat]
  /\ chunk \in [Warps -> Nat]
  /\ head \in Nat /\ tail \in Nat
  /\ slot \in [Slots -> Tokens \cup {None}]

LEMMA SenderTyped == TypeOK => SenderTypes
  BY DEF TypeOK, SenderTypes

\* When all warps have ended their chunks they are at the same token: they count
\* the same tokens from the same tail, and each stops at a full chunk or the end.
LEMMA MetAgree ==
  ASSUME SenderTypes, SenderInv, \A w \in Warps : sendPc[w] = "sync",
         NEW v \in Warps, NEW w \in Warps
  PROVE  token[v] = token[w] /\ sendTail[v] = sendTail[w]
<1> DEFINE B(t) == Below(inRank, t)
<1>1. ASSUME NEW x \in Warps, NEW y \in Warps PROVE ~(token[x] < token[y])
  <2> SUFFICES ASSUME token[x] < token[y] PROVE FALSE
    OBVIOUS
  <2>1. /\ token[x] \in 0 .. NumTokens /\ token[y] \in 0 .. NumTokens
        /\ chunk[x] \in Nat /\ chunk[y] \in Nat
        /\ sendTail[x] \in Nat /\ sendTail[y] \in Nat
    BY DEF SenderTypes
  <2>2. sendTail[x] - chunk[x] = sendTail[y] - chunk[y]
    BY DEF SenderInv, RoundsAgree, RoundTail, Sending
  <2>3. /\ chunk[x] <= ChunkSize /\ chunk[y] <= ChunkSize
        /\ chunk[x] < ChunkSize => token[x] = NumTokens
        /\ chunk[y] = ChunkSize => token[y] - 1 \in inRank
    BY DEF SenderInv, ChunksBounded, Sending
  <2>4. chunk[x] = ChunkSize
    BY <2>1, <2>3
  <2>5. sendTail[x] = B(token[x]) /\ sendTail[y] = B(token[y])
    BY DEF SenderInv, TailsCount
  <2>6. CASE chunk[y] = ChunkSize
    <3>1. token[y] - 1 \in inRank /\ token[y] - 1 \in Int
      BY <2>1, <2>3, <2>6
    <3>2. B((token[y] - 1) + 1) = B(token[y] - 1) + 1
      BY <3>1, CountStep DEF SenderTypes
    <3>3. (token[y] - 1) + 1 = token[y] /\ token[x] <= token[y] - 1
      BY <2>1
    <3>4. B(token[x]) <= B(token[y] - 1)
      BY <2>1, <3>1, <3>3, CountMonotone DEF SenderTypes
    <3>5. B(token[x]) \in Nat /\ B(token[y] - 1) \in Nat
      BY CountType DEF SenderTypes
    <3>6. B(token[y]) = B(token[y] - 1) + 1
      BY <3>2, <3>3
    <3> HIDE DEF B
    <3>7. B(token[x]) < B(token[y])
      BY <3>4, <3>5, <3>6
    <3>8. QED
      BY <2>1, <2>2, <2>4, <2>5, <2>6, <3>7
  <2>7. CASE chunk[y] # ChunkSize
    <3>1. B(token[x]) <= B(token[y])
      BY <2>1, CountMonotone DEF SenderTypes
    <3> HIDE DEF B
    <3>2. QED
      BY <2>1, <2>2, <2>3, <2>4, <2>5, <2>7, <3>1
  <2>8. QED
    BY <2>6, <2>7
<1>2. token[v] \in Int /\ token[w] \in Int
  BY DEF SenderTypes
<1>3. token[v] = token[w]
  BY <1>1, <1>2
<1>4. QED
  BY <1>3 DEF SenderInv, TailsCount

LEMMA SenderInit == Init => SenderInv
<1> SUFFICES ASSUME Init PROVE SenderInv
  OBVIOUS
<1>1. inRank \in SUBSET Tokens /\ \A w \in Warps : token[w] = 0 /\ sendTail[w] = 0
  BY DEF Init
<1>2. TailsCount
  BY <1>1, CountEnds DEF TailsCount
<1>3. \A w \in Warps : ~Sending(w) /\ RoundTail(w) = 0
  BY <1>1 DEF Init, Sending, RoundTail
<1>4. DoneAtEnd
  BY <1>1 DEF Init, DoneAtEnd
<1>5. QED
  BY <1>2, <1>3, <1>4 DEF SenderInv, RoundsAgree, ChunksBounded

\* The steps that change no tail, token or chunk but move warps along.
LEMMA BeginChunkSender ==
  ASSUME SenderTypes, SenderInv, NEW w \in Warps, BeginChunk(w)
  PROVE  SenderInv' /\ \A v \in Warps : RoundTail(v)' = RoundTail(v)
<1> USE DEF SenderTypes, BeginChunk, SenderStep, SendGoto
<1>1. /\ inRank' = inRank /\ token' = token /\ sendTail' = sendTail
      /\ sendPc[w] = "wait"
      /\ \A v \in Warps : sendPc'[v] = IF v = w THEN "chunk" ELSE sendPc[v]
      /\ \A v \in Warps : chunk'[v] = IF v = w THEN 0 ELSE chunk[v]
  OBVIOUS
<1>2. TailsCount'
  BY <1>1 DEF SenderInv, TailsCount
<1>3. \A v \in Warps : RoundTail(v)' = RoundTail(v)
  BY <1>1 DEF RoundTail, Sending
<1>4. ChunksBounded'
  BY <1>1 DEF SenderInv, ChunksBounded, Sending
<1>5. DoneAtEnd'
  BY <1>1 DEF SenderInv, DoneAtEnd
<1>6. QED
  BY <1>2, <1>3, <1>4, <1>5 DEF SenderInv, RoundsAgree

LEMMA SkipTokenSender ==
  ASSUME SenderTypes, SenderInv, NEW w \in Warps, SkipToken(w)
  PROVE  SenderInv' /\ \A v \in Warps : RoundTail(v)' = RoundTail(v)
<1>1. /\ inRank' = inRank /\ sendTail' = sendTail /\ sendPc' = sendPc /\ chunk' = chunk
      /\ sendPc[w] = "chunk" /\ chunk[w] < ChunkSize /\ token[w] \notin inRank
      /\ token[w] \in Int
      /\ \A v \in Warps : token'[v] = IF v = w THEN token[v] + 1 ELSE token[v]
  BY DEF SenderTypes, SkipToken, SenderStep, MoreInChunk
<1>2. TailsCount'
  <2>1. Below(inRank, token[w] + 1) = Below(inRank, token[w])
    BY <1>1, CountStep DEF SenderTypes
  <2>2. QED
    BY <1>1, <2>1 DEF SenderInv, TailsCount
<1>3. \A v \in Warps : RoundTail(v)' = RoundTail(v)
  BY <1>1 DEF RoundTail, Sending
<1>4. ChunksBounded'
  BY <1>1 DEF SenderInv, ChunksBounded, Sending, SenderTypes
<1>5. DoneAtEnd'
  BY <1>1 DEF SenderInv, DoneAtEnd
<1>6. QED
  BY <1>2, <1>3, <1>4, <1>5 DEF SenderInv, RoundsAgree

LEMMA SendTokenEffect ==
  ASSUME SenderTypes, NEW w \in Warps, SendToken(w)
  PROVE  /\ inRank' = inRank /\ sendPc' = sendPc /\ head' = head /\ tail' = tail
         /\ sendPc[w] = "chunk" /\ chunk[w] < ChunkSize /\ token[w] \in inRank
         /\ \A v \in Warps :
              /\ token'[v] = IF v = w THEN token[v] + 1 ELSE token[v]
              /\ sendTail'[v] = IF v = w THEN sendTail[v] + 1 ELSE sendTail[v]
              /\ chunk'[v] = IF v = w THEN chunk[v] + 1 ELSE chunk[v]
  BY DEF SenderTypes, SendToken, SenderStep, MoreInChunk, NewTail

LEMMA SendTokenSender ==
  ASSUME SenderTypes, SenderInv, NEW w \in Warps, SendToken(w)
  PROVE  SenderInv' /\ \A v \in Warps : RoundTail(v)' = RoundTail(v)
<1>1. token[w] \in Int /\ \A v \in Warps : sendTail[v] \in Int /\ chunk[v] \in Int
  BY DEF SenderTypes
<1>2. TailsCount'
  <2>1. Below(inRank, token[w] + 1) = Below(inRank, token[w]) + 1
    BY <1>1, CountStep, SendTokenEffect DEF SenderTypes
  <2>2. QED
    BY <2>1, SendTokenEffect DEF SenderInv, TailsCount
<1>3. \A v \in Warps : RoundTail(v)' = RoundTail(v)
  BY <1>1, SendTokenEffect DEF RoundTail, Sending
<1>4. ChunksBounded'
  <2>1. (token[w] + 1) - 1 = token[w]
    BY <1>1
  <2>2. QED
    BY <1>1, <2>1, SendTokenEffect DEF SenderInv, ChunksBounded, Sending
<1>5. DoneAtEnd'
  BY SendTokenEffect DEF SenderInv, DoneAtEnd
<1>6. QED
  BY <1>2, <1>3, <1>4, <1>5 DEF SenderInv, RoundsAgree

LEMMA EndChunkSender ==
  ASSUME SenderTypes, SenderInv, NEW w \in Warps, EndChunk(w)
  PROVE  SenderInv' /\ \A v \in Warps : RoundTail(v)' = RoundTail(v)
<1>1. /\ inRank' = inRank /\ token' = token /\ sendTail' = sendTail /\ chunk' = chunk
      /\ sendPc[w] = "chunk" /\ token[w] \in 0 .. NumTokens
      /\ chunk[w] < ChunkSize => token[w] = NumTokens
      /\ \A v \in Warps : sendPc'[v] = IF v = w THEN "sync" ELSE sendPc[v]
  BY DEF SenderTypes, EndChunk, SenderStep, SendGoto, MoreInChunk
<1>2. TailsCount'
  BY <1>1 DEF SenderInv, TailsCount
<1>3. \A v \in Warps : RoundTail(v)' = RoundTail(v)
  BY <1>1 DEF RoundTail, Sending
<1>4. ChunksBounded'
  BY <1>1 DEF SenderInv, ChunksBounded, Sending
<1>5. DoneAtEnd'
  BY <1>1 DEF SenderInv, DoneAtEnd
<1>6. QED
  BY <1>2, <1>3, <1>4, <1>5 DEF SenderInv, RoundsAgree

\* A new round starts from the common tail, which no warp has gone past.
LEMMA SenderSyncSender ==
  ASSUME SenderTypes, SenderInv, SenderSync
  PROVE  SenderInv' /\ \A v \in Warps : RoundTail(v)' = sendTail[v] /\ Sending(v)
<1>1. /\ inRank' = inRank /\ token' = token /\ sendTail' = sendTail
      /\ \A v \in Warps :
           /\ sendPc[v] = "sync" /\ token[v] \in 0 .. NumTokens
           /\ sendPc'[v] = IF v = 0 THEN "publish"
                           ELSE IF token[v] < NumTokens THEN "wait" ELSE "done"
  BY DEF SenderTypes, SenderSync, SendersMet, NextChunk
<1>2. TailsCount'
  BY <1>1 DEF SenderInv, TailsCount
<1>3. \A v \in Warps : RoundTail(v)' = sendTail[v] /\ Sending(v) /\ ~Sending(v)'
  BY <1>1 DEF RoundTail, Sending
<1>4. RoundsAgree'
  <2>1. \A v, w \in Warps : sendTail[v] = sendTail[w]
    BY <1>1, MetAgree
  <2>2. QED
    BY <1>3, <2>1 DEF RoundsAgree
<1>5. DoneAtEnd'
  BY <1>1 DEF DoneAtEnd
<1>6. QED
  BY <1>2, <1>3, <1>4, <1>5 DEF SenderInv, ChunksBounded

\* Warp 0 publishes its tail and goes on; before, it announces the offsets.
LEMMA WarpZeroSender ==
  ASSUME SenderTypes, SenderInv, PublishTail \/ AnnounceEnd \/ AnnounceStart
  PROVE  SenderInv' /\ \A v \in Warps : RoundTail(v)' = RoundTail(v)
<1>1. /\ inRank' = inRank /\ token' = token /\ sendTail' = sendTail /\ chunk' = chunk
      /\ token[0] \in 0 .. NumTokens
      /\ sendPc[0] \in {"start", "end", "publish"}
      /\ sendPc'[0] = "end" \/ sendPc'[0] = IF token[0] < NumTokens THEN "wait" ELSE "done"
      /\ \A v \in Warps \ {0} : sendPc'[v] = sendPc[v]
  BY WarpsType DEF SenderTypes, PublishTail, AnnounceEnd, AnnounceStart, SenderStep, SendGoto, NextChunk
<1>2. \A v \in Warps : Sending(v)' = Sending(v) /\ (Sending(v) => sendPc'[v] = sendPc[v])
  BY <1>1 DEF Sending
<1>3. TailsCount'
  BY <1>1 DEF SenderInv, TailsCount
<1>4. \A v \in Warps : RoundTail(v)' = RoundTail(v)
  BY <1>1, <1>2 DEF RoundTail
<1>5. ChunksBounded'
  BY <1>1, <1>2 DEF SenderInv, ChunksBounded
<1>6. DoneAtEnd'
  BY <1>1 DEF SenderInv, DoneAtEnd
<1>7. QED
  BY <1>3, <1>4, <1>5, <1>6 DEF SenderInv, RoundsAgree

\* All other steps leave the senders alone.
LEMMA SenderFrame ==
  ASSUME SenderInv, UNCHANGED <<inRank, sendPc, token, sendTail, chunk>>
  PROVE  SenderInv' /\ \A v \in Warps : RoundTail(v)' = RoundTail(v)
  BY DEF SenderInv, TailsCount, RoundsAgree, ChunksBounded, DoneAtEnd, RoundTail, Sending

-----------------------------------------------------------------------------
(* The slots.                                                              *)

\* The warp that copies the token at position p.
Copier(p) == (p + 1) % NumWarps

RoomKept == \A w \in Warps : Sending(w) => RoundTail(w) - head <= QueueSize - ChunkSize

WithinCapacity == \A w \in Warps : RoundTail(w) <= head + QueueSize

TailPublished == \A w \in Warps : tail <= RoundTail(w)

\* A token is in its slot from when its copier has passed it until it is released.
SlotsHold ==
  \A t \in inRank :
    (head <= Below(inRank, t) /\ Below(inRank, t) < sendTail[Copier(Below(inRank, t))])
      => slot[Below(inRank, t) % QueueSize] = t

QueueInv == RoomKept /\ WithinCapacity /\ TailPublished /\ SlotsHold

LEMMA ModTypes ==
  ASSUME NEW p \in Nat
  PROVE  p % QueueSize \in Slots /\ Copier(p) \in Warps
<1>1. p % QueueSize \in Slots
  BY DEF Slots
<1>2. p + 1 \in Nat
  OBVIOUS
<1>3. (p + 1) % NumWarps \in Warps
  BY <1>2, WarpsType
<1>4. QED
  BY <1>1, <1>3 DEF Copier

LEMMA RoundTailType ==
  ASSUME SenderTypes, NEW w \in Warps
  PROVE  RoundTail(w) \in Int /\ sendTail[w] \in Int /\ head \in Int /\ tail \in Int
  BY DEF SenderTypes, RoundTail

LEMMA QueueInit == Init => QueueInv
<1> SUFFICES ASSUME Init PROVE QueueInv
  OBVIOUS
<1>1. inRank \in SUBSET Tokens /\ head = 0 /\ tail = 0
      /\ \A w \in Warps : ~Sending(w) /\ sendTail[w] = 0 /\ RoundTail(w) = 0
  BY DEF Init, Sending, RoundTail
<1>2. SlotsHold
  <2> SUFFICES ASSUME NEW t \in inRank
               PROVE  ~(Below(inRank, t) < sendTail[Copier(Below(inRank, t))])
    BY DEF SlotsHold
  <2>1. Below(inRank, t) \in Nat
    BY <1>1, CountType
  <2>2. Copier(Below(inRank, t)) \in Warps
    BY <2>1, ModTypes
  <2>3. QED
    BY <1>1, <2>1, <2>2
<1>3. QED
  BY <1>1, <1>2 DEF QueueInv, RoomKept, WithinCapacity, TailPublished

\* Only the head may change, and only forwards.
LEMMA QueueFrame ==
  ASSUME SenderTypes, QueueInv, head' \in Nat, head <= head',
         UNCHANGED <<inRank, sendPc, token, sendTail, chunk, slot, tail>>
  PROVE  QueueInv'
<1>1. \A w \in Warps : /\ RoundTail(w)' = RoundTail(w) /\ Sending(w)' = Sending(w)
                       /\ RoundTail(w) \in Int
  BY RoundTailType DEF RoundTail, Sending
<1>2. head \in Nat /\ QueueSize \in Nat /\ ChunkSize \in Nat
  BY DEF SenderTypes
<1>3. RoomKept' /\ WithinCapacity' /\ TailPublished'
  BY <1>1, <1>2 DEF QueueInv, RoomKept, WithinCapacity, TailPublished
<1>4. SlotsHold'
  <2> SUFFICES ASSUME NEW t \in inRank, head' <= Below(inRank, t),
                      Below(inRank, t) < sendTail[Copier(Below(inRank, t))]
               PROVE  slot[Below(inRank, t) % QueueSize] = t
    BY DEF SlotsHold, Copier
  <2>1. Below(inRank, t) \in Nat
    BY CountType DEF SenderTypes
  <2>2. head <= Below(inRank, t)
    BY <1>2, <2>1
  <2>3. QED
    BY <2>2 DEF QueueInv, SlotsHold
<1>5. QED
  BY <1>3, <1>4 DEF QueueInv

LEMMA BeginChunkQueue ==
  ASSUME SenderTypes, SenderInv, QueueInv, NEW w \in Warps, BeginChunk(w)
  PROVE  QueueInv'
<1>1. /\ UNCHANGED <<inRank, head, tail, slot, sendTail>>
      /\ sendPc[w] = "wait" /\ sendTail[w] - head <= QueueSize - ChunkSize
      /\ \A v \in Warps : sendPc'[v] = IF v = w THEN "chunk" ELSE sendPc[v]
  BY DEF SenderTypes, BeginChunk, SenderStep, SendGoto, RoomForChunk, queueVars
<1>2. \A v \in Warps : RoundTail(v)' = RoundTail(v)
  BY BeginChunkSender
<1>3. RoomKept'
  <2> SUFFICES ASSUME NEW v \in Warps, Sending(v)'
               PROVE  RoundTail(v)' - head <= QueueSize - ChunkSize
    BY <1>1 DEF RoomKept
  <2>1. CASE v = w
    BY <1>1, <1>2, <2>1 DEF RoundTail, Sending
  <2>2. CASE v # w
    BY <1>1, <1>2, <2>2 DEF QueueInv, RoomKept, Sending
  <2>3. QED
    BY <2>1, <2>2
<1>4. SlotsHold'
  BY <1>1 DEF QueueInv, SlotsHold
<1>5. QED
  BY <1>1, <1>2, <1>3, <1>4 DEF QueueInv, WithinCapacity, TailPublished

LEMMA SkipOrEndQueue ==
  ASSUME SenderTypes, SenderInv, QueueInv, NEW w \in Warps, SkipToken(w) \/ EndChunk(w)
  PROVE  QueueInv'
<1>1. /\ UNCHANGED <<inRank, head, tail, slot, sendTail>>
      /\ \A v \in Warps : Sending(v)' => Sending(v)
  BY DEF SenderTypes, SkipToken, EndChunk, SenderStep, SendGoto, queueVars, Sending
<1>2. \A v \in Warps : RoundTail(v)' = RoundTail(v)
  BY SkipTokenSender, EndChunkSender
<1>3. SlotsHold'
  BY <1>1 DEF QueueInv, SlotsHold
<1>4. QED
  BY <1>1, <1>2, <1>3 DEF QueueInv, RoomKept, WithinCapacity, TailPublished

\* The heart of the matter: a copy into a slot meets no token that is not yet
\* released, as all warps stay within the chunk that the queue has room for.
LEMMA SendTokenQueue ==
  ASSUME SenderTypes, SenderInv, QueueInv, head <= tail, NEW w \in Warps, SendToken(w)
  PROVE  QueueInv'
<1>1. /\ inRank' = inRank /\ sendPc' = sendPc /\ head' = head /\ tail' = tail
      /\ \A v \in Warps : sendTail'[v] = IF v = w THEN sendTail[v] + 1 ELSE sendTail[v]
      /\ slot' = IF Copies(w) THEN [slot EXCEPT ![sendTail[w] % QueueSize] = token[w]] ELSE slot
  BY SendTokenEffect DEF SendToken
<1>2. SenderInv' /\ \A v \in Warps : RoundTail(v)' = RoundTail(v)
  BY SendTokenSender
<1>3. RoomKept' /\ WithinCapacity' /\ TailPublished'
  BY <1>1, <1>2 DEF QueueInv, RoomKept, WithinCapacity, TailPublished, Sending
<1>4. SlotsHold'
  <2> DEFINE p(t) == Below(inRank, t)
             s == sendTail[w]
  <2> SUFFICES ASSUME NEW t \in inRank, head <= p(t), p(t) < sendTail'[Copier(p(t))]
               PROVE  slot'[p(t) % QueueSize] = t
    BY <1>1 DEF SlotsHold, Copier
  <2>1. /\ p(t) \in Nat /\ s \in Nat /\ head \in Nat /\ tail \in Nat
        /\ Copier(p(t)) \in Warps
    BY CountType, ModTypes DEF SenderTypes
  <2>2. ASSUME NEW v \in Warps PROVE sendTail'[v] <= head + QueueSize
    <3>1. RoundTail(w) - head <= QueueSize - ChunkSize
      BY SendTokenEffect DEF QueueInv, RoomKept, Sending
    <3>2. RoundTail(v)' = RoundTail(w)
      BY <1>2 DEF SenderInv, RoundsAgree
    <3>3. Sending(v)' => chunk'[v] <= ChunkSize
      BY <1>2 DEF SenderInv, ChunksBounded
    <3>4. sendTail'[v] \in Int /\ chunk'[v] \in Int /\ RoundTail(w) \in Int
      BY <1>1, SendTokenEffect, RoundTailType DEF SenderTypes
    <3>5. sendTail'[v] <= RoundTail(w) + ChunkSize
      BY <3>2, <3>3, <3>4 DEF RoundTail
    <3>6. QED
      BY <2>1, <3>1, <3>4, <3>5
  <2>3. s < head + QueueSize /\ p(t) < head + QueueSize
    <3>1. sendTail'[w] = s + 1 /\ sendTail'[w] <= head + QueueSize
      BY <1>1, <2>2
    <3>2. sendTail'[Copier(p(t))] <= head + QueueSize
      BY <2>1, <2>2
    <3>3. sendTail'[Copier(p(t))] \in Int
      BY <1>1, <2>1 DEF SenderTypes
    <3>4. QED
      BY <2>1, <3>1, <3>2, <3>3
  <2>4. head <= s
    <3>1. tail <= RoundTail(w) /\ RoundTail(w) \in Int
      BY RoundTailType DEF QueueInv, TailPublished
    <3>2. RoundTail(w) <= s
      BY DEF RoundTail, SenderTypes
    <3>3. QED
      BY <2>1, <3>1, <3>2
  <2>5. s = Below(inRank, token[w]) /\ token[w] \in inRank
    BY SendTokenEffect DEF SenderInv, TailsCount
  <2>6. Copies(w) <=> Copier(s) = w
    BY DEF Copies, Copier
  <2>7. CASE p(t) = s
    <3>1. t = token[w]
      BY <2>5, <2>7, CountInjective DEF SenderTypes
    <3>2. CASE Copies(w)
      <4>1. s % QueueSize \in Slots
        BY <2>1, ModTypes
      <4>2. QED
        BY <1>1, <2>7, <3>1, <3>2, <4>1 DEF SenderTypes
    <3>3. CASE ~Copies(w)
      <4>1. p(t) < sendTail[Copier(p(t))]
        BY <1>1, <2>1, <2>6, <2>7, <3>3
      <4>2. QED
        BY <1>1, <3>3, <4>1 DEF QueueInv, SlotsHold
    <3>4. QED
      BY <3>2, <3>3
  <2>8. CASE p(t) # s
    <3>1. p(t) < sendTail[Copier(p(t))]
      BY <1>1, <2>1, <2>8
    <3>2. slot[p(t) % QueueSize] = t
      BY <3>1 DEF QueueInv, SlotsHold
    <3>3. p(t) % QueueSize # s % QueueSize
      <4> HIDE DEF p, s
      <4>1. QueueSize \in Nat \ {0}
        OBVIOUS
      <4>2. CASE p(t) < s
        <5>1. s - p(t) < QueueSize
          BY <2>1, <2>3, <2>4
        <5>2. QED
          BY <2>1, <4>1, <4>2, <5>1, DistinctSlots
      <4>3. CASE s < p(t)
        <5>1. p(t) - s < QueueSize
          BY <2>1, <2>3, <2>4
        <5>2. QED
          BY <2>1, <4>1, <4>3, <5>1, DistinctSlots
      <4>4. QED
        BY <2>1, <2>8, <4>2, <4>3
    <3>4. p(t) % QueueSize \in Slots
      BY <2>1, ModTypes
    <3>5. QED
      BY <1>1, <3>2, <3>3, <3>4 DEF SenderTypes
  <2>9. QED
    BY <2>7, <2>8
<1>5. QED
  BY <1>3, <1>4 DEF QueueInv

LEMMA SenderSyncQueue ==
  ASSUME SenderTypes, SenderInv, QueueInv, SenderSync
  PROVE  QueueInv'
<1>1. UNCHANGED <<inRank, head, tail, slot, sendTail>>
  BY DEF SenderSync, queueVars
<1>2. \A v \in Warps : RoundTail(v)' = sendTail[v] /\ Sending(v) /\ ~Sending(v)'
  BY SenderSyncSender DEF SenderSync, Sending, NextChunk
<1>3. \A v \in Warps : tail <= sendTail[v] /\ sendTail[v] <= head + QueueSize
  <2> SUFFICES ASSUME NEW v \in Warps
               PROVE  tail <= sendTail[v] /\ sendTail[v] <= head + QueueSize
    OBVIOUS
  <2>1. /\ RoundTail(v) - head <= QueueSize - ChunkSize /\ tail <= RoundTail(v)
        /\ chunk[v] <= ChunkSize /\ RoundTail(v) = sendTail[v] - chunk[v]
    BY <1>2 DEF QueueInv, RoomKept, TailPublished, SenderInv, ChunksBounded, RoundTail
  <2>2. sendTail[v] \in Nat /\ chunk[v] \in Nat /\ head \in Nat /\ tail \in Nat
    BY DEF SenderTypes
  <2>3. QED
    BY <2>1, <2>2
<1>4. SlotsHold'
  BY <1>1 DEF QueueInv, SlotsHold
<1>5. QED
  BY <1>1, <1>2, <1>3, <1>4 DEF QueueInv, RoomKept, WithinCapacity, TailPublished

LEMMA WarpZeroQueue ==
  ASSUME SenderTypes, SenderInv, QueueInv, PublishTail \/ AnnounceEnd \/ AnnounceStart
  PROVE  QueueInv' /\ tail <= tail' /\ \A v \in Warps : tail' <= RoundTail(v)
<1>1. /\ UNCHANGED <<inRank, head, slot, sendTail>>
      /\ tail' = tail \/ (tail' = sendTail[0] /\ sendPc[0] = "publish")
      /\ \A v \in Warps : Sending(v)' => Sending(v)
  BY WarpsType DEF SenderTypes, PublishTail, AnnounceEnd, AnnounceStart, SenderStep, SendGoto,
                   NextChunk, Sending
<1>2. \A v \in Warps : RoundTail(v)' = RoundTail(v)
  BY WarpZeroSender
<1>3. tail <= tail' /\ \A v \in Warps : tail' <= RoundTail(v)
  <2>1. CASE tail' = tail
    BY <2>1 DEF QueueInv, TailPublished, SenderTypes
  <2>2. CASE tail' = sendTail[0] /\ sendPc[0] = "publish"
    <3>1. tail' = RoundTail(0)
      BY <2>2 DEF RoundTail, Sending
    <3>2. \A v \in Warps : RoundTail(v) = RoundTail(0)
      BY WarpsType DEF SenderInv, RoundsAgree
    <3>3. tail <= RoundTail(0) /\ RoundTail(0) \in Int
      BY WarpsType, RoundTailType DEF QueueInv, TailPublished
    <3>4. QED
      BY <3>1, <3>2, <3>3
  <2>3. QED
    BY <1>1, <2>1, <2>2
<1>4. SlotsHold'
  BY <1>1 DEF QueueInv, SlotsHold
<1>5. QED
  BY <1>1, <1>2, <1>3, <1>4 DEF QueueInv, RoomKept, WithinCapacity, TailPublished

\* Tokens below the common tail have been passed by their copiers.
LEMMA UnreadHeld ==
  ASSUME SenderTypes, SenderInv, QueueInv, NEW t \in inRank,
         head <= Below(inRank, t), Below(inRank, t) < tail
  PROVE  slot[Below(inRank, t) % QueueSize] = t
<1> DEFINE p == Below(inRank, t)
           c == Copier(p)
<1>1. p \in Nat /\ c \in Warps
  BY CountType, ModTypes DEF SenderTypes
<1>2. tail <= RoundTail(c) /\ RoundTail(c) <= sendTail[c]
  BY <1>1 DEF QueueInv, TailPublished, RoundTail, SenderTypes
<1>3. tail \in Int /\ RoundTail(c) \in Int /\ sendTail[c] \in Int
  BY <1>1, RoundTailType
<1>4. p < sendTail[c]
  BY <1>1, <1>2, <1>3
<1>5. QED
  BY <1>4 DEF QueueInv, SlotsHold

-----------------------------------------------------------------------------
(* The saved heads.                                                        *)

\* The entry of a token is right from when the warp that saves it has passed it.
HeadsSaved ==
  \A t \in Tokens : t < token[t % NumWarps] =>
    sendHead[t] = IF t \in inRank THEN Below(inRank, t) ELSE -1

LEMMA HeadsInit == Init => HeadsSaved
<1> SUFFICES ASSUME Init, NEW t \in Tokens PROVE ~(t < token[t % NumWarps])
  BY DEF HeadsSaved
<1>1. t \in Nat
  BY DEF Tokens
<1>2. t % NumWarps \in Warps
  BY <1>1, WarpsType
<1>3. QED
  BY <1>1, <1>2 DEF Init

LEMMA HeadsStep ==
  ASSUME TypeOK, SenderInv, HeadsSaved, NEW w \in Warps, SkipToken(w) \/ SendToken(w)
  PROVE  HeadsSaved'
<1> DEFINE value == IF token[w] \in inRank THEN Below(inRank, token[w]) ELSE -1
<1>1. /\ inRank' = inRank /\ token[w] \in Tokens
      /\ \A v \in Warps : token'[v] = IF v = w THEN token[w] + 1 ELSE token[v]
      /\ sendHead' = IF SavesHead(w) THEN [sendHead EXCEPT ![token[w]] = value] ELSE sendHead
  <2>1. sendTail[w] = Below(inRank, token[w])
    BY DEF SenderInv, TailsCount
  <2>2. token[w] \in Tokens /\ inRank' = inRank
    BY DEF SkipToken, SendToken, MoreInChunk, Tokens, TypeOK
  <2>3. token' = [token EXCEPT ![w] = @ + 1]
    BY DEF SkipToken, SendToken
  <2>4. token \in [Warps -> 0 .. NumTokens]
    BY DEF TypeOK
  <2>5. sendHead' = IF SavesHead(w) THEN [sendHead EXCEPT ![token[w]] = value] ELSE sendHead
    BY <2>1 DEF SkipToken, SendToken, SaveHead
  <2> HIDE DEF value
  <2>6. QED
    BY <2>2, <2>3, <2>4, <2>5
<1> SUFFICES ASSUME NEW t \in Tokens, t < token'[t % NumWarps]
             PROVE  sendHead'[t] = IF t \in inRank THEN Below(inRank, t) ELSE -1
  BY <1>1 DEF HeadsSaved
<1>2. t \in Nat /\ token[w] \in Nat
  BY <1>1 DEF Tokens
<1>3. t % NumWarps \in Warps
  BY <1>2, WarpsType
<1>4. sendHead \in [Tokens -> Int]
  BY DEF TypeOK
<1>5. CASE t = token[w]
  <2>1. CASE SavesHead(w)
    BY <1>1, <1>4, <1>5, <2>1
  <2>2. CASE ~SavesHead(w)
    <3>1. t < token[t % NumWarps]
      BY <1>1, <1>3, <1>5, <2>2 DEF SavesHead
    <3>2. QED
      BY <1>1, <2>2, <3>1 DEF HeadsSaved
  <2>3. QED
    BY <2>1, <2>2
<1>6. CASE t # token[w]
  <2>1. t < token[t % NumWarps]
    BY <1>1, <1>2, <1>3, <1>6
  <2>2. sendHead'[t] = sendHead[t]
    BY <1>1, <1>4, <1>6
  <2>3. QED
    BY <2>1, <2>2 DEF HeadsSaved
<1>7. QED
  BY <1>5, <1>6

LEMMA HeadsFrame ==
  ASSUME HeadsSaved, UNCHANGED <<inRank, token, sendHead>>
  PROVE  HeadsSaved'
  BY DEF HeadsSaved

-----------------------------------------------------------------------------
(* The receivers.                                                          *)

InRound(v) == recvPc[v] \in {"load", "copy", "sync2"}

\* The head from which the receivers copy in this round, or will in the next one:
\* in a round it is stored already, between rounds the last warp still holds it.
RoundHead == IF InRound(Last) THEN head ELSE recvHead[Last]

RoundsUniform == \A v, w \in Warps : InRound(v) <=> InRound(w)

HeadOrder == head <= RoundHead /\ RoundHead <= sharedTail /\ sharedTail <= tail

HeadStored ==
  /\ recvPc[Last] # "store" => head = RoundHead
  /\ \A v \in Warps : recvPc[v] = "store" => v = Last

RecvWarps ==
  \A v \in Warps :
    /\ recvHead[v] = IF recvPc[v] = "sync2" THEN sharedTail ELSE RoundHead
    /\ recvPc[v] = "copy" => recvTail[v] = sharedTail /\ next[v] % NumWarps = v

\* Everything below the head of the round has arrived ...
Received == \A t \in inRank : Below(inRank, t) < RoundHead => recv[Below(inRank, t)] = t

\* Warp v has to copy the token at position p in this round, and is past it.
CopiedBy(v, p) ==
  /\ RoundHead <= p /\ p < sharedTail
  /\ (p - RoundHead) % NumWarps = v
  /\ \/ recvPc[v] = "sync2"
     \/ recvPc[v] = "copy" /\ p - RoundHead < next[v]

\* ... and what the warps have copied in the round.
ReceivedInRound ==
  \A v \in Warps, t \in inRank :
    CopiedBy(v, Below(inRank, t)) => recv[Below(inRank, t)] = t

Offsets ==
  /\ startOffset \in {0, Encode(StartOffset)}
  /\ endOffset \in {0, Encode(StartOffset + NumSent)}
  /\ \A v \in Warps :
       /\ recvPc[v] \in {"start", "end"} => recvHead[v] = 0
       /\ recvPc[v] # "start" => start[v] = StartOffset
       /\ recvPc[v] \notin {"start", "end"} => remaining[v] = NumSent - recvHead[v]
       /\ recvPc[v] = "done" => remaining[v] <= 0
  /\ recvPc[0] \notin {"start", "end"} => channelOffset = StartOffset

ReceiverInv ==
  RoundsUniform /\ HeadOrder /\ HeadStored /\ RecvWarps /\ Received /\ ReceivedInRound /\ Offsets

IInv == TypeOK /\ SenderInv /\ QueueInv /\ HeadsSaved /\ ReceiverInv

\* The types that the arguments about the receivers need.
ReceiverTypes ==
  /\ inRank \in SUBSET Tokens
  /\ startOffset \in Int /\ endOffset \in Int
  /\ head \in Nat /\ tail \in Nat /\ sharedTail \in Nat
  /\ slot \in [Slots -> Tokens \cup {None}]
  /\ recvPc \in [Warps -> RecvPcs]
  /\ start \in [Warps -> Int] /\ remaining \in [Warps -> Int]
  /\ recvHead \in [Warps -> Nat] /\ recvTail \in [Warps -> Nat] /\ next \in [Warps -> Nat]
  /\ recv \in [Tokens -> Tokens \cup {None}]
  /\ channelOffset \in Int

LEMMA ReceiverTyped == TypeOK => ReceiverTypes /\ RoundHead \in Nat /\ NumSent \in Nat
  BY LastType, NumSentType DEF TypeOK, ReceiverTypes, RoundHead

LEMMA ReceiverInit == Init => ReceiverInv
<1> SUFFICES ASSUME Init PROVE ReceiverInv
  OBVIOUS
<1>1. /\ inRank \in SUBSET Tokens
      /\ \A v \in Warps : recvPc[v] = "start" /\ recvHead[v] = 0
      /\ head = 0 /\ tail = 0 /\ sharedTail = 0 /\ RoundHead = 0
  BY LastType DEF Init, RoundHead, InRound
<1>2. Received
  BY <1>1, CountType DEF Received
<1>3. Offsets
  BY <1>1, LastType DEF Offsets, Init
<1>4. QED
  BY <1>1, <1>2, <1>3, LastType
  DEF ReceiverInv, RoundsUniform, HeadOrder, HeadStored, RecvWarps, ReceivedInRound, CopiedBy, InRound

\* What a step does to the parts that speak of positions: nothing, if it changes
\* neither the round nor what was copied.
LEMMA ReceivedFrame ==
  ASSUME Received, ReceivedInRound, inRank' = inRank, recv' = recv, RoundHead' = RoundHead,
         \A v \in Warps, q \in Nat : CopiedBy(v, q)' => CopiedBy(v, q),
         inRank \in SUBSET Tokens
  PROVE  Received' /\ ReceivedInRound'
<1>1. Received'
  BY DEF Received
<1>2. ReceivedInRound'
  <2> SUFFICES ASSUME NEW v \in Warps, NEW t \in inRank, CopiedBy(v, Below(inRank, t))'
               PROVE  recv[Below(inRank, t)] = t
    BY DEF ReceivedInRound
  <2>1. Below(inRank, t) \in Nat
    BY CountType
  <2> DEFINE q == Below(inRank, t)
  <2>2. CopiedBy(v, q)'
    OBVIOUS
  <2> HIDE DEF q
  <2>3. q \in Nat /\ CopiedBy(v, q)
    BY <2>1, <2>2 DEF q
  <2>4. QED
    BY <2>3 DEF ReceivedInRound, q
<1>3. QED
  BY <1>1, <1>2

\* The steps of the sender: the offsets are announced once, the tail grows.
LEMMA SenderStepReceiver ==
  ASSUME ReceiverTypes, RoundHead \in Nat, ReceiverInv,
         tail' \in Nat, tail <= tail',
         UNCHANGED <<inRank, head, recvVars>>,
         startOffset' \in {startOffset, Encode(StartOffset)},
         endOffset' \in {endOffset, Encode(StartOffset + NumSent)}
  PROVE  ReceiverInv'
<1>1. /\ RoundHead' = RoundHead /\ NumSent' = NumSent
      /\ UNCHANGED <<recvPc, start, remaining, sharedTail, recvHead, recvTail, next, recv, channelOffset>>
  BY DEF RoundHead, InRound, NumSent, recvVars
<1>2. RoundsUniform' /\ HeadStored' /\ RecvWarps'
  BY <1>1 DEF ReceiverInv, RoundsUniform, HeadStored, RecvWarps, InRound
<1>3. HeadOrder'
  BY <1>1 DEF ReceiverInv, HeadOrder, ReceiverTypes
<1>4. Received' /\ ReceivedInRound'
  BY <1>1, ReceivedFrame DEF ReceiverInv, CopiedBy, ReceiverTypes
<1>5. Offsets'
  BY <1>1 DEF ReceiverInv, Offsets
<1>6. QED
  BY <1>2, <1>3, <1>4, <1>5 DEF ReceiverInv

LEMMA ReadStartReceiver ==
  ASSUME ReceiverTypes, ReceiverInv, NEW v \in Warps, ReadStart(v)
  PROVE  ReceiverInv'
<1>1. /\ UNCHANGED <<inRank, startOffset, endOffset, head, tail, remaining, sharedTail, recvHead,
                     recvTail, next, recv, channelOffset>>
      /\ recvPc[v] = "start"
      /\ \A w \in Warps : recvPc'[w] = IF w = v THEN "end" ELSE recvPc[w]
      /\ \A w \in Warps : start'[w] = IF w = v THEN Decode(startOffset) ELSE start[w]
  BY DEF ReceiverTypes, ReadStart, RecvStep, RecvGoto, queueVars
<1>2. Decode(startOffset) = StartOffset
  BY DEF ReadStart, Decode, Encode, ReceiverInv, Offsets
<1>3. RoundHead' = RoundHead /\ \A w \in Warps : InRound(w)' = InRound(w)
  <2>1. \A w \in Warps : InRound(w)' = InRound(w)
    BY <1>1 DEF InRound
  <2>2. QED
    BY <1>1, <2>1, LastType DEF RoundHead
<1>4. RoundsUniform' /\ HeadStored' /\ RecvWarps' /\ HeadOrder'
  BY <1>1, <1>3, LastType DEF ReceiverInv, RoundsUniform, HeadStored, RecvWarps, HeadOrder
<1>5. Received' /\ ReceivedInRound'
  BY <1>1, <1>3, ReceivedFrame DEF ReceiverInv, CopiedBy, ReceiverTypes
<1>6. Offsets'
  BY <1>1, <1>2, LastType DEF ReceiverInv, Offsets, NumSent
<1>7. QED
  BY <1>4, <1>5, <1>6 DEF ReceiverInv

LEMMA ReadEndReceiver ==
  ASSUME ReceiverTypes, NumSent \in Nat, ReceiverInv, NEW v \in Warps, ReadEnd(v)
  PROVE  ReceiverInv'
<1> DEFINE left == Decode(endOffset) - start[v]
<1>1. /\ UNCHANGED <<inRank, startOffset, endOffset, head, tail, start, sharedTail, recvHead,
                     recvTail, next, recv>>
      /\ recvPc[v] = "end" /\ endOffset # 0
      /\ \A w \in Warps : recvPc'[w] = IF w = v THEN NextRound(v, left) ELSE recvPc[w]
      /\ \A w \in Warps : remaining'[w] = IF w = v THEN left ELSE remaining[w]
      /\ channelOffset' = IF v = 0 THEN start[v] ELSE channelOffset
  BY DEF ReceiverTypes, ReadEnd, RecvStep, RecvGoto, queueVars
<1>2. start[v] = StartOffset /\ recvHead[v] = 0
  BY <1>1 DEF ReceiverInv, Offsets
<1>3. left = NumSent
  BY <1>1, <1>2 DEF Decode, Encode, ReceiverInv, Offsets
<1> HIDE DEF left
<1>4. NextRound(v, left) \in {"done", "poll", "sync1"} /\ (NextRound(v, left) = "done" => left <= 0)
  BY DEF NextRound
<1>5. RoundHead' = RoundHead /\ \A w \in Warps : InRound(w)' = InRound(w)
  <2>1. \A w \in Warps : InRound(w)' = InRound(w)
    BY <1>1, <1>4 DEF InRound
  <2>2. QED
    BY <1>1, <2>1, LastType DEF RoundHead
<1>6. RoundsUniform' /\ HeadStored' /\ RecvWarps' /\ HeadOrder'
  BY <1>1, <1>4, <1>5, LastType DEF ReceiverInv, RoundsUniform, HeadStored, RecvWarps, HeadOrder
<1>7. Received' /\ ReceivedInRound'
  BY <1>1, <1>4, <1>5, ReceivedFrame DEF ReceiverInv, CopiedBy, ReceiverTypes
<1>8. Offsets'
  <2>1. UNCHANGED NumSent
    BY <1>1 DEF NumSent
  <2>2. \A w \in Warps :
          /\ recvPc'[w] \in {"start", "end"} => recvHead[w] = 0
          /\ recvPc'[w] # "start" => start[w] = StartOffset
          /\ recvPc'[w] = "done" => remaining'[w] <= 0
    BY <1>1, <1>2, <1>3, <1>4 DEF ReceiverInv, Offsets
  <2>3. \A w \in Warps : recvPc'[w] \notin {"start", "end"} => remaining'[w] = NumSent - recvHead[w]
    BY <1>1, <1>2, <1>3 DEF ReceiverInv, Offsets
  <2>4. recvPc'[0] \notin {"start", "end"} => channelOffset' = StartOffset
    BY <1>1, <1>2, LastType DEF ReceiverInv, Offsets
  <2>5. QED
    BY <1>1, <2>1, <2>2, <2>3, <2>4 DEF ReceiverInv, Offsets
<1>9. QED
  BY <1>6, <1>7, <1>8 DEF ReceiverInv

LEMMA PollTailReceiver ==
  ASSUME ReceiverTypes, RoundHead \in Nat, ReceiverInv, PollTail
  PROVE  ReceiverInv'
<1>1. /\ UNCHANGED <<inRank, startOffset, endOffset, head, tail, start, remaining, recvHead,
                     recvTail, next, recv, channelOffset>>
      /\ recvPc[0] = "poll" /\ sharedTail' = tail
      /\ \A w \in Warps : recvPc'[w] = IF w = 0 THEN "sync1" ELSE recvPc[w]
  BY LastType DEF ReceiverTypes, PollTail, RecvStep, RecvGoto, queueVars
<1>2. \A w \in Warps : ~InRound(w)
  BY <1>1, LastType DEF ReceiverInv, RoundsUniform, InRound
<1>3. \A w \in Warps : ~InRound(w)'
  BY <1>1, <1>2 DEF InRound
<1>4. RoundHead' = RoundHead
  BY <1>1, <1>2, <1>3, LastType DEF RoundHead
<1>5. RoundsUniform' /\ HeadStored' /\ HeadOrder'
  BY <1>1, <1>3, <1>4, LastType DEF ReceiverInv, RoundsUniform, HeadStored, HeadOrder, ReceiverTypes
<1>6. RecvWarps'
  BY <1>1, <1>2, <1>3, <1>4 DEF ReceiverInv, RecvWarps, InRound
<1>7. Received' /\ ReceivedInRound'
  <2>1. \A v \in Warps, q \in Nat : ~CopiedBy(v, q)'
    BY <1>3 DEF CopiedBy, InRound
  <2>2. QED
    BY <1>1, <1>4, <2>1, ReceivedFrame DEF ReceiverInv, ReceiverTypes
<1>8. Offsets'
  BY <1>1, LastType DEF ReceiverInv, Offsets, NumSent
<1>9. QED
  BY <1>5, <1>6, <1>7, <1>8 DEF ReceiverInv

LEMMA Sync1Receiver ==
  ASSUME ReceiverTypes, ReceiverInv, ReceiverSync1
  PROVE  ReceiverInv'
<1>1. /\ UNCHANGED <<inRank, startOffset, endOffset, head, tail, start, remaining, sharedTail,
                     recvHead, recvTail, next, recv, channelOffset>>
      /\ \A w \in Warps : recvPc[w] = "sync1" /\ recvPc'[w] = "load"
  BY DEF ReceiverTypes, ReceiverSync1, ReceiversMet, queueVars
<1>2. \A w \in Warps : ~InRound(w) /\ InRound(w)'
  BY <1>1 DEF InRound
<1>3. RoundHead' = RoundHead
  BY <1>1, <1>2, LastType DEF RoundHead, ReceiverInv, HeadStored
<1>4. RoundsUniform' /\ HeadStored' /\ HeadOrder' /\ RecvWarps'
  BY <1>1, <1>2, <1>3, LastType
  DEF ReceiverInv, RoundsUniform, HeadStored, HeadOrder, RecvWarps
<1>5. Received' /\ ReceivedInRound'
  <2>1. \A v \in Warps, q \in Nat : ~CopiedBy(v, q)'
    BY <1>1 DEF CopiedBy
  <2>2. QED
    BY <1>1, <1>3, <2>1, ReceivedFrame DEF ReceiverInv, ReceiverTypes
<1>6. Offsets'
  BY <1>1, LastType DEF ReceiverInv, Offsets, NumSent
<1>7. QED
  BY <1>4, <1>5, <1>6 DEF ReceiverInv

LEMMA LoadTailReceiver ==
  ASSUME ReceiverTypes, RoundHead \in Nat, ReceiverInv, NEW v \in Warps, LoadTail(v)
  PROVE  ReceiverInv'
<1>1. /\ UNCHANGED <<inRank, startOffset, endOffset, head, tail, start, remaining, sharedTail,
                     recvHead, recv, channelOffset>>
      /\ recvPc[v] = "load"
      /\ \A w \in Warps :
           /\ recvPc'[w] = IF w = v THEN "copy" ELSE recvPc[w]
           /\ recvTail'[w] = IF w = v THEN sharedTail ELSE recvTail[w]
           /\ next'[w] = IF w = v THEN v ELSE next[w]
  BY DEF ReceiverTypes, LoadTail, RecvStep, RecvGoto, queueVars
<1>2. RoundHead' = RoundHead /\ \A w \in Warps : InRound(w)' = InRound(w)
  <2>1. \A w \in Warps : InRound(w)' = InRound(w)
    BY <1>1 DEF InRound
  <2>2. QED
    BY <1>1, <2>1, LastType DEF RoundHead
<1>3. RoundsUniform' /\ HeadStored' /\ HeadOrder'
  BY <1>1, <1>2, LastType DEF ReceiverInv, RoundsUniform, HeadStored, HeadOrder
<1>4. \A n \in Nat : n <= v => n % NumWarps = n
  BY DEF Warps
<1>5. RecvWarps'
  <2>1. v % NumWarps = v
    BY <1>4 DEF Warps
  <2>2. QED
    BY <1>1, <1>2, <2>1 DEF ReceiverInv, RecvWarps
<1>6. Received' /\ ReceivedInRound'
  <2>1. ASSUME NEW w \in Warps, NEW q \in Nat, CopiedBy(w, q)' PROVE CopiedBy(w, q)
    <3>1. CASE w = v
      <4>1. /\ RoundHead <= q /\ q - RoundHead < v /\ (q - RoundHead) % NumWarps = v
        BY <1>1, <1>2, <2>1, <3>1 DEF CopiedBy
      <4> DEFINE n == q - RoundHead
      <4>2. n \in Nat /\ n < v /\ n % NumWarps = v
        BY <4>1
      <4> HIDE DEF n
      <4>3. QED
        BY <1>4, <4>2 DEF Warps
    <3>2. CASE w # v
      BY <1>1, <1>2, <2>1, <3>2 DEF CopiedBy
    <3>3. QED
      BY <3>1, <3>2
  <2>2. QED
    BY <1>1, <1>2, <2>1, ReceivedFrame DEF ReceiverInv, ReceiverTypes
<1>7. Offsets'
  BY <1>1, LastType DEF ReceiverInv, Offsets, NumSent
<1>8. QED
  BY <1>3, <1>5, <1>6, <1>7 DEF ReceiverInv

LEMMA TailBounded ==
  ASSUME SenderTypes, SenderInv, QueueInv
  PROVE  tail <= NumSent
<1>1. tail <= RoundTail(0) /\ RoundTail(0) <= sendTail[0]
  BY LastType DEF QueueInv, TailPublished, RoundTail, SenderTypes
<1>2. RoundTail(0) \in Int /\ sendTail[0] \in Int /\ tail \in Int
  BY LastType, RoundTailType
<1>3. sendTail[0] = Below(inRank, token[0]) /\ inRank \in SUBSET Tokens
  BY LastType DEF SenderInv, TailsCount, SenderTypes
<1>4. sendTail[0] <= NumSent
  BY <1>3, CountType DEF NumSent
<1>5. NumSent \in Nat
  BY <1>3, TokensFinite DEF NumSent
<1>6. QED
  BY <1>1, <1>2, <1>4, <1>5

\* The position that warp v copies next.
NextCopy(v) == recvHead[v] + next[v]

\* A copy reads the slot of a token that is published and not released.
LEMMA CopyTokenEffect ==
  ASSUME TypeOK, SenderInv, QueueInv, ReceiverInv, NEW v \in Warps, CopyToken(v)
  PROVE  /\ UNCHANGED <<inRank, startOffset, endOffset, head, tail, recvPc, start, remaining,
                        sharedTail, recvHead, recvTail, channelOffset>>
         /\ recvPc[v] = "copy" /\ next[v] \in Nat /\ next[v] % NumWarps = v
         /\ \A w \in Warps : next'[w] = IF w = v THEN next[v] + NumWarps ELSE next[w]
         /\ NextCopy(v) \in Nat /\ NextCopy(v) = RoundHead + next[v]
         /\ head <= NextCopy(v) /\ NextCopy(v) < tail /\ NextCopy(v) < NumSent
         /\ \A q \in Nat : q # NextCopy(v) => recv'[q] = recv[q]
         /\ \A t \in inRank : Below(inRank, t) = NextCopy(v) => recv'[NextCopy(v)] = t
<1> DEFINE p == NextCopy(v)
<1>1. /\ UNCHANGED <<inRank, startOffset, endOffset, head, tail, recvPc, start, remaining, sharedTail,
                     recvHead, recvTail, channelOffset>>
      /\ recvPc[v] = "copy" /\ next[v] < recvTail[v] - recvHead[v]
      /\ recv' = [recv EXCEPT ![p] = slot[p % QueueSize]]
      /\ \A w \in Warps : next'[w] = IF w = v THEN next[v] + NumWarps ELSE next[w]
  BY DEF TypeOK, CopyToken, RecvStep, RoundSize, queueVars, NextCopy
<1>2. ReceiverTypes /\ SenderTypes /\ RoundHead \in Nat /\ NumSent \in Nat /\ NumSent <= NumTokens
  BY ReceiverTyped, SenderTyped, NumSentType
<1>3. /\ recvHead[v] = RoundHead /\ recvTail[v] = sharedTail /\ next[v] % NumWarps = v
      /\ head = RoundHead /\ sharedTail <= tail
  <2>1. InRound(v) /\ InRound(Last)
    BY <1>1, LastType DEF InRound, ReceiverInv, RoundsUniform
  <2>2. QED
    BY <1>1, <2>1 DEF ReceiverInv, RecvWarps, HeadOrder, RoundHead
<1>4. /\ next[v] \in Nat /\ p \in Nat /\ p = RoundHead + next[v]
      /\ head <= p /\ p < tail /\ tail \in Nat
  <2>1. /\ next[v] \in Nat /\ recvHead[v] \in Nat /\ sharedTail \in Nat
        /\ tail \in Nat /\ head \in Nat
    BY <1>2 DEF ReceiverTypes
  <2>2. QED
    BY <1>1, <1>3, <2>1 DEF NextCopy
<1>5. p < NumSent /\ p \in Tokens
  BY <1>2, <1>4, TailBounded DEF Tokens
<1> HIDE DEF p
<1>6. ASSUME NEW q \in Nat
      PROVE  recv'[q] = IF q = p THEN slot[p % QueueSize] ELSE recv[q]
  BY <1>1, <1>2, <1>5, <1>6 DEF ReceiverTypes
<1>7. ASSUME NEW t \in inRank, Below(inRank, t) = p
      PROVE  recv'[p] = t
  <2>1. slot[p % QueueSize] = t
    BY <1>2, <1>4, <1>7, UnreadHeld
  <2>2. QED
    BY <1>4, <1>6, <2>1
<1>8. QED
  BY <1>1, <1>3, <1>4, <1>5, <1>6, <1>7 DEF p

LEMMA CopyTokenReceiver ==
  ASSUME TypeOK, SenderInv, QueueInv, ReceiverInv, NEW v \in Warps, CopyToken(v)
  PROVE  ReceiverInv'
<1> DEFINE p == NextCopy(v)
<1>1. /\ UNCHANGED <<inRank, startOffset, endOffset, head, tail, recvPc, start, remaining, sharedTail,
                     recvHead, recvTail, channelOffset>>
      /\ recvPc[v] = "copy" /\ next[v] \in Nat /\ next[v] % NumWarps = v
      /\ \A w \in Warps : next'[w] = IF w = v THEN next[v] + NumWarps ELSE next[w]
  BY CopyTokenEffect
<1>2. ReceiverTypes /\ RoundHead \in Nat
  BY ReceiverTyped
<1>3. p \in Nat /\ p = RoundHead + next[v] /\ RoundHead <= p
  <2>1. p \in Nat /\ p = RoundHead + next[v]
    BY CopyTokenEffect
  <2>2. QED
    BY <1>1, <1>2, <2>1
<1>4. \A q \in Nat : q # p => recv'[q] = recv[q]
  BY CopyTokenEffect
<1>5. ASSUME NEW t \in inRank, Below(inRank, t) = p
      PROVE  recv'[p] = t
  BY <1>5, CopyTokenEffect
<1> HIDE DEF p
<1>6. RoundHead' = RoundHead /\ \A w \in Warps : InRound(w)' = InRound(w)
  BY <1>1 DEF RoundHead, InRound
<1>7. RoundsUniform' /\ HeadStored' /\ HeadOrder'
  BY <1>1, <1>6 DEF ReceiverInv, RoundsUniform, HeadStored, HeadOrder
<1>8. RecvWarps'
  <2>1. (next[v] + NumWarps) % NumWarps = v
    BY <1>1, NextTurn
  <2>2. QED
    BY <1>1, <1>6, <2>1 DEF ReceiverInv, RecvWarps
<1>9. Received'
  <2> SUFFICES ASSUME NEW t \in inRank, Below(inRank, t) < RoundHead
               PROVE  recv'[Below(inRank, t)] = t
    BY <1>1, <1>6 DEF Received
  <2>1. Below(inRank, t) \in Nat
    BY <1>2, CountType DEF ReceiverTypes
  <2>2. recv[Below(inRank, t)] = t
    BY DEF ReceiverInv, Received
  <2>3. QED
    BY <1>4, <1>5, <2>1, <2>2
<1>10. ReceivedInRound'
  <2> SUFFICES ASSUME NEW w \in Warps, NEW t \in inRank, CopiedBy(w, Below(inRank, t))'
               PROVE  recv'[Below(inRank, t)] = t
    BY <1>1 DEF ReceivedInRound
  <2> DEFINE q == Below(inRank, t)
  <2>1. q \in Nat
    BY <1>2, CountType DEF ReceiverTypes
  <2>2. /\ RoundHead <= q /\ q < sharedTail /\ (q - RoundHead) % NumWarps = w
        /\ recvPc[w] = "sync2" \/ (recvPc[w] = "copy" /\ q - RoundHead < next'[w])
    BY <1>1, <1>6 DEF CopiedBy
  <2>3. CASE q = p
    BY <1>5, <2>3
  <2>4. CASE q # p
    <3>1. CopiedBy(w, q) => recv[q] = t
      BY DEF ReceiverInv, ReceivedInRound
    <3>2. recv'[q] = recv[q]
      BY <1>4, <2>1, <2>4
    <3> HIDE DEF q
    <3>3. CopiedBy(w, q)
      <4>1. CASE w # v
        BY <1>1, <2>2, <4>1 DEF CopiedBy
      <4>2. CASE w = v
        <5>1. /\ RoundHead <= q /\ q < sharedTail /\ (q - RoundHead) % NumWarps = v
              /\ q - RoundHead < next[v] + NumWarps
          BY <1>1, <2>2, <4>2
        <5> DEFINE d == q - RoundHead
        <5>2. d \in Nat /\ d % NumWarps = v /\ d < next[v] + NumWarps /\ d # next[v]
          BY <1>1, <1>2, <1>3, <2>1, <2>4, <5>1
        <5>3. d < next[v]
          <6> HIDE DEF d
          <6>1. ASSUME next[v] < d PROVE FALSE
            <7>1. d - next[v] < NumWarps /\ NumWarps \in Nat \ {0}
              BY <1>1, <5>2
            <7>2. next[v] % NumWarps # d % NumWarps
              BY <1>1, <5>2, <6>1, <7>1, DistinctSlots
            <7>3. QED
              BY <1>1, <5>2, <7>2
          <6>2. QED
            BY <1>1, <5>2, <6>1
        <5>4. QED
          BY <1>1, <4>2, <5>1, <5>3 DEF CopiedBy
      <4>3. QED
        BY <4>1, <4>2
    <3>4. QED
      BY <3>1, <3>2, <3>3 DEF q
  <2>5. QED
    BY <2>3, <2>4
<1>11. Offsets'
  BY <1>1 DEF ReceiverInv, Offsets, NumSent
<1>12. QED
  BY <1>7, <1>8, <1>9, <1>10, <1>11 DEF ReceiverInv

LEMMA EndCopyReceiver ==
  ASSUME ReceiverTypes, RoundHead \in Nat, NumSent \in Nat, ReceiverInv,
         NEW v \in Warps, EndCopy(v)
  PROVE  ReceiverInv'
<1>1. /\ UNCHANGED <<inRank, startOffset, endOffset, head, tail, start, sharedTail, recvTail, next,
                     recv, channelOffset>>
      /\ recvPc[v] = "copy" /\ next[v] >= recvTail[v] - recvHead[v]
      /\ \A w \in Warps :
           /\ recvPc'[w] = IF w = v THEN "sync2" ELSE recvPc[w]
           /\ recvHead'[w] = IF w = v THEN recvTail[v] ELSE recvHead[w]
           /\ remaining'[w] = IF w = v THEN remaining[v] - (recvTail[v] - recvHead[v])
                              ELSE remaining[w]
  BY DEF ReceiverTypes, EndCopy, RecvStep, RecvGoto, RoundSize, queueVars
<1>2. /\ recvHead[v] = RoundHead /\ recvTail[v] = sharedTail
      /\ remaining[v] = NumSent - recvHead[v]
  BY <1>1 DEF ReceiverInv, RecvWarps, Offsets
<1>3. /\ recvHead[v] \in Nat /\ recvTail[v] \in Nat /\ next[v] \in Nat /\ sharedTail \in Nat
  BY DEF ReceiverTypes
<1>4. RoundHead' = RoundHead /\ \A w \in Warps : InRound(w)' = InRound(w)
  <2>1. \A w \in Warps : InRound(w)' = InRound(w)
    BY <1>1 DEF InRound
  <2>2. InRound(v) => InRound(Last)
    BY LastType DEF ReceiverInv, RoundsUniform
  <2>3. InRound(Last)
    BY <1>1, <2>2 DEF InRound
  <2>4. QED
    BY <1>1, <2>1, <2>3, LastType DEF RoundHead
<1>5. RoundsUniform' /\ HeadOrder'
  BY <1>1, <1>4 DEF ReceiverInv, RoundsUniform, HeadOrder
<1>6. HeadStored' /\ RecvWarps'
  BY <1>1, <1>2, <1>4, LastType DEF ReceiverInv, HeadStored, RecvWarps
<1>7. Received' /\ ReceivedInRound'
  <2>1. ASSUME NEW w \in Warps, NEW q \in Nat, CopiedBy(w, q)' PROVE CopiedBy(w, q)
    <3>1. CASE w = v
      <4>1. RoundHead <= q /\ q < sharedTail /\ (q - RoundHead) % NumWarps = v
        BY <1>1, <1>4, <2>1, <3>1 DEF CopiedBy
      <4>2. q - RoundHead < next[v]
        BY <1>1, <1>2, <1>3, <4>1
      <4>3. QED
        BY <1>1, <3>1, <4>1, <4>2 DEF CopiedBy
    <3>2. CASE w # v
      BY <1>1, <1>4, <2>1, <3>2 DEF CopiedBy
    <3>3. QED
      BY <3>1, <3>2
  <2>2. QED
    BY <1>1, <1>4, <2>1, ReceivedFrame DEF ReceiverInv, ReceiverTypes
<1>8. Offsets'
  <2>1. UNCHANGED NumSent
    BY <1>1 DEF NumSent
  <2>2. remaining'[v] = NumSent - recvHead'[v]
    BY <1>1, <1>2, <1>3
  <2>3. \A w \in Warps :
          /\ recvPc'[w] \in {"start", "end"} => recvHead'[w] = 0
          /\ recvPc'[w] # "start" => start[w] = StartOffset
          /\ recvPc'[w] \notin {"start", "end"} => remaining'[w] = NumSent - recvHead'[w]
          /\ recvPc'[w] = "done" => remaining'[w] <= 0
    BY <1>1, <2>2 DEF ReceiverInv, Offsets
  <2>4. recvPc'[0] \notin {"start", "end"} => channelOffset = StartOffset
    BY <1>1, LastType DEF ReceiverInv, Offsets
  <2>5. QED
    BY <1>1, <2>1, <2>3, <2>4 DEF ReceiverInv, Offsets
<1>9. QED
  BY <1>5, <1>6, <1>7, <1>8 DEF ReceiverInv

\* All warps have copied their tokens: everything up to the shared tail is there.
LEMMA Sync2Receiver ==
  ASSUME ReceiverTypes, RoundHead \in Nat, NumSent \in Nat, ReceiverInv, ReceiverSync2
  PROVE  ReceiverInv'
<1>1. /\ UNCHANGED <<inRank, startOffset, endOffset, head, tail, start, remaining, sharedTail,
                     recvHead, recvTail, next, recv, channelOffset>>
      /\ \A w \in Warps :
           /\ recvPc[w] = "sync2"
           /\ recvPc'[w] = IF w = Last THEN "store" ELSE NextRound(w, remaining[w])
  BY DEF ReceiverTypes, ReceiverSync2, ReceiverDone, ReceiversMet, queueVars
<1>2. \A w \in Warps :
        /\ recvPc'[w] \in {"store", "done", "poll", "sync1"}
        /\ recvPc'[w] = "store" => w = Last
        /\ recvPc'[w] = "done" => remaining[w] <= 0
  BY <1>1 DEF NextRound
<1>3. \A w \in Warps : InRound(w) /\ ~InRound(w)' /\ recvHead[w] = sharedTail
  BY <1>1, <1>2 DEF InRound, ReceiverInv, RecvWarps
<1>4. RoundHead' = sharedTail /\ RoundHead = head
  BY <1>1, <1>3, LastType DEF RoundHead
<1>5. RoundsUniform' /\ HeadStored' /\ RecvWarps'
  BY <1>1, <1>2, <1>3, <1>4, LastType DEF RoundsUniform, HeadStored, RecvWarps
<1>6. HeadOrder'
  BY <1>1, <1>4 DEF ReceiverInv, HeadOrder, ReceiverTypes
<1>7. Received'
  <2> SUFFICES ASSUME NEW t \in inRank, Below(inRank, t) < sharedTail
               PROVE  recv[Below(inRank, t)] = t
    BY <1>1, <1>4 DEF Received
  <2> DEFINE q == Below(inRank, t)
  <2>1. q \in Nat
    BY CountType DEF ReceiverTypes
  <2>2. CASE q < RoundHead
    BY <2>2 DEF ReceiverInv, Received
  <2>3. CASE RoundHead <= q
    <3> DEFINE w == (q - RoundHead) % NumWarps
    <3>1. q - RoundHead \in Nat
      BY <2>1, <2>3
    <3>2. w \in Warps
      BY <3>1, WarpsType
    <3>3. CopiedBy(w, q)
      BY <1>1, <2>3, <3>2 DEF CopiedBy
    <3>4. QED
      BY <3>2, <3>3 DEF ReceiverInv, ReceivedInRound
  <2>4. QED
    BY <2>1, <2>2, <2>3
<1>8. ReceivedInRound'
  BY <1>3 DEF ReceivedInRound, CopiedBy, InRound
<1>9. Offsets'
  <2>1. UNCHANGED NumSent
    BY <1>1 DEF NumSent
  <2>2. QED
    BY <1>1, <1>2, <2>1, LastType DEF ReceiverInv, Offsets
<1>10. QED
  BY <1>5, <1>6, <1>7, <1>8, <1>9 DEF ReceiverInv

LEMMA StoreHeadReceiver ==
  ASSUME ReceiverTypes, RoundHead \in Nat, ReceiverInv, StoreHead
  PROVE  ReceiverInv' /\ head' = RoundHead
<1>1. /\ UNCHANGED <<inRank, startOffset, endOffset, tail, start, remaining, sharedTail,
                     recvHead, recvTail, next, recv, channelOffset>>
      /\ recvPc[Last] = "store" /\ head' = recvHead[Last]
      /\ \A w \in Warps : recvPc'[w] = IF w = Last THEN NextRound(Last, remaining[Last]) ELSE recvPc[w]
  BY LastType DEF ReceiverTypes, StoreHead, RecvStep, RecvGoto
<1>2. /\ recvPc'[Last] \in {"done", "poll", "sync1"}
      /\ recvPc'[Last] = "done" => remaining[Last] <= 0
  BY <1>1, LastType DEF NextRound
<1>3. \A w \in Warps : ~InRound(w)
  BY <1>1, LastType DEF ReceiverInv, RoundsUniform, InRound
<1>4. \A w \in Warps : ~InRound(w)'
  BY <1>1, <1>2, <1>3 DEF InRound
<1>5. RoundHead' = RoundHead /\ head' = RoundHead
  BY <1>1, <1>3, <1>4, LastType DEF RoundHead
<1>6. RoundsUniform' /\ HeadStored'
  BY <1>1, <1>2, <1>4, <1>5, LastType DEF ReceiverInv, RoundsUniform, HeadStored
<1>7. HeadOrder'
  BY <1>1, <1>5 DEF ReceiverInv, HeadOrder
<1>8. RecvWarps'
  BY <1>1, <1>2, <1>3, <1>4, <1>5 DEF ReceiverInv, RecvWarps, InRound
<1>9. Received' /\ ReceivedInRound'
  <2>1. \A v \in Warps, q \in Nat : ~CopiedBy(v, q)'
    BY <1>4 DEF CopiedBy, InRound
  <2>2. QED
    BY <1>1, <1>5, <2>1, ReceivedFrame DEF ReceiverInv, ReceiverTypes
<1>10. Offsets'
  <2>1. UNCHANGED NumSent
    BY <1>1 DEF NumSent
  <2>2. QED
    BY <1>1, <1>2, <2>1, LastType DEF ReceiverInv, Offsets
<1>11. QED
  BY <1>5, <1>6, <1>7, <1>8, <1>9, <1>10 DEF ReceiverInv

-----------------------------------------------------------------------------
(* The invariant and what follows from it.                                 *)

LEMMA InitInv == Init => IInv
  BY TypeInit, SenderInit, QueueInit, HeadsInit, ReceiverInit DEF IInv

LEMMA SenderStepInv ==
  ASSUME IInv, NEW w \in Warps, SendWarp(w)
  PROVE  SenderInv' /\ QueueInv' /\ HeadsSaved' /\ ReceiverInv'
<1>1. SenderTypes /\ ReceiverTypes /\ RoundHead \in Nat /\ head <= tail
  <2>1. SenderTypes /\ ReceiverTypes /\ RoundHead \in Nat
    BY SenderTyped, ReceiverTyped DEF IInv
  <2>2. QED
    BY <2>1 DEF IInv, ReceiverInv, HeadOrder, ReceiverTypes
<1>2. SenderInv'
  BY <1>1, BeginChunkSender, SkipTokenSender, SendTokenSender, EndChunkSender DEF IInv, SendWarp
<1>3. QueueInv'
  BY <1>1, BeginChunkQueue, SkipOrEndQueue, SendTokenQueue DEF IInv, SendWarp
<1>4. HeadsSaved'
  <2>1. CASE BeginChunk(w) \/ EndChunk(w)
    BY <2>1, HeadsFrame DEF IInv, BeginChunk, EndChunk
  <2>2. CASE SkipToken(w) \/ SendToken(w)
    BY <2>2, HeadsStep DEF IInv
  <2>3. QED
    BY <2>1, <2>2 DEF SendWarp
<1>5. ReceiverInv'
  <2>1. UNCHANGED <<inRank, head, tail, startOffset, endOffset, recvVars>>
    BY DEF SendWarp, BeginChunk, SkipToken, SendToken, EndChunk, queueVars
  <2>2. tail' \in Nat /\ tail <= tail'
    BY <1>1, <2>1 DEF ReceiverTypes
  <2>3. QED
    BY <1>1, <2>1, <2>2, SenderStepReceiver DEF IInv
<1>6. QED
  BY <1>2, <1>3, <1>4, <1>5

LEMMA SenderGroupInv ==
  ASSUME IInv, AnnounceStart \/ AnnounceEnd \/ SenderSync \/ PublishTail
  PROVE  SenderInv' /\ QueueInv' /\ HeadsSaved' /\ ReceiverInv'
<1>1. SenderTypes /\ ReceiverTypes /\ RoundHead \in Nat
  BY SenderTyped, ReceiverTyped DEF IInv
<1>2. SenderInv' /\ QueueInv'
  BY <1>1, SenderSyncSender, SenderSyncQueue, WarpZeroSender, WarpZeroQueue DEF IInv
<1>3. HeadsSaved'
  BY HeadsFrame DEF IInv, AnnounceStart, AnnounceEnd, SenderSync, PublishTail
<1>4. UNCHANGED <<inRank, head, recvVars>>
  BY DEF AnnounceStart, AnnounceEnd, SenderSync, PublishTail, queueVars
<1>5. tail' \in Nat /\ tail <= tail'
  <2>1. CASE SenderSync
    BY <1>1, <2>1 DEF SenderSync, queueVars, ReceiverTypes
  <2>2. CASE PublishTail \/ AnnounceEnd \/ AnnounceStart
    <3>1. tail <= tail'
      BY <1>1, <2>2, WarpZeroQueue DEF IInv
    <3>2. tail' = tail \/ tail' = sendTail[0]
      BY <2>2 DEF PublishTail, AnnounceEnd, AnnounceStart
    <3>3. QED
      BY <1>1, <3>1, <3>2, LastType DEF SenderTypes
  <2>3. QED
    BY <2>1, <2>2
<1>6. /\ startOffset' \in {startOffset, Encode(StartOffset)}
      /\ endOffset' \in {endOffset, Encode(StartOffset + NumSent)}
  BY DEF AnnounceStart, AnnounceEnd, SenderSync, PublishTail, queueVars
<1>7. ReceiverInv'
  BY <1>1, <1>4, <1>5, <1>6, SenderStepReceiver DEF IInv
<1>8. QED
  BY <1>2, <1>3, <1>7

LEMMA ReceiverStepInv ==
  ASSUME IInv, Receiver
  PROVE  SenderInv' /\ QueueInv' /\ HeadsSaved' /\ ReceiverInv'
<1>1. /\ SenderTypes /\ ReceiverTypes /\ RoundHead \in Nat /\ NumSent \in Nat
      /\ head \in Nat /\ head <= RoundHead
  BY SenderTyped, ReceiverTyped DEF IInv, ReceiverInv, HeadOrder, ReceiverTypes
<1>2. ReceiverInv'
  BY <1>1, ReadStartReceiver, ReadEndReceiver, PollTailReceiver, Sync1Receiver, LoadTailReceiver,
     CopyTokenReceiver, EndCopyReceiver, Sync2Receiver, StoreHeadReceiver
  DEF IInv, Receiver, RecvWarp
<1>3. UNCHANGED <<inRank, sendPc, token, sendTail, chunk, sendHead, slot, tail>>
  BY DEF Receiver, RecvWarp, ReadStart, ReadEnd, PollTail, ReceiverSync1, LoadTail, CopyToken,
         EndCopy, ReceiverSync2, StoreHead, queueVars, sendVars
<1>4. head' \in Nat /\ head <= head'
  <2>1. CASE StoreHead
    BY <1>1, <2>1, StoreHeadReceiver DEF IInv
  <2>2. CASE ~StoreHead
    <3>1. head' = head
      BY <2>2 DEF Receiver, RecvWarp, ReadStart, ReadEnd, PollTail, ReceiverSync1, LoadTail,
                  CopyToken, EndCopy, ReceiverSync2, queueVars
    <3>2. QED
      BY <1>1, <3>1
  <2>3. QED
    BY <2>1, <2>2
<1>5. SenderInv' /\ HeadsSaved'
  BY <1>3, SenderFrame, HeadsFrame DEF IInv
<1>6. QueueInv'
  BY <1>1, <1>3, <1>4, QueueFrame DEF IInv
<1>7. QED
  BY <1>2, <1>5, <1>6

LEMMA StutterInv ==
  ASSUME IInv, UNCHANGED <<inRank, queueVars, sendVars, recvVars>>
  PROVE  SenderInv' /\ QueueInv' /\ HeadsSaved' /\ ReceiverInv'
<1>1. SenderTypes /\ ReceiverTypes /\ RoundHead \in Nat
  BY SenderTyped, ReceiverTyped DEF IInv
<1>2. /\ UNCHANGED <<inRank, head, tail, slot, startOffset, endOffset, sendPc, token, sendTail,
                     chunk, sendHead, recvVars>>
  BY DEF queueVars, sendVars
<1>3. head' \in Nat /\ head <= head' /\ tail' \in Nat /\ tail <= tail'
  BY <1>1, <1>2 DEF ReceiverTypes
<1>4. SenderInv' /\ HeadsSaved' /\ QueueInv'
  BY <1>1, <1>2, <1>3, SenderFrame, HeadsFrame, QueueFrame DEF IInv
<1>5. ReceiverInv'
  BY <1>1, <1>2, <1>3, SenderStepReceiver DEF IInv
<1>6. QED
  BY <1>4, <1>5

LEMMA StepInv == IInv /\ [Next]_vars => IInv'
<1> SUFFICES ASSUME IInv, [Next]_vars PROVE IInv'
  OBVIOUS
<1>1. TypeOK'
  BY TypeStep DEF IInv
<1>2. SenderInv' /\ QueueInv' /\ HeadsSaved' /\ ReceiverInv'
  <2>1. CASE Sender
    BY <2>1, SenderStepInv, SenderGroupInv DEF Sender
  <2>2. CASE Receiver
    BY <2>2, ReceiverStepInv
  <2>3. CASE TimeOut
    BY <2>3, StutterInv DEF TimeOut, SenderTimesOut, ReceiverTimesOut
  <2>4. CASE UNCHANGED vars
    BY <2>4, StutterInv DEF vars
  <2>5. QED
    BY <2>1, <2>2, <2>3, <2>4 DEF Next, Terminated
<1>3. QED
  BY <1>1, <1>2 DEF IInv

\* The inductive invariant holds in every reachable state.
THEOREM Invariance == Spec => []IInv
  BY InitInv, StepInv, PTL DEF Spec

LEMMA PositionBelow == \A t : Position(t) = Below(inRank, t)
  BY DEF Position, Below

\* No send warp overwrites a slot that is published and not yet released, for any
\* queue that has room for more than a chunk and any number of warps.
THEOREM SlotsIntact == Spec => []UnreadSlotsIntact
<1>1. IInv => UnreadSlotsIntact
  <2> SUFFICES ASSUME IInv, NEW t \in inRank, Position(t) >= head, Position(t) < tail
               PROVE  slot[Position(t) % QueueSize] = t
    BY DEF UnreadSlotsIntact
  <2>1. SenderTypes /\ Position(t) = Below(inRank, t)
    BY SenderTyped, PositionBelow DEF IInv
  <2>2. Below(inRank, t) \in Nat /\ head \in Nat
    BY <2>1, CountType DEF SenderTypes
  <2>3. head <= Below(inRank, t) /\ Below(inRank, t) < tail
    BY <2>1, <2>2
  <2>4. slot[Below(inRank, t) % QueueSize] = t
    BY <2>1, <2>3, UnreadHeld DEF IInv
  <2>5. QED
    BY <2>1, <2>4
<1>2. QED
  BY Invariance, <1>1, PTL

\* When warp 0 is about to publish its tail all warps have reached the same token
\* and count the same tail, although each read the head for itself.
THEOREM WarpsAgree == Spec => []WarpsAgreeOnTail
<1>1. IInv => WarpsAgreeOnTail
  BY MetAgree, SenderTyped, LastType DEF IInv, WarpsAgreeOnTail, SendersMet
<1>2. QED
  BY Invariance, <1>1, PTL

\* A channel that has ended has delivered every token to its place, and send_head
\* is what the group reduce needs.
THEOREM Complete == Spec => []CompleteAtEnd
<1>1. IInv => CompleteAtEnd
  <2> SUFFICES ASSUME IInv, Finished
               PROVE  /\ \A t \in inRank : recv[Position(t)] = t
                      /\ \A t \in Tokens : sendHead[t] = IF t \in inRank THEN Position(t) ELSE -1
                      /\ channelOffset = StartOffset
                      /\ head = NumSent /\ tail = NumSent
    BY DEF CompleteAtEnd
  <2>1. /\ SenderTypes /\ ReceiverTypes /\ RoundHead \in Nat /\ NumSent \in Nat
        /\ \A w \in Warps : recvPc[w] = "done" /\ sendPc[w] = "done"
    BY SenderTyped, ReceiverTyped DEF IInv, Finished
  <2>2. head = RoundHead /\ RoundHead = recvHead[Last]
    BY <2>1, LastType DEF IInv, ReceiverInv, HeadStored, RoundHead, InRound
  <2>3. NumSent <= RoundHead
    <3>1. remaining[Last] = NumSent - recvHead[Last] /\ remaining[Last] <= 0
      BY <2>1, LastType DEF IInv, ReceiverInv, Offsets
    <3>2. QED
      BY <2>1, <2>2, <3>1
  <2>4. head = NumSent /\ tail = NumSent
    <3>1. tail <= NumSent /\ RoundHead <= sharedTail /\ sharedTail <= tail
      BY <2>1, TailBounded DEF IInv, ReceiverInv, HeadOrder
    <3>2. QED
      BY <2>1, <2>2, <2>3, <3>1 DEF ReceiverTypes
  <2>5. ASSUME NEW t \in inRank PROVE recv[Position(t)] = t
    <3>1. Below(inRank, t) < NumSent
      <4>1. t \in Int /\ t < NumTokens
        BY <2>1 DEF SenderTypes, Tokens
      <4>2. Below(inRank, t) < Below(inRank, NumTokens)
        BY <2>1, <4>1, CountStrict DEF SenderTypes
      <4>3. QED
        BY <2>1, <4>2, CountEnds DEF SenderTypes, NumSent
    <3>2. RoundHead = NumSent
      BY <2>2, <2>4
    <3>3. QED
      BY <3>1, <3>2, PositionBelow DEF IInv, ReceiverInv, Received
  <2>6. ASSUME NEW t \in Tokens
        PROVE  sendHead[t] = IF t \in inRank THEN Position(t) ELSE -1
    <3>1. t \in Nat /\ t < NumTokens
      BY DEF Tokens
    <3>2. t % NumWarps \in Warps
      BY <3>1, WarpsType
    <3>3. token[t % NumWarps] = NumTokens
      BY <2>1, <3>2 DEF IInv, SenderInv, DoneAtEnd
    <3>4. QED
      BY <3>1, <3>3, PositionBelow DEF IInv, HeadsSaved
  <2>7. channelOffset = StartOffset
    BY <2>1, LastType DEF IInv, ReceiverInv, Offsets
  <2>8. QED
    BY <2>4, <2>5, <2>6, <2>7
<1>2. QED
  BY Invariance, <1>1, PTL

-----------------------------------------------------------------------------
(* The queue implements the bounded stream.                                *)

LEMMA DeliveredBelow ==
  Delivered = {Below(inRank, t) : t \in {u \in inRank : recv[Below(inRank, u)] = u}}
  BY PositionBelow DEF Delivered

LEMMA PositionsBounded ==
  ASSUME inRank \in SUBSET Tokens, NEW t \in inRank
  PROVE  Below(inRank, t) \in 0 .. NumSent - 1 /\ Below(inRank, t) \in Tokens
<1>1. t \in Int /\ t < NumTokens
  BY DEF Tokens
<1>2. Below(inRank, t) < Below(inRank, NumTokens)
  BY <1>1, CountStrict
<1>3. Below(inRank, NumTokens) = NumSent /\ NumSent \in Nat /\ NumSent <= NumTokens
  BY CountEnds, TokensFinite DEF NumSent
<1>4. Below(inRank, t) \in Nat
  BY CountType
<1>5. QED
  BY <1>2, <1>3, <1>4 DEF Tokens

LEMMA StreamInit == Init => Stream!Init
<1> SUFFICES ASSUME Init PROVE Stream!Init
  OBVIOUS
<1>1. inRank \in SUBSET Tokens /\ tail = 0 /\ head = 0
  BY DEF Init
<1>2. NumSent \in Nat
  BY <1>1, TokensFinite DEF NumSent
<1>3. Delivered = {}
  <2> SUFFICES ASSUME NEW t \in inRank PROVE recv[Below(inRank, t)] # t
    BY DeliveredBelow
  <2>1. recv[Below(inRank, t)] = None
    BY <1>1, PositionsBounded DEF Init
  <2>2. t # None
    BY <1>1 DEF Tokens, None
  <2>3. QED
    BY <2>1, <2>2
<1>4. QED
  BY <1>1, <1>2, <1>3 DEF Stream!Init

\* A copy delivers one token, or delivers it again.
LEMMA CopyDelivers ==
  ASSUME IInv, NEW v \in Warps, CopyToken(v)
  PROVE  Stream!Deliver \/ UNCHANGED Stream!vars
<1> DEFINE p == NextCopy(v)
<1>1. /\ UNCHANGED <<inRank, head, tail>>
      /\ p \in Nat /\ head <= p /\ p < tail /\ p < NumSent
      /\ \A q \in Nat : q # p => recv'[q] = recv[q]
      /\ \A t \in inRank : Below(inRank, t) = p => recv'[p] = t
  BY CopyTokenEffect DEF IInv
<1> HIDE DEF p
<1>2. inRank \in SUBSET Tokens /\ NumSent \in Nat /\ head \in Nat /\ tail \in Nat
  BY NumSentType DEF IInv, TypeOK
<1>3. PICK t \in inRank : Below(inRank, t) = p
  <2>1. p \in 0 .. Cardinality(inRank) - 1
    BY <1>1, <1>2 DEF NumSent
  <2>2. QED
    BY <1>2, <2>1, CountOnto
<1>4. Delivered' = {Below(inRank, u) : u \in {x \in inRank : recv'[Below(inRank, x)] = x}}
  BY <1>1 DEF Delivered, Position, Below
<1>5. Delivered' = Delivered \cup {p}
  <2>1. ASSUME NEW q \in Delivered' PROVE q \in Delivered \cup {p}
    <3>1. PICK u \in inRank : q = Below(inRank, u) /\ recv'[Below(inRank, u)] = u
      BY <1>4, <2>1
    <3>2. q \in Nat
      BY <1>2, <3>1, CountType
    <3>3. CASE q # p
      <4>1. recv[Below(inRank, u)] = u
        BY <1>1, <3>1, <3>2, <3>3
      <4>2. QED
        BY <3>1, <4>1, DeliveredBelow
    <3>4. QED
      BY <3>3
  <2>2. ASSUME NEW q \in Delivered PROVE q \in Delivered'
    <3>1. PICK u \in inRank : q = Below(inRank, u) /\ recv[Below(inRank, u)] = u
      BY <2>2, DeliveredBelow
    <3>2. q \in Nat
      BY <1>2, <3>1, CountType
    <3>3. recv'[Below(inRank, u)] = u
      BY <1>1, <3>1, <3>2
    <3>4. QED
      BY <1>4, <3>1, <3>3
  <2>3. p \in Delivered'
    BY <1>1, <1>3, <1>4
  <2>4. QED
    BY <2>1, <2>2, <2>3
<1>6. UNCHANGED NumSent
  BY <1>1 DEF NumSent
<1>7. CASE p \in Delivered
  <2>1. Delivered' = Delivered
    BY <1>5, <1>7
  <2>2. QED
    BY <1>1, <1>6, <2>1 DEF Stream!vars
<1>8. CASE p \notin Delivered
  <2>1. p \in head .. tail - 1
    BY <1>1, <1>2
  <2>2. QED
    BY <1>1, <1>5, <1>6, <1>8, <2>1 DEF Stream!Deliver
<1>9. QED
  BY <1>7, <1>8

LEMMA PublishProduces ==
  ASSUME IInv, PublishTail
  PROVE  Stream!Produce \/ UNCHANGED Stream!vars
<1>1. /\ UNCHANGED <<inRank, head, recv>> /\ tail' = sendTail[0] /\ sendPc[0] = "publish"
  BY DEF PublishTail, SenderStep, recvVars
<1>2. /\ SenderTypes /\ head \in Nat /\ tail \in Nat /\ sendTail[0] \in Nat /\ NumSent \in Nat
  BY SenderTyped, LastType, NumSentType DEF IInv, SenderTypes
<1>3. RoundTail(0) = sendTail[0]
  BY <1>1 DEF RoundTail, Sending
<1>4. tail <= sendTail[0] /\ sendTail[0] <= head + QueueSize
  BY <1>3, LastType DEF IInv, QueueInv, TailPublished, WithinCapacity
<1>5. sendTail[0] <= NumSent
  BY <1>2, LastType, CountType DEF IInv, SenderInv, TailsCount, SenderTypes, NumSent
<1>6. UNCHANGED <<NumSent, Delivered>>
  BY <1>1 DEF NumSent, Delivered, Position
<1>7. CASE tail' = tail
  BY <1>1, <1>6, <1>7 DEF Stream!vars
<1>8. CASE tail' # tail
  <2>1. tail' \in tail + 1 .. head + QueueSize
    BY <1>1, <1>2, <1>4, <1>8
  <2>2. QED
    BY <1>1, <1>5, <1>6, <2>1 DEF Stream!Produce
<1>9. QED
  BY <1>7, <1>8

LEMMA StoreReleases ==
  ASSUME IInv, StoreHead
  PROVE  Stream!Release \/ UNCHANGED Stream!vars
<1>1. ReceiverTypes /\ SenderTypes /\ RoundHead \in Nat /\ NumSent \in Nat
  BY ReceiverTyped, SenderTyped DEF IInv
<1>2. UNCHANGED <<inRank, tail, recv>> /\ head' = RoundHead
  BY <1>1, StoreHeadReceiver DEF IInv, StoreHead
<1>3. head <= RoundHead /\ RoundHead <= tail
  BY <1>1 DEF IInv, ReceiverInv, HeadOrder, ReceiverTypes
<1>4. UNCHANGED <<NumSent, Delivered>>
  BY <1>2 DEF NumSent, Delivered, Position
<1>5. CASE head' = head
  BY <1>2, <1>4, <1>5 DEF Stream!vars
<1>6. CASE head' # head
  <2>1. RoundHead \in head + 1 .. tail
    BY <1>1, <1>2, <1>3, <1>6 DEF ReceiverTypes
  <2>2. ASSUME NEW q \in 0 .. RoundHead - 1 PROVE q \in Delivered
    <3>1. RoundHead <= NumSent
      BY <1>1, <1>3, TailBounded DEF IInv, ReceiverTypes
    <3>2. q \in 0 .. Cardinality(inRank) - 1
      BY <1>1, <3>1 DEF NumSent
    <3>3. PICK t \in inRank : Below(inRank, t) = q
      BY <1>1, <3>2, CountOnto DEF ReceiverTypes
    <3>4. Below(inRank, t) < RoundHead
      BY <1>1, <3>3
    <3>5. recv[Below(inRank, t)] = t
      BY <3>4 DEF IInv, ReceiverInv, Received
    <3>6. QED
      BY <3>3, <3>5, DeliveredBelow
  <2>3. (0 .. RoundHead - 1) \subseteq Delivered
    BY <2>2
  <2>4. QED
    BY <1>2, <1>4, <2>1, <2>3 DEF Stream!Release
<1>7. QED
  BY <1>5, <1>6

\* The queue of the kernel implements a bounded stream: PublishTail produces,
\* CopyToken delivers, StoreHead releases, and all else is stuttering.
THEOREM Refinement == Spec => ImplementsStream
<1>1. IInv /\ [Next]_vars => [Stream!Next]_(Stream!vars)
  <2> SUFFICES ASSUME IInv, [Next]_vars PROVE Stream!Next \/ UNCHANGED Stream!vars
    OBVIOUS
  <2>1. CASE PublishTail
    BY <2>1, PublishProduces DEF Stream!Next
  <2>2. CASE StoreHead
    BY <2>2, StoreReleases DEF Stream!Next
  <2>3. ASSUME NEW v \in Warps, CopyToken(v) PROVE Stream!Next \/ UNCHANGED Stream!vars
    BY <2>3, CopyDelivers DEF Stream!Next
  <2>4. ASSUME UNCHANGED <<inRank, head, tail, recv>> PROVE UNCHANGED Stream!vars
    BY <2>4 DEF Stream!vars, NumSent, Delivered, Position
  <2>5. CASE UNCHANGED vars
    BY <2>4, <2>5 DEF vars, queueVars, recvVars
  <2>6. ASSUME NEW w \in Warps, SendWarp(w) PROVE UNCHANGED <<inRank, head, tail, recv>>
    BY <2>6 DEF SendWarp, BeginChunk, SkipToken, SendToken, EndChunk, queueVars, recvVars
  <2>7. CASE AnnounceStart \/ AnnounceEnd \/ SenderSync
    BY <2>4, <2>7 DEF AnnounceStart, AnnounceEnd, SenderSync, queueVars, recvVars
  <2>8. CASE PollTail \/ ReceiverSync1 \/ ReceiverSync2
    BY <2>4, <2>8 DEF PollTail, ReceiverSync1, ReceiverSync2, queueVars
  <2>9. ASSUME NEW v \in Warps, ReadStart(v) \/ ReadEnd(v) \/ LoadTail(v) \/ EndCopy(v)
        PROVE  UNCHANGED <<inRank, head, tail, recv>>
    BY <2>9 DEF ReadStart, ReadEnd, LoadTail, EndCopy, queueVars
  <2>10. CASE TimeOut
    BY <2>4, <2>10 DEF TimeOut, SenderTimesOut, ReceiverTimesOut, queueVars, recvVars
  <2>11. CASE Sender
    BY <2>1, <2>4, <2>6, <2>7, <2>11 DEF Sender
  <2>12. CASE Receiver
    BY <2>2, <2>3, <2>4, <2>8, <2>9, <2>12 DEF Receiver, RecvWarp
  <2>13. QED
    BY <2>5, <2>10, <2>11, <2>12 DEF Next, Terminated
<1>2. QED
  BY <1>1, StreamInit, Invariance, PTL DEF Spec, ImplementsStream, Stream!Spec
=============================================================================
