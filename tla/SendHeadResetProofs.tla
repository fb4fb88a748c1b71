-------------------------- MODULE SendHeadResetProofs --------------------------
(***************************************************************************)
(* Proofs about the reset of send_head, for every number of tokens, lanes   *)
(* and passes and every set of tokens sent.                                 *)
(***************************************************************************)
EXTENDS SendHeadReset, TLAPS, FiniteSetTheorems

USE SizesAssumption, LargeAssumption

-----------------------------------------------------------------------------
(* Positions.                                                              *)

\* A position is a natural number, at most the number of tokens.
LEMMA PositionType ==
  ASSUME NEW S \in SUBSET Tokens, NEW t
  PROVE  PositionIn(S, t) \in 0 .. NumTokens
<1> DEFINE B == {u \in S : u < t}
<1>1. IsFiniteSet(Tokens) /\ Cardinality(Tokens) = NumTokens
  <2>1. /\ IsFiniteSet(0 .. NumTokens - 1)
        /\ Cardinality(0 .. NumTokens - 1) =
             IF 0 > NumTokens - 1 THEN 0 ELSE (NumTokens - 1) - 0 + 1
    BY FS_Interval
  <2>2. QED
    BY <2>1 DEF Tokens
<1>2. B \in SUBSET Tokens
  OBVIOUS
<1>3. IsFiniteSet(B) /\ Cardinality(B) <= Cardinality(Tokens)
  BY <1>1, <1>2, FS_Subset
<1>4. Cardinality(B) \in Nat
  BY <1>3, FS_CardinalityType
<1>5. QED
  BY <1>1, <1>3, <1>4 DEF PositionIn

LEMMA NextType ==
  ASSUME NEW S \in SUBSET Tokens, NEW t
  PROVE  NextPosition(S, t) \in 0 .. LargeHead
BY PositionType DEF NextPosition

\* Behind the last token nothing is sent.
LEMMA NextAtEnd ==
  ASSUME NEW S \in SUBSET Tokens
  PROVE  NextPosition(S, NumTokens) = LargeHead
BY DEF NextPosition, Tokens

\* The next position at a token follows from the next position behind it: this
\* is what the backward scan computes.
LEMMA NextStep ==
  ASSUME NEW S \in SUBSET Tokens, NEW t \in Tokens
  PROVE  NextPosition(S, t) = IF t \in S THEN PositionIn(S, t) ELSE NextPosition(S, t + 1)
<1>1. CASE t \in S
  BY <1>1 DEF NextPosition, Tokens
<1>2. CASE t \notin S
  <2>1. S \subseteq Int /\ t \in Int
    BY DEF Tokens
  <2>2. \A u \in S : u >= t <=> u >= t + 1
    BY <1>2, <2>1
  <2>3. {u \in S : u < t} = {u \in S : u < t + 1}
    <3>1. \A u \in S : u < t <=> u < t + 1
      BY <1>2, <2>1
    <3>2. QED
      BY <3>1
  <2>4. PositionIn(S, t) = PositionIn(S, t + 1)
    BY <2>3 DEF PositionIn
  <2>5. QED
    BY <1>2, <2>2, <2>4 DEF NextPosition
<1>3. QED
  BY <1>1, <1>2

\* The entry of a token before and after the reset.
Cast(t) == IF t \in sent THEN PositionIn(sent, t) ELSE -1
Reset(t) == IF t \in sent THEN PositionIn(sent, t) ELSE Encode(NextPosition(sent, t))

\* Both are negative exactly where the token is not sent.
LEMMA EntryTypes ==
  ASSUME sent \in SUBSET Tokens, NEW t \in Tokens
  PROVE  /\ Cast(t) \in Int /\ Reset(t) \in Int
         /\ Cast(t) < 0 <=> t \notin sent
         /\ Reset(t) < 0 <=> t \notin sent
         /\ t \in sent => Cast(t) = Reset(t) /\ Cast(t) \in 0 .. LargeHead
<1>1. PositionIn(sent, t) \in 0 .. NumTokens
  BY PositionType
<1>2. NextPosition(sent, t) \in 0 .. LargeHead
  BY NextType
<1>3. QED
  BY <1>1, <1>2 DEF Cast, Reset, Encode

-----------------------------------------------------------------------------
(* The inductive invariant.                                                *)

\* The token behind which the scan has seen everything.
Reached == IF lane = Idle THEN tokenTail + 1 ELSE tokenTail + 1 - lane

\* Entries behind the current chunk are reset, the others as the last pass, or
\* the cast, left them.
Entries ==
  \A t \in Tokens : sendHead[t] = IF t > tokenTail \/ pass > 0 THEN Reset(t) ELSE Cast(t)

\* last_head is the next position behind the lane whose turn it is.
LastHead == tokenTail >= 0 => lastHead = NextPosition(sent, Reached)

\* Within a chunk, the lanes hold their entries, and those before the current
\* lane know the code of their token.
InChunk ==
  lane # Idle =>
    /\ pass < NumPasses /\ tokenTail >= 0
    /\ lane \in 0 .. Broadcasts
    /\ \A l \in Lanes : l <= tokenTail => current[l] = sendHead[tokenTail - l]
    /\ \A l \in Lanes :
         l < lane /\ current[l] < 0 => expected[l] = Encode(NextPosition(sent, tokenTail - l))

IInv == TypeOK /\ Entries /\ LastHead /\ InChunk

LEMMA InitInv == Init => IInv
<1> SUFFICES ASSUME Init PROVE IInv
  OBVIOUS
<1> USE DEF Init
<1>1. sent \in SUBSET Tokens
  OBVIOUS
<1>2. \A t \in Tokens : sendHead[t] = Cast(t)
  BY DEF CastHead, Cast
<1>3. sendHead \in [Tokens -> Int]
  BY <1>1, <1>2, EntryTypes DEF CastHead, Cast
<1>4. TypeOK
  BY <1>3 DEF TypeOK, Idle
<1>5. Entries
  BY <1>2 DEF Entries, Tokens
<1>6. LastHead
  BY <1>1, NextAtEnd DEF LastHead, Reached
<1>7. InChunk
  BY DEF InChunk
<1>8. QED
  BY <1>4, <1>5, <1>6, <1>7 DEF IInv

LEMMA LoadChunkInv == IInv /\ LoadChunk => IInv'
<1> SUFFICES ASSUME IInv, LoadChunk PROVE IInv'
  OBVIOUS
<1> USE DEF LoadChunk, TokenOf
<1>1. TypeOK
  BY DEF IInv
<1>2. \A l \in Lanes : tokenTail - l >= 0 => tokenTail - l \in Tokens
  BY <1>1 DEF TypeOK, Tokens, Lanes
<1>3. \A l \in Lanes : tokenTail - l >= 0 => sendHead[tokenTail - l] \in Int
  BY <1>1, <1>2 DEF TypeOK
<1>4. current' \in [Lanes -> Int] /\ expected' \in [Lanes -> Int]
  BY <1>3
<1>5. TypeOK'
  BY <1>1, <1>4 DEF TypeOK
<1>6. Entries'
  BY DEF IInv, Entries, Cast, Reset
<1>7. LastHead'
  BY <1>1 DEF IInv, LastHead, Reached, Idle, TypeOK
<1>8. InChunk'
  <2>1. 0 \in 0 .. Broadcasts
    BY <1>1 DEF TypeOK, Broadcasts
  <2>2. Broadcasts' = Broadcasts
    BY DEF Broadcasts
  <2>3. \A l \in Lanes : l <= tokenTail => current'[l] = sendHead[tokenTail - l]
    BY <1>1 DEF TypeOK, Lanes
  <2>4. \A l \in Lanes : ~ l < 0
    BY DEF Lanes
  <2>5. QED
    BY <2>1, <2>2, <2>3, <2>4 DEF InChunk
<1>9. QED
  BY <1>5, <1>6, <1>7, <1>8 DEF IInv

\* The token of the lane whose turn it is, and what it holds.
LEMMA LaneToken ==
  ASSUME IInv, lane \in 0 .. Broadcasts - 1
  PROVE  /\ lane \in Lanes
         /\ tokenTail - lane \in Tokens
         /\ IF tokenTail - lane \in sent
              THEN /\ current[lane] = PositionIn(sent, tokenTail - lane)
                   /\ current[lane] \in 0 .. LargeHead
              ELSE current[lane] < 0
         /\ lastHead = NextPosition(sent, tokenTail - lane + 1)
<1>1. TypeOK /\ InChunk /\ Entries /\ LastHead
  BY DEF IInv
<1>2. lane # Idle /\ lane \in Lanes /\ lane <= tokenTail /\ tokenTail \in Int
  BY <1>1 DEF Idle, Broadcasts, TypeOK, Lanes
<1>3. tokenTail - lane \in Tokens
  BY <1>1, <1>2 DEF TypeOK, Tokens, Lanes
<1>4. current[lane] = sendHead[tokenTail - lane]
  BY <1>1, <1>2 DEF InChunk
<1>5. current[lane] \in {Reset(tokenTail - lane), Cast(tokenTail - lane)}
  BY <1>1, <1>3, <1>4 DEF Entries
<1>6. sent \in SUBSET Tokens
  BY <1>1 DEF TypeOK
<1>7. IF tokenTail - lane \in sent
        THEN current[lane] = Cast(tokenTail - lane) /\ current[lane] \in 0 .. LargeHead
        ELSE current[lane] < 0
  BY <1>3, <1>5, <1>6, EntryTypes
<1>8. lastHead = NextPosition(sent, tokenTail + 1 - lane)
  BY <1>1, <1>2 DEF LastHead, Reached, Lanes
<1>9. tokenTail + 1 - lane = tokenTail - lane + 1
  BY <1>2 DEF Lanes
<1>10. QED
  BY <1>2, <1>3, <1>7, <1>8, <1>9 DEF Cast

LEMMA BroadcastInv == IInv /\ Broadcast => IInv'
<1> SUFFICES ASSUME IInv, Broadcast PROVE IInv'
  OBVIOUS
<1> USE DEF Broadcast
<1> DEFINE t == tokenTail - lane
<1>1. TypeOK /\ InChunk /\ Entries
  BY DEF IInv
<1>2. /\ lane \in Lanes /\ t \in Tokens
      /\ IF t \in sent
           THEN current[lane] = PositionIn(sent, t) /\ current[lane] \in 0 .. LargeHead
           ELSE current[lane] < 0
      /\ lastHead = NextPosition(sent, t + 1)
  BY LaneToken
<1>3. sent \in SUBSET Tokens
  BY <1>1 DEF TypeOK
<1>4. NextPosition(sent, t) = IF t \in sent THEN PositionIn(sent, t) ELSE NextPosition(sent, t + 1)
  BY <1>2, <1>3, NextStep
<1> HIDE DEF t
<1>5. CASE t \in sent
  <2>1. ~ IsMissing(current[lane])
    BY <1>2, <1>5 DEF IsMissing
  <2>2. lastHead' = NextPosition(sent, t) /\ expected' = expected /\ lastHead' \in 0 .. LargeHead
    BY <1>2, <1>4, <1>5, <2>1
  <2>3. QED
    <3>1. TypeOK'
      BY <1>1, <1>2, <2>2 DEF TypeOK, Broadcasts, Lanes
    <3>2. Entries'
      BY <1>1 DEF Entries, Cast, Reset
    <3>3. LastHead'
      <4>1. lane' # Idle /\ tokenTail' + 1 - lane' = t
        BY <1>1, <1>2 DEF t, Idle, Lanes, TypeOK
      <4>2. QED
        BY <2>2, <4>1 DEF LastHead, Reached
    <3>4. InChunk'
      <4>1. lane # Idle /\ lane' \in 0 .. Broadcasts
        BY <1>1 DEF Idle, Broadcasts, TypeOK
      <4>2. Broadcasts' = Broadcasts
        BY DEF Broadcasts
      <4>3. \A l \in Lanes : l < lane' /\ l # lane => l < lane
        BY <1>2 DEF Lanes
      <4>4. ~ current[lane] < 0
        BY <2>1 DEF IsMissing
      <4>5. QED
        BY <1>1, <2>2, <4>1, <4>2, <4>3, <4>4 DEF InChunk
    <3>5. QED
      BY <3>1, <3>2, <3>3, <3>4 DEF IInv
<1>6. CASE t \notin sent
  <2>1. IsMissing(current[lane])
    BY <1>2, <1>6 DEF IsMissing
  <2>2. lastHead' = NextPosition(sent, t)
    BY <1>2, <1>4, <1>6, <2>1
  <2>3. expected' = [expected EXCEPT ![lane] = Encode(NextPosition(sent, t))]
    BY <1>2, <1>4, <1>6, <2>1
  <2>4. Encode(NextPosition(sent, t)) \in Int /\ lastHead' = lastHead
    BY <1>3, <2>1, NextType DEF Encode
  <2>5. QED
    <3>1. TypeOK'
      BY <1>1, <1>2, <2>3, <2>4 DEF TypeOK, Broadcasts, Lanes
    <3>2. Entries'
      BY <1>1 DEF Entries, Cast, Reset
    <3>3. LastHead'
      <4>1. lane' # Idle /\ tokenTail' + 1 - lane' = t
        BY <1>1, <1>2 DEF t, Idle, Lanes, TypeOK
      <4>2. QED
        BY <2>2, <4>1 DEF LastHead, Reached
    <3>4. InChunk'
      <4>1. lane # Idle /\ lane' \in 0 .. Broadcasts
        BY <1>1 DEF Idle, Broadcasts, TypeOK
      <4>2. Broadcasts' = Broadcasts
        BY DEF Broadcasts
      <4>3. \A l \in Lanes : l < lane' /\ l # lane => l < lane
        BY <1>2 DEF Lanes
      <4>4. expected'[lane] = Encode(NextPosition(sent, tokenTail - lane))
        BY <1>1, <1>2, <2>3 DEF TypeOK, t
      <4>5. \A l \in Lanes : l # lane => expected'[l] = expected[l]
        BY <1>1, <2>3 DEF TypeOK
      <4>6. QED
        BY <1>1, <4>1, <4>2, <4>3, <4>4, <4>5 DEF InChunk
    <3>5. QED
      BY <3>1, <3>2, <3>3, <3>4 DEF IInv
<1>7. QED
  BY <1>5, <1>6

LEMMA StoreChunkInv == IInv /\ StoreChunk => IInv'
<1> SUFFICES ASSUME IInv, StoreChunk PROVE IInv'
  OBVIOUS
<1> USE DEF StoreChunk
<1>1. TypeOK /\ InChunk /\ Entries /\ LastHead
  BY DEF IInv
<1>2. /\ pass < NumPasses /\ tokenTail >= 0 /\ lane = Broadcasts
      /\ tokenTail \in Int
      /\ sent \in SUBSET Tokens
  BY <1>1 DEF InChunk, TypeOK, Broadcasts
\* A token of the chunk is reset, by the code or because it was sent.
<1>3. ASSUME NEW t \in Tokens, tokenTail - t \in Lanes
      PROVE  sendHead'[t] = Reset(t)
  <2> DEFINE l == tokenTail - t
  <2>1. l \in Lanes /\ l <= tokenTail /\ l < lane /\ tokenTail - l = t
    BY <1>2, <1>3 DEF Tokens, Lanes, Broadcasts
  <2>2. current[l] = sendHead[t]
    BY <1>1, <2>1 DEF InChunk, Idle, Lanes
  <2>3. sendHead[t] \in {Reset(t), Cast(t)}
    BY <1>1 DEF Entries
  <2>4. CASE t \in sent
    <3>1. sendHead[t] = Reset(t) /\ ~ sendHead[t] < 0
      BY <1>2, <2>3, <2>4, EntryTypes
    <3>2. sendHead'[t] = sendHead[t]
      BY <2>2, <3>1 DEF Stores, IsMissing
    <3>3. QED
      BY <3>1, <3>2
  <2>5. CASE t \notin sent
    <3>1. current[l] < 0
      BY <1>2, <2>2, <2>3, <2>5, EntryTypes
    <3>2. expected[l] = Encode(NextPosition(sent, t))
      BY <1>1, <2>1, <3>1 DEF InChunk
    <3>3. sendHead'[t] = expected[l]
      BY <1>3, <3>1 DEF Stores, IsMissing
    <3>4. QED
      BY <2>5, <3>2, <3>3 DEF Reset
  <2>6. QED
    BY <2>4, <2>5
<1>4. ASSUME NEW t \in Tokens, tokenTail - t \notin Lanes
      PROVE  sendHead'[t] = sendHead[t] /\ (t > tokenTail' <=> t > tokenTail)
  BY <1>2, <1>4 DEF Tokens, Lanes
<1>5. ASSUME NEW t \in Tokens, tokenTail - t \in Lanes
      PROVE  t > tokenTail'
  BY <1>2, <1>5 DEF Tokens, Lanes
<1>6. Entries'
  <2>1. \A t \in Tokens : Reset(t)' = Reset(t) /\ Cast(t)' = Cast(t)
    BY DEF Reset, Cast
  <2>2. \A t \in Tokens :
          sendHead'[t] = IF t > tokenTail' \/ pass > 0 THEN Reset(t) ELSE Cast(t)
    BY <1>1, <1>3, <1>4, <1>5 DEF Entries
  <2>3. QED
    BY <2>1, <2>2 DEF Entries
<1>7. LastHead'
  <2>1. SUFFICES ASSUME tokenTail' >= 0 PROVE lastHead' = NextPosition(sent, tokenTail' + 1)
    BY DEF LastHead, Reached
  <2>2. lane = WarpSize /\ tokenTail + 1 - lane = tokenTail' + 1
    BY <1>2, <2>1 DEF Broadcasts
  <2>3. lastHead = NextPosition(sent, tokenTail + 1 - lane)
    BY <1>1, <1>2 DEF LastHead, Reached
  <2>4. QED
    BY <2>2, <2>3 DEF CarriedHead
<1>8. InChunk'
  BY DEF InChunk
<1>9. TypeOK'
  <2>1. \A t \in Tokens : sendHead'[t] \in Int
    <3>1. \A t \in Tokens : Reset(t) \in Int /\ sendHead[t] \in Int
      BY <1>1, <1>2, EntryTypes DEF TypeOK
    <3>2. QED
      BY <1>3, <1>4, <3>1
  <2>2. sendHead' \in [Tokens -> Int]
    BY <2>1
  <2>3. QED
    BY <1>1, <1>2, <2>2 DEF TypeOK, CarriedHead, Idle
<1>10. QED
  BY <1>6, <1>7, <1>8, <1>9 DEF IInv

LEMMA EndPassInv == IInv /\ EndPass => IInv'
<1> SUFFICES ASSUME IInv, EndPass PROVE IInv'
  OBVIOUS
<1> USE DEF EndPass
<1>1. TypeOK /\ Entries
  BY DEF IInv
<1>2. sent \in SUBSET Tokens
  BY <1>1 DEF TypeOK
<1>3. TypeOK'
  BY <1>1 DEF TypeOK
<1>4. Entries'
  <2>1. \A t \in Tokens : t > tokenTail
    BY <1>1 DEF TypeOK, Tokens
  <2>2. pass' > 0
    BY <1>1 DEF TypeOK
  <2>3. \A t \in Tokens : sendHead[t] = Reset(t) /\ Reset(t)' = Reset(t)
    BY <1>1, <2>1 DEF Entries, Reset
  <2>4. QED
    BY <2>2, <2>3 DEF Entries
<1>5. LastHead'
  BY <1>2, NextAtEnd DEF LastHead, Reached
<1>6. InChunk'
  BY DEF InChunk
<1>7. QED
  BY <1>3, <1>4, <1>5, <1>6 DEF IInv

LEMMA StepInv == IInv /\ [Next]_vars => IInv'
<1> SUFFICES ASSUME IInv, [Next]_vars PROVE IInv'
  OBVIOUS
<1>1. CASE UNCHANGED vars
  BY <1>1 DEF vars, IInv, TypeOK, Entries, LastHead, InChunk, Reached, Broadcasts, Cast, Reset
<1>2. QED
  BY <1>1, LoadChunkInv, BroadcastInv, StoreChunkInv, EndPassInv DEF Next

-----------------------------------------------------------------------------
(* Theorems.                                                               *)

\* The scan keeps its invariant: what lies behind the current lane is known.
THEOREM Invariance == Spec => []IInv
<1>1. QED
  BY InitInv, StepInv, PTL DEF Spec

\* Every variable of the scan keeps its type; last_head stays a position or the
\* large number.
THEOREM TypeCorrect == Spec => []TypeOK
<1>1. IInv => TypeOK
  BY DEF IInv
<1>2. QED
  BY <1>1, Invariance, PTL

\* After each pass send_head is what the reduce expects, however many tokens,
\* lanes and passes there are.
THEOREM ResetCorrect == Spec => []ResetIsCorrect
<1>1. IInv => ResetIsCorrect
  <2> SUFFICES ASSUME IInv, pass > 0 PROVE sendHead = ReduceHead(Tokens, sent)
    BY DEF ResetIsCorrect
  <2>1. \A t \in Tokens : sendHead[t] = Reset(t)
    BY DEF IInv, Entries
  <2>2. sendHead \in [Tokens -> Int]
    BY DEF IInv, TypeOK
  <2>3. QED
    BY <2>1, <2>2 DEF ReduceHead, Reset
<1>2. QED
  BY <1>1, Invariance, PTL

\* A valid position is never disturbed, and a code is never replaced by another.
THEOREM CodesFinal == Spec => CodesAreFinal
<1> DEFINE Kept == \A t \in Tokens : (sendHead[t] >= 0 \/ pass > 0) => sendHead'[t] = sendHead[t]
<1>1. IInv /\ IInv' /\ [Next]_vars => [Kept]_vars
  <2> SUFFICES ASSUME IInv, IInv', Next PROVE Kept
    OBVIOUS
  <2>1. sent' = sent /\ (pass > 0 => pass' > 0)
    BY DEF Next, LoadChunk, Broadcast, StoreChunk, EndPass, IInv, TypeOK
  <2>2. ASSUME NEW t \in Tokens, sendHead[t] >= 0 \/ pass > 0
        PROVE  sendHead'[t] = sendHead[t]
    <3>1. Reset(t)' = Reset(t) /\ Cast(t)' = Cast(t)
      BY <2>1 DEF Reset, Cast
    <3>2. sendHead[t] \in {Reset(t), Cast(t)} /\ sendHead'[t] \in {Reset(t), Cast(t)}
      BY <3>1 DEF IInv, Entries
    <3>3. sent \in SUBSET Tokens
      BY DEF IInv, TypeOK
    <3>4. CASE t \in sent
      BY <3>2, <3>3, <3>4, EntryTypes
    <3>5. CASE t \notin sent
      <4>1. sendHead[t] < 0 /\ sendHead[t] \in Int
        BY <3>2, <3>3, <3>5, EntryTypes
      <4>2. pass > 0 /\ pass' > 0
        BY <2>1, <2>2, <4>1
      <4>3. QED
        BY <3>1, <4>2 DEF IInv, Entries
    <3>6. QED
      BY <3>4, <3>5
  <2>3. QED
    BY <2>2
<1>2. QED
  BY <1>1, Invariance, PTL DEF Spec, CodesAreFinal
=============================================================================
