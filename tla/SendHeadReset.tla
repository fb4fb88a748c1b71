---------------------------- MODULE SendHeadReset ----------------------------
(***************************************************************************)
(* reset_send_head_before_group_reduce_func of csrc/comm/grpcoll/kernels/   *)
(* intranode_utils.cuh for one rank and one channel: a warp scans the       *)
(* channel's tokens backwards, WarpSize at a time, its lanes holding one    *)
(* entry each, and rewrites the negative entries in place.                  *)
(*                                                                         *)
(* The handle of a group cast keeps send_head, so a later group reduce with *)
(* the same handle resets entries that were already reset: the scan runs    *)
(* NumPasses times over the same array.                                     *)
(***************************************************************************)
EXTENDS SendHead

CONSTANTS
  NumTokens,   \* tokens of the channel
  WarpSize,    \* WARP_SIZE
  NumPasses    \* group reduces that share the handle (bounds the model)

ASSUME SizesAssumption ==
  NumTokens \in Nat /\ WarpSize \in Nat \ {0} /\ NumPasses \in Nat /\ LargeHead \in Nat
ASSUME LargeAssumption == NumTokens < LargeHead

Tokens == 0 .. NumTokens - 1
Lanes == 0 .. WarpSize - 1

VARIABLES
  sent,        \* the tokens the group cast sent to the rank (input)
  sendHead,    \* the entries of send_head
  tokenTail,   \* token_idx_tail
  lastHead,    \* last_head
  lane,        \* i: the lane whose entry is broadcast next
  current,     \* current[l]: current_head of lane l
  expected,    \* expected[l]: expected_head of lane l
  pass         \* completed scans

vars == <<sent, sendHead, tokenTail, lastHead, lane, current, expected, pass>>

TypeOK ==
  /\ sent \subseteq Tokens
  /\ sendHead \in [Tokens -> Int]
  /\ tokenTail \in -WarpSize .. NumTokens - 1
  /\ lastHead \in 0 .. LargeHead
  /\ lane \in -1 .. WarpSize
  /\ current \in [Lanes -> Int]
  /\ expected \in [Lanes -> Int]
  /\ pass \in 0 .. NumPasses

Idle == -1

Init ==
  /\ sent \in SUBSET Tokens
  /\ sendHead = CastHead(Tokens, sent)
  /\ tokenTail = NumTokens - 1
  /\ lastHead = LargeHead
  /\ lane = Idle
  /\ current = [l \in Lanes |-> 0]
  /\ expected = [l \in Lanes |-> 0]
  /\ pass = 0

TokenOf(l) == tokenTail - l

\* All lanes load their entries; lanes before the channel's start hold -1.
LoadChunk ==
  /\ pass < NumPasses /\ lane = Idle /\ tokenTail >= 0
  /\ current' = [l \in Lanes |-> IF TokenOf(l) >= 0 THEN sendHead[TokenOf(l)] ELSE -1]
  /\ expected' = [l \in Lanes |-> 0]
  /\ lane' = 0
  /\ UNCHANGED <<sent, sendHead, tokenTail, lastHead, pass>>

\* min(WARP_SIZE, token_idx_tail - token_start_idx + 1) broadcasts.
Broadcasts == IF tokenTail + 1 < WarpSize THEN tokenTail + 1 ELSE WarpSize

\* Mutation: an entry that is already coded is taken for a position.
IsMissingFresh(h) == h = -1

IsMissing(h) == h < 0

\* Mutation: every lane stores, whatever its entry was.
StoresAlways(h) == TRUE

Stores(h) == IsMissing(h)

Broadcast ==
  /\ lane \in 0 .. Broadcasts - 1
  /\ IF IsMissing(current[lane])
     THEN expected' = [expected EXCEPT ![lane] = Encode(lastHead)] /\ UNCHANGED lastHead
     ELSE lastHead' = current[lane] /\ UNCHANGED expected
  /\ lane' = lane + 1
  /\ UNCHANGED <<sent, sendHead, tokenTail, current, pass>>

\* Mutation: last_head starts again with every chunk of lanes.
CarriedHeadLost == LargeHead

CarriedHead == lastHead

\* The lanes with a negative entry store the code; the loop takes the next chunk.
StoreChunk ==
  /\ lane # Idle /\ lane >= Broadcasts
  /\ sendHead' =
       [t \in Tokens |->
          IF tokenTail - t \in Lanes /\ Stores(current[tokenTail - t])
          THEN expected[tokenTail - t] ELSE sendHead[t]]
  /\ tokenTail' = tokenTail - WarpSize
  /\ lastHead' = CarriedHead
  /\ lane' = Idle
  /\ UNCHANGED <<sent, current, expected, pass>>

\* The scan is over; a later group reduce with the same handle starts another.
EndPass ==
  /\ pass < NumPasses /\ lane = Idle /\ tokenTail < 0
  /\ pass' = pass + 1
  /\ tokenTail' = NumTokens - 1
  /\ lastHead' = LargeHead
  /\ UNCHANGED <<sent, sendHead, lane, current, expected>>

Next == LoadChunk \/ Broadcast \/ StoreChunk \/ EndPass

Spec == Init /\ [][Next]_vars

-----------------------------------------------------------------------------
(* Properties.                                                             *)

\* After any number of resets, send_head is what the reduce expects: positions
\* where the token was sent, and elsewhere the code of the next position, found
\* across the boundaries between the chunks of lanes.
ResetIsCorrect ==
  (pass > 0 /\ lane = Idle /\ tokenTail = NumTokens - 1)
    => sendHead = ReduceHead(Tokens, sent)

\* A reset never disturbs a valid position, and once an entry has been coded no
\* later reset of the same handle gives it another code.
CodesAreFinal ==
  [][\A t \in Tokens :
       (sendHead[t] >= 0 \/ pass > 0) => sendHead'[t] = sendHead[t]]_vars
=============================================================================
