-------------------------- MODULE BlockBarrierProofs --------------------------
(***************************************************************************)
(* Proofs about barrier_block for every set of ranks and any number of      *)
(* calls.  The inductive invariant says what a signal counts: the calls r   *)
(* has added for minus the calls t has subtracted for, and that r never     *)
(* gets more than one call past what t has subtracted.                      *)
(***************************************************************************)
EXTENDS BlockBarrier, TLAPS

\* Calls for which lane t of rank r has added to r's own signal.
Added(r, t) == IF lane[r][t] = "add" THEN entered[r] - 1 ELSE entered[r]

\* Calls for which lane r of rank t has subtracted from the signal r keeps.
Subtracted(t, r) ==
  IF lane[t][r] \in {"add", "sub"} THEN entered[t] - 1 ELSE entered[t]

LanesFollowPhase ==
  \A r, t \in Ranks : (lane[r][t] = "idle") <=> (phase[r] = "outside")

SignalsCount ==
  \A r, t \in Ranks : signal[r][t] = Added(r, t) - Subtracted(t, r)

SeenMeansArrived ==
  \A r, t \in Ranks : lane[r][t] = "seen" => signal[r][t] <= 0

PeersArrived ==
  \A r, t \in Ranks :
    /\ Subtracted(t, r) >= entered[r] - 1
    /\ phase[r] = "outside" => Subtracted(t, r) >= entered[r]

\* Types without the range of the signals, which follows from what they count.
Typed ==
  /\ signal \in [Ranks -> [Ranks -> Int]]
  /\ lane \in [Ranks -> [Ranks -> Lanes]]
  /\ phase \in [Ranks -> {"outside", "inside", "trapped"}]
  /\ entered \in [Ranks -> 0 .. MaxCalls]

IInv ==
  Typed /\ LanesFollowPhase /\ SignalsCount /\ SeenMeansArrived /\ PeersArrived

-----------------------------------------------------------------------------

\* What the two atomics of a lane do, entry by entry.
LEMMA AddOwnEffect ==
  ASSUME Typed, NEW r \in Ranks, NEW t \in Ranks, AddOwn(r, t)
  PROVE  /\ Typed'
         /\ lane[r][t] = "add"
         /\ \A p, q \in Ranks :
              /\ signal'[p][q] = IF p = r /\ q = t THEN signal[p][q] + 1 ELSE signal[p][q]
              /\ lane'[p][q] = IF p = r /\ q = t THEN "sub" ELSE lane[p][q]
         /\ phase' = phase /\ entered' = entered
<1>1. Typed'
  BY DEF AddOwn, OwnSignal, Typed, Lanes
<1>2. \A p, q \in Ranks :
        signal'[p][q] = IF p = r /\ q = t THEN signal[p][q] + 1 ELSE signal[p][q]
  BY DEF AddOwn, OwnSignal, Typed
<1>3. \A p, q \in Ranks :
        lane'[p][q] = IF p = r /\ q = t THEN "sub" ELSE lane[p][q]
  BY DEF AddOwn, OwnSignal, Typed
<1>4. QED
  BY <1>1, <1>2, <1>3 DEF AddOwn

LEMMA SubPeerEffect ==
  ASSUME Typed, NEW r \in Ranks, NEW t \in Ranks, SubPeer(r, t)
  PROVE  /\ Typed'
         /\ lane[r][t] = "sub"
         /\ \A p, q \in Ranks :
              /\ signal'[p][q] = IF p = t /\ q = r THEN signal[p][q] - 1 ELSE signal[p][q]
              /\ lane'[p][q] = IF p = r /\ q = t THEN "read" ELSE lane[p][q]
         /\ phase' = phase /\ entered' = entered
<1>1. Typed'
  BY DEF SubPeer, PeerSignal, Typed, Lanes
<1>2. \A p, q \in Ranks :
        signal'[p][q] = IF p = t /\ q = r THEN signal[p][q] - 1 ELSE signal[p][q]
  BY DEF SubPeer, PeerSignal, Typed
<1>3. \A p, q \in Ranks :
        lane'[p][q] = IF p = r /\ q = t THEN "read" ELSE lane[p][q]
  BY DEF SubPeer, PeerSignal, Typed
<1>4. QED
  BY <1>1, <1>2, <1>3 DEF SubPeer

\* The counts are integers, and each atomic moves exactly one of them by one.
LEMMA CountTypes ==
  ASSUME Typed, NEW p \in Ranks, NEW q \in Ranks
  PROVE  Added(p, q) \in Int /\ Subtracted(p, q) \in Int /\ entered[p] \in Int
  BY MaxCallsAssumption DEF Typed, Added, Subtracted

LEMMA AddOwnCounts ==
  ASSUME Typed, NEW r \in Ranks, NEW t \in Ranks, AddOwn(r, t),
         NEW p \in Ranks, NEW q \in Ranks
  PROVE  /\ Added(p, q)' = IF p = r /\ q = t THEN Added(p, q) + 1 ELSE Added(p, q)
         /\ Subtracted(p, q)' = Subtracted(p, q)
<1>1. /\ lane'[p][q] = IF p = r /\ q = t THEN "sub" ELSE lane[p][q]
      /\ lane[r][t] = "add"
      /\ entered' = entered
  BY AddOwnEffect
<1>2. entered[p] \in Int
  BY MaxCallsAssumption DEF Typed
<1>3. CASE p = r /\ q = t
  BY <1>1, <1>2, <1>3 DEF Added, Subtracted
<1>4. CASE ~(p = r /\ q = t)
  BY <1>1, <1>4 DEF Added, Subtracted
<1>5. QED
  BY <1>3, <1>4

LEMMA SubPeerCounts ==
  ASSUME Typed, NEW r \in Ranks, NEW t \in Ranks, SubPeer(r, t),
         NEW p \in Ranks, NEW q \in Ranks
  PROVE  /\ Added(p, q)' = Added(p, q)
         /\ Subtracted(p, q)' = IF p = r /\ q = t THEN Subtracted(p, q) + 1 ELSE Subtracted(p, q)
<1>1. /\ lane'[p][q] = IF p = r /\ q = t THEN "read" ELSE lane[p][q]
      /\ lane[r][t] = "sub"
      /\ entered' = entered
  BY SubPeerEffect
<1>2. entered[p] \in Int
  BY MaxCallsAssumption DEF Typed
<1>3. CASE p = r /\ q = t
  BY <1>1, <1>2, <1>3 DEF Added, Subtracted
<1>4. CASE ~(p = r /\ q = t)
  BY <1>1, <1>4 DEF Added, Subtracted
<1>5. QED
  BY <1>3, <1>4

LEMMA InitInv == Init => IInv
  BY MaxCallsAssumption
  DEF Init, IInv, Typed, Lanes, LanesFollowPhase, SignalsCount,
      SeenMeansArrived, PeersArrived, Added, Subtracted

LEMMA AddOwnInv ==
  ASSUME IInv, NEW r \in Ranks, NEW t \in Ranks, AddOwn(r, t)
  PROVE  IInv'
<1>1. Typed /\ Typed'
  BY AddOwnEffect DEF IInv
<1>2. LanesFollowPhase'
  BY <1>1, AddOwnEffect DEF IInv, LanesFollowPhase
<1>3. SignalsCount'
  <2> SUFFICES ASSUME NEW p \in Ranks, NEW q \in Ranks
               PROVE  (signal[p][q] = Added(p, q) - Subtracted(q, p))'
    BY DEF SignalsCount
  <2>1. signal[p][q] = Added(p, q) - Subtracted(q, p)
    BY DEF IInv, SignalsCount
  <2>2. signal'[p][q] = IF p = r /\ q = t THEN signal[p][q] + 1 ELSE signal[p][q]
    BY <1>1, AddOwnEffect
  <2>3. /\ Added(p, q)' = IF p = r /\ q = t THEN Added(p, q) + 1 ELSE Added(p, q)
        /\ Subtracted(q, p)' = Subtracted(q, p)
    BY <1>1, AddOwnCounts
  <2>4. Added(p, q) \in Int /\ Subtracted(q, p) \in Int
    BY <1>1, CountTypes
  <2>5. QED
    BY <2>1, <2>2, <2>3, <2>4
<1>4. SeenMeansArrived'
  BY <1>1, AddOwnEffect DEF IInv, Typed, SeenMeansArrived
<1>5. PeersArrived'
  <2> SUFFICES ASSUME NEW p \in Ranks, NEW q \in Ranks
               PROVE  (/\ Subtracted(q, p) >= entered[p] - 1
                       /\ phase[p] = "outside" => Subtracted(q, p) >= entered[p])'
    BY DEF PeersArrived
  <2>1. /\ Subtracted(q, p) >= entered[p] - 1
        /\ phase[p] = "outside" => Subtracted(q, p) >= entered[p]
    BY DEF IInv, PeersArrived
  <2>2. Subtracted(q, p)' = Subtracted(q, p)
    BY <1>1, AddOwnCounts
  <2>3. /\ Subtracted(q, p) \in Int /\ entered[p] \in Int
        /\ phase' = phase /\ entered' = entered
    BY <1>1, CountTypes, AddOwnEffect
  <2>4. QED
    BY <2>1, <2>2, <2>3
<1>6. QED
  BY <1>1, <1>2, <1>3, <1>4, <1>5 DEF IInv

LEMMA SubPeerInv ==
  ASSUME IInv, NEW r \in Ranks, NEW t \in Ranks, SubPeer(r, t)
  PROVE  IInv'
<1>1. Typed /\ Typed'
  BY SubPeerEffect DEF IInv
<1>2. LanesFollowPhase'
  BY <1>1, SubPeerEffect DEF IInv, LanesFollowPhase
<1>3. SignalsCount'
  <2> SUFFICES ASSUME NEW p \in Ranks, NEW q \in Ranks
               PROVE  (signal[p][q] = Added(p, q) - Subtracted(q, p))'
    BY DEF SignalsCount
  <2>1. signal[p][q] = Added(p, q) - Subtracted(q, p)
    BY DEF IInv, SignalsCount
  <2>2. signal'[p][q] = IF p = t /\ q = r THEN signal[p][q] - 1 ELSE signal[p][q]
    BY <1>1, SubPeerEffect
  <2>3. /\ Added(p, q)' = Added(p, q)
        /\ Subtracted(q, p)' = IF q = r /\ p = t THEN Subtracted(q, p) + 1 ELSE Subtracted(q, p)
    BY <1>1, SubPeerCounts
  <2>4. Added(p, q) \in Int /\ Subtracted(q, p) \in Int
    BY <1>1, CountTypes
  <2>5. QED
    BY <2>1, <2>2, <2>3, <2>4
<1>4. SeenMeansArrived'
  <2> SUFFICES ASSUME NEW p \in Ranks, NEW q \in Ranks, lane'[p][q] = "seen"
               PROVE  signal'[p][q] <= 0
    BY DEF SeenMeansArrived
  <2>1. lane[p][q] = "seen"
    BY <1>1, SubPeerEffect
  <2>2. signal[p][q] <= 0 /\ signal[p][q] \in Int
    BY <2>1 DEF IInv, Typed, SeenMeansArrived
  <2>3. signal'[p][q] \in {signal[p][q], signal[p][q] - 1}
    BY <1>1, SubPeerEffect
  <2>4. QED
    BY <2>2, <2>3
<1>5. PeersArrived'
  <2> SUFFICES ASSUME NEW p \in Ranks, NEW q \in Ranks
               PROVE  (/\ Subtracted(q, p) >= entered[p] - 1
                       /\ phase[p] = "outside" => Subtracted(q, p) >= entered[p])'
    BY DEF PeersArrived
  <2>1. /\ Subtracted(q, p) >= entered[p] - 1
        /\ phase[p] = "outside" => Subtracted(q, p) >= entered[p]
    BY DEF IInv, PeersArrived
  <2>2. Subtracted(q, p)' = IF q = r /\ p = t THEN Subtracted(q, p) + 1 ELSE Subtracted(q, p)
    BY <1>1, SubPeerCounts
  <2>3. /\ Subtracted(q, p) \in Int /\ entered[p] \in Int
        /\ phase' = phase /\ entered' = entered
    BY <1>1, CountTypes, SubPeerEffect
  <2>4. QED
    BY <2>1, <2>2, <2>3
<1>6. QED
  BY <1>1, <1>2, <1>3, <1>4, <1>5 DEF IInv

LEMMA StepInv == IInv /\ [Next]_vars => IInv'
<1> SUFFICES ASSUME IInv, [Next]_vars PROVE IInv'
  OBVIOUS
<1> USE MaxCallsAssumption
    DEF IInv, Typed, Lanes, LanesFollowPhase, SignalsCount, SeenMeansArrived,
        PeersArrived, Added, Subtracted
<1>1. ASSUME NEW r \in Ranks, Enter(r) PROVE IInv'
  BY <1>1 DEF Enter
<1>2. ASSUME NEW r \in Ranks, NEW t \in Ranks, AddOwn(r, t) PROVE IInv'
  BY <1>2, AddOwnInv
<1>3. ASSUME NEW r \in Ranks, NEW t \in Ranks, SubPeer(r, t) PROVE IInv'
  BY <1>3, SubPeerInv
<1>4. ASSUME NEW r \in Ranks, NEW t \in Ranks, ReadSignal(r, t) PROVE IInv'
  BY <1>4 DEF ReadSignal, Arrived
<1>5. ASSUME NEW r \in Ranks, Leave(r) PROVE IInv'
  BY <1>5 DEF Leave, VotePasses
<1>6. ASSUME NEW r \in Ranks, PollAgain(r) PROVE IInv'
  BY <1>6 DEF PollAgain, VoteFails, Voted
<1>7. ASSUME NEW r \in Ranks, TimeOut(r) PROVE IInv'
  BY <1>7 DEF TimeOut, VoteFails
<1>8. CASE UNCHANGED vars
  BY <1>8 DEF vars
<1>9. QED
  BY <1>1, <1>2, <1>3, <1>4, <1>5, <1>6, <1>7, <1>8 DEF Next, LaneStep

\* The inductive invariant holds in every reachable state.
THEOREM Invariance == Spec => []IInv
  BY InitInv, StepInv, PTL DEF Spec

-----------------------------------------------------------------------------

\* What a signal counts keeps it within one tag of zero.
LEMMA SignalRange ==
  ASSUME IInv, NEW r \in Ranks, NEW t \in Ranks
  PROVE  /\ signal[r][t] \in {-1, 0, 1}
         /\ entered[r] <= entered[t] + 1
         /\ (signal[r][t] < 0 /\ lane[r][t] # "add") => entered[t] = entered[r] + 1
<1>1. entered[r] \in Nat /\ entered[t] \in Nat
  BY MaxCallsAssumption DEF IInv, Typed
<1>2. signal[r][t] = Added(r, t) - Subtracted(t, r)
  BY DEF IInv, SignalsCount
<1>3. Subtracted(t, r) >= entered[r] - 1 /\ Subtracted(r, t) >= entered[t] - 1
  BY DEF IInv, PeersArrived
<1>4. QED
  BY <1>1, <1>2, <1>3 DEF Added, Subtracted

\* Type correctness of the barrier for any ranks: no signal leaves the range of
\* one tag, although nothing resets it.
THEOREM TypeCorrect == Spec => []TypeOK
<1>1. IInv => TypeOK
  <2> SUFFICES ASSUME IInv PROVE TypeOK
    OBVIOUS
  <2>1. \A r, t \in Ranks : signal[r][t] \in {-1, 0, 1}
    BY SignalRange
  <2>2. Typed
    BY DEF IInv
  <2>3. QED
    BY <2>1, <2>2 DEF Typed, TypeOK
<1>2. QED
  BY Invariance, <1>1, PTL

\* barrier_block is a barrier: out of call k, every rank has begun call k.
THEOREM Safety == Spec => []BarrierSafety
<1>1. IInv => BarrierSafety
  BY DEF IInv, Typed, PeersArrived, Subtracted, BarrierSafety
<1>2. QED
  BY Invariance, <1>1, PTL

\* The signals of one call are enough for all calls: no rank gets two calls ahead
\* of another, and an early arrival is always that of the next call.
THEOREM SignalBound == Spec => []SignalsSuffice
<1>1. IInv => SignalsSuffice
  BY SignalRange DEF SignalsSuffice
<1>2. QED
  BY Invariance, <1>1, PTL

\* Between collectives all signals are zero again, without any reset.
THEOREM SignalsReturnToZero == Spec => []SignalsBalanced
<1>1. IInv => SignalsBalanced
  BY DEF IInv, Typed, SignalsCount, LanesFollowPhase, Added, Subtracted, SignalsBalanced
<1>2. QED
  BY Invariance, <1>1, PTL

\* What a lane saw stays true until the rank leaves the call.
THEOREM StableArrival == Spec => ArrivalIsStable
<1>1. IInv /\ [Next]_vars =>
        [\A r, t \in Ranks :
           (phase[r] = "inside" /\ lane[r][t] = "seen" /\ entered'[r] = entered[r])
              => signal'[r][t] <= 0]_vars
  <2> SUFFICES ASSUME IInv, Next, NEW r \in Ranks, NEW t \in Ranks,
                      lane[r][t] = "seen"
               PROVE  signal'[r][t] <= 0
    OBVIOUS
  <2>1. signal[r][t] \in Int /\ signal[r][t] <= 0
    BY DEF IInv, Typed, SeenMeansArrived
  <2> USE <2>1 DEF IInv, Typed
  <2>2. ASSUME NEW p \in Ranks, NEW q \in Ranks, AddOwn(p, q)
        PROVE  signal'[r][t] <= 0
    BY <2>2 DEF AddOwn, OwnSignal
  <2>3. ASSUME NEW p \in Ranks, NEW q \in Ranks, SubPeer(p, q)
        PROVE  signal'[r][t] <= 0
    <3>1. signal'[r][t] \in {signal[r][t], signal[r][t] - 1}
      BY <2>3 DEF SubPeer, PeerSignal
    <3>2. QED
      BY <3>1
  <2>4. ASSUME UNCHANGED signal PROVE signal'[r][t] <= 0
    BY <2>4
  <2>5. QED
    BY <2>2, <2>3, <2>4 DEF Next, LaneStep, Enter, ReadSignal, Leave, PollAgain, TimeOut
<1>2. QED
  BY <1>1, Invariance, PTL DEF Spec, ArrivalIsStable

\* barrier_block implements the abstract barrier: Enter, Leave and TimeOut map to
\* the abstract steps, everything the lanes do in between to stuttering.
THEOREM Refinement == Spec => ImplementsBarrier
<1>1. Init => Abstract!Init
  BY DEF Init, Abstract!Init
<1>2. IInv /\ [Next]_vars => [Abstract!Next]_(Abstract!vars)
  <2> SUFFICES ASSUME IInv, [Next]_vars PROVE [Abstract!Next]_(Abstract!vars)
    OBVIOUS
  <2> USE DEF Abstract!vars, Abstract!Next
  <2>1. ASSUME NEW r \in Ranks, Enter(r) PROVE Abstract!Enter(r)
    BY <2>1 DEF Enter, Abstract!Enter
  <2>2. ASSUME NEW r \in Ranks, Leave(r) PROVE Abstract!Leave(r)
    <3>1. \A t \in Ranks : entered[t] >= entered[r]
      BY <2>2 DEF Leave, VotePasses, IInv, Typed, SeenMeansArrived, SignalsCount,
                  Added, Subtracted
    <3>2. QED
      BY <2>2, <3>1 DEF Leave, Abstract!Leave
  <2>3. ASSUME NEW r \in Ranks, TimeOut(r) PROVE Abstract!Abort(r)
    BY <2>3 DEF TimeOut, VoteFails, Abstract!Abort
  <2>4. ASSUME UNCHANGED vars \/ \E r \in Ranks : LaneStep(r) \/ PollAgain(r)
        PROVE  UNCHANGED <<entered, phase>>
    BY <2>4 DEF vars, LaneStep, AddOwn, SubPeer, ReadSignal, PollAgain
  <2>. QED
    BY <2>1, <2>2, <2>3, <2>4 DEF Next
<1>3. QED
  BY <1>1, <1>2, Invariance, PTL DEF Spec, ImplementsBarrier, Abstract!Spec
=============================================================================
