----------------------------- MODULE BlockBarrier -----------------------------
(***************************************************************************)
(* barrier_block of csrc/comm/grpcoll/kernels/utils.cuh: the barrier over   *)
(* the ranks of a node that brackets every notify kernel.                   *)
(*                                                                         *)
(* Each rank r owns an array of signals, one per rank, in memory that every *)
(* peer can update.  In a call, lane t of r's first warp adds              *)
(* FINISHED_SUM_TAG to r's own signal t, subtracts it from signal r of rank *)
(* t, and then polls r's own signal t; the lanes vote after each poll and   *)
(* leave when every lane saw a value that is not positive.  No signal is    *)
(* ever reset: the next call uses what the previous one left, and a fast    *)
(* peer may subtract for call k+1 while r still polls for call k.           *)
(*                                                                         *)
(* Signals are counted in units of FINISHED_SUM_TAG.  The atomics and the   *)
(* polling loads of different lanes interleave freely (independent thread   *)
(* scheduling; __all_sync joins them for the vote).  What other threads of  *)
(* the block do before the call is ordered by the fence and __syncthreads   *)
(* at its head and after it by the __syncthreads at its end, so Enter and   *)
(* Leave are steps of the whole block.                                      *)
(***************************************************************************)
EXTENDS Integers, FiniteSets

CONSTANTS
  Ranks,      \* the ranks of the node (kNumRanks of them)
  MaxCalls,   \* how many times a rank calls the barrier (bounds the model)
  TimesOut    \* may a failed vote find NUM_TIMEOUT_CYCLES exceeded?

ASSUME RanksAssumption == IsFiniteSet(Ranks) /\ Ranks # {}
ASSUME MaxCallsAssumption == MaxCalls \in Nat
ASSUME TimesOutAssumption == TimesOut \in BOOLEAN

VARIABLES
  signal,     \* signal[r][t]: barrier_signal_ptrs[r][t], in units of the tag
  lane,       \* lane[r][t]: what lane t of rank r does next, or its last poll
  phase,      \* phase[r]: is rank r outside a call, inside one, or trapped
  entered     \* entered[r]: how many calls rank r has begun (history)

vars == <<signal, lane, phase, entered>>

Lanes == {"idle", "add", "sub", "read", "seen", "missed"}

TypeOK ==
  /\ signal \in [Ranks -> [Ranks -> {-1, 0, 1}]]
  /\ lane \in [Ranks -> [Ranks -> Lanes]]
  /\ phase \in [Ranks -> {"outside", "inside", "trapped"}]
  /\ entered \in [Ranks -> 0 .. MaxCalls]

Init ==
  /\ signal = [r \in Ranks |-> [t \in Ranks |-> 0]]
  /\ lane = [r \in Ranks |-> [t \in Ranks |-> "idle"]]
  /\ phase = [r \in Ranks |-> "outside"]
  /\ entered = [r \in Ranks |-> 0]

-----------------------------------------------------------------------------
(* The steps of a call.                                                    *)

Enter(r) ==
  /\ phase[r] = "outside"
  /\ entered[r] < MaxCalls
  /\ phase' = [phase EXCEPT ![r] = "inside"]
  /\ entered' = [entered EXCEPT ![r] = @ + 1]
  /\ lane' = [lane EXCEPT ![r] = [t \in Ranks |-> "add"]]
  /\ UNCHANGED signal

\* Mutations: the rank does not raise its own signal, or raises the peer's.
OwnSignalKept(r, t) == signal
OwnSignalAtPeer(r, t) == [signal EXCEPT ![t][r] = @ + 1]

\* atomicAdd_system on the rank's own signal.
OwnSignal(r, t) == [signal EXCEPT ![r][t] = @ + 1]

AddOwn(r, t) ==
  /\ lane[r][t] = "add"
  /\ signal' = OwnSignal(r, t)
  /\ lane' = [lane EXCEPT ![r][t] = "sub"]
  /\ UNCHANGED <<phase, entered>>

\* atomicSub_system on the signal that rank t keeps for r.
PeerSignal(r, t) == [signal EXCEPT ![t][r] = @ - 1]

SubPeer(r, t) ==
  /\ lane[r][t] = "sub"
  /\ signal' = PeerSignal(r, t)
  /\ lane' = [lane EXCEPT ![r][t] = "read"]
  /\ UNCHANGED <<phase, entered>>

\* Mutation: wait for exactly zero, as if no peer could run ahead.
ArrivedOnlyAtZero(r, t) == signal[r][t] = 0

\* ld_volatile_global and the test on it; a peer that already made its next
\* call leaves a negative value, which also counts as arrived.
Arrived(r, t) == signal[r][t] <= 0

ReadSignal(r, t) ==
  /\ phase[r] = "inside"
  /\ lane[r][t] = "read"
  /\ lane' = [lane EXCEPT ![r][t] = IF Arrived(r, t) THEN "seen" ELSE "missed"]
  /\ UNCHANGED <<signal, phase, entered>>

Voted(r) == \A t \in Ranks : lane[r][t] \in {"seen", "missed"}

\* Mutation: any_in_warp instead of all_in_warp.
VotePassesAny(r) == Voted(r) /\ \E t \in Ranks : lane[r][t] = "seen"

\* all_in_warp(value <= 0).
VotePasses(r) == \A t \in Ranks : lane[r][t] = "seen"

Leave(r) ==
  /\ phase[r] = "inside"
  /\ VotePasses(r)
  /\ phase' = [phase EXCEPT ![r] = "outside"]
  /\ lane' = [lane EXCEPT ![r] = [t \in Ranks |-> "idle"]]
  /\ UNCHANGED <<signal, entered>>

VoteFails(r) == phase[r] = "inside" /\ Voted(r) /\ ~VotePasses(r)

PollAgain(r) ==
  /\ VoteFails(r)
  /\ lane' = [lane EXCEPT ![r] = [t \in Ranks |-> "read"]]
  /\ UNCHANGED <<signal, phase, entered>>

\* trap(): clock64() - start_time exceeds NUM_TIMEOUT_CYCLES, and the kernel, and
\* with it the rank, is gone.
TimeOut(r) ==
  /\ TimesOut
  /\ VoteFails(r)
  /\ phase' = [phase EXCEPT ![r] = "trapped"]
  /\ UNCHANGED <<signal, lane, entered>>

LaneStep(r) == \E t \in Ranks : AddOwn(r, t) \/ SubPeer(r, t) \/ ReadSignal(r, t)

Next ==
  \E r \in Ranks : Enter(r) \/ LaneStep(r) \/ Leave(r) \/ PollAgain(r) \/ TimeOut(r)

Spec == Init /\ [][Next]_vars

\* A running kernel is not descheduled for ever, lane by lane, and every rank
\* makes its calls: the host enqueues the same collectives on every rank.  That
\* the clock expires is possible, never certain.
Fairness ==
  \A r \in Ranks :
    /\ \A t \in Ranks :
         WF_vars(AddOwn(r, t)) /\ WF_vars(SubPeer(r, t)) /\ WF_vars(ReadSignal(r, t))
    /\ WF_vars(Enter(r)) /\ WF_vars(Leave(r)) /\ WF_vars(PollAgain(r))

FairSpec == Spec /\ Fairness

-----------------------------------------------------------------------------
(* Properties.                                                             *)

\* A rank that is out of its k-th call knows that every rank has begun its k-th
\* call, although the signals are never reset and peers may be one call ahead.
BarrierSafety ==
  \A r, q \in Ranks : phase[r] = "outside" => entered[q] >= entered[r]

\* One set of signals is enough for any number of calls: a rank is never more
\* than one call ahead of another, and what a peer has left in a signal, when the
\* rank's own tag is in, is the arrival for the next call and never an older one.
SignalsSuffice ==
  \A r, t \in Ranks :
    /\ entered[r] <= entered[t] + 1
    /\ (signal[r][t] < 0 /\ lane[r][t] # "add") => entered[t] = entered[r] + 1

\* When all calls are over, every signal is back at zero: the buffer can be
\* handed to the next kernel without clearing its barrier signals.
SignalsBalanced ==
  (\A r, q \in Ranks : phase[r] = "outside" /\ entered[r] = entered[q])
    => \A r, t \in Ranks : signal[r][t] = 0

\* The lanes poll at different moments and vote later: an arrival that one lane
\* saw still stands when the vote is taken, whatever the peers do in between.
ArrivalIsStable ==
  [][\A r, t \in Ranks :
       (phase[r] = "inside" /\ lane[r][t] = "seen" /\ entered'[r] = entered[r])
          => signal'[r][t] <= 0]_vars

\* The barrier keeps the promise of the abstract one.
Abstract == INSTANCE Barrier
ImplementsBarrier == Abstract!Spec

\* Unless a clock expires all calls return: no reuse of the signals and no order
\* of polls and votes leaves a rank waiting for an arrival that has happened.
AllCallsReturn ==
  \/ <>(\E r \in Ranks : phase[r] = "trapped")
  \/ <>[](\A r \in Ranks : phase[r] = "outside" /\ entered[r] = MaxCalls)
=============================================================================
