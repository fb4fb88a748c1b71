------------------------------- MODULE Barrier -------------------------------
(***************************************************************************)
(* What the intranode group collectives of csrc/comm/grpcoll rely on when   *)
(* they call barrier_block: a reusable barrier over a set of ranks.  A rank *)
(* calls it again and again; a call returns only when every rank has made   *)
(* the same call.  A call may also abort the rank (the kernel traps after   *)
(* NUM_TIMEOUT_CYCLES); an aborted rank takes no further step.              *)
(***************************************************************************)
EXTENDS Naturals

CONSTANTS
  Ranks,      \* the ranks that share the barrier
  MaxCalls    \* how many times a rank calls the barrier (bounds the model)

VARIABLES
  entered,    \* entered[r]: how many barrier calls rank r has begun
  phase       \* phase[r]: where rank r is with respect to its last call

vars == <<entered, phase>>

Init ==
  /\ entered = [r \in Ranks |-> 0]
  /\ phase = [r \in Ranks |-> "outside"]

Enter(r) ==
  /\ phase[r] = "outside"
  /\ entered[r] < MaxCalls
  /\ entered' = [entered EXCEPT ![r] = @ + 1]
  /\ phase' = [phase EXCEPT ![r] = "inside"]

\* The promise of a barrier: nobody returns from call k before all made call k.
Leave(r) ==
  /\ phase[r] = "inside"
  /\ \A q \in Ranks : entered[q] >= entered[r]
  /\ phase' = [phase EXCEPT ![r] = "outside"]
  /\ UNCHANGED entered

Abort(r) ==
  /\ phase[r] = "inside"
  /\ phase' = [phase EXCEPT ![r] = "trapped"]
  /\ UNCHANGED entered

Next == \E r \in Ranks : Enter(r) \/ Leave(r) \/ Abort(r)

Spec == Init /\ [][Next]_vars
=============================================================================
