--------------------------- MODULE OverlapSchedule ---------------------------
(***************************************************************************)
(* DistAttnFunc.forward, DistAttnFunc.backward and                          *)
(* DistAttnRuntime._hide_tail_stage_reduce_backward of                      *)
(* functional/dist_attn.py over the native collectives: one host stage and  *)
(* `degree` remote stages, whose group casts ("fetch") and group reduces    *)
(* overlap with the attention kernels (FFA) of other stages, ordered by two *)
(* KernelBarriers (csrc/extensions/kernel_barrier.cu).                      *)
(*                                                                         *)
(* The host never waits for the GPU in these functions: it enqueues steps   *)
(* on the compute stream, and each collective on the comm stream of its     *)
(* buffer behind an event of the compute stream (Buffer::intranode_group_*, *)
(* stream_wait).  So a collective is modelled as launched when the compute  *)
(* stream passes its launch, and `at` is the position of that stream.       *)
(* A collective is symmetric: it ends on a rank only once every rank runs   *)
(* it.  World size 1 and the a2av backend (targets 0) are left out.         *)
(***************************************************************************)
EXTENDS Integers, Sequences, FiniteSets

CONSTANTS
  Ranks,
  MaxDegree    \* overlap degrees 1 .. MaxDegree are explored (bounds the model)

ASSUME DegreeAssumption == MaxDegree \in Nat \ {0}

VARIABLES
  config,      \* the pass that runs, alike on all ranks
  at,          \* at[r]: <<block, step>> the compute stream of r has reached
  busy,        \* busy[r]: its compute kernel is running
  count,       \* count[r][b]: the counter of kernel barrier b
  queue,       \* queue[r][s]: launched, unfinished collectives of comm stream s
  reached,     \* reached[r]: collectives whose notify or main kernel began
  started,     \* started[r]: collectives whose main kernel arrived at its barrier
  finished,    \* finished[r]: collectives that ended
  computed     \* computed[r]: the compute kernels that ended, in order

vars == <<config, at, busy, count, queue, reached, started, finished, computed>>
comm == <<queue, reached, started, finished>>

-----------------------------------------------------------------------------
\* Stages, collectives and barriers.

HostStage == -1   \* overlap_stage = None; get_next_stage is then s + 1
GradAdd == -2     \* partial_local_dkv.add_(partial_host_dkv)

IsLast(c, s) == s + 1 = c.degree
IsFirst(s) == s = 0
IsPenultimate(c, s) == s + 1 = c.degree - 1

Remote(c) == 0 .. c.degree - 1
Barriers == {"fetch", "reduce"}
Streams == {"GroupCastDefault", "GroupCastQO", "GroupReduceDefault", "GroupReduceQO"}

Collective(b, t, s) == [barrier |-> b, tensor |-> t, stage |-> s]

\* kv is always fetched; q (forward) or q, o, do and lse (backward) with qo comm.
Fetch(c, s) ==
  {Collective("fetch", t, s) : t \in IF c.qo THEN {"kv", "qo"} ELSE {"kv"}}

\* Forward reduces out and lse only with qo comm; backward dkv, and dq with it.
Reduce(c, s) ==
  {Collective("reduce", t, s) : t \in (IF c.pass = "forward" THEN {} ELSE {"kv"})
                                      \cup (IF c.qo THEN {"qo"} ELSE {})}

Reduces(c) == UNION {Reduce(c, s) : s \in Remote(c)}

\* Mutation: backward reduces get the buffers of their own that are commented out.
StreamOfReduces(c, k) ==
  IF k.barrier = "fetch"
    THEN IF k.tensor = "kv" THEN "GroupCastDefault" ELSE "GroupCastQO"
    ELSE IF k.tensor = "kv" THEN "GroupReduceDefault" ELSE "GroupReduceQO"

\* The buffer, hence the comm stream, of a collective.  Backward reduces share
\* the buffers of the fetches.
StreamOf(c, k) ==
  IF c.pass = "forward" /\ k.barrier = "reduce" THEN "GroupReduceQO"
  ELSE IF k.tensor = "kv" THEN "GroupCastDefault" ELSE "GroupCastQO"

\* Mutation: the target that ignores the second fetch of qo comm.
TargetWithoutQO(c, b) ==
  IF b = "reduce" /\ c.pass = "forward" /\ ~c.qo THEN 0 ELSE 1

Target(c, b) ==
  IF b = "reduce" /\ c.pass = "forward"
    THEN IF c.qo THEN 1 ELSE 0
    ELSE IF c.qo THEN 2 ELSE 1

-----------------------------------------------------------------------------
\* The steps of the compute stream, as the host enqueues them.

Reset(b) == [op |-> "reset", barrier |-> b]
Synchronize(b) == [op |-> "synchronize", barrier |-> b]
Launch(ks) == [op |-> "launch", kernels |-> ks]
WaitFor(ks) == [op |-> "wait", kernels |-> ks]
Compute(w) == [op |-> "compute", work |-> w]

When(condition, step) == IF condition THEN <<step>> ELSE <<>>

HideTail(c) == c.pass = "hide_tail"

NoPrefetch(c, s) == IsLast(c, s) \/ (HideTail(c) /\ IsPenultimate(c, s))

\* get_curr_q_kv_and_fetch_next, get_curr_qo_do_kv_lse_and_fetch_next
CurrAndFetchNext(c, s) ==
  When(s # HostStage, WaitFor(Fetch(c, s))) \o
  When(~NoPrefetch(c, s), Launch(Fetch(c, s + 1)))

\* The synchronize calls before the FFA of a remote stage.
BeforeFfa(c, s) ==
  IF HideTail(c)
    THEN When(~IsPenultimate(c, s), Synchronize("fetch")) \o <<Synchronize("reduce")>>
    ELSE When(~IsLast(c, s), Synchronize("fetch")) \o
         When(~IsFirst(s), Synchronize("reduce"))

\* Mutation: the reduce is launched before its partial results are computed.
ReduceBeforeFfa(c, s) == <<Reset("reduce"), Launch(Reduce(c, s)), Compute(s)>>

\* Mutation: the barrier is reset only after the kernels that arrive at it.
LateResetReduce(c, s) == <<Compute(s), Launch(Reduce(c, s)), Reset("reduce")>>

FfaAndReduce(c, s) ==
  IF c.pass = "forward"
    THEN <<Compute(s), Reset("reduce"), Launch(Reduce(c, s))>>
    ELSE <<Reset("reduce"), Compute(s), Launch(Reduce(c, s))>>

\* Mutation: the fetch barrier keeps the arrivals of the stage before.
RemoteStageNoReset(c, s) ==
  CurrAndFetchNext(c, s) \o BeforeFfa(c, s) \o FfaAndReduce(c, s)

RemoteStage(c, s) ==
  <<Reset("fetch")>> \o CurrAndFetchNext(c, s) \o BeforeFfa(c, s) \o FfaAndReduce(c, s)

\* The host stage, or with a hidden tail the saved last remote stage.
FirstStage(c) ==
  CurrAndFetchNext(c, HostStage) \o
  IF HideTail(c)
    THEN When(~IsPenultimate(c, HostStage), Synchronize("fetch"))
         \o <<Reset("reduce"), Compute(c.degree - 1), Launch(Reduce(c, c.degree - 1))>>
    ELSE <<Synchronize("fetch"), Compute(HostStage)>>

\* Mutation: the work of the tail stage, as if it were the last one launched.
AwaitedStageTail(c) == c.degree - 1

\* partial_dkv_reduce_work_per_stage[num_of_degree - 1]; -1 is the last of one.
AwaitedStage(c) == (c.degree - 2) % c.degree

HiddenTailSteps(c) ==
  IF HideTail(c)
    THEN <<Synchronize("reduce"), Compute(HostStage),
           WaitFor({k \in Reduce(c, AwaitedStage(c)) : k.tensor = "kv"}), Compute(GradAdd)>>
    ELSE <<>>

\* Mutation: the works of the dkv reduces are not awaited before returning.
LastStepsWithoutDkv(c) ==
  HiddenTailSteps(c) \o <<WaitFor({k \in Reduces(c) : k.tensor = "qo"})>>

\* prepare_reduced_*: every reduce is awaited before returning.
LastSteps(c) == HiddenTailSteps(c) \o <<WaitFor(Reduces(c))>>

LoopEnd(c) == IF HideTail(c) THEN c.degree - 1 ELSE c.degree

Steps(c, b) ==
  IF b = HostStage THEN FirstStage(c)
  ELSE IF b < LoopEnd(c) THEN RemoteStage(c, b)
  ELSE LastSteps(c)

Returned(r) == at[r][1] > LoopEnd(config)
Step(r) == Steps(config, at[r][1])[at[r][2]]

-----------------------------------------------------------------------------
\* With qo comm the degree is 1, and a hidden tail excludes it.  Only the first
\* forward launches casts without a cached handle.
Configs ==
  {c \in [pass : {"forward", "backward", "hide_tail"}, qo : BOOLEAN,
          degree : 1 .. MaxDegree, cached : BOOLEAN] :
     /\ c.qo => c.degree = 1 /\ c.pass # "hide_tail"
     /\ c.cached \/ c.pass = "forward"}

Init ==
  /\ config \in Configs
  /\ at = [r \in Ranks |-> <<HostStage, 1>>]
  /\ busy = [r \in Ranks |-> FALSE]
  /\ count = [r \in Ranks |-> [b \in Barriers |-> 0]]
  /\ queue = [r \in Ranks |-> [s \in Streams |-> <<>>]]
  /\ reached = [r \in Ranks |-> {}]
  /\ started = [r \in Ranks |-> {}]
  /\ finished = [r \in Ranks |-> {}]
  /\ computed = [r \in Ranks |-> <<>>]

Advance(r) ==
  at' = [at EXCEPT ![r] =
           IF @[2] < Len(Steps(config, @[1])) THEN <<@[1], @[2] + 1>> ELSE <<@[1] + 1, 1>>]

Ready(r, op) == ~Returned(r) /\ Step(r).op = op

\* KernelBarrier::reset: zero_() on the compute stream.
ResetBarrier(r) ==
  /\ Ready(r, "reset")
  /\ count' = [count EXCEPT ![r][Step(r).barrier] = 0]
  /\ Advance(r)
  /\ UNCHANGED <<config, busy, comm, computed>>

\* KernelBarrier::synchronize: wait_kernel spins below the target.
WaitKernel(r) ==
  /\ Ready(r, "synchronize")
  /\ count[r][Step(r).barrier] >= Target(config, Step(r).barrier)
  /\ Advance(r)
  /\ UNCHANGED <<config, busy, count, comm, computed>>

LaunchKernels(r) ==
  /\ Ready(r, "launch")
  /\ queue' = [queue EXCEPT ![r] =
       [s \in Streams |->
          LET ks == {k \in Step(r).kernels : StreamOf(config, k) = s}
          IN  IF ks = {} THEN @[s] ELSE Append(@[s], CHOOSE k \in ks : TRUE)]]
  /\ Advance(r)
  /\ UNCHANGED <<config, busy, count, reached, started, finished, computed>>

\* wait_post_process: the compute stream waits for the events of the works.
WaitWorks(r) ==
  /\ Ready(r, "wait")
  /\ Step(r).kernels \subseteq finished[r]
  /\ Advance(r)
  /\ UNCHANGED <<config, busy, count, comm, computed>>

BeginCompute(r) ==
  /\ Ready(r, "compute") /\ ~busy[r]
  /\ busy' = [busy EXCEPT ![r] = TRUE]
  /\ UNCHANGED <<config, at, count, comm, computed>>

EndCompute(r) ==
  /\ Ready(r, "compute") /\ busy[r]
  /\ busy' = [busy EXCEPT ![r] = FALSE]
  /\ computed' = [computed EXCEPT ![r] = Append(@, Step(r).work)]
  /\ Advance(r)
  /\ UNCHANGED <<config, count, comm>>

ComputeStream(r) ==
  ResetBarrier(r) \/ WaitKernel(r) \/ LaunchKernels(r) \/ WaitWorks(r)
    \/ BeginCompute(r) \/ EndCompute(r)

-----------------------------------------------------------------------------
\* The comm streams: the head of a queue runs.

Reach(r, s) ==
  /\ queue[r][s] # <<>>
  /\ LET k == Head(queue[r][s])
     IN  /\ k \notin reached[r]
         /\ reached' = [reached EXCEPT ![r] = @ \cup {k}]
  /\ UNCHANGED <<config, at, busy, count, queue, started, finished, computed>>

\* A cast without a cached handle runs notify_group_cast before its main kernel,
\* and that kernel meets the peers; the others meet them after they arrived.
NotifyFirst(k) == k.barrier = "fetch" /\ ~config.cached

\* The main kernel's first instruction: kernel_barrier_view.arrive().
Start(r, s) ==
  /\ queue[r][s] # <<>>
  /\ LET k == Head(queue[r][s])
     IN  /\ k \in reached[r] \ started[r]
         /\ NotifyFirst(k) => \A q \in Ranks : k \in reached[q]
         /\ started' = [started EXCEPT ![r] = @ \cup {k}]
         /\ count' = [count EXCEPT ![r][k.barrier] = @ + 1]
  /\ UNCHANGED <<config, at, busy, queue, reached, finished, computed>>

Finish(r, s) ==
  /\ queue[r][s] # <<>>
  /\ LET k == Head(queue[r][s])
     IN  /\ \A q \in Ranks : k \in started[q]
         /\ finished' = [finished EXCEPT ![r] = @ \cup {k}]
         /\ queue' = [queue EXCEPT ![r][s] = Tail(@)]
  /\ UNCHANGED <<config, at, busy, count, reached, started, computed>>

CommStream(r, s) == Reach(r, s) \/ Start(r, s) \/ Finish(r, s)

Next == \E r \in Ranks : ComputeStream(r) \/ \E s \in Streams : CommStream(r, s)

Spec == Init /\ [][Next]_vars

\* Every stream whose head can run is eventually scheduled.
Fairness ==
  \A r \in Ranks : WF_vars(ComputeStream(r)) /\ \A s \in Streams : WF_vars(CommStream(r, s))

FairSpec == Spec /\ Fairness

-----------------------------------------------------------------------------
\* Properties.

Collectives(c) == Reduces(c) \cup UNION {Fetch(c, s) : s \in Remote(c)}

Works(c) == Remote(c) \cup {HostStage} \cup (IF HideTail(c) THEN {GradAdd} ELSE {})

\* Types.
TypeOK ==
  /\ config \in Configs
  /\ \A r \in Ranks :
       /\ at[r][1] \in HostStage .. LoopEnd(config) + 1 /\ at[r][2] \in Nat \ {0}
       /\ busy[r] \in BOOLEAN
       /\ \A b \in Barriers : count[r][b] \in Nat
       /\ \A s \in Streams : queue[r][s] \in Seq(Collectives(config))
       /\ finished[r] \subseteq started[r] /\ started[r] \subseteq reached[r]
       /\ reached[r] \subseteq Collectives(config)
       /\ computed[r] \in Seq(Works(config))

\* A counter never holds more arrivals than its barrier waits for: each kernel
\* arrives once per reset, and no arrival of an earlier stage is left when the next
\* kernels are launched (KernelBarrier.reset before every launch).
NoArrivalIsLeft ==
  \A r \in Ranks, b \in Barriers : count[r][b] <= Target(config, b)

Computing(r, w) == busy[r] /\ Step(r).work = w

\* No compute kernel begins while a collective launched before it has not begun:
\* the FFA would take the SMs the collective needs, and nothing would overlap
\* ("init kernel barrier ...", forward, backward and the hidden tail).
ComputeAfterCollectives ==
  \A r \in Ranks, s \in Streams :
    busy[r] => \A i \in 1 .. Len(queue[r][s]) : queue[r][s][i] \in started[r]

\* A remote stage is computed from the data fetched for it, and its results are
\* sent only once they are there (the saved tail stage was fetched by forward).
StagesReadFinishedData ==
  \A r \in Ranks, i \in Remote(config) :
    /\ Computing(r, i) /\ ~(HideTail(config) /\ IsLast(config, i)) => Fetch(config, i) \subseteq finished[r]
    /\ (Reduce(config, i) \cap started[r] # {}) => \E j \in 1 .. Len(computed[r]) : computed[r][j] = i

\* The gradients accumulated by the collectives are written by one of them at a
\* time, and by none when the host stage's are added (_wait_work of the hidden
\* tail waits for one work and not for all).
GradientsHaveOneWriter ==
  \A r \in Ranks, t \in {"kv", "qo"} :
    Cardinality({k \in started[r] \ finished[r] : k.barrier = "reduce" /\ k.tensor = t})
      + (IF t = "kv" /\ Computing(r, GradAdd) THEN 1 ELSE 0) <= 1

\* When the function returns, every stage was computed once, every partial
\* result is reduced, and no kernel is left that would arrive at the barriers,
\* whose memory is freed.
ResultIsComplete ==
  \A r \in Ranks : Returned(r) =>
    /\ {computed[r][i] : i \in 1 .. Len(computed[r])} = Works(config)
    /\ Len(computed[r]) = Cardinality(Works(config))
    /\ Reduces(config) \subseteq finished[r]
    /\ \A s \in Streams : queue[r][s] = <<>>

\* In backward a stage that prefetches the next one is not computed before the
\* dkv reduce launched last has ended: they share a comm stream, so that reduce
\* is hidden by the FFA of the next stage only when that stage prefetches nothing.
PrefetchWaitsForReduce ==
  \A r \in Ranks, i \in Remote(config) :
    (config.pass # "forward" /\ Computing(r, i) /\ ~NoPrefetch(config, i)) =>
      \A k \in Reduces(config) : k \in started[r] => k \in finished[r]

\* Every rank returns: no wait_kernel spins for an arrival that was reset away or
\* never comes, and no work is awaited that was never launched.
Completes == <>(\A r \in Ranks : Returned(r))
=============================================================================
