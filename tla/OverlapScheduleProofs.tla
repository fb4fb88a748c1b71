------------------------- MODULE OverlapScheduleProofs -------------------------
(***************************************************************************)
(* Proofs about the overlap schedule, for every set of ranks, every overlap  *)
(* degree and all passes.  The argument follows the position of a rank's     *)
(* compute stream: which collectives are launched there, which of them the   *)
(* barriers guarantee to have begun, which arrivals a counter holds, and     *)
(* which works have been awaited.                                          *)
(***************************************************************************)
EXTENDS OverlapSchedule, FiniteSetTheorems, TLAPS

-----------------------------------------------------------------------------
(* The program of a compute stream.                                        *)

\* The collectives that a pass launches (the saved tail stage is not fetched), and
\* the block that launches each.
Launches(c) == {k \in Collectives(c) : k.barrier = "fetch" => k.stage < LoopEnd(c)}

Block(c, k) ==
  IF k.barrier = "fetch" THEN k.stage - 1
  ELSE IF HideTail(c) /\ IsLast(c, k.stage) THEN HostStage ELSE k.stage

\* A block prefetches before its last steps, and launches its reduce at its end.
Time(c, k) == 2 * Block(c, k) + IF k.barrier = "fetch" THEN 0 ELSE 1

Prefetches(c, b) == b + 1 < LoopEnd(c)
WaitsForReduce(c, b) == HideTail(c) \/ ~IsFirst(b)

\* Where a block launches its fetch, how many steps it has up to its last
\* synchronize call, and where it resets the reduce barrier and computes.
FetchIndex(b) == IF b = HostStage THEN 1 ELSE 3

Pre(c, b) ==
  IF b = HostStage THEN IF Prefetches(c, b) THEN 2 ELSE 0
  ELSE IF b < LoopEnd(c)
    THEN 2 + (IF Prefetches(c, b) THEN 2 ELSE 0) + (IF WaitsForReduce(c, b) THEN 1 ELSE 0)
  ELSE 1

ResetIndex(c, b) == Pre(c, b) + IF c.pass = "forward" THEN 2 ELSE 1

ComputeIndex(c, b) ==
  Pre(c, b) + IF c.pass = "forward" \/ (b = HostStage /\ ~HideTail(c)) THEN 1 ELSE 2

Length(c, b) ==
  IF b < LoopEnd(c) THEN Pre(c, b) + (IF b = HostStage /\ ~HideTail(c) THEN 1 ELSE 3)
  ELSE IF HideTail(c) THEN 5 ELSE 1

\* What is known when a compute stream is at position <<b, i>>: the collectives it
\* has launched, those that must have begun, those whose arrivals a counter holds,
\* those that must have ended, and the number of kernels computed.
LaunchedBy(c, b, i) ==
  {k \in Launches(c) : \/ Block(c, k) < b
                       \/ Block(c, k) = b /\ k.barrier = "fetch" /\ i > FetchIndex(b)}

SyncedBy(c, b, i) ==
  {k \in Launches(c) :
     IF k.barrier = "fetch"
       THEN Block(c, k) < b \/ (Block(c, k) = b /\ i > FetchIndex(b) + 1)
       ELSE Block(c, k) < b - 1 \/ (Block(c, k) = b - 1 /\ i > Pre(c, b))}

CountedBlock(c, b, i, barrier) ==
  IF barrier = "fetch" THEN IF b # HostStage /\ i = 1 THEN b - 1 ELSE b
  ELSE IF b < LoopEnd(c) /\ i > ResetIndex(c, b) THEN b ELSE b - 1

CountedBy(c, b, i, barrier) ==
  {k \in Launches(c) : k.barrier = barrier /\ Block(c, k) = CountedBlock(c, b, i, barrier)}

Awaited(c) == {k \in Reduce(c, AwaitedStage(c)) : k.tensor = "kv"}

WaitedBy(c, b, i) ==
  {k \in Launches(c) :
     IF k.barrier = "fetch" THEN k.stage < b \/ (k.stage = b /\ i > 2)
     ELSE b > LoopEnd(c) \/ (b = LoopEnd(c) /\ i > 3 /\ k \in Awaited(c))}

NumComputed(c, b, i) ==
  IF b < LoopEnd(c) THEN b + 1 + (IF i > ComputeIndex(c, b) THEN 1 ELSE 0)
  ELSE LoopEnd(c) + 1 +
       (IF HideTail(c) THEN IF b > LoopEnd(c) \/ i > 4 THEN 2 ELSE IF i > 2 THEN 1 ELSE 0 ELSE 0)

\* The j-th kernel that is computed.
WorkAt(c, j) ==
  IF ~HideTail(c) THEN j - 2
  ELSE IF j = 1 THEN c.degree - 1
  ELSE IF j <= c.degree THEN j - 2
  ELSE IF j = c.degree + 1 THEN HostStage ELSE GradAdd

-----------------------------------------------------------------------------
(* The inductive invariant.                                                *)

Types ==
  /\ config \in Configs
  /\ at \in [Ranks -> Int \X Int]
  /\ busy \in [Ranks -> BOOLEAN]
  /\ count \in [Ranks -> [Barriers -> Nat]]
  /\ queue \in [Ranks -> [Streams -> Seq(Launches(config))]]
  /\ reached \in [Ranks -> SUBSET Launches(config)]
  /\ started \in [Ranks -> SUBSET Launches(config)]
  /\ finished \in [Ranks -> SUBSET Launches(config)]
  /\ computed \in [Ranks -> Seq(Int)]

InPlace(r) ==
  /\ at[r][1] \in HostStage .. LoopEnd(config) + 1
  /\ at[r][2] \in 1 .. Length(config, at[r][1])
  /\ at[r][1] > LoopEnd(config) => at[r][2] = 1
  /\ busy[r] => ~Returned(r) /\ Step(r).op = "compute"

Launched(r) == LaunchedBy(config, at[r][1], at[r][2])

\* A comm stream holds what is launched and unfinished, in launch order, and only
\* its head has begun.
QueuesInOrder(r) ==
  /\ \A s \in Streams :
       /\ \A i \in 1 .. Len(queue[r][s]) :
            /\ queue[r][s][i] \in Launched(r) \ finished[r]
            /\ StreamOf(config, queue[r][s][i]) = s
       /\ \A i, j \in 1 .. Len(queue[r][s]) :
            i < j => Time(config, queue[r][s][i]) < Time(config, queue[r][s][j])
  /\ \A k \in Launched(r) \ finished[r] :
       \E i \in 1 .. Len(queue[r][StreamOf(config, k)]) : queue[r][StreamOf(config, k)][i] = k
  /\ finished[r] \subseteq started[r] /\ started[r] \subseteq Launched(r) \cap reached[r]
  /\ \A k \in started[r], l \in Launched(r) :
       StreamOf(config, l) = StreamOf(config, k) /\ Time(config, l) < Time(config, k)
         => l \in finished[r]

BarriersHold(r) ==
  /\ SyncedBy(config, at[r][1], at[r][2]) \subseteq started[r]
  /\ ~Returned(r) => \A b \in Barriers :
       count[r][b] = Cardinality(CountedBy(config, at[r][1], at[r][2], b) \cap started[r])
  /\ \A b \in Barriers : count[r][b] <= Target(config, b)

WorksHold(r) ==
  /\ WaitedBy(config, at[r][1], at[r][2]) \subseteq finished[r]
  /\ Len(computed[r]) = NumComputed(config, at[r][1], at[r][2])
  /\ \A j \in 1 .. Len(computed[r]) : computed[r][j] = WorkAt(config, j)

Holds(r) == InPlace(r) /\ QueuesInOrder(r) /\ BarriersHold(r) /\ WorksHold(r)

Inv == Types /\ \A r \in Ranks : Holds(r)

-----------------------------------------------------------------------------
(* The program, step by step.                                              *)

LEMMA ConfigFacts ==
  ASSUME NEW c \in Configs
  PROVE  /\ c.degree \in Nat \ {0} /\ LoopEnd(c) \in Nat /\ c.qo \in BOOLEAN
         /\ c.pass \in {"forward", "backward", "hide_tail"}
         /\ c.qo => c.degree = 1 /\ ~HideTail(c)
         /\ LoopEnd(c) = IF HideTail(c) THEN c.degree - 1 ELSE c.degree
         /\ HideTail(c) <=> c.pass = "hide_tail"
<1>1. c.degree \in 1 .. MaxDegree /\ c.qo \in BOOLEAN
      /\ c.pass \in {"forward", "backward", "hide_tail"}
      /\ (c.qo => c.degree = 1 /\ c.pass # "hide_tail")
  BY DEF Configs
<1>2. c.degree \in Nat \ {0}
  BY <1>1, DegreeAssumption
<1>3. QED
  BY <1>1, <1>2 DEF LoopEnd, HideTail


LEMMA BlockFacts ==
  ASSUME NEW c \in Configs, NEW b \in Int, HostStage <= b, b < LoopEnd(c)
  PROVE  /\ NoPrefetch(c, b) <=> ~Prefetches(c, b)
         /\ ~HideTail(c) => (IsLast(c, b) <=> ~Prefetches(c, b))
         /\ HideTail(c) => (IsPenultimate(c, b) <=> ~Prefetches(c, b))
BY ConfigFacts DEF NoPrefetch, IsLast, IsPenultimate, HostStage, Prefetches


\* What the parts of a first block add up to.
LEMMA FirstTuples ==
  ASSUME NEW e, NEW f, NEW g, NEW h, NEW i
  PROVE  /\ LET s == <<e>> \o (<<f>> \o <<g, h, i>>)
            IN  Len(s) = 5 /\ s[1] = e /\ s[2] = f /\ s[3] = g /\ s[4] = h /\ s[5] = i
         /\ LET s == (<<>> \o <<>>) \o (<<>> \o <<g, h, i>>)
            IN  Len(s) = 3 /\ s[1] = g /\ s[2] = h /\ s[3] = i
         /\ LET s == <<e>> \o <<f, g>>
            IN  Len(s) = 3 /\ s[1] = e /\ s[2] = f /\ s[3] = g
OBVIOUS

LEMMA FirstSteps ==
  ASSUME NEW c \in Configs
  PROVE  /\ Len(FirstStage(c)) = Length(c, HostStage)
         /\ Prefetches(c, HostStage) => FirstStage(c)[1] = Launch(Fetch(c, 0)) /\ FirstStage(c)[2] = Synchronize("fetch")
         /\ ~HideTail(c) => Prefetches(c, HostStage) /\ FirstStage(c)[3] = Compute(HostStage)
         /\ HideTail(c) =>
              /\ FirstStage(c)[Pre(c, HostStage) + 1] = Reset("reduce")
              /\ FirstStage(c)[Pre(c, HostStage) + 2] = Compute(c.degree - 1)
              /\ FirstStage(c)[Pre(c, HostStage) + 3] = Launch(Reduce(c, c.degree - 1))
<1>1. c.degree \in Nat \ {0} /\ HostStage = -1 /\ HostStage < LoopEnd(c) /\ HostStage + 1 = 0
  BY ConfigFacts DEF HostStage
<1>2. /\ NoPrefetch(c, HostStage) <=> ~Prefetches(c, HostStage)
      /\ HideTail(c) => (IsPenultimate(c, HostStage) <=> ~Prefetches(c, HostStage))
      /\ ~HideTail(c) => Prefetches(c, HostStage)
  BY <1>1, BlockFacts, ConfigFacts DEF Prefetches
<1>3. CurrAndFetchNext(c, HostStage) =
        <<>> \o (IF Prefetches(c, HostStage) THEN <<Launch(Fetch(c, 0))>> ELSE <<>>)
  BY <1>1, <1>2 DEF CurrAndFetchNext, When
<1>4. CASE ~HideTail(c)
  <2>1. FirstStage(c) = <<Launch(Fetch(c, 0))>> \o <<Synchronize("fetch"), Compute(HostStage)>>
    BY <1>2, <1>3, <1>4 DEF FirstStage
  <2>2. Length(c, HostStage) = 3
    BY <1>1, <1>2, <1>4 DEF Length, Pre
  <2>3. QED
    BY <1>2, <1>4, <2>1, <2>2, FirstTuples
<1>5. CASE HideTail(c) /\ Prefetches(c, HostStage)
  <2>1. FirstStage(c) = <<Launch(Fetch(c, 0))>> \o (<<Synchronize("fetch")>> \o
                          <<Reset("reduce"), Compute(c.degree - 1), Launch(Reduce(c, c.degree - 1))>>)
    BY <1>2, <1>3, <1>5 DEF FirstStage, When
  <2>2. Length(c, HostStage) = 5 /\ Pre(c, HostStage) = 2
    BY <1>1, <1>2, <1>5 DEF Length, Pre
  <2>3. QED
    BY <1>2, <1>5, <2>1, <2>2, FirstTuples
<1>6. CASE HideTail(c) /\ ~Prefetches(c, HostStage)
  <2>1. FirstStage(c) = (<<>> \o <<>>) \o (<<>> \o
                          <<Reset("reduce"), Compute(c.degree - 1), Launch(Reduce(c, c.degree - 1))>>)
    BY <1>2, <1>3, <1>6 DEF FirstStage, When
  <2>2. Length(c, HostStage) = 3 /\ Pre(c, HostStage) = 0
    BY <1>1, <1>2, <1>6 DEF Length, Pre
  <2>3. QED
    BY <1>2, <1>6, <2>1, <2>2, FirstTuples
<1>7. QED
  BY <1>4, <1>5, <1>6

\* What the parts of the block of a remote stage add up to.
LEMMA StageTuples ==
  ASSUME NEW e, NEW f, NEW g, NEW h, NEW i, NEW x, NEW y, NEW z
  PROVE  /\ LET s == <<e>> \o (<<f>> \o <<g>>) \o (<<h>> \o <<i>>) \o <<x, y, z>>
            IN  Len(s) = 8 /\ s[1] = e /\ s[2] = f /\ s[3] = g /\ s[4] = h /\ s[5] = i
                /\ s[6] = x /\ s[7] = y /\ s[8] = z
         /\ LET s == <<e>> \o (<<f>> \o <<g>>) \o (<<h>> \o <<>>) \o <<x, y, z>>
            IN  Len(s) = 7 /\ s[1] = e /\ s[2] = f /\ s[3] = g /\ s[4] = h
                /\ s[5] = x /\ s[6] = y /\ s[7] = z
         /\ LET s == <<e>> \o (<<f>> \o <<>>) \o (<<>> \o <<i>>) \o <<x, y, z>>
            IN  Len(s) = 6 /\ s[1] = e /\ s[2] = f /\ s[3] = i
                /\ s[4] = x /\ s[5] = y /\ s[6] = z
         /\ LET s == <<e>> \o (<<f>> \o <<>>) \o (<<>> \o <<>>) \o <<x, y, z>>
            IN  Len(s) = 5 /\ s[1] = e /\ s[2] = f /\ s[3] = x /\ s[4] = y /\ s[5] = z
OBVIOUS

LEMMA StageSteps ==
  ASSUME NEW c \in Configs, NEW b \in 0 .. LoopEnd(c) - 1
  PROVE  LET s == RemoteStage(c, b)
             n == Pre(c, b)
         IN  /\ Len(s) = Length(c, b)
             /\ s[1] = Reset("fetch") /\ s[2] = WaitFor(Fetch(c, b))
             /\ Prefetches(c, b) => s[3] = Launch(Fetch(c, b + 1)) /\ s[4] = Synchronize("fetch")
             /\ WaitsForReduce(c, b) => s[n] = Synchronize("reduce")
             /\ IF c.pass = "forward"
                  THEN s[n + 1] = Compute(b) /\ s[n + 2] = Reset("reduce")
                  ELSE s[n + 1] = Reset("reduce") /\ s[n + 2] = Compute(b)
             /\ s[n + 3] = Launch(Reduce(c, b))
<1>1. /\ b \in Int /\ HostStage <= b /\ b < LoopEnd(c) /\ b # HostStage
  BY ConfigFacts DEF HostStage
<1>2. /\ NoPrefetch(c, b) <=> ~Prefetches(c, b)
      /\ ~HideTail(c) => (IsLast(c, b) <=> ~Prefetches(c, b))
      /\ HideTail(c) => (IsPenultimate(c, b) <=> ~Prefetches(c, b))
  BY <1>1, BlockFacts
<1>3. CurrAndFetchNext(c, b) = <<WaitFor(Fetch(c, b))>> \o
        (IF Prefetches(c, b) THEN <<Launch(Fetch(c, b + 1))>> ELSE <<>>)
  BY <1>1, <1>2 DEF CurrAndFetchNext, When
<1>4. BeforeFfa(c, b) = (IF Prefetches(c, b) THEN <<Synchronize("fetch")>> ELSE <<>>) \o
                        (IF WaitsForReduce(c, b) THEN <<Synchronize("reduce")>> ELSE <<>>)
  <2>1. CASE HideTail(c)
    BY <1>2, <2>1 DEF BeforeFfa, When, WaitsForReduce
  <2>2. CASE ~HideTail(c)
    BY <1>2, <2>2 DEF BeforeFfa, When, WaitsForReduce
  <2>3. QED
    BY <2>1, <2>2
<1> DEFINE x == IF c.pass = "forward" THEN Compute(b) ELSE Reset("reduce")
           y == IF c.pass = "forward" THEN Reset("reduce") ELSE Compute(b)
<1>5. FfaAndReduce(c, b) = <<x, y, Launch(Reduce(c, b))>>
  BY DEF FfaAndReduce
<1>6. /\ c.pass = "forward" => x = Compute(b) /\ y = Reset("reduce")
      /\ c.pass # "forward" => x = Reset("reduce") /\ y = Compute(b)
  OBVIOUS
<1> HIDE DEF x, y
<1>7. CASE Prefetches(c, b) /\ WaitsForReduce(c, b)
  <2>1. RemoteStage(c, b) = <<Reset("fetch")>> \o (<<WaitFor(Fetch(c, b))>> \o <<Launch(Fetch(c, b + 1))>>) \o
          (<<Synchronize("fetch")>> \o <<Synchronize("reduce")>>) \o <<x, y, Launch(Reduce(c, b))>>
    BY <1>3, <1>4, <1>5, <1>7 DEF RemoteStage
  <2>2. Length(c, b) = 8 /\ Pre(c, b) = 5
    BY <1>1, <1>7 DEF Length, Pre
  <2>3. QED
    BY <1>6, <1>7, <2>1, <2>2, StageTuples
<1>8. CASE Prefetches(c, b) /\ ~WaitsForReduce(c, b)
  <2>1. RemoteStage(c, b) = <<Reset("fetch")>> \o (<<WaitFor(Fetch(c, b))>> \o <<Launch(Fetch(c, b + 1))>>) \o
          (<<Synchronize("fetch")>> \o <<>>) \o <<x, y, Launch(Reduce(c, b))>>
    BY <1>3, <1>4, <1>5, <1>8 DEF RemoteStage
  <2>2. Length(c, b) = 7 /\ Pre(c, b) = 4
    BY <1>1, <1>8 DEF Length, Pre
  <2>3. QED
    BY <1>6, <1>8, <2>1, <2>2, StageTuples
<1>9. CASE ~Prefetches(c, b) /\ WaitsForReduce(c, b)
  <2>1. RemoteStage(c, b) = <<Reset("fetch")>> \o (<<WaitFor(Fetch(c, b))>> \o <<>>) \o
          (<<>> \o <<Synchronize("reduce")>>) \o <<x, y, Launch(Reduce(c, b))>>
    BY <1>3, <1>4, <1>5, <1>9 DEF RemoteStage
  <2>2. Length(c, b) = 6 /\ Pre(c, b) = 3
    BY <1>1, <1>9 DEF Length, Pre
  <2>3. QED
    BY <1>6, <1>9, <2>1, <2>2, StageTuples
<1>10. CASE ~Prefetches(c, b) /\ ~WaitsForReduce(c, b)
  <2>1. RemoteStage(c, b) = <<Reset("fetch")>> \o (<<WaitFor(Fetch(c, b))>> \o <<>>) \o
          (<<>> \o <<>>) \o <<x, y, Launch(Reduce(c, b))>>
    BY <1>3, <1>4, <1>5, <1>10 DEF RemoteStage
  <2>2. Length(c, b) = 5 /\ Pre(c, b) = 2
    BY <1>1, <1>10 DEF Length, Pre
  <2>3. QED
    BY <1>6, <1>10, <2>1, <2>2, StageTuples
<1>11. QED
  BY <1>7, <1>8, <1>9, <1>10

LEMMA LastTuples ==
  ASSUME NEW e, NEW f, NEW g, NEW h, NEW i
  PROVE  /\ LET s == <<e, f, g, h>> \o <<i>>
            IN  Len(s) = 5 /\ s[1] = e /\ s[2] = f /\ s[3] = g /\ s[4] = h /\ s[5] = i
         /\ LET s == <<>> \o <<i>>
            IN  Len(s) = 1 /\ s[1] = i
OBVIOUS

LEMMA EndSteps ==
  ASSUME NEW c \in Configs
  PROVE  LET s == LastSteps(c)
         IN  /\ Len(s) = Length(c, LoopEnd(c))
             /\ s[Length(c, LoopEnd(c))] = WaitFor(Reduces(c))
             /\ HideTail(c) =>
                  /\ s[1] = Synchronize("reduce") /\ s[2] = Compute(HostStage)
                  /\ s[3] = WaitFor(Awaited(c)) /\ s[4] = Compute(GradAdd)
<1>1. LoopEnd(c) \in Nat
  BY ConfigFacts
<1>2. CASE HideTail(c)
  <2>1. LastSteps(c) = <<Synchronize("reduce"), Compute(HostStage), WaitFor(Awaited(c)), Compute(GradAdd)>>
                       \o <<WaitFor(Reduces(c))>>
    BY <1>2 DEF LastSteps, HiddenTailSteps, Awaited
  <2>2. Length(c, LoopEnd(c)) = 5
    BY <1>1, <1>2 DEF Length
  <2>3. QED
    BY <1>2, <2>1, <2>2, LastTuples
<1>3. CASE ~HideTail(c)
  <2>1. LastSteps(c) = <<>> \o <<WaitFor(Reduces(c))>>
    BY <1>3 DEF LastSteps, HiddenTailSteps
  <2>2. Length(c, LoopEnd(c)) = 1
    BY <1>1, <1>3 DEF Length
  <2>3. QED
    BY <1>3, <2>1, <2>2, LastTuples
<1>4. QED
  BY <1>2, <1>3

-----------------------------------------------------------------------------
(* The collectives.                                                        *)

\* The collectives of a stage.
LEMMA StageMembers ==
  ASSUME NEW c \in Configs, NEW s \in Remote(c), NEW k
  PROVE  /\ k \in Fetch(c, s) => k.barrier = "fetch" /\ k.stage = s /\ k \in Collectives(c)
         /\ k \in Reduce(c, s) => k.barrier = "reduce" /\ k.stage = s /\ k \in Collectives(c)
         /\ k \in Collectives(c) <=> \E i \in Remote(c) : k \in Fetch(c, i) \/ k \in Reduce(c, i)
<1>1. ASSUME k \in Fetch(c, s) PROVE k.barrier = "fetch" /\ k.stage = s
  BY <1>1 DEF Fetch, Collective
<1>2. ASSUME k \in Reduce(c, s) PROVE k.barrier = "reduce" /\ k.stage = s
  BY <1>2 DEF Reduce, Collective
<1> DEFINE F == UNION {Fetch(c, i) : i \in Remote(c)}
           R == UNION {Reduce(c, i) : i \in Remote(c)}
<1>3. /\ k \in F <=> \E i \in Remote(c) : k \in Fetch(c, i)
      /\ k \in R <=> \E i \in Remote(c) : k \in Reduce(c, i)
  OBVIOUS
<1>4. k \in Collectives(c) <=> \E i \in Remote(c) : k \in Fetch(c, i) \/ k \in Reduce(c, i)
  <2>1. Collectives(c) = R \cup F
    BY DEF Collectives, Reduces
  <2> HIDE DEF F, R
  <2>2. QED
    BY <1>3, <2>1
<1>5. QED
  BY <1>1, <1>2, <1>4

\* What a launched collective is.
LEMMA CollectiveFacts ==
  ASSUME NEW c \in Configs, NEW k \in Collectives(c)
  PROVE  /\ k.barrier \in Barriers /\ k.tensor \in {"kv", "qo"} /\ k.stage \in Remote(c)
         /\ k.stage \in Int /\ 0 <= k.stage /\ k.stage < c.degree
         /\ k.barrier = "fetch" => k \in Fetch(c, k.stage)
         /\ k.barrier = "reduce" => k \in Reduce(c, k.stage) /\ k \in Reduces(c)
         /\ Block(c, k) \in Int /\ Time(c, k) \in Int
         /\ k \in Launches(c) => HostStage <= Block(c, k) /\ Block(c, k) < LoopEnd(c)
         /\ k = Collective(k.barrier, k.tensor, k.stage)
         /\ k.tensor = "qo" => c.qo
<1>1. c.degree \in Nat \ {0} /\ LoopEnd(c) \in Nat
      /\ LoopEnd(c) = IF HideTail(c) THEN c.degree - 1 ELSE c.degree
  BY ConfigFacts
<1>2. PICK s \in Remote(c) : k \in Fetch(c, s) \/ k \in Reduce(c, s)
  <2>1. 0 \in Remote(c)
    BY <1>1 DEF Remote
  <2>2. QED
    BY <2>1, StageMembers
<1>3. /\ k.stage = s /\ k.barrier \in Barriers /\ k.tensor \in {"kv", "qo"}
      /\ k.tensor = "qo" => c.qo
      /\ k \in Fetch(c, s) => k.barrier = "fetch"
      /\ k \in Reduce(c, s) => k.barrier = "reduce"
      /\ k = Collective(k.barrier, k.tensor, k.stage)
  <2>1. CASE k \in Fetch(c, s)
    BY <2>1 DEF Fetch, Reduce, Collective, Barriers
  <2>2. CASE k \in Reduce(c, s)
    BY <2>2 DEF Fetch, Reduce, Collective, Barriers
  <2>3. QED
    BY <1>2, <2>1, <2>2
<1>4. s \in Int /\ 0 <= s /\ s < c.degree
  BY <1>1 DEF Remote
<1>5. Block(c, k) \in Int /\ Time(c, k) \in Int
  BY <1>3, <1>4 DEF Block, Time, HostStage
<1>6. ASSUME k \in Launches(c) PROVE HostStage <= Block(c, k) /\ Block(c, k) < LoopEnd(c)
  BY <1>1, <1>3, <1>4, <1>6 DEF Launches, Block, HostStage, IsLast
<1>7. k \in Reduce(c, s) => k \in Reduces(c)
  BY DEF Reduces
<1>8. QED
  BY <1>2, <1>3, <1>4, <1>5, <1>6, <1>7

\* The collectives that a block launches: its prefetch and its reduces.
LEMMA FetchOfBlock ==
  ASSUME NEW c \in Configs, NEW b \in Int, HostStage <= b
  PROVE  {k \in Launches(c) : k.barrier = "fetch" /\ Block(c, k) = b}
           = IF Prefetches(c, b) THEN Fetch(c, b + 1) ELSE {}
<1> DEFINE F == {k \in Launches(c) : k.barrier = "fetch" /\ Block(c, k) = b}
<1>1. c.degree \in Nat \ {0} /\ LoopEnd(c) \in Nat /\ LoopEnd(c) <= c.degree
  BY ConfigFacts
<1>2. ASSUME NEW k \in F PROVE Prefetches(c, b) /\ k \in Fetch(c, b + 1)
  BY <1>1, CollectiveFacts DEF Launches, Block, Prefetches
<1>3. ASSUME Prefetches(c, b), NEW k \in Fetch(c, b + 1) PROVE k \in F
  <2>1. b + 1 \in Remote(c) /\ b + 1 < LoopEnd(c)
    BY <1>1, <1>3 DEF Remote, Prefetches, HostStage
  <2>2. k.barrier = "fetch" /\ k.stage = b + 1 /\ k \in Collectives(c)
    BY <1>3, <2>1, StageMembers
  <2>3. QED
    BY <2>1, <2>2 DEF Launches, Block
<1>4. QED
  BY <1>2, <1>3

LEMMA ReduceOfBlock ==
  ASSUME NEW c \in Configs, NEW b \in Int
  PROVE  {k \in Launches(c) : k.barrier # "fetch" /\ Block(c, k) = b}
           = IF 0 <= b /\ b < LoopEnd(c) THEN Reduce(c, b)
             ELSE IF b = HostStage /\ HideTail(c) THEN Reduce(c, c.degree - 1) ELSE {}
<1> DEFINE R == {k \in Launches(c) : k.barrier # "fetch" /\ Block(c, k) = b}
<1>1. c.degree \in Nat \ {0} /\ LoopEnd(c) \in Nat
      /\ LoopEnd(c) = IF HideTail(c) THEN c.degree - 1 ELSE c.degree
  BY ConfigFacts
<1>2. ASSUME NEW k \in R
      PROVE  \/ 0 <= b /\ b < LoopEnd(c) /\ k \in Reduce(c, b)
             \/ b = HostStage /\ HideTail(c) /\ k \in Reduce(c, c.degree - 1)
  <2>1. k \in Collectives(c) /\ k.barrier # "fetch" /\ Block(c, k) = b
    BY <1>2 DEF Launches
  <2>2. k.barrier = "reduce" /\ k \in Reduce(c, k.stage) /\ k.stage \in 0 .. c.degree - 1
    BY <1>1, <2>1, CollectiveFacts DEF Barriers
  <2>3. CASE HideTail(c) /\ IsLast(c, k.stage)
    BY <1>1, <2>1, <2>2, <2>3 DEF Block, IsLast
  <2>4. CASE ~(HideTail(c) /\ IsLast(c, k.stage))
    BY <1>1, <2>1, <2>2, <2>4 DEF Block, IsLast
  <2>5. QED
    BY <2>3, <2>4
<1>3. ASSUME NEW s \in Remote(c), NEW k \in Reduce(c, s),
             b = IF HideTail(c) /\ IsLast(c, s) THEN HostStage ELSE s
      PROVE  k \in R
  BY <1>3, StageMembers DEF Launches, Block
<1>4. ASSUME 0 <= b, b < LoopEnd(c), NEW k \in Reduce(c, b) PROVE k \in R
  <2>1. b \in Remote(c) /\ ~(HideTail(c) /\ IsLast(c, b))
    BY <1>1, <1>4 DEF Remote, IsLast
  <2>2. QED
    BY <1>3, <1>4, <2>1
<1>5. ASSUME b = HostStage, HideTail(c), NEW k \in Reduce(c, c.degree - 1) PROVE k \in R
  <2>1. c.degree - 1 \in Remote(c) /\ IsLast(c, c.degree - 1)
    BY <1>1 DEF Remote, IsLast
  <2>2. QED
    BY <1>3, <1>5, <2>1
<1>6. HostStage = -1
  BY DEF HostStage
<1>7. QED
  <2>1. CASE 0 <= b /\ b < LoopEnd(c)
    BY <1>2, <1>4, <1>6, <2>1
  <2>2. CASE b = HostStage /\ HideTail(c)
    BY <1>2, <1>5, <1>6, <2>2
  <2>3. CASE ~(0 <= b /\ b < LoopEnd(c)) /\ ~(b = HostStage /\ HideTail(c))
    BY <1>2, <2>3
  <2>4. QED
    BY <1>6, <2>1, <2>2, <2>3

\* A barrier waits for as many arrivals as a stage has collectives of its kind.
LEMMA BatchSize ==
  ASSUME NEW c \in Configs, NEW s
  PROVE  /\ IsFiniteSet(Fetch(c, s)) /\ Cardinality(Fetch(c, s)) = Target(c, "fetch")
         /\ IsFiniteSet(Reduce(c, s)) /\ Cardinality(Reduce(c, s)) = Target(c, "reduce")
<1>1. \A x, y : IsFiniteSet({x}) /\ Cardinality({x}) = 1
               /\ (x # y => IsFiniteSet({x, y}) /\ Cardinality({x, y}) = 2)
  <2> SUFFICES ASSUME NEW x, NEW y
               PROVE  /\ IsFiniteSet({x}) /\ Cardinality({x}) = 1
                      /\ (x # y => IsFiniteSet({x, y}) /\ Cardinality({x, y}) = 2)
    OBVIOUS
  <2>1. IsFiniteSet({x}) /\ Cardinality({x}) = 1
    BY FS_Singleton
  <2>2. ASSUME x # y PROVE IsFiniteSet({x, y}) /\ Cardinality({x, y}) = 2
    <3>1. {x, y} = {x} \cup {y} /\ y \notin {x}
      BY <2>2
    <3>2. QED
      BY <2>1, <3>1, FS_AddElement
  <2>3. QED
    BY <2>1, <2>2
<1>2. IsFiniteSet({}) /\ Cardinality({}) = 0
  BY FS_EmptySet
<1>3. \A b : LET kv == Collective(b, "kv", s)
                qo == Collective(b, "qo", s)
            IN  /\ IsFiniteSet({kv}) /\ Cardinality({kv}) = 1
                /\ IsFiniteSet({qo}) /\ Cardinality({qo}) = 1
                /\ IsFiniteSet({kv, qo}) /\ Cardinality({kv, qo}) = 2
  <2>1. \A b : Collective(b, "kv", s) # Collective(b, "qo", s)
    BY DEF Collective
  <2>2. QED
    BY <1>1, <2>1
<1>4. IsFiniteSet(Fetch(c, s)) /\ Cardinality(Fetch(c, s)) = Target(c, "fetch")
  <2>1. Fetch(c, s) = IF c.qo THEN {Collective("fetch", "kv", s), Collective("fetch", "qo", s)}
                      ELSE {Collective("fetch", "kv", s)}
    BY DEF Fetch
  <2>2. Target(c, "fetch") = IF c.qo THEN 2 ELSE 1
    BY DEF Target
  <2>3. QED
    BY <1>3, <2>1, <2>2
<1>5. IsFiniteSet(Reduce(c, s)) /\ Cardinality(Reduce(c, s)) = Target(c, "reduce")
  <2>1. CASE c.pass = "forward"
    <3>1. Reduce(c, s) = IF c.qo THEN {Collective("reduce", "qo", s)} ELSE {}
      BY <2>1 DEF Reduce
    <3>2. Target(c, "reduce") = IF c.qo THEN 1 ELSE 0
      BY <2>1 DEF Target
    <3>3. QED
      BY <1>2, <1>3, <3>1, <3>2
  <2>2. CASE c.pass # "forward"
    <3>1. Reduce(c, s) = IF c.qo THEN {Collective("reduce", "kv", s), Collective("reduce", "qo", s)}
                         ELSE {Collective("reduce", "kv", s)}
      BY <2>2 DEF Reduce
    <3>2. Target(c, "reduce") = IF c.qo THEN 2 ELSE 1
      BY <2>2 DEF Target
    <3>3. QED
      BY <1>3, <3>1, <3>2
  <2>3. QED
    BY <2>1, <2>2
<1>6. QED
  BY <1>4, <1>5

-----------------------------------------------------------------------------
(* What a compute stream finds at each position.                           *)

Position(c, b, i) == b \in HostStage .. LoopEnd(c) /\ i \in 1 .. Length(c, b)

\* The position after one.
Follows(c, b, i, nb, ni) ==
  IF i < Length(c, b) THEN nb = b /\ ni = i + 1 ELSE nb = b + 1 /\ ni = 1

\* The collectives that are launched at a position.
LaunchedAt(c, b, i) ==
  {k \in Launches(c) :
     Block(c, k) = b /\ (IF k.barrier = "fetch" THEN i = FetchIndex(b) ELSE i = Length(c, b))}

LEMMA Operations ==
  ASSUME NEW b, NEW ks, NEW w
  PROVE  /\ Reset(b).op = "reset" /\ Reset(b).barrier = b
         /\ Synchronize(b).op = "synchronize" /\ Synchronize(b).barrier = b
         /\ Launch(ks).op = "launch" /\ Launch(ks).kernels = ks
         /\ WaitFor(ks).op = "wait" /\ WaitFor(ks).kernels = ks
         /\ Compute(w).op = "compute" /\ Compute(w).work = w
BY DEF Reset, Synchronize, Launch, WaitFor, Compute

LEMMA BlockLength ==
  ASSUME NEW c \in Configs, NEW b \in HostStage .. LoopEnd(c)
  PROVE  Len(Steps(c, b)) = Length(c, b) /\ Length(c, b) \in Nat \ {0} /\ Pre(c, b) \in Nat
<1>1. LoopEnd(c) \in Nat /\ HostStage = -1
  BY ConfigFacts DEF HostStage
<1>2. Length(c, b) \in Nat \ {0} /\ Pre(c, b) \in Nat
  BY <1>1 DEF Length, Pre
<1>3. CASE b = HostStage
  BY <1>2, <1>3, FirstSteps DEF Steps
<1>4. CASE b # HostStage /\ b < LoopEnd(c)
  <2>1. b \in 0 .. LoopEnd(c) - 1
    BY <1>1, <1>4
  <2>2. QED
    BY <1>2, <1>4, <2>1, StageSteps DEF Steps
<1>5. CASE b # HostStage /\ ~(b < LoopEnd(c))
  <2>1. b = LoopEnd(c)
    BY <1>1, <1>5
  <2>2. QED
    BY <1>2, <1>5, <2>1, EndSteps DEF Steps
<1>6. QED
  BY <1>3, <1>4, <1>5

\* Every position of the program and its step.
LEMMA StepTable ==
  ASSUME NEW c \in Configs, NEW b, NEW i, Position(c, b, i)
  PROVE  LET s == Steps(c, b)[i]
             loop == 0 <= b /\ b < LoopEnd(c)
             tail == b = HostStage /\ HideTail(c)
             end == b = LoopEnd(c)
         IN  \/ loop /\ i = 1 /\ s = Reset("fetch")
             \/ loop /\ i = 2 /\ s = WaitFor(Fetch(c, b))
             \/ b < LoopEnd(c) /\ Prefetches(c, b) /\ i = FetchIndex(b) /\ s = Launch(Fetch(c, b + 1))
             \/ b < LoopEnd(c) /\ Prefetches(c, b) /\ i = FetchIndex(b) + 1 /\ s = Synchronize("fetch")
             \/ loop /\ WaitsForReduce(c, b) /\ i = Pre(c, b) /\ s = Synchronize("reduce")
             \/ (loop \/ tail) /\ i = ResetIndex(c, b) /\ s = Reset("reduce")
             \/ b < LoopEnd(c) /\ i = ComputeIndex(c, b) /\ s = Compute(WorkAt(c, b + 2))
             \/ loop /\ i = Length(c, b) /\ s = Launch(Reduce(c, b))
             \/ tail /\ i = Length(c, b) /\ s = Launch(Reduce(c, c.degree - 1))
             \/ end /\ HideTail(c) /\ i = 1 /\ s = Synchronize("reduce")
             \/ end /\ HideTail(c) /\ i = 2 /\ s = Compute(HostStage)
             \/ end /\ HideTail(c) /\ i = 3 /\ s = WaitFor(Awaited(c))
             \/ end /\ HideTail(c) /\ i = 4 /\ s = Compute(GradAdd)
             \/ end /\ i = Length(c, b) /\ s = WaitFor(Reduces(c))
<1>1. /\ LoopEnd(c) \in Nat /\ HostStage = -1 /\ c.degree \in Nat \ {0}
      /\ LoopEnd(c) = IF HideTail(c) THEN c.degree - 1 ELSE c.degree
      /\ HideTail(c) => c.pass # "forward"
      /\ b \in HostStage .. LoopEnd(c) /\ i \in 1 .. Length(c, b) /\ i \in Int /\ b \in Int
  BY ConfigFacts DEF HostStage, Position
<1> DEFINE s == Steps(c, b)[i]
<1>2. CASE b = HostStage
  <2>1. s = FirstStage(c)[i]
    BY <1>2 DEF Steps
  <2>2. CASE ~HideTail(c)
    <3>1. Prefetches(c, b) /\ Pre(c, b) = 2 /\ Length(c, b) = 3 /\ ComputeIndex(c, b) = 3 /\ FetchIndex(b) = 1
          /\ WorkAt(c, b + 2) = HostStage
      BY <1>1, <1>2, <2>2, FirstSteps DEF Pre, Length, ComputeIndex, FetchIndex, WorkAt
    <3>2. b < LoopEnd(c) /\ b + 1 = 0
      BY <1>1, <1>2
    <3>3. i = 1 \/ i = 2 \/ i = 3
      BY <1>1, <3>1
    <3>4. QED
      BY <1>2, <2>1, <2>2, <3>1, <3>2, <3>3, FirstSteps
  <2>3. CASE HideTail(c)
    <3>1. /\ Pre(c, b) = IF Prefetches(c, b) THEN 2 ELSE 0
          /\ Length(c, b) = Pre(c, b) + 3 /\ ComputeIndex(c, b) = Pre(c, b) + 2 /\ FetchIndex(b) = 1
          /\ ResetIndex(c, b) = Pre(c, b) + 1
          /\ WorkAt(c, b + 2) = c.degree - 1
      BY <1>1, <1>2, <2>3 DEF Pre, Length, ComputeIndex, ResetIndex, FetchIndex, WorkAt
    <3>2. b < LoopEnd(c) /\ b + 1 = 0
      BY <1>1, <1>2, <2>3
    <3>3. \/ Prefetches(c, b) /\ (i = FetchIndex(b) \/ i = FetchIndex(b) + 1)
          \/ i = ResetIndex(c, b) \/ i = ComputeIndex(c, b) \/ i = Length(c, b)
      BY <1>1, <3>1
    <3>4. QED
      BY <1>2, <2>1, <2>3, <3>1, <3>2, <3>3, FirstSteps
  <2>4. QED
    BY <2>2, <2>3
<1>3. CASE b # HostStage /\ b < LoopEnd(c)
  <2>1. b \in 0 .. LoopEnd(c) - 1 /\ s = RemoteStage(c, b)[i] /\ 0 <= b
    BY <1>1, <1>3 DEF Steps
  <2>2. /\ Pre(c, b) = 2 + (IF Prefetches(c, b) THEN 2 ELSE 0) + (IF WaitsForReduce(c, b) THEN 1 ELSE 0)
        /\ Length(c, b) = Pre(c, b) + 3 /\ FetchIndex(b) = 3
        /\ ComputeIndex(c, b) = Pre(c, b) + IF c.pass = "forward" THEN 1 ELSE 2
        /\ ResetIndex(c, b) = Pre(c, b) + IF c.pass = "forward" THEN 2 ELSE 1
    BY <1>1, <1>3 DEF Pre, Length, FetchIndex, ComputeIndex, ResetIndex
  <2>3. WorkAt(c, b + 2) = b
    <3>1. b + 2 # 1 /\ (b + 2) - 2 = b /\ (HideTail(c) => b + 2 <= c.degree)
      BY <1>1, <1>3, <2>1
    <3>2. QED
      BY <3>1 DEF WorkAt
  <2>4. \/ i = 1 \/ i = 2
        \/ Prefetches(c, b) /\ (i = FetchIndex(b) \/ i = FetchIndex(b) + 1)
        \/ WaitsForReduce(c, b) /\ i = Pre(c, b)
        \/ i = ResetIndex(c, b) \/ i = ComputeIndex(c, b) \/ i = Length(c, b)
    <3>1. CASE c.pass = "forward"
      BY <1>1, <2>2, <3>1
    <3>2. CASE c.pass # "forward"
      BY <1>1, <2>2, <3>2
    <3>3. QED
      BY <3>1, <3>2
  <2>5. /\ s = RemoteStage(c, b)[i]
        /\ FetchIndex(b) = 3 /\ FetchIndex(b) + 1 = 4 /\ Length(c, b) = Pre(c, b) + 3
        /\ RemoteStage(c, b)[ComputeIndex(c, b)] = Compute(b)
        /\ RemoteStage(c, b)[ResetIndex(c, b)] = Reset("reduce")
    BY <2>1, <2>2, StageSteps
  <2>6. QED
    BY <1>3, <2>1, <2>3, <2>4, <2>5, StageSteps
<1>4. CASE b # HostStage /\ ~(b < LoopEnd(c))
  <2>1. b = LoopEnd(c) /\ s = LastSteps(c)[i]
    BY <1>1, <1>4 DEF Steps
  <2>2. Length(c, b) = IF HideTail(c) THEN 5 ELSE 1
    BY <1>4 DEF Length
  <2>3. i = Length(c, b) \/ (HideTail(c) /\ (i = 1 \/ i = 2 \/ i = 3 \/ i = 4))
    BY <1>1, <2>2
  <2>4. QED
    BY <2>1, <2>3, EndSteps
<1>5. QED
  BY <1>2, <1>3, <1>4

-----------------------------------------------------------------------------
(* How what is known changes with the position.                            *)

\* The arithmetic of the positions in a block.
LEMMA Indices ==
  ASSUME NEW c \in Configs, NEW b, NEW i, Position(c, b, i)
  PROVE  /\ LoopEnd(c) \in Nat /\ HostStage = -1 /\ b \in Int /\ i \in Int /\ -1 <= b /\ b <= LoopEnd(c)
         /\ 1 <= i /\ i <= Length(c, b) /\ Length(c, b) \in Nat /\ Pre(c, b) \in Nat
         /\ Prefetches(c, b) <=> b + 1 < LoopEnd(c)
         /\ b = -1 => /\ FetchIndex(b) = 1
                      /\ Pre(c, b) = IF Prefetches(c, b) THEN 2 ELSE 0
         /\ b # -1 => /\ FetchIndex(b) = 3
                      /\ b < LoopEnd(c) => 
                           Pre(c, b) = 2 + (IF Prefetches(c, b) THEN 2 ELSE 0) + (IF WaitsForReduce(c, b) THEN 1 ELSE 0)
         /\ b = LoopEnd(c) => Pre(c, b) = 1 /\ Length(c, b) = IF HideTail(c) THEN 5 ELSE 1
         /\ b < LoopEnd(c) => Length(c, b) = Pre(c, b) + IF b = -1 /\ ~HideTail(c) THEN 1 ELSE 3
         /\ ~HideTail(c) => Prefetches(c, -1)
         /\ ResetIndex(c, b) \in Int /\ Pre(c, b) < ResetIndex(c, b)
         /\ b < LoopEnd(c) /\ ~(b = -1 /\ ~HideTail(c)) => ResetIndex(c, b) < Length(c, b)
         /\ b = -1 /\ ~HideTail(c) => Length(c, b) <= ResetIndex(c, b)
         /\ ComputeIndex(c, b) \in Int /\ Pre(c, b) < ComputeIndex(c, b)
         /\ ~(b = -1 /\ ~HideTail(c)) => ResetIndex(c, b) # ComputeIndex(c, b)
         /\ b < LoopEnd(c) => ComputeIndex(c, b) <= Length(c, b)
         /\ b < LoopEnd(c) /\ ~(b = -1 /\ ~HideTail(c)) => ComputeIndex(c, b) < Length(c, b)
<1>1. /\ LoopEnd(c) \in Nat /\ HostStage = -1 /\ (HideTail(c) => c.pass # "forward")
      /\ ~HideTail(c) => 0 < LoopEnd(c)
      /\ b \in HostStage .. LoopEnd(c) /\ i \in 1 .. Length(c, b) /\ i \in Int
  BY ConfigFacts DEF HostStage, Position
<1>2. b \in Int /\ -1 <= b /\ b <= LoopEnd(c) /\ 1 <= i /\ i <= Length(c, b)
      /\ Length(c, b) \in Nat /\ Pre(c, b) \in Nat
  BY <1>1, BlockLength
<1>3. Prefetches(c, b) <=> b + 1 < LoopEnd(c)
  BY DEF Prefetches
<1>4. ~HideTail(c) => Prefetches(c, -1)
  BY <1>1 DEF Prefetches
<1>5. b = -1 => FetchIndex(b) = 1 /\ Pre(c, b) = IF Prefetches(c, b) THEN 2 ELSE 0
  BY <1>1 DEF FetchIndex, Pre
<1>6. b # -1 => /\ FetchIndex(b) = 3
                /\ b < LoopEnd(c) =>
                     Pre(c, b) = 2 + (IF Prefetches(c, b) THEN 2 ELSE 0) + (IF WaitsForReduce(c, b) THEN 1 ELSE 0)
  BY <1>1 DEF FetchIndex, Pre
<1>7. /\ b = LoopEnd(c) => Pre(c, b) = 1 /\ Length(c, b) = IF HideTail(c) THEN 5 ELSE 1
      /\ b < LoopEnd(c) => Length(c, b) = Pre(c, b) + IF b = -1 /\ ~HideTail(c) THEN 1 ELSE 3
  BY <1>1, <1>2 DEF Pre, Length
<1>8. /\ ResetIndex(c, b) = Pre(c, b) + 1 \/ ResetIndex(c, b) = Pre(c, b) + 2
      /\ ComputeIndex(c, b) = Pre(c, b) + 1 \/ ComputeIndex(c, b) = Pre(c, b) + 2
      /\ b = -1 /\ ~HideTail(c) => ComputeIndex(c, b) = Pre(c, b) + 1
      /\ ~(b = -1 /\ ~HideTail(c)) => ResetIndex(c, b) # ComputeIndex(c, b)
  BY <1>1, <1>2 DEF ResetIndex, ComputeIndex
<1>9. QED
  BY <1>1, <1>2, <1>3, <1>4, <1>5, <1>6, <1>7, <1>8

LEMMA LaunchedNext ==
  ASSUME NEW c \in Configs, NEW b, NEW i, Position(c, b, i), NEW nb, NEW ni, Follows(c, b, i, nb, ni)
  PROVE  /\ LaunchedBy(c, nb, ni) = LaunchedBy(c, b, i) \cup LaunchedAt(c, b, i)
         /\ LaunchedBy(c, b, i) \cap LaunchedAt(c, b, i) = {}
<1>1. SUFFICES ASSUME NEW k \in Launches(c)
               PROVE  /\ k \in LaunchedBy(c, nb, ni) <=> k \in LaunchedBy(c, b, i) \/ k \in LaunchedAt(c, b, i)
                      /\ ~(k \in LaunchedBy(c, b, i) /\ k \in LaunchedAt(c, b, i))
  BY DEF LaunchedBy, LaunchedAt
<1>2. /\ Block(c, k) \in Int /\ -1 <= Block(c, k) /\ Block(c, k) < LoopEnd(c)
      /\ k.barrier = "fetch" => Prefetches(c, Block(c, k))
      /\ k.barrier # "fetch" /\ ~HideTail(c) => Block(c, k) # -1
  <2>1. k \in Collectives(c) /\ c.degree \in Nat \ {0} /\ LoopEnd(c) \in Nat
    BY ConfigFacts DEF Launches
  <2>2. k.barrier = "fetch" => k.stage < LoopEnd(c)
    BY DEF Launches
  <2>3. QED
    BY <2>1, <2>2, CollectiveFacts DEF Block, Prefetches, HostStage
<1>3. CASE i < Length(c, b)
  BY <1>2, <1>3, Indices DEF LaunchedBy, LaunchedAt, Follows
<1>4. CASE ~(i < Length(c, b))
  <2>1. nb = b + 1 /\ ni = 1 /\ i = Length(c, b) /\ nb # -1
    BY <1>4, Indices DEF Follows
  <2>2. FetchIndex(nb) = 3
    BY <2>1, Indices DEF FetchIndex
  <2>3. Prefetches(c, b) => FetchIndex(b) < Length(c, b) /\ b < LoopEnd(c)
    BY Indices
  <2>4. QED
    BY <1>2, <2>1, <2>2, <2>3, Indices DEF LaunchedBy, LaunchedAt
<1>5. QED
  BY <1>3, <1>4

\* A launch step launches what its position stands for, and no other step launches.
LEMMA LaunchStep ==
  ASSUME NEW c \in Configs, NEW b, NEW i, Position(c, b, i)
  PROVE  LET s == Steps(c, b)[i]
         IN  /\ s.op = "launch" => s.kernels = LaunchedAt(c, b, i)
             /\ s.op # "launch" => LaunchedAt(c, b, i) = {}
<1> DEFINE s == Steps(c, b)[i]
           F == {k \in Launches(c) : k.barrier = "fetch" /\ Block(c, k) = b}
           R == {k \in Launches(c) : k.barrier # "fetch" /\ Block(c, k) = b}
<1>1. LaunchedAt(c, b, i) = (IF i = FetchIndex(b) THEN F ELSE {}) \cup (IF i = Length(c, b) THEN R ELSE {})
  BY DEF LaunchedAt
<1>2. /\ F = IF Prefetches(c, b) THEN Fetch(c, b + 1) ELSE {}
      /\ R = IF 0 <= b /\ b < LoopEnd(c) THEN Reduce(c, b)
             ELSE IF b = HostStage /\ HideTail(c) THEN Reduce(c, c.degree - 1) ELSE {}
  <2>1. b \in Int /\ HostStage <= b
    BY Indices
  <2>2. QED
    BY <2>1, FetchOfBlock, ReduceOfBlock
<1> HIDE DEF F, R
<1> DEFINE loop == 0 <= b /\ b < LoopEnd(c)
           tail == b = HostStage /\ HideTail(c)
           end == b = LoopEnd(c)
<1>3. CASE b < LoopEnd(c) /\ Prefetches(c, b) /\ i = FetchIndex(b) /\ s = Launch(Fetch(c, b + 1))
  <2>1. i # Length(c, b)
    BY <1>3, Indices
  <2>2. QED
    BY <1>1, <1>2, <1>3, <2>1, Operations
<1>4. CASE loop /\ i = Length(c, b) /\ s = Launch(Reduce(c, b))
  <2>1. ~(Prefetches(c, b) /\ i = FetchIndex(b))
    BY <1>4, Indices
  <2>2. QED
    BY <1>1, <1>2, <1>4, <2>1, Operations
<1>5. CASE tail /\ i = Length(c, b) /\ s = Launch(Reduce(c, c.degree - 1))
  <2>1. ~(Prefetches(c, b) /\ i = FetchIndex(b)) /\ ~loop
    BY <1>5, Indices
  <2>2. QED
    BY <1>1, <1>2, <1>5, <2>1, Operations
<1>6. ASSUME s.op # "launch", ~(Prefetches(c, b) /\ i = FetchIndex(b)),
             ~((loop \/ tail) /\ i = Length(c, b))
      PROVE  LaunchedAt(c, b, i) = {}
  BY <1>1, <1>2, <1>6
<1>7. CASE s.op # "launch"
  <2>1. ~(Prefetches(c, b) /\ i = FetchIndex(b)) /\ ~((loop \/ tail) /\ i = Length(c, b))
    BY <1>7, StepTable, Indices, Operations
  <2>2. QED
    BY <1>6, <1>7, <2>1
<1>8. CASE s.op = "launch"
  <2>1. \/ b < LoopEnd(c) /\ Prefetches(c, b) /\ i = FetchIndex(b) /\ s = Launch(Fetch(c, b + 1))
        \/ loop /\ i = Length(c, b) /\ s = Launch(Reduce(c, b))
        \/ tail /\ i = Length(c, b) /\ s = Launch(Reduce(c, c.degree - 1))
    BY <1>8, StepTable, Operations
  <2>2. QED
    BY <1>3, <1>4, <1>5, <2>1
<1>9. QED
  BY <1>7, <1>8

\* Where a collective is launched.
LEMMA LaunchFacts ==
  ASSUME NEW c \in Configs, NEW k \in Launches(c)
  PROVE  /\ k \in Collectives(c) /\ Block(c, k) \in Int /\ -1 <= Block(c, k) /\ Block(c, k) < LoopEnd(c)
         /\ k.stage \in Int
         /\ k.barrier = "fetch" => /\ Prefetches(c, Block(c, k)) /\ k.stage = Block(c, k) + 1
                                   /\ k \in Fetch(c, k.stage)
         /\ k.barrier # "fetch" => /\ k \in Reduces(c) /\ k.barrier = "reduce"
                                   /\ ~HideTail(c) => Block(c, k) # -1
<1>1. k \in Collectives(c) /\ c.degree \in Nat \ {0} /\ LoopEnd(c) \in Nat
  BY ConfigFacts DEF Launches
<1>2. k.barrier = "fetch" => k.stage < LoopEnd(c)
  BY DEF Launches
<1>3. QED
  BY <1>1, <1>2, CollectiveFacts DEF Block, Prefetches, HostStage, Barriers

\* A reduce that a synchronize call does not wait for was not launched; those of
\* the last remote stage end with the pass.
LEMMA SyncedNext ==
  ASSUME NEW c \in Configs, NEW b, NEW i, Position(c, b, i), NEW nb, NEW ni, Follows(c, b, i, nb, ni),
         NEW k \in SyncedBy(c, nb, ni)
  PROVE  LET s == Steps(c, b)[i]
         IN  \/ k \in SyncedBy(c, b, i)
             \/ s.op = "synchronize" /\ k \in CountedBy(c, b, i, s.barrier)
             \/ s.op = "wait" /\ k \in s.kernels
<1> DEFINE s == Steps(c, b)[i]
<1>1. k \in Launches(c)
  BY DEF SyncedBy
<1>2. CASE k.barrier = "fetch"
  <2>1. SUFFICES ASSUME k \notin SyncedBy(c, b, i)
                 PROVE  s.op = "synchronize" /\ k \in CountedBy(c, b, i, s.barrier)
    OBVIOUS
  <2>2. Block(c, k) < nb \/ (Block(c, k) = nb /\ ni > FetchIndex(nb) + 1)
    BY <1>2 DEF SyncedBy
  <2>3. ~(Block(c, k) < b) /\ ~(Block(c, k) = b /\ i > FetchIndex(b) + 1)
    BY <1>1, <1>2, <2>1 DEF SyncedBy
  <2>4. nb = b + 1 => FetchIndex(nb) = 3
    BY Indices DEF FetchIndex
  <2>5. Block(c, k) = b /\ Prefetches(c, b) /\ b < LoopEnd(c) /\ i = FetchIndex(b) + 1
    BY <1>1, <1>2, <2>2, <2>3, <2>4, LaunchFacts, Indices DEF Follows
  <2>6. (i # 1 /\ i # 2) \/ b = -1
    BY <2>5, Indices
  <2>7. s = Synchronize("fetch")
    BY <2>5, <2>6, StepTable, Indices
  <2>8. CountedBlock(c, b, i, "fetch") = b
    BY <2>5, Indices DEF CountedBlock
  <2>9. QED
    BY <1>1, <1>2, <2>5, <2>7, <2>8, Operations DEF CountedBy
<1>3. CASE k.barrier # "fetch"
  <2>1. SUFFICES ASSUME k \notin SyncedBy(c, b, i)
                 PROVE  \/ s.op = "synchronize" /\ k \in CountedBy(c, b, i, s.barrier)
                        \/ s.op = "wait" /\ k \in s.kernels
    OBVIOUS
  <2>2. Block(c, k) < nb - 1 \/ (Block(c, k) = nb - 1 /\ ni > Pre(c, nb))
    BY <1>3 DEF SyncedBy
  <2>3. ~(Block(c, k) < b - 1) /\ ~(Block(c, k) = b - 1 /\ i > Pre(c, b))
    BY <1>1, <1>3, <2>1 DEF SyncedBy
  <2>4. nb = b + 1 => ~(1 > Pre(c, nb))
    BY Indices DEF Pre
  <2>5. Block(c, k) = b - 1 /\ (i = Pre(c, b) \/ (i < Pre(c, b) /\ i = Length(c, b)))
    BY <1>1, <2>2, <2>3, <2>4, LaunchFacts, Indices DEF Follows
  <2>6. b # -1 /\ (b < LoopEnd(c) => WaitsForReduce(c, b)) /\ i = Pre(c, b)
    BY <1>1, <1>3, <2>5, LaunchFacts, Indices DEF WaitsForReduce, IsFirst
  <2>7. s = Synchronize("reduce") \/ s = WaitFor(Reduces(c))
    BY <2>6, StepTable, Indices
  <2>8. CountedBlock(c, b, i, "reduce") = b - 1
    BY <2>6, Indices DEF CountedBlock
  <2>9. k.barrier = "reduce" /\ k \in Reduces(c) /\ k \in CountedBy(c, b, i, "reduce")
    BY <1>1, <1>3, <2>5, <2>8, LaunchFacts DEF CountedBy
  <2>10. QED
    BY <2>7, <2>9, Operations
<1>4. QED
  BY <1>2, <1>3

\* Where the barriers are reset.
LEMMA ResetStep ==
  ASSUME NEW c \in Configs, NEW b, NEW i, Position(c, b, i)
  PROVE  LET s == Steps(c, b)[i]
         IN  /\ s = Reset("fetch") => 0 <= b /\ b < LoopEnd(c) /\ i = 1
             /\ s = Reset("reduce") =>
                  b < LoopEnd(c) /\ ~(b = -1 /\ ~HideTail(c)) /\ i = ResetIndex(c, b)
<1> DEFINE s == Steps(c, b)[i]
<1>1. s.op = "reset" =>
        \/ 0 <= b /\ b < LoopEnd(c) /\ i = 1 /\ s = Reset("fetch")
        \/ b < LoopEnd(c) /\ ~(b = -1 /\ ~HideTail(c)) /\ i = ResetIndex(c, b) /\ s = Reset("reduce")
  <2>1. SUFFICES ASSUME s.op = "reset"
                 PROVE  \/ 0 <= b /\ b < LoopEnd(c) /\ i = 1 /\ s = Reset("fetch")
                        \/ /\ (0 <= b /\ b < LoopEnd(c)) \/ (b = HostStage /\ HideTail(c))
                           /\ i = ResetIndex(c, b) /\ s = Reset("reduce")
    BY Indices, ConfigFacts
  <2>2. QED
    BY <2>1, StepTable, Operations
<1>2. Reset("fetch").op = "reset" /\ Reset("reduce").op = "reset" /\ Reset("fetch") # Reset("reduce")
  BY DEF Reset
<1>3. QED
  BY <1>1, <1>2

\* Only a reset changes the collectives that a counter counts, and it happens
\* before those of the block are launched.
LEMMA CountedNext ==
  ASSUME NEW c \in Configs, NEW b, NEW i, Position(c, b, i), NEW nb, NEW ni, Follows(c, b, i, nb, ni),
         nb <= LoopEnd(c), NEW a \in Barriers
  PROVE  LET s == Steps(c, b)[i]
         IN  /\ s = Reset(a) => CountedBy(c, nb, ni, a) \cap LaunchedBy(c, b, i) = {}
             /\ s # Reset(a) => CountedBy(c, nb, ni, a) = CountedBy(c, b, i, a)
<1> DEFINE s == Steps(c, b)[i]
<1>1. \A k \in Launches(c) :
        /\ Block(c, k) \in Int /\ -1 <= Block(c, k) /\ Block(c, k) < LoopEnd(c)
        /\ k.barrier # "fetch" /\ ~HideTail(c) => Block(c, k) # -1
  BY LaunchFacts
<1>2. CASE a = "fetch"
  <2>1. CountedBlock(c, nb, ni, a) = IF nb # -1 /\ ni = 1 THEN nb - 1 ELSE nb
    BY <1>2, Indices DEF CountedBlock
  <2>2. CountedBlock(c, b, i, a) = IF b # -1 /\ i = 1 THEN b - 1 ELSE b
    BY <1>2, Indices DEF CountedBlock
  <2>3. CASE 0 <= b /\ b < LoopEnd(c) /\ i = 1
    <3>1. nb = b /\ ni = 2
      BY <2>3, Indices DEF Follows
    <3>2. s = Reset("fetch")
      BY <2>3, StepTable, Indices
    <3>3. CountedBlock(c, nb, ni, a) = b /\ b \in Int
      BY <2>1, <3>1, Indices
    <3>4. ~(i > FetchIndex(b))
      BY <2>3, Indices
    <3>5. CountedBy(c, nb, ni, a) \cap LaunchedBy(c, b, i) = {}
      BY <1>2, <3>3, <3>4 DEF CountedBy, LaunchedBy
    <3>6. QED
      BY <1>2, <3>2, <3>5
  <2>4. CASE b # LoopEnd(c) /\ ~(0 <= b /\ i = 1)
    <3>1. CountedBlock(c, nb, ni, a) = CountedBlock(c, b, i, a)
      BY <2>1, <2>2, <2>4, Indices DEF Follows
    <3>2. CountedBy(c, nb, ni, a) = CountedBy(c, b, i, a)
      BY <3>1 DEF CountedBy
    <3>3. s # Reset("fetch")
      BY <2>4, ResetStep, Indices
    <3>4. QED
      BY <1>2, <3>2, <3>3
  <2>5. CASE b = LoopEnd(c)
    <3>1. nb = b /\ ni = i + 1
      BY <2>5, Indices DEF Follows
    <3>2. CountedBy(c, nb, ni, a) = CountedBy(c, b, i, a)
      <4>1. CountedBlock(c, nb, ni, a) = b /\ CountedBlock(c, b, i, a) \in {b, b - 1}
        BY <2>1, <2>2, <3>1, Indices
      <4>2. \A k \in Launches(c) : k.barrier = "fetch" => Block(c, k) # b /\ Block(c, k) # b - 1
        BY <2>5, LaunchFacts, Indices DEF Prefetches
      <4>3. QED
        BY <1>2, <4>1, <4>2 DEF CountedBy
    <3>3. s # Reset("fetch")
      BY <2>5, ResetStep, Indices
    <3>4. QED
      BY <1>2, <3>2, <3>3
  <2>6. QED
    BY <2>3, <2>4, <2>5, Indices
<1>3. CASE a = "reduce"
  <2>1. CountedBlock(c, nb, ni, a) = IF nb < LoopEnd(c) /\ ni > ResetIndex(c, nb) THEN nb ELSE nb - 1
    BY <1>3 DEF CountedBlock
  <2>2. CountedBlock(c, b, i, a) = IF b < LoopEnd(c) /\ i > ResetIndex(c, b) THEN b ELSE b - 1
    BY <1>3 DEF CountedBlock
  <2>3. nb = b + 1 => ~(ni > ResetIndex(c, nb))
    <3>1. nb = b + 1 => ~(1 > ResetIndex(c, nb)) /\ ni = 1
      BY Indices DEF ResetIndex, Pre, Follows
    <3>2. QED
      BY <3>1
  <2>4. CASE b < LoopEnd(c) /\ ~(b = -1 /\ ~HideTail(c)) /\ i = ResetIndex(c, b)
    <3>1. nb = b /\ ni = i + 1
      BY <2>4, Indices DEF Follows
    <3>2. s = Reset("reduce")
      BY <2>4, StepTable, Indices, Operations
    <3>3. CountedBlock(c, nb, ni, a) = b /\ b \in Int
      BY <2>1, <2>4, <3>1, Indices
    <3>4. CountedBy(c, nb, ni, a) \cap LaunchedBy(c, b, i) = {}
      BY <1>3, <3>3 DEF CountedBy, LaunchedBy
    <3>5. QED
      BY <1>3, <3>2, <3>4
  <2>5. CASE ~(b < LoopEnd(c) /\ ~(b = -1 /\ ~HideTail(c)) /\ i = ResetIndex(c, b))
    <3>1. s # Reset("reduce")
      BY <2>5, ResetStep, Indices
    <3>2. \/ CountedBlock(c, nb, ni, a) = CountedBlock(c, b, i, a)
          \/ b = -1 /\ ~HideTail(c) /\ CountedBlock(c, nb, ni, a) < 0 /\ CountedBlock(c, b, i, a) < 0
      BY <2>1, <2>2, <2>3, <2>5, Indices DEF Follows
    <3>3. CountedBy(c, nb, ni, a) = CountedBy(c, b, i, a)
      BY <1>1, <1>3, <3>2 DEF CountedBy
    <3>4. QED
      BY <1>3, <3>1, <3>3
  <2>6. QED
    BY <2>4, <2>5
<1>4. QED
  BY <1>2, <1>3 DEF Barriers

\* A work that must have ended was awaited at the position before, at the latest.
LEMMA WaitedNext ==
  ASSUME NEW c \in Configs, NEW b, NEW i, Position(c, b, i), NEW nb, NEW ni, Follows(c, b, i, nb, ni),
         NEW k \in WaitedBy(c, nb, ni)
  PROVE  LET s == Steps(c, b)[i]
         IN  k \in WaitedBy(c, b, i) \/ (s.op = "wait" /\ k \in s.kernels)
<1> DEFINE s == Steps(c, b)[i]
<1> SUFFICES ASSUME k \notin WaitedBy(c, b, i)
             PROVE  s.op = "wait" /\ k \in s.kernels
  OBVIOUS
<1>1. k \in Launches(c)
  BY DEF WaitedBy
<1>2. CASE k.barrier = "fetch"
  <2>1. k.stage < nb \/ (k.stage = nb /\ ni > 2)
    BY <1>2 DEF WaitedBy
  <2>2. ~(k.stage < b) /\ ~(k.stage = b /\ i > 2)
    BY <1>1, <1>2 DEF WaitedBy
  <2>3. 0 <= k.stage /\ k.stage < LoopEnd(c) /\ k.stage \in Int /\ k \in Fetch(c, k.stage)
    BY <1>1, <1>2, LaunchFacts, Indices DEF Prefetches
  <2>4. 0 <= b /\ b < LoopEnd(c) /\ i = 2 /\ k.stage = b
    BY <2>1, <2>2, <2>3, Indices DEF Follows
  <2>5. s = WaitFor(Fetch(c, b))
    BY <2>4, StepTable, Indices
  <2>6. QED
    BY <2>3, <2>4, <2>5, Operations
<1>3. CASE k.barrier # "fetch"
  <2>1. nb > LoopEnd(c) \/ (nb = LoopEnd(c) /\ ni > 3 /\ k \in Awaited(c))
    BY <1>3 DEF WaitedBy
  <2>2. ~(b > LoopEnd(c)) /\ ~(b = LoopEnd(c) /\ i > 3 /\ k \in Awaited(c))
    BY <1>1, <1>3 DEF WaitedBy
  <2>3. b = LoopEnd(c) /\ (i = Length(c, b) \/ (i = 3 /\ i # Length(c, b) /\ k \in Awaited(c)))
    BY <2>1, <2>2, Indices DEF Follows
  <2>4. HideTail(c) => Length(c, b) = 5
    BY <2>3, Indices
  <2>5. ~HideTail(c) => Length(c, b) = 1
    BY <2>3, Indices
  <2>6. CASE i = Length(c, b)
    <3>1. s = WaitFor(Reduces(c))
      BY <2>3, <2>4, <2>6, StepTable, Indices
    <3>2. k \in Reduces(c)
      BY <1>1, <1>3, LaunchFacts
    <3>3. QED
      BY <3>1, <3>2, Operations
  <2>7. CASE i = 3 /\ i # Length(c, b) /\ k \in Awaited(c)
    <3>1. s = WaitFor(Awaited(c))
      BY <2>3, <2>5, <2>7, StepTable, Indices
    <3>2. QED
      BY <2>7, <3>1, Operations
  <2>8. QED
    BY <2>3, <2>6, <2>7
<1>4. QED
  BY <1>2, <1>3

\* Where a kernel is computed.
LEMMA ComputeStep ==
  ASSUME NEW c \in Configs, NEW b, NEW i, Position(c, b, i), Steps(c, b)[i].op = "compute"
  PROVE  LET s == Steps(c, b)[i]
         IN  \/ b < LoopEnd(c) /\ i = ComputeIndex(c, b) /\ s = Compute(WorkAt(c, b + 2))
             \/ b = LoopEnd(c) /\ HideTail(c) /\ i = 2 /\ s = Compute(HostStage)
             \/ b = LoopEnd(c) /\ HideTail(c) /\ i = 4 /\ s = Compute(GradAdd)
BY StepTable, Operations

\* Every compute step computes the next kernel of the order.
LEMMA ComputedNext ==
  ASSUME NEW c \in Configs, NEW b, NEW i, Position(c, b, i), NEW nb, NEW ni, Follows(c, b, i, nb, ni)
  PROVE  LET s == Steps(c, b)[i]
             n == NumComputed(c, b, i)
         IN  /\ n \in Nat
             /\ s.op = "compute" => NumComputed(c, nb, ni) = n + 1 /\ s.work = WorkAt(c, n + 1)
             /\ s.op # "compute" => NumComputed(c, nb, ni) = n
<1> DEFINE s == Steps(c, b)[i]
           n == NumComputed(c, b, i)
<1>1. /\ LoopEnd(c) \in Nat /\ c.degree \in Nat \ {0}
      /\ LoopEnd(c) = IF HideTail(c) THEN c.degree - 1 ELSE c.degree
  BY ConfigFacts
<1>2. CASE b < LoopEnd(c)
  <2>1. n = b + 1 + IF i > ComputeIndex(c, b) THEN 1 ELSE 0
    BY <1>2 DEF NumComputed
  <2>2. nb = b + 1 => ni = 1 /\ nb # -1 /\ ~(1 > ComputeIndex(c, nb))
    BY Indices DEF ComputeIndex, Pre, Follows
  <2>3. nb = b + 1 => NumComputed(c, nb, ni) = b + 2
    <3>1. ASSUME nb = b + 1, nb < LoopEnd(c) PROVE NumComputed(c, nb, ni) = b + 2
      BY <2>2, <3>1, Indices DEF NumComputed
    <3>2. ASSUME nb = b + 1, ~(nb < LoopEnd(c)) PROVE NumComputed(c, nb, ni) = b + 2
      <4>1. nb = LoopEnd(c) /\ ni = 1
        BY <1>2, <2>2, <3>2, Indices
      <4>2. NumComputed(c, nb, ni) = LoopEnd(c) + 1
        BY <1>1, <4>1 DEF NumComputed
      <4>3. QED
        BY <3>2, <4>1, <4>2, Indices
    <3>3. QED
      BY <3>1, <3>2
  <2>4. nb # b + 1 => nb = b /\ ni = i + 1 /\ NumComputed(c, nb, ni) = b + 1 + IF i + 1 > ComputeIndex(c, b) THEN 1 ELSE 0
    BY <1>2, Indices DEF Follows, NumComputed
  <2>5. i = ComputeIndex(c, b) <=> s.op = "compute"
    <3>1. s.op = "compute" => i = ComputeIndex(c, b)
      BY <1>2, ComputeStep, Indices
    <3>2. i = ComputeIndex(c, b) => s.op = "compute"
      BY <1>2, StepTable, Operations, Indices
    <3>3. QED
      BY <3>1, <3>2
  <2>6. s.op = "compute" => s.work = WorkAt(c, b + 2)
    BY <1>2, ComputeStep, Operations, Indices
  <2>7. n \in Nat /\ (s.op = "compute" => n + 1 = b + 2)
    BY <2>1, <2>5, Indices
  <2>8. nb = b + 1 \/ (nb = b /\ ni = i + 1 /\ i < Length(c, b))
    BY Indices DEF Follows
  <2>9. nb = b + 1 => i = Length(c, b)
    BY Indices DEF Follows
  <2>10. s.op = "compute" => NumComputed(c, nb, ni) = n + 1
    BY <2>1, <2>3, <2>4, <2>5, <2>8, Indices
  <2>11. s.op # "compute" => NumComputed(c, nb, ni) = n
    <3>1. CASE nb = b + 1
      BY <1>2, <2>1, <2>3, <2>5, <2>9, <3>1, Indices
    <3>2. CASE nb # b + 1
      BY <2>1, <2>4, <2>5, <3>2, Indices
    <3>3. QED
      BY <3>1, <3>2
  <2>12. QED
    BY <2>6, <2>7, <2>10, <2>11
<1>3. CASE b = LoopEnd(c) /\ ~HideTail(c)
  <2>1. i = 1 /\ nb = b + 1 /\ s = WaitFor(Reduces(c))
    BY <1>3, StepTable, Indices DEF Follows
  <2>2. n = LoopEnd(c) + 1 /\ NumComputed(c, nb, ni) = LoopEnd(c) + 1
    BY <1>1, <1>3, <2>1 DEF NumComputed
  <2>3. QED
    BY <1>1, <2>1, <2>2, Operations
<1>4. CASE b = LoopEnd(c) /\ HideTail(c)
  <2>1. /\ n = LoopEnd(c) + 1 + (IF i > 4 THEN 2 ELSE IF i > 2 THEN 1 ELSE 0)
        /\ Length(c, b) = 5 /\ i \in Int
        /\ NumComputed(c, nb, ni) = LoopEnd(c) + 1 + (IF nb > LoopEnd(c) \/ ni > 4 THEN 2 ELSE IF ni > 2 THEN 1 ELSE 0)
    BY <1>1, <1>4, Indices DEF NumComputed, Follows
  <2>2. \/ i = 1 /\ s = Synchronize("reduce")
        \/ i = 2 /\ s = Compute(HostStage)
        \/ i = 3 /\ s = WaitFor(Awaited(c))
        \/ i = 4 /\ s = Compute(GradAdd)
        \/ i = 5 /\ s = WaitFor(Reduces(c))
    <3>1. s = LastSteps(c)[i] /\ Length(c, LoopEnd(c)) = 5
      BY <1>1, <1>4, <2>1 DEF Steps, HostStage
    <3>2. i = 1 \/ i = 2 \/ i = 3 \/ i = 4 \/ i = 5
      BY <2>1, Indices
    <3>3. /\ LastSteps(c)[1] = Synchronize("reduce") /\ LastSteps(c)[2] = Compute(HostStage)
          /\ LastSteps(c)[3] = WaitFor(Awaited(c)) /\ LastSteps(c)[4] = Compute(GradAdd)
          /\ LastSteps(c)[5] = WaitFor(Reduces(c))
      BY <1>4, <3>1, EndSteps
    <3>4. QED
      <4>1. CASE i = 1
        BY <3>1, <3>3, <4>1
      <4>2. CASE i = 2
        BY <3>1, <3>3, <4>2
      <4>3. CASE i = 3
        BY <3>1, <3>3, <4>3
      <4>4. CASE i = 4
        BY <3>1, <3>3, <4>4
      <4>5. CASE i = 5
        BY <3>1, <3>3, <4>5
      <4>6. QED
        BY <3>2, <4>1, <4>2, <4>3, <4>4, <4>5
  <2>3. /\ WorkAt(c, LoopEnd(c) + 2) = HostStage /\ WorkAt(c, LoopEnd(c) + 3) = GradAdd
    BY <1>1, <1>4 DEF WorkAt
  <2>4. /\ i < 5 => nb = LoopEnd(c) /\ ni = i + 1
        /\ i = 5 => nb = LoopEnd(c) + 1 /\ ni = 1
    BY <1>4, <2>1, Indices DEF Follows
  <2>5. QED
    BY <1>1, <2>1, <2>2, <2>3, <2>4, Operations
<1>5. QED
  BY <1>2, <1>3, <1>4, Indices

\* A counter holds at most as many arrivals as its barrier waits for, and at a
\* synchronize call it can hold all of them.
LEMMA CountedSize ==
  ASSUME NEW c \in Configs, NEW b, NEW i, Position(c, b, i), NEW a \in Barriers
  PROVE  /\ IsFiniteSet(CountedBy(c, b, i, a)) /\ Cardinality(CountedBy(c, b, i, a)) <= Target(c, a)
         /\ Steps(c, b)[i] = Synchronize(a) => Cardinality(CountedBy(c, b, i, a)) = Target(c, a)
<1> DEFINE x == CountedBlock(c, b, i, a)
<1>1. Target(c, a) \in Nat /\ IsFiniteSet({}) /\ Cardinality({}) = 0
  BY FS_EmptySet DEF Target
<1>2. x \in Int
  BY Indices DEF CountedBlock
<1>3. c.degree \in Nat \ {0} /\ LoopEnd(c) \in Nat
      /\ LoopEnd(c) = IF HideTail(c) THEN c.degree - 1 ELSE c.degree
  BY ConfigFacts
<1>4. CASE a = "fetch"
  <2>1. -1 <= x
    BY <1>4, Indices DEF CountedBlock
  <2>2. CountedBy(c, b, i, a) = {k \in Launches(c) : k.barrier = "fetch" /\ Block(c, k) = x}
    BY <1>4 DEF CountedBy
  <2>3. CountedBy(c, b, i, a) = IF Prefetches(c, x) THEN Fetch(c, x + 1) ELSE {}
    BY <1>2, <2>1, <2>2, FetchOfBlock DEF HostStage
  <2>4. ASSUME Steps(c, b)[i] = Synchronize(a) PROVE Prefetches(c, x)
    <3>1. Synchronize("fetch") # Synchronize("reduce")
      BY DEF Synchronize
    <3>2. Prefetches(c, b) /\ i = FetchIndex(b) + 1
      BY <1>4, <2>4, <3>1, StepTable, Operations
    <3>3. x = b
      BY <1>4, <3>2, Indices DEF CountedBlock
    <3>4. QED
      BY <3>2, <3>3
  <2>5. QED
    BY <1>1, <1>4, <2>3, <2>4, BatchSize
<1>5. CASE a = "reduce"
  <2>1. CountedBy(c, b, i, a) = {k \in Launches(c) : k.barrier # "fetch" /\ Block(c, k) = x}
    BY <1>5, LaunchFacts DEF CountedBy
  <2>2. CountedBy(c, b, i, a) =
          IF 0 <= x /\ x < LoopEnd(c) THEN Reduce(c, x)
          ELSE IF x = HostStage /\ HideTail(c) THEN Reduce(c, c.degree - 1) ELSE {}
    BY <1>2, <2>1, ReduceOfBlock
  <2>3. ASSUME Steps(c, b)[i] = Synchronize(a)
        PROVE  (0 <= x /\ x < LoopEnd(c)) \/ (x = HostStage /\ HideTail(c))
    <3>1. Synchronize("fetch") # Synchronize("reduce")
      BY DEF Synchronize
    <3>2. \/ 0 <= b /\ b < LoopEnd(c) /\ WaitsForReduce(c, b) /\ i = Pre(c, b)
          \/ b = LoopEnd(c) /\ HideTail(c)
      BY <1>5, <2>3, <3>1, StepTable, Operations
    <3>3. x = b - 1
      BY <1>5, <3>2, Indices DEF CountedBlock
    <3>4. QED
      BY <3>2, <3>3, Indices DEF WaitsForReduce, IsFirst
  <2>4. QED
    BY <1>1, <1>5, <2>2, <2>3, BatchSize
<1>6. QED
  BY <1>4, <1>5 DEF Barriers

-----------------------------------------------------------------------------
(* The order of the collectives of a stream.                               *)

\* A stream is given one collective at a time.
LEMMA OnePerStream ==
  ASSUME NEW c \in Configs, NEW k \in Launches(c), NEW l \in Launches(c),
         StreamOf(c, k) = StreamOf(c, l), Time(c, k) = Time(c, l)
  PROVE  k = l
<1>1. /\ Block(c, k) \in Int /\ Block(c, l) \in Int /\ k.stage \in Int /\ l.stage \in Int
      /\ k \in Collectives(c) /\ l \in Collectives(c) /\ c.degree \in Int
  BY LaunchFacts, ConfigFacts
<1>2. /\ k.barrier \in Barriers /\ l.barrier \in Barriers /\ 0 <= k.stage /\ 0 <= l.stage
      /\ k.tensor \in {"kv", "qo"} /\ l.tensor \in {"kv", "qo"}
      /\ k = Collective(k.barrier, k.tensor, k.stage) /\ l = Collective(l.barrier, l.tensor, l.stage)
      /\ k.barrier = "reduce" => k \in Reduce(c, k.stage)
      /\ l.barrier = "reduce" => l \in Reduce(c, l.stage)
  BY <1>1, CollectiveFacts
<1>3. k.barrier = l.barrier /\ Block(c, k) = Block(c, l)
  <2>1. \A m, n \in Int : 2 * m # 2 * n + 1 /\ (2 * m = 2 * n => m = n) /\ (2 * m + 1 = 2 * n + 1 => m = n)
    OBVIOUS
  <2>2. /\ Time(c, k) = IF k.barrier = "fetch" THEN 2 * Block(c, k) ELSE 2 * Block(c, k) + 1
        /\ Time(c, l) = IF l.barrier = "fetch" THEN 2 * Block(c, l) ELSE 2 * Block(c, l) + 1
    BY <1>1 DEF Time
  <2>3. k.barrier = "fetch" <=> l.barrier = "fetch"
    BY <1>1, <2>1, <2>2
  <2>4. QED
    BY <1>1, <1>2, <2>1, <2>2, <2>3 DEF Barriers
<1>4. k.stage = l.stage
  BY <1>1, <1>2, <1>3 DEF Block, HostStage, IsLast
<1>5. k.tensor = l.tensor
  <2>1. CASE c.pass = "forward" /\ k.barrier = "reduce"
    BY <1>2, <1>3, <2>1 DEF Reduce, Collective
  <2>2. CASE ~(c.pass = "forward" /\ k.barrier = "reduce")
    BY <1>2, <1>3, <2>2 DEF StreamOf
  <2>3. QED
    BY <2>1, <2>2
<1>6. QED
  BY <1>2, <1>3, <1>4, <1>5

\* What is launched at a position comes after what was launched before it.
LEMMA LaunchOrder ==
  ASSUME NEW c \in Configs, NEW b, NEW i, Position(c, b, i), NEW k \in LaunchedAt(c, b, i)
  PROVE  /\ \A l \in LaunchedBy(c, b, i) : Time(c, l) < Time(c, k)
         /\ \A l \in LaunchedAt(c, b, i) : Time(c, l) = Time(c, k)
<1>1. k \in Launches(c) /\ Block(c, k) = b
      /\ (IF k.barrier = "fetch" THEN i = FetchIndex(b) ELSE i = Length(c, b))
  BY DEF LaunchedAt
<1>2. Time(c, k) = IF k.barrier = "fetch" THEN 2 * b ELSE 2 * b + 1
  BY <1>1, Indices DEF Time
<1>3. ASSUME NEW l \in Launches(c)
      PROVE  /\ Block(c, l) \in Int
             /\ l.barrier = "fetch" => Prefetches(c, Block(c, l))
             /\ Time(c, l) = IF l.barrier = "fetch" THEN 2 * Block(c, l) ELSE 2 * Block(c, l) + 1
  BY LaunchFacts DEF Time
<1>4. ASSUME NEW l \in LaunchedBy(c, b, i) PROVE Time(c, l) < Time(c, k)
  <2>1. l \in Launches(c) /\ (Block(c, l) < b \/ (Block(c, l) = b /\ l.barrier = "fetch" /\ i > FetchIndex(b)))
    BY DEF LaunchedBy
  <2>2. CASE Block(c, l) < b
    BY <1>2, <1>3, <2>1, <2>2, Indices
  <2>3. CASE Block(c, l) = b /\ l.barrier = "fetch" /\ i > FetchIndex(b)
    <3>1. k.barrier # "fetch"
      BY <1>1, <2>3, Indices
    <3>2. QED
      BY <1>2, <1>3, <2>1, <2>3, <3>1, Indices
  <2>4. QED
    BY <2>1, <2>2, <2>3
<1>5. ASSUME NEW l \in LaunchedAt(c, b, i) PROVE Time(c, l) = Time(c, k)
  <2>1. l \in Launches(c) /\ Block(c, l) = b
        /\ (IF l.barrier = "fetch" THEN i = FetchIndex(b) ELSE i = Length(c, b))
    BY DEF LaunchedAt
  <2>2. Prefetches(c, b) => FetchIndex(b) < Length(c, b)
    BY Indices
  <2>3. k.barrier = "fetch" <=> l.barrier = "fetch"
    BY <1>1, <1>3, <2>1, <2>2, Indices
  <2>4. QED
    BY <1>2, <1>3, <2>1, <2>3
<1>6. QED
  BY <1>4, <1>5

\* A collective that is launched and need not have begun is one that a counter
\* of its barrier counts.
LEMMA LaunchedIsCounted ==
  ASSUME NEW c \in Configs, NEW b, NEW i, Position(c, b, i),
         NEW k \in LaunchedBy(c, b, i), k \notin SyncedBy(c, b, i)
  PROVE  \A a \in Barriers : k \in CountedBy(c, b, i, a) <=> k.barrier = a
<1>1. k \in Launches(c) /\ (Block(c, k) < b \/ (Block(c, k) = b /\ k.barrier = "fetch" /\ i > FetchIndex(b)))
  BY DEF LaunchedBy
<1>2. Block(c, k) \in Int /\ k.barrier \in Barriers
  BY <1>1, LaunchFacts, CollectiveFacts
<1>3. Block(c, k) = CountedBlock(c, b, i, k.barrier)
  <2>1. CASE k.barrier = "fetch"
    <3>1. Block(c, k) = b /\ i > FetchIndex(b)
      BY <1>1, <2>1 DEF SyncedBy
    <3>2. QED
      BY <2>1, <3>1, Indices DEF CountedBlock
  <2>2. CASE k.barrier = "reduce"
    <3>1. ~(Block(c, k) < b - 1) /\ ~(Block(c, k) = b - 1 /\ i > Pre(c, b)) /\ Block(c, k) < b
      BY <1>1, <2>2 DEF SyncedBy
    <3>2. Block(c, k) = b - 1 /\ ~(i > ResetIndex(c, b))
      BY <1>2, <3>1, Indices
    <3>3. QED
      BY <2>2, <3>2 DEF CountedBlock
  <2>3. QED
    BY <1>2, <2>1, <2>2 DEF Barriers
<1>4. QED
  BY <1>1, <1>3 DEF CountedBy

-----------------------------------------------------------------------------
(* Every step keeps the invariant.                                         *)

\* The position of a compute stream that has not returned.
LEMMA AtPosition ==
  ASSUME Types, NEW r \in Ranks, InPlace(r), ~Returned(r)
  PROVE  /\ config \in Configs
         /\ Position(config, at[r][1], at[r][2])
         /\ Step(r) = Steps(config, at[r][1])[at[r][2]]
<1>1. config \in Configs /\ LoopEnd(config) \in Nat /\ HostStage = -1
  BY ConfigFacts DEF Types, HostStage
<1>2. QED
  BY <1>1 DEF InPlace, Returned, Position, Step

\* Another rank's step.
LEMMA OtherRank ==
  ASSUME NEW q \in Ranks, Holds(q), config' = config, at'[q] = at[q], busy'[q] = busy[q],
         count'[q] = count[q], queue'[q] = queue[q], reached[q] \subseteq reached'[q],
         started'[q] = started[q], finished'[q] = finished[q], computed'[q] = computed[q]
  PROVE  Holds(q)'
<1>1. Launched(q)' = Launched(q) /\ (Returned(q)' <=> Returned(q)) /\ Step(q)' = Step(q)
  BY DEF Launched, Returned, Step
<1>2. InPlace(q)'
  BY <1>1 DEF Holds, InPlace
<1>3. QueuesInOrder(q)'
  BY <1>1 DEF Holds, QueuesInOrder
<1>4. BarriersHold(q)' /\ WorksHold(q)'
  BY <1>1 DEF Holds, BarriersHold, WorksHold
<1>5. QED
  BY <1>2, <1>3, <1>4 DEF Holds

\* The compute stream moves on.
LEMMA Advances ==
  ASSUME Types, NEW r \in Ranks, InPlace(r), ~Returned(r), Advance(r)
  PROVE  /\ at' \in [Ranks -> Int \X Int]
         /\ \A q \in Ranks : q # r => at'[q] = at[q]
         /\ Follows(config, at[r][1], at[r][2], at'[r][1], at'[r][2])
         /\ at'[r][1] \in HostStage .. LoopEnd(config) + 1
         /\ at'[r][2] \in 1 .. Length(config, at'[r][1])
         /\ at'[r][1] > LoopEnd(config) => at'[r][2] = 1
<1> DEFINE b == at[r][1]
           i == at[r][2]
<1>1. config \in Configs /\ Position(config, b, i)
  BY AtPosition
<1>2. /\ LoopEnd(config) \in Nat /\ HostStage = -1 /\ b \in Int /\ i \in Int
      /\ -1 <= b /\ b <= LoopEnd(config) /\ 1 <= i /\ i <= Length(config, b) /\ Length(config, b) \in Nat
  BY <1>1, Indices
<1>3. Len(Steps(config, b)) = Length(config, b)
  BY <1>1, BlockLength DEF Position
<1>4. at \in [Ranks -> Int \X Int]
  BY DEF Types
<1>5. at'[r] = IF i < Length(config, b) THEN <<b, i + 1>> ELSE <<b + 1, 1>>
  BY <1>3, <1>4 DEF Advance
<1>6. at' \in [Ranks -> Int \X Int] /\ \A q \in Ranks : q # r => at'[q] = at[q]
  <2>1. at'[r] \in Int \X Int
    BY <1>2, <1>5
  <2>2. QED
    BY <1>4, <2>1 DEF Advance
<1>7. Follows(config, b, i, at'[r][1], at'[r][2])
  BY <1>5 DEF Follows
<1>8. Length(config, b + 1) \in Nat \ {0}
  <2>1. CASE b < LoopEnd(config)
    <3>1. b + 1 \in HostStage .. LoopEnd(config)
      BY <1>2, <2>1
    <3>2. QED
      BY <1>1, <3>1, BlockLength
  <2>2. CASE ~(b < LoopEnd(config))
    BY <1>2, <2>2 DEF Length
  <2>3. QED
    BY <2>1, <2>2
<1>9. QED
  BY <1>2, <1>5, <1>6, <1>7, <1>8

\* What the barriers and the awaited works guarantee at the next position.
LEMMA GuaranteesHold ==
  ASSUME Types, NEW r \in Ranks, Holds(r), ~Returned(r), Advance(r),
         Step(r).op = "synchronize" => count[r][Step(r).barrier] >= Target(config, Step(r).barrier),
         Step(r).op = "wait" => Step(r).kernels \subseteq finished[r]
  PROVE  /\ SyncedBy(config, at'[r][1], at'[r][2]) \subseteq started[r]
         /\ WaitedBy(config, at'[r][1], at'[r][2]) \subseteq finished[r]
<1> DEFINE b == at[r][1]
           i == at[r][2]
           nb == at'[r][1]
           ni == at'[r][2]
<1>1. /\ config \in Configs /\ Position(config, b, i) /\ Step(r) = Steps(config, b)[i]
      /\ Follows(config, b, i, nb, ni)
  BY AtPosition, Advances DEF Holds
<1>2. /\ SyncedBy(config, b, i) \subseteq started[r] /\ WaitedBy(config, b, i) \subseteq finished[r]
      /\ finished[r] \subseteq started[r]
      /\ \A a \in Barriers : count[r][a] = Cardinality(CountedBy(config, b, i, a) \cap started[r])
  BY DEF Holds, BarriersHold, WorksHold, QueuesInOrder
<1>3. ASSUME NEW k \in SyncedBy(config, nb, ni) PROVE k \in started[r]
  <2>1. \/ k \in SyncedBy(config, b, i)
        \/ Step(r).op = "synchronize" /\ k \in CountedBy(config, b, i, Step(r).barrier)
        \/ Step(r).op = "wait" /\ k \in Step(r).kernels
    BY <1>1, SyncedNext
  <2>2. ASSUME Step(r).op = "synchronize", k \in CountedBy(config, b, i, Step(r).barrier)
        PROVE  k \in started[r]
    <3>1. PICK a \in Barriers : Step(r) = Synchronize(a) /\ Step(r).barrier = a
      BY <1>1, <2>2, StepTable, Operations DEF Barriers
    <3> DEFINE C == CountedBy(config, b, i, a)
    <3>2. IsFiniteSet(C) /\ Cardinality(C) = Target(config, a)
      BY <1>1, <3>1, CountedSize
    <3>3. count[r][a] = Cardinality(C \cap started[r]) /\ count[r][a] >= Target(config, a)
      BY <1>2, <2>2, <3>1
    <3> HIDE DEF C
    <3>4. C \cap started[r] \in SUBSET C
      OBVIOUS
    <3>5. Cardinality(C \cap started[r]) <= Cardinality(C) /\ IsFiniteSet(C \cap started[r])
          /\ (Cardinality(C) = Cardinality(C \cap started[r]) => C = C \cap started[r])
      BY <3>2, <3>4, FS_Subset
    <3>6. Cardinality(C) \in Nat /\ Cardinality(C \cap started[r]) \in Nat
      BY <3>2, <3>5, FS_CardinalityType
    <3>7. C = C \cap started[r]
      BY <3>2, <3>3, <3>5, <3>6
    <3>8. k \in C
      BY <2>2, <3>1 DEF C
    <3>9. QED
      BY <3>7, <3>8
  <2>3. QED
    BY <1>2, <2>1, <2>2
<1>4. ASSUME NEW k \in WaitedBy(config, nb, ni) PROVE k \in finished[r]
  <2>1. k \in WaitedBy(config, b, i) \/ (Step(r).op = "wait" /\ k \in Step(r).kernels)
    BY <1>1, WaitedNext
  <2>2. QED
    BY <1>2, <2>1
<1>5. QED
  BY <1>3, <1>4

\* The counters at the next position.
LEMMA CountersHold ==
  ASSUME Types, NEW r \in Ranks, Holds(r), ~Returned(r), Advance(r), at'[r][1] <= LoopEnd(config),
         count'[r] = IF Step(r).op = "reset" THEN [count[r] EXCEPT ![Step(r).barrier] = 0] ELSE count[r],
         NEW a \in Barriers
  PROVE  count'[r][a] = Cardinality(CountedBy(config, at'[r][1], at'[r][2], a) \cap started[r])
<1> DEFINE b == at[r][1]
           i == at[r][2]
           nb == at'[r][1]
           ni == at'[r][2]
<1>1. /\ config \in Configs /\ Position(config, b, i) /\ Step(r) = Steps(config, b)[i]
      /\ Follows(config, b, i, nb, ni)
  BY AtPosition, Advances DEF Holds
<1>2. /\ count[r][a] = Cardinality(CountedBy(config, b, i, a) \cap started[r])
      /\ started[r] \subseteq LaunchedBy(config, b, i) /\ count[r] \in [Barriers -> Nat]
  BY DEF Holds, BarriersHold, QueuesInOrder, Launched, Types
<1>3. /\ Step(r) = Reset(a) => CountedBy(config, nb, ni, a) \cap LaunchedBy(config, b, i) = {}
      /\ Step(r) # Reset(a) => CountedBy(config, nb, ni, a) = CountedBy(config, b, i, a)
  BY <1>1, CountedNext
<1>4. CASE Step(r) = Reset(a)
  <2>1. count'[r][a] = 0
    BY <1>2, <1>4, Operations
  <2>2. CountedBy(config, nb, ni, a) \cap started[r] = {}
    BY <1>2, <1>3, <1>4
  <2>3. QED
    BY <2>1, <2>2, FS_EmptySet
<1>5. CASE Step(r) # Reset(a)
  <2>1. count'[r][a] = count[r][a]
    <3>1. CASE Step(r).op # "reset"
      BY <3>1
    <3>2. CASE Step(r).op = "reset"
      <4>1. Step(r) = Reset("fetch") \/ Step(r) = Reset("reduce")
        BY <1>1, <3>2, StepTable, Operations
      <4>2. Step(r).barrier # a /\ Step(r).barrier \in Barriers
        BY <1>5, <4>1, Operations DEF Barriers
      <4>3. QED
        BY <1>2, <3>2, <4>2
    <3>3. QED
      BY <3>1, <3>2
  <2>2. QED
    BY <1>2, <1>3, <1>5, <2>1
<1>6. QED
  BY <1>4, <1>5

\* A step of the compute stream: what is known of its next position holds there.
LEMMA Moves ==
  ASSUME Types, NEW r \in Ranks, Holds(r), ~Returned(r), Advance(r), config' = config, ~busy'[r],
         Step(r).op = "synchronize" => count[r][Step(r).barrier] >= Target(config, Step(r).barrier),
         Step(r).op = "wait" => Step(r).kernels \subseteq finished[r],
         count'[r] = IF Step(r).op = "reset" THEN [count[r] EXCEPT ![Step(r).barrier] = 0] ELSE count[r],
         computed'[r] = IF Step(r).op = "compute" THEN Append(computed[r], Step(r).work) ELSE computed[r],
         started' = started, finished' = finished
  PROVE  /\ InPlace(r)' /\ BarriersHold(r)' /\ WorksHold(r)'
         /\ Launched(r)' = Launched(r) \cup LaunchedAt(config, at[r][1], at[r][2])
<1> DEFINE b == at[r][1]
           i == at[r][2]
           nb == at'[r][1]
           ni == at'[r][2]
<1>1. /\ config \in Configs /\ Position(config, b, i) /\ Step(r) = Steps(config, b)[i]
      /\ Follows(config, b, i, nb, ni)
  BY AtPosition, Advances DEF Holds
<1>2. InPlace(r)'
  BY Advances DEF Holds, InPlace
<1>3. BarriersHold(r)'
  <2>1. SyncedBy(config, nb, ni) \subseteq started[r]
    BY GuaranteesHold
  <2>2. ASSUME ~Returned(r)' PROVE nb <= LoopEnd(config)
    <3>1. nb \in Int /\ LoopEnd(config) \in Nat
      BY <1>1, Advances, ConfigFacts DEF Holds
    <3>2. QED
      BY <2>2, <3>1 DEF Returned
  <2>3. ASSUME ~Returned(r)', NEW a \in Barriers
        PROVE  count'[r][a] = Cardinality(CountedBy(config, nb, ni, a) \cap started[r])
    BY <2>2, <2>3, CountersHold
  <2>4. ASSUME NEW a \in Barriers PROVE count'[r][a] <= Target(config, a)
    <3>1. count[r] \in [Barriers -> Nat] /\ count[r][a] <= Target(config, a) /\ Target(config, a) \in Nat
      BY DEF Holds, BarriersHold, Types, Target
    <3>2. count'[r][a] = 0 \/ count'[r][a] = count[r][a]
      BY <3>1
    <3>3. QED
      BY <3>1, <3>2
  <2>5. QED
    BY <2>1, <2>3, <2>4 DEF BarriersHold
<1>4. WorksHold(r)'
  <2>1. WaitedBy(config, nb, ni) \subseteq finished[r]
    BY GuaranteesHold
  <2>2. /\ Len(computed[r]) = NumComputed(config, b, i)
        /\ \A j \in 1 .. Len(computed[r]) : computed[r][j] = WorkAt(config, j)
        /\ computed[r] \in Seq(Int)
    BY DEF Holds, WorksHold, Types
  <2>3. /\ NumComputed(config, b, i) \in Nat
        /\ Step(r).op = "compute" => /\ NumComputed(config, nb, ni) = NumComputed(config, b, i) + 1
                                     /\ Step(r).work = WorkAt(config, NumComputed(config, b, i) + 1)
        /\ Step(r).op # "compute" => NumComputed(config, nb, ni) = NumComputed(config, b, i)
    BY <1>1, ComputedNext
  <2>4. CASE Step(r).op # "compute"
    BY <2>1, <2>2, <2>3, <2>4 DEF WorksHold
  <2>5. CASE Step(r).op = "compute"
    <3>1. /\ Len(computed'[r]) = Len(computed[r]) + 1
          /\ \A j \in 1 .. Len(computed[r]) : computed'[r][j] = computed[r][j]
          /\ computed'[r][Len(computed[r]) + 1] = Step(r).work
      BY <2>2, <2>5
    <3>2. \A j \in 1 .. Len(computed'[r]) : computed'[r][j] = WorkAt(config, j)
      BY <2>2, <2>3, <2>5, <3>1
    <3>3. QED
      BY <2>1, <2>2, <2>3, <2>5, <3>1, <3>2 DEF WorksHold
  <2>6. QED
    BY <2>4, <2>5
<1>5. Launched(r)' = Launched(r) \cup LaunchedAt(config, b, i)
  BY <1>1, LaunchedNext DEF Launched
<1>6. QED
  BY <1>2, <1>3, <1>4, <1>5

\* A step that launches nothing leaves the comm streams as they are.
LEMMA QueuesUnchanged ==
  ASSUME Types, NEW r \in Ranks, Holds(r), ~Returned(r), Step(r).op # "launch", config' = config,
         Launched(r)' = Launched(r) \cup LaunchedAt(config, at[r][1], at[r][2]),
         UNCHANGED comm
  PROVE  QueuesInOrder(r)'
<1>1. LaunchedAt(config, at[r][1], at[r][2]) = {}
  BY AtPosition, LaunchStep DEF Holds
<1>2. Launched(r)' = Launched(r)
  BY <1>1
<1>3. QED
  BY <1>2 DEF Holds, QueuesInOrder, comm

\* A launch step appends to each queue the collective of its stream, if there is one.
Appended(c, ks, s, q) ==
  LET of == {k \in ks : StreamOf(c, k) = s}
  IN  IF of = {} THEN q ELSE Append(q, CHOOSE k \in of : TRUE)

LEMMA AppendFacts ==
  ASSUME NEW S, NEW q \in Seq(S), NEW e \in S
  PROVE  LET q2 == Append(q, e)
         IN  /\ Len(q2) = Len(q) + 1 /\ Len(q) \in Nat /\ q2[Len(q) + 1] = e
             /\ \A j \in 1 .. Len(q) : q2[j] = q[j]
             /\ q2 \in Seq(S)
OBVIOUS

LEMMA Appends ==
  ASSUME NEW c \in Configs, NEW b, NEW i, Position(c, b, i), NEW s \in Streams,
         NEW q \in Seq(Launches(c)), NEW q2, q2 = Appended(c, LaunchedAt(c, b, i), s, q)
  PROVE  /\ q2 \in Seq(Launches(c)) /\ Len(q) <= Len(q2)
         /\ \A j \in 1 .. Len(q) : q2[j] = q[j]
         /\ \A j \in 1 .. Len(q2) : \/ j \in 1 .. Len(q)
                                    \/ j = Len(q) + 1 /\ q2[j] \in LaunchedAt(c, b, i) /\ StreamOf(c, q2[j]) = s
         /\ \A k \in LaunchedAt(c, b, i) : StreamOf(c, k) = s => \E j \in 1 .. Len(q2) : q2[j] = k
<1> DEFINE ks == {k \in LaunchedAt(c, b, i) : StreamOf(c, k) = s}
<1>1. CASE ks = {}
  <2>1. q2 = q
    BY <1>1 DEF Appended
  <2>2. QED
    BY <1>1, <2>1
<1>2. CASE ks # {}
  <2>1. PICK k \in ks : q2 = Append(q, k)
    <3>1. (CHOOSE k \in ks : TRUE) \in ks
      BY <1>2
    <3>2. QED
      BY <1>2, <3>1 DEF Appended
  <2>2. k \in Launches(c) /\ k \in LaunchedAt(c, b, i) /\ StreamOf(c, k) = s
    BY DEF LaunchedAt
  <2>3. /\ Len(q2) = Len(q) + 1 /\ Len(q) \in Nat /\ q2[Len(q) + 1] = k
        /\ \A j \in 1 .. Len(q) : q2[j] = q[j]
        /\ q2 \in Seq(Launches(c))
    BY <2>1, <2>2, AppendFacts
  <2>4. ASSUME NEW l \in LaunchedAt(c, b, i), StreamOf(c, l) = s PROVE l = k
    <3>1. Time(c, l) = Time(c, k) /\ l \in Launches(c)
      BY <2>2, LaunchOrder DEF LaunchedAt
    <3>2. QED
      BY <2>2, <2>4, <3>1, OnePerStream
  <2>5. QED
    BY <2>2, <2>3, <2>4
<1>3. QED
  BY <1>1, <1>2

LEMMA LaunchKeepsOrder ==
  ASSUME Types, NEW r \in Ranks, Holds(r), LaunchKernels(r),
         Launched(r)' = Launched(r) \cup LaunchedAt(config, at[r][1], at[r][2])
  PROVE  /\ QueuesInOrder(r)'
         /\ queue' \in [Ranks -> [Streams -> Seq(Launches(config))]]
         /\ \A q \in Ranks : q # r => queue'[q] = queue[q]
<1> DEFINE N == LaunchedAt(config, at[r][1], at[r][2])
<1>1. /\ config \in Configs /\ Position(config, at[r][1], at[r][2]) /\ Step(r) = Steps(config, at[r][1])[at[r][2]]
      /\ config' = config /\ finished' = finished /\ started' = started /\ reached' = reached
      /\ Step(r).op = "launch"
  BY AtPosition DEF Holds, LaunchKernels, Ready
<1>2. Step(r).kernels = N
  BY <1>1, LaunchStep
<1>3. /\ queue \in [Ranks -> [Streams -> Seq(Launches(config))]]
      /\ N \subseteq Launches(config) /\ Launched(r) \subseteq Launches(config)
  BY DEF Types, LaunchedAt, Launched, LaunchedBy
<1>4. \A s \in Streams : queue'[r][s] = Appended(config, N, s, queue[r][s])
  BY <1>2, <1>3 DEF LaunchKernels, Appended
<1>5. \A s \in Streams :
        LET q == queue[r][s]
            q2 == queue'[r][s]
        IN  /\ q2 \in Seq(Launches(config)) /\ Len(q) <= Len(q2)
            /\ \A j \in 1 .. Len(q) : q2[j] = q[j]
            /\ \A j \in 1 .. Len(q2) : \/ j \in 1 .. Len(q)
                                       \/ j = Len(q) + 1 /\ q2[j] \in N /\ StreamOf(config, q2[j]) = s
            /\ \A k \in N : StreamOf(config, k) = s => \E j \in 1 .. Len(q2) : q2[j] = k
  <2> SUFFICES ASSUME NEW s \in Streams
               PROVE  LET q == queue[r][s]
                          q2 == queue'[r][s]
                      IN  /\ q2 \in Seq(Launches(config)) /\ Len(q) <= Len(q2)
                          /\ \A j \in 1 .. Len(q) : q2[j] = q[j]
                          /\ \A j \in 1 .. Len(q2) : \/ j \in 1 .. Len(q)
                                                     \/ j = Len(q) + 1 /\ q2[j] \in N /\ StreamOf(config, q2[j]) = s
                          /\ \A k \in N : StreamOf(config, k) = s => \E j \in 1 .. Len(q2) : q2[j] = k
    OBVIOUS
  <2>1. queue[r][s] \in Seq(Launches(config))
    BY <1>3
  <2>2. QED
    BY <1>1, <1>4, <2>1, Appends
<1>6. queue' \in [Ranks -> [Streams -> Seq(Launches(config))]] /\ \A q \in Ranks : q # r => queue'[q] = queue[q]
  <2>1. DOMAIN queue'[r] = Streams /\ queue'[r] = [s \in Streams |-> queue'[r][s]]
    BY <1>3 DEF LaunchKernels
  <2>2. queue'[r] \in [Streams -> Seq(Launches(config))]
    BY <1>5, <2>1
  <2>3. QED
    BY <1>3, <2>2 DEF LaunchKernels
<1>7. QueuesInOrder(r)
  BY DEF Holds
<1>8. \A k \in N : /\ k \notin Launched(r)
                   /\ \A l \in Launched(r) : Time(config, l) < Time(config, k)
  <2>1. \A k \in N : \A l \in Launched(r) : Time(config, l) < Time(config, k)
    BY <1>1, LaunchOrder DEF Launched
  <2>2. \A k \in Launches(config) : Time(config, k) \in Int
    BY <1>1, CollectiveFacts DEF Launches
  <2>3. QED
    BY <1>3, <2>1, <2>2
<1>9. finished[r] \subseteq started[r] /\ started[r] \subseteq Launched(r) \cap reached[r]
  BY <1>7 DEF QueuesInOrder
<1>new. Launched(r)' = Launched(r) \cup N
  OBVIOUS
<1> HIDE DEF N
<1>10. ASSUME NEW s \in Streams
       PROVE  /\ \A i \in 1 .. Len(queue'[r][s]) :
                   /\ queue'[r][s][i] \in Launched(r)' \ finished[r]
                   /\ StreamOf(config, queue'[r][s][i]) = s
              /\ \A i, j \in 1 .. Len(queue'[r][s]) :
                   i < j => Time(config, queue'[r][s][i]) < Time(config, queue'[r][s][j])
  <2> DEFINE q == queue[r][s]
             q2 == queue'[r][s]
  <2>1. /\ \A j \in 1 .. Len(q) : q2[j] = q[j]
        /\ \A j \in 1 .. Len(q2) : \/ j \in 1 .. Len(q)
                                   \/ j = Len(q) + 1 /\ q2[j] \in N /\ StreamOf(config, q2[j]) = s
    BY <1>5
  <2>2. /\ \A j \in 1 .. Len(q) : q[j] \in Launched(r) \ finished[r] /\ StreamOf(config, q[j]) = s
        /\ \A j, l \in 1 .. Len(q) : j < l => Time(config, q[j]) < Time(config, q[l])
        /\ q \in Seq(Launches(config))
    <3>1. q \in Seq(Launches(config))
      BY <1>3
    <3>2. \A j \in 1 .. Len(q) : q[j] \in Launched(r) \ finished[r] /\ StreamOf(config, q[j]) = s
      BY <1>7 DEF QueuesInOrder
    <3>3. \A j, l \in 1 .. Len(q) : j < l => Time(config, q[j]) < Time(config, q[l])
      BY <1>7 DEF QueuesInOrder
    <3>4. QED
      BY <3>1, <3>2, <3>3
  <2>3. Len(q) \in Nat /\ Len(q2) \in Nat
    BY <1>5, <2>2
  <2> HIDE DEF q, q2
  <2>4. \A i \in 1 .. Len(q2) : q2[i] \in Launched(r)' \ finished[r] /\ StreamOf(config, q2[i]) = s
    BY <1>8, <1>9, <1>new, <2>1, <2>2
  <2>5. \A i, j \in 1 .. Len(q2) : i < j => Time(config, q2[i]) < Time(config, q2[j])
    <3> SUFFICES ASSUME NEW i \in 1 .. Len(q2), NEW j \in 1 .. Len(q2), i < j
                 PROVE  Time(config, q2[i]) < Time(config, q2[j])
      OBVIOUS
    <3>1. i \in 1 .. Len(q)
      BY <2>1, <2>3
    <3>2. CASE j \in 1 .. Len(q)
      BY <2>1, <2>2, <3>1, <3>2
    <3>3. CASE j \notin 1 .. Len(q)
      BY <1>8, <2>1, <2>2, <3>1, <3>3
    <3>4. QED
      BY <3>2, <3>3
  <2>6. QED
    BY <2>4, <2>5 DEF q2
<1>11. \A k \in Launched(r)' \ finished[r] :
         \E i \in 1 .. Len(queue'[r][StreamOf(config, k)]) : queue'[r][StreamOf(config, k)][i] = k
  <2> SUFFICES ASSUME NEW k \in Launched(r)' \ finished[r]
               PROVE  \E i \in 1 .. Len(queue'[r][StreamOf(config, k)]) : queue'[r][StreamOf(config, k)][i] = k
    OBVIOUS
  <2>1. StreamOf(config, k) \in Streams
    BY DEF StreamOf, Streams
  <2>2. CASE k \in N
    BY <1>5, <2>1, <2>2
  <2>3. CASE k \notin N
    <3>1. PICK i \in 1 .. Len(queue[r][StreamOf(config, k)]) : queue[r][StreamOf(config, k)][i] = k
      BY <1>7, <1>new, <2>3 DEF QueuesInOrder
    <3>2. Len(queue[r][StreamOf(config, k)]) <= Len(queue'[r][StreamOf(config, k)])
          /\ queue'[r][StreamOf(config, k)][i] = k /\ Len(queue[r][StreamOf(config, k)]) \in Nat
          /\ Len(queue'[r][StreamOf(config, k)]) \in Nat
      BY <1>3, <1>5, <2>1, <3>1
    <3>3. QED
      BY <3>1, <3>2
  <2>4. QED
    BY <2>2, <2>3
<1>12. \A k \in started[r], l \in Launched(r)' :
         StreamOf(config, l) = StreamOf(config, k) /\ Time(config, l) < Time(config, k) => l \in finished[r]
  <2> SUFFICES ASSUME NEW k \in started[r], NEW l \in Launched(r)',
                      StreamOf(config, l) = StreamOf(config, k), Time(config, l) < Time(config, k)
               PROVE  l \in finished[r]
    OBVIOUS
  <2>1. k \in Launched(r)
    BY <1>9
  <2>2. \A m \in Launches(config) : Time(config, m) \in Int
    BY <1>1, CollectiveFacts DEF Launches
  <2>3. ~(Time(config, k) < Time(config, l))
    <3>1. k \in Launches(config) /\ l \in Launches(config)
      BY <1>3, <1>new, <2>1
    <3>2. QED
      BY <2>2, <3>1
  <2>4. l \in Launched(r)
    BY <1>8, <1>new, <2>1, <2>3
  <2>5. QED
    BY <1>7, <2>4 DEF QueuesInOrder
<1>13. started[r] \subseteq Launched(r)' \cap reached[r]
  BY <1>9, <1>new
<1>14. QueuesInOrder(r)'
  BY <1>1, <1>9, <1>10, <1>11, <1>12, <1>13 DEF QueuesInOrder
<1>15. QED
  BY <1>6, <1>14

\* The head of a comm stream: everything launched before it has ended.
LEMMA HeadFacts ==
  ASSUME Types, NEW r \in Ranks, Holds(r), NEW s \in Streams, queue[r][s] # <<>>
  PROVE  LET k == Head(queue[r][s])
         IN  /\ k = queue[r][s][1] /\ 1 \in 1 .. Len(queue[r][s])
             /\ k \in Launches(config) /\ k \in Launched(r) \ finished[r] /\ StreamOf(config, k) = s
             /\ Time(config, k) \in Int /\ k.barrier \in Barriers
             /\ \A l \in Launched(r) :
                  StreamOf(config, l) = s /\ Time(config, l) < Time(config, k) => l \in finished[r]
<1> DEFINE q == queue[r][s]
           k == Head(q)
<1>1. q \in Seq(Launches(config)) /\ q # <<>> /\ config \in Configs
  BY DEF Types
<1>2. k = q[1] /\ 1 \in 1 .. Len(q) /\ k \in Launches(config) /\ Len(q) \in Nat
  BY <1>1
<1>3. /\ \A i \in 1 .. Len(q) : q[i] \in Launched(r) \ finished[r] /\ StreamOf(config, q[i]) = s
      /\ \A i, j \in 1 .. Len(q) : i < j => Time(config, q[i]) < Time(config, q[j])
      /\ \A l \in Launched(r) \ finished[r] :
           \E i \in 1 .. Len(queue[r][StreamOf(config, l)]) : queue[r][StreamOf(config, l)][i] = l
  BY DEF Holds, QueuesInOrder
<1>4. \A l \in Launches(config) : Time(config, l) \in Int /\ l.barrier \in Barriers
  BY <1>1, CollectiveFacts DEF Launches
<1>5. ASSUME NEW l \in Launched(r), StreamOf(config, l) = s, Time(config, l) < Time(config, k)
      PROVE  l \in finished[r]
  <2>1. SUFFICES ASSUME l \notin finished[r] PROVE FALSE
    OBVIOUS
  <2>2. PICK i \in 1 .. Len(q) : q[i] = l
    BY <1>3, <1>5, <2>1
  <2>3. i # 1
    BY <1>2, <1>4, <1>5, <2>2
  <2>4. 1 < i
    BY <1>2, <2>2, <2>3
  <2>5. Time(config, k) < Time(config, l) /\ l \in Launches(config)
    BY <1>1, <1>2, <1>3, <2>2, <2>4
  <2>6. QED
    BY <1>2, <1>4, <1>5, <2>5
<1>6. QED
  BY <1>2, <1>3, <1>4, <1>5

\* Where a rank returns, every collective has ended.
LEMMA ReturnedIsDone ==
  ASSUME Types, NEW r \in Ranks, Holds(r), Returned(r)
  PROVE  Launches(config) \subseteq finished[r]
<1>1. config \in Configs /\ LoopEnd(config) \in Nat
  BY ConfigFacts DEF Types
<1>2. at[r][1] \in Int /\ at[r][1] > LoopEnd(config)
  BY <1>1 DEF Types, Returned
<1>3. ASSUME NEW k \in Launches(config) PROVE k \in WaitedBy(config, at[r][1], at[r][2])
  <2>1. k.stage \in Int /\ (k.barrier = "fetch" => k.stage < LoopEnd(config))
    BY <1>1, LaunchFacts DEF Launches
  <2>2. QED
    BY <1>1, <1>2, <2>1 DEF WaitedBy
<1>4. QED
  BY <1>3 DEF Holds, WorksHold

LEMMA StartKeeps ==
  ASSUME Types, NEW r \in Ranks, Holds(r), NEW s \in Streams, Start(r, s)
  PROVE  Types' /\ Holds(r)'
<1> DEFINE k == Head(queue[r][s])
<1>1. /\ queue[r][s] # <<>> /\ k \in reached[r] /\ k \notin started[r]
      /\ started' = [started EXCEPT ![r] = @ \cup {k}]
      /\ count' = [count EXCEPT ![r][k.barrier] = @ + 1]
      /\ config' = config /\ at' = at /\ busy' = busy /\ queue' = queue /\ reached' = reached
      /\ finished' = finished /\ computed' = computed
  BY DEF Start
<1>2. /\ k \in Launches(config) /\ k \in Launched(r) \ finished[r] /\ StreamOf(config, k) = s
      /\ Time(config, k) \in Int /\ k.barrier \in Barriers
      /\ \A l \in Launched(r) :
           StreamOf(config, l) = s /\ Time(config, l) < Time(config, k) => l \in finished[r]
  BY <1>1, HeadFacts
<1> HIDE DEF k
<1>3. /\ config \in Configs /\ started \in [Ranks -> SUBSET Launches(config)]
      /\ count \in [Ranks -> [Barriers -> Nat]]
  BY DEF Types
<1>4. started'[r] = started[r] \cup {k} /\ started' \in [Ranks -> SUBSET Launches(config)]
  BY <1>1, <1>2, <1>3
<1>5. /\ count' \in [Ranks -> [Barriers -> Nat]]
      /\ \A a \in Barriers : count'[r][a] = IF a = k.barrier THEN count[r][a] + 1 ELSE count[r][a]
  BY <1>1, <1>2, <1>3
<1>6. Types'
  BY <1>1, <1>4, <1>5 DEF Types
<1>7. Launched(r)' = Launched(r) /\ (Returned(r)' <=> Returned(r)) /\ Step(r)' = Step(r)
  BY <1>1 DEF Launched, Returned, Step
<1>8. InPlace(r)' /\ WorksHold(r)'
  BY <1>1, <1>7 DEF Holds, InPlace, WorksHold
<1>9. QueuesInOrder(r)'
  <2>1. QueuesInOrder(r)
    BY DEF Holds
  <2>2. \A m \in started'[r], l \in Launched(r) :
          StreamOf(config, l) = StreamOf(config, m) /\ Time(config, l) < Time(config, m) => l \in finished[r]
    BY <1>2, <1>4, <2>1 DEF QueuesInOrder
  <2>3. finished[r] \subseteq started'[r] /\ started'[r] \subseteq Launched(r) \cap reached[r]
    BY <1>1, <1>2, <1>4, <2>1 DEF QueuesInOrder
  <2>4. QED
    BY <1>1, <1>7, <2>1, <2>2, <2>3 DEF QueuesInOrder
<1>10. BarriersHold(r)'
  <2>1. SyncedBy(config, at[r][1], at[r][2]) \subseteq started[r]
    BY DEF Holds, BarriersHold
  <2>2. ASSUME ~Returned(r), NEW a \in Barriers
        PROVE  count'[r][a] = Cardinality(CountedBy(config, at[r][1], at[r][2], a) \cap started'[r])
    <3> DEFINE C == CountedBy(config, at[r][1], at[r][2], a)
    <3>1. Position(config, at[r][1], at[r][2])
      BY <2>2, AtPosition DEF Holds
    <3>2. count[r][a] = Cardinality(C \cap started[r])
      BY <2>2 DEF Holds, BarriersHold
    <3>3. k \in C <=> k.barrier = a
      BY <1>1, <1>2, <1>3, <2>1, <3>1, LaunchedIsCounted DEF Launched
    <3>4. IsFiniteSet(C)
      BY <1>3, <3>1, CountedSize
    <3> HIDE DEF C
    <3>5. IsFiniteSet(C \cap started[r])
      BY <3>4, FS_Intersection
    <3>6. CASE k.barrier = a
      <4>1. C \cap started'[r] = (C \cap started[r]) \cup {k} /\ k \notin C \cap started[r]
        BY <1>1, <1>4, <3>3, <3>6
      <4>2. Cardinality((C \cap started[r]) \cup {k}) = Cardinality(C \cap started[r]) + 1
        BY <3>5, <4>1, FS_AddElement
      <4>3. QED
        BY <1>5, <3>2, <3>6, <4>1, <4>2 DEF C
    <3>7. CASE k.barrier # a
      <4>1. C \cap started'[r] = C \cap started[r]
        BY <1>4, <3>3, <3>7
      <4>2. QED
        BY <1>5, <3>2, <3>7, <4>1 DEF C
    <3>8. QED
      BY <3>6, <3>7
  <2>3. ASSUME NEW a \in Barriers PROVE count'[r][a] <= Target(config, a)
    <3> DEFINE C == CountedBy(config, at[r][1], at[r][2], a)
    <3>1. ~Returned(r)
      BY <1>2, ReturnedIsDone
    <3>2. Position(config, at[r][1], at[r][2])
      BY <3>1, AtPosition DEF Holds
    <3>3. IsFiniteSet(C) /\ Cardinality(C) <= Target(config, a)
      BY <1>3, <3>2, CountedSize
    <3>4. count'[r][a] = Cardinality(C \cap started'[r])
      BY <2>2, <3>1
    <3> HIDE DEF C
    <3>5. /\ Cardinality(C \cap started'[r]) <= Cardinality(C) /\ IsFiniteSet(C \cap started'[r])
      BY <3>3, FS_Intersection
    <3>6. Cardinality(C) \in Nat /\ Cardinality(C \cap started'[r]) \in Nat /\ Target(config, a) \in Nat
      BY <3>3, <3>5, FS_CardinalityType DEF Target
    <3>7. QED
      BY <3>3, <3>4, <3>5, <3>6
  <2>4. QED
    BY <1>1, <1>4, <1>7, <2>1, <2>2, <2>3 DEF BarriersHold
<1>11. QED
  BY <1>6, <1>8, <1>9, <1>10 DEF Holds

LEMMA FinishKeeps ==
  ASSUME Types, NEW r \in Ranks, Holds(r), NEW s \in Streams, Finish(r, s)
  PROVE  Types' /\ Holds(r)'
<1> DEFINE q == queue[r][s]
           k == Head(q)
<1>1. /\ q # <<>> /\ k \in started[r]
      /\ finished' = [finished EXCEPT ![r] = @ \cup {k}]
      /\ queue' = [queue EXCEPT ![r][s] = Tail(@)]
      /\ config' = config /\ at' = at /\ busy' = busy /\ reached' = reached /\ count' = count
      /\ started' = started /\ computed' = computed
  BY DEF Finish
<1>2. /\ k = q[1] /\ k \in Launches(config) /\ StreamOf(config, k) = s /\ Time(config, k) \in Int
  BY <1>1, HeadFacts
<1>3. /\ q \in Seq(Launches(config)) /\ config \in Configs
      /\ queue \in [Ranks -> [Streams -> Seq(Launches(config))]]
      /\ finished \in [Ranks -> SUBSET Launches(config)]
  BY DEF Types
<1>4. /\ Tail(q) \in Seq(Launches(config)) /\ Len(q) \in Nat /\ Len(Tail(q)) = Len(q) - 1
      /\ \A i \in 1 .. Len(Tail(q)) : Tail(q)[i] = q[i + 1]
  BY <1>1, <1>3
<1> HIDE DEF k
<1>5. /\ finished'[r] = finished[r] \cup {k} /\ finished' \in [Ranks -> SUBSET Launches(config)]
      /\ queue'[r][s] = Tail(q) /\ \A t \in Streams : t # s => queue'[r][t] = queue[r][t]
      /\ queue' \in [Ranks -> [Streams -> Seq(Launches(config))]]
  BY <1>1, <1>2, <1>3, <1>4
<1>6. Types'
  BY <1>1, <1>5 DEF Types
<1>7. Launched(r)' = Launched(r) /\ (Returned(r)' <=> Returned(r)) /\ Step(r)' = Step(r)
  BY <1>1 DEF Launched, Returned, Step
<1>8. InPlace(r)' /\ BarriersHold(r)'
  BY <1>1, <1>7 DEF Holds, InPlace, BarriersHold
<1>9. WorksHold(r)'
  BY <1>1, <1>5 DEF Holds, WorksHold
<1>10. QueuesInOrder(r)
  BY DEF Holds
<1>11. /\ \A i \in 1 .. Len(q) : q[i] \in Launched(r) \ finished[r] /\ StreamOf(config, q[i]) = s
       /\ \A i, j \in 1 .. Len(q) : i < j => Time(config, q[i]) < Time(config, q[j])
  BY <1>10 DEF QueuesInOrder
<1>12. ASSUME NEW t \in Streams
       PROVE  /\ \A i \in 1 .. Len(queue'[r][t]) :
                   queue'[r][t][i] \in Launched(r) \ finished'[r] /\ StreamOf(config, queue'[r][t][i]) = t
              /\ \A i, j \in 1 .. Len(queue'[r][t]) :
                   i < j => Time(config, queue'[r][t][i]) < Time(config, queue'[r][t][j])
  <2>1. CASE t = s
    <3>1. \A i \in 1 .. Len(Tail(q)) :
            /\ Tail(q)[i] \in Launched(r) \ finished[r] /\ StreamOf(config, Tail(q)[i]) = s
            /\ Time(config, k) < Time(config, Tail(q)[i])
      <4> SUFFICES ASSUME NEW i \in 1 .. Len(Tail(q))
                   PROVE  /\ Tail(q)[i] \in Launched(r) \ finished[r] /\ StreamOf(config, Tail(q)[i]) = s
                          /\ Time(config, k) < Time(config, Tail(q)[i])
        OBVIOUS
      <4>1. Tail(q)[i] = q[i + 1] /\ i + 1 \in 1 .. Len(q) /\ 1 \in 1 .. Len(q) /\ 1 < i + 1
        BY <1>4
      <4> HIDE DEF q
      <4>2. QED
        BY <1>2, <1>11, <4>1
    <3>2. \A i, j \in 1 .. Len(Tail(q)) : i < j => Time(config, Tail(q)[i]) < Time(config, Tail(q)[j])
      <4> SUFFICES ASSUME NEW i \in 1 .. Len(Tail(q)), NEW j \in 1 .. Len(Tail(q)), i < j
                   PROVE  Time(config, Tail(q)[i]) < Time(config, Tail(q)[j])
        OBVIOUS
      <4>1. /\ Tail(q)[i] = q[i + 1] /\ i + 1 \in 1 .. Len(q)
            /\ Tail(q)[j] = q[j + 1] /\ j + 1 \in 1 .. Len(q) /\ i + 1 < j + 1
        BY <1>4
      <4> HIDE DEF q
      <4>2. QED
        BY <1>11, <4>1
    <3> DEFINE rest == Tail(q)
    <3>3. queue'[r][t] = rest
      BY <1>5, <2>1
    <3>4. \A i \in 1 .. Len(rest) : rest[i] \in Launched(r) \ finished[r] /\ StreamOf(config, rest[i]) = s /\ rest[i] # k
      <4> SUFFICES ASSUME NEW i \in 1 .. Len(rest)
                   PROVE  rest[i] \in Launched(r) \ finished[r] /\ StreamOf(config, rest[i]) = s /\ rest[i] # k
        OBVIOUS
      <4>1. /\ rest[i] \in Launched(r) \ finished[r] /\ StreamOf(config, rest[i]) = s
            /\ Time(config, k) < Time(config, rest[i])
        BY <3>1
      <4> HIDE DEF q, rest
      <4>2. ASSUME rest[i] = k PROVE FALSE
        BY <4>1, <4>2, <1>2
      <4>3. QED
        BY <4>1, <4>2
    <3>5. \A i \in 1 .. Len(rest) : rest[i] \in Launched(r) \ finished'[r] /\ StreamOf(config, rest[i]) = t
      BY <1>5, <2>1, <3>4
    <3> HIDE DEF q, rest
    <3>6. \A i, j \in 1 .. Len(rest) : i < j => Time(config, rest[i]) < Time(config, rest[j])
      BY <3>2 DEF rest
    <3>7. QED
      BY <3>3, <3>5, <3>6
  <2>2. CASE t # s
    <3>1. queue'[r][t] = queue[r][t]
      BY <1>5, <2>2
    <3>2. QED
      BY <1>2, <1>5, <1>10, <2>2, <3>1 DEF QueuesInOrder
  <2>3. QED
    BY <2>1, <2>2
<1>13. ASSUME NEW l \in Launched(r) \ finished'[r]
       PROVE  \E i \in 1 .. Len(queue'[r][StreamOf(config, l)]) : queue'[r][StreamOf(config, l)][i] = l
  <2>1. StreamOf(config, l) \in Streams /\ l \notin finished[r] /\ l # k
    BY <1>5, <1>13 DEF StreamOf, Streams
  <2>2. PICK i \in 1 .. Len(queue[r][StreamOf(config, l)]) : queue[r][StreamOf(config, l)][i] = l
    BY <1>10, <1>13, <2>1 DEF QueuesInOrder
  <2>3. CASE StreamOf(config, l) # s
    BY <1>5, <2>1, <2>2, <2>3
  <2>4. CASE StreamOf(config, l) = s
    <3>1. i \in 1 .. Len(q) /\ q[i] = l
      BY <2>2, <2>4
    <3>2. i # 1
      BY <1>2, <2>1, <3>1
    <3>3. i - 1 \in 1 .. Len(Tail(q)) /\ Tail(q)[i - 1] = l
      <4>1. i - 1 \in 1 .. Len(Tail(q)) /\ (i - 1) + 1 = i
        BY <1>4, <3>1, <3>2
      <4> HIDE DEF q
      <4>2. QED
        BY <1>4, <3>1, <4>1
    <3> HIDE DEF q
    <3>4. QED
      BY <1>5, <2>4, <3>3
  <2>5. QED
    BY <2>3, <2>4
<1>14. /\ finished'[r] \subseteq started[r] /\ started[r] \subseteq Launched(r) \cap reached[r]
       /\ \A m \in started[r], l \in Launched(r) :
            StreamOf(config, l) = StreamOf(config, m) /\ Time(config, l) < Time(config, m) => l \in finished'[r]
  BY <1>1, <1>5, <1>10 DEF QueuesInOrder
<1>15. QueuesInOrder(r)'
  BY <1>1, <1>7, <1>12, <1>13, <1>14 DEF QueuesInOrder
<1>16. QED
  BY <1>6, <1>8, <1>9, <1>15 DEF Holds

\* The kernels that are computed are numbers of stages, or of the two host steps.
LEMMA WorkIsInt ==
  ASSUME NEW c \in Configs, NEW b, NEW i, Position(c, b, i), Steps(c, b)[i].op = "compute"
  PROVE  Steps(c, b)[i].work \in Int
<1>1. c.degree \in Int /\ HostStage = -1 /\ GradAdd = -2 /\ b \in Int
  BY ConfigFacts, Indices DEF HostStage, GradAdd
<1>2. WorkAt(c, b + 2) \in Int
  BY <1>1 DEF WorkAt
<1>3. \/ Steps(c, b)[i] = Compute(WorkAt(c, b + 2)) \/ Steps(c, b)[i] = Compute(HostStage)
      \/ Steps(c, b)[i] = Compute(GradAdd)
  BY ComputeStep
<1>4. QED
  BY <1>1, <1>2, <1>3, Operations

LEMMA ComputeStreamKeeps ==
  ASSUME Types, NEW r \in Ranks, Holds(r), ComputeStream(r)
  PROVE  Types' /\ Holds(r)' /\ \A q \in Ranks : q # r => (Holds(q) => Holds(q)')
<1>1. InPlace(r) /\ QueuesInOrder(r)
  BY DEF Holds
<1> DEFINE Elsewhere(v) == \A q \in Ranks : q # r => v'[q] = v[q]
<1>2. ASSUME Elsewhere(at), Elsewhere(busy), Elsewhere(count), Elsewhere(queue), Elsewhere(computed),
             config' = config, UNCHANGED <<reached, started, finished>>
      PROVE  \A q \in Ranks : q # r => (Holds(q) => Holds(q)')
  BY <1>2, OtherRank
<1>3. /\ busy \in [Ranks -> BOOLEAN] /\ count \in [Ranks -> [Barriers -> Nat]]
      /\ queue \in [Ranks -> [Streams -> Seq(Launches(config))]] /\ computed \in [Ranks -> Seq(Int)]
  BY DEF Types
<1>4. CASE ResetBarrier(r)
  <2>1. /\ ~Returned(r) /\ Step(r).op = "reset" /\ Advance(r)
        /\ count' = [count EXCEPT ![r][Step(r).barrier] = 0]
        /\ config' = config /\ busy' = busy /\ computed' = computed /\ UNCHANGED comm
    BY <1>4 DEF ResetBarrier, Ready
  <2>2. Step(r).barrier \in Barriers
    <3>1. /\ config \in Configs /\ Position(config, at[r][1], at[r][2])
          /\ Step(r) = Steps(config, at[r][1])[at[r][2]]
      BY <1>1, <2>1, AtPosition
    <3>2. Step(r) = Reset("fetch") \/ Step(r) = Reset("reduce")
      BY <2>1, <3>1, StepTable, Operations
    <3>3. QED
      BY <3>2, Operations DEF Barriers
  <2>3. /\ count'[r] = [count[r] EXCEPT ![Step(r).barrier] = 0] /\ Elsewhere(count)
        /\ count' \in [Ranks -> [Barriers -> Nat]]
    BY <1>3, <2>1, <2>2
  <2>4. ~busy'[r]
    BY <1>1, <2>1 DEF InPlace
  <2>5. /\ InPlace(r)' /\ BarriersHold(r)' /\ WorksHold(r)'
        /\ Launched(r)' = Launched(r) \cup LaunchedAt(config, at[r][1], at[r][2])
    BY <2>1, <2>3, <2>4, Moves DEF comm
  <2>6. QueuesInOrder(r)'
    BY <2>1, <2>5, QueuesUnchanged
  <2>7. Types'
    BY <1>1, <2>1, <2>3, Advances DEF Types, comm
  <2>8. QED
    BY <1>1, <1>2, <2>1, <2>3, <2>5, <2>6, <2>7, Advances DEF Holds, comm
<1>5. CASE WaitKernel(r)
  <2>1. /\ ~Returned(r) /\ Step(r).op = "synchronize" /\ Advance(r)
        /\ count[r][Step(r).barrier] >= Target(config, Step(r).barrier)
        /\ config' = config /\ busy' = busy /\ count' = count /\ computed' = computed /\ UNCHANGED comm
    BY <1>5 DEF WaitKernel, Ready
  <2>2. ~busy'[r]
    BY <1>1, <2>1 DEF InPlace
  <2>3. /\ InPlace(r)' /\ BarriersHold(r)' /\ WorksHold(r)'
        /\ Launched(r)' = Launched(r) \cup LaunchedAt(config, at[r][1], at[r][2])
    BY <2>1, <2>2, Moves DEF comm
  <2>4. QueuesInOrder(r)'
    BY <2>1, <2>3, QueuesUnchanged
  <2>5. Types'
    BY <1>1, <2>1, Advances DEF Types, comm
  <2>6. QED
    BY <1>1, <1>2, <2>1, <2>3, <2>4, <2>5, Advances DEF Holds, comm
<1>6. CASE LaunchKernels(r)
  <2>1. /\ ~Returned(r) /\ Step(r).op = "launch" /\ Advance(r)
        /\ config' = config /\ busy' = busy /\ count' = count /\ computed' = computed
        /\ UNCHANGED <<reached, started, finished>>
    BY <1>6 DEF LaunchKernels, Ready
  <2>2. ~busy'[r]
    BY <1>1, <2>1 DEF InPlace
  <2>3. /\ InPlace(r)' /\ BarriersHold(r)' /\ WorksHold(r)'
        /\ Launched(r)' = Launched(r) \cup LaunchedAt(config, at[r][1], at[r][2])
    BY <2>1, <2>2, Moves
  <2>4. /\ QueuesInOrder(r)' /\ Elsewhere(queue)
        /\ queue' \in [Ranks -> [Streams -> Seq(Launches(config))]]
    BY <1>6, <2>3, LaunchKeepsOrder
  <2>5. Types'
    BY <1>1, <2>1, <2>4, Advances DEF Types
  <2>6. QED
    BY <1>1, <1>2, <2>1, <2>3, <2>4, <2>5, Advances DEF Holds
<1>7. CASE WaitWorks(r)
  <2>1. /\ ~Returned(r) /\ Step(r).op = "wait" /\ Advance(r) /\ Step(r).kernels \subseteq finished[r]
        /\ config' = config /\ busy' = busy /\ count' = count /\ computed' = computed /\ UNCHANGED comm
    BY <1>7 DEF WaitWorks, Ready
  <2>2. ~busy'[r]
    BY <1>1, <2>1 DEF InPlace
  <2>3. /\ InPlace(r)' /\ BarriersHold(r)' /\ WorksHold(r)'
        /\ Launched(r)' = Launched(r) \cup LaunchedAt(config, at[r][1], at[r][2])
    BY <2>1, <2>2, Moves DEF comm
  <2>4. QueuesInOrder(r)'
    BY <2>1, <2>3, QueuesUnchanged
  <2>5. Types'
    BY <1>1, <2>1, Advances DEF Types, comm
  <2>6. QED
    BY <1>1, <1>2, <2>1, <2>3, <2>4, <2>5, Advances DEF Holds, comm
<1>8. CASE BeginCompute(r)
  <2>1. /\ ~Returned(r) /\ Step(r).op = "compute" /\ busy' = [busy EXCEPT ![r] = TRUE]
        /\ config' = config /\ at' = at /\ count' = count /\ computed' = computed /\ UNCHANGED comm
    BY <1>8 DEF BeginCompute, Ready
  <2>2. Elsewhere(busy) /\ busy' \in [Ranks -> BOOLEAN]
    BY <1>3, <2>1
  <2>3. Launched(r)' = Launched(r) /\ (Returned(r)' <=> Returned(r)) /\ Step(r)' = Step(r)
    BY <2>1 DEF Launched, Returned, Step
  <2>4. InPlace(r)'
    BY <1>1, <2>1, <2>3 DEF InPlace
  <2>5. QueuesInOrder(r)' /\ BarriersHold(r)' /\ WorksHold(r)'
    BY <2>1, <2>3 DEF Holds, QueuesInOrder, BarriersHold, WorksHold, comm
  <2>6. Types'
    BY <2>1, <2>2 DEF Types, comm
  <2>7. QED
    BY <1>2, <2>1, <2>2, <2>4, <2>5, <2>6 DEF Holds, comm
<1>9. CASE EndCompute(r)
  <2>1. /\ ~Returned(r) /\ Step(r).op = "compute" /\ Advance(r) /\ busy' = [busy EXCEPT ![r] = FALSE]
        /\ computed' = [computed EXCEPT ![r] = Append(@, Step(r).work)]
        /\ config' = config /\ count' = count /\ UNCHANGED comm
    BY <1>9 DEF EndCompute, Ready
  <2>2. Step(r).work \in Int
    BY <1>1, <2>1, AtPosition, WorkIsInt
  <2>3. Elsewhere(busy) /\ busy' \in [Ranks -> BOOLEAN] /\ ~busy'[r]
    BY <1>3, <2>1
  <2>4. /\ Elsewhere(computed) /\ computed'[r] = Append(computed[r], Step(r).work)
        /\ computed' \in [Ranks -> Seq(Int)]
    BY <1>3, <2>1, <2>2
  <2>5. /\ InPlace(r)' /\ BarriersHold(r)' /\ WorksHold(r)'
        /\ Launched(r)' = Launched(r) \cup LaunchedAt(config, at[r][1], at[r][2])
    BY <2>1, <2>3, <2>4, Moves DEF comm
  <2>6. QueuesInOrder(r)'
    BY <2>1, <2>5, QueuesUnchanged
  <2>7. Types'
    BY <1>1, <2>1, <2>3, <2>4, Advances DEF Types, comm
  <2>8. QED
    BY <1>1, <1>2, <2>1, <2>3, <2>4, <2>5, <2>6, <2>7, Advances DEF Holds, comm
<1>10. QED
  BY <1>4, <1>5, <1>6, <1>7, <1>8, <1>9 DEF ComputeStream

LEMMA CommStreamKeeps ==
  ASSUME Types, NEW r \in Ranks, Holds(r), NEW s \in Streams, CommStream(r, s)
  PROVE  Types' /\ Holds(r)' /\ \A q \in Ranks : q # r => (Holds(q) => Holds(q)')
<1>1. /\ count \in [Ranks -> [Barriers -> Nat]] /\ queue \in [Ranks -> [Streams -> Seq(Launches(config))]]
      /\ reached \in [Ranks -> SUBSET Launches(config)] /\ started \in [Ranks -> SUBSET Launches(config)]
      /\ finished \in [Ranks -> SUBSET Launches(config)]
  BY DEF Types
<1>2. CASE Reach(r, s)
  <2> DEFINE k == Head(queue[r][s])
  <2>1. /\ queue[r][s] # <<>> /\ reached' = [reached EXCEPT ![r] = @ \cup {k}]
        /\ config' = config /\ at' = at /\ busy' = busy /\ count' = count /\ queue' = queue
        /\ started' = started /\ finished' = finished /\ computed' = computed
    BY <1>2 DEF Reach
  <2>2. k \in Launches(config)
    BY <2>1, HeadFacts
  <2> HIDE DEF k
  <2>3. /\ reached' \in [Ranks -> SUBSET Launches(config)]
        /\ \A q \in Ranks : reached[q] \subseteq reached'[q]
    BY <1>1, <2>1, <2>2
  <2>4. \A q \in Ranks : Holds(q) => Holds(q)'
    BY <2>1, <2>3, OtherRank
  <2>5. QED
    BY <2>1, <2>3, <2>4 DEF Types
<1>3. CASE Start(r, s)
  <2>1. /\ config' = config /\ at' = at /\ busy' = busy /\ queue' = queue /\ reached' = reached
        /\ finished' = finished /\ computed' = computed
        /\ \A q \in Ranks : q # r => started'[q] = started[q] /\ count'[q] = count[q]
    BY <1>1, <1>3 DEF Start
  <2>2. \A q \in Ranks : q # r => (Holds(q) => Holds(q)')
    BY <2>1, OtherRank
  <2>3. QED
    BY <1>3, <2>2, StartKeeps
<1>4. CASE Finish(r, s)
  <2>1. /\ config' = config /\ at' = at /\ busy' = busy /\ count' = count /\ reached' = reached
        /\ started' = started /\ computed' = computed
        /\ \A q \in Ranks : q # r => finished'[q] = finished[q] /\ queue'[q] = queue[q]
    BY <1>1, <1>4 DEF Finish
  <2>2. \A q \in Ranks : q # r => (Holds(q) => Holds(q)')
    BY <2>1, OtherRank
  <2>3. QED
    BY <1>4, <2>2, FinishKeeps
<1>5. QED
  BY <1>2, <1>3, <1>4 DEF CommStream

LEMMA InvInit == Init => Inv
<1> SUFFICES ASSUME Init PROVE Inv
  OBVIOUS
<1>1. config \in Configs /\ HostStage = -1 /\ LoopEnd(config) \in Nat
  BY ConfigFacts DEF Init, HostStage
<1>2. /\ at = [r \in Ranks |-> <<-1, 1>>] /\ busy = [r \in Ranks |-> FALSE]
      /\ count = [r \in Ranks |-> [b \in Barriers |-> 0]]
      /\ queue = [r \in Ranks |-> [s \in Streams |-> <<>>]]
      /\ reached = [r \in Ranks |-> {}] /\ started = [r \in Ranks |-> {}]
      /\ finished = [r \in Ranks |-> {}] /\ computed = [r \in Ranks |-> <<>>]
  BY <1>1 DEF Init
<1>3. Types
  BY <1>1, <1>2 DEF Types
<1>4. ASSUME NEW r \in Ranks PROVE Holds(r)
  <2>1. /\ at[r] = <<-1, 1>> /\ at[r][1] = -1 /\ at[r][2] = 1 /\ ~busy[r] /\ started[r] = {} /\ finished[r] = {}
        /\ computed[r] = <<>> /\ \A b \in Barriers : count[r][b] = 0
        /\ \A s \in Streams : queue[r][s] = <<>>
    BY <1>2
  <2>2. -1 \in HostStage .. LoopEnd(config) /\ Length(config, -1) \in Nat \ {0} /\ Pre(config, -1) \in Nat
    BY <1>1, BlockLength
  <2>3. Position(config, -1, 1)
    BY <2>2 DEF Position
  <2>4. \A k \in Launches(config) :
          /\ Block(config, k) \in Int /\ -1 <= Block(config, k) /\ k.stage \in Int
          /\ k.barrier = "fetch" => k.stage = Block(config, k) + 1
    BY <1>1, LaunchFacts
  <2>5. /\ LaunchedBy(config, -1, 1) = {} /\ SyncedBy(config, -1, 1) = {} /\ WaitedBy(config, -1, 1) = {}
    BY <1>1, <2>4 DEF LaunchedBy, SyncedBy, WaitedBy, FetchIndex
  <2>6. NumComputed(config, -1, 1) = 0
    <3>1. ~(1 > ComputeIndex(config, -1))
      BY <2>2 DEF ComputeIndex
    <3>2. QED
      BY <1>1, <3>1 DEF NumComputed
  <2>7. InPlace(r)
    BY <1>1, <2>1, <2>2 DEF InPlace
  <2>8. QueuesInOrder(r)
    BY <2>1, <2>5 DEF QueuesInOrder, Launched
  <2>9. BarriersHold(r)
    <3>1. \A b \in Barriers : CountedBy(config, -1, 1, b) \cap started[r] = {}
      BY <2>1
    <3>2. \A b \in Barriers : Target(config, b) \in Nat
      BY DEF Target
    <3>3. QED
      BY <2>1, <2>5, <3>1, <3>2, FS_EmptySet DEF BarriersHold
  <2>10. WorksHold(r)
    BY <2>1, <2>5, <2>6 DEF WorksHold
  <2>11. QED
    BY <2>7, <2>8, <2>9, <2>10 DEF Holds
<1>5. QED
  BY <1>3, <1>4 DEF Inv

LEMMA InvNext == Inv /\ [Next]_vars => Inv'
<1> SUFFICES ASSUME Inv, [Next]_vars PROVE Inv'
  OBVIOUS
<1>1. CASE Next
  <2>1. PICK r \in Ranks : ComputeStream(r) \/ \E s \in Streams : CommStream(r, s)
    BY <1>1 DEF Next
  <2>2. Types' /\ Holds(r)' /\ \A q \in Ranks : q # r => (Holds(q) => Holds(q)')
    BY <2>1, ComputeStreamKeeps, CommStreamKeeps DEF Inv
  <2>3. QED
    BY <2>2 DEF Inv
<1>2. CASE UNCHANGED vars
  <2>1. Types'
    BY <1>2 DEF Inv, Types, vars
  <2>2. \A r \in Ranks : Holds(r)'
    BY <1>2, OtherRank DEF Inv, vars
  <2>3. QED
    BY <2>1, <2>2 DEF Inv
<1>3. QED
  BY <1>1, <1>2

\* The invariant that ties what has begun, arrived, ended and been computed on a
\* rank to the position of its compute stream holds in every state.
THEOREM Invariance == Spec => []Inv
<1>1. QED
  BY InvInit, InvNext, PTL DEF Spec

-----------------------------------------------------------------------------
(* What the invariant says of the states.                                  *)

\* While a kernel computes, everything launched must have begun.
LEMMA ComputingIsSynced ==
  ASSUME NEW c \in Configs, NEW b, NEW i, Position(c, b, i), Steps(c, b)[i].op = "compute"
  PROVE  LaunchedBy(c, b, i) \subseteq SyncedBy(c, b, i)
<1> SUFFICES ASSUME NEW k \in LaunchedBy(c, b, i) PROVE k \in SyncedBy(c, b, i)
  OBVIOUS
<1>1. k \in Launches(c) /\ (Block(c, k) < b \/ (Block(c, k) = b /\ k.barrier = "fetch" /\ i > FetchIndex(b)))
  BY DEF LaunchedBy
<1>2. /\ Block(c, k) \in Int /\ Block(c, k) < LoopEnd(c)
      /\ k.barrier = "fetch" => Prefetches(c, Block(c, k))
  BY <1>1, LaunchFacts
<1>3. \/ b < LoopEnd(c) /\ i = ComputeIndex(c, b)
      \/ b = LoopEnd(c) /\ i >= 2
  BY ComputeStep
<1>4. i > Pre(c, b)
  BY <1>3, Indices
<1>5. CASE k.barrier = "fetch"
  <2>1. Block(c, k) = b => Pre(c, b) >= FetchIndex(b) + 1
    BY <1>2, <1>5, Indices
  <2>2. QED
    BY <1>1, <1>2, <1>4, <1>5, <2>1, Indices DEF SyncedBy
<1>6. CASE k.barrier # "fetch"
  BY <1>1, <1>2, <1>4, <1>6, Indices DEF SyncedBy
<1>7. QED
  BY <1>5, <1>6

\* Where a rank is that computes a remote stage.
LEMMA ComputingStage ==
  ASSUME Types, NEW r \in Ranks, Holds(r), NEW i \in Remote(config), Computing(r, i),
         ~(HideTail(config) /\ IsLast(config, i))
  PROVE  /\ config \in Configs /\ Position(config, at[r][1], at[r][2])
         /\ at[r][1] = i /\ i < LoopEnd(config) /\ 0 <= i /\ at[r][2] = ComputeIndex(config, i)
         /\ Steps(config, at[r][1])[at[r][2]].op = "compute"
<1> DEFINE b == at[r][1]
<1>1. ~Returned(r) /\ Step(r).op = "compute" /\ Step(r).work = i /\ InPlace(r)
  BY DEF Computing, Holds, InPlace
<1>2. /\ config \in Configs /\ Position(config, b, at[r][2]) /\ Step(r) = Steps(config, b)[at[r][2]]
  BY <1>1, AtPosition
<1>3. config.degree \in Nat \ {0} /\ i \in Int /\ 0 <= i /\ i < config.degree /\ HostStage = -1 /\ GradAdd = -2
  BY <1>2, ConfigFacts DEF Remote, HostStage, GradAdd
<1>4. /\ b < LoopEnd(config) /\ at[r][2] = ComputeIndex(config, b) /\ WorkAt(config, b + 2) = i
  BY <1>1, <1>2, <1>3, ComputeStep, Operations
<1>5. b = i
  <2>1. b \in Int /\ -1 <= b /\ (HideTail(config) => LoopEnd(config) = config.degree - 1)
    BY <1>2, Indices, ConfigFacts
  <2>2. CASE b = -1
    BY <1>3, <1>4, <2>2 DEF WorkAt, IsLast
  <2>3. CASE b # -1
    <3>1. b + 2 # 1 /\ (HideTail(config) => b + 2 <= config.degree) /\ (b + 2) - 2 = b
      BY <1>3, <1>4, <2>1, <2>3
    <3>2. QED
      BY <1>4, <3>1 DEF WorkAt
  <2>4. QED
    BY <2>2, <2>3
<1>6. QED
  BY <1>1, <1>2, <1>3, <1>4, <1>5

LEMMA InvComputeAfterCollectives == Inv => ComputeAfterCollectives
<1> SUFFICES ASSUME Inv, NEW r \in Ranks, NEW s \in Streams, busy[r], NEW i \in 1 .. Len(queue[r][s])
             PROVE  queue[r][s][i] \in started[r]
  BY DEF ComputeAfterCollectives
<1>1. Types /\ Holds(r) /\ InPlace(r) /\ ~Returned(r) /\ Step(r).op = "compute"
  BY DEF Inv, Holds, InPlace
<1>2. config \in Configs /\ Position(config, at[r][1], at[r][2])
      /\ Steps(config, at[r][1])[at[r][2]].op = "compute"
  BY <1>1, AtPosition
<1>3. Launched(r) \subseteq SyncedBy(config, at[r][1], at[r][2])
  BY <1>2, ComputingIsSynced DEF Launched
<1>4. SyncedBy(config, at[r][1], at[r][2]) \subseteq started[r] /\ queue[r][s][i] \in Launched(r)
  BY <1>1 DEF Holds, BarriersHold, QueuesInOrder
<1>5. QED
  BY <1>3, <1>4

LEMMA InvStagesReadFinishedData == Inv => StagesReadFinishedData
<1> SUFFICES ASSUME Inv, NEW r \in Ranks, NEW i \in Remote(config)
             PROVE  /\ Computing(r, i) /\ ~(HideTail(config) /\ IsLast(config, i))
                         => Fetch(config, i) \subseteq finished[r]
                    /\ (Reduce(config, i) \cap started[r] # {})
                         => \E j \in 1 .. Len(computed[r]) : computed[r][j] = i
  BY DEF StagesReadFinishedData
<1>1. /\ Types /\ Holds(r) /\ config \in Configs
      /\ config.degree \in Nat \ {0} /\ LoopEnd(config) \in Nat
      /\ LoopEnd(config) = IF HideTail(config) THEN config.degree - 1 ELSE config.degree
      /\ i \in Int /\ 0 <= i /\ i < config.degree
  BY ConfigFacts DEF Inv, Types, Remote
<1>2. ASSUME Computing(r, i), ~(HideTail(config) /\ IsLast(config, i)), NEW k \in Fetch(config, i)
      PROVE  k \in finished[r]
  <2>1. /\ Position(config, i, at[r][2]) /\ at[r][1] = i /\ i < LoopEnd(config)
        /\ at[r][2] = ComputeIndex(config, i)
    BY <1>1, <1>2, ComputingStage
  <2>2. at[r][2] > 2
    BY <1>1, <2>1, Indices
  <2>3. k \in Launches(config) /\ k.barrier = "fetch" /\ k.stage = i
    BY <1>1, <1>2, <2>1, StageMembers DEF Launches
  <2>4. k \in WaitedBy(config, at[r][1], at[r][2])
    BY <2>1, <2>2, <2>3 DEF WaitedBy
  <2>5. QED
    BY <1>1, <2>4 DEF Holds, WorksHold
<1>3. ASSUME NEW k \in Reduce(config, i), k \in started[r]
      PROVE  \E j \in 1 .. Len(computed[r]) : computed[r][j] = i
  <2> DEFINE b == at[r][1]
             m == Block(config, k)
  <2>1. k.barrier = "reduce" /\ k.stage = i
    BY <1>1, <1>3, StageMembers
  <2>2. k \in Launched(r) /\ k \in Launches(config) /\ m \in Int /\ m < LoopEnd(config) /\ -1 <= m
    BY <1>1, <1>3, LaunchFacts DEF Holds, QueuesInOrder, Launched, LaunchedBy
  <2>3. m < b /\ b \in Int
    BY <1>1, <2>1, <2>2 DEF Launched, LaunchedBy, Holds, InPlace
  <2>4. m = IF HideTail(config) /\ i + 1 = config.degree THEN -1 ELSE i
    BY <2>1 DEF Block, IsLast, HostStage
  <2>5. WorkAt(config, m + 2) = i
    BY <1>1, <2>2, <2>4 DEF WorkAt
  <2>6. /\ Len(computed[r]) = NumComputed(config, b, at[r][2])
        /\ \A j \in 1 .. Len(computed[r]) : computed[r][j] = WorkAt(config, j)
    BY <1>1 DEF Holds, WorksHold
  <2>7. NumComputed(config, b, at[r][2]) >= m + 2 /\ NumComputed(config, b, at[r][2]) \in Int
    BY <1>1, <2>2, <2>3 DEF NumComputed
  <2>8. m + 2 \in 1 .. Len(computed[r])
    BY <2>2, <2>6, <2>7
  <2>9. QED
    BY <2>5, <2>6, <2>8
<1>4. QED
  BY <1>2, <1>3

\* Of two collectives of a stream that have begun, one has ended.
LEMMA OneRuns ==
  ASSUME Types, NEW r \in Ranks, Holds(r), NEW k \in started[r], NEW l \in started[r],
         StreamOf(config, k) = StreamOf(config, l), k \notin finished[r], l \notin finished[r]
  PROVE  k = l
<1>1. config \in Configs /\ k \in Launches(config) /\ l \in Launches(config) /\ k \in Launched(r) /\ l \in Launched(r)
  BY DEF Types, Holds, QueuesInOrder
<1>2. Time(config, k) \in Int /\ Time(config, l) \in Int
  BY <1>1, CollectiveFacts DEF Launches
<1>3. ~(Time(config, k) < Time(config, l)) /\ ~(Time(config, l) < Time(config, k))
  BY <1>1 DEF Holds, QueuesInOrder
<1>4. QED
  BY <1>1, <1>2, <1>3, OnePerStream

\* The work that the hidden tail waits for is the last dkv reduce to be launched.
LEMMA AwaitedIsLast ==
  ASSUME NEW c \in Configs, HideTail(c)
  PROVE  \E a \in Awaited(c) : /\ a \in Launches(c) /\ a.barrier = "reduce" /\ a.tensor = "kv"
                               /\ \A k \in Launches(c) : k.barrier = "reduce" => Time(c, k) <= Time(c, a)
<1>1. /\ c.degree \in Nat \ {0} /\ LoopEnd(c) = c.degree - 1 /\ c.pass # "forward" /\ HostStage = -1
  BY ConfigFacts DEF HostStage
<1>2. AwaitedStage(c) = IF c.degree = 1 THEN 0 ELSE c.degree - 2
  <2>1. CASE c.degree = 1
    BY <2>1 DEF AwaitedStage
  <2>2. CASE c.degree # 1
    <3>1. \A n \in Nat, d \in Nat \ {0} : n < d => n % d = n
      OBVIOUS
    <3>2. c.degree - 2 \in Nat /\ c.degree - 2 < c.degree
      BY <1>1, <2>2
    <3>3. QED
      BY <1>1, <2>2, <3>1, <3>2 DEF AwaitedStage
  <2>3. QED
    BY <2>1, <2>2
<1> DEFINE a == Collective("reduce", "kv", AwaitedStage(c))
<1>3. a.barrier = "reduce" /\ a.tensor = "kv" /\ a.stage = AwaitedStage(c)
  BY DEF Collective
<1>4. AwaitedStage(c) \in Remote(c)
  BY <1>1, <1>2 DEF Remote
<1>5. a \in Reduce(c, AwaitedStage(c))
  BY <1>1 DEF Reduce
<1>6. a \in Launches(c) /\ a \in Awaited(c)
  BY <1>3, <1>4, <1>5, StageMembers DEF Launches, Awaited
<1>7. Block(c, a) = LoopEnd(c) - 1
  BY <1>1, <1>2, <1>3 DEF Block, IsLast
<1>8. ASSUME NEW k \in Launches(c), k.barrier = "reduce" PROVE Time(c, k) <= Time(c, a)
  <2>1. Block(c, k) \in Int /\ Block(c, k) <= Block(c, a) /\ Block(c, a) \in Int
    BY <1>1, <1>7, LaunchFacts
  <2>2. QED
    BY <1>3, <1>8, <2>1 DEF Time
<1>9. QED
  BY <1>3, <1>6, <1>8

LEMMA InvGradientsHaveOneWriter == Inv => GradientsHaveOneWriter
<1> SUFFICES ASSUME Inv, NEW r \in Ranks, NEW t \in {"kv", "qo"}
             PROVE  Cardinality({k \in started[r] \ finished[r] : k.barrier = "reduce" /\ k.tensor = t})
                      + (IF t = "kv" /\ Computing(r, GradAdd) THEN 1 ELSE 0) <= 1
  BY DEF GradientsHaveOneWriter
<1> DEFINE W == {k \in started[r] \ finished[r] : k.barrier = "reduce" /\ k.tensor = t}
<1>1. /\ Types /\ Holds(r) /\ config \in Configs /\ QueuesInOrder(r)
      /\ started[r] \subseteq Launches(config) /\ started[r] \subseteq Launched(r)
  BY DEF Inv, Types, Holds, QueuesInOrder
<1>2. \A k, l \in W : StreamOf(config, k) = StreamOf(config, l)
  BY DEF StreamOf
<1>3. \A k, l \in W : k = l
  BY <1>1, <1>2, OneRuns
<1>4. Cardinality(W) \in Nat /\ Cardinality(W) <= 1
  <2>1. CASE W = {}
    <3>1. Cardinality(W) = 0
      BY <2>1, FS_EmptySet
    <3>2. QED
      BY <3>1
  <2>2. CASE W # {}
    <3>1. PICK k : W = {k}
      BY <1>3, <2>2
    <3>2. Cardinality(W) = 1
      BY <3>1, FS_Singleton
    <3>3. QED
      BY <3>2
  <2>3. QED
    BY <2>1, <2>2
<1>5. ASSUME t = "kv", Computing(r, GradAdd) PROVE W = {}
  <2>1. ~Returned(r) /\ Step(r).op = "compute" /\ Step(r).work = GradAdd
    BY <1>1, <1>5 DEF Computing, Holds, InPlace
  <2>2. /\ Position(config, at[r][1], at[r][2]) /\ Step(r) = Steps(config, at[r][1])[at[r][2]]
    BY <1>1, <2>1, AtPosition DEF Holds
  <2>3. WorkAt(config, at[r][1] + 2) # GradAdd \/ ~(at[r][1] < LoopEnd(config))
    BY <1>1, <2>2, Indices, ConfigFacts DEF WorkAt, GradAdd, HostStage
  <2>4. at[r][1] = LoopEnd(config) /\ HideTail(config) /\ at[r][2] = 4
    BY <1>1, <2>1, <2>2, <2>3, ComputeStep, Operations DEF GradAdd, HostStage
  <2>5. PICK a \in Awaited(config) :
          /\ a \in Launches(config) /\ a.barrier = "reduce" /\ a.tensor = "kv"
          /\ \A k \in Launches(config) : k.barrier = "reduce" => Time(config, k) <= Time(config, a)
    BY <1>1, <2>4, AwaitedIsLast
  <2>6. a \in WaitedBy(config, at[r][1], at[r][2])
    BY <1>1, <2>4, <2>5 DEF WaitedBy
  <2>7. a \in finished[r] /\ a \in started[r]
    BY <1>1, <2>6 DEF Holds, WorksHold, QueuesInOrder
  <2>8. ASSUME NEW k \in W PROVE FALSE
    <3>1. k \in Launches(config) /\ k.barrier = "reduce" /\ k \in Launched(r) /\ k \notin finished[r]
      BY <1>1
    <3>2. StreamOf(config, k) = StreamOf(config, a)
      BY <1>5, <2>5 DEF StreamOf
    <3>3. Time(config, k) \in Int /\ Time(config, a) \in Int /\ Time(config, k) <= Time(config, a)
      BY <1>1, <2>5, <3>1, CollectiveFacts DEF Launches
    <3>4. CASE Time(config, k) = Time(config, a)
      BY <1>1, <2>5, <2>7, <3>1, <3>2, <3>4, OnePerStream
    <3>5. CASE Time(config, k) < Time(config, a)
      BY <1>1, <2>7, <3>1, <3>2, <3>5 DEF QueuesInOrder
    <3>6. QED
      BY <3>3, <3>4, <3>5
  <2>9. QED
    BY <2>8
<1> HIDE DEF W
<1>6. CASE t = "kv" /\ Computing(r, GradAdd)
  <2>1. Cardinality(W) = 0
    BY <1>5, <1>6, FS_EmptySet
  <2>2. QED
    BY <1>6, <2>1 DEF W
<1>7. CASE ~(t = "kv" /\ Computing(r, GradAdd))
  BY <1>4, <1>7 DEF W
<1>8. QED
  BY <1>6, <1>7

LEMMA InvResultIsComplete == Inv => ResultIsComplete
<1> SUFFICES ASSUME Inv, NEW r \in Ranks, Returned(r)
             PROVE  /\ {computed[r][i] : i \in 1 .. Len(computed[r])} = Works(config)
                    /\ Len(computed[r]) = Cardinality(Works(config))
                    /\ Reduces(config) \subseteq finished[r]
                    /\ \A s \in Streams : queue[r][s] = <<>>
  BY DEF ResultIsComplete
<1> DEFINE d == config.degree
           low == IF HideTail(config) THEN -2 ELSE -1
<1>1. /\ Types /\ Holds(r) /\ config \in Configs /\ d \in Nat \ {0} /\ LoopEnd(config) \in Nat
      /\ LoopEnd(config) = IF HideTail(config) THEN d - 1 ELSE d
  BY ConfigFacts DEF Inv, Types
<1>2. Launches(config) \subseteq finished[r]
  BY <1>1, ReturnedIsDone
<1>3. Reduces(config) \subseteq finished[r]
  <2>1. ASSUME NEW k \in Reduces(config) PROVE k \in Launches(config)
    <3>1. PICK s \in Remote(config) : k \in Reduce(config, s)
      BY DEF Reduces
    <3>2. QED
      BY <1>1, <3>1, StageMembers DEF Launches
  <2>2. QED
    BY <1>2, <2>1
<1>4. ASSUME NEW s \in Streams PROVE queue[r][s] = <<>>
  <2>1. queue[r][s] \in Seq(Launches(config)) /\ \A i \in 1 .. Len(queue[r][s]) : queue[r][s][i] \notin finished[r]
    BY <1>1 DEF Types, Holds, QueuesInOrder
  <2>2. \A i \in 1 .. Len(queue[r][s]) : queue[r][s][i] \in Launches(config)
    BY <2>1
  <2>3. ~(1 \in 1 .. Len(queue[r][s]))
    BY <1>2, <2>1, <2>2
  <2>4. QED
    BY <2>1, <2>3
<1>5. Works(config) = low .. d - 1
  BY <1>1 DEF Works, Remote, HostStage, GradAdd
<1>6. Cardinality(Works(config)) = d - low
  <2>1. low \in Int /\ d - 1 \in Int /\ low <= d - 1
    BY <1>1
  <2> HIDE DEF low
  <2>2. Cardinality(low .. d - 1) = (d - 1) - low + 1
    BY <2>1, FS_Interval
  <2>3. QED
    BY <1>1, <1>5, <2>1, <2>2
<1>7. Len(computed[r]) = d - low
  <2>1. at[r][1] \in Int /\ at[r][1] > LoopEnd(config)
    BY <1>1 DEF Types, Returned
  <2>2. NumComputed(config, at[r][1], at[r][2]) = d - low
    BY <1>1, <2>1 DEF NumComputed
  <2>3. QED
    BY <1>1, <2>2 DEF Holds, WorksHold
<1>8. \A j \in 1 .. d - low : computed[r][j] = WorkAt(config, j)
  BY <1>1, <1>7 DEF Holds, WorksHold
<1>9. \A j \in 1 .. d - low : WorkAt(config, j) \in low .. d - 1
  BY <1>1 DEF WorkAt, HostStage, GradAdd
<1>10. \A w \in low .. d - 1 : \E j \in 1 .. d - low : WorkAt(config, j) = w
  <2> SUFFICES ASSUME NEW w \in low .. d - 1 PROVE \E j \in 1 .. d - low : WorkAt(config, j) = w
    OBVIOUS
  <2> DEFINE j == IF ~HideTail(config) THEN w + 2
                  ELSE IF w = d - 1 THEN 1
                  ELSE IF w >= 0 THEN w + 2
                  ELSE IF w = -1 THEN d + 1 ELSE d + 2
  <2>1. j \in 1 .. d - low
    BY <1>1
  <2>2. WorkAt(config, j) = w
    BY <1>1 DEF WorkAt, HostStage, GradAdd
  <2>3. QED
    BY <2>1, <2>2
<1> HIDE DEF d, low
<1>11. {computed[r][i] : i \in 1 .. Len(computed[r])} = low .. d - 1
  BY <1>7, <1>8, <1>9, <1>10
<1>12. QED
  BY <1>3, <1>4, <1>5, <1>6, <1>7, <1>11

LEMMA InvPrefetchWaitsForReduce == Inv => PrefetchWaitsForReduce
<1> SUFFICES ASSUME Inv, NEW r \in Ranks, NEW i \in Remote(config), config.pass # "forward",
                    Computing(r, i), ~NoPrefetch(config, i), NEW k \in Reduces(config), k \in started[r]
             PROVE  k \in finished[r]
  BY DEF PrefetchWaitsForReduce
<1>1. Types /\ Holds(r) /\ config \in Configs /\ ~IsLast(config, i)
  BY DEF Inv, Types, NoPrefetch
<1>2. /\ Position(config, i, at[r][2]) /\ at[r][1] = i /\ i < LoopEnd(config) /\ 0 <= i
      /\ at[r][2] = ComputeIndex(config, i) /\ Steps(config, at[r][1])[at[r][2]].op = "compute"
  BY <1>1, ComputingStage
<1>3. Prefetches(config, i) /\ i \in Int /\ FetchIndex(i) = 3 /\ at[r][2] \in Int /\ at[r][2] > 4
  BY <1>1, <1>2, BlockFacts, Indices DEF HostStage
<1>4. PICK s \in Remote(config) : k \in Reduce(config, s)
  BY DEF Reduces
<1>5. k \in Collectives(config) /\ k.barrier = "reduce" /\ k.tensor \in {"kv", "qo"} /\ (k.tensor = "qo" => config.qo)
  <2>1. k \in Collectives(config) /\ k.barrier = "reduce"
    BY <1>1, <1>4, StageMembers
  <2>2. QED
    BY <1>1, <2>1, CollectiveFacts
<1> DEFINE f == Collective("fetch", k.tensor, i + 1)
<1>6. f \in Fetch(config, i + 1) /\ f.barrier = "fetch" /\ f.tensor = k.tensor /\ f.stage = i + 1
  BY <1>5 DEF Fetch, Collective
<1>7. f \in Launches(config) /\ Block(config, f) = i
  <2>1. f \in {l \in Launches(config) : l.barrier = "fetch" /\ Block(config, l) = i}
    BY <1>1, <1>2, <1>3, <1>6, FetchOfBlock DEF HostStage
  <2>2. QED
    BY <2>1
<1> HIDE DEF f
<1>8. f \in started[r]
  <2>1. f \in SyncedBy(config, i, at[r][2])
    BY <1>3, <1>6, <1>7 DEF SyncedBy
  <2>2. QED
    BY <1>1, <1>2, <2>1 DEF Holds, BarriersHold
<1>9. k \in Launched(r) /\ k \in Launches(config) /\ Block(config, k) < i /\ Block(config, k) \in Int
  <2>1. k \in Launched(r)
    BY <1>1 DEF Holds, QueuesInOrder
  <2>2. k \in Launches(config) /\ Block(config, k) < i
    BY <1>2, <1>5, <2>1 DEF Launched, LaunchedBy
  <2>3. QED
    BY <1>1, <2>1, <2>2, LaunchFacts
<1>10. StreamOf(config, k) = StreamOf(config, f)
  BY <1>6 DEF StreamOf
<1>11. Time(config, k) < Time(config, f)
  BY <1>3, <1>5, <1>6, <1>7, <1>9 DEF Time
<1>12. QED
  BY <1>1, <1>8, <1>9, <1>10, <1>11 DEF Holds, QueuesInOrder

LEMMA InvTypeOK == Inv => TypeOK
<1> SUFFICES ASSUME Inv PROVE TypeOK
  OBVIOUS
<1>1. Types /\ config \in Configs /\ config.degree \in Nat \ {0} /\ LoopEnd(config) \in Nat
      /\ LoopEnd(config) = IF HideTail(config) THEN config.degree - 1 ELSE config.degree
  BY ConfigFacts DEF Inv, Types
<1>2. Launches(config) \subseteq Collectives(config)
  BY DEF Launches
<1>3. ASSUME NEW r \in Ranks
      PROVE  /\ at[r][1] \in HostStage .. LoopEnd(config) + 1 /\ at[r][2] \in Nat \ {0}
             /\ busy[r] \in BOOLEAN
             /\ \A b \in Barriers : count[r][b] \in Nat
             /\ \A s \in Streams : queue[r][s] \in Seq(Collectives(config))
             /\ finished[r] \subseteq started[r] /\ started[r] \subseteq reached[r]
             /\ reached[r] \subseteq Collectives(config)
             /\ computed[r] \in Seq(Works(config))
  <2>1. Holds(r)
    BY DEF Inv
  <2>2. at[r][1] \in HostStage .. LoopEnd(config) + 1 /\ at[r][2] \in Nat \ {0} /\ at[r][1] \in Int
        /\ HostStage = -1 /\ GradAdd = -2
    BY <1>1, <2>1 DEF Holds, InPlace, HostStage, GradAdd, Types
  <2>3. /\ busy[r] \in BOOLEAN /\ \A b \in Barriers : count[r][b] \in Nat
        /\ finished[r] \subseteq started[r] /\ started[r] \subseteq reached[r]
        /\ reached[r] \subseteq Collectives(config)
    BY <1>1, <1>2, <2>1 DEF Types, Holds, QueuesInOrder
  <2>4. ASSUME NEW s \in Streams PROVE queue[r][s] \in Seq(Collectives(config))
    <3>1. queue[r][s] \in Seq(Launches(config))
      BY <1>1 DEF Types
    <3>2. \A i \in 1 .. Len(queue[r][s]) : queue[r][s][i] \in Collectives(config)
      BY <1>2, <3>1
    <3>3. QED
      BY <3>1, <3>2
  <2>5. computed[r] \in Seq(Works(config))
    <3>1. /\ computed[r] \in Seq(Int) /\ Len(computed[r]) = NumComputed(config, at[r][1], at[r][2])
          /\ \A j \in 1 .. Len(computed[r]) : computed[r][j] = WorkAt(config, j)
      BY <1>1, <2>1 DEF Types, Holds, WorksHold
    <3>2. NumComputed(config, at[r][1], at[r][2]) <= config.degree + (IF HideTail(config) THEN 2 ELSE 1)
      BY <1>1, <2>2 DEF NumComputed
    <3>3. \A j \in Nat : 1 <= j /\ j <= config.degree + (IF HideTail(config) THEN 2 ELSE 1)
                           => WorkAt(config, j) \in Works(config)
      BY <1>1, <2>2 DEF WorkAt, Works, Remote
    <3>4. \A j \in 1 .. Len(computed[r]) : computed[r][j] \in Works(config)
      BY <1>1, <2>2, <3>1, <3>2, <3>3
    <3>5. QED
      BY <3>1, <3>4
  <2>6. QED
    BY <2>2, <2>3, <2>4, <2>5
<1>4. QED
  BY <1>1, <1>3 DEF TypeOK

\* TypeOK holds in every state, for every set of ranks and every overlap degree.
THEOREM TypeCorrect == Spec => []TypeOK
<1>1. QED
  BY Invariance, InvTypeOK, PTL

\* NoArrivalIsLeft: a counter never exceeds what its wait_kernel waits for.
THEOREM CountersFit == Spec => []NoArrivalIsLeft
<1>1. Inv => NoArrivalIsLeft
  BY DEF Inv, Holds, BarriersHold, NoArrivalIsLeft
<1>2. QED
  BY <1>1, Invariance, PTL

\* ComputeAfterCollectives: when an FFA runs, every collective the host launched
\* before it holds its SMs already, in all three passes.
THEOREM OverlapIsOrdered == Spec => []ComputeAfterCollectives
<1>1. QED
  BY Invariance, InvComputeAfterCollectives, PTL

\* StagesReadFinishedData: no stage reads data that is still being fetched, and no
\* partial result is sent before it is computed.
THEOREM StagesAreFed == Spec => []StagesReadFinishedData
<1>1. QED
  BY Invariance, InvStagesReadFinishedData, PTL

\* GradientsHaveOneWriter: no two reduces, and no reduce and the addition of the
\* host stage's part, accumulate into the same gradient at once.
THEOREM OneWriter == Spec => []GradientsHaveOneWriter
<1>1. QED
  BY Invariance, InvGradientsHaveOneWriter, PTL

\* ResultIsComplete: a pass that returns has computed every stage once, reduced
\* every partial result, and left nothing running.
THEOREM CompleteResult == Spec => []ResultIsComplete
<1>1. QED
  BY Invariance, InvResultIsComplete, PTL

\* PrefetchWaitsForReduce: in backward a stage that prefetches is computed only
\* after every reduce that began has ended.
THEOREM PrefetchIsLate == Spec => []PrefetchWaitsForReduce
<1>1. QED
  BY Invariance, InvPrefetchWaitsForReduce, PTL
===============================================================================
