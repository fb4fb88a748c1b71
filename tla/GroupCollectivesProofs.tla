------------------------ MODULE GroupCollectivesProofs ------------------------
(***************************************************************************)
(* Proofs about sequences of group collectives over one buffer, for every    *)
(* number of ranks and collectives, every plan of kinds and all counts.      *)
(***************************************************************************)
EXTENDS GroupCollectives, FiniteSetTheorems, TLAPS

Pcs == {"idle", "barrier1", "rows", "barrier2", "sums", "count", "clear", "barrier3",
        "notified", "main"}
QueuePcs == {"offsets", "token", "done"}

\* What the argument needs to know of the types of the streams.
StreamTypes ==
  /\ plan \in [Colls -> Kinds]
  /\ coll \in [Ranks -> 1 .. NumColls + 1]
  /\ pc \in [Ranks -> Pcs]
  /\ entered \in [Ranks -> Nat]
  /\ phase \in [Ranks -> {"outside", "inside"}]
  /\ rows \in [Ranks -> SUBSET Ranks]

\* A stream is inside a collective except when it is idle, inside the barrier only
\* at a barrier; only a notify counts, and from barrier 2 on its rows are written.
PcFits ==
  \A r \in Ranks :
    /\ pc[r] # "idle" => coll[r] \in Colls
    /\ pc[r] \in {"rows", "barrier2", "sums", "count"} => Running(r) \in NotifyKinds
    /\ pc[r] = "count" => Running(r) = "count"
    /\ phase[r] = "inside" => AtBarrier(r)
    /\ pc[r] = "barrier1" => rows[r] = Ranks
    /\ pc[r] \in {"barrier2", "sums", "count"} => rows[r] = {}
    /\ pc[r] \in {"clear", "barrier3"} /\ Running(r) \in NotifyKinds => rows[r] = {}

\* The barriers cut a collective into segments; the main kernel and the start of
\* the next collective are one segment.
SegmentOf(c, step) ==
  3 * c + CASE step \in {"idle", "barrier1"} -> 0
            [] step \in {"rows", "barrier2"} -> 1
            [] step \in {"sums", "count", "clear", "barrier3"} -> 2
            [] OTHER -> 3
Segment(r) == SegmentOf(coll[r], pc[r])
NextSegment(r) == SegmentOf(coll[r], AfterBarrier(r))

\* The barrier calls that have returned.
Left(r) == IF phase[r] = "inside" THEN entered[r] - 1 ELSE entered[r]

\* Rank r is inside the barrier that s has left last.
Behind(r, s) == phase[r] = "inside" /\ Segment(s) = NextSegment(r) /\ Left(s) = Left(r) + 1

\* Two ranks are in one segment, or one is inside the barrier between theirs.
Together ==
  \A r, s \in Ranks : \/ Segment(r) = Segment(s) /\ Left(r) = Left(s)
                      \/ Behind(r, s) \/ Behind(s, r)

StreamInv == StreamTypes /\ PcFits /\ Together

-----------------------------------------------------------------------------
(* The memory of a rank.                                                   *)

\* The metadata of the collective that r runs has been zeroed.
Cleaned(r) == pc[r] \in {"barrier3", "notified", "main"}

MemoryTypes ==
  /\ \A h \in Colls : sent[h] \in [Ranks -> [Ranks -> {0, 1}]]
  /\ NumColls > 0 => plan[1] \in NotifyKinds
  /\ mem = [r \in Ranks |-> [w \in Words |-> mem[r][w]]]
  /\ saved = [r \in Ranks |-> [w \in PrefixWords |-> saved[r][w]]]
  /\ got = [r \in Ranks |-> [s \in Ranks |-> got[r][s]]]
  /\ send \in [Ranks -> [Ranks -> QueuePcs]]
  /\ recv \in [Ranks -> [Ranks -> QueuePcs]]

\* Rank s has written its row of counts to r, which has not summed the rows yet.
RowWritten(s, r) ==
  /\ pc[s] \in {"rows", "barrier2", "sums", "count", "clear", "barrier3"} /\ r \notin rows[s]
  /\ pc[r] \in {"barrier1", "rows", "barrier2", "sums"}
  /\ coll[s] = coll[r]

RowsInPlace ==
  \A r, s \in Ranks : RowWritten(s, r) =>
    \A j \in Ranks : Value(r, Prefix(s, j)) = NumSent(coll[r], s, j)

\* From the sums, or from the restored matrix of a cached handle, to the end of
\* the main kernel of a cast the matrix in the buffer is true.
HasSums(r) ==
  \/ pc[r] \in {"count", "clear"} /\ Running(r) \in NotifyKinds
  \/ Cleaned(r) /\ Running(r) \in CastKinds

SumsInPlace ==
  \A r \in Ranks : HasSums(r) =>
    \A i, j \in Ranks : Value(r, Prefix(i, j)) = TruePrefix(coll[r], i, j)

\* The matrix kept with the handle is that of the last collective that has saved.
LastSaved(r) == IF Cleaned(r) THEN coll[r] ELSE coll[r] - 1

HandleIsTrue ==
  \A r \in Ranks : LastSaved(r) > 0 =>
    \A i, j \in Ranks : saved[r][Prefix(i, j)] = TruePrefix(LastSaved(r), i, j)

MetadataZeroed ==
  \A r \in Ranks : Cleaned(r) =>
    \A w \in MetaWords(Running(r)) : Value(r, w) = 0 \/ Writer(r, w) = coll[r]

\* A coded offset is zero or what the source announces.
OffsetsTrue ==
  \A r, s \in Ranks : Cleaned(r) /\ Running(r) \in CastKinds =>
    /\ Value(r, Start(s)) \in {0, Announce(0)}
    /\ Value(r, End(s)) \in {0, Announce(Flow(coll[r], s, r))}

\* A tail tells that the token was sent, and a token that was sent is there.
Sent(s, r) == HasSent(s, r, coll[r]) /\ Flow(coll[r], s, r) > 0

TailsTrue ==
  \A r, s \in Ranks : Cleaned(r) /\ Value(r, Tail(Running(r), s)) # 0 => Sent(s, r)

TokensInPlace ==
  \A r, s \in Ranks : Cleaned(r) /\ Sent(s, r) =>
    /\ mem[r][Tail(Running(r), s)] = <<coll[r], 1>>
    /\ \A w \in SlotOf(Running(r), s) : mem[r][w] = <<coll[r], s + 1>>

\* The warps of a main kernel.
QueuesFit ==
  \A r, s \in Ranks : pc[r] = "main" =>
    /\ send[r][s] = "offsets" => Running(r) \in CastKinds
    /\ send[r][s] = "token" => Flow(coll[r], r, s) > 0
    /\ recv[r][s] = "offsets" => Running(r) \in CastKinds
    /\ recv[r][s] = "token" => Flow(coll[r], s, r) > 0
    /\ got[r][s] = IF recv[r][s] = "done" /\ Flow(coll[r], s, r) > 0
                   THEN <<coll[r], s + 1>> ELSE Garbage

-----------------------------------------------------------------------------
(* The hosts.                                                              *)

HostTypes ==
  /\ hostColl \in [Ranks -> 1 .. NumColls + 1]
  /\ hostPc \in [Ranks -> {"notify", "await", "main"}]
  /\ launched = [r \in Ranks |-> 2 * (hostColl[r] - 1) + IF hostPc[r] = "notify" THEN 0 ELSE 1]
  /\ counter = [r \in Ranks |-> counter[r]]
  /\ recvCount = [r \in Ranks |-> recvCount[r]]

\* A stream only runs what the host has launched.
HostAhead ==
  \A r \in Ranks :
    /\ hostPc[r] # "notify" => hostColl[r] \in Colls
    /\ pc[r] # "idle" => launched[r] >= 2 * coll[r] - 1
    /\ pc[r] = "main" => launched[r] >= 2 * coll[r]
    /\ coll[r] <= hostColl[r]

\* The stream has told the host the count of collective c.
Told(r, c) ==
  coll[r] > c \/ (coll[r] = c /\ pc[r] \in {"clear", "barrier3", "notified", "main"})

\* A host that needs a count has gone on only after the stream has told it.
HostWaits ==
  \A r \in Ranks, c \in Colls :
    plan[c] = "count" /\ (hostColl[r] > c \/ (hostColl[r] = c /\ hostPc[r] = "main")) => Told(r, c)

\* The counter is reset, or holds the count of the collective the host waits in.
CounterTrue ==
  \A r \in Ranks : hostPc[r] = "await" =>
    /\ Kind(r) = "count"
    /\ counter[r] = IF Told(r, hostColl[r]) THEN TruePrefix(hostColl[r], NumRanks - 1, r) ELSE -1

HostInv == HostTypes /\ HostAhead /\ HostWaits /\ CounterTrue /\ RecvCountIsRight

MemoryInv ==
  /\ MemoryTypes /\ RowsInPlace /\ SumsInPlace /\ HandleIsTrue /\ MetadataZeroed
  /\ OffsetsTrue /\ TailsTrue /\ TokensInPlace /\ QueuesFit

IInv == StreamInv /\ MemoryInv /\ HostInv

-----------------------------------------------------------------------------
(* The streams.                                                            *)

\* A step within a segment, outside the barrier, keeps the ranks together.
LEMMA SameSegment ==
  ASSUME StreamTypes, PcFits, Together, NEW r \in Ranks,
         plan' = plan, entered' = entered, phase' = phase,
         pc' = [pc EXCEPT ![r] = pc'[r]], coll' = [coll EXCEPT ![r] = coll'[r]],
         Segment(r)' = Segment(r),
         phase[r] = "inside" => UNCHANGED <<coll, pc>>
  PROVE  Together'
<1>1. \A q \in Ranks : Segment(q)' = Segment(q) /\ Left(q)' = Left(q)
  BY DEF StreamTypes, Segment, Left
<1>2. \A q \in Ranks : phase[q] = "inside" => NextSegment(q)' = NextSegment(q)
  BY DEF StreamTypes, NextSegment, AfterBarrier, Running
<1>3. \A p, q \in Ranks : Behind(p, q) => Behind(p, q)'
  BY <1>1, <1>2 DEF Behind
<1>4. QED
  BY <1>1, <1>3 DEF Together

LEMMA StartNotifyStream ==
  ASSUME StreamInv, NEW r \in Ranks, StartNotify(r)
  PROVE  StreamInv'
<1> USE DEF StreamInv
<1>1. /\ plan' = plan /\ entered' = entered /\ phase' = phase /\ coll' = coll
      /\ pc[r] = "idle" /\ pc' = [pc EXCEPT ![r] = "barrier1"] /\ coll[r] \in Colls
      /\ rows' = [rows EXCEPT ![r] = Ranks]
  BY SizesAssumption DEF StartNotify, Goto, FirstStep, StreamTypes, Colls, inputs, hostVars, barrierVars
<1>2. StreamTypes'
  BY <1>1 DEF StreamTypes, Pcs
<1>3. PcFits'
  BY <1>1 DEF StreamTypes, PcFits, Running, AtBarrier
<1>4. Together'
  <2>1. Segment(r)' = Segment(r)
    BY <1>1 DEF Segment, SegmentOf, StreamTypes
  <2>2. phase[r] # "inside"
    BY <1>1 DEF PcFits, AtBarrier
  <2>3. pc' = [pc EXCEPT ![r] = pc'[r]] /\ coll' = [coll EXCEPT ![r] = coll'[r]]
    BY <1>1 DEF StreamTypes
  <2>4. QED
    BY <1>1, <2>1, <2>2, <2>3, SameSegment
<1>5. QED
  BY <1>2, <1>3, <1>4

LEMMA EnterBarrierStream ==
  ASSUME StreamInv, NEW r \in Ranks, EnterBarrier(r)
  PROVE  StreamInv'
<1> USE DEF StreamInv
<1>1. /\ plan' = plan /\ coll' = coll /\ pc' = pc /\ rows' = rows
      /\ AtBarrier(r) /\ phase[r] = "outside"
      /\ entered' = [entered EXCEPT ![r] = @ + 1]
      /\ phase' = [phase EXCEPT ![r] = "inside"]
  BY DEF EnterBarrier, Meeting!Enter, inputs
<1>2. StreamTypes'
  BY <1>1 DEF StreamTypes
<1>3. PcFits'
  BY <1>1 DEF StreamTypes, PcFits, Running, AtBarrier
<1>4. Together'
  <2>1. \A q \in Ranks : Segment(q)' = Segment(q) /\ Left(q)' = Left(q) /\ Left(q) \in Int
    BY <1>1 DEF StreamTypes, Segment, Left
  <2>2. \A q \in Ranks : NextSegment(q)' = NextSegment(q)
    BY <1>1 DEF NextSegment, AfterBarrier, Running
  <2>3. \A p, q \in Ranks : Behind(p, q) => Behind(p, q)'
    BY <1>1, <2>1, <2>2 DEF Behind, StreamTypes
  <2>4. QED
    BY <2>1, <2>3 DEF Together
<1>5. QED
  BY <1>2, <1>3, <1>4

LEMMA SegmentType ==
  ASSUME StreamTypes, NEW r \in Ranks
  PROVE  Segment(r) \in Int /\ NextSegment(r) \in Int /\ Left(r) \in Int /\ coll[r] \in Int
<1>1. coll[r] \in Int /\ entered[r] \in Int
  BY SizesAssumption DEF StreamTypes
<1>2. QED
  BY <1>1 DEF Segment, NextSegment, SegmentOf, Left

\* To leave the barrier is to go on to the next segment.
LEMMA LeaveBarrierStream ==
  ASSUME StreamInv, NEW r \in Ranks, LeaveBarrier(r)
  PROVE  StreamInv'
<1> USE DEF StreamInv
<1>1. /\ plan' = plan /\ coll' = coll /\ rows' = rows /\ entered' = entered
      /\ AtBarrier(r) /\ phase[r] = "inside"
      /\ phase' = [phase EXCEPT ![r] = "outside"]
      /\ pc' = [pc EXCEPT ![r] = AfterBarrier(r)]
      /\ \A q \in Ranks : entered[q] >= entered[r]
  BY DEF LeaveBarrier, Meeting!Leave, inputs, Goto
<1>2. \/ pc[r] = "barrier1" /\ AfterBarrier(r) = "rows" /\ Running(r) \in NotifyKinds
      \/ pc[r] = "barrier1" /\ AfterBarrier(r) = "clear" /\ Running(r) \notin NotifyKinds
      \/ pc[r] = "barrier2" /\ AfterBarrier(r) = "sums" /\ Running(r) \in NotifyKinds
      \/ pc[r] = "barrier3" /\ AfterBarrier(r) = "notified"
  BY <1>1 DEF AtBarrier, AfterBarrier, PcFits
<1>3. StreamTypes'
  BY <1>1, <1>2 DEF StreamTypes, Pcs
<1>4. PcFits'
  BY <1>1, <1>2 DEF StreamTypes, PcFits, Running, AtBarrier
<1>5. Together'
  <2>1. /\ Segment(r)' = NextSegment(r)
        /\ Left(r)' = Left(r) + 1
    BY <1>1, SizesAssumption DEF StreamTypes, Segment, NextSegment, Left
  <2>2. \A q \in Ranks \ {r} : /\ Segment(q)' = Segment(q) /\ NextSegment(q)' = NextSegment(q)
                               /\ Left(q)' = Left(q) /\ phase'[q] = phase[q]
    BY <1>1 DEF StreamTypes, Segment, NextSegment, AfterBarrier, Running, Left
  <2>3. ASSUME NEW q \in Ranks \ {r}
        PROVE  (Segment(r)' = Segment(q)' /\ Left(r)' = Left(q)') \/ Behind(q, r)'
    <3>1. \/ Segment(r) = Segment(q) /\ Left(r) = Left(q)
          \/ Behind(r, q) \/ Behind(q, r)
      BY DEF Together
    <3>2. Left(r) \in Int /\ Left(q) \in Int /\ Left(r) = entered[r] - 1
      BY <1>1, SegmentType DEF Left
    <3>3. entered[q] >= entered[r] /\ entered[q] \in Int /\ entered[r] \in Int
      BY <1>1 DEF StreamTypes
    <3>4. ~Behind(q, r)
      BY <3>2, <3>3 DEF Behind, Left
    <3>5. CASE Behind(r, q)
      BY <2>1, <2>2, <3>5 DEF Behind
    <3>6. CASE Segment(r) = Segment(q) /\ Left(r) = Left(q)
      <4>1. phase[q] = "inside"
        BY <3>2, <3>3, <3>6 DEF Left, StreamTypes
      <4>2. NextSegment(q) = NextSegment(r)
        <5>1. AtBarrier(q)
          BY <4>1 DEF PcFits
        <5>2. QED
          BY <1>1, <3>6, <5>1, SegmentType DEF NextSegment, SegmentOf, AfterBarrier, AtBarrier, Segment, Running, StreamTypes
      <4>3. QED
        BY <2>1, <2>2, <3>6, <4>1, <4>2 DEF Behind
    <3>7. QED
      BY <3>1, <3>4, <3>5, <3>6
  <2>4. \A p, q \in Ranks \ {r} : \/ Segment(p)' = Segment(q)' /\ Left(p)' = Left(q)'
                                  \/ Behind(p, q)' \/ Behind(q, p)'
    BY <2>2 DEF Together, Behind
  <2>5. QED
    BY <2>3, <2>4 DEF Together
<1>6. QED
  BY <1>3, <1>4, <1>5

\* The steps of a kernel between its barriers.
LEMMA KernelStepStream ==
  ASSUME StreamInv, NEW r \in Ranks,
         plan' = plan, coll' = coll, entered' = entered, phase' = phase,
         rows' = rows, NEW step, pc' = [pc EXCEPT ![r] = step],
         \/ pc[r] = "rows" /\ rows[r] = {} /\ step = "barrier2"
         \/ pc[r] = "sums" /\ Running(r) = "count" /\ step = "count"
         \/ pc[r] \in {"sums", "count"} /\ step = "clear"
         \/ pc[r] = "clear" /\ step = "barrier3"
         \/ pc[r] = "notified" /\ step = "main"
  PROVE  StreamInv'
<1> USE DEF StreamInv
<1>1. StreamTypes'
  BY DEF StreamTypes, Pcs
<1>2. phase[r] # "inside"
  BY DEF PcFits, AtBarrier
<1>3. PcFits'
  BY <1>2 DEF StreamTypes, PcFits, Running, AtBarrier, NotifyKinds
<1>4. Together'
  <2>1. Segment(r)' = Segment(r)
    BY DEF Segment, SegmentOf, StreamTypes
  <2>2. pc' = [pc EXCEPT ![r] = pc'[r]] /\ coll' = [coll EXCEPT ![r] = coll'[r]]
    BY DEF StreamTypes
  <2>3. QED
    BY <1>2, <2>1, <2>2, SameSegment
<1>5. QED
  BY <1>1, <1>3, <1>4

LEMMA NotifyStream ==
  ASSUME StreamInv, NEW r \in Ranks, EndRows(r) \/ ColumnSums(r) \/ TellCount(r) \/ Clear(r) \/ StartMain(r)
  PROVE  StreamInv'
<1>1. CASE EndRows(r)
  BY <1>1, KernelStepStream DEF EndRows, Goto, AfterRows, inputs, barrierVars
<1>2. CASE ColumnSums(r)
  <2>1. Running(r) = "count" \/ Running(r) # "count"
    OBVIOUS
  <2>2. QED
    BY <1>2, KernelStepStream DEF ColumnSums, Goto, inputs, barrierVars
<1>3. CASE TellCount(r)
  BY <1>3, KernelStepStream DEF TellCount, Goto, inputs, barrierVars
<1>4. CASE Clear(r)
  BY <1>4, KernelStepStream DEF Clear, Goto, AfterClear, inputs, barrierVars
<1>5. CASE StartMain(r)
  BY <1>5, KernelStepStream DEF StartMain, Goto, inputs, barrierVars
<1>6. QED
  BY <1>1, <1>2, <1>3, <1>4, <1>5

LEMMA WriteRowStream ==
  ASSUME StreamInv, NEW r \in Ranks, NEW d \in Ranks, WriteRow(r, d)
  PROVE  StreamInv'
<1> USE DEF StreamInv
<1>1. /\ UNCHANGED <<plan, coll, pc, entered, phase>>
      /\ pc[r] = "rows" /\ rows' = [rows EXCEPT ![r] = @ \ {d}]
  BY DEF WriteRow, inputs, barrierVars
<1>2. StreamTypes' /\ PcFits'
  BY <1>1 DEF StreamTypes, PcFits, Running, AtBarrier
<1>3. Together'
  <2>1. \A q \in Ranks : /\ Segment(q)' = Segment(q) /\ Left(q)' = Left(q)
                        /\ NextSegment(q)' = NextSegment(q) /\ phase'[q] = phase[q]
    BY <1>1 DEF Segment, NextSegment, AfterBarrier, Running, Left
  <2>2. QED
    BY <2>1 DEF Together, Behind
<1>4. QED
  BY <1>2, <1>3

LEMMA EndMainStream ==
  ASSUME StreamInv, NEW r \in Ranks, EndMain(r)
  PROVE  StreamInv'
<1> USE DEF StreamInv
<1>1. /\ UNCHANGED <<plan, entered, phase, rows>>
      /\ pc[r] = "main" /\ pc' = [pc EXCEPT ![r] = "idle"]
      /\ coll[r] \in Colls /\ coll' = [coll EXCEPT ![r] = @ + 1]
  BY DEF EndMain, Goto, inputs, barrierVars, PcFits
<1>2. StreamTypes'
  BY <1>1, SizesAssumption DEF StreamTypes, Pcs, Colls
<1>3. PcFits'
  BY <1>1 DEF StreamTypes, PcFits, Running, AtBarrier
<1>4. Together'
  <2>1. Segment(r)' = Segment(r)
    BY <1>1, SizesAssumption DEF Segment, SegmentOf, StreamTypes, Colls
  <2>2. phase[r] # "inside"
    BY <1>1 DEF PcFits, AtBarrier
  <2>3. pc' = [pc EXCEPT ![r] = pc'[r]] /\ coll' = [coll EXCEPT ![r] = coll'[r]]
    BY <1>1 DEF StreamTypes
  <2>4. QED
    BY <1>1, <2>1, <2>2, <2>3, SameSegment
<1>5. QED
  BY <1>2, <1>3, <1>4

LEMMA SameStream ==
  ASSUME StreamInv, UNCHANGED <<plan, coll, pc, entered, phase, rows>>
  PROVE  StreamInv'
BY DEF StreamInv, StreamTypes, PcFits, Together, Behind, Segment, NextSegment, AfterBarrier, Running,
       Left, AtBarrier

LEMMA StepStream == StreamInv /\ [Next]_vars => StreamInv'
<1> SUFFICES ASSUME StreamInv, [Next]_vars PROVE StreamInv'
  OBVIOUS
<1>1. CASE Terminated \/ UNCHANGED vars
  BY <1>1, SameStream DEF Terminated, vars, inputs, barrierVars
<1>2. ASSUME NEW r \in Ranks, Host(r) PROVE StreamInv'
  BY <1>2, SameStream DEF Host, LaunchNotify, AwaitCount, LaunchMain, inputs, barrierVars
<1>3. ASSUME NEW r \in Ranks, NEW q \in Ranks, Queue(r, q) PROVE StreamInv'
  BY <1>3, SameStream DEF Queue, SendOffsets, SendToken, RecvOffsets, RecvToken, inputs, barrierVars
<1>4. ASSUME NEW r \in Ranks, NotifyKernel(r) \/ MainKernel(r) PROVE StreamInv'
  BY <1>4, StartNotifyStream, EnterBarrierStream, LeaveBarrierStream, WriteRowStream, NotifyStream,
     EndMainStream DEF NotifyKernel, MainKernel
<1>5. QED
  BY <1>1, <1>2, <1>3, <1>4 DEF Next

LEMMA InitStream == Init => StreamInv
<1> SUFFICES ASSUME Init PROVE StreamInv
  OBVIOUS
<1>1. StreamTypes
  BY SizesAssumption DEF Init, StreamTypes, Pcs
<1>2. PcFits
  BY DEF Init, PcFits, AtBarrier
<1>3. Together
  BY DEF Init, Together, Segment, Left
<1>4. QED
  BY <1>1, <1>2, <1>3 DEF StreamInv

-----------------------------------------------------------------------------
(* The layout of a buffer.                                                 *)

LEMMA Multiples ==
  ASSUME NEW a \in Int, NEW b \in Int, NEW n \in Nat, a < b
  PROVE  a * n \in Int /\ b * n \in Int /\ a * n + n <= b * n
<1>1. b - a - 1 \in Nat
  OBVIOUS
<1>2. \A d \in Nat : d * n >= 0
  OBVIOUS
<1>3. (b - a - 1) * n >= 0
  BY <1>1, <1>2
<1>4. QED
  BY <1>3

LEMMA Quotient ==
  ASSUME NEW i \in Nat, NEW j \in Nat, NEW n \in Nat \ {0}, j < n
  PROVE  (i * n + j) \div n = i /\ (i * n + j) % n = j
OBVIOUS

LEMMA PrefixIndex ==
  ASSUME NEW i \in Ranks, NEW j \in Ranks
  PROVE  /\ Prefix(i, j) \in PrefixWords
         /\ Prefix(i, j) \div NumRanks = i /\ Prefix(i, j) % NumRanks = j
         /\ Prefix(i, j) - i * NumRanks = j
<1>1. i \in Nat /\ j \in Nat /\ i < NumRanks /\ j < NumRanks /\ NumRanks \in Nat \ {0}
  BY SizesAssumption DEF Ranks
<1>2. i * NumRanks \in Nat /\ NumRanks * NumRanks \in Int
  BY <1>1
<1>3. i * NumRanks + NumRanks <= NumRanks * NumRanks
  BY <1>1, Multiples
<1>4. Prefix(i, j) \in PrefixWords
  BY <1>1, <1>2, <1>3 DEF Prefix, PrefixWords
<1>5. Prefix(i, j) \div NumRanks = i /\ Prefix(i, j) % NumRanks = j
  BY <1>1, Quotient DEF Prefix
<1>6. Prefix(i, j) - i * NumRanks = j
  BY <1>1, <1>2 DEF Prefix
<1>7. QED
  BY <1>4, <1>5, <1>6

LEMMA Sizes ==
  /\ CastBase \in Nat /\ NumRanks \in Nat \ {0} /\ SlotWords \in Nat \ {0}
  /\ NumRanks <= CastBase
  /\ NumRanks * SlotWords \in Nat
<1>1. CastBase \in Nat /\ NumRanks \in Nat \ {0} /\ SlotWords \in Nat \ {0}
  BY SizesAssumption DEF CastBase
<1>2. NumRanks <= CastBase
  BY <1>1, SizesAssumption DEF CastBase
<1>3. NumRanks * SlotWords \in Nat
  BY <1>1
<1>4. QED
  BY <1>1, <1>2, <1>3

LEMMA KindCases ==
  /\ \A kind \in CastKinds : MetaBase(kind) = CastBase + 2 * NumRanks /\ ~IsReduce(kind)
  /\ \A kind \in Kinds \ CastKinds : MetaBase(kind) = 0 /\ IsReduce(kind) /\ kind = "reduce"
  /\ NotifyKinds \subseteq CastKinds /\ CastKinds \subseteq Kinds
BY DEF Kinds, CastKinds, NotifyKinds, MetaBase, IsReduce

LEMMA ClearedIsMeta ==
  ASSUME NEW kind \in Kinds
  PROVE  /\ Cleared(kind) = MetaWords(kind) /\ MetaWords(kind) \subseteq Words
         /\ PrefixWords \subseteq Words
         /\ kind \in CastKinds => MetaWords(kind) \cap PrefixWords = {}
<1>1. MetaBase("cached") = CastBase + 2 * NumRanks
  BY KindCases DEF CastKinds
<1>2. CastBase = NumRanks * NumRanks
  BY DEF CastBase
<1>3. CASE kind \in CastKinds
  BY <1>1, <1>2, <1>3, Sizes, KindCases DEF Cleared, MetaWords, DataBase, Words, PrefixWords
<1>4. CASE kind \notin CastKinds
  BY <1>1, <1>2, <1>4, Sizes, KindCases DEF Cleared, MetaWords, DataBase, Words, PrefixWords
<1>5. QED
  BY <1>3, <1>4

LEMMA MetaLayout ==
  ASSUME NEW kind \in Kinds, NEW s \in Ranks, NEW q \in Ranks
  PROVE  /\ Head(kind, s) \in MetaWords(kind) /\ Tail(kind, s) \in MetaWords(kind)
         /\ Head(kind, q) # Tail(kind, s)
         /\ s # q => Tail(kind, s) # Tail(kind, q)
         /\ kind \in CastKinds =>
              /\ Start(s) \in MetaWords(kind) /\ End(s) \in MetaWords(kind)
              /\ Start(s) # End(q) /\ (s # q => Start(s) # Start(q) /\ End(s) # End(q))
              /\ \A w \in {Head(kind, q), Tail(kind, q)} : w # Start(s) /\ w # End(s)
<1>1. s \in 0 .. NumRanks - 1 /\ q \in 0 .. NumRanks - 1
  BY DEF Ranks
<1>2. CASE kind \in CastKinds
  BY <1>1, <1>2, Sizes, KindCases DEF Head, Tail, Start, End, MetaWords, DataBase
<1>3. CASE kind \notin CastKinds
  BY <1>1, <1>3, Sizes, KindCases DEF Head, Tail, MetaWords, DataBase
<1>4. QED
  BY <1>2, <1>3

LEMMA SlotLayout ==
  ASSUME NEW kind \in Kinds, NEW s \in Ranks, NEW q \in Ranks
  PROVE  /\ SlotOf(kind, s) \subseteq Words
         /\ SlotOf(kind, s) \cap MetaWords(kind) = {}
         /\ s # q => SlotOf(kind, s) \cap SlotOf(kind, q) = {}
         /\ DataBase(kind) + s * SlotWords \in SlotOf(kind, s)
         /\ kind \in CastKinds => SlotOf(kind, s) \cap PrefixWords = {}
<1>1. s \in Int /\ q \in Int /\ 0 <= s /\ s < NumRanks /\ 0 <= q /\ q < NumRanks
  BY Sizes DEF Ranks
<1>2. DataBase(kind) \in Int /\ DataBase("cached") \in Int /\ DataBase(kind) >= 0
      /\ DataBase(kind) <= DataBase("cached") /\ (kind \in CastKinds => DataBase(kind) >= CastBase)
  BY Sizes, KindCases DEF DataBase, CastKinds
<1>3. /\ s * SlotWords \in Int /\ 0 <= s * SlotWords
      /\ s * SlotWords + SlotWords <= NumRanks * SlotWords
      /\ (s + 1) * SlotWords = s * SlotWords + SlotWords
      /\ (q + 1) * SlotWords = q * SlotWords + SlotWords
      /\ q * SlotWords \in Int
      /\ s < q => s * SlotWords + SlotWords <= q * SlotWords
      /\ q < s => q * SlotWords + SlotWords <= s * SlotWords
  BY <1>1, Sizes, Multiples
<1>4. SlotOf(kind, s) \subseteq Words /\ SlotOf(kind, s) \cap MetaWords(kind) = {}
  BY <1>2, <1>3, Sizes DEF SlotOf, Words, MetaWords
<1>5. s # q => SlotOf(kind, s) \cap SlotOf(kind, q) = {}
  BY <1>1, <1>2, <1>3, Sizes DEF SlotOf
<1>6. DataBase(kind) + s * SlotWords \in SlotOf(kind, s)
  BY <1>2, <1>3, Sizes DEF SlotOf
<1>7. kind \in CastKinds => SlotOf(kind, s) \cap PrefixWords = {}
  BY <1>2, <1>3, Sizes DEF SlotOf, PrefixWords, CastBase
<1>8. QED
  BY <1>4, <1>5, <1>6, <1>7

-----------------------------------------------------------------------------
(* Where the other ranks are.                                              *)

LEMMA SameColl ==
  ASSUME NEW a \in Int, NEW b \in Int, 3 * a + 3 = 3 * b + 3
  PROVE  a = b
OBVIOUS

LEMMA SegmentIs ==
  ASSUME StreamInv, NEW r \in Ranks
  PROVE  /\ coll[r] \in Int
         /\ pc[r] \in {"idle", "barrier1"} => Segment(r) = 3 * coll[r]
         /\ pc[r] \in {"rows", "barrier2"} => Segment(r) = 3 * coll[r] + 1
         /\ pc[r] \in {"sums", "count", "clear", "barrier3"} => Segment(r) = 3 * coll[r] + 2
         /\ pc[r] \in {"notified", "main"} => Segment(r) = 3 * coll[r] + 3
         /\ phase[r] = "inside" =>
              \/ pc[r] = "barrier1" /\ NextSegment(r) \in {3 * coll[r] + 1, 3 * coll[r] + 2}
              \/ pc[r] = "barrier2" /\ NextSegment(r) = 3 * coll[r] + 2
              \/ pc[r] = "barrier3" /\ NextSegment(r) = 3 * coll[r] + 3
<1>1. coll[r] \in Int /\ pc[r] \in Pcs
  BY SegmentType DEF StreamInv, StreamTypes
<1>2. phase[r] = "inside" => AtBarrier(r)
  BY DEF StreamInv, PcFits
<1>3. /\ pc[r] \in {"idle", "barrier1"} => Segment(r) = 3 * coll[r]
      /\ pc[r] \in {"rows", "barrier2"} => Segment(r) = 3 * coll[r] + 1
      /\ pc[r] \in {"sums", "count", "clear", "barrier3"} => Segment(r) = 3 * coll[r] + 2
      /\ pc[r] \in {"notified", "main"} => Segment(r) = 3 * coll[r] + 3
  BY <1>1 DEF Segment, SegmentOf
<1>4. ASSUME AtBarrier(r)
      PROVE  \/ pc[r] = "barrier1" /\ NextSegment(r) \in {3 * coll[r] + 1, 3 * coll[r] + 2}
             \/ pc[r] = "barrier2" /\ NextSegment(r) = 3 * coll[r] + 2
             \/ pc[r] = "barrier3" /\ NextSegment(r) = 3 * coll[r] + 3
  <2>1. \/ pc[r] = "barrier1" /\ AfterBarrier(r) \in {"rows", "clear"}
        \/ pc[r] = "barrier2" /\ AfterBarrier(r) = "sums"
        \/ pc[r] = "barrier3" /\ AfterBarrier(r) = "notified"
    BY <1>4 DEF AtBarrier, AfterBarrier
  <2>2. QED
    BY <1>1, <2>1 DEF NextSegment, SegmentOf
<1>5. QED
  BY <1>1, <1>2, <1>3, <1>4

\* Two ranks are in one segment, or one waits in the barrier between theirs.
LEMMA Apart ==
  ASSUME StreamInv, NEW r \in Ranks, NEW s \in Ranks
  PROVE  \/ Segment(r) = Segment(s)
         \/ phase[r] = "inside" /\ Segment(s) = NextSegment(r)
         \/ phase[s] = "inside" /\ Segment(r) = NextSegment(s)
BY DEF StreamInv, Together, Behind

\* While r runs a main kernel, its peers have zeroed their metadata for it, or are
\* through with it and have not met r for the next collective.
LEMMA MainMeets ==
  ASSUME StreamInv, NEW r \in Ranks, NEW d \in Ranks, pc[r] = "main"
  PROVE  /\ \/ Cleaned(d) /\ coll[d] = coll[r]
            \/ pc[d] \in {"idle", "barrier1"} /\ coll[d] = coll[r] + 1
         /\ \A s \in Ranks : ~RowWritten(s, d)
<1>1. phase[r] # "inside" /\ Segment(r) = 3 * coll[r] + 3 /\ coll[r] \in Int /\ coll[d] \in Int
  BY SegmentIs DEF StreamInv, PcFits, AtBarrier
<1>2. \/ Cleaned(d) /\ coll[d] = coll[r]
      \/ pc[d] \in {"idle", "barrier1"} /\ coll[d] = coll[r] + 1
  <2>1. pc[d] \in Pcs
    BY DEF StreamInv, StreamTypes
  <2>2. Segment(d) = 3 * coll[r] + 3 \/ (phase[d] = "inside" /\ NextSegment(d) = 3 * coll[r] + 3)
    BY <1>1, Apart
  <2>3. CASE Segment(d) = 3 * coll[r] + 3
    <3>1. ~(Segment(d) = 3 * coll[d] + 1 \/ Segment(d) = 3 * coll[d] + 2)
      BY <1>1, <2>3
    <3>2. /\ pc[d] \in {"idle", "barrier1"} => Segment(d) = 3 * coll[d]
          /\ pc[d] \in {"rows", "barrier2"} => Segment(d) = 3 * coll[d] + 1
          /\ pc[d] \in {"sums", "count", "clear", "barrier3"} => Segment(d) = 3 * coll[d] + 2
          /\ pc[d] \in {"notified", "main"} => Segment(d) = 3 * coll[d] + 3
      BY SegmentIs
    <3>3. pc[d] \in {"idle", "barrier1", "notified", "main"}
      BY <1>1, <2>1, <3>1, <3>2 DEF Pcs
    <3>4. CASE pc[d] \in {"idle", "barrier1"}
      <4>1. 3 * coll[d] = 3 * coll[r] + 3
        BY <1>1, <2>3, <3>2, <3>4
      <4>2. coll[d] = coll[r] + 1
        BY <1>1, <4>1
      <4>3. QED
        BY <3>4, <4>2
    <3>5. CASE pc[d] \in {"notified", "main"}
      <4>1. 3 * coll[d] + 3 = 3 * coll[r] + 3
        BY <1>1, <2>3, <3>2, <3>5
      <4>2. coll[d] = coll[r]
        BY <1>1, <4>1, SameColl
      <4>3. QED
        BY <3>5, <4>2 DEF Cleaned
    <3>6. QED
      BY <3>3, <3>4, <3>5
  <2>4. CASE phase[d] = "inside" /\ NextSegment(d) = 3 * coll[r] + 3
    <3>1. pc[d] = "barrier3" /\ NextSegment(d) = 3 * coll[d] + 3
      BY <1>1, <2>4, SegmentIs
    <3>2. coll[d] = coll[r]
      BY <1>1, <2>4, <3>1, SameColl
    <3>3. QED
      BY <3>1, <3>2 DEF Cleaned
  <2>5. QED
    BY <2>2, <2>3, <2>4
<1>3. ASSUME NEW s \in Ranks, RowWritten(s, d)
      PROVE  FALSE
  <2>1. coll[s] = coll[r] + 1 /\ pc[s] \in {"rows", "barrier2", "sums", "count", "clear", "barrier3"}
    BY <1>2, <1>3 DEF RowWritten, Cleaned
  <2>2. Segment(s) \in {3 * coll[r] + 4, 3 * coll[r] + 5} /\ coll[r] \in Int
    BY <2>1, SegmentIs
  <2>3. QED
    BY <1>1, <2>1, <2>2, Apart, SegmentIs
<1>4. QED
  BY <1>2, <1>3

\* A token can only have been sent to a rank that has zeroed its metadata.
LEMMA SentMeansCleaned ==
  ASSUME StreamInv, NEW r \in Ranks, NEW s \in Ranks, HasSent(s, r, coll[r])
  PROVE  Cleaned(r)
<1>1. coll[r] \in Int /\ coll[s] \in Int /\ pc[r] \in Pcs /\ pc[s] \in Pcs
  BY SegmentIs DEF StreamInv, StreamTypes
<1>2. Segment(s) >= 3 * coll[r] + 3 /\ Segment(s) \in Int
  BY <1>1, SegmentIs DEF HasSent, Pcs
<1>3. CASE Segment(r) = Segment(s)
  BY <1>1, <1>2, <1>3, SegmentIs DEF Pcs, Cleaned
<1>4. CASE phase[r] = "inside" /\ Segment(s) = NextSegment(r)
  BY <1>1, <1>2, <1>4, SegmentIs DEF Cleaned
<1>5. CASE phase[s] = "inside" /\ Segment(r) = NextSegment(s)
  <2>1. NextSegment(s) > Segment(s) /\ NextSegment(s) \in Int
    BY <1>1, <1>5, SegmentIs
  <2>2. QED
    BY <1>1, <1>2, <1>5, <2>1, SegmentIs DEF Pcs
<1>6. QED
  BY <1>3, <1>4, <1>5, Apart

\* While r writes its rows, no peer has summed its matrix or gone on.
LEMMA RowsMeet ==
  ASSUME StreamInv, NEW r \in Ranks, NEW d \in Ranks, pc[r] = "rows"
  PROVE  ~HasSums(d) /\ ~Cleaned(d)
<1>1. phase[r] # "inside" /\ Segment(r) = 3 * coll[r] + 1 /\ coll[r] \in Int
  BY SegmentIs DEF StreamInv, PcFits, AtBarrier
<1>2. pc[d] \notin {"count", "clear", "barrier3", "notified", "main"}
  BY <1>1, Apart, SegmentIs
<1>3. QED
  BY <1>2 DEF HasSums, Cleaned

\* When r sums its matrix, all the rows are there.
LEMMA SumsMeet ==
  ASSUME StreamInv, NEW r \in Ranks, NEW s \in Ranks, pc[r] = "sums"
  PROVE  RowWritten(s, r)
<1>1. phase[r] # "inside" /\ Segment(r) = 3 * coll[r] + 2 /\ coll[r] \in Int /\ Running(r) \in NotifyKinds
  BY SegmentIs DEF StreamInv, PcFits, AtBarrier
<1>2. pc[s] \in Pcs
  BY DEF StreamInv, StreamTypes
<1>3. \/ pc[s] \in {"sums", "count", "clear", "barrier3"} /\ coll[s] = coll[r]
      \/ pc[s] = "barrier2" /\ coll[s] = coll[r]
      \/ phase[s] = "inside" /\ pc[s] = "barrier1" /\ Segment(r) = NextSegment(s)
  BY <1>1, <1>2, Apart, SegmentIs DEF Pcs
<1>4. ~(phase[s] = "inside" /\ pc[s] = "barrier1" /\ Segment(r) = NextSegment(s))
  <2> SUFFICES ASSUME phase[s] = "inside", pc[s] = "barrier1", Segment(r) = NextSegment(s)
               PROVE  FALSE
    OBVIOUS
  <2>1. coll[s] = coll[r]
    <3>1. NextSegment(s) \in {3 * coll[s] + 1, 3 * coll[s] + 2} /\ coll[s] \in Int
      BY SegmentIs
    <3>2. 3 * coll[r] + 2 = 3 * coll[s] + 1 \/ 3 * coll[r] + 2 = 3 * coll[s] + 2
      BY <1>1, <3>1
    <3>3. QED
      BY <1>1, <3>1, <3>2
  <2>2. AfterBarrier(s) = "rows"
    BY <1>1, <2>1 DEF AfterBarrier, Running
  <2>3. NextSegment(s) = 3 * coll[s] + 1
    BY <1>1, <2>1, <2>2 DEF NextSegment, SegmentOf
  <2>4. 3 * coll[r] + 2 = 3 * coll[r] + 1
    BY <1>1, <2>1, <2>3
  <2>5. QED
    BY <1>1, <2>4
<1>5. r \notin rows[s]
  BY <1>1, <1>3, <1>4 DEF StreamInv, PcFits, Running
<1>6. QED
  BY <1>3, <1>4, <1>5 DEF RowWritten

-----------------------------------------------------------------------------
(* The inputs.                                                             *)

LEMMA SameInputs ==
  ASSUME UNCHANGED inputs
  PROVE  \A c, i, j : /\ HandleOf(c)' = HandleOf(c)
                      /\ NumSent(c, i, j)' = NumSent(c, i, j)
                      /\ Flow(c, i, j)' = Flow(c, i, j)
                      /\ TruePrefix(c, i, j)' = TruePrefix(c, i, j)
<1> SUFFICES ASSUME NEW c, NEW i, NEW j
             PROVE  /\ HandleOf(c)' = HandleOf(c)
                    /\ NumSent(c, i, j)' = NumSent(c, i, j)
                    /\ Flow(c, i, j)' = Flow(c, i, j)
                    /\ TruePrefix(c, i, j)' = TruePrefix(c, i, j)
  OBVIOUS
<1>1. plan' = plan /\ sent' = sent
  BY DEF inputs
<1>2. HandleOf(c)' = HandleOf(c)
  BY <1>1 DEF HandleOf
<1>3. \A a, b : NumSent(c, a, b)' = NumSent(c, a, b)
  BY <1>1, <1>2 DEF NumSent
<1>4. Flow(c, i, j)' = Flow(c, i, j)
  BY <1>1, <1>3 DEF Flow
<1>5. TruePrefix(c, i, j)' = TruePrefix(c, i, j)
  BY <1>3 DEF TruePrefix
<1>6. QED
  BY <1>2, <1>3, <1>4, <1>5


\* The handle of a collective is one of the notifies so far; a collective that is
\* no notify uses the handle of the one before.
LEMMA HandleType ==
  ASSUME MemoryTypes, NEW c \in Colls
  PROVE  /\ plan[1] \in NotifyKinds
         /\ HandleOf(c) \in Colls
         /\ plan[c] \notin NotifyKinds => c - 1 \in Colls /\ HandleOf(c) = HandleOf(c - 1)
<1>1. c \in Nat /\ 1 <= c /\ c <= NumColls /\ NumColls \in Nat
  BY SizesAssumption DEF Colls
<1>2. plan[1] \in NotifyKinds
  BY <1>1 DEF MemoryTypes
<1> DEFINE H == {k \in 1 .. c : plan[k] \in NotifyKinds}
<1>3. HandleOf(c) \in Colls
  <2>1. IsFiniteSet(1 .. c) /\ Cardinality(1 .. c) = c
    BY <1>1, FS_Interval
  <2>2. IsFiniteSet(H) /\ Cardinality(H) <= c
    BY <2>1, FS_Subset
  <2>3. 1 \in H
    BY <1>1, <1>2
  <2>4. Cardinality(H) \in Nat /\ Cardinality(H) # 0
    BY <2>2, <2>3, FS_CardinalityType, FS_EmptySet
  <2>5. QED
    BY <1>1, <2>2, <2>4 DEF HandleOf, Colls
<1>4. ASSUME plan[c] \notin NotifyKinds
      PROVE  c - 1 \in Colls /\ HandleOf(c) = HandleOf(c - 1)
  <2>1. c # 1
    BY <1>2, <1>4
  <2>2. c - 1 \in Colls
    BY <1>1, <2>1 DEF Colls
  <2>3. \A k \in Int : k \in 1 .. c <=> k \in 1 .. c - 1 \/ k = c
    BY <1>1, <2>1
  <2>4. H = {k \in 1 .. c - 1 : plan[k] \in NotifyKinds}
    BY <1>4, <2>3
  <2>5. QED
    BY <2>2, <2>4 DEF HandleOf
<1>5. QED
  BY <1>2, <1>3, <1>4

LEMMA FlowType ==
  ASSUME MemoryTypes, NEW c \in Colls, NEW i \in Ranks, NEW j \in Ranks
  PROVE  NumSent(c, i, j) \in {0, 1} /\ Flow(c, i, j) \in {0, 1}
<1>1. \A a, b \in Ranks : NumSent(c, a, b) \in {0, 1}
  BY HandleType DEF MemoryTypes, NumSent
<1>2. QED
  BY <1>1 DEF Flow

LEMMA CachedPrefix ==
  ASSUME MemoryTypes, NEW c \in Colls, plan[c] \notin NotifyKinds
  PROVE  /\ c - 1 \in Colls
         /\ \A i, j : TruePrefix(c, i, j) = TruePrefix(c - 1, i, j)
<1>1. c - 1 \in Colls /\ HandleOf(c) = HandleOf(c - 1)
  BY HandleType
<1>2. \A i, j : NumSent(c, i, j) = NumSent(c - 1, i, j)
  BY <1>1 DEF NumSent
<1>3. QED
  BY <1>1, <1>2 DEF TruePrefix

-----------------------------------------------------------------------------
(* The memory: steps that write no memory.                                 *)

\* A step that leaves the buffers and queues alone and moves no rank into or out of
\* the parts of a collective that the invariant tells apart.
LEMMA QuietStep ==
  ASSUME StreamInv, MemoryInv,
         UNCHANGED <<inputs, coll, saved, queueVars, mem>>,
         \A r \in Ranks : /\ (Cleaned(r)' <=> Cleaned(r))
                          /\ (pc'[r] = "main" <=> pc[r] = "main")
                          /\ HasSums(r)' => HasSums(r)
                          /\ \A s \in Ranks : RowWritten(s, r)' => RowWritten(s, r)
  PROVE  MemoryInv'
<1> USE DEF MemoryInv
<1>1. /\ plan' = plan /\ sent' = sent /\ coll' = coll /\ saved' = saved
      /\ send' = send /\ recv' = recv /\ got' = got /\ mem' = mem
  BY DEF inputs, queueVars
<1>2. \A r \in Ranks : Running(r)' = Running(r)
  BY <1>1 DEF Running
<1>3. \A r, w : Value(r, w)' = Value(r, w) /\ Writer(r, w)' = Writer(r, w)
  BY <1>1 DEF Value, Writer
<1>4. MemoryTypes'
  BY <1>1 DEF MemoryTypes
<1>5. RowsInPlace'
  BY <1>1, <1>3, SameInputs DEF RowsInPlace
<1>6. SumsInPlace'
  BY <1>1, <1>3, SameInputs DEF SumsInPlace
<1>7. HandleIsTrue'
  <2>1. \A r \in Ranks : LastSaved(r)' = LastSaved(r)
    BY <1>1 DEF LastSaved
  <2>2. QED
    BY <1>1, <2>1, SameInputs DEF HandleIsTrue
<1>8. MetadataZeroed'
  BY <1>1, <1>2, <1>3 DEF MetadataZeroed
<1>9. OffsetsTrue'
  BY <1>1, <1>2, <1>3, SameInputs DEF OffsetsTrue
<1>10. \A r, s \in Ranks : Sent(s, r)' = Sent(s, r)
  BY <1>1, SameInputs DEF Sent, HasSent
<1>11. TailsTrue'
  BY <1>1, <1>2, <1>3, <1>10 DEF TailsTrue
<1>12. TokensInPlace'
  BY <1>1, <1>2, <1>10 DEF TokensInPlace
<1>13. QueuesFit'
  BY <1>1, <1>2, SameInputs DEF QueuesFit
<1>14. QED
  BY <1>4, <1>5, <1>6, <1>7, <1>8, <1>9, <1>11, <1>12, <1>13

LEMMA StillMemory ==
  ASSUME StreamInv, MemoryInv, UNCHANGED <<inputs, coll, pc, rows, saved, queueVars, mem>>
  PROVE  MemoryInv'
<1>1. plan' = plan /\ coll' = coll /\ pc' = pc /\ rows' = rows
  BY DEF inputs
<1>2. \A r \in Ranks : /\ (Cleaned(r)' <=> Cleaned(r))
                       /\ (pc'[r] = "main" <=> pc[r] = "main")
                       /\ HasSums(r)' => HasSums(r)
                       /\ \A s \in Ranks : RowWritten(s, r)' => RowWritten(s, r)
  BY <1>1 DEF Cleaned, HasSums, Running, RowWritten
<1>3. QED
  BY <1>2, QuietStep

\* One rank goes on; the conditions of QuietStep need only be shown for it.
LEMMA PcStep ==
  ASSUME StreamInv, MemoryInv, NEW r \in Ranks, NEW step,
         UNCHANGED <<inputs, coll, saved, queueVars, mem>>,
         pc' = [pc EXCEPT ![r] = step],
         \A s \in Ranks \ {r} : rows'[s] = rows[s],
         step \in {"barrier3", "notified", "main"} <=> Cleaned(r),
         step # "main" /\ pc[r] # "main",
         HasSums(r)' => HasSums(r),
         \A s \in Ranks : /\ RowWritten(s, r)' => RowWritten(s, r)
                          /\ RowWritten(r, s)' => RowWritten(r, s)
  PROVE  MemoryInv'
<1>1. plan' = plan /\ coll' = coll
  BY DEF inputs
<1>2. pc \in [Ranks -> Pcs]
  BY DEF StreamInv, StreamTypes
<1>3. \A q \in Ranks \ {r} : pc'[q] = pc[q]
  BY <1>2
<1>4. pc'[r] = step
  BY <1>2
<1>5. \A q \in Ranks : (Cleaned(q)' <=> Cleaned(q)) /\ (pc'[q] = "main" <=> pc[q] = "main")
  <2>1. Cleaned(r)' <=> Cleaned(r)
    BY <1>4 DEF Cleaned
  <2>2. pc'[r] = "main" <=> pc[r] = "main"
    BY <1>4
  <2>3. \A q \in Ranks \ {r} : (Cleaned(q)' <=> Cleaned(q)) /\ (pc'[q] = "main" <=> pc[q] = "main")
    BY <1>3 DEF Cleaned
  <2>4. QED
    BY <2>1, <2>2, <2>3
<1>6. \A q \in Ranks \ {r} : HasSums(q)' => HasSums(q)
  BY <1>1, <1>3 DEF HasSums, Running, Cleaned
<1>7. \A p, q \in Ranks \ {r} : RowWritten(p, q)' => RowWritten(p, q)
  BY <1>1, <1>3 DEF RowWritten
<1>8. QED
  BY <1>5, <1>6, <1>7, QuietStep

\* No peer has written a row for the collective that r only starts.
LEMMA IdleMeets ==
  ASSUME StreamInv, NEW r \in Ranks, NEW s \in Ranks, pc[r] = "idle", coll[s] = coll[r]
  PROVE  pc[s] \in {"idle", "barrier1"}
<1>1. phase[r] # "inside" /\ Segment(r) = 3 * coll[r] /\ coll[r] \in Int
  BY SegmentIs DEF StreamInv, PcFits, AtBarrier
<1>2. pc[s] \in Pcs
  BY DEF StreamInv, StreamTypes
<1>3. QED
  BY <1>1, <1>2, Apart, SegmentIs DEF Pcs

LEMMA StartNotifyMemory ==
  ASSUME StreamInv, MemoryInv, NEW r \in Ranks, StartNotify(r)
  PROVE  MemoryInv'
<1>1. /\ UNCHANGED <<inputs, coll, saved, queueVars, mem>>
      /\ pc[r] = "idle" /\ pc' = [pc EXCEPT ![r] = "barrier1"]
      /\ rows' = [rows EXCEPT ![r] = Ranks] /\ coll' = coll
  BY DEF StartNotify, Goto, FirstStep
<1>2. /\ rows'[r] = Ranks /\ \A s \in Ranks \ {r} : rows'[s] = rows[s]
      /\ pc'[r] = "barrier1" /\ \A s \in Ranks \ {r} : pc'[s] = pc[s]
  BY <1>1 DEF StreamInv, StreamTypes
<1>3. \A s \in Ranks : ~RowWritten(s, r)' /\ ~RowWritten(r, s)'
  BY <1>1, <1>2, IdleMeets DEF RowWritten
<1>4. ~HasSums(r)'
  BY <1>2 DEF HasSums, Cleaned
<1>5. ~Cleaned(r)
  BY <1>1 DEF Cleaned
<1>6. QED
  BY <1>1, <1>2, <1>3, <1>4, <1>5, PcStep

LEMMA LeaveBarrierMemory ==
  ASSUME StreamInv, MemoryInv, NEW r \in Ranks, LeaveBarrier(r)
  PROVE  MemoryInv'
<1>1. /\ UNCHANGED <<inputs, coll, saved, queueVars, mem>>
      /\ AtBarrier(r) /\ pc' = [pc EXCEPT ![r] = AfterBarrier(r)]
      /\ rows' = rows /\ coll' = coll /\ plan' = plan
  BY DEF LeaveBarrier, Goto, inputs
<1>2. \/ pc[r] = "barrier1" /\ AfterBarrier(r) = "rows" /\ rows[r] = Ranks
      \/ pc[r] = "barrier1" /\ AfterBarrier(r) = "clear" /\ Running(r) \notin NotifyKinds
                            /\ rows[r] = Ranks
      \/ pc[r] = "barrier2" /\ AfterBarrier(r) = "sums"
      \/ pc[r] = "barrier3" /\ AfterBarrier(r) = "notified"
  BY <1>1 DEF AtBarrier, AfterBarrier, StreamInv, PcFits
<1>3. pc'[r] = AfterBarrier(r) /\ \A s \in Ranks \ {r} : pc'[s] = pc[s]
  BY <1>1 DEF StreamInv, StreamTypes
<1>4. \A s \in Ranks : (RowWritten(s, r)' => RowWritten(s, r)) /\ (RowWritten(r, s)' => RowWritten(r, s))
  BY <1>1, <1>2, <1>3 DEF RowWritten
<1>5. HasSums(r)' => HasSums(r)
  BY <1>1, <1>2, <1>3 DEF HasSums, Cleaned, Running
<1>6. AfterBarrier(r) \in {"barrier3", "notified", "main"} <=> Cleaned(r)
  BY <1>2 DEF Cleaned
<1>7. AfterBarrier(r) # "main" /\ pc[r] # "main"
  BY <1>2
<1>8. \A s \in Ranks \ {r} : rows'[s] = rows[s]
  BY <1>1
<1>9. QED
  BY <1>1, <1>4, <1>5, <1>6, <1>7, <1>8, PcStep

LEMMA EndRowsMemory ==
  ASSUME StreamInv, MemoryInv, NEW r \in Ranks, EndRows(r)
  PROVE  MemoryInv'
<1>1. /\ UNCHANGED <<inputs, coll, saved, queueVars, mem>>
      /\ pc[r] = "rows" /\ pc' = [pc EXCEPT ![r] = "barrier2"]
      /\ rows' = rows /\ coll' = coll
  BY DEF EndRows, Goto, AfterRows
<1>2. pc'[r] = "barrier2" /\ \A s \in Ranks \ {r} : pc'[s] = pc[s]
  BY <1>1 DEF StreamInv, StreamTypes
<1>3. \A s \in Ranks : (RowWritten(s, r)' => RowWritten(s, r)) /\ (RowWritten(r, s)' => RowWritten(r, s))
  BY <1>1, <1>2 DEF RowWritten
<1>4. ~HasSums(r)' /\ ~Cleaned(r)
  BY <1>1, <1>2 DEF HasSums, Cleaned
<1>5. QED
  BY <1>1, <1>3, <1>4, PcStep

LEMMA TellCountMemory ==
  ASSUME StreamInv, MemoryInv, NEW r \in Ranks, TellCount(r)
  PROVE  MemoryInv'
<1>1. /\ UNCHANGED <<inputs, coll, saved, queueVars, mem>>
      /\ pc[r] = "count" /\ pc' = [pc EXCEPT ![r] = "clear"]
      /\ rows' = rows /\ coll' = coll /\ plan' = plan
  BY DEF TellCount, Goto, inputs
<1>2. pc'[r] = "clear" /\ \A s \in Ranks \ {r} : pc'[s] = pc[s]
  BY <1>1 DEF StreamInv, StreamTypes
<1>3. \A s \in Ranks : (RowWritten(s, r)' => RowWritten(s, r)) /\ (RowWritten(r, s)' => RowWritten(r, s))
  BY <1>1, <1>2 DEF RowWritten
<1>4. (HasSums(r)' => HasSums(r)) /\ ~Cleaned(r)
  BY <1>1, <1>2 DEF HasSums, Cleaned, Running
<1>5. QED
  BY <1>1, <1>3, <1>4, PcStep

-----------------------------------------------------------------------------
(* The memory: the notify kernels.                                         *)

LEMMA PrefixInWords ==
  ASSUME NEW i \in Ranks, NEW j \in Ranks
  PROVE  Prefix(i, j) \in Words
BY PrefixIndex, ClearedIsMeta DEF Kinds

\* A row that r writes to d changes no other row, and d uses no sums meanwhile.
LEMMA WriteRowMemory ==
  ASSUME StreamInv, MemoryInv, NEW r \in Ranks, NEW d \in Ranks, WriteRow(r, d)
  PROVE  MemoryInv'
<1> USE DEF MemoryInv
<1>1. /\ plan' = plan /\ sent' = sent /\ coll' = coll /\ saved' = saved /\ pc' = pc
      /\ send' = send /\ recv' = recv /\ got' = got /\ UNCHANGED inputs
      /\ pc[r] = "rows" /\ d \in rows[r] /\ rows' = [rows EXCEPT ![r] = @ \ {d}]
  BY DEF WriteRow, inputs, queueVars
<1>2. /\ mem' = [q \in Ranks |-> [w \in Words |-> mem'[q][w]]]
      /\ \A q \in Ranks \ {d} : mem'[q] = mem[q]
      /\ \A w \in Words : mem'[d][w] = IF \E j \in Ranks : w = Prefix(r, j)
                                       THEN <<coll[r], NumSent(coll[r], r, w - r * NumRanks)>>
                                       ELSE mem[d][w]
  BY DEF WriteRow, MemoryTypes
<1>3. \A q \in Ranks \ {d} : \A w : Value(q, w)' = Value(q, w) /\ Writer(q, w)' = Writer(q, w)
  BY <1>2 DEF Value, Writer
<1>4. \A q \in Ranks : (Cleaned(q)' <=> Cleaned(q)) /\ (HasSums(q)' <=> HasSums(q)) /\ Running(q)' = Running(q)
  BY <1>1 DEF Cleaned, HasSums, Running
<1>5. ~HasSums(d) /\ ~Cleaned(d) /\ pc[d] # "main"
  BY <1>1, RowsMeet DEF Cleaned
<1>6. MemoryTypes'
  BY <1>1, <1>2 DEF MemoryTypes
<1>7. RowsInPlace'
  <2> SUFFICES ASSUME NEW q \in Ranks, NEW s \in Ranks, RowWritten(s, q)', NEW j \in Ranks
               PROVE  (Value(q, Prefix(s, j)) = NumSent(coll[q], s, j))'
    BY DEF RowsInPlace
  <2>1. coll[s] = coll[q]
    BY <1>1 DEF RowWritten
  <2>2. CASE s = r /\ q = d
    <3>1. mem'[d][Prefix(r, j)] = <<coll[r], NumSent(coll[r], r, j)>>
      BY <1>2, PrefixIndex, PrefixInWords
    <3>2. QED
      BY <1>1, <2>1, <2>2, <3>1, SameInputs DEF Value
  <2>3. CASE ~(s = r /\ q = d)
    <3>1. RowWritten(s, q)
      BY <1>1, <2>3 DEF RowWritten, StreamInv, StreamTypes
    <3>2. Value(q, Prefix(s, j)) = NumSent(coll[q], s, j)
      BY <3>1 DEF RowsInPlace
    <3>3. Value(q, Prefix(s, j))' = Value(q, Prefix(s, j))
      <4>1. CASE q = d
        <5>1. \A k \in Ranks : Prefix(s, j) # Prefix(r, k)
          BY <2>3, <4>1, PrefixIndex
        <5>2. QED
          BY <1>2, <4>1, <5>1, PrefixInWords DEF Value
      <4>2. QED
        BY <1>3, <4>1
    <3>4. QED
      BY <1>1, <3>2, <3>3, SameInputs
  <2>4. QED
    BY <2>2, <2>3
<1>8. SumsInPlace'
  BY <1>1, <1>3, <1>4, <1>5, SameInputs DEF SumsInPlace
<1>9. HandleIsTrue'
  <2>1. \A q \in Ranks : LastSaved(q)' = LastSaved(q)
    BY <1>1, <1>4 DEF LastSaved
  <2>2. QED
    BY <1>1, <2>1, SameInputs DEF HandleIsTrue
<1>10. MetadataZeroed'
  BY <1>1, <1>3, <1>4, <1>5 DEF MetadataZeroed
<1>11. OffsetsTrue'
  BY <1>1, <1>3, <1>4, <1>5, SameInputs DEF OffsetsTrue
<1>12. \A q, s \in Ranks : Sent(s, q)' = Sent(s, q)
  BY <1>1, SameInputs DEF Sent, HasSent
<1>13. TailsTrue'
  BY <1>1, <1>3, <1>4, <1>5, <1>12 DEF TailsTrue
<1>14. TokensInPlace'
  BY <1>1, <1>2, <1>4, <1>5, <1>12 DEF TokensInPlace
<1>15. QueuesFit'
  BY <1>1, <1>4, SameInputs DEF QueuesFit
<1>16. QED
  BY <1>6, <1>7, <1>8, <1>9, <1>10, <1>11, <1>13, <1>14, <1>15

\* A step of r before its main kernel, which writes only its own memory.
LEMMA OwnStep ==
  ASSUME StreamInv, MemoryInv, NEW r \in Ranks, NEW step,
         UNCHANGED <<inputs, coll, rows, queueVars>>,
         pc' = [pc EXCEPT ![r] = step],
         mem' = [mem EXCEPT ![r] = [w \in Words |-> mem'[r][w]]],
         saved' = [saved EXCEPT ![r] = [w \in PrefixWords |-> saved'[r][w]]],
         pc[r] \in {"sums", "clear"}, step \in {"count", "clear", "barrier3"}
  PROVE  /\ MemoryTypes' /\ RowsInPlace' /\ QueuesFit'
         /\ \A q \in Ranks : \A s \in Ranks : Sent(s, q)' <=> Sent(s, q)
         /\ (HasSums(r)' => \A i, j \in Ranks : Value(r, Prefix(i, j))' = TruePrefix(coll[r], i, j))
              => SumsInPlace'
         /\ (LastSaved(r)' > 0 => \A i, j \in Ranks :
                saved'[r][Prefix(i, j)] = TruePrefix(LastSaved(r)', i, j)) => HandleIsTrue'
         /\ ~Cleaned(r)' => MetadataZeroed' /\ OffsetsTrue' /\ TailsTrue' /\ TokensInPlace'
         /\ (\A w \in MetaWords(Running(r)) : Value(r, w)' = 0)
               => MetadataZeroed' /\ OffsetsTrue' /\ TailsTrue' /\ TokensInPlace'
<1> USE DEF MemoryInv
<1>1. /\ plan' = plan /\ sent' = sent /\ coll' = coll /\ rows' = rows
      /\ send' = send /\ recv' = recv /\ got' = got /\ pc \in [Ranks -> Pcs]
  BY DEF inputs, queueVars, StreamInv, StreamTypes
<1>2. \A q \in Ranks \ {r} : /\ mem'[q] = mem[q] /\ saved'[q] = saved[q] /\ pc'[q] = pc[q]
                             /\ \A w : Value(q, w)' = Value(q, w) /\ Writer(q, w)' = Writer(q, w)
  BY <1>1 DEF MemoryTypes, Value, Writer
<1>3. pc'[r] = step
  BY <1>1
<1>4. \A q \in Ranks \ {r} : /\ Cleaned(q)' <=> Cleaned(q)
                             /\ HasSums(q)' <=> HasSums(q)
                             /\ LastSaved(q)' = LastSaved(q)
  BY <1>1, <1>2 DEF Cleaned, HasSums, Running, LastSaved
<1>5. \A q \in Ranks : Running(q)' = Running(q)
  BY <1>1 DEF Running
<1>6. MemoryTypes'
  <2>1. mem'[r] = [w \in Words |-> mem'[r][w]] /\ saved'[r] = [w \in PrefixWords |-> saved'[r][w]]
    BY DEF MemoryTypes
  <2>2. \A q \in Ranks : /\ mem'[q] = [w \in Words |-> mem'[q][w]]
                         /\ saved'[q] = [w \in PrefixWords |-> saved'[q][w]]
    BY <1>2, <2>1 DEF MemoryTypes
  <2>3. mem' = [q \in Ranks |-> mem'[q]] /\ saved' = [q \in Ranks |-> saved'[q]]
    BY DEF MemoryTypes
  <2>4. /\ mem' = [q \in Ranks |-> [w \in Words |-> mem'[q][w]]]
        /\ saved' = [q \in Ranks |-> [w \in PrefixWords |-> saved'[q][w]]]
    BY <2>2, <2>3
  <2>5. QED
    BY <1>1, <2>4 DEF MemoryTypes
<1>7. RowsInPlace'
  <2>1. \A s \in Ranks : ~RowWritten(s, r)'
    BY <1>3 DEF RowWritten
  <2>2. \A s \in Ranks, q \in Ranks \ {r} : RowWritten(s, q)' => RowWritten(s, q)
    BY <1>1, <1>2 DEF RowWritten
  <2>3. QED
    BY <1>1, <1>2, <2>1, <2>2, SameInputs DEF RowsInPlace
<1>8. QueuesFit'
  <2>1. \A q \in Ranks : pc'[q] = "main" => pc[q] = "main"
    BY <1>2, <1>3
  <2>2. QED
    BY <1>1, <1>5, <2>1, SameInputs DEF QueuesFit
<1>9. \A q, s \in Ranks : Sent(s, q)' <=> Sent(s, q)
  <2>1. \A s \in Ranks : pc'[s] = "main" <=> pc[s] = "main"
    BY <1>2, <1>3
  <2>2. QED
    BY <1>1, <2>1, SameInputs DEF Sent, HasSent
<1>10. ASSUME HasSums(r)' => \A i, j \in Ranks : Value(r, Prefix(i, j))' = TruePrefix(coll[r], i, j)
       PROVE  SumsInPlace'
  BY <1>1, <1>2, <1>4, <1>10, SameInputs DEF SumsInPlace
<1>11. ASSUME LastSaved(r)' > 0 => \A i, j \in Ranks : saved'[r][Prefix(i, j)] = TruePrefix(LastSaved(r)', i, j)
       PROVE  HandleIsTrue'
  BY <1>1, <1>2, <1>4, <1>11, SameInputs DEF HandleIsTrue
<1>12. /\ \A q \in Ranks \ {r} : Cleaned(q)' => \A w \in MetaWords(Running(q)) : Value(q, w)' = 0 \/ Writer(q, w)' = coll[q]
       /\ \A q \in Ranks \ {r} : \A s \in Ranks : Cleaned(q)' /\ Running(q) \in CastKinds =>
            /\ Value(q, Start(s))' \in {0, Announce(0)}
            /\ Value(q, End(s))' \in {0, Announce(Flow(coll[q], s, q))}
       /\ \A q \in Ranks \ {r} : \A s \in Ranks : Cleaned(q)' /\ Value(q, Tail(Running(q), s))' # 0 => Sent(s, q)
       /\ \A q \in Ranks \ {r} : \A s \in Ranks : Cleaned(q)' /\ Sent(s, q) =>
            /\ mem'[q][Tail(Running(q), s)] = <<coll[q], 1>>
            /\ \A w \in SlotOf(Running(q), s) : mem'[q][w] = <<coll[q], s + 1>>
  <2> SUFFICES ASSUME NEW q \in Ranks \ {r}, Cleaned(q)'
               PROVE  /\ \A w \in MetaWords(Running(q)) : Value(q, w)' = 0 \/ Writer(q, w)' = coll[q]
                      /\ \A s \in Ranks : Running(q) \in CastKinds =>
                           /\ Value(q, Start(s))' \in {0, Announce(0)}
                           /\ Value(q, End(s))' \in {0, Announce(Flow(coll[q], s, q))}
                      /\ \A s \in Ranks : Value(q, Tail(Running(q), s))' # 0 => Sent(s, q)
                      /\ \A s \in Ranks : Sent(s, q) =>
                           /\ mem'[q][Tail(Running(q), s)] = <<coll[q], 1>>
                           /\ \A w \in SlotOf(Running(q), s) : mem'[q][w] = <<coll[q], s + 1>>
    OBVIOUS
  <2>1. Cleaned(q)
    BY <1>4
  <2>2. \A w \in MetaWords(Running(q)) : Value(q, w)' = 0 \/ Writer(q, w)' = coll[q]
    BY <1>2, <2>1 DEF MetadataZeroed
  <2>3. \A s \in Ranks : Running(q) \in CastKinds =>
          /\ Value(q, Start(s))' \in {0, Announce(0)}
          /\ Value(q, End(s))' \in {0, Announce(Flow(coll[q], s, q))}
    BY <1>2, <2>1 DEF OffsetsTrue
  <2>4. \A s \in Ranks : Value(q, Tail(Running(q), s))' # 0 => Sent(s, q)
    BY <1>2, <1>5, <2>1 DEF TailsTrue
  <2>5. \A s \in Ranks : Sent(s, q) =>
          /\ mem'[q][Tail(Running(q), s)] = <<coll[q], 1>>
          /\ \A w \in SlotOf(Running(q), s) : mem'[q][w] = <<coll[q], s + 1>>
    BY <1>2, <2>1 DEF TokensInPlace
  <2>6. QED
    BY <2>2, <2>3, <2>4, <2>5
<1>13. ASSUME ~Cleaned(r)'
       PROVE  MetadataZeroed' /\ OffsetsTrue' /\ TailsTrue' /\ TokensInPlace'
  BY <1>1, <1>5, <1>9, <1>12, <1>13, SameInputs DEF MetadataZeroed, OffsetsTrue, TailsTrue, TokensInPlace
<1>14. ASSUME \A w \in MetaWords(Running(r)) : Value(r, w)' = 0
       PROVE  MetadataZeroed' /\ OffsetsTrue' /\ TailsTrue' /\ TokensInPlace'
  <2>1. Running(r) \in Kinds
    BY DEF StreamInv, StreamTypes, PcFits, Running
  <2>2. \A s \in Ranks : /\ Value(r, Tail(Running(r), s))' = 0
                         /\ Running(r) \in CastKinds => Value(r, Start(s))' = 0 /\ Value(r, End(s))' = 0
    BY <1>5, <1>14, <2>1, MetaLayout
  <2>3. \A s \in Ranks : ~Sent(s, r)'
    BY <1>9, SentMeansCleaned DEF Sent, Cleaned
  <2>4. MetadataZeroed'
    BY <1>1, <1>5, <1>12, <1>14 DEF MetadataZeroed
  <2>5. OffsetsTrue'
    BY <1>1, <1>5, <1>12, <2>2, SameInputs DEF OffsetsTrue
  <2>6. TailsTrue'
    BY <1>1, <1>5, <1>9, <1>12, <2>2 DEF TailsTrue
  <2>7. TokensInPlace'
    BY <1>1, <1>5, <1>9, <1>12, <2>3 DEF TokensInPlace
  <2>8. QED
    BY <2>4, <2>5, <2>6, <2>7
<1>15. QED
  BY <1>6, <1>7, <1>8, <1>9, <1>10, <1>11, <1>13, <1>14

\* The sums in place are those of the rows, which are all there.
LEMMA ColumnSumsMemory ==
  ASSUME StreamInv, MemoryInv, NEW r \in Ranks, ColumnSums(r)
  PROVE  MemoryInv'
<1> USE DEF MemoryInv
<1> DEFINE step == IF Running(r) = "count" THEN "count" ELSE "clear"
<1>1. /\ UNCHANGED <<inputs, coll, rows, queueVars>> /\ saved' = saved
      /\ pc[r] = "sums" /\ pc' = [pc EXCEPT ![r] = step] /\ coll' = coll
      /\ step \in {"count", "clear", "barrier3"} /\ coll[r] \in Colls
  BY DEF ColumnSums, Goto, StreamInv, PcFits
<1>2. /\ mem' = [mem EXCEPT ![r] = [w \in Words |-> mem'[r][w]]]
      /\ \A w \in PrefixWords :
           mem'[r][w] = <<coll[r], SumFunction([k \in 0 .. w \div NumRanks |-> Value(r, Prefix(k, w % NumRanks))])>>
  <2>1. PrefixWords \subseteq Words
    BY ClearedIsMeta DEF Kinds
  <2> DEFINE new == [w \in Words |->
               IF w \in PrefixWords
               THEN <<coll[r], SumFunction([k \in 0 .. w \div NumRanks |-> Value(r, Prefix(k, w % NumRanks))])>>
               ELSE mem[r][w]]
  <2>2. mem' = [mem EXCEPT ![r] = new]
    BY DEF ColumnSums
  <2>3. mem'[r] = new /\ new = [w \in Words |-> new[w]]
    BY <2>2 DEF MemoryTypes
  <2>4. QED
    BY <2>1, <2>2, <2>3
<1>3. saved' = [saved EXCEPT ![r] = [w \in PrefixWords |-> saved'[r][w]]]
  BY <1>1 DEF MemoryTypes
<1>4. pc'[r] = step /\ ~Cleaned(r) /\ ~Cleaned(r)'
  BY <1>1 DEF Cleaned, StreamInv, StreamTypes
<1>5. \A i, j \in Ranks : Value(r, Prefix(i, j))' = TruePrefix(coll[r], i, j)
  <2> SUFFICES ASSUME NEW i \in Ranks, NEW j \in Ranks
               PROVE  Value(r, Prefix(i, j))' = TruePrefix(coll[r], i, j)
    OBVIOUS
  <2>1. \A k \in Ranks : Value(r, Prefix(k, j)) = NumSent(coll[r], k, j)
    BY <1>1, SumsMeet DEF RowsInPlace
  <2>2. \A k \in 0 .. i : k \in Ranks
    BY Sizes DEF Ranks
  <2>3. [k \in 0 .. i |-> Value(r, Prefix(k, j))] = [k \in 0 .. i |-> NumSent(coll[r], k, j)]
    BY <2>1, <2>2
  <2>4. Value(r, Prefix(i, j))' = SumFunction([k \in 0 .. i |-> Value(r, Prefix(k, j))])
    BY <1>2, PrefixIndex DEF Value
  <2>5. QED
    BY <2>3, <2>4 DEF TruePrefix
<1>6. LastSaved(r)' = LastSaved(r)
  BY <1>1, <1>4 DEF LastSaved
<1>7. LastSaved(r)' > 0 =>
        \A i, j \in Ranks : saved'[r][Prefix(i, j)] = TruePrefix(LastSaved(r)', i, j)
  BY <1>1, <1>6 DEF HandleIsTrue
<1>8. QED
  BY <1>1, <1>2, <1>3, <1>4, <1>5, <1>7, OwnStep

\* What is zeroed is exactly the metadata, and the matrix lies outside it.
LEMMA ClearMemory ==
  ASSUME StreamInv, MemoryInv, NEW r \in Ranks, Clear(r)
  PROVE  MemoryInv'
<1> USE DEF MemoryInv
<1>1. /\ UNCHANGED <<inputs, coll, rows, queueVars>> /\ coll' = coll /\ plan' = plan
      /\ pc[r] = "clear" /\ pc' = [pc EXCEPT ![r] = "barrier3"]
      /\ coll[r] \in Colls /\ Running(r) \in Kinds
  BY DEF Clear, Goto, AfterClear, inputs, StreamInv, StreamTypes, PcFits, Running
<1>2. /\ mem' = [mem EXCEPT ![r] = [w \in Words |-> mem'[r][w]]]
      /\ \A w \in Words : mem'[r][w] =
           IF w \in Cleared(Running(r)) THEN <<coll[r], 0>>
           ELSE IF Running(r) = "cached" /\ w \in PrefixWords THEN <<coll[r], saved[r][w]>>
           ELSE mem[r][w]
  BY DEF Clear, MemoryTypes
<1>3. /\ saved' = [saved EXCEPT ![r] = [w \in PrefixWords |-> saved'[r][w]]]
      /\ \A w \in PrefixWords : saved'[r][w] = IF Running(r) \in NotifyKinds THEN Value(r, w) ELSE saved[r][w]
  <2>1. CASE Running(r) \in NotifyKinds
    BY <2>1 DEF Clear, MemoryTypes
  <2>2. CASE Running(r) \notin NotifyKinds
    BY <2>2 DEF Clear, MemoryTypes
  <2>3. QED
    BY <2>1, <2>2
<1>4. pc'[r] = "barrier3" /\ ~Cleaned(r) /\ Cleaned(r)' /\ Running(r)' = Running(r)
  BY <1>1 DEF Cleaned, StreamInv, StreamTypes, Running
<1>5. LastSaved(r) = coll[r] - 1 /\ LastSaved(r)' = coll[r]
  BY <1>1, <1>4 DEF LastSaved
<1>6. Running(r) \in NotifyKinds =>
        \A i, j \in Ranks : Value(r, Prefix(i, j)) = TruePrefix(coll[r], i, j)
  BY <1>1 DEF SumsInPlace, HasSums
<1>7. Running(r) \notin NotifyKinds =>
        \A i, j \in Ranks : saved[r][Prefix(i, j)] = TruePrefix(coll[r], i, j)
  <2> SUFFICES ASSUME Running(r) \notin NotifyKinds
               PROVE  \A i, j \in Ranks : saved[r][Prefix(i, j)] = TruePrefix(coll[r], i, j)
    OBVIOUS
  <2>1. coll[r] - 1 \in Colls /\ \A i, j : TruePrefix(coll[r], i, j) = TruePrefix(coll[r] - 1, i, j)
    BY <1>1, CachedPrefix DEF Running
  <2>2. coll[r] - 1 > 0
    BY <2>1, SizesAssumption DEF Colls
  <2>3. QED
    BY <1>5, <2>1, <2>2 DEF HandleIsTrue
<1>8. \A i, j \in Ranks : saved'[r][Prefix(i, j)] = TruePrefix(coll[r], i, j)
  BY <1>3, <1>6, <1>7, PrefixIndex
<1>9. HasSums(r)' => \A i, j \in Ranks : Value(r, Prefix(i, j))' = TruePrefix(coll[r], i, j)
  <2> SUFFICES ASSUME Running(r) \in CastKinds, NEW i \in Ranks, NEW j \in Ranks
               PROVE  mem'[r][Prefix(i, j)][2] = TruePrefix(coll[r], i, j)
    BY <1>4 DEF HasSums, Value
  <2>1. Prefix(i, j) \in PrefixWords /\ Prefix(i, j) \in Words /\ Prefix(i, j) \notin Cleared(Running(r))
    BY <1>1, PrefixIndex, PrefixInWords, ClearedIsMeta
  <2>2. CASE Running(r) = "cached"
    <3>1. mem'[r][Prefix(i, j)] = <<coll[r], saved[r][Prefix(i, j)]>>
      BY <1>2, <2>1, <2>2
    <3>2. saved[r][Prefix(i, j)] = TruePrefix(coll[r], i, j)
      BY <1>7, <2>2 DEF NotifyKinds
    <3>3. QED
      BY <3>1, <3>2
  <2>3. CASE Running(r) # "cached"
    BY <1>2, <1>6, <2>1, <2>3 DEF CastKinds, Value
  <2>4. QED
    BY <2>2, <2>3
<1>10. \A w \in MetaWords(Running(r)) : Value(r, w)' = 0
  <2>1. \A w \in MetaWords(Running(r)) : mem'[r][w] = <<coll[r], 0>>
    BY <1>1, <1>2, ClearedIsMeta
  <2>2. QED
    BY <2>1 DEF Value
<1>11. MemoryTypes' /\ RowsInPlace' /\ QueuesFit' /\ SumsInPlace'
  BY <1>1, <1>2, <1>3, <1>9, OwnStep
<1>12. HandleIsTrue'
  <2>1. LastSaved(r)' > 0 =>
          \A i, j \in Ranks : saved'[r][Prefix(i, j)] = TruePrefix(LastSaved(r)', i, j)
    BY <1>5, <1>8
  <2>2. QED
    BY <1>1, <1>2, <1>3, <2>1, OwnStep
<1>13. MetadataZeroed' /\ OffsetsTrue' /\ TailsTrue' /\ TokensInPlace'
  BY <1>1, <1>2, <1>3, <1>10, OwnStep
<1>14. QED
  BY <1>11, <1>12, <1>13

-----------------------------------------------------------------------------
(* The memory: the main kernels.                                           *)

LEMMA MainPeers ==
  ASSUME StreamInv, NEW r \in Ranks, NEW d \in Ranks, pc[r] = "main"
  PROVE  /\ Cleaned(d) => coll[d] = coll[r] /\ Running(d) = Running(r)
         /\ ~Cleaned(d) => ~HasSums(d) /\ coll[d] = coll[r] + 1
         /\ coll[r] \in Colls /\ Running(r) \in Kinds
         /\ Cleaned(r) /\ coll[r] \in Int /\ coll[d] \in Int
<1>1. \/ Cleaned(d) /\ coll[d] = coll[r]
      \/ pc[d] \in {"idle", "barrier1"} /\ coll[d] = coll[r] + 1
  BY MainMeets
<1>2. coll[r] \in Colls /\ Running(r) \in Kinds /\ Cleaned(r) /\ coll[r] \in Int /\ coll[d] \in Int
  BY SegmentIs DEF StreamInv, StreamTypes, PcFits, Running, Cleaned
<1>3. QED
  BY <1>1, <1>2 DEF Cleaned, HasSums, Running

\* A warp of r's main kernel writes only memory of d, outside the matrix of a cast.
LEMMA QueueStep ==
  ASSUME StreamInv, MemoryInv, NEW r \in Ranks, NEW d \in Ranks,
         UNCHANGED <<inputs, coll, pc, rows, saved>>, pc[r] = "main",
         mem' = [mem EXCEPT ![d] = [w \in Words |-> mem'[d][w]]],
         Running(r) \in CastKinds => \A w \in PrefixWords : mem'[d][w] = mem[d][w]
  PROVE  /\ RowsInPlace' /\ SumsInPlace' /\ HandleIsTrue'
         /\ (Cleaned(d) => \A w \in MetaWords(Running(d)) : mem'[d][w] = mem[d][w] \/ mem'[d][w][1] = coll[d])
              => MetadataZeroed'
         /\ (Cleaned(d) /\ Running(d) \in CastKinds => \A s \in Ranks :
               /\ mem'[d][Start(s)] = mem[d][Start(s)] \/ mem'[d][Start(s)][2] = Announce(0)
               /\ mem'[d][End(s)] = mem[d][End(s)] \/ mem'[d][End(s)][2] = Announce(Flow(coll[d], s, d)))
              => OffsetsTrue'
         /\ (\A q, s \in Ranks : Sent(s, q) => Sent(s, q)')
              /\ (Cleaned(d) => \A s \in Ranks :
                    mem'[d][Tail(Running(d), s)] = mem[d][Tail(Running(d), s)] \/ Sent(s, d)')
              => TailsTrue'
         /\ (\A q \in Ranks \ {d}, s \in Ranks : Sent(s, q)' => Sent(s, q))
              /\ (Cleaned(d) => \A s \in Ranks : Sent(s, d)' =>
                    /\ mem'[d][Tail(Running(d), s)] = <<coll[d], 1>>
                    /\ \A w \in SlotOf(Running(d), s) : mem'[d][w] = <<coll[d], s + 1>>)
              => TokensInPlace'
<1> USE DEF MemoryInv
<1>1. plan' = plan /\ coll' = coll /\ pc' = pc /\ rows' = rows /\ saved' = saved
  BY DEF inputs
<1>2. \A q \in Ranks \ {d} : /\ mem'[q] = mem[q]
                             /\ \A w : Value(q, w)' = Value(q, w) /\ Writer(q, w)' = Writer(q, w)
  BY DEF MemoryTypes, Value, Writer
<1>3. \A q \in Ranks : /\ Cleaned(q)' <=> Cleaned(q)
                       /\ HasSums(q)' <=> HasSums(q)
                       /\ LastSaved(q)' = LastSaved(q)
                       /\ Running(q)' = Running(q)
                       /\ \A s \in Ranks : RowWritten(s, q)' <=> RowWritten(s, q)
  BY <1>1 DEF Cleaned, HasSums, Running, LastSaved, RowWritten
<1>4. \A s \in Ranks : ~RowWritten(s, d)
  BY MainMeets
<1>5. RowsInPlace'
  BY <1>1, <1>2, <1>3, <1>4, SameInputs DEF RowsInPlace
<1>6. SumsInPlace'
  <2>1. HasSums(d) => Running(r) \in CastKinds
    BY MainPeers DEF HasSums, Cleaned
  <2>2. HasSums(d) => \A i, j \in Ranks : Value(d, Prefix(i, j))' = Value(d, Prefix(i, j))
    BY <2>1, PrefixIndex DEF Value
  <2>3. QED
    BY <1>1, <1>2, <1>3, <2>2, SameInputs DEF SumsInPlace
<1>7. HandleIsTrue'
  BY <1>1, <1>3, SameInputs DEF HandleIsTrue
<1>8. ASSUME Cleaned(d) => \A w \in MetaWords(Running(d)) : mem'[d][w] = mem[d][w] \/ mem'[d][w][1] = coll[d]
      PROVE  MetadataZeroed'
  <2>1. Cleaned(d) => \A w \in MetaWords(Running(d)) : Value(d, w)' = 0 \/ Writer(d, w)' = coll[d]
    BY <1>8 DEF MetadataZeroed, Value, Writer
  <2>2. QED
    BY <1>1, <1>2, <1>3, <2>1 DEF MetadataZeroed
<1>9. ASSUME Cleaned(d) /\ Running(d) \in CastKinds => \A s \in Ranks :
               /\ mem'[d][Start(s)] = mem[d][Start(s)] \/ mem'[d][Start(s)][2] = Announce(0)
               /\ mem'[d][End(s)] = mem[d][End(s)] \/ mem'[d][End(s)][2] = Announce(Flow(coll[d], s, d))
      PROVE  OffsetsTrue'
  <2>1. Cleaned(d) /\ Running(d) \in CastKinds => \A s \in Ranks :
          /\ Value(d, Start(s))' \in {0, Announce(0)}
          /\ Value(d, End(s))' \in {0, Announce(Flow(coll[d], s, d))}
    BY <1>9 DEF OffsetsTrue, Value
  <2>2. QED
    BY <1>1, <1>2, <1>3, <2>1, SameInputs DEF OffsetsTrue
<1>10. ASSUME \A q, s \in Ranks : Sent(s, q) => Sent(s, q)',
              Cleaned(d) => \A s \in Ranks :
                mem'[d][Tail(Running(d), s)] = mem[d][Tail(Running(d), s)] \/ Sent(s, d)'
       PROVE  TailsTrue'
  <2>1. Cleaned(d) => \A s \in Ranks : mem'[d][Tail(Running(d), s)][2] # 0 => Sent(s, d)'
    BY <1>10 DEF TailsTrue, Value
  <2>2. \A q \in Ranks \ {d}, s \in Ranks : Cleaned(q) /\ mem'[q][Tail(Running(q), s)][2] # 0 => Sent(s, q)'
    BY <1>2, <1>10 DEF TailsTrue, Value
  <2>3. QED
    BY <1>3, <2>1, <2>2 DEF TailsTrue, Value
<1>11. ASSUME \A q \in Ranks \ {d}, s \in Ranks : Sent(s, q)' => Sent(s, q),
              Cleaned(d) => \A s \in Ranks : Sent(s, d)' =>
                    /\ mem'[d][Tail(Running(d), s)] = <<coll[d], 1>>
                    /\ \A w \in SlotOf(Running(d), s) : mem'[d][w] = <<coll[d], s + 1>>
       PROVE  TokensInPlace'
  BY <1>1, <1>2, <1>3, <1>11 DEF TokensInPlace
<1>12. QED
  BY <1>5, <1>6, <1>7, <1>8, <1>9, <1>10, <1>11

LEMMA SendOffsetsMemory ==
  ASSUME StreamInv, MemoryInv, NEW r \in Ranks, NEW d \in Ranks, SendOffsets(r, d)
  PROVE  MemoryInv'
<1> USE DEF MemoryInv
<1> DEFINE next == IF Flow(coll[r], r, d) > 0 THEN "token" ELSE "done"
<1>1. /\ UNCHANGED <<inputs, coll, pc, rows, saved>> /\ UNCHANGED <<plan, sent, coll, pc>>
      /\ recv' = recv /\ got' = got
      /\ pc[r] = "main" /\ send[r][d] = "offsets" /\ send' = [send EXCEPT ![r][d] = next]
      /\ next \in QueuePcs
  BY DEF SendOffsets, inputs, QueuePcs
<1>2. /\ coll[r] \in Colls /\ Running(r) \in Kinds /\ coll[r] \in Int /\ Running(r) \in CastKinds
      /\ Cleaned(d) => coll[d] = coll[r] /\ Running(d) = Running(r)
  BY <1>1, MainPeers DEF QueuesFit
<1>3. Start(r) \in Words /\ End(r) \in Words /\ Start(r) # End(r)
      /\ Start(r) \notin PrefixWords /\ End(r) \notin PrefixWords
  BY <1>2, MetaLayout, ClearedIsMeta
<1>4. /\ mem' = [mem EXCEPT ![d] = [w \in Words |-> mem'[d][w]]]
      /\ mem'[d][Start(r)] = <<coll[r], Announce(0)>>
      /\ mem'[d][End(r)] = <<coll[r], Announce(Flow(coll[r], r, d))>>
      /\ \A w \in Words \ {Start(r), End(r)} : mem'[d][w] = mem[d][w]
  <2> DEFINE a == <<coll[r], Announce(0)>>
             b == <<coll[r], Announce(Flow(coll[r], r, d))>>
  <2>1. mem' = [mem EXCEPT ![d][Start(r)] = a, ![d][End(r)] = b]
    BY DEF SendOffsets
  <2>2. mem'[d] = [mem[d] EXCEPT ![Start(r)] = a, ![End(r)] = b]
        /\ mem' = [mem EXCEPT ![d] = mem'[d]]
    BY <2>1 DEF MemoryTypes
  <2>3. mem[d] = [w \in Words |-> mem[d][w]]
    BY DEF MemoryTypes
  <2>4. mem'[d] = [w \in Words |-> mem'[d][w]]
    BY <2>2, <2>3
  <2>5. QED
    BY <1>3, <2>2, <2>3, <2>4
<1>5. MemoryTypes'
  <2>1. send' \in [Ranks -> [Ranks -> QueuePcs]]
    BY <1>1 DEF MemoryTypes
  <2>2. mem' = [q \in Ranks |-> [w \in Words |-> mem'[q][w]]]
    BY <1>4 DEF MemoryTypes
  <2>3. QED
    BY <1>1, <2>1, <2>2 DEF MemoryTypes
<1>6. \A s, q \in Ranks : ~(s = r /\ q = d) => send'[s][q] = send[s][q]
  BY <1>1 DEF MemoryTypes
<1>7. send'[r][d] = next
  BY <1>1 DEF MemoryTypes
<1>8. \A q, s \in Ranks : Sent(s, q)' <=> Sent(s, q)
  <2> SUFFICES ASSUME NEW q \in Ranks, NEW s \in Ranks
               PROVE  Sent(s, q)' <=> Sent(s, q)
    OBVIOUS
  <2>1. CASE ~(s = r /\ q = d)
    BY <1>1, <1>6, <2>1, SameInputs DEF Sent, HasSent
  <2>2. CASE s = r /\ q = d
    <3>1. next = "done" => ~(Flow(coll[r], r, d) > 0)
      OBVIOUS
    <3>2. QED
      BY <1>1, <1>7, <2>2, <3>1, SameInputs DEF Sent, HasSent
  <2>3. QED
    BY <2>1, <2>2
<1>9. QueuesFit'
  <2> SUFFICES ASSUME NEW q \in Ranks, NEW s \in Ranks, pc[q] = "main"
               PROVE  /\ send'[q][s] = "offsets" => Running(q) \in CastKinds
                      /\ send'[q][s] = "token" => Flow(coll[q], q, s) > 0
    BY <1>1, SameInputs DEF QueuesFit, Running
  <2>1. CASE ~(q = r /\ s = d)
    BY <1>6, <2>1 DEF QueuesFit
  <2>2. CASE q = r /\ s = d
    BY <1>2, <1>7, <2>2
  <2>3. QED
    BY <2>1, <2>2
<1>10. /\ RowsInPlace' /\ SumsInPlace' /\ HandleIsTrue'
       /\ MetadataZeroed'
  <2>1. Cleaned(d) => \A w \in MetaWords(Running(d)) : mem'[d][w] = mem[d][w] \/ mem'[d][w][1] = coll[d]
    BY <1>2, <1>4, ClearedIsMeta
  <2>2. \A w \in PrefixWords : mem'[d][w] = mem[d][w]
    BY <1>3, <1>4, ClearedIsMeta DEF Kinds
  <2>3. QED
    BY <1>1, <1>4, <2>1, <2>2, QueueStep
<1>11. OffsetsTrue'
  <2>1. ASSUME Cleaned(d), NEW s \in Ranks
        PROVE  /\ mem'[d][Start(s)] = mem[d][Start(s)] \/ mem'[d][Start(s)][2] = Announce(0)
               /\ mem'[d][End(s)] = mem[d][End(s)] \/ mem'[d][End(s)][2] = Announce(Flow(coll[d], s, d))
    <3>1. CASE s = r
      BY <1>2, <1>4, <2>1, <3>1
    <3>2. CASE s # r
      <4>1. /\ Start(s) \in Words /\ End(s) \in Words
            /\ Start(s) \notin {Start(r), End(r)} /\ End(s) \notin {Start(r), End(r)}
        BY <1>2, <3>2, MetaLayout, ClearedIsMeta
      <4>2. QED
        BY <1>4, <4>1
    <3>3. QED
      BY <3>1, <3>2
  <2>2. \A w \in PrefixWords : mem'[d][w] = mem[d][w]
    BY <1>3, <1>4, ClearedIsMeta DEF Kinds
  <2>3. QED
    BY <1>1, <1>4, <2>1, <2>2, QueueStep
<1>12. TailsTrue' /\ TokensInPlace'
  <2>1. \A w \in PrefixWords : mem'[d][w] = mem[d][w]
    BY <1>3, <1>4, ClearedIsMeta DEF Kinds
  <2>2. Cleaned(d) => \A s \in Ranks : mem'[d][Tail(Running(d), s)] = mem[d][Tail(Running(d), s)]
    BY <1>2, <1>4, MetaLayout, ClearedIsMeta
  <2>3. Cleaned(d) => \A s \in Ranks : \A w \in SlotOf(Running(d), s) : mem'[d][w] = mem[d][w]
    BY <1>2, <1>4, SlotLayout, MetaLayout
  <2>4. Cleaned(d) => \A s \in Ranks : Sent(s, d)' =>
                    /\ mem'[d][Tail(Running(d), s)] = <<coll[d], 1>>
                    /\ \A w \in SlotOf(Running(d), s) : mem'[d][w] = <<coll[d], s + 1>>
    BY <1>8, <2>2, <2>3 DEF TokensInPlace
  <2>5. TailsTrue'
    BY <1>1, <1>4, <1>8, <2>1, <2>2, QueueStep
  <2>6. TokensInPlace'
    BY <1>1, <1>4, <1>8, <2>1, <2>4, QueueStep
  <2>7. QED
    BY <2>5, <2>6
<1>13. QED
  BY <1>5, <1>9, <1>10, <1>11, <1>12

LEMMA SendTokenMemory ==
  ASSUME StreamInv, MemoryInv, NEW r \in Ranks, NEW d \in Ranks, SendToken(r, d)
  PROVE  MemoryInv'
<1> USE DEF MemoryInv
<1> DEFINE slot == SlotOf(Running(r), r)
           tail == Tail(Running(r), r)
<1>1. /\ UNCHANGED <<inputs, coll, pc, rows, saved>> /\ UNCHANGED <<plan, sent, coll, pc>>
      /\ recv' = recv /\ got' = got
      /\ pc[r] = "main" /\ send[r][d] = "token" /\ send' = [send EXCEPT ![r][d] = "done"]
  BY DEF SendToken, inputs
<1>2. /\ coll[r] \in Colls /\ Running(r) \in Kinds /\ coll[r] \in Int
      /\ Cleaned(d) => coll[d] = coll[r] /\ Running(d) = Running(r)
      /\ Flow(coll[r], r, d) > 0
  BY <1>1, MainPeers DEF QueuesFit
<1>3. /\ tail \in MetaWords(Running(r)) /\ tail \in Words /\ tail \notin slot /\ slot \subseteq Words
      /\ slot \cap MetaWords(Running(r)) = {}
      /\ Running(r) \in CastKinds => tail \notin PrefixWords /\ slot \cap PrefixWords = {}
  BY <1>2, MetaLayout, ClearedIsMeta, SlotLayout
<1>4. /\ mem' = [mem EXCEPT ![d] = [w \in Words |-> mem'[d][w]]]
      /\ \A w \in Words : mem'[d][w] = IF w \in slot THEN <<coll[r], r + 1>>
                                       ELSE IF w = tail THEN <<coll[r], 1>> ELSE mem[d][w]
  BY DEF SendToken, MemoryTypes
<1>5. MemoryTypes'
  <2>1. send' \in [Ranks -> [Ranks -> QueuePcs]]
    BY <1>1 DEF MemoryTypes, QueuePcs
  <2>2. mem' = [q \in Ranks |-> [w \in Words |-> mem'[q][w]]]
    BY <1>4 DEF MemoryTypes
  <2>3. QED
    BY <1>1, <2>1, <2>2 DEF MemoryTypes
<1>6. \A s, q \in Ranks : ~(s = r /\ q = d) => send'[s][q] = send[s][q]
  BY <1>1 DEF MemoryTypes
<1>7. send'[r][d] = "done"
  BY <1>1 DEF MemoryTypes
<1>8. \A q, s \in Ranks : ~(s = r /\ q = d) => (Sent(s, q)' <=> Sent(s, q))
  BY <1>1, <1>6, SameInputs DEF Sent, HasSent
<1>9. /\ coll[d] = coll[r] => Sent(r, d)'
      /\ Sent(r, d) => Sent(r, d)'
  BY <1>1, <1>2, <1>7, SameInputs DEF Sent, HasSent
<1>10. QueuesFit'
  <2> SUFFICES ASSUME NEW q \in Ranks, NEW s \in Ranks, pc[q] = "main"
               PROVE  /\ send'[q][s] = "offsets" => Running(q) \in CastKinds
                      /\ send'[q][s] = "token" => Flow(coll[q], q, s) > 0
    BY <1>1, SameInputs DEF QueuesFit, Running
  <2>1. CASE ~(q = r /\ s = d)
    BY <1>6, <2>1 DEF QueuesFit
  <2>2. CASE q = r /\ s = d
    BY <1>7, <2>2
  <2>3. QED
    BY <2>1, <2>2
<1>11. Running(r) \in CastKinds => \A w \in PrefixWords : mem'[d][w] = mem[d][w]
  BY <1>2, <1>3, <1>4, ClearedIsMeta
<1>12. \A w \in MetaWords(Running(r)) : w # tail => mem'[d][w] = mem[d][w]
  BY <1>2, <1>3, <1>4, ClearedIsMeta
<1>13. mem'[d][tail] = <<coll[r], 1>> /\ \A w \in slot : mem'[d][w] = <<coll[r], r + 1>>
  BY <1>3, <1>4
<1>14. /\ RowsInPlace' /\ SumsInPlace' /\ HandleIsTrue'
       /\ MetadataZeroed'
  <2>1. Cleaned(d) => \A w \in MetaWords(Running(d)) : mem'[d][w] = mem[d][w] \/ mem'[d][w][1] = coll[d]
    BY <1>2, <1>12, <1>13
  <2>2. QED
    BY <1>1, <1>4, <1>11, <2>1, QueueStep
<1>15. OffsetsTrue'
  <2>1. Cleaned(d) /\ Running(d) \in CastKinds => \A s \in Ranks :
          mem'[d][Start(s)] = mem[d][Start(s)] /\ mem'[d][End(s)] = mem[d][End(s)]
    BY <1>2, <1>12, MetaLayout
  <2>2. QED
    BY <1>1, <1>4, <1>11, <2>1, QueueStep
<1>16. ASSUME Cleaned(d), NEW s \in Ranks, s # r
       PROVE  /\ mem'[d][Tail(Running(d), s)] = mem[d][Tail(Running(d), s)]
              /\ \A w \in SlotOf(Running(d), s) : mem'[d][w] = mem[d][w]
  <2>1. Tail(Running(d), s) # tail /\ Tail(Running(d), s) \in MetaWords(Running(r))
    BY <1>2, <1>16, MetaLayout
  <2>2. \A w \in SlotOf(Running(d), s) : w \in Words /\ w \notin slot /\ w # tail
    BY <1>2, <1>3, <1>16, SlotLayout
  <2>3. QED
    BY <1>4, <1>12, <2>1, <2>2
<1>17. TailsTrue'
  <2>1. Cleaned(d) => \A s \in Ranks :
          mem'[d][Tail(Running(d), s)] = mem[d][Tail(Running(d), s)] \/ Sent(s, d)'
    BY <1>2, <1>9, <1>16
  <2>2. \A q, s \in Ranks : Sent(s, q) => Sent(s, q)'
    BY <1>8, <1>9
  <2>3. QED
    BY <1>1, <1>4, <1>11, <2>1, <2>2, QueueStep
<1>18. TokensInPlace'
  <2>1. ASSUME Cleaned(d), NEW s \in Ranks, Sent(s, d)'
        PROVE  /\ mem'[d][Tail(Running(d), s)] = <<coll[d], 1>>
               /\ \A w \in SlotOf(Running(d), s) : mem'[d][w] = <<coll[d], s + 1>>
    <3>1. CASE s = r
      BY <1>2, <1>13, <2>1, <3>1
    <3>2. CASE s # r
      BY <1>8, <1>16, <2>1, <3>2 DEF TokensInPlace
    <3>3. QED
      BY <3>1, <3>2
  <2>2. \A q \in Ranks \ {d}, s \in Ranks : Sent(s, q)' => Sent(s, q)
    BY <1>8
  <2>3. QED
    BY <1>1, <1>4, <1>11, <2>1, <2>2, QueueStep
<1>19. QED
  BY <1>5, <1>10, <1>14, <1>15, <1>17, <1>18

LEMMA RecvOffsetsMemory ==
  ASSUME StreamInv, MemoryInv, NEW r \in Ranks, NEW s \in Ranks, RecvOffsets(r, s)
  PROVE  MemoryInv'
<1> USE DEF MemoryInv
<1> DEFINE next == IF Announce(Value(r, End(s))) - Announce(Value(r, Start(s))) > 0 THEN "token" ELSE "done"
<1>1. /\ UNCHANGED <<inputs, coll, pc, rows, saved>> /\ UNCHANGED <<plan, sent, coll, pc, saved, mem, send, got>>
      /\ pc[r] = "main" /\ recv[r][s] = "offsets" /\ recv' = [recv EXCEPT ![r][s] = next]
      /\ Value(r, Start(s)) # 0 /\ Value(r, End(s)) # 0
  BY DEF RecvOffsets, inputs
<1>2. coll[r] \in Colls /\ Running(r) \in CastKinds /\ Cleaned(r) /\ got[r][s] = Garbage
  BY <1>1, MainPeers DEF QueuesFit
<1>3. Flow(coll[r], s, r) \in {0, 1}
  BY <1>2, FlowType
<1>4. Value(r, Start(s)) = Announce(0) /\ Value(r, End(s)) = Announce(Flow(coll[r], s, r))
  BY <1>1, <1>2 DEF OffsetsTrue
<1>5. next = IF Flow(coll[r], s, r) > 0 THEN "token" ELSE "done"
  BY <1>3, <1>4 DEF Announce
<1>6. next \in QueuePcs
  BY DEF QueuePcs
<1>7. recv' \in [Ranks -> [Ranks -> QueuePcs]]
  BY <1>1, <1>6 DEF MemoryTypes
<1>8. MemoryTypes'
  BY <1>1, <1>7 DEF MemoryTypes
<1>9. \A q, p \in Ranks : Sent(p, q)' <=> Sent(p, q)
  BY <1>1, SameInputs DEF Sent, HasSent
<1>10. QueuesFit'
  <2> SUFFICES ASSUME NEW q \in Ranks, NEW p \in Ranks, pc[q] = "main"
               PROVE  /\ recv'[q][p] = "offsets" => Running(q) \in CastKinds
                      /\ recv'[q][p] = "token" => Flow(coll[q], p, q) > 0
                      /\ got[q][p] = IF recv'[q][p] = "done" /\ Flow(coll[q], p, q) > 0
                                     THEN <<coll[q], p + 1>> ELSE Garbage
    BY <1>1, SameInputs DEF QueuesFit, Running
  <2>1. CASE ~(q = r /\ p = s)
    <3>1. recv'[q][p] = recv[q][p]
      BY <1>1, <2>1 DEF MemoryTypes
    <3>2. QED
      BY <3>1 DEF QueuesFit
  <2>2. CASE q = r /\ p = s
    <3>1. recv'[r][s] = next
      BY <1>1 DEF MemoryTypes
    <3>2. QED
      BY <1>2, <1>5, <2>2, <3>1
  <2>3. QED
    BY <2>1, <2>2
<1>11. mem' = [mem EXCEPT ![r] = [w \in Words |-> mem'[r][w]]] /\ \A w : mem'[r][w] = mem[r][w]
  BY <1>1 DEF MemoryTypes
<1>12. /\ RowsInPlace' /\ SumsInPlace' /\ HandleIsTrue' /\ MetadataZeroed'
  BY <1>1, <1>11, QueueStep
<1>13. OffsetsTrue' /\ TailsTrue'
  BY <1>1, <1>9, <1>11, QueueStep
<1>14. TokensInPlace'
  <2>1. \A q \in Ranks : Running(q)' = Running(q) /\ (Cleaned(q)' <=> Cleaned(q))
    BY <1>1 DEF Running, Cleaned
  <2>2. QED
    BY <1>1, <1>9, <2>1 DEF TokensInPlace
<1>15. QED
  BY <1>8, <1>10, <1>12, <1>13, <1>14

LEMMA RecvTokenMemory ==
  ASSUME StreamInv, MemoryInv, NEW r \in Ranks, NEW s \in Ranks, RecvToken(r, s)
  PROVE  MemoryInv'
<1> USE DEF MemoryInv
<1> DEFINE head == Head(Running(r), s)
           taken == mem[r][DataBase(Running(r)) + s * SlotWords]
<1>1. /\ UNCHANGED <<inputs, coll, pc, rows, saved>> /\ UNCHANGED <<plan, sent, coll, pc, saved, send>>
      /\ pc[r] = "main" /\ recv[r][s] = "token" /\ recv' = [recv EXCEPT ![r][s] = "done"]
      /\ Value(r, Tail(Running(r), s)) # 0
      /\ got' = [got EXCEPT ![r][s] = taken]
      /\ mem' = [mem EXCEPT ![r][head] = <<coll[r], Value(r, Tail(Running(r), s))>>]
  BY DEF RecvToken, inputs
<1>2. coll[r] \in Colls /\ Running(r) \in Kinds /\ Cleaned(r) /\ Flow(coll[r], s, r) > 0
  BY <1>1, MainPeers DEF QueuesFit
<1>3. taken = <<coll[r], s + 1>>
  <2>1. Sent(s, r)
    BY <1>1, <1>2 DEF TailsTrue
  <2>2. \A w \in SlotOf(Running(r), s) : mem[r][w] = <<coll[r], s + 1>>
    BY <1>2, <2>1 DEF TokensInPlace
  <2>3. QED
    BY <1>2, <2>2, SlotLayout
<1>4. /\ head \in MetaWords(Running(r)) /\ head \in Words
      /\ Running(r) \in CastKinds => head \notin PrefixWords
  BY <1>2, MetaLayout, ClearedIsMeta
<1>5. /\ mem' = [mem EXCEPT ![r] = [w \in Words |-> mem'[r][w]]]
      /\ mem'[r][head][1] = coll[r]
      /\ \A w \in Words \ {head} : mem'[r][w] = mem[r][w]
  <2> DEFINE a == <<coll[r], Value(r, Tail(Running(r), s))>>
  <2>1. mem' = [mem EXCEPT ![r] = [mem[r] EXCEPT ![head] = a]]
    BY <1>1 DEF MemoryTypes
  <2>2. mem'[r] = [mem[r] EXCEPT ![head] = a] /\ mem' = [mem EXCEPT ![r] = mem'[r]]
    BY <2>1 DEF MemoryTypes
  <2>3. mem[r] = [w \in Words |-> mem[r][w]]
    BY DEF MemoryTypes
  <2>4. mem'[r] = [w \in Words |-> mem'[r][w]]
    BY <2>2, <2>3
  <2>5. mem'[r][head] = a
    BY <1>4, <2>2, <2>3
  <2>6. a[1] = coll[r]
    OBVIOUS
  <2>7. QED
    BY <2>2, <2>3, <2>4, <2>5, <2>6
<1>6. MemoryTypes'
  <2>1. recv' \in [Ranks -> [Ranks -> QueuePcs]]
    BY <1>1 DEF MemoryTypes, QueuePcs
  <2>2. mem' = [q \in Ranks |-> [w \in Words |-> mem'[q][w]]]
    BY <1>5 DEF MemoryTypes
  <2>3. got' = [q \in Ranks |-> [p \in Ranks |-> got'[q][p]]]
    BY <1>1 DEF MemoryTypes
  <2>4. QED
    BY <1>1, <2>1, <2>2, <2>3 DEF MemoryTypes
<1>7. \A q, p \in Ranks : Sent(p, q)' <=> Sent(p, q)
  BY <1>1, SameInputs DEF Sent, HasSent
<1>8. QueuesFit'
  <2> SUFFICES ASSUME NEW q \in Ranks, NEW p \in Ranks, pc[q] = "main"
               PROVE  /\ recv'[q][p] = "offsets" => Running(q) \in CastKinds
                      /\ recv'[q][p] = "token" => Flow(coll[q], p, q) > 0
                      /\ got'[q][p] = IF recv'[q][p] = "done" /\ Flow(coll[q], p, q) > 0
                                      THEN <<coll[q], p + 1>> ELSE Garbage
    BY <1>1, SameInputs DEF QueuesFit, Running
  <2>1. CASE ~(q = r /\ p = s)
    <3>1. recv'[q][p] = recv[q][p] /\ got'[q][p] = got[q][p]
      BY <1>1, <2>1 DEF MemoryTypes
    <3>2. QED
      BY <3>1 DEF QueuesFit
  <2>2. CASE q = r /\ p = s
    <3>1. recv'[r][s] = "done" /\ got'[r][s] = taken
      BY <1>1 DEF MemoryTypes
    <3>2. QED
      BY <1>2, <1>3, <2>2, <3>1
  <2>3. QED
    BY <2>1, <2>2
<1>9. Running(r) \in CastKinds => \A w \in PrefixWords : mem'[r][w] = mem[r][w]
  BY <1>2, <1>4, <1>5, ClearedIsMeta
<1>10. \A p \in Ranks :
         /\ mem'[r][Tail(Running(r), p)] = mem[r][Tail(Running(r), p)]
         /\ \A w \in SlotOf(Running(r), p) : mem'[r][w] = mem[r][w]
         /\ Running(r) \in CastKinds =>
              mem'[r][Start(p)] = mem[r][Start(p)] /\ mem'[r][End(p)] = mem[r][End(p)]
  <2> TAKE p \in Ranks
  <2>1. Tail(Running(r), p) \in Words \ {head}
    BY <1>2, MetaLayout, ClearedIsMeta
  <2>2. \A w \in SlotOf(Running(r), p) : w \in Words \ {head}
    BY <1>2, <1>4, SlotLayout
  <2>3. Running(r) \in CastKinds => Start(p) \in Words \ {head} /\ End(p) \in Words \ {head}
    BY <1>2, MetaLayout, ClearedIsMeta
  <2>4. QED
    BY <1>5, <2>1, <2>2, <2>3
<1>11. \A w \in MetaWords(Running(r)) : mem'[r][w] = mem[r][w] \/ mem'[r][w][1] = coll[r]
  BY <1>2, <1>5, ClearedIsMeta
<1>12. RowsInPlace' /\ SumsInPlace' /\ HandleIsTrue' /\ MetadataZeroed'
  BY <1>1, <1>5, <1>9, <1>11, QueueStep
<1>13. OffsetsTrue'
  BY <1>1, <1>5, <1>9, <1>10, QueueStep
<1>14. TailsTrue'
  BY <1>1, <1>5, <1>7, <1>9, <1>10, QueueStep
<1>15. TokensInPlace'
  <2>1. \A p \in Ranks : Sent(p, r)' =>
          /\ mem'[r][Tail(Running(r), p)] = <<coll[r], 1>>
          /\ \A w \in SlotOf(Running(r), p) : mem'[r][w] = <<coll[r], p + 1>>
    BY <1>2, <1>7, <1>10 DEF TokensInPlace
  <2>2. QED
    BY <1>1, <1>5, <1>7, <1>9, <2>1, QueueStep
<1>16. QED
  BY <1>6, <1>8, <1>12, <1>13, <1>14, <1>15

\* The start and the end of a main kernel send nothing.
LEMMA StartMainMemory ==
  ASSUME StreamInv, MemoryInv, NEW r \in Ranks, StartMain(r)
  PROVE  MemoryInv'
<1> USE DEF MemoryInv
<1> DEFINE first(n) == IF IsReduce(Running(r)) THEN IF n > 0 THEN "token" ELSE "done" ELSE "offsets"
<1>1. /\ UNCHANGED inputs /\ UNCHANGED <<plan, sent, coll, rows, saved, mem>>
      /\ pc[r] = "notified" /\ pc' = [pc EXCEPT ![r] = "main"]
      /\ send' = [send EXCEPT ![r] = [d \in Ranks |-> first(Flow(coll[r], r, d))]]
      /\ recv' = [recv EXCEPT ![r] = [s \in Ranks |-> first(Flow(coll[r], s, r))]]
      /\ got' = [got EXCEPT ![r] = [s \in Ranks |-> Garbage]]
  BY DEF StartMain, Goto, inputs
<1>2. coll[r] \in Colls /\ Running(r) \in Kinds /\ pc'[r] = "main" /\ \A q \in Ranks \ {r} : pc'[q] = pc[q]
  BY <1>1 DEF StreamInv, StreamTypes, PcFits, Running
<1>3. \A n : first(n) \in QueuePcs
  BY DEF QueuePcs
<1>4. /\ \A d \in Ranks : send'[r][d] = first(Flow(coll[r], r, d))
      /\ \A s \in Ranks : recv'[r][s] = first(Flow(coll[r], s, r)) /\ got'[r][s] = Garbage
      /\ \A q \in Ranks \ {r} : send'[q] = send[q] /\ recv'[q] = recv[q] /\ got'[q] = got[q]
  BY <1>1 DEF MemoryTypes
<1>5. MemoryTypes'
  <2>1. send' \in [Ranks -> [Ranks -> QueuePcs]] /\ recv' \in [Ranks -> [Ranks -> QueuePcs]]
    BY <1>1, <1>3 DEF MemoryTypes
  <2>2. got' = [q \in Ranks |-> [p \in Ranks |-> got'[q][p]]]
    BY <1>1 DEF MemoryTypes
  <2>3. QED
    BY <1>1, <2>1, <2>2 DEF MemoryTypes
<1>6. \A q \in Ranks : /\ Cleaned(q)' <=> Cleaned(q)
                       /\ HasSums(q)' <=> HasSums(q)
                       /\ LastSaved(q)' = LastSaved(q)
                       /\ Running(q)' = Running(q)
  <2>1. \A q \in Ranks : Cleaned(q)' <=> Cleaned(q)
    BY <1>1, <1>2 DEF Cleaned
  <2>2. QED
    BY <1>1, <1>2, <2>1 DEF HasSums, Running, LastSaved
<1>7. \A s, q \in Ranks : RowWritten(s, q)' => RowWritten(s, q)
  BY <1>1, <1>2 DEF RowWritten
<1>8. \A q, w : Value(q, w)' = Value(q, w) /\ Writer(q, w)' = Writer(q, w)
  BY <1>1 DEF Value, Writer
<1>9. \A q, s \in Ranks : Sent(s, q)' <=> Sent(s, q)
  <2> SUFFICES ASSUME NEW q \in Ranks, NEW s \in Ranks
               PROVE  Sent(s, q)' <=> Sent(s, q)
    OBVIOUS
  <2>1. CASE s # r
    BY <1>1, <1>2, <1>4, <2>1, SameInputs DEF Sent, HasSent
  <2>2. CASE s = r
    <3>1. send'[r][q] = "done" => ~(Flow(coll[r], r, q) > 0)
      BY <1>4
    <3>2. QED
      BY <1>1, <1>2, <2>2, <3>1, SameInputs DEF Sent, HasSent
  <2>3. QED
    BY <2>1, <2>2
<1>10. RowsInPlace' /\ SumsInPlace' /\ HandleIsTrue'
  <2>1. RowsInPlace'
    BY <1>1, <1>7, <1>8, SameInputs DEF RowsInPlace
  <2>2. SumsInPlace'
    BY <1>1, <1>6, <1>8, SameInputs DEF SumsInPlace
  <2>3. HandleIsTrue'
    BY <1>1, <1>6, SameInputs DEF HandleIsTrue
  <2>4. QED
    BY <2>1, <2>2, <2>3
<1>11. MetadataZeroed'
  BY <1>1, <1>6, <1>8 DEF MetadataZeroed
<1>12. OffsetsTrue'
  BY <1>1, <1>6, <1>8, SameInputs DEF OffsetsTrue
<1>13. TailsTrue'
  BY <1>6, <1>8, <1>9 DEF TailsTrue
<1>14. TokensInPlace'
  BY <1>1, <1>6, <1>9 DEF TokensInPlace
<1>15. QueuesFit'
  <2> SUFFICES ASSUME NEW q \in Ranks, NEW p \in Ranks, pc'[q] = "main"
               PROVE  /\ send'[q][p] = "offsets" => Running(q) \in CastKinds
                      /\ send'[q][p] = "token" => Flow(coll[q], q, p) > 0
                      /\ recv'[q][p] = "offsets" => Running(q) \in CastKinds
                      /\ recv'[q][p] = "token" => Flow(coll[q], p, q) > 0
                      /\ got'[q][p] = IF recv'[q][p] = "done" /\ Flow(coll[q], p, q) > 0
                                      THEN <<coll[q], p + 1>> ELSE Garbage
    BY <1>1, <1>6, SameInputs DEF QueuesFit
  <2>1. CASE q # r
    BY <1>2, <1>4, <2>1 DEF QueuesFit
  <2>2. CASE q = r
    <3>1. IsReduce(Running(r)) \/ Running(r) \in CastKinds
      BY <1>2, KindCases
    <3>2. QED
      BY <1>4, <2>2, <3>1
  <2>3. QED
    BY <2>1, <2>2
<1>16. QED
  BY <1>5, <1>10, <1>11, <1>12, <1>13, <1>14, <1>15

LEMMA EndMainMemory ==
  ASSUME StreamInv, MemoryInv, NEW r \in Ranks, EndMain(r)
  PROVE  MemoryInv'
<1> USE DEF MemoryInv
<1>1. /\ UNCHANGED inputs
      /\ UNCHANGED <<plan, sent, rows, saved, mem, send, recv, got>>
      /\ pc[r] = "main" /\ pc' = [pc EXCEPT ![r] = "idle"]
      /\ coll' = [coll EXCEPT ![r] = @ + 1]
      /\ \A q \in Ranks : send[r][q] = "done"
  BY DEF EndMain, Goto, MainDone, inputs, queueVars
<1>2. /\ pc'[r] = "idle" /\ coll'[r] = coll[r] + 1
      /\ \A q \in Ranks \ {r} : pc'[q] = pc[q] /\ coll'[q] = coll[q]
      /\ \A q \in Ranks : coll[q] \in Int
  BY <1>1, SegmentIs DEF StreamInv, StreamTypes
<1>3. MemoryTypes'
  BY <1>1 DEF MemoryTypes
<1>4. ~Cleaned(r)' /\ ~HasSums(r)' /\ Cleaned(r)
  BY <1>1, <1>2 DEF Cleaned, HasSums
<1>5. \A q \in Ranks \ {r} : /\ Cleaned(q)' <=> Cleaned(q)
                             /\ HasSums(q)' <=> HasSums(q)
                             /\ Running(q)' = Running(q)
  BY <1>1, <1>2 DEF Cleaned, HasSums, Running
<1>6. \A q \in Ranks : LastSaved(q)' = LastSaved(q)
  <2>1. \A q \in Ranks \ {r} : LastSaved(q)' = LastSaved(q)
    BY <1>2, <1>5 DEF LastSaved
  <2>2. LastSaved(r)' = LastSaved(r)
    BY <1>2, <1>4 DEF LastSaved
  <2>3. QED
    BY <2>1, <2>2
<1>7. \A s, q \in Ranks : RowWritten(s, q)' => RowWritten(s, q) /\ coll'[q] = coll[q]
  BY <1>1, <1>2 DEF RowWritten
<1>8. \A q, w : Value(q, w)' = Value(q, w) /\ Writer(q, w)' = Writer(q, w)
  BY <1>1 DEF Value, Writer
<1>9. \A q \in Ranks \ {r}, s \in Ranks : Sent(s, q)' <=> Sent(s, q)
  <2> SUFFICES ASSUME NEW q \in Ranks \ {r}, NEW s \in Ranks
               PROVE  Sent(s, q)' <=> Sent(s, q)
    OBVIOUS
  <2>1. CASE s # r
    BY <1>1, <1>2, <2>1, SameInputs DEF Sent, HasSent
  <2>2. CASE s = r
    <3>1. Sent(r, q)' <=> coll[r] + 1 > coll[q] /\ Flow(coll[q], r, q) > 0
      BY <1>1, <1>2, SameInputs DEF Sent, HasSent
    <3>2. Sent(r, q) <=> coll[r] >= coll[q] /\ Flow(coll[q], r, q) > 0
      BY <1>1, <1>2 DEF Sent, HasSent
    <3>3. coll[r] + 1 > coll[q] <=> coll[r] >= coll[q]
      BY <1>2
    <3>4. QED
      BY <2>2, <3>1, <3>2, <3>3
  <2>3. QED
    BY <2>1, <2>2
<1>10. RowsInPlace'
  BY <1>7, <1>8, SameInputs, <1>1 DEF RowsInPlace
<1>11. SumsInPlace'
  BY <1>1, <1>2, <1>4, <1>5, <1>8, SameInputs DEF SumsInPlace
<1>12. HandleIsTrue'
  BY <1>1, <1>6, SameInputs DEF HandleIsTrue
<1>13. MetadataZeroed'
  BY <1>2, <1>4, <1>5, <1>8 DEF MetadataZeroed
<1>14. OffsetsTrue'
  BY <1>1, <1>2, <1>4, <1>5, <1>8, SameInputs DEF OffsetsTrue
<1>15. TailsTrue'
  BY <1>4, <1>5, <1>8, <1>9 DEF TailsTrue
<1>16. TokensInPlace'
  BY <1>1, <1>2, <1>4, <1>5, <1>9 DEF TokensInPlace
<1>17. QueuesFit'
  <2>1. pc'[r] # "main"
    BY <1>2
  <2>2. QED
    BY <1>1, <1>2, <1>5, <2>1, SameInputs DEF QueuesFit
<1>18. QED
  BY <1>3, <1>10, <1>11, <1>12, <1>13, <1>14, <1>15, <1>16, <1>17

LEMMA StepMemory == StreamInv /\ MemoryInv /\ [Next]_vars => MemoryInv'
<1> SUFFICES ASSUME StreamInv, MemoryInv, [Next]_vars PROVE MemoryInv'
  OBVIOUS
<1>1. CASE Terminated \/ UNCHANGED vars
  BY <1>1, StillMemory DEF Terminated, vars
<1>2. ASSUME NEW r \in Ranks, Host(r) PROVE MemoryInv'
  BY <1>2, StillMemory DEF Host, LaunchNotify, AwaitCount, LaunchMain
<1>3. ASSUME NEW r \in Ranks, NEW q \in Ranks, Queue(r, q) PROVE MemoryInv'
  BY <1>3, SendOffsetsMemory, SendTokenMemory, RecvOffsetsMemory, RecvTokenMemory DEF Queue
<1>4. ASSUME NEW r \in Ranks, NotifyKernel(r) PROVE MemoryInv'
  <2>1. EnterBarrier(r) => MemoryInv'
    BY StillMemory DEF EnterBarrier
  <2>2. QED
    BY <1>4, <2>1, StartNotifyMemory, LeaveBarrierMemory, WriteRowMemory, EndRowsMemory,
       ColumnSumsMemory, TellCountMemory, ClearMemory DEF NotifyKernel
<1>5. ASSUME NEW r \in Ranks, MainKernel(r) PROVE MemoryInv'
  BY <1>5, StartMainMemory, EndMainMemory DEF MainKernel
<1>6. QED
  BY <1>1, <1>2, <1>3, <1>4, <1>5 DEF Next

LEMMA InitMemory == Init => MemoryInv
<1> SUFFICES ASSUME Init PROVE MemoryInv
  OBVIOUS
<1>1. MemoryTypes
  <2>1. \A h \in Colls : sent[h] \in [Ranks -> [Ranks -> {0, 1}]]
    BY CountsAssumption DEF Init
  <2>2. QED
    BY <2>1 DEF Init, MemoryTypes, QueuePcs
<1>2. \A r \in Ranks : ~Cleaned(r) /\ ~HasSums(r) /\ pc[r] # "main" /\ LastSaved(r) = 0
  BY DEF Init, Cleaned, HasSums, LastSaved
<1>3. \A r, s \in Ranks : ~RowWritten(s, r)
  BY DEF Init, RowWritten
<1>4. QED
  BY <1>1, <1>2, <1>3 DEF MemoryInv, RowsInPlace, SumsInPlace, HandleIsTrue, MetadataZeroed,
       OffsetsTrue, TailsTrue, TokensInPlace, QueuesFit

-----------------------------------------------------------------------------
(* The hosts.                                                              *)

LEMMA HostNumbers ==
  ASSUME StreamInv, HostInv, NEW r \in Ranks
  PROVE  /\ hostColl[r] \in Int /\ launched[r] \in Int /\ coll[r] \in Int
         /\ launched[r] = 2 * (hostColl[r] - 1) + IF hostPc[r] = "notify" THEN 0 ELSE 1
         /\ hostPc[r] \in {"notify", "await", "main"}
         /\ coll[r] <= hostColl[r]
BY SegmentIs, SizesAssumption DEF HostInv, HostTypes, HostAhead

\* A step of the streams that tells the host nothing.
LEMMA SilentStep ==
  ASSUME StreamInv, HostInv, UNCHANGED <<inputs, hostVars, counter>>,
         \A r \in Ranks :
           /\ pc'[r] # "idle" => launched[r] >= 2 * coll'[r] - 1
           /\ pc'[r] = "main" => launched[r] >= 2 * coll'[r]
           /\ coll'[r] <= hostColl[r]
           /\ \A c \in Colls : plan[c] = "count" => (Told(r, c)' <=> Told(r, c))
  PROVE  HostInv'
<1> USE DEF HostInv
<1>1. /\ plan' = plan /\ hostColl' = hostColl /\ hostPc' = hostPc /\ launched' = launched
      /\ recvCount' = recvCount /\ counter' = counter
  BY DEF inputs, hostVars
<1>2. \A r \in Ranks : Kind(r)' = Kind(r)
  BY <1>1 DEF Kind
<1>3. HostTypes'
  BY <1>1 DEF HostTypes
<1>4. HostAhead'
  BY <1>1 DEF HostAhead
<1>5. HostWaits'
  BY <1>1 DEF HostWaits
<1>6. CounterTrue'
  <2> SUFFICES ASSUME NEW r \in Ranks, hostPc[r] = "await"
               PROVE  /\ Kind(r) = "count"
                      /\ counter[r] = IF Told(r, hostColl[r])'
                                      THEN TruePrefix(hostColl[r], NumRanks - 1, r) ELSE -1
    BY <1>1, <1>2, SameInputs DEF CounterTrue
  <2>1. /\ Kind(r) = "count"
        /\ counter[r] = IF Told(r, hostColl[r]) THEN TruePrefix(hostColl[r], NumRanks - 1, r) ELSE -1
    BY DEF CounterTrue
  <2>2. hostColl[r] \in Colls
    BY DEF HostAhead
  <2>3. Told(r, hostColl[r])' <=> Told(r, hostColl[r])
    BY <1>1, <2>1, <2>2 DEF Kind, Told
  <2>4. QED
    BY <2>1, <2>3
<1>7. RecvCountIsRight'
  BY <1>1, <1>2, SameInputs DEF RecvCountIsRight
<1>8. QED
  BY <1>3, <1>4, <1>5, <1>6, <1>7

\* The steps of r's kernels.
LEMMA KernelStepHost ==
  ASSUME StreamInv, HostInv, NEW r \in Ranks, NEW step,
         UNCHANGED <<inputs, hostVars, counter>>, coll' = coll,
         pc' = [pc EXCEPT ![r] = step],
         step # "idle",
         pc[r] = "idle" => launched[r] >= 2 * coll[r] - 1,
         step = "main" => launched[r] >= 2 * coll[r],
         Running(r) = "count" =>
           (step \in {"clear", "barrier3", "notified", "main"}
              <=> pc[r] \in {"clear", "barrier3", "notified", "main"})
  PROVE  HostInv'
<1>1. pc'[r] = step /\ \A q \in Ranks \ {r} : pc'[q] = pc[q]
  BY DEF StreamInv, StreamTypes
<1>2. \A q \in Ranks : /\ pc'[q] # "idle" => launched[q] >= 2 * coll'[q] - 1
                       /\ pc'[q] = "main" => launched[q] >= 2 * coll'[q]
                       /\ coll'[q] <= hostColl[q]
  BY <1>1 DEF HostInv, HostAhead
<1>3. \A c \in Colls : plan[c] = "count" => (Told(r, c)' <=> Told(r, c))
  BY <1>1 DEF Told, Running
<1>4. \A q \in Ranks \ {r}, c \in Colls : Told(q, c)' <=> Told(q, c)
  BY <1>1 DEF Told
<1>5. QED
  BY <1>2, <1>3, <1>4, SilentStep

LEMMA NotifyHost ==
  ASSUME StreamInv, HostInv, NEW r \in Ranks,
         StartNotify(r) \/ LeaveBarrier(r) \/ EndRows(r) \/ ColumnSums(r) \/ Clear(r) \/ StartMain(r)
  PROVE  HostInv'
<1>1. CASE StartNotify(r)
  BY <1>1, KernelStepHost DEF StartNotify, Goto, FirstStep
<1>2. CASE LeaveBarrier(r)
  <2>1. \/ pc[r] = "barrier1" /\ AfterBarrier(r) = "rows"
        \/ pc[r] = "barrier1" /\ AfterBarrier(r) = "clear" /\ Running(r) \notin NotifyKinds
        \/ pc[r] = "barrier2" /\ AfterBarrier(r) = "sums"
        \/ pc[r] = "barrier3" /\ AfterBarrier(r) = "notified"
    BY <1>2 DEF LeaveBarrier, AtBarrier, AfterBarrier
  <2>2. UNCHANGED <<inputs, hostVars, counter>> /\ coll' = coll /\ pc' = [pc EXCEPT ![r] = AfterBarrier(r)]
    BY <1>2 DEF LeaveBarrier, Goto
  <2>3. Running(r) = "count" =>
           (AfterBarrier(r) \in {"clear", "barrier3", "notified", "main"}
              <=> pc[r] \in {"clear", "barrier3", "notified", "main"})
    BY <2>1 DEF NotifyKinds
  <2>4. AfterBarrier(r) \notin {"idle", "main"} /\ pc[r] # "idle"
    BY <2>1
  <2>5. QED
    BY <2>2, <2>3, <2>4, KernelStepHost
<1>3. CASE EndRows(r)
  BY <1>3, KernelStepHost DEF EndRows, Goto, AfterRows
<1>4. CASE ColumnSums(r)
  <2> DEFINE step == IF Running(r) = "count" THEN "count" ELSE "clear"
  <2>1. UNCHANGED <<inputs, hostVars, counter>> /\ coll' = coll /\ pc' = [pc EXCEPT ![r] = step] /\ pc[r] = "sums"
    BY <1>4 DEF ColumnSums, Goto
  <2>2. step \notin {"idle", "main"} /\ (Running(r) = "count" => step = "count")
    OBVIOUS
  <2> HIDE DEF step
  <2>3. QED
    BY <2>1, <2>2, KernelStepHost
<1>5. CASE Clear(r)
  BY <1>5, KernelStepHost DEF Clear, Goto, AfterClear
<1>6. CASE StartMain(r)
  BY <1>6, KernelStepHost DEF StartMain, Goto
<1>7. QED
  BY <1>1, <1>2, <1>3, <1>4, <1>5, <1>6

\* A kernel ends only when both kernels of its collective were launched.
LEMMA EndMainHost ==
  ASSUME StreamInv, HostInv, NEW r \in Ranks, EndMain(r)
  PROVE  HostInv'
<1>1. /\ UNCHANGED <<inputs, hostVars, counter>>
      /\ pc[r] = "main" /\ pc' = [pc EXCEPT ![r] = "idle"]
      /\ coll' = [coll EXCEPT ![r] = @ + 1]
  BY DEF EndMain, Goto
<1>2. /\ pc'[r] = "idle" /\ coll'[r] = coll[r] + 1
      /\ \A q \in Ranks \ {r} : pc'[q] = pc[q] /\ coll'[q] = coll[q]
  BY <1>1 DEF StreamInv, StreamTypes
<1>3. coll[r] + 1 <= hostColl[r]
  <2>1. launched[r] >= 2 * coll[r]
    BY <1>1 DEF HostInv, HostAhead
  <2>2. QED
    BY <2>1, HostNumbers
<1>4. \A q \in Ranks : /\ pc'[q] # "idle" => launched[q] >= 2 * coll'[q] - 1
                       /\ pc'[q] = "main" => launched[q] >= 2 * coll'[q]
                       /\ coll'[q] <= hostColl[q]
  BY <1>2, <1>3 DEF HostInv, HostAhead
<1>5. \A c \in Colls : Told(r, c)' <=> Told(r, c)
  <2> TAKE c \in Colls
  <2>1. coll[r] \in Int /\ c \in Int
    BY SegmentIs DEF Colls
  <2>2. Told(r, c)' <=> coll[r] + 1 > c
    BY <1>2 DEF Told
  <2>3. Told(r, c) <=> coll[r] > c \/ coll[r] = c
    BY <1>1 DEF Told
  <2>4. coll[r] + 1 > c <=> coll[r] > c \/ coll[r] = c
    BY <2>1
  <2>5. QED
    BY <2>2, <2>3, <2>4
<1>6. \A q \in Ranks \ {r}, c \in Colls : Told(q, c)' <=> Told(q, c)
  BY <1>2 DEF Told
<1>7. QED
  BY <1>1, <1>4, <1>5, <1>6, SilentStep

\* A stream that has a count to tell finds its host in the same collective, waiting.
LEMMA TellCountHost ==
  ASSUME StreamInv, MemoryInv, HostInv, NEW r \in Ranks, TellCount(r)
  PROVE  HostInv'
<1> USE DEF HostInv
<1>1. /\ plan' = plan /\ hostColl' = hostColl /\ hostPc' = hostPc /\ launched' = launched
      /\ recvCount' = recvCount /\ coll' = coll /\ UNCHANGED inputs
      /\ pc[r] = "count" /\ pc' = [pc EXCEPT ![r] = "clear"]
      /\ counter' = [counter EXCEPT ![r] = ColumnTotal(r)]
  BY DEF TellCount, Goto, inputs, hostVars
<1>2. /\ pc'[r] = "clear" /\ counter'[r] = ColumnTotal(r)
      /\ \A q \in Ranks \ {r} : pc'[q] = pc[q] /\ counter'[q] = counter[q]
  BY <1>1 DEF StreamInv, StreamTypes, HostTypes
<1>3. coll[r] \in Colls /\ plan[coll[r]] = "count" /\ Running(r) \in NotifyKinds
  BY <1>1 DEF StreamInv, PcFits, Running
<1>4. ColumnTotal(r) = TruePrefix(coll[r], NumRanks - 1, r)
  <2>1. NumRanks - 1 \in Ranks
    BY SizesAssumption DEF Ranks
  <2>2. HasSums(r)
    BY <1>1, <1>3 DEF HasSums
  <2>3. QED
    BY <2>1, <2>2 DEF MemoryInv, SumsInPlace, ColumnTotal
<1>5. hostColl[r] = coll[r] /\ hostPc[r] = "await"
  <2>1. ~Told(r, coll[r]) /\ coll[r] \in Int
    BY <1>1, SegmentIs DEF Told
  <2>2. ~(hostColl[r] > coll[r]) /\ ~(hostColl[r] = coll[r] /\ hostPc[r] = "main")
    BY <1>3, <2>1 DEF HostWaits
  <2>3. hostColl[r] = coll[r]
    BY <2>2, HostNumbers
  <2>4. launched[r] >= 2 * coll[r] - 1
    BY <1>1 DEF HostAhead
  <2>5. hostPc[r] # "notify"
    BY <2>3, <2>4, HostNumbers
  <2>6. QED
    BY <2>2, <2>3, <2>5, HostNumbers
<1>6. \A q \in Ranks \ {r}, c \in Colls : Told(q, c)' <=> Told(q, c)
  BY <1>1, <1>2 DEF Told
<1>7. Told(r, coll[r])' /\ \A c \in Colls : Told(r, c) => Told(r, c)'
  BY <1>1, <1>2 DEF Told
<1>8. \A q \in Ranks : Kind(q)' = Kind(q)
  BY <1>1 DEF Kind
<1>9. HostTypes'
  BY <1>1 DEF HostTypes
<1>10. HostAhead'
  BY <1>1, <1>2 DEF HostAhead
<1>11. HostWaits'
  BY <1>1, <1>6, <1>7 DEF HostWaits
<1>12. CounterTrue'
  <2> SUFFICES ASSUME NEW q \in Ranks, hostPc[q] = "await"
               PROVE  /\ Kind(q) = "count"
                      /\ counter'[q] = IF Told(q, hostColl[q])'
                                       THEN TruePrefix(hostColl[q], NumRanks - 1, q) ELSE -1
    BY <1>1, <1>8, SameInputs DEF CounterTrue
  <2>1. /\ Kind(q) = "count"
        /\ counter[q] = IF Told(q, hostColl[q]) THEN TruePrefix(hostColl[q], NumRanks - 1, q) ELSE -1
    BY DEF CounterTrue
  <2>2. CASE q = r
    <3>1. Told(r, hostColl[r])'
      BY <1>1, <1>2, <1>5 DEF Told
    <3>2. QED
      BY <1>2, <1>4, <1>5, <2>1, <2>2, <3>1
  <2>3. CASE q # r
    <3>1. Told(q, hostColl[q])' <=> Told(q, hostColl[q])
      BY <1>1, <1>2, <2>3 DEF Told
    <3>2. QED
      BY <1>2, <2>1, <2>3, <3>1
  <2>4. QED
    BY <2>2, <2>3
<1>13. RecvCountIsRight'
  BY <1>1, <1>8, SameInputs DEF RecvCountIsRight
<1>14. QED
  BY <1>9, <1>10, <1>11, <1>12, <1>13

\* A step of host r; the streams stand still.
LEMMA HostStep ==
  ASSUME StreamInv, HostInv, NEW r \in Ranks, UNCHANGED <<inputs, coll, pc>>,
         HostTypes',
         \A q \in Ranks \ {r} : /\ hostColl'[q] = hostColl[q] /\ hostPc'[q] = hostPc[q]
                                /\ launched'[q] = launched[q] /\ counter'[q] = counter[q]
                                /\ recvCount'[q] = recvCount[q],
         hostPc'[r] # "notify" => hostColl'[r] \in Colls,
         launched'[r] >= launched[r], hostColl'[r] >= hostColl[r],
         \A c \in Colls :
           plan[c] = "count" /\ (hostColl'[r] > c \/ (hostColl'[r] = c /\ hostPc'[r] = "main")) => Told(r, c),
         hostPc'[r] = "await" =>
           /\ plan[hostColl'[r]] = "count"
           /\ counter'[r] = IF Told(r, hostColl'[r])
                            THEN TruePrefix(hostColl'[r], NumRanks - 1, r) ELSE -1,
         hostPc'[r] = "main" /\ plan[hostColl'[r]] = "count" =>
           recvCount'[r] = TruePrefix(hostColl'[r], NumRanks - 1, r)
  PROVE  HostInv'
<1> USE DEF HostInv
<1>1. plan' = plan /\ coll' = coll /\ pc' = pc
  BY DEF inputs
<1>2. \A q \in Ranks : \A c : Told(q, c)' <=> Told(q, c)
  BY <1>1 DEF Told
<1>3. HostAhead'
  <2>1. launched[r] \in Int /\ hostColl[r] \in Int /\ coll[r] \in Int
        /\ launched'[r] \in Int /\ hostColl'[r] \in Int
    BY HostNumbers, SizesAssumption DEF HostTypes
  <2>2. /\ pc[r] # "idle" => launched'[r] >= 2 * coll[r] - 1
        /\ pc[r] = "main" => launched'[r] >= 2 * coll[r]
        /\ coll[r] <= hostColl'[r]
    BY <2>1 DEF HostAhead
  <2>3. QED
    BY <1>1, <2>2 DEF HostAhead
<1>4. HostWaits'
  BY <1>1, <1>2 DEF HostWaits
<1>5. CounterTrue'
  <2> SUFFICES ASSUME NEW q \in Ranks, hostPc'[q] = "await"
               PROVE  /\ plan[hostColl'[q]] = "count"
                      /\ counter'[q] = IF Told(q, hostColl'[q])
                                       THEN TruePrefix(hostColl'[q], NumRanks - 1, q) ELSE -1
    BY <1>1, <1>2, SameInputs DEF CounterTrue, Kind
  <2>1. CASE q = r
    BY <2>1
  <2>2. CASE q # r
    BY <2>2 DEF CounterTrue, Kind
  <2>3. QED
    BY <2>1, <2>2
<1>6. RecvCountIsRight'
  <2> SUFFICES ASSUME NEW q \in Ranks, hostPc'[q] = "main", plan[hostColl'[q]] = "count"
               PROVE  recvCount'[q] = TruePrefix(hostColl'[q], NumRanks - 1, q)
    BY <1>1, SameInputs DEF RecvCountIsRight, Kind
  <2>1. CASE q = r
    BY <2>1
  <2>2. CASE q # r
    BY <2>2 DEF RecvCountIsRight, Kind
  <2>3. QED
    BY <2>1, <2>2
<1>7. QED
  BY <1>3, <1>4, <1>5, <1>6

LEMMA LaunchNotifyHost ==
  ASSUME StreamInv, HostInv, NEW r \in Ranks, LaunchNotify(r)
  PROVE  HostInv'
<1> USE DEF HostInv
<1>1. /\ UNCHANGED <<inputs, coll, pc>> /\ hostColl' = hostColl /\ recvCount' = recvCount
      /\ hostPc[r] = "notify" /\ hostColl[r] \in Colls
      /\ launched' = [launched EXCEPT ![r] = @ + 1]
      /\ hostPc' = [hostPc EXCEPT ![r] = IF Kind(r) = "count" THEN "await" ELSE "main"]
      /\ counter' = IF Kind(r) = "count" THEN [counter EXCEPT ![r] = -1] ELSE counter
  BY SizesAssumption DEF LaunchNotify, CounterReset, HostTypes, Colls
<1>2. /\ \A q \in Ranks \ {r} : hostPc'[q] = hostPc[q] /\ launched'[q] = launched[q] /\ counter'[q] = counter[q]
      /\ hostPc'[r] = IF Kind(r) = "count" THEN "await" ELSE "main"
      /\ launched'[r] = launched[r] + 1
      /\ Kind(r) = "count" => counter'[r] = -1
  BY <1>1 DEF HostTypes
<1>3. HostTypes'
  <2>1. hostPc' \in [Ranks -> {"notify", "await", "main"}]
    BY <1>1 DEF HostTypes
  <2>2. launched' = [q \in Ranks |-> 2 * (hostColl'[q] - 1) + IF hostPc'[q] = "notify" THEN 0 ELSE 1]
    <3>1. \A q \in Ranks : launched'[q] = 2 * (hostColl'[q] - 1) + IF hostPc'[q] = "notify" THEN 0 ELSE 1
      BY <1>1, <1>2, HostNumbers
    <3>2. launched' = [q \in Ranks |-> launched'[q]]
      BY <1>1 DEF HostTypes
    <3>3. QED
      BY <3>1, <3>2
  <2>3. counter' = [q \in Ranks |-> counter'[q]]
    BY <1>1 DEF HostTypes
  <2>4. QED
    BY <1>1, <2>1, <2>2, <2>3 DEF HostTypes
<1>4. ~Told(r, hostColl[r])
  <2>1. pc[r] # "idle" => launched[r] >= 2 * coll[r] - 1
    BY DEF HostAhead
  <2>2. QED
    BY <1>1, <2>1, HostNumbers DEF Told
<1>5. \A c \in Colls :
        plan[c] = "count" /\ (hostColl'[r] > c \/ (hostColl'[r] = c /\ hostPc'[r] = "main")) => Told(r, c)
  BY <1>1, <1>2 DEF HostWaits, Kind
<1>6. launched'[r] >= launched[r] /\ hostColl'[r] >= hostColl[r]
  BY <1>1, <1>2, HostNumbers
<1>7. QED
  BY <1>1, <1>2, <1>3, <1>4, <1>5, <1>6, HostStep DEF Kind

LEMMA AwaitCountHost ==
  ASSUME StreamInv, HostInv, NEW r \in Ranks, AwaitCount(r)
  PROVE  HostInv'
<1> USE DEF HostInv
<1>1. /\ UNCHANGED <<inputs, coll, pc>> /\ hostColl' = hostColl /\ counter' = counter /\ launched' = launched
      /\ hostPc[r] = "await" /\ counter[r] >= 0
      /\ recvCount' = [recvCount EXCEPT ![r] = counter[r]]
      /\ hostPc' = [hostPc EXCEPT ![r] = "main"]
  BY DEF AwaitCount
<1>2. /\ \A q \in Ranks \ {r} : hostPc'[q] = hostPc[q] /\ recvCount'[q] = recvCount[q]
      /\ hostPc'[r] = "main" /\ recvCount'[r] = counter[r]
  BY <1>1 DEF HostTypes
<1>3. HostTypes'
  <2>1. hostPc' \in [Ranks -> {"notify", "await", "main"}]
    BY <1>1 DEF HostTypes
  <2>2. \A q \in Ranks : hostPc'[q] = "notify" <=> hostPc[q] = "notify"
    BY <1>1, <1>2
  <2>3. launched' = [q \in Ranks |-> 2 * (hostColl'[q] - 1) + IF hostPc'[q] = "notify" THEN 0 ELSE 1]
    BY <1>1, <2>2 DEF HostTypes
  <2>4. recvCount' = [q \in Ranks |-> recvCount'[q]]
    BY <1>1 DEF HostTypes
  <2>5. QED
    BY <1>1, <2>1, <2>3, <2>4 DEF HostTypes
<1>4. /\ Told(r, hostColl[r]) /\ hostColl[r] \in Colls
      /\ counter[r] = TruePrefix(hostColl[r], NumRanks - 1, r)
  BY <1>1 DEF CounterTrue, HostAhead
<1>5. \A c \in Colls :
        plan[c] = "count" /\ (hostColl'[r] > c \/ (hostColl'[r] = c /\ hostPc'[r] = "main")) => Told(r, c)
  BY <1>1, <1>4 DEF HostWaits
<1>6. launched'[r] >= launched[r] /\ hostColl'[r] >= hostColl[r]
  BY <1>1, HostNumbers
<1>7. QED
  BY <1>1, <1>2, <1>3, <1>4, <1>5, <1>6, HostStep

LEMMA LaunchMainHost ==
  ASSUME StreamInv, HostInv, NEW r \in Ranks, LaunchMain(r)
  PROVE  HostInv'
<1> USE DEF HostInv
<1>1. /\ UNCHANGED <<inputs, coll, pc>> /\ counter' = counter /\ recvCount' = recvCount
      /\ hostPc[r] = "main" /\ hostColl[r] \in Colls
      /\ launched' = [launched EXCEPT ![r] = @ + 1]
      /\ hostColl' = [hostColl EXCEPT ![r] = @ + 1]
      /\ hostPc' = [hostPc EXCEPT ![r] = "notify"]
  BY DEF LaunchMain, HostAhead
<1>2. /\ \A q \in Ranks \ {r} : hostPc'[q] = hostPc[q] /\ launched'[q] = launched[q] /\ hostColl'[q] = hostColl[q]
      /\ hostPc'[r] = "notify" /\ launched'[r] = launched[r] + 1 /\ hostColl'[r] = hostColl[r] + 1
  BY <1>1 DEF HostTypes
<1>3. HostTypes'
  <2>1. hostPc' \in [Ranks -> {"notify", "await", "main"}]
    BY <1>1 DEF HostTypes
  <2>2. hostColl' \in [Ranks -> 1 .. NumColls + 1]
    BY <1>1, SizesAssumption DEF HostTypes, Colls
  <2>3. launched' = [q \in Ranks |-> 2 * (hostColl'[q] - 1) + IF hostPc'[q] = "notify" THEN 0 ELSE 1]
    <3>1. \A q \in Ranks : launched'[q] = 2 * (hostColl'[q] - 1) + IF hostPc'[q] = "notify" THEN 0 ELSE 1
      BY <1>1, <1>2, HostNumbers
    <3>2. launched' = [q \in Ranks |-> launched'[q]]
      BY <1>1 DEF HostTypes
    <3>3. QED
      BY <3>1, <3>2
  <2>4. QED
    BY <1>1, <2>1, <2>2, <2>3 DEF HostTypes
<1>4. \A c \in Colls :
        plan[c] = "count" /\ (hostColl'[r] > c \/ (hostColl'[r] = c /\ hostPc'[r] = "main")) => Told(r, c)
  <2> SUFFICES ASSUME NEW c \in Colls, plan[c] = "count", hostColl[r] + 1 > c
               PROVE  Told(r, c)
    BY <1>2
  <2>1. hostColl[r] > c \/ (hostColl[r] = c /\ hostPc[r] = "main")
    BY <1>1, HostNumbers DEF Colls
  <2>2. QED
    BY <2>1 DEF HostWaits
<1>5. launched'[r] >= launched[r] /\ hostColl'[r] >= hostColl[r]
  BY <1>2, HostNumbers
<1>6. QED
  BY <1>1, <1>2, <1>3, <1>4, <1>5, HostStep

LEMMA StillHost ==
  ASSUME StreamInv, HostInv, UNCHANGED <<inputs, hostVars, counter, coll, pc>>
  PROVE  HostInv'
<1>1. pc' = pc /\ coll' = coll
  OBVIOUS
<1>2. \A r \in Ranks, c \in Colls : Told(r, c)' <=> Told(r, c)
  BY <1>1 DEF Told
<1>3. \A r \in Ranks : /\ pc'[r] # "idle" => launched[r] >= 2 * coll'[r] - 1
                       /\ pc'[r] = "main" => launched[r] >= 2 * coll'[r]
                       /\ coll'[r] <= hostColl[r]
  BY <1>1 DEF HostInv, HostAhead
<1>4. QED
  BY <1>2, <1>3, SilentStep

LEMMA StepHost == StreamInv /\ MemoryInv /\ HostInv /\ [Next]_vars => HostInv'
<1> SUFFICES ASSUME StreamInv, MemoryInv, HostInv, [Next]_vars PROVE HostInv'
  OBVIOUS
<1>1. CASE Terminated \/ UNCHANGED vars
  BY <1>1, StillHost DEF Terminated, vars
<1>2. ASSUME NEW r \in Ranks, Host(r) PROVE HostInv'
  BY <1>2, LaunchNotifyHost, AwaitCountHost, LaunchMainHost DEF Host
<1>3. ASSUME NEW r \in Ranks, NEW q \in Ranks, Queue(r, q) PROVE HostInv'
  BY <1>3, StillHost DEF Queue, SendOffsets, SendToken, RecvOffsets, RecvToken
<1>4. ASSUME NEW r \in Ranks, NotifyKernel(r) PROVE HostInv'
  <2>1. EnterBarrier(r) \/ (\E d \in Ranks : WriteRow(r, d)) => HostInv'
    BY StillHost DEF EnterBarrier, WriteRow
  <2>2. QED
    BY <1>4, <2>1, NotifyHost, TellCountHost DEF NotifyKernel
<1>5. ASSUME NEW r \in Ranks, MainKernel(r) PROVE HostInv'
  BY <1>5, NotifyHost, EndMainHost DEF MainKernel
<1>6. QED
  BY <1>1, <1>2, <1>3, <1>4, <1>5 DEF Next

LEMMA InitHost == Init => HostInv
<1> SUFFICES ASSUME Init PROVE HostInv
  OBVIOUS
<1>1. HostTypes
  BY SizesAssumption DEF Init, HostTypes
<1>2. HostAhead
  BY DEF Init, HostAhead
<1>3. HostWaits
  BY DEF Init, HostWaits, Colls
<1>4. CounterTrue /\ RecvCountIsRight
  BY DEF Init, CounterTrue, RecvCountIsRight
<1>5. QED
  BY <1>1, <1>2, <1>3, <1>4 DEF HostInv

-----------------------------------------------------------------------------
(* What the runs check, for every number of ranks, collectives and counts. *)

\* What ranks, peers and hosts have done so far, and what the words of the reused
\* buffers then hold, is as IInv says in every state.
THEOREM Invariance == Spec => []IInv
<1>1. Init => IInv
  BY InitStream, InitMemory, InitHost DEF IInv
<1>2. IInv /\ [Next]_vars => IInv'
  BY StepStream, StepMemory, StepHost DEF IInv
<1>3. QED
  BY <1>1, <1>2, PTL DEF Spec

\* The main kernel of a rank finds in its metadata only zeroes and what the peers
\* wrote for this very collective: intranode_notify zeroes it between two barriers.
THEOREM CurrentMetadata == Spec => []MetadataIsCurrent
<1>1. IInv => MetadataIsCurrent
  BY DEF IInv, MemoryInv, MetadataZeroed, MetadataIsCurrent, Cleaned
<1>2. QED
  BY <1>1, Invariance, PTL

\* Whatever a peer has sent to a rank stays in the rank's buffer, tail and data,
\* until the rank has taken it, although the words held other metadata before and
\* fast peers are already in the next collective.
THEOREM NoLoss == Spec => []NothingIsLost
<1>1. IInv => NothingIsLost
  <2> SUFFICES ASSUME IInv, NEW r \in Ranks, NEW s \in Ranks,
                      HasSent(s, r, coll[r]), Flow(coll[r], s, r) > 0
               PROVE  /\ mem[r][Tail(plan[coll[r]], s)] = <<coll[r], 1>>
                      /\ \A w \in SlotOf(plan[coll[r]], s) : Writer(r, w) = coll[r]
    BY DEF NothingIsLost
  <2>1. Cleaned(r) /\ Sent(s, r)
    BY SentMeansCleaned DEF IInv, Sent
  <2>2. /\ mem[r][Tail(Running(r), s)] = <<coll[r], 1>>
        /\ \A w \in SlotOf(Running(r), s) : mem[r][w] = <<coll[r], s + 1>>
    BY <2>1 DEF IInv, MemoryInv, TokensInPlace
  <2>3. QED
    BY <2>2 DEF Writer, Running
<1>2. QED
  BY <1>1, Invariance, PTL

\* A receiver of a main kernel takes exactly the token that the source sent in this
\* collective, and nothing if the source had nothing to send.
THEOREM ExactDelivery == Spec => []DeliveredIsSent
<1>1. IInv => DeliveredIsSent
  BY DEF IInv, MemoryInv, QueuesFit, DeliveredIsSent
<1>2. QED
  BY <1>1, Invariance, PTL

\* The prefix matrix in the buffer and the copy kept with the handle stay true to
\* the counts of all ranks throughout the main kernel of a cast.
THEOREM TrueMatrix == Spec => []PrefixIsTrue
<1>1. IInv => PrefixIsTrue
  <2> SUFFICES ASSUME IInv, NEW r \in Ranks, pc[r] = "main", Running(r) \in CastKinds,
                      NEW i \in Ranks, NEW j \in Ranks
               PROVE  /\ Value(r, Prefix(i, j)) = TruePrefix(coll[r], i, j)
                      /\ saved[r][Prefix(i, j)] = TruePrefix(coll[r], i, j)
    BY DEF PrefixIsTrue
  <2>1. HasSums(r) /\ LastSaved(r) = coll[r] /\ coll[r] \in Colls
    BY DEF HasSums, Cleaned, LastSaved, IInv, StreamInv, PcFits
  <2>2. coll[r] > 0
    BY <2>1 DEF Colls
  <2>3. QED
    BY <2>1, <2>2 DEF IInv, MemoryInv, SumsInPlace, HandleIsTrue
<1>2. QED
  BY <1>1, Invariance, PTL

\* The count by which the host allocates its output is that of the collective it
\* has just launched, never one left over from the collective before.
THEOREM TrueCount == Spec => []RecvCountIsRight
<1>1. IInv => RecvCountIsRight
  BY DEF IInv, HostInv
<1>2. QED
  BY <1>1, Invariance, PTL
===============================================================================
