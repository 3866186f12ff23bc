------------------------ MODULE SplittingExporterProofs ------------------------
(***************************************************************************)
(* What one Export call makes of its cycle, for every cap, every cycle and *)
(* every choice of sizes.                                                  *)
(*                                                                         *)
(* The scan has a position in the cycle. What lies before it is in the     *)
(* batches, the current one included, and nothing else is: that is         *)
(* Covered, and with Advancing it yields KeepsEveryPoint.                  *)
(***************************************************************************)
EXTENDS SplittingExporter, SequenceTheorems, WellFoundedInduction, TLAPS

AnySegment == [scope : Nat \ {0}, metric : Nat \ {0}, newScope : BOOLEAN,
               from : Nat \ {0}, to : Nat \ {0}]
Batch == [size : Nat, points : Nat, segments : Seq(AnySegment)]

\* TypeOK in two parts: the position and the counts; the batches, which speak
\* of the source.
Scalars ==
    /\ src \in Seq(Scopes)
    /\ pc \in {"metric", "grow", "send", "done"}
    /\ sm \in 1 .. Len(src) + 1
    /\ m \in Nat \ {0} /\ start \in Nat \ {0}
    /\ end \in Nat /\ need \in Nat /\ sent \in Nat
    /\ failed \in 0 .. sent
BatchesTyped(cycle, bs, c) ==
    /\ IsBatch(cycle, c)
    /\ \A b \in 1 .. Len(bs) : IsBatch(cycle, bs[b]) /\ bs[b].points > 0

\* Segments of complete batches and of the one at hand.
InBatches(bs) == UNION {SegmentsOf(bs[b]) : b \in 1 .. Len(bs)}
All(bs, c) == InBatches(bs) \cup SegmentsOf(c)

\* Segments advance from batch to batch, and within each.
Advancing(bs, c) ==
    /\ InOrder(c)
    /\ \A b \in 1 .. Len(bs) : InOrder(bs[b])
    /\ \A b, d \in 1 .. Len(bs) : b < d =>
          \A x \in SegmentsOf(bs[b]), y \in SegmentsOf(bs[d]) : Precedes(x, y)
    /\ \A x \in InBatches(bs), y \in SegmentsOf(c) : Precedes(x, y)

\* The scan's position is behind a point, and behind a segment.
Passed(s, k, i) ==
    \/ s < sm
    \/ s = sm /\ k < m
    \/ s = sm /\ k = m /\ i < start
Behind(seg) == Passed(seg.scope, seg.metric, seg.to)

Covered ==
    /\ \A seg \in All(batches, cur) : Behind(seg)
    /\ \A s \in 1 .. Len(src) : \A k \in 1 .. Len(src[s].metrics) :
          \A i \in 1 .. Len(src[s].metrics[k].points) :
            Passed(s, k, i) => \E seg \in All(batches, cur) : Holds(seg, s, k, i)

\* Where the scan may be.
Position ==
    /\ pc = "metric" => (sm <= Len(src) => m <= Len(src[sm].metrics) + 1)
    /\ pc = "grow" =>
        /\ sm <= Len(src) /\ m <= Len(src[sm].metrics)
        /\ start <= Len(Points) /\ start <= end /\ end <= Len(Points) + 1
    /\ pc \in {"send", "done"} => sm > Len(src) /\ cur.segments = <<>>

\* A batch is empty or it is a request; the scope of the scan is open in the
\* current batch exactly if it has an entry there.
WellFormed(batch) ==
    /\ batch.points = 0 => batch.segments = <<>>
    /\ ScopesOnce(batch)
OpenScope == open <=> \E i \in 1 .. Len(cur.segments) : cur.segments[i].scope = sm

\* The scan's own account of a request's size.
WithinCap(batch) == batch.size <= MaxBytes \/ batch.points <= 1
Room ==
    /\ cur.points = 0 => cur.size = ResourceSize
    /\ pc = "grow" /\ end > start =>
        \/ cur.size + need <= MaxBytes
        \/ cur.points = 0 /\ end = start + 1

Batches ==
    /\ batches \in Seq(Batch) /\ cur \in Batch
    /\ \A b \in 1 .. Len(batches) : WellFormed(batches[b]) /\ WithinCap(batches[b])
    /\ WellFormed(cur) /\ WithinCap(cur)

XInv == /\ Scalars /\ open \in BOOLEAN /\ BatchesTyped(src, batches, cur)
        /\ Position /\ Batches /\ OpenScope /\ Room
        /\ Covered /\ Advancing(batches, cur)

-----------------------------------------------------------------------------
(* What flush and a new segment do to a list of batches.                   *)

FlushOf(bs, c) == IF c.points > 0 THEN Append(bs, c) ELSE bs

\* A request without points.
LEMMA EmptyBatch ==
    /\ NoPoints \in Batch /\ SegmentsOf(NoPoints) = {} /\ InOrder(NoPoints)
    /\ WellFormed(NoPoints) /\ WithinCap(NoPoints) /\ \A cycle : IsBatch(cycle, NoPoints)
<1>1. NoPoints \in Batch /\ Len(NoPoints.segments) = 0
    BY SizesAssumption DEF NoPoints, Batch
<1> QED
    BY <1>1, SizesAssumption DEF NoPoints, SegmentsOf, InOrder, WellFormed, WithinCap,
       IsBatch, ScopesOnce

\* Flushing the current request.
LEMMA FlushKeeps ==
    ASSUME NEW bs \in Seq(Batch), NEW c \in Batch, WellFormed(c)
    PROVE  /\ FlushOf(bs, c) \in Seq(Batch)
           /\ All(FlushOf(bs, c), NoPoints) = All(bs, c)
           /\ Advancing(bs, c) => Advancing(FlushOf(bs, c), NoPoints)
           /\ \A b \in 1 .. Len(FlushOf(bs, c)) :
                \/ b \in 1 .. Len(bs) /\ FlushOf(bs, c)[b] = bs[b]
                \/ FlushOf(bs, c)[b] = c /\ c.points > 0
<1>1. CASE c.points > 0
    <2> DEFINE fs == Append(bs, c)
    <2>1. FlushOf(bs, c) = fs
        BY <1>1 DEF FlushOf
    <2>2. /\ fs \in Seq(Batch) /\ Len(fs) = Len(bs) + 1 /\ fs[Len(bs) + 1] = c
          /\ \A b \in 1 .. Len(bs) : fs[b] = bs[b]
        OBVIOUS
    <2> HIDE DEF fs
    <2>3. InBatches(fs) = InBatches(bs) \cup SegmentsOf(c)
        BY <2>2 DEF InBatches
    <2>4. All(fs, NoPoints) = All(bs, c)
        BY <2>3, EmptyBatch DEF All
    <2>5. ASSUME Advancing(bs, c) PROVE Advancing(fs, NoPoints)
        <3>1. \A b \in 1 .. Len(fs) : InOrder(fs[b])
            BY <2>2, <2>5 DEF Advancing
        <3>2. ASSUME NEW b \in 1 .. Len(fs), NEW d \in 1 .. Len(fs), b < d,
                     NEW x \in SegmentsOf(fs[b]), NEW y \in SegmentsOf(fs[d])
              PROVE  Precedes(x, y)
            <4>1. b \in 1 .. Len(bs) /\ fs[b] = bs[b] /\ x \in InBatches(bs)
                BY <2>2, <3>2 DEF InBatches
            <4>2. CASE d \in 1 .. Len(bs)
                BY <2>2, <2>5, <3>2, <4>1, <4>2 DEF Advancing
            <4>3. CASE d = Len(bs) + 1
                BY <2>2, <2>5, <3>2, <4>1, <4>3 DEF Advancing
            <4> QED
                BY <2>2, <4>2, <4>3
        <3> QED
            BY <3>1, <3>2, EmptyBatch DEF Advancing
    <2> QED
        BY <1>1, <2>1, <2>2, <2>4, <2>5
<1>2. CASE c.points = 0
    <2>1. FlushOf(bs, c) = bs /\ SegmentsOf(c) = {}
        BY <1>2 DEF FlushOf, WellFormed, SegmentsOf
    <2> QED
        BY <2>1, EmptyBatch DEF All, Advancing
<1> QED
    BY <1>1, <1>2 DEF Batch

\* Adding a segment to the current request.
LEMMA SegmentKeeps ==
    ASSUME NEW bs \in Seq(Batch), NEW c \in Batch, NEW seg \in AnySegment,
           NEW size \in Nat, NEW points \in Nat, NEW g,
           g = [size |-> size, points |-> points, segments |-> Append(c.segments, seg)]
    PROVE  /\ g \in Batch
           /\ All(bs, g) = All(bs, c) \cup {seg}
           /\ Advancing(bs, c) /\ (\A x \in All(bs, c) : Precedes(x, seg))
                => Advancing(bs, g)
<1> DEFINE segs == Append(c.segments, seg)
<1>0. g.size = size /\ g.points = points /\ g.segments = segs
    OBVIOUS
<1>1. /\ Len(c.segments) \in Nat /\ segs \in Seq(AnySegment) /\ Len(segs) = Len(c.segments) + 1
      /\ segs[Len(c.segments) + 1] = seg
      /\ \A i \in 1 .. Len(c.segments) : segs[i] = c.segments[i]
      /\ c.segments \in Seq(AnySegment)
    BY DEF Batch
<1> HIDE DEF segs
<1>2. g \in Batch
    <2>1. g = [size |-> size, points |-> points, segments |-> segs]
        BY DEF segs
    <2> QED
        BY <1>1, <2>1 DEF Batch
<1>3. SegmentsOf(g) = SegmentsOf(c) \cup {seg}
    <2>1. SegmentsOf(g) = {segs[i] : i \in 1 .. Len(segs)}
        BY <1>0 DEF SegmentsOf
    <2>2. 1 .. Len(segs) = (1 .. Len(c.segments)) \cup {Len(c.segments) + 1}
        BY <1>1
    <2> QED
        BY <1>1, <2>1, <2>2 DEF SegmentsOf
<1>4. All(bs, g) = All(bs, c) \cup {seg}
    BY <1>3 DEF All
<1>5. ASSUME Advancing(bs, c), \A x \in All(bs, c) : Precedes(x, seg)
      PROVE  Advancing(bs, g)
    <2>1. ASSUME NEW i \in 1 .. Len(segs), NEW j \in 1 .. Len(segs), i < j
          PROVE  Precedes(segs[i], segs[j])
        <3>0. i \in 1 .. Len(c.segments)
            BY <1>1, <2>1
        <3>1. i \in 1 .. Len(c.segments) /\ segs[i] \in SegmentsOf(c)
            BY <1>1, <3>0 DEF SegmentsOf
        <3>2. CASE j \in 1 .. Len(c.segments)
            BY <1>1, <1>5, <2>1, <3>1, <3>2 DEF Advancing, InOrder
        <3>3. CASE j = Len(c.segments) + 1
            BY <1>1, <1>5, <3>1, <3>3 DEF All
        <3> QED
            BY <1>1, <3>2, <3>3
    <2>2. InOrder(g)
        BY <1>0, <2>1 DEF InOrder
    <2>3. \A x \in InBatches(bs), y \in SegmentsOf(g) : Precedes(x, y)
        BY <1>3, <1>5 DEF Advancing, All
    <2> QED
        BY <1>5, <2>2, <2>3 DEF Advancing
<1> QED
    BY <1>2, <1>4, <1>5

-----------------------------------------------------------------------------
(* What the source consists of.                                            *)

\* A scope of the cycle.
LEMMA ScopeTypes ==
    ASSUME Scalars, NEW s \in 1 .. Len(src)
    PROVE  /\ src[s].size \in Nat /\ src[s].metrics \in Seq(Metrics)
           /\ Len(src[s].metrics) \in Nat
<1>1. src[s] \in Scopes
    BY DEF Scalars
<1> QED
    BY <1>1 DEF Scopes

\* The metric that the scan is at.
LEMMA HereTypes ==
    ASSUME Scalars, sm <= Len(src), m <= Len(src[sm].metrics)
    PROVE  /\ sm \in 1 .. Len(src) /\ m \in 1 .. Len(src[sm].metrics)
           /\ Here.header \in Nat /\ Points \in Seq(Nat) /\ Len(Points) \in Nat
           /\ \A i \in 1 .. Len(Points) : Points[i] \in Nat
<1>1. sm \in 1 .. Len(src)
    BY DEF Scalars
<1>2. m \in 1 .. Len(src[sm].metrics)
    BY <1>1, ScopeTypes DEF Scalars
<1>3. Here \in Metrics
    BY <1>1, <1>2, ScopeTypes DEF Here
<1>4. Here.header \in Nat /\ Points \in Seq(Nat)
    BY <1>3 DEF Metrics, Points
<1> QED
    BY <1>1, <1>2, <1>4

\* The segments of all requests.
LEMMA SegmentTypes == Batches => \A seg \in All(batches, cur) : seg \in AnySegment
<1> SUFFICES ASSUME Batches PROVE \A seg \in All(batches, cur) : seg \in AnySegment
    OBVIOUS
<1>1. \A c \in Batch : SegmentsOf(c) \subseteq AnySegment
    BY DEF Batch, SegmentsOf
<1>2. cur \in Batch /\ \A b \in 1 .. Len(batches) : batches[b] \in Batch
    BY DEF Batches
<1> QED
    BY <1>1, <1>2 DEF All, InBatches

-----------------------------------------------------------------------------
(* The steps of the scan.                                                  *)

LEMMA NextScopeKeeps == XInv /\ NextScope => XInv'
<1> SUFFICES ASSUME XInv, NextScope PROVE XInv'
    OBVIOUS
<1> USE DEF XInv
<1>1. /\ sm \in 1 .. Len(src) /\ m > Len(src[sm].metrics) /\ m \in Nat \ {0}
      /\ Len(src) \in Nat /\ Len(src[sm].metrics) \in Nat
      /\ sm' = sm + 1 /\ m' = 1 /\ start' = 1 /\ open' = FALSE
      /\ UNCHANGED <<src, pc, end, need, cur, batches, sent, failed>> /\ pc = "metric"
    BY ScopeTypes DEF NextScope, Scalars, sendVars
<1>2. Scalars'
    BY <1>1 DEF Scalars
<1>3. (open \in BOOLEAN)' /\ BatchesTyped(src, batches, cur)'
    BY <1>1
<1>4. Position'
    <2>1. sm + 1 <= Len(src) => Len(src[sm + 1].metrics) \in Nat
        BY <1>1, ScopeTypes
    <2> QED
        BY <1>1, <2>1 DEF Position
<1>5. Batches' /\ Room'
    BY <1>1 DEF Batches, Room
<1>6. \A seg \in All(batches, cur) :
        seg.scope \in Nat /\ (seg.scope < sm \/ seg.scope = sm)
    BY <1>1, SegmentTypes DEF Covered, Behind, Passed, AnySegment
<1>7. OpenScope'
    <2>1. \A i \in 1 .. Len(cur.segments) : cur.segments[i] \in All(batches, cur)
        BY DEF All, SegmentsOf
    <2> QED
        BY <1>1, <1>6, <2>1 DEF OpenScope
<1>8. Covered'
    <2>1. \A seg \in All(batches', cur') : Behind(seg)'
        BY <1>1, <1>6 DEF Behind, Passed
    <2>2. ASSUME NEW s \in 1 .. Len(src), NEW k \in 1 .. Len(src[s].metrics),
                 NEW i \in 1 .. Len(src[s].metrics[k].points), Passed(s, k, i)'
          PROVE  Passed(s, k, i)
        BY <1>1, <2>2 DEF Passed
    <2> QED
        BY <1>1, <2>1, <2>2 DEF Covered
<1>9. Advancing(batches, cur)'
    BY <1>1
<1> QED
    BY <1>2, <1>3, <1>4, <1>5, <1>7, <1>8, <1>9

LEMMA NextMetricKeeps == XInv /\ NextMetric => XInv'
<1> SUFFICES ASSUME XInv, NextMetric PROVE XInv'
    OBVIOUS
<1> USE DEF XInv
<1>1. /\ sm \in 1 .. Len(src) /\ m \in 1 .. Len(src[sm].metrics)
      /\ Len(src[sm].metrics) \in Nat /\ Len(Points) \in Nat /\ start > Len(Points)
      /\ start \in Nat \ {0} /\ m' = m + 1 /\ start' = 1
      /\ UNCHANGED <<src, pc, sm, end, need, open, cur, batches, sent, failed>>
      /\ pc = "metric"
    BY HereTypes, ScopeTypes DEF NextMetric, Scalars, sendVars
<1>2. Scalars'
    BY <1>1 DEF Scalars
<1>3. (open \in BOOLEAN)' /\ BatchesTyped(src, batches, cur)'
    BY <1>1
<1>4. Position'
    BY <1>1 DEF Position
<1>5. Batches' /\ Room'
    BY <1>1 DEF Batches, Room
<1>6. OpenScope'
    BY <1>1 DEF OpenScope
<1>7. Covered'
    <2>1. \A seg \in All(batches', cur') : Behind(seg)'
        BY <1>1, SegmentTypes DEF Covered, Behind, Passed, AnySegment
    <2>2. ASSUME NEW s \in 1 .. Len(src), NEW k \in 1 .. Len(src[s].metrics),
                 NEW i \in 1 .. Len(src[s].metrics[k].points), Passed(s, k, i)'
          PROVE  Passed(s, k, i)
        <3>1. CASE s = sm /\ k = m
            BY <1>1, <3>1 DEF Passed, Points, Here
        <3>2. CASE ~(s = sm /\ k = m)
            <4>1. k \in Nat
                BY ScopeTypes
            <4> QED
                BY <1>1, <2>2, <3>2, <4>1 DEF Passed
        <3> QED
            BY <3>1, <3>2
    <2> QED
        BY <1>1, <2>1, <2>2 DEF Covered
<1>8. Advancing(batches, cur)'
    BY <1>1
<1> QED
    BY <1>2, <1>3, <1>4, <1>5, <1>6, <1>7, <1>8

\* BeginSegment and Grow move neither the position nor the batches.
LEMMA SamePosition ==
    ASSUME XInv, UNCHANGED <<src, sm, m, start, open, cur, batches>>
    PROVE  /\ (open \in BOOLEAN)' /\ BatchesTyped(src, batches, cur)' /\ Batches'
           /\ OpenScope' /\ Covered' /\ Advancing(batches, cur)'
<1> USE DEF XInv
<1>1. (open \in BOOLEAN)' /\ BatchesTyped(src, batches, cur)'
    OBVIOUS
<1>2. Batches' /\ OpenScope'
    BY DEF Batches, OpenScope
<1>3. Covered'
    BY DEF Covered, Behind, Passed
<1> QED
    BY <1>1, <1>2, <1>3

LEMMA BeginSegmentKeeps == XInv /\ BeginSegment => XInv'
<1> SUFFICES ASSUME XInv, BeginSegment PROVE XInv'
    OBVIOUS
<1> USE DEF XInv
<1>1. /\ sm \in 1 .. Len(src) /\ m \in 1 .. Len(src[sm].metrics)
      /\ Len(Points) \in Nat /\ start <= Len(Points) /\ start \in Nat \ {0}
      /\ Here.header \in Nat /\ src[sm].size \in Nat
    BY HereTypes, ScopeTypes DEF BeginSegment, Scalars
<1>2. /\ UNCHANGED <<src, sm, m, start, open, cur, batches, sent, failed>>
      /\ end' = start /\ pc' = "grow"
      /\ need' = Here.header + (IF open THEN 0 ELSE src[sm].size)
    BY DEF BeginSegment, sendVars
<1>3. need' \in Nat
    BY <1>1, <1>2
<1>4. Scalars'
    BY <1>2, <1>3 DEF Scalars
<1>5. Position'
    BY <1>1, <1>2 DEF Position, Points, Here
<1>6. Room'
    BY <1>1, <1>2 DEF Room
<1> QED
    BY <1>2, <1>4, <1>5, <1>6, SamePosition

LEMMA GrowKeeps == XInv /\ Grow => XInv'
<1> SUFFICES ASSUME XInv, Grow PROVE XInv'
    OBVIOUS
<1> USE DEF XInv
<1>1. /\ sm <= Len(src) /\ m <= Len(src[sm].metrics) /\ start <= Len(Points)
      /\ start <= end /\ end <= Len(Points) /\ start \in Nat \ {0} /\ end \in Nat
    BY DEF Grow, CanGrow, Position, Scalars
<1>2. /\ UNCHANGED <<src, pc, sm, m, start, open, cur, batches, sent, failed>>
      /\ end' = end + 1 /\ need' = need + Points[end] /\ pc = "grow"
    BY DEF Grow, sendVars
<1>3. Points[end] \in Nat /\ need \in Nat /\ cur.size \in Nat /\ Len(Points) \in Nat
    BY <1>1, HereTypes DEF Scalars, Batches, Batch
<1>4. Scalars'
    BY <1>1, <1>2, <1>3 DEF Scalars
<1>5. Position'
    BY <1>1, <1>2, <1>3 DEF Position, Points, Here
<1>6. Room'
    <2>1. \/ cur.size + need + Points[end] <= MaxBytes
          \/ cur.points = 0 /\ end = start
        BY DEF Grow, CanGrow
    <2>2. cur.size + need + Points[end] = cur.size + (need + Points[end])
        BY <1>3
    <2> QED
        BY <1>1, <1>2, <2>1, <2>2 DEF Room
<1> QED
    BY <1>2, <1>4, <1>5, <1>6, SamePosition

-----------------------------------------------------------------------------
(* The steps that start a request.                                         *)

\* What a flush of c, the current batch or what it grows to, keeps.
LEMMA FlushedKeeps ==
    ASSUME XInv, NEW c \in Batch, WellFormed(c), WithinCap(c), IsBatch(src, c),
           Advancing(batches, c), src' = src, batches' = Flushed(c), cur' = NoPoints
    PROVE  /\ BatchesTyped(src, batches, cur)' /\ Batches' /\ Advancing(batches, cur)'
           /\ All(batches', cur') = All(batches, c)
<1> USE DEF XInv
<1>1. batches' = FlushOf(batches, c)
    BY DEF Flushed, FlushOf
<1>2. batches \in Seq(Batch)
    BY DEF Batches
<1>3. /\ batches' \in Seq(Batch) /\ Advancing(batches', cur')
      /\ All(batches', cur') = All(batches, c)
      /\ \A b \in 1 .. Len(batches') :
            \/ b \in 1 .. Len(batches) /\ batches'[b] = batches[b]
            \/ batches'[b] = c /\ c.points > 0
    BY <1>1, <1>2, FlushKeeps
<1>4. BatchesTyped(src, batches, cur)'
    BY <1>3, EmptyBatch DEF BatchesTyped
<1>5. Batches'
    BY <1>3, EmptyBatch DEF Batches
<1> QED
    BY <1>3, <1>4, <1>5

LEMMA StartRequestKeeps == XInv /\ StartRequest => XInv'
<1> SUFFICES ASSUME XInv, StartRequest PROVE XInv'
    OBVIOUS
<1> USE DEF XInv
<1>1. /\ UNCHANGED <<src, sm, m, start, end, need, sent, failed>>
      /\ batches' = Flushed(cur) /\ cur' = NoPoints /\ open' = FALSE
      /\ pc = "grow" /\ pc' = "metric"
    BY DEF StartRequest, sendVars
<1>2. /\ BatchesTyped(src, batches, cur)' /\ Batches' /\ Advancing(batches, cur)'
      /\ All(batches', cur') = All(batches, cur)
    BY <1>1, FlushedKeeps DEF Batches, BatchesTyped
<1>3. Scalars' /\ (open \in BOOLEAN)'
    BY <1>1 DEF Scalars
<1>4. Position'
    <2>1. Len(src[sm].metrics) \in Nat /\ m \in Nat
        BY <1>1, HereTypes, ScopeTypes DEF Position, Scalars
    <2> QED
        BY <1>1, <2>1 DEF Position
<1>5. OpenScope' /\ Room'
    BY <1>1 DEF OpenScope, Room, NoPoints
<1>6. Covered'
    BY <1>1, <1>2 DEF Covered, Behind, Passed
<1> QED
    BY <1>2, <1>3, <1>4, <1>5, <1>6

LEMMA LastFlushKeeps == XInv /\ LastFlush => XInv'
<1> SUFFICES ASSUME XInv, LastFlush PROVE XInv'
    OBVIOUS
<1> USE DEF XInv
<1>1. /\ UNCHANGED <<src, sm, m, start, end, need, open, sent, failed>>
      /\ batches' = Flushed(cur) /\ cur' = NoPoints
      /\ pc = "metric" /\ pc' = "send" /\ sm > Len(src)
    BY DEF LastFlush, sendVars, scanVars
<1>2. /\ BatchesTyped(src, batches, cur)' /\ Batches' /\ Advancing(batches, cur)'
      /\ All(batches', cur') = All(batches, cur)
    BY <1>1, FlushedKeeps DEF Batches, BatchesTyped
<1>3. Scalars' /\ (open \in BOOLEAN)'
    BY <1>1 DEF Scalars
<1>4. Position' /\ Room'
    BY <1>1 DEF Position, NoPoints, Room
<1>5. ~open
    <2>1. \A seg \in All(batches, cur) : Behind(seg) /\ IsSegment(src, seg)
        <3>1. \A seg \in All(batches, cur) : IsSegment(src, seg)
            BY DEF All, InBatches, SegmentsOf, BatchesTyped, IsBatch
        <3> QED
            BY <3>1 DEF Covered
    <2>2. \A i \in 1 .. Len(cur.segments) : cur.segments[i].scope \in 1 .. Len(src)
        BY <2>1 DEF All, SegmentsOf, IsSegment
    <2> QED
        BY <1>1, <2>2 DEF OpenScope
<1>6. OpenScope'
    BY <1>1, <1>5 DEF OpenScope, NoPoints
<1>7. Covered'
    BY <1>1, <1>2 DEF Covered, Behind, Passed
<1> QED
    BY <1>2, <1>3, <1>4, <1>6, <1>7

\* The segment that the scan is about to add, and what the current batch grows to.
NewSegment == [scope |-> sm, metric |-> m, newScope |-> ~open,
               from |-> start, to |-> end - 1]

\* The current request with the new segment is a request, and within the cap.
LEMMA GrownKeeps ==
    ASSUME XInv, AddSegment
    PROVE  /\ NewSegment \in AnySegment /\ IsSegment(src, NewSegment)
           /\ Grown \in Batch /\ IsBatch(src, Grown)
           /\ WellFormed(Grown) /\ WithinCap(Grown)
           /\ Grown.size = cur.size + need /\ Grown.points = cur.points + (end - start)
           /\ Grown.points > 0 /\ Grown.segments = Append(cur.segments, NewSegment)
           /\ Len(Grown.segments) = Len(cur.segments) + 1 /\ Len(cur.segments) \in Nat
           /\ Grown.segments[Len(cur.segments) + 1] = NewSegment
           /\ \A i \in 1 .. Len(cur.segments) : Grown.segments[i] = cur.segments[i]
           /\ All(batches, Grown) = All(batches, cur) \cup {NewSegment}
           /\ Advancing(batches, Grown)
<1> USE DEF XInv
<1> DEFINE seg == NewSegment
<1>1. /\ sm \in 1 .. Len(src) /\ m \in 1 .. Len(src[sm].metrics)
      /\ Len(src[sm].metrics) \in Nat /\ Len(Points) \in Nat
      /\ start \in Nat \ {0} /\ end \in Nat \ {0} /\ start < end /\ end <= Len(Points) + 1
    BY HereTypes, ScopeTypes DEF AddSegment, Position, Scalars
<1>2. /\ UNCHANGED <<src, sm, m, end, need, sent, failed>> /\ start' = end
      /\ pc = "grow" /\ pc' = "metric"
    BY DEF AddSegment, sendVars
<1>3. seg \in AnySegment /\ IsSegment(src, seg)
    <2>1. seg \in AnySegment
        BY <1>1 DEF AnySegment, NewSegment
    <2> QED
        BY <1>1, <2>1 DEF IsSegment, AnySegment, Points, Here, NewSegment
<1>4. cur \in Batch /\ batches \in Seq(Batch) /\ need \in Nat
    BY DEF Batches, Scalars
<1>5. /\ cur.size + need \in Nat /\ cur.points + (end - start) \in Nat
      /\ cur.points + (end - start) > 0
    BY <1>1, <1>4 DEF Batch
<1>6. /\ Grown \in Batch /\ All(batches, Grown) = All(batches, cur) \cup {seg}
      /\ Advancing(batches, Grown)
    <2>1. \A x \in All(batches, cur) : Precedes(x, seg)
        BY DEF Covered, Behind, Passed, Precedes, NewSegment
    <2>2. PICK size \in Nat, points \in Nat :
                size = cur.size + need /\ points = cur.points + (end - start)
        BY <1>5
    <2>3. Grown = [size |-> size, points |-> points, segments |-> Append(cur.segments, seg)]
        BY <2>2 DEF Grown, NewSegment
    <2>4. Advancing(batches, cur)
        OBVIOUS
    <2> HIDE DEF seg, XInv
    <2>5. /\ Grown \in Batch /\ All(batches, Grown) = All(batches, cur) \cup {seg}
          /\ Advancing(batches, cur) /\ (\A x \in All(batches, cur) : Precedes(x, seg))
                => Advancing(batches, Grown)
        BY <1>3, <1>4, <2>3, SegmentKeeps
    <2> QED
        BY <2>1, <2>4, <2>5
<1>7. /\ Len(Grown.segments) = Len(cur.segments) + 1 /\ Len(cur.segments) \in Nat
      /\ Grown.segments[Len(cur.segments) + 1] = seg
      /\ \A i \in 1 .. Len(cur.segments) : Grown.segments[i] = cur.segments[i]
    BY <1>3, <1>4 DEF Grown, Batch, NewSegment
<1>8. IsBatch(src, Grown)
    <2>1. \A i \in 1 .. Len(Grown.segments) : IsSegment(src, Grown.segments[i])
        BY <1>3, <1>7 DEF BatchesTyped, IsBatch
    <2> QED
        BY <1>5, <2>1 DEF IsBatch, Grown
<1>9. WithinCap(Grown)
    <2>1. Grown.size = cur.size + need /\ Grown.points = cur.points + (end - start)
        BY DEF Grown
    <2>2. \/ cur.size + need <= MaxBytes
          \/ cur.points = 0 /\ end = start + 1
        BY <1>1, <1>2 DEF Room
    <2>3. CASE cur.points = 0 /\ end = start + 1
        BY <1>1, <2>1, <2>3 DEF WithinCap
    <2> QED
        BY <2>1, <2>2, <2>3 DEF WithinCap
<1>10. ScopesOnce(Grown)
    <2>1. ScopesOnce(cur)
        BY DEF Batches, WellFormed
    <2>2. ASSUME NEW i \in 1 .. Len(cur.segments)
          PROVE  Grown.segments[i].newScope <=>
                    \A j \in 1 .. i - 1 : Grown.segments[j].scope # Grown.segments[i].scope
        <3>1. \A j \in 1 .. i - 1 : j \in 1 .. Len(cur.segments)
            BY <1>7
        <3> QED
            BY <1>7, <2>1, <3>1 DEF ScopesOnce, Opens
    <2>3. seg.newScope <=> \A j \in 1 .. Len(cur.segments) : Grown.segments[j].scope # seg.scope
        BY <1>7 DEF OpenScope, NewSegment
    <2>4. ASSUME NEW i \in 1 .. Len(Grown.segments), i \notin 1 .. Len(cur.segments)
          PROVE  i = Len(cur.segments) + 1 /\ 1 .. i - 1 = 1 .. Len(cur.segments)
        BY <1>7, <2>4
    <2> QED
        BY <1>7, <2>2, <2>3, <2>4 DEF ScopesOnce, Opens
<1>11. WellFormed(Grown)
    BY <1>5, <1>10 DEF WellFormed, Grown
<1>12. Grown.segments = Append(cur.segments, NewSegment)
    BY DEF Grown, NewSegment
<1>13. Grown.size = cur.size + need /\ Grown.points = cur.points + (end - start)
    BY DEF Grown
<1> QED
    BY <1>3, <1>5, <1>6, <1>7, <1>8, <1>9, <1>11, <1>12, <1>13

LEMMA AddSegmentKeeps == XInv /\ AddSegment => XInv'
<1> SUFFICES ASSUME XInv, AddSegment PROVE XInv'
    OBVIOUS
<1> USE DEF XInv
<1> DEFINE seg == NewSegment
<1>1. /\ sm \in 1 .. Len(src) /\ m \in 1 .. Len(src[sm].metrics)
      /\ Len(src[sm].metrics) \in Nat /\ Len(Points) \in Nat
      /\ start \in Nat \ {0} /\ end \in Nat \ {0} /\ start < end /\ end <= Len(Points) + 1
    BY HereTypes, ScopeTypes DEF AddSegment, Position, Scalars
<1>2. /\ UNCHANGED <<src, sm, m, end, need, sent, failed>> /\ start' = end
      /\ pc = "grow" /\ pc' = "metric"
    BY DEF AddSegment, sendVars
<1>3. /\ Grown \in Batch /\ IsBatch(src, Grown) /\ WellFormed(Grown) /\ WithinCap(Grown)
      /\ Grown.points > 0
      /\ All(batches, Grown) = All(batches, cur) \cup {seg} /\ Advancing(batches, Grown)
    BY GrownKeeps
<1>4. /\ Len(Grown.segments) = Len(cur.segments) + 1 /\ Len(cur.segments) \in Nat
      /\ Grown.segments[Len(cur.segments) + 1] = seg
    BY GrownKeeps
<1>5. Scalars'
    BY <1>1, <1>2 DEF Scalars
<1>6. Position'
    BY <1>1, <1>2 DEF Position
<1>7. All(batches', cur') = All(batches, Grown) => Covered'
    <2> SUFFICES ASSUME All(batches', cur') = All(batches, cur) \cup {seg}
                 PROVE  Covered'
        BY <1>3
    <2>1. ASSUME NEW x \in All(batches, cur) PROVE Behind(x)'
        <3>1. x \in AnySegment
            BY SegmentTypes
        <3> QED
            BY <1>1, <1>2, <3>1 DEF Covered, Behind, Passed, AnySegment
    <2>2. ASSUME NEW x, x = seg PROVE Behind(x)'
        BY <1>1, <1>2, <2>2 DEF Behind, Passed, NewSegment
    <2>3. ASSUME NEW s \in 1 .. Len(src), NEW k \in 1 .. Len(src[s].metrics),
                 NEW i \in 1 .. Len(src[s].metrics[k].points), Passed(s, k, i)'
          PROVE  \E x \in All(batches, cur) \cup {seg} : Holds(x, s, k, i)
        <3>1. CASE Passed(s, k, i)
            BY <3>1 DEF Covered
        <3>2. CASE ~Passed(s, k, i)
            <4>1. i \in Nat \ {0}
                <5>1. src[s].metrics[k] \in Metrics
                    BY ScopeTypes
                <5> QED
                    BY <5>1 DEF Metrics
            <4>2. s = sm /\ k = m /\ start <= i /\ i <= end - 1
                BY <1>1, <1>2, <2>3, <3>2, <4>1 DEF Passed
            <4>3. Holds(seg, s, k, i)
                BY <1>1, <4>1, <4>2 DEF Holds, NewSegment
            <4> QED
                BY <4>3
        <3> QED
            BY <3>1, <3>2
    <2>4. \A x \in All(batches', cur') : Behind(x)'
        BY <2>1, <2>2
    <2> QED
        BY <1>2, <2>3, <2>4 DEF Covered
<1>8. CASE end <= Len(Points)
    <2>1. batches' = Flushed(Grown) /\ cur' = NoPoints /\ open' = FALSE
        BY <1>8 DEF AddSegment
    <2>2. /\ BatchesTyped(src, batches, cur)' /\ Batches' /\ Advancing(batches, cur)'
          /\ All(batches', cur') = All(batches, Grown)
        BY <1>2, <1>3, <2>1, FlushedKeeps
    <2>3. OpenScope' /\ (open \in BOOLEAN)'
        <3>1. OpenScope'
            BY <2>1 DEF OpenScope, NoPoints
        <3> QED
            BY <2>1, <3>1
    <2>4. Room'
        BY <1>2, <2>1 DEF Room, NoPoints
    <2> QED
        BY <1>5, <1>6, <1>7, <2>2, <2>3, <2>4
<1>9. CASE ~(end <= Len(Points))
    <2>1. cur' = Grown /\ batches' = batches /\ open' = TRUE
        BY <1>9 DEF AddSegment
    <2>2. Advancing(batches, cur)' /\ All(batches', cur') = All(batches, Grown)
        BY <1>3, <2>1
    <2>3. Batches'
        BY <1>3, <2>1 DEF Batches
    <2>4. BatchesTyped(src, batches, Grown)
        BY <1>3 DEF BatchesTyped
    <2>5. BatchesTyped(src, batches, cur)'
        BY <1>2, <2>1, <2>4
    <2>6. OpenScope' /\ (open \in BOOLEAN)'
        <3>1. Len(cur.segments) + 1 \in 1 .. Len(cur'.segments)
            BY <1>4, <2>1
        <3>2. cur'.segments[Len(cur.segments) + 1].scope = sm'
            BY <1>2, <1>4, <2>1 DEF NewSegment
        <3>3. \E i \in 1 .. Len(cur'.segments) : cur'.segments[i].scope = sm'
            BY <3>1, <3>2
        <3> QED
            BY <2>1, <3>3 DEF OpenScope
    <2>7. Room'
        BY <1>2, <1>3, <2>1 DEF Room, Grown
    <2> QED
        BY <1>5, <1>6, <1>7, <2>2, <2>3, <2>5, <2>6, <2>7
<1> QED
    BY <1>8, <1>9

-----------------------------------------------------------------------------
(* The requests.                                                           *)

\* Sending changes none of the requests.
LEMMA SendKeeps ==
    ASSUME XInv, UNCHANGED <<src, scanVars, cur, batches>>,
           pc = "send", pc' \in {"send", "done"},
           sent' \in Nat, failed' \in 0 .. sent'
    PROVE  XInv'
<1> USE DEF XInv
<1>1. UNCHANGED <<sm, m, start, end, need, open>>
    BY DEF scanVars
<1>2. Scalars'
    BY <1>1 DEF Scalars
<1>3. Position'
    BY <1>1 DEF Position
<1>4. Room'
    BY <1>1 DEF Room
<1> QED
    BY <1>1, <1>2, <1>3, <1>4, SamePosition

LEMMA InvNext == XInv /\ [Next]_vars => XInv'
<1> SUFFICES ASSUME XInv, [Next]_vars PROVE XInv'
    OBVIOUS
<1>0. sent \in Nat /\ failed \in 0 .. sent
    BY DEF XInv, Scalars
<1>1. CASE NextScope \/ NextMetric
    BY <1>1, NextScopeKeeps, NextMetricKeeps
<1>2. CASE BeginSegment \/ Grow
    BY <1>2, BeginSegmentKeeps, GrowKeeps
<1>3. CASE StartRequest \/ AddSegment \/ LastFlush
    BY <1>3, StartRequestKeeps, AddSegmentKeeps, LastFlushKeeps
<1>4. CASE SendWhole
    BY <1>0, <1>4, SendKeeps DEF SendWhole
<1>5. CASE SendNext
    <2>1. sent' \in Nat /\ failed' \in 0 .. sent'
        BY <1>0, <1>5 DEF SendNext
    <2>2. pc = "send" /\ pc' = "send" /\ UNCHANGED <<src, scanVars, cur, batches>>
        BY <1>5 DEF SendNext
    <2> QED
        BY <2>1, <2>2, SendKeeps
<1>6. CASE Return
    <2>1. sent' \in Nat /\ failed' \in 0 .. sent'
        BY <1>0, <1>6 DEF Return, sendVars
    <2>2. pc = "send" /\ pc' = "done" /\ UNCHANGED <<src, scanVars, cur, batches>>
        BY <1>6 DEF Return
    <2> QED
        BY <2>1, <2>2, SendKeeps
<1>7. CASE UNCHANGED vars
    <2>1. XInv => Scalars /\ open \in BOOLEAN /\ Position /\ Room
        BY DEF XInv
    <2>2. Scalars' /\ Position' /\ Room'
        BY <1>7, <2>1 DEF vars, Scalars, Position, Room, Points, Here
    <2> QED
        BY <1>7, <2>2, SamePosition DEF vars, XInv
<1>8. CASE Stopped
    BY <1>7, <1>8 DEF Stopped
<1> QED
    BY <1>1, <1>2, <1>3, <1>4, <1>5, <1>6, <1>7, <1>8 DEF Next

LEMMA InvInit == Init => XInv
<1> SUFFICES ASSUME Init PROVE XInv
    OBVIOUS
<1>1. /\ src \in Seq(Scopes) /\ Len(src) \in Nat
      /\ pc = "metric" /\ sm = 1 /\ m = 1 /\ start = 1 /\ end = 1 /\ need = 0
      /\ open = FALSE /\ cur = NoPoints /\ batches = <<>> /\ sent = 0 /\ failed = 0
    BY SourceAssumption DEF Init
<1>2. Scalars /\ open \in BOOLEAN
    <2>1. open \in BOOLEAN
        BY <1>1
    <2>2. Scalars
        BY <1>1 DEF Scalars
    <2> QED
        BY <2>1, <2>2
<1>3. BatchesTyped(src, batches, cur)
    BY <1>1, EmptyBatch DEF BatchesTyped
<1>4. Position
    <2>1. 1 <= Len(src) => Len(src[1].metrics) \in Nat
        BY <1>1, <1>2, ScopeTypes
    <2> QED
        BY <1>1, <2>1 DEF Position
<1>5. Batches
    BY <1>1, EmptyBatch DEF Batches
<1>6. OpenScope
    BY <1>1 DEF OpenScope, NoPoints
<1>7. Room
    BY <1>1 DEF Room, NoPoints
<1>8. All(batches, cur) = {}
    BY <1>1, EmptyBatch DEF All, InBatches
<1>9. Covered
    <2>1. \A s \in 1 .. Len(src) : \A k \in 1 .. Len(src[s].metrics) :
            \A i \in 1 .. Len(src[s].metrics[k].points) : ~Passed(s, k, i)
        <3> TAKE s \in 1 .. Len(src)
        <3> TAKE k \in 1 .. Len(src[s].metrics)
        <3> TAKE i \in 1 .. Len(src[s].metrics[k].points)
        <3>1. Len(src[s].metrics) \in Nat /\ src[s].metrics[k] \in Metrics
            BY <1>2, ScopeTypes
        <3>2. Len(src[s].metrics[k].points) \in Nat
            BY <3>1 DEF Metrics
        <3> QED
            BY <1>1, <3>1, <3>2 DEF Passed
    <2> QED
        BY <1>8, <2>1 DEF Covered
<1>10. Advancing(batches, cur)
    BY <1>1, EmptyBatch DEF Advancing, InBatches
<1> QED
    BY <1>2, <1>3, <1>4, <1>5, <1>6, <1>7, <1>9, <1>10 DEF XInv

\* XInv holds in every state.
THEOREM Invariance == Spec => []XInv
BY InvInit, InvNext, PTL DEF Spec

-----------------------------------------------------------------------------
(* What an Export call promises.                                           *)

\* Type correctness: a request holds only points of the cycle, and at least one.
THEOREM TypeCorrect == Spec => []TypeOK
<1>1. XInv => TypeOK
    BY DEF XInv, Scalars, BatchesTyped, TypeOK
<1> QED
    BY <1>1, Invariance, PTL

\* Whatever the cap and the sizes, splitResourceMetrics puts every point of the
\* cycle into a request, once, and keeps their order.
THEOREM NothingLost == Spec => []KeepsEveryPoint
<1>1. XInv => KeepsEveryPoint
    <2> SUFFICES ASSUME XInv, IsSplit PROVE KeepsEveryPoint
        BY DEF KeepsEveryPoint
    <2> USE DEF XInv
    <2>1. sm > Len(src) /\ sm \in Nat /\ Len(src) \in Nat /\ SegmentsOf(cur) = {}
        BY DEF IsSplit, Position, SegmentsOf, Scalars
    <2>2. ASSUME NEW s \in 1 .. Len(src), NEW k \in 1 .. Len(src[s].metrics),
                 NEW i \in 1 .. Len(src[s].metrics[k].points)
          PROVE  \E b \in 1 .. Len(batches) : \E seg \in SegmentsOf(batches[b]) :
                    Holds(seg, s, k, i)
        <3>1. Passed(s, k, i)
            BY <2>1 DEF Passed
        <3>2. PICK seg \in All(batches, cur) : Holds(seg, s, k, i)
            BY <3>1 DEF Covered
        <3>3. PICK b \in 1 .. Len(batches) : seg \in SegmentsOf(batches[b])
            BY <2>1, <3>2 DEF All, InBatches
        <3> QED
            BY <3>2, <3>3
    <2> QED
        BY <2>2 DEF KeepsEveryPoint, Advancing
<1> QED
    BY <1>1, Invariance, PTL

\* In every request each scope has one entry, opened with its first metric.
THEOREM ScopesEnteredOnce == Spec => []ScopesEntered
<1>1. XInv => ScopesEntered
    BY DEF XInv, Batches, WellFormed, ScopesEntered
<1> QED
    BY <1>1, Invariance, PTL

\* By the splitter's own account of sizes (curSize and curPoints) every request is
\* within the cap, or is one point that travels alone.
THEOREM FitsByAccount ==
    Spec => [](\A b \in 1 .. Len(batches) :
                  batches[b].size <= MaxBytes \/ batches[b].points = 1)
<1>1. XInv => \A b \in 1 .. Len(batches) :
                batches[b].size <= MaxBytes \/ batches[b].points = 1
    <2> SUFFICES ASSUME XInv, NEW b \in 1 .. Len(batches)
                 PROVE  batches[b].size <= MaxBytes \/ batches[b].points = 1
        OBVIOUS
    <2>1. batches[b].points \in Nat /\ batches[b].points > 0 /\ WithinCap(batches[b])
        BY DEF XInv, Batches, BatchesTyped, IsBatch
    <2> QED
        BY <2>1 DEF WithinCap
<1> QED
    BY <1>1, Invariance, PTL

-----------------------------------------------------------------------------
(* Sums. Total is a recursive function: what it adds up is shown by        *)
(* induction, here over a set of numbers, from the fact that < is well     *)
(* founded.                                                                *)

\* A nonempty set of numbers has a least element.
LEMMA Least ==
  ASSUME NEW T, T \subseteq Nat, T # {}
  PROVE  \E n \in T : \A k \in T : ~ (k < n)
<1> DEFINE R == OpToRel(<, Nat)
<1>2. IsWellFoundedOn(R, Nat)
  BY NatLessThanWellFounded
<1>3. PICK x \in T : \A y \in T : ~ (<<y, x>> \in R)
  <2> HIDE DEF R
  <2> QED
    BY <1>2, WFMin
<1>4. ASSUME NEW y \in T, y < x PROVE <<y, x>> \in R
  <2>1. <<y, x>> \in {ss \in Nat \X Nat : ss[1] < ss[2]}
    BY <1>4
  <2> QED
    BY <2>1 DEF OpToRel
<1> HIDE DEF R
<1> QED
  BY <1>3, <1>4

\* Hence induction, over a set.
LEMMA Induction ==
  ASSUME NEW S, 0 \in S, \A n \in Nat : n \in S => n + 1 \in S
  PROVE  \A n \in Nat : n \in S
<1> DEFINE T == Nat \ S
<1>1. SUFFICES ASSUME T # {} PROVE FALSE
  OBVIOUS
<1>3. PICK x \in T : \A y \in T : ~ (y < x)
  <2>1. T \subseteq Nat
    OBVIOUS
  <2> HIDE DEF T
  <2> QED
    BY <1>1, <2>1, Least
<1>4. x \in Nat /\ x \notin S
  BY <1>3
<1>5. x # 0
  BY <1>4
<1>6. x - 1 \in Nat /\ x - 1 < x /\ x - 1 + 1 = x
  BY <1>4, <1>5
<1>7. x - 1 \in S
  BY <1>3, <1>6
<1> QED
  BY <1>4, <1>6, <1>7

\* sums has the partial sums of sizes, from 0 to n; it is a table of them.
Adds(sizes, n, sums) ==
    \A i \in 0 .. n : sums[i] = IF i = 0 THEN 0 ELSE sums[i - 1] + sizes[i]
Table(sizes, n, sums) == sums \in [0 .. n -> Nat] /\ Adds(sizes, n, sums)
Same(s, t, n) == \A i \in 1 .. n : s[i] = t[i]

\* A table of partial sums exists for every sequence of sizes.
LEMMA TableExists ==
  ASSUME NEW sizes \in Seq(Nat)
  PROVE  \E sums : Table(sizes, Len(sizes), sums)
<1> DEFINE S == {n \in Nat : n <= Len(sizes) => \E sums : Table(sizes, n, sums)}
<1>1. 0 \in S
  <2>1. Table(sizes, 0, [i \in 0 .. 0 |-> 0])
    BY DEF Table, Adds
  <2> QED
    BY <2>1
<1>2. ASSUME NEW n \in Nat, n \in S PROVE n + 1 \in S
  <2>1. SUFFICES ASSUME n + 1 <= Len(sizes) PROVE \E sums : Table(sizes, n + 1, sums)
    OBVIOUS
  <2>2. PICK old : Table(sizes, n, old)
    BY <1>2, <2>1
  <2>3. n + 1 \in 1 .. Len(sizes) /\ sizes[n + 1] \in Nat
    BY <2>1
  <2> DEFINE new == [i \in 0 .. n + 1 |-> IF i = n + 1 THEN old[n] + sizes[n + 1] ELSE old[i]]
  <2>4. new \in [0 .. n + 1 -> Nat]
    BY <2>2, <2>3 DEF Table, Adds
  <2>5. ASSUME NEW i \in 0 .. n + 1
        PROVE  new[i] = IF i = 0 THEN 0 ELSE new[i - 1] + sizes[i]
    <3>1. CASE i = n + 1
      BY <3>1
    <3>2. CASE i \in 0 .. n
      <4>1. i # n + 1 /\ (i # 0 => i - 1 \in 0 .. n /\ i - 1 # n + 1)
        BY <3>2
      <4> QED
        BY <2>2, <3>2, <4>1 DEF Table, Adds
    <3> QED
      BY <3>1, <3>2
  <2> QED
    BY <2>4, <2>5 DEF Table, Adds
<1> HIDE DEF S
<1>3. \A n \in Nat : n \in S
  BY <1>1, <1>2, Induction
<1> QED
  BY <1>3 DEF S

\* Two tables over the same sizes agree.
LEMMA TableUnique ==
  ASSUME NEW n \in Nat, NEW sizes, NEW more, NEW s, NEW t,
         Same(sizes, more, n), Adds(sizes, n, s), Adds(more, n, t)
  PROVE  s[n] = t[n]
<1> DEFINE S == {i \in Nat : i <= n => s[i] = t[i]}
<1>1. 0 \in S
  BY DEF Adds
<1>2. ASSUME NEW i \in Nat, i \in S PROVE i + 1 \in S
  <2>1. SUFFICES ASSUME i + 1 <= n PROVE s[i + 1] = t[i + 1]
    OBVIOUS
  <2>2. i + 1 \in 1 .. n /\ i + 1 \in 0 .. n /\ i + 1 # 0 /\ i + 1 - 1 = i /\ i <= n
    BY <2>1
  <2>3. s[i] = t[i]
    BY <1>2, <2>2
  <2> QED
    BY <2>2, <2>3 DEF Same, Adds
<1> HIDE DEF S
<1>3. \A i \in Nat : i \in S
  BY <1>1, <1>2, Induction
<1> QED
  BY <1>3 DEF S

\* Total returns the last entry of such a table.
LEMMA TotalIsTable ==
  ASSUME NEW sizes \in Seq(Nat)
  PROVE  \E sums : Table(sizes, Len(sizes), sums) /\ Total(sizes) = sums[Len(sizes)]
<1> DEFINE n == Len(sizes)
           Solves(g) == g = [i \in 0 .. n |-> IF i = 0 THEN 0 ELSE g[i - 1] + sizes[i]]
           sums == CHOOSE g : Solves(g)
<1>1. \E g : Solves(g)
  <2>1. PICK g : Table(sizes, n, g)
    BY TableExists
  <2>2. g = [i \in 0 .. n |-> IF i = 0 THEN 0 ELSE g[i - 1] + sizes[i]]
    BY <2>1 DEF Table, Adds
  <2> QED
    BY <2>2
<1>2. Solves(sums)
  <2> HIDE DEF Solves
  <2> QED
    BY <1>1
<1>3. Total(sizes) = sums[n]
  BY DEF Total
<1>4. Table(sizes, n, sums)
  <2> HIDE DEF sums
  <2>1. PICK g : Table(sizes, n, g)
    BY TableExists
  <2>2. Adds(sizes, n, sums)
    BY <1>2 DEF Adds
  <2>3. ASSUME NEW k \in 0 .. n PROVE sums[k] = g[k]
    <3>1. k \in Nat /\ (\A i \in 0 .. k : i \in 0 .. n)
      OBVIOUS
    <3>2. Adds(sizes, k, sums) /\ Adds(sizes, k, g) /\ Same(sizes, sizes, k)
      BY <2>1, <2>2, <3>1 DEF Table, Adds, Same
    <3> QED
      BY <3>1, <3>2, TableUnique
  <2>4. sums = g
    BY <1>2, <2>1, <2>3 DEF Table, Adds
  <2> QED
    BY <2>1, <2>4
<1> HIDE DEF sums
<1> QED
  BY <1>3, <1>4

\* All that is needed of Total.
LEMMA TotalProperties ==
  /\ Total(<<>>) = 0
  /\ \A sizes \in Seq(Nat) : Total(sizes) \in Nat
  /\ \A sizes \in Seq(Nat), size \in Nat : Total(Append(sizes, size)) = Total(sizes) + size
<1>1. Total(<<>>) = 0
  <2>1. <<>> \in Seq(Nat) /\ Len(<<>>) = 0
    OBVIOUS
  <2>2. PICK sums : Table(<<>>, 0, sums) /\ Total(<<>>) = sums[0]
    BY <2>1, TotalIsTable
  <2> QED
    BY <2>2 DEF Table, Adds
<1>2. ASSUME NEW sizes \in Seq(Nat) PROVE Total(sizes) \in Nat
  BY TotalIsTable DEF Table, Adds
<1>3. ASSUME NEW sizes \in Seq(Nat), NEW size \in Nat
      PROVE  Total(Append(sizes, size)) = Total(sizes) + size
  <2> DEFINE more == Append(sizes, size)
             n == Len(sizes)
  <2>1. /\ more \in Seq(Nat) /\ Len(more) = n + 1 /\ more[n + 1] = size /\ n \in Nat
        /\ \A i \in 1 .. n : sizes[i] = more[i]
    OBVIOUS
  <2> HIDE DEF more, n
  <2>2. PICK s : Table(sizes, n, s) /\ Total(sizes) = s[n]
    BY TotalIsTable DEF n
  <2>3. PICK t : Table(more, n + 1, t) /\ Total(more) = t[n + 1]
    BY <2>1, TotalIsTable
  <2>4. s[n] = t[n]
    <3>1. Adds(sizes, n, s) /\ Adds(more, n, t)
      BY <2>1, <2>2, <2>3 DEF Table, Adds
    <3>2. Same(sizes, more, n)
      BY <2>1 DEF Same
    <3> QED
      BY <2>1, <3>1, <3>2, TableUnique
  <2>5. t[n + 1] = t[n] + size
    BY <2>1, <2>3 DEF Table, Adds
  <2> QED
    BY <2>2, <2>3, <2>4, <2>5 DEF more
<1> QED
  BY <1>1, <1>2, <1>3

-----------------------------------------------------------------------------
(* What a batch adds up to.                                                *)

Costs(cycle, segs) == [i \in 1 .. Len(segs) |-> SegmentSize(cycle, segs, i)]
Counts(segs) == [i \in 1 .. Len(segs) |-> segs[i].to - segs[i].from + 1]
Typed(cycle, segs) == segs \in Seq(AnySegment) /\ \A i \in 1 .. Len(segs) : IsSegment(cycle, segs[i])

\* A request's estimate and its number of points, as sums.
LEMMA Sums ==
    \A cycle, batch :
        /\ Estimate(cycle, batch) = ResourceSize + Total(Costs(cycle, batch.segments))
        /\ PointCount(batch) = Total(Counts(batch.segments))
BY DEF Estimate, PointCount, Costs, Counts

\* The size of a segment is a number.
LEMMA SegmentSizeType ==
    ASSUME NEW cycle \in Seq(Scopes), NEW segs, Typed(cycle, segs), NEW i \in 1 .. Len(segs)
    PROVE  /\ SegmentSize(cycle, segs, i) \in Nat
           /\ segs[i].to - segs[i].from + 1 \in Nat
           /\ segs[i].to - segs[i].from + 1 > 0
<1> DEFINE seg == segs[i]
<1>1. /\ seg.scope \in 1 .. Len(cycle) /\ seg.metric \in 1 .. Len(cycle[seg.scope].metrics)
      /\ seg.from \in Nat /\ seg.to \in Nat /\ seg.from >= 1 /\ seg.from <= seg.to
      /\ seg.to <= Len(cycle[seg.scope].metrics[seg.metric].points)
    <2>1. IsSegment(cycle, seg)
        BY DEF Typed
    <2>2. seg.scope \in 1 .. Len(cycle)
        BY <2>1 DEF IsSegment
    <2>3. Len(cycle[seg.scope].metrics) \in Nat
        BY <2>2 DEF Scopes
    <2> HIDE DEF seg
    <2> QED
        BY <2>1, <2>2, <2>3 DEF IsSegment
<1> HIDE DEF seg
<1>2. cycle[seg.scope] \in Scopes
    BY <1>1
<1>3. cycle[seg.scope].size \in Nat /\ cycle[seg.scope].metrics[seg.metric] \in Metrics
    BY <1>1, <1>2 DEF Scopes
<1> DEFINE metric == cycle[seg.scope].metrics[seg.metric]
<1>4. metric.header \in Nat /\ metric.points \in Seq(Nat)
    BY <1>3 DEF Metrics
<1> HIDE DEF metric
<1>5. SubSeq(metric.points, seg.from, seg.to) \in Seq(Nat)
    <2>1. seg.to <= Len(metric.points)
        BY <1>1 DEF metric
    <2>2. Len(metric.points) \in Nat /\ \A j \in 1 .. Len(metric.points) : metric.points[j] \in Nat
        BY <1>4
    <2>3. seg.from \in Int /\ seg.to \in Int
        BY <1>1
    <2>4. \A j \in seg.from .. seg.to : metric.points[j] \in Nat
        BY <1>1, <2>1, <2>2, <2>3
    <2> QED
        BY <2>3, <2>4, SubSeqProperties
<1>6. Total(SubSeq(metric.points, seg.from, seg.to)) \in Nat
    BY <1>5, TotalProperties
<1>7. SegmentSize(cycle, segs, i) =
         metric.header + Total(SubSeq(metric.points, seg.from, seg.to))
            + (IF Opens(segs, i) THEN cycle[seg.scope].size ELSE 0)
    BY DEF SegmentSize, seg, metric
<1>8. SegmentSize(cycle, segs, i) \in Nat
    BY <1>3, <1>4, <1>6, <1>7
<1>9. seg.to - seg.from + 1 \in Nat /\ seg.to - seg.from + 1 > 0
    BY <1>1
<1> QED
    BY <1>8, <1>9 DEF seg

\* What a request's segments cost, and their points, are numbers.
LEMMA CostTypes ==
    ASSUME NEW cycle \in Seq(Scopes), NEW segs, Typed(cycle, segs)
    PROVE  Costs(cycle, segs) \in Seq(Nat) /\ Counts(segs) \in Seq(Nat)
<1>1. Len(segs) \in Nat
    BY DEF Typed
<1>2. \A i \in 1 .. Len(segs) :
        SegmentSize(cycle, segs, i) \in Nat /\ segs[i].to - segs[i].from + 1 \in Nat
    BY SegmentSizeType
<1>3. Costs(cycle, segs) \in [1 .. Len(segs) -> Nat]
    BY <1>2 DEF Costs
<1>4. Counts(segs) \in [1 .. Len(segs) -> Nat]
    BY <1>2 DEF Counts
<1> QED
    BY <1>1, <1>3, <1>4

\* A new segment adds its own size and points, and changes no other's.
LEMMA AppendCosts ==
    ASSUME NEW cycle \in Seq(Scopes), NEW segs, Typed(cycle, segs),
           NEW seg \in AnySegment, IsSegment(cycle, seg),
           NEW more, more = Append(segs, seg)
    PROVE  /\ Typed(cycle, more)
           /\ Costs(cycle, more) =
                Append(Costs(cycle, segs), SegmentSize(cycle, more, Len(segs) + 1))
           /\ Counts(more) = Append(Counts(segs), seg.to - seg.from + 1)
<1> DEFINE n == Len(segs)
<1>1. /\ n \in Nat /\ more \in Seq(AnySegment) /\ Len(more) = n + 1 /\ more[n + 1] = seg
      /\ \A i \in 1 .. n : more[i] = segs[i]
    BY DEF Typed
<1>2. Typed(cycle, more)
    BY <1>1 DEF Typed
<1>3. Costs(cycle, segs) \in Seq(Nat) /\ Counts(segs) \in Seq(Nat)
      /\ Costs(cycle, more) \in Seq(Nat) /\ Counts(more) \in Seq(Nat)
    BY <1>2, CostTypes
<1>4. ASSUME NEW i \in 1 .. n PROVE SegmentSize(cycle, more, i) = SegmentSize(cycle, segs, i)
    <2>1. \A j \in 1 .. i - 1 : j \in 1 .. n
        BY <1>1
    <2>2. Opens(more, i) <=> Opens(segs, i)
        BY <1>1, <2>1 DEF Opens
    <2> QED
        BY <1>1, <2>2 DEF SegmentSize
<1>5. /\ Len(Costs(cycle, segs)) = n /\ Len(Counts(segs)) = n
      /\ Len(Costs(cycle, more)) = n + 1 /\ Len(Counts(more)) = n + 1
    BY <1>1 DEF Costs, Counts
<1>6. Costs(cycle, more) = Append(Costs(cycle, segs), SegmentSize(cycle, more, n + 1))
    <2>1. Costs(cycle, more)[n + 1] = SegmentSize(cycle, more, n + 1)
        BY <1>1 DEF Costs
    <2>2. \A i \in 1 .. n : Costs(cycle, more)[i] = Costs(cycle, segs)[i]
        BY <1>1, <1>4 DEF Costs
    <2> HIDE DEF n
    <2> QED
        BY <1>1, <1>3, <1>5, <2>1, <2>2
<1>7. Counts(more) = Append(Counts(segs), seg.to - seg.from + 1)
    <2>1. Counts(more)[n + 1] = seg.to - seg.from + 1
        BY <1>1 DEF Counts
    <2>2. \A i \in 1 .. n : Counts(more)[i] = Counts(segs)[i]
        BY <1>1 DEF Counts
    <2> HIDE DEF n
    <2> QED
        BY <1>1, <1>3, <1>5, <2>1, <2>2
<1> QED
    BY <1>2, <1>6, <1>7

\* A request without points costs what its resource does.
LEMMA EmptySums ==
    \A cycle : Estimate(cycle, NoPoints) = ResourceSize /\ PointCount(NoPoints) = 0
<1> TAKE cycle
<1>1. NoPoints.segments = <<>> /\ Len(<<>>) = 0
    BY DEF NoPoints
<1>2. Costs(cycle, <<>>) = <<>> /\ Counts(<<>>) = <<>>
    BY <1>1 DEF Costs, Counts
<1>3. ResourceSize \in Nat
    BY SizesAssumption
<1> QED
    BY <1>1, <1>2, <1>3, Sums, TotalProperties

\* Estimates and numbers of points are numbers.
LEMMA SumTypes ==
    ASSUME NEW cycle \in Seq(Scopes), NEW batch \in Batch, IsBatch(cycle, batch)
    PROVE  /\ Estimate(cycle, batch) \in Nat /\ PointCount(batch) \in Nat
           /\ Typed(cycle, batch.segments)
<1>1. Typed(cycle, batch.segments)
    BY DEF Typed, Batch, IsBatch
<1>2. Costs(cycle, batch.segments) \in Seq(Nat) /\ Counts(batch.segments) \in Seq(Nat)
    BY <1>1, CostTypes
<1>3. Total(Costs(cycle, batch.segments)) \in Nat /\ Total(Counts(batch.segments)) \in Nat
    BY <1>2, TotalProperties
<1>4. ResourceSize \in Nat
    BY SizesAssumption
<1> QED
    BY <1>1, <1>3, <1>4, Sums

\* A batch with one more segment.
LEMMA SegmentAddsUp ==
    ASSUME NEW cycle \in Seq(Scopes), NEW batch \in Batch, IsBatch(cycle, batch),
           NEW seg \in AnySegment, IsSegment(cycle, seg),
           NEW g, g.segments = Append(batch.segments, seg)
    PROVE  /\ Estimate(cycle, g) =
                Estimate(cycle, batch) + SegmentSize(cycle, g.segments, Len(batch.segments) + 1)
           /\ PointCount(g) = PointCount(batch) + (seg.to - seg.from + 1)
<1> DEFINE segs == batch.segments
           more == Append(batch.segments, seg)
           cost == SegmentSize(cycle, more, Len(segs) + 1)
           count == seg.to - seg.from + 1
<1>1. Typed(cycle, segs) /\ Estimate(cycle, batch) \in Nat
    BY SumTypes
<1>2. /\ Typed(cycle, more)
      /\ Costs(cycle, more) = Append(Costs(cycle, segs), cost)
      /\ Counts(more) = Append(Counts(segs), count)
    BY <1>1, AppendCosts
<1>3. Len(more) = Len(segs) + 1 /\ more[Len(segs) + 1] = seg /\ Len(segs) \in Nat
    BY <1>1 DEF Typed
<1>4. cost \in Nat /\ count \in Nat
    <2>1. Len(segs) + 1 \in 1 .. Len(more)
        BY <1>3
    <2> HIDE DEF segs, more
    <2> QED
        BY <1>2, <1>3, <2>1, SegmentSizeType
<1>5. Costs(cycle, segs) \in Seq(Nat) /\ Counts(segs) \in Seq(Nat)
    BY <1>1, CostTypes
<1>6. g.segments = more
    OBVIOUS
<1> HIDE DEF segs, more, cost, count
<1>7. /\ Total(Costs(cycle, more)) = Total(Costs(cycle, segs)) + cost
      /\ Total(Counts(more)) = Total(Counts(segs)) + count
    BY <1>2, <1>4, <1>5, TotalProperties
<1>8. Total(Costs(cycle, segs)) \in Nat /\ ResourceSize \in Nat
    BY <1>5, TotalProperties, SizesAssumption
<1>9. /\ Estimate(cycle, g) = ResourceSize + Total(Costs(cycle, more))
      /\ Estimate(cycle, batch) = ResourceSize + Total(Costs(cycle, segs))
      /\ PointCount(g) = Total(Counts(more)) /\ PointCount(batch) = Total(Counts(segs))
    BY <1>6, Sums DEF segs
<1>10. Estimate(cycle, g) = Estimate(cycle, batch) + cost
    BY <1>4, <1>7, <1>8, <1>9
<1>11. PointCount(g) = PointCount(batch) + count
    BY <1>7, <1>9
<1> QED
    BY <1>6, <1>10, <1>11 DEF cost, count, segs

\* One more point of a metric, and none.
LEMMA PointAddsUp ==
    ASSUME NEW points \in Seq(Nat), NEW from \in 1 .. Len(points), NEW to \in from .. Len(points)
    PROVE  /\ Total(SubSeq(points, from, to)) = Total(SubSeq(points, from, to - 1)) + points[to]
           /\ Total(SubSeq(points, from, from - 1)) = 0
           /\ Total(SubSeq(points, from, to - 1)) \in Nat
<1>1. SubSeq(points, from, from - 1) = <<>>
    BY SubSeqEmpty
<1>2. /\ Len(points) \in Nat /\ from \in Int /\ to - 1 \in Int /\ points[to] \in Nat
      /\ \A j \in from .. to - 1 : points[j] \in Nat
    OBVIOUS
<1>3. SubSeq(points, from, to - 1) \in Seq(Nat)
    BY <1>2, SubSeqProperties
<1>4. SubSeq(points, from, to) = SubSeq(points, from, to - 1) \o <<points[to]>>
    BY SubSeqRecursiveSecond
<1>5. SubSeq(points, from, to - 1) \o <<points[to]>> = Append(SubSeq(points, from, to - 1), points[to])
    BY <1>2, <1>3, AppendIsConcat
<1> QED
    BY <1>1, <1>2, <1>3, <1>4, <1>5, TotalProperties

-----------------------------------------------------------------------------
(* The scan's account is what the segments add up to, and no request ends  *)
(* early.                                                                  *)

Accounted(cycle, batch) == batch.size = Estimate(cycle, batch) /\ batch.points = PointCount(batch)

Accounts ==
    /\ \A b \in 1 .. Len(batches) : Accounted(src, batches[b])
    /\ Accounted(src, cur)
    /\ pc = "grow" =>
          need = Here.header + (IF open THEN 0 ELSE src[sm].size)
                    + Total(SubSeq(Points, start, end - 1))

\* The next of a list of batches is full before first.
FullBefore(cycle, batch, first) ==
    Overflows(cycle, batch, first.scope, first.metric, first.from)
FullList(cycle, bs) ==
    \A b \in 1 .. Len(bs) - 1 : FullBefore(cycle, bs[b], bs[b + 1].segments[1])

\* There is a point at the position of the scan.
AtPoint == sm <= Len(src) /\ m <= Len(src[sm].metrics) /\ start <= Len(Points)

\* The last request was full before what the current batch starts with, or will. A
\* batch is cut within a metric only when it is complete.
Full ==
    /\ FullList(src, batches)
    /\ Len(batches) > 0 /\ cur.segments # <<>> =>
          FullBefore(src, batches[Len(batches)], cur.segments[1])
    /\ Len(batches) > 0 /\ cur.segments = <<>> /\ pc \in {"metric", "grow"} =>
          AtPoint /\ Overflows(src, batches[Len(batches)], sm, m, start)
    /\ cur.segments # <<>> /\ pc \in {"metric", "grow"} /\ AtPoint => start = 1

SInv == Accounts /\ Full

\* Steps that leave the batches alone.
LEMMA SameBatchesAccounts ==
    ASSUME Accounts, UNCHANGED <<src, cur, batches>>, pc' # "grow"
    PROVE  Accounts'
BY DEF Accounts

LEMMA NextScopeSums == XInv /\ SInv /\ NextScope => SInv'
<1> SUFFICES ASSUME XInv, SInv, NextScope PROVE SInv'
    OBVIOUS
<1>1. /\ sm <= Len(src) /\ m > Len(src[sm].metrics) /\ pc = "metric"
      /\ start' = 1 /\ UNCHANGED <<src, pc, cur, batches>>
    BY DEF NextScope
<1>2. Accounts'
    BY <1>1, SameBatchesAccounts DEF SInv
<1>3. ~AtPoint
    <2>1. m \in Nat /\ Len(src[sm].metrics) \in Nat
        BY <1>1, ScopeTypes DEF XInv, Scalars
    <2> QED
        BY <1>1, <2>1 DEF AtPoint
<1>4. Full'
    BY <1>1, <1>3 DEF SInv, Full
<1> QED
    BY <1>2, <1>4 DEF SInv

LEMMA NextMetricSums == XInv /\ SInv /\ NextMetric => SInv'
<1> SUFFICES ASSUME XInv, SInv, NextMetric PROVE SInv'
    OBVIOUS
<1>1. /\ sm <= Len(src) /\ m <= Len(src[sm].metrics) /\ start > Len(Points) /\ pc = "metric"
      /\ start' = 1 /\ UNCHANGED <<src, pc, cur, batches>>
    BY DEF NextMetric
<1>2. Accounts'
    BY <1>1, SameBatchesAccounts DEF SInv
<1>3. ~AtPoint
    <2>1. start \in Nat /\ Len(Points) \in Nat
        BY <1>1, HereTypes DEF XInv, Scalars
    <2> QED
        BY <1>1, <2>1 DEF AtPoint
<1>4. Full'
    BY <1>1, <1>3 DEF SInv, Full
<1> QED
    BY <1>2, <1>4 DEF SInv

\* Full is about nothing that BeginSegment and Grow change.
LEMMA SamePositionFull ==
    ASSUME Full, pc \in {"metric", "grow"}, UNCHANGED <<src, sm, m, start, cur, batches>>
    PROVE  Full'
BY DEF Full, AtPoint, Points, Here

LEMMA BeginSegmentSums == XInv /\ SInv /\ BeginSegment => SInv'
<1> SUFFICES ASSUME XInv, SInv, BeginSegment PROVE SInv'
    OBVIOUS
<1>1. /\ sm <= Len(src) /\ m <= Len(src[sm].metrics) /\ start <= Len(Points) /\ pc = "metric"
      /\ UNCHANGED <<src, sm, m, start, open, cur, batches>>
      /\ end' = start
      /\ need' = Here.header + (IF open THEN 0 ELSE src[sm].size)
    BY DEF BeginSegment
<1>2. /\ Points \in Seq(Nat) /\ Here.header \in Nat /\ start \in 1 .. Len(Points)
      /\ src[sm].size \in Nat
    BY <1>1, HereTypes, ScopeTypes DEF XInv, Scalars
<1>3. Total(SubSeq(Points, start, start - 1)) = 0
    <2>1. start \in start .. Len(Points)
        BY <1>1, <1>2
    <2> QED
        BY <1>2, <2>1, PointAddsUp
<1>4. need' = Here.header + (IF open THEN 0 ELSE src[sm].size)
                + Total(SubSeq(Points, start, start - 1))
    BY <1>1, <1>2, <1>3
<1>5. Accounts'
    BY <1>1, <1>4 DEF SInv, Accounts, Points, Here
<1>6. Full'
    BY <1>1, SamePositionFull DEF SInv
<1> QED
    BY <1>5, <1>6 DEF SInv

LEMMA GrowSums == XInv /\ SInv /\ Grow => SInv'
<1> SUFFICES ASSUME XInv, SInv, Grow PROVE SInv'
    OBVIOUS
<1>1. /\ sm <= Len(src) /\ m <= Len(src[sm].metrics) /\ start <= Len(Points)
      /\ start <= end /\ end <= Len(Points) /\ start \in Nat \ {0} /\ end \in Nat
    BY DEF XInv, Grow, CanGrow, Position, Scalars
<1>2. /\ UNCHANGED <<src, sm, m, start, open, cur, batches>>
      /\ pc = "grow" /\ end' = end + 1 /\ need' = need + Points[end]
    BY DEF Grow
<1>3. /\ Points \in Seq(Nat) /\ Here.header \in Nat /\ start \in 1 .. Len(Points)
      /\ src[sm].size \in Nat /\ end \in start .. Len(Points) /\ Points[end] \in Nat
    BY <1>1, HereTypes, ScopeTypes DEF XInv, Scalars
<1> DEFINE before == Total(SubSeq(Points, start, end - 1))
           after == Total(SubSeq(Points, start, end))
           charged == Here.header + (IF open THEN 0 ELSE src[sm].size)
<1>4. after = before + Points[end] /\ before \in Nat
    BY <1>3, PointAddsUp
<1>5. need = charged + before
    BY <1>2 DEF SInv, Accounts
<1>6. charged \in Nat
    BY <1>3
<1>7. need' = charged + after
    <2> HIDE DEF before, after, charged
    <2> QED
        BY <1>2, <1>3, <1>4, <1>5, <1>6
<1>8. end' - 1 = end
    BY <1>1, <1>2
<1>9. Accounts'
    BY <1>2, <1>7, <1>8 DEF SInv, Accounts, Points, Here
<1>10. Full'
    BY <1>2, SamePositionFull DEF SInv
<1> QED
    BY <1>9, <1>10 DEF SInv

\* What a flush of c, the current batch or what it grows to, keeps.
LEMMA FlushSums ==
    ASSUME XInv, SInv, NEW c \in Batch, Accounted(src, c), WellFormed(c),
           IsBatch(src, c),
           Len(batches) > 0 /\ c.segments # <<>> =>
              FullBefore(src, batches[Len(batches)], c.segments[1]),
           src' = src, batches' = Flushed(c), cur' = NoPoints, pc' # "grow"
    PROVE  Accounts' /\ FullList(src, batches)'
<1>1. batches' = FlushOf(batches, c) /\ batches \in Seq(Batch)
    BY DEF Flushed, FlushOf, XInv, Batches
<1>2. \A b \in 1 .. Len(batches') :
        \/ b \in 1 .. Len(batches) /\ batches'[b] = batches[b]
        \/ batches'[b] = c
    BY <1>1, FlushKeeps
<1>3. Accounted(src, NoPoints)
    BY EmptySums DEF Accounted, NoPoints
<1>4. Accounts'
    BY <1>2, <1>3 DEF SInv, Accounts
<1>5. CASE c.points > 0
    <2>1. c.segments # <<>>
        <3>1. SUFFICES ASSUME c.segments = <<>> PROVE FALSE
            OBVIOUS
        <3>2. PointCount(c) = PointCount(NoPoints)
            BY <3>1, Sums DEF NoPoints
        <3> QED
            BY <1>5, <3>2, EmptySums DEF Accounted
    <2>2. /\ Len(batches') = Len(batches) + 1 /\ Len(batches) \in Nat
          /\ batches'[Len(batches) + 1] = c
          /\ \A b \in 1 .. Len(batches) : batches'[b] = batches[b]
        BY <1>1, <1>5 DEF FlushOf
    <2>3. ASSUME NEW b \in 1 .. Len(batches') - 1
          PROVE  FullBefore(src, batches'[b], batches'[b + 1].segments[1])
        <3>1. b \in 1 .. Len(batches) /\ batches'[b] = batches[b]
            BY <2>2
        <3>2. CASE b \in 1 .. Len(batches) - 1
            <4>1. b + 1 \in 1 .. Len(batches)
                BY <2>2, <3>2
            <4>2. batches'[b + 1] = batches[b + 1]
                BY <2>2, <4>1
            <4> QED
                BY <3>1, <3>2, <4>2 DEF SInv, Full, FullList
        <3>3. CASE b = Len(batches)
            BY <2>1, <2>2, <3>1, <3>3
        <3> QED
            BY <2>2, <3>1, <3>2, <3>3
    <2> QED
        BY <1>4, <2>3 DEF FullList
<1>6. CASE ~(c.points > 0)
    BY <1>1, <1>4, <1>6 DEF FlushOf, SInv, Full, FullList
<1> QED
    BY <1>5, <1>6

\* The current batch cannot take the point of the scan, which is the first of its
\* metric to be added: the last segment is of the scan's scope exactly if the scope
\* is open, and it is of another metric.
LEMMA LastSegment ==
    ASSUME XInv, SInv, pc = "grow", cur.segments # <<>>, AtPoint,
           NEW last, last = cur.segments[Len(cur.segments)]
    PROVE  /\ last.scope = sm <=> open
           /\ ~(last.scope = sm /\ last.metric = m)
<1>1. /\ cur.segments \in Seq(AnySegment) /\ Len(cur.segments) \in 1 .. Len(cur.segments)
      /\ sm \in Nat /\ start = 1
    <2>1. cur.segments \in Seq(AnySegment)
        BY DEF XInv, Batches, Batch
    <2>2. Len(cur.segments) \in Nat \ {0}
        BY <2>1, EmptySeq
    <2>3. sm \in Nat /\ start = 1
        BY DEF XInv, Scalars, SInv, Full
    <2> QED
        BY <2>1, <2>2, <2>3
<1>2. last \in AnySegment /\ last \in All(batches, cur)
    BY <1>1 DEF All, SegmentsOf
<1>3. Passed(last.scope, last.metric, last.to)
    BY <1>2 DEF XInv, Covered, Behind
<1>4. ~(last.scope = sm /\ last.metric = m)
    BY <1>1, <1>2, <1>3 DEF Passed, AnySegment
<1>5. ASSUME open PROVE last.scope = sm
    <2>1. PICK i \in 1 .. Len(cur.segments) : cur.segments[i].scope = sm
        BY <1>5 DEF XInv, OpenScope
    <2>2. CASE i = Len(cur.segments)
        BY <2>1, <2>2
    <2>3. CASE i < Len(cur.segments)
        <3>1. Precedes(cur.segments[i], last)
            BY <1>1, <2>3 DEF XInv, Advancing, InOrder
        <3>2. last.scope \in Nat
            BY <1>2 DEF AnySegment
        <3>3. sm < last.scope \/ last.scope = sm
            BY <2>1, <3>1 DEF Precedes
        <3>4. last.scope < sm \/ last.scope = sm
            BY <1>3 DEF Passed
        <3> QED
            BY <1>1, <3>2, <3>3, <3>4
    <2> QED
        BY <1>1, <2>2, <2>3
<1>6. ASSUME last.scope = sm PROVE open
    BY <1>1, <1>6 DEF XInv, OpenScope
<1> QED
    BY <1>4, <1>5, <1>6

LEMMA StartRequestSums == XInv /\ SInv /\ StartRequest => SInv'
<1> SUFFICES ASSUME XInv, SInv, StartRequest PROVE SInv'
    OBVIOUS
<1>1. /\ UNCHANGED <<src, sm, m, start>>
      /\ batches' = Flushed(cur) /\ cur' = NoPoints
      /\ pc = "grow" /\ pc' = "metric" /\ ~CanGrow /\ end = start
    BY DEF StartRequest
<1>2. AtPoint
    BY <1>1 DEF XInv, Position, AtPoint
<1>3. /\ Points \in Seq(Nat) /\ Here.header \in Nat /\ start \in 1 .. Len(Points)
      /\ src[sm].size \in Nat /\ Points[start] \in Nat
    BY <1>2, HereTypes, ScopeTypes DEF XInv, Scalars, AtPoint
<1>4. /\ cur \in Batch /\ cur.size \in Nat /\ cur.points \in Nat /\ IsBatch(src, cur)
      /\ Accounted(src, cur) /\ WellFormed(cur) /\ batches \in Seq(Batch)
      /\ src \in Seq(Scopes)
    BY DEF XInv, Batches, Batch, BatchesTyped, SInv, Accounts, Scalars
<1>5. Accounts' /\ FullList(src, batches)'
    <2>1. Len(batches) > 0 /\ cur.segments # <<>> =>
            FullBefore(src, batches[Len(batches)], cur.segments[1])
        BY DEF SInv, Full
    <2> QED
        BY <1>1, <1>4, <2>1, FlushSums
<1>6. cur.points > 0 /\ cur.size + need + Points[start] > MaxBytes
    <2>1. ~(cur.size + need + Points[start] <= MaxBytes) /\ cur.points # 0
        BY <1>1, <1>2 DEF CanGrow, AtPoint
    <2>2. cur.size + need + Points[start] \in Nat /\ MaxBytes \in Nat
        BY <1>3, <1>4, SizesAssumption DEF XInv, Scalars
    <2> QED
        BY <1>4, <2>1, <2>2
<1>7. need = Here.header + (IF open THEN 0 ELSE src[sm].size)
    <2>1. start \in start .. Len(Points)
        BY <1>3
    <2>2. Total(SubSeq(Points, start, start - 1)) = 0
        BY <1>3, <2>1, PointAddsUp
    <2>3. need = Here.header + (IF open THEN 0 ELSE src[sm].size)
                    + Total(SubSeq(Points, start, start - 1))
        BY <1>1 DEF SInv, Accounts
    <2> QED
        BY <1>3, <2>2, <2>3
<1>8. cur.segments # <<>>
    <2>1. SUFFICES ASSUME cur.segments = <<>> PROVE FALSE
        OBVIOUS
    <2>2. PointCount(cur) = 0
        BY <2>1, Sums, EmptySums DEF NoPoints
    <2> QED
        BY <1>4, <1>6, <2>2 DEF Accounted
<1>9. Overflows(src, cur, sm, m, start)
    <2> DEFINE last == cur.segments[Len(cur.segments)]
    <2>1. (last.scope = sm <=> open) /\ ~(last.scope = sm /\ last.metric = m)
        BY <1>1, <1>2, <1>8, LastSegment
    <2> HIDE DEF last
    <2>2. cur.size = Estimate(src, cur)
        BY <1>4 DEF Accounted
    <2>3. cur.size + Points[start] + Here.header + (IF last.scope = sm THEN 0 ELSE src[sm].size)
            > MaxBytes
        <3>1. PICK charged \in Nat : charged = IF last.scope = sm THEN 0 ELSE src[sm].size
            BY <1>3
        <3>2. (IF open THEN 0 ELSE src[sm].size) = (IF last.scope = sm THEN 0 ELSE src[sm].size)
            BY <2>1
        <3>3. need = Here.header + charged
            BY <1>7, <3>1, <3>2
        <3>4. cur.size + (Here.header + charged) + Points[start] > MaxBytes
            BY <1>6, <3>3
        <3>5. MaxBytes \in Nat
            BY SizesAssumption
        <3>6. cur.size + Points[start] + Here.header + charged > MaxBytes
            BY <1>3, <1>4, <3>4, <3>5
        <3> QED
            BY <3>1, <3>6
    <2>4. Estimate(src, cur) + Points[start]
            + (IF last.scope = sm /\ last.metric = m THEN 0 ELSE Here.header)
            + (IF last.scope = sm THEN 0 ELSE src[sm].size) > MaxBytes
        BY <2>1, <2>2, <2>3
    <2> QED
        BY <2>4 DEF Overflows, last, Points, Here
<1>10. batches' = Append(batches, cur) /\ batches'[Len(batches')] = cur
    BY <1>1, <1>4, <1>6 DEF Flushed
<1>11. cur'.segments = <<>>
    BY <1>1 DEF NoPoints
<1>12. Full'
    BY <1>1, <1>2, <1>5, <1>9, <1>10, <1>11 DEF Full, AtPoint, Points, Here
<1> QED
    BY <1>5, <1>12 DEF SInv

LEMMA LastFlushSums == XInv /\ SInv /\ LastFlush => SInv'
<1> SUFFICES ASSUME XInv, SInv, LastFlush PROVE SInv'
    OBVIOUS
<1>1. /\ UNCHANGED src /\ batches' = Flushed(cur) /\ cur' = NoPoints /\ pc' = "send"
    BY DEF LastFlush
<1>2. /\ cur \in Batch /\ IsBatch(src, cur) /\ Accounted(src, cur) /\ WellFormed(cur)
    BY DEF XInv, Batches, BatchesTyped, SInv, Accounts
<1>3. Accounts' /\ FullList(src, batches)'
    <2>1. Len(batches) > 0 /\ cur.segments # <<>> =>
            FullBefore(src, batches[Len(batches)], cur.segments[1])
        BY DEF SInv, Full
    <2> QED
        BY <1>1, <1>2, <2>1, FlushSums
<1>4. cur'.segments = <<>>
    BY <1>1 DEF NoPoints
<1>5. Full'
    BY <1>1, <1>3, <1>4 DEF Full
<1> QED
    BY <1>3, <1>5 DEF SInv

LEMMA AddSegmentSums == XInv /\ SInv /\ AddSegment => SInv'
<1> SUFFICES ASSUME XInv, SInv, AddSegment PROVE SInv'
    OBVIOUS
<1> DEFINE n == Len(cur.segments)
<1>1. /\ UNCHANGED <<src, sm, m>> /\ start' = end
      /\ pc = "grow" /\ pc' = "metric" /\ ~CanGrow /\ end > start
    BY DEF AddSegment
<1>2. AtPoint /\ start <= end /\ end <= Len(Points) + 1
    BY <1>1 DEF XInv, Position, AtPoint
<1>3. /\ Points \in Seq(Nat) /\ Here.header \in Nat /\ start \in 1 .. Len(Points)
      /\ src[sm].size \in Nat /\ end \in Nat /\ Len(Points) \in Nat
      /\ src \in Seq(Scopes) /\ start \in Nat
    BY <1>2, HereTypes, ScopeTypes DEF XInv, Scalars, AtPoint
<1>4. /\ cur \in Batch /\ cur.size \in Nat /\ cur.points \in Nat /\ IsBatch(src, cur)
      /\ Accounted(src, cur) /\ batches \in Seq(Batch)
    BY DEF XInv, Batches, Batch, BatchesTyped, SInv, Accounts
<1>5. /\ NewSegment \in AnySegment /\ IsSegment(src, NewSegment)
      /\ Grown \in Batch /\ IsBatch(src, Grown) /\ WellFormed(Grown)
      /\ Grown.size = cur.size + need /\ Grown.points = cur.points + (end - start)
      /\ Grown.points > 0 /\ Grown.segments = Append(cur.segments, NewSegment)
      /\ Len(Grown.segments) = n + 1 /\ n \in Nat
      /\ Grown.segments[n + 1] = NewSegment
      /\ \A i \in 1 .. n : Grown.segments[i] = cur.segments[i]
    BY GrownKeeps
<1>6. need = SegmentSize(src, Grown.segments, n + 1)
    <2>1. Opens(Grown.segments, n + 1) <=> ~open
        BY <1>5 DEF Opens, XInv, OpenScope, NewSegment
    <2>2. need = Here.header + (IF open THEN 0 ELSE src[sm].size)
                    + Total(SubSeq(Points, start, end - 1))
        BY <1>1 DEF SInv, Accounts
    <2>3. Total(SubSeq(Points, start, end - 1)) \in Nat
        <3>1. \A j \in start .. end - 1 : Points[j] \in Nat
            BY <1>2, <1>3
        <3>2. SubSeq(Points, start, end - 1) \in Seq(Nat)
            BY <1>3, <3>1, SubSeqProperties
        <3> QED
            BY <3>2, TotalProperties
    <2>4. SegmentSize(src, Grown.segments, n + 1) =
            Here.header + Total(SubSeq(Points, start, end - 1))
                + (IF Opens(Grown.segments, n + 1) THEN src[sm].size ELSE 0)
        BY <1>5 DEF SegmentSize, NewSegment, Points, Here
    <2>5. (IF Opens(Grown.segments, n + 1) THEN src[sm].size ELSE 0)
            = (IF open THEN 0 ELSE src[sm].size)
        BY <2>1
    <2>6. PICK charged \in Nat : charged = IF open THEN 0 ELSE src[sm].size
        BY <1>3
    <2>7. need = Here.header + charged + Total(SubSeq(Points, start, end - 1))
        BY <2>2, <2>6
    <2>8. SegmentSize(src, Grown.segments, n + 1)
            = Here.header + Total(SubSeq(Points, start, end - 1)) + charged
        BY <2>4, <2>5, <2>6
    <2> QED
        BY <1>3, <2>3, <2>7, <2>8
<1>7. Accounted(src, Grown)
    <2>1. /\ Estimate(src, Grown) = Estimate(src, cur) + SegmentSize(src, Grown.segments, n + 1)
          /\ PointCount(Grown) = PointCount(cur) + (NewSegment.to - NewSegment.from + 1)
        BY <1>3, <1>4, <1>5, SegmentAddsUp
    <2>2. NewSegment.to - NewSegment.from + 1 = end - start
        BY <1>3 DEF NewSegment
    <2> QED
        BY <1>4, <1>5, <1>6, <2>1, <2>2 DEF Accounted
<1>8. Len(batches) > 0 => FullBefore(src, batches[Len(batches)], Grown.segments[1])
    <2>1. SUFFICES ASSUME Len(batches) > 0
                   PROVE  FullBefore(src, batches[Len(batches)], Grown.segments[1])
        OBVIOUS
    <2>2. CASE cur.segments = <<>>
        <3>1. Grown.segments[1] = NewSegment
            BY <1>5, <2>2
        <3>2. Overflows(src, batches[Len(batches)], sm, m, start)
            BY <1>1, <2>1, <2>2 DEF SInv, Full
        <3> QED
            BY <3>1, <3>2 DEF FullBefore, NewSegment
    <2>3. CASE cur.segments # <<>>
        <3>1. cur.segments \in Seq(AnySegment)
            BY <1>4 DEF Batch
        <3>2. n >= 1
            BY <2>3, <3>1, EmptySeq
        <3>3. Grown.segments[1] = cur.segments[1]
            BY <1>5, <3>2
        <3> QED
            BY <2>1, <2>3, <3>3 DEF SInv, Full
    <2> QED
        BY <2>2, <2>3
<1> HIDE DEF n
<1>9. CASE end <= Len(Points)
    <2>1. batches' = Flushed(Grown) /\ cur' = NoPoints
        BY <1>9 DEF AddSegment
    <2>2. Accounts' /\ FullList(src, batches)'
        BY <1>1, <1>5, <1>7, <1>8, <2>1, FlushSums
    <2>3. cur.size + need + Points[end] > MaxBytes
        <3>1. ~(cur.size + need + Points[end] <= MaxBytes)
            BY <1>1, <1>9 DEF CanGrow
        <3>2. end \in 1 .. Len(Points)
            BY <1>1, <1>3, <1>9
        <3>3. Points[end] \in Nat
            BY <1>3, <3>2
        <3>4. need \in Nat
            BY DEF XInv, Scalars
        <3>5. MaxBytes \in Nat
            BY SizesAssumption
        <3> QED
            BY <1>4, <3>1, <3>3, <3>4, <3>5
    <2>4. Overflows(src, Grown, sm, m, end)
        <3> DEFINE last == Grown.segments[Len(Grown.segments)]
        <3>1. last.scope = sm /\ last.metric = m
            BY <1>5 DEF NewSegment
        <3>2. Estimate(src, Grown) = cur.size + need
            BY <1>5, <1>7 DEF Accounted
        <3> HIDE DEF last
        <3>3. Points[end] \in Nat /\ cur.size + need \in Nat
            <4>1. end \in 1 .. Len(Points)
                BY <1>1, <1>3, <1>9
            <4>2. Points[end] \in Nat
                BY <1>3, <4>1
            <4>3. need \in Nat
                BY DEF XInv, Scalars
            <4> QED
                BY <1>4, <4>2, <4>3
        <3>4. Estimate(src, Grown) + Points[end]
                + (IF last.scope = sm /\ last.metric = m THEN 0 ELSE Here.header)
                + (IF last.scope = sm THEN 0 ELSE src[sm].size) > MaxBytes
            BY <2>3, <3>1, <3>2, <3>3
        <3> QED
            BY <3>4 DEF Overflows, last, Points, Here
    <2>5. batches' = Append(batches, Grown) /\ batches'[Len(batches')] = Grown
        BY <1>4, <1>5, <2>1 DEF Flushed
    <2>6. cur'.segments = <<>>
        BY <2>1 DEF NoPoints
    <2>7. AtPoint'
        BY <1>1, <1>2, <1>9 DEF AtPoint, Points, Here
    <2>8. Full'
        BY <1>1, <2>2, <2>4, <2>5, <2>6, <2>7 DEF Full
    <2> QED
        BY <2>2, <2>8 DEF SInv
<1>10. CASE ~(end <= Len(Points))
    <2>1. cur' = Grown /\ batches' = batches
        BY <1>10 DEF AddSegment
    <2>2. Accounts'
        BY <1>1, <1>7, <2>1 DEF SInv, Accounts
    <2>3. ~AtPoint'
        BY <1>1, <1>10 DEF AtPoint, Points, Here
    <2>4. Grown.segments # <<>>
        <3>1. Len(Grown.segments) # 0
            BY <1>5
        <3>2. Len(<<>>) = 0
            OBVIOUS
        <3> QED
            BY <3>1, <3>2
    <2>5. Full'
        BY <1>1, <1>8, <2>1, <2>3, <2>4 DEF SInv, Full
    <2> QED
        BY <2>2, <2>5 DEF SInv
<1> QED
    BY <1>9, <1>10

LEMMA SumsNext == XInv /\ SInv /\ [Next]_vars => SInv'
<1> SUFFICES ASSUME XInv, SInv, [Next]_vars PROVE SInv'
    OBVIOUS
<1>1. CASE NextScope \/ NextMetric
    BY <1>1, NextScopeSums, NextMetricSums
<1>2. CASE BeginSegment \/ Grow
    BY <1>2, BeginSegmentSums, GrowSums
<1>3. CASE StartRequest \/ AddSegment \/ LastFlush
    BY <1>3, StartRequestSums, AddSegmentSums, LastFlushSums
<1>4. CASE SendWhole \/ SendNext \/ Return
    <2>1. /\ UNCHANGED <<src, cur, batches>> /\ pc' \in {"send", "done"} /\ pc = "send"
        BY <1>4 DEF SendWhole, SendNext, Return
    <2>2. Accounts'
        BY <2>1, SameBatchesAccounts DEF SInv
    <2>3. Full'
        BY <2>1 DEF SInv, Full
    <2> QED
        BY <2>2, <2>3 DEF SInv
<1>5. CASE UNCHANGED vars
    BY <1>5 DEF vars, SInv, Accounts, Full, AtPoint, Points, Here
<1>6. CASE Stopped
    BY <1>5, <1>6 DEF Stopped
<1> QED
    BY <1>1, <1>2, <1>3, <1>4, <1>5, <1>6 DEF Next

LEMMA SumsInit == Init => SInv
<1> SUFFICES ASSUME Init PROVE SInv
    OBVIOUS
<1>1. pc = "metric" /\ cur = NoPoints /\ batches = <<>>
    BY DEF Init
<1>2. Accounts
    BY <1>1, EmptySums DEF Accounts, Accounted, NoPoints
<1>3. Full
    BY <1>1 DEF Full, FullList, NoPoints
<1> QED
    BY <1>2, <1>3 DEF SInv

\* SInv holds in every state.
THEOREM SumsInvariance == Spec => []SInv
<1>1. Init => SInv
    BY SumsInit
<1>2. XInv /\ SInv /\ [Next]_vars => SInv'
    BY SumsNext
<1> QED
    BY <1>1, <1>2, Invariance, PTL DEF Spec

\* A request is within the cap, its sizes added up from the cycle, or it is one point
\* that travels alone, however large: for every cap and all sizes.
THEOREM RequestsFit == Spec => []FitsOrAlone
<1>1. XInv /\ SInv => FitsOrAlone
    <2> SUFFICES ASSUME XInv, SInv, NEW b \in 1 .. Len(batches)
                 PROVE  Estimate(src, batches[b]) <= MaxBytes \/ PointCount(batches[b]) = 1
        BY DEF FitsOrAlone
    <2>1. batches[b].points \in Nat /\ batches[b].points > 0 /\ WithinCap(batches[b])
        BY DEF XInv, Batches, BatchesTyped, IsBatch
    <2>2. Accounted(src, batches[b])
        BY DEF SInv, Accounts
    <2> QED
        BY <2>1, <2>2 DEF WithinCap, Accounted
<1> QED
    BY <1>1, Invariance, SumsInvariance, PTL

\* No request ends early: the first point of the next one would not have fitted.
THEOREM RequestsFull == Spec => []RequestsAreFull
<1>1. SInv => RequestsAreFull
    BY DEF SInv, Full, FullList, FullBefore, RequestsAreFull
<1> QED
    BY <1>1, SumsInvariance, PTL
=============================================================================
