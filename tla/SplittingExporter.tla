-------------------------- MODULE SplittingExporter --------------------------
(***************************************************************************)
(* internal/otel/split_exporter.go: one Export call of the periodic reader *)
(* is cut into requests that each fit MaxBytes, and all of them are sent.  *)
(*                                                                         *)
(* A scope, a metric and a data point are reduced to their estimated       *)
(* encoded sizes, overheads included. A metric the exporter cannot slice   *)
(* is a metric with one point (dataPointSizes, wholeMetricSize).           *)
(***************************************************************************)
EXTENDS Naturals, Sequences

CONSTANTS
    MaxBytes,      \* the cap on a request
    ResourceSize,  \* what every request starts with
    Source         \* the collection cycles considered

Metrics == [header : Nat, points : Seq(Nat)]
Scopes  == [size : Nat, metrics : Seq(Metrics)]

ASSUME SizesAssumption == MaxBytes \in Nat \ {0} /\ ResourceSize \in Nat
ASSUME SourceAssumption == Source \subseteq Seq(Scopes)

VARIABLES
    src,      \* the cycle being exported, never modified
    pc,       \* "metric", "grow", "send" or "done"
    sm, m,    \* the scope and the metric at hand, counted from 1
    start,    \* its first data point that is in no batch yet
    end,      \* its first data point that is not to go into the segment
    need,     \* what the segment adds to the request
    open,     \* the current batch has an entry for this scope
    cur,      \* the current batch
    batches,  \* the batches that are complete
    sent,     \* how many requests were made
    failed    \* how many of them failed

vars == <<src, pc, sm, m, start, end, need, open, cur, batches, sent, failed>>
scanVars == <<sm, m, start, end, need, open>>
sendVars == <<sent, failed>>

\* A batch, with curSize and curPoints. A segment is a run of points of one
\* metric; newScope tells that a scope entry was opened for it.
NoPoints == [size |-> ResourceSize, points |-> 0, segments |-> <<>>]

Here == src[sm].metrics[m]
Points == Here.points

Init ==
    /\ src \in Source
    /\ pc = "metric"
    /\ sm = 1 /\ m = 1 /\ start = 1 /\ end = 1 /\ need = 0
    /\ open = FALSE
    /\ cur = NoPoints
    /\ batches = <<>>
    /\ sent = 0
    /\ failed = 0

-----------------------------------------------------------------------------
(* The three loops of splitResourceMetrics.                                *)

\* Seeded faults: flush keeps a batch without points; the last flush is
\* forgotten.
FlushedAlways(batch) == Append(batches, batch)
FlushedUnlessLast(batch) ==
    IF batch.points > 0 /\ sm <= Len(src) THEN Append(batches, batch) ELSE batches

\* flush: a batch without points is not a request.
Flushed(batch) == IF batch.points > 0 THEN Append(batches, batch) ELSE batches

NextScope ==
    /\ pc = "metric"
    /\ sm <= Len(src) /\ m > Len(src[sm].metrics)
    /\ sm' = sm + 1 /\ m' = 1 /\ start' = 1
    /\ open' = FALSE
    /\ UNCHANGED <<src, pc, end, need, cur, batches, sendVars>>

\* A metric is done when no point is left; one without points is dropped.
NextMetric ==
    /\ pc = "metric"
    /\ sm <= Len(src) /\ m <= Len(src[sm].metrics) /\ start > Len(Points)
    /\ m' = m + 1 /\ start' = 1
    /\ UNCHANGED <<src, pc, sm, end, need, open, cur, batches, sendVars>>

\* Seeded fault: only the first scope of a request is charged.
BeginSegmentUncharged ==
    /\ pc = "metric"
    /\ sm <= Len(src) /\ m <= Len(src[sm].metrics) /\ start <= Len(Points)
    /\ need' = Here.header + (IF open \/ cur.points > 0 THEN 0 ELSE src[sm].size)
    /\ end' = start
    /\ pc' = "grow"
    /\ UNCHANGED <<src, sm, m, start, open, cur, batches, sendVars>>

\* A segment costs the metric's header, and the scope's unless it is there.
BeginSegment ==
    /\ pc = "metric"
    /\ sm <= Len(src) /\ m <= Len(src[sm].metrics) /\ start <= Len(Points)
    /\ need' = Here.header + (IF open THEN 0 ELSE src[sm].size)
    /\ end' = start
    /\ pc' = "grow"
    /\ UNCHANGED <<src, sm, m, start, open, cur, batches, sendVars>>

\* Seeded faults: no exception for a point that is alone; one point less than
\* what fits.
CanGrowNeverAlone ==
    /\ end <= Len(Points)
    /\ cur.size + need + Points[end] <= MaxBytes
CanGrowBelow ==
    /\ end <= Len(Points)
    /\ \/ cur.size + need + Points[end] < MaxBytes
       \/ cur.points = 0 /\ end = start

\* The next point fits, or would be the only one of its request.
CanGrow ==
    /\ end <= Len(Points)
    /\ \/ cur.size + need + Points[end] <= MaxBytes
       \/ cur.points = 0 /\ end = start

Grow ==
    /\ pc = "grow"
    /\ CanGrow
    /\ need' = need + Points[end]
    /\ end' = end + 1
    /\ UNCHANGED <<src, pc, sm, m, start, open, cur, batches, sendVars>>

\* Seeded fault: the scope entry of the last request is taken for this one's.
StartRequestSameScope ==
    /\ pc = "grow"
    /\ ~CanGrow /\ end = start
    /\ batches' = Flushed(cur)
    /\ cur' = NoPoints
    /\ pc' = "metric"
    /\ UNCHANGED <<src, sm, m, start, end, need, open, sendVars>>

\* Not one point fits: start a request.
StartRequest ==
    /\ pc = "grow"
    /\ ~CanGrow /\ end = start
    /\ batches' = Flushed(cur)
    /\ cur' = NoPoints
    /\ open' = FALSE
    /\ pc' = "metric"
    /\ UNCHANGED <<src, sm, m, start, end, need, sendVars>>

\* Adds points start .. end-1 to the batch; if the metric has more, the batch
\* is full.
Grown == [size |-> cur.size + need,
          points |-> cur.points + (end - start),
          segments |-> Append(cur.segments,
                              [scope |-> sm, metric |-> m, newScope |-> ~open,
                               from |-> start, to |-> end - 1])]

AddSegment ==
    /\ pc = "grow"
    /\ ~CanGrow /\ end > start
    /\ start' = end
    /\ IF end <= Len(Points)
       THEN batches' = Flushed(Grown) /\ cur' = NoPoints /\ open' = FALSE
       ELSE cur' = Grown /\ open' = TRUE /\ UNCHANGED batches
    /\ pc' = "metric"
    /\ UNCHANGED <<src, sm, m, end, need, sendVars>>

LastFlush ==
    /\ pc = "metric"
    /\ sm > Len(src)
    /\ batches' = Flushed(cur)
    /\ cur' = NoPoints
    /\ pc' = "send"
    /\ UNCHANGED <<src, scanVars, sendVars>>

-----------------------------------------------------------------------------
(* Export. The wrapped exporter may fail any request.                      *)

\* With one batch or none, the cycle goes out as it came.
SendWhole ==
    /\ pc = "send"
    /\ Len(batches) <= 1
    /\ sent' = 1
    /\ failed' \in {0, 1}
    /\ pc' = "done"
    /\ UNCHANGED <<src, scanVars, cur, batches>>

\* Seeded fault: the first failure ends the loop.
SendNextUnlessFailed ==
    /\ pc = "send"
    /\ Len(batches) > 1 /\ sent < Len(batches)
    /\ \E ok \in BOOLEAN :
         IF ok THEN sent' = sent + 1 /\ UNCHANGED <<pc, failed>>
         ELSE sent' = sent + 1 /\ failed' = failed + 1 /\ pc' = "done"
    /\ UNCHANGED <<src, scanVars, cur, batches>>

SendNext ==
    /\ pc = "send"
    /\ Len(batches) > 1 /\ sent < Len(batches)
    /\ sent' = sent + 1
    /\ failed' \in {failed, failed + 1}
    /\ UNCHANGED <<src, pc, scanVars, cur, batches>>

\* An error that joins the failures, if there were any.
Return ==
    /\ pc = "send"
    /\ Len(batches) > 1 /\ sent = Len(batches)
    /\ pc' = "done"
    /\ UNCHANGED <<src, scanVars, cur, batches, sendVars>>

Stopped == pc = "done" /\ UNCHANGED vars

Next ==
    \/ NextScope \/ NextMetric \/ BeginSegment \/ Grow \/ StartRequest
    \/ AddSegment \/ LastFlush \/ SendWhole \/ SendNext \/ Return
    \/ Stopped

Spec == Init /\ [][Next]_vars

\* Export is one call on one goroutine: it keeps running.
FairSpec == Spec /\ WF_vars(Next)

-----------------------------------------------------------------------------
(* Properties of the scan and the sending loop.                            *)

\* Every variable holds what its declaration says. The batches are those of
\* the cycle at hand: a segment lies within the points of its metric.
IsSegment(cycle, seg) ==
    /\ seg \in [scope : 1 .. Len(cycle), metric : Nat \ {0}, newScope : BOOLEAN,
                from : Nat \ {0}, to : Nat \ {0}]
    /\ seg.metric <= Len(cycle[seg.scope].metrics)
    /\ seg.from <= seg.to
    /\ seg.to <= Len(cycle[seg.scope].metrics[seg.metric].points)
IsBatch(cycle, batch) ==
    /\ batch.size \in Nat /\ batch.points \in Nat
    /\ \A i \in 1 .. Len(batch.segments) : IsSegment(cycle, batch.segments[i])
TypeOK ==
    /\ src \in Seq(Scopes)
    /\ pc \in {"metric", "grow", "send", "done"}
    /\ sm \in 1 .. Len(src) + 1
    /\ m \in Nat \ {0} /\ start \in Nat \ {0}
    /\ end \in Nat /\ need \in Nat /\ sent \in Nat
    /\ open \in BOOLEAN
    /\ IsBatch(src, cur)
    /\ \A i \in 1 .. Len(batches) : IsBatch(src, batches[i]) /\ batches[i].points > 0
    /\ failed \in 0 .. sent

\* What splitResourceMetrics returned, looked at before the first request.
IsSplit == pc = "send" /\ sent = 0

\* Every point of x comes before every point of y in the cycle.
Precedes(x, y) ==
    \/ x.scope < y.scope
    \/ x.scope = y.scope /\ x.metric < y.metric
    \/ x.scope = y.scope /\ x.metric = y.metric /\ x.to < y.from

SegmentsOf(batch) == {batch.segments[i] : i \in 1 .. Len(batch.segments)}

InOrder(batch) ==
    \A i, j \in 1 .. Len(batch.segments) :
        i < j => Precedes(batch.segments[i], batch.segments[j])

Holds(seg, s, k, i) == seg.scope = s /\ seg.metric = k /\ i \in seg.from .. seg.to

\* The requests hold the points of the cycle, each once and in order, whatever
\* was cut where: splitResourceMetrics' "keeping every data point exactly once
\* and in order" (85-89). A segment is a run of points that follows all earlier ones.
KeepsEveryPoint ==
    IsSplit =>
        /\ \A s \in 1 .. Len(src) : \A k \in 1 .. Len(src[s].metrics) :
              \A i \in 1 .. Len(src[s].metrics[k].points) :
                \E b \in 1 .. Len(batches) : \E seg \in SegmentsOf(batches[b]) :
                    Holds(seg, s, k, i)
        /\ \A b \in 1 .. Len(batches) : InOrder(batches[b])
        /\ \A b, c \in 1 .. Len(batches) : b < c =>
              \A x \in SegmentsOf(batches[b]), y \in SegmentsOf(batches[c]) : Precedes(x, y)

\* A segment is the first of its batch in its scope.
Opens(segs, i) == \A j \in 1 .. i - 1 : segs[j].scope # segs[i].scope

\* In every request each scope has one entry, opened with its first metric: a
\* pointer into an earlier request's entry would add points to what was cut
\* off already (99, 120, 123-126, 133).
ScopesOnce(batch) ==
    \A i \in 1 .. Len(batch.segments) :
        batch.segments[i].newScope <=> Opens(batch.segments, i)
ScopesEntered == IsSplit => \A b \in 1 .. Len(batches) : ScopesOnce(batches[b])

\* Sizes added up from scratch, whatever the scan has counted.
Total(sizes) ==
    LET upTo[n \in 0 .. Len(sizes)] == IF n = 0 THEN 0 ELSE upTo[n - 1] + sizes[n]
    IN  upTo[Len(sizes)]

\* A segment is its metric's header and its points, and the scope unless the batch
\* holds it already.
SegmentSize(cycle, segs, i) ==
    LET scope  == cycle[segs[i].scope]
        metric == scope.metrics[segs[i].metric]
    IN  metric.header + Total(SubSeq(metric.points, segs[i].from, segs[i].to))
            + (IF Opens(segs, i) THEN scope.size ELSE 0)

\* The estimate of a batch, and the points in it.
Estimate(cycle, batch) ==
    ResourceSize + Total([i \in 1 .. Len(batch.segments) |-> SegmentSize(cycle, batch.segments, i)])
PointCount(batch) ==
    Total([i \in 1 .. Len(batch.segments) |->
              batch.segments[i].to - batch.segments[i].from + 1])

\* A request's estimate is within the cap, or it is one point that travels
\* alone, however large ("each fit maxBytes"; "A single data point larger
\* than maxBytes travels alone", 87).
FitsOrAlone ==
    IsSplit => \A b \in 1 .. Len(batches) :
        Estimate(src, batches[b]) <= MaxBytes \/ PointCount(batches[b]) = 1

\* A point does not fit a batch: with what it would add at its end, be it the same
\* metric still, another one or another scope.
Overflows(cycle, batch, s, k, i) ==
    LET last   == batch.segments[Len(batch.segments)]
        metric == cycle[s].metrics[k]
    IN  Estimate(cycle, batch) + metric.points[i]
            + (IF last.scope = s /\ last.metric = k THEN 0 ELSE metric.header)
            + (IF last.scope = s THEN 0 ELSE cycle[s].size) > MaxBytes

\* No request ends early: what the next one starts with would not have fitted
\* (108-117).
RequestsAreFull ==
    IsSplit => \A b \in 1 .. Len(batches) - 1 :
        LET first == batches[b + 1].segments[1]
        IN  Overflows(src, batches[b], first.scope, first.metric, first.from)

\* Export returns, and by then it has made every request: the scan makes progress
\* even when a point is larger than a request (the "alone" test at 111; without
\* it, 118-121 would spin), and a request that fails does not stop the ones after
\* it (split_exporter.go:60-66; "sends all of them, even when some fail", 37-38).
Terminates ==
    <>(pc = "done" /\ sent = (IF Len(batches) <= 1 THEN 1 ELSE Len(batches)))

=============================================================================
