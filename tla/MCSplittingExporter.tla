------------------------- MODULE MCSplittingExporter -------------------------
(* Instances of SplittingExporter for TLC.                                 *)
EXTENDS SplittingExporter, SequencesExt

CONSTANTS PointSizes, MaxPoints, MaxMetrics, MaxScopes

\* Every cycle of at most MaxScopes scopes with at most MaxMetrics metrics
\* with at most MaxPoints points. Scope and header sizes are 2 and 1.
SmallCycles ==
    LET metrics == [header : {1}, points : SeqOf(PointSizes, MaxPoints)]
        scopes == [size : {2}, metrics : SeqOf(metrics, MaxMetrics)]
    IN  SeqOf(scopes, MaxScopes)
=============================================================================
