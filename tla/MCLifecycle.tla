------------------------------ MODULE MCLifecycle ------------------------------
(* Instances of Lifecycle for TLC.                                         *)
EXTENDS Lifecycle, TLC

CONSTANTS p1, p2, good1, good2, bad, h1, h2, w1, w2

\* Policies that are not there, or declare one family or two, with one help text or
\* another, and with them a family that is refused.
Forms == {Nothing, good1 :> h1, good1 :> h2 @@ bad :> h1, good1 :> h2 @@ good2 :> h1}
=============================================================================
