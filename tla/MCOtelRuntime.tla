----------------------------- MODULE MCOtelRuntime -----------------------------
(* Instances of OtelRuntime for TLC.                                       *)
EXTENDS OtelRuntime

CONSTANTS p1, p2, n1, h1, h2

\* A policy that is not there, and two that differ on the help text of a family.
Disagreeing == {Nothing, [n \in {n1} |-> h1], [n \in {n1} |-> h2]}
=============================================================================
