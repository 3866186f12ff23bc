----------------------- MODULE MCControlPlaneCollector -----------------------
(* Instances of ControlPlaneCollector for TLC.                             *)
EXTENDS ControlPlaneCollector, TLC

CONSTANTS g1, g2, a, b, i1, i2, i3

Reads(g, fields) == [gvr |-> g, fields |-> fields]

\* Two policies drawn from these make the fields wanted of g1 grow, shrink and
\* change, and make g2 come and go. An empty policy is deleted, or has no
\* generator that compiled.
SharedPolicies ==
    {{}, {Reads(g1, {a})}, {Reads(g1, {b}), Reads(g2, {})}}

\* One policy on one resource.
SinglePolicies == {{}, {Reads(g1, {a})}, {Reads(g1, {a, b})}}

InformerSymmetry == Permutations(Informer)
=============================================================================
