----------------------------- MODULE MCPolicyStatus -----------------------------
(* Instances of PolicyStatus for TLC.                                      *)
EXTENDS PolicyStatus

CONSTANTS c1, g1, n1, n2

Form(refs, wants, active, failures, refused) ==
    [refs |-> refs, wants |-> wants, active |-> active,
     failures |-> failures, refused |-> refused]

\* All is well; or an expression does not compile and a family is refused.
Forms == {Form({g1}, {g1}, 1, 0, {}), Form({g1}, {g1}, 1, 1, {n1})}

\* The others are content, or have a family refused and want the resource too.
Others == {[wants |-> {}, refused |-> {}], [wants |-> {g1}, refused |-> {n2}]}
=============================================================================
