---------------------------- MODULE PolicyCompiler ----------------------------
(***************************************************************************)
(* internal/policy/compile.go: what is left of a generator whose           *)
(* expressions do not all compile. An expression is an opaque value;       *)
(* family names are effective names, their prefix applied.                 *)
(***************************************************************************)
EXTENDS SequencesExt

CONSTANTS
    Expr,      \* expressions
    Broken,    \* those that no environment compiles
    UsesItem,  \* those that mention item, which only the item environment has
    None       \* a forEach or value that is not set; also a nil generator

ASSUME ExprAssumption == Broken \cup UsesItem \subseteq Expr /\ None \notin Expr

\* A metric is told apart by its id; labels are expressions, without their names.
Metrics == [id : Nat, forEach : Expr \cup {None}, value : Expr \cup {None}, labels : Seq(Expr)]

Compiles(e, env) == e \notin Broken /\ (e \in UsesItem => env = "item")

exprEnv(m) == IF m.forEach = None THEN "object" ELSE "item"
forEachFails(m) == m.forEach # None /\ ~Compiles(m.forEach, "object")
valueFails(m) == m.value # None /\ ~Compiles(m.value, exprEnv(m))

\* The elements of s that are good, in their order.
Kept(s, good) == FlattenSeq([i \in DOMAIN s |-> IF s[i] \in good THEN <<s[i]>> ELSE <<>>])

\* The labels that compile; the others are left out, and the series published.
compileLabels(m) == Kept(m.labels, {e \in Expr : Compiles(e, exprEnv(m))})

compiled(m) == [m EXCEPT !.labels = compileLabels(m)]

\* Seeded fault: a metric without its forEach is published once per object.
compileMetricsKeeping(metrics) ==
    LET kept == Kept(metrics, {m \in ToSet(metrics) : ~valueFails(m)})
    IN  [i \in DOMAIN kept |->
            [compiled(kept[i]) EXCEPT !.forEach = IF forEachFails(kept[i]) THEN None ELSE @]]

\* A metric whose forEach or value does not compile is dropped.
compileMetrics(metrics) ==
    LET kept == Kept(metrics, {m \in ToSet(metrics) : ~forEachFails(m) /\ ~valueFails(m)})
    IN  [i \in DOMAIN kept |-> compiled(kept[i])]

\* What is compiled of a metric: labels are tried even if the value failed, and
\* nothing is if the forEach failed.
Tried(m) ==
    ({<<m.forEach, "object">>} \cup
        (IF forEachFails(m) THEN {}
         ELSE {<<e, exprEnv(m)>> : e \in {m.value} \cup {m.labels[i] : i \in DOMAIN m.labels}}))
    \ {<<None, env>> : env \in {"object", "item"}}

TriedOf(gen) ==
    UNION {UNION {Tried(gen.families[f].metrics[i]) : i \in DOMAIN gen.families[f].metrics} :
              f \in DOMAIN gen.families}

\* A generator that has expressions, all of which failed: a nil slot.
Husk(gen) == TriedOf(gen) # {} /\ \A t \in TriedOf(gen) : ~Compiles(t[1], t[2])

compileGenerator(gen) ==
    IF Husk(gen) THEN None
    ELSE [gen EXCEPT !.families =
            [f \in DOMAIN gen.families |->
                [gen.families[f] EXCEPT !.metrics = compileMetrics(@)]]]
===============================================================================
