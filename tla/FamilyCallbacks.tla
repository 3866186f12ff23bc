---------------------------- MODULE FamilyCallbacks ----------------------------
(***************************************************************************)
(* What a collection reports: the callbacks observeFamily and              *)
(* observeProjectUp of internal/otel/runtime.go, Build of                  *)
(* internal/metrics/builder.go, and Status and Collect of the collectors   *)
(* they look at, whose informers go on changing. The periodic reader runs  *)
(* the callbacks one after the other; here, one of a family at a time.     *)
(*                                                                         *)
(* Abstractions: the outcome of an expression on an object, or on an item  *)
(* of it, is fixed (faulty); a series is named by what it was made from,   *)
(* its attributes being functions of that. An entry of a collector's map   *)
(* is synced or denied: ControlPlaneCollector shows that it keeps no       *)
(* others, so that Status never meets one it calls fatal.                  *)
(***************************************************************************)
EXTENDS PolicyCompiler

CONSTANTS
    Cluster,   \* engaged control planes
    Outages,   \* those that may become unreachable
    Resource,  \* GVRs
    Object,    \* objects of the API servers
    Stores,    \* sets of objects an informer may hold
    Item,      \* elements of the lists that forEach yields, told apart by place
    ItemsOf,   \* per object, the items a forEach yields on it
    Name,      \* effective names of metric families
    Family,    \* those that have a callback
    Policies,  \* registries: sets of policies, each a sequence of generators
    Faults,    \* sets of <<expression, object, item>> whose evaluation fails
    MaxEvals   \* cycle_budget_max_evals

Families == [name : Name, metrics : Seq(Metrics)]
Generators == [resource : Resource, families : Seq(Families)]

\* No two metrics of a registry have an id in common.
IdsDiffer(policies) ==
    \A p \in policies, q \in policies : \A g \in DOMAIN p, h \in DOMAIN q :
        \A f \in DOMAIN p[g].families, k \in DOMAIN q[h].families :
            \A i \in DOMAIN p[g].families[f].metrics, j \in DOMAIN q[h].families[k].metrics :
                p[g].families[f].metrics[i].id = q[h].families[k].metrics[j].id
                    => p = q /\ g = h /\ f = k /\ i = j

ASSUME BudgetAssumption == MaxEvals \in Nat
ASSUME StoresAssumption == \A objs \in Stores : objs \subseteq Object /\ IsFiniteSet(objs)
ASSUME ItemsAssumption ==
    /\ None \notin Item
    /\ ItemsOf \in [Object -> Seq(Item)]
    /\ \A o \in Object : IsInjective(ItemsOf[o])
ASSUME PoliciesAssumption ==
    /\ None \notin Generators
    /\ \A policies \in Policies :
          /\ IsFiniteSet(policies)
          /\ \A p \in policies : p \in Seq(Generators)
          /\ IdsDiffer(policies)

VARIABLES
    reachable, \* control planes whose API server can be reached
    entry,     \* [Cluster -> [Resource -> entries]], the collectors' maps
    faulty,    \* the evaluations that fail
    pc,        \* the reader: "idle", "cluster", "collect", "generator", "build"
    family,    \* the family whose callback runs
    snapshot,  \* history: the text of the generators it found, in order
    gens,      \* these generators, compiled
    clusters,  \* collectors it has yet to look at
    at,        \* the one it is looking at
    next,      \* index of the generator it is about to build
    work,      \* what Build has yet to evaluate of that generator
    labels,    \* how many labels of the first of these have been evaluated
    evals,     \* evaluations paid for by this callback
    late,      \* its deadline has passed
    observed,  \* series it has observed, in order
    signals,   \* times it has counted its budget as exhausted
    seen,      \* history: per cluster, the objects Collect gave
    up         \* clusters whose resource_metrics_project_up is observed as 1

worldVars == <<reachable, entry, faulty>>
callVars == <<family, snapshot, gens>>
buildVars == <<work, labels, evals, observed, signals>>
vars == <<worldVars, pc, callVars, clusters, at, next, buildVars, late, seen, up>>

Entries == [state : {"none", "denied"}, objs : {{}}] \cup [state : {"synced"}, objs : Stores]
Absent == [state |-> "none", objs |-> {}]
Nothing == [c \in Cluster |-> [r \in Resource |-> {}]]

Init ==
    /\ reachable = Cluster
    /\ entry = [c \in Cluster |-> [r \in Resource |-> Absent]]
    /\ faulty \in Faults
    /\ pc = "idle"
    /\ family \in Family
    /\ snapshot = <<>> /\ gens = <<>>
    /\ clusters = {} /\ at \in Cluster
    /\ next = 1 /\ work = <<>> /\ labels = 0
    /\ evals = 0 /\ late = FALSE
    /\ observed = <<>> /\ signals = 0
    /\ seen = Nothing
    /\ up = {}

-----------------------------------------------------------------------------
(* Control planes and collectors.                                          *)

Outage(c) ==
    /\ c \in Outages
    /\ reachable' = IF c \in reachable THEN reachable \ {c} ELSE reachable \cup {c}
    /\ UNCHANGED <<entry, faulty, pc, callVars, clusters, at, next, buildVars, late, seen, up>>

SetEntry(c, r, e) ==
    /\ entry' = [entry EXCEPT ![c][r] = e]
    /\ UNCHANGED <<reachable, faulty, pc, callVars, clusters, at, next, buildVars, late, seen, up>>

\* An informer is up for the first time, or stores what a watch tells it.
Fill(c, r, objs) ==
    /\ c \in reachable
    /\ entry[c][r].state # "denied"
    /\ SetEntry(c, r, [state |-> "synced", objs |-> objs])

Deny(c, r) ==
    /\ c \in reachable
    /\ entry[c][r].state = "none"
    /\ SetEntry(c, r, [state |-> "denied", objs |-> {}])

\* No policy names the resource any more.
Drop(c, r) == SetEntry(c, r, Absent)

\* Status, and Collect of what is synced.
ControlPlaneUp(c) == \E r \in Resource : entry[c][r].state = "synced"
Collected(c) == [r \in Resource |-> entry[c][r].objs]

-----------------------------------------------------------------------------
(* The two callbacks.                                                      *)

ObserveProjectUp(c) ==
    /\ pc = "idle"
    /\ up' = IF ControlPlaneUp(c) THEN up \cup {c} ELSE up \ {c}
    /\ UNCHANGED <<worldVars, pc, callVars, clusters, at, next, buildVars, late, seen>>

\* The registry lists its policies in any order.
Begin(f, policies) ==
    /\ pc = "idle"
    /\ family' = f
    /\ \E order \in SetToSeqs(policies) : snapshot' = FlattenSeq(order)
    /\ gens' = [i \in DOMAIN snapshot' |-> compileGenerator(snapshot'[i])]
    /\ clusters' = Cluster
    /\ work' = <<>> /\ labels' = 0
    /\ evals' = 0 /\ late' = FALSE
    /\ observed' = <<>> /\ signals' = 0
    /\ seen' = Nothing /\ up' = {}
    /\ pc' = "cluster"
    /\ UNCHANGED <<worldVars, at, next>>

Relevant(gen) ==
    /\ gen # None
    /\ \E f \in DOMAIN gen.families : gen.families[f].name = family
    /\ seen[at][gen.resource] # {}

SuppressCluster(c) ==
    /\ pc = "cluster" /\ c \in clusters
    /\ ~ControlPlaneUp(c)
    /\ clusters' = clusters \ {c}
    /\ UNCHANGED <<worldVars, pc, callVars, at, next, buildVars, late, seen, up>>

LookAtCluster(c) ==
    /\ pc = "cluster" /\ c \in clusters
    /\ ControlPlaneUp(c)
    /\ clusters' = clusters \ {c}
    /\ at' = c
    /\ pc' = "collect"
    /\ UNCHANGED <<worldVars, callVars, next, buildVars, late, seen, up>>

\* Collect takes the lock once more: the entries may have changed since Status.
Collect ==
    /\ pc = "collect"
    /\ seen' = [seen EXCEPT ![at] = Collected(at)]
    /\ next' = 1
    /\ pc' = "generator"
    /\ UNCHANGED <<worldVars, callVars, clusters, at, buildVars, late, up>>

SkipGenerator ==
    /\ pc = "generator" /\ next <= Len(gens)
    /\ ~Relevant(gens[next])
    /\ next' = next + 1
    /\ UNCHANGED <<worldVars, pc, callVars, clusters, at, buildVars, late, seen, up>>

\* Build's three loops; a task for each object and metric of every family.
Task(f, m, o, item) == [family |-> f, metric |-> m, obj |-> o, item |-> item]
TasksOn(gen, o) ==
    FlattenSeq([f \in DOMAIN gen.families |->
        LET fam == gen.families[f]
        IN  [m \in DOMAIN fam.metrics |-> Task(fam.name, fam.metrics[m], o, None)]])
Tasks(gen, objs) == FlattenSeq([i \in DOMAIN objs |-> TasksOn(gen, objs[i])])

BuildGenerator ==
    /\ pc = "generator" /\ next <= Len(gens)
    /\ Relevant(gens[next])
    /\ \E objs \in SetToSeqs(seen[at][gens[next].resource]) : work' = Tasks(gens[next], objs)
    /\ pc' = "build"
    /\ UNCHANGED <<worldVars, callVars, clusters, at, next, labels, evals, observed, signals,
                    late, seen, up>>

EndBuild ==
    /\ pc = "build" /\ work = <<>>
    /\ next' = next + 1
    /\ pc' = "generator"
    /\ UNCHANGED <<worldVars, callVars, clusters, at, buildVars, late, seen, up>>

EndCluster ==
    /\ pc = "generator" /\ next > Len(gens)
    /\ pc' = "cluster"
    /\ UNCHANGED <<worldVars, callVars, clusters, at, next, buildVars, late, seen, up>>

Return ==
    /\ pc = "cluster" /\ clusters = {}
    /\ pc' = "idle"
    /\ UNCHANGED <<worldVars, callVars, clusters, at, next, buildVars, late, seen, up>>

-----------------------------------------------------------------------------
(* Build, an evaluation a step.                                            *)

First == work[1]
IsForEach == First.metric.forEach # None /\ First.item = None

\* The expression to evaluate next: forEach, then the labels, then the value.
Wanted ==
    IF IsForEach THEN First.metric.forEach
    ELSE IF labels < Len(First.metric.labels) THEN First.metric.labels[labels + 1]
    ELSE First.metric.value

Building == pc = "build" /\ work # <<>>

\* Seeded fault: one evaluation too many is allowed.
ConsumeOneMore ==
    /\ ~late /\ evals <= MaxEvals
    /\ evals' = evals + 1

\* CycleBudget.Consume.
Consume ==
    /\ ~late /\ evals < MaxEvals
    /\ evals' = evals + 1

Fails == <<Wanted, First.obj, First.item>> \in faulty

stepVars == <<worldVars, callVars, clusters, at, next, late, seen, up>>

EvalForEach ==
    /\ Building /\ IsForEach
    /\ Consume /\ ~Fails
    /\ LET items == ItemsOf[First.obj]
       IN  work' = [i \in DOMAIN items |-> [First EXCEPT !.item = items[i]]] \o Tail(work)
    /\ UNCHANGED <<stepVars, pc, labels, observed, signals>>

EvalLabel ==
    /\ Building /\ ~IsForEach /\ labels < Len(First.metric.labels)
    /\ Consume /\ ~Fails
    /\ labels' = labels + 1
    /\ UNCHANGED <<stepVars, pc, work, observed, signals>>

Series(c, t) == [cluster |-> c, family |-> t.family, metric |-> t.metric.id, obj |-> t.obj,
                 item |-> t.item, value |-> t.metric.value, labels |-> ToSet(t.metric.labels)]

\* Seeded fault: the series of the generator's other families are not left out.
EmitEveryFamily ==
    /\ observed' = Append(observed, Series(at, First))
    /\ work' = Tail(work) /\ labels' = 0

\* emit observes the measurement if it is one of this callback's family.
Emit ==
    /\ observed' = IF First.family = family THEN Append(observed, Series(at, First)) ELSE observed
    /\ work' = Tail(work) /\ labels' = 0

LabelsDone == Building /\ ~IsForEach /\ labels = Len(First.metric.labels)

EvalValue ==
    /\ LabelsDone /\ First.metric.value # None
    /\ Consume /\ ~Fails
    /\ Emit
    /\ UNCHANGED <<stepVars, pc, signals>>

\* Without a value the measurement is 1, and nothing is evaluated.
EmitOne ==
    /\ LabelsDone /\ First.metric.value = None
    /\ Emit
    /\ UNCHANGED <<stepVars, pc, evals, signals>>

\* Seeded fault: an error ends the work on the object.
FailObject ==
    /\ Building /\ Wanted # None
    /\ Consume /\ Fails
    /\ work' = SelectSeq(Tail(work), LAMBDA t : t.obj # First.obj) /\ labels' = 0
    /\ UNCHANGED <<stepVars, pc, observed, signals>>

\* Seeded fault: an expression that failed is evaluated again.
FailRetries ==
    /\ Building /\ Wanted # None
    /\ ~late /\ evals < MaxEvals /\ Fails
    /\ UNCHANGED vars

\* An error leaves out this series, or all of the metric on the object if it is
\* forEach's, and nothing else.
Fail ==
    /\ Building /\ Wanted # None
    /\ Consume /\ Fails
    /\ work' = Tail(work) /\ labels' = 0
    /\ UNCHANGED <<stepVars, pc, observed, signals>>

\* Seeded fault: the exhausted budget is signalled, and the work goes on.
StarveGoesOn ==
    /\ Building /\ Wanted # None
    /\ late \/ evals = MaxEvals
    /\ signals' = signals + 1
    /\ work' = Tail(work) /\ labels' = 0
    /\ UNCHANGED <<stepVars, pc, evals, observed>>

\* The budget is exhausted: Build returns, and the callback signals it and returns.
Starve ==
    /\ Building /\ Wanted # None
    /\ late \/ evals = MaxEvals
    /\ signals' = signals + 1
    /\ pc' = "idle"
    /\ UNCHANGED <<stepVars, work, labels, evals, observed>>

DeadlinePasses ==
    /\ pc # "idle" /\ ~late
    /\ late' = TRUE
    /\ UNCHANGED <<worldVars, pc, callVars, clusters, at, next, buildVars, seen, up>>

-----------------------------------------------------------------------------
World ==
    \/ \E c \in Cluster : Outage(c)
    \/ \E c \in Cluster, r \in Resource :
          Deny(c, r) \/ Drop(c, r) \/ \E objs \in Stores : Fill(c, r, objs)
    \/ DeadlinePasses

CallbackStep ==
    \/ \E c \in Cluster : SuppressCluster(c) \/ LookAtCluster(c)
    \/ Collect \/ SkipGenerator \/ BuildGenerator \/ EndBuild \/ EndCluster \/ Return
    \/ EvalForEach \/ EvalLabel \/ EvalValue \/ EmitOne \/ Fail \/ Starve

Next ==
    \/ World
    \/ \E c \in Cluster : ObserveProjectUp(c)
    \/ \E f \in Family, policies \in Policies : Begin(f, policies)
    \/ CallbackStep

Spec == Init /\ [][Next]_vars

\* The reader goes on with a callback, and comes back to project_up.
FairSpec ==
    /\ Spec
    /\ WF_vars(CallbackStep)
    /\ \A c \in Cluster : SF_vars(ObserveProjectUp(c))

-----------------------------------------------------------------------------
(* Properties.                                                             *)

\* Type correctness, as far as it can be stated without a set of all tasks.
TypeOK ==
    /\ reachable \subseteq Cluster /\ up \subseteq Cluster /\ clusters \subseteq Cluster
    /\ entry \in [Cluster -> [Resource -> Entries]]
    /\ faulty \in Faults /\ family \in Family /\ at \in Cluster
    /\ pc \in {"idle", "cluster", "collect", "generator", "build"}
    /\ next \in 1 .. Len(gens) + 1 \/ pc \in {"idle", "cluster", "collect"}
    /\ evals \in 0 .. MaxEvals /\ signals \in 0 .. 1
    /\ labels \in Nat
    /\ labels = 0 \/ (work # <<>> /\ labels <= Len(First.metric.labels))

\* What a policy asks for on the objects seen, from its text: a series for each
\* object, or each item of it, on which nothing it consists of fails. A metric
\* whose forEach or value has an error is not published, a label with an error
\* is left out (compile.go:96-145, builder.go:43-48), and so is a generator of
\* whose expressions none compiles (compile.go:49-60).
Sound(m) ==
    /\ m.forEach # None => Compiles(m.forEach, "object")
    /\ m.value # None => Compiles(m.value, exprEnv(m))
Evaluated(m) == ToSet(compileLabels(m)) \cup ({m.value} \ {None})

Asked(c, f, m, o) ==
    LET over == IF m.forEach = None THEN {None}
                ELSE IF <<m.forEach, o, None>> \in faulty THEN {} ELSE ToSet(ItemsOf[o])
    IN  {[cluster |-> c, family |-> f, metric |-> m.id, obj |-> o, item |-> i,
          value |-> m.value, labels |-> ToSet(compileLabels(m))] :
            i \in {j \in over : \A e \in Evaluated(m) : <<e, o, j>> \notin faulty}}

AllAsked ==
    UNION {UNION {UNION {UNION {UNION {Asked(c, family, m, o) :
        o \in seen[c][snapshot[g].resource]} :
        m \in {n \in ToSet(snapshot[g].families[f].metrics) : Sound(n)}} :
        f \in {h \in DOMAIN snapshot[g].families : snapshot[g].families[h].name = family}} :
        g \in {h \in DOMAIN snapshot : ~Husk(snapshot[h])}} :
        c \in Cluster}

\* Whatever fails or runs out, a series is observed only if a policy asks for it,
\* and once: there are no made-up values, no series of another family or of a
\* broken metric (runtime.go:364-387).
ObservesOnlyAsked ==
    pc = "idle" => ToSet(observed) \subseteq AllAsked /\ IsInjective(observed)

\* Within the budget nothing asked for is missing, so that an error takes down
\* no sibling: no other object, item, metric, family or policy.
ObservesAllAsked == pc = "idle" /\ signals = 0 => AllAsked \subseteq ToSet(observed)

\* The budget is signalled at most once per callback, as its last act, and only
\* when it is exhausted (runtime.go:372-378, 458-469).
SignalsExhaustion ==
    signals > 0 => signals = 1 /\ pc = "idle" /\ (late \/ evals = MaxEvals)

\* A callback returns, however many expressions fail.
CallbackReturns == (pc # "idle") ~> (pc = "idle")

\* "1 when the control plane is reachable and informers are synced, 0 otherwise"
\* (runtime.go:191): a control plane that is gone for good is reported so.
UnreachableIsReported ==
    \A c \in Cluster : <>[](c \notin reachable) => <>[](c \notin up)
===============================================================================
