# Verification of resource-metrics

TLA+ models of the resource-metrics operator, the TLC runs that check them, and
TLAPS proofs about each of its eight detailed models. `PROJECT.json` lists
the runs, the source lines each definition stands for, the seeded faults that show
that a property can fail, the hazards the properties are aimed at, the findings and
the theorems.

    tlc -workers 2 -config MCControlPlaneCollector_safety.cfg MCControlPlaneCollector.tla
    tlapm ControlPlaneCollectorProofs.tla
    tlapm PolicyFieldsProofs.tla

## The system

The operator watches `ResourceMetricsPolicy` objects on one control plane and
produces metrics about resources of many. A policy lists generators; a generator
names a resource (GVR) and metric families, whose values and labels are CEL
expressions.

| part | state | operations | talks to |
|---|---|---|---|
| policy controller (`internal/controller`) | none of its own; one worker | `Reconcile`: compile, upsert or delete, OTel sync, wake all, patch status, requeue after 10 s | registry, OTel runtime, cluster manager, API server |
| policy registry (`internal/policy/registry.go`) | map of compiled policies under a lock | `Upsert`, `Delete`, `Snapshot`, `Get` | read by collectors and OTel callbacks |
| compiler, CEL, trimming (`internal/policy`) | none | `Compile`, `requiredFields`, `TrimObjectInPlace`, evaluation within a budget | called by registry, collector, builder |
| cluster manager (`internal/collector/manager.go`) and `engageInterceptor` (`cmd/main.go`) | map of collectors under a lock | `Engage`, `Disengage`, `WakeAll`, `Collectors` | provider, controller, OTel runtime |
| control plane collector (`internal/collector/collector.go`, `ssar.go`) | map of informers under a lock, a one-slot wake channel, a context | loop: `reconcile`, `startInformer`; `Start`, `Stop`, `Wake`, `Collect`, `Status` | registry, API server, informer goroutines |
| OTel runtime (`internal/otel/runtime.go`) | map of metric families under a lock; callbacks registered with the SDK | `Sync`, `Shutdown`; callbacks `observeFamily`, `observeProjectUp` | registry, cluster manager, SDK |
| metric builder (`internal/metrics`) | none | `Build`, naming | called by the callbacks |
| splitting exporter (`internal/otel/split_exporter.go`) | none between calls | `Export` | periodic reader, OTLP exporter |
| process lifecycle (`cmd/main.go`) | contexts, an errgroup | `runUntilManagerStops`, `shutdownOnStop` | all of the above |

Goroutines: the controller's worker, the provider's `Engage` calls, one loop per
collector, one goroutine tree per informer, the periodic reader, the worker that
shuts OTel down. They share the registry, the two maps, each informer's
published field set and its store. The process persists nothing but the status
that it patches: after a restart everything begins with the initial states below,
but for that status, which `PolicyStatus` carries over.

What is hard, and what makes each part correct:

- **Collector.** Its plan is made from a snapshot and carried out over seconds,
  while the registry, the context and the caches change. It is correct if
  no informer leaks, a cache has the fields it is said to have, no edit of the
  registry is overlooked, service goes on through a rebuild, and it converges.
- **Cluster manager.** Collectors are constructed outside the lock. It is
  correct if every live collector can be reached through the map, and every edit
  reaches every collector in it.
- **OTel runtime.** A map and the SDK's registrations are kept in step one family
  at a time. It is correct if there is one callback per entry and the
  entries follow the registry.
- **Splitting exporter.** Nested loops over sizes. It is correct if no point is
  lost, repeated or reordered, requests fit, and all of them are made.
- **Compiler and trimming.** Correct if what is kept suffices to evaluate.
- **Policy controller.** `Reconcile` works on a copy that lags, patches without
  naming a version, and is asked for again by its own patches, by failures and by
  time. It is correct if the registry and the status come to rest on the policy as
  it is, whatever was deleted, retried or restarted in between, and if the status
  comes to tell the collectors' denials and Sync's error as they are.
- **Lifecycle.** Several goroutines, two locks and three contexts have to let go
  of each other. Correct if the process ends when the manager does.

## Modules

| module | models | checked through |
|---|---|---|
| `Collection` | what collectors promise, without their loops and retries | implemented by `ControlPlaneCollector`; part of `PolicyStatus` |
| `ControlPlaneCollector` | one collector and the parties around it | `MCControlPlaneCollector` |
| `ControlPlaneCollectorProofs` | theorems about it, and that it implements `Collection` | tlapm |
| `ClusterManager` | the map of collectors under overlapping calls | `MCClusterManager` |
| `ClusterManagerProofs` | theorems about it | tlapm |
| `PolicyStatus` | `Reconcile` of one policy between the API server and the collectors (`Collection`) | `MCPolicyStatus` |
| `PolicyStatusProofs` | theorems about it | tlapm |
| `OtelRuntime` | `Sync` and `Shutdown` against the SDK and its reader | `MCOtelRuntime` |
| `OtelRuntimeProofs` | theorems about it | tlapm |
| `Lifecycle` | the run of the process around `OtelRuntime`, and its end | `MCLifecycle` |
| `LifecycleProofs` | theorems about it | tlapm |
| `SplittingExporter` | one `Export` call | `MCSplittingExporter` |
| `SplittingExporterProofs` | theorems about it | tlapm |
| `PolicyFields` | one expression: its required fields, trimming by them, evaluation, the label made of it | `MCPolicyFields` |
| `PolicyFieldsProofs` | theorems about it | tlapm |
| `PolicyCompiler` | what is left of a generator that compiles in part | `MCFamilyCallbacks` |
| `FamilyCallbacks` | the callbacks and the builder under the budget | `MCFamilyCallbacks` |
| `FamilyCallbacksProofs` | theorems about it | tlapm |

In each component module the definitions headed "Seeded fault" are not part of
the model: each is a wrong form of the definition after it, which some property
must refute (`mutants` in `PROJECT.json`).

### ControlPlaneCollector

A compiled policy is the set of its non-nil generators, each a GVR and the fields
it needs. An object in a cache is the set of fields its trimming kept: what is
abstracted is the path syntax, of which the collector itself uses only set
inclusion. The loop's `pc` has a value for every place where `reconcile` and
`startInformer` release the lock, block, or call the API server:

| `pc` | code |
|---|---|
| `idle` | the `select` of `runLoop`: `TakeWake`, `Exit` |
| `plan`, `remove` | reading the registry and planning; stopping what is not desired |
| `next` | the two loops over additions and rebuilds, which range over maps |
| `preflight`, `probe` | the SSARs, the probing list |
| `wait`, `classify` | `WaitForCacheSync`; the second probe and the teardown |
| `stopOld` | after the swap, before the old informer is stopped |

`inf` holds, per informer, the published fields (`sharedRequiredFields`), the
trimmings in its store, one object that is trimmed and not stored yet, and
`HasSynced`. The API server may answer anything at any time; a call on a
cancelled context fails. `unmet` is a history variable: GVRs whose last attempt
failed and left no trace. `engage` follows the manager's `Engage` for this
collector, so that a `WakeAll` may come before the collector is in the map.

### Collection

The abstract specification of the collectors: per control plane, the wants it has
adopted and one entry per GVR, which is absent, denied, or served with the fields
published and the objects shown. `Adopt` takes the wants as they are, all at once,
and narrows entries in place; `Retire` removes all unwanted entries at once;
`Serve` brings in an entry or replaces one that lacks fields; `Deny` marks an absent
one; `Show` is a watch event. What becomes of a denied entry that stays wanted is left
open (`Serve`, `Forget`), since two comments disagree about it (see Findings); the
code keeps it. There are no informers, wakes, failures or program counters.
`ControlPlaneCollector` implements it (`ImplementsCollection`) under the mapping
`wants` = `DesiredGVRs(registry)`, `adopted` = what the last plan desired, `entry` =
what `Status` and `Collect` would return (`EntryOf`), `life` = the context. A rebuild that fails, a denial that is dropped, a launch, a teardown and
the stop of an old informer are stutters. `PolicyStatus` takes its collectors from
this module: that it may is what the refinement shows.

### PolicyStatus

`api` is the policy at the API server, `stream` the watch, `seen` the cache that
`Get` reads, `queued` and `waiting` the work queue with its delayed keys. `Evict`
and `Register` are `Reconcile` up to the wake, `ReadStatus` reads one collector
after another while they move on, and `UpToDate`, `Patch` and `PatchFails` are its
three ends. A spec is what `Reconcile` makes of it. The patch is computed field by
field from Reconcile's copy and applied to whatever has the name by then
(`Merged`): the API server is asked neither for a version nor for an identity.
`SyncErrors` is Sync's "first" error, any one of the refused families. `Restart` loses
everything but the API server's version. The other policies are what they want of
the collectors and their refused families, since Sync's error is about all
policies: the Degraded condition of each tells of the families of the others, too.

### Lifecycle

Extends `OtelRuntime`. The manager, the workers and the drain are the members of the
errgroup; `WorkerFails`, `ManagerReturns` and `Signal` end its context. `ManagerReturns`
without an error waits for the controller's worker, with one (a grace period that
ran out) it does not, so that a Reconcile may still be under way when the runtime is
drained. `DrainRuntime` takes the mutex that `Sync` holds and the lock of the SDK's
pipeline that a collection holds, `DrainProvider` stops the reader. `Exit` is the
group's `Wait`. The contexts of the group and of its parent are one variable: the
only goroutine that tells them apart is the one that cancels both.

### ClusterManager

`Engage` is cut where it takes or releases the lock: `EngageCheck`,
`EngageConstruct`, `EngageInstall`, `EngageStopDuplicate`, `EngageWake`,
`EngageForward`. A collector is its context, token and loop; `current` is the set
of collectors that have read the registry as it is now. `Stop` cancels and waits
for a bounded time: its caller goes on in both cases, so the wait is left out.
`Connect` and `Disconnect` are the provider's, which ends the context it gave to
`Engage`. `Disengaging` tells whether anybody calls `Disengage`; nothing in
production does.

### OtelRuntime

A policy is a map from effective names to help texts. `ComputeDesired` picks any
order of the policies, as a range over the registry's map does, before the mutex
is taken. `DropStale`, `Keep`, `DropDrifted`, `Refuse` and `Create` are the
branches of Sync's two loops, one family a step, since the reader and `Shutdown`
run beside them. `Collect` and `Collected` are a collection, which holds a lock of the
SDK: nothing is registered or unregistered meanwhile. `Policies` limits the policies
considered. The SDK counts registrations and refuses the names in `Refused`
(external). `RegisterCallback` fails only for instruments of another meter and so
never does here.

### SplittingExporter

Scopes, metrics and points are their estimated sizes. `BeginSegment`, `Grow`,
`StartRequest` and `AddSegment` are the loop over one metric, `NextMetric` and
`NextScope` the outer ones, `SendWhole` and `SendNext` the requests. `FitsOrAlone` and
`RequestsAreFull` add sizes up again from the segments. With one batch or none
the cycle goes out as it came; then the headers of metrics without points, which
no batch counts, go with it. The SDK does not produce such metrics.

### PolicyFields

An expression is a syntax tree of the constant `Trees`, which holds the subtrees of
each of its members, too; `WellTyped` says which trees cel-go's checker lets through
(the operand of a selection is an identifier, a selection, a call or a map literal),
and `Depth` that they are finite. `toVisit` is what cel-go's pre-order visitor has
ahead, and `MeetSelect`, `MeetIdent`, `MeetCall` and `MeetOther` are the cases of the
visitor function, on its locals `nextToken` and `out`. A macro such as `map` is
expanded as cel-go does, as far as the walk can tell. A value, and so an object, is
the set of its cells: what is at each place below it, a map, a list or a string.
`Publish` adds what other expressions on the resource read, `Cache` is the transform,
on the paths in any order, and `Evaluate` coerces and sanitizes what the expression
gives. `Eval` stands for cel-go (external); an evaluation error is a value. `groupPaths`,
`trimAt`, `Eval` and `PathsRead`, which says what an expression reads, are recursive
functions, so that they can be reasoned about. A trimmed object in
`ControlPlaneCollector` is the set of its fields: `TrimKeepsPaths` and
`SpelledOutAgrees` are what justifies that.

### PolicyCompiler and FamilyCallbacks

`PolicyCompiler` has the compiler as operators: an expression compiles or not, and
in the item environment or not. `FamilyCallbacks` extends it. `Begin` takes the
snapshot of the registry, `LookAtCluster` and `Collect` the two looks at a
collector, between which its entries may change, and `BuildGenerator` calls `Build`,
whose four nested loops are the sequence `work`. `EvalForEach`, `EvalLabel` and
`EvalValue` each pay with one evaluation; `Fail` and `Starve` are what an error and
an exhausted budget do. `AllAsked` computes from the text of the policies, not from
what was compiled, what a callback ought to observe. A control plane whose collector
is not up holds no objects, so that passing over it, as the code does, changes nothing
in what is observed: no property says more about such a control plane.

## Runs

| run | bounds | shows |
|---|---|---|
| `collector_safety` | 2 GVRs, 2 fields, 2 policies of 3 forms, 3 informers | `NoLeakedInformer`, `CacheCoversFields`, `RestsInAgreement`, `RestsWithFullObjects`, `ServiceContinues`, `ImplementsCollection` |
| `collector_live` | 1 GVR, 1 policy, 2 informers | `StopTerminates`, `Converges` |
| `manager_calls` | 1 cluster, 2 collectors, 2 callers | `NoOrphan`, `NoLostWake`, `EditsReachCollectors` |
| `reengage` | the same, no `Disengage` | violated: a cluster that reconnects is served by a stopped collector |
| `exporter_split` | up to 2 scopes, 2 metrics each, 2 points each of 2 sizes | exactly once and in order; fits or alone; full; all made; terminates |
| `policy_status` | 1 policy of 2 forms and 2 generations, created any number of times; 1 control plane, 1 GVR, 2 refused names; 1 event under way | `RestsCoherent`, `RestsRegistered`, `StatusConverges` |
| `run_and_drain` | 2 policies of 4 forms, 3 names (1 refused), 2 help texts, 2 workers | `CallbacksAreTracked`, `FamiliesFollowRegistry`, `AgreedStays`, `SyncEnds`, `EndsWithManager` |
| `otel_thrash` | 2 policies, 1 name, 2 help texts | violated: `IdentitySettles` |
| `label_fields` | every construct around chains of up to 3 selections, alone or in pairs; objects 3 deep; labels of up to 2 characters of up to 3 bytes, limit 3 | `RequiredFieldsAreRead`, `TrimKeepsPaths`, `SpelledOutAgrees`, `LabelKeepsCharacters` |
| `any_expression` | the same and indices into the object, selections from literals | violated: `AlwaysAgrees` |
| `family_observe` | 2 control planes, 2 policies, 3 generators, 9 metrics, 2 objects, 12 evaluations | `ObservesOnlyAsked`, `ObservesAllAsked`, `SignalsExhaustion`, `CallbackReturns` |
| `unreachable` | 1 control plane, 1 metric | violated: `UnreachableIsReported` |

Why the bounds are enough. In `collector_safety` the three policies make the
fields of one GVR grow, shrink and change while another GVR comes and goes; a
GVR can be added while another is rebuilt. At most one informer is being brought
up or replaced beside those in the map, so a third informer never runs out; used
ones become free again, so passes repeat without bound. The informers are
interchangeable in every definition, hence the symmetry. Two callers of `Engage`
and `Disengage` give every overlap of two calls; a third would repeat one of
them. Two collectors per cluster are one in the map and one in the hands of a
call; they are used again once they have ended. In `exporter_split` the larger
point exceeds a request even alone, and the sizes hit the cap exactly: 1 + 2 +
(1 + 2) + (1 + 2) = 9. In `run_and_drain` two policies suffice to disagree, and two
good names beside a refused one let the loop fail before, between and after. Its
process ends, so deadlock is not checked there; `EndsWithManager` says that it ends
nowhere else. In `policy_status` a copy that is out of date and one that is of a
deleted policy need one edit and one re-creation; the four places a version may be
in (API server, watch, cache, Reconcile's copy) then hold different ones. One event
under way is enough, since the cache can lag behind by any number of writes while the
worker is busy. The one denial can come before, while and after the status is read.
In
`label_fields` the walk has no state but the pending names, which any call or
identifier clears, so pairs of constructs show whatever one can leave to the next;
paths of three names take trimming through two levels of maps to a leaf. A limit
of 3 bytes falls before, inside and after characters of one, two and three. In
`family_observe` a control plane with everything takes 10 evaluations, so that 12
suffice for one and not for two, and the deadline may pass anywhere.
`MaxGeneration` and `MaxLag` of `PolicyStatus` are the only caps (`MaxEvals` is the
code's own): all other state spaces are finite as they are. `policy_status` has
1,309,700 states, `collector_safety` 729,466, `manager_calls` 259,054,
`exporter_split` 165,842, `family_observe` 142,848, `run_and_drain` 70,225,
`label_fields` 59,799, `collector_live` 28,962.

## Fairness

- Weak fairness of a goroutine that has work: loops, `Engage` calls, the worker,
  an `Export` call.
- Strong fairness of the loop's exit, because Go's `select` chooses at random
  between two ready channels.
- Strong fairness of `project_up`'s callback, since the reader runs it in every
  collection, between those of the families.
- Strong fairness of a goroutine that waits for a lock others take again and again
  (`Sync`, the drain): Go's mutexes hand over to a goroutine that has waited long.
- The watch delivers, and a delayed key comes back. Strong fairness of `Patch`: a
  patch that is tried again and again succeeds at some time while the policy is
  there. `StatusConverges` assumes that restarts, edits, the other policies and the
  collectors' entries come to rest; without that no status could keep up.
- Workers return when the context ends, the manager once it stops (controller-runtime
  bounds its grace period), and a collection ends (each callback has a deadline).
  Before the context ends, nobody need return or fail.
- `Requeue`: a policy that exists is reconciled again after 10 s, so it is
  upserted unchanged and the collectors are woken.
- For `Converges` only, strong fairness of the API server's good answers about
  each GVR: a request that is repeated for ever is granted at some time. Without
  it a server that always times out is a behaviour, and the code promises
  nothing then. It does not cover denials: a denied entry is never tried again, and
  `Converges` is about GVRs that do not stay denied.
- Nothing makes a policy change, a cluster connect, or anybody call `Disengage`.

## Proofs

The proofs are about all values of the constants that satisfy the assumptions
stated with them; sets may be infinite unless an assumption says otherwise. Each
module proves that an inductive invariant holds and derives the properties from it.

`ControlPlaneCollectorProofs` assumes that compiled policies are sets of generators
and that the two markers differ from each other and are not informers. It proves
`TypeOK`, `NoLeakedInformer`, `CacheCoversFields`, `RestsInAgreement`,
`RestsWithFullObjects` and `ServiceContinues`. None of them is inductive alone.
`IInv` adds

- `LocalsInUse`: which local variables hold something at which `pc`;
- `Ownership`: an informer is in one place of the map at most, `attempt` and
  `old` are not in it, so that stopping one does not stop another, and what runs
  is in one of these places;
- `Serves`: an informer in the map is synced, and runs while the context lives;
- `PlanShape`: what is still to be added has no entry, what is to be rebuilt
  has an informer, what is not desired has no entry or is about to be removed;
- `Progress`: while the plan is carried out, a GVR that is not in what is left
  of it agrees with the plan, or its attempt failed;
- `Announced`: the plan is that of the registry as it is now, unless the
  controller still owes a wake, the token is there, or `Engage` has yet to wake.

`Progress` and `Announced` meet at `Finish`: the map agrees with the plan, and the
plan with the registry or a wake is coming, which is `RestsInAgreement`. Each
conjunct has a lemma with a step for each action that can disturb it.

The same module proves `ImplementsCollection` from `IInv` and two more
conjuncts: `Fresh`, a collector has no context until `Engage` starts it, and
`Lacking`, what is to be rebuilt lacks a field that the plan wants until it is. Most
steps leave the entries alone, since they touch informers outside the map; each of
the others has a lemma that names the step of `Collection` it is.

`ClusterManagerProofs` assumes that `None` is no collector. `NoLostWake` is
inductive given the types. `NoOrphan` needs `InHand`: the collector that an `Engage`
is about to install or to stop was constructed for the cluster it is installed for.

`OtelRuntimeProofs` assumes finitely many policies, that refused names are names,
and that a policy may be absent. `OInv` adds to `CallbacksAreTracked` and
`FamiliesFollowRegistry` three conjuncts: `MutexInSync`, so that `Shutdown` does not
come between Sync's steps; `DesiredFits`, what `computeDesired` returned is of the
registry as it is, whatever the order in which the policies were listed, because
only the worker writes it; `Visited`, the names that the second loop has been at are
as desired, or refused and counted as failed. At `Return` nothing is stale or left
to visit, which is `FamiliesFollowRegistry`. `AgreedStays` follows from
`DesiredFits`. `LifecycleProofs` shows that every step of the process is a step of
the runtime or leaves it alone, so that all of this holds up to the end of the
process.

`SplittingExporterProofs` assumes only that sizes are numbers. `Covered` says that
the points before the position of the scan are in the batches, and nothing else is;
`Advancing` that every segment follows the ones before it; `OpenScope` that the
scope at hand counts as open exactly if the current batch has an entry for it;
`Room` what is known of the size while a segment grows. `KeepsEveryPoint` and
`ScopesEntered` are what is left of them at the end of the scan. `FitsByAccount` is
the bound on `curSize`. That `curSize` is the sum of what is in the batch is a
second invariant, `SInv`, on top of the first: `Accounts` equates the count of each
batch with `Estimate` and `PointCount`, and `Full` says that the first point of a
batch overflows the one before, at the time it is put there. `FitsOrAlone` and
`RequestsAreFull` follow at the end of the scan. `Total` is a recursive function,
which the provers know only as the choice of a table: `TotalIsTable` and
`TotalProperties` show, by induction over the set of numbers for which they hold,
that there is one such table and that appending a number adds it.

`PolicyStatusProofs` assumes that specs want only what they name, that others'
refused families are refused ones, and that the bounds are positive. `RestsCoherent`
and `RestsRegistered` are about a moment when nothing is under way; `IInv` follows
the version of the policy from the API server to there. `CatchesUp`: the last event
of the watch, or the cache if there is none, is the API server's version.
`RegisteredIsSeen`: while the key is not queued, the registry holds what the cache
holds. `CopyIsSeen`: then Reconcile's copy is the cached version, too. `JobInv`: it
denies only what its copy names. A write puts an event into the watch, and an event
queues the key, so that whoever finds nothing under way finds the three versions
equal. That is `RestsRegistered`, and why a patch that is the last act of all was
computed from the version it is merged into (`MergeWhole`), which makes
`RestsCoherent` inductive with the others.

`FamilyCallbacksProofs` assumes that an informer holds finitely many objects and
that there are finitely many policies, that the items of a list differ (they are
told apart by place) and that metrics have ids of their own in a registry
(`IdsDiffer`: the id stands for where in the text a metric is). Expressions, which
of them fail on what, clusters, objects and budget are arbitrary. The argument is an
account of series. A task of `work` has a `Promise`: the series that it will observe
unless the budget runs out. A generator has, on each control plane, a set of series
that it `Asks` for, from its text. `OnlyAsked`: what was observed, or is promised,
is asked for by a generator that was `Reached`; `AllPromised`: what those ask for
was observed or is promised, unless the budget ran out; `Once`: nothing was observed
twice, no two tasks promise the same, and none what was observed. Moving on between
loops reaches only generators that ask for nothing (`SkippedAsksNothing`); building
one turns what it asks for into promises (`SliceIsPromised`); a forEach hands its
promise to the items; a measurement is the promise that it keeps; an error ends a
task that promised nothing. `Looked` says that a callback whose budget sufficed has
looked at every control plane, and the text's `AllAsked` is the union of what is
asked (`AskedBySlices`). What `FlattenSeq` returns is shown by induction over a set
of numbers (`FlattenPlaces`).

`PolicyFieldsProofs` assumes that expressions are trees that pass the checker, of any
depth and number, that objects are maps, and that other expressions publish finitely
many paths (`TreesAssumption`, `ValuesAssumption`; TLC evaluates both). What an
expression reads and evaluates to, and what is trimmed of an object, are recursive
functions over trees or over lists of paths, and the library's induction theorems
cannot be used on them. `Recursion` takes their place: where a domain comes in levels
and a body looks only below (trees by depth, lists of paths by length), the function
that TLA+ chooses satisfies its equation, and `TreeInduction` and `LengthInduction`
prove what it returns by induction over the set of those it is true of.
`RequiredFieldsAreRead` is not inductive: `Accounted` says, of every state of the
walk, that the paths found and those that the nodes ahead will add, the first of them
with the names pending from above it, are what the expression reads. At an identifier
the pending names become a path or lapse, at a call they lapse; that a literal leaves
them alone is right only because nothing is selected from one, which is the condition
that `any_expression` shows to be needed. `GroupPathsIs` says which leaves and branches
a list of paths comes to in any order, `TrimAtKeeps` that trimming by them keeps what
`Trimmed` says, by induction over the length of the paths. Two objects are the `Same`
along a path if they agree in what is found on it; trimming keeps the published paths
the same (`TrimmedSame`), and an evaluation depends on nothing but the paths that are
read (`EvaluatedSame`, a case for each construct), which together with
`RequiredFieldsAreRead` is `SpelledOutAgrees`. `CutKeepsCharacters` shows that the byte
after the cut starts a character, however a text divides into characters.

Only model-checked: liveness (`StopTerminates`, `Converges`, `EditsReachCollectors`,
`Terminates`, `SyncEnds`, `EndsWithManager`, `StatusConverges`, `CallbackReturns`),
which is out of the prover's reach. Every other property of a passing run, each
invariant and action property and the refinement, is a theorem.

## Findings

1. `reengage`: after its provider context has ended, a collector stays in the map
   and a re-engagement only wakes its dead loop (`manager.go:45-51`). No metrics of
   that control plane are collected until the process restarts.
2. `otel_thrash`: "keep the first" does not avoid thrashing, because the order in
   which policies are visited is random (`runtime.go:217-236`).
3. `any_expression`: an expression that reaches the object otherwise than by naming
   fields, as in `object["spec"].replicas`, compiles, and then fails on every object,
   since its fields are trimmed away (`cel.go:264`). A selection from a map literal
   (`{"k": object.spec}.k`) is credited with a wrong path.
4. `unreachable`: `synced` is never reset, so a control plane that becomes
   unreachable counts as up and its last objects are exported (`collector.go:560`).

Met while modelling, and not shown by a run:

- A callback between a policy's `Upsert` and the end of the rebuild it brings about
  finds objects without the new fields if another policy already had an informer for
  the GVR; the comment at `custom_resource_metrics_controller.go:123-127` expects it to
  find no informer.
- With two refused families, the message of Degraded names one or the other at
  random, and each change is a patch, whose event brings the next Reconcile; the
  short-circuit at 205-207 is meant to avoid such writes. Names that the SDK refuses
  pass the pattern of the CRD: it allows a colon and a leading underscore.
- `status.compilationFailures` counts expressions (156), not, as its description says
  (`custom_resource_metrics_types.go:147-148`), generators.
- A Reconcile in flight registers its callbacks again after `Runtime.Shutdown`, whose
  comment means to unhook them before the export loop stops (`runtime.go:503-507`).
- A missing resource is not picked up "on the next wake" (`collector.go:37-39`): once
  the preflight, the probe or the failed sync has been taken for a denial (396-414,
  456-466), also when the preflight's call merely failed, every reconcile passes over
  the entry (262-264). A CRD installed later or a permission granted later is noticed
  only when no policy names the resource for a while, or after a restart. The comment
  at 448-455 means it to be so, lest the controller "silently retry forever". No
  property claims either: `Collection` leaves open what becomes of a denied entry, and
  `Converges` excepts it. With a `Plan` that also adds the denied GVRs all properties of
  the two runs still hold, and a timed-out sync is attempted again.
- A denial during a rebuild reaches no status (`collector.go:324`).
- A generator all of whose expressions fail is dropped as a tree that "will never emit
  anything" (`compile.go:49-60`), but it may: a metric without a value, whose only
  label has an error, would be published as 1 without that label, as it is if another
  expression of the generator compiles (`compile.go:136-145`). Policies are only asked
  for what the code keeps (`AllAsked` leaves such generators out); without that
  exception `ObservesAllAsked` is false, which the proof brought to light.

## Not modelled, and why

CEL evaluation and client-go are libraries; the first is modelled on the small
language of `PolicyFields` and is a choice elsewhere, the second is a choice. Configuration,
flags, logging and Prometheus counters have no state that anything reads back.
The OTel provider and the discovery set-up are straight-line construction. Leader
election and the health checks are the manager's. A second signal kills the process
at once. The transition times of conditions are left out: they change only with the
condition. That the collectors stop while the pipeline drains is not in `Lifecycle`:
they go on telling their last entries, so the drain cannot see it. Time is abstracted: a timeout
may come at any moment.

## Plan

Done, in order of importance: the collector with its proofs, the cluster manager,
the exporter, the registration of instruments, the fields of expressions, compiler
and callbacks, the abstract collection and its refinement, the status, the
lifecycle, and proofs about all of these but the compiler on its own, which is proved
about as a part of the callbacks.

Left: number coercion and the classification of evaluation errors, if anything comes
to depend on them; objects in `ControlPlaneCollector` as those of `PolicyFields`
instead of sets of fields; a walk that credits `object["spec"]`, once the code does.
