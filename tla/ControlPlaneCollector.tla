------------------------ MODULE ControlPlaneCollector ------------------------
(***************************************************************************)
(* One collector of internal/collector/collector.go: the background loop   *)
(* that keeps a set of informers in agreement with the policy registry,    *)
(* the informer goroutines and their trimmed caches, the one-slot wake     *)
(* channel, and the three parties around it: the policy controller that    *)
(* edits the registry and wakes the collector, the Engage call that starts *)
(* and installs it, and whoever cancels its context.                       *)
(*                                                                         *)
(* Abstractions:                                                           *)
(*  - a compiled policy is the set of its non-nil generators, each the GVR *)
(*    it reads and the set of object fields its expressions need;          *)
(*  - a cached object is the set of fields its trimming kept, so a cache   *)
(*    is the set of the trimmings that occur in it;                        *)
(*  - the API server answers every call as it likes, except that a call on *)
(*    a cancelled context fails;                                           *)
(*  - lastErr, logging and counters are left out.                          *)
(***************************************************************************)
EXTENDS FiniteSets

CONSTANTS
    GVR,             \* resources a generator may name
    Field,           \* object fields an expression may read
    Policy,          \* keys of the registry
    CompiledPolicy,  \* what compiling a policy may yield
    Informer,        \* identities of informer goroutines
    NoEntry,         \* a GVR absent from the informers map; also "no informer"
    Denied           \* an entry that records a denial and runs no goroutine

Generator == [gvr : GVR, fields : SUBSET Field]

ASSUME CompiledPolicyAssumption == CompiledPolicy \subseteq SUBSET Generator
ASSUME EntryAssumption ==
    /\ NoEntry # Denied
    /\ NoEntry \notin Informer
    /\ Denied \notin Informer

VARIABLES
    registry,   \* [Policy -> CompiledPolicy]; {} for a policy that is not there
    ctl,        \* the policy controller: "idle", or "wake" between Upsert and WakeAll
    engage,     \* how far ClusterManager.Engage has come with this collector
    ctx,        \* the collector's context: "unset", "live" or "cancelled"
    wake,       \* a token is in the wake channel
    pc,         \* where the reconcile loop is
    plan,       \* reconcile's locals: desired, toAdd, toRebuild, toRemove
    item,       \* the GVR startInformer was called for, NoEntry outside the two loops
    attempt,    \* the informer startInformer is bringing up, NoEntry if none
    old,        \* the informer a swap replaced and has yet to stop
    informers,  \* the map: [GVR -> Informer, Denied or NoEntry]
    running,    \* informers whose goroutine has not been told to stop
    inf,        \* per informer: published fields, cache, object in flight, synced
    unmet       \* history: GVRs whose attempt of the last pass came to nothing

envVars  == <<registry, ctl, engage>>
planVars == <<plan, item, attempt, old, unmet>>
vars == <<registry, ctl, engage, ctx, wake, pc, plan, item, attempt, old,
          informers, running, inf, unmet>>

-----------------------------------------------------------------------------
(* Types and helpers.                                                      *)

FieldSet == SUBSET Field

Engaging == {"new", "launched", "started", "installed", "engaged"}

LoopState == {"none", "idle", "plan", "remove", "next", "preflight", "probe",
              "wait", "classify", "stopOld", "done"}

\* The union of the fields every generator of every policy needs, per GVR
\* (a map that holds the desired GVRs only).
DesiredGVRs(reg) ==
    LET gens == UNION {reg[p] : p \in Policy}
    IN  [g \in {gen.gvr : gen \in gens} |->
            UNION {gen.fields : gen \in {h \in gens : h.gvr = g}}]

EmptyPlan == [desired |-> [g \in {} |-> {}],
              add |-> {}, rebuild |-> {}, remove |-> {}]

Plans == [desired : UNION {[D -> FieldSet] : D \in SUBSET GVR},
          add : SUBSET GVR, rebuild : SUBSET GVR, remove : SUBSET GVR]

\* fields: what sharedRequiredFields publishes; cached: the trimmings held by
\* the store; pending: at most one trimming, computed and not stored yet.
InformerState == [fields : FieldSet, cached : SUBSET FieldSet,
                  pending : SUBSET FieldSet, synced : BOOLEAN]

Blank == [fields |-> {}, cached |-> {}, pending |-> {}, synced |-> FALSE]

\* Informers that no map entry and no local variable of the loop refers to.
Unused == Informer \ ({informers[g] : g \in GVR} \cup {attempt, old})

-----------------------------------------------------------------------------
Init ==
    /\ registry \in [Policy -> CompiledPolicy]
    /\ ctl = "idle"
    /\ engage = "new"
    /\ ctx = "unset"
    /\ wake = FALSE
    /\ pc = "none"
    /\ plan = EmptyPlan
    /\ item = NoEntry
    /\ attempt = NoEntry
    /\ old = NoEntry
    /\ informers = [g \in GVR |-> NoEntry]
    /\ running = {}
    /\ inf = [i \in Informer |-> Blank]
    /\ unmet = {}

-----------------------------------------------------------------------------
(* The policy controller and the cluster provider.                         *)

\* Reconcile writes the registry ({} when the policy was deleted or none of
\* its generators compiled) and wakes the collectors only afterwards.
Upsert(p, compiled) ==
    /\ ctl = "idle"
    /\ registry' = [registry EXCEPT ![p] = compiled]
    /\ ctl' = "wake"
    /\ UNCHANGED <<engage, ctx, wake, pc, planVars, informers, running, inf>>

\* WakeAll reaches this collector once Engage has put it in the map.
WakeAll ==
    /\ ctl = "wake"
    /\ ctl' = "idle"
    /\ wake' = (wake \/ engage \in {"installed", "engaged"})
    /\ UNCHANGED <<registry, engage, ctx, pc, planVars, informers, running, inf>>

\* Start sets the context and launches the loop ...
Start ==
    /\ engage = "new"
    /\ engage' = "launched"
    /\ ctx' = "live"
    /\ pc' = "idle"
    /\ UNCHANGED <<registry, ctl, wake, planVars, informers, running, inf>>

\* ... and sends the first wake.
StartWake ==
    /\ engage = "launched"
    /\ engage' = "started"
    /\ wake' = TRUE
    /\ UNCHANGED <<registry, ctl, ctx, pc, planVars, informers, running, inf>>

\* Engage installs the collector in the manager's map ...
Install ==
    /\ engage = "started"
    /\ engage' = "installed"
    /\ UNCHANGED <<registry, ctl, ctx, wake, pc, planVars, informers, running, inf>>

\* Seeded fault: the wake after the installation is left out.
EngageWakeForgotten ==
    /\ engage = "installed"
    /\ engage' = "engaged"
    /\ UNCHANGED <<registry, ctl, ctx, wake, pc, planVars, informers, running, inf>>

\* ... and wakes it once more: a WakeAll before Install did not reach it.
EngageWake ==
    /\ engage = "installed"
    /\ engage' = "engaged"
    /\ wake' = TRUE
    /\ UNCHANGED <<registry, ctl, ctx, pc, planVars, informers, running, inf>>

\* Stop, or the end of the context handed to Engage: every informer's context
\* derives from the collector's, so every informer goroutine ends with it.
Cancel ==
    /\ ctx = "live"
    /\ ctx' = "cancelled"
    /\ running' = {}
    /\ UNCHANGED <<envVars, wake, pc, planVars, informers, inf>>

-----------------------------------------------------------------------------
(* The loop: runLoop and reconcile.                                        *)

\* Seeded fault: the loop looks at the context only when a wake comes.
ExitOnWakeOnly ==
    /\ pc = "idle"
    /\ ctx = "cancelled" /\ wake
    /\ pc' = "done"
    /\ UNCHANGED <<envVars, ctx, wake, planVars, informers, running, inf>>

Exit ==
    /\ pc = "idle"
    /\ ctx = "cancelled"
    /\ pc' = "done"
    /\ UNCHANGED <<envVars, ctx, wake, planVars, informers, running, inf>>

TakeWake ==
    /\ pc = "idle"
    /\ wake
    /\ wake' = FALSE
    /\ pc' = "plan"
    /\ UNCHANGED <<envVars, ctx, planVars, informers, running, inf>>

\* Seeded fault: field sets are published in place whether they shrink or grow.
EverythingNarrowed(desired) == {g \in DOMAIN desired : informers[g] \in Informer}

\* GVRs whose informer already holds every desired field, and those whose
\* informer does not. A denied entry is in neither.
Narrowed(desired) ==
    {g \in DOMAIN desired : /\ informers[g] \in Informer
                            /\ desired[g] \subseteq inf[informers[g]].fields}

\* Seeded fault: an informer that is there is taken to be good enough.
NothingWidened(desired) == {}

Widened(desired) ==
    {g \in DOMAIN desired : /\ informers[g] \in Informer
                            /\ ~(desired[g] \subseteq inf[informers[g]].fields)}

\* Reads the registry once, publishes the field sets that need no rebuild and
\* plans the rest. Only the loop writes the map, so its copy cannot be stale.
Plan ==
    /\ pc = "plan"
    /\ LET desired == DesiredGVRs(registry)
       IN  /\ plan' = [desired |-> desired,
                       add     |-> {g \in DOMAIN desired : informers[g] = NoEntry},
                       rebuild |-> Widened(desired),
                       remove  |-> {g \in GVR : /\ informers[g] # NoEntry
                                                /\ g \notin DOMAIN desired}]
           /\ inf' = [i \in Informer |->
                        IF \E g \in Narrowed(desired) : informers[g] = i
                        THEN [inf[i] EXCEPT !.fields =
                                desired[CHOOSE g \in Narrowed(desired) : informers[g] = i]]
                        ELSE inf[i]]
    /\ pc' = "remove"
    /\ unmet' = {}
    /\ UNCHANGED <<envVars, ctx, wake, item, attempt, old, informers, running>>

\* Stops and drops, under one lock, every entry that is no longer desired.
Remove ==
    /\ pc = "remove"
    /\ LET stopped == {informers[g] : g \in plan.remove} \cap Informer
       IN  /\ running' = running \ stopped
           /\ inf' = [i \in Informer |-> IF i \in stopped THEN Blank ELSE inf[i]]
    /\ informers' = [g \in GVR |-> IF g \in plan.remove THEN NoEntry ELSE informers[g]]
    /\ plan' = [plan EXCEPT !.remove = {}]
    /\ pc' = "next"
    /\ UNCHANGED <<envVars, ctx, wake, item, attempt, old, unmet>>

\* All additions come before any rebuild, each list in no particular order.
NextItem ==
    /\ pc = "next"
    /\ \E g \in GVR :
        /\ \/ g \in plan.add
           \/ plan.add = {} /\ g \in plan.rebuild
        /\ item' = g
    /\ pc' = "preflight"
    /\ UNCHANGED <<envVars, ctx, wake, plan, attempt, old, unmet, informers, running, inf>>

Finish ==
    /\ pc = "next"
    /\ plan.add = {} /\ plan.rebuild = {}
    /\ pc' = "idle"
    /\ item' = NoEntry
    /\ UNCHANGED <<envVars, ctx, wake, plan, attempt, old, unmet, informers, running, inf>>

-----------------------------------------------------------------------------
(* startInformer, and what reconcile does with its result.                 *)

ItemDone == plan' = [plan EXCEPT !.add = @ \ {item}, !.rebuild = @ \ {item}]

\* Seeded fault: the denial of a rebuild replaces the informer that serves.
RecordDenialAlways ==
    /\ informers' = [informers EXCEPT ![item] = Denied]
    /\ UNCHANGED unmet
    /\ ItemDone
    /\ pc' = "next"

\* A denial is installed for a new GVR; a rebuild drops it and leaves the old
\* informer serving.
RecordDenial ==
    /\ informers' = IF item \in plan.add THEN [informers EXCEPT ![item] = Denied]
                                         ELSE informers
    /\ unmet' = IF item \in plan.add THEN unmet ELSE unmet \cup {item}
    /\ ItemDone
    /\ pc' = "next"

\* The SSARs for list and watch are answered yes; no call succeeds on a
\* cancelled context.
PreflightAllows ==
    /\ pc = "preflight"
    /\ ctx = "live"
    /\ pc' = "probe"
    /\ UNCHANGED <<envVars, ctx, wake, planVars, informers, running, inf>>

\* One of them is answered no, or fails: either way the GVR is denied.
PreflightDenies ==
    /\ pc = "preflight"
    /\ RecordDenial
    /\ UNCHANGED <<envVars, ctx, wake, item, attempt, old, running, inf>>

\* The probing list says NotFound or Forbidden.
ProbeDenies ==
    /\ pc = "probe"
    /\ ctx = "live"
    /\ RecordDenial
    /\ UNCHANGED <<envVars, ctx, wake, item, attempt, old, running, inf>>

\* Seeded fault: a rebuild stops and drops the old informer first.
LaunchStopsOld ==
    /\ pc = "probe"
    /\ \E i \in Unused :
        /\ attempt' = i
        /\ inf' = [inf EXCEPT ![i] = [Blank EXCEPT !.fields = plan.desired[item]]]
        /\ running' = (IF ctx = "live" THEN running \cup {i} ELSE running)
                          \ {informers[item]}
    /\ pc' = "wait"
    /\ UNCHANGED <<envVars, ctx, wake, plan, item, old, informers, unmet>>

\* Any other answer, an error included: launch the informer on a context
\* derived from the collector's.
Launch ==
    /\ pc = "probe"
    /\ \E i \in Unused :
        /\ attempt' = i
        /\ inf' = [inf EXCEPT ![i] = [Blank EXCEPT !.fields = plan.desired[item]]]
        /\ running' = IF ctx = "live" THEN running \cup {i} ELSE running
    /\ pc' = "wait"
    /\ UNCHANGED <<envVars, ctx, wake, plan, item, old, informers, unmet>>

\* The cache synced in time: install the entry. A rebuild swaps it in and
\* still has to stop the informer it replaced.
Synced ==
    /\ pc = "wait"
    /\ inf[attempt].synced
    /\ informers' = [informers EXCEPT ![item] = attempt]
    /\ attempt' = NoEntry
    /\ IF item \in plan.add
       THEN pc' = "next" /\ UNCHANGED old
       ELSE pc' = "stopOld" /\ old' = informers[item]
    /\ ItemDone
    /\ UNCHANGED <<envVars, ctx, wake, item, unmet, running, inf>>

StopOld ==
    /\ pc = "stopOld"
    /\ running' = running \ {old}
    /\ inf' = [inf EXCEPT ![old] = Blank]
    /\ old' = NoEntry
    /\ pc' = "next"
    /\ UNCHANGED <<envVars, ctx, wake, plan, item, attempt, unmet, informers>>

\* cacheSyncTimeout passed, or the context ended. The sync may yet come after
\* the last poll.
SyncTimeout ==
    /\ pc = "wait"
    /\ pc' = "classify"
    /\ UNCHANGED <<envVars, ctx, wake, planVars, informers, running, inf>>

\* Seeded fault: runCancel is not called on the failure path.
TearDownLeaks ==
    /\ inf' = [inf EXCEPT ![attempt] = Blank]
    /\ attempt' = NoEntry
    /\ UNCHANGED running

\* Seeded fault: the failed attempt is turned into the denial it reports.
TearDownKeepsDenial ==
    /\ running' = running \ {attempt}
    /\ inf' = [inf EXCEPT ![attempt] = Blank]
    /\ attempt' = Denied

TearDown ==
    /\ running' = running \ {attempt}
    /\ inf' = [inf EXCEPT ![attempt] = Blank]
    /\ attempt' = NoEntry

\* A second probe tells a denial from a transient failure; both end the
\* goroutine this attempt started.
ClassifyDenied ==
    /\ pc = "classify"
    /\ ctx = "live"
    /\ TearDown
    /\ RecordDenial
    /\ UNCHANGED <<envVars, ctx, wake, item, old>>

ClassifyTransient ==
    /\ pc = "classify"
    /\ TearDown
    /\ unmet' = unmet \cup {item}
    /\ ItemDone
    /\ pc' = "next"
    /\ UNCHANGED <<envVars, ctx, wake, item, old, informers>>

-----------------------------------------------------------------------------
(* The informer goroutines (client-go, external) and trimTransform.        *)

\* The initial list: every object goes through the transform, and then the
\* informer reports HasSynced. The resource may have no object.
InitialList(i) ==
    /\ i \in running
    /\ ~inf[i].synced
    /\ \E objects \in {{}, {inf[i].fields}} :
        inf' = [inf EXCEPT ![i].cached = objects, ![i].synced = TRUE]
    /\ UNCHANGED <<envVars, ctx, wake, pc, planVars, informers, running>>

\* A watch event arrives and the transform reads the published fields ...
Trim(i) ==
    /\ i \in running
    /\ inf[i].synced
    /\ inf[i].pending = {}
    /\ inf' = [inf EXCEPT ![i].pending = {inf[i].fields}]
    /\ UNCHANGED <<envVars, ctx, wake, pc, planVars, informers, running>>

\* ... and the object is stored later, as new or in the place of others.
\* Entries stored before are not trimmed again.
Store(i) ==
    /\ i \in running
    /\ inf[i].pending # {}
    /\ \E gone \in SUBSET inf[i].cached :
        inf' = [inf EXCEPT ![i].cached = (@ \ gone) \cup inf[i].pending,
                           ![i].pending = {}]
    /\ UNCHANGED <<envVars, ctx, wake, pc, planVars, informers, running>>

-----------------------------------------------------------------------------
LoopStep ==
    \/ Exit \/ TakeWake \/ Plan \/ Remove \/ NextItem \/ Finish
    \/ PreflightAllows \/ PreflightDenies \/ ProbeDenies \/ Launch
    \/ Synced \/ StopOld \/ SyncTimeout \/ ClassifyDenied \/ ClassifyTransient

EngageStep == Start \/ StartWake \/ Install \/ EngageWake

Next ==
    \/ \E p \in Policy, compiled \in CompiledPolicy : Upsert(p, compiled)
    \/ WakeAll
    \/ EngageStep
    \/ Cancel
    \/ LoopStep
    \/ \E i \in Informer : InitialList(i) \/ Trim(i) \/ Store(i)

Spec == Init /\ [][Next]_vars

\* A policy that exists is reconciled again every ten seconds, so it is
\* upserted unchanged and the collectors are woken, for as long as it exists.
Requeue == \E p \in Policy : registry[p] # {} /\ Upsert(p, registry[p])

\* Goroutines keep running: the loop, the Engage call and the controller. Go's
\* select picks at random between a wake and the end of the context, so it does
\* not overlook the latter for ever. Otherwise strong fairness is asked only of
\* the API server: a call that is made again and again about one GVR, the
\* awaited initial list included, is not refused, left to fail or answered too
\* late for ever.
Fairness ==
    /\ WF_vars(LoopStep)
    /\ SF_vars(Exit)
    /\ WF_vars(EngageStep)
    /\ WF_vars(WakeAll)
    /\ WF_vars(Requeue)
    /\ \A g \in GVR :
        /\ SF_vars(item = g /\ PreflightAllows)
        /\ SF_vars(item = g /\ Launch)
        /\ SF_vars(pc = "wait" /\ item = g /\ InitialList(attempt))
        /\ SF_vars(item = g /\ Synced)

FairSpec == Spec /\ Fairness

-----------------------------------------------------------------------------
(* Properties.                                                             *)

Installed == {informers[g] : g \in GVR} \cap Informer

Serving(g) == /\ informers[g] \in Informer
              /\ inf[informers[g]].synced
              /\ informers[g] \in running

\* Type correctness of every variable.
TypeOK ==
    /\ registry \in [Policy -> CompiledPolicy]
    /\ ctl \in {"idle", "wake"}
    /\ engage \in Engaging
    /\ ctx \in {"unset", "live", "cancelled"}
    /\ wake \in BOOLEAN
    /\ pc \in LoopState
    /\ plan \in Plans
    /\ item \in GVR \cup {NoEntry}
    /\ attempt \in Informer \cup {NoEntry}
    /\ old \in Informer \cup {NoEntry}
    /\ informers \in [GVR -> Informer \cup {NoEntry, Denied}]
    /\ running \in SUBSET Informer
    /\ inf \in [Informer -> InformerState]
    /\ unmet \in SUBSET GVR

\* No informer goroutine is leaked: each one that runs is in the map, is being
\* brought up by startInformer, or is about to be stopped by the swap
\* (collector.go:303-336, 381-479: failed attempts, swaps and removals all have
\* to stop what they started), and none outlives the collector's context.
NoLeakedInformer ==
    /\ running \subseteq Installed \cup {attempt, old}
    /\ ctx # "live" => running = {}

\* Whatever the interleaving of narrowing, trimming and storing, an object in
\* an informer's cache still holds every field the informer publishes: the
\* test for a rebuild (collector.go:273) compares with that set only.
CacheCoversFields ==
    \A i \in Informer : \A object \in inf[i].cached \cup inf[i].pending :
        inf[i].fields \subseteq object

\* Nobody owes the collector a wake and it owes nobody a reconcile.
Quiescent == /\ engage = "engaged" /\ ctx = "live"
             /\ ctl = "idle" /\ ~wake /\ pc = "idle"

\* GVR g agrees with the registry: gone, denied, or watched with exactly the
\* fields the policies need.
Agrees(g) ==
    LET want == DesiredGVRs(registry)
    IN  IF g \notin DOMAIN want
        THEN informers[g] = NoEntry
        ELSE \/ informers[g] = Denied
             \/ /\ informers[g] \in Informer
                /\ inf[informers[g]].fields = want[g]

\* No wake is lost: once the collector rests, the map agrees with the registry
\* as it is now, except for GVRs whose attempt failed in the last pass. The
\* token is taken before the registry is read, Engage wakes after it installs,
\* and Upsert comes before WakeAll (collector.go:183-202, manager.go:75-78).
RestsInAgreement == Quiescent => \A g \in GVR : g \in unmet \/ Agrees(g)

\* ... and then every object Collect returns for a GVR holds every field that
\* the policies now in the registry read of it.
RestsWithFullObjects ==
    Quiescent => \A g \in DOMAIN DesiredGVRs(registry) \ unmet :
        informers[g] \in Informer =>
            \A object \in inf[informers[g]].cached :
                DesiredGVRs(registry)[g] \subseteq object

\* A GVR that is served by a synced, running informer is served after every
\* step, rebuilds included, unless the plan in force no longer wants it or the
\* collector is being stopped (two-phase swap, collector.go:315-336).
ServiceContinues ==
    [][\A g \in GVR : Serving(g) /\ ~Serving(g)' =>
            ctx' = "cancelled" \/ g \notin DOMAIN plan.desired]_vars

\* Stop terminates: once the context is cancelled the loop ends, whatever it
\* was doing (collector.go:519-541 waits for it).
StopTerminates == ctx = "cancelled" ~> pc = "done"

\* If the registry stops changing and the collector lives, every GVR that does not
\* stay denied comes to be watched with the fields wanted, or to be gone, and stays
\* so: a transient failure is retried by the reconcile that the controller's
\* requeue triggers (collector.go:305-308). A GVR that stays denied is not claimed
\* to agree: "the reconcile loop will pick it up on the next wake" (37-39) is not
\* what the code does, since reconcile passes over a denied entry (262-264).
Follows(g) == Agrees(g) /\ informers[g] # Denied

Converges ==
    (<>[][FALSE]_registry /\ <>[](engage = "engaged" /\ ctx = "live"))
        => \A g \in GVR : []<>(informers[g] # Denied) => <>[]Follows(g)

-----------------------------------------------------------------------------
(* What the collector promises: Collection, for the one control plane.     *)

Self == "self"

\* What Status and Collect tell of a GVR.
EntryOf(g) ==
    IF informers[g] \in Informer
    THEN [state  |-> "served",
          fields |-> inf[informers[g]].fields,
          shown  |-> inf[informers[g]].cached]
    ELSE [state  |-> IF informers[g] = Denied THEN "denied" ELSE "none",
          fields |-> {},
          shown  |-> {}]

Abstract == INSTANCE Collection WITH
    Cluster <- {Self},
    wants   <- DesiredGVRs(registry),
    adopted <- [c \in {Self} |-> plan.desired],
    entry   <- [c \in {Self} |-> [g \in GVR |-> EntryOf(g)]],
    life    <- [c \in {Self} |-> ctx]

\* Swaps, teardowns, denials and the narrowing of fields in place, however they
\* meet cancellation, edits and watch events, show outside as the steps of
\* Collection and no others: an entry appears, is denied or is replaced as a
\* whole; while it serves, it is replaced only if it lacked fields, and never
\* denied; all that are unwanted leave at once; and no object is shown without the
\* fields of its entry (collector.go:232-337, 381-479, 482-517).
ImplementsCollection == Abstract!Spec

=============================================================================
