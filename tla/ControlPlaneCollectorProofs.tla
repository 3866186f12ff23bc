--------------------- MODULE ControlPlaneCollectorProofs ---------------------
(***************************************************************************)
(* Safety of ControlPlaneCollector, and that it implements Collection, for *)
(* every set of resources, fields, policies and informers.                 *)
(*                                                                         *)
(* The inductive invariant has one part per concern. Ownership: who holds  *)
(* each informer. PlanShape: what the plan may still contain at each point *)
(* of the loop. Progress: what the pass has already achieved for a GVR.    *)
(* Announced: an edit of the registry that the plan does not know has a    *)
(* wake under way.                                                         *)
(***************************************************************************)
EXTENDS ControlPlaneCollector, TLAPS

\* The locals of startInformer and of the swap are set exactly while in use.
LocalsInUse ==
    /\ attempt \in Informer <=> pc \in {"wait", "classify"}
    /\ old \in Informer <=> pc = "stopOld"
    /\ pc \in {"preflight", "probe", "wait", "classify"}
          => item \in plan.add \cup plan.rebuild

\* No informer has two holders, and what runs is held.
Ownership ==
    /\ \A g, h \in GVR : informers[g] \in Informer /\ informers[g] = informers[h] => g = h
    /\ \A g \in GVR : informers[g] \in Informer => informers[g] # attempt /\ informers[g] # old
    /\ running \subseteq Installed \cup {attempt, old}
    /\ ctx # "live" => running = {}

\* While the collector lives, what it holds runs, and what is in the map synced.
Serves ==
    /\ \A g \in GVR : informers[g] \in Informer => inf[informers[g]].synced
    /\ ctx = "live" =>
        /\ \A g \in GVR : informers[g] \in Informer => informers[g] \in running
        /\ attempt \in Informer => attempt \in running

PlanShape ==
    /\ \A g \in plan.add : g \in DOMAIN plan.desired /\ informers[g] = NoEntry
    /\ \A g \in plan.rebuild : g \in DOMAIN plan.desired /\ informers[g] \in Informer
    /\ \A g \in plan.remove : g \notin DOMAIN plan.desired
    /\ \A g \in GVR : g \in DOMAIN plan.desired \/ g \in plan.remove \/ informers[g] = NoEntry
    /\ pc # "remove" => plan.remove = {}
    /\ pc \in {"none", "idle", "plan", "done"} => plan.add = {} /\ plan.rebuild = {}

\* A GVR the pass is through with is denied, watched for the fields planned, or
\* recorded as unmet.
Progress ==
    /\ \A g \in DOMAIN plan.desired :
        \/ g \in plan.add \cup plan.rebuild \cup unmet
        \/ informers[g] = Denied
        \/ informers[g] \in Informer /\ inf[informers[g]].fields = plan.desired[g]
    /\ attempt \in Informer => inf[attempt].fields = plan.desired[item]

Announced ==
    /\ pc = "none" <=> engage = "new"
    /\ pc = "none" => \A g \in GVR : informers[g] = NoEntry
    /\ engage = "engaged" /\ ctl = "idle" /\ ~wake /\ pc # "plan"
          => plan.desired = DesiredGVRs(registry)

IInv == /\ TypeOK /\ LocalsInUse /\ Ownership /\ Serves /\ PlanShape
        /\ Progress /\ Announced /\ CacheCoversFields

-----------------------------------------------------------------------------
(* The desired GVRs are a map from GVRs to field sets.                     *)

LEMMA DesiredType ==
    ASSUME NEW reg \in [Policy -> CompiledPolicy]
    PROVE  /\ DOMAIN DesiredGVRs(reg) \subseteq GVR
           /\ \A g \in DOMAIN DesiredGVRs(reg) : DesiredGVRs(reg)[g] \subseteq Field
           /\ DesiredGVRs(reg) \in UNION {[D -> FieldSet] : D \in SUBSET GVR}
<1> DEFINE gens == UNION {reg[p] : p \in Policy}
           D == {gen.gvr : gen \in gens}
           need(g) == UNION {gen.fields : gen \in {h \in gens : h.gvr = g}}
<1>1. gens \subseteq Generator
    BY CompiledPolicyAssumption
<1>2. D \subseteq GVR
    BY <1>1 DEF Generator
<1>3. \A g : need(g) \subseteq Field
    BY <1>1 DEF Generator
<1>4. DesiredGVRs(reg) = [g \in D |-> need(g)]
    BY DEF DesiredGVRs
<1>5. [g \in D |-> need(g)] \in [D -> FieldSet]
    BY <1>3 DEF FieldSet
<1> HIDE DEF D, need
<1> QED
    BY <1>2, <1>3, <1>4, <1>5

-----------------------------------------------------------------------------
(* Type correctness.                                                       *)

LEMMA TypeInit == Init => TypeOK
<1> SUFFICES ASSUME Init PROVE TypeOK
    OBVIOUS
<1>1. EmptyPlan \in Plans
    <2>1. [g \in {} |-> {}] \in [{} -> FieldSet]
        OBVIOUS
    <2> QED
        BY <2>1 DEF EmptyPlan, Plans
<1>2. Blank \in InformerState
    BY DEF Blank, InformerState, FieldSet
<1> QED
    BY <1>1, <1>2 DEF Init, TypeOK, Engaging, LoopState

LEMMA TypeNext == TypeOK /\ LocalsInUse /\ PlanShape /\ [Next]_vars => TypeOK'
<1> SUFFICES ASSUME TypeOK, LocalsInUse, PlanShape, [Next]_vars PROVE TypeOK'
    OBVIOUS
<1> USE DEF TypeOK
<1> DEFINE Maps == UNION {[D -> FieldSet] : D \in SUBSET GVR}
<1>blank. Blank \in InformerState
    BY DEF Blank, InformerState, FieldSet
<1>plan. /\ plan.desired \in Maps
         /\ plan.add \in SUBSET GVR /\ plan.rebuild \in SUBSET GVR
         /\ plan.remove \in SUBSET GVR
    BY DEF Plans
<1>inf. ASSUME NEW i \in Informer
        PROVE /\ inf[i].fields \in FieldSet /\ inf[i].cached \in SUBSET FieldSet
              /\ inf[i].pending \in SUBSET FieldSet /\ inf[i].synced \in BOOLEAN
              /\ inf[i] \in InformerState
    BY DEF InformerState
<1>1. ASSUME NEW p \in Policy, NEW compiled \in CompiledPolicy, Upsert(p, compiled)
      PROVE TypeOK'
    BY <1>1 DEF Upsert, planVars
<1>2. CASE WakeAll
    BY <1>2 DEF WakeAll, planVars
<1>3. CASE EngageStep
    BY <1>3 DEF EngageStep, Start, StartWake, Install, EngageWake, planVars,
                Engaging, LoopState
<1>4. CASE Cancel
    BY <1>4 DEF Cancel, planVars, envVars
<1>5. CASE Exit \/ TakeWake \/ Finish \/ PreflightAllows \/ SyncTimeout
    BY <1>5 DEF Exit, TakeWake, Finish, PreflightAllows, SyncTimeout,
                planVars, envVars, LoopState
<1>6. CASE Plan
    <2> DEFINE desired == DesiredGVRs(registry)
    <2>1. /\ desired \in Maps
          /\ DOMAIN desired \subseteq GVR
          /\ \A g \in DOMAIN desired : desired[g] \in FieldSet
        BY DesiredType DEF FieldSet
    <2> HIDE DEF desired
    <2>2. Widened(desired) \in SUBSET GVR
        BY <2>1 DEF Widened
    <2>3. plan' \in Plans
        BY <1>6, <2>1, <2>2 DEF Plan, Plans, desired
    <2>4. inf' \in [Informer -> InformerState]
        <3> DEFINE pick(i) == CHOOSE g \in Narrowed(desired) : informers[g] = i
                   new(i) == IF \E g \in Narrowed(desired) : informers[g] = i
                             THEN [inf[i] EXCEPT !.fields = desired[pick(i)]]
                             ELSE inf[i]
        <3>1. inf' = [i \in Informer |-> new(i)]
            BY <1>6 DEF Plan, desired
        <3>2. ASSUME NEW i \in Informer PROVE new(i) \in InformerState
            <4>1. CASE \E g \in Narrowed(desired) : informers[g] = i
                <5>1. pick(i) \in Narrowed(desired)
                    BY <4>1
                <5>2. desired[pick(i)] \in FieldSet
                    BY <5>1, <2>1 DEF Narrowed
                <5> HIDE DEF pick
                <5> QED
                    BY <4>1, <5>2, <1>inf DEF InformerState
            <4>2. CASE ~\E g \in Narrowed(desired) : informers[g] = i
                BY <4>2, <1>inf
            <4> QED
                BY <4>1, <4>2
        <3> HIDE DEF new
        <3> QED
            BY <3>1, <3>2
    <2> QED
        BY <1>6, <2>3, <2>4 DEF Plan, envVars, LoopState
<1>7. CASE Remove
    <2>1. plan' \in Plans
        BY <1>7 DEF Remove, Plans
    <2>2. inf' \in [Informer -> InformerState]
        BY <1>7, <1>blank, <1>inf DEF Remove
    <2>3. informers' \in [GVR -> Informer \cup {NoEntry, Denied}]
        BY <1>7 DEF Remove
    <2> QED
        BY <1>7, <2>1, <2>2, <2>3 DEF Remove, envVars, LoopState
<1>8. CASE NextItem
    BY <1>8 DEF NextItem, envVars, LoopState
<1>item. ASSUME pc \in {"preflight", "probe", "wait", "classify"}
         PROVE  /\ item \in GVR
                /\ [plan EXCEPT !.add = @ \ {item}, !.rebuild = @ \ {item}] \in Plans
    BY <1>item, <1>plan DEF LocalsInUse, Plans
<1>9. CASE PreflightDenies \/ ProbeDenies
    BY <1>9, <1>item DEF PreflightDenies, ProbeDenies, RecordDenial, ItemDone,
                         envVars, LoopState
<1>10. CASE Launch
    <2>1. [Blank EXCEPT !.fields = plan.desired[item]] \in InformerState
        <3>1. item \in DOMAIN plan.desired
            BY <1>10 DEF Launch, LocalsInUse, PlanShape
        <3>2. plan.desired[item] \in FieldSet
            BY <3>1, <1>plan
        <3> QED
            BY <3>2, <1>blank DEF InformerState
    <2> QED
        BY <1>10, <2>1 DEF Launch, envVars, LoopState, Unused
<1>11. CASE Synced
    BY <1>11, <1>item DEF Synced, ItemDone, envVars, LoopState, LocalsInUse, PlanShape
<1>12. CASE StopOld
    BY <1>12, <1>blank DEF StopOld, envVars, LoopState
<1>13. CASE ClassifyDenied \/ ClassifyTransient
    BY <1>13, <1>item, <1>blank DEF ClassifyDenied, ClassifyTransient, TearDown,
                RecordDenial, ItemDone, envVars, LoopState
<1>14. ASSUME NEW i \in Informer, InitialList(i) \/ Trim(i) \/ Store(i)
       PROVE TypeOK'
    <2>1. CASE InitialList(i)
        <3>1. PICK objects \in {{}, {inf[i].fields}} :
                inf' = [inf EXCEPT ![i].cached = objects, ![i].synced = TRUE]
            BY <2>1 DEF InitialList
        <3>2. inf' \in [Informer -> InformerState]
            BY <3>1, <1>inf DEF InformerState
        <3> QED
            BY <2>1, <3>2 DEF InitialList, planVars, envVars
    <2>2. CASE Trim(i)
        <3>1. inf' \in [Informer -> InformerState]
            BY <2>2, <1>inf DEF Trim, InformerState
        <3> QED
            BY <2>2, <3>1 DEF Trim, planVars, envVars
    <2>3. CASE Store(i)
        <3>1. PICK gone \in SUBSET inf[i].cached :
                inf' = [inf EXCEPT ![i].cached = (@ \ gone) \cup inf[i].pending,
                                   ![i].pending = {}]
            BY <2>3 DEF Store
        <3>2. inf' \in [Informer -> InformerState]
            BY <3>1, <1>inf DEF InformerState
        <3> QED
            BY <2>3, <3>2 DEF Store, planVars, envVars
    <2> QED
        BY <1>14, <2>1, <2>2, <2>3
<1>15. CASE UNCHANGED vars
    BY <1>15 DEF vars
<1> QED
    BY <1>1, <1>2, <1>3, <1>4, <1>5, <1>6, <1>7, <1>8, <1>9, <1>10, <1>11, <1>12,
       <1>13, <1>14, <1>15 DEF Next, LoopStep

-----------------------------------------------------------------------------
(* The other parts of the invariant, each preserved by every step.         *)

LEMMA InvInit == Init => IInv
<1> SUFFICES ASSUME Init PROVE IInv
    OBVIOUS
<1>1. TypeOK
    BY TypeInit
<1>2. DOMAIN plan.desired = {} /\ plan.add = {} /\ plan.rebuild = {} /\ plan.remove = {}
    BY DEF Init, EmptyPlan
<1>3. \A i \in Informer : inf[i].cached = {} /\ inf[i].pending = {}
    BY DEF Init, Blank
<1>4. LocalsInUse /\ Ownership /\ Serves
    BY EntryAssumption DEF Init, LocalsInUse, Ownership, Serves, Installed
<1>5. PlanShape /\ Progress /\ Announced
    BY <1>2, EntryAssumption DEF Init, PlanShape, Progress, Announced
<1>6. CacheCoversFields
    BY <1>3 DEF CacheCoversFields
<1> QED
    BY <1>1, <1>4, <1>5, <1>6 DEF IInv

LEMMA LocalsNext == IInv /\ [Next]_vars => LocalsInUse'
<1> SUFFICES ASSUME IInv, [Next]_vars PROVE LocalsInUse'
    OBVIOUS
<1> USE EntryAssumption DEF IInv, TypeOK, LocalsInUse
<1>1. ASSUME NEW p \in Policy, NEW compiled \in CompiledPolicy, Upsert(p, compiled)
      PROVE LocalsInUse'
    BY <1>1 DEF Upsert, planVars
<1>2. CASE WakeAll \/ Cancel
    BY <1>2 DEF WakeAll, Cancel, planVars
<1>3. CASE EngageStep
    BY <1>3 DEF EngageStep, Start, StartWake, Install, EngageWake, planVars, Announced
<1>4. CASE Exit \/ TakeWake \/ Finish \/ PreflightAllows \/ SyncTimeout
    BY <1>4 DEF Exit, TakeWake, Finish, PreflightAllows, SyncTimeout, planVars
<1>5. CASE Plan
    BY <1>5 DEF Plan
<1>6. CASE Remove
    BY <1>6 DEF Remove
<1>7. CASE NextItem
    BY <1>7 DEF NextItem
<1>8. CASE PreflightDenies \/ ProbeDenies
    BY <1>8 DEF PreflightDenies, ProbeDenies, RecordDenial
<1>9. CASE Launch
    BY <1>9 DEF Launch, Unused
<1>10. CASE Synced
    BY <1>10 DEF Synced, PlanShape
<1>11. CASE StopOld
    BY <1>11 DEF StopOld
<1>12. CASE ClassifyDenied \/ ClassifyTransient
    BY <1>12 DEF ClassifyDenied, ClassifyTransient, TearDown, RecordDenial
<1>13. ASSUME NEW i \in Informer, InitialList(i) \/ Trim(i) \/ Store(i)
       PROVE LocalsInUse'
    BY <1>13 DEF InitialList, Trim, Store, planVars
<1>14. CASE UNCHANGED vars
    BY <1>14 DEF vars
<1> QED
    BY <1>1, <1>2, <1>3, <1>4, <1>5, <1>6, <1>7, <1>8, <1>9, <1>10, <1>11, <1>12,
       <1>13, <1>14 DEF Next, LoopStep

LEMMA OwnershipNext == IInv /\ [Next]_vars => Ownership'
<1> SUFFICES ASSUME IInv, [Next]_vars PROVE Ownership'
    OBVIOUS
<1> USE EntryAssumption DEF IInv, TypeOK, Ownership, Installed
<1>1. ASSUME NEW p \in Policy, NEW compiled \in CompiledPolicy, Upsert(p, compiled)
      PROVE Ownership'
    BY <1>1 DEF Upsert, planVars
<1>2. CASE WakeAll \/ Cancel
    BY <1>2 DEF WakeAll, Cancel, planVars
<1>3. CASE EngageStep
    BY <1>3 DEF EngageStep, Start, StartWake, Install, EngageWake, planVars
<1>4. CASE Exit \/ TakeWake \/ Finish \/ PreflightAllows \/ SyncTimeout
    BY <1>4 DEF Exit, TakeWake, Finish, PreflightAllows, SyncTimeout, planVars
<1>5. CASE Plan
    BY <1>5 DEF Plan
<1>6. CASE Remove
    BY <1>6 DEF Remove
<1>7. CASE NextItem
    BY <1>7 DEF NextItem
<1>8. CASE PreflightDenies \/ ProbeDenies
    BY <1>8 DEF PreflightDenies, ProbeDenies, RecordDenial, LocalsInUse, PlanShape
<1>9. CASE Launch
    BY <1>9 DEF Launch, Unused, LocalsInUse
<1>10. CASE Synced
    <2>1. /\ attempt \in Informer /\ attempt' = NoEntry /\ old = NoEntry
          /\ item \in GVR /\ running' = running /\ ctx' = ctx
          /\ informers' = [informers EXCEPT ![item] = attempt]
        BY <1>10 DEF Synced, LocalsInUse, Plans
    <2>2. CASE item \in plan.add
        <3>1. informers[item] = NoEntry /\ old' = old
            BY <1>10, <2>2 DEF Synced, PlanShape
        <3> QED
            BY <2>1, <3>1
    <2>3. CASE item \notin plan.add
        <3>1. informers[item] \in Informer /\ old' = informers[item]
            BY <1>10, <2>3 DEF Synced, LocalsInUse, PlanShape
        <3>2. \A g, h \in GVR : informers'[g] \in Informer /\ informers'[g] = informers'[h]
                => g = h
            BY <2>1
        <3>3. \A g \in GVR : informers'[g] \in Informer => informers'[g] # old'
            BY <2>1, <3>1
        <3>4. running' \subseteq ({informers'[g] : g \in GVR} \cap Informer) \cup {attempt', old'}
            BY <2>1, <3>1
        <3> QED
            BY <2>1, <3>2, <3>3, <3>4
    <2> QED
        BY <2>2, <2>3
<1>11. CASE StopOld
    BY <1>11 DEF StopOld, LocalsInUse
<1>12. CASE ClassifyDenied \/ ClassifyTransient
    BY <1>12 DEF ClassifyDenied, ClassifyTransient, TearDown, RecordDenial,
                 LocalsInUse, PlanShape
<1>13. ASSUME NEW i \in Informer, InitialList(i) \/ Trim(i) \/ Store(i)
       PROVE Ownership'
    BY <1>13 DEF InitialList, Trim, Store, planVars
<1>14. CASE UNCHANGED vars
    BY <1>14 DEF vars
<1> QED
    BY <1>1, <1>2, <1>3, <1>4, <1>5, <1>6, <1>7, <1>8, <1>9, <1>10, <1>11, <1>12,
       <1>13, <1>14 DEF Next, LoopStep

LEMMA ServesNext == IInv /\ [Next]_vars => Serves'
<1> SUFFICES ASSUME IInv, [Next]_vars PROVE Serves'
    OBVIOUS
<1> USE EntryAssumption DEF IInv, TypeOK, Serves
<1>1. ASSUME NEW p \in Policy, NEW compiled \in CompiledPolicy, Upsert(p, compiled)
      PROVE Serves'
    BY <1>1 DEF Upsert, planVars
<1>2. CASE WakeAll \/ Cancel
    BY <1>2 DEF WakeAll, Cancel, planVars
<1>3. CASE EngageStep
    <2>1. CASE Start
        <3>1. \A g \in GVR : informers[g] = NoEntry
            BY <2>1 DEF Start, Announced
        <3> QED
            BY <2>1, <3>1 DEF Start, planVars, LocalsInUse, Announced
    <2> QED
        BY <1>3, <2>1 DEF EngageStep, StartWake, Install, EngageWake, planVars
<1>4. CASE Exit \/ TakeWake \/ Finish \/ PreflightAllows \/ SyncTimeout
    BY <1>4 DEF Exit, TakeWake, Finish, PreflightAllows, SyncTimeout, planVars
<1>5. CASE Plan
    <2>1. \A i \in Informer : inf'[i].synced = inf[i].synced
        BY <1>5 DEF Plan, InformerState
    <2> QED
        BY <1>5, <2>1 DEF Plan
<1>6. CASE Remove
    <2> DEFINE stopped == {informers[g] : g \in plan.remove} \cap Informer
    <2>1. /\ running' = running \ stopped
          /\ inf' = [i \in Informer |-> IF i \in stopped THEN Blank ELSE inf[i]]
          /\ informers' = [g \in GVR |-> IF g \in plan.remove THEN NoEntry ELSE informers[g]]
          /\ attempt' = attempt /\ ctx' = ctx
        BY <1>6 DEF Remove
    <2>2. attempt \notin Informer
        BY <1>6 DEF Remove, LocalsInUse
    <2>3. \A g \in GVR : informers'[g] \in Informer =>
            informers'[g] = informers[g] /\ informers[g] \notin stopped
        BY <2>1, <1>6 DEF Ownership, Plans
    <2> QED
        BY <2>1, <2>2, <2>3
<1>7. CASE NextItem
    BY <1>7 DEF NextItem
<1>8. CASE PreflightDenies \/ ProbeDenies
    BY <1>8 DEF PreflightDenies, ProbeDenies, RecordDenial
<1>9. CASE Launch
    BY <1>9 DEF Launch, Unused
<1>10. CASE Synced
    BY <1>10 DEF Synced, LocalsInUse
<1>11. CASE StopOld
    BY <1>11 DEF StopOld, LocalsInUse, Ownership
<1>12. CASE ClassifyDenied \/ ClassifyTransient
    BY <1>12 DEF ClassifyDenied, ClassifyTransient, TearDown, RecordDenial,
                 LocalsInUse, Ownership
<1>13. ASSUME NEW i \in Informer, InitialList(i) \/ Trim(i) \/ Store(i)
       PROVE Serves'
    <2>1. \A j \in Informer : inf[j].synced => inf'[j].synced
        <3>1. CASE InitialList(i)
            BY <3>1 DEF InitialList, InformerState
        <3>2. CASE Trim(i)
            BY <3>2 DEF Trim, InformerState
        <3>3. CASE Store(i)
            <4>1. PICK gone \in SUBSET inf[i].cached :
                    inf' = [inf EXCEPT ![i].cached = (@ \ gone) \cup inf[i].pending,
                                       ![i].pending = {}]
                BY <3>3 DEF Store
            <4> QED
                BY <4>1 DEF InformerState
        <3> QED
            BY <1>13, <3>1, <3>2, <3>3
    <2> QED
        BY <1>13, <2>1 DEF InitialList, Trim, Store, planVars
<1>14. CASE UNCHANGED vars
    BY <1>14 DEF vars
<1> QED
    BY <1>1, <1>2, <1>3, <1>4, <1>5, <1>6, <1>7, <1>8, <1>9, <1>10, <1>11, <1>12,
       <1>13, <1>14 DEF Next, LoopStep

LEMMA PlanShapeNext == IInv /\ [Next]_vars => PlanShape'
<1> SUFFICES ASSUME IInv, [Next]_vars PROVE PlanShape'
    OBVIOUS
<1> USE EntryAssumption DEF IInv, TypeOK, PlanShape
<1>plan. /\ plan.add \in SUBSET GVR /\ plan.rebuild \in SUBSET GVR
         /\ plan.remove \in SUBSET GVR
    BY DEF Plans
<1>1. ASSUME NEW p \in Policy, NEW compiled \in CompiledPolicy, Upsert(p, compiled)
      PROVE PlanShape'
    BY <1>1 DEF Upsert, planVars
<1>2. CASE WakeAll \/ Cancel
    BY <1>2 DEF WakeAll, Cancel, planVars
<1>3. CASE EngageStep
    BY <1>3 DEF EngageStep, Start, StartWake, Install, EngageWake, planVars, Announced
<1>4. CASE Exit \/ TakeWake \/ Finish \/ PreflightAllows \/ SyncTimeout
    BY <1>4 DEF Exit, TakeWake, Finish, PreflightAllows, SyncTimeout, planVars
<1>5. CASE Plan
    <2> DEFINE desired == DesiredGVRs(registry)
    <2>1. /\ plan'.desired = desired
          /\ plan'.add = {g \in DOMAIN desired : informers[g] = NoEntry}
          /\ plan'.rebuild = Widened(desired)
          /\ plan'.remove = {g \in GVR : informers[g] # NoEntry /\ g \notin DOMAIN desired}
          /\ pc' = "remove" /\ informers' = informers
        BY <1>5 DEF Plan
    <2> HIDE DEF desired
    <2> QED
        BY <2>1 DEF Widened
<1>6. CASE Remove
    <2>1. /\ plan'.desired = plan.desired /\ plan'.add = plan.add
          /\ plan'.rebuild = plan.rebuild /\ plan'.remove = {}
        BY <1>6 DEF Remove, Plans
    <2> QED
        BY <1>6, <2>1, <1>plan DEF Remove
<1>7. CASE NextItem
    BY <1>7 DEF NextItem
<1>done. ASSUME ItemDone
         PROVE  /\ plan'.desired = plan.desired /\ plan'.remove = plan.remove
                /\ plan'.add = plan.add \ {item} /\ plan'.rebuild = plan.rebuild \ {item}
    BY <1>done DEF ItemDone, Plans
<1>8. CASE PreflightDenies \/ ProbeDenies
    <2>1. ItemDone /\ item \in plan.add \cup plan.rebuild /\ pc' = "next"
        BY <1>8 DEF PreflightDenies, ProbeDenies, RecordDenial, LocalsInUse
    <2>2. \A g \in GVR : g # item => informers'[g] = informers[g]
        BY <1>8 DEF PreflightDenies, ProbeDenies, RecordDenial
    <2>3. item \in GVR /\ item \in DOMAIN plan.desired
        BY <2>1, <1>plan
    <2>4. pc # "remove"
        BY <1>8 DEF PreflightDenies, ProbeDenies
    <2> QED
        BY <2>1, <2>2, <2>3, <2>4, <1>done, <1>plan
<1>9. CASE Launch
    BY <1>9 DEF Launch
<1>10. CASE Synced
    <2>1. ItemDone /\ item \in plan.add \cup plan.rebuild /\ pc' \in {"next", "stopOld"}
        BY <1>10 DEF Synced, LocalsInUse
    <2>2. \A g \in GVR : g # item => informers'[g] = informers[g]
        BY <1>10 DEF Synced
    <2>3. item \in GVR /\ item \in DOMAIN plan.desired
        BY <2>1, <1>plan
    <2>4. pc # "remove"
        BY <1>10 DEF Synced
    <2> QED
        BY <2>1, <2>2, <2>3, <2>4, <1>done, <1>plan
<1>11. CASE StopOld
    BY <1>11 DEF StopOld
<1>12. CASE ClassifyDenied \/ ClassifyTransient
    <2>1. ItemDone /\ item \in plan.add \cup plan.rebuild /\ pc' = "next"
        BY <1>12 DEF ClassifyDenied, ClassifyTransient, RecordDenial, LocalsInUse
    <2>2. \A g \in GVR : g # item => informers'[g] = informers[g]
        BY <1>12 DEF ClassifyDenied, ClassifyTransient, RecordDenial
    <2>3. item \in GVR /\ item \in DOMAIN plan.desired
        BY <2>1, <1>plan
    <2>4. pc # "remove"
        BY <1>12 DEF ClassifyDenied, ClassifyTransient
    <2> QED
        BY <2>1, <2>2, <2>3, <2>4, <1>done, <1>plan
<1>13. ASSUME NEW i \in Informer, InitialList(i) \/ Trim(i) \/ Store(i)
       PROVE PlanShape'
    BY <1>13 DEF InitialList, Trim, Store, planVars
<1>14. CASE UNCHANGED vars
    BY <1>14 DEF vars
<1> QED
    BY <1>1, <1>2, <1>3, <1>4, <1>5, <1>6, <1>7, <1>8, <1>9, <1>10, <1>11, <1>12,
       <1>13, <1>14 DEF Next, LoopStep

\* Two ways a step treats the informers in hand: it keeps what they publish, or
\* it changes only informers that nobody holds after the step.
LEMMA ProgressNext == IInv /\ [Next]_vars => Progress'
<1> SUFFICES ASSUME IInv, [Next]_vars PROVE Progress'
    OBVIOUS
<1> USE EntryAssumption DEF IInv, TypeOK, Progress
<1>plan. /\ plan.add \in SUBSET GVR /\ plan.rebuild \in SUBSET GVR
         /\ DOMAIN plan.desired \subseteq GVR
    BY DEF Plans
<1>1. ASSUME NEW p \in Policy, NEW compiled \in CompiledPolicy, Upsert(p, compiled)
      PROVE Progress'
    BY <1>1 DEF Upsert, planVars
<1>2. CASE WakeAll \/ Cancel
    BY <1>2 DEF WakeAll, Cancel, planVars
<1>3. CASE EngageStep
    BY <1>3 DEF EngageStep, Start, StartWake, Install, EngageWake, planVars
<1>4. CASE Exit \/ TakeWake \/ Finish \/ PreflightAllows \/ SyncTimeout
    <2>1. CASE Finish
        BY <2>1 DEF Finish, LocalsInUse
    <2> QED
        BY <1>4, <2>1 DEF Exit, TakeWake, PreflightAllows, SyncTimeout, planVars
<1>5. CASE Plan
    <2> DEFINE desired == DesiredGVRs(registry)
               pick(i) == CHOOSE g \in Narrowed(desired) : informers[g] = i
    <2>1. /\ plan'.desired = desired
          /\ plan'.add = {g \in DOMAIN desired : informers[g] = NoEntry}
          /\ plan'.rebuild = Widened(desired)
          /\ informers' = informers /\ attempt' = attempt
          /\ inf' = [i \in Informer |->
                        IF \E g \in Narrowed(desired) : informers[g] = i
                        THEN [inf[i] EXCEPT !.fields = desired[pick(i)]]
                        ELSE inf[i]]
        BY <1>5 DEF Plan
    <2>2. attempt' \notin Informer
        BY <1>5, <2>1 DEF Plan, LocalsInUse
    <2>3. DOMAIN desired \subseteq GVR
        BY DesiredType
    <2> HIDE DEF desired, pick
    <2>4. ASSUME NEW g \in DOMAIN desired, g \in Narrowed(desired)
          PROVE  inf'[informers'[g]].fields = desired[g]
        <3>1. pick(informers[g]) \in Narrowed(desired) /\ informers[pick(informers[g])] = informers[g]
            BY <2>4 DEF pick
        <3>2. pick(informers[g]) = g
            BY <3>1, <2>3, <2>4 DEF Narrowed, Ownership
        <3> QED
            BY <2>1, <2>4, <3>2 DEF Narrowed, InformerState
    <2>5. ASSUME NEW g \in DOMAIN desired
          PROVE  \/ g \in plan'.add \cup plan'.rebuild
                 \/ informers'[g] = Denied
                 \/ informers'[g] \in Informer /\ inf'[informers'[g]].fields = desired[g]
        <3>1. informers[g] \in Informer \cup {NoEntry, Denied}
            BY <2>3
        <3>2. CASE informers[g] \in Informer
            <4>1. g \in Narrowed(desired) \/ g \in Widened(desired)
                BY <3>2 DEF Narrowed, Widened
            <4> QED
                BY <4>1, <3>2, <2>1, <2>4
        <3> QED
            BY <3>1, <3>2, <2>1
    <2> QED
        BY <2>1, <2>2, <2>5
<1>6. CASE Remove
    <2> DEFINE stopped == {informers[g] : g \in plan.remove} \cap Informer
    <2>1. /\ inf' = [i \in Informer |-> IF i \in stopped THEN Blank ELSE inf[i]]
          /\ informers' = [g \in GVR |-> IF g \in plan.remove THEN NoEntry ELSE informers[g]]
          /\ plan'.desired = plan.desired /\ plan'.add = plan.add
          /\ plan'.rebuild = plan.rebuild
          /\ attempt' = attempt /\ unmet' = unmet
        BY <1>6 DEF Remove, Plans
    <2>2. attempt \notin Informer
        BY <1>6 DEF Remove, LocalsInUse
    <2>3. \A g \in DOMAIN plan.desired : informers'[g] = informers[g]
        BY <2>1, <1>plan DEF PlanShape
    <2>4. \A g \in DOMAIN plan.desired : informers[g] \in Informer => informers[g] \notin stopped
        BY <1>plan DEF Ownership, PlanShape, Plans
    <2> QED
        BY <2>1, <2>2, <2>3, <2>4
<1>7. CASE NextItem
    BY <1>7 DEF NextItem, LocalsInUse
<1>done. ASSUME ItemDone
         PROVE  /\ plan'.desired = plan.desired
                /\ plan'.add = plan.add \ {item} /\ plan'.rebuild = plan.rebuild \ {item}
    BY <1>done DEF ItemDone, Plans
<1>8. CASE PreflightDenies \/ ProbeDenies
    <2>1. /\ RecordDenial /\ ItemDone /\ item \in plan.add \cup plan.rebuild
          /\ attempt' = attempt /\ inf' = inf /\ attempt \notin Informer
        BY <1>8 DEF PreflightDenies, ProbeDenies, RecordDenial, LocalsInUse
    <2> QED
        BY <2>1, <1>done, <1>plan DEF RecordDenial
<1>9. CASE Launch
    <2>1. PICK i \in Unused :
            /\ attempt' = i
            /\ inf' = [inf EXCEPT ![i] = [Blank EXCEPT !.fields = plan.desired[item]]]
        BY <1>9 DEF Launch
    <2>2. /\ inf'[i].fields = plan.desired[item]
          /\ \A j \in Informer : j # i => inf'[j] = inf[j]
        BY <2>1 DEF Blank, Unused
    <2>3. \A g \in GVR : informers[g] # i
        BY DEF Unused
    <2> QED
        BY <1>9, <2>1, <2>2, <2>3, <1>plan DEF Launch, Unused
<1>10. CASE Synced
    <2>1. /\ ItemDone /\ item \in plan.add \cup plan.rebuild
          /\ informers' = [informers EXCEPT ![item] = attempt]
          /\ attempt' = NoEntry /\ inf' = inf /\ attempt \in Informer /\ unmet' = unmet
        BY <1>10 DEF Synced, LocalsInUse
    <2> QED
        BY <2>1, <1>done, <1>plan
<1>11. CASE StopOld
    <2>1. /\ informers' = informers /\ plan' = plan /\ unmet' = unmet
          /\ attempt' = attempt /\ attempt \notin Informer
          /\ \A i \in Informer : i # old => inf'[i] = inf[i]
        BY <1>11 DEF StopOld, LocalsInUse
    <2>2. \A g \in GVR : informers[g] \in Informer => informers[g] # old
        BY DEF Ownership
    <2> QED
        BY <2>1, <2>2, <1>plan
<1>12. CASE ClassifyDenied \/ ClassifyTransient
    <2>1. /\ ItemDone /\ item \in plan.add \cup plan.rebuild
          /\ attempt' = NoEntry /\ unmet \subseteq unmet'
          /\ \A i \in Informer : i # attempt => inf'[i] = inf[i]
        BY <1>12 DEF ClassifyDenied, ClassifyTransient, RecordDenial, TearDown, LocalsInUse
    <2>2. \A g \in GVR : informers[g] \in Informer => informers[g] # attempt
        BY DEF Ownership
    <2>3. item \in unmet' \/ informers'[item] = Denied
        BY <1>12, <2>1, <1>plan DEF ClassifyDenied, ClassifyTransient, RecordDenial
    <2>4. \A g \in GVR : g # item => informers'[g] = informers[g]
        BY <1>12 DEF ClassifyDenied, ClassifyTransient, RecordDenial
    <2> QED
        BY <2>1, <2>2, <2>3, <2>4, <1>done, <1>plan
<1>13. ASSUME NEW i \in Informer, InitialList(i) \/ Trim(i) \/ Store(i)
       PROVE Progress'
    <2>1. \A j \in Informer : inf'[j].fields = inf[j].fields
        <3>1. CASE InitialList(i)
            BY <3>1 DEF InitialList, InformerState
        <3>2. CASE Trim(i)
            BY <3>2 DEF Trim, InformerState
        <3>3. CASE Store(i)
            <4>1. PICK gone \in SUBSET inf[i].cached :
                    inf' = [inf EXCEPT ![i].cached = (@ \ gone) \cup inf[i].pending,
                                       ![i].pending = {}]
                BY <3>3 DEF Store
            <4> QED
                BY <4>1 DEF InformerState
        <3> QED
            BY <1>13, <3>1, <3>2, <3>3
    <2> QED
        BY <1>13, <2>1 DEF InitialList, Trim, Store, planVars
<1>14. CASE UNCHANGED vars
    BY <1>14 DEF vars
<1> QED
    BY <1>1, <1>2, <1>3, <1>4, <1>5, <1>6, <1>7, <1>8, <1>9, <1>10, <1>11, <1>12,
       <1>13, <1>14 DEF Next, LoopStep

LEMMA AnnouncedNext == IInv /\ [Next]_vars => Announced'
<1> SUFFICES ASSUME IInv, [Next]_vars PROVE Announced'
    OBVIOUS
<1> USE EntryAssumption DEF IInv, TypeOK, Announced
<1>1. ASSUME NEW p \in Policy, NEW compiled \in CompiledPolicy, Upsert(p, compiled)
      PROVE Announced'
    BY <1>1 DEF Upsert, planVars
<1>2. CASE WakeAll \/ Cancel
    BY <1>2 DEF WakeAll, Cancel, planVars, envVars
<1>3. CASE EngageStep
    BY <1>3 DEF EngageStep, Start, StartWake, Install, EngageWake, planVars
<1>4. CASE Exit \/ TakeWake \/ Finish \/ PreflightAllows \/ SyncTimeout
    BY <1>4 DEF Exit, TakeWake, Finish, PreflightAllows, SyncTimeout, planVars, envVars
<1>5. CASE Plan
    BY <1>5 DEF Plan, envVars
<1>6. CASE Remove
    <2>1. plan'.desired = plan.desired
        BY <1>6 DEF Remove, Plans
    <2> QED
        BY <1>6, <2>1 DEF Remove, envVars
<1>7. CASE NextItem
    BY <1>7 DEF NextItem, envVars
<1>done. ASSUME ItemDone PROVE plan'.desired = plan.desired
    BY <1>done DEF ItemDone, Plans
<1>8. CASE PreflightDenies \/ ProbeDenies
    BY <1>8, <1>done DEF PreflightDenies, ProbeDenies, RecordDenial, envVars
<1>9. CASE Launch
    BY <1>9 DEF Launch, envVars
<1>10. CASE Synced
    BY <1>10, <1>done DEF Synced, envVars
<1>11. CASE StopOld
    BY <1>11 DEF StopOld, envVars
<1>12. CASE ClassifyDenied \/ ClassifyTransient
    BY <1>12, <1>done DEF ClassifyDenied, ClassifyTransient, RecordDenial, envVars
<1>13. ASSUME NEW i \in Informer, InitialList(i) \/ Trim(i) \/ Store(i)
       PROVE Announced'
    BY <1>13 DEF InitialList, Trim, Store, planVars, envVars
<1>14. CASE UNCHANGED vars
    BY <1>14 DEF vars
<1> QED
    BY <1>1, <1>2, <1>3, <1>4, <1>5, <1>6, <1>7, <1>8, <1>9, <1>10, <1>11, <1>12,
       <1>13, <1>14 DEF Next, LoopStep

\* One informer's cache covers what it publishes.
Covers(s) == \A object \in s.cached \cup s.pending : s.fields \subseteq object

LEMMA CoverNext == IInv /\ [Next]_vars => CacheCoversFields'
<1> SUFFICES ASSUME IInv, [Next]_vars PROVE CacheCoversFields'
    OBVIOUS
<1> USE DEF IInv, TypeOK
<1>covers. CacheCoversFields' <=> \A i \in Informer : Covers(inf'[i])
    BY DEF CacheCoversFields, Covers
<1>was. \A i \in Informer : Covers(inf[i])
    BY DEF CacheCoversFields, Covers
<1>blank. Covers(Blank)
    BY DEF Covers, Blank
<1>1. ASSUME inf' = inf PROVE CacheCoversFields'
    BY <1>1, <1>was, <1>covers
<1>2. CASE Plan
    <2> DEFINE desired == DesiredGVRs(registry)
               pick(i) == CHOOSE g \in Narrowed(desired) : informers[g] = i
    <2>1. inf' = [i \in Informer |->
                    IF \E g \in Narrowed(desired) : informers[g] = i
                    THEN [inf[i] EXCEPT !.fields = desired[pick(i)]]
                    ELSE inf[i]]
        BY <1>2 DEF Plan
    <2> HIDE DEF desired, pick
    <2>2. ASSUME NEW i \in Informer PROVE Covers(inf'[i])
        <3>1. CASE \E g \in Narrowed(desired) : informers[g] = i
            <4>1. pick(i) \in Narrowed(desired) /\ informers[pick(i)] = i
                BY <3>1 DEF pick
            <4>2. desired[pick(i)] \subseteq inf[i].fields
                BY <4>1 DEF Narrowed
            <4>3. /\ inf'[i].fields = desired[pick(i)]
                  /\ inf'[i].cached = inf[i].cached /\ inf'[i].pending = inf[i].pending
                BY <2>1, <3>1 DEF InformerState
            <4> QED
                BY <4>2, <4>3, <1>was DEF Covers
        <3>2. CASE ~\E g \in Narrowed(desired) : informers[g] = i
            BY <2>1, <3>2, <1>was
        <3> QED
            BY <3>1, <3>2
    <2> QED
        BY <2>2, <1>covers
<1>3. CASE Remove
    <2>1. \A i \in Informer : inf'[i] \in {Blank, inf[i]}
        BY <1>3 DEF Remove
    <2> QED
        BY <2>1, <1>was, <1>blank, <1>covers
<1>4. CASE Launch
    <2>1. Covers([Blank EXCEPT !.fields = plan.desired[item]])
        BY DEF Covers, Blank
    <2> QED
        BY <1>4, <2>1, <1>was, <1>covers DEF Launch, Unused
<1>5. CASE StopOld \/ ClassifyDenied \/ ClassifyTransient
    <2>1. \A i \in Informer : inf'[i] \in {Blank, inf[i]}
        BY <1>5 DEF StopOld, ClassifyDenied, ClassifyTransient, TearDown
    <2> QED
        BY <2>1, <1>was, <1>blank, <1>covers
<1>6. ASSUME NEW i \in Informer, InitialList(i) \/ Trim(i) \/ Store(i)
      PROVE CacheCoversFields'
    <2>1. \A j \in Informer : j # i => inf'[j] = inf[j]
        BY <1>6 DEF InitialList, Trim, Store
    <2>2. Covers(inf'[i])
        <3>1. CASE InitialList(i)
            <4>1. PICK objects \in {{}, {inf[i].fields}} :
                    inf' = [inf EXCEPT ![i].cached = objects, ![i].synced = TRUE]
                BY <3>1 DEF InitialList
            <4>2. /\ inf'[i].fields = inf[i].fields /\ inf'[i].cached = objects
                  /\ inf'[i].pending = inf[i].pending
                BY <4>1 DEF InformerState
            <4> QED
                BY <4>2, <1>was DEF Covers
        <3>2. CASE Trim(i)
            <4>1. /\ inf'[i].fields = inf[i].fields /\ inf'[i].cached = inf[i].cached
                  /\ inf'[i].pending = {inf[i].fields}
                BY <3>2 DEF Trim, InformerState
            <4> QED
                BY <4>1, <1>was DEF Covers
        <3>3. CASE Store(i)
            <4>1. PICK gone \in SUBSET inf[i].cached :
                    inf' = [inf EXCEPT ![i].cached = (@ \ gone) \cup inf[i].pending,
                                       ![i].pending = {}]
                BY <3>3 DEF Store
            <4>2. /\ inf'[i].fields = inf[i].fields /\ inf'[i].pending = {}
                  /\ inf'[i].cached = (inf[i].cached \ gone) \cup inf[i].pending
                BY <4>1 DEF InformerState
            <4> QED
                BY <4>2, <1>was DEF Covers
        <3> QED
            BY <1>6, <3>1, <3>2, <3>3
    <2> QED
        BY <2>1, <2>2, <1>was, <1>covers
<1>7. CASE \E p \in Policy, compiled \in CompiledPolicy : Upsert(p, compiled)
    BY <1>7, <1>1 DEF Upsert
<1>8. CASE WakeAll \/ EngageStep \/ Cancel
    BY <1>8, <1>1 DEF WakeAll, EngageStep, Start, StartWake, Install, EngageWake, Cancel
<1>9. CASE Exit \/ TakeWake \/ NextItem \/ Finish \/ PreflightAllows \/ SyncTimeout
    BY <1>9, <1>1 DEF Exit, TakeWake, NextItem, Finish, PreflightAllows, SyncTimeout
<1>10. CASE PreflightDenies \/ ProbeDenies \/ Synced
    BY <1>10, <1>1 DEF PreflightDenies, ProbeDenies, Synced
<1>11. CASE UNCHANGED vars
    BY <1>11, <1>1 DEF vars
<1> QED
    BY <1>2, <1>3, <1>4, <1>5, <1>6, <1>7, <1>8, <1>9, <1>10, <1>11 DEF Next, LoopStep

-----------------------------------------------------------------------------
(* The theorems.                                                           *)

LEMMA InvNext == IInv /\ [Next]_vars => IInv'
<1> SUFFICES ASSUME IInv, [Next]_vars PROVE IInv'
    OBVIOUS
<1>1. TypeOK'
    BY TypeNext DEF IInv
<1> QED
    BY <1>1, LocalsNext, OwnershipNext, ServesNext, PlanShapeNext, ProgressNext,
       AnnouncedNext, CoverNext DEF IInv

LEMMA Invariance == Spec => []IInv
    BY InvInit, InvNext, PTL DEF Spec

\* Every reachable state is type-correct (all of collector.go's state).
THEOREM TypeCorrect == Spec => []TypeOK
<1>1. IInv => TypeOK
    BY DEF IInv
<1> QED
    BY <1>1, Invariance, PTL

\* No informer goroutine is ever leaked, whatever fails and in whatever order
\* (collector.go:287-336, 442-470).
THEOREM NeverLeaks == Spec => []NoLeakedInformer
<1>1. IInv => NoLeakedInformer
    BY DEF IInv, Ownership, NoLeakedInformer
<1> QED
    BY <1>1, Invariance, PTL

\* Publishing a narrower field set in place never uncovers a cached object,
\* however it interleaves with trimming and storing (collector.go:265-280, 370-379).
THEOREM AlwaysCovers == Spec => []CacheCoversFields
<1>1. IInv => CacheCoversFields
    BY DEF IInv
<1> QED
    BY <1>1, Invariance, PTL

LEMMA RestImplied == IInv => RestsInAgreement
<1> SUFFICES ASSUME IInv, Quiescent, NEW g \in GVR, g \notin unmet
             PROVE  Agrees(g)
    BY DEF RestsInAgreement
<1>1. plan.desired = DesiredGVRs(registry)
    BY DEF IInv, Announced, Quiescent
<1>2. plan.add = {} /\ plan.rebuild = {} /\ plan.remove = {}
    BY DEF IInv, PlanShape, Quiescent
<1>3. CASE g \in DOMAIN plan.desired
    BY <1>1, <1>2, <1>3 DEF IInv, Progress, Agrees
<1>4. CASE g \notin DOMAIN plan.desired
    BY <1>1, <1>2, <1>4 DEF IInv, PlanShape, Agrees
<1> QED
    BY <1>3, <1>4

\* A collector that rests agrees with the registry as it is: no wake is lost
\* (collector.go:183-202, 236-337; manager.go:75-78).
THEOREM NeverLosesAWake == Spec => []RestsInAgreement
    BY RestImplied, Invariance, PTL

\* ... and what Collect returns then holds every field the policies read.
THEOREM RestsCovered == Spec => []RestsWithFullObjects
<1>1. IInv => RestsWithFullObjects
    <2> SUFFICES ASSUME IInv, Quiescent,
                        NEW g \in DOMAIN DesiredGVRs(registry) \ unmet,
                        informers[g] \in Informer,
                        NEW object \in inf[informers[g]].cached
                 PROVE  DesiredGVRs(registry)[g] \subseteq object
        BY DEF RestsWithFullObjects
    <2>1. g \in GVR
        BY DesiredType DEF IInv, TypeOK
    <2>2. inf[informers[g]].fields = DesiredGVRs(registry)[g]
        BY <2>1, RestImplied, EntryAssumption DEF RestsInAgreement, Agrees
    <2> QED
        BY <2>2 DEF IInv, CacheCoversFields
<1> QED
    BY <1>1, Invariance, PTL

\* Once the collector has started, a step leaves its context alone or ends it.
LEMMA CtxNext ==
    ASSUME [Next]_vars, engage # "new"
    PROVE  ctx' = ctx \/ ctx' = "cancelled"
<1>1. ASSUME NEW p \in Policy, NEW compiled \in CompiledPolicy, Upsert(p, compiled)
      PROVE ctx' = ctx
    BY <1>1 DEF Upsert
<1>2. CASE WakeAll \/ EngageStep
    BY <1>2 DEF WakeAll, EngageStep, Start, StartWake, Install, EngageWake
<1>3. CASE Cancel
    BY <1>3 DEF Cancel
<1>4. CASE LoopStep
    BY <1>4 DEF LoopStep, Exit, TakeWake, Plan, Remove, NextItem, Finish, PreflightAllows,
                PreflightDenies, ProbeDenies, Launch, Synced, StopOld, SyncTimeout,
                ClassifyDenied, ClassifyTransient
<1>5. ASSUME NEW i \in Informer, InitialList(i) \/ Trim(i) \/ Store(i)
      PROVE ctx' = ctx
    BY <1>5 DEF InitialList, Trim, Store
<1>6. CASE UNCHANGED vars
    BY <1>6 DEF vars
<1> QED
    BY <1>1, <1>2, <1>3, <1>4, <1>5, <1>6 DEF Next

\* A step that takes an informer out of the map for a GVR that the plan wants
\* puts another in its place.
LEMMA MapNext ==
    ASSUME IInv, [Next]_vars, NEW g \in GVR, informers[g] \in Informer,
           g \in DOMAIN plan.desired
    PROVE  informers'[g] \in Informer
<1> USE EntryAssumption DEF IInv, TypeOK
<1>1. CASE informers' = informers
    BY <1>1
<1>2. CASE Remove
    BY <1>2 DEF Remove, PlanShape
<1>3. CASE PreflightDenies \/ ProbeDenies \/ ClassifyDenied
    <2>1. RecordDenial
        BY <1>3 DEF PreflightDenies, ProbeDenies, ClassifyDenied
    <2>2. g \notin plan.add
        BY DEF PlanShape
    <2> QED
        BY <2>1, <2>2 DEF RecordDenial
<1>4. CASE Synced
    BY <1>4 DEF Synced, LocalsInUse
<1>5. ASSUME NEW p \in Policy, NEW compiled \in CompiledPolicy, Upsert(p, compiled)
      PROVE informers' = informers
    BY <1>5 DEF Upsert
<1>6. CASE WakeAll \/ EngageStep \/ Cancel
    BY <1>1, <1>6 DEF WakeAll, EngageStep, Start, StartWake, Install, EngageWake, Cancel
<1>7. CASE LoopStep
    BY <1>1, <1>2, <1>3, <1>4, <1>7
       DEF LoopStep, Exit, TakeWake, Plan, NextItem, Finish, PreflightAllows,
           Launch, StopOld, SyncTimeout, ClassifyTransient
<1>8. ASSUME NEW i \in Informer, InitialList(i) \/ Trim(i) \/ Store(i)
      PROVE informers' = informers
    BY <1>8 DEF InitialList, Trim, Store
<1>9. CASE UNCHANGED vars
    BY <1>1, <1>9 DEF vars
<1> QED
    BY <1>1, <1>5, <1>6, <1>7, <1>8, <1>9 DEF Next

\* A GVR that is served stays served through every step of the loop, a rebuild
\* included, while the plan wants it and the collector lives (collector.go:315-336).
THEOREM ServedThroughRebuild == Spec => ServiceContinues
<1>1. IInv /\ IInv' /\ [Next]_vars
        => [\A g \in GVR : Serving(g) /\ ~Serving(g)' =>
                ctx' = "cancelled" \/ g \notin DOMAIN plan.desired]_vars
    <2> SUFFICES ASSUME IInv, IInv', [Next]_vars, NEW g \in GVR,
                        Serving(g), g \in DOMAIN plan.desired, ctx' # "cancelled"
                 PROVE  Serving(g)'
        OBVIOUS
    <2>1. ctx = "live"
        BY DEF IInv, Ownership, Serving
    <2>2. informers[g] \in Informer /\ engage # "new"
        BY EntryAssumption DEF Serving, IInv, Announced
    <2>3. ctx' = "live"
        BY <2>1, <2>2, CtxNext
    <2>4. informers'[g] \in Informer
        BY <2>2, MapNext
    <2> QED
        BY <2>3, <2>4 DEF IInv, Serves, Serving
<1> QED
    BY <1>1, Invariance, PTL DEF Spec, ServiceContinues

-----------------------------------------------------------------------------
(* Implementing Collection.                                                *)
(*                                                                         *)
(* Entries are what the map and the state of its informers make of them,   *)
(* so most steps, those of informers that are not in the map above all,    *)
(* leave them alone. The six that do not are steps of Collection.          *)

AbstractVars == Abstract!vars

\* A collector has no context until it is started.
Fresh == engage = "new" <=> ctx = "unset"

\* An informer that is to be replaced lacks a field until it is.
Lacking == \A g \in plan.rebuild : ~(plan.desired[g] \subseteq inf[informers[g]].fields)

RInv == IInv /\ Fresh /\ Lacking

LEMMA FreshNext == Fresh /\ [Next]_vars => Fresh'
<1> SUFFICES ASSUME Fresh, [Next]_vars PROVE Fresh'
    OBVIOUS
<1> USE DEF Fresh
<1>1. ASSUME NEW p \in Policy, NEW compiled \in CompiledPolicy, Upsert(p, compiled)
      PROVE Fresh'
    BY <1>1 DEF Upsert
<1>2. CASE WakeAll \/ EngageStep
    BY <1>2 DEF WakeAll, EngageStep, Start, StartWake, Install, EngageWake
<1>3. CASE Cancel
    BY <1>3 DEF Cancel, envVars
<1>4. CASE LoopStep
    BY <1>4 DEF LoopStep, Exit, TakeWake, Plan, Remove, NextItem, Finish, PreflightAllows,
                PreflightDenies, ProbeDenies, Launch, Synced, StopOld, SyncTimeout,
                ClassifyDenied, ClassifyTransient, envVars
<1>5. ASSUME NEW i \in Informer, InitialList(i) \/ Trim(i) \/ Store(i)
      PROVE Fresh'
    BY <1>5 DEF InitialList, Trim, Store, envVars
<1>6. CASE UNCHANGED vars
    BY <1>6 DEF vars
<1> QED
    BY <1>1, <1>2, <1>3, <1>4, <1>5, <1>6 DEF Next

LEMMA LackingNext == IInv /\ Lacking /\ [Next]_vars => Lacking'
<1> SUFFICES ASSUME IInv, Lacking, [Next]_vars PROVE Lacking'
    OBVIOUS
<1> USE DEF IInv, TypeOK
<1>same. ASSUME plan'.desired = plan.desired,
                NEW g \in plan.rebuild, informers'[g] = informers[g],
                inf'[informers[g]].fields = inf[informers[g]].fields
         PROVE  ~(plan'.desired[g] \subseteq inf'[informers'[g]].fields)
    BY <1>same DEF Lacking
<1>map. \A g \in plan.rebuild : g \in GVR /\ informers[g] \in Informer
    BY DEF PlanShape, Plans
<1>0. ASSUME UNCHANGED <<plan, informers, inf>>
      PROVE Lacking'
    BY <1>0 DEF Lacking
<1>1. ASSUME NEW p \in Policy, NEW compiled \in CompiledPolicy, Upsert(p, compiled)
      PROVE Lacking'
    BY <1>0, <1>1 DEF Upsert, planVars
<1>2. CASE WakeAll \/ EngageStep \/ Cancel
    BY <1>0, <1>2 DEF WakeAll, EngageStep, Start, StartWake, Install, EngageWake, Cancel,
                      planVars
<1>3. CASE Exit \/ TakeWake \/ NextItem \/ Finish \/ PreflightAllows \/ SyncTimeout
    BY <1>0, <1>3 DEF Exit, TakeWake, NextItem, Finish, PreflightAllows, SyncTimeout, planVars
<1>4. CASE Plan
    <2> DEFINE desired == DesiredGVRs(registry)
    <2>1. /\ plan'.desired = desired /\ plan'.rebuild = Widened(desired)
          /\ UNCHANGED informers
        BY <1>4 DEF Plan
    <2>2. ASSUME NEW g \in Widened(desired)
          PROVE  inf'[informers[g]] = inf[informers[g]]
        <3>1. g \in GVR /\ informers[g] \in Informer /\ g \notin Narrowed(desired)
            BY DesiredType DEF Widened, Narrowed
        <3>2. ~\E h \in Narrowed(desired) : informers[h] = informers[g]
            BY <3>1, DesiredType DEF Ownership, Narrowed
        <3> QED
            BY <3>1, <3>2, <1>4 DEF Plan
    <2> QED
        BY <2>1, <2>2 DEF Lacking, Widened
<1>5. CASE Remove
    <2>1. plan'.desired = plan.desired /\ plan'.rebuild = plan.rebuild
        BY <1>5 DEF Remove, Plans
    <2>2. ASSUME NEW g \in plan.rebuild
          PROVE  informers'[g] = informers[g] /\ inf'[informers[g]] = inf[informers[g]]
        <3>1. g \notin plan.remove
            BY DEF PlanShape
        <3>2. informers[g] \notin {informers[h] : h \in plan.remove}
            BY <3>1, <1>map DEF Ownership, Plans
        <3> QED
            BY <3>1, <3>2, <1>map, <1>5 DEF Remove
    <2> QED
        BY <1>same, <2>1, <2>2 DEF Lacking
<1>6. CASE PreflightDenies \/ ProbeDenies \/ ClassifyDenied \/ ClassifyTransient
           \/ Launch \/ Synced \/ StopOld
    <2>1. plan'.desired = plan.desired /\ plan'.rebuild \subseteq plan.rebuild
        BY <1>6 DEF PreflightDenies, ProbeDenies, ClassifyDenied, ClassifyTransient, Launch,
                    Synced, StopOld, RecordDenial, ItemDone, Plans
    <2>2. ASSUME NEW g \in plan'.rebuild
          PROVE  informers'[g] = informers[g] /\ inf'[informers[g]] = inf[informers[g]]
        <3>1. g \in GVR /\ informers[g] \in Informer
            BY <2>1, <1>map
        <3>2. CASE PreflightDenies \/ ProbeDenies \/ ClassifyDenied \/ ClassifyTransient
            BY <3>1, <3>2 DEF PreflightDenies, ProbeDenies, ClassifyDenied,
                    ClassifyTransient, TearDown, RecordDenial, ItemDone, Plans, Ownership
        <3>3. CASE Launch
            BY <3>1, <3>3 DEF Launch, Unused
        <3>4. CASE Synced
            BY <3>1, <3>4 DEF Synced, ItemDone, Plans
        <3>5. CASE StopOld
            BY <3>1, <3>5 DEF StopOld, Ownership
        <3> QED
            BY <1>6, <3>2, <3>3, <3>4, <3>5
    <2> QED
        BY <1>same, <2>1, <2>2 DEF Lacking
<1>7. ASSUME NEW i \in Informer, InitialList(i) \/ Trim(i) \/ Store(i)
      PROVE Lacking'
    <2>1. UNCHANGED <<plan, informers>>
        BY <1>7 DEF InitialList, Trim, Store, planVars
    <2>2. \A j \in Informer : inf'[j].fields = inf[j].fields
        <3>1. CASE InitialList(i)
            BY <3>1 DEF InitialList, InformerState
        <3>2. CASE Trim(i)
            BY <3>2 DEF Trim, InformerState
        <3>3. CASE Store(i)
            BY <3>3 DEF Store, InformerState
        <3> QED
            BY <1>7, <3>1, <3>2, <3>3
    <2> QED
        BY <1>same, <1>map, <2>1, <2>2 DEF Lacking
<1>8. CASE UNCHANGED vars
    BY <1>0, <1>8 DEF vars
<1> QED
    BY <1>1, <1>2, <1>3, <1>4, <1>5, <1>6, <1>7, <1>8 DEF Next, LoopStep

LEMMA RInvariance == Spec => []RInv
<1>1. Init => Fresh /\ Lacking
    BY DEF Init, Fresh, Lacking, EmptyPlan
<1> QED
    BY <1>1, FreshNext, LackingNext, Invariance, PTL DEF Spec, RInv

-----------------------------------------------------------------------------
(* Entries.                                                                *)

\* What the map refers to tells what its entry tells.
LEMMA SameEntry ==
    ASSUME NEW g \in GVR,
           informers'[g] = informers[g],
           informers[g] \in Informer =>
               /\ inf'[informers[g]].fields = inf[informers[g]].fields
               /\ inf'[informers[g]].cached = inf[informers[g]].cached
    PROVE  EntryOf(g)' = EntryOf(g)
BY DEF EntryOf

LEMMA SameEntries ==
    ASSUME UNCHANGED <<informers, inf>>
    PROVE  \A g \in GVR : EntryOf(g)' = EntryOf(g)
BY SameEntry

\* A step that shows nothing.
LEMMA Hidden ==
    ASSUME UNCHANGED <<registry, ctx>>, plan'.desired = plan.desired,
           \A g \in GVR : EntryOf(g)' = EntryOf(g)
    PROVE  UNCHANGED AbstractVars
BY DEF AbstractVars, Abstract!vars

-----------------------------------------------------------------------------
(* Initial states.                                                         *)

LEMMA WantsType ==
    ASSUME TypeOK
    PROVE  DesiredGVRs(registry) \in Abstract!Wants
BY DesiredType DEF TypeOK, Abstract!Wants, FieldSet

LEMMA InitImplements == IInv /\ Init => Abstract!Init
<1> SUFFICES ASSUME IInv, Init PROVE Abstract!Init
    OBVIOUS
<1>1. DesiredGVRs(registry) \in Abstract!Wants
    BY WantsType DEF IInv
<1>2. \A g \in GVR : EntryOf(g) = Abstract!None
    BY EntryAssumption DEF Init, EntryOf, Abstract!None
<1>3. plan.desired = [g \in {} |-> {}]
    BY DEF Init, EmptyPlan
<1> QED
    BY <1>1, <1>2, <1>3 DEF Init, Abstract!Init

-----------------------------------------------------------------------------
(* The steps that show.                                                    *)

\* The step of one entry, for Deny, Serve and Show.
LEMMA OneEntry ==
    ASSUME UNCHANGED <<registry, ctx>>, plan'.desired = plan.desired,
           NEW g \in GVR, NEW e, EntryOf(g)' = e,
           \A h \in GVR \ {g} : EntryOf(h)' = EntryOf(h)
    PROVE  /\ [c \in {Self} |-> [h \in GVR |-> EntryOf(h)]]'
                = [[c \in {Self} |-> [h \in GVR |-> EntryOf(h)]] EXCEPT ![Self][g] = e]
           /\ UNCHANGED <<DesiredGVRs(registry), [c \in {Self} |-> plan.desired],
                          [c \in {Self} |-> ctx]>>
BY DEF Self

\* An upsert edits what is wanted.
LEMMA UpsertEdits ==
    ASSUME IInv, IInv', NEW p \in Policy, NEW compiled \in CompiledPolicy,
           Upsert(p, compiled)
    PROVE  Abstract!Edit
<1>1. DesiredGVRs(registry') \in Abstract!Wants
    BY DesiredType DEF IInv, TypeOK, Abstract!Wants, FieldSet
<1>2. \A g \in GVR : EntryOf(g)' = EntryOf(g)
    BY SameEntries DEF Upsert
<1> QED
    BY <1>1, <1>2 DEF Upsert, planVars, Abstract!Edit

LEMMA StartStarts ==
    ASSUME RInv, Start
    PROVE  Abstract!Start(Self)
<1>1. ctx = "unset"
    BY DEF Start, RInv, Fresh
<1>2. \A g \in GVR : EntryOf(g)' = EntryOf(g)
    BY SameEntries DEF Start
<1> QED
    BY <1>1, <1>2 DEF Start, planVars, Abstract!Start

LEMMA CancelStops ==
    ASSUME IInv, Cancel
    PROVE  Abstract!Stop(Self)
<1>1. \A g \in GVR : EntryOf(g)' = EntryOf(g)
    BY SameEntries DEF Cancel
<1> QED
    BY <1>1 DEF Cancel, planVars, envVars, Abstract!Stop

\* Planning adopts what is wanted, and narrows in place.
LEMMA PlanAdopts ==
    ASSUME RInv, Plan
    PROVE  Abstract!Adopt(Self)
<1> DEFINE desired == DesiredGVRs(registry)
           narrowed == {g \in GVR : /\ g \in DOMAIN desired
                                    /\ Abstract!Narrows(EntryOf(g), desired[g])}
<1> USE DEF RInv, IInv, TypeOK
<1>1. /\ plan'.desired = desired
      /\ UNCHANGED <<registry, ctx, informers>>
    BY DEF Plan, envVars
<1>2. DOMAIN desired \subseteq GVR
    BY DesiredType
<1>3. ctx # "unset"
    BY DEF Plan, Fresh, Announced
<1>4. narrowed = Narrowed(desired)
    BY <1>2, EntryAssumption DEF Narrowed, Abstract!Narrows, EntryOf
<1>5. ASSUME NEW g \in GVR
      PROVE EntryOf(g)' = IF g \in narrowed THEN [EntryOf(g) EXCEPT !.fields = desired[g]]
                          ELSE EntryOf(g)
    <2>1. CASE informers[g] \notin Informer
        BY <2>1, <1>1, <1>4 DEF EntryOf, Narrowed
    <2>2. CASE informers[g] \in Informer
        <3>1. \A h \in GVR : informers[h] = informers[g] => h = g
            BY <2>2 DEF Ownership
        <3>2. CASE g \in narrowed
            <4>1. (CHOOSE h \in Narrowed(desired) : informers[h] = informers[g]) = g
                BY <3>1, <3>2, <1>2, <1>4 DEF Narrowed
            <4>2. inf'[informers[g]] = [inf[informers[g]] EXCEPT !.fields = desired[g]]
                BY <4>1, <3>2, <1>4, <2>2 DEF Plan
            <4> QED
                BY <4>2, <3>2, <2>2, <1>1 DEF EntryOf, InformerState
        <3>3. CASE g \notin narrowed
            <4>1. inf'[informers[g]] = inf[informers[g]]
                BY <3>1, <3>3, <1>2, <1>4, <2>2 DEF Plan, Narrowed
            <4> QED
                BY <4>1, <3>3, <2>2, <1>1 DEF EntryOf
        <3> QED
            BY <3>2, <3>3
    <2> QED
        BY <2>1, <2>2
<1> QED
    BY <1>1, <1>3, <1>5 DEF Abstract!Adopt

\* Entries that are not desired leave, all at once. No two share an informer.
LEMMA RemoveRetires ==
    ASSUME IInv, Remove
    PROVE  Abstract!Retire(Self)
<1> USE DEF IInv, TypeOK
<1>1. /\ plan'.desired = plan.desired
      /\ UNCHANGED <<registry, ctx>>
    BY DEF Remove, envVars, Plans
<1>2. ASSUME NEW g \in GVR
      PROVE EntryOf(g)' = IF g \in DOMAIN plan.desired THEN EntryOf(g) ELSE Abstract!None
    <2>1. CASE g \in plan.remove
        <3>1. informers'[g] = NoEntry /\ g \notin DOMAIN plan.desired
            BY <2>1 DEF Remove, PlanShape
        <3> QED
            BY <3>1, EntryAssumption DEF EntryOf, Abstract!None
    <2>2. CASE g \notin plan.remove
        <3>1. informers'[g] = informers[g]
            BY <2>2 DEF Remove
        <3>2. ASSUME informers[g] \in Informer
              PROVE  inf'[informers[g]] = inf[informers[g]]
            <4>1. informers[g] \notin {informers[h] : h \in plan.remove}
                BY <2>2, <3>2 DEF Ownership, Plans
            <4> QED
                BY <4>1, <3>2 DEF Remove
        <3>3. EntryOf(g)' = EntryOf(g)
            BY <3>1, <3>2, SameEntry
        <3>4. g \notin DOMAIN plan.desired => EntryOf(g) = Abstract!None
            BY <2>2, EntryAssumption DEF PlanShape, EntryOf, Abstract!None
        <3> QED
            BY <3>3, <3>4
    <2> QED
        BY <2>1, <2>2
<1> QED
    BY <1>1, <1>2 DEF Abstract!Retire

\* A denial enters the map where there was no entry, and nowhere else. The two
\* GVRs that are being worked on are in the plan.
LEMMA DenialShows ==
    ASSUME IInv, RecordDenial, item \in plan.add \cup plan.rebuild,
           UNCHANGED <<registry, ctx, item>>,
           \A i \in Informer : i # attempt => inf'[i] = inf[i]
    PROVE  Abstract!Deny(Self, item) \/ UNCHANGED AbstractVars
<1> USE DEF IInv, TypeOK
<1>1. plan'.desired = plan.desired /\ item \in GVR
    BY DEF RecordDenial, ItemDone, Plans
<1>2. ASSUME NEW g \in GVR, informers'[g] = informers[g]
      PROVE  EntryOf(g)' = EntryOf(g)
    BY <1>2, SameEntry DEF Ownership
<1>3. CASE item \in plan.add
    <2>1. EntryOf(item) = Abstract!None /\ item \in DOMAIN plan.desired
        BY <1>1, <1>3, EntryAssumption DEF PlanShape, EntryOf, Abstract!None
    <2>2. EntryOf(item)' = Abstract!Denial
        BY <1>1, <1>3, EntryAssumption DEF RecordDenial, EntryOf, Abstract!Denial
    <2>3. \A h \in GVR \ {item} : EntryOf(h)' = EntryOf(h)
        BY <1>2, <1>3 DEF RecordDenial
    <2> QED
        BY <1>1, <2>1, <2>2, <2>3, OneEntry DEF Abstract!Deny, Abstract!None, Self
<1>4. CASE item \notin plan.add
    <2>1. \A g \in GVR : EntryOf(g)' = EntryOf(g)
        BY <1>2, <1>4 DEF RecordDenial
    <2> QED
        BY <1>1, <2>1, Hidden
<1> QED
    BY <1>3, <1>4

\* What is installed has what was planned, and replaces only what lacked some of
\* it: nothing narrows or widens an entry while the plan is carried out.
LEMMA SyncedServes ==
    ASSUME RInv, Synced
    PROVE  Abstract!Serve(Self, item, inf[attempt].cached)
<1> USE DEF RInv, IInv, TypeOK
<1>1. /\ plan'.desired = plan.desired
      /\ UNCHANGED <<registry, ctx, item, inf>>
      /\ item \in plan.add \cup plan.rebuild /\ item \in GVR
      /\ attempt \in Informer
    BY DEF Synced, ItemDone, Plans, envVars, LocalsInUse
<1>2. item \in DOMAIN plan.desired /\ inf[attempt].fields = plan.desired[item]
    BY <1>1 DEF PlanShape, Progress
<1>3. EntryOf(item)' = Abstract!Served(plan.desired[item], inf[attempt].cached)
    BY <1>1, <1>2 DEF Synced, EntryOf, Abstract!Served
<1>4. \A h \in GVR \ {item} : EntryOf(h)' = EntryOf(h)
    BY <1>1, SameEntry DEF Synced
<1>5. inf[attempt].cached \subseteq Abstract!Holding(plan.desired[item])
    BY <1>1, <1>2 DEF CacheCoversFields, Abstract!Holding, InformerState, FieldSet
<1>6. ~Abstract!Narrows(EntryOf(item), plan.desired[item])
    BY <1>1, <1>2, EntryAssumption DEF PlanShape, Lacking, EntryOf, Abstract!Narrows
<1> QED
    BY <1>1, <1>2, <1>3, <1>4, <1>5, <1>6, OneEntry DEF Abstract!Serve, Self

\* Informers: what is installed has had its initial list, and so only its watch
\* events show; and each stores objects with the fields published.
LEMMA InformersShow ==
    ASSUME IInv, IInv', NEW i \in Informer, InitialList(i) \/ Trim(i) \/ Store(i)
    PROVE  (\E g \in GVR : Abstract!Show(Self, g)) \/ UNCHANGED AbstractVars
<1> USE DEF IInv, TypeOK
<1>1. UNCHANGED <<registry, ctx, plan, informers>>
    BY DEF InitialList, Trim, Store, envVars, planVars
<1>2. ASSUME NEW j \in Informer, j # i
      PROVE  inf'[j] = inf[j]
    <2>1. CASE InitialList(i)
        BY <1>2, <2>1 DEF InitialList
    <2>2. CASE Trim(i)
        BY <1>2, <2>2 DEF Trim
    <2>3. CASE Store(i)
        BY <1>2, <2>3 DEF Store
    <2> QED
        BY <2>1, <2>2, <2>3
<1>3. CASE \A g \in GVR : EntryOf(g)' = EntryOf(g)
    BY <1>1, <1>3, Hidden
<1>4. ASSUME NEW g \in GVR, EntryOf(g)' # EntryOf(g)
      PROVE  Abstract!Show(Self, g)
    <2>1. informers[g] = i
        BY <1>1, <1>2, <1>4, SameEntry
    <2>2. Store(i)
        <3>1. ~InitialList(i)
            BY <2>1 DEF InitialList, Serves
        <3>2. ~Trim(i)
            <4>1. SUFFICES ASSUME Trim(i) PROVE EntryOf(g)' = EntryOf(g)
                BY <1>4
            <4>2. inf'[i].fields = inf[i].fields /\ inf'[i].cached = inf[i].cached
                BY <4>1 DEF Trim, InformerState
            <4> QED
                BY <4>2, <2>1, <1>1, SameEntry
        <3> QED
            BY <3>1, <3>2
    <2>3. inf'[i].fields = inf[i].fields
        <3>1. PICK gone \in SUBSET inf[i].cached :
                inf' = [inf EXCEPT ![i].cached = (@ \ gone) \cup inf[i].pending,
                                   ![i].pending = {}]
            BY <2>2 DEF Store
        <3>2. inf[i] \in InformerState
            OBVIOUS
        <3> QED
            BY <3>1, <3>2 DEF InformerState
    <2>4. \A h \in GVR \ {g} : EntryOf(h)' = EntryOf(h)
        BY <1>1, <1>2, <2>1, SameEntry DEF Ownership
    <2>5. inf'[i].cached \subseteq Abstract!Holding(inf[i].fields)
        BY <2>3 DEF CacheCoversFields, Abstract!Holding, InformerState, FieldSet
    <2>6. ctx = "live"
        BY <2>2 DEF Store, Ownership
    <2>7. /\ EntryOf(g) = [state |-> "served", fields |-> inf[i].fields,
                           shown |-> inf[i].cached]
          /\ EntryOf(g)' = [EntryOf(g) EXCEPT !.shown = inf'[i].cached]
        BY <1>1, <2>1, <2>3 DEF EntryOf
    <2>8. /\ [c \in {Self} |-> [h \in GVR |-> EntryOf(h)]]'
                = [[c \in {Self} |-> [h \in GVR |-> EntryOf(h)]]
                    EXCEPT ![Self][g] = [EntryOf(g) EXCEPT !.shown = inf'[i].cached]]
          /\ UNCHANGED <<DesiredGVRs(registry), [c \in {Self} |-> plan.desired],
                         [c \in {Self} |-> ctx]>>
        BY <1>1, <2>4, <2>7, OneEntry
    <2>9. [c \in {Self} |-> [h \in GVR |-> EntryOf(h)]]'
             = [[c \in {Self} |-> [h \in GVR |-> EntryOf(h)]]
                 EXCEPT ![Self][g].shown = inf'[i].cached]
        BY <2>8
    <2>10. EntryOf(g).state = "served" /\ EntryOf(g).fields = inf[i].fields
        BY <2>7
    <2> QED
        BY <2>5, <2>6, <2>8, <2>9, <2>10 DEF Abstract!Show
<1> QED
    BY <1>3, <1>4

\* Denials, wherever they are found out.
LEMMA DeniesShow ==
    ASSUME IInv, PreflightDenies \/ ProbeDenies \/ ClassifyDenied
    PROVE  (\E g \in GVR : Abstract!Deny(Self, g)) \/ UNCHANGED AbstractVars
<1> USE DEF IInv, TypeOK
<1>1. /\ RecordDenial /\ UNCHANGED <<registry, ctx, item>>
      /\ \A i \in Informer : i # attempt => inf'[i] = inf[i]
    BY DEF PreflightDenies, ProbeDenies, ClassifyDenied, TearDown, envVars
<1>2. item \in plan.add \cup plan.rebuild /\ item \in GVR
    BY DEF PreflightDenies, ProbeDenies, ClassifyDenied, LocalsInUse, Plans
<1> QED
    BY <1>1, <1>2, DenialShows

\* An informer that is brought up, given up or already replaced is none of the map's.
LEMMA AttemptsHide ==
    ASSUME IInv, Launch \/ StopOld \/ ClassifyTransient
    PROVE  UNCHANGED AbstractVars
<1> USE DEF IInv, TypeOK
<1>1. UNCHANGED <<registry, ctx, informers>> /\ plan'.desired = plan.desired
    BY DEF Launch, StopOld, ClassifyTransient, ItemDone, envVars, Plans
<1>2. ASSUME NEW g \in GVR, informers[g] \in Informer
      PROVE  inf'[informers[g]] = inf[informers[g]]
    <2>1. CASE Launch
        BY <1>2, <2>1 DEF Launch, Unused
    <2>2. CASE StopOld
        BY <1>2, <2>2 DEF StopOld, Ownership
    <2>3. CASE ClassifyTransient
        BY <1>2, <2>3 DEF ClassifyTransient, TearDown, Ownership
    <2> QED
        BY <2>1, <2>2, <2>3
<1>3. \A g \in GVR : EntryOf(g)' = EntryOf(g)
    BY <1>1, <1>2, SameEntry
<1> QED
    BY <1>1, <1>3, Hidden

-----------------------------------------------------------------------------
(* The refinement.                                                         *)

LEMMA StepImplements ==
    RInv /\ RInv' /\ [Next]_vars => [Abstract!Next]_AbstractVars
<1> SUFFICES ASSUME RInv, RInv', [Next]_vars
             PROVE  Abstract!Next \/ UNCHANGED AbstractVars
    OBVIOUS
<1> USE DEF RInv
<1>a. Self \in {Self}
    OBVIOUS
<1>0. ASSUME UNCHANGED <<registry, ctx, plan, informers, inf>>
      PROVE  UNCHANGED AbstractVars
    BY <1>0, SameEntries, Hidden
<1>1. ASSUME NEW p \in Policy, NEW compiled \in CompiledPolicy, Upsert(p, compiled)
      PROVE  Abstract!Next
    BY <1>1, UpsertEdits DEF Abstract!Next
<1>2. CASE Start
    BY <1>2, <1>a, StartStarts DEF Abstract!Next
<1>3. CASE Cancel
    BY <1>3, <1>a, CancelStops DEF Abstract!Next
<1>4. CASE Plan
    BY <1>4, <1>a, PlanAdopts DEF Abstract!Next
<1>5. CASE Remove
    BY <1>5, <1>a, RemoveRetires DEF Abstract!Next
<1>6. CASE PreflightDenies \/ ProbeDenies \/ ClassifyDenied
    BY <1>6, <1>a, DeniesShow DEF Abstract!Next
<1>7. CASE Synced
    <2>1. item \in GVR /\ inf[attempt].cached \in SUBSET (SUBSET Field)
        BY <1>7 DEF IInv, TypeOK, Synced, LocalsInUse, Plans, InformerState, FieldSet
    <2> QED
        BY <1>7, <1>a, <2>1, SyncedServes DEF Abstract!Next
<1>8. ASSUME NEW i \in Informer, InitialList(i) \/ Trim(i) \/ Store(i)
      PROVE  Abstract!Next \/ UNCHANGED AbstractVars
    BY <1>8, <1>a, InformersShow DEF Abstract!Next
<1>9. CASE Launch \/ StopOld \/ ClassifyTransient
    BY <1>9, AttemptsHide
<1>10. CASE \/ WakeAll \/ StartWake \/ Install \/ EngageWake
            \/ Exit \/ TakeWake \/ NextItem \/ Finish \/ PreflightAllows \/ SyncTimeout
    BY <1>0, <1>10 DEF WakeAll, StartWake, Install, EngageWake, Exit, TakeWake, NextItem,
                       Finish, PreflightAllows, SyncTimeout, planVars, envVars
<1>11. CASE UNCHANGED vars
    BY <1>0, <1>11 DEF vars
<1> QED
    BY <1>1, <1>2, <1>3, <1>4, <1>5, <1>6, <1>7, <1>8, <1>9, <1>10, <1>11
       DEF Next, LoopStep, EngageStep

\* Whatever fails, races or is cancelled in a collector, Status and Collect see only
\* the steps of Collection (collector.go:232-337, 381-479, 482-576).
THEOREM RefinesCollection == Spec => ImplementsCollection
<1>1. RInv /\ Init => Abstract!Init
    BY InitImplements DEF RInv
<1>2. RInv /\ RInv' /\ [Next]_vars => [Abstract!Next]_(Abstract!vars)
    BY StepImplements DEF AbstractVars
<1> QED
    BY <1>1, <1>2, RInvariance, PTL DEF Spec, ImplementsCollection, Abstract!Spec

=============================================================================
