---------------------------- MODULE LifecycleProofs ----------------------------
(***************************************************************************)
(* The run of the process is a run of OtelRuntime: every step of the       *)
(* manager, the workers and the drain is one of the runtime's steps or     *)
(* leaves it alone. So what is proved of OtelRuntime holds up to the end   *)
(* of the process, for every set of workers.                               *)
(***************************************************************************)
EXTENDS Lifecycle, OtelRuntimeProofs

LEMMA RuntimeSteps == [LNext]_allVars => [Next]_vars
<1> SUFFICES ASSUME [LNext]_allVars PROVE [Next]_vars
    OBVIOUS
<1>1. CASE Reconcile
    BY <1>1 DEF Reconcile, Next
<1>2. CASE Syncing
    BY <1>2 DEF Syncing, Next
<1>3. CASE Reading
    BY <1>3 DEF Reading, Next
<1>4. CASE DrainRuntime
    BY <1>4 DEF DrainRuntime, Next
<1>5. CASE Signal \/ ManagerStops \/ ManagerReturns \/ DrainProvider \/ Exit
    BY <1>5 DEF Signal, ManagerStops, ManagerReturns, DrainProvider, Exit
<1>6. CASE \E w \in Worker : WorkerFails(w) \/ WorkerReturns(w)
    BY <1>6 DEF WorkerFails, WorkerReturns
<1>7. CASE UNCHANGED allVars
    BY <1>7 DEF allVars
<1> QED
    BY <1>1, <1>2, <1>3, <1>4, <1>5, <1>6, <1>7 DEF LNext

\* cmd/main.go drives the runtime only in ways that OtelRuntime allows for.
THEOREM RunsRuntime == LSpec => Spec
<1>1. LInit => Init
    BY DEF LInit
<1> QED
    BY <1>1, RuntimeSteps, PTL DEF LSpec, Spec

\* Up to the end of the process the SDK holds one callback for each entry of the
\* map and no other: the drain, whenever it comes, takes down what there is, and
\* a Reconcile that outlives it knows of all that it registers again.
THEOREM TrackedToTheEnd == LSpec => []CallbacksAreTracked
BY RunsRuntime, EveryCallbackIsTracked, PTL

\* When the worker rests, the process being about to end or not, the families
\* are those of the registry.
THEOREM FollowToTheEnd == LSpec => []FamiliesFollowRegistry
BY RunsRuntime, FamiliesFollow, PTL

\* Sync takes no family down that is right and agreed on, nor does the drain
\* while a Sync is under way.
THEOREM AgreedStayToTheEnd == LSpec => AgreedStays
BY RunsRuntime, AgreedFamiliesStay

\* Type correctness of the whole.
THEOREM LifecycleTypeCorrect == LSpec => []LTypeOK
<1> DEFINE Rest == /\ ctx \in {"live", "done"}
                   /\ manager \in {"running", "stopping", "returned"}
                   /\ returned \subseteq Worker
                   /\ groupErr \in BOOLEAN
                   /\ drain \in {"runtime", "provider", "nothing"}
                   /\ exit \in {"no", "ok", "failed"}
<1>1. LInit => Rest
    BY DEF LInit
<1>2. Rest /\ [LNext]_allVars => Rest'
    <2> SUFFICES ASSUME Rest, [LNext]_allVars PROVE Rest'
        OBVIOUS
    <2>1. CASE Reconcile \/ Syncing \/ Reading
        BY <2>1 DEF Reconcile, Syncing, Reading, lifeVars
    <2>2. CASE Signal \/ ManagerStops \/ ManagerReturns
        BY <2>2 DEF Signal, ManagerStops, ManagerReturns
    <2>3. CASE DrainRuntime \/ DrainProvider \/ Exit
        BY <2>3 DEF DrainRuntime, DrainProvider, Exit
    <2>4. ASSUME NEW w \in Worker, WorkerFails(w) \/ WorkerReturns(w)
          PROVE  Rest'
        BY <2>4 DEF WorkerFails, WorkerReturns
    <2>5. CASE UNCHANGED allVars
        BY <2>5 DEF allVars, lifeVars
    <2> QED
        BY <2>1, <2>2, <2>3, <2>4, <2>5 DEF LNext
<1>3. LSpec => []TypeOK
    BY RunsRuntime, TypeCorrect, PTL
<1>4. TypeOK /\ Rest => LTypeOK
    BY DEF LTypeOK
<1> QED
    BY <1>1, <1>2, <1>3, <1>4, PTL DEF LSpec

=============================================================================
