--------------------------- MODULE PolicyStatusProofs ---------------------------
(***************************************************************************)
(* Theorems about PolicyStatus: its types, that a status which has come to *)
(* rest is whole, and that the registry at rest holds what the API server  *)
(* does.                                                                   *)
(***************************************************************************)
EXTENDS PolicyStatus, SequenceTheorems, TLAPS

-----------------------------------------------------------------------------
(* The inductive invariant.                                                *)

\* The version that the cache will hold when the watch has caught up.
Latest(versions, cached) == IF versions = <<>> THEN cached ELSE versions[Len(versions)]

SpecIn(version) == IF version = Absent THEN Absent ELSE version.spec

\* The watch loses nothing: its last event is the API server's version.
CatchesUp == api = Latest(stream, seen)

\* Reconcile works on a policy, and finds denied only what that one names.
JobInv == pc = "read" => obj # Absent /\ denied \subseteq obj.spec.refs

\* While the key is not queued, the copy is what the cache holds.
CopyIsSeen == pc = "read" /\ ~queued => obj = seen

\* While the key is not queued, the registry holds what the cache holds.
RegisteredIsSeen == ~queued => registry = SpecIn(seen)

IInv ==
    /\ TypeOK
    /\ CatchesUp
    /\ JobInv
    /\ CopyIsSeen
    /\ RegisteredIsSeen
    /\ RestsCoherent

-----------------------------------------------------------------------------
(* Operators: what a status, a merge and a denial are.                     *)

\* What Sync reports is one of the forms that conditions can quote.
LEMMA SyncErrorsType ==
    ASSUME NEW names \in SUBSET Refused, NEW failed \in SyncErrors(names)
    PROVE  failed \in SyncErrors({}) \cup SyncErrors(Refused)
BY DEF SyncErrors

\* Conditions computed from a policy are conditions.
LEMMA ConditionsType ==
    ASSUME NEW gen \in 1 .. MaxGeneration, NEW spec \in SpecForms,
           NEW missing \in SUBSET GVR,
           NEW failed \in SyncErrors({}) \cup SyncErrors(Refused)
    PROVE  Conditions(gen, spec, missing, failed) \in ConditionSet
<1> DEFINE degraded == spec.failures > 0 \/ missing # {} \/ failed # {}
           ready    == ~degraded /\ spec.active > 0
           shown    == IF ready THEN spec.active ELSE 0
           none     == spec.active = 0
<1>1. spec.active \in Nat /\ spec.failures \in Nat
  BY DEF SpecForms
<1>2. failed \in SUBSET Refused
  BY DEF SyncErrors
<1>3. degraded \in BOOLEAN
  OBVIOUS
<1>4. ready \in BOOLEAN
  OBVIOUS
<1>5. none \in BOOLEAN
  OBVIOUS
<1>6. shown \in Nat
  BY <1>1
<1>7. Conditions(gen, spec, missing, failed) =
         [generation |-> gen, InvalidCEL |-> spec.failures, PermissionDenied |-> missing,
          Degraded |-> [status |-> degraded, sync |-> failed],
          Ready |-> [status |-> ready, active |-> shown, none |-> none]]
  BY DEF Conditions
<1> HIDE DEF degraded, ready, shown, none
<1>8. [status |-> degraded, sync |-> failed] \in [status : BOOLEAN, sync : SUBSET Refused]
  BY <1>2, <1>3
<1>9. [status |-> ready, active |-> shown, none |-> none]
        \in [status : BOOLEAN, active : Nat, none : BOOLEAN]
  BY <1>4, <1>5, <1>6
<1>. QED
  BY <1>1, <1>7, <1>8, <1>9 DEF ConditionSet

\* A status computed from a policy is a status.
LEMMA StatusType ==
    ASSUME NEW gen \in 1 .. MaxGeneration, NEW spec \in SpecForms,
           NEW missing \in SUBSET GVR,
           NEW failed \in SyncErrors({}) \cup SyncErrors(Refused)
    PROVE  StatusOf(gen, spec, missing, failed) \in Statuses
<1>1. Conditions(gen, spec, missing, failed) \in ConditionSet
  BY ConditionsType
<1>2. spec.active \in Nat /\ spec.failures \in Nat /\ gen \in 0 .. MaxGeneration
  BY BoundAssumption DEF SpecForms
<1>. QED
  BY <1>1, <1>2 DEF StatusOf, Statuses

\* A merge of two statuses, field by field, is a status.
LEMMA MergeType ==
    ASSUME NEW computed \in Statuses, NEW copy \in Statuses, NEW status \in Statuses
    PROVE  [f \in DOMAIN status |-> IF computed[f] # copy[f] THEN computed[f] ELSE status[f]]
              \in Statuses
BY DEF Statuses

\* A merge into the very copy that the patch was made from is all that was computed.
LEMMA MergeWhole ==
    ASSUME NEW computed \in Statuses, NEW copy \in Statuses
    PROVE  [f \in DOMAIN copy |-> IF computed[f] # copy[f] THEN computed[f] ELSE copy[f]]
              = computed
BY DEF Statuses

\* So is that of a policy that has none yet.
LEMMA NoStatusType == NoStatus \in Statuses
<1>1. NoStatus.conditions \in ConditionSet
  BY DEF NoStatus, ConditionSet
<1>. QED
  BY <1>1, BoundAssumption DEF NoStatus, Statuses

\* Only what the policy names counts as missing.
LEMMA MissingNamed == \A cs, spec : Missing(cs, spec) \subseteq spec.refs
BY DEF Missing

\* A version of the policy that is not absent, field by field.
LEMMA VersionParts ==
    ASSUME NEW version \in Versions, version # Absent
    PROVE  /\ version.gen \in 1 .. MaxGeneration
           /\ version.spec \in SpecForm /\ version.spec \in SpecForms
           /\ version.status \in Statuses
           /\ version = [gen |-> version.gen, spec |-> version.spec, status |-> version.status]
BY SpecFormAssumption DEF Versions

-----------------------------------------------------------------------------
(* The stream of the watch.                                                *)

\* A write is delivered after all others.
LEMMA WriteType ==
    ASSUME stream \in Seq(Versions), NEW version \in Versions, Write(version)
    PROVE  /\ api' \in Versions /\ stream' \in Seq(Versions) /\ Len(stream') <= MaxLag
           /\ api' = version /\ stream' # <<>>
           /\ \A cached : Latest(stream', cached) = version
<1>1. stream' \in Seq(Versions) /\ Len(stream') = Len(stream) + 1 /\ stream' # <<>>
  BY AppendProperties DEF Write
<1>2. stream'[Len(stream')] = version
  BY <1>1, AppendProperties DEF Write
<1>3. Len(stream') <= MaxLag
  BY <1>1, BoundAssumption DEF Write
<1>. QED
  BY <1>1, <1>2, <1>3 DEF Write, Latest

\* A delivery changes nothing of what the cache will hold in the end.
LEMMA DeliverType ==
    ASSUME stream \in Seq(Versions), Len(stream) <= MaxLag, Deliver
    PROVE  /\ seen' \in Versions /\ stream' \in Seq(Versions) /\ Len(stream') <= MaxLag
           /\ Latest(stream', seen') = Latest(stream, seen)
<1>1. stream # <<>> /\ seen' = Head(stream) /\ stream' = Tail(stream)
  BY DEF Deliver
<1>2. Len(stream) \in Nat /\ Len(stream) >= 1
  BY <1>1, EmptySeq, LenProperties
<1>3. seen' \in Versions /\ stream' \in Seq(Versions) /\ Len(stream') = Len(stream) - 1
  BY <1>1, HeadTailProperties
<1>4. ASSUME stream' = <<>>
      PROVE  Latest(stream', seen') = Latest(stream, seen)
  <2>1. Len(stream) = 1
    <3>1. Len(stream') = 0
      BY <1>4
    <3>. QED
      BY <1>2, <1>3, <3>1
  <2>. QED
    <3>1. Head(stream) = stream[Len(stream)]
      BY <2>1
    <3>2. Latest(stream, seen) = stream[Len(stream)] /\ Latest(stream', seen') = seen'
      BY <1>1, <1>4 DEF Latest
    <3>. QED
      BY <1>1, <3>1, <3>2
<1>5. ASSUME stream' # <<>>
      PROVE  Latest(stream', seen') = Latest(stream, seen)
  <2>1. Len(stream') >= 1 /\ Len(stream') \in Nat
    BY <1>3, <1>5, EmptySeq, LenProperties
  <2>2. stream'[Len(stream')] = stream[Len(stream)]
    <3>1. Len(stream') \in 1 .. Len(stream') /\ Len(stream') + 1 = Len(stream)
      BY <1>2, <1>3, <2>1
    <3>2. \A i \in 1 .. Len(stream') : stream'[i] = stream[i + 1]
      BY <1>1, HeadTailProperties
    <3>. QED
      BY <3>1, <3>2
  <2>. QED
    BY <1>1, <1>5, <2>2 DEF Latest
<1>6. Len(stream') <= MaxLag
  BY <1>2, <1>3, BoundAssumption
<1>. QED
  BY <1>3, <1>4, <1>5, <1>6

-----------------------------------------------------------------------------
(* The collectors.                                                         *)

CollectorTypes ==
    /\ adopted \in [Cluster -> Collectors!Wants]
    /\ entry \in [Cluster -> [GVR -> {Collectors!None, Collectors!Denial,
                                      Collectors!Served({}, {})}]]
    /\ life \in [Cluster -> {"unset", "live"}]

\* Wanting nothing is a want.
LEMMA NothingWanted == [g \in {} |-> {}] \in Collectors!Wants
BY DEF Collectors!Wants

\* The registry's wants are wants of a collector, with no field.
LEMMA WantedType ==
    ASSUME registry \in SpecForm \cup {Absent}, others \in OtherForm
    PROVE  Wanted \in Collectors!Wants /\ \A g \in DOMAIN Wanted : Wanted[g] = {}
<1> DEFINE D == others.wants \cup (IF registry = Absent THEN {} ELSE registry.wants)
<1>1. D \in SUBSET GVR
  BY SpecFormAssumption, OtherFormAssumption DEF SpecForms
<1>2. Wanted = [g \in D |-> {}]
  BY DEF Wanted
<1> HIDE DEF D
<1>3. Wanted \in [D -> SUBSET {}]
  BY <1>2
<1>. QED
  BY <1>1, <1>2, <1>3 DEF Collectors!Wants

\* A step of a collector keeps the types of the collectors.
LEMMA CollectType ==
    ASSUME TypeOK, NEW c \in Cluster, Collect(c)
    PROVE  CollectorTypes'
<1> DEFINE Es == {Collectors!None, Collectors!Denial, Collectors!Served({}, {})}
<1>1. adopted \in [Cluster -> Collectors!Wants] /\ entry \in [Cluster -> [GVR -> Es]]
         /\ life \in [Cluster -> {"unset", "live"}]
  BY DEF TypeOK
<1>2. Wanted \in Collectors!Wants /\ \A g \in DOMAIN Wanted : Wanted[g] = {}
  BY WantedType DEF TypeOK
<1>3. CASE Collectors!Start(c)
  BY <1>1, <1>3 DEF Collectors!Start, CollectorTypes
<1>4. CASE Collectors!Adopt(c)
  <2> DEFINE narrowed(g) == IF g \in DOMAIN Wanted /\ Collectors!Narrows(entry[c][g], Wanted[g])
                            THEN [entry[c][g] EXCEPT !.fields = Wanted[g]]
                            ELSE entry[c][g]
  <2>1. ASSUME NEW g \in GVR
        PROVE  narrowed(g) \in Es
    <3>1. entry[c][g] \in Es
      BY <1>1
    <3>2. CASE g \in DOMAIN Wanted /\ Collectors!Narrows(entry[c][g], Wanted[g])
      <4>1. entry[c][g] = Collectors!Served({}, {})
        BY <3>1, <3>2 DEF Collectors!Narrows, Collectors!None, Collectors!Denial
      <4>2. [entry[c][g] EXCEPT !.fields = Wanted[g]] = Collectors!Served({}, {})
        BY <1>2, <3>2, <4>1 DEF Collectors!Served
      <4>. QED
        BY <3>2, <4>2
    <3>3. CASE ~(g \in DOMAIN Wanted /\ Collectors!Narrows(entry[c][g], Wanted[g]))
      BY <3>1, <3>3
    <3>. QED
      BY <3>2, <3>3
  <2>2. entry' = [entry EXCEPT ![c] = [g \in GVR |-> narrowed(g)]]
    BY <1>4 DEF Collectors!Adopt
  <2>3. adopted' = [adopted EXCEPT ![c] = Wanted] /\ life' = life
    BY <1>4 DEF Collectors!Adopt
  <2> HIDE DEF Es, narrowed
  <2>4. [g \in GVR |-> narrowed(g)] \in [GVR -> Es]
    BY <2>1
  <2>5. entry' \in [Cluster -> [GVR -> Es]]
    BY <1>1, <2>2, <2>4
  <2>6. adopted' \in [Cluster -> Collectors!Wants]
    BY <1>1, <1>2, <2>3
  <2>. QED
    BY <1>1, <2>3, <2>5, <2>6 DEF CollectorTypes, Es
<1>5. CASE Collectors!Retire(c)
  <2>1. [g \in GVR |-> IF g \in DOMAIN adopted[c] THEN entry[c][g] ELSE Collectors!None]
          \in [GVR -> Es]
    BY <1>1
  <2>2. entry' = [entry EXCEPT ![c] =
           [g \in GVR |-> IF g \in DOMAIN adopted[c] THEN entry[c][g] ELSE Collectors!None]]
    BY <1>5 DEF Collectors!Retire
  <2>3. adopted' = adopted /\ life' = life
    BY <1>5 DEF Collectors!Retire
  <2>. QED
    BY <1>1, <2>1, <2>2, <2>3 DEF CollectorTypes
<1>6. ASSUME NEW g \in GVR, Collectors!Deny(c, g)
      PROVE  CollectorTypes'
  BY <1>1, <1>6 DEF Collectors!Deny, CollectorTypes
<1>7. ASSUME NEW g \in GVR, Collectors!Forget(c, g)
      PROVE  CollectorTypes'
  BY <1>1, <1>7 DEF Collectors!Forget, CollectorTypes
<1>. QED
  BY <1>3, <1>4, <1>5, <1>6, <1>7 DEF Collect

-----------------------------------------------------------------------------
(* Every action keeps the invariant.                                       *)

\* A new version at the API server, whoever writes it.
LEMMA WriteKeeps ==
    ASSUME IInv, NEW version \in Versions, Write(version),
           UNCHANGED <<seen, keyVars, jobVars, regVars, collVars>>
    PROVE  IInv'
<1> USE DEF IInv, keyVars, jobVars, regVars, collVars
<1>1. /\ api' \in Versions /\ stream' \in Seq(Versions) /\ Len(stream') <= MaxLag
      /\ api' = version /\ stream' # <<>> /\ Latest(stream', seen) = version
  BY WriteType DEF TypeOK
<1>2. TypeOK'
  BY <1>1 DEF TypeOK
<1>3. CatchesUp'
  BY <1>1 DEF CatchesUp
<1>4. JobInv' /\ CopyIsSeen' /\ RegisteredIsSeen'
  BY DEF JobInv, CopyIsSeen, RegisteredIsSeen
<1>5. RestsCoherent'
  BY <1>1 DEF RestsCoherent, Settled
<1>. QED
  BY <1>2, <1>3, <1>4, <1>5

LEMMA UserKeeps == IInv /\ User => IInv'
<1> SUFFICES ASSUME IInv, User PROVE IInv'
  OBVIOUS
<1>1. ASSUME NEW spec \in SpecForm, Create(spec)
      PROVE  IInv'
  <2>1. [gen |-> 1, spec |-> spec, status |-> NoStatus] \in Versions
    BY NoStatusType, BoundAssumption DEF Versions
  <2>. QED
    BY <1>1, <2>1, WriteKeeps DEF Create
<1>2. ASSUME NEW spec \in SpecForm, Edit(spec)
      PROVE  IInv'
  <2>1. api # Absent /\ api \in Versions /\ api.gen < MaxGeneration
    BY <1>2 DEF Edit, IInv, TypeOK
  <2>2. api \in [gen : 1 .. MaxGeneration, spec : SpecForm, status : Statuses]
    BY <2>1 DEF Versions
  <2>3. api.gen + 1 \in 1 .. MaxGeneration
    BY <2>1, <2>2, BoundAssumption
  <2>4. [api EXCEPT !.gen = @ + 1, !.spec = spec]
           \in [gen : 1 .. MaxGeneration, spec : SpecForm, status : Statuses]
    BY <2>2, <2>3
  <2>5. [api EXCEPT !.gen = @ + 1, !.spec = spec] \in Versions
    BY <2>4 DEF Versions
  <2>. QED
    BY <1>2, <2>5, WriteKeeps DEF Edit
<1>3. ASSUME Delete
      PROVE  IInv'
  <2>1. Absent \in Versions
    BY DEF Versions
  <2>. QED
    BY <1>3, <2>1, WriteKeeps DEF Delete
<1>. QED
  BY <1>1, <1>2, <1>3 DEF User

LEMMA DeliverKeeps == IInv /\ Deliver => IInv'
<1> SUFFICES ASSUME IInv, Deliver PROVE IInv'
  OBVIOUS
<1> USE DEF IInv
<1>1. /\ seen' \in Versions /\ stream' \in Seq(Versions) /\ Len(stream') <= MaxLag
      /\ Latest(stream', seen') = Latest(stream, seen)
  BY DeliverType DEF TypeOK
<1>2. queued' = TRUE
  BY DEF Deliver
<1>3. TypeOK'
  BY <1>1, <1>2 DEF Deliver, TypeOK, jobVars, regVars, collVars
<1>4. CatchesUp'
  BY <1>1 DEF CatchesUp, Deliver
<1>5. JobInv'
  BY DEF JobInv, Deliver, jobVars
<1>6. CopyIsSeen' /\ RegisteredIsSeen' /\ RestsCoherent'
  BY <1>2 DEF CopyIsSeen, RegisteredIsSeen, RestsCoherent, Settled
<1>. QED
  BY <1>3, <1>4, <1>5, <1>6

LEMMA RequeueKeeps == IInv /\ Requeue => IInv'
<1> SUFFICES ASSUME IInv, Requeue PROVE IInv'
  OBVIOUS
<1> USE DEF IInv, apiVars, jobVars, regVars, collVars
<1>1. queued' = TRUE
  BY DEF Requeue
<1>2. TypeOK'
  BY <1>1 DEF Requeue, TypeOK
<1>3. CatchesUp' /\ JobInv'
  BY DEF CatchesUp, JobInv, Requeue
<1>4. CopyIsSeen' /\ RegisteredIsSeen' /\ RestsCoherent'
  BY <1>1 DEF CopyIsSeen, RegisteredIsSeen, RestsCoherent, Settled
<1>. QED
  BY <1>2, <1>3, <1>4

\* When the watch has caught up with an empty cache, there is no policy.
LEMMA EvictKeeps == IInv /\ Evict => IInv'
<1> SUFFICES ASSUME IInv, Evict PROVE IInv'
  OBVIOUS
<1> USE DEF IInv, apiVars, jobVars, collVars
<1>1. TypeOK'
  BY DEF Evict, TypeOK
<1>2. CatchesUp' /\ JobInv'
  BY DEF CatchesUp, JobInv, Evict
<1>3. CopyIsSeen' /\ RegisteredIsSeen'
  BY DEF CopyIsSeen, RegisteredIsSeen, SpecIn, Evict
<1>4. RestsCoherent'
  BY DEF RestsCoherent, Settled, CatchesUp, Latest, Evict
<1>. QED
  BY <1>1, <1>2, <1>3, <1>4

LEMMA RegisterKeeps == IInv /\ Register => IInv'
<1> SUFFICES ASSUME IInv, Register PROVE IInv'
  OBVIOUS
<1> USE DEF IInv, apiVars, collVars
<1>1. seen # Absent /\ seen \in Versions /\ seen.spec \in SpecForm /\ seen.spec \in SpecForms
  BY VersionParts DEF Register, TypeOK
<1>2. syncErr' \in SyncErrors({}) \cup SyncErrors(Refused)
  <2>1. seen.spec.refused \cup others.refused \in SUBSET Refused
    BY <1>1, OtherFormAssumption DEF SpecForms, TypeOK
  <2>. QED
    BY <2>1, SyncErrorsType DEF Register
<1>3. toRead' \subseteq Cluster
  BY DEF Register, InMap
<1>4. queued' = FALSE
  BY DEF Register
<1>5. TypeOK'
  BY <1>1, <1>2, <1>3, <1>4 DEF Register, TypeOK
<1>6. CatchesUp'
  BY DEF CatchesUp, Register
<1>7. JobInv' /\ CopyIsSeen'
  BY <1>1 DEF JobInv, CopyIsSeen, Register
<1>8. RegisteredIsSeen'
  BY <1>1 DEF RegisteredIsSeen, SpecIn, Register
<1>9. RestsCoherent'
  BY DEF RestsCoherent, Settled, Register
<1>. QED
  BY <1>5, <1>6, <1>7, <1>8, <1>9

LEMMA ReadStatusKeeps ==
    ASSUME IInv, NEW c \in Cluster, ReadStatus(c)
    PROVE  IInv'
<1> USE DEF IInv, apiVars, keyVars, regVars, collVars
<1>1. pc = "read" /\ obj # Absent /\ denied \subseteq obj.spec.refs
  BY DEF ReadStatus, JobInv
<1>2. obj.spec.refs \subseteq GVR
  BY <1>1, VersionParts DEF TypeOK, SpecForms
<1>3. Missing({c}, obj.spec) \subseteq obj.spec.refs
  BY MissingNamed
<1>4. denied' \subseteq obj.spec.refs
  BY <1>1, <1>3 DEF ReadStatus
<1>5. TypeOK'
  BY <1>2, <1>4 DEF ReadStatus, TypeOK
<1>6. CatchesUp' /\ CopyIsSeen' /\ RegisteredIsSeen'
  BY DEF CatchesUp, CopyIsSeen, RegisteredIsSeen, ReadStatus
<1>7. JobInv'
  BY <1>1, <1>4 DEF JobInv, ReadStatus
<1>8. RestsCoherent'
  BY DEF RestsCoherent, Settled, ReadStatus
<1>. QED
  BY <1>5, <1>6, <1>7, <1>8

\* What Reconcile is about to write, once it has read every status.
LEMMA DesiredType ==
    ASSUME IInv, pc = "read"
    PROVE  /\ obj \in Versions /\ obj # Absent
           /\ obj.status \in Statuses
           /\ desired \in Statuses
           /\ denied \in SUBSET obj.spec.refs
           /\ syncErr \in SyncErrors({}) \cup SyncErrors(Refused)
           /\ desired = StatusOf(obj.gen, obj.spec, denied, syncErr)
<1>1. obj \in Versions /\ obj # Absent /\ denied \in SUBSET obj.spec.refs
  BY DEF IInv, TypeOK, JobInv
<1>2. /\ obj.gen \in 1 .. MaxGeneration /\ obj.spec \in SpecForms
      /\ obj.status \in Statuses
  BY <1>1, VersionParts
<1>3. denied \in SUBSET GVR /\ syncErr \in SyncErrors({}) \cup SyncErrors(Refused)
  BY DEF IInv, TypeOK
<1>4. StatusOf(obj.gen, obj.spec, denied, syncErr) \in Statuses
  BY <1>2, <1>3, StatusType
<1>. QED
  BY <1>1, <1>2, <1>3, <1>4 DEF desired

\* A Reconcile is over. The registry and the cache stay as they are, so that all
\* that is left to show is what has become of the API server.
LEMMA JobDoneKeeps ==
    ASSUME IInv, JobDone, UNCHANGED <<seen, queued, regVars, collVars>>,
           waiting' \in {"interval", "backoff"},
           api' \in Versions, stream' \in Seq(Versions), Len(stream') <= MaxLag,
           CatchesUp'
    PROVE  TypeOK' /\ CatchesUp' /\ JobInv' /\ CopyIsSeen' /\ RegisteredIsSeen'
<1> USE DEF IInv, JobDone, regVars, collVars
<1>1. obj' \in Versions
  BY DEF Versions
<1>2. syncErr' \in SyncErrors({}) \cup SyncErrors(Refused)
  BY DEF SyncErrors
<1>3. TypeOK'
  BY <1>1, <1>2 DEF TypeOK
<1>4. JobInv' /\ CopyIsSeen'
  BY DEF JobInv, CopyIsSeen
<1>5. RegisteredIsSeen'
  BY DEF RegisteredIsSeen
<1>. QED
  BY <1>3, <1>4, <1>5

\* The copy of a Reconcile that ends with nothing under way is the policy itself.
LEMMA CopyIsCurrent ==
    ASSUME IInv, pc = "read", stream = <<>>, ~queued
    PROVE  api = obj
BY DEF IInv, CatchesUp, Latest, CopyIsSeen

LEMMA UpToDateKeeps == IInv /\ UpToDate => IInv'
<1> SUFFICES ASSUME IInv, UpToDate PROVE IInv'
  OBVIOUS
<1>1. pc = "read" /\ desired = obj.status
  BY DEF UpToDate, AllRead
<1>2. api' = api /\ stream' = stream /\ queued' = queued
  BY DEF UpToDate, apiVars
<1>3. TypeOK' /\ CatchesUp' /\ JobInv' /\ CopyIsSeen' /\ RegisteredIsSeen'
  <2>1. CatchesUp'
    BY DEF UpToDate, IInv, CatchesUp, apiVars
  <2>2. /\ JobDone /\ UNCHANGED <<seen, queued, regVars, collVars>>
        /\ waiting' \in {"interval", "backoff"}
    BY DEF UpToDate
  <2>3. api' \in Versions /\ stream' \in Seq(Versions) /\ Len(stream') <= MaxLag
    BY <1>2 DEF IInv, TypeOK
  <2>. QED
    BY <2>1, <2>2, <2>3, JobDoneKeeps
<1>4. RestsCoherent'
  <2>1. SUFFICES ASSUME stream = <<>>, ~queued
                 PROVE  RestsCoherent'
    BY <1>2 DEF RestsCoherent, Settled
  <2>2. api = obj
    BY <1>1, <2>1, CopyIsCurrent
  <2>3. /\ denied \in SUBSET api.spec.refs
        /\ syncErr \in SyncErrors({}) \cup SyncErrors(Refused)
        /\ api.status = StatusOf(api.gen, api.spec, denied, syncErr)
    BY <1>1, <2>2, DesiredType
  <2>. QED
    BY <1>2, <2>3 DEF RestsCoherent
<1>. QED
  BY <1>3, <1>4 DEF IInv

LEMMA PatchKeeps == IInv /\ Patch => IInv'
<1> SUFFICES ASSUME IInv, Patch PROVE IInv'
  OBVIOUS
<1>1. pc = "read" /\ desired # obj.status /\ api # Absent /\ api \in Versions
  BY DEF Patch, Patching, AllRead, IInv, TypeOK
<1>2. /\ api.status \in Statuses /\ obj.status \in Statuses /\ desired \in Statuses
  BY <1>1, VersionParts, DesiredType
<1>3. Merged(api.status) \in Statuses
  BY <1>2, MergeType DEF Merged
<1>4. [api EXCEPT !.status = Merged(@)] \in Versions
  <2>1. api \in [gen : 1 .. MaxGeneration, spec : SpecForm, status : Statuses]
    BY <1>1 DEF Versions
  <2>2. [api EXCEPT !.status = Merged(@)]
          \in [gen : 1 .. MaxGeneration, spec : SpecForm, status : Statuses]
    BY <1>3, <2>1
  <2>. QED
    BY <2>2 DEF Versions
<1>5. /\ JobDone /\ UNCHANGED <<seen, queued, regVars, collVars>>
      /\ waiting' \in {"interval", "backoff"}
  BY DEF Patch
<1>6. CASE Merged(api.status) = api.status
  <2>1. api' = api /\ stream' = stream /\ queued' = queued
    BY <1>6 DEF Patch, apiVars
  <2>2. TypeOK' /\ CatchesUp' /\ JobInv' /\ CopyIsSeen' /\ RegisteredIsSeen'
    <3>1. CatchesUp'
      BY <1>5, <2>1 DEF IInv, CatchesUp
    <3>2. api' \in Versions /\ stream' \in Seq(Versions) /\ Len(stream') <= MaxLag
      BY <2>1 DEF IInv, TypeOK
    <3>. QED
      BY <1>5, <3>1, <3>2, JobDoneKeeps
  <2>3. ~(stream = <<>> /\ ~queued)
    <3>1. SUFFICES ASSUME stream = <<>>, ~queued
                   PROVE  FALSE
      OBVIOUS
    <3>2. api = obj
      BY <1>1, <3>1, CopyIsCurrent
    <3>3. Merged(obj.status) = desired
      BY <1>2, MergeWhole DEF Merged
    <3>. QED
      BY <1>1, <1>6, <3>2, <3>3
  <2>4. RestsCoherent'
    BY <2>1, <2>3 DEF RestsCoherent, Settled
  <2>. QED
    BY <2>2, <2>4 DEF IInv
<1>7. CASE Merged(api.status) # api.status
  <2>1. Write([api EXCEPT !.status = Merged(@)])
    BY <1>7 DEF Patch
  <2>2. /\ api' \in Versions /\ stream' \in Seq(Versions) /\ Len(stream') <= MaxLag
        /\ stream' # <<>> /\ \A cached : Latest(stream', cached) = api'
    BY <1>4, <2>1, WriteType DEF IInv, TypeOK
  <2>3. CatchesUp'
    BY <2>2 DEF CatchesUp
  <2>4. TypeOK' /\ CatchesUp' /\ JobInv' /\ CopyIsSeen' /\ RegisteredIsSeen'
    BY <1>5, <2>2, <2>3, JobDoneKeeps
  <2>5. RestsCoherent'
    BY <2>2 DEF RestsCoherent, Settled
  <2>. QED
    BY <2>4, <2>5 DEF IInv
<1>. QED
  BY <1>6, <1>7

LEMMA PatchFailsKeeps == IInv /\ PatchFails => IInv'
<1> SUFFICES ASSUME IInv, PatchFails PROVE IInv'
  OBVIOUS
<1>1. /\ api' = api /\ stream' = stream
      /\ JobDone /\ UNCHANGED <<seen, queued, regVars, collVars>>
      /\ waiting' = "backoff"
  BY DEF PatchFails, apiVars
<1>2. TypeOK' /\ CatchesUp' /\ JobInv' /\ CopyIsSeen' /\ RegisteredIsSeen'
  <2>1. CatchesUp'
    BY <1>1 DEF IInv, CatchesUp
  <2>2. api' \in Versions /\ stream' \in Seq(Versions) /\ Len(stream') <= MaxLag
    BY <1>1 DEF IInv, TypeOK
  <2>. QED
    BY <1>1, <2>1, <2>2, JobDoneKeeps
<1>3. RestsCoherent'
  BY <1>1 DEF RestsCoherent, Settled
<1>. QED
  BY <1>2, <1>3 DEF IInv

LEMMA ReconcileOtherKeeps == IInv /\ ReconcileOther => IInv'
<1> SUFFICES ASSUME IInv, ReconcileOther PROVE IInv'
  OBVIOUS
<1> USE DEF IInv, ReconcileOther, apiVars, keyVars, jobVars, collVars
<1>1. TypeOK'
  BY DEF TypeOK
<1>2. CatchesUp' /\ JobInv' /\ CopyIsSeen' /\ RegisteredIsSeen'
  BY DEF CatchesUp, JobInv, CopyIsSeen, RegisteredIsSeen
<1>3. RestsCoherent'
  BY DEF RestsCoherent, Settled
<1>. QED
  BY <1>1, <1>2, <1>3

LEMMA CollectKeeps ==
    ASSUME IInv, NEW c \in Cluster, Collect(c)
    PROVE  IInv'
<1>1. UNCHANGED <<apiVars, seen, keyVars, jobVars, regVars>>
  BY DEF Collect
<1>2. CollectorTypes'
  BY CollectType DEF IInv
<1> USE DEF IInv, apiVars, keyVars, jobVars, regVars
<1>3. TypeOK'
  BY <1>1, <1>2 DEF TypeOK, CollectorTypes
<1>4. CatchesUp' /\ JobInv' /\ CopyIsSeen' /\ RegisteredIsSeen'
  BY <1>1 DEF CatchesUp, JobInv, CopyIsSeen, RegisteredIsSeen
<1>5. RestsCoherent'
  BY <1>1 DEF RestsCoherent, Settled
<1>. QED
  BY <1>3, <1>4, <1>5

\* What a new process starts from, and the very first one.
LEMMA Fresh ==
    /\ Absent \in Versions
    /\ {} \in SyncErrors({}) \cup SyncErrors(Refused)
    /\ NoOthers \in OtherForm
    /\ [c \in Cluster |-> [g \in {} |-> {}]] \in [Cluster -> Collectors!Wants]
    /\ [c \in Cluster |-> [g \in GVR |-> Collectors!None]]
          \in [Cluster -> [GVR -> {Collectors!None, Collectors!Denial,
                                  Collectors!Served({}, {})}]]
<1>1. Absent \in Versions
  BY DEF Versions
<1>2. {} \in SyncErrors({}) \cup SyncErrors(Refused)
  BY DEF SyncErrors
<1>3. NoOthers \in OtherForm
  BY OtherFormAssumption
<1>4. [c \in Cluster |-> [g \in {} |-> {}]] \in [Cluster -> Collectors!Wants]
  BY NothingWanted
<1>. QED
  BY <1>1, <1>2, <1>3, <1>4

LEMMA RestartKeeps == IInv /\ Restart => IInv'
<1> SUFFICES ASSUME IInv, Restart PROVE IInv'
  OBVIOUS
<1>1. api' = api /\ api \in Versions /\ stream' = (IF api = Absent THEN <<>> ELSE <<api>>)
  BY DEF Restart, IInv, TypeOK
<1>2. stream' \in Seq(Versions) /\ Len(stream') <= MaxLag
  BY <1>1, BoundAssumption
<1>3. Latest(stream', Absent) = api
  BY <1>1 DEF Latest
<1>4. TypeOK'
  BY <1>1, <1>2, Fresh DEF Restart, TypeOK
<1>5. CatchesUp'
  BY <1>1, <1>3 DEF CatchesUp, Restart
<1>6. JobInv' /\ CopyIsSeen'
  BY DEF JobInv, CopyIsSeen, Restart
<1>7. RegisteredIsSeen'
  BY DEF RegisteredIsSeen, SpecIn, Restart
<1>8. RestsCoherent'
  BY <1>1 DEF RestsCoherent, Settled
<1>. QED
  BY <1>4, <1>5, <1>6, <1>7, <1>8 DEF IInv

LEMMA InvInit == Init => IInv
<1> SUFFICES ASSUME Init PROVE IInv
  OBVIOUS
<1>1. TypeOK
  <2>1. stream \in Seq(Versions) /\ Len(stream) <= MaxLag
    BY BoundAssumption DEF Init
  <2>2. adopted \in [Cluster -> Collectors!Wants]
    BY Fresh DEF Init
  <2>3. entry \in [Cluster -> [GVR -> {Collectors!None, Collectors!Denial,
                                      Collectors!Served({}, {})}]]
    BY Fresh DEF Init
  <2>4. life \in [Cluster -> {"unset", "live"}]
    BY DEF Init
  <2>5. queued \in BOOLEAN
    BY DEF Init
  <2>6. others \in OtherForm /\ syncErr \in SyncErrors({}) \cup SyncErrors(Refused)
    BY Fresh DEF Init
  <2>7. api \in Versions /\ seen \in Versions /\ obj \in Versions
    BY Fresh DEF Init
  <2>8. /\ waiting \in {"no", "interval", "backoff"} /\ pc \in {"idle", "read"}
        /\ toRead \subseteq Cluster /\ denied \subseteq GVR
        /\ registry \in SpecForm \cup {Absent}
    BY DEF Init
  <2>. QED
    BY <2>1, <2>2, <2>3, <2>4, <2>5, <2>6, <2>7, <2>8 DEF TypeOK
<1>2. CatchesUp /\ JobInv /\ CopyIsSeen
  BY DEF Init, CatchesUp, Latest, JobInv, CopyIsSeen
<1>3. RegisteredIsSeen /\ RestsCoherent
  BY DEF Init, RegisteredIsSeen, SpecIn, RestsCoherent
<1>. QED
  BY <1>1, <1>2, <1>3 DEF IInv

LEMMA InvNext == IInv /\ [Next]_vars => IInv'
<1> SUFFICES ASSUME IInv, [Next]_vars PROVE IInv'
  OBVIOUS
<1>1. CASE User
  BY <1>1, UserKeeps
<1>2. CASE Deliver \/ Requeue
  BY <1>2, DeliverKeeps, RequeueKeeps
<1>3. CASE Worker
  BY <1>3, EvictKeeps, RegisterKeeps, UpToDateKeeps, ReadStatusKeeps DEF Worker
<1>4. CASE Patch \/ PatchFails
  BY <1>4, PatchKeeps, PatchFailsKeeps
<1>5. CASE ReconcileOther
  BY <1>5, ReconcileOtherKeeps
<1>6. CASE \E c \in Cluster : Collect(c)
  BY <1>6, CollectKeeps
<1>7. CASE Restart
  BY <1>7, RestartKeeps
<1>8. CASE UNCHANGED vars
  BY <1>8 DEF vars, IInv, TypeOK, CatchesUp, JobInv, CopyIsSeen, RegisteredIsSeen,
              RestsCoherent, Settled
<1>. QED
  BY <1>1, <1>2, <1>3, <1>4, <1>5, <1>6, <1>7, <1>8 DEF Next

\* Every reachable state satisfies the inductive invariant.
THEOREM Invariance == Spec => []IInv
<1>. QED
  BY InvInit, InvNext, PTL DEF Spec

-----------------------------------------------------------------------------
(* What the invariant says of a policy.                                    *)

\* Type correctness: a status is one that some Reconcile could have written, even
\* where the fields of two patches have been mixed.
THEOREM TypeCorrect == Spec => []TypeOK
<1>1. IInv => TypeOK
  BY DEF IInv
<1>. QED
  BY <1>1, Invariance, PTL

\* A status at rest is whole: it is what one Reconcile computes for the policy as
\* the API server has it (custom_resource_metrics_controller.go:147-212).
THEOREM CoherentAtRest == Spec => []RestsCoherent
<1>1. IInv => RestsCoherent
  BY DEF IInv
<1>. QED
  BY <1>1, Invariance, PTL

\* At rest the registry holds the policy as the API server does, or nothing if it
\* is gone (custom_resource_metrics_controller.go:80-131).
THEOREM RegisteredAtRest == Spec => []RestsRegistered
<1>1. IInv => RestsRegistered
  BY DEF IInv, RestsRegistered, Settled, CatchesUp, Latest, RegisteredIsSeen, SpecIn
<1>. QED
  BY <1>1, Invariance, PTL
=============================================================================
