------------------------------ MODULE PolicyStatus ------------------------------
(***************************************************************************)
(* internal/controller: Reconcile of one policy from the watch event to    *)
(* the status patch, between the API server, whose watch lags behind it,   *)
(* the collectors (Collection), whose denials the status tells of, and     *)
(* crashes of the process, which keep only what the API server holds.      *)
(*                                                                         *)
(* Abstractions:                                                           *)
(*  - a spec is what Reconcile makes of it: the GVRs it names, those its   *)
(*    compiled generators want, the counts, and the families whose names   *)
(*    the SDK refuses;                                                     *)
(*  - the other policies are what they want of the collectors and their    *)
(*    refused families: Sync's error is about all policies;                *)
(*  - a condition is its status and what its message depends on; the times *)
(*    of transitions are left out;                                         *)
(*  - a collector that has been stopped is one that takes no more steps,   *)
(*    and wakes are left out: collectors may act at any time.              *)
(*                                                                         *)
(* External: client-go's watch and cache, the work queue, the API server.  *)
(***************************************************************************)
EXTENDS Naturals, Sequences

CONSTANTS
    Cluster,         \* the control planes
    GVR,             \* resources
    Refused,         \* names of families that the SDK refuses
    SpecForm,        \* what a policy's spec may come to
    OtherForm,       \* what the other policies may come to
    Absent,          \* no such policy
    MaxGeneration,   \* bound on the edits of one policy
    MaxLag           \* bound on the watch events that are under way

SpecForms == [refs : SUBSET GVR, wants : SUBSET GVR, active : Nat,
              failures : Nat, refused : SUBSET Refused]

ASSUME SpecFormAssumption ==
    /\ SpecForm \subseteq {s \in SpecForms : s.wants \subseteq s.refs}
    /\ Absent \notin SpecForm
NoOthers == [wants |-> {}, refused |-> {}]

ASSUME OtherFormAssumption ==
    /\ NoOthers \in OtherForm
    /\ OtherForm \subseteq [wants : SUBSET GVR, refused : SUBSET Refused]
ASSUME BoundAssumption == MaxGeneration \in Nat \ {0} /\ MaxLag \in Nat \ {0}

VARIABLES
    api,       \* the policy at the API server: Absent or [gen, spec, status]
    stream,    \* its versions that the watch has yet to deliver, oldest first
    seen,      \* its version in the informer's cache, which Get reads
    queued,    \* its key is in the work queue
    waiting,   \* its key comes back later: "no", after the requeue "interval" or,
               \* since the last Reconcile failed, after a "backoff"
    pc,        \* the worker: "idle", or to "read" the statuses and patch
    obj,       \* Reconcile's copy of the policy
    toRead,    \* collectors whose status Reconcile has yet to read
    denied,    \* GVRs of the policy found denied so far
    syncErr,   \* the family that the error of Sync names, if it returned one
    registry,  \* what the registry holds of the policy: Absent or a spec
    others,    \* what it holds of the other policies
    adopted, entry, life   \* the collectors, as in Collection

apiVars  == <<api, stream>>
keyVars  == <<queued, waiting>>
jobVars  == <<pc, obj, toRead, denied, syncErr>>
regVars  == <<registry, others>>
collVars == <<adopted, entry, life>>
vars == <<api, stream, seen, queued, waiting, pc, obj, toRead, denied,
          syncErr, registry, others, adopted, entry, life>>

\* What desiredGVRs makes of the registry. Fields are left out.
Wanted == [g \in others.wants \cup (IF registry = Absent THEN {} ELSE registry.wants) |-> {}]

Collectors == INSTANCE Collection WITH Field <- {}, wants <- Wanted

-----------------------------------------------------------------------------
(* Status.                                                                 *)

\* A new policy has no status: no counts, no conditions.
NoStatus == [observed |-> 0, active |-> 0, failures |-> 0, missing |-> {},
             conditions |-> [generation |-> 0]]

\* Sync returns the first of its errors, in the order in which it ranges over a
\* map: one of the refused families, or none.
SyncErrors(refused) == IF refused = {} THEN {{}} ELSE {{n} : n \in refused}

\* The four conditions. Their reasons and messages follow from the same facts.
Conditions(gen, spec, missing, failed) ==
    LET degraded == spec.failures > 0 \/ missing # {} \/ failed # {}
        ready    == ~degraded /\ spec.active > 0
    IN  [generation       |-> gen,
         InvalidCEL       |-> spec.failures,
         PermissionDenied |-> missing,
         Degraded         |-> [status |-> degraded, sync |-> failed],
         Ready            |-> [status |-> ready,
                               active |-> IF ready THEN spec.active ELSE 0,
                               none   |-> spec.active = 0]]

StatusOf(gen, spec, missing, failed) ==
    [observed   |-> gen,
     active     |-> spec.active,
     failures   |-> spec.failures,
     missing    |-> missing,
     conditions |-> Conditions(gen, spec, missing, failed)]

\* Engage puts a collector in the manager's map when it has started it.
InMap == {c \in Cluster : life[c] # "unset"}

DeniedAt(c) == {g \in GVR : entry[c][g].state = "denied"}

\* aggregateMissingPermissions, with the statuses read one after another.
Missing(cs, spec) == (UNION {DeniedAt(c) : c \in cs}) \cap spec.refs

desired == StatusOf(obj.gen, obj.spec, denied, syncErr)

\* Seeded fault: the fields of the patch are taken for the whole status.
MergedReplaces(status) ==
    [f \in {h \in DOMAIN status : desired[h] # obj.status[h]} |-> desired[f]]

\* A merge patch holds the fields in which desired differs from the copy that
\* Reconcile has read; the others stay as they are at the API server.
Merged(status) ==
    [f \in DOMAIN status |->
        IF desired[f] # obj.status[f] THEN desired[f] ELSE status[f]]

-----------------------------------------------------------------------------
Init ==
    /\ api = Absent /\ stream = <<>> /\ seen = Absent
    /\ queued = FALSE /\ waiting = "no"
    /\ pc = "idle" /\ obj = Absent /\ toRead = {} /\ denied = {} /\ syncErr = {}
    /\ registry = Absent
    /\ others = NoOthers
    /\ adopted = [c \in Cluster |-> [g \in {} |-> {}]]
    /\ entry = [c \in Cluster |-> [g \in GVR |-> Collectors!None]]
    /\ life = [c \in Cluster |-> "unset"]

-----------------------------------------------------------------------------
(* The API server and its users. A new version is watched as any other.    *)

Write(version) ==
    /\ Len(stream) < MaxLag
    /\ api' = version
    /\ stream' = Append(stream, version)

Create(spec) ==
    /\ api = Absent
    /\ Write([gen |-> 1, spec |-> spec, status |-> NoStatus])
    /\ UNCHANGED <<seen, keyVars, jobVars, regVars, collVars>>

Edit(spec) ==
    /\ api # Absent
    /\ spec # api.spec
    /\ api.gen < MaxGeneration
    /\ Write([api EXCEPT !.gen = @ + 1, !.spec = spec])
    /\ UNCHANGED <<seen, keyVars, jobVars, regVars, collVars>>

Delete ==
    /\ api # Absent
    /\ Write(Absent)
    /\ UNCHANGED <<seen, keyVars, jobVars, regVars, collVars>>

-----------------------------------------------------------------------------
(* The watch and the work queue.                                           *)

\* Seeded fault: events that leave the generation alone are filtered out.
DeliverNewGenerations ==
    /\ stream # <<>>
    /\ seen' = Head(stream)
    /\ stream' = Tail(stream)
    /\ queued' = \/ queued
                 \/ seen = Absent \/ seen' = Absent
                 \/ seen.gen # seen'.gen
    /\ UNCHANGED <<api, waiting, jobVars, regVars, collVars>>

\* Every event enqueues the policy, those of the controller's own patches too.
Deliver ==
    /\ stream # <<>>
    /\ seen' = Head(stream)
    /\ stream' = Tail(stream)
    /\ queued' = TRUE
    /\ UNCHANGED <<api, waiting, jobVars, regVars, collVars>>

Requeue ==
    /\ waiting # "no"
    /\ waiting' = "no"
    /\ queued' = TRUE
    /\ UNCHANGED <<apiVars, seen, jobVars, regVars, collVars>>

-----------------------------------------------------------------------------
(* Reconcile. There is one worker.                                         *)

\* Seeded fault: the registry keeps a policy that is gone.
EvictForgotten ==
    /\ pc = "idle" /\ queued
    /\ seen = Absent
    /\ queued' = FALSE
    /\ UNCHANGED <<apiVars, seen, waiting, jobVars, regVars, collVars>>

\* Get finds nothing: the policy is evicted and its key is not requeued.
Evict ==
    /\ pc = "idle" /\ queued
    /\ seen = Absent
    /\ queued' = FALSE
    /\ registry' = Absent
    /\ UNCHANGED <<apiVars, seen, waiting, jobVars, others, collVars>>

\* Get, Compile, Upsert and Sync, and the list of the collectors in the map. A
\* key that was still waiting is as good as one that waits when this is over.
Register ==
    /\ pc = "idle" /\ queued
    /\ seen # Absent
    /\ queued' = FALSE /\ waiting' = "no"
    /\ obj' = seen
    /\ registry' = seen.spec
    /\ syncErr' \in SyncErrors(seen.spec.refused \cup others.refused)
    /\ toRead' = InMap
    /\ denied' = {}
    /\ pc' = "read"
    /\ UNCHANGED <<apiVars, seen, others, collVars>>

\* Status of one collector, while the others move on.
ReadStatus(c) ==
    /\ pc = "read"
    /\ c \in toRead
    /\ denied' = denied \cup Missing({c}, obj.spec)
    /\ toRead' = toRead \ {c}
    /\ UNCHANGED <<apiVars, seen, keyVars, pc, obj, syncErr, regVars, collVars>>

JobDone ==
    /\ pc' = "idle"
    /\ obj' = Absent /\ denied' = {} /\ syncErr' = {}
    /\ UNCHANGED toRead

AllRead == pc = "read" /\ toRead = {}

\* Seeded fault: only a Reconcile that patched is requeued.
UpToDateForGood ==
    /\ AllRead
    /\ desired = obj.status
    /\ JobDone
    /\ UNCHANGED <<apiVars, seen, keyVars, regVars, collVars>>

\* Nothing to write: the key comes back later all the same.
UpToDate ==
    /\ AllRead
    /\ desired = obj.status
    /\ waiting' = "interval"
    /\ JobDone
    /\ UNCHANGED <<apiVars, seen, queued, regVars, collVars>>

Patching == AllRead /\ desired # obj.status

\* The patch reaches the policy that has the name by now, whatever its version.
\* One that changes nothing there makes no new version.
Patch ==
    /\ Patching
    /\ api # Absent
    /\ IF Merged(api.status) = api.status
       THEN UNCHANGED apiVars
       ELSE Write([api EXCEPT !.status = Merged(@)])
    /\ waiting' = "interval"
    /\ JobDone
    /\ UNCHANGED <<seen, queued, regVars, collVars>>

\* Seeded fault: a failed patch is logged, and the key dropped.
PatchFailsForGood ==
    /\ Patching
    /\ JobDone
    /\ UNCHANGED <<apiVars, seen, keyVars, regVars, collVars>>

\* The policy is gone, or the API server fails: Reconcile returns an error.
PatchFails ==
    /\ Patching
    /\ waiting' = "backoff"
    /\ JobDone
    /\ UNCHANGED <<apiVars, seen, queued, regVars, collVars>>

\* The worker has registered or evicted some other policy.
ReconcileOther ==
    /\ pc = "idle"
    /\ others' \in OtherForm \ {others}
    /\ UNCHANGED <<apiVars, seen, keyVars, jobVars, registry, collVars>>

-----------------------------------------------------------------------------
(* The collectors, and the process.                                        *)

\* The status tells of denials only. Serve and Show are left out, and an entry that
\* is served is "none": one that was denied until then is forgotten.
Collect(c) ==
    /\ UNCHANGED <<apiVars, seen, keyVars, jobVars, regVars>>
    /\ \/ Collectors!Start(c)
       \/ Collectors!Adopt(c)
       \/ Collectors!Retire(c)
       \/ \E g \in GVR : Collectors!Deny(c, g) \/ Collectors!Forget(c, g)

\* The process dies, at any point, and the next one starts from nothing: its
\* first list delivers the policy if there is one.
Restart ==
    /\ stream' = IF api = Absent THEN <<>> ELSE <<api>>
    /\ seen' = Absent
    /\ queued' = FALSE /\ waiting' = "no"
    /\ pc' = "idle" /\ obj' = Absent /\ toRead' = {} /\ denied' = {} /\ syncErr' = {}
    /\ registry' = Absent /\ others' = NoOthers
    /\ adopted' = [c \in Cluster |-> [g \in {} |-> {}]]
    /\ entry' = [c \in Cluster |-> [g \in GVR |-> Collectors!None]]
    /\ life' = [c \in Cluster |-> "unset"]
    /\ UNCHANGED api

-----------------------------------------------------------------------------
User == (\E spec \in SpecForm : Create(spec) \/ Edit(spec)) \/ Delete

Worker == Evict \/ Register \/ UpToDate \/ (\E c \in Cluster : ReadStatus(c))

Next ==
    \/ User
    \/ Deliver \/ Requeue
    \/ Worker \/ Patch \/ PatchFails
    \/ ReconcileOther
    \/ \E c \in Cluster : Collect(c)
    \/ Restart

Spec == Init /\ [][Next]_vars

\* The watch, the queue and the worker keep going, and patches do not fail for
\* ever. Nothing is asked of users, collectors or other policies.
Fairness ==
    /\ WF_vars(Deliver) /\ WF_vars(Requeue)
    /\ WF_vars(Worker)
    /\ SF_vars(Patch)

FairSpec == Spec /\ Fairness

-----------------------------------------------------------------------------
(* Properties.                                                             *)

ConditionSet ==
    [generation : {0}] \cup
    [generation : 1 .. MaxGeneration, InvalidCEL : Nat,
     PermissionDenied : SUBSET GVR,
     Degraded : [status : BOOLEAN, sync : SUBSET Refused],
     Ready : [status : BOOLEAN, active : Nat, none : BOOLEAN]]

Statuses == [observed : 0 .. MaxGeneration, active : Nat, failures : Nat,
             missing : SUBSET GVR, conditions : ConditionSet]

Versions == {Absent} \cup [gen : 1 .. MaxGeneration, spec : SpecForm, status : Statuses]

\* Type correctness of every variable.
TypeOK ==
    /\ api \in Versions /\ seen \in Versions /\ obj \in Versions
    /\ stream \in Seq(Versions) /\ Len(stream) <= MaxLag
    /\ queued \in BOOLEAN
    /\ waiting \in {"no", "interval", "backoff"}
    /\ pc \in {"idle", "read"}
    /\ toRead \subseteq Cluster
    /\ denied \subseteq GVR
    /\ syncErr \in SyncErrors({}) \cup SyncErrors(Refused)
    /\ registry \in SpecForm \cup {Absent}
    /\ others \in OtherForm
    /\ adopted \in [Cluster -> Collectors!Wants]
    /\ entry \in [Cluster -> [GVR -> {Collectors!None, Collectors!Denial,
                                      Collectors!Served({}, {})}]]
    /\ life \in [Cluster -> {"unset", "live"}]

\* Nothing more is going to happen to the policy but for its periodic requeue.
Settled == stream = <<>> /\ ~queued /\ waiting # "backoff" /\ pc = "idle"

\* A status that has come to rest is one that some Reconcile computed for the
\* policy as it is, in all its parts: patches made from copies that were out of
\* date, or meant for a policy of the same name that has been deleted, may mix
\* the fields of two Reconciles, but never for good
\* (custom_resource_metrics_controller.go:147-212).
RestsCoherent ==
    Settled /\ api # Absent =>
        \E missing \in SUBSET api.spec.refs,
           failed \in SyncErrors({}) \cup SyncErrors(Refused) :
            api.status = StatusOf(api.gen, api.spec, missing, failed)

\* At rest the registry holds the policy as the API server does, and nothing of
\* a policy that is gone: deletions that meet edits, retries of patches and
\* re-creations under the same name leave none behind
\* (custom_resource_metrics_controller.go:80-131).
RestsRegistered ==
    Settled => registry = IF api = Absent THEN Absent ELSE api.spec

\* Once the policy, the others and the collectors change no more, the status
\* comes to tell the denials of the policy's resources and Sync's error as they
\* are, and goes on telling them: entries that were denied after the Reconcile
\* that woke their collector, and errors another policy caused or cured, are
\* picked up (custom_resource_metrics_controller.go:194-217). Which of several
\* refused families the error names may go on changing.
TrueStatus(status) ==
    \E failed \in SyncErrors(api.spec.refused \cup others.refused) :
        status = StatusOf(api.gen, api.spec, Missing(InMap, api.spec), failed)
Asked == IF api = Absent THEN Absent ELSE <<api.gen, api.spec>>
StatusConverges ==
    (<>[][~Restart]_vars /\ <>[][FALSE]_<<Asked, others, entry>>)
        => <>[](api # Absent => TrueStatus(api.status))

=============================================================================
