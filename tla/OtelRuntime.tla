------------------------------ MODULE OtelRuntime ------------------------------
(***************************************************************************)
(* internal/otel/runtime.go: how Runtime.Sync keeps one observable gauge   *)
(* and one callback per metric family of the policy registry, family by    *)
(* family, between the writes of the policy controller, against the        *)
(* reader's collections and against Shutdown.                              *)
(*                                                                         *)
(* A policy is the part of it that computeDesired reads: for each          *)
(* effective metric name, its prefix applied, the help text of the first   *)
(* of its families with that name. Generators that did not compile are not *)
(* in it. The controller has one worker, which is Sync's only caller.      *)
(*                                                                         *)
(* External: the SDK refuses an instrument whose name is malformed, and    *)
(* holds a callback once per registration until it is unregistered. A      *)
(* collection holds the lock of its pipeline while the callbacks run, and  *)
(* nothing is registered or unregistered meanwhile.                        *)
(***************************************************************************)
EXTENDS Naturals, FiniteSets

CONSTANTS
    Policy,   \* keys of the registry
    Name,     \* effective metric names
    Help,     \* help texts
    Refused,  \* names the SDK does not accept
    Policies  \* what a policy may come to

\* What a policy declares: a map from names to help texts.
Declarations == UNION {[N -> Help] : N \in SUBSET Name}
Nothing == [n \in {} |-> {}]

ASSUME RefusedAssumption == Refused \subseteq Name
ASSUME PoliciesAssumption == Nothing \in Policies /\ Policies \subseteq Declarations
ASSUME PolicyAssumption == IsFiniteSet(Policy)

VARIABLES
    registry,   \* [Policy -> Declarations]; Nothing for a policy that is absent
    ctl,        \* the worker: "idle", or where it is in Reconcile
    desired,    \* Sync's local: what computeDesired returned
    todo,       \* names Sync's second loop has yet to visit
    failed,     \* names Sync could not create an instrument for
    erred,      \* whether Sync returned an error the last time
    mu,         \* whether Sync holds the runtime's mutex
    families,   \* the map: a name's entry, reduced to its description
    callbacks,  \* how often a callback for a name and description is registered
    projectUp,  \* the callback of resource_metrics_project_up is registered
    shut,       \* Shutdown has run
    collecting  \* the reader is running the callbacks

syncVars == <<desired, todo, failed>>
vars == <<registry, ctl, desired, todo, failed, erred, mu, families,
          callbacks, projectUp, shut, collecting>>

Streams == Name \X Help

Without(f, n) == [m \in DOMAIN f \ {n} |-> f[m]]
With(f, n, h) == [m \in DOMAIN f \cup {n} |-> IF m = n THEN h ELSE f[m]]

\* NewRuntime registers the gauge of its own; families come with Sync.
Init ==
    /\ registry = [p \in Policy |-> Nothing]
    /\ ctl = "idle"
    /\ desired = Nothing /\ todo = {} /\ failed = {}
    /\ erred = FALSE
    /\ mu = FALSE
    /\ families = Nothing
    /\ callbacks = [s \in Streams |-> 0]
    /\ projectUp = TRUE
    /\ shut = FALSE
    /\ collecting = FALSE

-----------------------------------------------------------------------------
(* Reconcile up to its call of Sync.                                       *)

\* A policy was written, deleted (Nothing), or is reconciled once more.
Upsert(p, decls) ==
    /\ ctl = "idle"
    /\ registry' = [registry EXCEPT ![p] = decls]
    /\ ctl' = "upserted"
    /\ UNCHANGED <<syncVars, erred, mu, families, callbacks, projectUp, shut, collecting>>

\* The order in which a snapshot of the registry lists the policies is any.
Orders == {o \in [Policy -> 1 .. Cardinality(Policy)] :
              \A p, q \in Policy : o[p] = o[q] => p = q}

Declared(n) == {p \in Policy : n \in DOMAIN registry[p]}

\* The first policy to declare a name decides on its description.
Desired(order) ==
    [n \in {m \in Name : Declared(m) # {}} |->
        LET first == CHOOSE p \in Declared(n) :
                        \A q \in Declared(n) : order[p] <= order[q]
        IN  registry[first][n]]

\* computeDesired runs before the mutex is taken.
ComputeDesired ==
    /\ ctl = "upserted"
    /\ \E order \in Orders : desired' = Desired(order)
    /\ ctl' = "computed"
    /\ UNCHANGED <<registry, todo, failed, erred, mu, families, callbacks,
                   projectUp, shut, collecting>>

-----------------------------------------------------------------------------
(* Sync under the mutex. Maps are ranged over in any order.                *)

Lock ==
    /\ ctl = "computed"
    /\ ctl' = "sync"
    /\ mu' = TRUE
    /\ todo' = DOMAIN desired
    /\ failed' = {}
    /\ UNCHANGED <<registry, desired, erred, families, callbacks, projectUp, shut, collecting>>

Stale == DOMAIN families \ DOMAIN desired

\* Seeded fault: the entry goes and its callback stays.
UnregisterForgotten(n) ==
    /\ families' = Without(families, n)
    /\ UNCHANGED callbacks

\* Unregisters the callback of n and deletes its entry.
Unregister(n) ==
    /\ callbacks' = [callbacks EXCEPT ![<<n, families[n]>>] = @ - 1]
    /\ families' = Without(families, n)

DropStale(n) ==
    /\ ctl = "sync"
    /\ ~collecting
    /\ n \in Stale
    /\ Unregister(n)
    /\ UNCHANGED <<registry, ctl, syncVars, erred, mu, projectUp, shut, collecting>>

\* The second loop starts when nothing stale is left.
Visiting(n) == ctl = "sync" /\ Stale = {} /\ n \in todo

Keep(n) ==
    /\ Visiting(n)
    /\ n \in DOMAIN families /\ families[n] = desired[n]
    /\ todo' = todo \ {n}
    /\ UNCHANGED <<registry, ctl, desired, failed, erred, mu, families, callbacks,
                   projectUp, shut, collecting>>

\* Seeded fault: every instrument is made anew by every Sync.
DropAlways(n) ==
    /\ Visiting(n)
    /\ ~collecting
    /\ n \in DOMAIN families
    /\ Unregister(n)
    /\ UNCHANGED <<registry, ctl, syncVars, erred, mu, projectUp, shut, collecting>>

\* The description changed: the old instrument goes, and n is created below.
DropDrifted(n) ==
    /\ Visiting(n)
    /\ ~collecting
    /\ n \in DOMAIN families /\ families[n] # desired[n]
    /\ Unregister(n)
    /\ UNCHANGED <<registry, ctl, syncVars, erred, mu, projectUp, shut, collecting>>

\* Seeded fault: a name that is refused ends the loop.
RefuseStops(n) ==
    /\ Visiting(n)
    /\ n \notin DOMAIN families /\ n \in Refused
    /\ failed' = failed \cup {n}
    /\ todo' = {}
    /\ UNCHANGED <<registry, ctl, desired, erred, mu, families, callbacks,
                   projectUp, shut, collecting>>

\* The first such error is what Sync returns; the loop goes on.
Refuse(n) ==
    /\ Visiting(n)
    /\ n \notin DOMAIN families /\ n \in Refused
    /\ failed' = failed \cup {n}
    /\ todo' = todo \ {n}
    /\ UNCHANGED <<registry, ctl, desired, erred, mu, families, callbacks,
                   projectUp, shut, collecting>>

Create(n) ==
    /\ Visiting(n)
    /\ ~collecting
    /\ n \notin DOMAIN families /\ n \notin Refused
    /\ callbacks' = [callbacks EXCEPT ![<<n, desired[n]>>] = @ + 1]
    /\ families' = With(families, n, desired[n])
    /\ todo' = todo \ {n}
    /\ UNCHANGED <<registry, ctl, desired, failed, erred, mu, projectUp, shut, collecting>>

\* Seeded fault: the error is logged and not returned.
ReturnSilently ==
    /\ ctl = "sync"
    /\ Stale = {} /\ todo = {}
    /\ ctl' = "idle"
    /\ mu' = FALSE
    /\ erred' = FALSE
    /\ UNCHANGED <<registry, syncVars, families, callbacks, projectUp, shut, collecting>>

\* Sync returns, and Reconcile goes on with the error, if there is one.
Return ==
    /\ ctl = "sync"
    /\ Stale = {} /\ todo = {}
    /\ ctl' = "idle"
    /\ mu' = FALSE
    /\ erred' = (failed # {})
    /\ UNCHANGED <<registry, syncVars, families, callbacks, projectUp, shut, collecting>>

-----------------------------------------------------------------------------
(* Shutdown, called once, when the process is told to stop. The controller *)
(* is told at the same time and may be anywhere in Reconcile.              *)

\* Seeded fault: the callbacks go and the map is kept.
ShutdownKeepsMap ==
    /\ ~shut
    /\ ~mu /\ ~collecting
    /\ shut' = TRUE
    /\ projectUp' = FALSE
    /\ callbacks' = [s \in Streams |->
                        IF s[1] \in DOMAIN families /\ s[2] = families[s[1]]
                        THEN callbacks[s] - 1 ELSE callbacks[s]]
    /\ UNCHANGED <<registry, ctl, syncVars, erred, mu, families, collecting>>

Shutdown ==
    /\ ~shut
    /\ ~mu /\ ~collecting
    /\ shut' = TRUE
    /\ projectUp' = FALSE
    /\ callbacks' = [s \in Streams |->
                        IF s[1] \in DOMAIN families /\ s[2] = families[s[1]]
                        THEN callbacks[s] - 1 ELSE callbacks[s]]
    /\ families' = Nothing
    /\ UNCHANGED <<registry, ctl, syncVars, erred, mu, collecting>>

-----------------------------------------------------------------------------
(* The reader.                                                             *)

Collect ==
    /\ ~collecting
    /\ collecting' = TRUE
    /\ UNCHANGED <<registry, ctl, syncVars, erred, mu, families, callbacks, projectUp, shut>>

\* Seeded fault: a callback asks the runtime for its budget under the mutex.
CollectedUnderMutex ==
    /\ collecting
    /\ ~mu
    /\ collecting' = FALSE
    /\ UNCHANGED <<registry, ctl, syncVars, erred, mu, families, callbacks, projectUp, shut>>

\* The callbacks take neither the mutex nor long: each has its budget.
Collected ==
    /\ collecting
    /\ collecting' = FALSE
    /\ UNCHANGED <<registry, ctl, syncVars, erred, mu, families, callbacks, projectUp, shut>>

-----------------------------------------------------------------------------
SyncStep ==
    \/ ComputeDesired \/ Lock \/ Return
    \/ \E n \in Name : DropStale(n) \/ Keep(n) \/ DropDrifted(n) \/ Refuse(n) \/ Create(n)

Next ==
    \/ \E p \in Policy, decls \in Policies : Upsert(p, decls)
    \/ SyncStep
    \/ Shutdown
    \/ Collect \/ Collected

Spec == Init /\ [][Next]_vars

\* The worker and the reader keep running, and a lock that is freed again and
\* again is not refused to a goroutine for ever (Go's mutexes are fair to waiters).
Fairness == SF_vars(SyncStep) /\ WF_vars(Collected)

FairSpec == Spec /\ Fairness

-----------------------------------------------------------------------------
(* Properties.                                                             *)

\* Type correctness of every variable. An unregistered callback was registered.
TypeOK ==
    /\ registry \in [Policy -> Policies]
    /\ ctl \in {"idle", "upserted", "computed", "sync"}
    /\ desired \in Declarations
    /\ {todo, failed} \subseteq SUBSET Name
    /\ {erred, mu, projectUp, shut, collecting} \subseteq BOOLEAN
    /\ families \in Declarations
    /\ callbacks \in [Streams -> Nat]

\* At every instant, Sync and Shutdown at work or not, the SDK holds one callback
\* for each entry of the map, under its description, and no other: a callback
\* nobody can unregister would export its family for ever, and one that is
\* registered twice would observe every series twice (runtime.go:267-335).
CallbacksAreTracked ==
    callbacks = [s \in Streams |->
        IF s[1] \in DOMAIN families /\ s[2] = families[s[1]] THEN 1 ELSE 0]

\* When the worker rests, the families exported are those the registry declares,
\* each under a help text one of its policies gives. Names that are refused
\* are missing, and they alone (a failure does not stop the loop, 305-327), and
\* Sync's error, which becomes the Degraded condition, tells whether there are any.
FamiliesFollowRegistry ==
    ctl = "idle" =>
        /\ erred <=> \E n \in Refused : Declared(n) # {}
        /\ ~shut => DOMAIN families = {n \in Name : Declared(n) # {}} \ Refused
        /\ \A n \in DOMAIN families :
              \E p \in Declared(n) : families[n] = registry[p][n]

\* Sync never takes down the instrument of a family on whose help text the
\* registry's policies agree and which it has right, not even for a moment: a
\* collection in between would miss every series of it (runtime.go:285-287).
AgreedHelp(n, h) == Declared(n) # {} /\ \A p \in Declared(n) : registry[p][n] = h
AgreedStays ==
    [][\A n \in DOMAIN families :
          AgreedHelp(n, families[n]) /\ ctl = "sync"
            => n \in DOMAIN families' /\ families'[n] = families[n]]_vars

\* "keep the first; this matches the documented precedence rule and avoids
\* thrashing the instrument identity" (runtime.go:231-236): once the registry
\* stops changing, the instruments do, though every policy goes on being
\* reconciled periodically.
IdentitySettles ==
    <>[][FALSE]_registry /\ []~shut => <>[][FALSE]_families

=============================================================================
