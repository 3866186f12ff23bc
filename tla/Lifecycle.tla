------------------------------- MODULE Lifecycle -------------------------------
(***************************************************************************)
(* cmd/main.go: how the process ends. runUntilManagerStops runs the        *)
(* manager, in which the policy controller works, beside workers: the      *)
(* provider, the other runnables, and the one that drains the OTel         *)
(* pipeline. OtelRuntime is what the controller and the drain work on.     *)
(*                                                                         *)
(* The contexts of one run are one: the signal, the manager's return and   *)
(* the group's first error all end it. The workers besides the drain are   *)
(* opaque. A second signal ends the process at once and is left out.       *)
(***************************************************************************)
EXTENDS OtelRuntime

CONSTANT Worker   \* the provider and the runnables

VARIABLES
    ctx,       \* the run's context: "live" or "done"
    manager,   \* mgr.Start: "running", "stopping" its runnables, or "returned"
    returned,  \* workers that have returned
    groupErr,  \* the group has an error to return
    drain,     \* what shutdownOnStop shuts down next: "runtime", "provider", "nothing"
    exit       \* "no", or how the process ended: "ok" or "failed"

lifeVars == <<ctx, manager, returned, groupErr, drain, exit>>
allVars == <<vars, lifeVars>>

LInit ==
    /\ Init
    /\ ctx = "live"
    /\ manager = "running"
    /\ returned = {}
    /\ groupErr = FALSE
    /\ drain = "runtime"
    /\ exit = "no"

-----------------------------------------------------------------------------
(* What goes on while the process runs.                                    *)

\* The worker of the controller empties its queue when it is stopped.
Reconcile ==
    /\ exit = "no" /\ manager # "returned"
    /\ \E p \in Policy, decls \in Policies : Upsert(p, decls)
    /\ UNCHANGED lifeVars

\* A Reconcile under way goes on until the process is gone.
Syncing == exit = "no" /\ SyncStep /\ UNCHANGED lifeVars

\* The reader collects until the meter provider is shut down.
Reading ==
    /\ exit = "no"
    /\ (drain # "nothing" /\ Collect) \/ Collected
    /\ UNCHANGED lifeVars

Signal ==
    /\ ctx = "live"
    /\ ctx' = "done"
    /\ UNCHANGED <<vars, manager, returned, groupErr, drain, exit>>

-----------------------------------------------------------------------------
(* runUntilManagerStops: an error is the group's, a cancellation is none.  *)

\* The group's context ends with its first error.
WorkerFails(w) ==
    /\ exit = "no" /\ w \notin returned
    /\ returned' = returned \cup {w}
    /\ groupErr' = TRUE
    /\ ctx' = "done"
    /\ UNCHANGED <<vars, manager, drain, exit>>

\* Without an error, or with the context's. A worker that returns early ends
\* nothing else.
WorkerReturns(w) ==
    /\ exit = "no" /\ w \notin returned
    /\ returned' = returned \cup {w}
    /\ UNCHANGED <<vars, ctx, manager, groupErr, drain, exit>>

\* The manager stops its runnables: it was told to, lost the lease, or one of
\* them failed.
ManagerStops ==
    /\ manager = "running"
    /\ manager' = "stopping"
    /\ UNCHANGED <<vars, ctx, returned, groupErr, drain, exit>>

\* Seeded fault: only the group's error ends the run, as without defer cancel().
ManagerReturnsAlone ==
    /\ manager = "stopping"
    /\ manager' = "returned"
    /\ \/ ctl = "idle" /\ UNCHANGED <<groupErr, ctx>>
       \/ groupErr' = TRUE /\ ctx' = "done"
    /\ UNCHANGED <<vars, returned, drain, exit>>

\* With or without an error; without one, only once the controller's worker has
\* ended. Either way the run ends.
ManagerReturns ==
    /\ manager = "stopping"
    /\ manager' = "returned"
    /\ \/ ctl = "idle" /\ UNCHANGED groupErr
       \/ groupErr' = TRUE
    /\ ctx' = "done"
    /\ UNCHANGED <<vars, returned, drain, exit>>

-----------------------------------------------------------------------------
(* shutdownOnStop.                                                         *)

DrainRuntime ==
    /\ ctx = "done" /\ drain = "runtime"
    /\ Shutdown
    /\ drain' = "provider"
    /\ UNCHANGED <<ctx, manager, returned, groupErr, exit>>

\* The reader is stopped when its collection is over; the last export may fail
\* or take until the deadline, which is logged.
DrainProvider ==
    /\ drain = "provider"
    /\ ~collecting
    /\ drain' = "nothing"
    /\ UNCHANGED <<vars, ctx, manager, returned, groupErr, exit>>

\* The group waits for everyone.
Exit ==
    /\ exit = "no"
    /\ manager = "returned" /\ returned = Worker /\ drain = "nothing"
    /\ exit' = IF groupErr THEN "failed" ELSE "ok"
    /\ UNCHANGED <<vars, ctx, manager, returned, groupErr, drain>>

-----------------------------------------------------------------------------
LNext ==
    \/ Reconcile \/ Syncing \/ Reading
    \/ Signal
    \/ \E w \in Worker : WorkerFails(w) \/ WorkerReturns(w)
    \/ ManagerStops \/ ManagerReturns
    \/ DrainRuntime \/ DrainProvider
    \/ Exit

LSpec == LInit /\ [][LNext]_allVars

\* The goroutines keep running. When the run has ended, the workers return and
\* so does the manager, at the latest when its grace period is over; a manager
\* that stops does return.
LFairness ==
    /\ SF_allVars(Syncing)
    /\ WF_allVars(Reading /\ Collected)
    /\ WF_allVars(ctx = "done" /\ ManagerStops)
    /\ WF_allVars(ManagerReturns)
    /\ \A w \in Worker : WF_allVars(ctx = "done" /\ (WorkerReturns(w) \/ WorkerFails(w)))
    /\ SF_allVars(DrainRuntime)
    /\ SF_allVars(DrainProvider)
    /\ WF_allVars(Exit)

FairLSpec == LSpec /\ LFairness

-----------------------------------------------------------------------------
(* Properties.                                                             *)

\* Type correctness of every variable.
LTypeOK ==
    /\ TypeOK
    /\ ctx \in {"live", "done"}
    /\ manager \in {"running", "stopping", "returned"}
    /\ returned \subseteq Worker
    /\ groupErr \in BOOLEAN
    /\ drain \in {"runtime", "provider", "nothing"}
    /\ exit \in {"no", "ok", "failed"}

\* "A manager that returns, for any reason, ends the process, so no replica stays
\* Running while it leads nothing" (main.go:222-225): nobody waits for a lock,
\* a collection or another stage for ever, whatever the controller, the reader
\* and the workers are doing then; nor after a signal or a worker's failure.
EndsWithManager ==
    (manager # "running" \/ groupErr \/ ctx = "done") ~> exit # "no"

\* Every Reconcile comes to an end unless the process does, whatever Sync finds:
\* its loops visit each family once, a drifted one included, and a collection
\* that holds up a registration never waits for Sync (runtime.go:118-126, 283-335).
SyncEnds == (ctl # "idle") ~> (ctl = "idle" \/ exit # "no")

=============================================================================
