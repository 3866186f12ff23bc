------------------------------- MODULE Collection -------------------------------
(***************************************************************************)
(* What collectors promise, one per control plane, without their loops,    *)
(* wakes, goroutines and retries (internal/collector/collector.go).        *)
(*                                                                         *)
(* A collector adopts at some time what is wanted at that time, and no     *)
(* earlier or partial version of it. From then on each entry moves on its  *)
(* own: it is served, denied, or stays as it is.                           *)
(*                                                                         *)
(* ControlPlaneCollector implements this for one control plane             *)
(* (ImplementsCollection); PolicyStatus is built on it.                    *)
(***************************************************************************)

CONSTANTS
    Cluster,   \* the control planes
    GVR,       \* resources
    Field      \* object fields

VARIABLES
    wants,     \* what the registry wants: a map from GVRs to sets of fields
    adopted,   \* per control plane, the wants its collector acts on
    entry,     \* per control plane and GVR, what Status and Collect tell
    life       \* per control plane, the collector: "unset", "live", "cancelled"

vars == <<wants, adopted, entry, life>>

Wants == UNION {[D -> SUBSET Field] : D \in SUBSET GVR}

None   == [state |-> "none",   fields |-> {}, shown |-> {}]
Denial == [state |-> "denied", fields |-> {}, shown |-> {}]

\* shown: the objects Collect returns, each the set of fields it holds.
Served(fields, shown) == [state |-> "served", fields |-> fields, shown |-> shown]

\* Objects that hold the given fields, and perhaps others read earlier.
Holding(fields) == {object \in SUBSET Field : fields \subseteq object}

Init ==
    /\ wants \in Wants
    /\ adopted = [c \in Cluster |-> [g \in {} |-> {}]]
    /\ entry = [c \in Cluster |-> [g \in GVR |-> None]]
    /\ life = [c \in Cluster |-> "unset"]

Edit ==
    /\ wants' \in Wants
    /\ UNCHANGED <<adopted, entry, life>>

Start(c) ==
    /\ life[c] = "unset"
    /\ life' = [life EXCEPT ![c] = "live"]
    /\ UNCHANGED <<wants, adopted, entry>>

\* The entries stay: a collector that has been stopped tells what it last knew.
Stop(c) ==
    /\ life[c] = "live"
    /\ life' = [life EXCEPT ![c] = "cancelled"]
    /\ UNCHANGED <<wants, adopted, entry>>

Narrows(e, fields) == e.state = "served" /\ fields \subseteq e.fields

\* The reconcile that reads the registry publishes at once the fields of every
\* entry that has them all.
Adopt(c) ==
    /\ life[c] # "unset"
    /\ adopted' = [adopted EXCEPT ![c] = wants]
    /\ entry' = [entry EXCEPT ![c] = [g \in GVR |->
                    IF g \in DOMAIN wants /\ Narrows(@[g], wants[g])
                    THEN [@[g] EXCEPT !.fields = wants[g]]
                    ELSE @[g]]]
    /\ UNCHANGED <<wants, life>>

\* Every entry that is no longer wanted goes, in one step.
Retire(c) ==
    /\ entry' = [entry EXCEPT ![c] = [g \in GVR |->
                    IF g \in DOMAIN adopted[c] THEN @[g] ELSE None]]
    /\ UNCHANGED <<wants, adopted, life>>

\* An entry that is not served, or that lacks fields, is replaced, in one step, by
\* one that has those adopted.
Serve(c, g, shown) ==
    /\ g \in DOMAIN adopted[c]
    /\ ~Narrows(entry[c][g], adopted[c][g])
    /\ shown \subseteq Holding(adopted[c][g])
    /\ entry' = [entry EXCEPT ![c][g] = Served(adopted[c][g], shown)]
    /\ UNCHANGED <<wants, adopted, life>>

\* Only an entry that is not there becomes denied.
Deny(c, g) ==
    /\ g \in DOMAIN adopted[c]
    /\ entry[c][g].state = "none"
    /\ entry' = [entry EXCEPT ![c][g] = Denial]
    /\ UNCHANGED <<wants, adopted, life>>

\* What becomes of a denied entry is left open, since the comments disagree: it is
\* picked up "on the next wake" (37-39), or kept, so as not to "retry forever"
\* (448-455).
Forget(c, g) ==
    /\ g \in DOMAIN adopted[c]
    /\ entry[c][g].state = "denied"
    /\ entry' = [entry EXCEPT ![c][g] = None]
    /\ UNCHANGED <<wants, adopted, life>>

\* A watch event: other objects, each still with the fields of the entry.
Show(c, g) ==
    /\ life[c] = "live"
    /\ entry[c][g].state = "served"
    /\ \E shown \in SUBSET Holding(entry[c][g].fields) :
        entry' = [entry EXCEPT ![c][g].shown = shown]
    /\ UNCHANGED <<wants, adopted, life>>

Next ==
    \/ Edit
    \/ \E c \in Cluster :
        \/ Start(c) \/ Stop(c) \/ Adopt(c) \/ Retire(c)
        \/ \E g \in GVR :
            \/ \E shown \in SUBSET (SUBSET Field) : Serve(c, g, shown)
            \/ Deny(c, g)
            \/ Forget(c, g)
            \/ Show(c, g)

Spec == Init /\ [][Next]_vars
================================================================================
