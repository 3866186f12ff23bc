---------------------------- MODULE ClusterManager ----------------------------
(***************************************************************************)
(* internal/collector/manager.go and the interceptor of cmd/main.go: the   *)
(* map of collectors under concurrent Engage, Disengage and WakeAll calls. *)
(*                                                                         *)
(* A collector is reduced to what the manager relies on: whether its       *)
(* context has ended, its wake token, where its loop is, and whether its   *)
(* last reconcile read the registry as it is now. ControlPlaneCollector    *)
(* has the rest. Stop cancels and then waits no longer than a timeout, so  *)
(* its caller goes on whether or not the loop has ended.                   *)
(*                                                                         *)
(* External: the provider hands Engage a context that lives as long as the *)
(* connection to the cluster does.                                         *)
(***************************************************************************)
EXTENDS FiniteSets

CONSTANTS
    Name,         \* clusters
    Collector,    \* identities of collectors
    Call,         \* concurrent callers of Engage and Disengage
    Disengaging,  \* whether anybody calls Disengage
    None

ASSUME NoneAssumption == None \notin Collector
ASSUME DisengagingAssumption == Disengaging \in BOOLEAN

VARIABLES
    ready,       \* clusters the provider is connected to
    served,      \* clusters whose Engage succeeded since they last connected
    ctl,         \* the policy controller: "idle", or "wake" before WakeAll
    collectors,  \* the manager's map: [Name -> Collector or None]
    col,         \* per collector: its cluster, context, token and loop
    current,     \* collectors whose last reconcile read the present registry
    call         \* per caller: its place in Engage or Disengage, and its locals

vars == <<ready, served, ctl, collectors, col, current, call>>

CollectorState == [name : Name \cup {None}, ended : BOOLEAN, token : BOOLEAN,
                   loop : {"none", "idle", "busy", "done"}]

\* live: the context given to Engage has not ended. mine: the collector this
\* Engage constructed. target: the one it will wake, or Disengage will stop.
CallState == [pc : {"idle", "construct", "install", "stopDuplicate", "wake",
                    "forward", "stop"},
              name : Name \cup {None}, live : BOOLEAN,
              mine : Collector \cup {None}, target : Collector \cup {None}]

Unborn == [name |-> None, ended |-> FALSE, token |-> FALSE, loop |-> "none"]
Returned == [pc |-> "idle", name |-> None, live |-> FALSE,
             mine |-> None, target |-> None]

Mapped == {collectors[n] : n \in Name} \ {None}

\* Collectors nothing refers to and that do nothing any more, or never did.
Available == {c \in Collector :
                /\ col[c].loop \in {"none", "done"}
                /\ c \notin Mapped
                /\ \A e \in Call : c \notin {call[e].mine, call[e].target}}

Init ==
    /\ ready = {}
    /\ served = {}
    /\ ctl = "idle"
    /\ collectors = [n \in Name |-> None]
    /\ col = [c \in Collector |-> Unborn]
    /\ current = {}
    /\ call = [e \in Call |-> Returned]

-----------------------------------------------------------------------------
(* The provider and the policy controller.                                 *)

Connect(n) ==
    /\ n \notin ready
    /\ ready' = ready \cup {n}
    /\ UNCHANGED <<served, ctl, collectors, col, current, call>>

\* The contexts handed out for n end, with the collectors that run on them and
\* those that Engage calls in flight have yet to start.
Disconnect(n) ==
    /\ n \in ready
    /\ ready' = ready \ {n}
    /\ served' = served \ {n}
    /\ col' = [c \in Collector |->
                IF col[c].name = n THEN [col[c] EXCEPT !.ended = TRUE] ELSE col[c]]
    /\ call' = [e \in Call |->
                IF call[e].name = n THEN [call[e] EXCEPT !.live = FALSE] ELSE call[e]]
    /\ UNCHANGED <<ctl, collectors, current>>

\* Seeded fault: the registry is edited and nobody is woken.
EditUnannounced ==
    /\ ctl = "idle"
    /\ current' = {}
    /\ UNCHANGED <<ready, served, ctl, collectors, col, call>>

\* An Upsert or Delete: no collector has read the registry as it is now.
Edit ==
    /\ ctl = "idle"
    /\ ctl' = "wake"
    /\ current' = {}
    /\ UNCHANGED <<ready, served, collectors, col, call>>

\* The read lock keeps Engage and Disengage off the map meanwhile.
WakeAll ==
    /\ ctl = "wake"
    /\ ctl' = "idle"
    /\ col' = [c \in Collector |->
                IF c \in Mapped THEN [col[c] EXCEPT !.token = TRUE] ELSE col[c]]
    /\ UNCHANGED <<ready, served, collectors, current, call>>

-----------------------------------------------------------------------------
(* Engage.                                                                 *)

\* Under the lock: is there a collector already?
EngageCheck(e, n) ==
    /\ call[e].pc = "idle"
    /\ n \in ready
    /\ LET existing == collectors[n]
       IN  call' = [call EXCEPT ![e] =
                      [pc |-> IF existing = None THEN "construct" ELSE "wake",
                       name |-> n, live |-> TRUE, mine |-> None, target |-> existing]]
    /\ UNCHANGED <<ready, served, ctl, collectors, col, current>>

\* NewControlPlaneCollector and Start, without the lock. Start sends the first
\* wake; a context that has ended meanwhile does not keep it from starting.
EngageConstruct(e) ==
    /\ call[e].pc = "construct"
    /\ \E c \in Available :
        /\ col' = [col EXCEPT ![c] = [name |-> call[e].name, ended |-> ~call[e].live,
                                      token |-> TRUE, loop |-> "idle"]]
        /\ current' = current \ {c}
        /\ call' = [call EXCEPT ![e].pc = "install", ![e].mine = c]
    /\ UNCHANGED <<ready, served, ctl, collectors>>

\* NewControlPlaneCollector fails, and Engage returns the error.
EngageFails(e) ==
    /\ call[e].pc = "construct"
    /\ call' = [call EXCEPT ![e] = Returned]
    /\ UNCHANGED <<ready, served, ctl, collectors, col, current>>

\* Seeded fault: the second look at the map is left out.
EngageInstallBlindly(e) ==
    /\ call[e].pc = "install"
    /\ collectors' = [collectors EXCEPT ![call[e].name] = call[e].mine]
    /\ call' = [call EXCEPT ![e].pc = "wake", ![e].mine = None,
                            ![e].target = call[e].mine]
    /\ UNCHANGED <<ready, served, ctl, col, current>>

\* Under the lock again: another Engage may have installed its own meanwhile.
EngageInstall(e) ==
    /\ call[e].pc = "install"
    /\ LET n == call[e].name
       IN  IF collectors[n] = None
           THEN /\ collectors' = [collectors EXCEPT ![n] = call[e].mine]
                /\ call' = [call EXCEPT ![e].pc = "wake", ![e].mine = None,
                                        ![e].target = call[e].mine]
           ELSE /\ call' = [call EXCEPT ![e].pc = "stopDuplicate",
                                        ![e].target = collectors[n]]
                /\ UNCHANGED collectors
    /\ UNCHANGED <<ready, served, ctl, col, current>>

EngageStopDuplicate(e) ==
    /\ call[e].pc = "stopDuplicate"
    /\ col' = [col EXCEPT ![call[e].mine].ended = TRUE]
    /\ call' = [call EXCEPT ![e].pc = "wake", ![e].mine = None]
    /\ UNCHANGED <<ready, served, ctl, collectors, current>>

\* Seeded fault: Start's wake is thought to be enough.
EngageWakeForgotten(e) ==
    /\ call[e].pc = "wake"
    /\ call' = [call EXCEPT ![e].pc = "forward", ![e].target = None]
    /\ UNCHANGED <<ready, served, ctl, collectors, col, current>>

\* Wakes the collector just installed, or the one that was there.
EngageWake(e) ==
    /\ call[e].pc = "wake"
    /\ col' = [col EXCEPT ![call[e].target].token = TRUE]
    /\ call' = [call EXCEPT ![e].pc = "forward", ![e].target = None]
    /\ UNCHANGED <<ready, served, ctl, collectors, current>>

\* The interceptor engages the multicluster manager next. If that fails the
\* provider gets the error and the collector stays where it is.
EngageForward(e) ==
    /\ call[e].pc = "forward"
    /\ \/ served' = IF call[e].live THEN served \cup {call[e].name} ELSE served
       \/ UNCHANGED served
    /\ call' = [call EXCEPT ![e] = Returned]
    /\ UNCHANGED <<ready, ctl, collectors, col, current>>

-----------------------------------------------------------------------------
(* Disengage.                                                              *)

\* Seeded fault: the key is kept, with a marker for its value.
DisengageKeepsKey(e, n) ==
    /\ Disengaging
    /\ call[e].pc = "idle"
    /\ collectors[n] # None
    /\ collectors' = [collectors EXCEPT ![n] = FALSE]
    /\ call' = [call EXCEPT ![e] = [Returned EXCEPT !.pc = "stop",
                                                    !.target = collectors[n]]]
    /\ UNCHANGED <<ready, served, ctl, col, current>>

Disengage(e, n) ==
    /\ Disengaging
    /\ call[e].pc = "idle"
    /\ collectors[n] # None
    /\ collectors' = [collectors EXCEPT ![n] = None]
    /\ call' = [call EXCEPT ![e] = [Returned EXCEPT !.pc = "stop",
                                                    !.target = collectors[n]]]
    /\ UNCHANGED <<ready, served, ctl, col, current>>

DisengageStop(e) ==
    /\ call[e].pc = "stop"
    /\ col' = [col EXCEPT ![call[e].target].ended = TRUE]
    /\ call' = [call EXCEPT ![e] = Returned]
    /\ UNCHANGED <<ready, served, ctl, collectors, current>>

-----------------------------------------------------------------------------
(* The collectors' loops. With a wake pending and the context ended, either *)
(* may be taken.                                                            *)

LoopWakes(c) ==
    /\ col[c].loop = "idle"
    /\ col[c].token
    /\ col' = [col EXCEPT ![c].token = FALSE, ![c].loop = "busy"]
    /\ UNCHANGED <<ready, served, ctl, collectors, current, call>>

LoopReconciles(c) ==
    /\ col[c].loop = "busy"
    /\ col' = [col EXCEPT ![c].loop = "idle"]
    /\ current' = current \cup {c}
    /\ UNCHANGED <<ready, served, ctl, collectors, call>>

LoopEnds(c) ==
    /\ col[c].loop = "idle"
    /\ col[c].ended
    /\ col' = [col EXCEPT ![c].loop = "done"]
    /\ UNCHANGED <<ready, served, ctl, collectors, current, call>>

-----------------------------------------------------------------------------
EngageStep(e) ==
    \/ EngageConstruct(e) \/ EngageFails(e) \/ EngageInstall(e)
    \/ EngageStopDuplicate(e) \/ EngageWake(e) \/ EngageForward(e)

LoopStep(c) == LoopWakes(c) \/ LoopReconciles(c) \/ LoopEnds(c)

Next ==
    \/ \E n \in Name : Connect(n) \/ Disconnect(n)
    \/ Edit \/ WakeAll
    \/ \E e \in Call, n \in Name : EngageCheck(e, n) \/ Disengage(e, n)
    \/ \E e \in Call : EngageStep(e) \/ DisengageStop(e)
    \/ \E c \in Collector : LoopStep(c)

Spec == Init /\ [][Next]_vars

\* Calls and loops that have begun go on; whether anybody connects, calls or
\* edits is up to them.
Fairness ==
    /\ WF_vars(WakeAll)
    /\ \A e \in Call : WF_vars(EngageStep(e) \/ DisengageStop(e))
    /\ \A c \in Collector : WF_vars(LoopStep(c)) /\ SF_vars(LoopEnds(c))

FairSpec == Spec /\ Fairness

-----------------------------------------------------------------------------
(* Properties.                                                             *)

Live(c) == col[c].loop # "none" /\ ~col[c].ended

\* Type correctness of every variable.
TypeOK ==
    /\ ready \in SUBSET Name
    /\ served \in SUBSET Name
    /\ ctl \in {"idle", "wake"}
    /\ collectors \in [Name -> Collector \cup {None}]
    /\ col \in [Collector -> CollectorState]
    /\ current \in SUBSET Collector
    /\ call \in [Call -> CallState]

\* However Engage and Disengage calls interleave, a collector whose context is
\* live is the one in the map for its cluster, or one call still has it in hand
\* and will install or stop it (manager.go:64-76, 85-98): no collector is left
\* watching a cluster that nobody can stop any more.
NoOrphan ==
    \A c \in Collector : Live(c) =>
        \/ collectors[col[c].name] = c
        \/ \E e \in Call : /\ call[e].mine = c
                           /\ call[e].pc \in {"install", "stopDuplicate"}
        \/ \E e \in Call : call[e].pc = "stop" /\ call[e].target = c

\* A collector in the map that rests, with no wake under way to it from its
\* Engage or from WakeAll, has read the registry as it is now
\* (manager.go:75-78: the wake comes after the installation).
NoLostWake ==
    \A n \in Name :
        LET c == collectors[n]
        IN  /\ c # None
            /\ ctl = "idle"
            /\ col[c].loop = "idle" /\ ~col[c].token
            /\ \A e \in Call : ~(call[e].pc = "wake" /\ call[e].target = c)
            => c \in current

\* Every edit reaches every collector that stays in the map: sooner or later it
\* reads the edited registry, unless it is taken out or its context ends.
EditsReachCollectors ==
    \A n \in Name, c \in Collector :
        collectors[n] = c /\ c \notin current
            ~> c \in current \/ collectors[n] # c \/ col[c].ended

\* "The provider may re-engage the same cluster (e.g. on reconnect); we prefer
\* to keep the existing collector" (manager.go:46-48): once Engage succeeded for
\* a connected cluster, and no call is at work, the collector in the map runs.
EngagedIsCollected ==
    \A n \in served :
        (\A e \in Call : call[e].pc = "idle")
            => collectors[n] # None /\ Live(collectors[n])

=============================================================================
