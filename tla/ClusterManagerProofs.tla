------------------------- MODULE ClusterManagerProofs -------------------------
(***************************************************************************)
(* Safety of ClusterManager for every set of clusters, collectors and      *)
(* callers.                                                                *)
(*                                                                         *)
(* NoLostWake is inductive. NoOrphan needs to know that the collector an   *)
(* Engage is about to install serves the cluster it is installed for.      *)
(***************************************************************************)
EXTENDS ClusterManager, TLAPS

\* What a call has in hand between two steps.
InHand ==
    \A e \in Call :
        /\ call[e].pc \notin {"idle", "stop"} => call[e].name \in Name
        /\ call[e].pc \in {"install", "stopDuplicate"} =>
            call[e].mine \in Collector /\ col[call[e].mine].name = call[e].name

MInv == TypeOK /\ InHand /\ NoOrphan /\ NoLostWake

-----------------------------------------------------------------------------
(* Type correctness.                                                       *)

LEMMA MarkType ==
    ASSUME NEW f \in [Collector -> CollectorState], NEW x
    PROVE  /\ [f EXCEPT ![x].token = TRUE] \in [Collector -> CollectorState]
           /\ [f EXCEPT ![x].ended = TRUE] \in [Collector -> CollectorState]
<1>1. \A c \in Collector : /\ [f[c] EXCEPT !.token = TRUE] \in CollectorState
                           /\ [f[c] EXCEPT !.ended = TRUE] \in CollectorState
    BY DEF CollectorState
<1>2. CASE x \in Collector
    BY <1>1, <1>2
<1>3. CASE x \notin Collector
    BY <1>3
<1> QED
    BY <1>2, <1>3

LEMMA TypeNext == TypeOK /\ InHand /\ [Next]_vars => TypeOK'
<1> SUFFICES ASSUME TypeOK, InHand, [Next]_vars PROVE TypeOK'
    OBVIOUS
<1> USE DEF TypeOK, CollectorState, CallState
<1>1. ASSUME NEW n \in Name, Connect(n) PROVE TypeOK'
    BY <1>1 DEF Connect
<1>2. ASSUME NEW n \in Name, Disconnect(n) PROVE TypeOK'
    <2>1. \A c \in Collector : [col[c] EXCEPT !.ended = TRUE] \in CollectorState
        OBVIOUS
    <2>2. col' \in [Collector -> CollectorState]
        BY <1>2, <2>1 DEF Disconnect
    <2>3. \A e \in Call : [call[e] EXCEPT !.live = FALSE] \in CallState
        OBVIOUS
    <2>4. call' \in [Call -> CallState]
        BY <1>2, <2>3 DEF Disconnect
    <2> QED
        BY <1>2, <2>2, <2>4 DEF Disconnect
<1>3. CASE Edit
    BY <1>3 DEF Edit
<1>4. CASE WakeAll
    <2>1. \A c \in Collector : [col[c] EXCEPT !.token = TRUE] \in CollectorState
        OBVIOUS
    <2>2. col' \in [Collector -> CollectorState]
        BY <1>4, <2>1 DEF WakeAll
    <2> QED
        BY <1>4, <2>2 DEF WakeAll
<1>5. ASSUME NEW e \in Call, NEW n \in Name, EngageCheck(e, n) PROVE TypeOK'
    BY <1>5 DEF EngageCheck
<1>6. ASSUME NEW e \in Call, NEW n \in Name, Disengage(e, n) PROVE TypeOK'
    BY <1>6 DEF Disengage, Returned
<1>7. ASSUME NEW e \in Call, EngageConstruct(e) PROVE TypeOK'
    BY <1>7 DEF EngageConstruct, Available
<1>8. ASSUME NEW e \in Call, EngageFails(e) PROVE TypeOK'
    BY <1>8 DEF EngageFails, Returned
<1>9. ASSUME NEW e \in Call, EngageInstall(e) PROVE TypeOK'
    BY <1>9 DEF EngageInstall
<1>10. ASSUME NEW e \in Call, EngageStopDuplicate(e) PROVE TypeOK'
    <2>1. col' \in [Collector -> CollectorState]
        BY <1>10, MarkType DEF EngageStopDuplicate
    <2>2. [call[e] EXCEPT !.pc = "wake", !.mine = None] \in CallState
        OBVIOUS
    <2>3. call' = [call EXCEPT ![e] = [call[e] EXCEPT !.pc = "wake", !.mine = None]]
        BY <1>10 DEF EngageStopDuplicate
    <2>4. call' \in [Call -> CallState]
        BY <2>2, <2>3
    <2> QED
        BY <1>10, <2>1, <2>4 DEF EngageStopDuplicate
<1>11. ASSUME NEW e \in Call, EngageWake(e) PROVE TypeOK'
    <2>1. col' \in [Collector -> CollectorState]
        BY <1>11, MarkType DEF EngageWake
    <2>2. [call[e] EXCEPT !.pc = "forward", !.target = None] \in CallState
        OBVIOUS
    <2>3. call' = [call EXCEPT ![e] = [call[e] EXCEPT !.pc = "forward", !.target = None]]
        BY <1>11 DEF EngageWake
    <2>4. call' \in [Call -> CallState]
        BY <2>2, <2>3
    <2> QED
        BY <1>11, <2>1, <2>4 DEF EngageWake
<1>12. ASSUME NEW e \in Call, EngageForward(e) PROVE TypeOK'
    BY <1>12 DEF EngageForward, Returned, InHand
<1>13. ASSUME NEW e \in Call, DisengageStop(e) PROVE TypeOK'
    BY <1>13 DEF DisengageStop, Returned
<1>14. ASSUME NEW c \in Collector, LoopStep(c) PROVE TypeOK'
    BY <1>14 DEF LoopStep, LoopWakes, LoopReconciles, LoopEnds
<1>15. CASE UNCHANGED vars
    BY <1>15 DEF vars
<1> QED
    BY <1>1, <1>2, <1>3, <1>4, <1>5, <1>6, <1>7, <1>8, <1>9, <1>10, <1>11, <1>12,
       <1>13, <1>14, <1>15 DEF Next, EngageStep

-----------------------------------------------------------------------------
(* What the calls have in hand.                                            *)

LEMMA InHandNext == TypeOK /\ InHand /\ [Next]_vars => InHand'
<1> SUFFICES ASSUME TypeOK, InHand, [Next]_vars PROVE InHand'
    OBVIOUS
<1> USE DEF TypeOK, CollectorState, CallState, InHand
\* Steps that take no call anywhere, and no collector to another cluster.
<1>0. ASSUME \A e \in Call : /\ call'[e].pc = call[e].pc
                             /\ call'[e].name = call[e].name
                             /\ call'[e].mine = call[e].mine,
             \A c \in Collector : col'[c].name = col[c].name
      PROVE  InHand'
    BY <1>0
<1>1. ASSUME NEW n \in Name, Connect(n) PROVE InHand'
    BY <1>1 DEF Connect
<1>2. ASSUME NEW n \in Name, Disconnect(n) PROVE InHand'
    BY <1>0, <1>2 DEF Disconnect
<1>3. CASE Edit
    BY <1>3 DEF Edit
<1>4. CASE WakeAll
    BY <1>0, <1>4 DEF WakeAll
<1>5. ASSUME NEW e \in Call, NEW n \in Name, EngageCheck(e, n) PROVE InHand'
    BY <1>5 DEF EngageCheck
<1>6. ASSUME NEW e \in Call, NEW n \in Name, Disengage(e, n) PROVE InHand'
    BY <1>6 DEF Disengage, Returned
<1>7. ASSUME NEW e \in Call, EngageConstruct(e) PROVE InHand'
    BY <1>7 DEF EngageConstruct, Available
<1>8. ASSUME NEW e \in Call, EngageFails(e) PROVE InHand'
    BY <1>8 DEF EngageFails, Returned
<1>9. ASSUME NEW e \in Call, EngageInstall(e) PROVE InHand'
    BY <1>9 DEF EngageInstall
<1>10. ASSUME NEW e \in Call, EngageStopDuplicate(e) PROVE InHand'
    BY <1>10 DEF EngageStopDuplicate
<1>11. ASSUME NEW e \in Call, EngageWake(e) PROVE InHand'
    BY <1>11 DEF EngageWake
<1>12. ASSUME NEW e \in Call, EngageForward(e) PROVE InHand'
    BY <1>12 DEF EngageForward, Returned
<1>13. ASSUME NEW e \in Call, DisengageStop(e) PROVE InHand'
    BY <1>13 DEF DisengageStop, Returned
<1>14. ASSUME NEW c \in Collector, LoopStep(c) PROVE InHand'
    BY <1>0, <1>14 DEF LoopStep, LoopWakes, LoopReconciles, LoopEnds
<1>15. CASE UNCHANGED vars
    BY <1>15 DEF vars
<1> QED
    BY <1>1, <1>2, <1>3, <1>4, <1>5, <1>6, <1>7, <1>8, <1>9, <1>10, <1>11, <1>12,
       <1>13, <1>14, <1>15 DEF Next, EngageStep

-----------------------------------------------------------------------------
(* No collector is lost.                                                   *)

\* Where NoOrphan has a live collector.
Kept(c) ==
    \/ collectors[col[c].name] = c
    \/ \E e \in Call : /\ call[e].mine = c
                       /\ call[e].pc \in {"install", "stopDuplicate"}
    \/ \E e \in Call : call[e].pc = "stop" /\ call[e].target = c

LEMMA NoOrphanNext == TypeOK /\ InHand /\ NoOrphan /\ [Next]_vars => NoOrphan'
<1> SUFFICES ASSUME TypeOK, InHand, NoOrphan, [Next]_vars,
                    NEW c \in Collector, Live(c)'
             PROVE  Kept(c)'
    BY DEF NoOrphan, Kept
<1> USE DEF TypeOK, CollectorState, CallState
<1>0. Live(c) => Kept(c)
    BY DEF NoOrphan, Kept
\* Steps that move neither the map nor what the calls hold.
<1>1. ASSUME Live(c), UNCHANGED collectors, col'[c].name = col[c].name,
             \A e \in Call : /\ call'[e].pc = call[e].pc
                             /\ call'[e].mine = call[e].mine
                             /\ call'[e].target = call[e].target
      PROVE  Kept(c)'
    BY <1>0, <1>1 DEF Kept
<1>2. ASSUME NEW n \in Name, Connect(n) PROVE Kept(c)'
    BY <1>1, <1>2 DEF Connect, Live
<1>3. ASSUME NEW n \in Name, Disconnect(n) PROVE Kept(c)'
    BY <1>1, <1>3 DEF Disconnect, Live
<1>4. CASE Edit
    BY <1>1, <1>4 DEF Edit, Live
<1>5. CASE WakeAll
    BY <1>1, <1>5 DEF WakeAll, Live
<1>6. ASSUME NEW d \in Collector, LoopStep(d) PROVE Kept(c)'
    BY <1>1, <1>6 DEF LoopStep, LoopWakes, LoopReconciles, LoopEnds, Live
\* A call whose place and locals were of no account.
<1>7. ASSUME NEW e \in Call, call[e].pc \notin {"install", "stopDuplicate", "stop"},
             Live(c), UNCHANGED collectors, col'[c].name = col[c].name,
             \A o \in Call \ {e} : call'[o] = call[o]
      PROVE  Kept(c)'
    BY <1>0, <1>7 DEF Kept
<1>8. ASSUME NEW e \in Call, NEW n \in Name, EngageCheck(e, n) PROVE Kept(c)'
    BY <1>7, <1>8 DEF EngageCheck, Live
<1>9. ASSUME NEW e \in Call, EngageConstruct(e) PROVE Kept(c)'
    <2>1. PICK d \in Available :
            /\ col' = [col EXCEPT ![d] = [name |-> call[e].name, ended |-> ~call[e].live,
                                          token |-> TRUE, loop |-> "idle"]]
            /\ call' = [call EXCEPT ![e].pc = "install", ![e].mine = d]
        BY <1>9 DEF EngageConstruct
    <2>2. call[e].pc = "construct" /\ UNCHANGED collectors
        BY <1>9 DEF EngageConstruct
    <2>3. CASE c = d
        BY <2>1, <2>3 DEF Kept
    <2>4. CASE c # d
        BY <1>7, <2>1, <2>2, <2>4 DEF Live
    <2> QED
        BY <2>3, <2>4
<1>10. ASSUME NEW e \in Call, EngageFails(e) \/ EngageForward(e) PROVE Kept(c)'
    BY <1>7, <1>10 DEF EngageFails, EngageForward, Live
<1>11. ASSUME NEW e \in Call, EngageInstall(e) PROVE Kept(c)'
    <2>1. Live(c) /\ UNCHANGED col /\ call[e].pc = "install"
        BY <1>11 DEF EngageInstall, Live
    <2>2. CASE collectors[call[e].name] = None
        <3>1. /\ collectors' = [collectors EXCEPT ![call[e].name] = call[e].mine]
              /\ \A o \in Call \ {e} : call'[o] = call[o]
            BY <1>11, <2>2 DEF EngageInstall
        <3>2. CASE call[e].mine = c
            BY <2>1, <3>1, <3>2 DEF InHand, Kept
        <3>3. CASE call[e].mine # c
            BY <1>0, <2>1, <2>2, <3>1, <3>3, NoneAssumption DEF Kept
        <3> QED
            BY <3>2, <3>3
    <2>3. CASE collectors[call[e].name] # None
        <3>1. /\ UNCHANGED collectors
              /\ call'[e].pc = "stopDuplicate" /\ call'[e].mine = call[e].mine
              /\ \A o \in Call \ {e} : call'[o] = call[o]
            BY <1>11, <2>3 DEF EngageInstall
        <3> QED
            BY <1>0, <2>1, <3>1 DEF Kept
    <2> QED
        BY <2>2, <2>3
<1>12. ASSUME NEW e \in Call, EngageStopDuplicate(e) PROVE Kept(c)'
    <2>1. call[e].mine \in Collector /\ call[e].mine # c
        BY <1>12 DEF EngageStopDuplicate, InHand, Live
    <2>2. Live(c) /\ col'[c].name = col[c].name /\ UNCHANGED collectors
        BY <1>12, <2>1 DEF EngageStopDuplicate, Live
    <2>3. call[e].pc = "stopDuplicate" /\ \A o \in Call \ {e} : call'[o] = call[o]
        BY <1>12 DEF EngageStopDuplicate
    <2> QED
        BY <1>0, <2>1, <2>2, <2>3 DEF Kept
<1>13. ASSUME NEW e \in Call, EngageWake(e) PROVE Kept(c)'
    BY <1>7, <1>13 DEF EngageWake, Live
<1>14. ASSUME NEW e \in Call, NEW n \in Name, Disengage(e, n) PROVE Kept(c)'
    <2>1. /\ Live(c) /\ UNCHANGED col /\ call[e].pc = "idle"
          /\ collectors' = [collectors EXCEPT ![n] = None]
          /\ call'[e].pc = "stop" /\ call'[e].target = collectors[n]
          /\ \A o \in Call \ {e} : call'[o] = call[o]
        BY <1>14 DEF Disengage, Returned, Live
    <2> QED
        BY <1>0, <2>1 DEF Kept
<1>15. ASSUME NEW e \in Call, DisengageStop(e) PROVE Kept(c)'
    <2>1. /\ call[e].pc = "stop" /\ UNCHANGED collectors
          /\ \A o \in Call \ {e} : call'[o] = call[o]
        BY <1>15 DEF DisengageStop
    <2>2. call[e].target # c
        BY <1>15 DEF DisengageStop, Live
    <2>3. Live(c) /\ col'[c].name = col[c].name
        BY <1>15, <2>2 DEF DisengageStop, Live
    <2> QED
        BY <1>0, <2>1, <2>2, <2>3 DEF Kept
<1>16. CASE UNCHANGED vars
    BY <1>1, <1>16 DEF vars, Live
<1> QED
    BY <1>2, <1>3, <1>4, <1>5, <1>6, <1>8, <1>9, <1>10, <1>11, <1>12, <1>13, <1>14,
       <1>15, <1>16 DEF Next, EngageStep

-----------------------------------------------------------------------------
(* No wake is lost.                                                        *)

\* What NoLostWake asks of a collector in the map.
Waking(c) == \E e \in Call : call[e].pc = "wake" /\ call[e].target = c
Told(c) == \/ ctl # "idle" \/ col[c].loop # "idle" \/ col[c].token
           \/ Waking(c) \/ c \in current

LEMMA NoLostWakeNext == TypeOK /\ InHand /\ NoLostWake /\ [Next]_vars => NoLostWake'
<1> SUFFICES ASSUME TypeOK, InHand, NoLostWake, [Next]_vars
             PROVE  NoLostWake'
    OBVIOUS
<1>type. TypeOK'
    BY TypeNext
<1> SUFFICES ASSUME NEW n \in Name, NEW c \in Collector, collectors'[n] = c
             PROVE  Told(c)'
    BY <1>type DEF NoLostWake, Told, Waking, TypeOK
<1> USE DEF TypeOK, CollectorState, CallState
<1>0. collectors[n] = c => Told(c)
    BY NoneAssumption DEF NoLostWake, Told, Waking
\* Steps that neither take a token nor a wake away, nor make the plan outdated.
<1>1. ASSUME UNCHANGED <<ctl, collectors>>, c \in current => c \in current',
             col'[c].loop = col[c].loop, col[c].token => col'[c].token,
             Waking(c) => Waking(c)' \/ col'[c].token
      PROVE  Told(c)'
    BY <1>0, <1>1 DEF Told
<1>2. ASSUME NEW m \in Name, Connect(m) PROVE Told(c)'
    BY <1>1, <1>2 DEF Connect, Waking
<1>3. ASSUME NEW m \in Name, Disconnect(m) PROVE Told(c)'
    <2>1. /\ col'[c].loop = col[c].loop /\ col'[c].token = col[c].token
          /\ \A e \in Call : /\ call'[e].pc = call[e].pc
                             /\ call'[e].target = call[e].target
          /\ UNCHANGED <<ctl, collectors, current>>
        BY <1>3 DEF Disconnect
    <2> QED
        BY <1>1, <2>1 DEF Waking
<1>4. CASE Edit
    BY <1>4 DEF Edit, Told
<1>5. CASE WakeAll
    <2>1. c \in Mapped
        BY <1>5, NoneAssumption DEF WakeAll, Mapped
    <2> QED
        BY <1>5, <2>1 DEF WakeAll, Told
\* Of the calls only one that is at "wake" matters.
<1>6. ASSUME NEW e \in Call, call[e].pc # "wake", UNCHANGED <<ctl, collectors>>,
             c \in current => c \in current', col'[c].loop = col[c].loop,
             col[c].token => col'[c].token, \A o \in Call \ {e} : call'[o] = call[o]
      PROVE  Told(c)'
    BY <1>1, <1>6 DEF Waking
<1>7. ASSUME NEW e \in Call, NEW m \in Name, EngageCheck(e, m) PROVE Told(c)'
    BY <1>6, <1>7 DEF EngageCheck
<1>8. ASSUME NEW e \in Call, EngageConstruct(e) PROVE Told(c)'
    <2>1. PICK d \in Available :
            /\ col' = [col EXCEPT ![d] = [name |-> call[e].name, ended |-> ~call[e].live,
                                          token |-> TRUE, loop |-> "idle"]]
            /\ current' = current \ {d}
            /\ call' = [call EXCEPT ![e].pc = "install", ![e].mine = d]
        BY <1>8 DEF EngageConstruct
    <2>2. call[e].pc = "construct" /\ UNCHANGED <<ctl, collectors>>
        BY <1>8 DEF EngageConstruct
    <2>3. d # c
        BY <2>2, NoneAssumption DEF Available, Mapped
    <2> QED
        BY <1>6, <2>1, <2>2, <2>3
<1>9. ASSUME NEW e \in Call, EngageFails(e) \/ EngageForward(e) PROVE Told(c)'
    BY <1>6, <1>9 DEF EngageFails, EngageForward
<1>10. ASSUME NEW e \in Call, EngageInstall(e) PROVE Told(c)'
    <2>1. call[e].pc = "install" /\ UNCHANGED <<ctl, col, current>>
        BY <1>10 DEF EngageInstall
    <2>2. CASE collectors[n] = c
        <3>1. \A o \in Call \ {e} : call'[o] = call[o]
            BY <1>10 DEF EngageInstall
        <3>2. Waking(c) => Waking(c)'
            BY <2>1, <3>1 DEF Waking
        <3> QED
            BY <1>0, <2>1, <2>2, <3>2 DEF Told
    <2>3. CASE collectors[n] # c
        BY <1>10, <2>3 DEF EngageInstall, Told, Waking
    <2> QED
        BY <2>2, <2>3
<1>11. ASSUME NEW e \in Call, EngageStopDuplicate(e) PROVE Told(c)'
    <2>1. /\ UNCHANGED <<ctl, collectors, current>> /\ call[e].pc = "stopDuplicate"
          /\ \A o \in Call \ {e} : call'[o] = call[o]
        BY <1>11 DEF EngageStopDuplicate
    <2>2. col'[c].loop = col[c].loop /\ col'[c].token = col[c].token
        BY <1>11 DEF EngageStopDuplicate
    <2> QED
        BY <1>6, <2>1, <2>2
<1>12. ASSUME NEW e \in Call, EngageWake(e) PROVE Told(c)'
    <2>1. /\ UNCHANGED <<ctl, collectors, current>>
          /\ \A o \in Call \ {e} : call'[o] = call[o]
        BY <1>12 DEF EngageWake
    <2>2. /\ col'[c].loop = col[c].loop
          /\ col[c].token => col'[c].token
          /\ call[e].target = c => col'[c].token
        BY <1>12 DEF EngageWake
    <2>3. Waking(c) => Waking(c)' \/ col'[c].token
        BY <2>1, <2>2 DEF Waking
    <2> QED
        BY <1>1, <2>1, <2>2, <2>3
<1>13. ASSUME NEW e \in Call, NEW m \in Name, Disengage(e, m) PROVE Told(c)'
    <2>1. /\ call[e].pc = "idle" /\ UNCHANGED <<ctl, col, current>>
          /\ \A o \in Call \ {e} : call'[o] = call[o]
          /\ collectors' = [collectors EXCEPT ![m] = None]
        BY <1>13 DEF Disengage
    <2>2. collectors[n] = c
        BY <2>1, NoneAssumption
    <2>3. Waking(c) => Waking(c)'
        BY <2>1 DEF Waking
    <2> QED
        BY <1>0, <2>1, <2>2, <2>3 DEF Told
<1>14. ASSUME NEW e \in Call, DisengageStop(e) PROVE Told(c)'
    <2>1. /\ UNCHANGED <<ctl, collectors, current>> /\ call[e].pc = "stop"
          /\ \A o \in Call \ {e} : call'[o] = call[o]
        BY <1>14 DEF DisengageStop
    <2>2. col'[c].loop = col[c].loop /\ col'[c].token = col[c].token
        BY <1>14 DEF DisengageStop
    <2> QED
        BY <1>6, <2>1, <2>2
<1>15. ASSUME NEW d \in Collector, LoopStep(d) PROVE Told(c)'
    <2>1. UNCHANGED <<ctl, collectors, call>> /\ current \subseteq current'
        BY <1>15 DEF LoopStep, LoopWakes, LoopReconciles, LoopEnds
    <2>2. CASE d = c
        BY <1>15, <2>2 DEF LoopStep, LoopWakes, LoopReconciles, LoopEnds, Told
    <2>3. CASE d # c
        <3>1. col'[c] = col[c]
            BY <1>15, <2>3 DEF LoopStep, LoopWakes, LoopReconciles, LoopEnds
        <3> QED
            BY <1>1, <2>1, <3>1 DEF Waking
    <2> QED
        BY <2>2, <2>3
<1>16. CASE UNCHANGED vars
    BY <1>1, <1>16 DEF vars, Waking
<1> QED
    BY <1>2, <1>3, <1>4, <1>5, <1>7, <1>8, <1>9, <1>10, <1>11, <1>12, <1>13, <1>14,
       <1>15, <1>16 DEF Next, EngageStep

-----------------------------------------------------------------------------
(* The theorems.                                                           *)

LEMMA InvInit == Init => MInv
<1> SUFFICES ASSUME Init PROVE MInv
    OBVIOUS
<1>1. TypeOK
    BY DEF Init, TypeOK, CollectorState, CallState, Unborn, Returned
<1>2. InHand /\ NoOrphan /\ NoLostWake
    BY NoneAssumption DEF Init, InHand, NoOrphan, NoLostWake, Live, Unborn, Returned
<1> QED
    BY <1>1, <1>2 DEF MInv

LEMMA InvNext == MInv /\ [Next]_vars => MInv'
BY TypeNext, InHandNext, NoOrphanNext, NoLostWakeNext DEF MInv

\* MInv holds in every state.
THEOREM Invariance == Spec => []MInv
BY InvInit, InvNext, PTL DEF Spec

\* Type correctness.
THEOREM TypeCorrect == Spec => []TypeOK
<1>1. MInv => TypeOK
    BY DEF MInv
<1> QED
    BY <1>1, Invariance, PTL

\* However many Engage and Disengage calls interleave, over however many clusters,
\* a collector that is live is in the map or in the hands of a call that will
\* install or stop it.
THEOREM NobodyIsOrphaned == Spec => []NoOrphan
<1>1. MInv => NoOrphan
    BY DEF MInv
<1> QED
    BY <1>1, Invariance, PTL

\* A collector in the map that rests, with no wake under way to it, has read the
\* registry as it is.
THEOREM NoWakeIsLost == Spec => []NoLostWake
<1>1. MInv => NoLostWake
    BY DEF MInv
<1> QED
    BY <1>1, Invariance, PTL

=============================================================================
