--------------------------- MODULE OtelRuntimeProofs ---------------------------
(***************************************************************************)
(* Safety of OtelRuntime for every set of names, help texts and policies   *)
(* and every set of refused names.                                         *)
(*                                                                         *)
(* CallbacksAreTracked is inductive. FamiliesFollowRegistry speaks of the  *)
(* worker at rest; Fits and Visited say what it has achieved on its way.   *)
(***************************************************************************)
EXTENDS OtelRuntime, FiniteSetTheorems, WellFoundedInduction, TLAPS

\* The mutex is held while Sync is at its loops.
MutexInSync == mu <=> ctl = "sync"

\* What computeDesired returned is of the registry as it is: only the worker
\* writes it.
Fits(des) ==
    /\ DOMAIN des = {n \in Name : Declared(n) # {}}
    /\ \A n \in DOMAIN des : \E p \in Declared(n) : des[n] = registry[p][n]
DesiredFits == ctl \in {"computed", "sync"} => Fits(desired)

\* The names that Sync has visited are in the map as desired, or refused.
Visited ==
    /\ DOMAIN families \cap Refused = {}
    /\ ctl = "sync" =>
        /\ todo \subseteq DOMAIN desired
        /\ failed = (DOMAIN desired \ todo) \cap Refused
        /\ \A n \in DOMAIN desired \ (todo \cup Refused) :
              n \in DOMAIN families /\ families[n] = desired[n]

OInv == /\ TypeOK /\ CallbacksAreTracked /\ MutexInSync /\ DesiredFits /\ Visited
        /\ FamiliesFollowRegistry

-----------------------------------------------------------------------------
(* Maps.                                                                   *)

LEMMA WithoutType ==
    ASSUME NEW f \in Declarations, NEW n
    PROVE  /\ Without(f, n) \in Declarations
           /\ DOMAIN Without(f, n) = DOMAIN f \ {n}
           /\ \A m \in DOMAIN f \ {n} : Without(f, n)[m] = f[m]
<1>1. DOMAIN f \subseteq Name /\ \A m \in DOMAIN f : f[m] \in Help
    BY DEF Declarations
<1>2. Without(f, n) \in [DOMAIN f \ {n} -> Help]
    BY <1>1 DEF Without
<1>3. DOMAIN f \ {n} \in SUBSET Name
    BY <1>1
<1>4. Without(f, n) \in Declarations
    BY <1>2, <1>3 DEF Declarations
<1> QED
    BY <1>2, <1>4 DEF Without

LEMMA WithType ==
    ASSUME NEW f \in Declarations, NEW n \in Name, NEW h \in Help
    PROVE  /\ With(f, n, h) \in Declarations
           /\ DOMAIN With(f, n, h) = DOMAIN f \cup {n}
           /\ With(f, n, h)[n] = h
           /\ \A m \in DOMAIN f \ {n} : With(f, n, h)[m] = f[m]
<1>1. DOMAIN f \subseteq Name /\ \A m \in DOMAIN f : f[m] \in Help
    BY DEF Declarations
<1>2. With(f, n, h) \in [DOMAIN f \cup {n} -> Help]
    BY <1>1 DEF With
<1>3. DOMAIN f \cup {n} \in SUBSET Name
    BY <1>1
<1>4. With(f, n, h) \in Declarations
    BY <1>2, <1>3 DEF Declarations
<1> QED
    BY <1>2, <1>4 DEF With

LEMMA DeclarationFacts ==
    ASSUME NEW f \in Declarations
    PROVE  DOMAIN f \subseteq Name /\ \A n \in DOMAIN f : f[n] \in Help
BY DEF Declarations

LEMMA NothingFacts == Nothing \in Declarations /\ DOMAIN Nothing = {}
<1>1. Nothing \in [{} -> Help]
    BY DEF Nothing
<1> QED
    BY <1>1 DEF Declarations, Nothing

-----------------------------------------------------------------------------
(* computeDesired.                                                         *)

\* In whatever order, some policy is the first to declare a name.
LEMMA SomeoneIsFirst ==
    ASSUME NEW order \in Orders, NEW T, T \subseteq Policy, T # {}
    PROVE  \E p \in T : \A q \in T : order[p] <= order[q]
<1> DEFINE R == OpToRel(<, Nat)
           ranks == {order[p] : p \in T}
<1>1. \A p \in Policy : order[p] \in Nat
    <2>1. Cardinality(Policy) \in Nat
        BY PolicyAssumption, FS_CardinalityType
    <2> QED
        BY <2>1 DEF Orders
<1>2. ranks \subseteq Nat /\ ranks # {}
    BY <1>1
<1>3. IsWellFoundedOn(R, Nat)
    BY NatLessThanWellFounded
<1>4. \A x, y \in Nat : y < x => <<y, x>> \in R
    BY DEF OpToRel
<1> HIDE DEF ranks, R
<1>5. PICK x \in ranks : \A y \in ranks : <<y, x>> \notin R
    BY <1>2, <1>3, WFMin
<1>6. \A y \in ranks : x <= y
    <2> TAKE y \in ranks
    <2>1. x \in Nat /\ y \in Nat
        BY <1>2, <1>5
    <2>2. <<y, x>> \notin R
        BY <1>5
    <2>3. ~(y < x)
        BY <1>4, <2>1, <2>2
    <2> QED
        BY <2>1, <2>3
<1> QED
    BY <1>5, <1>6 DEF ranks

LEMMA DesiredFitsRegistry ==
    ASSUME TypeOK, NEW order \in Orders
    PROVE  Desired(order) \in Declarations /\ Fits(Desired(order))
<1> DEFINE names == {n \in Name : Declared(n) # {}}
           first(n) == CHOOSE p \in Declared(n) :
                          \A q \in Declared(n) : order[p] <= order[q]
<1>1. \A n \in names : first(n) \in Declared(n)
    <2> TAKE n \in names
    <2>1. Declared(n) \subseteq Policy /\ Declared(n) # {}
        BY DEF Declared
    <2> QED
        BY <2>1, SomeoneIsFirst
<1>2. Desired(order) = [n \in names |-> registry[first(n)][n]]
    BY DEF Desired
<1>3. \A n \in names : registry[first(n)][n] \in Help
    <2> TAKE n \in names
    <2>1. first(n) \in Policy /\ n \in DOMAIN registry[first(n)]
        BY <1>1 DEF Declared
    <2>2. registry[first(n)] \in Declarations
        BY <2>1, PoliciesAssumption DEF TypeOK
    <2> QED
        BY <2>1, <2>2, DeclarationFacts
<1> HIDE DEF first
<1>4. Desired(order) \in [names -> Help] /\ names \in SUBSET Name
    BY <1>2, <1>3
<1> QED
    BY <1>1, <1>2, <1>4 DEF Declarations, Fits

-----------------------------------------------------------------------------
(* Type correctness.                                                       *)

LEMMA TypeInit == Init => TypeOK
<1> SUFFICES ASSUME Init PROVE TypeOK
    OBVIOUS
<1>1. registry \in [Policy -> Policies]
    BY PoliciesAssumption DEF Init
<1>2. callbacks \in [Streams -> Nat]
    BY DEF Init
<1> QED
    BY <1>1, <1>2, NothingFacts DEF Init, TypeOK

\* Unregistering leaves a type-correct map and SDK, provided that the callback
\* was registered.
LEMMA UnregisterType ==
    ASSUME TypeOK, CallbacksAreTracked, NEW n \in DOMAIN families, Unregister(n)
    PROVE  families' \in Declarations /\ callbacks' \in [Streams -> Nat]
<1>1. n \in Name /\ families[n] \in Help
    BY DeclarationFacts DEF TypeOK
<1>2. callbacks[<<n, families[n]>>] = 1
    BY <1>1 DEF CallbacksAreTracked, Streams
<1>3. families' \in Declarations
    BY WithoutType DEF Unregister, TypeOK
<1>4. callbacks' \in [Streams -> Nat]
    BY <1>1, <1>2 DEF Unregister, TypeOK, Streams
<1> QED
    BY <1>3, <1>4

LEMMA TypeNext == TypeOK /\ CallbacksAreTracked /\ Visited /\ [Next]_vars => TypeOK'
<1> SUFFICES ASSUME TypeOK, CallbacksAreTracked, Visited, [Next]_vars PROVE TypeOK'
    OBVIOUS
<1> USE DEF TypeOK
<1>1. ASSUME NEW p \in Policy, NEW decls \in Policies, Upsert(p, decls)
      PROVE TypeOK'
    BY <1>1 DEF Upsert, syncVars
<1>2. CASE ComputeDesired
    BY <1>2, DesiredFitsRegistry DEF ComputeDesired
<1>3. CASE Lock \/ Return
    BY <1>3, DeclarationFacts DEF Lock, Return, syncVars
<1>4. ASSUME NEW n \in Name, DropStale(n) \/ DropDrifted(n)
      PROVE TypeOK'
    <2>1. n \in DOMAIN families /\ Unregister(n)
        BY <1>4 DEF DropStale, DropDrifted, Stale
    <2> QED
        BY <1>4, <2>1, UnregisterType DEF DropStale, DropDrifted, syncVars
<1>5. ASSUME NEW n \in Name, Keep(n) \/ Refuse(n)
      PROVE TypeOK'
    BY <1>5 DEF Keep, Refuse
<1>6. ASSUME NEW n \in Name, Create(n)
      PROVE TypeOK'
    <2>1. desired[n] \in Help
        BY <1>6, DeclarationFacts DEF Create, Visiting, Visited
    <2>2. families' \in Declarations
        BY <1>6, <2>1, WithType DEF Create
    <2>3. callbacks' \in [Streams -> Nat]
        BY <1>6, <2>1 DEF Create, Streams
    <2> QED
        BY <1>6, <2>2, <2>3 DEF Create
<1>7. CASE Shutdown
    <2>1. callbacks' \in [Streams -> Nat]
        <3>1. \A s \in Streams : s[1] \in DOMAIN families /\ s[2] = families[s[1]]
                                    => callbacks[s] = 1
            BY DEF CallbacksAreTracked
        <3> QED
            BY <1>7, <3>1 DEF Shutdown
    <2> QED
        BY <1>7, <2>1, NothingFacts DEF Shutdown, syncVars
<1>8. CASE Collect \/ Collected
    BY <1>8 DEF Collect, Collected, syncVars
<1>9. CASE UNCHANGED vars
    BY <1>9 DEF vars, syncVars
<1> QED
    BY <1>1, <1>2, <1>3, <1>4, <1>5, <1>6, <1>7, <1>8, <1>9 DEF Next, SyncStep

-----------------------------------------------------------------------------
(* One callback per entry.                                                 *)

LEMMA PairByPair ==
    ASSUME NEW cb \in [Streams -> Nat], NEW f,
           \A m \in Name, h \in Help :
               cb[<<m, h>>] = IF m \in DOMAIN f /\ h = f[m] THEN 1 ELSE 0
    PROVE  cb = [s \in Streams |->
                    IF s[1] \in DOMAIN f /\ s[2] = f[s[1]] THEN 1 ELSE 0]
<1>1. ASSUME NEW s \in Streams
      PROVE  cb[s] = IF s[1] \in DOMAIN f /\ s[2] = f[s[1]] THEN 1 ELSE 0
    <2>1. s[1] \in Name /\ s[2] \in Help /\ s = <<s[1], s[2]>>
        BY DEF Streams
    <2> QED
        BY <2>1
<1> QED
    BY <1>1

LEMMA UnregisterTracks ==
    ASSUME TypeOK, CallbacksAreTracked, NEW n \in DOMAIN families, Unregister(n)
    PROVE  CallbacksAreTracked'
<1>1. /\ DOMAIN families' = DOMAIN families \ {n}
      /\ \A m \in DOMAIN families \ {n} : families'[m] = families[m]
    BY WithoutType DEF Unregister, TypeOK
<1>2. n \in Name /\ families[n] \in Help
    BY DeclarationFacts DEF TypeOK
<1>3. callbacks' = [callbacks EXCEPT ![<<n, families[n]>>] = 0]
    <2>1. callbacks[<<n, families[n]>>] = 1
        BY <1>2 DEF CallbacksAreTracked, Streams
    <2> QED
        BY <2>1 DEF Unregister
<1>4. ASSUME NEW m \in Name, NEW h \in Help
      PROVE  callbacks'[<<m, h>>] =
                IF m \in DOMAIN families' /\ h = families'[m] THEN 1 ELSE 0
    <2>1. CASE m = n /\ h = families[n]
        BY <1>1, <1>2, <1>3, <2>1 DEF TypeOK, Streams
    <2>2. CASE ~(m = n /\ h = families[n])
        BY <1>1, <1>2, <1>3, <2>2 DEF TypeOK, Streams, CallbacksAreTracked
    <2> QED
        BY <2>1, <2>2
<1>5. callbacks' \in [Streams -> Nat]
    BY <1>3 DEF TypeOK
<1> QED
    BY <1>4, <1>5, PairByPair DEF CallbacksAreTracked

LEMMA TrackedNext == OInv /\ [Next]_vars => CallbacksAreTracked'
<1> SUFFICES ASSUME OInv, [Next]_vars PROVE CallbacksAreTracked'
    OBVIOUS
<1> USE DEF OInv
<1>0. ASSUME UNCHANGED <<families, callbacks>>
      PROVE CallbacksAreTracked'
    BY <1>0 DEF CallbacksAreTracked
<1>1. ASSUME NEW p \in Policy, NEW decls \in Policies, Upsert(p, decls)
      PROVE CallbacksAreTracked'
    BY <1>0, <1>1 DEF Upsert
<1>2. CASE ComputeDesired \/ Lock \/ Return \/ Collect \/ Collected
    BY <1>0, <1>2 DEF ComputeDesired, Lock, Return, Collect, Collected
<1>3. ASSUME NEW n \in Name, DropStale(n) \/ DropDrifted(n)
      PROVE CallbacksAreTracked'
    BY <1>3, UnregisterTracks DEF DropStale, DropDrifted, Stale
<1>4. ASSUME NEW n \in Name, Keep(n) \/ Refuse(n)
      PROVE CallbacksAreTracked'
    BY <1>0, <1>4 DEF Keep, Refuse
<1>5. ASSUME NEW n \in Name, Create(n)
      PROVE CallbacksAreTracked'
    <2>1. desired[n] \in Help
        BY <1>5, DeclarationFacts DEF Create, Visiting, Visited, TypeOK
    <2>2. /\ DOMAIN families' = DOMAIN families \cup {n}
          /\ families'[n] = desired[n] /\ n \notin DOMAIN families
          /\ \A m \in DOMAIN families : families'[m] = families[m]
        <3>1. families' = With(families, n, desired[n]) /\ n \notin DOMAIN families
            BY <1>5 DEF Create
        <3>2. families \in Declarations
            BY DEF TypeOK
        <3>3. n \in Name
            BY <1>5
        <3>4. /\ DOMAIN With(families, n, desired[n]) = DOMAIN families \cup {n}
              /\ With(families, n, desired[n])[n] = desired[n]
              /\ \A m \in DOMAIN families \ {n} :
                    With(families, n, desired[n])[m] = families[m]
            BY <2>1, <3>2, <3>3, WithType
        <3>5. DOMAIN families \ {n} = DOMAIN families
            BY <3>1
        <3> QED
            BY <3>1, <3>4, <3>5
    <2>3. callbacks' = [callbacks EXCEPT ![<<n, desired[n]>>] = 1]
        <3>1. callbacks[<<n, desired[n]>>] = 0
            BY <2>1, <2>2 DEF CallbacksAreTracked, Streams
        <3> QED
            BY <1>5, <3>1 DEF Create
    <2>4. ASSUME NEW m \in Name, NEW h \in Help
          PROVE  callbacks'[<<m, h>>] =
                    IF m \in DOMAIN families' /\ h = families'[m] THEN 1 ELSE 0
        <3>1. CASE m = n
            BY <2>1, <2>2, <2>3, <3>1 DEF CallbacksAreTracked, TypeOK, Streams
        <3>2. CASE m # n
            BY <2>1, <2>2, <2>3, <3>2 DEF CallbacksAreTracked, TypeOK, Streams
        <3> QED
            BY <3>1, <3>2
    <2>5. callbacks' \in [Streams -> Nat]
        BY <2>3 DEF TypeOK
    <2> QED
        BY <2>4, <2>5, PairByPair DEF CallbacksAreTracked
<1>6. CASE Shutdown
    BY <1>6, NothingFacts DEF Shutdown, CallbacksAreTracked, Streams
<1>7. CASE UNCHANGED vars
    BY <1>0, <1>7 DEF vars
<1> QED
    BY <1>1, <1>2, <1>3, <1>4, <1>5, <1>6, <1>7 DEF Next, SyncStep

-----------------------------------------------------------------------------
(* The worker.                                                             *)

LEMMA MutexNext == OInv /\ [Next]_vars => MutexInSync'
<1> SUFFICES ASSUME OInv, [Next]_vars PROVE MutexInSync'
    OBVIOUS
<1> USE DEF OInv, MutexInSync
<1>1. ASSUME NEW p \in Policy, NEW decls \in Policies, Upsert(p, decls)
      PROVE MutexInSync'
    BY <1>1 DEF Upsert
<1>2. CASE ComputeDesired \/ Lock \/ Return \/ Shutdown \/ Collect \/ Collected
    BY <1>2 DEF ComputeDesired, Lock, Return, Shutdown, Collect, Collected
<1>3. ASSUME NEW n \in Name,
             DropStale(n) \/ Keep(n) \/ DropDrifted(n) \/ Refuse(n) \/ Create(n)
      PROVE MutexInSync'
    BY <1>3 DEF DropStale, Keep, DropDrifted, Refuse, Create
<1>4. CASE UNCHANGED vars
    BY <1>4 DEF vars
<1> QED
    BY <1>1, <1>2, <1>3, <1>4 DEF Next, SyncStep

LEMMA DesiredFitsNext == OInv /\ [Next]_vars => DesiredFits'
<1> SUFFICES ASSUME OInv, [Next]_vars PROVE DesiredFits'
    OBVIOUS
<1> USE DEF OInv
<1>0. ASSUME UNCHANGED <<registry, desired>>,
             ctl' \in {"computed", "sync"} => ctl \in {"computed", "sync"}
      PROVE DesiredFits'
    BY <1>0 DEF DesiredFits, Fits, Declared
<1>1. ASSUME NEW p \in Policy, NEW decls \in Policies, Upsert(p, decls)
      PROVE DesiredFits'
    BY <1>1 DEF Upsert, DesiredFits
<1>2. CASE ComputeDesired
    <2>1. PICK order \in Orders : desired' = Desired(order)
        BY <1>2 DEF ComputeDesired
    <2>2. Fits(desired')
        BY <2>1, DesiredFitsRegistry
    <2>3. registry' = registry
        BY <1>2 DEF ComputeDesired
    <2> QED
        BY <2>2, <2>3 DEF DesiredFits, Fits, Declared
<1>3. CASE Lock \/ Return
    BY <1>0, <1>3 DEF Lock, Return, syncVars
<1>4. CASE Shutdown \/ Collect \/ Collected
    BY <1>0, <1>4 DEF Shutdown, Collect, Collected, syncVars
<1>5. ASSUME NEW n \in Name,
             DropStale(n) \/ Keep(n) \/ DropDrifted(n) \/ Refuse(n) \/ Create(n)
      PROVE DesiredFits'
    BY <1>0, <1>5 DEF DropStale, Keep, DropDrifted, Refuse, Create, syncVars
<1>6. CASE UNCHANGED vars
    BY <1>0, <1>6 DEF vars, syncVars
<1> QED
    BY <1>1, <1>2, <1>3, <1>4, <1>5, <1>6 DEF Next, SyncStep

LEMMA VisitedNext == OInv /\ [Next]_vars => Visited'
<1> SUFFICES ASSUME OInv, [Next]_vars PROVE Visited'
    OBVIOUS
<1> USE DEF OInv
<1>0. ASSUME UNCHANGED <<families, syncVars>>, ctl' = "sync" => ctl = "sync"
      PROVE Visited'
    BY <1>0 DEF Visited, syncVars
<1>1. ASSUME NEW p \in Policy, NEW decls \in Policies, Upsert(p, decls)
      PROVE Visited'
    BY <1>1 DEF Upsert, Visited
<1>2. CASE ComputeDesired \/ Return
    BY <1>2 DEF ComputeDesired, Return, Visited
<1>3. CASE Lock
    BY <1>3 DEF Lock, Visited
<1>4. CASE Collect \/ Collected
    BY <1>0, <1>4 DEF Collect, Collected
<1>5. CASE Shutdown
    <2>1. ctl' # "sync"
        BY <1>5 DEF Shutdown, MutexInSync
    <2> QED
        BY <1>5, <2>1, NothingFacts DEF Shutdown, Visited
<1>6. ASSUME NEW n \in DOMAIN families, Unregister(n)
      PROVE  /\ DOMAIN families' = DOMAIN families \ {n}
             /\ \A m \in DOMAIN families \ {n} : families'[m] = families[m]
    BY <1>6, WithoutType DEF Unregister, TypeOK
<1>7. ASSUME NEW n \in Name, DropStale(n) \/ DropDrifted(n)
      PROVE Visited'
    <2>1. n \in DOMAIN families /\ Unregister(n) /\ UNCHANGED syncVars /\ ctl = "sync"
        BY <1>7 DEF DropStale, DropDrifted, Stale, Visiting
    <2>2. n \notin DOMAIN desired \ (todo \cup Refused)
        BY <1>7 DEF DropStale, DropDrifted, Stale, Visiting
    <2>3. /\ DOMAIN families' = DOMAIN families \ {n}
          /\ \A m \in DOMAIN families \ {n} : families'[m] = families[m]
        BY <1>6, <2>1
    <2> QED
        BY <2>1, <2>2, <2>3 DEF Visited, syncVars
<1>8. ASSUME NEW n \in Name, Keep(n)
      PROVE Visited'
    <2>1. n \notin Refused /\ n \in todo /\ n \in DOMAIN families /\ families[n] = desired[n]
        BY <1>8 DEF Keep, Visiting, Visited
    <2>2. todo' = todo \ {n} /\ UNCHANGED <<ctl, desired, failed, families>> /\ ctl = "sync"
        BY <1>8 DEF Keep, Visiting
    <2> QED
        BY <2>1, <2>2 DEF Visited
<1>9. ASSUME NEW n \in Name, Refuse(n)
      PROVE Visited'
    <2>1. n \in Refused /\ n \in todo
        BY <1>9 DEF Refuse, Visiting
    <2>2. /\ todo' = todo \ {n} /\ failed' = failed \cup {n}
          /\ UNCHANGED <<ctl, desired, families>> /\ ctl = "sync"
        BY <1>9 DEF Refuse, Visiting
    <2> QED
        BY <2>1, <2>2 DEF Visited
<1>10. ASSUME NEW n \in Name, Create(n)
       PROVE Visited'
    <2>1. n \notin Refused /\ n \in todo /\ n \notin DOMAIN families
        BY <1>10 DEF Create, Visiting
    <2>2. desired[n] \in Help
        BY <1>10, DeclarationFacts DEF Create, Visiting, Visited, TypeOK
    <2>3. families' = With(families, n, desired[n])
        BY <1>10 DEF Create
    <2>4. /\ DOMAIN families' = DOMAIN families \cup {n}
          /\ families'[n] = desired[n]
          /\ \A m \in DOMAIN families \ {n} : families'[m] = families[m]
        <3>1. families \in Declarations
            BY DEF TypeOK
        <3>2. /\ DOMAIN With(families, n, desired[n]) = DOMAIN families \cup {n}
              /\ With(families, n, desired[n])[n] = desired[n]
              /\ \A m \in DOMAIN families \ {n} :
                    With(families, n, desired[n])[m] = families[m]
            BY <1>10, <2>2, <3>1, WithType
        <3> QED
            BY <2>3, <3>2
    <2>5. todo' = todo \ {n} /\ UNCHANGED <<ctl, desired, failed>> /\ ctl = "sync"
        BY <1>10 DEF Create, Visiting
    <2> QED
        BY <2>1, <2>4, <2>5 DEF Visited
<1>11. CASE UNCHANGED vars
    BY <1>0, <1>11 DEF vars, syncVars
<1> QED
    BY <1>1, <1>2, <1>3, <1>4, <1>5, <1>7, <1>8, <1>9, <1>10, <1>11 DEF Next, SyncStep

LEMMA FollowNext == OInv /\ [Next]_vars => FamiliesFollowRegistry'
<1> SUFFICES ASSUME OInv, [Next]_vars PROVE FamiliesFollowRegistry'
    OBVIOUS
<1> USE DEF OInv
<1>0. ASSUME ctl' # "idle"
      PROVE FamiliesFollowRegistry'
    BY <1>0 DEF FamiliesFollowRegistry
<1>1. ASSUME UNCHANGED <<registry, ctl, erred, families, shut>>
      PROVE FamiliesFollowRegistry'
    BY <1>1 DEF FamiliesFollowRegistry, Declared
<1>2. ASSUME NEW p \in Policy, NEW decls \in Policies, Upsert(p, decls)
      PROVE FamiliesFollowRegistry'
    BY <1>0, <1>2 DEF Upsert
<1>3. CASE ComputeDesired \/ Lock
    BY <1>0, <1>3 DEF ComputeDesired, Lock
<1>4. ASSUME NEW n \in Name,
             DropStale(n) \/ Keep(n) \/ DropDrifted(n) \/ Refuse(n) \/ Create(n)
      PROVE FamiliesFollowRegistry'
    BY <1>0, <1>4 DEF DropStale, Keep, DropDrifted, Refuse, Create, Visiting
<1>5. CASE Return
    <2>1. /\ DOMAIN desired = {n \in Name : Declared(n) # {}}
          /\ \A n \in DOMAIN desired : \E p \in Declared(n) : desired[n] = registry[p][n]
        BY <1>5 DEF Return, DesiredFits, Fits
    <2>2. /\ DOMAIN families \subseteq DOMAIN desired \ Refused
          /\ failed = DOMAIN desired \cap Refused
          /\ \A n \in DOMAIN desired \ Refused :
                n \in DOMAIN families /\ families[n] = desired[n]
        BY <1>5 DEF Return, Stale, Visited
    <2>3. erred' <=> \E n \in Refused : Declared(n) # {}
        BY <1>5, <2>1, <2>2, RefusedAssumption DEF Return
    <2>4. DOMAIN families = {n \in Name : Declared(n) # {}} \ Refused
        BY <2>1, <2>2
    <2>5. \A n \in DOMAIN families : \E p \in Declared(n) : families[n] = registry[p][n]
        BY <2>1, <2>2
    <2>6. UNCHANGED <<registry, families, shut>>
        BY <1>5 DEF Return
    <2> QED
        BY <2>3, <2>4, <2>5, <2>6 DEF FamiliesFollowRegistry, Declared
<1>6. CASE Shutdown
    <2>1. families' = Nothing /\ shut' /\ UNCHANGED <<registry, ctl, erred>>
        BY <1>6 DEF Shutdown
    <2> QED
        BY <2>1, NothingFacts DEF FamiliesFollowRegistry, Declared
<1>7. CASE Collect \/ Collected
    BY <1>1, <1>7 DEF Collect, Collected
<1>8. CASE UNCHANGED vars
    BY <1>1, <1>8 DEF vars
<1> QED
    BY <1>2, <1>3, <1>4, <1>5, <1>6, <1>7, <1>8 DEF Next, SyncStep

-----------------------------------------------------------------------------
(* The theorems.                                                           *)

LEMMA InvInit == Init => OInv
<1> SUFFICES ASSUME Init PROVE OInv
    OBVIOUS
<1>1. TypeOK
    BY TypeInit
<1>2. CallbacksAreTracked
    BY NothingFacts DEF Init, CallbacksAreTracked
<1>3. MutexInSync /\ DesiredFits /\ Visited
    BY NothingFacts DEF Init, MutexInSync, DesiredFits, Visited
<1>4. \A n \in Name : Declared(n) = {}
    BY NothingFacts DEF Init, Declared
<1>5. FamiliesFollowRegistry
    BY <1>4, NothingFacts, RefusedAssumption DEF Init, FamiliesFollowRegistry
<1> QED
    BY <1>1, <1>2, <1>3, <1>5 DEF OInv

LEMMA InvNext == OInv /\ [Next]_vars => OInv'
<1> SUFFICES ASSUME OInv, [Next]_vars PROVE OInv'
    OBVIOUS
<1>1. TypeOK'
    BY TypeNext DEF OInv
<1> QED
    BY <1>1, TrackedNext, MutexNext, DesiredFitsNext, VisitedNext, FollowNext DEF OInv

\* OInv holds in every state: what Sync has done so far is always what the
\* registry, which does not change under it, asks for.
THEOREM Invariance == Spec => []OInv
BY InvInit, InvNext, PTL DEF Spec

\* Type correctness, with every registration undone at most once.
THEOREM TypeCorrect == Spec => []TypeOK
<1>1. OInv => TypeOK
    BY DEF OInv
<1> QED
    BY <1>1, Invariance, PTL

\* The SDK holds one callback for each entry of the map and no other, at every
\* instant, Sync, Shutdown and the reader interleaved in any way.
THEOREM EveryCallbackIsTracked == Spec => []CallbacksAreTracked
<1>1. OInv => CallbacksAreTracked
    BY DEF OInv
<1> QED
    BY <1>1, Invariance, PTL

\* When the worker rests, the families exported are those the registry declares
\* and the SDK accepts, and Sync's error tells whether one was refused.
THEOREM FamiliesFollow == Spec => []FamiliesFollowRegistry
<1>1. OInv => FamiliesFollowRegistry
    BY DEF OInv
<1> QED
    BY <1>1, Invariance, PTL

\* Sync never takes down the instrument of a family on whose help text the
\* registry's policies agree and which it has right.
THEOREM AgreedFamiliesStay == Spec => AgreedStays
<1> DEFINE Kept == \A n \in DOMAIN families :
                      AgreedHelp(n, families[n]) /\ ctl = "sync"
                        => n \in DOMAIN families' /\ families'[n] = families[n]
<1>1. OInv /\ [Next]_vars => [Kept]_vars
    <2> SUFFICES ASSUME OInv, Next,
                        NEW n \in DOMAIN families, AgreedHelp(n, families[n]), ctl = "sync"
                 PROVE  n \in DOMAIN families' /\ families'[n] = families[n]
        OBVIOUS
    <2> USE DEF OInv
    <2>1. n \in Name
        BY DeclarationFacts DEF TypeOK
    <2>2. n \in DOMAIN desired /\ desired[n] = families[n]
        BY <2>1 DEF AgreedHelp, DesiredFits, Fits
    <2>3. CASE \/ \E p \in Policy, decls \in Policies : Upsert(p, decls)
               \/ ComputeDesired \/ Lock \/ Return \/ Collect \/ Collected
        BY <2>3 DEF Upsert, ComputeDesired, Lock, Return, Collect, Collected
    <2>4. CASE Shutdown
        BY <2>4 DEF Shutdown, MutexInSync
    <2>5. ASSUME NEW m \in Name, DropStale(m) \/ DropDrifted(m)
          PROVE  n \in DOMAIN families' /\ families'[n] = families[n]
        <3>1. m # n
            BY <2>2, <2>5 DEF DropStale, DropDrifted, Stale
        <3>2. m \in DOMAIN families /\ Unregister(m)
            BY <2>5 DEF DropStale, DropDrifted, Stale
        <3> QED
            BY <3>1, <3>2, WithoutType DEF Unregister, TypeOK
    <2>6. ASSUME NEW m \in Name, Keep(m) \/ Refuse(m)
          PROVE  n \in DOMAIN families' /\ families'[n] = families[n]
        BY <2>6 DEF Keep, Refuse
    <2>7. ASSUME NEW m \in Name, Create(m)
          PROVE  n \in DOMAIN families' /\ families'[n] = families[n]
        <3>1. m # n /\ families' = With(families, m, desired[m])
            BY <2>7 DEF Create
        <3>2. desired[m] \in Help
            BY <2>7, DeclarationFacts DEF Create, Visiting, Visited, TypeOK
        <3>3. families \in Declarations
            BY DEF TypeOK
        <3>4. /\ DOMAIN With(families, m, desired[m]) = DOMAIN families \cup {m}
              /\ \A k \in DOMAIN families \ {m} :
                    With(families, m, desired[m])[k] = families[k]
            BY <3>2, <3>3, WithType
        <3> QED
            BY <3>1, <3>4
    <2> QED
        BY <2>3, <2>4, <2>5, <2>6, <2>7 DEF Next, SyncStep
<1> QED
    BY <1>1, Invariance, PTL DEF Spec, AgreedStays

=============================================================================
