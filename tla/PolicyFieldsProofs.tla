--------------------------- MODULE PolicyFieldsProofs ---------------------------
(***************************************************************************)
(* Proofs about PolicyFields, for any syntax trees the type checker lets   *)
(* through, any objects, other paths and limit.                            *)
(*                                                                         *)
(* What a tree reads and evaluates to, and what is trimmed of an object,   *)
(* are recursive functions. Each satisfies its equation because what it    *)
(* recurses over is well founded (Recursion); what it returns is then      *)
(* shown by induction over a set of numbers.                               *)
(***************************************************************************)
EXTENDS PolicyFields, FiniteSetTheorems, SequenceTheorems, WellFoundedInduction, TLAPS

-----------------------------------------------------------------------------
(* Recursion.                                                              *)

\* Every set of numbers that is not empty has a least element.
LEMMA Least ==
    ASSUME NEW T, T \subseteq Nat, T # {}
    PROVE  \E n \in T : \A k \in T : ~ (k < n)
<1> DEFINE R == OpToRel(<, Nat)
<1>1. IsWellFoundedOn(R, Nat)
    BY NatLessThanWellFounded
<1>2. PICK x \in T : \A y \in T : ~ (<<y, x>> \in R)
    <2> HIDE DEF R
    <2> QED
        BY <1>1, WFMin
<1>3. ASSUME NEW y \in T, y < x PROVE <<y, x>> \in R
    <2>1. <<y, x>> \in {ss \in Nat \X Nat : ss[1] < ss[2]}
        BY <1>3
    <2> QED
        BY <2>1 DEF OpToRel
<1> HIDE DEF R
<1> QED
    BY <1>2, <1>3

\* Induction over a set of numbers.
LEMMA Induction ==
    ASSUME NEW S, 0 \in S, \A n \in Nat : n \in S => n + 1 \in S
    PROVE  \A n \in Nat : n \in S
<1> DEFINE T == Nat \ S
<1>1. SUFFICES ASSUME T # {} PROVE FALSE
    OBVIOUS
<1>2. PICK x \in T : \A y \in T : ~ (y < x)
    <2>1. T \subseteq Nat
        OBVIOUS
    <2> HIDE DEF T
    <2> QED
        BY <1>1, <2>1, Least
<1>3. x \in Nat /\ x \notin S
    BY <1>2
<1>4. x # 0
    BY <1>3
<1>5. x - 1 \in Nat /\ x - 1 < x /\ x - 1 + 1 = x
    BY <1>3, <1>4
<1>6. x - 1 \in S
    BY <1>2, <1>5
<1> QED
    BY <1>3, <1>5, <1>6

\* A domain in levels: nothing is in the first, and each holds the one before.
Levels(T, L) ==
    /\ L \in [Nat -> SUBSET T]
    /\ L[0] = {}
    /\ \A n \in Nat : L[n] \subseteq L[n + 1]
    /\ \A e \in T : \E n \in Nat : e \in L[n]

Agree(D, f, g) == \A d \in D : f[d] = g[d]

\* A step of a recursion looks at values of lower levels only.
LooksBelow(T, S, L, H) ==
    \A n \in Nat : \A e \in L[n + 1] : \A f, g \in [T -> S] :
        Agree(L[n], f, g) => H[e][f] = H[e][g]

Solves(D, H, f) == \A e \in D : f[e] = H[e][f]

LEMMA LevelsGrow ==
    ASSUME NEW T, NEW L, Levels(T, L), NEW m \in Nat, NEW n \in Nat, m <= n
    PROVE  L[m] \subseteq L[n]
<1> DEFINE I == {k \in Nat : L[m] \subseteq L[m + k]}
<1>1. 0 \in I
    BY DEF Levels
<1>2. ASSUME NEW k \in Nat, k \in I PROVE k + 1 \in I
    <2>1. m + k \in Nat /\ m + (k + 1) = (m + k) + 1
        OBVIOUS
    <2> QED
        BY <1>2, <2>1 DEF Levels
<1> HIDE DEF I
<1>3. \A k \in Nat : k \in I
    BY <1>1, <1>2, Induction
<1>4. n - m \in Nat /\ m + (n - m) = n
    OBVIOUS
<1> QED
    BY <1>3, <1>4 DEF I

LEMMA SolutionsAgree ==
    ASSUME NEW T, NEW S, NEW L, NEW H, Levels(T, L), LooksBelow(T, S, L, H),
           NEW n \in Nat, NEW f \in [T -> S], NEW g \in [T -> S],
           Solves(L[n], H, f), Solves(L[n], H, g)
    PROVE  Agree(L[n], f, g)
<1> DEFINE I == {k \in Nat : k <= n => Agree(L[k], f, g)}
<1>1. 0 \in I
    BY DEF Levels, Agree
<1>2. ASSUME NEW k \in Nat, k \in I PROVE k + 1 \in I
    <2>1. SUFFICES ASSUME k + 1 <= n, NEW e \in L[k + 1] PROVE f[e] = g[e]
        BY DEF Agree
    <2>2. Agree(L[k], f, g)
        BY <1>2, <2>1
    <2>3. H[e][f] = H[e][g]
        BY <2>2 DEF LooksBelow
    <2>4. e \in L[n]
        BY <2>1, LevelsGrow
    <2> QED
        BY <2>3, <2>4 DEF Solves
<1> HIDE DEF I
<1>3. n \in I
    BY <1>1, <1>2, Induction
<1> QED
    BY <1>3 DEF I

LEMMA LevelSolved ==
    ASSUME NEW T, NEW S, NEW L, NEW s \in S, NEW H \in [T -> [[T -> S] -> S]],
           Levels(T, L), LooksBelow(T, S, L, H), NEW n \in Nat
    PROVE  \E f \in [T -> S] : Solves(L[n], H, f)
<1> DEFINE I == {k \in Nat : \E f \in [T -> S] : Solves(L[k], H, f)}
<1>1. 0 \in I
    <2>1. [e \in T |-> s] \in [T -> S] /\ Solves(L[0], H, [e \in T |-> s])
        BY DEF Levels, Solves
    <2> QED
        BY <2>1
<1>2. ASSUME NEW k \in Nat, k \in I PROVE k + 1 \in I
    <2>1. PICK f \in [T -> S] : Solves(L[k], H, f)
        BY <1>2
    <2> DEFINE g == [e \in T |-> H[e][f]]
    <2>2. g \in [T -> S]
        OBVIOUS
    <2>3. L[k] \subseteq T /\ L[k + 1] \subseteq T
        BY DEF Levels
    <2>4. Agree(L[k], f, g)
        BY <2>1, <2>3 DEF Solves, Agree
    <2>5. ASSUME NEW e \in L[k + 1] PROVE g[e] = H[e][g]
        <3>1. g[e] = H[e][f]
            BY <2>3
        <3> HIDE DEF g
        <3> QED
            BY <2>2, <2>4, <3>1 DEF LooksBelow
    <2> HIDE DEF g
    <2> QED
        BY <2>2, <2>5 DEF Solves
<1> HIDE DEF I
<1>3. n \in I
    BY <1>1, <1>2, Induction
<1> QED
    BY <1>3 DEF I

\* A recursion whose every step looks at lower levels only has a solution.
LEMMA Recursion ==
    ASSUME NEW T, NEW S, NEW L, NEW s \in S, NEW H \in [T -> [[T -> S] -> S]],
           Levels(T, L), LooksBelow(T, S, L, H)
    PROVE  \E f \in [T -> S] : Solves(T, H, f)
<1> DEFINE F == [n \in Nat |-> CHOOSE f \in [T -> S] : Solves(L[n], H, f)]
           at == [e \in T |-> CHOOSE n \in Nat : e \in L[n]]
           sol == [e \in T |-> F[at[e]][e]]
<1>1. ASSUME NEW n \in Nat PROVE F[n] \in [T -> S] /\ Solves(L[n], H, F[n])
    BY LevelSolved
<1>2. ASSUME NEW e \in T PROVE at[e] \in Nat /\ e \in L[at[e]]
    BY DEF Levels
<1>3. ASSUME NEW e \in T PROVE sol[e] = F[at[e]][e]
    OBVIOUS
<1> HIDE DEF F, at
<1>4. sol \in [T -> S]
    BY <1>1, <1>2
<1> HIDE DEF sol
<1>5. ASSUME NEW n \in Nat PROVE Agree(L[n], sol, F[n])
    <2> SUFFICES ASSUME NEW e \in L[n] PROVE sol[e] = F[n][e]
        BY DEF Agree
    <2>1. e \in T
        BY DEF Levels
    <2>2. at[e] \in Nat /\ e \in L[at[e]] /\ sol[e] = F[at[e]][e]
        BY <1>2, <1>3, <2>1
    <2>3. PICK k \in {n, at[e]} : k <= n /\ k <= at[e]
        BY <2>2
    <2>4. k \in Nat /\ e \in L[k]
        BY <2>2, <2>3
    <2>5. L[k] \subseteq L[n] /\ L[k] \subseteq L[at[e]]
        BY <2>2, <2>3, <2>4, LevelsGrow
    <2>6. Solves(L[k], H, F[n]) /\ Solves(L[k], H, F[at[e]])
        BY <1>1, <2>2, <2>5 DEF Solves
    <2>7. Agree(L[k], F[n], F[at[e]])
        BY <1>1, <2>2, <2>4, <2>6, SolutionsAgree
    <2> QED
        BY <2>2, <2>4, <2>7 DEF Agree
<1>6. ASSUME NEW e \in T PROVE sol[e] = H[e][sol]
    <2>1. at[e] \in Nat /\ at[e] # 0 /\ e \in L[at[e]]
        BY <1>2 DEF Levels
    <2>2. PICK n \in Nat : at[e] = n + 1
        <3>1. \A k \in Nat : k # 0 => k - 1 \in Nat /\ k = (k - 1) + 1
            OBVIOUS
        <3> QED
            BY <2>1, <3>1
    <2>3. e \in L[n + 1] /\ L[n] \subseteq L[n + 1] /\ n + 1 \in Nat
        BY <2>1, <2>2 DEF Levels
    <2>4. Agree(L[n], sol, F[n + 1])
        BY <1>5, <2>3 DEF Agree
    <2>5. H[e][sol] = H[e][F[n + 1]]
        BY <1>1, <1>4, <2>3, <2>4 DEF LooksBelow
    <2>6. F[n + 1][e] = H[e][F[n + 1]]
        BY <1>1, <2>3 DEF Solves
    <2> QED
        BY <1>3, <2>2, <2>5, <2>6
<1> QED
    BY <1>4, <1>6 DEF Solves

-----------------------------------------------------------------------------
(* Recursion over syntax trees.                                            *)

Below(e) == {d \in Trees : Depth[d] < Depth[e]}

\* What is shown of a tree from what is below it holds of every tree.
LEMMA TreeInduction ==
    ASSUME NEW Q, \A e \in Trees : Below(e) \subseteq Q => e \in Q
    PROVE  Trees \subseteq Q
<1> DEFINE I == {n \in Nat : \A e \in Trees : Depth[e] < n => e \in Q}
<1>0. \A e \in Trees : Depth[e] \in Nat
    BY TreesAssumption
<1>1. 0 \in I
    BY <1>0
<1>2. ASSUME NEW n \in Nat, n \in I PROVE n + 1 \in I
    <2>1. SUFFICES ASSUME NEW e \in Trees, Depth[e] < n + 1 PROVE e \in Q
        OBVIOUS
    <2>2. \A d \in Below(e) : d \in Trees /\ Depth[d] < n
        BY <1>0, <2>1 DEF Below
    <2> QED
        BY <1>2, <2>2
<1> HIDE DEF I
<1>3. \A n \in Nat : n \in I
    BY <1>1, <1>2, Induction
<1>4. ASSUME NEW e \in Trees PROVE e \in Q
    <2>1. Depth[e] + 1 \in Nat /\ Depth[e] < Depth[e] + 1
        BY <1>0
    <2>2. Depth[e] + 1 \in I
        BY <1>3, <2>1
    <2> QED
        BY <2>1, <2>2 DEF I
<1> QED
    BY <1>4

LEMMA TreeRecursion ==
    ASSUME NEW S, NEW s \in S, NEW H \in [Trees -> [[Trees -> S] -> S]],
           \A e \in Trees : \A f, g \in [Trees -> S] :
               Agree(Below(e), f, g) => H[e][f] = H[e][g]
    PROVE  \E f \in [Trees -> S] : Solves(Trees, H, f)
<1> DEFINE L == [n \in Nat |-> {e \in Trees : Depth[e] < n}]
<1>0. \A e \in Trees : Depth[e] \in Nat
    BY TreesAssumption
<1>1. \A n \in Nat : L[n] = {e \in Trees : Depth[e] < n}
    OBVIOUS
<1>2. L \in [Nat -> SUBSET Trees]
    OBVIOUS
<1> HIDE DEF L
<1>3. L[0] = {} /\ \A n \in Nat : L[n] \subseteq L[n + 1]
    BY <1>0, <1>1
<1>4. ASSUME NEW e \in Trees PROVE \E n \in Nat : e \in L[n]
    <2>1. Depth[e] + 1 \in Nat /\ Depth[e] < Depth[e] + 1
        BY <1>0
    <2> QED
        BY <1>1, <2>1
<1>5. Levels(Trees, L)
    BY <1>2, <1>3, <1>4 DEF Levels
<1>6. LooksBelow(Trees, S, L, H)
    <2>1. SUFFICES ASSUME NEW n \in Nat, NEW e \in L[n + 1], NEW f \in [Trees -> S],
                          NEW g \in [Trees -> S], Agree(L[n], f, g)
                   PROVE  H[e][f] = H[e][g]
        BY DEF LooksBelow
    <2>2. e \in Trees /\ Depth[e] < n + 1
        BY <1>1
    <2>3. Below(e) \subseteq L[n]
        BY <1>0, <1>1, <2>2 DEF Below
    <2>4. Agree(Below(e), f, g)
        BY <2>1, <2>3 DEF Agree
    <2> QED
        BY <2>2, <2>4
<1> QED
    BY <1>5, <1>6, Recursion

\* The subtrees of a tree, its operand and the body of a comprehension are below it.
LEMMA ArgsBelow ==
    ASSUME NEW e \in Trees
    PROVE  /\ e.args \in Seq(Trees) /\ e.kind \in Kinds
           /\ e.kind \in Selects \cup {"map"} => e.name \in Name
           /\ e = Tree(e.kind, e.name, e.args)
           /\ \A i \in DOMAIN e.args : e.args[i] \in Below(e) /\ e.args[i] \in Trees
<1>1. WellTyped(e)
    BY TreesAssumption
<1>2. e.args \in Seq(Trees)
    BY <1>1 DEF WellTyped
<1>3. \A i \in DOMAIN e.args : e.args[i] \in Trees
    BY <1>2
<1> QED
    BY <1>1, <1>2, <1>3 DEF WellTyped, Below

LEMMA OperandBelow ==
    ASSUME NEW e \in Trees, e.kind \in Selects
    PROVE  /\ Len(e.args) = 1 /\ 1 \in DOMAIN e.args
           /\ e.args[1] \in Below(e) /\ e.args[1] \in Trees
           /\ e.args[1].kind \in {"ident", "select", "call", "map"}
<1>1. WellTyped(e)
    BY TreesAssumption
<1>2. Len(e.args) = 1 /\ e.args[1].kind \in {"ident", "select", "call", "map"}
    BY <1>1 DEF WellTyped
<1>3. 1 \in DOMAIN e.args
    BY <1>2, ArgsBelow
<1> QED
    BY <1>2, <1>3, ArgsBelow

LEMMA BodyBelow ==
    ASSUME NEW e \in Trees, e.kind = "each"
    PROVE  /\ 1 \in DOMAIN e.args /\ 2 \in DOMAIN e.args /\ 2 \in DOMAIN e.args[2].args
           /\ e.args[2].args[2] \in Below(e) /\ e.args[2].args[2] \in Trees
<1>1. WellTyped(e)
    BY TreesAssumption
<1>2. Len(e.args) = 2 /\ Len(e.args[2].args) = 2
    BY <1>1 DEF WellTyped
<1>3. 1 \in DOMAIN e.args /\ 2 \in DOMAIN e.args
    BY <1>2, ArgsBelow
<1>4. e.args[2] \in Trees /\ e.args[2] \in Below(e)
    BY <1>3, ArgsBelow
<1>5. 2 \in DOMAIN e.args[2].args
    BY <1>2, <1>4, ArgsBelow
<1>6. e.args[2].args[2] \in Trees /\ e.args[2].args[2] \in Below(e.args[2])
    BY <1>4, <1>5, ArgsBelow
<1>7. \A d \in Trees : Depth[d] \in Nat
    BY TreesAssumption
<1> QED
    BY <1>3, <1>4, <1>5, <1>6, <1>7 DEF Below

-----------------------------------------------------------------------------
(* What a tree reads.                                                      *)

ReadSets == [Seq(Name) -> SUBSET Seq(Name)]
Reads(e, f) == [rest \in Seq(Name) |->
    IF e = Object THEN {rest}
    ELSE IF e.kind \in Selects THEN f[e.args[1]][<<e.name>> \o rest]
    ELSE UNION {f[e.args[i]][<<>>] : i \in DOMAIN e.args}]

LEMMA ReadsType ==
    ASSUME NEW e \in Trees, NEW f, \A d \in Below(e) : f[d] \in ReadSets
    PROVE  Reads(e, f) \in ReadSets
<1> SUFFICES ASSUME NEW rest \in Seq(Name)
             PROVE  Reads(e, f)[rest] \in SUBSET Seq(Name)
    BY DEF Reads, ReadSets
<1>1. CASE e = Object
    BY <1>1 DEF Reads
<1>2. CASE e # Object /\ e.kind \in Selects
    <2>1. f[e.args[1]] \in ReadSets
        BY <1>2, OperandBelow
    <2>2. <<e.name>> \o rest \in Seq(Name)
        <3>1. e.name \in Name
            BY <1>2, ArgsBelow
        <3> QED
            BY <3>1
    <2>3. f[e.args[1]][<<e.name>> \o rest] \in SUBSET Seq(Name)
        BY <2>1, <2>2 DEF ReadSets
    <2> QED
        BY <1>2, <2>3 DEF Reads
<1>3. CASE e # Object /\ e.kind \notin Selects
    <2>1. ASSUME NEW i \in DOMAIN e.args
          PROVE  f[e.args[i]][<<>>] \in SUBSET Seq(Name)
        <3>1. f[e.args[i]] \in [Seq(Name) -> SUBSET Seq(Name)]
            BY ArgsBelow DEF ReadSets
        <3>2. <<>> \in Seq(Name)
            OBVIOUS
        <3> QED
            BY <3>1, <3>2
    <2>2. Reads(e, f)[rest] = UNION {f[e.args[i]][<<>>] : i \in DOMAIN e.args}
        BY <1>3 DEF Reads
    <2> QED
        BY <2>1, <2>2
<1> QED
    BY <1>1, <1>2, <1>3

LEMMA PathsReadIs ==
    /\ \A e \in Trees : PathsRead[e] \in ReadSets
    /\ \A e \in Trees : PathsRead[e] = Reads(e, PathsRead)
<1> DEFINE H == [e \in Trees |-> [f \in [Trees -> ReadSets] |-> Reads(e, f)]]
           R(f) == f = [e \in Trees |-> Reads(e, f)]
<1>1. H \in [Trees -> [[Trees -> ReadSets] -> ReadSets]]
    <2>1. ASSUME NEW e \in Trees, NEW f \in [Trees -> ReadSets]
          PROVE  Reads(e, f) \in ReadSets
        BY ReadsType DEF Below
    <2> QED
        BY <2>1
<1>2. ASSUME NEW e \in Trees, NEW f \in [Trees -> ReadSets], NEW g \in [Trees -> ReadSets],
             Agree(Below(e), f, g)
      PROVE  H[e][f] = H[e][g]
    <2>1. \A i \in DOMAIN e.args : f[e.args[i]] = g[e.args[i]]
        BY <1>2, ArgsBelow DEF Agree
    <2>2. e.kind \in Selects => f[e.args[1]] = g[e.args[1]]
        BY <2>1, OperandBelow
    <2>3. UNION {f[e.args[i]][<<>>] : i \in DOMAIN e.args}
            = UNION {g[e.args[i]][<<>>] : i \in DOMAIN e.args}
        BY <2>1
    <2>4. Reads(e, f) = Reads(e, g)
        BY <2>2, <2>3 DEF Reads
    <2> QED
        BY <2>4
<1>3. \A e \in Trees : \A f \in [Trees -> ReadSets] : H[e][f] = Reads(e, f)
    OBVIOUS
<1>4. [rest \in Seq(Name) |-> {}] \in ReadSets
    BY DEF ReadSets
<1> HIDE DEF H
<1>5. PICK f \in [Trees -> ReadSets] : Solves(Trees, H, f)
    BY <1>1, <1>2, <1>4, TreeRecursion
<1>6. R(f)
    BY <1>3, <1>5 DEF Solves
<1>7. PathsRead = CHOOSE g : R(g)
    BY DEF PathsRead, Reads
<1>8. R(PathsRead)
    <2> HIDE DEF R
    <2> QED
        BY <1>6, <1>7
<1>9. \A e \in Trees : PathsRead[e] = Reads(e, PathsRead)
    BY <1>8
<1> DEFINE Q == {e \in Trees : PathsRead[e] \in ReadSets}
<1>10. \A e \in Trees : Below(e) \subseteq Q => e \in Q
    BY <1>9, ReadsType
<1>11. Trees \subseteq Q
    <2> HIDE DEF Q
    <2> QED
        BY <1>10, TreeInduction
<1> QED
    BY <1>9, <1>11

LEMMA SubtreesIs ==
    /\ \A e \in Trees : Subtrees[e] \subseteq Trees
    /\ \A e \in Trees :
          Subtrees[e] = {e} \cup UNION {Subtrees[e.args[i]] : i \in DOMAIN e.args}
<1> DEFINE W(e, f) == {e} \cup UNION {f[e.args[i]] : i \in DOMAIN e.args}
           H == [e \in Trees |-> [f \in [Trees -> SUBSET Trees] |-> W(e, f)]]
           R(f) == f = [e \in Trees |-> W(e, f)]
<1>1. ASSUME NEW e \in Trees, NEW f, \A d \in Below(e) : f[d] \in SUBSET Trees
      PROVE  W(e, f) \in SUBSET Trees
    <2>1. \A i \in DOMAIN e.args : f[e.args[i]] \in SUBSET Trees
        BY <1>1, ArgsBelow
    <2> QED
        BY <2>1
<1>2. H \in [Trees -> [[Trees -> SUBSET Trees] -> SUBSET Trees]]
    <2>1. ASSUME NEW e \in Trees, NEW f \in [Trees -> SUBSET Trees]
          PROVE  W(e, f) \in SUBSET Trees
        BY <1>1 DEF Below
    <2> HIDE DEF W
    <2> QED
        BY <2>1
<1>3. ASSUME NEW e \in Trees, NEW f \in [Trees -> SUBSET Trees],
             NEW g \in [Trees -> SUBSET Trees], Agree(Below(e), f, g)
      PROVE  H[e][f] = H[e][g]
    <2>1. \A i \in DOMAIN e.args : f[e.args[i]] = g[e.args[i]]
        BY <1>3, ArgsBelow DEF Agree
    <2>2. W(e, f) = W(e, g)
        BY <2>1
    <2> QED
        BY <2>2
<1>4. \A e \in Trees : \A f \in [Trees -> SUBSET Trees] : H[e][f] = W(e, f)
    OBVIOUS
<1> HIDE DEF H
<1>5. PICK f \in [Trees -> SUBSET Trees] : Solves(Trees, H, f)
    BY <1>2, <1>3, TreeRecursion
<1>6. R(f)
    BY <1>4, <1>5 DEF Solves
<1>7. Subtrees = CHOOSE g : R(g)
    BY DEF Subtrees
<1>8. R(Subtrees)
    <2> HIDE DEF R
    <2> QED
        BY <1>6, <1>7
<1>9. \A e \in Trees : Subtrees[e] = W(e, Subtrees)
    BY <1>8
<1> DEFINE Q == {e \in Trees : Subtrees[e] \in SUBSET Trees}
<1>10. \A e \in Trees : Below(e) \subseteq Q => e \in Q
    <2> HIDE DEF W
    <2> QED
        BY <1>1, <1>9
<1>11. Trees \subseteq Q
    <2> HIDE DEF Q
    <2> QED
        BY <1>10, TreeInduction
<1> QED
    BY <1>9, <1>11

-----------------------------------------------------------------------------
(* Values, and what a tree evaluates to.                                   *)

LEMMA Consed ==
    ASSUME NEW S, NEW k \in S, NEW q \in Seq(S)
    PROVE  /\ <<k>> \o q \in Seq(S) /\ <<k>> \o q # <<>> /\ Len(<<k>> \o q) = Len(q) + 1
           /\ (<<k>> \o q)[1] = k /\ Tail(<<k>> \o q) = q
OBVIOUS

LEMMA Parted ==
    ASSUME NEW S, NEW q \in Seq(S), q # <<>>
    PROVE  /\ q[1] \in S /\ Tail(q) \in Seq(S) /\ q = <<q[1]>> \o Tail(q)
           /\ Len(q) = Len(Tail(q)) + 1
<1>1. Len(q) \in Nat \ {0} /\ q[1] \in S
    OBVIOUS
<1>2. Tail(q) \in Seq(S) /\ Len(Tail(q)) = Len(q) - 1
    BY HeadTailProperties
<1>3. \A i \in 1 .. Len(Tail(q)) : Tail(q)[i] = q[i + 1]
    BY HeadTailProperties
<1>4. <<q[1]>> \o Tail(q) \in Seq(S) /\ Len(<<q[1]>> \o Tail(q)) = Len(q)
    BY <1>1, <1>2
<1>5. ASSUME NEW i \in 1 .. Len(q) PROVE q[i] = (<<q[1]>> \o Tail(q))[i]
    <2>1. CASE i = 1
        BY <1>1, <1>2, <2>1
    <2>2. CASE i # 1
        <3>1. i - 1 \in 1 .. Len(Tail(q)) /\ (i - 1) + 1 = i
            BY <1>1, <1>2, <2>2
        <3>2. (<<q[1]>> \o Tail(q))[i] = Tail(q)[i - 1]
            BY <1>1, <1>2, <2>2, <3>1
        <3> QED
            BY <1>3, <3>1, <3>2
    <2> QED
        BY <2>1, <2>2
<1>6. q = <<q[1]>> \o Tail(q)
    BY <1>4, <1>5, SeqEqual
<1> QED
    BY <1>1, <1>2, <1>6

LEMMA AtType ==
    ASSUME NEW q \in Seq(Name), NEW t \in {"map", "list", "string"}, NEW s \in Seq(0 .. 255)
    PROVE  /\ At(q, t, s) \in Cell
           /\ At(q, t, s).place = q /\ At(q, t, s).t = t /\ At(q, t, s).str = s
BY DEF At, Cell

LEMMA CellIsAt ==
    ASSUME NEW c \in Cell
    PROVE  /\ c.place \in Seq(Name) /\ c.t \in {"map", "list", "string"}
           /\ c.str \in Seq(0 .. 255) /\ c = At(c.place, c.t, c.str)
BY DEF At, Cell

LEMMA RootType ==
    ASSUME NEW t \in {"map", "list", "string"}
    PROVE  At(<<>>, t, <<>>) \in Cell
<1>1. <<>> \in Seq(Name) /\ <<>> \in Seq(0 .. 255)
    OBVIOUS
<1> QED
    BY <1>1, AtType

LEMMA StrType ==
    ASSUME NEW s \in Seq(0 .. 255)
    PROVE  Str(s) \in Values
<1>1. <<>> \in Seq(Name) /\ "string" \in {"map", "list", "string"}
    OBVIOUS
<1>2. At(<<>>, "string", s) \in Cell
    BY <1>1, AtType
<1> QED
    BY <1>2 DEF Str, Values

\* Below a name is what was put there, place by place.
LEMMA SubHas ==
    ASSUME NEW v \in Values, NEW k \in Name, NEW c \in Cell
    PROVE  c \in Sub(v, k) <=> At(<<k>> \o c.place, c.t, c.str) \in v
<1> DEFINE up == At(<<k>> \o c.place, c.t, c.str)
<1>0. c.place \in Seq(Name) /\ c.t \in {"map", "list", "string"} /\ c.str \in Seq(0 .. 255)
    BY CellIsAt
<1>1. <<k>> \o c.place \in Seq(Name) /\ <<k>> \o c.place # <<>>
      /\ (<<k>> \o c.place)[1] = k /\ Tail(<<k>> \o c.place) = c.place
    BY <1>0, Consed
<1>2. up.place = <<k>> \o c.place /\ up.t = c.t /\ up.str = c.str
    BY DEF At
<1>3. ASSUME up \in v PROVE c \in Sub(v, k)
    <2>1. At(Tail(up.place), up.t, up.str) = c
        BY <1>0, <1>1, <1>2, CellIsAt
    <2> HIDE DEF up
    <2> QED
        BY <1>1, <1>2, <1>3, <2>1 DEF Sub
<1>4. ASSUME c \in Sub(v, k) PROVE up \in v
    <2>1. PICK b \in v : b.place # <<>> /\ b.place[1] = k /\ c = At(Tail(b.place), b.t, b.str)
        BY <1>4 DEF Sub
    <2>2. b \in Cell
        BY DEF Values
    <2>3. b.place \in Seq(Name) /\ b.t \in {"map", "list", "string"}
          /\ b.str \in Seq(0 .. 255) /\ b = At(b.place, b.t, b.str)
        BY <2>2, CellIsAt
    <2>4. Tail(b.place) \in Seq(Name) /\ <<k>> \o Tail(b.place) = b.place
        BY <2>1, <2>3, Parted
    <2>5. c.place = Tail(b.place) /\ c.t = b.t /\ c.str = b.str
        BY <2>1 DEF At
    <2> QED
        BY <2>3, <2>4, <2>5
<1> QED
    BY <1>3, <1>4

LEMMA SubType ==
    ASSUME NEW v \in Values, NEW k
    PROVE  Sub(v, k) \in Values
<1> SUFFICES ASSUME NEW c \in v, c.place # <<>> PROVE At(Tail(c.place), c.t, c.str) \in Cell
    BY DEF Sub, Values
<1>1. c \in Cell
    BY DEF Values
<1>2. Tail(c.place) \in Seq(Name)
    BY <1>1, CellIsAt, Parted
<1> QED
    BY <1>1, <1>2, CellIsAt, AtType

LEMMA PutType ==
    ASSUME NEW v \in Values, NEW k \in Name
    PROVE  Put(k, v) \in Values
<1> SUFFICES ASSUME NEW c \in v PROVE At(<<k>> \o c.place, c.t, c.str) \in Cell
    BY DEF Put, Values
<1>1. c \in Cell
    BY DEF Values
<1>2. c.place \in Seq(Name)
    BY <1>1, CellIsAt
<1>3. <<k>> \o c.place \in Seq(Name)
    BY <1>2, Consed
<1> QED
    BY <1>1, <1>3, CellIsAt, AtType

LEMMA KidsType ==
    ASSUME NEW v \in Values
    PROVE  Kids(v) \subseteq Name
<1> SUFFICES ASSUME NEW c \in v, c.place # <<>> PROVE c.place[1] \in Name
    BY DEF Kids
<1>1. c.place \in Seq(Name)
    BY CellIsAt DEF Values
<1> QED
    BY <1>1

LEMMA GatherType ==
    ASSUME NEW t \in {"map", "list"}, NEW D \in SUBSET Name, NEW kids \in [D -> Values]
    PROVE  Gather(t, kids) \in Values
<1>1. At(<<>>, t, <<>>) \in Cell
    BY RootType
<1>2. \A k \in DOMAIN kids : Put(k, kids[k]) \subseteq Cell
    BY PutType DEF Values
<1> QED
    BY <1>1, <1>2 DEF Gather, Values

LEMMA ListOfType ==
    ASSUME NEW D \in SUBSET Name, NEW kids \in [D -> Values]
    PROVE  ListOf(kids) \in Values
<1>1. Gather("list", kids) \in Values
    BY GatherType
<1> QED
    BY <1>1 DEF ListOf, Err, Values

LEMMA GetType ==
    ASSUME NEW v \in Values, NEW k
    PROVE  Get(v, k) \in Values
BY SubType DEF Get, Err, Values

Results == [Values -> [Values -> Values]]

Elements(v, results) ==
    [k \in Kids(v) |-> results[IF IsList(v) THEN Sub(v, k) ELSE Str(<<75>>)]]
Pair(a, b) == [k \in {"0", "1"} |-> IF k = "0" THEN a ELSE b]
Present(v, f) == IF ~IsMap(v) THEN Err ELSE Str(IF Sub(v, f) # {} THEN <<84>> ELSE <<70>>)
Variable(name, o, x) ==
    CASE name = "object" -> o [] name = "item" -> Items [] name = "x" -> x [] OTHER -> Err
CallOf(name, v) == IF name = "dyn" THEN v ELSE Get(v, name)
MapOf(name, v) == IF v = Err THEN Err ELSE Map([k \in {name} |-> v])
EachOf(v, results) ==
    IF ~IsList(v) /\ ~IsMap(v) THEN Err ELSE ListOf(Elements(v, results))

\* What a tree gives, from what the trees below it give.
Outcome(e, f, o, x) ==
    LET arg(i) == f[e.args[i]][o][x]
        Elem(k) == IF IsList(arg(1)) THEN Sub(arg(1), k) ELSE Str(<<75>>)
    IN  CASE e.kind = "ident" ->
                CASE e.name = "object" -> o [] e.name = "item" -> Items
                  [] e.name = "x" -> x [] OTHER -> Err
          [] e.kind = "const" -> Str(<<65>>)
          [] e.kind = "select" -> Get(arg(1), e.name)
          [] e.kind = "has" ->
                IF ~IsMap(arg(1)) THEN Err
                ELSE Str(IF Sub(arg(1), e.name) # {} THEN <<84>> ELSE <<70>>)
          [] e.kind = "call" -> IF e.name = "dyn" THEN arg(1) ELSE Get(arg(1), e.name)
          [] e.kind = "list" -> ListOf([k \in {"0", "1"} |-> arg(IF k = "0" THEN 1 ELSE 2)])
          [] e.kind = "map" -> IF arg(2) = Err THEN Err ELSE Map([k \in {e.name} |-> arg(2)])
          [] e.kind = "each" ->
                IF ~IsList(arg(1)) /\ ~IsMap(arg(1)) THEN Err
                ELSE ListOf([k \in Kids(arg(1)) |-> f[e.args[2].args[2]][o][Elem(k)]])
EvalOf(e, f) == [o \in Values |-> [x \in Values |-> Outcome(e, f, o, x)]]

LEMMA IdentGives ==
    ASSUME NEW e, e.kind = "ident", NEW f, NEW o, NEW x
    PROVE  Outcome(e, f, o, x) = Variable(e.name, o, x)
BY DEF Outcome, Variable

LEMMA ConstGives ==
    ASSUME NEW e, e.kind = "const", NEW f, NEW o, NEW x
    PROVE  Outcome(e, f, o, x) = Str(<<65>>)
BY DEF Outcome

LEMMA SelectGives ==
    ASSUME NEW e, e.kind = "select", NEW f, NEW o, NEW x
    PROVE  Outcome(e, f, o, x) = Get(f[e.args[1]][o][x], e.name)
BY DEF Outcome

LEMMA HasGives ==
    ASSUME NEW e, e.kind = "has", NEW f, NEW o, NEW x
    PROVE  Outcome(e, f, o, x) = Present(f[e.args[1]][o][x], e.name)
BY DEF Outcome, Present

LEMMA CallGives ==
    ASSUME NEW e, e.kind = "call", NEW f, NEW o, NEW x
    PROVE  Outcome(e, f, o, x) = CallOf(e.name, f[e.args[1]][o][x])
BY DEF Outcome, CallOf

LEMMA ListGives ==
    ASSUME NEW e, e.kind = "list", NEW f, NEW o, NEW x
    PROVE  Outcome(e, f, o, x) = ListOf(Pair(f[e.args[1]][o][x], f[e.args[2]][o][x]))
<1> DEFINE arg(i) == f[e.args[i]][o][x]
<1>1. Outcome(e, f, o, x) = ListOf([k \in {"0", "1"} |-> arg(IF k = "0" THEN 1 ELSE 2)])
    BY DEF Outcome
<1>2. [k \in {"0", "1"} |-> arg(IF k = "0" THEN 1 ELSE 2)] = Pair(arg(1), arg(2))
    BY DEF Pair
<1> QED
    BY <1>1, <1>2

LEMMA MapGives ==
    ASSUME NEW e, e.kind = "map", NEW f, NEW o, NEW x
    PROVE  Outcome(e, f, o, x) = MapOf(e.name, f[e.args[2]][o][x])
BY DEF Outcome, MapOf

LEMMA EachGives ==
    ASSUME NEW e, e.kind = "each", NEW f, NEW o, NEW x
    PROVE  Outcome(e, f, o, x) = EachOf(f[e.args[1]][o][x], f[e.args[2].args[2]][o])
BY DEF Outcome, EachOf, Elements

LEMMA ItemsType == Items \in Values
<1> DEFINE kids == [k \in {"name"} |-> Str(<<73>>)]
<1>1. <<73>> \in Seq(0 .. 255) /\ {"name"} \in SUBSET Name
    BY ValuesAssumption
<1>2. kids \in [{"name"} -> Values]
    BY <1>1, StrType
<1>3. Gather("map", kids) \in Values
    BY <1>1, <1>2, GatherType
<1> QED
    BY <1>3 DEF Items, Map

\* The number of subtrees that evaluation looks at.
LEMMA ArgsOf ==
    ASSUME NEW e \in Trees
    PROVE  /\ e.kind \in {"select", "has", "call"} => 1 \in DOMAIN e.args
           /\ e.kind \in {"list", "map"} => 1 \in DOMAIN e.args /\ 2 \in DOMAIN e.args
<1>1. WellTyped(e) /\ e.args \in Seq(Trees)
    BY TreesAssumption, ArgsBelow
<1>2. e.kind = "call" => e.args # <<>>
    BY <1>1 DEF WellTyped
<1>3. e.kind \in {"list", "map"} => Len(e.args) = 2
    BY <1>1 DEF WellTyped
<1>4. e.kind \in Selects => 1 \in DOMAIN e.args
    BY OperandBelow
<1> QED
    BY <1>1, <1>2, <1>3, <1>4 DEF Selects

LEMMA EachType ==
    ASSUME NEW v \in Values, NEW results \in [Values -> Values]
    PROVE  EachOf(v, results) \in Values
<1>1. Kids(v) \in SUBSET Name
    BY KidsType
<1>2. Str(<<75>>) \in Values
    <2>1. <<75>> \in Seq(0 .. 255)
        OBVIOUS
    <2> QED
        BY <2>1, StrType
<1>3. \A k \in Kids(v) : Sub(v, k) \in Values
    BY SubType
<1>4. Elements(v, results) \in [Kids(v) -> Values]
    BY <1>2, <1>3 DEF Elements
<1>5. ListOf(Elements(v, results)) \in Values
    BY <1>1, <1>4, ListOfType
<1> QED
    BY <1>5 DEF EachOf, Err, Values

LEMMA OutcomeType ==
    ASSUME NEW e \in Trees, NEW f, \A d \in Below(e) : f[d] \in Results,
           NEW o \in Values, NEW x \in Values
    PROVE  Outcome(e, f, o, x) \in Values
<1>0. Err \in Values
    BY DEF Err, Values
<1>1. \A i \in DOMAIN e.args : f[e.args[i]][o][x] \in Values
    BY ArgsBelow DEF Results
<1>2. CASE e.kind = "ident"
    <2>1. Outcome(e, f, o, x) = Variable(e.name, o, x)
        BY <1>2, IdentGives
    <2> QED
        BY <1>0, <2>1, ItemsType DEF Variable
<1>3. CASE e.kind = "const"
    <2>1. <<65>> \in Seq(0 .. 255)
        OBVIOUS
    <2>2. Outcome(e, f, o, x) = Str(<<65>>)
        BY <1>3, ConstGives
    <2> QED
        BY <2>1, <2>2, StrType
<1>4. CASE e.kind = "select"
    <2>1. Outcome(e, f, o, x) = Get(f[e.args[1]][o][x], e.name)
        BY <1>4, SelectGives
    <2>2. f[e.args[1]][o][x] \in Values
        BY <1>1, <1>4, ArgsOf
    <2> QED
        BY <2>1, <2>2, GetType
<1>5. CASE e.kind = "has"
    <2>1. <<84>> \in Seq(0 .. 255) /\ <<70>> \in Seq(0 .. 255)
        OBVIOUS
    <2>2. Str(<<84>>) \in Values /\ Str(<<70>>) \in Values
        BY <2>1, StrType
    <2>3. Outcome(e, f, o, x) = Present(f[e.args[1]][o][x], e.name)
        BY <1>5, HasGives
    <2> QED
        BY <1>0, <2>2, <2>3 DEF Present
<1>6. CASE e.kind = "call"
    <2>1. Outcome(e, f, o, x) = CallOf(e.name, f[e.args[1]][o][x])
        BY <1>6, CallGives
    <2>2. f[e.args[1]][o][x] \in Values
        BY <1>1, <1>6, ArgsOf
    <2> QED
        BY <2>1, <2>2, GetType DEF CallOf
<1>7. CASE e.kind = "list"
    <2>1. f[e.args[1]][o][x] \in Values /\ f[e.args[2]][o][x] \in Values
        BY <1>1, <1>7, ArgsOf
    <2>2. Pair(f[e.args[1]][o][x], f[e.args[2]][o][x]) \in [{"0", "1"} -> Values]
        BY <2>1 DEF Pair
    <2>3. {"0", "1"} \in SUBSET Name
        BY ValuesAssumption
    <2>4. ListOf(Pair(f[e.args[1]][o][x], f[e.args[2]][o][x])) \in Values
        BY <2>2, <2>3, ListOfType
    <2>5. Outcome(e, f, o, x) = ListOf(Pair(f[e.args[1]][o][x], f[e.args[2]][o][x]))
        BY <1>7, ListGives
    <2> QED
        BY <2>4, <2>5
<1>8. CASE e.kind = "map"
    <2> DEFINE kids == [k \in {e.name} |-> f[e.args[2]][o][x]]
    <2>1. f[e.args[2]][o][x] \in Values
        BY <1>1, <1>8, ArgsOf
    <2>2. kids \in [{e.name} -> Values]
        BY <2>1
    <2>3. {e.name} \in SUBSET Name
        BY <1>8, ArgsBelow
    <2>4. Map(kids) \in Values
        <3> HIDE DEF kids
        <3> QED
            BY <2>2, <2>3, GatherType DEF Map
    <2>5. Outcome(e, f, o, x) = MapOf(e.name, f[e.args[2]][o][x])
        BY <1>8, MapGives
    <2> QED
        BY <1>0, <2>4, <2>5 DEF MapOf
<1>9. CASE e.kind = "each"
    <2>1. f[e.args[1]][o][x] \in Values
        BY <1>1, <1>9, BodyBelow
    <2>2. f[e.args[2].args[2]][o] \in [Values -> Values]
        BY <1>9, BodyBelow DEF Results
    <2>3. Outcome(e, f, o, x) = EachOf(f[e.args[1]][o][x], f[e.args[2].args[2]][o])
        BY <1>9, EachGives
    <2> QED
        BY <2>1, <2>2, <2>3, EachType
<1> QED
    BY <1>2, <1>3, <1>4, <1>5, <1>6, <1>7, <1>8, <1>9, ArgsBelow DEF Kinds

LEMMA OutcomeLocal ==
    ASSUME NEW e \in Trees, NEW f, NEW g, Agree(Below(e), f, g), NEW o, NEW x
    PROVE  Outcome(e, f, o, x) = Outcome(e, g, o, x)
<1>1. \A i \in DOMAIN e.args : f[e.args[i]] = g[e.args[i]]
    BY ArgsBelow DEF Agree
<1>2. CASE e.kind = "ident"
    <2>1. \A h : Outcome(e, h, o, x) = Variable(e.name, o, x)
        BY <1>2, IdentGives
    <2> QED
        BY <2>1
<1>3. CASE e.kind = "const"
    <2>1. \A h : Outcome(e, h, o, x) = Str(<<65>>)
        BY <1>3, ConstGives
    <2> QED
        BY <2>1
<1>4. CASE e.kind \in {"select", "has", "call"}
    <2>1. f[e.args[1]] = g[e.args[1]]
        BY <1>1, <1>4, ArgsOf
    <2> QED
        BY <1>4, <2>1 DEF Outcome
<1>5. CASE e.kind \in {"list", "map"}
    <2>1. f[e.args[1]] = g[e.args[1]] /\ f[e.args[2]] = g[e.args[2]]
        BY <1>1, <1>5, ArgsOf
    <2>2. CASE e.kind = "list"
        <3>1. \A h : Outcome(e, h, o, x) = ListOf(Pair(h[e.args[1]][o][x], h[e.args[2]][o][x]))
            BY <2>2, ListGives
        <3> QED
            BY <2>1, <3>1
    <2>3. CASE e.kind = "map"
        BY <2>1, <2>3 DEF Outcome
    <2> QED
        BY <1>5, <2>2, <2>3
<1>6. CASE e.kind = "each"
    <2>1. f[e.args[1]] = g[e.args[1]] /\ f[e.args[2].args[2]] = g[e.args[2].args[2]]
        BY <1>1, <1>6, BodyBelow DEF Agree
    <2>2. \A h : Outcome(e, h, o, x) = EachOf(h[e.args[1]][o][x], h[e.args[2].args[2]][o])
        BY <1>6, EachGives
    <2> QED
        BY <2>1, <2>2
<1> QED
    BY <1>2, <1>3, <1>4, <1>5, <1>6, ArgsBelow DEF Kinds

LEMMA EvalIs ==
    /\ \A e \in Trees : Eval[e] \in Results
    /\ \A e \in Trees : \A o, x \in Values : Eval[e][o][x] = Outcome(e, Eval, o, x)
<1> DEFINE H == [e \in Trees |-> [f \in [Trees -> Results] |-> EvalOf(e, f)]]
           R(f) == f = [e \in Trees |-> EvalOf(e, f)]
<1>1. ASSUME NEW e \in Trees, NEW f, \A d \in Below(e) : f[d] \in Results
      PROVE  EvalOf(e, f) \in Results
    <2>1. \A o, x \in Values : Outcome(e, f, o, x) \in Values
        BY <1>1, OutcomeType
    <2> QED
        BY <2>1 DEF EvalOf, Results
<1>2. H \in [Trees -> [[Trees -> Results] -> Results]]
    <2>1. ASSUME NEW e \in Trees, NEW f \in [Trees -> Results]
          PROVE  EvalOf(e, f) \in Results
        BY <1>1 DEF Below
    <2> QED
        BY <2>1
<1>3. ASSUME NEW e \in Trees, NEW f \in [Trees -> Results], NEW g \in [Trees -> Results],
             Agree(Below(e), f, g)
      PROVE  H[e][f] = H[e][g]
    <2>1. \A o, x \in Values : Outcome(e, f, o, x) = Outcome(e, g, o, x)
        BY <1>3, OutcomeLocal
    <2>2. EvalOf(e, f) = EvalOf(e, g)
        BY <2>1 DEF EvalOf
    <2> QED
        BY <2>2
<1>4. \A e \in Trees : \A f \in [Trees -> Results] : H[e][f] = EvalOf(e, f)
    OBVIOUS
<1>5. [o \in Values |-> [x \in Values |-> {}]] \in Results
    BY DEF Results, Values
<1> HIDE DEF H
<1>6. PICK f \in [Trees -> Results] : Solves(Trees, H, f)
    BY <1>2, <1>3, <1>5, TreeRecursion
<1>7. R(f)
    BY <1>4, <1>6 DEF Solves
<1>8. Eval = CHOOSE g : R(g)
    BY DEF Eval, EvalOf, Outcome
<1>9. R(Eval)
    <2> HIDE DEF R
    <2> QED
        BY <1>7, <1>8
<1>10. \A e \in Trees : Eval[e] = EvalOf(e, Eval)
    BY <1>9
<1> DEFINE Q == {e \in Trees : Eval[e] \in Results}
<1>11. \A e \in Trees : Below(e) \subseteq Q => e \in Q
    BY <1>1, <1>10
<1>12. Trees \subseteq Q
    <2> HIDE DEF Q
    <2> QED
        BY <1>11, TreeInduction
<1>13. \A e \in Trees : \A o, x \in Values : Eval[e][o][x] = Outcome(e, Eval, o, x)
    <2>1. ASSUME NEW e \in Trees, NEW o \in Values, NEW x \in Values
          PROVE  EvalOf(e, Eval)[o][x] = Outcome(e, Eval, o, x)
        BY DEF EvalOf
    <2> QED
        BY <1>10, <2>1
<1> QED
    BY <1>12, <1>13

-----------------------------------------------------------------------------
(* The walk: what was found and what the nodes yet to visit read, the       *)
(* first of them with the names gathered above it, is what the expression   *)
(* reads.                                                                  *)

Followed(e) == \A d \in Subtrees[e] : d.kind \in Selects => d.args[1].kind # "map"
ReadBy(s) == UNION {PathsRead[s[i]][<<>>] : i \in DOMAIN s}
Pending(names, s) ==
    IF s = <<>> THEN {} ELSE PathsRead[s[1]][Reverse(names)] \cup ReadBy(Tail(s))

Accounted(found, names, s, e) ==
    /\ ToSet(found) \cup Pending(names, s) = PathsRead[e][<<>>]
    /\ \A i \in DOMAIN s : Followed(s[i])
    /\ names # <<>> => s # <<>> /\ s[1].kind \in {"ident", "select", "call"}

LEMMA ReadsAt ==
    ASSUME NEW e \in Trees, NEW rest \in Seq(Name)
    PROVE  /\ e = Object => PathsRead[e][rest] = {rest}
           /\ e.kind \in Selects => PathsRead[e][rest] = PathsRead[e.args[1]][<<e.name>> \o rest]
           /\ e # Object /\ e.kind \notin Selects => PathsRead[e][rest] = ReadBy(e.args)
<1>1. PathsRead[e][rest] = Reads(e, PathsRead)[rest]
    BY PathsReadIs
<1>2. e.kind \in Selects => e # Object
    BY DEF Selects, Object, Tree
<1> QED
    BY <1>1, <1>2 DEF Reads, ReadBy

LEMMA ReverseFacts ==
    ASSUME NEW names \in Seq(Name)
    PROVE  /\ Reverse(names) \in Seq(Name)
           /\ Reverse(<<>>) = <<>>
           /\ names # <<>> => Reverse(names) # <<>>
           /\ \A k \in Name : Reverse(Append(names, k)) = <<k>> \o Reverse(names)
<1>1. Reverse(names) \in Seq(Name) /\ Len(Reverse(names)) = Len(names)
    BY DEF Reverse
<1>2. Reverse(<<>>) = <<>>
    BY DEF Reverse
<1>3. names # <<>> => Reverse(names) # <<>>
    BY <1>1
<1>4. ASSUME NEW k \in Name PROVE Reverse(Append(names, k)) = <<k>> \o Reverse(names)
    <2> DEFINE l == Reverse(Append(names, k))
               r == <<k>> \o Reverse(names)
    <2>1. Append(names, k) \in Seq(Name) /\ Len(Append(names, k)) = Len(names) + 1
        OBVIOUS
    <2>2. l \in Seq(Name) /\ Len(l) = Len(names) + 1
        BY <2>1 DEF Reverse
    <2>3. r \in Seq(Name) /\ Len(r) = Len(names) + 1
        BY <1>1
    <2>4. ASSUME NEW i \in 1 .. Len(names) + 1 PROVE l[i] = r[i]
        <3>1. l[i] = Append(names, k)[(Len(names) + 1 - i) + 1]
            BY <2>1 DEF Reverse
        <3>2. CASE i = 1
            BY <1>1, <3>1, <3>2
        <3>3. CASE i # 1
            <4>1. i - 1 \in 1 .. Len(names) /\ Len(names) - (i - 1) + 1 \in 1 .. Len(names)
                  /\ (Len(names) + 1 - i) + 1 = Len(names) - (i - 1) + 1
                BY <3>3
            <4>2. r[i] = Reverse(names)[i - 1]
                BY <1>1, <4>1
            <4>3. Reverse(names)[i - 1] = names[Len(names) - (i - 1) + 1]
                BY <4>1 DEF Reverse
            <4>4. \A j \in 1 .. Len(names) : Append(names, k)[j] = names[j]
                OBVIOUS
            <4> QED
                BY <3>1, <4>1, <4>2, <4>3, <4>4
        <3> QED
            BY <3>2, <3>3
    <2> HIDE DEF l, r
    <2>5. l = r
        BY <2>2, <2>3, <2>4, SeqEqual
    <2> QED
        BY <2>5 DEF l, r
<1> QED
    BY <1>1, <1>2, <1>3, <1>4

LEMMA AppendSet ==
    ASSUME NEW S, NEW s \in Seq(S), NEW e \in S
    PROVE  Append(s, e) \in Seq(S) /\ ToSet(Append(s, e)) = ToSet(s) \cup {e}
<1>1. Append(s, e) \in Seq(S) /\ Len(Append(s, e)) = Len(s) + 1
      /\ Append(s, e)[Len(s) + 1] = e /\ \A i \in 1 .. Len(s) : Append(s, e)[i] = s[i]
    BY AppendProperties
<1>2. DOMAIN Append(s, e) = 1 .. Len(s) + 1 /\ DOMAIN s = 1 .. Len(s) /\ Len(s) \in Nat
    BY <1>1
<1>3. \A i \in 1 .. Len(s) + 1 : i \in 1 .. Len(s) \/ i = Len(s) + 1
    BY <1>2
<1>4. 1 .. Len(s) \subseteq 1 .. Len(s) + 1 /\ Len(s) + 1 \in 1 .. Len(s) + 1
    BY <1>2
<1> QED
    BY <1>1, <1>2, <1>3, <1>4 DEF ToSet

LEMMA FollowedArgs ==
    ASSUME NEW e \in Trees, Followed(e)
    PROVE  /\ e.kind \in Selects => e.args[1].kind # "map"
           /\ \A i \in DOMAIN e.args : Followed(e.args[i])
<1>1. Subtrees[e] = {e} \cup UNION {Subtrees[e.args[i]] : i \in DOMAIN e.args}
    BY SubtreesIs
<1>2. e \in Subtrees[e] /\ \A i \in DOMAIN e.args : Subtrees[e.args[i]] \subseteq Subtrees[e]
    BY <1>1
<1> QED
    BY <1>2 DEF Followed

LEMMA ReadByConcat ==
    ASSUME NEW a \in Seq(Trees), NEW b \in Seq(Trees)
    PROVE  /\ ReadBy(a \o b) = ReadBy(a) \cup ReadBy(b)
           /\ \A i \in DOMAIN (a \o b) :
                 (\E j \in DOMAIN a : (a \o b)[i] = a[j]) \/ (\E j \in DOMAIN b : (a \o b)[i] = b[j])
<1>0. a \o b \in Seq(Trees) /\ Len(a \o b) = Len(a) + Len(b)
    OBVIOUS
<1>1. ASSUME NEW i \in DOMAIN (a \o b)
      PROVE  (\E j \in DOMAIN a : (a \o b)[i] = a[j]) \/ (\E j \in DOMAIN b : (a \o b)[i] = b[j])
    <2>1. CASE i <= Len(a)
        <3>1. i \in DOMAIN a /\ (a \o b)[i] = a[i]
            BY <1>0, <2>1
        <3> QED
            BY <3>1
    <2>2. CASE ~ (i <= Len(a))
        <3>1. i - Len(a) \in DOMAIN b /\ (a \o b)[i] = b[i - Len(a)]
            BY <1>0, <2>2
        <3> QED
            BY <3>1
    <2> QED
        BY <2>1, <2>2
<1>2. ASSUME NEW i \in DOMAIN a PROVE i \in DOMAIN (a \o b) /\ (a \o b)[i] = a[i]
    BY <1>0
<1>3. ASSUME NEW i \in DOMAIN b
      PROVE  Len(a) + i \in DOMAIN (a \o b) /\ (a \o b)[Len(a) + i] = b[i]
    BY <1>0
<1> DEFINE c == a \o b
<1>4. \A i \in DOMAIN c : (\E j \in DOMAIN a : c[i] = a[j]) \/ (\E j \in DOMAIN b : c[i] = b[j])
    BY <1>1
<1>5. \A i \in DOMAIN a : \E j \in DOMAIN c : c[j] = a[i]
    BY <1>2
<1>6. \A i \in DOMAIN b : \E j \in DOMAIN c : c[j] = b[i]
    BY <1>3
<1> HIDE DEF c
<1>7. ReadBy(c) \subseteq ReadBy(a) \cup ReadBy(b)
    BY <1>4 DEF ReadBy
<1>8. ReadBy(a) \subseteq ReadBy(c) /\ ReadBy(b) \subseteq ReadBy(c)
    BY <1>5, <1>6 DEF ReadBy
<1> QED
    BY <1>1, <1>7, <1>8 DEF c

LEMMA PendingStart ==
    ASSUME NEW s \in Seq(Trees)
    PROVE  Pending(<<>>, s) = ReadBy(s)
<1>1. CASE s = <<>>
    BY <1>1 DEF Pending, ReadBy
<1>2. CASE s # <<>>
    <2>1. s[1] \in Trees /\ Tail(s) \in Seq(Trees) /\ s = <<s[1]>> \o Tail(s)
        BY <1>2, Parted
    <2>2. <<s[1]>> \in Seq(Trees)
        BY <2>1
    <2>3. ReadBy(s) = ReadBy(<<s[1]>>) \cup ReadBy(Tail(s))
        BY <2>1, <2>2, ReadByConcat
    <2>4. ReadBy(<<s[1]>>) = PathsRead[s[1]][<<>>]
        <3>1. DOMAIN <<s[1]>> = {1} /\ <<s[1]>>[1] = s[1]
            OBVIOUS
        <3> QED
            BY <3>1 DEF ReadBy
    <2>5. Reverse(<<>>) = <<>>
        BY DEF Reverse
    <2> QED
        BY <1>2, <2>3, <2>4, <2>5 DEF Pending
<1> QED
    BY <1>1, <1>2

\* What is visited next, from what was left and its subtrees.
LEMMA VisitedNext ==
    ASSUME NEW s \in Seq(Trees), s # <<>>, NEW e, NEW found, NEW names,
           Accounted(found, names, s, e)
    PROVE  /\ s[1] \in Trees /\ Followed(s[1]) /\ s[1].args \in Seq(Trees)
           /\ Tail(s) \in Seq(Trees) /\ s[1].args \o Tail(s) \in Seq(Trees)
           /\ \A i \in DOMAIN (s[1].args \o Tail(s)) : Followed((s[1].args \o Tail(s))[i])
           /\ ReadBy(s[1].args \o Tail(s)) = ReadBy(s[1].args) \cup ReadBy(Tail(s))
<1>1. s[1] \in Trees /\ Tail(s) \in Seq(Trees) /\ s = <<s[1]>> \o Tail(s) /\ 1 \in DOMAIN s
    BY Parted
<1>2. s[1].args \in Seq(Trees)
    BY <1>1, ArgsBelow
<1>3. Followed(s[1])
    BY <1>1 DEF Accounted
<1>4. \A i \in DOMAIN s[1].args : Followed(s[1].args[i])
    BY <1>1, <1>3, FollowedArgs
<1>5. \A i \in DOMAIN Tail(s) : Followed(Tail(s)[i])
    <2>1. \A i \in DOMAIN Tail(s) : i + 1 \in DOMAIN s /\ Tail(s)[i] = s[i + 1]
        BY <1>1, HeadTailProperties
    <2> QED
        BY <2>1 DEF Accounted
<1> DEFINE a == s[1].args
           b == Tail(s)
<1>6. a \in Seq(Trees) /\ b \in Seq(Trees)
    BY <1>1, <1>2
<1>7. \A i \in DOMAIN a : Followed(a[i])
    BY <1>4
<1>8. \A i \in DOMAIN b : Followed(b[i])
    BY <1>5
<1> HIDE DEF a, b
<1>9. a \o b \in Seq(Trees)
    BY <1>6
<1>10. \A i \in DOMAIN (a \o b) : Followed((a \o b)[i])
    <2> SUFFICES ASSUME NEW i \in DOMAIN (a \o b) PROVE Followed((a \o b)[i])
        OBVIOUS
    <2>1. (\E j \in DOMAIN a : (a \o b)[i] = a[j]) \/ (\E j \in DOMAIN b : (a \o b)[i] = b[j])
        BY <1>6, ReadByConcat
    <2> QED
        BY <1>7, <1>8, <2>1
<1>11. ReadBy(a \o b) = ReadBy(a) \cup ReadBy(b)
    BY <1>6, ReadByConcat
<1> QED
    BY <1>1, <1>2, <1>3, <1>9, <1>10, <1>11 DEF a, b

LEMMA SelectStep ==
    ASSUME NEW s \in Seq(Trees), s # <<>>, s[1].kind \in Selects, NEW e, NEW found,
           NEW names \in Seq(Name), Accounted(found, names, s, e)
    PROVE  Accounted(found, Append(names, s[1].name), s[1].args \o Tail(s), e)
<1> DEFINE n == Append(names, s[1].name)
           t == s[1].args \o Tail(s)
<1>1. /\ s[1] \in Trees /\ Followed(s[1]) /\ Tail(s) \in Seq(Trees)
      /\ \A i \in DOMAIN t : Followed(t[i])
    BY VisitedNext
<1>2. s[1].args \in Seq(Trees) /\ Len(s[1].args) = 1 /\ s[1].name \in Name
      /\ s[1].args[1].kind \in {"ident", "select", "call", "map"} /\ s[1].args[1] \in Trees
    BY <1>1, ArgsBelow, OperandBelow
<1>3. s[1].args = <<s[1].args[1]>>
    BY <1>2
<1>4. t[1] = s[1].args[1] /\ Tail(t) = Tail(s) /\ t # <<>>
    <2>1. t = <<s[1].args[1]>> \o Tail(s)
        BY <1>3
    <2> DEFINE a == s[1].args[1]
               q == Tail(s)
    <2>2. a \in Trees /\ q \in Seq(Trees)
        BY <1>1, <1>2
    <2> HIDE DEF a, q
    <2>3. (<<a>> \o q)[1] = a /\ Tail(<<a>> \o q) = q /\ <<a>> \o q # <<>>
        BY <2>2, Consed
    <2> HIDE DEF t
    <2> QED
        BY <2>1, <2>3 DEF a, q
<1>5. t[1].kind \in {"ident", "select", "call"}
    BY <1>1, <1>2, <1>4, FollowedArgs
<1>6. Reverse(n) = <<s[1].name>> \o Reverse(names) /\ Reverse(names) \in Seq(Name)
    BY <1>2, ReverseFacts
<1>7. PathsRead[s[1]][Reverse(names)] = PathsRead[t[1]][Reverse(n)]
    BY <1>1, <1>4, <1>6, ReadsAt
<1> HIDE DEF n, t
<1>8. Pending(names, s) = Pending(n, t)
    BY <1>4, <1>7 DEF Pending
<1>9. Accounted(found, n, t, e)
    BY <1>1, <1>4, <1>5, <1>8 DEF Accounted
<1> QED
    BY <1>9 DEF n, t

\* Whatever ends the names: what is left is read from its start.
LEMMA EndStep ==
    ASSUME NEW s \in Seq(Trees), s # <<>>, NEW e, NEW found, NEW more,
           NEW names \in Seq(Name), Accounted(found, names, s, e),
           ToSet(found) \cup PathsRead[s[1]][Reverse(names)] = ToSet(more) \cup ReadBy(s[1].args)
    PROVE  Accounted(more, <<>>, s[1].args \o Tail(s), e)
<1> DEFINE t == s[1].args \o Tail(s)
<1>1. /\ t \in Seq(Trees) /\ \A i \in DOMAIN t : Followed(t[i])
      /\ ReadBy(t) = ReadBy(s[1].args) \cup ReadBy(Tail(s))
    BY VisitedNext
<1> HIDE DEF t
<1>2. Pending(<<>>, t) = ReadBy(t)
    BY <1>1, PendingStart
<1>3. Pending(names, s) = PathsRead[s[1]][Reverse(names)] \cup ReadBy(Tail(s))
    BY DEF Pending
<1>4. ToSet(more) \cup Pending(<<>>, t) = ToSet(found) \cup Pending(names, s)
    BY <1>1, <1>2, <1>3
<1>5. Accounted(more, <<>>, t, e)
    BY <1>1, <1>4 DEF Accounted
<1> QED
    BY <1>5 DEF t

LEMMA IdentStep ==
    ASSUME NEW s \in Seq(Trees), s # <<>>, s[1].kind = "ident", NEW e,
           NEW found \in Seq(Path), NEW names \in Seq(Name), Accounted(found, names, s, e),
           <<>> \notin PathsRead[e][<<>>]
    PROVE  Accounted(IF s[1].name = "object" /\ names # <<>>
                     THEN Append(found, Reverse(names)) ELSE found,
                     <<>>, s[1].args \o Tail(s), e)
<1>1. s[1] \in Trees
    BY VisitedNext
<1>2. s[1].args = <<>> /\ s[1] = Tree("ident", s[1].name, <<>>)
    <2>1. WellTyped(s[1])
        BY <1>1, TreesAssumption
    <2> QED
        BY <2>1 DEF WellTyped
<1>3. s[1] = Object <=> s[1].name = "object"
    BY <1>2 DEF Object, Tree
<1>4. Reverse(names) \in Seq(Name) /\ Reverse(<<>>) = <<>>
      /\ (names # <<>> => Reverse(names) \in Path)
    BY ReverseFacts DEF Path
<1>5. ReadBy(s[1].args) = {}
    BY <1>2 DEF ReadBy
<1>6. CASE s[1].name = "object" /\ names # <<>>
    <2> DEFINE r == Reverse(names)
    <2>1. PathsRead[s[1]][r] = {r}
        BY <1>1, <1>3, <1>4, <1>6, ReadsAt
    <2>2. ToSet(Append(found, r)) = ToSet(found) \cup {r}
        <3>1. r \in Path
            BY <1>4, <1>6
        <3> HIDE DEF r
        <3> QED
            BY <3>1, AppendSet
    <2>3. Accounted(Append(found, r), <<>>, s[1].args \o Tail(s), e)
        BY <1>5, <2>1, <2>2, EndStep
    <2> QED
        BY <1>6, <2>3
<1>7. CASE s[1].name = "object" /\ names = <<>>
    <2>1. PathsRead[s[1]][Reverse(names)] = {<<>>}
        BY <1>1, <1>3, <1>4, <1>7, ReadsAt
    <2>2. <<>> \in Pending(names, s)
        BY <2>1 DEF Pending
    <2> QED
        BY <2>2 DEF Accounted
<1>8. CASE s[1].name # "object"
    <2>1. s[1] # Object /\ s[1].kind \notin Selects
        BY <1>3, <1>8 DEF Selects
    <2>2. PathsRead[s[1]][Reverse(names)] = ReadBy(s[1].args)
        BY <1>1, <1>4, <2>1, ReadsAt
    <2>3. Accounted(found, <<>>, s[1].args \o Tail(s), e)
        BY <2>2, EndStep
    <2> QED
        BY <1>8, <2>3
<1> QED
    BY <1>6, <1>7, <1>8

LEMMA OtherStep ==
    ASSUME NEW s \in Seq(Trees), s # <<>>, NEW e, NEW found, NEW names \in Seq(Name),
           s[1].kind \in {"call", "const", "list", "map", "each"}, Accounted(found, names, s, e)
    PROVE  Accounted(found, <<>>, s[1].args \o Tail(s), e)
<1>1. s[1] \in Trees
    BY VisitedNext
<1>2. s[1] # Object /\ s[1].kind \notin Selects
    BY DEF Object, Tree, Selects
<1>3. PathsRead[s[1]][Reverse(names)] = ReadBy(s[1].args)
    BY <1>1, <1>2, ReadsAt, ReverseFacts
<1> QED
    BY <1>3, EndStep

-----------------------------------------------------------------------------
(* Grouping paths by their first name.                                     *)

Groups == [leaf : SUBSET Name, branch : [Name -> Seq(Path)]]
NoGroups == [leaf |-> {}, branch |-> [k \in Name |-> <<>>]]
AddPath(before, p) ==
    IF Len(p) = 1
    THEN [leaf |-> before.leaf \cup {p[1]}, branch |-> [before.branch EXCEPT ![p[1]] = <<>>]]
    ELSE IF p[1] \in before.leaf THEN before
    ELSE [before EXCEPT !.branch[p[1]] = Append(@, Tail(p))]

\* g is what a set of paths is grouped into.
Grouped(g, paths) ==
    /\ g \in Groups
    /\ \A k \in Name : k \in g.leaf <=> <<k>> \in paths
    /\ \A k \in Name : k \in g.leaf => g.branch[k] = <<>>
    /\ \A k \in Name : k \notin g.leaf =>
          \A q \in Path : q \in ToSet(g.branch[k]) <=> <<k>> \o q \in paths

LEMMA PathParts ==
    ASSUME NEW p \in Path
    PROVE  /\ p \in Seq(Name) /\ p[1] \in Name /\ Tail(p) \in Seq(Name)
           /\ p = <<p[1]>> \o Tail(p) /\ Len(p) = Len(Tail(p)) + 1
           /\ Len(p) = 1 <=> p = <<p[1]>>
           /\ Len(p) # 1 => Tail(p) \in Path
<1>1. p \in Seq(Name) /\ p # <<>>
    BY DEF Path
<1>2. p[1] \in Name /\ Tail(p) \in Seq(Name) /\ p = <<p[1]>> \o Tail(p) /\ Len(p) = Len(Tail(p)) + 1
    BY <1>1, Parted
<1>3. Len(p) = 1 => p = <<p[1]>>
    BY <1>1
<1>4. p = <<p[1]>> => Len(p) = 1
    <2>1. Len(<<p[1]>>) = 1
        OBVIOUS
    <2> QED
        BY <2>1
<1>5. Len(p) # 1 => Tail(p) # <<>>
    <2>1. Len(<<>>) = 0
        OBVIOUS
    <2>2. Tail(p) = <<>> => Len(Tail(p)) = 0
        BY <2>1
    <2> QED
        BY <1>2, <2>2
<1> QED
    BY <1>1, <1>2, <1>3, <1>4, <1>5 DEF Path

LEMMA ConsInjective ==
    ASSUME NEW k \in Name, NEW j \in Name, NEW q \in Seq(Name), NEW r \in Seq(Name)
    PROVE  (<<k>> \o q = <<j>> \o r) <=> (k = j /\ q = r)
<1> DEFINE a == <<k>> \o q
           b == <<j>> \o r
<1>1. a[1] = k /\ Tail(a) = q /\ b[1] = j /\ Tail(b) = r
    BY Consed
<1>2. a = b => k = j /\ q = r
    <2> HIDE DEF a, b
    <2> QED
        BY <1>1
<1> QED
    BY <1>2

LEMMA NoneGrouped == Grouped(NoGroups, {})
<1>1. NoGroups \in Groups
    BY DEF NoGroups, Groups
<1>2. NoGroups.leaf = {} /\ \A k \in Name : NoGroups.branch[k] = <<>>
    BY DEF NoGroups
<1>3. ToSet(<<>>) = {}
    BY DEF ToSet
<1> QED
    BY <1>1, <1>2, <1>3 DEF Grouped

LEMMA AddPathGroups ==
    ASSUME NEW g, NEW paths, Grouped(g, paths), NEW p \in Path
    PROVE  Grouped(AddPath(g, p), paths \cup {p})
<1> DEFINE h == AddPath(g, p)
           k == p[1]
<1>0. g \in Groups /\ g.leaf \in SUBSET Name /\ g.branch \in [Name -> Seq(Path)]
    BY DEF Grouped, Groups
<1>1. p \in Seq(Name) /\ k \in Name /\ Tail(p) \in Seq(Name) /\ p = <<k>> \o Tail(p)
      /\ (Len(p) = 1 <=> p = <<k>>) /\ (Len(p) # 1 => Tail(p) \in Path)
    <2> HIDE DEF h
    <2> QED
        BY PathParts
<1>2. ASSUME NEW j \in Name, NEW q \in Seq(Name)
      PROVE  <<j>> \o q = p <=> j = k /\ q = Tail(p)
    <2> DEFINE t == Tail(p)
    <2>1. t \in Seq(Name) /\ p = <<k>> \o t /\ k \in Name
        BY <1>1
    <2> HIDE DEF k, t, h
    <2>2. <<j>> \o q = <<k>> \o t <=> j = k /\ q = t
        BY <2>1, ConsInjective
    <2>3. <<j>> \o q = p <=> j = k /\ q = t
        BY <2>1, <2>2
    <2> QED
        BY <2>3 DEF t
<1>3. \A j \in Name : <<j>> = p => j = k
    <2>1. \A j \in Name : <<j>>[1] = j
        OBVIOUS
    <2> QED
        BY <2>1
<1>4. CASE Len(p) = 1
    <2>1. h = [leaf |-> g.leaf \cup {k}, branch |-> [g.branch EXCEPT ![k] = <<>>]]
        BY <1>4 DEF AddPath
    <2>2. h \in Groups
        <3>1. <<>> \in Seq(Path)
            OBVIOUS
        <3> QED
            BY <1>0, <1>1, <2>1, <3>1 DEF Groups
    <2>3. h.leaf = g.leaf \cup {k} /\ h.branch[k] = <<>>
          /\ \A j \in Name : j # k => h.branch[j] = g.branch[j]
        BY <1>0, <1>1, <2>1
    <2>4. p = <<k>>
        BY <1>1, <1>4
    <2> HIDE DEF h, k
    <2>5. \A j \in Name : j \in h.leaf <=> <<j>> \in paths \cup {p}
        BY <1>3, <2>3, <2>4 DEF Grouped
    <2>6. \A j \in Name : j \in h.leaf => h.branch[j] = <<>>
        BY <2>3 DEF Grouped
    <2>7. ASSUME NEW j \in Name, j \notin h.leaf, NEW q \in Path
          PROVE  q \in ToSet(h.branch[j]) <=> <<j>> \o q \in paths \cup {p}
        <3>1. j # k /\ j \notin g.leaf /\ h.branch[j] = g.branch[j]
            BY <2>3, <2>7
        <3>2. <<j>> \o q # p
            BY <1>2, <3>1 DEF Path
        <3> QED
            BY <3>1, <3>2 DEF Grouped
    <2> QED
        BY <2>2, <2>5, <2>6, <2>7 DEF Grouped, h
<1>5. CASE Len(p) # 1 /\ k \in g.leaf
    <2>1. h = g
        BY <1>5 DEF AddPath
    <2>2. \A j \in Name : <<j>> # p
        BY <1>1, <1>3, <1>5
    <2>3. ASSUME NEW j \in Name, j \notin g.leaf, NEW q \in Path
          PROVE  <<j>> \o q # p
        BY <1>2, <1>5, <2>3 DEF Path
    <2> HIDE DEF h, k
    <2> QED
        BY <2>1, <2>2, <2>3 DEF Grouped, h
<1>6. CASE Len(p) # 1 /\ k \notin g.leaf
    <2> DEFINE more == Append(g.branch[k], Tail(p))
    <2>1. h = [g EXCEPT !.branch[k] = more]
        BY <1>6 DEF AddPath
    <2>2. more \in Seq(Path) /\ ToSet(more) = ToSet(g.branch[k]) \cup {Tail(p)}
        <3> DEFINE b == g.branch[k]
                   t == Tail(p)
        <3>1. b \in Seq(Path) /\ t \in Path
            BY <1>0, <1>1, <1>6
        <3> HIDE DEF b, t
        <3>2. Append(b, t) \in Seq(Path) /\ ToSet(Append(b, t)) = ToSet(b) \cup {t}
            BY <3>1, AppendSet
        <3> QED
            BY <3>2 DEF b, t
    <2> HIDE DEF more
    <2>3. h \in Groups /\ h.leaf = g.leaf /\ h.branch = [g.branch EXCEPT ![k] = more]
        BY <1>0, <1>1, <2>1, <2>2 DEF Groups
    <2>4. h.branch[k] = more /\ \A j \in Name : j # k => h.branch[j] = g.branch[j]
        BY <1>0, <1>1, <2>3
    <2>5. \A j \in Name : <<j>> # p
        BY <1>1, <1>3, <1>6
    <2> HIDE DEF h, k
    <2>6. \A j \in Name : j \in h.leaf <=> <<j>> \in paths \cup {p}
        BY <2>3, <2>5 DEF Grouped
    <2>7. \A j \in Name : j \in h.leaf => h.branch[j] = <<>>
        BY <1>6, <2>3, <2>4 DEF Grouped
    <2>8. ASSUME NEW j \in Name, j \notin h.leaf, NEW q \in Path
          PROVE  q \in ToSet(h.branch[j]) <=> <<j>> \o q \in paths \cup {p}
        <3>0. q \in Seq(Name)
            BY DEF Path
        <3>1. CASE j = k
            <4>1. <<j>> \o q = p <=> q = Tail(p)
                BY <1>2, <3>0, <3>1
            <4>2. q \in ToSet(g.branch[k]) <=> <<j>> \o q \in paths
                BY <1>6, <3>1 DEF Grouped
            <4> QED
                BY <2>2, <2>4, <3>1, <4>1, <4>2
        <3>2. CASE j # k
            <4>1. <<j>> \o q # p
                BY <1>2, <3>0, <3>2
            <4>2. q \in ToSet(g.branch[j]) <=> <<j>> \o q \in paths
                BY <2>3, <2>8 DEF Grouped
            <4> QED
                BY <2>4, <3>2, <4>1, <4>2
        <3> QED
            BY <3>1, <3>2
    <2> QED
        BY <2>3, <2>6, <2>7, <2>8 DEF Grouped, h
<1> QED
    BY <1>4, <1>5, <1>6

LEMMA AddPathType ==
    ASSUME NEW g \in Groups, NEW p \in Path
    PROVE  AddPath(g, p) \in Groups
<1>1. p[1] \in Name /\ (Len(p) # 1 => Tail(p) \in Path)
    BY PathParts
<1>2. <<>> \in Seq(Path)
    OBVIOUS
<1>3. Len(p) # 1 => Append(g.branch[p[1]], Tail(p)) \in Seq(Path)
    <2>1. g.branch[p[1]] \in Seq(Path)
        BY <1>1 DEF Groups
    <2> QED
        BY <1>1, <2>1, AppendSet
<1> QED
    BY <1>1, <1>2, <1>3 DEF AddPath, Groups

LEMMA GroupPathsIs ==
    ASSUME NEW paths \in Seq(Path)
    PROVE  Grouped(groupPaths(paths), ToSet(paths))
<1> DEFINE n == Len(paths)
           T == 0 .. n
           L == [k \in Nat |-> {i \in T : i < k}]
           Next1(k, f) == IF k = 0 THEN NoGroups ELSE AddPath(f[k - 1], paths[k])
           H == [k \in T |-> [f \in [T -> Groups] |-> Next1(k, f)]]
           R(f) == f = [k \in T |-> Next1(k, f)]
<1>0. n \in Nat /\ \A k \in T : k # 0 => k - 1 \in T /\ k - 1 < k /\ paths[k] \in Path
    OBVIOUS
<1>1. NoGroups \in Groups
    BY NoneGrouped DEF Grouped
<1>2. H \in [T -> [[T -> Groups] -> Groups]]
    <2>1. ASSUME NEW k \in T, NEW f \in [T -> Groups] PROVE Next1(k, f) \in Groups
        BY <1>0, <1>1, AddPathType
    <2> HIDE DEF Next1
    <2> QED
        BY <2>1
<1>3. Levels(T, L)
    <2>1. \A k \in Nat : L[k] = {i \in T : i < k}
        OBVIOUS
    <2>2. L \in [Nat -> SUBSET T]
        OBVIOUS
    <2>3. \A i \in T : i \in Nat /\ i + 1 \in Nat /\ i < i + 1 /\ ~ (i < 0)
        BY <1>0
    <2> HIDE DEF L, T
    <2>4. \A i \in T : \E k \in Nat : i \in L[k]
        BY <2>1, <2>3
    <2>5. \A k \in Nat : \A i \in T : i < k => i < k + 1
        BY <2>3
    <2> QED
        BY <2>1, <2>2, <2>3, <2>4, <2>5 DEF Levels
<1>4. LooksBelow(T, Groups, L, H)
    <2>1. SUFFICES ASSUME NEW m \in Nat, NEW k \in L[m + 1], NEW f \in [T -> Groups],
                          NEW g \in [T -> Groups], Agree(L[m], f, g)
                   PROVE  H[k][f] = H[k][g]
        BY DEF LooksBelow
    <2>2. k \in T /\ k < m + 1
        OBVIOUS
    <2>3. k # 0 => k - 1 \in L[m]
        BY <1>0, <2>2
    <2>4. k # 0 => f[k - 1] = g[k - 1]
        BY <2>1, <2>3 DEF Agree
    <2> QED
        BY <2>2, <2>4
<1>5. \A k \in T : \A f \in [T -> Groups] : H[k][f] = Next1(k, f)
    OBVIOUS
<1>6. PICK f \in [T -> Groups] : Solves(T, H, f)
    <2> HIDE DEF T, L, H
    <2> QED
        BY <1>1, <1>2, <1>3, <1>4, Recursion
<1>7. R(f)
    <2> HIDE DEF T, H, Next1
    <2> QED
        BY <1>5, <1>6 DEF Solves
<1> DEFINE g == CHOOSE h : R(h)
<1>8. groupPaths(paths) = g[n]
    BY DEF groupPaths, AddPath, NoGroups
<1>9. R(g)
    <2> HIDE DEF R
    <2> QED
        BY <1>7
<1> HIDE DEF g
<1>10. g[0] = NoGroups /\ \A k \in T : k # 0 => g[k] = AddPath(g[k - 1], paths[k])
    BY <1>0, <1>9
<1> DEFINE P(k) == {paths[i] : i \in 1 .. k}
           I == {k \in Nat : k <= n => Grouped(g[k], P(k))}
<1>11. 0 \in I
    <2>1. P(0) = {}
        OBVIOUS
    <2> QED
        BY <1>10, <2>1, NoneGrouped
<1>12. ASSUME NEW k \in Nat, k \in I PROVE k + 1 \in I
    <2>1. SUFFICES ASSUME k + 1 <= n PROVE Grouped(g[k + 1], P(k + 1))
        OBVIOUS
    <2>2. k + 1 \in T /\ k + 1 # 0 /\ (k + 1) - 1 = k /\ paths[k + 1] \in Path
        BY <1>0, <2>1
    <2>3. Grouped(g[k], P(k))
        BY <1>12, <2>1
    <2>4. g[k + 1] = AddPath(g[k], paths[k + 1])
        BY <1>10, <2>2
    <2>5. P(k + 1) = P(k) \cup {paths[k + 1]}
        <3>1. 1 .. (k + 1) = (1 .. k) \cup {k + 1}
            OBVIOUS
        <3> QED
            BY <3>1
    <2> HIDE DEF P
    <2> QED
        BY <2>2, <2>3, <2>4, <2>5, AddPathGroups
<1>13. n \in I
    <2> HIDE DEF I
    <2> QED
        BY <1>0, <1>11, <1>12, Induction
<1>14. P(n) = ToSet(paths)
    BY DEF ToSet
<1>15. Grouped(g[n], P(n))
    <2> HIDE DEF n, P
    <2> QED
        BY <1>0, <1>13
<1>16. Grouped(g[n], ToSet(paths))
    <2> HIDE DEF n, P
    <2> QED
        BY <1>14, <1>15
<1> QED
    BY <1>8, <1>16


-----------------------------------------------------------------------------
(* Prefixes of paths.                                                      *)

Up(k, c) == At(<<k>> \o c.place, c.t, c.str)

LEMMA TakeIs ==
    ASSUME NEW q \in Seq(Name), NEW n \in 0 .. Len(q)
    PROVE  /\ SubSeq(q, 1, n) \in Seq(Name) /\ Len(SubSeq(q, 1, n)) = n
           /\ \A i \in 1 .. n : SubSeq(q, 1, n)[i] = q[i]
<1>1. 1 \in Int /\ n \in Int /\ \A i \in 1 .. n : q[i] \in Name
    OBVIOUS
<1>2. /\ SubSeq(q, 1, n) \in Seq(Name)
      /\ Len(SubSeq(q, 1, n)) = IF 1 <= n THEN n - 1 + 1 ELSE 0
      /\ \A i \in 1 .. n - 1 + 1 : SubSeq(q, 1, n)[i] = q[1 + i - 1]
    BY <1>1, SubSeqProperties
<1>3. n - 1 + 1 = n /\ (~ (1 <= n) => n = 0) /\ \A i \in 1 .. n : 1 + i - 1 = i
    OBVIOUS
<1> QED
    BY <1>2, <1>3

LEMMA TakeAll ==
    ASSUME NEW q \in Seq(Name)
    PROVE  SubSeq(q, 1, Len(q)) = q
BY SubSeqFull

LEMMA TakeCons ==
    ASSUME NEW k \in Name, NEW q \in Seq(Name), NEW n \in 0 .. Len(q)
    PROVE  SubSeq(<<k>> \o q, 1, n + 1) = <<k>> \o SubSeq(q, 1, n)
<1> DEFINE r == <<k>> \o q
           l == SubSeq(r, 1, n + 1)
           t == SubSeq(q, 1, n)
           m == <<k>> \o t
<1>1. r \in Seq(Name) /\ Len(r) = Len(q) + 1 /\ n + 1 \in 0 .. Len(r) /\ n \in Nat
    OBVIOUS
<1>2. r[1] = k /\ \A i \in 1 .. n : r[i + 1] = q[i]
    OBVIOUS
<1>3. t \in Seq(Name) /\ Len(t) = n /\ \A i \in 1 .. n : t[i] = q[i]
    BY TakeIs
<1>4. l \in Seq(Name) /\ Len(l) = n + 1 /\ \A i \in 1 .. n + 1 : l[i] = r[i]
    <2> HIDE DEF r
    <2> QED
        BY <1>1, TakeIs
<1>5. m \in Seq(Name) /\ Len(m) = n + 1 /\ m[1] = k /\ \A i \in 1 .. n : m[i + 1] = t[i]
    <2> HIDE DEF t
    <2> QED
        BY <1>3
<1> HIDE DEF r, l, t, m
<1>6. ASSUME NEW i \in 1 .. n + 1 PROVE l[i] = m[i]
    <2>1. CASE i = 1
        BY <1>1, <1>2, <1>4, <1>5, <2>1
    <2>2. CASE i # 1
        <3>1. PICK j \in 1 .. n : i = j + 1
            <4>1. i - 1 \in 1 .. n /\ i = (i - 1) + 1
                BY <1>1, <2>2
            <4> QED
                BY <4>1
        <3> QED
            BY <1>2, <1>3, <1>4, <1>5, <3>1
    <2> QED
        BY <2>1, <2>2
<1>7. l = m
    BY <1>4, <1>5, <1>6, SeqEqual
<1> QED
    BY <1>7 DEF l, m, r, t

LEMMA PrefixCons ==
    ASSUME NEW k \in Name, NEW j \in Name, NEW q \in Seq(Name), NEW r \in Seq(Name)
    PROVE  /\ IsPrefix(<<>>, r)
           /\ ~ IsPrefix(<<k>> \o q, <<>>)
           /\ IsPrefix(<<k>> \o q, <<j>> \o r) <=> k = j /\ IsPrefix(q, r)
<1>1. IsPrefix(<<>>, r)
    <2>1. SubSeq(<<>>, 1, 0) = <<>> /\ SubSeq(r, 1, 0) = <<>> /\ Len(<<>>) = 0 /\ Len(r) \in Nat
        OBVIOUS
    <2> QED
        BY <2>1 DEF IsPrefix
<1> DEFINE a == <<k>> \o q
           b == <<j>> \o r
<1>2. a \in Seq(Name) /\ b \in Seq(Name) /\ Len(a) = Len(q) + 1 /\ Len(b) = Len(r) + 1
      /\ Len(q) \in Nat /\ Len(r) \in Nat
    OBVIOUS
<1>3. ~ IsPrefix(a, <<>>)
    <2>1. Len(<<>>) = 0
        OBVIOUS
    <2> HIDE DEF a
    <2> QED
        BY <1>2, <2>1 DEF IsPrefix
<1>4. Len(q) <= Len(r) => SubSeq(b, 1, Len(a)) = <<j>> \o SubSeq(r, 1, Len(q))
    <2>1. Len(q) <= Len(r) => Len(q) \in 0 .. Len(r)
        BY <1>2
    <2> HIDE DEF a
    <2> QED
        BY <1>2, <2>1, TakeCons
<1>5. SubSeq(a, 1, Len(a)) = <<k>> \o SubSeq(q, 1, Len(q))
    <2>1. SubSeq(a, 1, Len(a)) = a /\ SubSeq(q, 1, Len(q)) = q
        <3> HIDE DEF a
        <3> QED
            BY <1>2, TakeAll
    <2> QED
        BY <2>1
<1> DEFINE t == SubSeq(r, 1, Len(q))
           u == SubSeq(q, 1, Len(q))
<1>6. Len(q) <= Len(r) => t \in Seq(Name)
    BY <1>2, TakeIs
<1>7. u \in Seq(Name)
    BY TakeAll
<1> HIDE DEF t, u
<1>8. Len(q) <= Len(r) => (<<k>> \o u = <<j>> \o t <=> k = j /\ u = t)
    <2> SUFFICES ASSUME Len(q) <= Len(r) PROVE <<k>> \o u = <<j>> \o t <=> k = j /\ u = t
        OBVIOUS
    <2>1. t \in Seq(Name) /\ u \in Seq(Name)
        BY <1>6, <1>7
    <2> HIDE DEF a, b
    <2> QED
        BY <2>1, ConsInjective
<1>9. Len(a) <= Len(b) <=> Len(q) <= Len(r)
    BY <1>2
<1> HIDE DEF a, b
<1>10. IsPrefix(a, b) <=> k = j /\ IsPrefix(q, r)
    BY <1>4, <1>5, <1>8, <1>9 DEF IsPrefix, t, u
<1> QED
    BY <1>1, <1>3, <1>10 DEF a, b

LEMMA PrefixSelf ==
    ASSUME NEW q \in Seq(Name)
    PROVE  IsPrefix(q, q)
BY DEF IsPrefix

LEMMA FrontCons ==
    ASSUME NEW k \in Name, NEW q \in Seq(Name), q # <<>>
    PROVE  /\ Front(<<k>> \o q) = <<k>> \o Front(q)
           /\ Front(q) \in Seq(Name) /\ Len(Front(q)) = Len(q) - 1
<1>1. Len(q) \in Nat /\ Len(q) # 0
    OBVIOUS
<1>2. Len(q) - 1 \in 0 .. Len(q) /\ (Len(q) - 1) + 1 = Len(q)
    BY <1>1
<1>3. Len(<<k>> \o q) - 1 = Len(q)
    BY <1>1
<1> DEFINE n == Len(q) - 1
<1>4. n \in 0 .. Len(q) /\ n + 1 = Len(q)
    BY <1>2
<1> HIDE DEF n
<1>5. SubSeq(<<k>> \o q, 1, n + 1) = <<k>> \o SubSeq(q, 1, n)
    BY <1>4, TakeCons
<1>6. SubSeq(q, 1, n) \in Seq(Name) /\ Len(SubSeq(q, 1, n)) = n
    BY <1>4, TakeIs
<1> QED
    BY <1>3, <1>4, <1>5, <1>6 DEF Front, n

LEMMA FrontOne ==
    ASSUME NEW k
    PROVE  Front(<<k>>) = <<>>
BY DEF Front

LEMMA AllMapsNone ==
    ASSUME NEW v
    PROVE  AllMaps(v, <<>>) <=> IsMap(v)
<1>1. Len(<<>>) = 0 /\ SubSeq(<<>>, 1, 0) = <<>> /\ 0 .. 0 = {0}
    OBVIOUS
<1> QED
    BY <1>1 DEF AllMaps, IsMap

\* There are maps on the way from a root if the root is one and there are below it.
LEMMA AllMapsCons ==
    ASSUME NEW v \in Values, NEW k \in Name, NEW q \in Seq(Name)
    PROVE  AllMaps(v, <<k>> \o q) <=> IsMap(v) /\ AllMaps(Sub(v, k), q)
<1> DEFINE r == <<k>> \o q
           MapAt(w, s) == At(s, "map", <<>>) \in w
<1>1. r \in Seq(Name) /\ Len(r) = Len(q) + 1 /\ Len(q) \in Nat
    OBVIOUS
<1>2. SubSeq(r, 1, 0) = <<>>
    BY <1>1
<1>3. ASSUME NEW i \in 0 .. Len(q)
      PROVE  MapAt(v, SubSeq(r, 1, i + 1)) <=> MapAt(Sub(v, k), SubSeq(q, 1, i))
    <2> DEFINE t == SubSeq(q, 1, i)
               c == At(t, "map", <<>>)
    <2>1. t \in Seq(Name) /\ SubSeq(r, 1, i + 1) = <<k>> \o t
        BY TakeIs, TakeCons
    <2> HIDE DEF t
    <2>2. c \in Cell /\ c.place = t /\ c.t = "map" /\ c.str = <<>>
        <3>1. "map" \in {"map", "list", "string"} /\ <<>> \in Seq(0 .. 255)
            OBVIOUS
        <3>2. At(t, "map", <<>>) \in Cell
            BY <2>1, <3>1, AtType
        <3> QED
            BY <3>2 DEF At
    <2>3. c \in Sub(v, k) <=> At(<<k>> \o c.place, c.t, c.str) \in v
        <3> HIDE DEF c
        <3> QED
            BY <2>2, SubHas
    <2> QED
        BY <2>1, <2>2, <2>3 DEF t
<1>4. AllMaps(Sub(v, k), q) <=> \A i \in 0 .. Len(q) : MapAt(Sub(v, k), SubSeq(q, 1, i))
    BY DEF AllMaps
<1>5. AllMaps(v, r) <=> \A i \in 0 .. Len(r) : MapAt(v, SubSeq(r, 1, i))
    BY DEF AllMaps
<1>6. IsMap(v) <=> MapAt(v, SubSeq(r, 1, 0))
    BY <1>2 DEF IsMap
<1> HIDE DEF r, MapAt
<1>7. ASSUME IsMap(v), AllMaps(Sub(v, k), q) PROVE AllMaps(v, r)
    <2> SUFFICES ASSUME NEW i \in 0 .. Len(r) PROVE MapAt(v, SubSeq(r, 1, i))
        BY <1>5
    <2>1. CASE i = 0
        BY <1>6, <1>7, <2>1
    <2>2. CASE i # 0
        <3>1. PICK j \in 0 .. Len(q) : i = j + 1
            <4>1. i - 1 \in 0 .. Len(q) /\ i = (i - 1) + 1
                BY <1>1, <2>2
            <4> QED
                BY <4>1
        <3> QED
            BY <1>3, <1>4, <1>7, <3>1
    <2> QED
        BY <2>1, <2>2
<1>8. ASSUME AllMaps(v, r) PROVE IsMap(v) /\ AllMaps(Sub(v, k), q)
    <2>1. 0 \in 0 .. Len(r) /\ \A i \in 0 .. Len(q) : i + 1 \in 0 .. Len(r)
        BY <1>1
    <2> QED
        BY <1>3, <1>4, <1>5, <1>6, <1>8, <2>1
<1> QED
    BY <1>7, <1>8 DEF r

-----------------------------------------------------------------------------
(* Trimming.                                                               *)

Cuts == [Values -> Values]
Kept(g, f, m, k) ==
    IF k \in g.leaf THEN Sub(m, k)
    ELSE IF g.branch[k] # <<>> /\ IsMap(Sub(m, k)) THEN f[g.branch[k]][Sub(m, k)]
    ELSE {}
KeptKids(g, f, m) == [k \in Kids(m) |-> Kept(g, f, m, k)]
TrimBy(paths, f) == [m \in Values |-> Map(KeptKids(groupPaths(paths), f, m))]

\* Lists of paths by the length of the longest.
Shorter(n) == {paths \in Seq(Path) : n # 0 /\ \A i \in DOMAIN paths : Len(paths[i]) < n}
ByLength == [n \in Nat |-> Shorter(n)]

LEMMA ByLengthLevels == Levels(Seq(Path), ByLength)
<1>1. ByLength \in [Nat -> SUBSET Seq(Path)]
    BY DEF ByLength, Shorter
<1>2. \A n \in Nat : ByLength[n] = Shorter(n)
    BY DEF ByLength
<1>3. ByLength[0] = {}
    BY <1>2 DEF Shorter
<1>4. ASSUME NEW paths \in Seq(Path), NEW i \in DOMAIN paths PROVE Len(paths[i]) \in Nat
    <2>1. paths[i] \in Path
        OBVIOUS
    <2> QED
        BY <2>1 DEF Path
<1>5. ASSUME NEW n \in Nat PROVE Shorter(n) \subseteq Shorter(n + 1)
    <2> SUFFICES ASSUME NEW paths \in Shorter(n) PROVE paths \in Shorter(n + 1)
        OBVIOUS
    <2>1. paths \in Seq(Path) /\ \A i \in DOMAIN paths : Len(paths[i]) < n
        BY DEF Shorter
    <2>2. ASSUME NEW i \in DOMAIN paths PROVE Len(paths[i]) < n + 1
        <3>1. Len(paths[i]) \in Nat /\ Len(paths[i]) < n
            BY <1>4, <2>1
        <3> QED
            BY <3>1
    <2>3. n + 1 # 0
        OBVIOUS
    <2> QED
        BY <2>1, <2>2, <2>3 DEF Shorter
<1>6. ASSUME NEW paths \in Seq(Path) PROVE \E n \in Nat : paths \in Shorter(n)
    <2> DEFINE Bounds(k, n) == \A i \in DOMAIN paths : i <= k => Len(paths[i]) < n
               I == {k \in Nat : \E n \in Nat : n # 0 /\ Bounds(k, n)}
    <2>0. DOMAIN paths = 1 .. Len(paths) /\ Len(paths) \in Nat
        OBVIOUS
    <2>1. 0 \in I
        <3>1. Bounds(0, 1) /\ 1 \in Nat /\ 1 # 0
            BY <2>0
        <3> HIDE DEF Bounds
        <3> QED
            BY <3>1
    <2>2. ASSUME NEW k \in Nat, k \in I PROVE k + 1 \in I
        <3>1. PICK n \in Nat : n # 0 /\ Bounds(k, n)
            BY <2>2
        <3>2. CASE k + 1 \in DOMAIN paths
            <4>1. Len(paths[k + 1]) \in Nat
                BY <1>4, <3>2
            <4> DEFINE m == n + Len(paths[k + 1])
            <4>2. m \in Nat /\ m # 0 /\ n <= m /\ Len(paths[k + 1]) < m
                BY <3>1, <4>1
            <4> HIDE DEF m
            <4>3. ASSUME NEW i \in DOMAIN paths, i <= k + 1 PROVE Len(paths[i]) < m
                <5>1. CASE i = k + 1
                    BY <4>2, <5>1
                <5>2. CASE i # k + 1
                    <6>1. i <= k
                        BY <2>0, <4>3, <5>2
                    <6>2. Len(paths[i]) < n /\ Len(paths[i]) \in Nat
                        BY <1>4, <3>1, <6>1
                    <6> QED
                        BY <4>2, <6>2
                <5> QED
                    BY <5>1, <5>2
            <4>4. Bounds(k + 1, m)
                BY <4>3
            <4> HIDE DEF Bounds
            <4> QED
                BY <4>2, <4>4
        <3>3. CASE k + 1 \notin DOMAIN paths
            <4>1. \A i \in DOMAIN paths : i <= k + 1 => i <= k
                BY <2>0, <3>3
            <4>2. Bounds(k + 1, n)
                BY <3>1, <4>1
            <4> HIDE DEF Bounds
            <4> QED
                BY <3>1, <4>2
        <3> QED
            BY <3>2, <3>3
    <2>3. \A k \in Nat : k \in I
        <3> HIDE DEF I
        <3> QED
            BY <2>1, <2>2, Induction
    <2>4. PICK n \in Nat : n # 0 /\ Bounds(Len(paths), n)
        BY <2>0, <2>3
    <2>5. \A i \in DOMAIN paths : Len(paths[i]) < n
        BY <2>0, <2>4
    <2> QED
        BY <2>4, <2>5 DEF Shorter
<1> QED
    BY <1>1, <1>2, <1>3, <1>5, <1>6 DEF Levels

\* The paths that go on from a name are shorter by one.
LEMMA BranchShorter ==
    ASSUME NEW n \in Nat, NEW paths \in ByLength[n + 1], NEW k \in Name,
           groupPaths(paths).branch[k] # <<>>
    PROVE  groupPaths(paths).branch[k] \in ByLength[n]
<1> DEFINE g == groupPaths(paths)
           b == g.branch[k]
<1>1. paths \in Seq(Path) /\ \A i \in DOMAIN paths : Len(paths[i]) < n + 1
    BY DEF ByLength, Shorter
<1>2. Grouped(g, ToSet(paths))
    BY <1>1, GroupPathsIs
<1>3. b \in Seq(Path)
    BY <1>2 DEF Grouped, Groups
<1>4. b # <<>> /\ k \notin g.leaf
    BY <1>2 DEF Grouped
<1>5. ASSUME NEW i \in DOMAIN b PROVE Len(b[i]) < n /\ Len(b[i]) \in Nat
    <2> DEFINE q == b[i]
    <2>1. q \in Path /\ q \in ToSet(b)
        BY <1>3 DEF ToSet
    <2> HIDE DEF q
    <2>2. <<k>> \o q \in ToSet(paths)
        <3> HIDE DEF g
        <3> QED
            BY <1>2, <1>4, <2>1 DEF Grouped
    <2>3. PICK j \in DOMAIN paths : paths[j] = <<k>> \o q
        BY <2>2 DEF ToSet
    <2>4. q \in Seq(Name)
        BY <2>1 DEF Path
    <2>5. Len(<<k>> \o q) = Len(q) + 1 /\ Len(q) \in Nat
        BY <2>4
    <2>6. Len(<<k>> \o q) < n + 1
        BY <1>1, <2>3
    <2>7. Len(q) < n
        BY <2>5, <2>6
    <2> QED
        BY <2>5, <2>7 DEF q
<1> HIDE DEF b
<1>6. 1 \in DOMAIN b
    BY <1>3, <1>4
<1>7. n # 0
    BY <1>5, <1>6
<1>8. b \in ByLength[n]
    BY <1>3, <1>5, <1>7 DEF ByLength, Shorter
<1> QED
    BY <1>8 DEF b

LEMMA KeptType ==
    ASSUME NEW g \in Groups, NEW f, NEW m \in Values, NEW k \in Name,
           g.branch[k] # <<>> => f[g.branch[k]] \in Cuts
    PROVE  Kept(g, f, m, k) \in Values
<1>1. Sub(m, k) \in Values
    BY SubType
<1>2. g.branch[k] # <<>> => f[g.branch[k]][Sub(m, k)] \in Values
    BY <1>1 DEF Cuts
<1>3. {} \in Values
    BY DEF Values
<1> QED
    BY <1>1, <1>2, <1>3 DEF Kept

LEMMA TrimByType ==
    ASSUME NEW paths \in Seq(Path), NEW f,
           \A k \in Name : groupPaths(paths).branch[k] # <<>> => f[groupPaths(paths).branch[k]] \in Cuts
    PROVE  TrimBy(paths, f) \in Cuts
<1> DEFINE g == groupPaths(paths)
<1>1. g \in Groups
    BY GroupPathsIs DEF Grouped
<1>2. \A k \in Name : g.branch[k] # <<>> => f[g.branch[k]] \in Cuts
    OBVIOUS
<1> HIDE DEF g
<1>3. ASSUME NEW m \in Values PROVE Map(KeptKids(g, f, m)) \in Values
    <2>1. Kids(m) \in SUBSET Name
        BY KidsType
    <2>2. \A k \in Kids(m) : Kept(g, f, m, k) \in Values
        BY <1>1, <1>2, <2>1, KeptType
    <2>3. KeptKids(g, f, m) \in [Kids(m) -> Values]
        BY <2>2 DEF KeptKids
    <2> QED
        BY <2>1, <2>3, GatherType DEF Map
<1> QED
    BY <1>3 DEF TrimBy, Cuts, g

LEMMA TrimByLocal ==
    ASSUME NEW paths \in Seq(Path), NEW f, NEW h,
           \A k \in Name : groupPaths(paths).branch[k] # <<>> =>
               f[groupPaths(paths).branch[k]] = h[groupPaths(paths).branch[k]]
    PROVE  TrimBy(paths, f) = TrimBy(paths, h)
<1> DEFINE g == groupPaths(paths)
<1>1. \A k \in Name : g.branch[k] # <<>> => f[g.branch[k]] = h[g.branch[k]]
    OBVIOUS
<1> HIDE DEF g
<1>2. ASSUME NEW m \in Values PROVE KeptKids(g, f, m) = KeptKids(g, h, m)
    <2>1. \A k \in Kids(m) : Kept(g, f, m, k) = Kept(g, h, m, k)
        BY <1>1, KidsType DEF Kept
    <2> QED
        BY <2>1 DEF KeptKids
<1> QED
    BY <1>2 DEF TrimBy, g

\* What is shown of a list of paths from lists of shorter paths holds of every list.
LEMMA LengthInduction ==
    ASSUME NEW Q, \A n \in Nat : ByLength[n] \subseteq Q => ByLength[n + 1] \subseteq Q
    PROVE  Seq(Path) \subseteq Q
<1> DEFINE I == {n \in Nat : ByLength[n] \subseteq Q}
<1>1. 0 \in I
    BY ByLengthLevels DEF Levels
<1>2. \A n \in Nat : n \in I => n + 1 \in I
    OBVIOUS
<1> HIDE DEF I
<1>3. \A n \in Nat : n \in I
    BY <1>1, <1>2, Induction
<1> QED
    BY <1>3, ByLengthLevels DEF I, Levels

LEMMA TrimAtIs ==
    /\ \A paths \in Seq(Path) : trimAt[paths] \in Cuts
    /\ \A paths \in Seq(Path) : trimAt[paths] = TrimBy(paths, trimAt)
<1> DEFINE T == Seq(Path)
           H == [paths \in T |-> [f \in [T -> Cuts] |-> TrimBy(paths, f)]]
           R(f) == f = [paths \in T |-> TrimBy(paths, f)]
<1>0. ASSUME NEW paths \in T, NEW k \in Name PROVE groupPaths(paths).branch[k] \in T
    BY GroupPathsIs DEF Grouped, Groups
<1>1. H \in [T -> [[T -> Cuts] -> Cuts]]
    <2>1. ASSUME NEW paths \in T, NEW f \in [T -> Cuts] PROVE TrimBy(paths, f) \in Cuts
        <3>1. \A k \in Name : f[groupPaths(paths).branch[k]] \in Cuts
            BY <1>0
        <3> QED
            BY <3>1, TrimByType
    <2> QED
        BY <2>1
<1>2. \A paths \in T : \A f \in [T -> Cuts] : H[paths][f] = TrimBy(paths, f)
    OBVIOUS
<1> HIDE DEF H
<1>3. LooksBelow(T, Cuts, ByLength, H)
    <2>1. SUFFICES ASSUME NEW n \in Nat, NEW paths \in ByLength[n + 1], NEW f \in [T -> Cuts],
                          NEW h \in [T -> Cuts], Agree(ByLength[n], f, h)
                   PROVE  H[paths][f] = H[paths][h]
        BY DEF LooksBelow
    <2>2. paths \in T
        BY ByLengthLevels DEF Levels
    <2>3. ASSUME NEW k \in Name, groupPaths(paths).branch[k] # <<>>
          PROVE  f[groupPaths(paths).branch[k]] = h[groupPaths(paths).branch[k]]
        <3>1. groupPaths(paths).branch[k] \in ByLength[n]
            BY <2>3, BranchShorter
        <3> QED
            BY <2>1, <3>1 DEF Agree
    <2>4. TrimBy(paths, f) = TrimBy(paths, h)
        BY <2>2, <2>3, TrimByLocal
    <2> QED
        BY <1>2, <2>2, <2>4
<1>4. [m \in Values |-> m] \in Cuts
    BY DEF Cuts
<1>5. PICK f \in [T -> Cuts] : Solves(T, H, f)
    BY <1>1, <1>3, <1>4, ByLengthLevels, Recursion
<1>6. R(f)
    BY <1>2, <1>5 DEF Solves
<1>7. trimAt = CHOOSE f1 : R(f1)
    BY DEF trimAt, TrimBy, KeptKids, Kept
<1>8. R(trimAt)
    <2> HIDE DEF R
    <2> QED
        BY <1>6, <1>7
<1>9. \A paths \in T : trimAt[paths] = TrimBy(paths, trimAt)
    BY <1>8
<1> DEFINE Q == {paths \in T : trimAt[paths] \in Cuts}
<1>10. ASSUME NEW n \in Nat, ByLength[n] \subseteq Q PROVE ByLength[n + 1] \subseteq Q
    <2>1. SUFFICES ASSUME NEW paths \in ByLength[n + 1] PROVE paths \in Q
        OBVIOUS
    <2>2. paths \in T
        BY ByLengthLevels DEF Levels
    <2>3. \A k \in Name : groupPaths(paths).branch[k] # <<>> =>
              trimAt[groupPaths(paths).branch[k]] \in Cuts
        BY <1>10, BranchShorter
    <2>4. TrimBy(paths, trimAt) \in Cuts
        BY <2>2, <2>3, TrimByType
    <2> QED
        BY <1>9, <2>2, <2>4
<1>11. T \subseteq Q
    <2> HIDE DEF Q
    <2> QED
        BY <1>10, LengthInduction
<1> QED
    BY <1>9, <1>11

\* A cell below a name is kept by a path as its own cell is by what follows the name.
LEMMA KeepsCons ==
    ASSUME NEW v \in Values, IsMap(v), NEW k \in Name, NEW j \in Name, NEW q \in Path,
           NEW d \in Cell
    PROVE  Keeps(v, <<j>> \o q, Up(k, d)) <=> (j = k /\ IsMap(Sub(v, k)) /\ Keeps(Sub(v, k), q, d))
<1> DEFINE c == Up(k, d)
           w == Sub(v, k)
<1>1. d.place \in Seq(Name) /\ d = At(d.place, d.t, d.str)
    BY CellIsAt
<1>2. c.place = <<k>> \o d.place /\ c.t = d.t /\ c.str = d.str
    BY DEF Up, At
<1>3. q \in Seq(Name) /\ q # <<>>
    BY DEF Path
<1>4. IsPrefix(<<j>> \o q, c.place) <=> (j = k /\ IsPrefix(q, d.place))
    BY <1>1, <1>2, <1>3, PrefixCons
<1>5. IsPrefix(c.place, <<j>> \o q) <=> (k = j /\ IsPrefix(d.place, q))
    BY <1>1, <1>2, <1>3, PrefixCons
<1>6. AllMaps(v, Front(<<k>> \o q)) <=> AllMaps(w, Front(q))
    <2>1. Front(<<k>> \o q) = <<k>> \o Front(q) /\ Front(q) \in Seq(Name)
        BY <1>3, FrontCons
    <2> DEFINE r == Front(q)
    <2>2. r \in Seq(Name)
        BY <2>1
    <2> HIDE DEF r
    <2>3. AllMaps(v, <<k>> \o r) <=> IsMap(v) /\ AllMaps(Sub(v, k), r)
        BY <2>2, AllMapsCons
    <2> QED
        BY <2>1, <2>3 DEF r
<1>7. AllMaps(v, c.place) <=> AllMaps(w, d.place)
    <2> DEFINE r == d.place
    <2>1. r \in Seq(Name)
        BY <1>1
    <2> HIDE DEF r, w, c
    <2>2. AllMaps(v, <<k>> \o r) <=> IsMap(v) /\ AllMaps(Sub(v, k), r)
        BY <2>1, AllMapsCons
    <2> QED
        BY <1>2, <2>2 DEF r, w
<1>8. c = At(c.place, "map", <<>>) <=> d = At(d.place, "map", <<>>)
    <2>1. c = At(c.place, "map", <<>>) <=> c.t = "map" /\ c.str = <<>>
        BY DEF Up, At
    <2>2. d = At(d.place, "map", <<>>) <=> d.t = "map" /\ d.str = <<>>
        BY <1>1 DEF At
    <2> QED
        BY <1>2, <2>1, <2>2
<1>9. \A r \in Seq(Name) : AllMaps(w, r) => IsMap(w)
    <2> SUFFICES ASSUME NEW r \in Seq(Name), AllMaps(w, r) PROVE IsMap(w)
        OBVIOUS
    <2>1. 0 \in 0 .. Len(r) /\ SubSeq(r, 1, 0) = <<>>
        OBVIOUS
    <2> HIDE DEF w
    <2> QED
        BY <2>1 DEF AllMaps, IsMap
<1>10. Front(q) \in Seq(Name)
    BY <1>3, FrontCons
<1> HIDE DEF c, w
<1> QED
    BY <1>1, <1>4, <1>5, <1>6, <1>7, <1>8, <1>9, <1>10 DEF Keeps, c, w

\* A path that is one name keeps what is at and below it.
LEMMA KeepsLeaf ==
    ASSUME NEW v \in Values, IsMap(v), NEW k \in Name, NEW d \in Cell
    PROVE  Keeps(v, <<k>>, Up(k, d))
<1>1. d.place \in Seq(Name) /\ <<>> \in Seq(Name)
    BY CellIsAt
<1>2. Up(k, d).place = <<k>> \o d.place
    BY DEF Up, At
<1>3. IsPrefix(<<k>> \o <<>>, <<k>> \o d.place)
    BY <1>1, PrefixCons
<1>4. <<k>> \o <<>> = <<k>>
    OBVIOUS
<1>5. AllMaps(v, Front(<<k>>))
    BY FrontOne, AllMapsNone
<1> QED
    BY <1>2, <1>3, <1>4, <1>5 DEF Keeps

\* A path keeps no more of the root than that it is a map.
LEMMA KeepsRoot ==
    ASSUME NEW v \in Values, IsMap(v), NEW p \in Path, NEW c \in Cell, c.place = <<>>
    PROVE  Keeps(v, p, c) <=> c = At(<<>>, "map", <<>>)
<1>1. p[1] \in Name /\ Tail(p) \in Seq(Name) /\ p = <<p[1]>> \o Tail(p) /\ p \in Seq(Name)
    BY PathParts
<1>2. ~ IsPrefix(p, <<>>)
    <2> DEFINE k == p[1]
               q == Tail(p)
    <2>1. k \in Name /\ q \in Seq(Name) /\ p = <<k>> \o q
        BY <1>1
    <2> HIDE DEF k, q
    <2> QED
        BY <2>1, PrefixCons
<1>3. IsPrefix(<<>>, p)
    BY <1>1, PrefixCons
<1>4. AllMaps(v, <<>>)
    BY AllMapsNone
<1> QED
    BY <1>2, <1>3, <1>4 DEF Keeps

LEMMA MapHasRoot ==
    ASSUME NEW D \in SUBSET Name, NEW kids \in [D -> Values], NEW c \in Cell, c.place = <<>>
    PROVE  c \in Map(kids) <=> c = At(<<>>, "map", <<>>)
<1>1. ASSUME NEW k \in D PROVE c \notin Put(k, kids[k])
    <2> SUFFICES ASSUME NEW d \in kids[k], c = At(<<k>> \o d.place, d.t, d.str) PROVE FALSE
        BY DEF Put
    <2>1. d \in Cell
        BY DEF Values
    <2>2. <<k>> \o d.place # <<>>
        BY <2>1, CellIsAt, Consed
    <2> QED
        BY <2>2 DEF At
<1> QED
    BY <1>1 DEF Map, Gather

LEMMA MapHas ==
    ASSUME NEW D \in SUBSET Name, NEW kids \in [D -> Values], NEW k \in Name, NEW d \in Cell
    PROVE  Up(k, d) \in Map(kids) <=> (k \in D /\ d \in kids[k])
<1> DEFINE c == Up(k, d)
<1>0. d.place \in Seq(Name) /\ d = At(d.place, d.t, d.str)
    BY CellIsAt
<1>1. c.place = <<k>> \o d.place /\ c.t = d.t /\ c.str = d.str
    BY DEF Up, At
<1>2. c # At(<<>>, "map", <<>>)
    <2>1. <<k>> \o d.place # <<>>
        BY <1>0, Consed
    <2> QED
        BY <1>1, <2>1 DEF At
<1>3. ASSUME NEW j \in D, c \in Put(j, kids[j]) PROVE j = k /\ d \in kids[j]
    <2>1. PICK e \in kids[j] : c = At(<<j>> \o e.place, e.t, e.str)
        BY <1>3 DEF Put
    <2>2. e \in Cell
        BY DEF Values
    <2>3. e.place \in Seq(Name) /\ e = At(e.place, e.t, e.str)
        BY <2>2, CellIsAt
    <2>4. c.place = <<j>> \o e.place /\ c.t = e.t /\ c.str = e.str
        BY <2>1 DEF At
    <2> DEFINE q == d.place
               r == e.place
    <2>5. q \in Seq(Name) /\ r \in Seq(Name) /\ <<k>> \o q = <<j>> \o r /\ j \in Name
        BY <1>0, <1>1, <2>3, <2>4
    <2> HIDE DEF q, r
    <2>6. k = j /\ q = r
        BY <2>5, ConsInjective
    <2>7. d = e
        BY <1>0, <1>1, <2>3, <2>4, <2>6 DEF q, r
    <2> QED
        BY <2>6, <2>7
<1>4. ASSUME k \in D, d \in kids[k] PROVE c \in Put(k, kids[k])
    BY <1>4 DEF Put, Up
<1> HIDE DEF c
<1> QED
    BY <1>2, <1>3, <1>4 DEF Map, Gather, c

\* A cell is at the root or below a name.
LEMMA CellWhere ==
    ASSUME NEW c \in Cell
    PROVE  c.place = <<>> \/ \E k \in Name : \E d \in Cell : c = Up(k, d)
<1> SUFFICES ASSUME c.place # <<>> PROVE \E k \in Name : \E d \in Cell : c = Up(k, d)
    OBVIOUS
<1>1. c.place \in Seq(Name) /\ c.t \in {"map", "list", "string"} /\ c.str \in Seq(0 .. 255)
      /\ c = At(c.place, c.t, c.str)
    BY CellIsAt
<1>2. c.place[1] \in Name /\ Tail(c.place) \in Seq(Name) /\ c.place = <<c.place[1]>> \o Tail(c.place)
    BY <1>1, Parted
<1> DEFINE d == At(Tail(c.place), c.t, c.str)
<1>3. d \in Cell
    BY <1>1, <1>2, AtType
<1>4. d.place = Tail(c.place) /\ d.t = c.t /\ d.str = c.str
    BY DEF At
<1> HIDE DEF d
<1>5. c = Up(c.place[1], d)
    BY <1>1, <1>2, <1>4 DEF Up
<1> QED
    BY <1>2, <1>3, <1>5

LEMMA SubHasUp ==
    ASSUME NEW v \in Values, NEW k \in Name, NEW d \in Cell
    PROVE  /\ d \in Sub(v, k) <=> Up(k, d) \in v
           /\ d \in Sub(v, k) => k \in Kids(v)
<1>1. d \in Sub(v, k) <=> Up(k, d) \in v
    BY SubHas DEF Up
<1>2. ASSUME Up(k, d) \in v PROVE k \in Kids(v)
    <2>1. Up(k, d).place = <<k>> \o d.place /\ d.place \in Seq(Name)
        BY CellIsAt DEF Up, At
    <2>2. Up(k, d).place # <<>> /\ Up(k, d).place[1] = k
        BY <2>1, Consed
    <2> QED
        BY <1>2, <2>2 DEF Kids
<1> QED
    BY <1>1, <1>2

\* What trimming leaves, if it does so of what is below.
LEMMA TrimByKeeps ==
    ASSUME NEW paths \in Seq(Path), paths # <<>>, NEW f,
           \A k \in Name : groupPaths(paths).branch[k] # <<>> =>
               /\ f[groupPaths(paths).branch[k]] \in Cuts
               /\ \A w \in Values : IsMap(w) =>
                     f[groupPaths(paths).branch[k]][w]
                         = Trimmed(w, ToSet(groupPaths(paths).branch[k])),
           NEW m \in Values, IsMap(m)
    PROVE  TrimBy(paths, f)[m] = Trimmed(m, ToSet(paths))
<1> DEFINE g == groupPaths(paths)
           P == ToSet(paths)
<1>1. Grouped(g, P)
    BY GroupPathsIs
<1>2. \A k \in Name : g.branch[k] # <<>> =>
          /\ f[g.branch[k]] \in Cuts
          /\ \A w \in Values : IsMap(w) => f[g.branch[k]][w] = Trimmed(w, ToSet(g.branch[k]))
    OBVIOUS
<1>3. P \subseteq Path /\ P # {}
    <2>1. 1 \in DOMAIN paths
        OBVIOUS
    <2>2. \A i \in DOMAIN paths : paths[i] \in Path
        OBVIOUS
    <2> QED
        BY <2>1, <2>2 DEF ToSet
<1>4. TrimBy(paths, f)[m] = Map(KeptKids(g, f, m))
    BY DEF TrimBy
<1> HIDE DEF g, P
<1>5. g \in Groups /\ Kids(m) \in SUBSET Name
    BY <1>1, KidsType DEF Grouped
<1>6. KeptKids(g, f, m) \in [Kids(m) -> Values]
    <2>1. \A k \in Kids(m) : Kept(g, f, m, k) \in Values
        BY <1>2, <1>5, KeptType
    <2> QED
        BY <2>1 DEF KeptKids
<1>7. ASSUME NEW k \in Name, NEW d \in Cell, d \in Sub(m, k)
      PROVE  d \in Kept(g, f, m, k) <=> \E p \in P : Keeps(m, p, Up(k, d))
    <2> DEFINE w == Sub(m, k)
    <2>0. w \in Values
        BY SubType
    <2>1. CASE k \in g.leaf
        <3>1. <<k>> \in P
            BY <1>1, <2>1 DEF Grouped
        <3> QED
            BY <1>7, <2>1, <3>1, KeepsLeaf DEF Kept
    <2>2. CASE k \notin g.leaf
        <3> DEFINE b == g.branch[k]
        <3>1. b \in Seq(Path) /\ <<k>> \notin P
              /\ \A q \in Path : q \in ToSet(b) <=> <<k>> \o q \in P
            BY <1>1, <2>2 DEF Grouped, Groups
        <3>2. ToSet(b) \subseteq Path
            BY <3>1 DEF ToSet
        <3>3. (\E p \in P : Keeps(m, p, Up(k, d))) <=>
                  IsMap(w) /\ \E q \in ToSet(b) : Keeps(w, q, d)
            <4>1. ASSUME NEW p \in P, Keeps(m, p, Up(k, d))
                  PROVE  IsMap(w) /\ \E q \in ToSet(b) : Keeps(w, q, d)
                <5>1. p \in Path
                    BY <1>3
                <5> DEFINE j == p[1]
                           q == Tail(p)
                <5>2. j \in Name /\ q \in Seq(Name) /\ p = <<j>> \o q /\ (Len(p) = 1 <=> p = <<j>>)
                      /\ (Len(p) # 1 => q \in Path)
                    BY <5>1, PathParts
                <5> HIDE DEF j, q, w, b
                <5>3. CASE q \in Path
                    <6>1. j = k /\ IsMap(w) /\ Keeps(w, q, d)
                        BY <4>1, <5>2, <5>3, KeepsCons DEF w
                    <6> QED
                        BY <3>1, <5>2, <5>3, <6>1
                <5>4. CASE q \notin Path
                    <6>1. p = <<j>> /\ j # k
                        BY <3>1, <5>2, <5>4
                    <6>2. d.place \in Seq(Name) /\ Up(k, d).place = <<k>> \o d.place /\ <<>> \in Seq(Name)
                        BY CellIsAt DEF Up, At
                    <6>3. <<j>> = <<j>> \o <<>>
                        OBVIOUS
                    <6>4. ~ IsPrefix(p, Up(k, d).place) /\ ~ IsPrefix(Up(k, d).place, p)
                        <7> DEFINE r == d.place
                                   z == <<>>
                        <7>1. r \in Seq(Name) /\ z \in Seq(Name) /\ p = <<j>> \o z /\ Up(k, d).place = <<k>> \o r
                            BY <6>1, <6>2, <6>3
                        <7> HIDE DEF r, z
                        <7> QED
                            BY <5>2, <6>1, <7>1, PrefixCons
                    <6> QED
                        BY <4>1, <6>4 DEF Keeps
                <5> QED
                    BY <5>3, <5>4
            <4>2. ASSUME IsMap(w), NEW q \in ToSet(b), Keeps(w, q, d)
                  PROVE  \E p \in P : Keeps(m, p, Up(k, d))
                <5>1. q \in Path /\ <<k>> \o q \in P
                    BY <3>1, <3>2
                <5>2. Keeps(m, <<k>> \o q, Up(k, d))
                    BY <4>2, <5>1, KeepsCons
                <5> QED
                    BY <5>1, <5>2
            <4> QED
                BY <4>1, <4>2
        <3>4. d \in Kept(g, f, m, k) <=> IsMap(w) /\ b # <<>> /\ \E q \in ToSet(b) : Keeps(w, q, d)
            <4>1. CASE b # <<>> /\ IsMap(w)
                <5>1. Kept(g, f, m, k) = Trimmed(w, ToSet(b))
                    BY <1>2, <2>0, <2>2, <4>1 DEF Kept
                <5> HIDE DEF b, w
                <5> QED
                    BY <1>7, <4>1, <5>1 DEF Trimmed, w
            <4>2. CASE ~ (b # <<>> /\ IsMap(w))
                <5>1. Kept(g, f, m, k) = {}
                    BY <2>2, <4>2 DEF Kept
                <5> QED
                    BY <4>2, <5>1
            <4> QED
                BY <4>1, <4>2
        <3>5. b = <<>> => ToSet(b) = {}
            BY DEF ToSet
        <3> HIDE DEF b, w
        <3> QED
            BY <3>3, <3>4, <3>5
    <2> QED
        BY <2>1, <2>2
<1>8. ASSUME NEW c \in Cell
      PROVE  c \in Map(KeptKids(g, f, m)) <=> c \in Trimmed(m, P)
    <2>1. CASE c.place = <<>>
        <3>1. c \in Map(KeptKids(g, f, m)) <=> c = At(<<>>, "map", <<>>)
            BY <1>5, <1>6, <2>1, MapHasRoot
        <3>2. \A p \in P : Keeps(m, p, c) <=> c = At(<<>>, "map", <<>>)
            BY <1>3, <2>1, KeepsRoot
        <3> QED
            BY <1>3, <3>1, <3>2 DEF Trimmed, IsMap
    <2>2. ASSUME NEW k \in Name, NEW d \in Cell, c = Up(k, d)
          PROVE  c \in Map(KeptKids(g, f, m)) <=> c \in Trimmed(m, P)
        <3>1. c \in Map(KeptKids(g, f, m)) <=> (k \in Kids(m) /\ d \in KeptKids(g, f, m)[k])
            BY <1>5, <1>6, <2>2, MapHas
        <3>2. k \in Kids(m) => KeptKids(g, f, m)[k] = Kept(g, f, m, k)
            BY DEF KeptKids
        <3>3. d \in Sub(m, k) <=> c \in m
            BY <2>2, SubHasUp
        <3>4. d \in Sub(m, k) => k \in Kids(m)
            BY SubHasUp
        <3>5. d \in Kept(g, f, m, k) => d \in Sub(m, k)
            <4>1. CASE k \in g.leaf
                BY <4>1 DEF Kept
            <4>2. CASE k \notin g.leaf /\ g.branch[k] # <<>> /\ IsMap(Sub(m, k))
                <5>1. Kept(g, f, m, k) = Trimmed(Sub(m, k), ToSet(g.branch[k]))
                    BY <1>2, <4>2, SubType DEF Kept
                <5> QED
                    BY <5>1 DEF Trimmed
            <4>3. CASE k \notin g.leaf /\ ~ (g.branch[k] # <<>> /\ IsMap(Sub(m, k)))
                BY <4>3 DEF Kept
            <4> QED
                BY <4>1, <4>2, <4>3
        <3>6. c \in Map(KeptKids(g, f, m)) <=> d \in Sub(m, k) /\ d \in Kept(g, f, m, k)
            BY <3>1, <3>2, <3>4, <3>5
        <3>7. c \in Trimmed(m, P) <=> c \in m /\ \E p \in P : Keeps(m, p, Up(k, d))
            BY <2>2 DEF Trimmed
        <3> QED
            BY <1>7, <3>3, <3>6, <3>7
    <2> QED
        BY <2>1, <2>2, CellWhere
<1>9. Map(KeptKids(g, f, m)) \subseteq Cell /\ Trimmed(m, P) \subseteq Cell
    BY <1>5, <1>6, GatherType DEF Map, Trimmed, Values
<1>10. Map(KeptKids(g, f, m)) = Trimmed(m, P)
    BY <1>8, <1>9
<1> QED
    BY <1>4, <1>10 DEF P

\* What trimming leaves depends on the set of paths only.
LEMMA TrimAtKeeps ==
    ASSUME NEW paths \in Seq(Path), paths # <<>>, NEW m \in Values, IsMap(m)
    PROVE  trimAt[paths][m] = Trimmed(m, ToSet(paths))
<1> DEFINE Q == {ps \in Seq(Path) : ps # <<>> =>
                    \A w \in Values : IsMap(w) => trimAt[ps][w] = Trimmed(w, ToSet(ps))}
<1>1. ASSUME NEW n \in Nat, ByLength[n] \subseteq Q PROVE ByLength[n + 1] \subseteq Q
    <2>0. ByLength[n + 1] \subseteq Seq(Path)
        BY ByLengthLevels DEF Levels
    <2>1. SUFFICES ASSUME NEW ps \in ByLength[n + 1], ps # <<>>, NEW w \in Values, IsMap(w)
                   PROVE  trimAt[ps][w] = Trimmed(w, ToSet(ps))
        BY <2>0
    <2>2. ps \in Seq(Path)
        BY <2>0
    <2>3. ASSUME NEW k \in Name, groupPaths(ps).branch[k] # <<>>
          PROVE  /\ trimAt[groupPaths(ps).branch[k]] \in Cuts
                 /\ \A u \in Values : IsMap(u) =>
                       trimAt[groupPaths(ps).branch[k]][u]
                           = Trimmed(u, ToSet(groupPaths(ps).branch[k]))
        <3>1. groupPaths(ps).branch[k] \in Q
            BY <1>1, <2>3, BranchShorter
        <3> QED
            BY <2>3, <3>1, TrimAtIs
    <2>4. TrimBy(ps, trimAt)[w] = Trimmed(w, ToSet(ps))
        BY <2>1, <2>2, <2>3, TrimByKeeps
    <2> QED
        BY <2>2, <2>4, TrimAtIs
<1>2. Seq(Path) \subseteq Q
    <2> HIDE DEF Q
    <2> QED
        BY <1>1, LengthInduction
<1> QED
    BY <1>2

-----------------------------------------------------------------------------
(* Evaluation on an object and on what is left of it.                      *)

\* Selecting `rest` tells v and w apart in no step.
Same(v, w, rest) ==
    /\ \A q \in Seq(Name) : IsStrictPrefix(q, rest) => (AllMaps(v, q) <=> AllMaps(w, q))
    /\ (\A q \in Seq(Name) : IsStrictPrefix(q, rest) => AllMaps(v, q)) =>
          \A c \in Cell : IsPrefix(rest, c.place) => (c \in v <=> c \in w)

LEMMA SameSelf ==
    ASSUME NEW v, NEW rest
    PROVE  Same(v, v, rest)
BY DEF Same

LEMMA SameAll ==
    ASSUME NEW v \in Values, NEW w \in Values, Same(v, w, <<>>)
    PROVE  v = w
<1>1. \A q \in Seq(Name) : ~ IsStrictPrefix(q, <<>>)
    <2> SUFFICES ASSUME NEW q \in Seq(Name), IsPrefix(q, <<>>) PROVE q = <<>>
        BY DEF IsStrictPrefix
    <2>1. Len(q) <= 0 /\ Len(q) \in Nat
        <3>1. Len(<<>>) = 0 /\ Len(q) \in Nat
            OBVIOUS
        <3> QED
            BY <3>1 DEF IsPrefix
    <2> QED
        BY <2>1
<1>2. \A c \in Cell : IsPrefix(<<>>, c.place)
    <2> SUFFICES ASSUME NEW c \in Cell PROVE IsPrefix(<<>>, c.place)
        OBVIOUS
    <2>1. SubSeq(<<>>, 1, 0) = <<>> /\ SubSeq(c.place, 1, 0) = <<>> /\ Len(<<>>) = 0
        BY CellIsAt
    <2>2. Len(c.place) \in Nat
        BY CellIsAt
    <2> QED
        BY <2>1, <2>2 DEF IsPrefix
<1>3. \A c \in Cell : c \in v <=> c \in w
    BY <1>1, <1>2 DEF Same
<1> QED
    BY <1>3 DEF Values

LEMMA StrictCons ==
    ASSUME NEW k \in Name, NEW j \in Name, NEW q \in Seq(Name), NEW r \in Seq(Name)
    PROVE  /\ IsStrictPrefix(<<>>, <<j>> \o r)
           /\ IsStrictPrefix(<<k>> \o q, <<j>> \o r) <=> (k = j /\ IsStrictPrefix(q, r))
<1>1. <<j>> \o r # <<>>
    BY Consed
<1>2. IsPrefix(<<>>, <<j>> \o r)
    <2>1. <<j>> \o r \in Seq(Name)
        OBVIOUS
    <2> DEFINE a == <<j>> \o r
    <2> HIDE DEF a
    <2>2. a \in Seq(Name) => IsPrefix(<<>>, a)
        BY PrefixCons
    <2> QED
        BY <2>1, <2>2 DEF a
<1>3. IsPrefix(<<k>> \o q, <<j>> \o r) <=> (k = j /\ IsPrefix(q, r))
    BY PrefixCons
<1>4. (<<k>> \o q = <<j>> \o r) <=> (k = j /\ q = r)
    BY ConsInjective
<1> DEFINE a == <<k>> \o q
           b == <<j>> \o r
<1>5. b # <<>> /\ IsPrefix(<<>>, b) /\ (IsPrefix(a, b) <=> (k = j /\ IsPrefix(q, r)))
      /\ (a = b <=> (k = j /\ q = r))
    BY <1>1, <1>2, <1>3, <1>4
<1> HIDE DEF a, b
<1>6. IsStrictPrefix(<<>>, b) /\ (IsStrictPrefix(a, b) <=> (k = j /\ IsStrictPrefix(q, r)))
    BY <1>5 DEF IsStrictPrefix
<1> QED
    BY <1>6 DEF a, b

LEMMA SameCons ==
    ASSUME NEW v \in Values, NEW w \in Values, NEW f \in Name, NEW rest \in Seq(Name),
           Same(v, w, <<f>> \o rest)
    PROVE  /\ IsMap(v) <=> IsMap(w)
           /\ IsMap(v) => Same(Sub(v, f), Sub(w, f), rest)
<1> DEFINE long == <<f>> \o rest
<1>0. long \in Seq(Name)
    BY Consed
<1>1. IsStrictPrefix(<<>>, long) /\ <<>> \in Seq(Name)
    <2>1. <<>> \in Seq(Name)
        OBVIOUS
    <2> QED
        BY <2>1, StrictCons
<1>2. ASSUME NEW q \in Seq(Name)
      PROVE  <<f>> \o q \in Seq(Name) /\ (IsStrictPrefix(<<f>> \o q, long) <=> IsStrictPrefix(q, rest))
    BY StrictCons, Consed
<1>3. ASSUME NEW r \in Seq(Name), IsStrictPrefix(r, long)
      PROVE  r = <<>> \/ \E q \in Seq(Name) : r = <<f>> \o q /\ IsStrictPrefix(q, rest)
    <2> SUFFICES ASSUME r # <<>>
                 PROVE  \E q \in Seq(Name) : r = <<f>> \o q /\ IsStrictPrefix(q, rest)
        OBVIOUS
    <2> DEFINE j == r[1]
               q == Tail(r)
    <2>1. j \in Name /\ q \in Seq(Name) /\ r = <<j>> \o q
        BY Parted
    <2> HIDE DEF j, q
    <2>2. j = f /\ IsStrictPrefix(q, rest)
        BY <1>3, <2>1, StrictCons
    <2> QED
        BY <2>1, <2>2
<1>4. Same(v, w, long)
    OBVIOUS
<1> HIDE DEF long
<1>5. IsMap(v) <=> IsMap(w)
    BY <1>1, <1>4, AllMapsNone DEF Same
<1>6. ASSUME IsMap(v) PROVE Same(Sub(v, f), Sub(w, f), rest)
    <2>1. \A q \in Seq(Name) : AllMaps(v, <<f>> \o q) <=> AllMaps(Sub(v, f), q)
        BY <1>6, AllMapsCons
    <2>2. \A q \in Seq(Name) : AllMaps(w, <<f>> \o q) <=> AllMaps(Sub(w, f), q)
        BY <1>5, <1>6, AllMapsCons
    <2>3. ASSUME NEW q \in Seq(Name), IsStrictPrefix(q, rest)
          PROVE  AllMaps(Sub(v, f), q) <=> AllMaps(Sub(w, f), q)
        <3> DEFINE r == <<f>> \o q
        <3>1. r \in Seq(Name) /\ IsStrictPrefix(r, long)
            BY <1>2, <2>3
        <3>2. AllMaps(v, r) <=> AllMaps(Sub(v, f), q)
            BY <2>1
        <3>3. AllMaps(w, r) <=> AllMaps(Sub(w, f), q)
            BY <2>2
        <3> HIDE DEF r
        <3> QED
            BY <1>4, <3>1, <3>2, <3>3 DEF Same
    <2>4. ASSUME \A q \in Seq(Name) : IsStrictPrefix(q, rest) => AllMaps(Sub(v, f), q),
                 NEW d \in Cell, IsPrefix(rest, d.place)
          PROVE  d \in Sub(v, f) <=> d \in Sub(w, f)
        <3>1. ASSUME NEW r \in Seq(Name), IsStrictPrefix(r, long) PROVE AllMaps(v, r)
            <4>1. CASE r = <<>>
                BY <1>6, <4>1, AllMapsNone
            <4>2. ASSUME NEW q \in Seq(Name), r = <<f>> \o q, IsStrictPrefix(q, rest)
                  PROVE  AllMaps(v, r)
                BY <2>1, <2>4, <4>2
            <4> QED
                BY <1>3, <3>1, <4>1, <4>2
        <3>2. Up(f, d) \in Cell /\ Up(f, d).place = <<f>> \o d.place
            <4>1. d.place \in Seq(Name) /\ d.t \in {"map", "list", "string"} /\ d.str \in Seq(0 .. 255)
                BY CellIsAt
            <4>2. <<f>> \o d.place \in Seq(Name)
                BY <4>1, Consed
            <4> DEFINE q == <<f>> \o d.place
            <4>3. q \in Seq(Name)
                BY <4>2
            <4> HIDE DEF q
            <4>4. At(q, d.t, d.str) \in Cell /\ At(q, d.t, d.str).place = q
                BY <4>1, <4>3, AtType
            <4> QED
                BY <4>4 DEF Up, q
        <3>3. IsPrefix(long, Up(f, d).place)
            <4>1. d.place \in Seq(Name)
                BY CellIsAt
            <4> QED
                BY <2>4, <3>2, <4>1, PrefixCons DEF long
        <3>4. Up(f, d) \in v <=> Up(f, d) \in w
            BY <1>4, <3>1, <3>2, <3>3 DEF Same
        <3> QED
            BY <3>4, SubHasUp
    <2> QED
        BY <2>3, <2>4 DEF Same
<1> QED
    BY <1>5, <1>6

LEMMA SelectSame ==
    ASSUME NEW v \in Values, NEW w \in Values, NEW f \in Name, NEW rest \in Seq(Name),
           Same(v, w, <<f>> \o rest)
    PROVE  Same(Get(v, f), Get(w, f), rest)
BY SameCons, SameSelf DEF Get

LEMMA PresentSame ==
    ASSUME NEW v \in Values, NEW w \in Values, NEW f \in Name, Same(v, w, <<f>>)
    PROVE  Present(v, f) = Present(w, f)
<1>1. <<>> \in Seq(Name) /\ <<f>> = <<f>> \o <<>>
    OBVIOUS
<1>2. (IsMap(v) <=> IsMap(w)) /\ (IsMap(v) => Same(Sub(v, f), Sub(w, f), <<>>))
    BY <1>1, SameCons
<1>3. IsMap(v) => Sub(v, f) = Sub(w, f)
    BY <1>2, SubType, SameAll
<1> QED
    BY <1>2, <1>3 DEF Present

LEMMA TakeMaps ==
    ASSUME NEW v, NEW q \in Seq(Name), AllMaps(v, q), NEW n \in 0 .. Len(q)
    PROVE  AllMaps(v, SubSeq(q, 1, n))
<1> DEFINE t == SubSeq(q, 1, n)
<1>1. t \in Seq(Name) /\ Len(t) = n /\ \A i \in 1 .. n : t[i] = q[i]
    BY TakeIs
<1>2. ASSUME NEW i \in 0 .. n PROVE SubSeq(t, 1, i) = SubSeq(q, 1, i)
    <2>1. i \in 0 .. Len(t) /\ i \in 0 .. Len(q)
        BY <1>1
    <2> DEFINE a == SubSeq(t, 1, i)
               b == SubSeq(q, 1, i)
    <2>2. a \in Seq(Name) /\ Len(a) = i /\ \A j \in 1 .. i : a[j] = t[j]
        <3> HIDE DEF t
        <3> QED
            BY <1>1, <2>1, TakeIs
    <2>3. b \in Seq(Name) /\ Len(b) = i /\ \A j \in 1 .. i : b[j] = q[j]
        BY <2>1, TakeIs
    <2> HIDE DEF a, b, t
    <2>4. \A j \in 1 .. i : a[j] = b[j]
        <3>1. \A j \in 1 .. i : j \in 1 .. n
            OBVIOUS
        <3> QED
            BY <1>1, <2>2, <2>3, <3>1
    <2>5. a = b
        BY <2>2, <2>3, <2>4, SeqEqual
    <2> QED
        BY <2>5 DEF a, b
<1>3. \A i \in 0 .. n : i \in 0 .. Len(q)
    OBVIOUS
<1>4. \A i \in 0 .. n : At(SubSeq(q, 1, i), "map", <<>>) \in v
    BY <1>3 DEF AllMaps
<1> HIDE DEF t
<1>5. AllMaps(v, t)
    BY <1>1, <1>2, <1>4 DEF AllMaps
<1> QED
    BY <1>5 DEF t

LEMMA TakePrefix ==
    ASSUME NEW p \in Seq(Name), NEW q \in Seq(Name), IsPrefix(q, p), NEW n \in 0 .. Len(q)
    PROVE  IsPrefix(SubSeq(q, 1, n), p)
<1> DEFINE t == SubSeq(q, 1, n)
<1>1. t \in Seq(Name) /\ Len(t) = n /\ \A i \in 1 .. n : t[i] = q[i]
    BY TakeIs
<1>2. Len(q) <= Len(p) /\ SubSeq(q, 1, Len(q)) = SubSeq(p, 1, Len(q)) /\ Len(q) \in Nat /\ Len(p) \in Nat
    BY DEF IsPrefix
<1>3. \A i \in 1 .. Len(q) : q[i] = p[i]
    <2>1. Len(q) \in 0 .. Len(q) /\ Len(q) \in 0 .. Len(p)
        BY <1>2
    <2>2. \A i \in 1 .. Len(q) : SubSeq(q, 1, Len(q))[i] = q[i]
        BY <2>1, TakeIs
    <2>3. \A i \in 1 .. Len(q) : SubSeq(p, 1, Len(q))[i] = p[i]
        BY <2>1, TakeIs
    <2> QED
        BY <1>2, <2>2, <2>3
<1> DEFINE a == SubSeq(t, 1, n)
           b == SubSeq(p, 1, n)
<1>4. a = t
    BY <1>1, TakeAll
<1>5. n \in 0 .. Len(p)
    BY <1>2
<1>6. b \in Seq(Name) /\ Len(b) = n /\ \A i \in 1 .. n : b[i] = p[i]
    BY <1>5, TakeIs
<1>7. \A i \in 1 .. n : i \in 1 .. Len(q)
    OBVIOUS
<1> HIDE DEF a, b, t
<1>8. t = b
    <2>1. \A i \in 1 .. n : t[i] = b[i]
        BY <1>1, <1>3, <1>6, <1>7
    <2> QED
        BY <1>1, <1>6, <2>1, SeqEqual
<1>9. n <= Len(p)
    BY <1>5
<1>10. IsPrefix(t, p)
    BY <1>1, <1>4, <1>8, <1>9 DEF IsPrefix, a, b
<1> QED
    BY <1>10 DEF t

LEMMA FrontStrict ==
    ASSUME NEW p \in Path
    PROVE  Front(p) \in Seq(Name) /\ IsStrictPrefix(Front(p), p)
<1>1. p \in Seq(Name) /\ p # <<>>
    BY DEF Path
<1>2. Len(p) \in Nat /\ Len(p) # 0
    BY <1>1
<1> DEFINE n == Len(p) - 1
<1>3. n \in 0 .. Len(p) /\ n # Len(p) /\ Len(p) \in 0 .. Len(p)
    BY <1>2
<1> HIDE DEF n
<1>4. SubSeq(p, 1, n) \in Seq(Name) /\ Len(SubSeq(p, 1, n)) = n
    BY <1>1, <1>3, TakeIs
<1>5. IsPrefix(SubSeq(p, 1, n), p)
    BY <1>1, <1>3, PrefixSelf, TakePrefix
<1>6. SubSeq(p, 1, n) # p
    BY <1>3, <1>4
<1> QED
    BY <1>4, <1>5, <1>6 DEF Front, n, IsStrictPrefix

\* Trimming to some paths cannot be told by selecting one of them.
LEMMA TrimmedSame ==
    ASSUME NEW o \in Values, NEW P \in SUBSET Path, NEW p \in P
    PROVE  Same(o, Trimmed(o, P), p)
<1> DEFINE w == Trimmed(o, P)
<1>0. p \in Seq(Name)
    BY DEF Path
<1>1. w \subseteq o
    BY DEF Trimmed
<1>2. ASSUME NEW q \in Seq(Name), IsStrictPrefix(q, p)
      PROVE  AllMaps(o, q) <=> AllMaps(w, q)
    <2>1. AllMaps(w, q) => AllMaps(o, q)
        BY <1>1 DEF AllMaps
    <2>2. ASSUME AllMaps(o, q), NEW i \in 0 .. Len(q)
          PROVE  At(SubSeq(q, 1, i), "map", <<>>) \in w
        <3> DEFINE t == SubSeq(q, 1, i)
                   c == At(t, "map", <<>>)
        <3>1. c \in o
            BY <2>2 DEF AllMaps
        <3>2. IsPrefix(t, p)
            BY <1>0, <1>2, TakePrefix DEF IsStrictPrefix
        <3>3. AllMaps(o, t)
            BY <2>2, TakeMaps
        <3> HIDE DEF t
        <3>4. c.place = t /\ c = At(c.place, "map", <<>>)
            BY DEF At
        <3> HIDE DEF c
        <3>5. c \in w
            BY <3>1, <3>2, <3>3, <3>4 DEF Trimmed, Keeps
        <3> QED
            BY <3>5 DEF c, t
    <2> HIDE DEF w
    <2> QED
        BY <2>1, <2>2 DEF AllMaps
<1>3. ASSUME \A q \in Seq(Name) : IsStrictPrefix(q, p) => AllMaps(o, q),
             NEW c \in Cell, IsPrefix(p, c.place)
      PROVE  c \in o <=> c \in w
    <2>1. AllMaps(o, Front(p))
        BY <1>3, FrontStrict
    <2> QED
        BY <1>3, <2>1 DEF Trimmed, Keeps
<1> HIDE DEF w
<1> QED
    BY <1>2, <1>3 DEF Same, w

\* A tree that reads these paths only is the same on two objects that selecting
\* them does not tell apart.
LEMMA OutcomeSame ==
    ASSUME NEW P \in SUBSET Path, NEW o \in Values, NEW w \in Values,
           \A p \in P : Same(o, w, p),
           NEW e \in Trees, NEW rest \in Seq(Name), NEW x \in Values,
           \A d \in Below(e) : \A r \in Seq(Name) : \A y \in Values :
               (d.kind = "has" => r = <<>>) /\ PathsRead[d][r] \subseteq P =>
                   Same(Eval[d][o][y], Eval[d][w][y], r),
           e.kind = "has" => rest = <<>>, PathsRead[e][rest] \subseteq P
    PROVE  Same(Eval[e][o][x], Eval[e][w][x], rest)
<1>0. <<>> \in Seq(Name)
    OBVIOUS
<1>1. Eval[e][o][x] = Outcome(e, Eval, o, x) /\ Eval[e][w][x] = Outcome(e, Eval, w, x)
    BY EvalIs
<1>2. \A d \in Trees : \A y \in Values : Eval[d][o][y] \in Values /\ Eval[d][w][y] \in Values
    BY EvalIs DEF Results
<1>3. ASSUME NEW d \in Below(e), d \in Trees, PathsRead[d][<<>>] \subseteq P, NEW y \in Values
      PROVE  Eval[d][o][y] = Eval[d][w][y]
    BY <1>0, <1>2, <1>3, SameAll
<1>4. SUFFICES Outcome(e, Eval, o, x) = Outcome(e, Eval, w, x) \/ Same(Eval[e][o][x], Eval[e][w][x], rest)
    BY <1>1, SameSelf
<1>5. CASE e = Object
    <2>1. e.kind = "ident" /\ e.name = "object"
        BY <1>5 DEF Object, Tree
    <2>2. \A u : Outcome(e, Eval, u, x) = u
        <3> SUFFICES ASSUME NEW u PROVE Outcome(e, Eval, u, x) = u
            OBVIOUS
        <3>1. Outcome(e, Eval, u, x) = Variable(e.name, u, x)
            BY <2>1, IdentGives
        <3> QED
            BY <2>1, <3>1 DEF Variable
    <2>3. rest \in P
        BY <1>5, ReadsAt
    <2> QED
        BY <1>1, <2>2, <2>3
<1>6. CASE e.kind = "ident" /\ e # Object
    <2>1. WellTyped(e)
        BY TreesAssumption
    <2>2. e.name # "object"
        BY <1>6, <2>1 DEF WellTyped, Object
    <2>3. \A u : Outcome(e, Eval, u, x) = Variable(e.name, u, x)
        BY <1>6, IdentGives
    <2>4. Variable(e.name, o, x) = Variable(e.name, w, x)
        BY <2>2 DEF Variable
    <2> QED
        BY <2>3, <2>4
<1>7. CASE e.kind = "const"
    <2>1. \A u : Outcome(e, Eval, u, x) = Str(<<65>>)
        BY <1>7, ConstGives
    <2> QED
        BY <2>1
<1>8. CASE e.kind = "select"
    <2> DEFINE d == e.args[1]
    <2>1. d \in Below(e) /\ d \in Trees /\ d.kind # "has" /\ e.name \in Name
        BY <1>8, OperandBelow, ArgsBelow DEF Selects
    <2>2. PathsRead[d][<<e.name>> \o rest] \subseteq P /\ <<e.name>> \o rest \in Seq(Name)
        <3>1. PathsRead[e][rest] = PathsRead[e.args[1]][<<e.name>> \o rest]
            BY <1>8, ReadsAt DEF Selects
        <3> QED
            BY <2>1, <3>1, Consed
    <2>3. Same(Eval[d][o][x], Eval[d][w][x], <<e.name>> \o rest)
        <3> HIDE DEF d
        <3> DEFINE r == <<e.name>> \o rest
        <3>1. r \in Seq(Name) /\ PathsRead[d][r] \subseteq P
            BY <2>2
        <3> HIDE DEF r
        <3>2. Same(Eval[d][o][x], Eval[d][w][x], r)
            BY <2>1, <3>1
        <3> QED
            BY <3>2 DEF r
    <2>4. Eval[d][o][x] \in Values /\ Eval[d][w][x] \in Values
        BY <1>2, <2>1
    <2>5. Same(Get(Eval[d][o][x], e.name), Get(Eval[d][w][x], e.name), rest)
        <3> HIDE DEF d
        <3> QED
            BY <2>1, <2>3, <2>4, SelectSame
    <2>6. \A u : Outcome(e, Eval, u, x) = Get(Eval[d][u][x], e.name)
        BY <1>8, SelectGives
    <2> QED
        BY <1>1, <2>5, <2>6
<1>9. CASE e.kind = "has"
    <2> DEFINE d == e.args[1]
    <2>1. d \in Below(e) /\ d \in Trees /\ d.kind # "has" /\ e.name \in Name
        BY <1>9, OperandBelow, ArgsBelow DEF Selects
    <2>2. PathsRead[d][<<e.name>>] \subseteq P /\ <<e.name>> \in Seq(Name)
        <3>1. PathsRead[e][<<>>] = PathsRead[e.args[1]][<<e.name>> \o <<>>]
            BY <1>0, <1>9, ReadsAt DEF Selects
        <3>2. <<e.name>> \o <<>> = <<e.name>> /\ <<e.name>> \in Seq(Name)
            BY <2>1
        <3> QED
            BY <1>9, <3>1, <3>2
    <2>3. Same(Eval[d][o][x], Eval[d][w][x], <<e.name>>)
        <3> HIDE DEF d
        <3> QED
            BY <2>1, <2>2
    <2>4. Eval[d][o][x] \in Values /\ Eval[d][w][x] \in Values
        BY <1>2, <2>1
    <2>5. Present(Eval[d][o][x], e.name) = Present(Eval[d][w][x], e.name)
        <3> HIDE DEF d
        <3> QED
            BY <2>1, <2>3, <2>4, PresentSame
    <2>6. \A u : Outcome(e, Eval, u, x) = Present(Eval[d][u][x], e.name)
        BY <1>9, HasGives
    <2> QED
        BY <2>5, <2>6
<1>10. CASE e.kind \in {"call", "list", "map", "each"}
    <2>1. PathsRead[e][rest] = ReadBy(e.args)
        <3>1. e # Object /\ e.kind \notin Selects
            BY <1>10 DEF Object, Tree, Selects
        <3> QED
            BY <3>1, ReadsAt
    <2>2. ASSUME NEW i \in DOMAIN e.args
          PROVE  e.args[i] \in Trees /\ e.args[i] \in Below(e) /\ PathsRead[e.args[i]][<<>>] \subseteq P
        BY <2>1, ArgsBelow DEF ReadBy
    <2>3. ASSUME NEW i \in DOMAIN e.args PROVE Eval[e.args[i]][o][x] = Eval[e.args[i]][w][x]
        BY <1>3, <2>2
    <2>4. CASE e.kind = "call"
        <3>1. Outcome(e, Eval, o, x) = CallOf(e.name, Eval[e.args[1]][o][x])
            BY <2>4, CallGives
        <3>2. Outcome(e, Eval, w, x) = CallOf(e.name, Eval[e.args[1]][w][x])
            BY <2>4, CallGives
        <3> QED
            BY <2>3, <2>4, <3>1, <3>2, ArgsOf
    <2>5. CASE e.kind = "list"
        <3>1. Outcome(e, Eval, o, x) = ListOf(Pair(Eval[e.args[1]][o][x], Eval[e.args[2]][o][x]))
            BY <2>5, ListGives
        <3>2. Outcome(e, Eval, w, x) = ListOf(Pair(Eval[e.args[1]][w][x], Eval[e.args[2]][w][x]))
            BY <2>5, ListGives
        <3>3. 1 \in DOMAIN e.args /\ 2 \in DOMAIN e.args
            BY <2>5, ArgsOf
        <3> QED
            BY <2>3, <3>1, <3>2, <3>3
    <2>6. CASE e.kind = "map"
        <3>1. Outcome(e, Eval, o, x) = MapOf(e.name, Eval[e.args[2]][o][x])
            BY <2>6, MapGives
        <3>2. Outcome(e, Eval, w, x) = MapOf(e.name, Eval[e.args[2]][w][x])
            BY <2>6, MapGives
        <3> QED
            BY <2>3, <2>6, <3>1, <3>2, ArgsOf
    <2>7. CASE e.kind = "each"
        <3> DEFINE s == e.args[2]
                   d == s.args[2]
        <3>1. 1 \in DOMAIN e.args /\ 2 \in DOMAIN e.args /\ 2 \in DOMAIN s.args
              /\ d \in Below(e) /\ d \in Trees
            BY <2>7, BodyBelow
        <3>2. s \in Trees /\ PathsRead[s][<<>>] \subseteq P
            BY <2>2, <3>1
        <3>3. s # Object /\ s.kind \notin Selects
            <4>1. s # Object
                <5>1. Object.args = <<>>
                    BY DEF Object, Tree
                <5> QED
                    BY <3>1, <5>1
            <4>2. s.kind \in Selects => Len(s.args) = 1
                BY <3>2, OperandBelow
            <4>3. s.args \in Seq(Trees)
                BY <3>2, ArgsBelow
            <4>4. Len(s.args) # 1
                BY <3>1, <4>3
            <4> QED
                BY <4>1, <4>2, <4>4
        <3>4. PathsRead[s][<<>>] = ReadBy(s.args)
            BY <1>0, <3>2, <3>3, ReadsAt
        <3>5. PathsRead[d][<<>>] \subseteq P
            BY <3>1, <3>2, <3>4 DEF ReadBy
        <3>6. \A y \in Values : Eval[d][o][y] = Eval[d][w][y]
            BY <1>3, <3>1, <3>5
        <3>7. Eval[d][o] = Eval[d][w]
            <4>1. Eval[d][o] \in [Values -> Values] /\ Eval[d][w] \in [Values -> Values]
                BY <3>1, EvalIs DEF Results
            <4> DEFINE a == Eval[d][o]
                       b == Eval[d][w]
            <4>2. a \in [Values -> Values] /\ b \in [Values -> Values] /\ \A y \in Values : a[y] = b[y]
                BY <3>6, <4>1
            <4> HIDE DEF a, b
            <4>3. a = b
                BY <4>2
            <4> QED
                BY <4>3 DEF a, b
        <3>8. Outcome(e, Eval, o, x) = EachOf(Eval[e.args[1]][o][x], Eval[d][o])
            BY <2>7, EachGives
        <3>9. Outcome(e, Eval, w, x) = EachOf(Eval[e.args[1]][w][x], Eval[d][w])
            BY <2>7, EachGives
        <3> QED
            BY <2>3, <3>1, <3>7, <3>8, <3>9
    <2> QED
        BY <1>10, <2>4, <2>5, <2>6, <2>7
<1> QED
    BY <1>5, <1>6, <1>7, <1>8, <1>9, <1>10, ArgsBelow DEF Kinds

LEMMA EvaluatedSame ==
    ASSUME NEW P \in SUBSET Path, NEW o \in Values, NEW w \in Values,
           \A p \in P : Same(o, w, p),
           NEW e \in Trees, PathsRead[e][<<>>] \subseteq P
    PROVE  Evaluated(e, o) = Evaluated(e, w)
<1> DEFINE Q == {d \in Trees : \A r \in Seq(Name) : \A y \in Values :
                   (d.kind = "has" => r = <<>>) /\ PathsRead[d][r] \subseteq P =>
                       Same(Eval[d][o][y], Eval[d][w][y], r)}
<1>1. ASSUME NEW d \in Trees, Below(d) \subseteq Q PROVE d \in Q
    <2> SUFFICES ASSUME NEW r \in Seq(Name), NEW y \in Values, d.kind = "has" => r = <<>>,
                        PathsRead[d][r] \subseteq P
                 PROVE  Same(Eval[d][o][y], Eval[d][w][y], r)
        OBVIOUS
    <2>1. \A b \in Below(d) : \A s \in Seq(Name) : \A z \in Values :
              (b.kind = "has" => s = <<>>) /\ PathsRead[b][s] \subseteq P =>
                  Same(Eval[b][o][z], Eval[b][w][z], s)
        BY <1>1
    <2> QED
        BY <2>1, OutcomeSame
<1>2. Trees \subseteq Q
    <2> HIDE DEF Q
    <2> QED
        BY <1>1, TreeInduction
<1>3. <<>> \in Seq(Name) /\ Err \in Values
    <2>1. <<>> \in Seq(Name)
        OBVIOUS
    <2> QED
        BY <2>1 DEF Err, Values
<1>4. Same(Eval[e][o][Err], Eval[e][w][Err], <<>>)
    BY <1>2, <1>3
<1>5. Eval[e][o][Err] \in Values /\ Eval[e][w][Err] \in Values
    BY <1>3, EvalIs DEF Results
<1> QED
    BY <1>4, <1>5, SameAll DEF Evaluated

-----------------------------------------------------------------------------
(* A label's value.                                                        *)

Bytes == Seq(0 .. 255)

LEMMA Greatest ==
    ASSUME NEW n \in Nat, NEW S \in SUBSET (0 .. n), S # {}
    PROVE  \E m \in S : \A k \in S : k <= m
<1> DEFINE Bounded(m) == \A Z \in SUBSET (0 .. m) : Z # {} => \E i \in Z : \A k \in Z : k <= i
           I == {m \in Nat : Bounded(m)}
<1>1. 0 \in I
    <2>1. 0 .. 0 = {0}
        OBVIOUS
    <2>2. ASSUME NEW Z \in SUBSET {0}, Z # {} PROVE \E i \in Z : \A k \in Z : k <= i
        <3>1. Z = {0}
            BY <2>2
        <3> QED
            BY <3>1
    <2> QED
        BY <2>1, <2>2
<1>2. ASSUME NEW m \in Nat, m \in I PROVE m + 1 \in I
    <2>1. SUFFICES ASSUME NEW Z \in SUBSET (0 .. m + 1), Z # {}
                   PROVE  \E i \in Z : \A k \in Z : k <= i
        OBVIOUS
    <2>2. CASE m + 1 \in Z
        BY <2>2
    <2>3. CASE m + 1 \notin Z
        <3>1. 0 .. m + 1 = (0 .. m) \cup {m + 1}
            OBVIOUS
        <3>2. Z \in SUBSET (0 .. m)
            BY <2>3, <3>1
        <3>3. Bounded(m)
            BY <1>2
        <3> QED
            BY <2>1, <3>2, <3>3
    <2> QED
        BY <2>2, <2>3
<1>3. n \in I
    <2> HIDE DEF I
    <2> QED
        BY <1>1, <1>2, Induction
<1>4. Bounded(n)
    BY <1>3
<1> QED
    BY <1>4

LEMMA MaxIs ==
    ASSUME NEW n \in Nat, NEW S \in SUBSET (0 .. n), S # {}
    PROVE  Max(S) \in S /\ \A k \in S : k <= Max(S)
<1>1. PICK m \in S : \A k \in S : k <= m
    BY Greatest
<1>2. \A k \in S : m >= k
    BY <1>1
<1>3. Max(S) \in S /\ \A k \in S : Max(S) >= k
    BY <1>2 DEF Max
<1> QED
    BY <1>3

LEMMA BlankedIs ==
    ASSUME NEW s \in Bytes
    PROVE  /\ Blanked(s) \in Bytes /\ Len(Blanked(s)) = Len(s)
           /\ \A i \in 1 .. Len(s) : Blanked(s)[i] = IF s[i] \in Control THEN 32 ELSE s[i]
           /\ \A i \in 1 .. Len(s) : Blanked(s)[i] \in Continuation <=> s[i] \in Continuation
           /\ Blanked(s) = s <=> \A i \in 1 .. Len(s) : s[i] \notin Control
<1>1. s \in Seq(0 .. 255) /\ DOMAIN s = 1 .. Len(s) /\ Len(s) \in Nat
    BY DEF Bytes
<1>6. \A i \in 1 .. Len(s) : s[i] \in 0 .. 255
    BY <1>1, ElementOfSeq
<1> DEFINE B == 0 .. 255
           n == Len(s)
<1>2. Blanked(s) \in Seq(0 .. 255) /\ Len(Blanked(s)) = Len(s)
    <2>1. \A i \in 1 .. n : (IF s[i] \in Control THEN 32 ELSE s[i]) \in B
        BY <1>6
    <2>2. n \in Nat
        BY <1>1
    <2>3. Blanked(s) = [i \in 1 .. n |-> IF s[i] \in Control THEN 32 ELSE s[i]]
        BY <1>1 DEF Blanked
    <2> HIDE DEF B, n
    <2>4. Blanked(s) \in [1 .. n -> B]
        BY <2>1, <2>3
    <2>5. Blanked(s) \in Seq(B) /\ Len(Blanked(s)) = n
        BY <2>2, <2>4
    <2> QED
        BY <2>5 DEF B, n
<1>3. \A i \in 1 .. Len(s) : Blanked(s)[i] = IF s[i] \in Control THEN 32 ELSE s[i]
    BY <1>1 DEF Blanked
<1>4. \A b \in 0 .. 255 : b \in Control => b \notin Continuation /\ b # 32
    BY DEF Control, Continuation
<1>5. 32 \notin Continuation /\ 32 \notin Control
    BY DEF Control, Continuation
<1>7. \A i \in 1 .. Len(s) : Blanked(s)[i] \in Continuation <=> s[i] \in Continuation
    BY <1>3, <1>4, <1>5, <1>6
<1>8. ASSUME \A i \in 1 .. Len(s) : s[i] \notin Control PROVE Blanked(s) = s
    <2>1. \A i \in 1 .. Len(s) : Blanked(s)[i] = s[i]
        BY <1>3, <1>8
    <2> QED
        BY <1>1, <1>2, <2>1, SeqEqual
<1>9. ASSUME NEW i \in 1 .. Len(s), s[i] \in Control PROVE Blanked(s) # s
    BY <1>3, <1>4, <1>6, <1>9
<1> QED
    BY <1>2, <1>3, <1>7, <1>8, <1>9 DEF Bytes

LEMMA CutIs ==
    ASSUME NEW s \in Bytes
    PROVE  /\ Cut(s) \in 0 .. Len(s) /\ Cut(s) <= MaxBytes
           /\ Len(s) <= MaxBytes => Cut(s) = Len(s)
           /\ Cut(s) # 0 /\ Len(s) > MaxBytes => s[Cut(s) + 1] \notin Continuation
           /\ Len(s) > MaxBytes =>
                 \A i \in 1 .. MaxBytes : s[i + 1] \notin Continuation => i <= Cut(s)
<1>0. Len(s) \in Nat /\ MaxBytes \in Nat
    BY ValuesAssumption DEF Bytes
<1>1. CASE Len(s) <= MaxBytes
    <2>1. Cut(s) = Len(s)
        BY <1>1 DEF Cut
    <2> QED
        BY <1>0, <1>1, <2>1
<1>2. CASE ~ (Len(s) <= MaxBytes)
    <2> DEFINE C == {0} \cup {i \in 1 .. MaxBytes : s[i + 1] \notin Continuation}
    <2>1. Cut(s) = Max(C)
        BY <1>2 DEF Cut
    <2>2. C \in SUBSET (0 .. MaxBytes) /\ C # {}
        BY <1>0
    <2>3. \A i \in C : i = 0 \/ s[i + 1] \notin Continuation
        OBVIOUS
    <2>4. \A i \in 1 .. MaxBytes : s[i + 1] \notin Continuation => i \in C
        OBVIOUS
    <2> HIDE DEF C
    <2>5. Max(C) \in C /\ \A k \in C : k <= Max(C)
        BY <1>0, <2>2, MaxIs
    <2>6. Cut(s) \in 0 .. MaxBytes
        BY <2>1, <2>2, <2>5
    <2> QED
        BY <1>0, <1>2, <2>1, <2>3, <2>4, <2>5, <2>6
<1> QED
    BY <1>1, <1>2

LEMMA WidthIs ==
    ASSUME NEW b
    PROVE  Width(b) \in Nat /\ Width(b) >= 1
BY DEF Width

\* A byte that is no continuation byte starts a character.
LEMMA StartsCharacter ==
    ASSUME NEW s \in Bytes, NEW ends \in SUBSET (0 .. Len(s)), MadeOfCharacters(s, ends),
           NEW j \in 0 .. Len(s), j # Len(s), s[j + 1] \notin Continuation
    PROVE  j \in ends
<1>0. Len(s) \in Nat /\ j \in Nat /\ 0 \in ends
    BY DEF Bytes, MadeOfCharacters
<1> DEFINE below == {i \in ends : i <= j}
<1>1. below \in SUBSET (0 .. j) /\ below # {}
    <2>1. \A i \in ends : i \in Nat
        BY <1>0
    <2>2. 0 <= j
        BY <1>0
    <2>3. 0 \in below
        BY <1>0, <2>2
    <2>4. \A i \in below : i \in 0 .. j
        BY <1>0, <2>1
    <2> QED
        BY <2>3, <2>4
<1>2. PICK i \in below : \A k \in below : k <= i
    <2> HIDE DEF below
    <2> QED
        BY <1>0, <1>1, Greatest
<1>3. i \in ends /\ i \in Nat /\ i <= j /\ i # Len(s)
    BY <1>0
<1> DEFINE w == Width(s[i + 1])
<1>4. w \in Nat /\ w >= 1
    BY WidthIs
<1>5. i + w \in ends /\ \A k \in i + 1 .. i + w - 1 : s[k + 1] \in Continuation
    BY <1>3 DEF MadeOfCharacters
<1> HIDE DEF w
<1>6. ~ (i + w <= j)
    <2>1. i + w \in Nat /\ ~ (i + w <= i)
        BY <1>3, <1>4
    <2> QED
        BY <1>2, <1>5, <2>1
<1>7. j = i \/ j \in i + 1 .. i + w - 1
    BY <1>0, <1>3, <1>4, <1>6
<1> QED
    BY <1>3, <1>5, <1>7

LEMMA CutKeepsCharacters ==
    ASSUME NEW s \in Bytes, NEW ends \in SUBSET (0 .. Len(s)), MadeOfCharacters(s, ends)
    PROVE  /\ Cut(Blanked(s)) \in ends
           /\ Cut(Blanked(s)) < Len(s) =>
                 Cut(Blanked(s)) + Width(s[Cut(Blanked(s)) + 1]) > MaxBytes
<1> DEFINE b == Blanked(s)
           n == Cut(b)
<1>0. Len(s) \in Nat /\ MaxBytes \in Nat
    BY ValuesAssumption DEF Bytes
<1>1. b \in Bytes /\ Len(b) = Len(s)
      /\ \A i \in 1 .. Len(s) : b[i] \in Continuation <=> s[i] \in Continuation
    BY BlankedIs
<1> HIDE DEF b
<1>2. /\ n \in 0 .. Len(b) /\ n <= MaxBytes
      /\ Len(b) <= MaxBytes => n = Len(b)
      /\ n # 0 /\ Len(b) > MaxBytes => b[n + 1] \notin Continuation
      /\ Len(b) > MaxBytes => \A i \in 1 .. MaxBytes : b[i + 1] \notin Continuation => i <= n
    BY <1>1, CutIs
<1> HIDE DEF n
<1>3. 0 \in ends /\ Len(s) \in ends
    BY DEF MadeOfCharacters
<1>4. n \in ends
    <2>1. CASE n = 0 \/ n = Len(s)
        BY <1>3, <2>1
    <2>2. CASE n # 0 /\ n # Len(s)
        <3>1. Len(b) > MaxBytes /\ n + 1 \in 1 .. Len(s)
            BY <1>0, <1>1, <1>2, <2>2
        <3>2. s[n + 1] \notin Continuation
            BY <1>1, <1>2, <2>2, <3>1
        <3> QED
            BY <1>1, <1>2, <2>2, <3>2, StartsCharacter
    <2> QED
        BY <2>1, <2>2
<1>5. ASSUME n < Len(s) PROVE n + Width(s[n + 1]) > MaxBytes
    <2> DEFINE e == n + Width(s[n + 1])
    <2>1. n # Len(s) /\ Len(b) > MaxBytes
        BY <1>0, <1>1, <1>2, <1>5
    <2>2. e \in ends
        BY <1>4, <2>1 DEF MadeOfCharacters
    <2>3. e \in Nat /\ e > n /\ e >= 1
        <3> DEFINE w == Width(s[n + 1])
        <3>1. w \in Nat /\ w >= 1 /\ n \in Nat
            BY <1>0, <1>2, WidthIs
        <3> HIDE DEF w
        <3>2. n + w \in Nat /\ n + w > n /\ n + w >= 1
            BY <3>1
        <3> QED
            BY <3>2 DEF w
    <2> HIDE DEF e
    <2>4. SUFFICES ASSUME e <= MaxBytes PROVE FALSE
        BY <1>0, <2>3 DEF e
    <2>5. e # Len(s) /\ e + 1 \in 1 .. Len(s) /\ e \in 1 .. MaxBytes
        BY <1>0, <1>1, <2>1, <2>2, <2>3, <2>4
    <2>6. s[e + 1] \notin Continuation
        BY <2>2, <2>5 DEF MadeOfCharacters
    <2>7. b[e + 1] \notin Continuation
        BY <1>1, <2>5, <2>6
    <2>8. e <= n
        BY <1>2, <2>1, <2>5, <2>7
    <2> QED
        BY <1>0, <1>1, <1>2, <2>3, <2>8
<1> QED
    BY <1>4, <1>5 DEF n, b

LEMMA SanitizedIs ==
    ASSUME NEW s \in Bytes
    PROVE  /\ sanitizeLabelValue(s) \in Bytes
           /\ Len(sanitizeLabelValue(s)) = Cut(Blanked(s))
           /\ Cut(Blanked(s)) \in 0 .. Len(s) /\ Cut(Blanked(s)) <= MaxBytes
           /\ sanitizeLabelValue(s) = Blanked(SubSeq(s, 1, Cut(Blanked(s))))
           /\ needsSanitize(s) <=> sanitizeLabelValue(s) # s
<1> DEFINE b == Blanked(s)
           n == Cut(b)
           t == SubSeq(b, 1, n)
           u == SubSeq(s, 1, n)
<1>0. Len(s) \in Nat /\ MaxBytes \in Nat
    BY ValuesAssumption DEF Bytes
<1>1. b \in Bytes /\ Len(b) = Len(s)
    BY BlankedIs
<1>10. b = s <=> \A i \in 1 .. Len(s) : s[i] \notin Control
    BY BlankedIs
<1>11. \A i \in 1 .. Len(s) : b[i] = IF s[i] \in Control THEN 32 ELSE s[i]
    BY BlankedIs
<1> HIDE DEF b
<1>2. n \in 0 .. Len(b) /\ n <= MaxBytes /\ (Len(b) <= MaxBytes => n = Len(b))
    BY <1>1, CutIs
<1> HIDE DEF n
<1>3. ASSUME NEW r \in Bytes, Len(r) = Len(s)
      PROVE  /\ SubSeq(r, 1, n) \in Bytes /\ Len(SubSeq(r, 1, n)) = n
             /\ \A i \in 1 .. n : SubSeq(r, 1, n)[i] = r[i]
             /\ n = Len(r) => SubSeq(r, 1, n) = r
    <2>1. 1 \in Int /\ n \in Int /\ n \in Nat /\ \A i \in 1 .. n : r[i] \in 0 .. 255
        <3>1. \A i \in 1 .. Len(r) : r[i] \in 0 .. 255
            BY ElementOfSeq DEF Bytes
        <3>2. n \in Nat /\ n <= Len(r) /\ Len(r) \in Nat
            BY <1>0, <1>1, <1>2, <1>3
        <3>3. \A i \in 1 .. n : i \in 1 .. Len(r)
            BY <3>2
        <3> QED
            BY <3>1, <3>2, <3>3
    <2>2. /\ SubSeq(r, 1, n) \in Seq(0 .. 255)
          /\ Len(SubSeq(r, 1, n)) = IF 1 <= n THEN n - 1 + 1 ELSE 0
          /\ \A i \in 1 .. n - 1 + 1 : SubSeq(r, 1, n)[i] = r[1 + i - 1]
        BY <2>1, SubSeqProperties
    <2>3. n - 1 + 1 = n /\ (~ (1 <= n) => n = 0) /\ \A i \in 1 .. n : 1 + i - 1 = i
        BY <2>1
    <2>4. n = Len(r) => SubSeq(r, 1, n) = r
        BY SubSeqFull DEF Bytes
    <2> QED
        BY <2>2, <2>3, <2>4 DEF Bytes
<1>4. t \in Bytes /\ Len(t) = n /\ (\A i \in 1 .. n : t[i] = b[i]) /\ (n = Len(b) => t = b)
    BY <1>1, <1>3
<1>5. u \in Bytes /\ Len(u) = n /\ \A i \in 1 .. n : u[i] = s[i]
    BY <1>3
<1>6. sanitizeLabelValue(s) = t
    BY DEF sanitizeLabelValue, n, b
<1> HIDE DEF t, u
<1>7. t = Blanked(u)
    <2>1. Blanked(u) \in Bytes /\ Len(Blanked(u)) = Len(u)
          /\ \A i \in 1 .. Len(u) : Blanked(u)[i] = IF u[i] \in Control THEN 32 ELSE u[i]
        BY <1>5, BlankedIs
    <2>2. \A i \in 1 .. n : i \in 1 .. Len(s)
        BY <1>0, <1>1, <1>2
    <2>3. \A i \in 1 .. n : t[i] = Blanked(u)[i]
        BY <1>11, <1>4, <1>5, <2>1, <2>2
    <2> DEFINE z == Blanked(u)
    <2>4. z \in Seq(0 .. 255) /\ t \in Seq(0 .. 255) /\ Len(z) = n /\ Len(t) = n
          /\ \A i \in 1 .. n : t[i] = z[i]
        BY <1>4, <1>5, <2>1, <2>3 DEF Bytes
    <2> HIDE DEF z
    <2>5. t = z
        BY <2>4, SeqEqual
    <2> QED
        BY <2>5 DEF z
<1>8. needsSanitize(s) <=> Len(s) > MaxBytes \/ \E i \in 1 .. Len(s) : s[i] \in Control
    <2>1. DOMAIN s = 1 .. Len(s)
        BY LenProperties DEF Bytes
    <2> QED
        BY <2>1 DEF needsSanitize
<1>9. needsSanitize(s) <=> t # s
    <2>1. CASE Len(s) > MaxBytes
        <3>1. n # Len(s)
            BY <1>0, <1>1, <1>2, <2>1
        <3> QED
            BY <1>4, <1>8, <2>1, <3>1
    <2>2. CASE ~ (Len(s) > MaxBytes)
        <3>1. t = b
            BY <1>0, <1>1, <1>2, <1>4, <2>2
        <3> QED
            BY <1>10, <1>8, <2>2, <3>1
    <2> QED
        BY <2>1, <2>2
<1> QED
    BY <1>0, <1>1, <1>2, <1>4, <1>6, <1>7, <1>9 DEF n, b, u

LEMMA StrText ==
    ASSUME NEW s
    PROVE  IsString(Str(s)) /\ Text(Str(s)) = s
<1> DEFINE c == At(<<>>, "string", s)
<1>1. c.place = <<>> /\ c.t = "string" /\ c.str = s
    BY DEF At
<1>2. Str(s) = {c}
    BY DEF Str
<1> HIDE DEF c
<1>3. (CHOOSE d \in {c} : d.place = <<>> /\ d.t = "string") = c
    BY <1>1
<1> QED
    BY <1>1, <1>2, <1>3 DEF IsString, Text

LEMMA TextType ==
    ASSUME NEW v \in Values, IsString(v)
    PROVE  Text(v) \in Bytes
<1> DEFINE c == CHOOSE c \in v : c.place = <<>> /\ c.t = "string"
<1>1. c \in v
    BY DEF IsString
<1>2. c \in Cell
    BY <1>1 DEF Values
<1>3. Text(v) = c.str
    BY DEF Text
<1> HIDE DEF c
<1> QED
    BY <1>2, <1>3, CellIsAt DEF Bytes

LEMMA CoerceIs ==
    ASSUME NEW v \in Values
    PROVE  /\ Coerce(v) \in Values
           /\ Coerce(v) = Err \/ IsString(Coerce(v)) \/ IsList(Coerce(v))
           /\ IsString(Coerce(v)) =>
                 IsString(v) /\ Text(Coerce(v)) = sanitizeLabelValue(Text(v))
<1>1. CASE IsString(v)
    <2>1. sanitizeLabelValue(Text(v)) \in Seq(0 .. 255)
        BY <1>1, TextType, SanitizedIs DEF Bytes
    <2>2. Coerce(v) = Str(sanitizeLabelValue(Text(v)))
        BY <1>1 DEF Coerce
    <2> QED
        BY <1>1, <2>1, <2>2, StrType, StrText
<1>2. CASE ~ IsString(v) /\ IsList(v)
    BY <1>2 DEF Coerce
<1>3. CASE ~ IsString(v) /\ ~ IsList(v)
    <2>1. Coerce(v) = Err
        BY <1>3 DEF Coerce
    <2>2. ~ IsString(Err) /\ Err \in Values
        BY DEF Err, IsString, Values
    <2> QED
        BY <2>1, <2>2
<1> QED
    BY <1>1, <1>2, <1>3

\* What is published for a label, of an outcome v.
LEMMA LabelIs ==
    ASSUME NEW v \in Values, IsString(Coerce(v))
    PROVE  LET raw == Text(v)
               new == Text(Coerce(v))
               kept == Len(Text(Coerce(v)))
           IN  /\ (IsString(v) /\ needsSanitize(raw)) <=> new # raw
               /\ \A ends \in SUBSET (0 .. Len(raw)) : MadeOfCharacters(raw, ends) =>
                     /\ kept \in ends /\ kept <= MaxBytes
                     /\ new = Blanked(SubSeq(raw, 1, kept))
                     /\ kept < Len(raw) => kept + Width(raw[kept + 1]) > MaxBytes
<1> DEFINE raw == Text(v)
<1>1. IsString(v) /\ Text(Coerce(v)) = sanitizeLabelValue(raw)
    BY CoerceIs
<1>2. raw \in Bytes
    BY <1>1, TextType
<1> HIDE DEF raw
<1>3. /\ Len(sanitizeLabelValue(raw)) = Cut(Blanked(raw)) /\ Cut(Blanked(raw)) <= MaxBytes
      /\ sanitizeLabelValue(raw) = Blanked(SubSeq(raw, 1, Cut(Blanked(raw))))
      /\ needsSanitize(raw) <=> sanitizeLabelValue(raw) # raw
    BY <1>2, SanitizedIs
<1>4. ASSUME NEW ends \in SUBSET (0 .. Len(raw)), MadeOfCharacters(raw, ends)
      PROVE  /\ Cut(Blanked(raw)) \in ends
             /\ Cut(Blanked(raw)) < Len(raw) =>
                   Cut(Blanked(raw)) + Width(raw[Cut(Blanked(raw)) + 1]) > MaxBytes
    BY <1>2, <1>4, CutKeepsCharacters
<1> QED
    BY <1>1, <1>3, <1>4 DEF raw

-----------------------------------------------------------------------------
(* Sets of paths as lists.                                                 *)

LEMMA ConcatSet ==
    ASSUME NEW a \in Seq(Path), NEW b \in Seq(Path)
    PROVE  a \o b \in Seq(Path) /\ ToSet(a \o b) = ToSet(a) \cup ToSet(b)
<1> DEFINE c == a \o b
<1>1. c \in Seq(Path) /\ Len(c) = Len(a) + Len(b)
    BY ConcatProperties
<1>2. \A i \in 1 .. Len(a) + Len(b) : c[i] = IF i <= Len(a) THEN a[i] ELSE b[i - Len(a)]
    BY ConcatProperties
<1>3. Len(a) \in Nat /\ Len(b) \in Nat
    OBVIOUS
<1>4. DOMAIN a = 1 .. Len(a) /\ DOMAIN b = 1 .. Len(b) /\ DOMAIN c = 1 .. Len(a) + Len(b)
    BY <1>1, LenProperties
<1> HIDE DEF c
<1>5. ASSUME NEW i \in DOMAIN c
      PROVE  (\E j \in DOMAIN a : c[i] = a[j]) \/ \E j \in DOMAIN b : c[i] = b[j]
    <2>1. i \in 1 .. Len(a) + Len(b)
        BY <1>4
    <2>2. CASE i <= Len(a)
        <3>1. i \in 1 .. Len(a) /\ c[i] = a[i]
            BY <1>2, <1>3, <2>1, <2>2
        <3> QED
            BY <1>4, <3>1
    <2>3. CASE ~ (i <= Len(a))
        <3>1. i - Len(a) \in 1 .. Len(b) /\ c[i] = b[i - Len(a)]
            BY <1>2, <1>3, <2>1, <2>3
        <3> QED
            BY <1>4, <3>1
    <2> QED
        BY <2>2, <2>3
<1>6. ASSUME NEW i \in DOMAIN a PROVE i \in DOMAIN c /\ c[i] = a[i]
    <2>1. i \in 1 .. Len(a) /\ i \in 1 .. Len(a) + Len(b) /\ i <= Len(a)
        BY <1>3, <1>4
    <2> QED
        BY <1>2, <1>4, <2>1
<1>7. ASSUME NEW i \in DOMAIN b PROVE \E j \in DOMAIN c : c[j] = b[i]
    <2>1. Len(a) + i \in 1 .. Len(a) + Len(b) /\ ~ (Len(a) + i <= Len(a)) /\ (Len(a) + i) - Len(a) = i
        BY <1>3, <1>4
    <2> QED
        BY <1>2, <1>4, <2>1
<1>8. ToSet(c) = ToSet(a) \cup ToSet(b)
    BY <1>5, <1>6, <1>7 DEF ToSet
<1> QED
    BY <1>1, <1>8 DEF c

LEMMA SetOfList ==
    ASSUME NEW s \in Seq(Path)
    PROVE  ToSet(s) \in SUBSET Path /\ IsFiniteSet(ToSet(s))
<1>1. Len(s) \in Nat /\ DOMAIN s = 1 .. Len(s) /\ s \in [1 .. Len(s) -> Path]
    BY LenProperties
<1>2. ToSet(s) \subseteq Path
    BY <1>1 DEF ToSet
<1>3. s \in Surjection(1 .. Len(s), ToSet(s))
    BY <1>1 DEF Surjection, ToSet
<1>4. ExistsSurjection(1 .. Len(s), ToSet(s))
    BY <1>3 DEF ExistsSurjection
<1> QED
    BY <1>1, <1>2, <1>4, FS_NatSurjection

LEMMA ListOfSet ==
    ASSUME NEW S \in SUBSET Path, IsFiniteSet(S), NEW s \in SetToSeqs(S)
    PROVE  s \in Seq(Path) /\ ToSet(s) = S
<1> DEFINE n == Cardinality(S)
           D == 1 .. n
<1>1. n \in Nat
    BY FS_CardinalityType
<1>2. s \in [D -> S] /\ \A i, j \in D : i # j => s[i] # s[j]
    BY DEF SetToSeqs
<1>3. s \in Injection(D, S)
    BY <1>2 DEF Injection, IsInjective
<1>4. IsFiniteSet(D) /\ Cardinality(D) = n
    <2>1. Cardinality(D) = IF 1 > n THEN 0 ELSE n - 1 + 1
        BY <1>1, FS_Interval
    <2>2. IsFiniteSet(D)
        BY <1>1, FS_Interval
    <2> QED
        BY <1>1, <2>1, <2>2
<1>5. s \in Surjection(D, S)
    <2> HIDE DEF D
    <2> QED
        BY <1>3, <1>4, FS_Injection DEF n
<1>6. s \in [D -> Path]
    BY <1>2
<1>7. s \in Seq(Path)
    <2> HIDE DEF n
    <2> QED
        BY <1>1, <1>6
<1>8. ToSet(s) = S
    <2>1. DOMAIN s = D
        BY <1>2
    <2> HIDE DEF D
    <2> QED
        BY <1>2, <1>5, <2>1 DEF ToSet, Surjection
<1> QED
    BY <1>7, <1>8

-----------------------------------------------------------------------------
(* The walk, and what is published and cached from it.                     *)

\* What the walk has found, and what it has yet to find, is what the expression reads.
WalkAccounts ==
    pc = "walk" /\ SpelledOut(expr) => Accounted(out, nextToken, toVisit, expr)

\* What was found is published.
FoundIsPublished ==
    pc \in {"published", "cached", "done"} => ToSet(out) \subseteq fields

\* The informer stores what the published paths keep of an object of the API server.
CachedIsTrimmed ==
    pc \in {"cached", "done"} =>
        object \in Objects /\ cached = Trimmed(object, fields \cup ToSet(identityFields))

\* The result is of what was cached.
ResultIsOfCached ==
    pc = "done" =>
        /\ result = Coerce(Evaluated(expr, cached))
        /\ sanitized <=> (IsString(Evaluated(expr, cached))
                             /\ needsSanitize(Text(Evaluated(expr, cached))))

IInv ==
    /\ TypeOK /\ WalkAccounts /\ RequiredFieldsAreRead
    /\ FoundIsPublished /\ CachedIsTrimmed /\ ResultIsOfCached

LEMMA EvaluatedType ==
    ASSUME NEW e \in Trees, NEW o \in Values
    PROVE  Evaluated(e, o) \in Values
<1>1. Err \in Values
    BY DEF Err, Values
<1> QED
    BY <1>1, EvalIs DEF Evaluated, Results

LEMMA TrimOfPublished ==
    ASSUME NEW S \in SUBSET Path, IsFiniteSet(S), NEW s \in SetToSeqs(S), NEW o \in Objects
    PROVE  /\ trimAt[s \o identityFields][o] = Trimmed(o, S \cup ToSet(identityFields))
           /\ Trimmed(o, S \cup ToSet(identityFields)) \in Values
<1>1. o \in Values /\ IsMap(o) /\ identityFields \in Seq(Path)
    BY ValuesAssumption
<1>2. s \in Seq(Path) /\ ToSet(s) = S
    BY ListOfSet
<1> DEFINE ps == s \o identityFields
<1>3. ps \in Seq(Path) /\ ToSet(ps) = S \cup ToSet(identityFields)
    BY <1>1, <1>2, ConcatSet
<1>4. ps # <<>>
    <2>1. Len(identityFields) = 6
        BY DEF identityFields
    <2> DEFINE b == identityFields
    <2>2. b \in Seq(Path) /\ Len(b) = 6
        BY <1>1, <2>1
    <2> HIDE DEF b
    <2>3. Len(s \o b) = Len(s) + Len(b) /\ Len(s) \in Nat
        <3>1. s \in Seq(Path) /\ b \in Seq(Path)
            BY <1>2, <2>2
        <3> QED
            BY <3>1
    <2>4. Len(s \o b) # 0
        BY <2>2, <2>3
    <2>5. Len(<<>>) = 0
        OBVIOUS
    <2>6. s \o b # <<>>
        BY <2>4, <2>5
    <2> QED
        BY <2>6 DEF b
<1> HIDE DEF ps
<1>5. trimAt[ps][o] = Trimmed(o, ToSet(ps))
    BY <1>1, <1>3, <1>4, TrimAtKeeps
<1>6. Trimmed(o, ToSet(ps)) \in Values
    BY <1>1 DEF Trimmed, Values
<1> QED
    BY <1>3, <1>5, <1>6 DEF ps

LEMMA InitInv == Init => IInv
<1> SUFFICES ASSUME Init PROVE IInv
    OBVIOUS
<1>1. expr \in Exprs /\ expr \in Trees
    BY TreesAssumption DEF Init
<1>2. TypeOK
    <2>1. toVisit \in Seq(Trees) /\ nextToken \in Seq(Name) /\ out \in Seq(Path)
        BY <1>1 DEF Init
    <2>2. fields \in SUBSET Path /\ IsFiniteSet(fields)
        BY FS_EmptySet DEF Init
    <2> QED
        BY <1>1, <2>1, <2>2 DEF Init, TypeOK, Values, Err
<1>3. WalkAccounts
    <2> SUFFICES ASSUME SpelledOut(expr) PROVE Accounted(<<>>, <<>>, <<expr>>, expr)
        BY DEF WalkAccounts, Init
    <2>1. <<expr>> \in Seq(Trees) /\ DOMAIN <<expr>> = {1} /\ <<expr>>[1] = expr
        BY <1>1
    <2>2. Pending(<<>>, <<expr>>) = ReadBy(<<expr>>)
        BY <2>1, PendingStart
    <2>3. ReadBy(<<expr>>) = PathsRead[expr][<<>>]
        BY <2>1 DEF ReadBy
    <2>4. ToSet(<<>>) = {}
        BY DEF ToSet
    <2>5. Followed(expr)
        BY DEF SpelledOut, Followed
    <2>6. \A i \in DOMAIN <<expr>> : Followed(<<expr>>[i])
        BY <2>1, <2>5
    <2> QED
        BY <2>2, <2>3, <2>4, <2>6 DEF Accounted
<1> QED
    BY <1>2, <1>3 DEF Init, IInv, RequiredFieldsAreRead, FoundIsPublished, CachedIsTrimmed,
       ResultIsOfCached

\* Before the walk is over, only what it keeps matters.
LEMMA WalkStep ==
    ASSUME IInv, pc = "walk", pc' = pc, toVisit' \in Seq(Trees), nextToken' \in Seq(Name),
           out' \in Seq(Path), UNCHANGED <<expr, fields, object, cached, result, sanitized>>,
           SpelledOut(expr) => Accounted(out', nextToken', toVisit', expr)
    PROVE  IInv'
<1>1. TypeOK'
    BY DEF IInv, TypeOK
<1>2. WalkAccounts'
    BY DEF WalkAccounts
<1> QED
    BY <1>1, <1>2 DEF IInv, RequiredFieldsAreRead, FoundIsPublished, CachedIsTrimmed,
       ResultIsOfCached

LEMMA MeetType ==
    ASSUME IInv, NEW kinds, Meet(kinds)
    PROVE  /\ pc = "walk" /\ toVisit # <<>> /\ toVisit \in Seq(Trees)
           /\ toVisit[1] \in Trees /\ toVisit[1].kind \in kinds
           /\ toVisit' = toVisit[1].args \o Tail(toVisit) /\ toVisit' \in Seq(Trees)
           /\ nextToken \in Seq(Name) /\ out \in Seq(Path)
           /\ pc' = pc /\ UNCHANGED <<expr, fields, object, cached, result, sanitized>>
           /\ SpelledOut(expr) => Accounted(out, nextToken, toVisit, expr)
           /\ SpelledOut(expr) => <<>> \notin PathsRead[expr][<<>>]
<1>1. pc = "walk" /\ toVisit # <<>> /\ toVisit \in Seq(Trees) /\ toVisit[1].kind \in kinds
      /\ toVisit' = toVisit[1].args \o Tail(toVisit) /\ nextToken \in Seq(Name) /\ out \in Seq(Path)
    BY DEF IInv, TypeOK, Meet, Visited
<1>2. toVisit[1] \in Trees /\ Tail(toVisit) \in Seq(Trees)
    BY <1>1, Parted
<1>3. toVisit' \in Seq(Trees)
    <2> DEFINE a == toVisit[1].args
               b == Tail(toVisit)
    <2>1. a \in Seq(Trees) /\ b \in Seq(Trees) /\ toVisit' = a \o b
        BY <1>1, <1>2, ArgsBelow
    <2> HIDE DEF a, b
    <2> QED
        BY <2>1, ConcatProperties
<1> QED
    BY <1>1, <1>2, <1>3 DEF Meet, IInv, WalkAccounts, SpelledOut

LEMMA MeetSelectInv ==
    ASSUME IInv, MeetSelect
    PROVE  IInv'
<1>1. Meet(Selects) /\ nextToken' = Append(nextToken, toVisit[1].name) /\ out' = out
    BY DEF MeetSelect, Visited
<1>2. toVisit[1].name \in Name
    BY <1>1, MeetType, ArgsBelow
<1>3. nextToken' \in Seq(Name)
    BY <1>1, <1>2, MeetType, AppendProperties
<1>4. SpelledOut(expr) => Accounted(out', nextToken', toVisit', expr)
    BY <1>1, MeetType, SelectStep
<1> QED
    BY <1>1, <1>3, <1>4, MeetType, WalkStep

LEMMA MeetIdentInv ==
    ASSUME IInv, MeetIdent
    PROVE  IInv'
<1>1. Meet({"ident"}) /\ nextToken' = <<>>
      /\ out' = IF toVisit[1].name = "object" /\ nextToken # <<>>
                THEN Append(out, Reverse(nextToken)) ELSE out
    BY DEF MeetIdent, Visited
<1>2. nextToken' \in Seq(Name)
    <2>1. <<>> \in Seq(Name)
        OBVIOUS
    <2> QED
        BY <1>1, <2>1
<1>3. out' \in Seq(Path)
    <2> DEFINE r == Reverse(nextToken)
    <2>1. nextToken # <<>> => r \in Path
        BY <1>1, MeetType, ReverseFacts DEF Path
    <2> HIDE DEF r
    <2>2. nextToken # <<>> => Append(out, r) \in Seq(Path)
        BY <1>1, <2>1, MeetType, AppendProperties
    <2> QED
        BY <1>1, <2>2, MeetType DEF r
<1>4. SpelledOut(expr) => Accounted(out', nextToken', toVisit', expr)
    <2> SUFFICES ASSUME SpelledOut(expr) PROVE Accounted(out', <<>>, toVisit', expr)
        BY <1>1
    <2>1. toVisit[1].kind = "ident" /\ toVisit \in Seq(Trees) /\ toVisit # <<>>
          /\ out \in Seq(Path) /\ nextToken \in Seq(Name)
          /\ toVisit' = toVisit[1].args \o Tail(toVisit)
          /\ Accounted(out, nextToken, toVisit, expr) /\ <<>> \notin PathsRead[expr][<<>>]
        <3> DEFINE kinds == {"ident"}
        <3>1. Meet(kinds)
            BY <1>1
        <3> HIDE DEF kinds
        <3>2. toVisit[1].kind \in kinds
            BY <3>1, MeetType
        <3>3. toVisit \in Seq(Trees) /\ toVisit # <<>> /\ out \in Seq(Path)
              /\ nextToken \in Seq(Name) /\ toVisit' = toVisit[1].args \o Tail(toVisit)
              /\ Accounted(out, nextToken, toVisit, expr) /\ <<>> \notin PathsRead[expr][<<>>]
            BY <3>1, MeetType
        <3> QED
            BY <3>2, <3>3 DEF kinds
    <2>2. Accounted(IF toVisit[1].name = "object" /\ nextToken # <<>>
                    THEN Append(out, Reverse(nextToken)) ELSE out,
                    <<>>, toVisit[1].args \o Tail(toVisit), expr)
        BY <2>1, IdentStep
    <2> QED
        BY <1>1, <2>1, <2>2
<1> QED
    BY <1>1, <1>2, <1>3, <1>4, MeetType, WalkStep

LEMMA MeetCallInv ==
    ASSUME IInv, MeetCall
    PROVE  IInv'
<1>1. Meet({"call"}) /\ nextToken' = <<>> /\ out' = out
    BY DEF MeetCall
<1>2. nextToken' \in Seq(Name)
    <2>1. <<>> \in Seq(Name)
        OBVIOUS
    <2> QED
        BY <1>1, <2>1
<1>3. SpelledOut(expr) => Accounted(out', nextToken', toVisit', expr)
    BY <1>1, MeetType, OtherStep
<1> QED
    BY <1>1, <1>2, <1>3, MeetType, WalkStep

\* Names are pending only above a tree that ends them.
LEMMA MeetOtherInv ==
    ASSUME IInv, MeetOther
    PROVE  IInv'
<1>1. Meet({"const", "list", "map", "each"}) /\ nextToken' = nextToken /\ out' = out
    BY DEF MeetOther
<1>2. SpelledOut(expr) => nextToken = <<>>
    <2>1. toVisit[1].kind \notin {"ident", "select", "call"}
        <3> DEFINE kinds == {"const", "list", "map", "each"}
        <3>1. Meet(kinds)
            BY <1>1
        <3> HIDE DEF kinds
        <3>2. toVisit[1].kind \in kinds
            BY <3>1, MeetType
        <3> QED
            BY <3>2 DEF kinds
    <2>2. SpelledOut(expr) => Accounted(out, nextToken, toVisit, expr)
        BY <1>1, MeetType
    <2> QED
        BY <2>1, <2>2 DEF Accounted
<1>3. SpelledOut(expr) => Accounted(out', nextToken', toVisit', expr)
    BY <1>1, <1>2, MeetType, OtherStep
<1> QED
    BY <1>1, <1>3, MeetType, WalkStep

LEMMA CompiledInv ==
    ASSUME IInv, Compiled
    PROVE  IInv'
<1>1. pc = "walk" /\ toVisit = <<>> /\ pc' = "compiled"
      /\ UNCHANGED <<expr, toVisit, nextToken, out, fields, object, cached, result, sanitized>>
    BY DEF Compiled
<1>2. TypeOK'
    BY <1>1 DEF IInv, TypeOK
<1>3. RequiredFieldsAreRead'
    <2> SUFFICES ASSUME SpelledOut(expr) PROVE ToSet(out) = PathsRead[expr][<<>>]
        BY <1>1 DEF RequiredFieldsAreRead
    <2>1. Accounted(out, nextToken, toVisit, expr)
        BY <1>1 DEF IInv, WalkAccounts
    <2>2. Pending(nextToken, toVisit) = {}
        BY <1>1 DEF Pending
    <2> QED
        BY <2>1, <2>2 DEF Accounted
<1> QED
    BY <1>1, <1>2, <1>3 DEF IInv, WalkAccounts, FoundIsPublished, CachedIsTrimmed, ResultIsOfCached

LEMMA PublishInv ==
    ASSUME IInv, NEW other \in Others, Publish(other)
    PROVE  IInv'
<1>1. pc = "compiled" /\ fields' = ToSet(out) \cup other /\ pc' = "published"
      /\ UNCHANGED <<expr, toVisit, nextToken, out, object, cached, result, sanitized>>
    BY DEF Publish
<1>2. TypeOK'
    <2>1. ToSet(out) \in SUBSET Path /\ IsFiniteSet(ToSet(out))
        BY SetOfList DEF IInv, TypeOK
    <2>2. other \in SUBSET Path /\ IsFiniteSet(other)
        BY ValuesAssumption
    <2>3. fields' \in SUBSET Path /\ IsFiniteSet(fields')
        BY <1>1, <2>1, <2>2, FS_Union
    <2> QED
        BY <1>1, <2>3 DEF IInv, TypeOK
<1>3. RequiredFieldsAreRead'
    BY <1>1 DEF IInv, RequiredFieldsAreRead
<1>4. FoundIsPublished'
    BY <1>1 DEF FoundIsPublished
<1> QED
    BY <1>1, <1>2, <1>3, <1>4 DEF IInv, WalkAccounts, CachedIsTrimmed, ResultIsOfCached

LEMMA CacheInv ==
    ASSUME IInv, NEW o \in Objects, Cache(o)
    PROVE  IInv'
<1>1. pc = "published" /\ object' = o /\ pc' = "cached"
      /\ UNCHANGED <<expr, toVisit, nextToken, out, fields, result, sanitized>>
    BY DEF Cache
<1>2. PICK s \in SetToSeqs(fields) : cached' = trimAt[s \o identityFields][o]
    BY DEF Cache
<1>3. cached' = Trimmed(o, fields \cup ToSet(identityFields)) /\ cached' \in Values
    BY <1>2, TrimOfPublished DEF IInv, TypeOK
<1>4. o \in Values
    BY ValuesAssumption
<1>5. TypeOK'
    BY <1>1, <1>3, <1>4 DEF IInv, TypeOK
<1>6. RequiredFieldsAreRead' /\ FoundIsPublished'
    BY <1>1 DEF IInv, RequiredFieldsAreRead, FoundIsPublished
<1>7. CachedIsTrimmed'
    BY <1>1, <1>3 DEF CachedIsTrimmed
<1> QED
    BY <1>1, <1>5, <1>6, <1>7 DEF IInv, WalkAccounts, ResultIsOfCached

LEMMA EvaluateInv ==
    ASSUME IInv, Evaluate
    PROVE  IInv'
<1> DEFINE v == Evaluated(expr, cached)
<1>1. pc = "cached" /\ result' = Coerce(v) /\ pc' = "done"
      /\ UNCHANGED <<expr, toVisit, nextToken, out, fields, object, cached>>
    BY DEF Evaluate
<1>2. sanitized' = (IsString(v) /\ needsSanitize(Text(v)))
    BY DEF Evaluate
<1>3. v \in Values
    BY EvaluatedType, TreesAssumption DEF IInv, TypeOK
<1>4. v' = v
    BY <1>1
<1>5. sanitized' \in BOOLEAN
    BY <1>2
<1> HIDE DEF v
<1>6. result' \in Values /\ (result' = Err \/ IsString(result') \/ IsList(result'))
    BY <1>1, <1>3, CoerceIs
<1>7. TypeOK'
    BY <1>1, <1>5, <1>6 DEF IInv, TypeOK
<1>8. RequiredFieldsAreRead' /\ FoundIsPublished'
    BY <1>1 DEF IInv, RequiredFieldsAreRead, FoundIsPublished
<1>9. CachedIsTrimmed'
    BY <1>1 DEF IInv, CachedIsTrimmed
<1>10. ResultIsOfCached'
    <2>1. result' = Coerce(v')
        BY <1>1, <1>4
    <2>2. sanitized' <=> (IsString(v') /\ needsSanitize(Text(v')))
        BY <1>2, <1>4
    <2> QED
        BY <2>1, <2>2 DEF ResultIsOfCached, v
<1> QED
    BY <1>1, <1>7, <1>8, <1>9, <1>10 DEF IInv, WalkAccounts

LEMMA NextInv == IInv /\ [Next]_vars => IInv'
<1> SUFFICES ASSUME IInv, [Next]_vars PROVE IInv'
    OBVIOUS
<1>1. CASE MeetSelect
    BY <1>1, MeetSelectInv
<1>2. CASE MeetIdent
    BY <1>2, MeetIdentInv
<1>3. CASE MeetCall
    BY <1>3, MeetCallInv
<1>4. CASE MeetOther
    BY <1>4, MeetOtherInv
<1>5. CASE Compiled
    BY <1>5, CompiledInv
<1>6. CASE \E other \in Others : Publish(other)
    BY <1>6, PublishInv
<1>7. CASE \E o \in Objects : Cache(o)
    BY <1>7, CacheInv
<1>8. CASE Evaluate
    BY <1>8, EvaluateInv
<1>9. CASE UNCHANGED vars
    BY <1>9 DEF vars, IInv, TypeOK, WalkAccounts, RequiredFieldsAreRead, FoundIsPublished,
       CachedIsTrimmed, ResultIsOfCached
<1> QED
    BY <1>1, <1>2, <1>3, <1>4, <1>5, <1>6, <1>7, <1>8, <1>9 DEF Next

\* What the properties below rest on.
THEOREM Invariance == Spec => []IInv
<1> QED
    BY InitInv, NextInv, PTL DEF Spec

\* Every state is of its type (the fields and results of one policy expression):
\* what is published is a finite set of paths, and an outcome is a string, a list
\* or an error, however the tree is built.
THEOREM TypeCorrect == Spec => []TypeOK
<1>1. IInv => TypeOK
    BY DEF IInv
<1> QED
    BY <1>1, Invariance, PTL

\* requiredFields finds the paths an expression reads, no more and no less, for
\* every tree the type checker lets through that uses the object in selections
\* only (cel.go:251-283).
THEOREM RequiredFieldsRead == Spec => []RequiredFieldsAreRead
<1>1. IInv => RequiredFieldsAreRead
    BY DEF IInv
<1> QED
    BY <1>1, Invariance, PTL

\* Trimming keeps of every object what the published paths and the identity fields
\* lead to, whatever the paths and their order (trim.go:29-60).
THEOREM TrimKeeps == Spec => []TrimKeepsPaths
<1>1. IInv => TrimKeepsPaths
    BY DEF IInv, CachedIsTrimmed, TrimKeepsPaths
<1> QED
    BY <1>1, Invariance, PTL

\* The trimmed object stands for the object: an expression that spells out what it
\* reads has the same outcome on both (cel.go:251-283, trim.go:29-60).
THEOREM TrimmedAgrees == Spec => []SpelledOutAgrees
<1>1. IInv => SpelledOutAgrees
    <2> SUFFICES ASSUME IInv, SpelledOut(expr), pc = "done"
                 PROVE  result = Coerce(Evaluated(expr, object))
        BY DEF SpelledOutAgrees, Agrees
    <2> DEFINE P == fields \cup ToSet(identityFields)
    <2>1. expr \in Trees /\ fields \in SUBSET Path /\ object \in Values
        BY TreesAssumption DEF IInv, TypeOK
    <2>2. ToSet(identityFields) \in SUBSET Path
        BY ValuesAssumption, SetOfList
    <2>3. P \in SUBSET Path
        BY <2>1, <2>2
    <2>4. PathsRead[expr][<<>>] \subseteq P
        BY DEF IInv, RequiredFieldsAreRead, FoundIsPublished
    <2>5. cached = Trimmed(object, P) /\ cached \in Values
        BY DEF IInv, CachedIsTrimmed, TypeOK
    <2> HIDE DEF P
    <2>6. \A p \in P : Same(object, cached, p)
        BY <2>1, <2>3, <2>5, TrimmedSame
    <2>7. Evaluated(expr, object) = Evaluated(expr, cached)
        BY <2>1, <2>3, <2>4, <2>5, <2>6, EvaluatedSame
    <2> QED
        BY <2>7 DEF IInv, ResultIsOfCached
<1> QED
    BY <1>1, Invariance, PTL

\* A label's value is as much of what its expression gives as fits the limit in
\* whole characters, with control characters blanked, for every string and limit,
\* and only values that changed are counted as sanitized (cel.go:516-572).
THEOREM LabelsKeepCharacters == Spec => []LabelKeepsCharacters
<1>1. IInv => LabelKeepsCharacters
    <2> SUFFICES ASSUME IInv, pc = "done", IsString(result) PROVE LabelKeepsCharacters
        BY DEF LabelKeepsCharacters
    <2> DEFINE v == Evaluated(expr, cached)
    <2>1. v \in Values
        BY EvaluatedType, TreesAssumption DEF IInv, TypeOK
    <2>2. result = Coerce(v) /\ (sanitized <=> (IsString(v) /\ needsSanitize(Text(v))))
        BY DEF IInv, ResultIsOfCached
    <2> HIDE DEF v
    <2>3. /\ (IsString(v) /\ needsSanitize(Text(v))) <=> Text(result) # Text(v)
          /\ \A ends \in SUBSET (0 .. Len(Text(v))) : MadeOfCharacters(Text(v), ends) =>
                /\ Len(Text(result)) \in ends /\ Len(Text(result)) <= MaxBytes
                /\ Text(result) = Blanked(SubSeq(Text(v), 1, Len(Text(result))))
                /\ Len(Text(result)) < Len(Text(v)) =>
                      Len(Text(result)) + Width(Text(v)[Len(Text(result)) + 1]) > MaxBytes
        BY <2>1, <2>2, LabelIs
    <2> QED
        BY <2>2, <2>3 DEF LabelKeepsCharacters, v
<1> QED
    BY <1>1, Invariance, PTL
=============================================================================
