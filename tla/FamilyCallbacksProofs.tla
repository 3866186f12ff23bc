------------------------- MODULE FamilyCallbacksProofs -------------------------
(***************************************************************************)
(* Proofs about FamilyCallbacks, for any policies, control planes, objects *)
(* and failing evaluations.                                                *)
(***************************************************************************)
EXTENDS FamilyCallbacks, FiniteSetTheorems, SequenceTheorems, WellFoundedInduction, TLAPS

-----------------------------------------------------------------------------
(* Sequences put one after the other. FlattenSeq is a recursive function:  *)
(* what it returns is shown by induction over a set of numbers.            *)

\* Every set of numbers that is not empty has a least element.
LEMMA Least ==
    ASSUME NEW T, T \subseteq Nat, T # {}
    PROVE  \E n \in T : \A k \in T : ~ (k < n)
<1> DEFINE R == OpToRel(<, Nat)
<1>1. IsWellFoundedOn(R, Nat)
    BY NatLessThanWellFounded
<1>2. PICK x \in T : \A y \in T : ~ (<<y, x>> \in R)
    <2> HIDE DEF R
    <2> QED
        BY <1>1, WFMin
<1>3. ASSUME NEW y \in T, y < x PROVE <<y, x>> \in R
    <2>1. <<y, x>> \in {ss \in Nat \X Nat : ss[1] < ss[2]}
        BY <1>3
    <2> QED
        BY <2>1 DEF OpToRel
<1> HIDE DEF R
<1> QED
    BY <1>2, <1>3

\* Induction over a set of numbers.
LEMMA Induction ==
    ASSUME NEW S, 0 \in S, \A n \in Nat : n \in S => n + 1 \in S
    PROVE  \A n \in Nat : n \in S
<1> DEFINE T == Nat \ S
<1>1. SUFFICES ASSUME T # {} PROVE FALSE
    OBVIOUS
<1>2. PICK x \in T : \A y \in T : ~ (y < x)
    <2>1. T \subseteq Nat
        OBVIOUS
    <2> HIDE DEF T
    <2> QED
        BY <1>1, <2>1, Least
<1>3. x \in Nat /\ x \notin S
    BY <1>2
<1>4. x # 0
    BY <1>3
<1>5. x - 1 \in Nat /\ x - 1 < x /\ x - 1 + 1 = x
    BY <1>3, <1>4
<1>6. x - 1 \in S
    BY <1>2, <1>5
<1> QED
    BY <1>3, <1>5, <1>6

\* s is made of the first n of seqs: its p-th element is the col[p]-th of seqs[row[p]],
\* and each element is there once.
Placed(seqs, n, s, row, col) ==
    /\ \A p \in 1 .. Len(s) :
          /\ row[p] \in 1 .. n /\ col[p] \in 1 .. Len(seqs[row[p]])
          /\ s[p] = seqs[row[p]][col[p]]
    /\ \A p, q \in 1 .. Len(s) : row[p] = row[q] /\ col[p] = col[q] => p = q
    /\ \A i \in 1 .. n : \A k \in 1 .. Len(seqs[i]) :
          \E p \in 1 .. Len(s) : row[p] = i /\ col[p] = k

\* One more sequence is put at the end.
LEMMA PlacedGrows ==
    ASSUME NEW S, NEW seqs, NEW n \in Nat, NEW s \in Seq(S), NEW row, NEW col,
           seqs[n + 1] \in Seq(S), Placed(seqs, n, s, row, col)
    PROVE  \E r, c : Placed(seqs, n + 1, s \o seqs[n + 1], r, c)
<1> DEFINE x == seqs[n + 1]
           t == s \o x
           r == [p \in 1 .. Len(t) |-> IF p <= Len(s) THEN row[p] ELSE n + 1]
           c == [p \in 1 .. Len(t) |-> IF p <= Len(s) THEN col[p] ELSE p - Len(s)]
<1>1. /\ x \in Seq(S) /\ Len(s) \in Nat /\ Len(x) \in Nat /\ Len(t) = Len(s) + Len(x)
      /\ \A p \in 1 .. Len(t) : t[p] = IF p <= Len(s) THEN s[p] ELSE x[p - Len(s)]
    BY ConcatProperties
<1> HIDE DEF x, t
<1>2. ASSUME NEW p \in 1 .. Len(t)
      PROVE  /\ r[p] \in 1 .. n + 1 /\ c[p] \in 1 .. Len(seqs[r[p]])
             /\ t[p] = seqs[r[p]][c[p]]
    <2>1. CASE p <= Len(s)
        <3>1. p \in 1 .. Len(s) /\ r[p] = row[p] /\ c[p] = col[p] /\ t[p] = s[p]
            BY <1>1, <2>1
        <3> QED
            BY <3>1 DEF Placed
    <2>2. CASE ~(p <= Len(s))
        <3>1. r[p] = n + 1 /\ c[p] = p - Len(s) /\ t[p] = x[p - Len(s)]
            BY <1>1, <2>2
        <3>2. p - Len(s) \in 1 .. Len(x) /\ n + 1 \in 1 .. n + 1
            BY <1>1, <2>2
        <3> QED
            BY <3>1, <3>2 DEF x
    <2> QED
        BY <2>1, <2>2
<1>3. ASSUME NEW p \in 1 .. Len(t), NEW q \in 1 .. Len(t), r[p] = r[q], c[p] = c[q]
      PROVE  p = q
    <2>1. CASE p <= Len(s) /\ q <= Len(s)
        <3>1. p \in 1 .. Len(s) /\ q \in 1 .. Len(s) /\ row[p] = row[q] /\ col[p] = col[q]
            BY <1>1, <1>3, <2>1
        <3> QED
            BY <3>1 DEF Placed
    <2>2. CASE ~(p <= Len(s)) /\ ~(q <= Len(s))
        BY <1>1, <1>3, <2>2
    <2>3. ASSUME NEW i \in 1 .. Len(t), NEW j \in 1 .. Len(t), r[i] = r[j],
                 i <= Len(s), ~(j <= Len(s))
          PROVE  FALSE
        <3>1. i \in 1 .. Len(s) /\ row[i] = n + 1
            BY <1>1, <2>3
        <3> QED
            BY <3>1 DEF Placed
    <2> QED
        BY <1>3, <2>1, <2>2, <2>3
<1>4. ASSUME NEW i \in 1 .. n + 1, NEW k \in 1 .. Len(seqs[i])
      PROVE  \E p \in 1 .. Len(t) : r[p] = i /\ c[p] = k
    <2>1. CASE i = n + 1
        <3>1. k \in 1 .. Len(x)
            BY <2>1 DEF x
        <3>2. Len(s) + k \in 1 .. Len(t) /\ ~(Len(s) + k <= Len(s)) /\ Len(s) + k - Len(s) = k
            BY <1>1, <3>1
        <3> QED
            BY <2>1, <3>2
    <2>2. CASE i # n + 1
        <3>1. i \in 1 .. n
            BY <2>2
        <3>2. PICK p \in 1 .. Len(s) : row[p] = i /\ col[p] = k
            BY <3>1 DEF Placed
        <3>3. p \in 1 .. Len(t) /\ p <= Len(s)
            BY <1>1
        <3> QED
            BY <3>2, <3>3
    <2> QED
        BY <2>1, <2>2
<1> HIDE DEF r, c
<1>5. Placed(seqs, n + 1, t, r, c)
    BY <1>2, <1>3, <1>4 DEF Placed
<1> QED
    BY <1>5 DEF t, x

\* The table that FlattenSeq is computed from, as far as it goes.
Flattens(seqs, n, table) ==
    table = [i \in 1 .. n |-> IF i = 1 THEN seqs[i] ELSE table[i - 1] \o seqs[i]]

\* The table that FlattenSeq chooses, of the sequences flattened so far, exists.
LEMMA FlattensExists ==
    ASSUME NEW seqs
    PROVE  \A n \in Nat : \E table : Flattens(seqs, n, table)
<1> DEFINE S == {n \in Nat : \E table : Flattens(seqs, n, table)}
<1>1. 0 \in S
    <2>1. Flattens(seqs, 0, [i \in 1 .. 0 |-> seqs[i]])
        BY DEF Flattens
    <2> QED
        BY <2>1
<1>2. ASSUME NEW n \in Nat, n \in S PROVE n + 1 \in S
    <2>1. PICK old : Flattens(seqs, n, old)
        BY <1>2
    <2> DEFINE new == [i \in 1 .. n + 1 |->
                          IF i <= n THEN old[i]
                          ELSE IF i = 1 THEN seqs[i] ELSE old[i - 1] \o seqs[i]]
    <2>2. ASSUME NEW i \in 1 .. n + 1
          PROVE  new[i] = IF i = 1 THEN seqs[i] ELSE new[i - 1] \o seqs[i]
        <3>1. CASE i <= n
            <4>1. i \in 1 .. n /\ (i # 1 => i - 1 \in 1 .. n + 1 /\ i - 1 <= n)
                BY <3>1
            <4>2. old[i] = IF i = 1 THEN seqs[i] ELSE old[i - 1] \o seqs[i]
                BY <2>1, <4>1 DEF Flattens
            <4> QED
                BY <3>1, <4>1, <4>2
        <3>2. CASE ~(i <= n)
            <4>1. i # 1 => i - 1 \in 1 .. n + 1 /\ i - 1 <= n
                BY <3>2
            <4> QED
                BY <3>2, <4>1
        <3> QED
            BY <3>1, <3>2
    <2>3. new = [i \in 1 .. n + 1 |-> IF i = 1 THEN seqs[i] ELSE new[i - 1] \o seqs[i]]
        <3>1. new = [i \in 1 .. n + 1 |-> new[i]]
            OBVIOUS
        <3> HIDE DEF new
        <3> QED
            BY <2>2, <3>1
    <2>4. Flattens(seqs, n + 1, new)
        <3> HIDE DEF new
        <3> QED
            BY <2>3 DEF Flattens
    <2> QED
        BY <2>4
<1> HIDE DEF S
<1>3. \A n \in Nat : n \in S
    BY <1>1, <1>2, Induction
<1> QED
    BY <1>3 DEF S

\* An entry of the table from the one before.
FlatAt(S, seqs, table, n) ==
    table[n] \in Seq(S) /\ \E row, col : Placed(seqs, n, table[n], row, col)

\* Its next row is flat if this one is.
LEMMA FlattensGrow ==
    ASSUME NEW S, NEW seqs \in Seq(Seq(S)), NEW table, Flattens(seqs, Len(seqs), table),
           NEW k \in Nat, k # 0, k + 1 <= Len(seqs), FlatAt(S, seqs, table, k)
    PROVE  FlatAt(S, seqs, table, k + 1)
<1>1. PICK j \in 1 .. Len(seqs) : j = k + 1
    OBVIOUS
<1>2. j # 1 /\ j - 1 = k
    BY <1>1
<1>3. table[j] = table[j - 1] \o seqs[j]
    BY <1>2 DEF Flattens
<1>4. table[k + 1] = table[k] \o seqs[k + 1]
    BY <1>1, <1>2, <1>3
<1>5. table[k] \in Seq(S) /\ seqs[k + 1] \in Seq(S)
    BY <1>1 DEF FlatAt
<1>6. table[k] \o seqs[k + 1] \in Seq(S)
    BY <1>5, ConcatProperties
<1>7. \E row, col : Placed(seqs, k + 1, table[k] \o seqs[k + 1], row, col)
    BY <1>5, PlacedGrows DEF FlatAt
<1> QED
    BY <1>4, <1>6, <1>7 DEF FlatAt

\* FlattenSeq returns the last row of such a table.
LEMMA FlattenIsFlat ==
    ASSUME NEW S, NEW seqs \in Seq(Seq(S)), Len(seqs) # 0
    PROVE  \E table : Flattens(seqs, Len(seqs), table) /\ FlattenSeq(seqs) = table[Len(seqs)]
<1> DEFINE table == CHOOSE g : Flattens(seqs, Len(seqs), g)
<1>1. Flattens(seqs, Len(seqs), table)
    <2>1. Len(seqs) \in Nat
        OBVIOUS
    <2> QED
        BY <2>1, FlattensExists
<1>2. FlattenSeq(seqs) = table[Len(seqs)]
    BY DEF FlattenSeq, Flattens
<1> QED
    BY <1>1, <1>2

\* All that is needed of FlattenSeq.
LEMMA FlattenPlaces ==
    ASSUME NEW S, NEW seqs \in Seq(Seq(S))
    PROVE  /\ FlattenSeq(seqs) \in Seq(S)
           /\ \E row, col : Placed(seqs, Len(seqs), FlattenSeq(seqs), row, col)
<1>1. CASE Len(seqs) = 0
    <2>1. FlattenSeq(seqs) = seqs /\ seqs = <<>>
        BY <1>1, EmptySeq DEF FlattenSeq
    <2>2. Placed(seqs, Len(seqs), <<>>, <<>>, <<>>)
        BY <1>1 DEF Placed
    <2> QED
        BY <2>1, <2>2
<1>2. CASE Len(seqs) # 0
    <2>1. PICK table : Flattens(seqs, Len(seqs), table) /\ FlattenSeq(seqs) = table[Len(seqs)]
        BY <1>2, FlattenIsFlat
    <2> DEFINE T == {n \in Nat : n + 1 <= Len(seqs) => FlatAt(S, seqs, table, n + 1)}
    <2>2. 0 \in T
        <3>1. 1 \in 1 .. Len(seqs)
            BY <1>2
        <3>2. table[1] = seqs[1]
            BY <2>1, <3>1 DEF Flattens
        <3>3. seqs[1] \in Seq(S)
            BY <3>1
        <3>4. Placed(seqs, 1, seqs[1], [p \in 1 .. Len(seqs[1]) |-> 1],
                     [p \in 1 .. Len(seqs[1]) |-> p])
            BY <3>3 DEF Placed
        <3>5. FlatAt(S, seqs, table, 0 + 1)
            BY <3>2, <3>3, <3>4 DEF FlatAt
        <3> QED
            BY <3>5
    <2>3. ASSUME NEW n \in Nat, n \in T PROVE n + 1 \in T
        <3>1. SUFFICES ASSUME n + 1 + 1 <= Len(seqs)
                       PROVE  FlatAt(S, seqs, table, n + 1 + 1)
            OBVIOUS
        <3>2. n + 1 \in Nat /\ n + 1 # 0 /\ n + 1 <= Len(seqs)
            BY <3>1
        <3> QED
            BY <2>1, <2>3, <3>1, <3>2, FlattensGrow
    <2> HIDE DEF T
    <2>4. \A n \in Nat : n \in T
        BY <2>2, <2>3, Induction
    <2>5. Len(seqs) - 1 \in Nat /\ Len(seqs) - 1 + 1 = Len(seqs)
        BY <1>2
    <2>6. FlatAt(S, seqs, table, Len(seqs))
        <3>1. Len(seqs) - 1 \in T
            BY <2>4, <2>5
        <3> QED
            BY <2>5, <3>1 DEF T
    <2> QED
        BY <2>1, <2>6 DEF FlatAt
<1> QED
    BY <1>1, <1>2

-----------------------------------------------------------------------------
(* Filters and orders.                                                     *)

\* The elements of a sequence.
LEMMA ToSetOfSeq ==
    ASSUME NEW S, NEW s \in Seq(S)
    PROVE  /\ DOMAIN s = 1 .. Len(s) /\ Len(s) \in Nat /\ ToSet(s) \subseteq S
           /\ \A x : x \in ToSet(s) <=> \E i \in 1 .. Len(s) : s[i] = x
BY DEF ToSet

\* Kept keeps the elements that are good, each at one place.
KeptAt(s, kept, pos) ==
    /\ \A p \in 1 .. Len(kept) : pos[p] \in 1 .. Len(s) /\ kept[p] = s[pos[p]]
    /\ \A p, q \in 1 .. Len(kept) : pos[p] = pos[q] => p = q

\* Kept returns the good elements of a sequence, each in a place of its own.
LEMMA KeptKeeps ==
    ASSUME NEW S, NEW s \in Seq(S), NEW good
    PROVE  /\ Kept(s, good) \in Seq(S)
           /\ \A x : x \in ToSet(Kept(s, good)) <=> x \in ToSet(s) /\ x \in good
           /\ \E pos : KeptAt(s, Kept(s, good), pos)
<1> DEFINE seqs == [i \in DOMAIN s |-> IF s[i] \in good THEN <<s[i]>> ELSE <<>>]
           kept == Kept(s, good)
<1>1. DOMAIN s = 1 .. Len(s) /\ Len(s) \in Nat
    BY ToSetOfSeq
<1>2. ASSUME NEW i \in 1 .. Len(s)
      PROVE  /\ seqs[i] = IF s[i] \in good THEN <<s[i]>> ELSE <<>>
             /\ seqs[i] \in Seq(S) /\ s[i] \in S
             /\ \A k \in 1 .. Len(seqs[i]) : k = 1 /\ s[i] \in good /\ seqs[i][k] = s[i]
             /\ s[i] \in good => Len(seqs[i]) = 1
    BY <1>1
<1>3. seqs \in Seq(Seq(S)) /\ Len(seqs) = Len(s)
    <2>1. seqs \in [1 .. Len(s) -> Seq(S)]
        BY <1>1, <1>2
    <2> HIDE DEF seqs
    <2> QED
        BY <1>1, <2>1
<1>4. kept = FlattenSeq(seqs)
    BY DEF Kept
<1> HIDE DEF seqs, kept
<1>5. kept \in Seq(S)
    BY <1>3, <1>4, FlattenPlaces
<1>6. PICK row, col : Placed(seqs, Len(s), kept, row, col)
    BY <1>3, <1>4, FlattenPlaces
<1>7. ASSUME NEW p \in 1 .. Len(kept)
      PROVE  /\ row[p] \in 1 .. Len(s) /\ kept[p] = s[row[p]] /\ s[row[p]] \in good
             /\ col[p] = 1
    <2>1. /\ row[p] \in 1 .. Len(s) /\ col[p] \in 1 .. Len(seqs[row[p]])
          /\ kept[p] = seqs[row[p]][col[p]]
        BY <1>6 DEF Placed
    <2> QED
        BY <1>2, <2>1
<1>8. KeptAt(s, kept, row)
    <2>1. ASSUME NEW p \in 1 .. Len(kept), NEW q \in 1 .. Len(kept), row[p] = row[q]
          PROVE  p = q
        BY <1>6, <1>7, <2>1 DEF Placed
    <2> QED
        BY <1>7, <2>1 DEF KeptAt
<1>9. ASSUME NEW i \in 1 .. Len(s), s[i] \in good
      PROVE  \E p \in 1 .. Len(kept) : kept[p] = s[i]
    <2>1. 1 \in 1 .. Len(seqs[i])
        <3>1. Len(seqs[i]) = 1
            BY <1>2, <1>9
        <3> QED
            BY <3>1
    <2>2. PICK p \in 1 .. Len(kept) : row[p] = i /\ col[p] = 1
        BY <1>6, <2>1 DEF Placed
    <2> QED
        BY <1>7, <2>2
<1>10. ASSUME NEW x
       PROVE  x \in ToSet(kept) <=> x \in ToSet(s) /\ x \in good
    <2>1. /\ x \in ToSet(kept) <=> \E p \in 1 .. Len(kept) : kept[p] = x
          /\ x \in ToSet(s) <=> \E i \in 1 .. Len(s) : s[i] = x
        BY <1>5, ToSetOfSeq
    <2> QED
        BY <1>7, <1>9, <2>1
<1> QED
    BY <1>5, <1>8, <1>10 DEF kept

\* An order of a finite set has each of its elements once.
LEMMA Orders ==
    ASSUME NEW T, IsFiniteSet(T), NEW order \in SetToSeqs(T)
    PROVE  /\ order \in Seq(T)
           /\ \A i, j \in 1 .. Len(order) : order[i] = order[j] => i = j
           /\ \A x \in T : \E i \in 1 .. Len(order) : order[i] = x
<1> DEFINE n == Cardinality(T)
<1>1. n \in Nat
    BY FS_CardinalityType
<1>2. order \in [1 .. n -> T] /\ \A i, j \in 1 .. n : i # j => order[i] # order[j]
    BY DEF SetToSeqs
<1>3. order \in Injection(1 .. n, T)
    BY <1>2 DEF Injection, IsInjective
<1> HIDE DEF n
<1>4. IsFiniteSet(1 .. n) /\ Cardinality(1 .. n) = n
    BY <1>1, FS_Interval
<1>5. order \in Surjection(1 .. n, T)
    BY <1>3, <1>4, FS_Injection DEF n
<1>6. order \in Seq(T) /\ Len(order) = n
    BY <1>1, <1>2
<1> QED
    BY <1>2, <1>5, <1>6 DEF Surjection

-----------------------------------------------------------------------------
(* What is compiled.                                                       *)

\* Compiling a metric changes its labels only.
LEMMA CompiledMetric ==
    ASSUME NEW mt \in Metrics
    PROVE  /\ compiled(mt) \in Metrics
           /\ compiled(mt).id = mt.id /\ compiled(mt).forEach = mt.forEach
           /\ compiled(mt).value = mt.value /\ compiled(mt).labels = compileLabels(mt)
<1>1. mt.labels \in Seq(Expr)
    BY DEF Metrics
<1>2. compileLabels(mt) \in Seq(Expr)
    BY <1>1, KeptKeeps DEF compileLabels
<1> QED
    BY <1>2 DEF compiled, Metrics

IdsFrom(ms, out, pos) ==
    /\ \A p \in 1 .. Len(out) : pos[p] \in 1 .. Len(ms) /\ out[p].id = ms[pos[p]].id
    /\ \A p, q \in 1 .. Len(out) : pos[p] = pos[q] => p = q

\* The metrics that are sound, compiled, each at one place.
LEMMA CompiledMetrics ==
    ASSUME NEW ms \in Seq(Metrics)
    PROVE  /\ compileMetrics(ms) \in Seq(Metrics)
           /\ \A x : x \in ToSet(compileMetrics(ms)) <=>
                        \E mt \in ToSet(ms) : Sound(mt) /\ x = compiled(mt)
           /\ \E pos : IdsFrom(ms, compileMetrics(ms), pos)
<1> DEFINE good == {mt \in ToSet(ms) : ~forEachFails(mt) /\ ~valueFails(mt)}
           kept == Kept(ms, good)
           out == compileMetrics(ms)
<1>1. \A mt : mt \in good <=> mt \in ToSet(ms) /\ Sound(mt)
    BY DEF Sound, forEachFails, valueFails
<1>2. /\ kept \in Seq(Metrics)
      /\ \A x : x \in ToSet(kept) <=> x \in ToSet(ms) /\ x \in good
      /\ \E pos : KeptAt(ms, kept, pos)
    <2> HIDE DEF good
    <2> QED
        BY KeptKeeps
<1>3. out = [i \in DOMAIN kept |-> compiled(kept[i])]
    BY DEF compileMetrics
<1> HIDE DEF good, kept, out
<1>4. DOMAIN kept = 1 .. Len(kept) /\ Len(kept) \in Nat
    BY <1>2, ToSetOfSeq
<1>5. out \in Seq(Metrics) /\ Len(out) = Len(kept)
    <2>1. ASSUME NEW i \in 1 .. Len(kept) PROVE compiled(kept[i]) \in Metrics
        BY <1>2, CompiledMetric
    <2> QED
        BY <1>3, <1>4, <2>1
<1>6. \A p \in 1 .. Len(out) : out[p] = compiled(kept[p]) /\ out[p].id = kept[p].id
    BY <1>2, <1>3, <1>4, <1>5, CompiledMetric
<1>7. ASSUME NEW x
      PROVE  x \in ToSet(out) <=> \E mt \in ToSet(ms) : Sound(mt) /\ x = compiled(mt)
    <2>1. /\ x \in ToSet(out) <=> \E p \in 1 .. Len(out) : out[p] = x
          /\ \A y : y \in ToSet(kept) <=> \E p \in 1 .. Len(kept) : kept[p] = y
        BY <1>2, <1>5, ToSetOfSeq
    <2>2. \A y : y \in ToSet(kept) <=> y \in ToSet(ms) /\ Sound(y)
        BY <1>1, <1>2
    <2> QED
        BY <1>5, <1>6, <2>1, <2>2
<1>8. PICK pos : KeptAt(ms, kept, pos)
    BY <1>2
<1>9. IdsFrom(ms, out, pos)
    BY <1>5, <1>6, <1>8 DEF KeptAt, IdsFrom
<1> QED
    BY <1>5, <1>7, <1>9 DEF out

\* Within a generator no two metrics have an id in common.
IdsDifferIn(gen) ==
    \A f, k \in DOMAIN gen.families :
        \A i \in DOMAIN gen.families[f].metrics, j \in DOMAIN gen.families[k].metrics :
            gen.families[f].metrics[i].id = gen.families[k].metrics[j].id => f = k /\ i = j

\* A generator that is not dropped keeps its resource and families, with the metrics that
\* compile, no two of which have an id in common.
LEMMA CompiledGenerator ==
    ASSUME NEW gen \in Generators, ~Husk(gen)
    PROVE  LET out == compileGenerator(gen)
           IN  /\ out \in Generators /\ out # None /\ out.resource = gen.resource
               /\ DOMAIN out.families = DOMAIN gen.families
               /\ \A f \in DOMAIN gen.families :
                     /\ out.families[f].name = gen.families[f].name
                     /\ out.families[f].metrics = compileMetrics(gen.families[f].metrics)
               /\ IdsDifferIn(gen) => IdsDifferIn(out)
<1> DEFINE out == compileGenerator(gen)
<1>1. /\ gen.families \in Seq(Families) /\ gen.resource \in Resource
      /\ DOMAIN gen.families = 1 .. Len(gen.families) /\ Len(gen.families) \in Nat
    BY DEF Generators
<1> DEFINE fams == [f \in DOMAIN gen.families |->
                       [gen.families[f] EXCEPT !.metrics = compileMetrics(@)]]
<1>2. out = [gen EXCEPT !.families = fams]
    BY DEF compileGenerator
<1>3. ASSUME NEW f \in DOMAIN gen.families
      PROVE  /\ fams[f] \in Families /\ gen.families[f].metrics \in Seq(Metrics)
             /\ fams[f].name = gen.families[f].name
             /\ fams[f].metrics = compileMetrics(gen.families[f].metrics)
    <2>1. gen.families[f] \in Families
        BY <1>1
    <2>2. gen.families[f].metrics \in Seq(Metrics)
        BY <2>1 DEF Families
    <2>3. compileMetrics(gen.families[f].metrics) \in Seq(Metrics)
        BY <2>2, CompiledMetrics
    <2> QED
        BY <2>1, <2>2, <2>3 DEF Families
<1>4. fams \in Seq(Families) /\ DOMAIN fams = DOMAIN gen.families
    <2>1. fams \in [1 .. Len(gen.families) -> Families] /\ DOMAIN fams = DOMAIN gen.families
        BY <1>1, <1>3
    <2> HIDE DEF fams
    <2> QED
        BY <1>1, <2>1
<1> HIDE DEF fams
<1>5. out \in Generators /\ out.resource = gen.resource /\ out.families = fams
    BY <1>1, <1>2, <1>4 DEF Generators
<1>6. out # None
    BY <1>5, PoliciesAssumption
<1>7. ASSUME IdsDifferIn(gen) PROVE IdsDifferIn(out)
    <2> HIDE DEF out
    <2>1. SUFFICES ASSUME NEW f \in DOMAIN gen.families, NEW k \in DOMAIN gen.families,
                          NEW i \in DOMAIN fams[f].metrics, NEW j \in DOMAIN fams[k].metrics,
                          fams[f].metrics[i].id = fams[k].metrics[j].id
                   PROVE  f = k /\ i = j
        BY <1>4, <1>5 DEF IdsDifferIn
    <2> DEFINE ms(h) == gen.families[h].metrics
    <2>2. /\ ms(f) \in Seq(Metrics) /\ ms(k) \in Seq(Metrics)
          /\ fams[f].metrics = compileMetrics(ms(f)) /\ fams[k].metrics = compileMetrics(ms(k))
        BY <1>3
    <2>3. /\ DOMAIN fams[f].metrics = 1 .. Len(compileMetrics(ms(f)))
          /\ DOMAIN fams[k].metrics = 1 .. Len(compileMetrics(ms(k)))
          /\ DOMAIN ms(f) = 1 .. Len(ms(f)) /\ DOMAIN ms(k) = 1 .. Len(ms(k))
        BY <2>2, CompiledMetrics, ToSetOfSeq
    <2>4. PICK pf : IdsFrom(ms(f), fams[f].metrics, pf)
        BY <2>2, CompiledMetrics
    <2>5. PICK pk : IdsFrom(ms(k), fams[k].metrics, pk)
        BY <2>2, CompiledMetrics
    <2>6. /\ pf[i] \in DOMAIN ms(f) /\ pk[j] \in DOMAIN ms(k)
          /\ ms(f)[pf[i]].id = ms(k)[pk[j]].id
        BY <2>1, <2>2, <2>3, <2>4, <2>5 DEF IdsFrom
    <2>7. f = k
        BY <1>7, <2>6 DEF IdsDifferIn
    <2>8. pf[j] \in DOMAIN ms(f) /\ ms(f)[pf[i]].id = ms(f)[pf[j]].id
        BY <2>1, <2>2, <2>3, <2>4, <2>7 DEF IdsFrom
    <2>9. pf[i] = pf[j]
        BY <1>7, <2>6, <2>8 DEF IdsDifferIn
    <2> QED
        BY <2>2, <2>3, <2>4, <2>7, <2>9 DEF IdsFrom
<1> HIDE DEF out
<1> QED
    BY <1>3, <1>4, <1>5, <1>6, <1>7 DEF out

-----------------------------------------------------------------------------
(* The tasks of a generator.                                               *)

AnyTask == [family : Name, metric : Metrics, obj : Object, item : Item \cup {None}]

\* The p-th task is for the metric col[p] of family row[p] on o; each metric has one.
TasksAt(gen, o, tasks, row, col) ==
    /\ \A p \in 1 .. Len(tasks) :
          /\ row[p] \in DOMAIN gen.families
          /\ col[p] \in DOMAIN gen.families[row[p]].metrics
          /\ tasks[p] = Task(gen.families[row[p]].name, gen.families[row[p]].metrics[col[p]],
                             o, None)
    /\ \A p, q \in 1 .. Len(tasks) : row[p] = row[q] /\ col[p] = col[q] => p = q
    /\ \A f \in DOMAIN gen.families : \A k \in DOMAIN gen.families[f].metrics :
          \E p \in 1 .. Len(tasks) : row[p] = f /\ col[p] = k

\* The tasks for an object: one for each metric of each family.
LEMMA TasksOnPlaces ==
    ASSUME NEW gen \in Generators, NEW o \in Object
    PROVE  /\ TasksOn(gen, o) \in Seq(AnyTask)
           /\ \E row, col : TasksAt(gen, o, TasksOn(gen, o), row, col)
<1> DEFINE fams == gen.families
           Of(fam) == [k \in DOMAIN fam.metrics |-> Task(fam.name, fam.metrics[k], o, None)]
           seqs == [f \in DOMAIN fams |-> Of(fams[f])]
           tasks == TasksOn(gen, o)
<1>1. /\ fams \in Seq(Families) /\ DOMAIN fams = 1 .. Len(fams) /\ Len(fams) \in Nat
    BY DEF Generators
<1>2. tasks = FlattenSeq(seqs)
    BY DEF TasksOn
<1> HIDE DEF fams, tasks
<1>3. ASSUME NEW fam \in Families
      PROVE  /\ Of(fam) \in Seq(AnyTask) /\ DOMAIN fam.metrics = 1 .. Len(Of(fam))
             /\ \A k \in DOMAIN fam.metrics :
                   Of(fam)[k] = Task(fam.name, fam.metrics[k], o, None)
    <2>1. /\ fam.name \in Name /\ fam.metrics \in Seq(Metrics)
          /\ DOMAIN fam.metrics = 1 .. Len(fam.metrics) /\ Len(fam.metrics) \in Nat
        BY DEF Families
    <2>2. \A k \in DOMAIN fam.metrics : Task(fam.name, fam.metrics[k], o, None) \in AnyTask
        BY <2>1 DEF Task, AnyTask
    <2> QED
        BY <2>1, <2>2
<1> HIDE DEF Of
<1>4. seqs \in Seq(Seq(AnyTask)) /\ Len(seqs) = Len(fams)
    <2>1. seqs \in [1 .. Len(fams) -> Seq(AnyTask)]
        BY <1>1, <1>3
    <2> HIDE DEF seqs
    <2> QED
        BY <1>1, <2>1
<1>5. \A f \in DOMAIN fams : seqs[f] = Of(fams[f])
    OBVIOUS
<1> HIDE DEF seqs
<1>6. tasks \in Seq(AnyTask)
    BY <1>2, <1>4, FlattenPlaces
<1>7. PICK row, col : Placed(seqs, Len(fams), tasks, row, col)
    BY <1>2, <1>4, FlattenPlaces
<1>8. ASSUME NEW f \in DOMAIN fams
      PROVE  /\ DOMAIN fams[f].metrics = 1 .. Len(seqs[f])
             /\ \A k \in DOMAIN fams[f].metrics :
                   seqs[f][k] = Task(fams[f].name, fams[f].metrics[k], o, None)
    BY <1>1, <1>3, <1>5
<1>9. ASSUME NEW p \in 1 .. Len(tasks)
      PROVE  /\ row[p] \in DOMAIN fams /\ col[p] \in DOMAIN fams[row[p]].metrics
             /\ tasks[p] = Task(fams[row[p]].name, fams[row[p]].metrics[col[p]], o, None)
    <2>1. /\ row[p] \in DOMAIN fams /\ col[p] \in 1 .. Len(seqs[row[p]])
          /\ tasks[p] = seqs[row[p]][col[p]]
        BY <1>1, <1>7 DEF Placed
    <2> QED
        BY <1>8, <2>1
<1>10. ASSUME NEW f \in DOMAIN fams, NEW k \in DOMAIN fams[f].metrics
       PROVE  \E p \in 1 .. Len(tasks) : row[p] = f /\ col[p] = k
    <2>1. f \in 1 .. Len(fams) /\ k \in 1 .. Len(seqs[f])
        BY <1>1, <1>8
    <2> QED
        BY <1>7, <2>1 DEF Placed
<1>11. \A p, q \in 1 .. Len(tasks) : row[p] = row[q] /\ col[p] = col[q] => p = q
    BY <1>7 DEF Placed
<1>12. TasksAt(gen, o, tasks, row, col)
    BY <1>9, <1>10, <1>11 DEF TasksAt, fams
<1> QED
    BY <1>6, <1>12 DEF tasks

\* Build has a task for each object and metric, no two of which are for the same.
LEMMA TasksGiven ==
    ASSUME NEW gen \in Generators, IdsDifferIn(gen), NEW objs \in Seq(Object),
           \A i, j \in 1 .. Len(objs) : objs[i] = objs[j] => i = j
    PROVE  /\ Tasks(gen, objs) \in Seq(AnyTask)
           /\ \A t : t \in ToSet(Tasks(gen, objs)) <=>
                 \E i \in 1 .. Len(objs), f \in DOMAIN gen.families :
                    \E k \in DOMAIN gen.families[f].metrics :
                       t = Task(gen.families[f].name, gen.families[f].metrics[k], objs[i], None)
           /\ \A p, q \in 1 .. Len(Tasks(gen, objs)) :
                 /\ Tasks(gen, objs)[p].metric.id = Tasks(gen, objs)[q].metric.id
                 /\ Tasks(gen, objs)[p].obj = Tasks(gen, objs)[q].obj
                 => p = q
<1> DEFINE seqs == [i \in DOMAIN objs |-> TasksOn(gen, objs[i])]
           tasks == Tasks(gen, objs)
           T(f, k, o) == Task(gen.families[f].name, gen.families[f].metrics[k], o, None)
<1>1. DOMAIN objs = 1 .. Len(objs) /\ Len(objs) \in Nat
    OBVIOUS
<1>2. tasks = FlattenSeq(seqs)
    BY DEF Tasks
<1>3. seqs \in Seq(Seq(AnyTask)) /\ Len(seqs) = Len(objs)
    <2>1. \A i \in 1 .. Len(objs) : TasksOn(gen, objs[i]) \in Seq(AnyTask)
        BY TasksOnPlaces
    <2>2. seqs \in [1 .. Len(objs) -> Seq(AnyTask)]
        BY <1>1, <2>1
    <2> HIDE DEF seqs
    <2> QED
        BY <1>1, <2>2
<1>4. \A i \in 1 .. Len(objs) : seqs[i] = TasksOn(gen, objs[i])
    BY <1>1
<1> HIDE DEF seqs, tasks
<1>5. tasks \in Seq(AnyTask)
    BY <1>2, <1>3, FlattenPlaces
<1>6. PICK row, col : Placed(seqs, Len(objs), tasks, row, col)
    BY <1>2, <1>3, FlattenPlaces
<1>7. ASSUME NEW p \in 1 .. Len(tasks)
      PROVE  /\ row[p] \in 1 .. Len(objs) /\ col[p] \in 1 .. Len(seqs[row[p]])
             /\ tasks[p] = seqs[row[p]][col[p]] /\ objs[row[p]] \in Object
    BY <1>6 DEF Placed
<1>8. ASSUME NEW i \in 1 .. Len(objs)
      PROVE  \E r, c : TasksAt(gen, objs[i], seqs[i], r, c)
    <2>1. objs[i] \in Object
        OBVIOUS
    <2> QED
        BY <1>4, <2>1, TasksOnPlaces
<1>9. ASSUME NEW p \in 1 .. Len(tasks)
      PROVE  \E f \in DOMAIN gen.families : \E k \in DOMAIN gen.families[f].metrics :
                tasks[p] = T(f, k, objs[row[p]])
    <2>1. PICK r, c : TasksAt(gen, objs[row[p]], seqs[row[p]], r, c)
        BY <1>7, <1>8
    <2> DEFINE i == row[p]
               n == col[p]
    <2>2. n \in 1 .. Len(seqs[i])
        BY <1>7
    <2> HIDE DEF i, n
    <2>3. /\ r[n] \in DOMAIN gen.families /\ c[n] \in DOMAIN gen.families[r[n]].metrics
          /\ seqs[i][n] = T(r[n], c[n], objs[i])
        BY <2>1, <2>2 DEF TasksAt, i
    <2>4. tasks[p] = seqs[i][n]
        BY <1>7 DEF i, n
    <2> HIDE DEF T
    <2> QED
        BY <2>3, <2>4 DEF i
<1>10. ASSUME NEW i \in 1 .. Len(objs), NEW f \in DOMAIN gen.families,
              NEW k \in DOMAIN gen.families[f].metrics
       PROVE  \E p \in 1 .. Len(tasks) : tasks[p] = T(f, k, objs[i])
    <2>1. PICK r, c : TasksAt(gen, objs[i], seqs[i], r, c)
        BY <1>8
    <2>2. PICK n \in 1 .. Len(seqs[i]) : r[n] = f /\ c[n] = k
        BY <2>1 DEF TasksAt
    <2>3. seqs[i][n] = T(f, k, objs[i])
        BY <2>1, <2>2 DEF TasksAt
    <2>4. PICK p \in 1 .. Len(tasks) : row[p] = i /\ col[p] = n
        BY <1>6 DEF Placed
    <2> QED
        BY <1>7, <2>3, <2>4
<1>11. ASSUME NEW t
       PROVE  t \in ToSet(tasks) <=>
                 \E i \in 1 .. Len(objs), f \in DOMAIN gen.families :
                    \E k \in DOMAIN gen.families[f].metrics : t = T(f, k, objs[i])
    <2>1. t \in ToSet(tasks) <=> \E p \in 1 .. Len(tasks) : tasks[p] = t
        BY <1>5, ToSetOfSeq
    <2> HIDE DEF T
    <2>2. ASSUME NEW p \in 1 .. Len(tasks), tasks[p] = t
          PROVE  \E i \in 1 .. Len(objs), f \in DOMAIN gen.families :
                    \E k \in DOMAIN gen.families[f].metrics : t = T(f, k, objs[i])
        BY <1>7, <1>9, <2>2
    <2>3. ASSUME NEW i \in 1 .. Len(objs), NEW f \in DOMAIN gen.families,
                 NEW k \in DOMAIN gen.families[f].metrics, t = T(f, k, objs[i])
          PROVE  \E p \in 1 .. Len(tasks) : tasks[p] = t
        BY <1>10, <2>3
    <2> QED
        BY <2>1, <2>2, <2>3
<1>12. ASSUME NEW p \in 1 .. Len(tasks), NEW q \in 1 .. Len(tasks),
              tasks[p].metric.id = tasks[q].metric.id, tasks[p].obj = tasks[q].obj
       PROVE  p = q
    <2>1. ASSUME NEW n \in 1 .. Len(tasks) PROVE tasks[n].obj = objs[row[n]]
        <3>1. PICK f \in DOMAIN gen.families :
                \E k \in DOMAIN gen.families[f].metrics : tasks[n] = T(f, k, objs[row[n]])
            BY <1>9
        <3>2. PICK k \in DOMAIN gen.families[f].metrics : tasks[n] = T(f, k, objs[row[n]])
            BY <3>1
        <3> QED
            BY <3>2 DEF Task
    <2>2. row[p] = row[q]
        BY <1>7, <1>12, <2>1
    <2> DEFINE i == row[p]
    <2>3. i \in 1 .. Len(objs)
        BY <1>7
    <2> HIDE DEF i
    <2>4. PICK r, c : TasksAt(gen, objs[i], seqs[i], r, c)
        BY <1>8, <2>3
    <2>5. /\ col[p] \in 1 .. Len(seqs[i]) /\ tasks[p] = seqs[i][col[p]]
          /\ col[q] \in 1 .. Len(seqs[i]) /\ tasks[q] = seqs[i][col[q]]
        BY <1>7, <2>2 DEF i
    <2> DEFINE fp == r[col[p]]
               kp == c[col[p]]
               fq == r[col[q]]
               kq == c[col[q]]
    <2>6. /\ fp \in DOMAIN gen.families /\ kp \in DOMAIN gen.families[fp].metrics
          /\ tasks[p] = T(fp, kp, objs[i])
          /\ fq \in DOMAIN gen.families /\ kq \in DOMAIN gen.families[fq].metrics
          /\ tasks[q] = T(fq, kq, objs[i])
        BY <2>4, <2>5 DEF TasksAt
    <2>7. gen.families[fp].metrics[kp].id = gen.families[fq].metrics[kq].id
        BY <1>12, <2>6 DEF Task
    <2>8. fp = fq /\ kp = kq
        BY <2>6, <2>7 DEF IdsDifferIn
    <2>9. col[p] = col[q]
        BY <2>4, <2>5, <2>8 DEF TasksAt
    <2> QED
        BY <1>6, <2>2, <2>9 DEF Placed
<1> QED
    BY <1>5, <1>11, <1>12 DEF tasks

-----------------------------------------------------------------------------
(* The invariant.                                                          *)

Held == Stores \cup {{}}

IdsDifferAmong(snap) ==
    \A g \in DOMAIN snap, h \in DOMAIN snap :
        \A f \in DOMAIN snap[g].families, k \in DOMAIN snap[h].families :
            \A i \in DOMAIN snap[g].families[f].metrics,
               j \in DOMAIN snap[h].families[k].metrics :
                snap[g].families[f].metrics[i].id = snap[h].families[k].metrics[j].id
                    => g = h /\ f = k /\ i = j

\* What the callback works on: the registry as it found it.
Registry ==
    /\ snapshot \in Seq(Generators) /\ IdsDifferAmong(snapshot)
    /\ gens = [g \in DOMAIN snapshot |-> compileGenerator(snapshot[g])]

\* Nothing was collected of the control planes it has yet to look at.
Collecting ==
    /\ seen \in [Cluster -> [Resource -> Held]]
    /\ \A c \in clusters : seen[c] = [r \in Resource |-> {}]
    /\ pc \in {"collect", "generator", "build"} => at \notin clusters

\* Tasks are there during a build only. The labels that were evaluated did not fail.
Working ==
    /\ work \in Seq(AnyTask)
    /\ pc \in {"cluster", "collect", "generator"} => work = <<>>
    /\ pc = "build" => next <= Len(gens)
    /\ labels # 0 =>
          /\ ~IsForEach
          /\ \A i \in 1 .. labels : <<First.metric.labels[i], First.obj, First.item>> \notin faulty

Signalling == (pc # "idle" => signals = 0) /\ SignalsExhaustion

TInv == TypeOK /\ Registry /\ Collecting /\ Working /\ Signalling

\* The series a task gives: its own, if its labels and value do not fail, or those
\* of the items that its forEach yields.
Fine(faults, t) ==
    \A e \in ToSet(t.metric.labels) \cup ({t.metric.value} \ {None}) :
        <<e, t.obj, t.item>> \notin faults
Made(faults, c, f, t) == IF t.family = f /\ Fine(faults, t) THEN {Series(c, t)} ELSE {}
Opens(t) == t.metric.forEach # None /\ t.item = None
WithItem(t, i) == [t EXCEPT !.item = i]
ItemTasks(t) == {WithItem(t, i) : i \in ToSet(ItemsOf[t.obj])}
Promise(faults, c, f, t) ==
    IF ~Opens(t) THEN Made(faults, c, f, t)
    ELSE IF <<t.metric.forEach, t.obj, None>> \in faults THEN {}
    ELSE UNION {Made(faults, c, f, x) : x \in ItemTasks(t)}

\* The series that a generator asks for on a control plane, given what was seen.
Slice(faults, c, f, gen, held) ==
    UNION {UNION {UNION {Promise(faults, c, f, Task(f, compiled(mt), o, None)) :
        o \in held[gen.resource]} :
        mt \in {n \in ToSet(gen.families[k].metrics) : Sound(n)}} :
        k \in {h \in DOMAIN gen.families : gen.families[h].name = f /\ ~Husk(gen)}}

\* A generator is reached on a control plane when it is built, or was passed.
Reached(left, p, a, n, c, g) ==
    /\ c \notin left
    /\ c = a => p \in {"idle", "cluster"} \/ (p \in {"generator", "build"} /\ g < n)
                  \/ (p = "build" /\ g = n)

Asks == [c \in Cluster |->
            [g \in DOMAIN snapshot |-> Slice(faulty, c, family, snapshot[g], seen[c])]]
Promises == [i \in DOMAIN work |-> Promise(faulty, at, family, work[i])]

\* What was observed, or may yet be, is asked for.
OnlyAsked ==
    /\ \A x \in ToSet(observed) : \E c \in Cluster, g \in DOMAIN snapshot :
          Reached(clusters, pc, at, next, c, g) /\ x \in Asks[c][g]
    /\ pc = "build" => \A i \in DOMAIN work : Promises[i] \subseteq Asks[at][next]

\* What is asked for was observed, or is promised.
AllPromised ==
    signals = 0 => \A c \in Cluster, g \in DOMAIN snapshot :
        Reached(clusters, pc, at, next, c, g) => \A x \in Asks[c][g] :
            \/ x \in ToSet(observed)
            \/ pc = "build" /\ \E i \in DOMAIN work : x \in Promises[i]

AnySeries == [cluster : Cluster, family : Name, metric : Nat, obj : Object,
              item : Item \cup {None}, value : Expr \cup {None}, labels : SUBSET Expr]

\* Nothing was observed twice, or will be.
Once ==
    /\ observed \in Seq(AnySeries) /\ IsInjective(observed)
    /\ pc = "build" => \A i \in DOMAIN work :
          /\ \A x \in Promises[i] : x \notin ToSet(observed)
          /\ \A j \in DOMAIN work : i # j => Promises[i] \cap Promises[j] = {}

Account == OnlyAsked /\ AllPromised /\ Once

\* A callback that came to its end has looked at every control plane.
Looked == pc = "idle" /\ signals = 0 => clusters = {}

IInv == TInv /\ Account /\ Looked

\* What Begin finds in the registry, in whatever order, has the shape that the proofs use.
LEMMA Registered ==
    ASSUME NEW policies \in Policies, NEW order \in SetToSeqs(policies)
    PROVE  FlattenSeq(order) \in Seq(Generators) /\ IdsDifferAmong(FlattenSeq(order))
<1> DEFINE snap == FlattenSeq(order)
<1>1. /\ IsFiniteSet(policies) /\ \A p \in policies : p \in Seq(Generators)
      /\ IdsDiffer(policies)
    BY PoliciesAssumption
<1>2. /\ order \in Seq(policies)
      /\ \A i, j \in 1 .. Len(order) : order[i] = order[j] => i = j
    BY <1>1, Orders
<1>3. order \in Seq(Seq(Generators))
    BY <1>1, <1>2
<1>4. snap \in Seq(Generators)
    BY <1>3, FlattenPlaces
<1>5. PICK row, col : Placed(order, Len(order), snap, row, col)
    BY <1>3, FlattenPlaces
<1> HIDE DEF snap
<1>6. ASSUME NEW g \in DOMAIN snap
      PROVE  /\ g \in 1 .. Len(snap) /\ row[g] \in 1 .. Len(order)
             /\ order[row[g]] \in policies /\ col[g] \in DOMAIN order[row[g]]
             /\ snap[g] = order[row[g]][col[g]]
    <2>1. g \in 1 .. Len(snap)
        BY <1>4
    <2>2. /\ row[g] \in 1 .. Len(order) /\ col[g] \in 1 .. Len(order[row[g]])
          /\ snap[g] = order[row[g]][col[g]]
        BY <1>5, <2>1 DEF Placed
    <2>3. order[row[g]] \in policies /\ order[row[g]] \in Seq(Generators)
        BY <1>2, <1>3, <2>2
    <2> QED
        BY <2>1, <2>2, <2>3
<1>7. IdsDifferAmong(snap)
    <2>1. SUFFICES
            ASSUME NEW g \in DOMAIN snap, NEW h \in DOMAIN snap,
                   NEW f \in DOMAIN snap[g].families, NEW k \in DOMAIN snap[h].families,
                   NEW i \in DOMAIN snap[g].families[f].metrics,
                   NEW j \in DOMAIN snap[h].families[k].metrics,
                   snap[g].families[f].metrics[i].id = snap[h].families[k].metrics[j].id
            PROVE  g = h /\ f = k /\ i = j
        BY DEF IdsDifferAmong
    <2> DEFINE p == order[row[g]]
               q == order[row[h]]
    <2>2. /\ p \in policies /\ col[g] \in DOMAIN p /\ snap[g] = p[col[g]]
          /\ q \in policies /\ col[h] \in DOMAIN q /\ snap[h] = q[col[h]]
        BY <1>6
    <2> HIDE DEF p, q
    <2>3. p = q /\ col[g] = col[h] /\ f = k /\ i = j
        BY <1>1, <2>1, <2>2 DEF IdsDiffer
    <2>4. row[g] = row[h]
        BY <1>2, <1>6, <2>3 DEF p, q
    <2> QED
        BY <1>5, <1>6, <2>3, <2>4 DEF Placed
<1> QED
    BY <1>4, <1>7 DEF snap

\* A generator of the snapshot and its compiled form, place by place.
LEMMA GeneratorAt ==
    ASSUME Registry
    PROVE  /\ DOMAIN snapshot = 1 .. Len(snapshot) /\ Len(snapshot) \in Nat
           /\ Len(gens) = Len(snapshot)
           /\ \A g \in DOMAIN snapshot :
                 /\ snapshot[g] \in Generators /\ IdsDifferIn(snapshot[g])
                 /\ gens[g] = compileGenerator(snapshot[g])
                 /\ Husk(snapshot[g]) <=> gens[g] = None
<1>1. DOMAIN snapshot = 1 .. Len(snapshot) /\ Len(snapshot) \in Nat
    BY DEF Registry
<1>2. Len(gens) = Len(snapshot)
    BY <1>1 DEF Registry
<1>3. ASSUME NEW g \in DOMAIN snapshot
      PROVE  /\ snapshot[g] \in Generators /\ IdsDifferIn(snapshot[g])
             /\ gens[g] = compileGenerator(snapshot[g])
             /\ Husk(snapshot[g]) <=> gens[g] = None
    <2>1. snapshot[g] \in Generators /\ gens[g] = compileGenerator(snapshot[g])
        BY DEF Registry
    <2>2. IdsDifferIn(snapshot[g])
        BY DEF Registry, IdsDifferAmong, IdsDifferIn
    <2>3. CASE Husk(snapshot[g])
        BY <2>1, <2>2, <2>3 DEF compileGenerator
    <2>4. CASE ~Husk(snapshot[g])
        BY <2>1, <2>2, <2>4, CompiledGenerator
    <2> QED
        BY <2>3, <2>4
<1> QED
    BY <1>1, <1>2, <1>3

-----------------------------------------------------------------------------
(* Types, and when the budget is signalled.                                *)

LEMMA InitTypes == Init => TInv
<1> SUFFICES ASSUME Init PROVE TInv
    OBVIOUS
<1> USE DEF Init
<1>1. TypeOK
    <2>1. Absent \in Entries
        BY DEF Absent, Entries
    <2>2. entry \in [Cluster -> [Resource -> Entries]]
        BY <2>1
    <2>3. evals \in 0 .. MaxEvals
        BY BudgetAssumption
    <2> QED
        BY <2>2, <2>3 DEF TypeOK
<1>2. Registry
    BY DEF Registry, IdsDifferAmong
<1>3. Collecting
    BY DEF Collecting, Nothing, Held
<1>4. Working
    BY DEF Working
<1>5. Signalling
    BY DEF Signalling, SignalsExhaustion
<1> QED
    BY <1>1, <1>2, <1>3, <1>4, <1>5 DEF TInv

\* A collector's map changes.
LEMMA SetEntryTypes ==
    ASSUME TInv, NEW c \in Cluster, NEW r \in Resource, NEW e \in Entries, SetEntry(c, r, e)
    PROVE  TInv'
<1> USE DEF SetEntry, callVars, buildVars
<1>1. entry' \in [Cluster -> [Resource -> Entries]]
    BY DEF TInv, TypeOK
<1>2. TypeOK'
    BY <1>1 DEF TInv, TypeOK, First
<1>3. Registry' /\ Collecting'
    BY DEF TInv, Registry, Collecting
<1>4. Working'
    BY DEF TInv, Working, IsForEach, First
<1>5. Signalling'
    BY DEF TInv, Signalling, SignalsExhaustion
<1> QED
    BY <1>2, <1>3, <1>4, <1>5 DEF TInv

\* The steps of others.
LEMMA WorldTypes ==
    ASSUME TInv, World \/ \E c \in Cluster : ObserveProjectUp(c)
    PROVE  TInv'
<1>1. ASSUME NEW c \in Cluster, Outage(c) \/ ObserveProjectUp(c) PROVE TInv'
    <2> USE DEF Outage, ObserveProjectUp, worldVars, callVars, buildVars
    <2>1. /\ UNCHANGED <<entry, faulty, pc, family, snapshot, gens, clusters, at, next, work,
                         labels, evals, late, observed, signals, seen>>
          /\ reachable' \subseteq Cluster /\ up' \subseteq Cluster
        BY <1>1 DEF TInv, TypeOK
    <2>2. TypeOK'
        BY <2>1 DEF TInv, TypeOK, First
    <2>3. Registry' /\ Collecting'
        BY <2>1 DEF TInv, Registry, Collecting
    <2>4. Working'
        BY <2>1 DEF TInv, Working, IsForEach, First
    <2>5. Signalling'
        BY <2>1 DEF TInv, Signalling, SignalsExhaustion
    <2> QED
        BY <2>2, <2>3, <2>4, <2>5 DEF TInv
<1>2. ASSUME NEW c \in Cluster, NEW r \in Resource,
             Deny(c, r) \/ Drop(c, r) \/ \E objs \in Stores : Fill(c, r, objs)
      PROVE  TInv'
    <2>1. PICK e \in Entries : SetEntry(c, r, e)
        BY <1>2 DEF Deny, Drop, Fill, Entries, Absent
    <2> QED
        BY <2>1, SetEntryTypes
<1>3. ASSUME DeadlinePasses PROVE TInv'
    <2> USE DEF DeadlinePasses, worldVars, callVars, buildVars
    <2>1. TypeOK'
        BY <1>3 DEF TInv, TypeOK, First
    <2>2. Registry' /\ Collecting'
        BY <1>3 DEF TInv, Registry, Collecting
    <2>3. Working'
        BY <1>3 DEF TInv, Working, IsForEach, First
    <2>4. Signalling'
        BY <1>3 DEF TInv, TypeOK, Signalling, SignalsExhaustion
    <2> QED
        BY <2>1, <2>2, <2>3, <2>4 DEF TInv
<1> QED
    BY <1>1, <1>2, <1>3 DEF World

\* A callback begins.
LEMMA BeginTypes ==
    ASSUME TInv, NEW f \in Family, NEW policies \in Policies, Begin(f, policies)
    PROVE  TInv'
<1> USE DEF Begin, worldVars
<1>1. PICK order \in SetToSeqs(policies) : snapshot' = FlattenSeq(order)
    OBVIOUS
<1>2. Registry'
    BY <1>1, Registered DEF Registry
<1>3. TypeOK'
    <2>1. 0 \in 0 .. MaxEvals
        BY BudgetAssumption
    <2> QED
        BY <2>1 DEF TInv, TypeOK
<1>4. Collecting'
    BY DEF Collecting, Nothing, Held
<1>5. Working'
    BY DEF Working
<1>6. Signalling'
    BY DEF Signalling, SignalsExhaustion
<1> QED
    BY <1>2, <1>3, <1>4, <1>5, <1>6 DEF TInv

\* The generator that is about to be built.
LEMMA RelevantGenerator ==
    ASSUME TInv, pc = "generator", next <= Len(gens), Relevant(gens[next])
    PROVE  /\ next \in DOMAIN snapshot /\ ~Husk(snapshot[next])
           /\ gens[next] = compileGenerator(snapshot[next]) /\ gens[next] \in Generators
           /\ IdsDifferIn(gens[next])
           /\ \A objs \in SetToSeqs(seen[at][gens[next].resource]) :
                 /\ objs \in Seq(Object)
                 /\ \A i, j \in 1 .. Len(objs) : objs[i] = objs[j] => i = j
                 /\ \A o \in seen[at][gens[next].resource] :
                       \E i \in 1 .. Len(objs) : objs[i] = o
                 /\ \A i \in 1 .. Len(objs) : objs[i] \in seen[at][gens[next].resource]
<1>1. /\ Registry /\ next \in 1 .. Len(gens) /\ at \in Cluster
      /\ seen \in [Cluster -> [Resource -> Held]] /\ gens[next] # None
    BY DEF TInv, TypeOK, Collecting, Relevant
<1>2. next \in DOMAIN snapshot /\ ~Husk(snapshot[next])
    BY <1>1, GeneratorAt
<1>3. /\ gens[next] = compileGenerator(snapshot[next]) /\ snapshot[next] \in Generators
      /\ IdsDifferIn(snapshot[next])
    BY <1>1, <1>2, GeneratorAt
<1>4. gens[next] \in Generators /\ IdsDifferIn(gens[next])
    BY <1>2, <1>3, CompiledGenerator
<1> DEFINE held == seen[at][gens[next].resource]
<1>5. held \subseteq Object /\ IsFiniteSet(held)
    <2>1. gens[next].resource \in Resource
        BY <1>4 DEF Generators
    <2>2. held \in Held
        BY <1>1, <2>1
    <2> HIDE DEF held
    <2>3. CASE held = {}
        BY <2>3, FS_EmptySet
    <2>4. CASE held \in Stores
        BY <2>4, StoresAssumption
    <2> QED
        BY <2>2, <2>3, <2>4 DEF Held
<1> HIDE DEF held
<1>6. ASSUME NEW objs \in SetToSeqs(held)
      PROVE  /\ objs \in Seq(held)
             /\ \A i, j \in 1 .. Len(objs) : objs[i] = objs[j] => i = j
             /\ \A o \in held : \E i \in 1 .. Len(objs) : objs[i] = o
    BY <1>5, Orders
<1>7. ASSUME NEW objs \in SetToSeqs(held)
      PROVE  objs \in Seq(Object) /\ \A i \in 1 .. Len(objs) : objs[i] \in held
    BY <1>5, <1>6
<1> QED
    BY <1>2, <1>3, <1>4, <1>6, <1>7 DEF held

\* The callback moves on between its loops.
LEMMA LoopTypes ==
    ASSUME TInv,
           \/ \E c \in Cluster : SuppressCluster(c) \/ LookAtCluster(c)
           \/ Collect \/ SkipGenerator \/ BuildGenerator \/ EndBuild \/ EndCluster \/ Return
    PROVE  TInv'
<1> USE DEF worldVars, callVars, buildVars
<1>1. ASSUME NEW c \in Cluster, SuppressCluster(c) PROVE TInv'
    <2> USE DEF SuppressCluster
    <2>1. TypeOK'
        BY <1>1 DEF TInv, TypeOK, First
    <2>2. Registry' /\ Collecting'
        BY <1>1 DEF TInv, Registry, Collecting
    <2>3. Working'
        BY <1>1 DEF TInv, Working, IsForEach, First
    <2>4. Signalling'
        BY <1>1 DEF TInv, Signalling, SignalsExhaustion
    <2> QED
        BY <2>1, <2>2, <2>3, <2>4 DEF TInv
<1>2. ASSUME NEW c \in Cluster, LookAtCluster(c) PROVE TInv'
    <2> USE DEF LookAtCluster
    <2>1. TypeOK'
        BY <1>2 DEF TInv, TypeOK, First
    <2>2. Registry' /\ Collecting'
        BY <1>2 DEF TInv, Registry, Collecting
    <2>3. Working'
        BY <1>2 DEF TInv, Working, IsForEach, First
    <2>4. Signalling'
        BY <1>2 DEF TInv, Signalling, SignalsExhaustion
    <2> QED
        BY <2>1, <2>2, <2>3, <2>4 DEF TInv
<1>3. ASSUME Collect PROVE TInv'
    <2> USE DEF Collect
    <2>1. TypeOK'
        <3>1. Len(gens) \in Nat
            BY GeneratorAt DEF TInv
        <3>2. next' \in 1 .. Len(gens') + 1
            BY <1>3, <3>1
        <3> QED
            BY <1>3, <3>2 DEF TInv, TypeOK, First
    <2>2. Collected(at) \in [Resource -> Held]
        <3>1. \A r \in Resource : entry[at][r] \in Entries
            BY DEF TInv, TypeOK
        <3>2. \A e \in Entries : e.objs \in Held
            BY DEF Entries, Held
        <3> QED
            BY <3>1, <3>2 DEF Collected
    <2>3. Registry' /\ Collecting'
        BY <1>3, <2>2 DEF TInv, TypeOK, Registry, Collecting
    <2>4. Working'
        BY <1>3 DEF TInv, Working, IsForEach, First
    <2>5. Signalling'
        BY <1>3 DEF TInv, Signalling, SignalsExhaustion
    <2> QED
        BY <2>1, <2>3, <2>4, <2>5 DEF TInv
<1>4. ASSUME SkipGenerator \/ EndBuild PROVE TInv'
    <2> USE DEF SkipGenerator, EndBuild
    <2>1. next' \in 1 .. Len(gens') + 1
        <3>1. Len(gens) \in Nat
            BY GeneratorAt DEF TInv
        <3>2. next \in 1 .. Len(gens)
            BY <1>4, <3>1 DEF TInv, TypeOK, Working
        <3> QED
            BY <1>4, <3>1, <3>2
    <2>2. TypeOK'
        BY <1>4, <2>1 DEF TInv, TypeOK, First
    <2>3. Registry' /\ Collecting'
        BY <1>4 DEF TInv, Registry, Collecting
    <2>4. Working'
        BY <1>4 DEF TInv, Working, IsForEach, First
    <2>5. Signalling'
        BY <1>4 DEF TInv, Signalling, SignalsExhaustion
    <2> QED
        BY <2>2, <2>3, <2>4, <2>5 DEF TInv
<1>5. ASSUME BuildGenerator PROVE TInv'
    <2> USE DEF BuildGenerator
    <2>1. PICK objs \in SetToSeqs(seen[at][gens[next].resource]) :
             work' = Tasks(gens[next], objs)
        BY <1>5
    <2>2. work' \in Seq(AnyTask)
        BY <1>5, <2>1, RelevantGenerator, TasksGiven
    <2>3. labels = 0
        BY <1>5 DEF TInv, TypeOK, Working
    <2>4. TypeOK'
        BY <1>5, <2>3 DEF TInv, TypeOK
    <2>5. Registry' /\ Collecting'
        BY <1>5 DEF TInv, Registry, Collecting
    <2>6. Working'
        BY <1>5, <2>2, <2>3 DEF TInv, Working
    <2>7. Signalling'
        BY <1>5 DEF TInv, Signalling, SignalsExhaustion
    <2> QED
        BY <2>4, <2>5, <2>6, <2>7 DEF TInv
<1>6. ASSUME EndCluster \/ Return PROVE TInv'
    <2> USE DEF EndCluster, Return
    <2>1. TypeOK'
        BY <1>6 DEF TInv, TypeOK, First
    <2>2. Registry' /\ Collecting'
        BY <1>6 DEF TInv, Registry, Collecting
    <2>3. Working'
        BY <1>6 DEF TInv, Working, IsForEach, First
    <2>4. Signalling'
        BY <1>6 DEF TInv, Signalling, SignalsExhaustion
    <2> QED
        BY <2>1, <2>2, <2>3, <2>4 DEF TInv
<1> QED
    BY <1>1, <1>2, <1>3, <1>4, <1>5, <1>6

\* The task at hand.
LEMMA FirstTask ==
    ASSUME TInv, Building
    PROVE  /\ First \in AnyTask /\ Len(work) \in Nat /\ Len(work) > 0
           /\ Tail(work) \in Seq(AnyTask) /\ Len(Tail(work)) = Len(work) - 1
           /\ \A i \in 1 .. Len(work) - 1 : Tail(work)[i] = work[i + 1]
           /\ First.metric \in Metrics /\ First.metric.labels \in Seq(Expr)
           /\ First.obj \in Object /\ First.family \in Name /\ First.item \in Item \cup {None}
           /\ Len(First.metric.labels) \in Nat /\ labels \in Nat
           /\ labels <= Len(First.metric.labels)
<1>1. work \in Seq(AnyTask) /\ work # <<>> /\ pc = "build"
    BY DEF TInv, Working, Building
<1>2. /\ First \in AnyTask /\ Len(work) \in Nat /\ Len(work) > 0
      /\ Tail(work) \in Seq(AnyTask) /\ Len(Tail(work)) = Len(work) - 1
      /\ \A i \in 1 .. Len(work) - 1 : Tail(work)[i] = work[i + 1]
    <2>1. Len(work) \in Nat /\ Len(work) > 0 /\ 1 \in 1 .. Len(work)
        BY <1>1, EmptySeq
    <2> QED
        BY <1>1, <2>1 DEF First
<1>3. /\ First.metric \in Metrics /\ First.obj \in Object /\ First.family \in Name
      /\ First.item \in Item \cup {None}
    BY <1>2 DEF AnyTask
<1>4. First.metric.labels \in Seq(Expr)
    BY <1>3 DEF Metrics
<1>5. Len(First.metric.labels) \in Nat
    BY <1>4
<1>6. labels \in Nat /\ labels <= Len(First.metric.labels)
    BY <1>5 DEF TInv, TypeOK
<1> QED
    BY <1>2, <1>3, <1>4, <1>5, <1>6

\* A step that ends the work on the task at hand.
LEMMA TailTypes ==
    ASSUME TInv, Building, UNCHANGED <<stepVars, pc, signals>>, work' = Tail(work), labels' = 0,
           evals' \in 0 .. MaxEvals
    PROVE  TInv'
<1> USE DEF stepVars, worldVars, callVars
<1>1. Tail(work) \in Seq(AnyTask)
    BY FirstTask
<1>2. TypeOK'
    BY DEF TInv, TypeOK
<1>3. Registry' /\ Collecting'
    BY DEF TInv, Registry, Collecting
<1>4. Working'
    BY <1>1 DEF TInv, Working, Building
<1>5. Signalling'
    BY DEF TInv, Signalling, SignalsExhaustion, Building
<1> QED
    BY <1>2, <1>3, <1>4, <1>5 DEF TInv

\* What forEach yields takes the place of its task.
LEMMA ItemsGiven ==
    ASSUME TInv, Building, IsForEach, NEW items, items = ItemsOf[First.obj], NEW tasks,
           tasks = [i \in DOMAIN items |-> [First EXCEPT !.item = items[i]]]
    PROVE  /\ tasks \in Seq(AnyTask) /\ Len(tasks) = Len(items) /\ Len(tasks) \in Nat
           /\ items \in Seq(Item) /\ IsInjective(items) /\ DOMAIN items = 1 .. Len(items)
           /\ \A i \in 1 .. Len(items) : /\ tasks[i] = [First EXCEPT !.item = items[i]]
                                         /\ tasks[i] \in AnyTask /\ items[i] \in Item
<1>1. First \in AnyTask /\ First.obj \in Object
    BY FirstTask
<1>2. items \in Seq(Item) /\ IsInjective(items)
    BY <1>1, ItemsAssumption
<1>3. DOMAIN items = 1 .. Len(items) /\ Len(items) \in Nat
    BY <1>2
<1>4. \A i \in 1 .. Len(items) : /\ tasks[i] = [First EXCEPT !.item = items[i]]
                                 /\ tasks[i] \in AnyTask /\ items[i] \in Item
    BY <1>1, <1>2, <1>3 DEF AnyTask
<1>5. tasks \in [1 .. Len(items) -> AnyTask]
    BY <1>3, <1>4
<1>6. tasks \in Seq(AnyTask) /\ Len(tasks) = Len(items)
    BY <1>3, <1>5
<1> QED
    BY <1>2, <1>3, <1>4, <1>6

\* Consume never overdraws the budget.
LEMMA ConsumeTypes == TInv /\ Consume => evals' \in 0 .. MaxEvals
<1>1. TInv => evals \in 0 .. MaxEvals
    BY DEF TInv, TypeOK
<1> QED
    BY <1>1, BudgetAssumption DEF Consume

\* The steps of Build.
LEMMA BuildTypes ==
    ASSUME TInv, EvalForEach \/ EvalLabel \/ EvalValue \/ EmitOne \/ Fail \/ Starve
    PROVE  TInv'
<1>1. ASSUME EvalForEach PROVE TInv'
    <2> USE DEF EvalForEach, stepVars, worldVars, callVars
    <2>1. Building /\ IsForEach /\ evals' \in 0 .. MaxEvals
        BY <1>1, ConsumeTypes
    <2> DEFINE items == ItemsOf[First.obj]
               tasks == [i \in DOMAIN items |-> [First EXCEPT !.item = items[i]]]
    <2>2. work' = tasks \o Tail(work)
        BY <1>1
    <2>3. tasks \in Seq(AnyTask)
        BY <2>1, ItemsGiven
    <2> HIDE DEF tasks
    <2>4. work' \in Seq(AnyTask)
        BY <2>1, <2>2, <2>3, FirstTask, ConcatProperties
    <2>5. labels = 0
        BY <2>1 DEF TInv, Working
    <2>6. TypeOK'
        BY <1>1, <2>1, <2>5 DEF TInv, TypeOK
    <2>7. Registry' /\ Collecting'
        BY <1>1 DEF TInv, Registry, Collecting
    <2>8. Working'
        BY <1>1, <2>4, <2>5 DEF TInv, Working, Building
    <2>9. Signalling'
        BY <1>1 DEF TInv, Signalling, SignalsExhaustion, Building
    <2> QED
        BY <2>6, <2>7, <2>8, <2>9 DEF TInv
<1>2. ASSUME EvalLabel PROVE TInv'
    <2> USE DEF EvalLabel, stepVars, worldVars, callVars
    <2>1. Building /\ ~IsForEach /\ evals' \in 0 .. MaxEvals /\ work # <<>>
        BY <1>2, ConsumeTypes DEF Building
    <2>2. labels \in Nat /\ labels' = labels + 1 /\ labels' <= Len(First.metric.labels)
        BY <1>2, <2>1, FirstTask
    <2>3. First' = First
        BY <1>2 DEF First
    <2>4. TypeOK'
        BY <1>2, <2>1, <2>2, <2>3 DEF TInv, TypeOK
    <2>5. Registry' /\ Collecting'
        BY <1>2 DEF TInv, Registry, Collecting
    <2>6. \A i \in 1 .. labels' : <<First.metric.labels[i], First.obj, First.item>> \notin faulty
        <3>1. \A i \in 1 .. labels : <<First.metric.labels[i], First.obj, First.item>> \notin faulty
            BY <2>2 DEF TInv, Working
        <3>2. <<First.metric.labels[labels + 1], First.obj, First.item>> \notin faulty
            BY <1>2, <2>1 DEF Fails, Wanted
        <3> QED
            BY <2>2, <3>1, <3>2
    <2>7. Working'
        BY <1>2, <2>1, <2>3, <2>6 DEF TInv, Working, IsForEach, Building
    <2>8. Signalling'
        BY <1>2 DEF TInv, Signalling, SignalsExhaustion, Building
    <2> QED
        BY <2>4, <2>5, <2>7, <2>8 DEF TInv
<1>3. ASSUME EvalValue \/ EmitOne \/ Fail PROVE TInv'
    <2>1. /\ Building /\ UNCHANGED <<stepVars, pc, signals>>
          /\ work' = Tail(work) /\ labels' = 0
        BY <1>3 DEF EvalValue, EmitOne, Fail, LabelsDone, Emit
    <2>2. evals' \in 0 .. MaxEvals
        <3>1. evals' = evals \/ Consume
            BY <1>3 DEF EvalValue, EmitOne, Fail
        <3> QED
            BY <3>1, ConsumeTypes DEF TInv, TypeOK
    <2> QED
        BY <2>1, <2>2, TailTypes
<1>4. ASSUME Starve PROVE TInv'
    <2> USE DEF Starve, stepVars, worldVars, callVars
    <2>1. signals = 0 /\ signals' = 1 /\ pc' = "idle"
        BY <1>4 DEF TInv, Signalling, Building
    <2>2. TypeOK'
        BY <1>4, <2>1 DEF TInv, TypeOK, First
    <2>3. Registry' /\ Collecting'
        BY <1>4 DEF TInv, Registry, Collecting
    <2>4. Working'
        BY <1>4 DEF TInv, Working, IsForEach, First
    <2>5. Signalling'
        BY <1>4, <2>1 DEF Signalling, SignalsExhaustion
    <2> QED
        BY <2>2, <2>3, <2>4, <2>5 DEF TInv
<1> QED
    BY <1>1, <1>2, <1>3, <1>4

LEMMA StutterTypes == TInv /\ UNCHANGED vars => TInv'
<1> SUFFICES ASSUME TInv, UNCHANGED vars PROVE TInv'
    OBVIOUS
<1> USE DEF vars, worldVars, callVars, buildVars
<1>1. TypeOK'
    BY DEF TInv, TypeOK, First
<1>2. Registry' /\ Collecting'
    BY DEF TInv, Registry, Collecting
<1>3. Working'
    BY DEF TInv, Working, IsForEach, First
<1>4. Signalling'
    BY DEF TInv, Signalling, SignalsExhaustion
<1> QED
    BY <1>1, <1>2, <1>3, <1>4 DEF TInv

LEMMA NextTypes == TInv /\ [Next]_vars => TInv'
<1> SUFFICES ASSUME TInv, [Next]_vars PROVE TInv'
    OBVIOUS
<1>1. CASE World \/ \E c \in Cluster : ObserveProjectUp(c)
    BY <1>1, WorldTypes
<1>2. CASE \E f \in Family, policies \in Policies : Begin(f, policies)
    BY <1>2, BeginTypes
<1>3. CASE CallbackStep
    BY <1>3, LoopTypes, BuildTypes DEF CallbackStep
<1>4. CASE UNCHANGED vars
    BY <1>4, StutterTypes
<1> QED
    BY <1>1, <1>2, <1>3, <1>4 DEF Next

\* Every reachable state has the types, and the shape, that the callback relies on.
THEOREM TypesInvariance == Spec => []TInv
<1> QED
    BY InitTypes, NextTypes, PTL DEF Spec

\* Every reachable state is type correct; the budget is never overdrawn.
THEOREM TypeCorrect == Spec => []TypeOK
<1>1. TInv => TypeOK
    BY DEF TInv
<1> QED
    BY <1>1, TypesInvariance, PTL

\* A callback signals an exhausted budget at most once, as its last act, and only
\* when it is exhausted.
THEOREM SignalledOnce == Spec => []SignalsExhaustion
<1>1. TInv => SignalsExhaustion
    BY DEF TInv, Signalling
<1> QED
    BY <1>1, TypesInvariance, PTL

-----------------------------------------------------------------------------
(* What tasks promise, and what generators ask for.                        *)

\* A series names the task that made it.
LEMMA MadeSeries ==
    ASSUME NEW c \in Cluster, NEW t \in AnyTask, NEW faults, NEW f, NEW x \in Made(faults, c, f, t)
    PROVE  /\ x \in AnySeries /\ x = Series(c, t) /\ t.family = f /\ Fine(faults, t)
           /\ x.cluster = c /\ x.metric = t.metric.id /\ x.obj = t.obj /\ x.item = t.item
<1>1. x = Series(c, t) /\ t.family = f /\ Fine(faults, t)
    BY DEF Made
<1>2. /\ t.metric \in Metrics /\ t.obj \in Object /\ t.family \in Name
      /\ t.item \in Item \cup {None}
    BY DEF AnyTask
<1>3. /\ t.metric.id \in Nat /\ t.metric.value \in Expr \cup {None}
      /\ t.metric.labels \in Seq(Expr)
    BY <1>2 DEF Metrics
<1>4. ToSet(t.metric.labels) \subseteq Expr
    BY <1>3, ToSetOfSeq
<1>5. x = [cluster |-> c, family |-> t.family, metric |-> t.metric.id, obj |-> t.obj,
           item |-> t.item, value |-> t.metric.value, labels |-> ToSet(t.metric.labels)]
    BY <1>1 DEF Series
<1>6. x \in AnySeries
    BY <1>2, <1>3, <1>4, <1>5 DEF AnySeries
<1> QED
    BY <1>1, <1>5, <1>6

ItemTask(t, i) ==
    /\ WithItem(t, i) \in AnyTask /\ ~Opens(WithItem(t, i))
    /\ WithItem(t, i).item = i /\ WithItem(t, i).metric = t.metric
    /\ WithItem(t, i).obj = t.obj /\ WithItem(t, i).family = t.family

\* A task that opens promises what the tasks of its items do.
LEMMA PromiseOfItems ==
    ASSUME NEW t \in AnyTask, Opens(t), NEW faults, NEW c, NEW f
    PROVE  /\ ItemsOf[t.obj] \in Seq(Item)
           /\ \A x : x \in Promise(faults, c, f, t) <=>
                 /\ <<t.metric.forEach, t.obj, None>> \notin faults
                 /\ \E i \in 1 .. Len(ItemsOf[t.obj]) :
                       x \in Made(faults, c, f, WithItem(t, ItemsOf[t.obj][i]))
           /\ \A i \in 1 .. Len(ItemsOf[t.obj]) : ItemTask(t, ItemsOf[t.obj][i])
<1> DEFINE items == ItemsOf[t.obj]
           U(i) == WithItem(t, items[i])
<1>1. items \in Seq(Item)
    BY ItemsAssumption DEF AnyTask
<1>2. \A y : y \in ToSet(items) <=> \E i \in 1 .. Len(items) : items[i] = y
    BY <1>1, ToSetOfSeq
<1>3. ASSUME NEW i \in 1 .. Len(items)
      PROVE  ItemTask(t, items[i])
    <2>1. items[i] \in Item /\ items[i] # None
        BY <1>1, ItemsAssumption
    <2> HIDE DEF items
    <2>2. /\ U(i) \in AnyTask /\ U(i).item = items[i]
          /\ U(i).metric = t.metric /\ U(i).obj = t.obj /\ U(i).family = t.family
        BY <2>1 DEF AnyTask, WithItem
    <2> QED
        BY <2>1, <2>2 DEF Opens, ItemTask
<1>4. ASSUME NEW x
      PROVE  x \in Promise(faults, c, f, t) <=>
                /\ <<t.metric.forEach, t.obj, None>> \notin faults
                /\ \E i \in 1 .. Len(items) : x \in Made(faults, c, f, U(i))
    <2> DEFINE faulted == <<t.metric.forEach, t.obj, None>> \in faults
    <2>1. x \in Promise(faults, c, f, t) <=>
             ~faulted /\ x \in UNION {Made(faults, c, f, u) : u \in ItemTasks(t)}
        BY DEF Promise
    <2>2. x \in UNION {Made(faults, c, f, u) : u \in ItemTasks(t)}
             <=> \E y \in ToSet(items) : x \in Made(faults, c, f, WithItem(t, y))
        BY DEF ItemTasks
    <2> HIDE DEF faulted, items
    <2> QED
        BY <1>2, <2>1, <2>2 DEF faulted
<1> HIDE DEF U, items
<1> QED
    BY <1>1, <1>3, <1>4 DEF U, items

\* So does a series that a task promises, but for the item.
LEMMA PromiseSeries ==
    ASSUME NEW c \in Cluster, NEW t \in AnyTask, NEW faults, NEW f,
           NEW x \in Promise(faults, c, f, t)
    PROVE  /\ x \in AnySeries /\ t.family = f
           /\ x.cluster = c /\ x.metric = t.metric.id /\ x.obj = t.obj
<1>1. CASE ~Opens(t)
    <2>1. x \in Made(faults, c, f, t)
        BY <1>1 DEF Promise
    <2> QED
        BY <2>1, MadeSeries
<1>2. CASE Opens(t)
    <2>1. PICK i \in 1 .. Len(ItemsOf[t.obj]) :
                x \in Made(faults, c, f, WithItem(t, ItemsOf[t.obj][i]))
        BY <1>2, PromiseOfItems
    <2> DEFINE u == WithItem(t, ItemsOf[t.obj][i])
    <2>2. u \in AnyTask /\ u.metric = t.metric /\ u.obj = t.obj /\ u.family = t.family
        BY <1>2, PromiseOfItems DEF ItemTask
    <2>3. x \in Made(faults, c, f, u)
        BY <2>1
    <2> HIDE DEF u
    <2> QED
        BY <2>2, <2>3, MadeSeries
<1> QED
    BY <1>1, <1>2

\* What the text of a metric asks for is what its task promises.
LEMMA AskedIsPromised ==
    ASSUME NEW c, NEW f \in Name, NEW mt \in Metrics, NEW o \in Object
    PROVE  Asked(c, f, mt, o) = Promise(faulty, c, f, Task(f, compiled(mt), o, None))
<1> DEFINE t == Task(f, compiled(mt), o, None)
           Text(i) == [cluster |-> c, family |-> f, metric |-> mt.id, obj |-> o, item |-> i,
                       value |-> mt.value, labels |-> ToSet(compileLabels(mt))]
           Good(i) == \A e \in Evaluated(mt) : <<e, o, i>> \notin faulty
           over == IF mt.forEach = None THEN {None}
                   ELSE IF <<mt.forEach, o, None>> \in faulty THEN {} ELSE ToSet(ItemsOf[o])
<1>1. /\ compiled(mt) \in Metrics /\ compiled(mt).id = mt.id
      /\ compiled(mt).forEach = mt.forEach
      /\ compiled(mt).value = mt.value /\ compiled(mt).labels = compileLabels(mt)
    BY CompiledMetric
<1>2. /\ t \in AnyTask /\ t.family = f /\ t.metric = compiled(mt) /\ t.obj = o
      /\ t.item = None /\ (Opens(t) <=> mt.forEach # None)
    BY <1>1 DEF Task, AnyTask, Opens
<1>3. ASSUME NEW u, NEW i, u.family = f, u.metric = compiled(mt), u.obj = o, u.item = i
      PROVE  \A x : x \in Made(faulty, c, f, u) <=> Good(i) /\ x = Text(i)
    <2>1. Series(c, u) = Text(i)
        BY <1>1, <1>3 DEF Series
    <2>2. Fine(faulty, u) <=> Good(i)
        BY <1>1, <1>3 DEF Fine, Evaluated
    <2> HIDE DEF Text, Good
    <2> QED
        BY <1>3, <2>1, <2>2 DEF Made
<1>4. \A x : x \in Asked(c, f, mt, o) <=> \E i \in over : Good(i) /\ x = Text(i)
    <2>1. Asked(c, f, mt, o) = {Text(i) : i \in {j \in over : Good(j)}}
        BY DEF Asked
    <2> HIDE DEF Text, Good, over
    <2> QED
        BY <2>1
<1> HIDE DEF t, Text, Good
<1>5. ASSUME NEW x PROVE x \in Asked(c, f, mt, o) <=> x \in Promise(faulty, c, f, t)
    <2>1. CASE mt.forEach = None
        <3>1. x \in Promise(faulty, c, f, t) <=> x \in Made(faulty, c, f, t)
            BY <1>2, <2>1 DEF Promise
        <3>2. x \in Made(faulty, c, f, t) <=> Good(None) /\ x = Text(None)
            BY <1>2, <1>3
        <3> QED
            BY <1>4, <2>1, <3>1, <3>2
    <2>2. CASE mt.forEach # None
        <3> DEFINE items == ItemsOf[o]
        <3>1. Opens(t)
            BY <1>2, <2>2
        <3>2. /\ items \in Seq(Item)
              /\ x \in Promise(faulty, c, f, t) <=>
                   /\ <<t.metric.forEach, t.obj, None>> \notin faulty
                   /\ \E i \in 1 .. Len(items) : x \in Made(faulty, c, f, WithItem(t, items[i]))
              /\ \A i \in 1 .. Len(items) : ItemTask(t, items[i])
            BY <1>2, <3>1, PromiseOfItems
        <3>3. ASSUME NEW i \in 1 .. Len(items)
              PROVE  x \in Made(faulty, c, f, WithItem(t, items[i]))
                        <=> Good(items[i]) /\ x = Text(items[i])
            <4> DEFINE u == WithItem(t, items[i])
            <4>1. /\ u.item = items[i] /\ u.metric = compiled(mt) /\ u.obj = o
                  /\ u.family = f
                BY <1>2, <3>2 DEF ItemTask
            <4> HIDE DEF u
            <4>2. x \in Made(faulty, c, f, u) <=> Good(items[i]) /\ x = Text(items[i])
                BY <1>3, <4>1
            <4> QED
                BY <4>2 DEF u
        <3>4. \A y : y \in ToSet(items) <=> \E i \in 1 .. Len(items) : items[i] = y
            BY <3>2, ToSetOfSeq
        <3>5. over = IF <<mt.forEach, o, None>> \in faulty THEN {} ELSE ToSet(items)
            BY <2>2
        <3>6. <<t.metric.forEach, t.obj, None>> = <<mt.forEach, o, None>>
            BY <1>1, <1>2
        <3> DEFINE faulted == <<mt.forEach, o, None>> \in faulty
        <3>7. x \in Asked(c, f, mt, o) <=>
                ~faulted /\ \E i \in 1 .. Len(items) : Good(items[i]) /\ x = Text(items[i])
            <4> HIDE DEF items, over, faulted
            <4> QED
                BY <1>4, <3>4, <3>5 DEF faulted
        <3> HIDE DEF items
        <3> QED
            BY <3>2, <3>3, <3>6, <3>7
    <2> QED
        BY <2>1, <2>2
<1> QED
    BY <1>5 DEF t

\* The series of a generator, spelled out.
LEMMA SliceMember ==
    ASSUME NEW faults, NEW c, NEW f, NEW gen, NEW held
    PROVE  \A x : x \in Slice(faults, c, f, gen, held) <=>
              /\ ~Husk(gen)
              /\ \E k \in DOMAIN gen.families :
                    /\ gen.families[k].name = f
                    /\ \E mt \in ToSet(gen.families[k].metrics) : \E o \in held[gen.resource] :
                          /\ Sound(mt)
                          /\ x \in Promise(faults, c, f, Task(f, compiled(mt), o, None))
BY DEF Slice

\* A series that a generator asks for names its control plane, and one of its metrics.
LEMMA SliceSeries ==
    ASSUME NEW c \in Cluster, NEW gen \in Generators, NEW held \in [Resource -> Held],
           NEW faults, NEW f, NEW x \in Slice(faults, c, f, gen, held)
    PROVE  /\ x \in AnySeries /\ x.cluster = c
           /\ \E k \in DOMAIN gen.families : \E i \in DOMAIN gen.families[k].metrics :
                 x.metric = gen.families[k].metrics[i].id
<1>1. PICK k \in DOMAIN gen.families :
        /\ gen.families[k].name = f
        /\ \E mt \in ToSet(gen.families[k].metrics) : \E o \in held[gen.resource] :
              x \in Promise(faults, c, f, Task(f, compiled(mt), o, None))
    BY SliceMember
<1>2. PICK mt \in ToSet(gen.families[k].metrics) : \E o \in held[gen.resource] :
              x \in Promise(faults, c, f, Task(f, compiled(mt), o, None))
    BY <1>1
<1>3. PICK o \in held[gen.resource] :
              x \in Promise(faults, c, f, Task(f, compiled(mt), o, None))
    BY <1>2
<1>4. gen.families[k] \in Families
    BY DEF Generators
<1>5. gen.families[k].metrics \in Seq(Metrics) /\ f \in Name
    BY <1>1, <1>4 DEF Families
<1>6. PICK i \in DOMAIN gen.families[k].metrics : gen.families[k].metrics[i] = mt
    BY <1>5, ToSetOfSeq
<1>7. mt \in Metrics
    BY <1>5, ToSetOfSeq
<1>8. o \in Object
    <2>1. gen.resource \in Resource
        BY DEF Generators
    <2>2. held[gen.resource] \in Held
        BY <2>1
    <2> QED
        BY <2>2, StoresAssumption DEF Held
<1> DEFINE t == Task(f, compiled(mt), o, None)
<1>9. compiled(mt) \in Metrics /\ compiled(mt).id = mt.id
    BY <1>7, CompiledMetric
<1>10. t \in AnyTask /\ t.metric = compiled(mt)
    BY <1>5, <1>8, <1>9 DEF Task, AnyTask
<1>11. x \in Promise(faults, c, f, t)
    BY <1>3
<1> HIDE DEF t
<1>12. x \in AnySeries /\ x.cluster = c /\ x.metric = t.metric.id
    BY <1>10, <1>11, PromiseSeries
<1> QED
    BY <1>6, <1>9, <1>10, <1>12

\* No series is asked for twice: by two generators, or on two control planes.
LEMMA AsksDiffer ==
    ASSUME TInv, NEW c \in Cluster, NEW d \in Cluster,
           NEW g \in DOMAIN snapshot, NEW h \in DOMAIN snapshot,
           NEW x, x \in Asks[c][g], x \in Asks[d][h]
    PROVE  c = d /\ g = h
<1>1. /\ Registry /\ seen[c] \in [Resource -> Held] /\ seen[d] \in [Resource -> Held]
      /\ snapshot[g] \in Generators /\ snapshot[h] \in Generators
    BY GeneratorAt DEF TInv, Collecting
<1>2. /\ x \in Slice(faulty, c, family, snapshot[g], seen[c])
      /\ x \in Slice(faulty, d, family, snapshot[h], seen[d])
    BY DEF Asks
<1>3. c = d
    BY <1>1, <1>2, SliceSeries
<1>4. PICK k \in DOMAIN snapshot[g].families : \E i \in DOMAIN snapshot[g].families[k].metrics :
            x.metric = snapshot[g].families[k].metrics[i].id
    BY <1>1, <1>2, SliceSeries
<1>5. PICK l \in DOMAIN snapshot[h].families : \E j \in DOMAIN snapshot[h].families[l].metrics :
            x.metric = snapshot[h].families[l].metrics[j].id
    BY <1>1, <1>2, SliceSeries
<1>6. PICK i \in DOMAIN snapshot[g].families[k].metrics :
            x.metric = snapshot[g].families[k].metrics[i].id
    BY <1>4
<1>7. PICK j \in DOMAIN snapshot[h].families[l].metrics :
            x.metric = snapshot[h].families[l].metrics[j].id
    BY <1>5
<1>8. IdsDifferAmong(snapshot)
    BY <1>1 DEF Registry
<1>9. snapshot[g].families[k].metrics[i].id = snapshot[h].families[l].metrics[j].id
    BY <1>6, <1>7
<1>10. g = h
    BY <1>4, <1>5, <1>6, <1>7, <1>8, <1>9 DEF IdsDifferAmong
<1> QED
    BY <1>3, <1>10

\* The sequence objs lists the set held.
Lists(objs, held) ==
    /\ \A i, j \in 1 .. Len(objs) : objs[i] = objs[j] => i = j
    /\ \A o : o \in held <=> \E i \in 1 .. Len(objs) : objs[i] = o

\* What a generator asks for is what its tasks promise.
LEMMA SliceIsPromised ==
    ASSUME NEW gen \in Generators, ~Husk(gen), NEW held \in [Resource -> Held],
           NEW objs \in Seq(Object), IdsDifferIn(compileGenerator(gen)),
           Lists(objs, held[gen.resource]),
           NEW faults, NEW c \in Cluster, NEW f, NEW x
    PROVE  x \in Slice(faults, c, f, gen, held)
              <=> \E t \in ToSet(Tasks(compileGenerator(gen), objs)) :
                     x \in Promise(faults, c, f, t)
<1> DEFINE out == compileGenerator(gen)
           tasks == Tasks(out, objs)
<1>1. /\ out \in Generators /\ DOMAIN out.families = DOMAIN gen.families
      /\ \A k \in DOMAIN gen.families :
            /\ out.families[k].name = gen.families[k].name
            /\ out.families[k].metrics = compileMetrics(gen.families[k].metrics)
    BY CompiledGenerator
<1>2. ASSUME NEW k \in DOMAIN gen.families
      PROVE  /\ gen.families[k].metrics \in Seq(Metrics)
             /\ out.families[k].metrics \in Seq(Metrics)
             /\ \A y : y \in ToSet(out.families[k].metrics) <=>
                   \E mt \in ToSet(gen.families[k].metrics) : Sound(mt) /\ y = compiled(mt)
    <2>1. gen.families[k] \in Families
        BY DEF Generators
    <2>2. gen.families[k].metrics \in Seq(Metrics)
        BY <2>1 DEF Families
    <2> HIDE DEF out
    <2> QED
        BY <1>1, <2>2, CompiledMetrics
<1>3. /\ tasks \in Seq(AnyTask)
      /\ \A t : t \in ToSet(tasks) <=>
            \E i \in 1 .. Len(objs), k \in DOMAIN out.families :
               \E j \in DOMAIN out.families[k].metrics :
                  t = Task(out.families[k].name, out.families[k].metrics[j], objs[i], None)
    BY <1>1, TasksGiven DEF Lists
<1> HIDE DEF out, tasks
<1>4. ASSUME x \in Slice(faults, c, f, gen, held)
      PROVE  \E t \in ToSet(tasks) : x \in Promise(faults, c, f, t)
    <2>1. PICK k \in DOMAIN gen.families :
            /\ gen.families[k].name = f
            /\ \E mt \in ToSet(gen.families[k].metrics) : \E o \in held[gen.resource] :
                  Sound(mt) /\ x \in Promise(faults, c, f, Task(f, compiled(mt), o, None))
        BY <1>4, SliceMember
    <2>2. PICK mt \in ToSet(gen.families[k].metrics) : \E o \in held[gen.resource] :
                  Sound(mt) /\ x \in Promise(faults, c, f, Task(f, compiled(mt), o, None))
        BY <2>1
    <2>3. PICK o \in held[gen.resource] :
                  Sound(mt) /\ x \in Promise(faults, c, f, Task(f, compiled(mt), o, None))
        BY <2>2
    <2>4. PICK i \in 1 .. Len(objs) : objs[i] = o
        BY DEF Lists
    <2>5. compiled(mt) \in ToSet(out.families[k].metrics)
        BY <1>2, <2>3
    <2>6. PICK j \in DOMAIN out.families[k].metrics :
                out.families[k].metrics[j] = compiled(mt)
        BY <1>2, <2>5, ToSetOfSeq
    <2>7. Task(f, compiled(mt), o, None) \in ToSet(tasks)
        BY <1>1, <1>3, <2>1, <2>4, <2>6
    <2> QED
        BY <2>3, <2>7
<1>5. ASSUME NEW t \in ToSet(tasks), x \in Promise(faults, c, f, t)
      PROVE  x \in Slice(faults, c, f, gen, held)
    <2>1. PICK i \in 1 .. Len(objs), k \in DOMAIN out.families :
            \E j \in DOMAIN out.families[k].metrics :
               t = Task(out.families[k].name, out.families[k].metrics[j], objs[i], None)
        BY <1>3
    <2>2. PICK j \in DOMAIN out.families[k].metrics :
               t = Task(out.families[k].name, out.families[k].metrics[j], objs[i], None)
        BY <2>1
    <2>3. k \in DOMAIN gen.families /\ out.families[k].name = gen.families[k].name
        BY <1>1
    <2>4. out.families[k].metrics[j] \in ToSet(out.families[k].metrics)
        BY <1>2, <2>3, ToSetOfSeq
    <2>5. PICK mt \in ToSet(gen.families[k].metrics) :
                Sound(mt) /\ out.families[k].metrics[j] = compiled(mt)
        <3> DEFINE y == out.families[k].metrics[j]
        <3>1. y \in ToSet(out.families[k].metrics)
            BY <2>4
        <3> HIDE DEF y
        <3>2. \E mt \in ToSet(gen.families[k].metrics) : Sound(mt) /\ y = compiled(mt)
            BY <1>2, <2>3, <3>1
        <3> QED
            BY <3>2 DEF y
    <2>6. t \in AnyTask
        BY <1>3, ToSetOfSeq
    <2>7. t.family = f
        BY <1>5, <2>6, PromiseSeries
    <2>8. t.family = gen.families[k].name
        BY <2>2, <2>3 DEF Task
    <2>9. t = Task(f, compiled(mt), objs[i], None) /\ objs[i] \in held[gen.resource]
        BY <2>2, <2>3, <2>5, <2>7, <2>8 DEF Lists
    <2>10. /\ gen.families[k].name = f
           /\ \E n \in ToSet(gen.families[k].metrics) : \E o \in held[gen.resource] :
                 Sound(n) /\ x \in Promise(faults, c, f, Task(f, compiled(n), o, None))
        BY <1>5, <2>5, <2>7, <2>8, <2>9
    <2> QED
        BY <2>3, <2>10, SliceMember
<1> QED
    BY <1>4, <1>5 DEF tasks, out

\* A generator that is skipped asks for nothing.
LEMMA SkippedAsksNothing ==
    ASSUME TInv, pc = "generator", next \in 1 .. Len(gens), ~Relevant(gens[next])
    PROVE  next \in DOMAIN snapshot /\ at \in Cluster /\ Asks[at][next] = {}
<1> DEFINE gen == snapshot[next]
<1>1. /\ Registry /\ at \in Cluster /\ next \in DOMAIN snapshot /\ gen \in Generators
      /\ gens[next] = compileGenerator(gen) /\ (Husk(gen) <=> gens[next] = None)
    BY GeneratorAt DEF TInv, TypeOK
<1> HIDE DEF gen
<1>2. SUFFICES ASSUME NEW x \in Slice(faulty, at, family, gen, seen[at]) PROVE FALSE
    BY <1>1 DEF Asks, gen
<1>3. ~Husk(gen) /\ gens[next] # None
    BY <1>1, SliceMember
<1>4. PICK k \in DOMAIN gen.families :
        gen.families[k].name = family /\ seen[at][gen.resource] # {}
    BY SliceMember
<1>5. /\ gens[next].resource = gen.resource
      /\ k \in DOMAIN gens[next].families /\ gens[next].families[k].name = family
    BY <1>1, <1>3, <1>4, CompiledGenerator
<1> QED
    BY <1>1, <1>3, <1>4, <1>5 DEF Relevant

-----------------------------------------------------------------------------
(* What is observed: each step keeps the account.                          *)

askVars == <<faulty, family, snapshot>>

\* Nothing was observed, and nothing is asked for.
LEMMA InitAccount == Init => Account
<1> SUFFICES ASSUME Init PROVE Account
    OBVIOUS
<1>1. observed = <<>> /\ pc = "idle" /\ snapshot = <<>>
    BY DEF Init
<1>2. OnlyAsked /\ AllPromised
    BY <1>1 DEF OnlyAsked, AllPromised, ToSet
<1>3. Once
    BY <1>1 DEF Once, IsInjective
<1> QED
    BY <1>2, <1>3 DEF Account

\* Steps of others.
LEMMA FrameAccount ==
    ASSUME Account,
           UNCHANGED <<askVars, seen, pc, at, next, clusters, work, observed, signals>>
    PROVE  Account'
<1>1. Asks' = Asks /\ Promises' = Promises
    BY DEF Asks, Promises, askVars
<1>2. OnlyAsked' /\ AllPromised'
    BY <1>1 DEF Account, OnlyAsked, AllPromised, askVars
<1>3. Once'
    BY <1>1 DEF Account, Once
<1> QED
    BY <1>2, <1>3 DEF Account

\* A callback begins with nothing observed and nothing reached.
LEMMA BeginAccount ==
    ASSUME NEW f, NEW policies, Begin(f, policies)
    PROVE  Account'
<1>1. clusters' = Cluster /\ observed' = <<>> /\ pc' = "cluster"
    BY DEF Begin
<1>2. \A c \in Cluster : \A g : ~Reached(clusters', pc', at', next', c, g)
    BY <1>1 DEF Reached
<1>3. OnlyAsked' /\ AllPromised'
    BY <1>1, <1>2 DEF OnlyAsked, AllPromised, ToSet
<1>4. Once'
    BY <1>1 DEF Once, IsInjective
<1> QED
    BY <1>3, <1>4 DEF Account

\* Between builds: what is reached by the step asks for nothing, and what was reached
\* asks for the same as before.
Moves(c, g) ==
    /\ Reached(clusters, pc, at, next, c, g)
          => Reached(clusters', pc', at', next', c, g) /\ Asks'[c][g] = Asks[c][g]
    /\ Reached(clusters', pc', at', next', c, g)
          => Reached(clusters, pc, at, next, c, g) \/ Asks'[c][g] = {}

\* A step that only moves on keeps the account.
LEMMA MoveAccount ==
    ASSUME Account, UNCHANGED <<askVars, observed, signals>>,
           pc # "build" \/ work = <<>>, pc' # "build",
           \A c \in Cluster, g \in DOMAIN snapshot : Moves(c, g)
    PROVE  Account'
<1>1. snapshot' = snapshot /\ observed' = observed /\ signals' = signals
    BY DEF askVars
<1>2. OnlyAsked'
    <2>1. ASSUME NEW x \in ToSet(observed)
          PROVE  \E c \in Cluster, g \in DOMAIN snapshot :
                    Reached(clusters', pc', at', next', c, g) /\ x \in Asks'[c][g]
        <3>1. PICK c \in Cluster, g \in DOMAIN snapshot :
                    Reached(clusters, pc, at, next, c, g) /\ x \in Asks[c][g]
            BY DEF Account, OnlyAsked
        <3> QED
            BY <3>1 DEF Moves
    <2> QED
        BY <1>1, <2>1 DEF OnlyAsked
<1>3. AllPromised'
    <2>1. SUFFICES ASSUME signals = 0, NEW c \in Cluster, NEW g \in DOMAIN snapshot,
                          Reached(clusters', pc', at', next', c, g), NEW x \in Asks'[c][g]
                   PROVE  x \in ToSet(observed)
        BY <1>1 DEF AllPromised
    <2>2. Reached(clusters, pc, at, next, c, g) /\ x \in Asks[c][g]
        BY <2>1 DEF Moves
    <2>3. ~(pc = "build" /\ \E i \in DOMAIN work : x \in Promises[i])
        OBVIOUS
    <2> QED
        BY <2>1, <2>2, <2>3 DEF Account, AllPromised
<1>4. Once'
    BY <1>1 DEF Account, Once
<1> QED
    BY <1>2, <1>3, <1>4 DEF Account

\* The steps of the callback's loops only move on.
LEMMA LoopAccount ==
    ASSUME TInv, Account,
           \/ \E c \in Cluster : SuppressCluster(c) \/ LookAtCluster(c)
           \/ Collect \/ SkipGenerator \/ EndBuild \/ EndCluster \/ Return
    PROVE  Account'
<1> USE DEF worldVars, callVars, buildVars, askVars
<1>1. /\ at \in Cluster /\ clusters \subseteq Cluster
      /\ pc \in {"collect", "generator", "build"} => at \notin clusters
      /\ \A c \in clusters : seen[c] = [r \in Resource |-> {}]
      /\ DOMAIN snapshot = 1 .. Len(snapshot) /\ Len(snapshot) \in Nat
      /\ Len(gens) = Len(snapshot)
    BY GeneratorAt DEF TInv, TypeOK, Collecting
<1>2. ASSUME UNCHANGED <<askVars, seen>> PROVE Asks' = Asks
    BY <1>2 DEF Asks
<1>3. ASSUME NEW c \in Cluster, SuppressCluster(c) PROVE Account'
    <2>1. /\ pc = "cluster" /\ c \in clusters /\ clusters' = clusters \ {c}
          /\ UNCHANGED <<askVars, seen, pc, at, next, observed, signals>>
        BY <1>3 DEF SuppressCluster
    <2>2. Asks' = Asks
        BY <1>2, <2>1
    <2>3. ASSUME NEW g \in DOMAIN snapshot PROVE Asks[c][g] = {}
        <3>1. Slice(faulty, c, family, snapshot[g], seen[c]) = {}
            <4>1. snapshot[g].resource \in Resource
                BY GeneratorAt DEF TInv, Generators
            <4>2. seen[c][snapshot[g].resource] = {}
                BY <1>1, <2>1, <4>1
            <4> QED
                BY <4>2, SliceMember
        <3> QED
            BY <3>1 DEF Asks
    <2>4. \A d \in Cluster, g \in DOMAIN snapshot : Moves(d, g)
        BY <2>1, <2>2, <2>3 DEF Moves, Reached
    <2> QED
        BY <2>1, <2>4, MoveAccount
<1>4. ASSUME NEW c \in Cluster, LookAtCluster(c) PROVE Account'
    <2>1. /\ pc = "cluster" /\ c \in clusters /\ clusters' = clusters \ {c}
          /\ at' = c /\ pc' = "collect"
          /\ UNCHANGED <<askVars, seen, next, observed, signals>>
        BY <1>4 DEF LookAtCluster
    <2>2. Asks' = Asks
        BY <1>2, <2>1
    <2>3. \A d \in Cluster, g \in DOMAIN snapshot : Moves(d, g)
        BY <2>1, <2>2 DEF Moves, Reached
    <2> QED
        BY <2>1, <2>3, MoveAccount
<1>5. ASSUME Collect PROVE Account'
    <2>1. /\ pc = "collect" /\ pc' = "generator" /\ next' = 1
          /\ seen' = [seen EXCEPT ![at] = Collected(at)]
          /\ UNCHANGED <<askVars, clusters, at, observed, signals>>
        BY <1>5 DEF Collect
    <2>2. ASSUME NEW d \in Cluster, d # at, NEW g \in DOMAIN snapshot
          PROVE  Asks'[d][g] = Asks[d][g]
        <3>1. seen'[d] = seen[d]
            BY <2>1, <2>2 DEF TInv, Collecting
        <3> QED
            BY <2>1, <3>1 DEF Asks
    <2>3. \A d \in Cluster, g \in DOMAIN snapshot : Moves(d, g)
        <3>1. ASSUME NEW g \in DOMAIN snapshot PROVE Moves(at, g)
            <4>1. ~(g < 1)
                BY <1>1
            <4> QED
                BY <2>1, <4>1 DEF Moves, Reached
        <3>2. ASSUME NEW d \in Cluster, d # at, NEW g \in DOMAIN snapshot PROVE Moves(d, g)
            BY <2>1, <2>2, <3>2 DEF Moves, Reached
        <3> QED
            BY <3>1, <3>2
    <2> QED
        BY <2>1, <2>3, MoveAccount
<1>6. ASSUME SkipGenerator PROVE Account'
    <2>1. /\ pc = "generator" /\ next' = next + 1 /\ ~Relevant(gens[next])
          /\ UNCHANGED <<askVars, seen, pc, clusters, at, observed, signals>>
        BY <1>6 DEF SkipGenerator
    <2>2. Asks' = Asks
        BY <1>2, <2>1
    <2>3. next \in 1 .. Len(gens)
        BY <1>1, <1>6 DEF SkipGenerator, TInv, TypeOK
    <2>4. Asks[at][next] = {}
        BY <2>1, <2>3, SkippedAsksNothing
    <2>5. \A g \in DOMAIN snapshot : g < next + 1 <=> g < next \/ g = next
        BY <1>1, <2>3
    <2>6. \A d \in Cluster, g \in DOMAIN snapshot : Moves(d, g)
        BY <2>1, <2>2, <2>4, <2>5 DEF Moves, Reached
    <2> QED
        BY <2>1, <2>6, MoveAccount
<1>7. ASSUME EndBuild PROVE Account'
    <2>1. /\ pc = "build" /\ pc' = "generator" /\ work = <<>> /\ next' = next + 1
          /\ UNCHANGED <<askVars, seen, clusters, at, observed, signals>>
        BY <1>7 DEF EndBuild
    <2>2. Asks' = Asks
        BY <1>2, <2>1
    <2>3. next \in 1 .. Len(gens)
        BY <1>1, <2>1 DEF TInv, TypeOK, Working
    <2>4. \A g \in DOMAIN snapshot : g < next + 1 <=> g < next \/ g = next
        BY <1>1, <2>3
    <2>5. \A d \in Cluster, g \in DOMAIN snapshot : Moves(d, g)
        BY <2>1, <2>2, <2>4 DEF Moves, Reached
    <2> QED
        BY <2>1, <2>5, MoveAccount
<1>8. ASSUME EndCluster PROVE Account'
    <2>1. /\ pc = "generator" /\ pc' = "cluster" /\ next > Len(gens)
          /\ UNCHANGED <<askVars, seen, clusters, at, next, observed, signals>>
        BY <1>8 DEF EndCluster
    <2>2. Asks' = Asks
        BY <1>2, <2>1
    <2>3. next \in Nat
        BY <1>1, <2>1 DEF TInv, TypeOK
    <2>4. \A g \in DOMAIN snapshot : g < next
        BY <1>1, <2>1, <2>3
    <2>5. \A d \in Cluster, g \in DOMAIN snapshot : Moves(d, g)
        BY <2>1, <2>2, <2>4 DEF Moves, Reached
    <2> QED
        BY <2>1, <2>5, MoveAccount
<1>9. ASSUME Return PROVE Account'
    <2>1. /\ pc = "cluster" /\ pc' = "idle"
          /\ UNCHANGED <<askVars, seen, clusters, at, next, observed, signals>>
        BY <1>9 DEF Return
    <2>2. Asks' = Asks
        BY <1>2, <2>1
    <2>3. \A d \in Cluster, g \in DOMAIN snapshot : Moves(d, g)
        BY <2>1, <2>2 DEF Moves, Reached
    <2> QED
        BY <2>1, <2>3, MoveAccount
<1> QED
    BY <1>3, <1>4, <1>5, <1>6, <1>7, <1>8, <1>9

\* A generator that is built: what it asks for is promised, by one task each.
LEMMA BuildAccount ==
    ASSUME TInv, Account, BuildGenerator
    PROVE  Account'
<1> DEFINE gen == snapshot[next]
           out == gens[next]
<1>1. /\ pc = "generator" /\ pc' = "build" /\ Relevant(out) /\ next <= Len(gens)
      /\ UNCHANGED <<askVars, seen, at, next, clusters, observed, signals>>
      /\ \E objs \in SetToSeqs(seen[at][out.resource]) : work' = Tasks(out, objs)
    BY DEF BuildGenerator, worldVars, callVars, askVars
<1>2. PICK objs \in SetToSeqs(seen[at][out.resource]) : work' = Tasks(out, objs)
    BY <1>1
<1>3. /\ next \in DOMAIN snapshot /\ ~Husk(gen) /\ out = compileGenerator(gen)
      /\ out \in Generators /\ IdsDifferIn(out) /\ objs \in Seq(Object)
      /\ \A i, j \in 1 .. Len(objs) : objs[i] = objs[j] => i = j
      /\ \A o \in seen[at][out.resource] : \E i \in 1 .. Len(objs) : objs[i] = o
      /\ \A i \in 1 .. Len(objs) : objs[i] \in seen[at][out.resource]
    BY <1>1, <1>2, RelevantGenerator
<1>4. /\ Registry /\ at \in Cluster /\ seen[at] \in [Resource -> Held] /\ next \in Nat
      /\ gen \in Generators
    <2>1. Registry /\ at \in Cluster /\ seen[at] \in [Resource -> Held]
        BY DEF TInv, TypeOK, Collecting
    <2> QED
        BY <1>3, <2>1, GeneratorAt
<1> HIDE DEF gen, out
<1>5. out.resource = gen.resource
    BY <1>3, <1>4, CompiledGenerator
<1>6. /\ work' \in Seq(AnyTask)
      /\ \A p, q \in 1 .. Len(work') :
            work'[p].metric.id = work'[q].metric.id /\ work'[p].obj = work'[q].obj => p = q
    BY <1>2, <1>3, TasksGiven
<1>7. DOMAIN work' = 1 .. Len(work')
    BY <1>6
<1>8. Asks' = Asks
    BY <1>1 DEF Asks, askVars
<1>9. \A i \in DOMAIN work' : Promises'[i] = Promise(faulty, at, family, work'[i])
    BY <1>1 DEF Promises, askVars
<1>10. \A x : x \in Asks[at][next] <=> \E i \in DOMAIN work' : x \in Promises'[i]
    <2>1. Asks[at][next] = Slice(faulty, at, family, gen, seen[at])
        BY <1>3, <1>4 DEF Asks, gen
    <2>2. Lists(objs, seen[at][gen.resource])
        BY <1>3, <1>5 DEF Lists
    <2>3. ASSUME NEW x
          PROVE  x \in Asks[at][next] <=>
                    \E t \in ToSet(work') : x \in Promise(faulty, at, family, t)
        BY <1>2, <1>3, <1>4, <2>1, <2>2, SliceIsPromised
    <2>4. \A t : t \in ToSet(work') <=> \E i \in 1 .. Len(work') : work'[i] = t
        BY <1>6, ToSetOfSeq
    <2> QED
        BY <1>7, <1>9, <2>3, <2>4
<1>11. \A c \in Cluster, g \in DOMAIN snapshot :
          Reached(clusters', pc', at', next', c, g) <=>
             Reached(clusters, pc, at, next, c, g) \/ (c = at /\ g = next)
    <2>1. at \notin clusters
        BY <1>1 DEF TInv, Collecting
    <2> QED
        BY <1>1, <2>1 DEF Reached
<1>12. ~Reached(clusters, pc, at, next, at, next)
    BY <1>1, <1>4 DEF Reached
<1>13. OnlyAsked'
    <2>1. ASSUME NEW x \in ToSet(observed)
          PROVE  \E c \in Cluster, g \in DOMAIN snapshot :
                    Reached(clusters', pc', at', next', c, g) /\ x \in Asks'[c][g]
        BY <1>8, <1>11 DEF Account, OnlyAsked
    <2>2. \A i \in DOMAIN work' : Promises'[i] \subseteq Asks'[at'][next']
        BY <1>1, <1>8, <1>10
    <2> QED
        BY <1>1, <2>1, <2>2 DEF OnlyAsked, askVars
<1>14. AllPromised'
    <2>1. SUFFICES ASSUME signals = 0, NEW c \in Cluster, NEW g \in DOMAIN snapshot,
                          Reached(clusters', pc', at', next', c, g), NEW x \in Asks[c][g]
                   PROVE  \/ x \in ToSet(observed)
                          \/ \E i \in DOMAIN work' : x \in Promises'[i]
        BY <1>1, <1>8 DEF AllPromised, askVars
    <2>2. CASE c = at /\ g = next
        BY <1>10, <2>1, <2>2
    <2>3. CASE Reached(clusters, pc, at, next, c, g)
        BY <1>1, <2>1, <2>3 DEF Account, AllPromised
    <2> QED
        BY <1>11, <2>1, <2>2, <2>3
<1>15. Once'
    <2>1. ASSUME NEW i \in DOMAIN work', NEW x \in Promises'[i] PROVE x \notin ToSet(observed)
        <3>1. x \in Asks[at][next]
            BY <1>10, <2>1
        <3>2. SUFFICES ASSUME x \in ToSet(observed) PROVE FALSE
            OBVIOUS
        <3>3. PICK c \in Cluster, g \in DOMAIN snapshot :
                    Reached(clusters, pc, at, next, c, g) /\ x \in Asks[c][g]
            BY <3>2 DEF Account, OnlyAsked
        <3>4. c = at /\ g = next
            BY <1>3, <1>4, <3>1, <3>3, AsksDiffer
        <3> QED
            BY <1>12, <3>3, <3>4
    <2>2. ASSUME NEW i \in DOMAIN work', NEW j \in DOMAIN work', i # j
          PROVE  Promises'[i] \cap Promises'[j] = {}
        <3>1. SUFFICES ASSUME NEW x, x \in Promises'[i], x \in Promises'[j] PROVE FALSE
            OBVIOUS
        <3>2. /\ x \in Promise(faulty, at, family, work'[i]) /\ work'[i] \in AnyTask
              /\ x \in Promise(faulty, at, family, work'[j]) /\ work'[j] \in AnyTask
            BY <1>6, <1>9, <3>1
        <3>3. /\ x.metric = work'[i].metric.id /\ x.obj = work'[i].obj
              /\ x.metric = work'[j].metric.id /\ x.obj = work'[j].obj
            BY <1>4, <3>2, PromiseSeries
        <3> QED
            BY <1>6, <1>7, <2>2, <3>3
    <2> QED
        BY <1>1, <2>1, <2>2 DEF Account, Once
<1> QED
    BY <1>13, <1>14, <1>15 DEF Account

\* What the tasks of the build promise.
LEMMA Promised ==
    ASSUME TInv, Building
    PROVE  /\ DOMAIN work = 1 .. Len(work) /\ 1 \in DOMAIN work
           /\ Promises[1] = Promise(faulty, at, family, First)
           /\ \A i \in DOMAIN work :
                 work[i] \in AnyTask /\ Promises[i] = Promise(faulty, at, family, work[i])
<1>1. work \in Seq(AnyTask) /\ Len(work) > 0 /\ Len(work) \in Nat
    BY FirstTask DEF TInv, Working
<1>2. DOMAIN work = 1 .. Len(work) /\ 1 \in DOMAIN work /\ First = work[1]
    BY <1>1 DEF First
<1>3. \A i \in DOMAIN work : work[i] \in AnyTask
    BY <1>1, <1>2
<1>4. \A i \in DOMAIN work : Promises[i] = Promise(faulty, at, family, work[i])
    BY DEF Promises
<1> QED
    BY <1>2, <1>3, <1>4

\* The task at hand is done with: what it promised is observed.
LEMMA TailAccount ==
    ASSUME TInv, Account, Building,
           UNCHANGED <<askVars, seen, pc, at, next, clusters, signals>>, work' = Tail(work),
           observed' \in Seq(AnySeries), IsInjective(observed'),
           \A x : x \in ToSet(observed') <=> x \in ToSet(observed) \/ x \in Promises[1]
    PROVE  Account'
<1>1. pc = "build" /\ pc' = "build" /\ at \in Cluster /\ next \in DOMAIN snapshot
    <2>1. pc = "build" /\ Registry /\ at \in Cluster /\ next \in 1 .. Len(gens)
        BY DEF Building, TInv, TypeOK, Working
    <2> QED
        BY <2>1, GeneratorAt
<1>2. DOMAIN work = 1 .. Len(work) /\ 1 \in DOMAIN work /\ Len(work) \in Nat
    BY Promised, FirstTask
<1>3. /\ DOMAIN work' = 1 .. Len(work) - 1
      /\ \A i \in 1 .. Len(work) - 1 : work'[i] = work[i + 1] /\ i + 1 \in DOMAIN work
    <2>1. /\ Tail(work) \in Seq(AnyTask) /\ Len(Tail(work)) = Len(work) - 1
          /\ \A i \in 1 .. Len(work) - 1 : Tail(work)[i] = work[i + 1]
        BY FirstTask
    <2> QED
        BY <1>2, <2>1
<1>4. Asks' = Asks
    BY DEF Asks, askVars
<1>5. \A i \in DOMAIN work' : Promises'[i] = Promises[i + 1]
    BY <1>3 DEF Promises, askVars
<1>6. \A i \in DOMAIN work : i = 1 \/ (i - 1 \in DOMAIN work' /\ Promises'[i - 1] = Promises[i])
    BY <1>2, <1>3, <1>5
<1>7. \A c, g : Reached(clusters', pc', at', next', c, g) <=>
                   Reached(clusters, pc, at, next, c, g)
    OBVIOUS
<1>8. Reached(clusters, pc, at, next, at, next)
    BY <1>1 DEF Reached, TInv, Collecting
<1>9. OnlyAsked'
    <2>1. ASSUME NEW x \in ToSet(observed')
          PROVE  \E c \in Cluster, g \in DOMAIN snapshot :
                    Reached(clusters', pc', at', next', c, g) /\ x \in Asks'[c][g]
        <3>1. CASE x \in ToSet(observed)
            BY <1>4, <1>7, <3>1 DEF Account, OnlyAsked
        <3>2. CASE x \in Promises[1]
            BY <1>1, <1>2, <1>4, <1>7, <1>8, <3>2 DEF Account, OnlyAsked
        <3> QED
            BY <2>1, <3>1, <3>2
    <2>2. \A i \in DOMAIN work' : Promises'[i] \subseteq Asks'[at'][next']
        BY <1>1, <1>3, <1>4, <1>5 DEF Account, OnlyAsked
    <2> QED
        BY <2>1, <2>2 DEF OnlyAsked, askVars
<1>10. AllPromised'
    <2>1. SUFFICES ASSUME signals = 0, NEW c \in Cluster, NEW g \in DOMAIN snapshot,
                          Reached(clusters, pc, at, next, c, g), NEW x \in Asks[c][g]
                   PROVE  \/ x \in ToSet(observed')
                          \/ \E i \in DOMAIN work' : x \in Promises'[i]
        BY <1>1, <1>4, <1>7 DEF AllPromised, askVars
    <2>2. x \in ToSet(observed) \/ \E i \in DOMAIN work : x \in Promises[i]
        BY <2>1 DEF Account, AllPromised
    <2>3. ASSUME NEW i \in DOMAIN work, x \in Promises[i]
          PROVE  \/ x \in Promises[1]
                 \/ \E j \in DOMAIN work' : x \in Promises'[j]
        BY <1>6, <2>3
    <2> QED
        BY <2>2, <2>3
<1>11. Once'
    <2>1. ASSUME NEW i \in DOMAIN work', NEW x \in Promises'[i] PROVE x \notin ToSet(observed')
        <3>1. i + 1 \in DOMAIN work /\ i + 1 # 1 /\ x \in Promises[i + 1]
            BY <1>3, <1>5, <2>1
        <3>2. x \notin ToSet(observed) /\ x \notin Promises[1]
            BY <1>1, <1>2, <3>1 DEF Account, Once
        <3> QED
            BY <3>2
    <2>2. ASSUME NEW i \in DOMAIN work', NEW j \in DOMAIN work', i # j
          PROVE  Promises'[i] \cap Promises'[j] = {}
        <3>1. i + 1 \in DOMAIN work /\ j + 1 \in DOMAIN work /\ i + 1 # j + 1
            BY <1>3, <2>2
        <3>2. Promises[i + 1] \cap Promises[j + 1] = {}
            BY <1>1, <3>1 DEF Account, Once
        <3> QED
            BY <1>5, <3>2
    <2> QED
        BY <2>1, <2>2 DEF Once
<1> QED
    BY <1>9, <1>10, <1>11 DEF Account

\* Nothing the task consists of failed: it promises its own series.
LEMMA FirstEmits ==
    ASSUME TInv, LabelsDone, First.metric.value = None \/ ~Fails
    PROVE  Promises[1] = IF First.family = family THEN {Series(at, First)} ELSE {}
<1>1. Building /\ ~IsForEach /\ labels = Len(First.metric.labels)
    BY DEF LabelsDone
<1>2. /\ First.metric.labels \in Seq(Expr) /\ labels \in Nat
      /\ Promises[1] = Promise(faulty, at, family, First)
    BY <1>1, FirstTask, Promised
<1>3. ASSUME NEW e \in ToSet(First.metric.labels)
      PROVE  <<e, First.obj, First.item>> \notin faulty
    <2>1. PICK i \in 1 .. labels : First.metric.labels[i] = e
        BY <1>1, <1>2, ToSetOfSeq
    <2>2. labels # 0
        BY <1>2, <2>1
    <2> QED
        BY <2>1, <2>2 DEF TInv, Working
<1>4. ASSUME First.metric.value # None
      PROVE  <<First.metric.value, First.obj, First.item>> \notin faulty
    <2>1. Wanted = First.metric.value
        BY <1>1, <1>2 DEF Wanted
    <2> QED
        BY <1>4, <2>1 DEF Fails
<1>5. Fine(faulty, First)
    BY <1>3, <1>4 DEF Fine
<1> QED
    BY <1>1, <1>2, <1>5 DEF Promise, Made, Opens, IsForEach

\* Something it consists of failed: it promises nothing.
LEMMA FirstFails ==
    ASSUME TInv, Building, Wanted # None, Fails
    PROVE  Promises[1] = {}
<1>1. /\ Promises[1] = Promise(faulty, at, family, First) /\ First.metric.labels \in Seq(Expr)
      /\ Len(First.metric.labels) \in Nat /\ labels \in Nat
    BY FirstTask, Promised
<1>2. CASE IsForEach
    <2>1. <<First.metric.forEach, First.obj, None>> \in faulty
        BY <1>2 DEF IsForEach, Wanted, Fails
    <2> QED
        BY <1>1, <1>2, <2>1 DEF Promise, Opens, IsForEach
<1>3. CASE ~IsForEach
    <2>1. Wanted \in ToSet(First.metric.labels) \cup ({First.metric.value} \ {None})
        <3>1. CASE labels < Len(First.metric.labels)
            <4>1. Wanted = First.metric.labels[labels + 1]
                BY <1>3, <3>1 DEF Wanted
            <4>2. labels + 1 \in 1 .. Len(First.metric.labels)
                BY <1>1, <3>1
            <4> QED
                BY <1>1, <4>1, <4>2, ToSetOfSeq
        <3>2. CASE ~(labels < Len(First.metric.labels))
            BY <1>3, <3>2 DEF Wanted
        <3> QED
            BY <3>1, <3>2
    <2>2. ~Fine(faulty, First)
        BY <2>1 DEF Fine, Fails
    <2> QED
        BY <1>1, <1>3, <2>2 DEF Promise, Made, Opens, IsForEach
<1> QED
    BY <1>2, <1>3

\* An error ends a task that promised nothing.
LEMMA FailAccount ==
    ASSUME TInv, Account, Fail
    PROVE  Account'
<1>1. /\ Building /\ Wanted # None /\ Fails /\ work' = Tail(work) /\ observed' = observed
      /\ UNCHANGED <<askVars, seen, pc, at, next, clusters, signals>>
    BY DEF Fail, stepVars, worldVars, callVars, askVars
<1>2. Promises[1] = {}
    BY <1>1, FirstFails
<1>3. observed' \in Seq(AnySeries) /\ IsInjective(observed')
    BY <1>1 DEF Account, Once
<1>4. \A x : x \in ToSet(observed') <=> x \in ToSet(observed) \/ x \in Promises[1]
    BY <1>1, <1>2
<1> QED
    BY <1>1, <1>3, <1>4, TailAccount

\* A sequence without repetitions, and an element it does not have.
LEMMA AppendNew ==
    ASSUME NEW S, NEW s \in Seq(S), IsInjective(s), NEW y \in S, y \notin ToSet(s)
    PROVE  /\ Append(s, y) \in Seq(S) /\ IsInjective(Append(s, y))
           /\ \A x : x \in ToSet(Append(s, y)) <=> x \in ToSet(s) \/ x = y
<1> DEFINE r == Append(s, y)
<1>1. /\ r \in Seq(S) /\ Len(r) = Len(s) + 1 /\ r[Len(s) + 1] = y /\ Len(s) \in Nat
      /\ \A i \in 1 .. Len(s) : r[i] = s[i]
    BY AppendProperties
<1> HIDE DEF r
<1>2. /\ DOMAIN s = 1 .. Len(s) /\ DOMAIN r = 1 .. Len(s) + 1
      /\ \A x : x \in ToSet(s) <=> \E i \in 1 .. Len(s) : s[i] = x
      /\ \A x : x \in ToSet(r) <=> \E i \in 1 .. Len(s) + 1 : r[i] = x
    BY <1>1, ToSetOfSeq
<1>3. \A i \in 1 .. Len(s) + 1 : i \in 1 .. Len(s) \/ i = Len(s) + 1
    BY <1>1
<1>4. Len(s) + 1 \in 1 .. Len(s) + 1 /\ \A i \in 1 .. Len(s) : i \in 1 .. Len(s) + 1
    BY <1>1
<1>5. \A x : x \in ToSet(r) <=> x \in ToSet(s) \/ x = y
    BY <1>1, <1>2, <1>3, <1>4
<1>6. ASSUME NEW i \in DOMAIN r, NEW j \in DOMAIN r, r[i] = r[j] PROVE i = j
    <2>1. CASE i \in 1 .. Len(s) /\ j \in 1 .. Len(s)
        BY <1>1, <1>2, <1>6, <2>1 DEF IsInjective
    <2>2. CASE i = Len(s) + 1 /\ j \in 1 .. Len(s)
        BY <1>1, <1>2, <1>6, <2>2
    <2>3. CASE i \in 1 .. Len(s) /\ j = Len(s) + 1
        BY <1>1, <1>2, <1>6, <2>3
    <2> QED
        BY <1>2, <1>3, <2>1, <2>2, <2>3
<1>7. IsInjective(r)
    BY <1>6 DEF IsInjective
<1> QED
    BY <1>1, <1>5, <1>7 DEF r

\* A measurement observes what its task promised.
LEMMA EmitAccount ==
    ASSUME TInv, Account, EvalValue \/ EmitOne
    PROVE  Account'
<1>1. /\ LabelsDone /\ Building /\ (First.metric.value = None \/ ~Fails)
      /\ work' = Tail(work)
      /\ observed' = IF First.family = family THEN Append(observed, Series(at, First))
                     ELSE observed
      /\ UNCHANGED <<askVars, seen, pc, at, next, clusters, signals>>
    BY DEF EvalValue, EmitOne, Emit, LabelsDone, stepVars, worldVars, callVars, askVars
<1>2. Promises[1] = IF First.family = family THEN {Series(at, First)} ELSE {}
    BY <1>1, FirstEmits
<1>3. observed \in Seq(AnySeries) /\ IsInjective(observed)
    BY DEF Account, Once
<1>4. CASE First.family = family
    <2> DEFINE y == Series(at, First)
    <2>1. Promises[1] = {y} /\ observed' = Append(observed, y)
        BY <1>1, <1>2, <1>4
    <2> HIDE DEF y
    <2>2. y \in Promises[1] /\ Promises[1] = Promise(faulty, at, family, First)
        BY <1>1, <2>1, Promised
    <2>3. y \in AnySeries
        <3>1. at \in Cluster /\ First \in AnyTask
            BY <1>1, FirstTask DEF TInv, TypeOK
        <3> QED
            BY <2>2, <3>1, PromiseSeries
    <2>4. y \notin ToSet(observed)
        BY <1>1, <2>2, Promised DEF Account, Once, Building
    <2>5. /\ observed' \in Seq(AnySeries) /\ IsInjective(observed')
          /\ \A x : x \in ToSet(observed') <=> x \in ToSet(observed) \/ x = y
        BY <1>3, <2>1, <2>3, <2>4, AppendNew
    <2>6. \A x : x \in ToSet(observed') <=> x \in ToSet(observed) \/ x \in Promises[1]
        BY <2>1, <2>5
    <2> QED
        BY <1>1, <2>5, <2>6, TailAccount
<1>5. CASE First.family # family
    <2>1. Promises[1] = {} /\ observed' = observed
        BY <1>1, <1>2, <1>5
    <2>2. /\ observed' \in Seq(AnySeries) /\ IsInjective(observed')
          /\ \A x : x \in ToSet(observed') <=> x \in ToSet(observed) \/ x \in Promises[1]
        BY <1>3, <2>1
    <2> QED
        BY <1>1, <2>2, TailAccount
<1> QED
    BY <1>4, <1>5

\* A sequence in the place of the first element of another.
LEMMA Spliced ==
    ASSUME NEW S, NEW a \in Seq(S), NEW b \in Seq(S), NEW n \in Nat, n = Len(a),
           NEW m \in Nat, m = Len(b)
    PROVE  /\ a \o b \in Seq(S) /\ Len(a \o b) = n + m
           /\ \A i \in 1 .. n : (a \o b)[i] = a[i]
           /\ \A i \in 1 .. m : (a \o b)[n + i] = b[i]
<1>1. /\ a \o b \in Seq(S) /\ Len(a \o b) = n + m
      /\ \A i \in 1 .. n + m : (a \o b)[i] = IF i <= n THEN a[i] ELSE b[i - n]
    BY ConcatProperties
<1>2. \A i \in 1 .. n : i \in 1 .. n + m /\ i <= n
    OBVIOUS
<1>3. \A i \in 1 .. m : n + i \in 1 .. n + m /\ ~(n + i <= n) /\ n + i - n = i
    OBVIOUS
<1> QED
    BY <1>1, <1>2, <1>3

\* The tasks of the items promise between them what the forEach did.
LEMMA ItemsPromise ==
    ASSUME TInv, EvalForEach, NEW n, n = Len(ItemsOf[First.obj])
    PROVE  /\ n \in Nat /\ DOMAIN work' = 1 .. n + Len(work) - 1
           /\ \A i \in 1 .. Len(work) - 1 : Promises'[n + i] = Promises[i + 1]
           /\ \A x : x \in Promises[1] <=> \E i \in 1 .. n : x \in Promises'[i]
           /\ \A i, j \in 1 .. n : i # j => Promises'[i] \cap Promises'[j] = {}
<1> DEFINE items == ItemsOf[First.obj]
           tasks == [i \in DOMAIN items |-> [First EXCEPT !.item = items[i]]]
<1>1. /\ Building /\ IsForEach /\ ~Fails /\ work' = tasks \o Tail(work)
      /\ UNCHANGED <<faulty, at, family>>
    BY DEF EvalForEach, stepVars, worldVars, callVars
<1>2. /\ tasks \in Seq(AnyTask) /\ Len(tasks) = n /\ n \in Nat /\ IsInjective(items)
      /\ DOMAIN items = 1 .. n /\ \A i \in 1 .. n : tasks[i] = [First EXCEPT !.item = items[i]]
    BY <1>1, ItemsGiven
<1> HIDE DEF tasks
<1>3. /\ Tail(work) \in Seq(AnyTask) /\ Len(Tail(work)) = Len(work) - 1
      /\ Len(work) \in Nat /\ Len(work) > 0
      /\ \A i \in 1 .. Len(work) - 1 : Tail(work)[i] = work[i + 1]
      /\ First \in AnyTask
    BY <1>1, FirstTask
<1>4. /\ work' \in Seq(AnyTask) /\ Len(work') = n + Len(work) - 1
      /\ \A i \in 1 .. n : work'[i] = tasks[i]
      /\ \A i \in 1 .. Len(work) - 1 : work'[n + i] = work[i + 1]
    <2> DEFINE rest == Tail(work)
               m == Len(rest)
    <2>1. tasks \in Seq(AnyTask) /\ rest \in Seq(AnyTask) /\ m \in Nat /\ m = Len(rest)
        BY <1>2, <1>3
    <2>2. m = Len(work) - 1 /\ \A i \in 1 .. m : rest[i] = work[i + 1]
        BY <1>3
    <2>3. work' = tasks \o rest
        BY <1>1
    <2> HIDE DEF rest, m
    <2>4. /\ work' \in Seq(AnyTask) /\ Len(work') = n + m
          /\ \A i \in 1 .. n : work'[i] = tasks[i]
          /\ \A i \in 1 .. m : work'[n + i] = rest[i]
        <3>1. tasks \in Seq(AnyTask) /\ n \in Nat /\ n = Len(tasks)
            BY <1>2
        <3>2. /\ tasks \o rest \in Seq(AnyTask) /\ Len(tasks \o rest) = n + m
              /\ \A i \in 1 .. n : (tasks \o rest)[i] = tasks[i]
              /\ \A i \in 1 .. m : (tasks \o rest)[n + i] = rest[i]
            BY <2>1, <3>1, Spliced
        <3> QED
            BY <2>3, <3>2
    <2>5. n + m = n + Len(work) - 1
        BY <1>2, <1>3, <2>2
    <2> QED
        BY <2>2, <2>4, <2>5
<1>5. DOMAIN work' = 1 .. n + Len(work) - 1
    BY <1>4
<1>6. \A i \in DOMAIN work' : Promises'[i] = Promise(faulty, at, family, work'[i])
    BY <1>1 DEF Promises
<1>7. ASSUME NEW i \in 1 .. Len(work) - 1
      PROVE  Promises'[n + i] = Promises[i + 1]
    <2>1. n + i \in DOMAIN work' /\ i + 1 \in DOMAIN work
        BY <1>1, <1>2, <1>3, <1>5, Promised
    <2> QED
        BY <1>1, <1>4, <1>6, <2>1, Promised
<1>8. /\ Opens(First) /\ <<First.metric.forEach, First.obj, None>> \notin faulty
    BY <1>1 DEF IsForEach, Opens, Wanted, Fails
<1>9. ASSUME NEW i \in 1 .. n
      PROVE  /\ Promises'[i] = Made(faulty, at, family, WithItem(First, items[i]))
             /\ WithItem(First, items[i]) \in AnyTask /\ WithItem(First, items[i]).item = items[i]
    <2>1. i \in DOMAIN work' /\ work'[i] = WithItem(First, items[i])
        BY <1>2, <1>3, <1>4, <1>5 DEF WithItem
    <2>2. ItemTask(First, items[i])
        BY <1>2, <1>3, <1>8, PromiseOfItems
    <2> DEFINE u == WithItem(First, items[i])
    <2>3. u \in AnyTask /\ ~Opens(u) /\ u.item = items[i]
        BY <2>2 DEF ItemTask
    <2>4. Promises'[i] = Promise(faulty, at, family, u)
        BY <1>6, <2>1
    <2> HIDE DEF u
    <2>5. Promises'[i] = Made(faulty, at, family, u)
        BY <2>3, <2>4 DEF Promise
    <2> QED
        BY <2>3, <2>5 DEF u
<1>10. ASSUME NEW x
       PROVE  x \in Promises[1] <=> \E i \in 1 .. n : x \in Promises'[i]
    <2>1. x \in Promises[1] <=>
             \E i \in 1 .. n : x \in Made(faulty, at, family, WithItem(First, items[i]))
        <3>1. Promises[1] = Promise(faulty, at, family, First)
            BY <1>1, Promised
        <3> QED
            BY <1>3, <1>8, <3>1, PromiseOfItems
    <2> QED
        BY <1>9, <2>1
<1>11. ASSUME NEW i \in 1 .. n, NEW j \in 1 .. n, i # j
       PROVE  Promises'[i] \cap Promises'[j] = {}
    <2>1. SUFFICES ASSUME NEW x, x \in Promises'[i], x \in Promises'[j] PROVE FALSE
        OBVIOUS
    <2>2. at \in Cluster
        BY DEF TInv, TypeOK
    <2>3. x.item = items[i]
        BY <1>9, <2>1, <2>2, MadeSeries
    <2>4. x.item = items[j]
        BY <1>9, <2>1, <2>2, MadeSeries
    <2> QED
        BY <1>2, <1>11, <2>3, <2>4 DEF IsInjective
<1> QED
    BY <1>2, <1>5, <1>7, <1>10, <1>11

\* The items take over what their forEach promised.
LEMMA ForEachAccount ==
    ASSUME TInv, Account, EvalForEach
    PROVE  Account'
<1> DEFINE n == Len(ItemsOf[First.obj])
<1>1. /\ n \in Nat /\ DOMAIN work' = 1 .. n + Len(work) - 1
      /\ \A i \in 1 .. Len(work) - 1 : Promises'[n + i] = Promises[i + 1]
      /\ \A x : x \in Promises[1] <=> \E i \in 1 .. n : x \in Promises'[i]
      /\ \A i, j \in 1 .. n : i # j => Promises'[i] \cap Promises'[j] = {}
    BY ItemsPromise
<1> HIDE DEF n
<1>2. /\ Building /\ pc = "build"
      /\ UNCHANGED <<askVars, seen, pc, at, next, clusters, observed, signals>>
    BY DEF EvalForEach, Building, stepVars, worldVars, callVars, askVars
<1>3. /\ Len(work) \in Nat /\ Len(work) > 0 /\ DOMAIN work = 1 .. Len(work)
      /\ 1 \in DOMAIN work
    BY <1>2, FirstTask, Promised
<1>4. Asks' = Asks
    BY <1>2 DEF Asks, askVars
<1>5. ASSUME NEW i \in DOMAIN work'
      PROVE  \/ i \in 1 .. n /\ Promises'[i] \subseteq Promises[1]
             \/ /\ i - n \in 1 .. Len(work) - 1 /\ i = n + (i - n)
                /\ i - n + 1 \in DOMAIN work /\ i - n + 1 # 1
                /\ Promises'[i] = Promises[i - n + 1]
    <2>1. CASE i \in 1 .. n
        BY <1>1, <2>1
    <2>2. CASE i \notin 1 .. n
        <3>1. i \in 1 .. n + Len(work) - 1
            BY <1>1
        <3>2. /\ i - n \in 1 .. Len(work) - 1 /\ i = n + (i - n)
              /\ i - n + 1 \in 1 .. Len(work) /\ i - n + 1 # 1
            BY <1>1, <1>3, <2>2, <3>1
        <3>3. Promises'[n + (i - n)] = Promises[i - n + 1]
            BY <1>1, <3>2
        <3> QED
            BY <1>3, <3>2, <3>3
    <2> QED
        BY <2>1, <2>2
<1>6. \A i \in DOMAIN work' : \E k \in DOMAIN work : Promises'[i] \subseteq Promises[k]
    BY <1>3, <1>5
<1>7. ASSUME NEW k \in DOMAIN work, NEW x \in Promises[k]
      PROVE  \E i \in DOMAIN work' : x \in Promises'[i]
    <2>1. CASE k = 1
        <3>1. PICK i \in 1 .. n : x \in Promises'[i]
            BY <1>1, <1>7, <2>1
        <3>2. i \in DOMAIN work'
            BY <1>1, <1>3
        <3> QED
            BY <3>1, <3>2
    <2>2. CASE k # 1
        <3>1. k - 1 \in 1 .. Len(work) - 1 /\ k - 1 + 1 = k
            BY <1>3, <2>2
        <3>2. Promises'[n + (k - 1)] = Promises[k] /\ n + (k - 1) \in DOMAIN work'
            BY <1>1, <1>3, <3>1
        <3> QED
            BY <1>7, <3>2
    <2> QED
        BY <2>1, <2>2
<1>8. \A c, g : Reached(clusters', pc', at', next', c, g) <=>
                   Reached(clusters, pc, at, next, c, g)
    BY <1>2
<1>9. OnlyAsked'
    <2>1. \A x \in ToSet(observed') : \E c \in Cluster, g \in DOMAIN snapshot :
             Reached(clusters', pc', at', next', c, g) /\ x \in Asks'[c][g]
        BY <1>2, <1>4, <1>8 DEF Account, OnlyAsked
    <2>2. \A i \in DOMAIN work' : Promises'[i] \subseteq Asks'[at'][next']
        BY <1>2, <1>4, <1>6 DEF Account, OnlyAsked
    <2> QED
        BY <1>2, <2>1, <2>2 DEF OnlyAsked, askVars
<1>10. AllPromised'
    <2>1. SUFFICES ASSUME signals = 0, NEW c \in Cluster, NEW g \in DOMAIN snapshot,
                          Reached(clusters, pc, at, next, c, g), NEW x \in Asks[c][g]
                   PROVE  \/ x \in ToSet(observed)
                          \/ \E i \in DOMAIN work' : x \in Promises'[i]
        BY <1>2, <1>4, <1>8 DEF AllPromised, askVars
    <2>2. x \in ToSet(observed) \/ \E k \in DOMAIN work : x \in Promises[k]
        BY <2>1 DEF Account, AllPromised
    <2> QED
        BY <1>7, <2>2
<1>11. Once'
    <2>1. \A i \in DOMAIN work' : \A x \in Promises'[i] : x \notin ToSet(observed)
        BY <1>2, <1>6 DEF Account, Once
    <2>2. \A k, l \in DOMAIN work : k # l => Promises[k] \cap Promises[l] = {}
        BY <1>2 DEF Account, Once
    <2>3. ASSUME NEW i \in DOMAIN work', NEW j \in DOMAIN work', i # j
          PROVE  Promises'[i] \cap Promises'[j] = {}
        <3>1. CASE i \in 1 .. n /\ j \in 1 .. n
            BY <1>1, <2>3, <3>1
        <3>2. CASE i \in 1 .. n /\ j \notin 1 .. n
            BY <1>3, <1>5, <2>2, <3>2
        <3>3. CASE i \notin 1 .. n /\ j \in 1 .. n
            BY <1>3, <1>5, <2>2, <3>3
        <3>4. CASE i \notin 1 .. n /\ j \notin 1 .. n
            <4>1. /\ i - n \in Int /\ j - n \in Int /\ i = n + (i - n) /\ j = n + (j - n)
                  /\ i - n + 1 \in DOMAIN work /\ Promises'[i] = Promises[i - n + 1]
                  /\ j - n + 1 \in DOMAIN work /\ Promises'[j] = Promises[j - n + 1]
                BY <1>5, <3>4
            <4>2. i - n + 1 # j - n + 1
                BY <1>1, <2>3, <4>1
            <4> QED
                BY <2>2, <4>1, <4>2
        <3> QED
            BY <3>1, <3>2, <3>3, <3>4
    <2> QED
        BY <1>2, <2>1, <2>3 DEF Account, Once
<1> QED
    BY <1>9, <1>10, <1>11 DEF Account

\* The budget is exhausted: what was observed stays asked for, and observed once.
LEMMA StarveAccount ==
    ASSUME TInv, Account, Starve
    PROVE  Account'
<1>1. /\ pc = "build" /\ pc' = "idle" /\ signals' # 0
      /\ UNCHANGED <<askVars, seen, at, next, clusters, observed>>
    <2>1. signals \in 0 .. 1
        BY DEF TInv, TypeOK
    <2> QED
        BY <2>1 DEF Starve, Building, stepVars, worldVars, callVars, askVars
<1>2. Asks' = Asks
    BY <1>1 DEF Asks, askVars
<1>3. \A c, g : Reached(clusters, pc, at, next, c, g)
                   => Reached(clusters', pc', at', next', c, g)
    BY <1>1 DEF Reached
<1>4. OnlyAsked'
    BY <1>1, <1>2, <1>3 DEF Account, OnlyAsked, askVars
<1>5. AllPromised'
    BY <1>1 DEF AllPromised
<1>6. Once'
    BY <1>1 DEF Account, Once
<1> QED
    BY <1>4, <1>5, <1>6 DEF Account

\* Every step keeps the account.
LEMMA NextAccount == TInv /\ Account /\ [Next]_vars => Account'
<1> SUFFICES ASSUME TInv, Account, [Next]_vars PROVE Account'
    OBVIOUS
<1> DEFINE Frame == UNCHANGED <<askVars, seen, pc, at, next, clusters, work, observed, signals>>
<1> USE DEF worldVars, callVars, buildVars, askVars
<1>1. CASE World
    <2>1. ASSUME NEW c \in Cluster, Outage(c) PROVE Frame
        BY <2>1 DEF Outage
    <2>2. ASSUME NEW c \in Cluster, NEW r \in Resource,
                 Deny(c, r) \/ Drop(c, r) \/ \E objs \in Stores : Fill(c, r, objs)
          PROVE  Frame
        BY <2>2 DEF Deny, Drop, Fill, SetEntry
    <2>3. ASSUME DeadlinePasses PROVE Frame
        BY <2>3 DEF DeadlinePasses
    <2> HIDE DEF Frame
    <2>4. Frame
        BY <1>1, <2>1, <2>2, <2>3 DEF World
    <2> QED
        BY <2>4, FrameAccount DEF Frame
<1>2. CASE \E c \in Cluster : ObserveProjectUp(c)
    <2>1. Frame
        BY <1>2 DEF ObserveProjectUp
    <2> QED
        BY <2>1, FrameAccount
<1>3. CASE \E f \in Family, policies \in Policies : Begin(f, policies)
    BY <1>3, BeginAccount
<1>4. CASE \/ \E c \in Cluster : SuppressCluster(c) \/ LookAtCluster(c)
           \/ Collect \/ SkipGenerator \/ EndBuild \/ EndCluster \/ Return
    BY <1>4, LoopAccount
<1>5. CASE BuildGenerator
    BY <1>5, BuildAccount
<1>6. CASE EvalForEach
    BY <1>6, ForEachAccount
<1>7. CASE EvalLabel
    <2>1. Frame
        BY <1>7 DEF EvalLabel, stepVars
    <2> QED
        BY <2>1, FrameAccount
<1>8. CASE EvalValue \/ EmitOne
    BY <1>8, EmitAccount
<1>9. CASE Fail
    BY <1>9, FailAccount
<1>10. CASE Starve
    BY <1>10, StarveAccount
<1>11. CASE UNCHANGED vars
    <2>1. Frame
        BY <1>11 DEF vars
    <2> QED
        BY <2>1, FrameAccount
<1> HIDE DEF Frame
<1> QED
    BY <1>1, <1>2, <1>3, <1>4, <1>5, <1>6, <1>7, <1>8, <1>9, <1>10, <1>11
    DEF Next, CallbackStep

\* A callback that was not cut short has looked at every control plane.
LEMMA NextLooked == TInv /\ Looked /\ [Next]_vars => Looked'
<1> SUFFICES ASSUME TInv, Looked, [Next]_vars PROVE Looked'
    OBVIOUS
<1> USE DEF worldVars, callVars, buildVars, stepVars, Looked
<1>1. CASE World
    <2>1. UNCHANGED <<pc, clusters, signals>>
        BY <1>1 DEF World, Outage, Deny, Drop, Fill, SetEntry, DeadlinePasses
    <2> QED
        BY <2>1
<1>2. CASE \/ \E c \in Cluster : SuppressCluster(c) \/ LookAtCluster(c)
           \/ Collect \/ SkipGenerator \/ BuildGenerator \/ EndBuild \/ EndCluster \/ Return
    BY <1>2 DEF SuppressCluster, LookAtCluster, Collect, SkipGenerator, BuildGenerator, EndBuild,
                EndCluster, Return
<1>3. CASE EvalForEach \/ EvalLabel \/ EvalValue \/ EmitOne \/ Fail
    <2>1. pc' = "build"
        BY <1>3 DEF EvalForEach, EvalLabel, EvalValue, EmitOne, Fail, LabelsDone, Building
    <2> QED
        BY <2>1
<1>4. CASE Starve
    <2>1. signals' # 0
        BY <1>4 DEF Starve, TInv, TypeOK
    <2> QED
        BY <2>1
<1>5. CASE \E c \in Cluster : ObserveProjectUp(c)
    BY <1>5 DEF ObserveProjectUp
<1>6. CASE \E f \in Family, policies \in Policies : Begin(f, policies)
    BY <1>6 DEF Begin
<1>7. CASE UNCHANGED vars
    BY <1>7 DEF vars
<1> QED
    BY <1>1, <1>2, <1>3, <1>4, <1>5, <1>6, <1>7 DEF Next, CallbackStep

\* Every reachable state keeps the account: what was observed and what the tasks at
\* hand promise is, series for series, what the policies ask for on what was seen.
THEOREM Invariance == Spec => []IInv
<1>1. Init => IInv
    <2>1. Init => Looked
        BY DEF Init, Looked
    <2> QED
        BY <2>1, InitTypes, InitAccount DEF IInv
<1>2. IInv /\ [Next]_vars => IInv'
    BY NextTypes, NextAccount, NextLooked DEF IInv
<1> QED
    BY <1>1, <1>2, PTL DEF Spec

\* What the policies ask for, from their text, is what their generators ask for.
LEMMA AskedBySlices ==
    ASSUME TInv
    PROVE  \A x : x \in AllAsked <=> \E c \in Cluster, g \in DOMAIN snapshot : x \in Asks[c][g]
<1>1. /\ Registry /\ seen \in [Cluster -> [Resource -> Held]]
      /\ \A g \in DOMAIN snapshot : snapshot[g] \in Generators
    BY GeneratorAt DEF TInv, Collecting
<1>2. ASSUME NEW x
      PROVE  x \in AllAsked <=>
                \E c \in Cluster : \E g \in DOMAIN snapshot :
                   /\ ~Husk(snapshot[g])
                   /\ \E k \in DOMAIN snapshot[g].families :
                         /\ snapshot[g].families[k].name = family
                         /\ \E mt \in ToSet(snapshot[g].families[k].metrics) :
                               \E o \in seen[c][snapshot[g].resource] :
                                  Sound(mt) /\ x \in Asked(c, family, mt, o)
    BY DEF AllAsked
<1>3. ASSUME NEW x, NEW c \in Cluster, NEW g \in DOMAIN snapshot,
             NEW k \in DOMAIN snapshot[g].families, snapshot[g].families[k].name = family,
             NEW mt \in ToSet(snapshot[g].families[k].metrics),
             NEW o \in seen[c][snapshot[g].resource]
      PROVE  x \in Asked(c, family, mt, o)
                <=> x \in Promise(faulty, c, family, Task(family, compiled(mt), o, None))
    <2>1. snapshot[g].families[k] \in Families /\ snapshot[g].resource \in Resource
        BY <1>1 DEF Generators
    <2>2. snapshot[g].families[k].metrics \in Seq(Metrics) /\ family \in Name
        BY <1>3, <2>1 DEF Families
    <2>3. mt \in Metrics
        BY <2>2, ToSetOfSeq
    <2>4. o \in Object
        <3>1. seen[c][snapshot[g].resource] \in Held
            BY <1>1, <2>1
        <3> QED
            BY <3>1, StoresAssumption DEF Held
    <2> QED
        BY <2>2, <2>3, <2>4, AskedIsPromised
<1>4. ASSUME NEW x, NEW c \in Cluster, NEW g \in DOMAIN snapshot
      PROVE  x \in Asks[c][g] <=>
                /\ ~Husk(snapshot[g])
                /\ \E k \in DOMAIN snapshot[g].families :
                      /\ snapshot[g].families[k].name = family
                      /\ \E mt \in ToSet(snapshot[g].families[k].metrics) :
                            \E o \in seen[c][snapshot[g].resource] :
                               Sound(mt) /\ x \in Asked(c, family, mt, o)
    <2>1. Asks[c][g] = Slice(faulty, c, family, snapshot[g], seen[c])
        BY DEF Asks
    <2>2. x \in Asks[c][g] <=>
             /\ ~Husk(snapshot[g])
             /\ \E k \in DOMAIN snapshot[g].families :
                   /\ snapshot[g].families[k].name = family
                   /\ \E mt \in ToSet(snapshot[g].families[k].metrics) :
                         \E o \in seen[c][snapshot[g].resource] :
                            /\ Sound(mt)
                            /\ x \in Promise(faulty, c, family,
                                             Task(family, compiled(mt), o, None))
        BY <2>1, SliceMember
    <2> QED
        BY <1>3, <2>2
<1> QED
    BY <1>2, <1>4

\* Whatever fails or runs out, only series that a policy asks for are observed, and
\* each of them once.
THEOREM ObservedIsAsked == Spec => []ObservesOnlyAsked
<1>1. IInv => ObservesOnlyAsked
    <2> SUFFICES ASSUME IInv PROVE ToSet(observed) \subseteq AllAsked /\ IsInjective(observed)
        BY DEF ObservesOnlyAsked
    <2>1. IsInjective(observed)
        BY DEF IInv, Account, Once
    <2>2. ASSUME NEW x \in ToSet(observed)
          PROVE  \E c \in Cluster, g \in DOMAIN snapshot : x \in Asks[c][g]
        BY DEF IInv, Account, OnlyAsked
    <2> QED
        BY <2>1, <2>2, AskedBySlices DEF IInv
<1> QED
    BY <1>1, Invariance, PTL

\* A callback whose budget sufficed has observed every series that a policy asks for:
\* what failed took nothing else with it.
THEOREM AskedIsObserved == Spec => []ObservesAllAsked
<1>1. IInv => ObservesAllAsked
    <2> SUFFICES ASSUME IInv, pc = "idle", signals = 0, NEW x \in AllAsked
                 PROVE  x \in ToSet(observed)
        BY DEF ObservesAllAsked
    <2>1. PICK c \in Cluster, g \in DOMAIN snapshot : x \in Asks[c][g]
        BY AskedBySlices DEF IInv
    <2>2. Reached(clusters, pc, at, next, c, g)
        BY DEF IInv, Looked, Reached
    <2> QED
        BY <2>1, <2>2 DEF IInv, Account, AllPromised
<1> QED
    BY <1>1, Invariance, PTL

===============================================================================
