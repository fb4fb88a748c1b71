--------------------------- MODULE DeviceA2AVProofs ---------------------------
(***************************************************************************)
(* Proofs about the device all-to-all-v, for every number of ranks, blocks   *)
(* and calls and for all splits: that the blocks with an index meet in       *)
(* blockwise_barrier, and that therefore the copies are exact.               *)
(***************************************************************************)
EXTENDS DeviceA2AV, FiniteSetTheorems, SequenceTheorems, WellFoundedInduction, TLAPS

-----------------------------------------------------------------------------
(* Sums and concatenations, as the community modules define them.          *)

\* Among sets of subsets of a finite set there is one without a smaller one.
LEMMA LeastSubset ==
  ASSUME NEW S, IsFiniteSet(S), NEW W \in SUBSET (SUBSET S), W # {}
  PROVE  \E T \in W : \A U \in W : U \subseteq T => U = T
<1>1. W \subseteq FiniteSubsetsOf(S)
  BY FS_FiniteSubsetsOfFinite
<1>2. \E T \in W : \A U \in W : <<U, T>> \notin StrictSubsetOrdering(S)
  BY <1>1, FS_StrictSubsetOrderingWellFounded, WFMin
<1>3. QED
  BY <1>2 DEF StrictSubsetOrdering

\* As many units as the sum of f over T.
Units(f, T) == {p \in T \X Nat : p[2] < f[p[1]]}

\* There are finitely many of them.
LEMMA UnitsFinite ==
  ASSUME NEW T, IsFiniteSet(T), NEW f, \A x \in T : f[x] \in Nat
  PROVE  IsFiniteSet(Units(f, T)) /\ Cardinality(Units(f, T)) \in Nat
<1> DEFINE part == [x \in T |-> {x} \X (0 .. f[x] - 1)]
           parts == {part[x] : x \in T}
<1>1. part \in Surjection(T, parts)
  BY DEF Surjection
<1>2. IsFiniteSet(parts)
  BY <1>1, FS_Surjection
<1>3. ASSUME NEW P \in parts PROVE IsFiniteSet(P)
  <2>1. PICK x \in T : P = {x} \X (0 .. f[x] - 1)
    OBVIOUS
  <2>2. IsFiniteSet({x}) /\ IsFiniteSet(0 .. f[x] - 1)
    <3>1. 0 \in Int /\ f[x] - 1 \in Int
      OBVIOUS
    <3>2. QED
      BY <3>1, FS_Singleton, FS_Interval
  <2>3. QED
    BY <2>1, <2>2, FS_Product
<1>4. IsFiniteSet(UNION parts)
  BY <1>2, <1>3, FS_UNION
<1>5. Units(f, T) \in SUBSET (UNION parts)
  BY DEF Units
<1>6. QED
  BY <1>4, <1>5, FS_Subset, FS_CardinalityType

\* One element contributes its value.
LEMMA UnitsOfElement ==
  ASSUME NEW T, IsFiniteSet(T), NEW f, \A x \in T : f[x] \in Nat, NEW x \in T
  PROVE  Cardinality(Units(f, T)) = f[x] + Cardinality(Units(f, T \ {x}))
<1> DEFINE own == {x} \X (0 .. f[x] - 1)
           rest == Units(f, T \ {x})
<1>1. Units(f, T) = own \cup rest /\ own \cap rest = {}
  BY DEF Units
<1>2. IsFiniteSet(own) /\ Cardinality(own) = f[x]
  <2>1. IsFiniteSet({x}) /\ Cardinality({x}) = 1
    BY FS_Singleton
  <2>2. IsFiniteSet(0 .. f[x] - 1) /\ Cardinality(0 .. f[x] - 1) = f[x]
    BY FS_Interval
  <2>3. IsFiniteSet(own) /\ Cardinality(own) = 1 * f[x]
    BY <2>1, <2>2, FS_Product
  <2>4. QED
    BY <2>3
<1>3. IsFiniteSet(rest) /\ Cardinality(rest) \in Nat
  <2>1. IsFiniteSet(T \ {x})
    BY FS_RemoveElement
  <2>2. QED
    BY <2>1, UnitsFinite
<1>4. Cardinality({}) = 0
  BY FS_EmptySet
<1> HIDE DEF own, rest
<1>5. Cardinality(own \cup rest) = f[x] + Cardinality(rest)
  BY <1>1, <1>2, <1>3, <1>4, FS_Union
<1>6. QED
  BY <1>1, <1>5 DEF rest

Pick(T) == CHOOSE x \in T : TRUE

\* The sum of the community module is the function that takes away one element
\* after the other.
SumBody(f, S, g) == [T \in SUBSET S |-> IF T = {} THEN 0 ELSE f[Pick(T)] + g[T \ {Pick(T)}]]

LEMMA SumUnfolds ==
  ASSUME NEW f, NEW S
  PROVE  SumFunctionOnSet(f, S) = (CHOOSE g : g = SumBody(f, S, g))[S]
BY DEF SumFunctionOnSet, FoldFunctionOnSet, MapThenFoldSet, SumBody, Pick

\* In whatever order: the function that counts the units satisfies the recursion,
\* and a smallest set on which the two differ would have an element to take away.
LEMMA SumIsCardinality ==
  ASSUME NEW S, IsFiniteSet(S), NEW f, \A x \in S : f[x] \in Nat
  PROVE  SumFunctionOnSet(f, S) = Cardinality(Units(f, S))
<1> DEFINE sum == CHOOSE g : g = SumBody(f, S, g)
           count == [T \in SUBSET S |-> Cardinality(Units(f, T))]
<1>1. \A T \in SUBSET S : IsFiniteSet(T) /\ Cardinality(T) \in Nat
  BY FS_Subset, FS_CardinalityType
<1>2. \A T \in SUBSET S : T # {} => Pick(T) \in T
  BY DEF Pick
<1>3. count[{}] = 0
  <2>1. Units(f, {}) = {}
    BY DEF Units
  <2>2. QED
    BY <2>1, FS_EmptySet
<1>4. ASSUME NEW T \in SUBSET S, T # {}
      PROVE  count[T] = f[Pick(T)] + count[T \ {Pick(T)}]
  <2>1. IsFiniteSet(T) /\ Pick(T) \in T /\ \A x \in T : f[x] \in Nat
    BY <1>1, <1>2, <1>4
  <2>2. QED
    BY <2>1, UnitsOfElement
<1>5. count = SumBody(f, S, count)
  BY <1>3, <1>4 DEF SumBody
<1>6. sum = SumBody(f, S, sum)
  <2> HIDE DEF count
  <2>1. \E g : g = SumBody(f, S, g)
    BY <1>5
  <2>2. QED
    BY <2>1
<1> HIDE DEF sum, count
<1>7. \A T \in SUBSET S : sum[T] = count[T]
  <2> DEFINE wrong == {T \in SUBSET S : sum[T] # count[T]}
  <2> SUFFICES ASSUME wrong # {} PROVE FALSE
    OBVIOUS
  <2>1. wrong \in SUBSET (SUBSET S) /\ \A U \in SUBSET S : U \in wrong <=> sum[U] # count[U]
    OBVIOUS
  <2> HIDE DEF wrong
  <2>2. PICK T \in wrong : \A U \in wrong : U \subseteq T => U = T
    BY <2>1, LeastSubset
  <2>3. T \in SUBSET S /\ sum[T] # count[T]
    BY <2>1
  <2>4. T # {}
    BY <1>3, <1>6, <2>3 DEF SumBody
  <2> DEFINE rest == T \ {Pick(T)}
  <2>5. rest \in SUBSET S /\ rest \subseteq T /\ rest # T
    BY <1>2, <2>3, <2>4
  <2>6. sum[rest] = count[rest]
    BY <2>1, <2>5, <2>2
  <2>7. sum[T] = f[Pick(T)] + sum[rest]
    BY <1>6, <2>3, <2>4 DEF SumBody
  <2>8. QED
    BY <1>4, <2>3, <2>4, <2>6, <2>7
<1>8. QED
  BY <1>7, SumUnfolds DEF sum, count

\* The sum of the first n values.
Total(f, n) == SumFunctionOnSet(f, 0 .. n - 1)

LEMMA TotalIsCardinality ==
  ASSUME NEW n \in Nat, NEW f, \A t \in 0 .. n - 1 : f[t] \in Nat
  PROVE  /\ Total(f, n) = Cardinality(Units(f, 0 .. n - 1)) /\ Total(f, n) \in Nat
         /\ IsFiniteSet(Units(f, 0 .. n - 1))
<1>1. IsFiniteSet(0 .. n - 1)
  BY FS_Interval
<1>2. QED
  BY <1>1, SumIsCardinality, UnitsFinite DEF Total

\* The next value is added.
LEMMA TotalSteps ==
  ASSUME NEW n \in Nat, NEW f, \A t \in 0 .. n : f[t] \in Nat
  PROVE  Total(f, n) \in Nat /\ Total(f, n + 1) = Total(f, n) + f[n]
<1>1. Total(f, n) = Cardinality(Units(f, 0 .. n - 1)) /\ Total(f, n) \in Nat
  BY TotalIsCardinality
<1>2. Total(f, n + 1) = Cardinality(Units(f, 0 .. n))
  <2>1. n + 1 \in Nat /\ (n + 1) - 1 = n
    OBVIOUS
  <2>2. QED
    BY <2>1, TotalIsCardinality
<1>3. IsFiniteSet(0 .. n) /\ (0 .. n) \ {n} = 0 .. n - 1 /\ n \in 0 .. n
  <2>1. IsFiniteSet(0 .. n)
    BY FS_Interval
  <2>2. (0 .. n) \ {n} = 0 .. n - 1 /\ n \in 0 .. n
    OBVIOUS
  <2>3. QED
    BY <2>1, <2>2
<1>4. Cardinality(Units(f, 0 .. n)) = f[n] + Cardinality(Units(f, 0 .. n - 1))
  BY <1>3, UnitsOfElement
<1>5. QED
  BY <1>1, <1>2, <1>4

LEMMA TotalOfNone == \A f : Total(f, 0) = 0
<1> TAKE f
<1>1. Units(f, 0 .. 0 - 1) = {}
  BY DEF Units
<1>2. Total(f, 0) = Cardinality(Units(f, 0 .. 0 - 1))
  BY TotalIsCardinality
<1>3. QED
  BY <1>1, <1>2, FS_EmptySet

\* Sums of more values are not smaller.
LEMMA TotalGrows ==
  ASSUME NEW m \in Nat, NEW n \in Nat, m <= n, NEW f, \A t \in 0 .. n - 1 : f[t] \in Nat
  PROVE  Total(f, m) \in Nat /\ Total(f, n) \in Nat /\ Total(f, m) <= Total(f, n)
<1>1. /\ Total(f, n) = Cardinality(Units(f, 0 .. n - 1)) /\ Total(f, n) \in Nat
      /\ IsFiniteSet(Units(f, 0 .. n - 1))
  BY TotalIsCardinality
<1>2. Total(f, m) = Cardinality(Units(f, 0 .. m - 1)) /\ Total(f, m) \in Nat
  BY TotalIsCardinality
<1>3. Units(f, 0 .. m - 1) \in SUBSET Units(f, 0 .. n - 1)
  BY DEF Units
<1>4. QED
  BY <1>1, <1>2, <1>3, FS_Subset

\* How the program's sums over 0 .. n - 1 are totals.
LEMMA SumIsTotal ==
  ASSUME NEW n \in Nat, NEW f, NEW g, DOMAIN g = 0 .. n - 1,
         \A t \in 0 .. n - 1 : g[t] = f[t] /\ f[t] \in Nat
  PROVE  SumFunction(g) = Total(f, n)
<1>1. SumFunction(g) = Total(g, n)
  BY DEF SumFunction, Total
<1>2. Units(g, 0 .. n - 1) = Units(f, 0 .. n - 1)
  BY DEF Units
<1>3. QED
  BY <1>1, <1>2, TotalIsCardinality

\* Every set of indices has a least one.
LEMMA LeastIndex ==
  ASSUME NEW n \in Nat, NEW N \in SUBSET (1 .. n), N # {}
  PROVE  \E i \in N : \A j \in N : i <= j
<1> DEFINE S == 1 .. n
           W == {1 .. i : i \in N}
<1>1. IsFiniteSet(S)
  BY FS_Interval
<1>2. W \in SUBSET (SUBSET S) /\ W # {}
  <2>1. \A i \in N : 1 .. i \in SUBSET S
    OBVIOUS
  <2>2. QED
    BY <2>1
<1>3. PICK T \in W : \A U \in W : U \subseteq T => U = T
  <2> HIDE DEF S, W
  <2>1. QED
    BY <1>1, <1>2, LeastSubset
<1>4. PICK i \in N : T = 1 .. i
  BY <1>3
<1>5. ASSUME NEW j \in N, j < i PROVE FALSE
  <2>1. 1 .. j \in W /\ 1 .. j \subseteq 1 .. i
    BY <1>5
  <2>2. 1 .. j = 1 .. i
    BY <1>3, <1>4, <2>1
  <2>3. i \in 1 .. i /\ i \notin 1 .. j
    BY <1>5
  <2>4. QED
    BY <2>2, <2>3
<1>6. QED
  BY <1>5

\* The concatenation of the community module appends one part after the other.
FlattenBody(seqs, g) == [i \in 1 .. Len(seqs) |-> IF i = 1 THEN seqs[i] ELSE g[i - 1] \o seqs[i]]

LEMMA FlattenUnfolds ==
  ASSUME NEW seqs, Len(seqs) # 0
  PROVE  FlattenSeq(seqs) = (CHOOSE g : g = FlattenBody(seqs, g))[Len(seqs)]
BY DEF FlattenSeq, FlattenBody

LEMMA ConcatAt ==
  ASSUME NEW E, NEW a \in Seq(E), NEW b \in Seq(E)
  PROVE  /\ a \o b \in Seq(E) /\ Len(a \o b) = Len(a) + Len(b)
         /\ \A p \in 1 .. Len(a) : (a \o b)[p] = a[p]
         /\ \A p \in 1 .. Len(b) : (a \o b)[Len(a) + p] = b[p]
OBVIOUS

\* Such a function exists, built part by part.
LEMMA FlattenExists ==
  ASSUME NEW n \in Nat \ {0}, NEW seqs, Len(seqs) = n
  PROVE  \E g : g = FlattenBody(seqs, g)
<1> DEFINE body(i, g) == [j \in 1 .. i |-> IF j = 1 THEN seqs[j] ELSE g[j - 1] \o seqs[j]]
           wrong == {i \in 1 .. n : ~ \E g : g = body(i, g)}
<1>1. wrong \in SUBSET (1 .. n) /\ \A i \in 1 .. n : i \in wrong <=> ~ \E g : g = body(i, g)
  OBVIOUS
<1> SUFFICES wrong = {}
  <2>1. n \in 1 .. n
    OBVIOUS
  <2> HIDE DEF wrong
  <2>2. PICK g : g = body(n, g)
    BY <1>1, <2>1
  <2>3. QED
    BY <2>2 DEF FlattenBody
<1> SUFFICES ASSUME wrong # {} PROVE FALSE
  OBVIOUS
<1>2. PICK i \in wrong : \A j \in wrong : i <= j
  <2> HIDE DEF wrong
  <2>1. QED
    BY <1>1, LeastIndex
<1>3. i \in 1 .. n /\ ~ \E g : g = body(i, g)
  BY <1>1
<1> HIDE DEF wrong
<1>4. CASE i = 1
  <2> DEFINE h == [j \in 1 .. 1 |-> seqs[j]]
  <2>1. h = body(1, h)
    OBVIOUS
  <2>2. QED
    BY <1>3, <1>4, <2>1
<1>5. CASE i # 1
  <2>1. i - 1 \in 1 .. n /\ i - 1 \notin wrong
    BY <1>2, <1>3, <1>5
  <2>2. PICK g : g = body(i - 1, g)
    BY <1>1, <2>1
  <2> DEFINE h == [j \in 1 .. i |-> IF j = i THEN g[i - 1] \o seqs[i] ELSE g[j]]
  <2>3. \A j \in 1 .. i - 1 : h[j] = g[j] /\ g[j] = IF j = 1 THEN seqs[j] ELSE g[j - 1] \o seqs[j]
    <3>1. \A j \in 1 .. i - 1 : g[j] = body(i - 1, g)[j]
      BY <2>2
    <3>2. \A j \in 1 .. i - 1 : body(i - 1, g)[j] = IF j = 1 THEN seqs[j] ELSE g[j - 1] \o seqs[j]
      OBVIOUS
    <3>3. \A j \in 1 .. i - 1 : j \in 1 .. i /\ j # i
      BY <1>3
    <3>4. QED
      BY <3>1, <3>2, <3>3
  <2>4. \A j \in 1 .. i : j # i => j \in 1 .. i - 1 /\ (j # 1 => j - 1 \in 1 .. i - 1)
    BY <1>3
  <2>5. i - 1 \in 1 .. i - 1
    BY <1>3, <1>5
  <2>6. \A j \in 1 .. i : h[j] = IF j = 1 THEN seqs[j] ELSE h[j - 1] \o seqs[j]
    <3> SUFFICES ASSUME NEW j \in 1 .. i
                 PROVE  h[j] = IF j = 1 THEN seqs[j] ELSE h[j - 1] \o seqs[j]
      OBVIOUS
    <3>1. CASE j = i
      BY <1>5, <2>3, <2>5, <3>1
    <3>2. CASE j # i
      <4> HIDE DEF h
      <4>1. QED
        BY <2>3, <2>4, <3>2
    <3>3. QED
      BY <3>1, <3>2
  <2>7. h = body(i, h)
    BY <2>6
  <2>8. QED
    BY <1>3, <2>7
<1>6. QED
  BY <1>4, <1>5

\* n sequences over E with the lengths f.
Lengths(E, seqs, n, f) ==
  /\ seqs \in Seq(Seq(E)) /\ n \in Nat \ {0} /\ Len(seqs) = n
  /\ \A s \in 0 .. n - 1 : f[s] = Len(seqs[s + 1])

\* Their elements are found after those of the sequences before.
Concatenates(E, seqs, n, f) ==
  /\ FlattenSeq(seqs) \in Seq(E) /\ Len(FlattenSeq(seqs)) = Total(f, n)
  /\ \A s \in 0 .. n - 1 : \A p \in 1 .. f[s] :
       FlattenSeq(seqs)[Total(f, s) + p] = seqs[s + 1][p]

LEMMA FlattenAt ==
  ASSUME NEW E, NEW seqs, NEW n, NEW f, Lengths(E, seqs, n, f)
  PROVE  Concatenates(E, seqs, n, f)
<1>0. /\ seqs \in Seq(Seq(E)) /\ n \in Nat \ {0} /\ Len(seqs) = n
      /\ \A s \in 0 .. n - 1 : f[s] = Len(seqs[s + 1])
  BY DEF Lengths
<1> USE <1>0
<1> DEFINE flat == CHOOSE g : g = FlattenBody(seqs, g)
<1>1. FlattenSeq(seqs) = flat[n]
  BY FlattenUnfolds
<1>2. flat = FlattenBody(seqs, flat)
  BY FlattenExists
<1> HIDE DEF flat
<1>3. \A i \in 1 .. n : flat[i] = IF i = 1 THEN seqs[i] ELSE flat[i - 1] \o seqs[i]
  <2>1. \A i \in 1 .. n : FlattenBody(seqs, flat)[i] = IF i = 1 THEN seqs[i] ELSE flat[i - 1] \o seqs[i]
    BY DEF FlattenBody
  <2>2. QED
    BY <1>2, <2>1
<1>4. \A s \in 0 .. n - 1 : seqs[s + 1] \in Seq(E) /\ f[s] \in Nat
  <2>1. \A s \in 0 .. n - 1 : seqs[s + 1] \in Seq(E)
    OBVIOUS
  <2>2. QED
    BY <2>1
<1> DEFINE good(i) == /\ flat[i] \in Seq(E) /\ Len(flat[i]) = Total(f, i)
                      /\ \A s \in 0 .. i - 1 : \A p \in 1 .. f[s] : flat[i][Total(f, s) + p] = seqs[s + 1][p]
           wrong == {i \in 1 .. n : ~good(i)}
<1> SUFFICES wrong = {}
  <2>1. n \in 1 .. n
    OBVIOUS
  <2>2. good(n)
    <3> HIDE DEF good
    <3>1. QED
      BY <2>1
  <2>3. QED
    BY <1>1, <2>2 DEF Concatenates
<1> SUFFICES ASSUME wrong # {} PROVE FALSE
  OBVIOUS
<1>5. wrong \in SUBSET (1 .. n) /\ \A i \in 1 .. n : i \in wrong <=> ~good(i)
  OBVIOUS
<1>6. PICK i \in wrong : \A j \in wrong : i <= j
  <2> HIDE DEF wrong
  <2>1. QED
    BY <1>5, LeastIndex
<1>7. i \in 1 .. n /\ ~good(i)
  BY <1>5
<1> HIDE DEF wrong
<1>8. CASE i = 1
  <2>1. flat[1] = seqs[1] /\ seqs[1] \in Seq(E) /\ f[0] = Len(seqs[1]) /\ f[0] \in Nat
    BY <1>3, <1>4, <1>7, <1>8
  <2>2. Total(f, 0) = 0 /\ Total(f, 1) = f[0]
    <3>1. \A t \in 0 .. 0 : f[t] \in Nat
      BY <2>1
    <3>2. Total(f, 0 + 1) = Total(f, 0) + f[0]
      BY <3>1, TotalSteps
    <3>3. QED
      BY <2>1, <3>2, TotalOfNone
  <2>3. QED
    BY <1>7, <1>8, <2>1, <2>2
<1>9. CASE i # 1
  <2>1. PICK j \in 1 .. n : i = j + 1 /\ j = i - 1
    BY <1>7, <1>9
  <2>2. good(j)
    <3> HIDE DEF good
    <3>1. j \notin wrong
      BY <1>6, <1>7, <2>1
    <3>2. QED
      BY <1>5, <3>1
  <2>3. /\ flat[j] \in Seq(E) /\ Len(flat[j]) = Total(f, j)
        /\ \A s \in 0 .. j - 1 : \A p \in 1 .. f[s] : flat[j][Total(f, s) + p] = seqs[s + 1][p]
    BY <2>2
  <2>4. flat[i] = flat[j] \o seqs[i] /\ seqs[i] \in Seq(E) /\ f[j] = Len(seqs[i]) /\ f[j] \in Nat
    <3>1. j \in 0 .. n - 1
      BY <1>7, <2>1
    <3>2. flat[i] = flat[j] \o seqs[i]
      BY <1>3, <1>7, <1>9, <2>1
    <3>3. seqs[j + 1] \in Seq(E) /\ f[j] \in Nat /\ f[j] = Len(seqs[j + 1])
      BY <1>4, <3>1
    <3>4. QED
      BY <2>1, <3>2, <3>3
  <2>5. Total(f, i) = Total(f, j) + f[j] /\ Total(f, j) \in Nat
    <3>1. \A t \in 0 .. j : f[t] \in Nat
      BY <1>4, <1>7, <2>1
    <3>2. QED
      BY <2>1, <3>1, TotalSteps
  <2> HIDE DEF good
  <2>6. /\ flat[i] \in Seq(E) /\ Len(flat[i]) = Len(flat[j]) + Len(seqs[i])
        /\ \A p \in 1 .. Len(flat[j]) : flat[i][p] = flat[j][p]
        /\ \A p \in 1 .. Len(seqs[i]) : flat[i][Len(flat[j]) + p] = seqs[i][p]
    <3> DEFINE a == flat[j]
               b == seqs[i]
    <3>1. a \in Seq(E) /\ b \in Seq(E) /\ flat[i] = a \o b
      BY <2>3, <2>4
    <3> HIDE DEF a, b
    <3>2. /\ flat[i] \in Seq(E) /\ Len(flat[i]) = Len(a) + Len(b)
          /\ \A p \in 1 .. Len(a) : flat[i][p] = a[p]
          /\ \A p \in 1 .. Len(b) : flat[i][Len(a) + p] = b[p]
      BY <3>1, ConcatAt
    <3>3. QED
      BY <3>2 DEF a, b
  <2>7. flat[i] \in Seq(E) /\ Len(flat[i]) = Total(f, i)
    BY <2>3, <2>4, <2>5, <2>6
  <2>8. ASSUME NEW s \in 0 .. i - 1, NEW p \in 1 .. f[s]
        PROVE  flat[i][Total(f, s) + p] = seqs[s + 1][p]
    <3>1. CASE s = j
      <4>1. p \in 1 .. Len(seqs[i]) /\ Total(f, s) = Len(flat[j]) /\ s + 1 = i
        BY <2>1, <2>3, <2>4, <3>1
      <4>2. QED
        BY <2>6, <4>1
    <3>2. CASE s # j
      <4>1. s \in 0 .. j - 1 /\ s \in Nat /\ f[s] \in Nat /\ s + 1 <= j
        BY <1>4, <1>7, <2>1, <3>2
      <4>2. flat[j][Total(f, s) + p] = seqs[s + 1][p]
        BY <2>3, <4>1
      <4>3. Total(f, s + 1) = Total(f, s) + f[s] /\ Total(f, s) \in Nat /\ Total(f, s + 1) <= Total(f, j)
        <5>1. \A t \in 0 .. s : f[t] \in Nat
          BY <1>4, <2>1, <4>1
        <5>2. \A t \in 0 .. j - 1 : f[t] \in Nat
          BY <1>4, <2>1
        <5>3. s + 1 \in Nat
          BY <4>1
        <5>4. QED
          BY <2>1, <4>1, <5>1, <5>2, <5>3, TotalSteps, TotalGrows
      <4>4. Total(f, s) + p \in 1 .. Len(flat[j])
        BY <2>3, <2>5, <4>1, <4>3
      <4>5. QED
        BY <2>6, <4>2, <4>4
    <3>3. QED
      BY <3>1, <3>2
  <2>9. QED
    BY <1>7, <2>8, <2>7 DEF good
<1>10. QED
  BY <1>8, <1>9

\* Every place belongs to one part.
LEMMA PlaceOf ==
  ASSUME NEW n \in Nat, NEW f, \A s \in 0 .. n - 1 : f[s] \in Nat, NEW p \in 1 .. Total(f, n)
  PROVE  \E s \in 0 .. n - 1 : p \in Total(f, s) + 1 .. Total(f, s) + f[s]
<1> DEFINE N == {j \in 1 .. n : p <= Total(f, j)}
<1>1. n # 0 /\ n \in N
  BY TotalOfNone
<1>2. N \in SUBSET (1 .. n) /\ \A j \in 1 .. n : j \in N <=> p <= Total(f, j)
  OBVIOUS
<1> HIDE DEF N
<1>3. PICK i \in N : \A j \in N : i <= j
  BY <1>1, <1>2, LeastIndex
<1> DEFINE s == i - 1
<1>4. s \in Nat /\ s \in 0 .. n - 1 /\ i = s + 1 /\ i \in 1 .. n
  BY <1>2
<1>5. Total(f, i) = Total(f, s) + f[s] /\ Total(f, s) \in Nat
  <2>1. \A t \in 0 .. s : f[t] \in Nat
    BY <1>4
  <2>2. QED
    BY <1>4, <2>1, TotalSteps
<1>6. Total(f, s) < p
  <2>1. CASE s = 0
    BY <2>1, TotalOfNone
  <2>2. CASE s # 0
    <3>1. s \in 1 .. n /\ s \notin N
      BY <1>3, <1>4, <2>2
    <3>2. QED
      BY <1>2, <1>5, <3>1
  <2>3. QED
    BY <2>1, <2>2
<1>7. p <= Total(f, i)
  BY <1>2, <1>4
<1>8. QED
  BY <1>4, <1>5, <1>6, <1>7
-----------------------------------------------------------------------------
(* The shares of the blocks.                                               *)

LEMMA DivMod ==
  ASSUME NEW a \in Nat, NEW b \in Nat \ {0}
  PROVE  /\ a \div b \in Nat /\ a % b \in 0 .. b - 1
         /\ a = b * (a \div b) + (a % b)
OBVIOUS

LEMMA DivUnique ==
  ASSUME NEW b \in Nat \ {0}, NEW q \in Int, NEW i \in 0 .. b - 1
  PROVE  (b * q + i) \div b = q /\ (b * q + i) % b = i
OBVIOUS

LEMMA MulGrows ==
  ASSUME NEW a \in Nat, NEW b \in Nat, NEW c \in Nat, b <= c
  PROVE  a * b \in Nat /\ a * c \in Nat /\ a * b <= a * c
OBVIOUS

\* The quotient, rounded up, times the divisor.
LEMMA CeilDivCovers ==
  ASSUME NEW a \in Nat, NEW b \in Nat \ {0}
  PROVE  CeilDiv(a, b) \in Nat /\ a <= b * CeilDiv(a, b) /\ (a = 0 => CeilDiv(a, b) = 0)
<1>1. a + b - 1 \in Nat
  OBVIOUS
<1> DEFINE q == (a + b - 1) \div b
           m == (a + b - 1) % b
<1>2. q \in Nat /\ m \in 0 .. b - 1 /\ a + b - 1 = b * q + m
  BY <1>1, DivMod
<1>3. b * q \in Int
  BY <1>2
<1> HIDE DEF q, m
<1>4. a <= b * q
  BY <1>2, <1>3
<1>5. a = 0 => q = 0
  <2> SUFFICES ASSUME a = 0 PROVE q = 0
    OBVIOUS
  <2>1. (b * 0 + (b - 1)) \div b = 0
    BY DivUnique
  <2>2. QED
    BY <2>1 DEF q
<1>6. QED
  BY <1>2, <1>4, <1>5 DEF q, CeilDiv

LEMMA MinMax ==
  ASSUME NEW a \in Int, NEW b \in Int
  PROVE  /\ Min({a, b}) = IF a <= b THEN a ELSE b
         /\ Max({a, b}) = IF a >= b THEN a ELSE b
<1>1. PICK x \in {a, b} : \A y \in {a, b} : x <= y
  OBVIOUS
<1>2. Min({a, b}) \in {a, b} /\ \A y \in {a, b} : Min({a, b}) <= y
  BY <1>1 DEF Min
<1>3. PICK z \in {a, b} : \A y \in {a, b} : z >= y
  OBVIOUS
<1>4. Max({a, b}) \in {a, b} /\ \A y \in {a, b} : Max({a, b}) >= y
  BY <1>3 DEF Max
<1>5. QED
  BY <1>2, <1>4

ConfigFits == config \in Configs

LEMMA ConfigSizes ==
  ASSUME ConfigFits
  PROVE  /\ config.world \in Nat \ {0} /\ config.blocksPerRank \in Nat \ {0}
         /\ config.unroll \in Nat \ {0} /\ config.blockSize \in Nat \ {0}
<1>1. config \in ConfigType
  BY ConfigAssumption DEF ConfigFits, ConfigAccepts
<1>2. QED
  BY <1>1 DEF ConfigType

Step == config.blockSize * config.unroll
PerBlock(numel) == Step * ItersPerBlock(numel)

\* Together the blocks of a remote rank have steps enough.
LEMMA SharesSuffice ==
  ASSUME ConfigFits, NEW numel \in Nat
  PROVE  /\ Step \in Nat \ {0} /\ ItersPerBlock(numel) \in Nat /\ PerBlock(numel) \in Nat
         /\ numel <= PerBlock(numel) * config.blocksPerRank
<1> DEFINE b == config.blocksPerRank
           x == CeilDiv(numel, Step)
           y == CeilDiv(x, b)
<1>1. Step \in Nat \ {0} /\ b \in Nat \ {0}
  <2>1. \A m, n \in Nat \ {0} : m * n \in Nat \ {0}
    OBVIOUS
  <2>2. QED
    BY <2>1, ConfigSizes DEF Step
<1>2. x \in Nat /\ numel <= Step * x
  BY <1>1, CeilDivCovers
<1>3. y \in Nat /\ x <= b * y
  BY <1>1, <1>2, CeilDivCovers
<1>4. ItersPerBlock(numel) = y
  BY DEF ItersPerBlock, Step
<1> HIDE DEF x, y, b
<1>5. b * y \in Nat /\ Step * x <= Step * (b * y) /\ Step * x \in Nat /\ Step * (b * y) \in Nat
  <2>1. b * y \in Nat
    BY <1>1, <1>3
  <2>2. QED
    BY <1>1, <1>2, <1>3, <2>1, MulGrows
<1>6. Step * (b * y) = (Step * y) * b /\ Step * y \in Nat
  BY <1>1, <1>3
<1>7. numel <= (Step * y) * b
  BY <1>2, <1>5, <1>6
<1>8. QED
  BY <1>1, <1>3, <1>4, <1>6, <1>7 DEF PerBlock, b

\* The unrolled region and the rest are what the block's range leaves of the rows.
LEMMA ShareIsRange ==
  ASSUME ConfigFits, NEW numel \in Nat, NEW i \in Nat
  PROVE  Share(numel, i) = {o \in 0 .. numel - 1 : PerBlock(numel) * i <= o /\ o < PerBlock(numel) * (i + 1)}
<1> DEFINE bs == config.blockSize
           step == Step
           per == PerBlock(numel)
           start == per * i
           end == Min({per * (i + 1), numel})
           unrolledEnd == start + TruncDiv(end - start, step) * step
           restEnd == unrolledEnd + CeilDiv(Max({end - unrolledEnd, 0}), bs) * bs
<1>1. Share(numel, i) = (start .. unrolledEnd - 1) \union {o \in unrolledEnd .. restEnd - 1 : o < numel}
  BY DEF Share, PerBlock, Step
<1>2. /\ bs \in Nat \ {0} /\ step \in Nat \ {0} /\ per \in Nat
      /\ ItersPerBlock(numel) \in Nat /\ per = step * ItersPerBlock(numel)
  BY ConfigSizes, SharesSuffice DEF PerBlock
<1> HIDE DEF bs, step, per
<1>3. start \in Nat /\ per * (i + 1) = start + per
  BY <1>2
<1>4. /\ end \in Nat
      /\ end = IF start + per <= numel THEN start + per ELSE numel
  <2>1. per * (i + 1) \in Int /\ numel \in Int /\ per * (i + 1) \in Nat
    BY <1>2, <1>3
  <2>2. end = IF per * (i + 1) <= numel THEN per * (i + 1) ELSE numel
    BY <2>1, MinMax
  <2> HIDE DEF end
  <2>3. QED
    BY <1>2, <1>3, <2>1, <2>2
<1> HIDE DEF start, end
<1>5. CASE start <= end
  <2> DEFINE t == (end - start) \div step
             m == (end - start) % step
  <2>1. t \in Nat /\ m \in 0 .. step - 1 /\ end - start = step * t + m
    <3>1. end - start \in Nat
      BY <1>3, <1>4, <1>5
    <3>2. QED
      BY <1>2, <3>1, DivMod
  <2>2. TruncDiv(end - start, step) = t
    BY <1>3, <1>4, <1>5 DEF TruncDiv
  <2> HIDE DEF t, m
  <2>3. unrolledEnd = end - m
    <3>1. t * step = step * t /\ step * t \in Nat
      BY <1>2, <2>1
    <3>2. unrolledEnd = start + step * t
      BY <2>2, <3>1
    <3> HIDE DEF unrolledEnd
    <3>3. QED
      BY <1>2, <1>3, <1>4, <2>1, <3>1, <3>2
  <2> HIDE DEF unrolledEnd
  <2>4. Max({end - unrolledEnd, 0}) = m
    <3>1. end - unrolledEnd = m /\ m \in Int /\ 0 \in Int /\ m >= 0
      BY <1>2, <1>4, <2>1, <2>3
    <3>2. QED
      BY <3>1, MinMax
  <2>5. CeilDiv(m, bs) \in Nat /\ m <= bs * CeilDiv(m, bs) /\ (m = 0 => CeilDiv(m, bs) = 0)
    <3>1. m \in Nat
      BY <1>2, <2>1
    <3>2. QED
      BY <1>2, <3>1, CeilDivCovers
  <2>6. restEnd \in Int /\ restEnd >= end /\ (m = 0 => restEnd = end)
    <3> DEFINE c == CeilDiv(m, bs)
    <3>1. c \in Nat /\ m <= bs * c /\ (m = 0 => c = 0) /\ restEnd = unrolledEnd + c * bs
      BY <2>4, <2>5
    <3> HIDE DEF c, restEnd
    <3>2. c * bs = bs * c /\ bs * c \in Nat /\ (c = 0 => c * bs = 0)
      BY <1>2, <3>1
    <3>3. QED
      BY <1>2, <1>4, <2>1, <2>3, <3>1, <3>2
  <2> HIDE DEF restEnd
  <2>7. CASE start + per <= numel
    <3>1. end = start + per
      BY <1>4, <2>7
    <3>2. m = 0
      <4> DEFINE q == ItersPerBlock(numel)
      <4>1. end - start = step * q + 0 /\ q \in Int /\ 0 \in 0 .. step - 1
        BY <1>2, <1>3, <3>1
      <4>2. (step * q + 0) % step = 0
        BY <1>2, <4>1, DivUnique
      <4>3. QED
        BY <4>1, <4>2 DEF m
    <3>3. unrolledEnd = start + per /\ restEnd = start + per
      BY <1>2, <1>3, <2>3, <2>6, <3>1, <3>2
    <3>4. QED
      BY <1>1, <1>2, <1>3, <2>7, <3>3 DEF start, per
  <2>8. CASE ~(start + per <= numel)
    <3>1. end = numel /\ numel < start + per
      BY <1>2, <1>3, <1>4, <2>8
    <3>2. unrolledEnd \in Int /\ unrolledEnd <= numel /\ restEnd >= numel /\ start <= unrolledEnd
      <4>1. step * t \in Nat
        BY <1>2, <2>1
      <4>2. QED
        BY <1>2, <1>3, <1>4, <2>1, <2>3, <2>6, <3>1, <4>1
    <3>3. QED
      BY <1>1, <1>2, <1>3, <2>6, <3>1, <3>2 DEF start, per
  <2>9. QED
    BY <2>7, <2>8
<1>6. CASE end < start
  <2>1. end = numel
    BY <1>2, <1>3, <1>4, <1>6
  <2> DEFINE t == (-(end - start)) \div step
             m == (-(end - start)) % step
  <2>2. t \in Nat /\ m \in 0 .. step - 1 /\ start - end = step * t + m
    <3>1. -(end - start) \in Nat /\ -(end - start) = start - end
      BY <1>3, <1>4, <1>6
    <3>2. QED
      BY <1>2, <3>1, DivMod
  <2>3. TruncDiv(end - start, step) = -t
    BY <1>3, <1>4, <1>6 DEF TruncDiv
  <2> HIDE DEF t, m
  <2>4. unrolledEnd = end + m /\ unrolledEnd <= start
    <3>1. (-t) * step = -(step * t) /\ step * t \in Nat
      BY <1>2, <2>2
    <3>2. QED
      BY <1>2, <1>3, <1>4, <2>2, <2>3, <3>1
  <2> HIDE DEF unrolledEnd
  <2>5. Max({end - unrolledEnd, 0}) = 0
    <3>1. end - unrolledEnd \in Int /\ end - unrolledEnd <= 0 /\ 0 \in Int
      BY <1>2, <1>4, <2>2, <2>4
    <3>2. Max({end - unrolledEnd, 0}) = IF end - unrolledEnd >= 0 THEN end - unrolledEnd ELSE 0
      BY <3>1, MinMax
    <3>3. QED
      BY <3>1, <3>2
  <2>6. restEnd = unrolledEnd
    <3>1. CeilDiv(0, bs) = 0
      BY <1>2, CeilDivCovers
    <3>2. 0 * bs = 0
      BY <1>2
    <3>3. restEnd = unrolledEnd + 0
      BY <2>5, <3>1, <3>2
    <3>4. unrolledEnd \in Int
      BY <1>2, <1>4, <2>2, <2>4
    <3>5. QED
      BY <3>3, <3>4
  <2> HIDE DEF restEnd
  <2>7. QED
    BY <1>1, <1>2, <1>3, <1>4, <1>6, <2>1, <2>4, <2>6 DEF start, per
<1>7. QED
  BY <1>3, <1>4, <1>5, <1>6

LEMMA SharesCover ==
  ASSUME ConfigFits, NEW numel \in Nat
  PROVE  /\ \A i \in Nat : Share(numel, i) \subseteq 0 .. numel - 1
         /\ \A o \in 0 .. numel - 1 : \E i \in 0 .. config.blocksPerRank - 1 : o \in Share(numel, i)
<1>1. \A i \in Nat : Share(numel, i) \subseteq 0 .. numel - 1
  BY ShareIsRange
<1>2. ASSUME NEW o \in 0 .. numel - 1
      PROVE  \E i \in 0 .. config.blocksPerRank - 1 : o \in Share(numel, i)
  <2> DEFINE b == config.blocksPerRank
             per == PerBlock(numel)
             i == o \div per
             m == o % per
  <2>1. per \in Nat /\ b \in Nat \ {0} /\ numel <= per * b
    BY SharesSuffice, ConfigSizes
  <2> HIDE DEF per, b
  <2>2. per # 0
    <3> SUFFICES ASSUME per = 0 PROVE FALSE
      OBVIOUS
    <3>1. per * b = 0
      BY <2>1
    <3>2. QED
      BY <2>1, <3>1
  <2>3. i \in Nat /\ m \in 0 .. per - 1 /\ o = per * i + m
    <3>1. o \in Nat /\ per \in Nat \ {0}
      BY <2>1, <2>2
    <3>2. QED
      BY <3>1, DivMod
  <2> HIDE DEF i, m
  <2>4. i < b
    <3> SUFFICES ASSUME b <= i PROVE FALSE
      BY <2>1, <2>3
    <3>1. per * b <= per * i /\ per * b \in Nat /\ per * i \in Nat
      BY <2>1, <2>3, MulGrows
    <3>2. QED
      BY <2>1, <2>3, <3>1
  <2>5. per * i <= o /\ o < per * (i + 1)
    <3>1. per * (i + 1) = per * i + per /\ per * i \in Nat
      BY <2>1, <2>3
    <3>2. QED
      BY <2>1, <2>3, <3>1
  <2>6. o \in Share(numel, i)
    BY <2>3, <2>5, ShareIsRange DEF per
  <2>7. i \in 0 .. b - 1
    BY <2>1, <2>3, <2>4
  <2>8. QED
    BY <2>6, <2>7 DEF b
<1>3. QED
  BY <1>1, <1>2

-----------------------------------------------------------------------------
(* The rows of a call.                                                     *)

\* What rank s sends, and what rank r receives.
Outgoing(c, s) == [t \in Ranks |-> Splits(c, s, t)]
Incoming(c, r) == [s \in Ranks |-> Splits(c, s, r)]

\* The rows that s sends to ranks before r, and that r receives from ranks before s.
SentBefore(c, s, r) == Total(Outgoing(c, s), r)
ReceivedBefore(c, r, s) == Total(Incoming(c, r), s)
NumReceived(c, r) == Total(Incoming(c, r), config.world)

LEMMA SplitsType ==
  ASSUME ConfigFits, NEW c \in 1 .. NumCalls, NEW r \in Ranks, NEW s \in Ranks
  PROVE  Splits(c, r, s) \in Nat
<1>1. config \in ConfigType /\ ConfigAccepts(config) /\ config.world \in Nat
  BY ConfigAssumption, ConfigSizes DEF ConfigFits, ConfigAccepts
<1>2. config.splits \in Seq(Seq(Seq(Nat))) /\ c \in DOMAIN config.splits
  BY <1>1 DEF ConfigType, NumCalls
<1>3. config.splits[c] \in Seq(Seq(Nat)) /\ Len(config.splits[c]) = config.world
  BY <1>1, <1>2 DEF ConfigAccepts
<1>4. r + 1 \in 1 .. config.world /\ s + 1 \in 1 .. config.world
  BY <1>1 DEF Ranks
<1>5. config.splits[c][r + 1] \in Seq(Nat) /\ Len(config.splits[c][r + 1]) = config.world
  BY <1>1, <1>2, <1>3, <1>4 DEF ConfigAccepts
<1>6. QED
  BY <1>4, <1>5 DEF Splits

\* Sums over the ranks before one.
LEMMA TotalsFit ==
  ASSUME ConfigFits, NEW f, \A t \in Ranks : f[t] \in Nat, NEW s \in Ranks
  PROVE  /\ s \in Nat /\ Total(f, s) \in Nat /\ Total(f, s + 1) = Total(f, s) + f[s]
         /\ Total(f, config.world) \in Nat /\ Total(f, s) + f[s] <= Total(f, config.world)
         /\ \A t \in Ranks : s < t => Total(f, s) + f[s] <= Total(f, t)
<1>1. config.world \in Nat /\ s \in Nat /\ s + 1 \in Nat /\ s + 1 <= config.world
  BY ConfigSizes DEF Ranks
<1>2. \A t \in 0 .. config.world - 1 : f[t] \in Nat
  BY DEF Ranks
<1>3. Total(f, s) \in Nat /\ Total(f, s + 1) = Total(f, s) + f[s]
  <2>1. \A t \in 0 .. s : f[t] \in Nat
    BY <1>1, <1>2
  <2>2. QED
    BY <1>1, <2>1, TotalSteps
<1>4. Total(f, config.world) \in Nat /\ Total(f, s + 1) <= Total(f, config.world)
  BY <1>1, <1>2, TotalGrows
<1>5. ASSUME NEW t \in Ranks, s < t PROVE Total(f, s + 1) <= Total(f, t)
  <2>1. t \in Nat /\ s + 1 <= t /\ \A u \in 0 .. t - 1 : f[u] \in Nat
    BY <1>1, <1>2, <1>5 DEF Ranks
  <2>2. QED
    BY <1>1, <2>1, TotalGrows
<1>6. QED
  BY <1>1, <1>3, <1>4, <1>5

LEMMA VectorTypes ==
  ASSUME ConfigFits, NEW c \in 1 .. NumCalls, NEW r \in Ranks
  PROVE  \A t \in Ranks : /\ Outgoing(c, r)[t] = Splits(c, r, t) /\ Outgoing(c, r)[t] \in Nat
                          /\ Incoming(c, r)[t] = Splits(c, t, r) /\ Incoming(c, r)[t] \in Nat
BY SplitsType DEF Outgoing, Incoming

LEMMA RowsAre ==
  ASSUME ConfigFits, NEW c \in 1 .. NumCalls, NEW s \in Ranks
  PROVE  RowsOf(c, s) = [i \in 1 .. Total(Outgoing(c, s), config.world) |-> Row(c, s, i - 1)]
<1>1. config.world \in Nat /\ Ranks = 0 .. config.world - 1
  BY ConfigSizes DEF Ranks
<1>2. \A t \in 0 .. config.world - 1 : Outgoing(c, s)[t] \in Nat
  BY <1>1, VectorTypes
<1>3. DOMAIN Outgoing(c, s) = 0 .. config.world - 1
  BY <1>1 DEF Outgoing
<1>4. SumFunction(Outgoing(c, s)) = Total(Outgoing(c, s), config.world)
  BY <1>1, <1>2, <1>3, SumIsTotal
<1>5. QED
  BY <1>4 DEF RowsOf, Outgoing

\* The part of the rows of s that is for r.
Part(c, s, r) ==
  SubSeq(RowsOf(c, s), 1 + SumFunction([t \in 0 .. r - 1 |-> Splits(c, s, t)]),
         SumFunction([t \in 0 .. r |-> Splits(c, s, t)]))

LEMMA PartIs ==
  ASSUME ConfigFits, NEW c \in 1 .. NumCalls, NEW r \in Ranks, NEW s \in Ranks
  PROVE  Part(c, s, r) = [i \in 1 .. Splits(c, s, r) |-> Row(c, s, SentBefore(c, s, r) + i - 1)]
<1> DEFINE f == Outgoing(c, s)
           before == [t \in 0 .. r - 1 |-> Splits(c, s, t)]
           upto == [t \in 0 .. r |-> Splits(c, s, t)]
<1>1. /\ r \in Nat /\ Total(f, r) \in Nat /\ Total(f, r + 1) = Total(f, r) + Splits(c, s, r)
      /\ Splits(c, s, r) \in Nat
      /\ Total(f, config.world) \in Nat /\ Total(f, r) + Splits(c, s, r) <= Total(f, config.world)
  BY VectorTypes, TotalsFit
<1>2. \A t \in 0 .. r : t \in Ranks
  BY ConfigSizes DEF Ranks
<1>3. \A t \in 0 .. r : f[t] = Splits(c, s, t) /\ f[t] \in Nat
  BY <1>2, VectorTypes
<1>4. SumFunction(before) = Total(f, r)
  <2>1. DOMAIN before = 0 .. r - 1 /\ \A t \in 0 .. r - 1 : before[t] = f[t] /\ f[t] \in Nat
    BY <1>1, <1>3
  <2> HIDE DEF before, f
  <2>2. QED
    BY <1>1, <2>1, SumIsTotal
<1>5. SumFunction(upto) = Total(f, r + 1)
  <2>1. r + 1 \in Nat /\ (r + 1) - 1 = r
    BY <1>1
  <2>2. DOMAIN upto = 0 .. (r + 1) - 1 /\ \A t \in 0 .. (r + 1) - 1 : upto[t] = f[t] /\ f[t] \in Nat
    BY <1>3, <2>1
  <2> HIDE DEF upto, f
  <2>3. QED
    BY <2>1, <2>2, SumIsTotal
<1>6. RowsOf(c, s) = [i \in 1 .. Total(f, config.world) |-> Row(c, s, i - 1)]
  BY RowsAre
<1>7. Part(c, s, r) = SubSeq(RowsOf(c, s), 1 + Total(f, r), Total(f, r) + Splits(c, s, r))
  BY <1>1, <1>4, <1>5 DEF Part
<1> DEFINE rows == RowsOf(c, s)
           m == 1 + Total(f, r)
           n == Total(f, r) + Splits(c, s, r)
           E == Nat \X Nat \X Nat
<1> HIDE DEF f
<1>8. rows \in Seq(E) /\ Len(rows) = Total(f, config.world)
  <2>1. s \in Nat /\ c \in Nat
    BY TotalsFit, VectorTypes
  <2>2. \A i \in 1 .. Total(f, config.world) : Row(c, s, i - 1) \in E
    BY <1>1, <2>1 DEF Row
  <2>3. QED
    BY <1>1, <1>6, <2>2
<1>9. m \in 1 .. Len(rows) + 1 /\ n \in m - 1 .. Len(rows) /\ n - m + 1 = Splits(c, s, r)
  BY <1>1, <1>8
<1> HIDE DEF rows, m, n, E
<1>10. /\ SubSeq(rows, m, n) \in Seq(E) /\ Len(SubSeq(rows, m, n)) = Splits(c, s, r)
       /\ \A i \in 1 .. Splits(c, s, r) : SubSeq(rows, m, n)[i] = rows[m + i - 1]
  BY <1>8, <1>9, SubSeqProperties
<1>11. \A i \in 1 .. Splits(c, s, r) : rows[m + i - 1] = Row(c, s, SentBefore(c, s, r) + i - 1)
  <2> TAKE i \in 1 .. Splits(c, s, r)
  <2>1. m + i - 1 \in 1 .. Total(f, config.world) /\ (m + i - 1) - 1 = Total(f, r) + i - 1
    BY <1>1 DEF m
  <2>2. QED
    BY <1>6, <2>1 DEF rows, SentBefore, f
<1>12. QED
  BY <1>7, <1>10, <1>11 DEF rows, m, n

LEMMA ReceivedAre ==
  ASSUME ConfigFits, NEW c \in 1 .. NumCalls, NEW r \in Ranks
  PROVE  /\ Received(c, r) = [p \in 1 .. NumReceived(c, r) |-> Received(c, r)[p]]
         /\ \A s \in Ranks : \A o \in 0 .. Splits(c, s, r) - 1 :
              Received(c, r)[ReceivedBefore(c, r, s) + o + 1] = Row(c, s, SentBefore(c, s, r) + o)
<1> DEFINE from(s) == Part(c, s, r)
           parts == [s \in 1 .. config.world |-> from(s - 1)]
           f == Incoming(c, r)
           n == config.world
           E == Nat \X Nat \X Nat
<1>1. Received(c, r) = FlattenSeq(parts)
  BY DEF Received, Part
<1>2. n \in Nat \ {0} /\ Ranks = 0 .. n - 1
  BY ConfigSizes DEF Ranks
<1>3. \A s \in Ranks : from(s) = [i \in 1 .. Splits(c, s, r) |-> Row(c, s, SentBefore(c, s, r) + i - 1)]
  BY PartIs
<1>4. \A s \in Ranks : /\ s \in Nat /\ c \in Nat /\ Splits(c, s, r) \in Nat /\ SentBefore(c, s, r) \in Nat
                       /\ f[s] = Splits(c, s, r)
  BY VectorTypes, TotalsFit DEF SentBefore
<1> HIDE DEF from, f, E, n
<1>5. \A s \in Ranks : from(s) \in Seq(E) /\ Len(from(s)) = f[s]
  <2> TAKE s \in Ranks
  <2>1. \A i \in 1 .. Splits(c, s, r) : Row(c, s, SentBefore(c, s, r) + i - 1) \in E
    BY <1>4 DEF Row, E
  <2>2. QED
    BY <1>3, <1>4, <2>1
<1>6. DOMAIN parts = 1 .. n /\ \A s \in 1 .. n : s - 1 \in Ranks /\ parts[s] = from(s - 1)
  BY <1>2 DEF n
<1>7. parts \in Seq(Seq(E)) /\ Len(parts) = n
  <2>1. parts \in [1 .. n -> Seq(E)]
    BY <1>5, <1>6
  <2> HIDE DEF parts
  <2>2. QED
    BY <1>2, <1>6, <2>1
<1>8. \A s \in 0 .. n - 1 : parts[s + 1] = from(s) /\ f[s] = Len(parts[s + 1])
  <2> TAKE s \in 0 .. n - 1
  <2>1. s + 1 \in 1 .. n /\ (s + 1) - 1 = s /\ s \in Ranks
    BY <1>2
  <2>2. parts[s + 1] = from(s)
    BY <1>6, <2>1
  <2>3. QED
    BY <1>5, <2>1, <2>2
<1> HIDE DEF parts
<1>9. /\ FlattenSeq(parts) \in Seq(E) /\ Len(FlattenSeq(parts)) = Total(f, n)
      /\ \A s \in 0 .. n - 1 : \A p \in 1 .. f[s] : FlattenSeq(parts)[Total(f, s) + p] = parts[s + 1][p]
  <2>1. n \in Nat \ {0}
    BY <1>2
  <2>2. Lengths(E, parts, n, f)
    BY <1>7, <1>8, <2>1 DEF Lengths
  <2>3. Concatenates(E, parts, n, f)
    BY <2>2, FlattenAt
  <2>4. QED
    BY <2>3 DEF Concatenates
<1>10. Received(c, r) = [p \in 1 .. NumReceived(c, r) |-> Received(c, r)[p]]
  BY <1>1, <1>9 DEF NumReceived, f, n
<1>11. ASSUME NEW s \in Ranks, NEW o \in 0 .. Splits(c, s, r) - 1
       PROVE  Received(c, r)[ReceivedBefore(c, r, s) + o + 1] = Row(c, s, SentBefore(c, s, r) + o)
  <2>1. o + 1 \in 1 .. f[s] /\ s \in 0 .. n - 1 /\ Total(f, s) \in Nat
    <3>1. Total(f, s) \in Nat
      BY VectorTypes, TotalsFit DEF f
    <3>2. QED
      BY <1>2, <1>4, <3>1
  <2>2. FlattenSeq(parts)[Total(f, s) + (o + 1)] = from(s)[o + 1]
    BY <1>8, <1>9, <2>1
  <2>3. from(s)[o + 1] = Row(c, s, SentBefore(c, s, r) + (o + 1) - 1)
    BY <1>3, <1>4, <2>1
  <2>4. SentBefore(c, s, r) + (o + 1) - 1 = SentBefore(c, s, r) + o /\ Total(f, s) + (o + 1) = Total(f, s) + o + 1
    BY <1>4, <2>1
  <2>5. QED
    BY <1>1, <2>2, <2>3, <2>4 DEF ReceivedBefore, f
<1>12. QED
  BY <1>10, <1>11

-----------------------------------------------------------------------------
(* The barrier.                                                            *)

BlockPcs == {"idle", "enter", "exchange", "copy", "exit", "ended"}
LanePcs == {"put", "wait", "passed"}

\* What the argument needs to know of the types.
Types ==
  /\ call \in [Ranks -> Int]
  /\ hostPc \in [Ranks -> {"input", "splits", "launch", "kernel"}]
  /\ pad \in [Ranks -> [Blocks -> [Ranks -> {0, 1}]]]
  /\ blockPc \in [Ranks -> [Blocks -> BlockPcs]]
  /\ lane \in [Ranks -> [Blocks -> [Ranks -> LanePcs]]]

\* The blocks are idle exactly while the stream is outside the kernel, and the
\* threads are at the start of a barrier outside the barriers.
Phases ==
  /\ \A r \in Ranks, k \in Blocks : blockPc[r][k] = "idle" <=> hostPc[r] # "kernel"
  /\ \A r \in Ranks, k \in Blocks, t \in Ranks : ~InBarrier(r, k) => lane[r][k][t] = "put"

\* How often thread t of block k of rank r has put its signal, and taken one.
Puts(r, k, t) == Left(r, k) + IF lane[r][k][t] = "put" THEN 0 ELSE 1
Takes(r, k, t) == Left(r, k) + IF lane[r][k][t] = "passed" THEN 1 ELSE 0

\* A signal on the pad is one that was put and has not been taken.
SignalsCount == \A r, s \in Ranks, k \in Blocks : pad[r][k][s] = Puts(s, k, r) - Takes(r, k, s)

IInv == Types /\ Phases /\ SignalsCount

LEMMA LeftType ==
  ASSUME Types, NEW r \in Ranks, NEW k \in Blocks
  PROVE  Left(r, k) \in Int
<1>1. call[r] \in Int
  BY DEF Types
<1>2. QED
  BY <1>1 DEF Left

\* A step that disturbs neither the barriers a block has left nor its threads
\* nor the pad keeps the account.
LEMMA SameSignals ==
  ASSUME SignalsCount, Ranks' = Ranks, Blocks' = Blocks, pad' = pad, lane' = lane,
         \A r \in Ranks, k \in Blocks : Left(r, k)' = Left(r, k)
  PROVE  SignalsCount'
BY DEF SignalsCount, Puts, Takes

LEMMA SameSets ==
  ASSUME config' = config
  PROVE  Ranks' = Ranks /\ Blocks' = Blocks
BY DEF Ranks, Blocks

LEMMA InitInv == Init => IInv
<1> SUFFICES ASSUME Init PROVE IInv
  OBVIOUS
<1> USE DEF Init
<1>1. Types
  BY DEF Types, BlockPcs, LanePcs
<1>2. Phases
  BY DEF Phases
<1>3. SignalsCount
  BY DEF SignalsCount, Puts, Takes, Left
<1>4. QED
  BY <1>1, <1>2, <1>3 DEF IInv

LEMMA CopyInputInv == \A r \in Ranks : IInv /\ CopyInput(r) => IInv'
<1> SUFFICES ASSUME NEW r \in Ranks, IInv, CopyInput(r) PROVE IInv'
  OBVIOUS
<1> USE DEF CopyInput, IInv
<1>1. Ranks' = Ranks /\ Blocks' = Blocks
  BY SameSets
<1>2. Types'
  BY <1>1 DEF Types
<1>3. Phases'
  BY <1>1 DEF Phases, Types, InBarrier
<1>4. SignalsCount'
  BY <1>1, SameSignals DEF Left
<1>5. QED
  BY <1>2, <1>3, <1>4

LEMMA CopySplitsInv == \A r \in Ranks : IInv /\ CopySplits(r) => IInv'
<1> SUFFICES ASSUME NEW r \in Ranks, IInv, CopySplits(r) PROVE IInv'
  OBVIOUS
<1> USE DEF CopySplits, IInv
<1>1. Ranks' = Ranks /\ Blocks' = Blocks
  BY SameSets
<1>2. Types'
  BY <1>1 DEF Types
<1>3. Phases'
  BY <1>1 DEF Phases, Types, InBarrier
<1>4. SignalsCount'
  BY <1>1, SameSignals DEF Left
<1>5. QED
  BY <1>2, <1>3, <1>4

LEMMA LaunchInv == \A r \in Ranks : IInv /\ Launch(r) => IInv'
<1> SUFFICES ASSUME NEW r \in Ranks, IInv, Launch(r) PROVE IInv'
  OBVIOUS
<1> USE DEF Launch, IInv
<1>1. Ranks' = Ranks /\ Blocks' = Blocks
  BY SameSets
<1>2. Types'
  BY <1>1 DEF Types, BlockPcs
<1>3. \A q \in Ranks, k \in Blocks :
        IF q = r THEN blockPc[q][k] = "idle" /\ blockPc'[q][k] = "enter"
                 ELSE blockPc'[q][k] = blockPc[q][k]
  BY DEF Types, Phases
<1>4. Phases'
  BY <1>1, <1>3 DEF Phases, Types, InBarrier
<1>5. \A q \in Ranks, k \in Blocks : Left(q, k)' = Left(q, k)
  BY <1>3 DEF Left
<1>6. SignalsCount'
  BY <1>1, <1>5, SameSignals
<1>7. QED
  BY <1>2, <1>4, <1>6

\* The blocks that have ended have left both barriers of the call.
LEMMA EndKernelInv == \A r \in Ranks : IInv /\ EndKernel(r) => IInv'
<1> SUFFICES ASSUME NEW r \in Ranks, IInv, EndKernel(r) PROVE IInv'
  OBVIOUS
<1> USE DEF EndKernel, IInv
<1>1. Ranks' = Ranks /\ Blocks' = Blocks
  BY SameSets
<1>2. Types'
  BY <1>1 DEF Types, BlockPcs
<1>3. \A q \in Ranks, k \in Blocks :
        IF q = r THEN /\ blockPc[q][k] = "ended" /\ blockPc'[q][k] = "idle"
                      /\ call'[q] = call[q] + 1
                 ELSE blockPc'[q][k] = blockPc[q][k] /\ call'[q] = call[q]
  BY DEF Types, KernelEnded
<1>4. Phases'
  BY <1>1, <1>3 DEF Phases, Types, InBarrier
<1>5. \A q \in Ranks, k \in Blocks : Left(q, k)' = Left(q, k)
  <2> TAKE q \in Ranks, k \in Blocks
  <2>1. call[q] \in Int
    BY DEF Types
  <2>2. QED
    BY <1>3, <2>1 DEF Left
<1>6. SignalsCount'
  BY <1>1, <1>5, SameSignals
<1>7. QED
  BY <1>2, <1>4, <1>6

\* One more signal put, and it is on the pad.
LEMMA PutSignalInv ==
  \A r, t \in Ranks, k \in Blocks : IInv /\ PutSignal(r, k, t) => IInv'
<1> SUFFICES ASSUME NEW r \in Ranks, NEW t \in Ranks, NEW k \in Blocks, IInv, PutSignal(r, k, t)
             PROVE  IInv'
  OBVIOUS
<1> USE DEF PutSignal, IInv
<1>1. Ranks' = Ranks /\ Blocks' = Blocks
  BY SameSets
<1>2. Types'
  BY <1>1 DEF Types, LanePcs
<1>3. \A q, s \in Ranks, j \in Blocks :
        IF q = r /\ j = k /\ s = t
          THEN lane[q][j][s] = "put" /\ lane'[q][j][s] = "wait"
          ELSE lane'[q][j][s] = lane[q][j][s]
  BY DEF Types
<1>4. \A q, s \in Ranks, j \in Blocks :
        IF q = t /\ j = k /\ s = r
          THEN pad[q][j][s] = 0 /\ pad'[q][j][s] = 1
          ELSE pad'[q][j][s] = pad[q][j][s]
  BY DEF Types, MayPut
<1>5. Phases'
  BY <1>1, <1>3 DEF Phases, InBarrier
<1>6. \A q \in Ranks, j \in Blocks : Left(q, j)' = Left(q, j)
  BY DEF Left
<1>7. SignalsCount'
  <2>1. ASSUME NEW q \in Ranks, NEW s \in Ranks, NEW j \in Blocks
        PROVE  pad'[q][j][s] = Puts(s, j, q)' - Takes(q, j, s)'
    <3>1. pad[q][j][s] = Puts(s, j, q) - Takes(q, j, s)
      BY DEF SignalsCount
    <3>2. Left(q, j) \in Int /\ Left(s, j) \in Int
      BY LeftType
    <3>3. Takes(q, j, s)' = Takes(q, j, s)
      BY <1>3, <1>6 DEF Takes
    <3>4. Puts(s, j, q)' = Puts(s, j, q) + IF q = t /\ j = k /\ s = r THEN 1 ELSE 0
      BY <1>3, <1>6, <3>2 DEF Puts
    <3>5. Puts(s, j, q) \in Int /\ Takes(q, j, s) \in Int
      BY <3>2 DEF Puts, Takes
    <3>6. CASE q = t /\ j = k /\ s = r
      <4>1. pad[q][j][s] = 0 /\ pad'[q][j][s] = 1
        BY <1>4, <3>6
      <4>2. QED
        BY <3>1, <3>3, <3>4, <3>5, <3>6, <4>1
    <3>7. CASE ~(q = t /\ j = k /\ s = r)
      <4>1. pad'[q][j][s] = pad[q][j][s]
        BY <1>4, <3>7
      <4>2. QED
        BY <3>1, <3>3, <3>4, <3>5, <3>7, <4>1
    <3>8. QED
      BY <3>6, <3>7
  <2>2. QED
    BY <1>1, <2>1 DEF SignalsCount
<1>8. QED
  BY <1>2, <1>5, <1>7

\* One more signal taken, and the pad is clear.
LEMMA WaitSignalInv ==
  \A r, t \in Ranks, k \in Blocks : IInv /\ WaitSignal(r, k, t) => IInv'
<1> SUFFICES ASSUME NEW r \in Ranks, NEW t \in Ranks, NEW k \in Blocks, IInv, WaitSignal(r, k, t)
             PROVE  IInv'
  OBVIOUS
<1> USE DEF WaitSignal, IInv
<1>1. Ranks' = Ranks /\ Blocks' = Blocks
  BY SameSets
<1>2. \A q, s \in Ranks, j \in Blocks :
        IF q = r /\ j = k /\ s = t
          THEN lane[q][j][s] = "wait" /\ lane'[q][j][s] = "passed"
          ELSE lane'[q][j][s] = lane[q][j][s]
  BY DEF Types
<1>3. \A q, s \in Ranks, j \in Blocks :
        IF q = r /\ j = k /\ s = t
          THEN pad[q][j][s] = 1 /\ pad'[q][j][s] = 0
          ELSE pad'[q][j][s] = pad[q][j][s]
  BY DEF Types, AfterWait
<1>4. Types'
  <2>1. AfterWait(pad[r][k][t]) \in {0, 1}
    BY DEF AfterWait
  <2>2. QED
    BY <1>1, <2>1 DEF Types, LanePcs
<1>5. Phases'
  BY <1>1, <1>2 DEF Phases, InBarrier
<1>6. \A q \in Ranks, j \in Blocks : Left(q, j)' = Left(q, j)
  BY DEF Left
<1>7. SignalsCount'
  <2>1. ASSUME NEW q \in Ranks, NEW s \in Ranks, NEW j \in Blocks
        PROVE  pad'[q][j][s] = Puts(s, j, q)' - Takes(q, j, s)'
    <3>1. pad[q][j][s] = Puts(s, j, q) - Takes(q, j, s)
      BY DEF SignalsCount
    <3>2. Left(q, j) \in Int /\ Left(s, j) \in Int
      BY LeftType
    <3>3. Puts(s, j, q)' = Puts(s, j, q)
      BY <1>2, <1>6 DEF Puts
    <3>4. Takes(q, j, s)' = Takes(q, j, s) + IF q = r /\ j = k /\ s = t THEN 1 ELSE 0
      BY <1>2, <1>6, <3>2 DEF Takes
    <3>5. Puts(s, j, q) \in Int /\ Takes(q, j, s) \in Int
      BY <3>2 DEF Puts, Takes
    <3>6. QED
      BY <1>3, <3>1, <3>3, <3>4, <3>5
  <2>2. QED
    BY <1>1, <2>1 DEF SignalsCount
<1>8. QED
  BY <1>4, <1>5, <1>7

\* The block has left one barrier more, and its threads start again: neither
\* what they have put nor what they have taken changes.
LEMMA LeaveBarrierInv == \A r \in Ranks, k \in Blocks : IInv /\ LeaveBarrier(r, k) => IInv'
<1> SUFFICES ASSUME NEW r \in Ranks, NEW k \in Blocks, IInv, LeaveBarrier(r, k)
             PROVE  IInv'
  OBVIOUS
<1> USE DEF LeaveBarrier, IInv
<1>1. Ranks' = Ranks /\ Blocks' = Blocks
  BY SameSets
<1>2. Types'
  BY <1>1 DEF Types, LanePcs, BlockPcs
<1>3. \A q, s \in Ranks, j \in Blocks :
        IF q = r /\ j = k
          THEN lane[q][j][s] = "passed" /\ lane'[q][j][s] = "put"
          ELSE lane'[q][j][s] = lane[q][j][s]
  BY DEF Types, AllPassed
<1>4. \A q \in Ranks, j \in Blocks :
        IF q = r /\ j = k
          THEN \/ blockPc[q][j] = "enter" /\ blockPc'[q][j] = "exchange"
               \/ blockPc[q][j] = "exit" /\ blockPc'[q][j] = "ended"
          ELSE blockPc'[q][j] = blockPc[q][j]
  BY DEF Types, InBarrier
<1>5. Phases'
  BY <1>1, <1>3, <1>4 DEF Phases, InBarrier
<1>6. ASSUME NEW q \in Ranks, NEW j \in Blocks
      PROVE  Left(q, j)' = Left(q, j) + IF q = r /\ j = k THEN 1 ELSE 0
  <2>1. call[q] \in Int
    BY DEF Types
  <2>2. QED
    BY <1>4, <2>1 DEF Left
<1>7. SignalsCount'
  <2>1. ASSUME NEW q \in Ranks, NEW s \in Ranks, NEW j \in Blocks
        PROVE  Puts(q, j, s)' = Puts(q, j, s) /\ Takes(q, j, s)' = Takes(q, j, s)
    <3>1. Left(q, j) \in Int
      BY LeftType
    <3>2. QED
      BY <1>3, <1>6, <3>1 DEF Puts, Takes
  <2>2. QED
    BY <1>1, <2>1 DEF SignalsCount
<1>8. QED
  BY <1>2, <1>5, <1>7

LEMMA ExchangeInv == \A r \in Ranks, k \in Blocks : IInv /\ Exchange(r, k) => IInv'
<1> SUFFICES ASSUME NEW r \in Ranks, NEW k \in Blocks, IInv, Exchange(r, k)
             PROVE  IInv'
  OBVIOUS
<1>1. /\ blockPc[r][k] = "exchange" /\ blockPc' = [blockPc EXCEPT ![r][k] = "copy"]
      /\ UNCHANGED <<config, call, hostPc, pad, lane>>
  BY DEF Exchange
<1> USE DEF IInv
<1>2. Ranks' = Ranks /\ Blocks' = Blocks
  BY <1>1, SameSets
<1>3. Types'
  BY <1>1, <1>2 DEF Types, BlockPcs
<1>4. \A q \in Ranks, j \in Blocks :
        IF q = r /\ j = k THEN blockPc'[q][j] = "copy" ELSE blockPc'[q][j] = blockPc[q][j]
  BY <1>1 DEF Types
<1>5. Phases'
  BY <1>1, <1>2, <1>4 DEF Phases, InBarrier
<1>6. \A q \in Ranks, j \in Blocks : Left(q, j)' = Left(q, j)
  BY <1>1, <1>4 DEF Left
<1>7. SignalsCount'
  BY <1>1, <1>2, <1>6, SameSignals
<1>8. QED
  BY <1>3, <1>5, <1>7

LEMMA CopyInv == \A r \in Ranks, k \in Blocks : IInv /\ Copy(r, k) => IInv'
<1> SUFFICES ASSUME NEW r \in Ranks, NEW k \in Blocks, IInv, Copy(r, k)
             PROVE  IInv'
  OBVIOUS
<1>1. /\ blockPc[r][k] = "copy" /\ blockPc' = [blockPc EXCEPT ![r][k] = "exit"]
      /\ UNCHANGED <<config, call, hostPc, pad, lane>>
  BY DEF Copy
<1> USE DEF IInv
<1>2. Ranks' = Ranks /\ Blocks' = Blocks
  BY <1>1, SameSets
<1>3. Types'
  BY <1>1, <1>2 DEF Types, BlockPcs
<1>4. \A q \in Ranks, j \in Blocks :
        IF q = r /\ j = k THEN blockPc'[q][j] = "exit" ELSE blockPc'[q][j] = blockPc[q][j]
  BY <1>1 DEF Types
<1>5. Phases'
  BY <1>1, <1>2, <1>4 DEF Phases, InBarrier
<1>6. \A q \in Ranks, j \in Blocks : Left(q, j)' = Left(q, j)
  BY <1>1, <1>4 DEF Left
<1>7. SignalsCount'
  BY <1>1, <1>2, <1>6, SameSignals
<1>8. QED
  BY <1>3, <1>5, <1>7

LEMMA StepInv == IInv /\ [Next]_vars => IInv'
<1> SUFFICES ASSUME IInv, [Next]_vars PROVE IInv'
  OBVIOUS
<1>1. CASE UNCHANGED vars
  BY <1>1 DEF vars, IInv, Types, Phases, SignalsCount, InBarrier, Puts, Takes, Left, Ranks, Blocks
<1>2. CASE Next
  <2>1. \/ \E r \in Ranks : CopyInput(r) \/ CopySplits(r) \/ Launch(r) \/ EndKernel(r)
        \/ \E r \in Ranks, k \in Blocks :
             \/ \E t \in Ranks : PutSignal(r, k, t) \/ WaitSignal(r, k, t)
             \/ LeaveBarrier(r, k) \/ Exchange(r, k) \/ Copy(r, k)
    BY <1>2 DEF Next, Stream, Block
  <2>2. QED
    BY <2>1, CopyInputInv, CopySplitsInv, LaunchInv, EndKernelInv, PutSignalInv, WaitSignalInv,
       LeaveBarrierInv, ExchangeInv, CopyInv
<1>3. QED
  BY <1>1, <1>2

-----------------------------------------------------------------------------
(* The invariant of the copies.                                            *)

Index(k) == k % config.blocksPerRank

DataTypes ==
  /\ ConfigFits
  /\ inputBuf = [r \in Ranks |-> inputBuf[r]]
  /\ splitsBuf = [r \in Ranks |-> splitsBuf[r]]
  /\ offsets = [r \in Ranks |-> [k \in Blocks |-> offsets[r][k]]]
  /\ output = [r \in Ranks |-> output[r]]
  /\ outputSplits = [r \in Ranks |-> [s \in Ranks |-> outputSplits[r][s]]]
  /\ \A r \in Ranks : call[r] >= 1 /\ (hostPc[r] # "input" => call[r] <= NumCalls)

\* From its filling until the kernel has ended, a buffer holds the rows of the call.
BuffersFilled ==
  \A r \in Ranks :
    /\ hostPc[r] # "input" => inputBuf[r] = RowsOf(call[r], r)
    /\ hostPc[r] \in {"launch", "kernel"} => splitsBuf[r] = Outgoing(call[r], r)

\* A block that has exchanged knows where its rows are and where they go.
OffsetsRight ==
  \A r \in Ranks, k \in Blocks : blockPc[r][k] \in {"copy", "exit", "ended"} =>
    /\ offsets[r][k] = <<SentBefore(call[r], RemoteRank(k), r), ReceivedBefore(call[r], r, RemoteRank(k)),
                         Splits(call[r], RemoteRank(k), r)>>
    /\ Index(k) = 0 => outputSplits[r][RemoteRank(k)] = Splits(call[r], RemoteRank(k), r)

\* The blocks of rank r that have copied in call c have put their shares in place.
Placed(c, r, out, pcs) ==
  /\ out = [p \in 1 .. NumReceived(c, r) |-> out[p]]
  /\ \A k \in Blocks : pcs[k] \in {"exit", "ended"} =>
       \A o \in Share(Splits(c, RemoteRank(k), r), Index(k)) :
         out[ReceivedBefore(c, r, RemoteRank(k)) + o + 1]
           = Row(c, RemoteRank(k), SentBefore(c, RemoteRank(k), r) + o)

SharesCopied == \A r \in Ranks : hostPc[r] = "kernel" => Placed(call[r], r, output[r], blockPc[r])

DataInv == DataTypes /\ BuffersFilled /\ OffsetsRight /\ SharesCopied

LEMMA SameData ==
  ASSUME config' = config
  PROVE  /\ \A c, s, r : Splits(c, s, r)' = Splits(c, s, r)
         /\ \A c, s : RowsOf(c, s)' = RowsOf(c, s)
         /\ \A c, s : Outgoing(c, s)' = Outgoing(c, s)
         /\ \A c, s : Incoming(c, s)' = Incoming(c, s)
         /\ \A c, s : Received(c, s)' = Received(c, s)
         /\ \A c, s : NumReceived(c, s)' = NumReceived(c, s)
         /\ \A c, s, r : SentBefore(c, s, r)' = SentBefore(c, s, r)
         /\ \A c, s, r : ReceivedBefore(c, s, r)' = ReceivedBefore(c, s, r)
         /\ \A n, i : Share(n, i)' = Share(n, i)
         /\ \A k : RemoteRank(k)' = RemoteRank(k) /\ Index(k)' = Index(k)
         /\ \A c, r, out, pcs : Placed(c, r, out, pcs)' = Placed(c, r, out, pcs)
         /\ ConfigFits' = ConfigFits /\ NumCalls' = NumCalls
         /\ Ranks' = Ranks /\ Blocks' = Blocks
BY DEF Splits, RowsOf, Outgoing, Incoming, Received, NumReceived, SentBefore, ReceivedBefore, Share,
       ItersPerBlock, RemoteRank, Index, ConfigFits, NumCalls, Ranks, Blocks, Total, Placed

LEMMA SameDataInv ==
  ASSUME DataInv, UNCHANGED <<config, call, hostPc, inputBuf, splitsBuf, blockPc, offsets, output, outputSplits>>
  PROVE  DataInv'
<1> USE DEF DataInv
<1>1. DataTypes'
  BY SameData DEF DataTypes
<1>2. BuffersFilled'
  BY SameData DEF BuffersFilled
<1>3. OffsetsRight'
  BY SameData DEF OffsetsRight
<1>4. SharesCopied'
  BY SameData DEF SharesCopied
<1>5. QED
  BY <1>1, <1>2, <1>3, <1>4

LEMMA BlockFacts ==
  ASSUME ConfigFits, NEW k \in Blocks
  PROVE  RemoteRank(k) \in Ranks /\ Index(k) \in 0 .. config.blocksPerRank - 1
<1> DEFINE b == config.blocksPerRank
           w == config.world
           q == k \div b
<1>1. b \in Nat \ {0} /\ w \in Nat \ {0} /\ b * w \in Nat
  <2>1. b \in Nat \ {0} /\ w \in Nat \ {0}
    BY ConfigSizes
  <2>2. QED
    BY <2>1
<1>2. k \in Nat /\ k < b * w
  <2>1. w * b = b * w
    BY <1>1
  <2>2. k \in 0 .. w * b - 1
    BY DEF Blocks
  <2> HIDE DEF w, b
  <2>3. QED
    BY <1>1, <2>1, <2>2
<1>3. q \in Nat /\ k % b \in 0 .. b - 1 /\ k = b * q + (k % b)
  BY <1>1, <1>2, DivMod
<1> HIDE DEF b, w, q
<1>4. q < w
  <2> SUFFICES ASSUME w <= q PROVE FALSE
    BY <1>1, <1>3
  <2>1. b * w <= b * q /\ b * q \in Nat
    BY <1>1, <1>3, MulGrows
  <2>2. QED
    BY <1>1, <1>2, <1>3, <2>1
<1>5. QED
  BY <1>1, <1>3, <1>4 DEF RemoteRank, Index, Ranks, b, w, q

\* Every rank has a block of every index.
LEMMA BlockOf ==
  ASSUME ConfigFits, NEW s \in Ranks, NEW i \in 0 .. config.blocksPerRank - 1
  PROVE  \E k \in Blocks : RemoteRank(k) = s /\ Index(k) = i
<1> DEFINE b == config.blocksPerRank
           w == config.world
           k == b * s + i
<1>1. /\ b \in Nat \ {0} /\ w \in Nat \ {0} /\ s \in Nat /\ s + 1 \in Nat /\ s + 1 <= w
      /\ i \in Nat /\ i < b /\ i \in 0 .. b - 1
  BY ConfigSizes DEF Ranks
<1> HIDE DEF b, w
<1>2. k \div b = s /\ k % b = i
  <2>1. s \in Int
    BY <1>1
  <2>2. QED
    BY <1>1, <2>1, DivUnique
<1>3. b * (s + 1) <= b * w /\ b * (s + 1) = b * s + b /\ b * s \in Nat /\ b * w = w * b /\ w * b \in Nat
  <2>1. b * (s + 1) <= b * w
    BY <1>1, MulGrows
  <2>2. QED
    BY <1>1, <2>1
<1>4. k \in 0 .. w * b - 1
  BY <1>1, <1>3
<1> HIDE DEF k
<1>5. k \in Blocks
  BY <1>4 DEF Blocks, b, w
<1>6. QED
  BY <1>2, <1>5 DEF RemoteRank, Index, b

LEMMA InvMeet == IInv => BlocksMeet
<1> SUFFICES ASSUME IInv, NEW r \in Ranks, NEW s \in Ranks, NEW k \in Blocks
             PROVE  Left(r, k) <= Begun(s, k)
  BY DEF BlocksMeet
<1>1. Left(r, k) \in Int /\ Left(s, k) \in Int
  BY LeftType DEF IInv
<1>2. pad[r][k][s] \in {0, 1} /\ pad[r][k][s] = Puts(s, k, r) - Takes(r, k, s)
  BY DEF IInv, Types, SignalsCount
<1>3. Left(r, k) <= Takes(r, k, s) /\ Takes(r, k, s) \in Int
  BY <1>1 DEF Takes
<1>4. Puts(s, k, r) <= Begun(s, k) /\ Puts(s, k, r) \in Int /\ Begun(s, k) \in Int
  <2>1. ~InBarrier(s, k) => lane[s][k][r] = "put"
    BY DEF IInv, Phases
  <2>2. QED
    BY <1>1, <2>1 DEF Puts, Begun
<1>5. QED
  BY <1>1, <1>2, <1>3, <1>4

\* While a block is between its two barriers, all ranks are in the kernel of its call.
LEMMA Together ==
  ASSUME IInv, NEW r \in Ranks, NEW s \in Ranks, NEW k \in Blocks,
         blockPc[r][k] \in {"exchange", "copy"}
  PROVE  call[s] = call[r] /\ hostPc[s] = "kernel"
<1>1. call[r] \in Int /\ call[s] \in Int /\ blockPc[s][k] \in BlockPcs
  BY DEF IInv, Types
<1>2. Left(r, k) = 2 * (call[r] - 1) + 1 /\ Begun(r, k) = 2 * (call[r] - 1) + 1
  BY <1>1 DEF Left, Begun, InBarrier
<1>3. Left(r, k) <= Begun(s, k) /\ Left(s, k) <= Begun(r, k)
  BY InvMeet DEF BlocksMeet
<1>4. \/ blockPc[s][k] = "idle" /\ Left(s, k) = 2 * (call[s] - 1) /\ Begun(s, k) = 2 * (call[s] - 1)
      \/ blockPc[s][k] = "enter" /\ Left(s, k) = 2 * (call[s] - 1) /\ Begun(s, k) = 2 * (call[s] - 1) + 1
      \/ blockPc[s][k] \in {"exchange", "copy"} /\ Left(s, k) = 2 * (call[s] - 1) + 1 /\ Begun(s, k) = 2 * (call[s] - 1) + 1
      \/ blockPc[s][k] = "exit" /\ Left(s, k) = 2 * (call[s] - 1) + 1 /\ Begun(s, k) = 2 * (call[s] - 1) + 2
      \/ blockPc[s][k] = "ended" /\ Left(s, k) = 2 * (call[s] - 1) + 2 /\ Begun(s, k) = 2 * (call[s] - 1) + 2
  BY <1>1 DEF BlockPcs, Left, Begun, InBarrier
<1>5. call[s] = call[r] /\ blockPc[s][k] # "idle"
  BY <1>1, <1>2, <1>3, <1>4
<1>6. QED
  BY <1>5 DEF IInv, Phases

LEMMA InitData == Init => DataInv
<1> SUFFICES ASSUME Init PROVE DataInv
  OBVIOUS
<1>1. DataTypes
  BY DEF Init, DataTypes, ConfigFits, Empty
<1>2. BuffersFilled
  BY DEF Init, BuffersFilled
<1>3. OffsetsRight
  BY DEF Init, OffsetsRight
<1>4. SharesCopied
  BY DEF Init, SharesCopied
<1>5. QED
  BY <1>1, <1>2, <1>3, <1>4 DEF DataInv

LEMMA CopyInputData == \A r \in Ranks : IInv /\ DataInv /\ CopyInput(r) => DataInv'
<1> SUFFICES ASSUME NEW r \in Ranks, IInv, DataInv, CopyInput(r) PROVE DataInv'
  OBVIOUS
<1> USE DEF IInv, DataInv
<1>1. /\ hostPc[r] = "input" /\ call[r] <= NumCalls
      /\ inputBuf' = [inputBuf EXCEPT ![r] = RowsOf(call[r], r)]
      /\ hostPc' = [hostPc EXCEPT ![r] = "splits"]
      /\ UNCHANGED <<config, call, splitsBuf, blockPc, offsets, output, outputSplits>>
  BY DEF CopyInput, results
<1>2. \A q \in Ranks : hostPc'[q] = IF q = r THEN "splits" ELSE hostPc[q]
  BY <1>1 DEF Types
<1>3. \A q \in Ranks : inputBuf'[q] = IF q = r THEN RowsOf(call[r], r) ELSE inputBuf[q]
  BY <1>1 DEF DataTypes
<1>4. DataTypes'
  BY <1>1, <1>2, <1>3, SameData DEF DataTypes
<1>5. BuffersFilled'
  BY <1>1, <1>2, <1>3, SameData DEF BuffersFilled
<1>6. OffsetsRight'
  BY <1>1, SameData DEF OffsetsRight
<1>7. SharesCopied'
  BY <1>1, <1>2, SameData DEF SharesCopied
<1>8. QED
  BY <1>4, <1>5, <1>6, <1>7

LEMMA CopySplitsData == \A r \in Ranks : IInv /\ DataInv /\ CopySplits(r) => DataInv'
<1> SUFFICES ASSUME NEW r \in Ranks, IInv, DataInv, CopySplits(r) PROVE DataInv'
  OBVIOUS
<1> USE DEF IInv, DataInv
<1>1. /\ hostPc[r] = "splits"
      /\ splitsBuf' = [splitsBuf EXCEPT ![r] = Outgoing(call[r], r)]
      /\ hostPc' = [hostPc EXCEPT ![r] = "launch"]
      /\ UNCHANGED <<config, call, inputBuf, blockPc, offsets, output, outputSplits>>
  BY DEF CopySplits, results, Outgoing
<1>2. \A q \in Ranks : hostPc'[q] = IF q = r THEN "launch" ELSE hostPc[q]
  BY <1>1 DEF Types
<1>3. \A q \in Ranks : splitsBuf'[q] = IF q = r THEN Outgoing(call[r], r) ELSE splitsBuf[q]
  BY <1>1 DEF DataTypes
<1>4. DataTypes'
  BY <1>1, <1>2, <1>3, SameData DEF DataTypes
<1>5. BuffersFilled'
  BY <1>1, <1>2, <1>3, SameData DEF BuffersFilled
<1>6. OffsetsRight'
  BY <1>1, SameData DEF OffsetsRight
<1>7. SharesCopied'
  BY <1>1, <1>2, SameData DEF SharesCopied
<1>8. QED
  BY <1>4, <1>5, <1>6, <1>7

LEMMA CallInRange ==
  ASSUME Types, DataTypes, NEW r \in Ranks, hostPc[r] # "input"
  PROVE  call[r] \in 1 .. NumCalls
BY DEF Types, DataTypes, NumCalls

\* The new output is as long as the rows to receive are many, and no block has copied.
LEMMA LaunchData == \A r \in Ranks : IInv /\ DataInv /\ Launch(r) => DataInv'
<1> SUFFICES ASSUME NEW r \in Ranks, IInv, DataInv, Launch(r) PROVE DataInv'
  OBVIOUS
<1> USE DEF IInv, DataInv
<1>1. /\ hostPc[r] = "launch"
      /\ hostPc' = [hostPc EXCEPT ![r] = "kernel"]
      /\ blockPc' = [blockPc EXCEPT ![r] = [k \in Blocks |-> "enter"]]
      /\ output' = [output EXCEPT ![r] = [i \in DOMAIN Received(call[r], r) |-> <<>>]]
      /\ outputSplits' = [outputSplits EXCEPT ![r] = [s \in Ranks |-> 0]]
      /\ UNCHANGED <<config, call, inputBuf, splitsBuf, offsets>>
  BY DEF Launch, memory
<1>2. \A q \in Ranks : hostPc'[q] = IF q = r THEN "kernel" ELSE hostPc[q]
  BY <1>1 DEF Types
<1>3. \A q \in Ranks, k \in Blocks : blockPc'[q][k] = IF q = r THEN "enter" ELSE blockPc[q][k]
  BY <1>1 DEF Types
<1>4. DOMAIN Received(call[r], r) = 1 .. NumReceived(call[r], r)
  <2>1. call[r] \in 1 .. NumCalls
    BY <1>1, CallInRange
  <2>2. Received(call[r], r) = [p \in 1 .. NumReceived(call[r], r) |-> Received(call[r], r)[p]]
    BY <2>1, ReceivedAre DEF DataTypes
  <2>3. QED
    BY <2>2
<1>5. \A q \in Ranks : output'[q] = IF q = r THEN [p \in 1 .. NumReceived(call[r], r) |-> <<>>] ELSE output[q]
  BY <1>1, <1>4 DEF DataTypes
<1>6. \A q \in Ranks : outputSplits'[q] = IF q = r THEN [s \in Ranks |-> 0] ELSE outputSplits[q]
  BY <1>1 DEF DataTypes
<1>7. DataTypes'
  BY <1>1, <1>2, <1>6, SameData DEF DataTypes
<1>8. BuffersFilled'
  BY <1>1, <1>2, SameData DEF BuffersFilled
<1>9. OffsetsRight'
  BY <1>1, <1>3, <1>6, SameData DEF OffsetsRight
<1>10. SharesCopied'
  <2>1. ASSUME NEW q \in Ranks, hostPc'[q] = "kernel"
        PROVE  Placed(call[q], q, output'[q], blockPc'[q])
    <3>1. CASE q = r
      BY <1>3, <1>5, <3>1 DEF Placed
    <3>2. CASE q # r
      <4>1. blockPc'[q] = blockPc[q]
        BY <1>1, <3>2 DEF Types
      <4>2. QED
        BY <1>2, <1>5, <2>1, <3>2, <4>1 DEF SharesCopied
    <3>3. QED
      BY <3>1, <3>2
  <2>2. QED
    BY <1>1, <2>1, SameData DEF SharesCopied
<1>11. QED
  BY <1>7, <1>8, <1>9, <1>10

LEMMA EndKernelData == \A r \in Ranks : IInv /\ DataInv /\ EndKernel(r) => DataInv'
<1> SUFFICES ASSUME NEW r \in Ranks, IInv, DataInv, EndKernel(r) PROVE DataInv'
  OBVIOUS
<1> USE DEF IInv, DataInv
<1>1. /\ call' = [call EXCEPT ![r] = @ + 1]
      /\ hostPc' = [hostPc EXCEPT ![r] = "input"]
      /\ blockPc' = [blockPc EXCEPT ![r] = [k \in Blocks |-> "idle"]]
      /\ UNCHANGED <<config, inputBuf, splitsBuf, offsets, output, outputSplits>>
  BY DEF EndKernel, memory, results
<1>2. \A q \in Ranks : hostPc'[q] = IF q = r THEN "input" ELSE hostPc[q]
  BY <1>1 DEF Types
<1>3. \A q \in Ranks, k \in Blocks : blockPc'[q][k] = IF q = r THEN "idle" ELSE blockPc[q][k]
  BY <1>1 DEF Types
<1>4. \A q \in Ranks : call'[q] = (IF q = r THEN call[q] + 1 ELSE call[q]) /\ call[q] \in Int
  BY <1>1 DEF Types
<1>5. DataTypes'
  BY <1>1, <1>2, <1>4, SameData DEF DataTypes
<1>6. BuffersFilled'
  BY <1>1, <1>2, <1>4, SameData DEF BuffersFilled
<1>7. OffsetsRight'
  BY <1>1, <1>3, <1>4, SameData DEF OffsetsRight
<1>8. SharesCopied'
  <2>1. \A q \in Ranks : q # r => blockPc'[q] = blockPc[q]
    BY <1>1 DEF Types
  <2>2. QED
    BY <1>1, <1>2, <1>4, <2>1, SameData DEF SharesCopied
<1>9. QED
  BY <1>5, <1>6, <1>7, <1>8

LEMMA PutSignalData == \A r, t \in Ranks, k \in Blocks : DataInv /\ PutSignal(r, k, t) => DataInv'
<1> SUFFICES ASSUME NEW r \in Ranks, NEW t \in Ranks, NEW k \in Blocks, DataInv, PutSignal(r, k, t)
             PROVE  DataInv'
  OBVIOUS
<1>1. UNCHANGED <<config, call, hostPc, inputBuf, splitsBuf, blockPc, offsets, output, outputSplits>>
  BY DEF PutSignal, memory, results
<1>2. QED
  BY <1>1, SameDataInv

LEMMA WaitSignalData == \A r, t \in Ranks, k \in Blocks : DataInv /\ WaitSignal(r, k, t) => DataInv'
<1> SUFFICES ASSUME NEW r \in Ranks, NEW t \in Ranks, NEW k \in Blocks, DataInv, WaitSignal(r, k, t)
             PROVE  DataInv'
  OBVIOUS
<1>1. UNCHANGED <<config, call, hostPc, inputBuf, splitsBuf, blockPc, offsets, output, outputSplits>>
  BY DEF WaitSignal, memory, results
<1>2. QED
  BY <1>1, SameDataInv

\* The block has copied after the barrier it leaves if it had before.
LEMMA LeaveBarrierData == \A r \in Ranks, k \in Blocks : IInv /\ DataInv /\ LeaveBarrier(r, k) => DataInv'
<1> SUFFICES ASSUME NEW r \in Ranks, NEW k \in Blocks, IInv, DataInv, LeaveBarrier(r, k) PROVE DataInv'
  OBVIOUS
<1> USE DEF IInv, DataInv
<1>1. /\ blockPc' = [blockPc EXCEPT ![r][k] = IF @ = "enter" THEN "exchange" ELSE "ended"]
      /\ blockPc[r][k] \in {"enter", "exit"}
      /\ UNCHANGED <<config, call, hostPc, inputBuf, splitsBuf, offsets, output, outputSplits>>
  BY DEF LeaveBarrier, InBarrier, memory, results
<1>2. \A q \in Ranks, j \in Blocks :
        /\ blockPc'[q][j] \in {"exit", "ended"} => blockPc[q][j] \in {"exit", "ended"}
        /\ blockPc'[q][j] \in {"copy", "exit", "ended"} => blockPc[q][j] \in {"copy", "exit", "ended"}
  BY <1>1 DEF Types
<1>3. DataTypes' /\ BuffersFilled'
  BY <1>1, SameData DEF DataTypes, BuffersFilled
<1>4. OffsetsRight'
  BY <1>1, <1>2, SameData DEF OffsetsRight
<1>5. SharesCopied'
  <2>1. ASSUME NEW q \in Ranks, Placed(call[q], q, output[q], blockPc[q])
        PROVE  Placed(call[q], q, output[q], blockPc'[q])
    BY <1>2, <2>1 DEF Placed
  <2>2. QED
    BY <1>1, <2>1, SameData DEF SharesCopied
<1>6. QED
  BY <1>3, <1>4, <1>5

\* Between the barriers the splits of all ranks are those of the call, and their
\* sums are the places of the rows.
LEMMA ExchangeData == \A r \in Ranks, k \in Blocks : IInv /\ DataInv /\ Exchange(r, k) => DataInv'
<1> SUFFICES ASSUME NEW r \in Ranks, NEW k \in Blocks, IInv, DataInv, Exchange(r, k) PROVE DataInv'
  OBVIOUS
<1> USE DEF IInv, DataInv
<1> DEFINE remote == RemoteRank(k)
           c == call[r]
           numRows == splitsBuf[remote][r]
           sent == [s \in 0 .. r |-> splitsBuf[remote][s]]
           received == [s \in 0 .. remote |-> splitsBuf[s][r]]
<1>1. /\ blockPc[r][k] = "exchange"
      /\ offsets' = [offsets EXCEPT ![r][k] =
                       <<SumFunction(sent) - numRows, SumFunction(received) - numRows, numRows>>]
      /\ outputSplits' = IF Index(k) = 0
                         THEN [outputSplits EXCEPT ![r][remote] = numRows] ELSE outputSplits
      /\ blockPc' = [blockPc EXCEPT ![r][k] = "copy"]
      /\ UNCHANGED <<config, call, hostPc, inputBuf, splitsBuf, output>>
  BY DEF Exchange, Index, memory
<1>2. remote \in Ranks /\ c \in 1 .. NumCalls /\ ConfigFits
  <2>1. ConfigFits
    BY DEF DataTypes
  <2>2. hostPc[r] # "input"
    BY <1>1 DEF Phases
  <2>3. QED
    BY <2>1, <2>2, BlockFacts, CallInRange
<1>3. \A s \in Ranks : splitsBuf[s] = Outgoing(c, s)
  <2>1. \A s \in Ranks : call[s] = c /\ hostPc[s] = "kernel"
    BY <1>1, Together
  <2>2. QED
    BY <2>1 DEF BuffersFilled
<1>4. numRows = Splits(c, remote, r)
  BY <1>2, <1>3, VectorTypes
<1>5. SumFunction(sent) - numRows = SentBefore(c, remote, r)
  <2> DEFINE f == Outgoing(c, remote)
  <2>1. /\ r \in Nat /\ Total(f, r) \in Nat /\ Total(f, r + 1) = Total(f, r) + Splits(c, remote, r)
        /\ Splits(c, remote, r) \in Nat
    BY <1>2, VectorTypes, TotalsFit
  <2>2. \A t \in 0 .. r : t \in Ranks
    BY <1>2, ConfigSizes DEF Ranks
  <2>3. \A t \in 0 .. r : splitsBuf[remote][t] = f[t] /\ f[t] \in Nat
    BY <1>2, <1>3, <2>2, VectorTypes
  <2>4. r + 1 \in Nat /\ (r + 1) - 1 = r
    BY <2>1
  <2>5. DOMAIN sent = 0 .. (r + 1) - 1 /\ \A t \in 0 .. (r + 1) - 1 : sent[t] = f[t] /\ f[t] \in Nat
    BY <2>3, <2>4
  <2>6. SumFunction(sent) = Total(f, r + 1)
    <3> HIDE DEF sent, f
    <3>1. QED
      BY <2>4, <2>5, SumIsTotal
  <2> HIDE DEF sent, numRows
  <2>7. QED
    BY <1>4, <2>1, <2>6 DEF SentBefore
<1>6. SumFunction(received) - numRows = ReceivedBefore(c, r, remote)
  <2> DEFINE f == Incoming(c, r)
  <2>1. /\ remote \in Nat /\ Total(f, remote) \in Nat
        /\ Total(f, remote + 1) = Total(f, remote) + Splits(c, remote, r)
        /\ Splits(c, remote, r) \in Nat
    BY <1>2, VectorTypes, TotalsFit
  <2>2. \A t \in 0 .. remote : t \in Ranks
    BY <1>2, <2>1, ConfigSizes DEF Ranks
  <2>3. \A t \in 0 .. remote : splitsBuf[t][r] = f[t] /\ f[t] \in Nat
    BY <1>2, <1>3, <2>2, VectorTypes
  <2>4. remote + 1 \in Nat /\ (remote + 1) - 1 = remote
    <3> HIDE DEF received, numRows, f, remote
    <3>1. QED
      BY <2>1
  <2>5. /\ DOMAIN received = 0 .. (remote + 1) - 1
        /\ \A t \in 0 .. (remote + 1) - 1 : received[t] = f[t] /\ f[t] \in Nat
    BY <2>3, <2>4
  <2>6. SumFunction(received) = Total(f, remote + 1)
    <3> HIDE DEF received, f, remote
    <3>1. QED
      BY <2>4, <2>5, SumIsTotal
  <2> HIDE DEF received, numRows
  <2>7. QED
    BY <1>4, <2>1, <2>6 DEF ReceivedBefore
<1> HIDE DEF sent, received, numRows
<1>7. \A q \in Ranks, j \in Blocks :
        /\ blockPc'[q][j] = IF q = r /\ j = k THEN "copy" ELSE blockPc[q][j]
        /\ offsets'[q][j] = IF q = r /\ j = k
                            THEN <<SentBefore(c, remote, r), ReceivedBefore(c, r, remote), Splits(c, remote, r)>>
                            ELSE offsets[q][j]
  <2>1. \A q \in Ranks, j \in Blocks : blockPc'[q][j] = IF q = r /\ j = k THEN "copy" ELSE blockPc[q][j]
    BY <1>1 DEF Types
  <2> DEFINE new == <<SentBefore(c, remote, r), ReceivedBefore(c, r, remote), Splits(c, remote, r)>>
  <2>2. offsets' = [offsets EXCEPT ![r][k] = new]
    BY <1>1, <1>4, <1>5, <1>6
  <2> HIDE DEF new
  <2>3. \A q \in Ranks, j \in Blocks : offsets'[q][j] = IF q = r /\ j = k THEN new ELSE offsets[q][j]
    <3>1. offsets = [q \in Ranks |-> [j \in Blocks |-> offsets[q][j]]]
      BY DEF DataTypes
    <3>2. QED
      BY <2>2, <3>1
  <2>4. QED
    BY <2>1, <2>3 DEF new
<1>8. \A q, s \in Ranks :
        outputSplits'[q][s] = IF q = r /\ s = remote /\ Index(k) = 0
                              THEN Splits(c, remote, r) ELSE outputSplits[q][s]
  <2>1. outputSplits = [q \in Ranks |-> [s \in Ranks |-> outputSplits[q][s]]]
    BY DEF DataTypes
  <2> HIDE DEF remote, c
  <2>2. QED
    BY <1>1, <1>2, <1>4, <2>1
<1>9. DataTypes'
  <2>1. offsets' = [q \in Ranks |-> [j \in Blocks |-> offsets'[q][j]]]
    BY <1>1 DEF DataTypes
  <2>2. outputSplits' = [q \in Ranks |-> [s \in Ranks |-> outputSplits'[q][s]]]
    <3>1. outputSplits = [q \in Ranks |-> [s \in Ranks |-> outputSplits[q][s]]]
      BY DEF DataTypes
    <3> HIDE DEF remote
    <3>2. QED
      BY <1>1, <1>2, <3>1
  <2>3. QED
    BY <1>1, <2>1, <2>2, SameData DEF DataTypes
<1>10. BuffersFilled'
  BY <1>1, SameData DEF BuffersFilled
<1>11. OffsetsRight'
  <2>1. ASSUME NEW q \in Ranks, NEW j \in Blocks, blockPc'[q][j] \in {"copy", "exit", "ended"}
        PROVE  /\ offsets'[q][j] = <<SentBefore(call[q], RemoteRank(j), q), ReceivedBefore(call[q], q, RemoteRank(j)),
                                     Splits(call[q], RemoteRank(j), q)>>
               /\ Index(j) = 0 => outputSplits'[q][RemoteRank(j)] = Splits(call[q], RemoteRank(j), q)
    <3>1. RemoteRank(j) \in Ranks
      BY <1>2, BlockFacts
    <3>2. CASE q = r /\ j = k
      BY <1>7, <1>8, <3>1, <3>2
    <3>3. CASE ~(q = r /\ j = k)
      BY <1>7, <1>8, <2>1, <3>1, <3>3 DEF OffsetsRight
    <3>4. QED
      BY <3>2, <3>3
  <2>2. QED
    BY <1>1, <2>1, SameData DEF OffsetsRight
<1>12. SharesCopied'
  <2>1. ASSUME NEW q \in Ranks, Placed(call[q], q, output[q], blockPc[q])
        PROVE  Placed(call[q], q, output[q], blockPc'[q])
    BY <1>7, <2>1 DEF Placed
  <2>2. QED
    BY <1>1, <2>1, SameData DEF SharesCopied
<1>13. QED
  BY <1>9, <1>10, <1>11, <1>12

\* The places of the rows from different ranks differ.
LEMMA PlacesDiffer ==
  ASSUME ConfigFits, NEW c \in 1 .. NumCalls, NEW r \in Ranks, NEW s \in Ranks, NEW t \in Ranks,
         NEW o \in 0 .. Splits(c, s, r) - 1, NEW u \in 0 .. Splits(c, t, r) - 1,
         ReceivedBefore(c, r, s) + o = ReceivedBefore(c, r, t) + u
  PROVE  s = t /\ o = u
<1> DEFINE f == Incoming(c, r)
<1>1. ASSUME NEW q \in Ranks
      PROVE  /\ q \in Nat /\ Total(f, q) \in Nat /\ f[q] = Splits(c, q, r) /\ f[q] \in Nat
             /\ \A x \in Ranks : q < x => Total(f, q) + f[q] <= Total(f, x)
  BY VectorTypes, TotalsFit
<1>2. Total(f, s) + o = Total(f, t) + u
  BY DEF ReceivedBefore
<1> HIDE DEF f
<1>3. o \in 0 .. f[s] - 1 /\ u \in 0 .. f[t] - 1
  BY <1>1
<1>4. ~(s < t) /\ ~(t < s)
  BY <1>1, <1>2, <1>3
<1>5. s = t
  BY <1>1, <1>4
<1>6. QED
  BY <1>1, <1>2, <1>3, <1>5

\* The rows come from the buffer of the call, and nothing else is overwritten.
LEMMA CopyData == \A r \in Ranks, k \in Blocks : IInv /\ DataInv /\ Copy(r, k) => DataInv'
<1> SUFFICES ASSUME NEW r \in Ranks, NEW k \in Blocks, IInv, DataInv, Copy(r, k) PROVE DataInv'
  OBVIOUS
<1> USE DEF IInv, DataInv
<1> DEFINE remote == RemoteRank(k)
           c == call[r]
           n == Splits(c, remote, r)
           share == Share(n, Index(k))
           base == ReceivedBefore(c, r, remote)
           first == SentBefore(c, remote, r)
           copied == {base + o + 1 : o \in share}
           size == NumReceived(c, r)
<1>1. remote \in Ranks /\ Index(k) \in Nat /\ c \in 1 .. NumCalls /\ ConfigFits /\ hostPc[r] = "kernel"
  <2>1. ConfigFits
    BY DEF DataTypes
  <2>2. blockPc[r][k] = "copy" /\ hostPc[r] = "kernel"
    BY DEF Phases, Copy
  <2>3. Index(k) \in 0 .. config.blocksPerRank - 1 /\ config.blocksPerRank \in Nat
    BY <2>1, BlockFacts, ConfigSizes
  <2> HIDE DEF remote, c
  <2>4. Index(k) \in Nat
    BY <2>3
  <2>5. QED
    BY <2>1, <2>2, <2>4, BlockFacts, CallInRange DEF remote, c
<1>2. offsets[r][k] = <<first, base, n>>
  BY DEF OffsetsRight, Copy
<1>3. inputBuf[remote] = RowsOf(c, remote)
  <2>1. call[remote] = c /\ hostPc[remote] = "kernel"
    BY <1>1, Together DEF Copy
  <2>2. QED
    BY <1>1, <2>1 DEF BuffersFilled
<1>4. /\ blockPc[r][k] = "copy"
      /\ output' = [output EXCEPT ![r] =
                      [i \in DOMAIN output[r] \union copied |->
                         IF i \in copied THEN RowsOf(c, remote)[i - base + first] ELSE output[r][i]]]
      /\ blockPc' = [blockPc EXCEPT ![r][k] = "exit"]
      /\ UNCHANGED <<config, call, hostPc, inputBuf, splitsBuf, offsets, outputSplits>>
  <2> DEFINE off == offsets[r][k]
             input == inputBuf[RemoteRank(k)]
             went(f) == {f[2] + o + 1 : o \in Share(f[3], k % config.blocksPerRank)}
  <2>1. off[1] = first /\ off[2] = base /\ off[3] = n
    BY <1>2
  <2>2. /\ blockPc[r][k] = "copy"
        /\ output' = [output EXCEPT ![r] =
                        [i \in DOMAIN output[r] \union went(off) |->
                           IF i \in went(off) THEN input[i - off[2] + off[1]] ELSE output[r][i]]]
        /\ blockPc' = [blockPc EXCEPT ![r][k] = "exit"]
        /\ UNCHANGED <<config, call, hostPc, inputBuf, splitsBuf, offsets, outputSplits>>
    BY DEF Copy, memory
  <2>3. went(off) = copied
    BY <2>1 DEF Index
  <2>4. input = RowsOf(c, remote)
    BY <1>3
  <2> HIDE DEF off, went, input, copied, first, base, remote, c
  <2>5. QED
    BY <2>1, <2>2, <2>3, <2>4
<1>5. \A s \in Ranks : /\ Splits(c, s, r) \in Nat /\ ReceivedBefore(c, r, s) \in Nat /\ SentBefore(c, s, r) \in Nat
                       /\ ReceivedBefore(c, r, s) + Splits(c, s, r) <= size
                       /\ SentBefore(c, s, r) + Splits(c, s, r) <= Total(Outgoing(c, s), config.world)
                       /\ Total(Outgoing(c, s), config.world) \in Nat /\ size \in Nat
  BY <1>1, VectorTypes, TotalsFit DEF ReceivedBefore, SentBefore, NumReceived
<1>6. share \subseteq 0 .. n - 1
  BY <1>1, <1>5, SharesCover
<1>7. output[r] = [p \in 1 .. size |-> output[r][p]]
  BY <1>1 DEF SharesCopied, Placed
<1> HIDE DEF remote, c, share, base, first, size, n
<1>8. copied \subseteq 1 .. size
  <2>1. n \in Nat /\ base \in Nat /\ size \in Nat /\ base + n <= size
    BY <1>1, <1>5 DEF base, n
  <2>2. \A o \in 0 .. n - 1 : base + o + 1 \in 1 .. size
    BY <2>1
  <2>3. QED
    BY <1>6, <2>2
<1>9. output'[r] = [p \in 1 .. size |-> IF p \in copied THEN RowsOf(c, remote)[p - base + first] ELSE output[r][p]]
  <2>1. r \in DOMAIN output
    BY DEF DataTypes
  <2>2. DOMAIN output[r] \union copied = 1 .. size
    BY <1>7, <1>8
  <2> HIDE DEF copied
  <2>3. QED
    BY <1>4, <2>1, <2>2
<1>10. \A o \in share : output'[r][base + o + 1] = Row(c, remote, first + o)
  <2> TAKE o \in share
  <2>1. base + o + 1 \in copied /\ base + o + 1 \in 1 .. size
    BY <1>8
  <2>2. (base + o + 1) - base + first = first + o + 1 /\ first + o + 1 \in 1 .. Total(Outgoing(c, remote), config.world)
        /\ (first + o + 1) - 1 = first + o
    BY <1>1, <1>5, <1>6 DEF base, first, n
  <2>3. RowsOf(c, remote)[first + o + 1] = Row(c, remote, first + o)
    <3>1. RowsOf(c, remote) = [i \in 1 .. Total(Outgoing(c, remote), config.world) |-> Row(c, remote, i - 1)]
      BY <1>1, RowsAre
    <3>2. QED
      BY <2>2, <3>1
  <2>4. output'[r][base + o + 1] = RowsOf(c, remote)[(base + o + 1) - base + first]
    BY <1>9, <2>1
  <2>5. QED
    BY <2>2, <2>3, <2>4
<1>11. \A q \in Ranks, j \in Blocks : blockPc'[q][j] = IF q = r /\ j = k THEN "exit" ELSE blockPc[q][j]
  BY <1>4 DEF Types
<1>12. \A q \in Ranks : q # r => output'[q] = output[q] /\ blockPc'[q] = blockPc[q]
  <2>1. output = [q \in Ranks |-> output[q]]
    BY DEF DataTypes
  <2>2. \A q \in Ranks : q # r => output'[q] = output[q]
    BY <1>4, <2>1
  <2>3. QED
    BY <1>4, <2>2 DEF Types
<1>13. DataTypes'
  <2>1. output' = [q \in Ranks |-> output'[q]]
    <3>1. output = [q \in Ranks |-> output[q]]
      BY DEF DataTypes
    <3>2. QED
      BY <1>4, <3>1
  <2>2. QED
    BY <1>4, <2>1, SameData DEF DataTypes
<1>14. BuffersFilled'
  BY <1>4, SameData DEF BuffersFilled
<1>15. OffsetsRight'
  <2>1. \A q \in Ranks, j \in Blocks :
          blockPc'[q][j] \in {"copy", "exit", "ended"} => blockPc[q][j] \in {"copy", "exit", "ended"}
    BY <1>4, <1>11
  <2>2. QED
    BY <1>4, <2>1, SameData DEF OffsetsRight
<1>16. Placed(c, r, output'[r], blockPc'[r])
  <2>1. output'[r] = [p \in 1 .. NumReceived(c, r) |-> output'[r][p]]
    <3>1. output'[r] = [p \in 1 .. size |-> output'[r][p]]
      BY <1>9
    <3>2. QED
      BY <3>1 DEF size
  <2>2. ASSUME NEW j \in Blocks, blockPc'[r][j] \in {"exit", "ended"},
               NEW u \in Share(Splits(c, RemoteRank(j), r), Index(j))
        PROVE  output'[r][ReceivedBefore(c, r, RemoteRank(j)) + u + 1]
                 = Row(c, RemoteRank(j), SentBefore(c, RemoteRank(j), r) + u)
    <3> DEFINE t == RemoteRank(j)
               p == ReceivedBefore(c, r, t) + u + 1
    <3>1. t \in Ranks /\ Index(j) \in Nat
      <4>1. t \in Ranks /\ Index(j) \in 0 .. config.blocksPerRank - 1 /\ config.blocksPerRank \in Nat
        BY <1>1, BlockFacts, ConfigSizes
      <4> HIDE DEF t
      <4>2. QED
        BY <4>1
    <3>2. u \in 0 .. Splits(c, t, r) - 1
      <4>1. Splits(c, t, r) \in Nat
        BY <1>5, <3>1
      <4>2. QED
        BY <1>1, <3>1, <4>1, SharesCover
    <3>3. p \in 1 .. size /\ ReceivedBefore(c, r, t) \in Nat /\ u \in Nat /\ Splits(c, t, r) \in Nat
      <4> HIDE DEF t
      <4>1. QED
        BY <1>5, <3>1, <3>2
    <3> HIDE DEF t
    <3>4. CASE p \in copied
      <4>1. PICK o \in share : p = base + o + 1
        BY <3>4
      <4>2. o \in 0 .. n - 1 /\ base \in Nat
        BY <1>1, <1>5, <1>6 DEF base
      <4>3. ReceivedBefore(c, r, t) + u = base + o
        BY <3>3, <4>1, <4>2
      <4>4. t = remote /\ u = o
        BY <1>1, <3>1, <3>2, <4>2, <4>3, PlacesDiffer DEF base, n
      <4>5. output'[r][p] = Row(c, remote, first + o)
        BY <1>10, <4>1
      <4>6. QED
        BY <4>4, <4>5 DEF t, first
    <3>5. CASE p \notin copied
      <4>1. output'[r][p] = output[r][p]
        BY <1>9, <3>3, <3>5
      <4>2. j # k
        <5> SUFFICES ASSUME j = k PROVE FALSE
          OBVIOUS
        <5>1. u \in share /\ p = base + u + 1
          BY DEF t, share, base, n, remote
        <5>2. QED
          BY <3>5, <5>1
      <4>3. blockPc[r][j] \in {"exit", "ended"}
        BY <1>11, <2>2, <4>2
      <4>4. Placed(c, r, output[r], blockPc[r])
        BY <1>1 DEF SharesCopied, c
      <4>5. output[r][p] = Row(c, t, SentBefore(c, t, r) + u)
        BY <4>3, <4>4 DEF Placed, t
      <4>6. QED
        BY <4>1, <4>5 DEF t
    <3>6. QED
      BY <3>4, <3>5
  <2>3. QED
    BY <2>1, <2>2 DEF Placed
<1>17. SharesCopied'
  <2>1. ASSUME NEW q \in Ranks, hostPc[q] = "kernel"
        PROVE  Placed(call[q], q, output'[q], blockPc'[q])
    <3>1. CASE q = r
      BY <1>16, <3>1 DEF c
    <3>2. CASE q # r
      BY <1>12, <2>1, <3>2 DEF SharesCopied
    <3>3. QED
      BY <3>1, <3>2
  <2>2. QED
    BY <1>4, <2>1, SameData DEF SharesCopied
<1>18. QED
  BY <1>13, <1>14, <1>15, <1>17

LEMMA StepData == IInv /\ DataInv /\ [Next]_vars => DataInv'
<1> SUFFICES ASSUME IInv, DataInv, [Next]_vars PROVE DataInv'
  OBVIOUS
<1>1. CASE UNCHANGED vars
  BY <1>1, SameDataInv DEF vars, memory, results
<1>2. CASE Next
  <2>1. \/ \E r \in Ranks : CopyInput(r) \/ CopySplits(r) \/ Launch(r) \/ EndKernel(r)
        \/ \E r \in Ranks, k \in Blocks :
             \/ \E t \in Ranks : PutSignal(r, k, t) \/ WaitSignal(r, k, t)
             \/ LeaveBarrier(r, k) \/ Exchange(r, k) \/ Copy(r, k)
    BY <1>2 DEF Next, Stream, Block
  <2>2. QED
    BY <2>1, CopyInputData, CopySplitsData, LaunchData, EndKernelData, PutSignalData, WaitSignalData,
       LeaveBarrierData, ExchangeData, CopyData
<1>3. QED
  BY <1>1, <1>2

-----------------------------------------------------------------------------
(* Theorems.                                                               *)

\* A signal on the pad is one put and not yet taken, in all barriers and calls.
THEOREM Invariance == Spec => []IInv
<1>1. QED
  BY InitInv, StepInv, PTL DEF Spec

\* No block leaves a barrier before the blocks with its index have begun it on
\* all ranks: it has taken a signal of each as often as it has left barriers.
THEOREM Meet == Spec => []BlocksMeet
<1>1. QED
  BY Invariance, InvMeet, PTL

\* Between barriers that all ranks have left equally often, the pad is zero.
THEOREM PadZero == Spec => []PadReturnsToZero
<1>1. IInv => PadReturnsToZero
  <2> SUFFICES ASSUME IInv, NEW k \in Blocks,
                      \A r, s \in Ranks : ~InBarrier(r, k) /\ Left(r, k) = Left(s, k),
                      NEW r \in Ranks, NEW s \in Ranks
               PROVE  pad[r][k][s] = 0
    BY DEF PadReturnsToZero
  <2>1. Left(r, k) \in Int /\ Left(s, k) = Left(r, k)
    BY LeftType DEF IInv
  <2>2. lane[r][k][s] = "put" /\ lane[s][k][r] = "put"
    BY DEF IInv, Phases
  <2>3. pad[r][k][s] = Puts(s, k, r) - Takes(r, k, s)
    BY DEF IInv, SignalsCount
  <2>4. QED
    BY <2>1, <2>2, <2>3 DEF Puts, Takes
<1>2. QED
  BY <1>1, Invariance, PTL

\* The memory, the places and the output are those of the call of each rank.
THEOREM DataInvariance == Spec => [](IInv /\ DataInv)
<1>1. QED
  BY InitInv, StepInv, InitData, StepData, PTL DEF Spec

\* Together the blocks of an ended kernel have put every row in place.
THEOREM Exact == Spec => []OutputIsExact
<1>1. IInv /\ DataInv => OutputIsExact
  <2> SUFFICES ASSUME IInv, DataInv, NEW r \in Ranks, KernelEnded(r)
               PROVE  /\ output[r] = Received(call[r], r)
                      /\ \A s \in Ranks : outputSplits[r][s] = Splits(call[r], s, r)
    BY DEF OutputIsExact
  <2> DEFINE c == call[r]
             f == Incoming(c, r)
             size == NumReceived(c, r)
  <2>1. ConfigFits /\ hostPc[r] = "kernel" /\ c \in 1 .. NumCalls /\ \A k \in Blocks : blockPc[r][k] = "ended"
    <3>1. ConfigFits /\ hostPc[r] = "kernel" /\ \A k \in Blocks : blockPc[r][k] = "ended"
      BY DEF DataInv, DataTypes, KernelEnded
    <3>2. QED
      BY <3>1, CallInRange DEF IInv, DataInv
  <2>2. Placed(c, r, output[r], blockPc[r])
    BY <2>1 DEF DataInv, SharesCopied
  <2>3. ASSUME NEW s \in Ranks PROVE outputSplits[r][s] = Splits(c, s, r)
    <3>1. 0 \in 0 .. config.blocksPerRank - 1
      BY <2>1, ConfigSizes
    <3>2. PICK k \in Blocks : RemoteRank(k) = s /\ Index(k) = 0
      BY <2>1, <3>1, BlockOf
    <3>3. QED
      BY <2>1, <3>2 DEF DataInv, OffsetsRight
  <2>4. \A s \in Ranks : f[s] = Splits(c, s, r) /\ f[s] \in Nat /\ Total(f, s) \in Nat /\ s \in Nat
    BY <2>1, VectorTypes, TotalsFit
  <2>5. config.world \in Nat /\ Ranks = 0 .. config.world - 1
    BY <2>1, ConfigSizes DEF Ranks
  <2> HIDE DEF c, f
  <2>6. ASSUME NEW p \in 1 .. size PROVE output[r][p] = Received(c, r)[p]
    <3>1. p \in 1 .. Total(f, config.world)
      BY DEF f, NumReceived
    <3>2. PICK s \in 0 .. config.world - 1 : p \in Total(f, s) + 1 .. Total(f, s) + f[s]
      BY <2>4, <2>5, <3>1, PlaceOf
    <3> DEFINE o == p - Total(f, s) - 1
    <3>3. s \in Ranks /\ o \in 0 .. f[s] - 1 /\ p = Total(f, s) + o + 1
      BY <2>4, <2>5, <3>2
    <3> HIDE DEF o
    <3>4. PICK i \in 0 .. config.blocksPerRank - 1 : o \in Share(f[s], i)
      BY <2>1, <2>4, <3>3, SharesCover
    <3>5. PICK k \in Blocks : RemoteRank(k) = s /\ Index(k) = i
      BY <2>1, <3>3, BlockOf
    <3>6. p = ReceivedBefore(c, r, s) + o + 1 /\ f[s] = Splits(c, s, r)
      BY <2>4, <3>3 DEF ReceivedBefore, f
    <3>7. output[r][p] = Row(c, s, SentBefore(c, s, r) + o)
      BY <2>1, <2>2, <3>4, <3>5, <3>6 DEF Placed
    <3>8. Received(c, r)[p] = Row(c, s, SentBefore(c, s, r) + o)
      BY <2>1, <3>3, <3>6, ReceivedAre
    <3>9. QED
      BY <3>7, <3>8
  <2>7. output[r] = Received(c, r)
    <3>1. output[r] = [p \in 1 .. size |-> output[r][p]]
      BY <2>2 DEF Placed
    <3>2. Received(c, r) = [p \in 1 .. size |-> Received(c, r)[p]]
      BY <2>1, ReceivedAre
    <3>3. [p \in 1 .. size |-> output[r][p]] = [p \in 1 .. size |-> Received(c, r)[p]]
      BY <2>6
    <3>4. QED
      BY <3>1, <3>2, <3>3
  <2>8. QED
    BY <2>3, <2>7 DEF c
<1>2. QED
  BY <1>1, DataInvariance, PTL
==============================================================================
