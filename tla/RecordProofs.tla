---------------------------- MODULE RecordProofs -----------------------------
(***************************************************************************)
(* Theorems about the stored streams (Records), for records of any number  *)
(* and size, any limits and any damage of one cell or loss of an end: what *)
(* is accepted is what was written, and what was written can be read.      *)
(*                                                                         *)
(* The sums of the model are folds.  A fold is unfolded by counting: it is *)
(* the number of elements of disjoint blocks, by induction over the least  *)
(* counterexample.                                                         *)
(***************************************************************************)
EXTENDS Codecs, FiniteSetTheorems, SequenceTheorems, WellFoundedInduction, TLAPS

-----------------------------------------------------------------------------
(* Sums and joined sequences *)

\* A set of numbers that is not empty has a least one.
LEMMA Least ==
    ASSUME NEW T \in SUBSET Nat, T # {}
    PROVE  \E x \in T : \A y \in T : x <= y
<1> DEFINE R == OpToRel(<, Nat)
<1>1. IsWellFoundedOn(R, Nat)
    BY NatLessThanWellFounded
<1> HIDE DEF R
<1>2. PICK x \in T : \A y \in T : ~(<<y, x>> \in R)
    BY <1>1, WFMin
<1>3. \A y, z \in Nat : y < z => <<y, z>> \in R
    BY DEF R, OpToRel
<1>4. ASSUME NEW y \in T PROVE x <= y
    <2>1. x \in Nat /\ y \in Nat /\ ~(y < x)
        BY <1>2, <1>3
    <2> QED BY <2>1
<1> QED BY <1>4

\* Induction, with the set of the numbers that have the property in the place of the
\* property.
LEMMA Induction ==
    ASSUME NEW T, 0 \in T, \A n \in Nat : n \in T => n + 1 \in T
    PROVE  Nat \subseteq T
<1> SUFFICES ASSUME Nat \ T # {} PROVE FALSE
    OBVIOUS
<1>1. PICK x \in Nat \ T : \A y \in Nat \ T : x <= y
    BY Least
<1>2. x # 0 /\ x - 1 \in Nat
    BY <1>1
<1>3. x - 1 \in T
    BY <1>1, <1>2
<1> QED BY <1>1, <1>2, <1>3

\* Blocks of the lengths f[i], for the i in s.
Blocks(f, s) == UNION {{i} \X (1 .. f[i]) : i \in s}

\* A block adds its length.
LEMMA BlockAdded ==
    ASSUME NEW f, NEW s, NEW x, x \notin s, f[x] \in Nat, IsFiniteSet(Blocks(f, s))
    PROVE  /\ IsFiniteSet(Blocks(f, s \cup {x}))
           /\ Cardinality(Blocks(f, s \cup {x})) = Cardinality(Blocks(f, s)) + f[x]
<1> DEFINE b == {x} \X (1 .. f[x])
<1>1. Blocks(f, s \cup {x}) = Blocks(f, s) \cup b /\ Blocks(f, s) \cap b = {}
    BY DEF Blocks
<1>2. IsFiniteSet({x}) /\ Cardinality({x}) = 1
    BY FS_Singleton
<1>3. IsFiniteSet(1 .. f[x]) /\ Cardinality(1 .. f[x]) = f[x]
    <2> DEFINE n == f[x]
    <2> HIDE DEF n
    <2>1. n \in Int /\ n >= 0 /\ 1 \in Int
        BY DEF n
    <2>2. IsFiniteSet(1 .. n) /\ Cardinality(1 .. n) = n
        BY <2>1, FS_Interval, SMTT(30)
    <2> QED BY <2>2 DEF n
<1>4. IsFiniteSet(b) /\ Cardinality(b) = Cardinality({x}) * Cardinality(1 .. f[x])
    BY <1>2, <1>3, FS_Product
<1>5. IsFiniteSet(b) /\ Cardinality(b) = f[x]
    BY <1>2, <1>3, <1>4
<1>6. Cardinality({}) = 0 /\ Cardinality(Blocks(f, s)) \in Nat
    BY FS_EmptySet, FS_CardinalityType
<1> HIDE DEF b
<1>7. /\ IsFiniteSet(Blocks(f, s) \cup b)
      /\ Cardinality(Blocks(f, s) \cup b)
            = Cardinality(Blocks(f, s)) + Cardinality(b) - Cardinality(Blocks(f, s) \cap b)
    BY <1>5, FS_Union
<1>8. Cardinality(Blocks(f, s) \cap b) = 0
    BY <1>1, <1>6
<1>9. Cardinality(Blocks(f, s) \cup b) = Cardinality(Blocks(f, s)) + f[x]
    BY <1>5, <1>6, <1>7, <1>8
<1> QED BY <1>1, <1>7, <1>9

\* What the fold of + over f computes, from set to set.
Folds(iter, f, D) ==
    iter = [s \in SUBSET D |-> IF s = {} THEN 0
                ELSE f[CHOOSE x \in s : TRUE] + iter[s \ {CHOOSE x \in s : TRUE}]]

\* The fold is a choice among the solutions of its recursion.
LEMMA Unfold ==
    ASSUME NEW f
    PROVE  Total(f) = (CHOOSE iter : Folds(iter, f, DOMAIN f))[DOMAIN f]
BY DEF Total, FoldSeq, FoldFunction, FoldFunctionOnSet, MapThenFoldSet, Folds

\* The subsets of at most n elements.
Small(D, n) == {s \in SUBSET D : IsFiniteSet(s) /\ Cardinality(s) <= n}

\* All but one of at most n + 1 are at most n.
LEMMA SmallStep ==
    ASSUME NEW D, NEW n \in Nat, NEW s \in Small(D, n + 1), NEW x \in s
    PROVE  s \ {x} \in Small(D, n)
<1>1. IsFiniteSet(s) /\ Cardinality(s) <= n + 1 /\ s \subseteq D
    BY DEF Small
<1>2. IsFiniteSet(s \ {x}) /\ Cardinality(s \ {x}) = Cardinality(s) - 1 /\ Cardinality(s) \in Nat
    BY <1>1, FS_RemoveElement, FS_CardinalityType
<1> QED BY <1>1, <1>2 DEF Small

\* Only the empty set has no elements.
LEMMA SmallZero ==
    ASSUME NEW D
    PROVE  Small(D, 0) = {{}}
<1>1. \A s \in Small(D, 0) : s = {}
    <2> SUFFICES ASSUME NEW s \in Small(D, 0) PROVE s = {}
        OBVIOUS
    <2>1. IsFiniteSet(s) /\ Cardinality(s) <= 0
        BY DEF Small
    <2>2. Cardinality(s) \in Nat
        BY <2>1, FS_CardinalityType
    <2> QED BY <2>1, <2>2, FS_EmptySet
<1>2. {} \in Small(D, 0)
    BY FS_EmptySet DEF Small
<1> QED BY <1>1, <1>2

\* The recursion of the fold has a solution.
LEMMA FoldExists ==
    ASSUME NEW D, IsFiniteSet(D), NEW f
    PROVE  \E iter : Folds(iter, f, D)
<1> DEFINE Pick(s) == CHOOSE x \in s : TRUE
           Turn(g, s) == IF s = {} THEN 0 ELSE f[Pick(s)] + g[s \ {Pick(s)}]
           N == {n \in Nat : \E g : g = [s \in Small(D, n) |-> Turn(g, s)]}
<1>0. \A s : s # {} => Pick(s) \in s
    OBVIOUS
<1> HIDE DEF Pick
<1>1. 0 \in N
    <2> DEFINE g == [s \in Small(D, 0) |-> 0]
    <2>1. g = [s \in Small(D, 0) |-> Turn(g, s)]
        BY SmallZero
    <2> HIDE DEF g
    <2> QED BY <2>1
<1>2. ASSUME NEW n \in Nat, n \in N
      PROVE  n + 1 \in N
    <2>1. PICK g : g = [s \in Small(D, n) |-> Turn(g, s)]
        BY <1>2
    <2> DEFINE h == [s \in Small(D, n + 1) |-> Turn(g, s)]
    <2>2. ASSUME NEW s \in Small(D, n + 1), s # {}
          PROVE  h[s \ {Pick(s)}] = g[s \ {Pick(s)}]
        <3>1. s \ {Pick(s)} \in Small(D, n)
            BY <1>0, <2>2, SmallStep
        <3>2. s \ {Pick(s)} \in Small(D, n + 1)
            BY <3>1, FS_CardinalityType DEF Small
        <3>3. h[s \ {Pick(s)}] = Turn(g, s \ {Pick(s)})
            BY <3>2
        <3>4. g[s \ {Pick(s)}] = Turn(g, s \ {Pick(s)})
            BY <2>1, <3>1
        <3> QED BY <3>3, <3>4
    <2>3. \A s \in Small(D, n + 1) : Turn(g, s) = Turn(h, s)
        BY <2>2
    <2>4. h = [s \in Small(D, n + 1) |-> Turn(h, s)]
        <3> HIDE DEF Turn
        <3> QED BY <2>3
    <2> HIDE DEF h
    <2> QED BY <2>4
<1> HIDE DEF N
<1>3. Nat \subseteq N
    BY <1>1, <1>2, Induction
<1>4. Cardinality(D) \in N
    BY <1>3, FS_CardinalityType
<1>5. Small(D, Cardinality(D)) = SUBSET D
    BY FS_Subset DEF Small
<1>6. PICK g : g = [s \in SUBSET D |-> Turn(g, s)]
    BY <1>4, <1>5 DEF N
<1>7. Folds(g, f, D)
    BY <1>6 DEF Folds, Pick
<1> QED BY <1>7

\* A sum over the elements of the blocks counts them.
LEMMA FoldCounts ==
    ASSUME NEW D, IsFiniteSet(D), NEW f, \A i \in D : f[i] \in Nat, NEW iter, Folds(iter, f, D)
    PROVE  /\ IsFiniteSet(Blocks(f, D))
           /\ iter[D] = Cardinality(Blocks(f, D))
<1> DEFINE M == {n \in Nat : \A s \in Small(D, n) :
                     IsFiniteSet(Blocks(f, s)) /\ iter[s] = Cardinality(Blocks(f, s))}
<1>1. Folds(iter, f, D)
    OBVIOUS
<1>3. 0 \in M
    <2>1. Blocks(f, {}) = {}
        BY DEF Blocks
    <2>2. iter[{}] = 0
        BY <1>1 DEF Folds
    <2> QED BY <2>1, <2>2, SmallZero, FS_EmptySet
<1>4. ASSUME NEW n \in Nat, n \in M
      PROVE  n + 1 \in M
    <2> SUFFICES ASSUME NEW s \in Small(D, n + 1)
                 PROVE  IsFiniteSet(Blocks(f, s)) /\ iter[s] = Cardinality(Blocks(f, s))
        OBVIOUS
    <2>1. CASE s = {}
        <3>1. s \in Small(D, n)
            BY <2>1, FS_EmptySet DEF Small
        <3> QED BY <1>4, <3>1
    <2>2. CASE s # {}
        <3> DEFINE x == CHOOSE x \in s : TRUE
                   t == s \ {x}
        <3>1. x \in s /\ s \subseteq D
            BY <2>2 DEF Small
        <3>2. iter[s] = f[x] + iter[t]
            BY <1>1, <2>2, <3>1 DEF Folds
        <3> HIDE DEF x
        <3>3. t \in Small(D, n)
            BY <3>1, SmallStep
        <3>4. IsFiniteSet(Blocks(f, t)) /\ iter[t] = Cardinality(Blocks(f, t))
            BY <1>4, <3>3
        <3>5. s = t \cup {x} /\ x \notin t /\ f[x] \in Nat
            BY <3>1
        <3> HIDE DEF t
        <3>6. /\ IsFiniteSet(Blocks(f, t \cup {x}))
              /\ Cardinality(Blocks(f, t \cup {x})) = Cardinality(Blocks(f, t)) + f[x]
            BY <3>4, <3>5, BlockAdded
        <3>7. Cardinality(Blocks(f, t)) \in Nat
            BY <3>4, FS_CardinalityType
        <3> QED BY <3>2, <3>4, <3>5, <3>6, <3>7
    <2> QED BY <2>1, <2>2
<1> HIDE DEF M
<1>5. Nat \subseteq M
    BY <1>3, <1>4, Induction
<1>6. Cardinality(D) \in M
    BY <1>5, FS_CardinalityType
<1>7. D \in Small(D, Cardinality(D))
    BY FS_CardinalityType DEF Small
<1> QED BY <1>6, <1>7 DEF M

\* The fold of + counts the elements of the blocks.
LEMMA TotalCounts ==
    ASSUME NEW D, IsFiniteSet(D), NEW f, D = DOMAIN f, \A i \in D : f[i] \in Nat
    PROVE  /\ IsFiniteSet(Blocks(f, D))
           /\ Total(f) = Cardinality(Blocks(f, D))
<1> DEFINE iter == CHOOSE g : Folds(g, f, D)
<1>1. Folds(iter, f, D)
    BY FoldExists
<1>2. Total(f) = iter[D]
    BY Unfold
<1> HIDE DEF iter
<1> QED BY <1>1, <1>2, FoldCounts

\* The sum of the first i numbers.
SumTo(lengths, i) == Total(SubSeq(lengths, 1, i))

\* It counts the elements of the first i blocks.
LEMMA SumCounts ==
    ASSUME NEW lengths \in Seq(Nat), NEW i \in 0 .. Len(lengths)
    PROVE  /\ IsFiniteSet(Blocks(lengths, 1 .. i))
           /\ SumTo(lengths, i) = Cardinality(Blocks(lengths, 1 .. i))
<1> DEFINE first == SubSeq(lengths, 1, i)
<1>1. i \in Int /\ 1 \in Int /\ i >= 0 /\ i <= Len(lengths) /\ Len(lengths) \in Nat
    OBVIOUS
<1>2. DOMAIN first = 1 .. i /\ \A j \in 1 .. i : first[j] = lengths[j] /\ lengths[j] \in Nat
    BY <1>1
<1> HIDE DEF first
<1>3. IsFiniteSet(1 .. i)
    BY <1>1, FS_Interval
<1>4. IsFiniteSet(Blocks(first, 1 .. i)) /\ Total(first) = Cardinality(Blocks(first, 1 .. i))
    BY <1>2, <1>3, TotalCounts
<1>5. Blocks(first, 1 .. i) = Blocks(lengths, 1 .. i)
    BY <1>2 DEF Blocks
<1> QED BY <1>4, <1>5 DEF SumTo, first

\* How the sums grow.
LEMMA SumSteps ==
    ASSUME NEW lengths \in Seq(Nat)
    PROVE  /\ SumTo(lengths, 0) = 0
           /\ \A i \in 0 .. Len(lengths) : SumTo(lengths, i) \in Nat
           /\ \A i \in 1 .. Len(lengths) :
                 SumTo(lengths, i) = SumTo(lengths, i - 1) + lengths[i]
           /\ \A i, j \in 0 .. Len(lengths) : i <= j => SumTo(lengths, i) <= SumTo(lengths, j)
           /\ Total(lengths) = SumTo(lengths, Len(lengths))
<1>0. Len(lengths) \in Nat
    OBVIOUS
<1>1. SumTo(lengths, 0) = 0
    <2>1. 1 .. 0 = {} /\ 0 \in 0 .. Len(lengths)
        BY <1>0
    <2>2. Blocks(lengths, 1 .. 0) = {}
        BY <2>1 DEF Blocks
    <2> QED BY <2>1, <2>2, SumCounts, FS_EmptySet
<1>2. \A i \in 0 .. Len(lengths) : SumTo(lengths, i) \in Nat
    BY SumCounts, FS_CardinalityType
<1>3. ASSUME NEW i \in 1 .. Len(lengths)
      PROVE  SumTo(lengths, i) = SumTo(lengths, i - 1) + lengths[i]
    <2>1. i - 1 \in 0 .. Len(lengths) /\ i \in 0 .. Len(lengths)
        BY <1>0
    <2>2. 1 .. i = (1 .. i - 1) \cup {i} /\ i \notin 1 .. i - 1 /\ lengths[i] \in Nat
        BY <1>0
    <2> DEFINE s == 1 .. i - 1
    <2>3. IsFiniteSet(Blocks(lengths, s))
        BY <2>1, SumCounts
    <2>4. 1 .. i = s \cup {i} /\ i \notin s
        BY <2>2
    <2> HIDE DEF s
    <2>5. Cardinality(Blocks(lengths, s \cup {i})) = Cardinality(Blocks(lengths, s)) + lengths[i]
        BY <2>2, <2>3, <2>4, BlockAdded
    <2>6. SumTo(lengths, i - 1) = Cardinality(Blocks(lengths, s))
        BY <2>1, SumCounts DEF s
    <2>7. SumTo(lengths, i) = Cardinality(Blocks(lengths, s \cup {i}))
        BY <2>1, <2>4, SumCounts
    <2> QED BY <2>5, <2>6, <2>7
<1>4. ASSUME NEW i \in 0 .. Len(lengths), NEW j \in 0 .. Len(lengths), i <= j
      PROVE  SumTo(lengths, i) <= SumTo(lengths, j)
    <2>1. 1 .. i \subseteq 1 .. j
        BY <1>0, <1>4
    <2>2. Blocks(lengths, 1 .. i) \subseteq Blocks(lengths, 1 .. j)
        BY <2>1 DEF Blocks
    <2>3. IsFiniteSet(Blocks(lengths, 1 .. j))
        BY SumCounts
    <2>4. Cardinality(Blocks(lengths, 1 .. i)) <= Cardinality(Blocks(lengths, 1 .. j))
        BY <2>2, <2>3, FS_Subset
    <2> QED BY <2>4, SumCounts
<1>5. Total(lengths) = SumTo(lengths, Len(lengths))
    BY SubSeqFull DEF SumTo
<1> QED BY <1>1, <1>2, <1>3, <1>4, <1>5

\* One number more.
LEMMA SumAppend ==
    ASSUME NEW lengths \in Seq(Nat), NEW n \in Nat
    PROVE  /\ Total(Append(lengths, n)) = Total(lengths) + n
           /\ \A i \in 0 .. Len(lengths) : SumTo(Append(lengths, n), i) = SumTo(lengths, i)
<1> DEFINE more == Append(lengths, n)
<1>1. /\ more \in Seq(Nat) /\ Len(more) = Len(lengths) + 1 /\ Len(lengths) \in Nat
      /\ more[Len(lengths) + 1] = n
      /\ \A j \in 1 .. Len(lengths) : more[j] = lengths[j]
    BY AppendProperties, LenProperties
<1> HIDE DEF more
<1>2. ASSUME NEW i \in 0 .. Len(lengths)
      PROVE  SumTo(more, i) = SumTo(lengths, i)
    <2>1. \A j \in 1 .. i : more[j] = lengths[j]
        BY <1>1
    <2>2. Blocks(more, 1 .. i) = Blocks(lengths, 1 .. i)
        BY <2>1 DEF Blocks
    <2>3. i \in 0 .. Len(more)
        BY <1>1
    <2> QED BY <1>1, <2>2, <2>3, SumCounts
<1>3. Total(more) = SumTo(more, Len(lengths) + 1)
    BY <1>1, SumSteps
<1>4. Len(lengths) + 1 \in 1 .. Len(more) /\ Len(lengths) + 1 - 1 = Len(lengths)
    BY <1>1
<1>5. SumTo(more, Len(lengths) + 1) = SumTo(more, Len(lengths)) + n
    BY <1>1, <1>4, SumSteps
<1>6. SumTo(more, Len(lengths)) = Total(lengths)
    BY <1>1, <1>2, SumSteps
<1> QED BY <1>2, <1>3, <1>5, <1>6 DEF more

\* Every place in the joined blocks is in one of them.
LEMMA PlaceInBlock ==
    ASSUME NEW lengths \in Seq(Nat), NEW p \in 1 .. Total(lengths)
    PROVE  \E k \in 1 .. Len(lengths) : \E j \in 1 .. lengths[k] : p = SumTo(lengths, k - 1) + j
<1>0. Len(lengths) \in Nat /\ Total(lengths) \in Nat /\ p \in Nat /\ p >= 1
    <2>1. Len(lengths) \in Nat /\ Len(lengths) \in 0 .. Len(lengths)
        BY LenProperties
    <2> QED BY <2>1, SumSteps
<1> DEFINE T == {k \in 0 .. Len(lengths) : p <= SumTo(lengths, k)}
<1>1. Len(lengths) \in T
    <2>1. p <= SumTo(lengths, Len(lengths)) /\ Len(lengths) \in 0 .. Len(lengths)
        BY <1>0, SumSteps
    <2> QED BY <2>1
<1>2. T \in SUBSET Nat /\ T # {}
    BY <1>0, <1>1
<1>3. PICK k \in T : \A i \in T : k <= i
    BY <1>2, Least
<1>4. k # 0
    BY <1>0, <1>3, SumSteps
<1>5. k \in 1 .. Len(lengths) /\ k - 1 \in 0 .. Len(lengths) /\ k - 1 \notin T
    BY <1>0, <1>3, <1>4
<1>6. SumTo(lengths, k - 1) < p /\ p <= SumTo(lengths, k)
    <2>1. SumTo(lengths, k - 1) \in Nat
        BY <1>5, SumSteps
    <2> QED BY <1>0, <1>3, <1>5, <2>1
<1>7. SumTo(lengths, k) = SumTo(lengths, k - 1) + lengths[k] /\ SumTo(lengths, k - 1) \in Nat
    BY <1>5, SumSteps
<1>8. lengths[k] \in Nat
    BY <1>5
<1> HIDE DEF T
<1> DEFINE j == p - SumTo(lengths, k - 1)
<1>9. j \in 1 .. lengths[k] /\ p = SumTo(lengths, k - 1) + j
    BY <1>0, <1>6, <1>7, <1>8
<1> QED BY <1>5, <1>9

\* The joined sequences, from one to the next.
Joins(g, seqs) ==
    g = [i \in 1 .. Len(seqs) |-> IF i = 1 THEN seqs[i] ELSE g[i - 1] \o seqs[i]]

\* Likewise for FlattenSeq.
LEMMA UnfoldFlatten ==
    ASSUME NEW seqs, Len(seqs) # 0
    PROVE  FlattenSeq(seqs) = (CHOOSE g : Joins(g, seqs))[Len(seqs)]
BY DEF FlattenSeq, Joins

\* Their recursion has a solution.
LEMMA JoinsExist ==
    ASSUME NEW seqs, Len(seqs) \in Nat
    PROVE  \E g : Joins(g, seqs)
<1> DEFINE Turn(g, i) == IF i = 1 THEN seqs[i] ELSE g[i - 1] \o seqs[i]
           N == {n \in Nat : \E g : g = [i \in 1 .. n |-> Turn(g, i)]}
<1>1. 0 \in N
    <2> DEFINE g == [i \in 1 .. 0 |-> 0]
    <2>1. g = [i \in 1 .. 0 |-> Turn(g, i)]
        OBVIOUS
    <2> HIDE DEF g
    <2> QED BY <2>1
<1>2. ASSUME NEW n \in Nat, n \in N
      PROVE  n + 1 \in N
    <2>1. PICK g : g = [i \in 1 .. n |-> Turn(g, i)]
        BY <1>2
    <2> DEFINE h == [i \in 1 .. n + 1 |-> Turn(g, i)]
    <2>2. ASSUME NEW i \in 1 .. n + 1, i # 1
          PROVE  h[i - 1] = g[i - 1]
        <3>1. i - 1 \in 1 .. n /\ i - 1 \in 1 .. n + 1
            BY <2>2
        <3>2. h[i - 1] = Turn(g, i - 1)
            BY <3>1
        <3>3. g[i - 1] = Turn(g, i - 1)
            BY <2>1, <3>1
        <3> QED BY <3>2, <3>3
    <2>3. \A i \in 1 .. n + 1 : Turn(g, i) = Turn(h, i)
        BY <2>2
    <2>4. h = [i \in 1 .. n + 1 |-> Turn(h, i)]
        <3> HIDE DEF Turn
        <3> QED BY <2>3
    <2> HIDE DEF h, Turn
    <2>5. \E f : f = [i \in 1 .. n + 1 |-> Turn(f, i)]
        BY <2>4
    <2> QED BY <2>5
<1> HIDE DEF N
<1>3. Len(seqs) \in N
    BY <1>1, <1>2, Induction
<1> QED BY <1>3 DEF N, Joins

\* joined is the sequences, one after the other, as far as the k-th.
Joined(joined, seqs, k) ==
    /\ Len(joined) = SumTo(Lengths(seqs), k)
    /\ \A i \in 1 .. k : \A j \in 1 .. Len(seqs[i]) :
          joined[SumTo(Lengths(seqs), i - 1) + j] = seqs[i][j]

\* The lengths of some sequences.
LEMMA LengthsType ==
    ASSUME NEW S, NEW seqs \in Seq(Seq(S))
    PROVE  /\ Lengths(seqs) \in Seq(Nat) /\ Len(Lengths(seqs)) = Len(seqs) /\ Len(seqs) \in Nat
           /\ \A i \in 1 .. Len(seqs) : Lengths(seqs)[i] = Len(seqs[i]) /\ seqs[i] \in Seq(S)
                                        /\ Len(seqs[i]) \in Nat
BY DEF Lengths

\* One sequence more is joined.
LEMMA JoinedStep ==
    ASSUME NEW S, NEW seqs \in Seq(Seq(S)), NEW k \in 1 .. Len(seqs),
           NEW front \in Seq(S), Joined(front, seqs, k - 1)
    PROVE  front \o seqs[k] \in Seq(S) /\ Joined(front \o seqs[k], seqs, k)
<1> DEFINE lengths == Lengths(seqs)
           all == front \o seqs[k]
<1>1. /\ lengths \in Seq(Nat) /\ Len(lengths) = Len(seqs) /\ Len(seqs) \in Nat
      /\ \A i \in 1 .. Len(seqs) : lengths[i] = Len(seqs[i]) /\ seqs[i] \in Seq(S)
                                   /\ Len(seqs[i]) \in Nat
    BY LengthsType
<1>2. /\ all \in Seq(S) /\ Len(all) = Len(front) + Len(seqs[k])
      /\ \A i \in 1 .. Len(front) + Len(seqs[k]) :
            all[i] = IF i <= Len(front) THEN front[i] ELSE seqs[k][i - Len(front)]
    BY <1>1, ConcatProperties
<1>3. Len(front) = SumTo(lengths, k - 1) /\ Len(front) \in Nat
    BY LenProperties DEF Joined
<1>4. SumTo(lengths, k) = SumTo(lengths, k - 1) + Len(seqs[k])
    BY <1>1, SumSteps
<1> HIDE DEF lengths, all
<1>5. ASSUME NEW i \in 1 .. k, NEW j \in 1 .. Len(seqs[i])
      PROVE  all[SumTo(lengths, i - 1) + j] = seqs[i][j]
    <2>1. CASE i = k
        <3>1. SumTo(lengths, i - 1) + j = Len(front) + j /\ j \in Nat /\ j >= 1 /\ j <= Len(seqs[k])
              /\ Len(seqs[k]) \in Nat
            BY <1>1, <1>3, <2>1
        <3>2. Len(front) + j \in 1 .. Len(front) + Len(seqs[k]) /\ ~(Len(front) + j <= Len(front))
              /\ Len(front) + j - Len(front) = j
            BY <1>3, <3>1, SMTT(30)
        <3>3. all[Len(front) + j] = seqs[k][j]
            BY <1>2, <3>2
        <3> QED BY <2>1, <3>1, <3>3
    <2>2. CASE i # k
        <3>1. i \in 1 .. k - 1 /\ i - 1 \in 0 .. Len(lengths) /\ i \in 0 .. Len(lengths)
              /\ k - 1 \in 0 .. Len(lengths) /\ i <= k - 1 /\ i \in 1 .. Len(lengths)
              /\ i \in 1 .. Len(seqs)
            BY <1>1, <2>2, SMTT(30)
        <3>2. /\ SumTo(lengths, i) = SumTo(lengths, i - 1) + Len(seqs[i])
              /\ SumTo(lengths, i) <= SumTo(lengths, k - 1) /\ SumTo(lengths, i - 1) \in Nat
              /\ Len(seqs[i]) \in Nat
            BY <1>1, <3>1, SumSteps
        <3>3. SumTo(lengths, i - 1) + j \in 1 .. Len(front)
            BY <1>3, <3>2, SMTT(30)
        <3>4. SumTo(lengths, i - 1) + j \in 1 .. Len(front) + Len(seqs[k])
              /\ SumTo(lengths, i - 1) + j <= Len(front)
            BY <1>1, <1>3, <3>3
        <3>5. all[SumTo(lengths, i - 1) + j] = front[SumTo(lengths, i - 1) + j]
            BY <1>2, <3>4
        <3>6. front[SumTo(lengths, i - 1) + j] = seqs[i][j]
            BY <3>1 DEF Joined, lengths
        <3> QED BY <3>5, <3>6
    <2> QED BY <2>1, <2>2
<1> QED BY <1>2, <1>3, <1>4, <1>5 DEF Joined, lengths, all

\* What FlattenSeq computes.
LEMMA FlattenJoins ==
    ASSUME NEW S, NEW seqs \in Seq(Seq(S))
    PROVE  /\ FlattenSeq(seqs) \in Seq(S)
           /\ Len(FlattenSeq(seqs)) = Total(Lengths(seqs))
           /\ \A i \in 1 .. Len(seqs) : \A j \in 1 .. Len(seqs[i]) :
                 FlattenSeq(seqs)[SumTo(Lengths(seqs), i - 1) + j] = seqs[i][j]
<1>0. Len(seqs) \in Nat /\ Lengths(seqs) \in Seq(Nat) /\ Len(Lengths(seqs)) = Len(seqs)
    BY LengthsType
<1>1. Total(Lengths(seqs)) = SumTo(Lengths(seqs), Len(seqs)) /\ SumTo(Lengths(seqs), 0) = 0
    BY <1>0, SumSteps
<1>2. CASE Len(seqs) = 0
    <2>1. seqs = <<>> /\ FlattenSeq(seqs) = <<>>
        BY <1>2, EmptySeq DEF FlattenSeq
    <2>2. 1 .. Len(seqs) = {}
        BY <1>2
    <2>3. <<>> \in Seq(S) /\ Len(<<>>) = 0
        BY EmptySeq
    <2>4. Total(Lengths(seqs)) = 0
        BY <1>1, <1>2
    <2> QED BY <2>1, <2>2, <2>3, <2>4
<1>3. CASE Len(seqs) # 0
    <2> DEFINE g == CHOOSE g : Joins(g, seqs)
               N == {n \in Nat : n + 1 \in 1 .. Len(seqs) =>
                                     g[n + 1] \in Seq(S) /\ Joined(g[n + 1], seqs, n + 1)}
    <2>1. Joins(g, seqs) /\ FlattenSeq(seqs) = g[Len(seqs)]
        <3>1. \E h : Joins(h, seqs)
            BY <1>0, JoinsExist
        <3>2. FlattenSeq(seqs) = g[Len(seqs)]
            BY <1>3, UnfoldFlatten
        <3> QED BY <3>1, <3>2
    <2> HIDE DEF g
    <2>2. /\ g[1] = seqs[1]
          /\ \A i \in 1 .. Len(seqs) : i # 1 => g[i] = g[i - 1] \o seqs[i]
        <3>1. 1 \in 1 .. Len(seqs)
            BY <1>0, <1>3
        <3>2. \A i \in 1 .. Len(seqs) : g[i] = IF i = 1 THEN seqs[i] ELSE g[i - 1] \o seqs[i]
            BY <2>1 DEF Joins
        <3> HIDE DEF N
        <3> QED BY <3>1, <3>2
    <2>3. 0 \in N
        <3>1. <<>> \in Seq(S) /\ Joined(<<>>, seqs, 0)
            BY <1>1, EmptySeq DEF Joined
        <3>2. 1 \in 1 .. Len(seqs) /\ 1 - 1 = 0 /\ seqs[1] \in Seq(S)
            BY <1>0, <1>3
        <3>3. <<>> \o seqs[1] = seqs[1]
            BY <3>2, ConcatEmptySeq
        <3>4. seqs[1] \in Seq(S) /\ Joined(seqs[1], seqs, 1)
            BY <3>1, <3>2, <3>3, JoinedStep
        <3> QED BY <2>2, <3>4
    <2>4. ASSUME NEW k \in 1 .. Len(seqs), k # 1, g[k - 1] \in Seq(S), Joined(g[k - 1], seqs, k - 1)
          PROVE  g[k] \in Seq(S) /\ Joined(g[k], seqs, k)
        <3>1. g[k] = g[k - 1] \o seqs[k]
            BY <2>2, <2>4
        <3>2. g[k - 1] \o seqs[k] \in Seq(S) /\ Joined(g[k - 1] \o seqs[k], seqs, k)
            BY <2>4, JoinedStep
        <3> QED BY <3>1, <3>2
    <2>8. ASSUME NEW n \in Nat, n \in N
          PROVE  n + 1 \in N
        <3> SUFFICES ASSUME n + 1 + 1 \in 1 .. Len(seqs)
                     PROVE  g[n + 1 + 1] \in Seq(S) /\ Joined(g[n + 1 + 1], seqs, n + 1 + 1)
            OBVIOUS
        <3>1. n + 1 \in 1 .. Len(seqs) /\ n + 1 + 1 # 1 /\ n + 1 + 1 - 1 = n + 1
            BY <1>0
        <3>2. g[n + 1] \in Seq(S) /\ Joined(g[n + 1], seqs, n + 1)
            BY <2>8, <3>1
        <3>3. g[n + 1 + 1 - 1] \in Seq(S) /\ Joined(g[n + 1 + 1 - 1], seqs, n + 1 + 1 - 1)
            BY <3>1, <3>2
        <3> HIDE DEF N
        <3> QED BY <2>4, <3>1, <3>3
    <2> HIDE DEF N
    <2>5. Len(seqs) - 1 \in N
        <3>1. Nat \subseteq N
            BY <2>3, <2>8, Induction
        <3> QED BY <1>0, <1>3, <3>1
    <2>6. Len(seqs) - 1 + 1 = Len(seqs) /\ Len(seqs) \in 1 .. Len(seqs)
        BY <1>0, <1>3
    <2>7. g[Len(seqs)] \in Seq(S) /\ Joined(g[Len(seqs)], seqs, Len(seqs))
        BY <2>5, <2>6 DEF N
    <2> QED BY <1>1, <2>1, <2>7 DEF Joined
<1> QED BY <1>2, <1>3

\* A sequence of anything.
IsSeq(s) == \E S : s \in Seq(S)

\* A sequence is a function on an interval.
LEMMA SeqFacts ==
    ASSUME NEW s, IsSeq(s)
    PROVE  Len(s) \in Nat /\ DOMAIN s = 1 .. Len(s) /\ s = [i \in 1 .. Len(s) |-> s[i]]
BY DEF IsSeq

\* Two sequences with the same elements are one.
LEMMA SameSeq ==
    ASSUME NEW s, NEW t, IsSeq(s), IsSeq(t), Len(s) = Len(t), \A i \in 1 .. Len(s) : s[i] = t[i]
    PROVE  s = t
<1>1. s = [i \in 1 .. Len(s) |-> s[i]] /\ t = [i \in 1 .. Len(t) |-> t[i]]
    BY SeqFacts
<1> QED BY <1>1

\* The elements of two joined sequences.
LEMMA ConcatSeq ==
    ASSUME NEW s, NEW t, IsSeq(s), IsSeq(t)
    PROVE  /\ IsSeq(s \o t) /\ Len(s \o t) = Len(s) + Len(t)
           /\ \A i \in 1 .. Len(s) : (s \o t)[i] = s[i]
           /\ \A i \in 1 .. Len(t) : (s \o t)[Len(s) + i] = t[i]
<1>1. PICK S : s \in Seq(S)
    BY DEF IsSeq
<1>2. PICK T : t \in Seq(T)
    BY DEF IsSeq
<1> DEFINE U == S \cup T
<1>3. s \in Seq(U) /\ t \in Seq(U)
    BY <1>1, <1>2, SeqMonotonic
<1> HIDE DEF U
<1>4. Len(s) \in Nat /\ Len(t) \in Nat
    BY SeqFacts
<1>5. /\ s \o t \in Seq(U) /\ Len(s \o t) = Len(s) + Len(t)
      /\ \A i \in 1 .. Len(s) + Len(t) : (s \o t)[i] = IF i <= Len(s) THEN s[i] ELSE t[i - Len(s)]
    BY <1>3, ConcatProperties
<1>6. IsSeq(s \o t)
    BY <1>5 DEF IsSeq
<1>7. ASSUME NEW i \in 1 .. Len(s) PROVE (s \o t)[i] = s[i]
    BY <1>4, <1>5
<1>8. ASSUME NEW i \in 1 .. Len(t) PROVE (s \o t)[Len(s) + i] = t[i]
    <2>1. Len(s) + i \in 1 .. Len(s) + Len(t) /\ ~(Len(s) + i <= Len(s)) /\ Len(s) + i - Len(s) = i
        BY <1>4
    <2> QED BY <1>5, <2>1
<1> QED BY <1>5, <1>6, <1>7, <1>8

\* u is s and then t.
IsPair(u, s, t) == u = s \o t

\* The same, without looking into how they were joined.
LEMMA JoinedPair ==
    ASSUME NEW s, NEW t, NEW u, IsPair(u, s, t), IsSeq(s), IsSeq(t)
    PROVE  /\ IsSeq(u) /\ Len(u) = Len(s) + Len(t) /\ Len(s) \in Nat /\ Len(t) \in Nat
           /\ \A i \in 1 .. Len(s) : u[i] = s[i]
           /\ \A i \in 1 .. Len(t) : u[Len(s) + i] = t[i]
BY ConcatSeq, SeqFacts DEF IsPair

\* The elements of a part of a sequence.
LEMMA PartSeq ==
    ASSUME NEW s, IsSeq(s), NEW m \in Nat, NEW n \in Nat, m >= 1, m <= n + 1, n <= Len(s)
    PROVE  /\ IsSeq(SubSeq(s, m, n)) /\ Len(SubSeq(s, m, n)) = n - m + 1
           /\ \A i \in 1 .. n - m + 1 : SubSeq(s, m, n)[i] = s[m + i - 1]
<1>1. PICK S : s \in Seq(S)
    BY DEF IsSeq
<1>2. \A i \in m .. n : s[i] \in S
    BY <1>1
<1>3. /\ SubSeq(s, m, n) \in Seq(S)
      /\ Len(SubSeq(s, m, n)) = IF m <= n THEN n - m + 1 ELSE 0
      /\ \A i \in 1 .. n - m + 1 : SubSeq(s, m, n)[i] = s[m + i - 1]
    <2>1. m \in Int /\ n \in Int
        OBVIOUS
    <2> QED BY <1>2, <2>1, SubSeqProperties
<1>4. IsSeq(SubSeq(s, m, n))
    BY <1>3 DEF IsSeq
<1>5. Len(SubSeq(s, m, n)) = n - m + 1
    BY <1>3
<1> QED BY <1>3, <1>4, <1>5

\* Sequences that are written out.
LEMMA ShortSeqs ==
    /\ IsSeq(<<>>) /\ Len(<<>>) = 0
    /\ \A a : IsSeq(<<a>>) /\ Len(<<a>>) = 1
    /\ \A a, b : IsSeq(<<a, b>>) /\ Len(<<a, b>>) = 2
    /\ \A a, b, c, d : IsSeq(<<a, b, c, d>>) /\ Len(<<a, b, c, d>>) = 4
<1>1. <<>> \in Seq({}) /\ Len(<<>>) = 0
    OBVIOUS
<1>2. \A a : <<a>> \in Seq({a}) /\ Len(<<a>>) = 1
    OBVIOUS
<1>3. \A a, b : <<a, b>> \in Seq({a, b}) /\ Len(<<a, b>>) = 2
    OBVIOUS
<1>4. \A a, b, c, d : <<a, b, c, d>> \in Seq({a, b, c, d}) /\ Len(<<a, b, c, d>>) = 4
    OBVIOUS
<1> QED BY <1>1, <1>2, <1>3, <1>4 DEF IsSeq

\* The cells of some numbers.
LEMMA NumsSeq ==
    ASSUME NEW s \in Seq(Nat)
    PROVE  /\ IsSeq(Nums(s)) /\ Len(Nums(s)) = Len(s) /\ Len(s) \in Nat
           /\ \A i \in 1 .. Len(s) : Nums(s)[i] = Num(s[i]) /\ s[i] \in Nat
<1>1. Nums(s) \in Seq({Num(n) : n \in Nat}) /\ Len(Nums(s)) = Len(s)
    BY DEF Nums
<1>2. Len(s) \in Nat /\ DOMAIN s = 1 .. Len(s) /\ \A i \in 1 .. Len(s) : s[i] \in Nat
    OBVIOUS
<1>3. \A i \in 1 .. Len(s) : Nums(s)[i] = Num(s[i])
    BY <1>2 DEF Nums
<1>4. IsSeq(Nums(s))
    BY <1>1 DEF IsSeq
<1> QED BY <1>1, <1>2, <1>3, <1>4

-----------------------------------------------------------------------------
(* Cells and sealed records *)

\* A cell is a number, or one of the others.
IsCell(c) == (c = Num(c[2]) /\ c[2] \in Nat) \/ c[1] \in {"magic", "sha256", "crc32"}

\* A cell that is no checksum.
NoCrc(c) == IsCell(c) /\ c[1] # "crc32"

\* The cells of the fields, and that sums of different inputs differ.
LEMMA CellFacts ==
    /\ \A n \in Nat : NoCrc(Num(n)) /\ Number(Num(n)) = n
    /\ \A x : NoCrc(Digest(x)) /\ NoCrc(Magic(x))
    /\ \A x : IsCell(Crc(x)) /\ Crc(x)[1] = "crc32" /\ Crc(x)[2] = x
    /\ \A m, n : Num(m) = Num(n) => m = n
    /\ \A x, y : Crc(x) = Crc(y) => x = y
<1>1. \A n : Num(n)[1] = "num" /\ Num(n)[2] = n
    BY DEF Num
<1>2. \A x : Digest(x)[1] = "sha256" /\ Magic(x)[1] = "magic" /\ Crc(x)[1] = "crc32" /\ Crc(x)[2] = x
    BY DEF Digest, Magic, Crc
<1>3. \A n \in Nat : NoCrc(Num(n))
    BY <1>1 DEF NoCrc, IsCell
<1>4. \A n \in Nat : Number(Num(n)) = n
    BY <1>1 DEF Number
<1>5. \A x : NoCrc(Digest(x)) /\ NoCrc(Magic(x)) /\ IsCell(Crc(x))
    BY <1>2 DEF NoCrc, IsCell
<1>6. \A m, n : Num(m) = Num(n) => m = n
    BY <1>1
<1>7. \A x, y : Crc(x) = Crc(y) => x = y
    BY <1>2
<1> QED BY <1>2, <1>3, <1>4, <1>5, <1>6, <1>7

\* The lengths a record may have are less than what a sum reads as.
Huge == FrameLimits.max_frame_bytes + CheckpointLimits.max_record_bytes
             + ManifestLimits.max_record_bytes + 1

\* No length a reader lets through is that large.
LEMMA HugeFacts ==
    /\ Huge \in Nat /\ FrameLimits.max_frame_bytes < Huge
    /\ CheckpointLimits.max_record_bytes < Huge /\ ManifestLimits.max_record_bytes < Huge
    /\ \A c : IsCell(c) => Number(c) \in Nat /\ (c = Num(Number(c)) \/ Number(c) = Huge)
<1>1. /\ FrameLimits.max_frame_bytes \in Nat /\ CheckpointLimits.max_record_bytes \in Nat
      /\ ManifestLimits.max_record_bytes \in Nat
    BY RecordAssumption
<1>2. /\ Huge \in Nat /\ FrameLimits.max_frame_bytes < Huge
      /\ CheckpointLimits.max_record_bytes < Huge /\ ManifestLimits.max_record_bytes < Huge
    BY <1>1 DEF Huge
<1>3. ASSUME NEW c, c = Num(c[2]), c[2] \in Nat
      PROVE  Number(c) \in Nat /\ c = Num(Number(c))
    <2>1. Number(Num(c[2])) = c[2]
        BY <1>3, CellFacts
    <2>2. Number(c) = c[2]
        BY <1>3, <2>1
    <2> QED BY <1>3, <2>2
<1>4. ASSUME NEW c, c[1] \in {"magic", "sha256", "crc32"}
      PROVE  Number(c) = Huge
    BY <1>4 DEF Number, Huge
<1>5. ASSUME NEW c, IsCell(c)
      PROVE  Number(c) \in Nat /\ (c = Num(Number(c)) \/ Number(c) = Huge)
    <2> HIDE DEF Huge
    <2> QED BY <1>2, <1>3, <1>4, <1>5 DEF IsCell
<1> QED BY <1>2, <1>5

\* The cells of a sealed record.
LEMMA SealShape ==
    ASSUME NEW k, NEW body, IsSeq(body), NEW digest
    PROVE  LET E == Seal(k, body, digest)
               n == Len(body) + 7
           IN  /\ IsSeq(E) /\ Len(E) = n /\ Len(body) \in Nat
               /\ E[1] = Magic(k) /\ E[2] = VERSION /\ E[3] = Num(0) /\ E[4] = Num(n)
               /\ \A i \in 1 .. Len(body) : E[4 + i] = body[i]
               /\ E[n - 2] = digest /\ E[n - 1] = Crc(SubSeq(E, 1, n - 2)) /\ E[n] = Num(n)
<1> DEFINE m == Len(body)
           n == m + 7
           head == <<Magic(k), VERSION, Num(0), Num(n)>>
           front == head \o body
           sealed == front \o <<digest>>
           last == <<Crc(sealed), Num(n)>>
           E == sealed \o last
<1>0. m \in Nat
    BY SeqFacts
<1>1. Seal(k, body, digest) = E
    <2>1. FIXED_PREFIX + Len(body) + FIXED_SUFFIX = n
        BY <1>0 DEF FIXED_PREFIX, FIXED_SUFFIX
    <2> QED BY <2>1 DEF Seal
<1>2. /\ IsSeq(head) /\ Len(head) = 4 /\ head[1] = Magic(k) /\ head[2] = VERSION
      /\ head[3] = Num(0) /\ head[4] = Num(n)
    BY ShortSeqs
<1>3. IsSeq(<<digest>>) /\ Len(<<digest>>) = 1 /\ <<digest>>[1] = digest
    BY ShortSeqs
<1>4. IsSeq(last) /\ Len(last) = 2 /\ last[1] = Crc(sealed) /\ last[2] = Num(n)
    <2> HIDE DEF sealed
    <2> QED BY ShortSeqs
<1>13. Len(body) = m
    OBVIOUS
<1> HIDE DEF head, m
<1>14. IsPair(front, head, body)
    BY DEF IsPair
<1> HIDE DEF front
<1>5. /\ IsSeq(front) /\ Len(front) = 4 + m
      /\ \A i \in 1 .. 4 : front[i] = head[i]
      /\ \A i \in 1 .. m : front[4 + i] = body[i]
    <2>1. /\ IsSeq(front) /\ Len(front) = Len(head) + Len(body)
          /\ \A i \in 1 .. Len(head) : front[i] = head[i]
          /\ \A i \in 1 .. Len(body) : front[Len(head) + i] = body[i]
        <3>1. IsSeq(head)
            BY <1>2
        <3> QED BY <3>1, <1>14, JoinedPair
    <2> QED BY <1>2, <1>13, <2>1
<1>6. /\ IsSeq(sealed) /\ Len(sealed) = 5 + m
      /\ \A i \in 1 .. 4 + m : sealed[i] = front[i]
      /\ sealed[5 + m] = digest
    <2>1. /\ IsSeq(sealed) /\ Len(sealed) = Len(front) + 1
          /\ \A i \in 1 .. Len(front) : sealed[i] = front[i]
          /\ \A i \in 1 .. 1 : sealed[Len(front) + i] = <<digest>>[i]
        BY <1>3, <1>5, ConcatSeq
    <2>2. sealed[Len(front) + 1] = digest
        BY <1>3, <2>1
    <2> HIDE DEF sealed
    <2>3. 4 + m + 1 = 5 + m
        BY <1>0
    <2> QED BY <1>0, <1>5, <2>1, <2>2, <2>3
<1> HIDE DEF sealed, last
<1>15. IsPair(E, sealed, last)
    BY DEF IsPair
<1> HIDE DEF E
<1>7. /\ IsSeq(E) /\ Len(E) = n
      /\ \A i \in 1 .. 5 + m : E[i] = sealed[i]
      /\ E[6 + m] = Crc(sealed) /\ E[7 + m] = Num(n)
    <2>1. /\ IsSeq(E) /\ Len(E) = 5 + m + 2
          /\ \A i \in 1 .. 5 + m : E[i] = sealed[i]
          /\ \A i \in 1 .. 2 : E[5 + m + i] = last[i]
        <3>1. /\ IsSeq(E) /\ Len(E) = Len(sealed) + Len(last)
              /\ \A i \in 1 .. Len(sealed) : E[i] = sealed[i]
              /\ \A i \in 1 .. Len(last) : E[Len(sealed) + i] = last[i]
            <4>1. IsSeq(sealed) /\ IsSeq(last)
                BY <1>4, <1>6
            <4> QED BY <4>1, <1>15, JoinedPair
        <3> QED BY <1>4, <1>6, <3>1
    <2>2. E[5 + m + 1] = Crc(sealed) /\ E[5 + m + 2] = Num(n)
        BY <1>4, <2>1
    <2>3. 5 + m + 1 = 6 + m /\ 5 + m + 2 = 7 + m /\ 5 + m + 2 = n
        BY <1>0
    <2> QED BY <2>1, <2>2, <2>3
<1> HIDE DEF E
<1>8. SubSeq(E, 1, n - 2) = sealed
    <2>1. n - 2 = 5 + m /\ n - 2 \in Nat /\ 1 <= n - 2 + 1 /\ n - 2 <= Len(E) /\ n - 2 - 1 + 1 = 5 + m
        BY <1>0, <1>7
    <2>2. /\ IsSeq(SubSeq(E, 1, 5 + m)) /\ Len(SubSeq(E, 1, 5 + m)) = 5 + m - 1 + 1
          /\ \A i \in 1 .. 5 + m - 1 + 1 : SubSeq(E, 1, 5 + m)[i] = E[1 + i - 1]
        BY <1>0, <1>7, <2>1, PartSeq
    <2>3. 5 + m - 1 + 1 = 5 + m /\ \A i \in 1 .. 5 + m : 1 + i - 1 = i
        BY <1>0
    <2> DEFINE part == SubSeq(E, 1, 5 + m)
    <2>4. \A i \in 1 .. 5 + m : part[i] = sealed[i]
        BY <1>7, <2>2, <2>3
    <2>5. IsSeq(part) /\ Len(part) = 5 + m
        BY <2>2, <2>3
    <2> HIDE DEF part
    <2>6. part = sealed
        BY <1>6, <2>4, <2>5, SameSeq
    <2> QED BY <2>1, <2>6 DEF part
<1>9. E[1] = Magic(k) /\ E[2] = VERSION /\ E[3] = Num(0) /\ E[4] = Num(n)
    <2>1. \A i \in 1 .. 4 : E[i] = head[i]
        <3> SUFFICES ASSUME NEW i \in 1 .. 4 PROVE E[i] = head[i]
            OBVIOUS
        <3>1. i \in 1 .. 5 + m /\ i \in 1 .. 4 + m
            BY <1>0
        <3> QED BY <1>5, <1>6, <1>7, <3>1
    <2> QED BY <1>2, <2>1
<1>10. ASSUME NEW i \in 1 .. m PROVE E[4 + i] = body[i]
    <2>1. 4 + i \in 1 .. 5 + m /\ 4 + i \in 1 .. 4 + m
        BY <1>0
    <2> QED BY <1>5, <1>6, <1>7, <2>1
<1>11. E[n - 2] = digest /\ E[n - 1] = Crc(sealed) /\ E[n] = Num(n)
    <2>1. n - 2 = 5 + m /\ n - 1 = 6 + m /\ n = 7 + m /\ 5 + m \in 1 .. 5 + m
        BY <1>0
    <2> QED BY <1>6, <1>7, <2>1
<1>12. Crc(sealed) = Crc(SubSeq(E, 1, n - 2))
    BY <1>8
<1> QED BY <1>0, <1>1, <1>7, <1>9, <1>10, <1>11, <1>12 DEF m

\* How long it is.
LEMMA SealLength ==
    ASSUME NEW k, NEW body, IsSeq(body), NEW digest
    PROVE  /\ IsSeq(Seal(k, body, digest)) /\ Len(Seal(k, body, digest)) = Len(body) + 7
           /\ Len(body) \in Nat
<1> DEFINE E == Seal(k, body, digest)
           n == Len(body) + 7
<1>1. /\ IsSeq(E) /\ Len(E) = n /\ Len(body) \in Nat
      /\ E[1] = Magic(k) /\ E[2] = VERSION /\ E[3] = Num(0) /\ E[4] = Num(n)
      /\ \A i \in 1 .. Len(body) : E[4 + i] = body[i]
      /\ E[n - 2] = digest /\ E[n - 1] = Crc(SubSeq(E, 1, n - 2)) /\ E[n] = Num(n)
    BY SealShape, SMTT(30)
<1> QED BY <1>1

\* The input starts with the record E.
Starts(input, E) ==
    IsSeq(input) /\ Len(input) >= Len(E) /\ \A i \in 1 .. Len(E) : input[i] = E[i]

\* A sealed record passes the checks, and its fields are found where they were put.
LEMMA SealRead ==
    ASSUME NEW k, NEW body, IsSeq(body), NEW digest, NEW input,
           Starts(input, Seal(k, body, digest)),
           NEW fixed \in Nat, NEW limit \in Nat,
           fixed <= Len(body) + 7, Len(body) + 7 <= limit
    PROVE  /\ Sealed(k, input, fixed, limit) /\ Consumed(input) = Len(body) + 7
           /\ Body(input) = body /\ DigestOf(input) = digest
<1> DEFINE E == Seal(k, body, digest)
           m == Len(body)
           n == m + 7
<1>1. /\ IsSeq(E) /\ Len(E) = n /\ m \in Nat
      /\ E[1] = Magic(k) /\ E[2] = VERSION /\ E[3] = Num(0) /\ E[4] = Num(n)
      /\ \A i \in 1 .. m : E[4 + i] = body[i]
      /\ E[n - 2] = digest /\ E[n - 1] = Crc(SubSeq(E, 1, n - 2)) /\ E[n] = Num(n)
    BY SealShape, SMTT(30)
<1>2. Starts(input, E)
    OBVIOUS
<1>m. m = Len(body) /\ fixed <= n /\ n <= limit
    OBVIOUS
<1> HIDE DEF E, m
<1>3. IsSeq(input) /\ Len(input) \in Nat /\ Len(input) >= n /\ \A i \in 1 .. n : input[i] = E[i]
    BY <1>1, <1>2, SeqFacts DEF Starts
<1>4. n \in Nat /\ n >= 7
    BY <1>1
<1>5. /\ input[1] = Magic(k) /\ input[2] = VERSION /\ input[3] = Num(0) /\ input[4] = Num(n)
      /\ input[n - 2] = digest /\ input[n - 1] = Crc(SubSeq(E, 1, n - 2)) /\ input[n] = Num(n)
    <2>1. 1 \in 1 .. n /\ 2 \in 1 .. n /\ 3 \in 1 .. n /\ 4 \in 1 .. n /\ n - 2 \in 1 .. n
          /\ n - 1 \in 1 .. n /\ n \in 1 .. n
        BY <1>4
    <2> HIDE DEF n
    <2> QED BY <1>1, <1>3, <2>1
<1>6. SubSeq(input, 1, n - 2) = SubSeq(E, 1, n - 2)
    <2> DEFINE q == n - 2
    <2>1. q \in Nat /\ q >= 1 /\ q <= Len(input) /\ q <= Len(E) /\ q <= n
        BY <1>1, <1>3, <1>4
    <2> HIDE DEF q, n
    <2>2. /\ IsSeq(SubSeq(input, 1, q)) /\ Len(SubSeq(input, 1, q)) = q - 1 + 1
          /\ \A i \in 1 .. q - 1 + 1 : SubSeq(input, 1, q)[i] = input[1 + i - 1]
        BY <1>3, <2>1, PartSeq
    <2>3. /\ IsSeq(SubSeq(E, 1, q)) /\ Len(SubSeq(E, 1, q)) = q - 1 + 1
          /\ \A i \in 1 .. q - 1 + 1 : SubSeq(E, 1, q)[i] = E[1 + i - 1]
        BY <1>1, <2>1, PartSeq
    <2>4. q - 1 + 1 = q /\ \A i \in 1 .. q : 1 + i - 1 = i /\ i \in 1 .. n
        BY <1>4, <2>1
    <2>5. \A i \in 1 .. q : SubSeq(input, 1, q)[i] = SubSeq(E, 1, q)[i]
        BY <1>3, <2>2, <2>3, <2>4
    <2>6. SubSeq(input, 1, q) = SubSeq(E, 1, q)
        BY <2>2, <2>3, <2>4, <2>5, SameSeq
    <2> QED BY <2>6 DEF q
<1>7. Number(input[4]) = n /\ Number(input[n]) = n
    BY <1>4, <1>5, CellFacts
<1> HIDE DEF n
<1>8. Consumed(input) = n
    BY <1>7 DEF Consumed
<1>9. Sealed(k, input, fixed, limit)
    <2>1. Len(input) >= fixed
        BY <1>3, <1>4, <1>m
    <2>2. input[n - 1] = Crc(SubSeq(input, 1, n - 2))
        BY <1>5, <1>6
    <2> QED BY <1>3, <1>5, <1>7, <1>m, <2>1, <2>2 DEF Sealed
<1>10. DigestOf(input) = digest
    BY <1>5, <1>8 DEF DigestOf
<1>11. Body(input) = body
    <2> DEFINE q == n - 3
    <2>1. q \in Nat /\ 5 <= q + 1 /\ q <= Len(input) /\ q <= n /\ q = m + 4
        BY <1>1, <1>3, <1>4 DEF n
    <2>2. Body(input) = SubSeq(input, 5, q)
        BY <1>8 DEF Body, FIXED_PREFIX, FIXED_SUFFIX
    <2> HIDE DEF q
    <2>3. /\ IsSeq(SubSeq(input, 5, q)) /\ Len(SubSeq(input, 5, q)) = q - 5 + 1
          /\ \A i \in 1 .. q - 5 + 1 : SubSeq(input, 5, q)[i] = input[5 + i - 1]
        BY <1>3, <2>1, PartSeq
    <2>4. q - 5 + 1 = m /\ \A i \in 1 .. m : 5 + i - 1 = 4 + i /\ 4 + i \in 1 .. n
        BY <1>1, <2>1 DEF n
    <2>5. ASSUME NEW i \in 1 .. m PROVE SubSeq(input, 5, q)[i] = body[i]
        <3>1. SubSeq(input, 5, q)[i] = input[4 + i] /\ 4 + i \in 1 .. n
            BY <2>3, <2>4
        <3> QED BY <1>1, <1>3, <3>1
    <2>6. IsSeq(SubSeq(input, 5, q)) /\ Len(SubSeq(input, 5, q)) = Len(body)
        BY <2>3, <2>4 DEF m
    <2>7. SubSeq(input, 5, q) = body
        BY <2>5, <2>6, SameSeq DEF m
    <2> QED BY <2>2, <2>7
<1> QED BY <1>8, <1>9, <1>10, <1>11 DEF n, m

-----------------------------------------------------------------------------
(* decode gives back what encode wrote *)

\* What Cut gives back when the blobs lie in cells from offset on.
LEMMA CutBack ==
    ASSUME NEW blobs \in Seq(Seq(Nat)), NEW cells,
           \A i \in 1 .. Len(blobs) : \A j \in 1 .. Len(blobs[i]) :
               cells[SumTo(Lengths(blobs), i - 1) + j] = Num(blobs[i][j])
    PROVE  Cut(cells, Lengths(blobs)) = blobs
<1> DEFINE lengths == Lengths(blobs)
           Blob(i) == [j \in 1 .. lengths[i] |-> Number(cells[SumTo(lengths, i - 1) + j])]
<1>1. /\ lengths \in Seq(Nat) /\ Len(lengths) = Len(blobs) /\ Len(blobs) \in Nat
      /\ \A i \in 1 .. Len(blobs) : lengths[i] = Len(blobs[i]) /\ blobs[i] \in Seq(Nat)
                                    /\ Len(blobs[i]) \in Nat
    BY LengthsType
<1>2. DOMAIN lengths = 1 .. Len(blobs)
    BY <1>1
<1>3. Cut(cells, lengths) = [i \in DOMAIN lengths |-> Blob(i)]
    BY DEF Cut, SumTo
<1>4. ASSUME NEW i \in 1 .. Len(blobs)
      PROVE  Blob(i) = blobs[i]
    <2>1. \A j \in 1 .. Len(blobs[i]) : Number(cells[SumTo(lengths, i - 1) + j]) = blobs[i][j]
        <3> SUFFICES ASSUME NEW j \in 1 .. Len(blobs[i])
                     PROVE  Number(cells[SumTo(lengths, i - 1) + j]) = blobs[i][j]
            OBVIOUS
        <3>1. blobs[i][j] \in Nat
            BY <1>1
        <3>2. cells[SumTo(lengths, i - 1) + j] = Num(blobs[i][j])
            OBVIOUS
        <3> QED BY <3>1, <3>2, CellFacts
    <2>2. blobs[i] = [j \in 1 .. Len(blobs[i]) |-> blobs[i][j]]
        BY <1>1
    <2>3. lengths[i] = Len(blobs[i])
        BY <1>1
    <2> HIDE DEF lengths
    <2> QED BY <2>1, <2>2, <2>3
<1> HIDE DEF Blob
<1>5. blobs = [i \in 1 .. Len(blobs) |-> blobs[i]]
    OBVIOUS
<1>6. [i \in 1 .. Len(blobs) |-> Blob(i)] = [i \in 1 .. Len(blobs) |-> blobs[i]]
    BY <1>4
<1> QED BY <1>2, <1>3, <1>5, <1>6

\* A frame's fields.
FrameBody(f) ==
    <<Num(Len(f.producer))>> \o Nums(f.producer)
        \o Nums(<<f.epoch, f.sequence, f.batch_id, Len(f.updates)>>)
        \o Nums(Lengths(f.updates)) \o Nums(FlattenSeq(f.updates))

\* The cells of a frame's fields.
LEMMA FrameShape ==
    ASSUME NEW f \in Frames
    PROVE  LET p == Len(f.producer)
               count == Len(f.updates)
               lengths == Lengths(f.updates)
               body == FrameBody(f)
           IN  /\ IsSeq(body) /\ Len(body) = p + 5 + count + Total(lengths)
               /\ p \in Nat /\ count \in Nat /\ Total(lengths) \in Nat
               /\ body[1] = Num(p)
               /\ \A i \in 1 .. p : body[1 + i] = Num(f.producer[i])
               /\ body[p + 2] = Num(f.epoch) /\ body[p + 3] = Num(f.sequence)
               /\ body[p + 4] = Num(f.batch_id) /\ body[p + 5] = Num(count)
               /\ \A i \in 1 .. count : body[p + 5 + i] = Num(lengths[i])
               /\ \A i \in 1 .. Total(lengths) :
                     body[p + 5 + count + i] = Num(FlattenSeq(f.updates)[i])
<1> DEFINE p == Len(f.producer)
           count == Len(f.updates)
           lengths == Lengths(f.updates)
           four == <<f.epoch, f.sequence, f.batch_id, count>>
           flat == FlattenSeq(f.updates)
           a == <<Num(p)>>
           b == a \o Nums(f.producer)
           c == b \o Nums(four)
           d == c \o Nums(lengths)
           e == d \o Nums(flat)
<1>0. /\ f.producer \in Seq(Nat) /\ f.epoch \in Nat /\ f.sequence \in Nat /\ f.batch_id \in Nat
      /\ f.updates \in Seq(Seq(Nat))
    BY RecordAssumption
<1>1. FrameBody(f) = e
    BY DEF FrameBody
<1>2. p \in Nat /\ count \in Nat
    BY <1>0
<1>3. lengths \in Seq(Nat) /\ Len(lengths) = count
    BY <1>0, LengthsType
<1>4. flat \in Seq(Nat) /\ Len(flat) = Total(lengths) /\ Total(lengths) \in Nat
    <2>1. flat \in Seq(Nat) /\ Len(flat) = Total(lengths)
        BY <1>0, FlattenJoins
    <2> HIDE DEF flat
    <2> QED BY <2>1, LenProperties
<1>5. four \in Seq(Nat) /\ Len(four) = 4 /\ four[1] = f.epoch /\ four[2] = f.sequence
      /\ four[3] = f.batch_id /\ four[4] = count
    <2> HIDE DEF count
    <2> QED BY <1>0, <1>2
<1>6. IsSeq(a) /\ Len(a) = 1 /\ a[1] = Num(p)
    BY ShortSeqs
<1>7. IsPair(b, a, Nums(f.producer)) /\ IsPair(c, b, Nums(four)) /\ IsPair(d, c, Nums(lengths))
      /\ IsPair(e, d, Nums(flat))
    BY DEF IsPair
<1>8. p = Len(f.producer)
    OBVIOUS
<1> HIDE DEF p, count, lengths, four, flat, a, b, c, d, e
<1>10. /\ IsSeq(b) /\ Len(b) = 1 + p /\ b[1] = Num(p)
       /\ \A i \in 1 .. p : b[1 + i] = Num(f.producer[i])
    <2>1. /\ IsSeq(Nums(f.producer)) /\ Len(Nums(f.producer)) = p
          /\ \A i \in 1 .. p : Nums(f.producer)[i] = Num(f.producer[i])
        BY <1>0, NumsSeq DEF p
    <2>2. IsSeq(a) /\ IsSeq(Nums(f.producer)) /\ IsPair(b, a, Nums(f.producer))
        BY <1>6, <1>7, <2>1
    <2>3. /\ IsSeq(b) /\ Len(b) = Len(a) + Len(Nums(f.producer))
          /\ \A i \in 1 .. Len(a) : b[i] = a[i]
          /\ \A i \in 1 .. Len(Nums(f.producer)) : b[Len(a) + i] = Nums(f.producer)[i]
        BY <2>2, JoinedPair
    <2> QED BY <1>6, <2>1, <2>3
<1>11. /\ IsSeq(c) /\ Len(c) = 5 + p
       /\ \A i \in 1 .. 1 + p : c[i] = b[i]
       /\ \A i \in 1 .. 4 : c[1 + p + i] = Num(four[i])
    <2>1. /\ IsSeq(Nums(four)) /\ Len(Nums(four)) = 4
          /\ \A i \in 1 .. 4 : Nums(four)[i] = Num(four[i])
        BY <1>5, NumsSeq
    <2>2. IsSeq(b) /\ IsSeq(Nums(four)) /\ IsPair(c, b, Nums(four))
        BY <1>7, <1>10, <2>1
    <2>3. /\ IsSeq(c) /\ Len(c) = Len(b) + Len(Nums(four))
          /\ \A i \in 1 .. Len(b) : c[i] = b[i]
          /\ \A i \in 1 .. Len(Nums(four)) : c[Len(b) + i] = Nums(four)[i]
        BY <2>2, JoinedPair
    <2> QED BY <1>2, <1>10, <2>1, <2>3
<1>12. /\ IsSeq(d) /\ Len(d) = 5 + p + count
       /\ \A i \in 1 .. 5 + p : d[i] = c[i]
       /\ \A i \in 1 .. count : d[5 + p + i] = Num(lengths[i])
    <2>1. /\ IsSeq(Nums(lengths)) /\ Len(Nums(lengths)) = count
          /\ \A i \in 1 .. count : Nums(lengths)[i] = Num(lengths[i])
        BY <1>3, NumsSeq
    <2>2. IsSeq(c) /\ IsSeq(Nums(lengths)) /\ IsPair(d, c, Nums(lengths))
        BY <1>7, <1>11, <2>1
    <2>3. /\ IsSeq(d) /\ Len(d) = Len(c) + Len(Nums(lengths))
          /\ \A i \in 1 .. Len(c) : d[i] = c[i]
          /\ \A i \in 1 .. Len(Nums(lengths)) : d[Len(c) + i] = Nums(lengths)[i]
        BY <2>2, JoinedPair
    <2> QED BY <1>11, <2>1, <2>3
<1>13. /\ IsSeq(e) /\ Len(e) = 5 + p + count + Total(lengths)
       /\ \A i \in 1 .. 5 + p + count : e[i] = d[i]
       /\ \A i \in 1 .. Total(lengths) : e[5 + p + count + i] = Num(flat[i])
    <2>1. /\ IsSeq(Nums(flat)) /\ Len(Nums(flat)) = Total(lengths)
          /\ \A i \in 1 .. Total(lengths) : Nums(flat)[i] = Num(flat[i])
        BY <1>4, NumsSeq
    <2>2. IsSeq(d) /\ IsSeq(Nums(flat)) /\ IsPair(e, d, Nums(flat))
        BY <1>7, <1>12, <2>1
    <2>3. /\ IsSeq(e) /\ Len(e) = Len(d) + Len(Nums(flat))
          /\ \A i \in 1 .. Len(d) : e[i] = d[i]
          /\ \A i \in 1 .. Len(Nums(flat)) : e[Len(d) + i] = Nums(flat)[i]
        BY <2>2, JoinedPair
    <2> QED BY <1>12, <2>1, <2>3
<1>14. \A i \in 1 .. 5 + p : e[i] = c[i]
    <2>1. \A i \in 1 .. 5 + p : i \in 1 .. 5 + p + count
        BY <1>2
    <2> QED BY <1>12, <1>13, <2>1
<1>15. \A i \in 1 .. 1 + p : e[i] = b[i]
    <2>1. \A i \in 1 .. 1 + p : i \in 1 .. 5 + p
        BY <1>2
    <2> QED BY <1>11, <1>14, <2>1
<1>16. e[1] = Num(p)
    <2>1. 1 \in 1 .. 1 + p
        BY <1>2
    <2> QED BY <1>10, <1>15, <2>1
<1>17. ASSUME NEW i \in 1 .. p PROVE e[1 + i] = Num(f.producer[i])
    <2>1. 1 + i \in 1 .. 1 + p
        BY <1>2
    <2> QED BY <1>10, <1>15, <2>1
<1>18. \A i \in 1 .. 4 : e[1 + p + i] = Num(four[i])
    <2>1. \A i \in 1 .. 4 : 1 + p + i \in 1 .. 5 + p
        BY <1>2
    <2> QED BY <1>11, <1>14, <2>1
<1>19. e[p + 2] = Num(f.epoch) /\ e[p + 3] = Num(f.sequence) /\ e[p + 4] = Num(f.batch_id)
       /\ e[p + 5] = Num(count)
    <2>1. p + 2 = 1 + p + 1 /\ p + 3 = 1 + p + 2 /\ p + 4 = 1 + p + 3 /\ p + 5 = 1 + p + 4
        BY <1>2
    <2>2. e[1 + p + 1] = Num(four[1]) /\ e[1 + p + 2] = Num(four[2])
          /\ e[1 + p + 3] = Num(four[3]) /\ e[1 + p + 4] = Num(four[4])
        BY <1>18
    <2> QED BY <1>5, <2>1, <2>2
<1>20. ASSUME NEW i \in 1 .. count PROVE e[p + 5 + i] = Num(lengths[i])
    <2>1. 5 + p + i \in 1 .. 5 + p + count /\ 5 + p + i = p + 5 + i
        BY <1>2
    <2>2. e[5 + p + i] = Num(lengths[i])
        BY <1>12, <1>13, <2>1
    <2> QED BY <2>1, <2>2
<1>21. ASSUME NEW i \in 1 .. Total(lengths) PROVE e[p + 5 + count + i] = Num(flat[i])
    <2>1. 5 + p + count + i = p + 5 + count + i
        BY <1>2, <1>4
    <2> QED BY <1>13, <2>1
<1>22. Len(e) = p + 5 + count + Total(lengths)
    BY <1>2, <1>4, <1>13
<1> HIDE DEF IsSeq
<1> QED BY <1>1, <1>2, <1>4, <1>13, <1>16, <1>17, <1>19, <1>20, <1>21, <1>22
        DEF p, count, lengths, flat

\* EncodeFrame seals them.
LEMMA FrameSealed ==
    ASSUME NEW f
    PROVE  EncodeFrame(f) = Seal("frame", FrameBody(f), update_digest(f.updates))
BY DEF EncodeFrame, FrameBody

\* decode is the inverse of encode for frames, whatever follows the frame.
LEMMA FrameRead ==
    ASSUME NEW f \in Frames, FrameEncodes(f), NEW input, Starts(input, EncodeFrame(f))
    PROVE  DecodeFrame(input) = {f} /\ Consumed(input) = Len(EncodeFrame(f))
<1> DEFINE l == FrameLimits
           body == Body(input)
           p == Number(body[1])
           count == Number(body[p + 5])
           lengths == [i \in 1 .. count |-> Number(body[p + 5 + i])]
           table_end == p + 5 + count
           payload == SubSeq(body, table_end + 1, Len(body))
           frame == [producer |-> [i \in 1 .. p |-> Number(body[i + 1])],
                  epoch |-> Number(body[p + 2]), sequence |-> Number(body[p + 3]),
                  batch_id |-> Number(body[p + 4]),
                  updates |-> Cut(payload, lengths)]
           ok ==
            /\ Sealed("frame", input, FIXED_PREFIX + FIXED_SUFFIX, l.max_frame_bytes)
            /\ Len(body) >= 1 /\ p \in 1 .. l.max_producer_id_bytes
            /\ Len(body) >= p + 5 /\ count \in 1 .. l.max_updates
            /\ table_end <= Len(body)
            /\ \A i \in DOMAIN lengths : lengths[i] <= l.max_update_bytes
            /\ Total(lengths) <= l.max_updates_bytes
            /\ Total(lengths) = Len(body) - table_end
            /\ DigestOf(input) = update_digest(frame.updates)
<1>1. DecodeFrame(input) = IF ok THEN {frame} ELSE {}
    BY DEF DecodeFrame
<1> DEFINE P == Len(f.producer)
           C == Len(f.updates)
           L == Lengths(f.updates)
           B == FrameBody(f)
<1>2. /\ IsSeq(B) /\ Len(B) = P + 5 + C + Total(L)
      /\ P \in Nat /\ C \in Nat /\ Total(L) \in Nat
      /\ B[1] = Num(P)
      /\ \A i \in 1 .. P : B[1 + i] = Num(f.producer[i])
      /\ B[P + 2] = Num(f.epoch) /\ B[P + 3] = Num(f.sequence)
      /\ B[P + 4] = Num(f.batch_id) /\ B[P + 5] = Num(C)
      /\ \A i \in 1 .. C : B[P + 5 + i] = Num(L[i])
      /\ \A i \in 1 .. Total(L) : B[P + 5 + C + i] = Num(FlattenSeq(f.updates)[i])
    BY FrameShape
<1>3. /\ f.producer \in Seq(Nat) /\ f.epoch \in Nat /\ f.sequence \in Nat /\ f.batch_id \in Nat
      /\ f.updates \in Seq(Seq(Nat))
      /\ f = [producer |-> f.producer, epoch |-> f.epoch, sequence |-> f.sequence,
              batch_id |-> f.batch_id, updates |-> f.updates]
    BY RecordAssumption
<1>4. /\ L \in Seq(Nat) /\ Len(L) = C
      /\ \A i \in 1 .. C : L[i] = Len(f.updates[i]) /\ L[i] \in Nat
    BY <1>3, LengthsType
<1>5. /\ P \in 1 .. l.max_producer_id_bytes /\ C \in 1 .. l.max_updates
      /\ \A i \in 1 .. C : L[i] <= l.max_update_bytes
      /\ Total(L) <= l.max_updates_bytes
      /\ Len(EncodeFrame(f)) <= l.max_frame_bytes
    <2>1. DOMAIN f.updates = 1 .. C
        BY <1>3
    <2> QED BY <1>4, <2>1 DEF FrameEncodes
<1>6. /\ Len(EncodeFrame(f)) = Len(B) + 7 /\ Len(B) \in Nat
    <2>1. IsSeq(B)
        BY <1>2
    <2> HIDE DEF B
    <2>2. Len(Seal("frame", B, update_digest(f.updates))) = Len(B) + 7 /\ Len(B) \in Nat
        BY <2>1, SealLength
    <2> QED BY <2>2, FrameSealed DEF B
<1>7. /\ Sealed("frame", input, FIXED_PREFIX + FIXED_SUFFIX, l.max_frame_bytes)
      /\ Consumed(input) = Len(B) + 7 /\ body = B
      /\ DigestOf(input) = update_digest(f.updates)
    <2>1. Starts(input, Seal("frame", B, update_digest(f.updates)))
        BY FrameSealed
    <2>2. l.max_frame_bytes \in Nat /\ FIXED_PREFIX + FIXED_SUFFIX = 7
        BY RecordAssumption DEF FIXED_PREFIX, FIXED_SUFFIX
    <2>3. 7 \in Nat /\ 7 <= Len(B) + 7 /\ Len(B) + 7 <= l.max_frame_bytes
        BY <1>5, <1>6
    <2> DEFINE max == l.max_frame_bytes
    <2>4. max \in Nat /\ Len(B) + 7 <= max
        BY <2>2, <2>3
    <2>5. IsSeq(B)
        BY <1>2
    <2> HIDE DEF max, B
    <2>6. Sealed("frame", input, 7, max) /\ Consumed(input) = Len(B) + 7
          /\ Body(input) = B /\ DigestOf(input) = update_digest(f.updates)
        BY <2>1, <2>3, <2>4, <2>5, SealRead
    <2> QED BY <2>2, <2>6 DEF max
<1> HIDE DEF l, body, P, C, L, B
<1>8. p = P
    BY <1>2, <1>7, CellFacts
<1>9. count = C
    <2> HIDE DEF p
    <2>1. body[p + 5] = Num(C) /\ C \in Nat
        BY <1>2, <1>7, <1>8
    <2> QED BY <2>1, CellFacts
<1> HIDE DEF p, count
<1>10. lengths = L
    <2>1. L = [i \in 1 .. C |-> L[i]]
        BY <1>4
    <2>2. \A i \in 1 .. C : Number(B[P + 5 + i]) = L[i]
        BY <1>2, <1>4, CellFacts
    <2> QED BY <1>7, <1>8, <1>9, <2>1, <2>2
<1> HIDE DEF lengths
<1> DEFINE T == Total(L)
<1>16. T \in Nat /\ P \in Nat /\ C \in Nat /\ T = Total(L)
    BY <1>2
<1> HIDE DEF T
<1>11. Len(body) = P + 5 + C + Total(L) /\ table_end = P + 5 + C
    BY <1>2, <1>7, <1>8, <1>9
<1>12. Cut(payload, lengths) = f.updates
    <2> DEFINE t == P + 5 + C
               n == Len(body)
    <2>1. IsSeq(body) /\ t + 1 \in Nat /\ t \in Nat /\ n \in Nat /\ t + 1 >= 1 /\ t + 1 <= n + 1 /\ n <= Len(body)
          /\ n - (t + 1) + 1 = Total(L)
        <3>1. IsSeq(body)
            BY <1>2, <1>7
        <3>2. n = t + T
            BY <1>11, <1>16
        <3> HIDE DEF n
        <3>3. n = Len(body)
            BY DEF n
        <3> QED BY <1>16, <3>1, <3>2, <3>3
    <2>2. payload = SubSeq(body, t + 1, n)
        BY <1>11
    <2> HIDE DEF t, n
    <2>3. \A i \in 1 .. n - (t + 1) + 1 : SubSeq(body, t + 1, n)[i] = body[t + 1 + i - 1]
        BY <2>1, PartSeq
    <2>4. ASSUME NEW i \in 1 .. Total(L) PROVE payload[i] = Num(FlattenSeq(f.updates)[i])
        <3>1. t + 1 + i - 1 = t + i
            BY <2>1, <1>2
        <3>2. body[t + i] = Num(FlattenSeq(f.updates)[i])
            BY <1>2, <1>7 DEF t
        <3> QED BY <2>1, <2>2, <2>3, <3>1, <3>2
    <2> HIDE DEF payload
    <2>5. ASSUME NEW i \in 1 .. C, NEW j \in 1 .. Len(f.updates[i])
          PROVE  payload[SumTo(L, i - 1) + j] = Num(f.updates[i][j])
        <3>0. C \in Nat /\ Len(L) = C /\ i \in Nat /\ i >= 1 /\ i <= C /\ L \in Seq(Nat)
            BY <1>2, <1>4
        <3>1. /\ SumTo(L, i) = SumTo(L, i - 1) + L[i] /\ SumTo(L, i - 1) \in Nat
              /\ SumTo(L, i) <= SumTo(L, C) /\ Total(L) = SumTo(L, C)
            <4>1. i \in 1 .. Len(L) /\ i - 1 \in 0 .. Len(L) /\ i \in 0 .. Len(L)
                  /\ Len(L) \in 0 .. Len(L) /\ i <= Len(L)
                BY <3>0
            <4> QED BY <3>0, <4>1, SumSteps
        <3>2. SumTo(L, i - 1) + j \in 1 .. Total(L)
            <4>1. L[i] = Len(f.updates[i]) /\ L[i] \in Nat
                BY <1>4
            <4>2. j \in Nat /\ j >= 1 /\ j <= L[i]
                BY <4>1
            <4>3. SumTo(L, i - 1) + j <= T /\ SumTo(L, i - 1) + j >= 1
                BY <1>16, <3>1, <4>1, <4>2
            <4> QED BY <1>16, <3>1, <4>2, <4>3
        <3>3. FlattenSeq(f.updates)[SumTo(L, i - 1) + j] = f.updates[i][j]
            BY <1>3, FlattenJoins DEF L, C
        <3> QED BY <2>4, <3>2, <3>3
    <2>6. Cut(payload, L) = f.updates
        BY <1>3, <2>5, CutBack DEF L, C
    <2> QED BY <1>10, <2>6
<1>13. frame = f
    <2>1. [i \in 1 .. p |-> Number(body[i + 1])] = f.producer
        <3>1. f.producer = [i \in 1 .. P |-> f.producer[i]]
            BY <1>3 DEF P
        <3>2. ASSUME NEW i \in 1 .. P PROVE Number(body[i + 1]) = f.producer[i]
            <4>1. i + 1 = 1 + i /\ f.producer[i] \in Nat
                <5>1. \A x \in 1 .. Len(f.producer) : f.producer[x] \in Nat
                    BY <1>3
                <5>2. i + 1 = 1 + i
                    BY <1>16
                <5> QED BY <5>1, <5>2 DEF P
            <4>2. body[i + 1] = Num(f.producer[i])
                BY <1>2, <1>7, <4>1
            <4> QED BY <4>1, <4>2, CellFacts
        <3> QED BY <1>8, <3>1, <3>2
    <2>2. Number(body[p + 2]) = f.epoch /\ Number(body[p + 3]) = f.sequence
          /\ Number(body[p + 4]) = f.batch_id
        BY <1>2, <1>3, <1>7, <1>8, CellFacts
    <2> HIDE DEF payload
    <2> QED BY <1>3, <1>12, <2>1, <2>2
<1>14. ok
    <2> HIDE DEF payload, frame
    <2>1. DigestOf(input) = update_digest(frame.updates)
        BY <1>7, <1>13
    <2>2. DOMAIN lengths = 1 .. C
        BY <1>4, <1>10
    <2>3. Len(body) >= 1 /\ Len(body) >= p + 5 /\ table_end <= Len(body)
          /\ Total(lengths) = Len(body) - table_end
        <3>1. Len(body) = P + 5 + C + T /\ table_end = P + 5 + C /\ Total(lengths) = T
            BY <1>10, <1>11, <1>16
        <3> HIDE DEF table_end
        <3> QED BY <1>8, <1>16, <3>1
    <2>4. p \in 1 .. l.max_producer_id_bytes /\ count \in 1 .. l.max_updates
        BY <1>5, <1>8, <1>9
    <2>5. Total(lengths) <= l.max_updates_bytes
        BY <1>5, <1>10
    <2>6. \A i \in DOMAIN lengths : lengths[i] <= l.max_update_bytes
        BY <1>5, <1>10, <2>2
    <2> HIDE DEF table_end
    <2> QED BY <1>7, <2>1, <2>3, <2>4, <2>5, <2>6
<1>15. DecodeFrame(input) = {f}
    <2> HIDE DEF ok, frame
    <2> QED BY <1>1, <1>13, <1>14
<1> QED BY <1>6, <1>7, <1>15

\* One number more at the front.
LEMMA SumCons ==
    ASSUME NEW L \in Seq(Nat), NEW q \in Nat, NEW M \in Seq(Nat), Len(M) = Len(L) + 1,
           M[1] = q, \A i \in 1 .. Len(L) : M[1 + i] = L[i]
    PROVE  \A n \in 0 .. Len(L) : SumTo(M, n + 1) = q + SumTo(L, n)
<1>0. Len(L) \in Nat
    OBVIOUS
<1>1. /\ SumTo(L, 0) = 0
      /\ \A i \in 0 .. Len(L) : SumTo(L, i) \in Nat
      /\ \A i \in 1 .. Len(L) : SumTo(L, i) = SumTo(L, i - 1) + L[i]
    BY SumSteps
<1>2. /\ SumTo(M, 0) = 0
      /\ \A i \in 0 .. Len(M) : SumTo(M, i) \in Nat
      /\ \A i \in 1 .. Len(M) : SumTo(M, i) = SumTo(M, i - 1) + M[i]
    BY SumSteps
<1> DEFINE N == {n \in Nat : n \in 0 .. Len(L) => SumTo(M, n + 1) = q + SumTo(L, n)}
<1>3. 0 \in N
    <2>1. 1 \in 1 .. Len(M) /\ 1 - 1 = 0
        BY <1>0
    <2>2. SumTo(M, 1) = SumTo(M, 0) + M[1]
        BY <1>2, <2>1
    <2> QED BY <1>1, <1>2, <2>2
<1>4. ASSUME NEW k \in 1 .. Len(L), SumTo(M, k) = q + SumTo(L, k - 1)
      PROVE  SumTo(M, k + 1) = q + SumTo(L, k)
    <2>1. k - 1 \in 0 .. Len(L) /\ k + 1 \in 1 .. Len(M) /\ k + 1 - 1 = k /\ 1 + k = k + 1
        BY <1>0
    <2>2. SumTo(L, k) = SumTo(L, k - 1) + L[k] /\ SumTo(L, k - 1) \in Nat /\ L[k] \in Nat
        <3>1. SumTo(L, k) = SumTo(L, k - 1) + L[k]
            BY <1>1
        <3>2. SumTo(L, k - 1) \in Nat
            BY <1>1, <2>1
        <3>3. L[k] \in Nat
            BY SMTT(30)
        <3> QED BY <3>1, <3>2, <3>3
    <2> DEFINE j == k + 1
    <2>3. j \in 1 .. Len(M) /\ j - 1 = k /\ M[j] = L[k]
        BY <2>1
    <2> HIDE DEF j
    <2>4. SumTo(M, j) = SumTo(M, k) + L[k]
        BY <1>2, <2>3
    <2>5. SumTo(M, j) = q + SumTo(L, k)
        BY <1>4, <2>2, <2>4, SMTT(30)
    <2> QED BY <2>5 DEF j
<1>6. ASSUME NEW n \in Nat, n \in N
      PROVE  n + 1 \in N
    <2> DEFINE k == n + 1
    <2>1. k \in Nat /\ k - 1 = n /\ (k \in 0 .. Len(L) => k \in 1 .. Len(L) /\ n \in 0 .. Len(L))
        BY <1>0
    <2>2. n \in 0 .. Len(L) => SumTo(M, k) = q + SumTo(L, n)
        BY <1>6
    <2> HIDE DEF k
    <2>3. k \in 0 .. Len(L) => SumTo(M, k + 1) = q + SumTo(L, k)
        BY <1>4, <2>1, <2>2
    <2>4. k \in N
        BY <2>1, <2>3
    <2> QED BY <2>4 DEF k
<1> HIDE DEF N
<1>5. Nat \subseteq N
    BY <1>3, <1>6, Induction
<1> QED BY <1>0, <1>5 DEF N

\* A checkpoint's fixed fields.
CheckpointFields(c) ==
    <<c.room, c.checkpoint_generation, c.source_delta_generation,
      c.source_delta_end_offset, Len(c.snapshot), Len(c.pending_updates)>>

\* All of its fields.
CheckpointBody(c) ==
    Nums(CheckpointFields(c)) \o Nums(Lengths(c.pending_updates))
        \o Nums(c.snapshot) \o Nums(FlattenSeq(c.pending_updates))

\* The cells of a checkpoint's fields.
LEMMA CheckpointShape ==
    ASSUME NEW r \in Checkpoints
    PROVE  LET q == Len(r.snapshot)
               count == Len(r.pending_updates)
               lengths == Lengths(r.pending_updates)
               body == CheckpointBody(r)
           IN  /\ IsSeq(body) /\ Len(body) = 6 + count + q + Total(lengths)
               /\ q \in Nat /\ count \in Nat /\ Total(lengths) \in Nat
               /\ \A i \in 1 .. 6 : body[i] = Num(CheckpointFields(r)[i])
               /\ \A i \in 1 .. count : body[6 + i] = Num(lengths[i])
               /\ \A i \in 1 .. q : body[6 + count + i] = Num(r.snapshot[i])
               /\ \A i \in 1 .. Total(lengths) :
                     body[6 + count + q + i] = Num(FlattenSeq(r.pending_updates)[i])
<1> DEFINE q == Len(r.snapshot)
           count == Len(r.pending_updates)
           lengths == Lengths(r.pending_updates)
           six == CheckpointFields(r)
           flat == FlattenSeq(r.pending_updates)
           b == Nums(six)
           c == b \o Nums(lengths)
           d == c \o Nums(r.snapshot)
           e == d \o Nums(flat)
<1>0. /\ r.room \in Nat /\ r.checkpoint_generation \in Nat /\ r.source_delta_generation \in Nat
      /\ r.source_delta_end_offset \in Nat /\ r.snapshot \in Seq(Nat)
      /\ r.pending_updates \in Seq(Seq(Nat))
    BY RecordAssumption
<1>1. CheckpointBody(r) = e
    BY DEF CheckpointBody
<1>2. q \in Nat /\ count \in Nat
    BY <1>0
<1>3. lengths \in Seq(Nat) /\ Len(lengths) = count
    BY <1>0, LengthsType
<1>4. flat \in Seq(Nat) /\ Len(flat) = Total(lengths) /\ Total(lengths) \in Nat
    <2>1. flat \in Seq(Nat) /\ Len(flat) = Total(lengths)
        BY <1>0, FlattenJoins
    <2> HIDE DEF flat
    <2> QED BY <2>1, LenProperties
<1>5. six \in Seq(Nat) /\ Len(six) = 6
    <2> HIDE DEF count, q
    <2> QED BY <1>0, <1>2 DEF CheckpointFields, q, count
<1>7. IsPair(c, b, Nums(lengths)) /\ IsPair(d, c, Nums(r.snapshot)) /\ IsPair(e, d, Nums(flat))
    BY DEF IsPair
<1>10. IsSeq(b) /\ Len(b) = 6 /\ \A i \in 1 .. 6 : b[i] = Num(six[i])
    <2> HIDE DEF six
    <2> QED BY <1>5, NumsSeq
<1> HIDE DEF q, count, lengths, six, flat, b, c, d, e
<1>12. /\ IsSeq(c) /\ Len(c) = 6 + count
       /\ \A i \in 1 .. 6 : c[i] = b[i]
       /\ \A i \in 1 .. count : c[6 + i] = Num(lengths[i])
    <2>1. /\ IsSeq(Nums(lengths)) /\ Len(Nums(lengths)) = count
          /\ \A i \in 1 .. count : Nums(lengths)[i] = Num(lengths[i])
        BY <1>3, NumsSeq
    <2>2. IsSeq(b) /\ IsSeq(Nums(lengths)) /\ IsPair(c, b, Nums(lengths))
        BY <1>7, <1>10, <2>1
    <2>3. /\ IsSeq(c) /\ Len(c) = Len(b) + Len(Nums(lengths))
          /\ \A i \in 1 .. Len(b) : c[i] = b[i]
          /\ \A i \in 1 .. Len(Nums(lengths)) : c[Len(b) + i] = Nums(lengths)[i]
        BY <2>2, JoinedPair
    <2> QED BY <1>10, <2>1, <2>3
<1>11. /\ IsSeq(d) /\ Len(d) = 6 + count + q
       /\ \A i \in 1 .. 6 + count : d[i] = c[i]
       /\ \A i \in 1 .. q : d[6 + count + i] = Num(r.snapshot[i])
    <2>1. /\ IsSeq(Nums(r.snapshot)) /\ Len(Nums(r.snapshot)) = q
          /\ \A i \in 1 .. q : Nums(r.snapshot)[i] = Num(r.snapshot[i])
        BY <1>0, NumsSeq DEF q
    <2>2. IsSeq(c) /\ IsSeq(Nums(r.snapshot)) /\ IsPair(d, c, Nums(r.snapshot))
        BY <1>7, <1>12, <2>1
    <2>3. /\ IsSeq(d) /\ Len(d) = Len(c) + Len(Nums(r.snapshot))
          /\ \A i \in 1 .. Len(c) : d[i] = c[i]
          /\ \A i \in 1 .. Len(Nums(r.snapshot)) : d[Len(c) + i] = Nums(r.snapshot)[i]
        BY <2>2, JoinedPair
    <2> QED BY <1>12, <2>1, <2>3
<1>13. /\ IsSeq(e) /\ Len(e) = 6 + count + q + Total(lengths)
       /\ \A i \in 1 .. 6 + count + q : e[i] = d[i]
       /\ \A i \in 1 .. Total(lengths) : e[6 + count + q + i] = Num(flat[i])
    <2>1. /\ IsSeq(Nums(flat)) /\ Len(Nums(flat)) = Total(lengths)
          /\ \A i \in 1 .. Total(lengths) : Nums(flat)[i] = Num(flat[i])
        BY <1>4, NumsSeq
    <2>2. IsSeq(d) /\ IsSeq(Nums(flat)) /\ IsPair(e, d, Nums(flat))
        BY <1>7, <1>11, <2>1
    <2>3. /\ IsSeq(e) /\ Len(e) = Len(d) + Len(Nums(flat))
          /\ \A i \in 1 .. Len(d) : e[i] = d[i]
          /\ \A i \in 1 .. Len(Nums(flat)) : e[Len(d) + i] = Nums(flat)[i]
        BY <2>2, JoinedPair
    <2> QED BY <1>11, <2>1, <2>3
<1>14. \A i \in 1 .. 6 + count : e[i] = c[i]
    <2>1. \A i \in 1 .. 6 + count : i \in 1 .. 6 + count + q
        BY <1>2
    <2> QED BY <1>11, <1>13, <2>1
<1>15. \A i \in 1 .. 6 : e[i] = Num(six[i])
    <2>1. \A i \in 1 .. 6 : i \in 1 .. 6 + count
        BY <1>2
    <2> QED BY <1>10, <1>12, <1>14, <2>1
<1>16. ASSUME NEW i \in 1 .. count PROVE e[6 + i] = Num(lengths[i])
    <2>1. 6 + i \in 1 .. 6 + count
        BY <1>2
    <2> QED BY <1>12, <1>14, <2>1
<1>17. ASSUME NEW i \in 1 .. q PROVE e[6 + count + i] = Num(r.snapshot[i])
    <2>1. 6 + count + i \in 1 .. 6 + count + q
        BY <1>2
    <2> QED BY <1>11, <1>13, <2>1
<1> QED BY <1>1, <1>2, <1>4, <1>13, <1>15, <1>16, <1>17 DEF q, count, lengths, flat, six

\* EncodeCheckpoint seals them.
LEMMA CheckpointSealed ==
    ASSUME NEW c
    PROVE  EncodeCheckpoint(c)
              = Seal("checkpoint", CheckpointBody(c), checkpoint_digest(c.snapshot, c.pending_updates))
BY DEF EncodeCheckpoint, CheckpointBody, CheckpointFields

\* The snapshot and the updates as one list of blobs.
LEMMA AllBlobs ==
    ASSUME NEW r \in Checkpoints, NEW all, all = <<r.snapshot>> \o r.pending_updates
    PROVE  /\ all \in Seq(Seq(Nat)) /\ Len(all) = Len(r.pending_updates) + 1
           /\ all[1] = r.snapshot /\ Tail(all) = r.pending_updates
           /\ \A i \in 1 .. Len(r.pending_updates) : all[i + 1] = r.pending_updates[i]
           /\ <<Len(r.snapshot)>> \o Lengths(r.pending_updates) = Lengths(all)
           /\ SumTo(Lengths(all), 0) = 0
           /\ \A i \in 1 .. Len(r.pending_updates) :
                 SumTo(Lengths(all), i) = Len(r.snapshot) + SumTo(Lengths(r.pending_updates), i - 1)
<1> DEFINE s == r.snapshot
           p == r.pending_updates
           L == Lengths(p)
           M == Lengths(all)
<1>0. s \in Seq(Nat) /\ p \in Seq(Seq(Nat)) /\ Len(s) \in Nat /\ Len(p) \in Nat
    <2>1. s \in Seq(Nat) /\ p \in Seq(Seq(Nat))
        BY RecordAssumption
    <2> QED BY <2>1, LenProperties
<1>1. /\ all = <<s>> \o p
    OBVIOUS
<1> HIDE DEF s, p
<1>2. /\ all \in Seq(Seq(Nat)) /\ Len(all) = Len(p) + 1 /\ all[1] = s
      /\ \A i \in 1 .. Len(p) : all[i + 1] = p[i]
    <2> DEFINE S == Seq(Nat)
               one == <<s>>
    <2>1. one \in Seq(S) /\ Len(one) = 1 /\ one[1] = s /\ p \in Seq(S)
        BY <1>0
    <2>2. all = one \o p
        BY <1>1
    <2> HIDE DEF S, one
    <2>3. /\ one \o p \in Seq(S) /\ Len(one \o p) = Len(one) + Len(p)
          /\ \A i \in 1 .. Len(one) + Len(p) :
                (one \o p)[i] = IF i <= Len(one) THEN one[i] ELSE p[i - Len(one)]
        BY <2>1, ConcatProperties
    <2>4. /\ all \in Seq(S) /\ Len(all) = 1 + Len(p)
          /\ \A i \in 1 .. 1 + Len(p) : all[i] = IF i <= 1 THEN one[i] ELSE p[i - 1]
        BY <2>1, <2>2, <2>3
    <2>5. all[1] = s
        BY <1>0, <2>1, <2>4
    <2>6. ASSUME NEW i \in 1 .. Len(p) PROVE all[i + 1] = p[i]
        <3>1. i + 1 \in 1 .. 1 + Len(p) /\ ~(i + 1 <= 1) /\ i + 1 - 1 = i
            BY <1>0
        <3> QED BY <2>4, <3>1
    <2> QED BY <1>0, <2>4, <2>5, <2>6 DEF S
<1>3. Tail(all) = p
    <2> DEFINE S == Seq(Nat)
    <2>1. all \in Seq(S) /\ all # <<>> /\ p \in Seq(S)
        BY <1>0, <1>2
    <2> HIDE DEF S
    <2>2. Tail(all) \in Seq(S) /\ Len(Tail(all)) = Len(all) - 1
          /\ \A i \in 1 .. Len(Tail(all)) : Tail(all)[i] = all[i + 1]
        BY <2>1, HeadTailProperties
    <2> DEFINE t == Tail(all)
    <2> HIDE DEF t
    <2>3. t \in Seq(S) /\ Len(t) = Len(p) /\ \A i \in 1 .. Len(t) : t[i] = p[i]
        BY <1>0, <1>2, <2>2 DEF t
    <2>4. t = p
        BY <2>1, <2>3, SeqEqual
    <2> QED BY <2>4 DEF t
<1>4. /\ L \in Seq(Nat) /\ Len(L) = Len(p) /\ \A i \in 1 .. Len(p) : L[i] = Len(p[i])
    BY <1>0, LengthsType
<1>5. /\ M \in Seq(Nat) /\ Len(M) = Len(all) /\ \A i \in 1 .. Len(all) : M[i] = Len(all[i])
    <2> DEFINE S == Nat
    <2>1. all \in Seq(Seq(S))
        BY <1>2
    <2> HIDE DEF S
    <2>2. /\ Lengths(all) \in Seq(Nat) /\ Len(Lengths(all)) = Len(all)
          /\ \A i \in 1 .. Len(all) : Lengths(all)[i] = Len(all[i])
        BY <2>1, LengthsType, ZenonT(30)
    <2> QED BY <2>2
<1>6. M[1] = Len(s)
    <2>1. 1 \in 1 .. Len(all)
        BY <1>0, <1>2
    <2> QED BY <1>2, <1>5, <2>1
<1>7. \A i \in 1 .. Len(p) : M[1 + i] = L[i] /\ M[i + 1] = L[i]
    <2> SUFFICES ASSUME NEW i \in 1 .. Len(p) PROVE M[1 + i] = L[i] /\ M[i + 1] = L[i]
        OBVIOUS
    <2>1. i + 1 \in 1 .. Len(all) /\ 1 + i = i + 1
        BY <1>0, <1>2
    <2>2. M[i + 1] = Len(all[i + 1])
        BY <1>5, <2>1
    <2> QED BY <1>2, <1>4, <2>1, <2>2
<1> HIDE DEF L, M
<1>8. \A n \in 0 .. Len(p) : SumTo(M, n + 1) = Len(s) + SumTo(L, n)
    <2> DEFINE q == Len(s)
    <2>1. q \in Nat /\ M[1] = q /\ Len(M) = Len(L) + 1 /\ \A i \in 1 .. Len(L) : M[1 + i] = L[i]
        BY <1>0, <1>2, <1>4, <1>5, <1>6, <1>7
    <2> HIDE DEF q
    <2>2. \A n \in 0 .. Len(L) : SumTo(M, n + 1) = q + SumTo(L, n)
        BY <1>4, <1>5, <2>1, SumCons
    <2> QED BY <1>4, <2>2 DEF q
<1>9. ASSUME NEW i \in 1 .. Len(p) PROVE SumTo(M, i) = Len(s) + SumTo(L, i - 1)
    <2> DEFINE n == i - 1
    <2>1. n \in 0 .. Len(p) /\ n + 1 = i
        BY <1>0
    <2> HIDE DEF n
    <2>2. SumTo(M, n + 1) = Len(s) + SumTo(L, n)
        BY <1>8, <2>1
    <2> QED BY <2>1, <2>2 DEF n
<1>10. <<Len(s)>> \o L = M
    <2> DEFINE K == <<Len(s)>> \o L
    <2>1. K \in Seq(Nat) /\ Len(K) = Len(L) + 1 /\ K[1] = Len(s) /\ \A i \in 1 .. Len(L) : K[i + 1] = L[i]
        BY <1>0, <1>4
    <2> HIDE DEF K
    <2>2. Len(K) = Len(M)
        BY <1>2, <1>4, <1>5, <2>1
    <2>3. ASSUME NEW i \in 1 .. Len(K) PROVE K[i] = M[i]
        <3>1. CASE i = 1
            BY <1>6, <2>1, <3>1
        <3>2. CASE i # 1
            <4> DEFINE j == i - 1
            <4>1. j \in 1 .. Len(L) /\ j \in 1 .. Len(p) /\ j + 1 = i
                BY <1>0, <1>4, <2>1, <3>2
            <4> HIDE DEF j
            <4>2. K[j + 1] = M[j + 1]
                BY <1>7, <2>1, <4>1
            <4> QED BY <4>1, <4>2
        <3> QED BY <3>1, <3>2
    <2>4. K = M
        BY <1>5, <2>1, <2>2, <2>3, SeqEqual
    <2> QED BY <2>4 DEF K
<1>11. SumTo(M, 0) = 0
    BY <1>5, SumSteps
<1> QED BY <1>2, <1>3, <1>9, <1>10, <1>11 DEF s, p, L, M

\* decode is the inverse of encode for a checkpoint, which is the whole input.
LEMMA CheckpointRead ==
    ASSUME NEW r \in Checkpoints, CheckpointEncodes(r), NEW input,
           Starts(input, EncodeCheckpoint(r)), Len(input) = Len(EncodeCheckpoint(r))
    PROVE  DecodeCheckpoint(input) = {r} /\ Consumed(input) = Len(EncodeCheckpoint(r))
<1> DEFINE l == CheckpointLimits
           body == Body(input)
           field == [i \in 1 .. 6 |-> Number(body[i])]
           count == field[6]
           lengths == [i \in 1 .. count |-> Number(body[6 + i])]
           payload == SubSeq(body, 7 + count, Len(body))
           blobs == Cut(payload, <<field[5]>> \o lengths)
           ok ==
            /\ Sealed("checkpoint", input, CHECKPOINT_HEADER + FIXED_SUFFIX,
                      l.max_record_bytes)
            /\ Consumed(input) = Len(input)
            /\ field[5] \in 1 .. l.max_snapshot_bytes
            /\ count <= l.max_pending_updates /\ 6 + count <= Len(body)
            /\ \A i \in DOMAIN lengths : lengths[i] \in 1 .. l.max_pending_update_bytes
            /\ Total(lengths) <= l.max_pending_updates_bytes
            /\ field[5] + Total(lengths) = Len(body) - 6 - count
            /\ DigestOf(input) = checkpoint_digest(blobs[1], Tail(blobs))
           record == [room |-> field[1], checkpoint_generation |-> field[2],
               source_delta_generation |-> field[3],
               source_delta_end_offset |-> field[4],
               snapshot |-> blobs[1], pending_updates |-> Tail(blobs)]
<1>1. DecodeCheckpoint(input) = IF ok THEN {record} ELSE {}
    BY DEF DecodeCheckpoint
<1> DEFINE Q == Len(r.snapshot)
           C == Len(r.pending_updates)
           L == Lengths(r.pending_updates)
           B == CheckpointBody(r)
           F == CheckpointFields(r)
<1>2. /\ IsSeq(B) /\ Len(B) = 6 + C + Q + Total(L)
      /\ Q \in Nat /\ C \in Nat /\ Total(L) \in Nat
      /\ \A i \in 1 .. 6 : B[i] = Num(F[i])
      /\ \A i \in 1 .. C : B[6 + i] = Num(L[i])
      /\ \A i \in 1 .. Q : B[6 + C + i] = Num(r.snapshot[i])
      /\ \A i \in 1 .. Total(L) : B[6 + C + Q + i] = Num(FlattenSeq(r.pending_updates)[i])
    BY CheckpointShape
<1>3. /\ r.room \in Nat /\ r.checkpoint_generation \in Nat /\ r.source_delta_generation \in Nat
      /\ r.source_delta_end_offset \in Nat /\ r.snapshot \in Seq(Nat)
      /\ r.pending_updates \in Seq(Seq(Nat))
      /\ r = [room |-> r.room, checkpoint_generation |-> r.checkpoint_generation,
              source_delta_generation |-> r.source_delta_generation,
              source_delta_end_offset |-> r.source_delta_end_offset,
              snapshot |-> r.snapshot, pending_updates |-> r.pending_updates]
    BY RecordAssumption
<1>4. /\ L \in Seq(Nat) /\ Len(L) = C
      /\ \A i \in 1 .. C : L[i] = Len(r.pending_updates[i]) /\ L[i] \in Nat
    <2> DEFINE P == r.pending_updates
    <2>1. P \in Seq(Seq(Nat))
        BY <1>3
    <2> HIDE DEF P
    <2>2. /\ Lengths(P) \in Seq(Nat) /\ Len(Lengths(P)) = Len(P)
          /\ \A i \in 1 .. Len(P) : Lengths(P)[i] = Len(P[i]) /\ Len(P[i]) \in Nat
        BY <2>1, LengthsType
    <2> QED BY <2>2 DEF P
<1>5. /\ Q \in 1 .. l.max_snapshot_bytes /\ C <= l.max_pending_updates
      /\ \A i \in 1 .. C : L[i] \in 1 .. l.max_pending_update_bytes
      /\ Total(L) <= l.max_pending_updates_bytes
      /\ Len(EncodeCheckpoint(r)) <= l.max_record_bytes
    <2>1. DOMAIN r.pending_updates = 1 .. C
        BY <1>3
    <2> QED BY <1>4, <2>1 DEF CheckpointEncodes
<1>6. /\ Len(EncodeCheckpoint(r)) = Len(B) + 7 /\ Len(B) \in Nat
    <2> DEFINE D == checkpoint_digest(r.snapshot, r.pending_updates)
    <2>1. IsSeq(B) /\ EncodeCheckpoint(r) = Seal("checkpoint", B, D)
        BY <1>2, CheckpointSealed
    <2> HIDE DEF B, D
    <2>2. Len(Seal("checkpoint", B, D)) = Len(B) + 7 /\ Len(B) \in Nat
        BY <2>1, SealLength
    <2> QED BY <2>1, <2>2
<1> DEFINE T == Total(L)
<1>16. T \in Nat /\ Q \in Nat /\ C \in Nat /\ T = Total(L)
    BY <1>2
<1>7. /\ Sealed("checkpoint", input, CHECKPOINT_HEADER + FIXED_SUFFIX, l.max_record_bytes)
      /\ Consumed(input) = Len(B) + 7 /\ body = B
      /\ DigestOf(input) = checkpoint_digest(r.snapshot, r.pending_updates)
    <2> DEFINE D == checkpoint_digest(r.snapshot, r.pending_updates)
               max == l.max_record_bytes
    <2>1. Starts(input, Seal("checkpoint", B, D))
        BY CheckpointSealed
    <2>2. max \in Nat /\ CHECKPOINT_HEADER + FIXED_SUFFIX = 13
        BY RecordAssumption DEF CHECKPOINT_HEADER, FIXED_PREFIX, FIXED_SUFFIX
    <2>3. Len(B) = 6 + C + Q + T /\ Q >= 1
        BY <1>2, <1>5
    <2>7. Len(B) + 7 <= max
        BY <1>5, <1>6
    <2>5. IsSeq(B)
        BY <1>2
    <2> HIDE DEF max, B, D, T, Q, C
    <2>4. 13 \in Nat /\ 13 <= Len(B) + 7
        BY <1>16, <2>3
    <2>6. Sealed("checkpoint", input, 13, max) /\ Consumed(input) = Len(B) + 7
          /\ Body(input) = B /\ DigestOf(input) = D
        BY <2>1, <2>2, <2>4, <2>5, <2>7, SealRead
    <2> QED BY <2>2, <2>6 DEF max, D
<1>18. F[1] = r.room /\ F[2] = r.checkpoint_generation /\ F[3] = r.source_delta_generation
       /\ F[4] = r.source_delta_end_offset /\ F[5] = Q /\ F[6] = C
    BY DEF CheckpointFields
<1>17. \A i \in 1 .. 6 : F[i] \in Nat
    <2>1. F[1] \in Nat /\ F[2] \in Nat /\ F[3] \in Nat /\ F[4] \in Nat
          /\ F[5] \in Nat /\ F[6] \in Nat
        BY <1>2, <1>3, <1>18
    <2> HIDE DEF F
    <2> QED BY <2>1, SMTT(30)
<1> HIDE DEF l, body, Q, C, L, B, F, T
<1>8. \A i \in 1 .. 6 : field[i] = F[i]
    BY <1>2, <1>7, <1>17, CellFacts
<1>9. count = C /\ field[5] = Q
    BY <1>8, <1>18
<1>19. field[1] = F[1] /\ field[2] = F[2] /\ field[3] = F[3] /\ field[4] = F[4]
    BY <1>8
<1> HIDE DEF field, count
<1>10. lengths = L
    <2>1. L = [i \in 1 .. C |-> L[i]]
        BY <1>4
    <2>2. \A i \in 1 .. C : Number(B[6 + i]) = L[i]
        BY <1>2, <1>4, CellFacts
    <2> QED BY <1>7, <1>9, <2>1, <2>2
<1> HIDE DEF lengths
<1>11. Len(body) = 6 + C + Q + T
    BY <1>2, <1>7, <1>16
<1> DEFINE all == <<r.snapshot>> \o r.pending_updates
<1>20. all = <<r.snapshot>> \o r.pending_updates
    OBVIOUS
<1> HIDE DEF all
<1>21. /\ all \in Seq(Seq(Nat)) /\ Len(all) = C + 1
       /\ all[1] = r.snapshot /\ Tail(all) = r.pending_updates
       /\ \A i \in 1 .. C : all[i + 1] = r.pending_updates[i]
       /\ <<Q>> \o L = Lengths(all)
       /\ SumTo(Lengths(all), 0) = 0
       /\ \A i \in 1 .. C : SumTo(Lengths(all), i) = Q + SumTo(L, i - 1)
    BY <1>20, AllBlobs DEF C, Q, L
<1>12. blobs = all
    <2> DEFINE t == 6 + C
               n == Len(body)
    <2>1. IsSeq(body) /\ t + 1 \in Nat /\ t \in Nat /\ n \in Nat /\ t + 1 >= 1 /\ t + 1 <= n + 1 /\ n <= Len(body)
          /\ n - (t + 1) + 1 = Q + T
        <3>1. IsSeq(body)
            BY <1>2, <1>7
        <3>2. n = t + Q + T
            BY <1>11, <1>16
        <3>3. n = Len(body)
            OBVIOUS
        <3> HIDE DEF n
        <3> QED BY <1>16, <3>1, <3>2, <3>3, SMTT(30)
    <2>2. payload = SubSeq(body, t + 1, n)
        <3>1. 7 + count = t + 1
            BY <1>9, <1>16
        <3> QED BY <3>1
    <2> HIDE DEF t, n
    <2>3. \A i \in 1 .. n - (t + 1) + 1 : SubSeq(body, t + 1, n)[i] = body[t + 1 + i - 1]
        BY <2>1, PartSeq
    <2>4. ASSUME NEW i \in 1 .. Q + T PROVE payload[i] = body[t + i]
        <3>1. t + 1 + i - 1 = t + i
            BY <2>1, <1>16
        <3> QED BY <2>1, <2>2, <2>3, <3>1
    <2> HIDE DEF payload
    <2> DEFINE M == Lengths(all)
    <2>5. ASSUME NEW i \in 1 .. Len(all), NEW j \in 1 .. Len(all[i])
          PROVE  payload[SumTo(M, i - 1) + j] = Num(all[i][j])
        <3>1. CASE i = 1
            <4>1. SumTo(M, i - 1) + j = j /\ j \in 1 .. Q /\ j \in 1 .. Q + T /\ all[i] = r.snapshot
                <5>1. all[i] = r.snapshot /\ i - 1 = 0 /\ Len(r.snapshot) = Q
                    BY <1>21, <3>1 DEF Q
                <5>2. j \in 1 .. Q /\ SumTo(M, i - 1) = 0
                    BY <1>21, <5>1
                <5>3. j \in 1 .. Q + T /\ 0 + j = j
                    BY <1>16, <5>2
                <5> QED BY <5>1, <5>2, <5>3
            <4>2. payload[j] = body[t + j]
                BY <2>4, <4>1
            <4>3. B[t + j] = Num(r.snapshot[j])
                BY <1>2, <4>1 DEF t
            <4> QED BY <1>7, <4>1, <4>2, <4>3
        <3>2. CASE i # 1
            <4> DEFINE k == i - 1
                       s == SumTo(L, k - 1)
            <4>1. k \in 1 .. C /\ k + 1 = i /\ C \in Nat /\ i - 1 = k
                BY <1>16, <1>21, <3>2
            <4>0. s = SumTo(L, k - 1)
                OBVIOUS
            <4> HIDE DEF k, s
            <4>2. all[i] = r.pending_updates[k] /\ SumTo(M, k) = Q + s
                <5>1. all[k + 1] = r.pending_updates[k]
                    BY <1>21, <4>1
                <5>2. SumTo(M, k) = Q + SumTo(L, k - 1)
                    BY <1>21, <4>1
                <5> QED BY <4>0, <4>1, <5>1, <5>2
            <4>3. L[k] = Len(all[i]) /\ L[k] \in Nat
                BY <1>4, <4>1, <4>2
            <4>4. j \in Nat /\ j >= 1 /\ j <= L[k]
                BY <4>3
            <4>5. /\ SumTo(L, k) = s + L[k] /\ s \in Nat
                  /\ SumTo(L, k) <= T
                <5>1. k \in 1 .. Len(L) /\ k - 1 \in 0 .. Len(L) /\ k \in 0 .. Len(L)
                      /\ Len(L) \in 0 .. Len(L) /\ k <= Len(L)
                    BY <1>4, <4>1
                <5>2. /\ SumTo(L, k) = SumTo(L, k - 1) + L[k] /\ SumTo(L, k - 1) \in Nat
                      /\ SumTo(L, k) <= SumTo(L, Len(L)) /\ Total(L) = SumTo(L, Len(L))
                    BY <1>4, <5>1, SumSteps
                <5> QED BY <1>16, <4>0, <5>2
            <4>6. s + j \in 1 .. T /\ Q + s + j \in 1 .. Q + T /\ s + j \in 1 .. Total(L)
                BY <1>16, <4>3, <4>4, <4>5
            <4>7. payload[Q + s + j] = body[t + (Q + s + j)]
                BY <2>4, <4>6
            <4>8. B[6 + C + Q + (s + j)] = Num(FlattenSeq(r.pending_updates)[s + j])
                BY <1>2, <4>6
            <4>9. FlattenSeq(r.pending_updates)[s + j] = r.pending_updates[k][j]
                <5>1. k \in 1 .. Len(r.pending_updates) /\ j \in 1 .. Len(r.pending_updates[k])
                    BY <4>1, <4>2 DEF C
                <5>2. FlattenSeq(r.pending_updates)[SumTo(Lengths(r.pending_updates), k - 1) + j] = r.pending_updates[k][j]
                    BY <1>3, <5>1, FlattenJoins
                <5> QED BY <4>0, <5>2 DEF L
            <4>10. t + (Q + s + j) = 6 + C + Q + (s + j)
                BY <1>16, <4>4, <4>5 DEF t
            <4>11. payload[Q + s + j] = Num(all[i][j])
                BY <1>7, <4>2, <4>7, <4>8, <4>9, <4>10
            <4>12. SumTo(M, i - 1) + j = Q + s + j
                BY <4>1, <4>2
            <4> QED BY <4>11, <4>12
        <3> QED BY <3>1, <3>2
    <2>6. Cut(payload, M) = all
        BY <1>21, <2>5, CutBack
    <2>7. <<field[5]>> \o lengths = M
        BY <1>9, <1>10, <1>21
    <2> HIDE DEF M
    <2> QED BY <2>6, <2>7
<1>13. record = r
    <2> HIDE DEF payload, blobs
    <2> QED BY <1>3, <1>12, <1>18, <1>19, <1>21
<1>14. ok
    <2> HIDE DEF payload, blobs
    <2>1. DigestOf(input) = checkpoint_digest(blobs[1], Tail(blobs))
        BY <1>7, <1>12, <1>21
    <2>2. DOMAIN lengths = 1 .. C
        BY <1>4, <1>10
    <2>3. 6 + count <= Len(body) /\ field[5] + Total(lengths) = Len(body) - 6 - count
        BY <1>9, <1>10, <1>11, <1>16
    <2>4. field[5] \in 1 .. l.max_snapshot_bytes /\ count <= l.max_pending_updates
        BY <1>5, <1>9
    <2>5. Total(lengths) <= l.max_pending_updates_bytes
        BY <1>5, <1>10
    <2>6. \A i \in DOMAIN lengths : lengths[i] \in 1 .. l.max_pending_update_bytes
        BY <1>5, <1>10, <2>2
    <2>7. Consumed(input) = Len(input)
        BY <1>6, <1>7
    <2> QED BY <1>7, <2>1, <2>3, <2>4, <2>5, <2>6, <2>7
<1>15. DecodeCheckpoint(input) = {r}
    <2> HIDE DEF ok, record
    <2> QED BY <1>1, <1>13, <1>14
<1> QED BY <1>6, <1>7, <1>15

\* The cells of a manifest's fields.
LEMMA ManifestSeq ==
    ASSUME NEW m
    PROVE  /\ IsSeq(ManifestBody(m)) /\ Len(ManifestBody(m)) = 7
           /\ EncodeManifest(m) = Seal("manifest", ManifestBody(m), manifest_digest(ManifestBody(m)))
<1>1. ManifestBody(m) \in Seq({ManifestBody(m)[i] : i \in 1 .. 7}) /\ Len(ManifestBody(m)) = 7
    BY DEF ManifestBody
<1> QED BY <1>1 DEF IsSeq, EncodeManifest

\* decode is the inverse of encode for manifests.
LEMMA ManifestRead ==
    ASSUME NEW r \in Manifests, ManifestEncodes(r), NEW input, Starts(input, EncodeManifest(r))
    PROVE  DecodeManifest(input) = {r} /\ Consumed(input) = Len(EncodeManifest(r))
<1> DEFINE body == Body(input)
           m == [room |-> Number(body[1]), revision |-> Number(body[2]),
              previous_record_digest |-> body[3],
              checkpoint_generation |-> Number(body[4]),
              checkpoint_stream_end_offset |-> Number(body[5]),
              checkpoint_record_digest |-> body[6],
              active_delta_generation |-> Number(body[7])]
           ok ==
            /\ Sealed("manifest", input, FIXED_RECORD, ManifestLimits.max_record_bytes)
            /\ Consumed(input) = FIXED_RECORD
            /\ ManifestValid(m)
            /\ DigestOf(input) = manifest_digest(body)
           B == ManifestBody(r)
           D == manifest_digest(B)
           max == ManifestLimits.max_record_bytes
<1>1. DecodeManifest(input) = IF ok THEN {m} ELSE {}
    BY DEF DecodeManifest
<1>2. IsSeq(B) /\ Len(B) = 7 /\ EncodeManifest(r) = Seal("manifest", B, D)
    BY ManifestSeq
<1>3. max \in Nat /\ FIXED_RECORD = 14 /\ 14 <= max /\ ManifestValid(r)
    BY RecordAssumption DEF ManifestEncodes, FIXED_RECORD, FIXED_PREFIX, FIXED_SUFFIX
<1>4. /\ r.room \in Nat /\ r.revision \in Nat /\ r.checkpoint_generation \in Nat
      /\ r.checkpoint_stream_end_offset \in Nat /\ r.active_delta_generation \in Nat
      /\ r = [room |-> r.room, revision |-> r.revision,
              previous_record_digest |-> r.previous_record_digest,
              checkpoint_generation |-> r.checkpoint_generation,
              checkpoint_stream_end_offset |-> r.checkpoint_stream_end_offset,
              checkpoint_record_digest |-> r.checkpoint_record_digest,
              active_delta_generation |-> r.active_delta_generation]
    BY RecordAssumption
<1>5. B[1] = Num(r.room) /\ B[2] = Num(r.revision) /\ B[3] = r.previous_record_digest
      /\ B[4] = Num(r.checkpoint_generation) /\ B[5] = Num(r.checkpoint_stream_end_offset)
      /\ B[6] = r.checkpoint_record_digest /\ B[7] = Num(r.active_delta_generation)
    BY DEF ManifestBody
<1> HIDE DEF B, D, max
<1>6. /\ Sealed("manifest", input, 14, max) /\ Consumed(input) = 14
      /\ body = B /\ DigestOf(input) = D
    <2>1. IsSeq(B) /\ Starts(input, Seal("manifest", B, D))
        BY <1>2
    <2> DEFINE fixed == 14
    <2>2. fixed \in Nat /\ fixed <= Len(B) + 7 /\ Len(B) + 7 <= max /\ Len(B) + 7 = 14
        BY <1>2, <1>3
    <2> HIDE DEF fixed
    <2>3. /\ Sealed("manifest", input, fixed, max) /\ Consumed(input) = Len(B) + 7
          /\ Body(input) = B /\ DigestOf(input) = D
        BY <1>3, <2>1, <2>2, SealRead
    <2> QED BY <2>2, <2>3 DEF fixed
<1>7. Len(EncodeManifest(r)) = 14
    <2>1. IsSeq(B)
        BY <1>2
    <2>2. Len(Seal("manifest", B, D)) = Len(B) + 7
        BY <2>1, SealLength
    <2> QED BY <1>2, <2>2
<1> HIDE DEF body
<1>8. m = r
    <2>1. /\ Number(body[1]) = r.room /\ Number(body[2]) = r.revision
          /\ Number(body[4]) = r.checkpoint_generation
          /\ Number(body[5]) = r.checkpoint_stream_end_offset
          /\ Number(body[7]) = r.active_delta_generation
        BY <1>4, <1>5, <1>6, CellFacts
    <2> QED BY <1>4, <1>5, <1>6, <2>1
<1> HIDE DEF m
<1>9. ok
    BY <1>3, <1>6, <1>8 DEF D, max
<1> HIDE DEF ok
<1> QED BY <1>1, <1>6, <1>7, <1>8, <1>9

-----------------------------------------------------------------------------
(* Records, and what a reader notices *)

\* A record: its length in its fourth and in its last cell, a checksum of all before it
\* next to last and nowhere else.
IsRecord(E) ==
    /\ IsSeq(E) /\ Len(E) >= 7
    /\ E[4] = Num(Len(E)) /\ E[Len(E)] = Num(Len(E))
    /\ E[Len(E) - 1] = Crc(SubSeq(E, 1, Len(E) - 2))
    /\ \A i \in 1 .. Len(E) : IsCell(E[i]) /\ (i # Len(E) - 1 => E[i][1] # "crc32")

\* Sealing fields among which there is no checksum makes a record.
LEMMA SealIsRecord ==
    ASSUME NEW k, NEW body, IsSeq(body), NEW digest, NoCrc(digest),
           \A i \in 1 .. Len(body) : NoCrc(body[i])
    PROVE  IsRecord(Seal(k, body, digest))
<1> DEFINE E == Seal(k, body, digest)
           m == Len(body)
           n == m + 7
<1>1. /\ IsSeq(E) /\ Len(E) = n /\ m \in Nat
      /\ E[1] = Magic(k) /\ E[2] = VERSION /\ E[3] = Num(0) /\ E[4] = Num(n)
      /\ \A i \in 1 .. m : E[4 + i] = body[i]
      /\ E[n - 2] = digest /\ E[n - 1] = Crc(SubSeq(E, 1, n - 2)) /\ E[n] = Num(n)
    BY SealShape, SMTT(30)
<1>m. m = Len(body)
    OBVIOUS
<1> HIDE DEF E, m
<1>2. n \in Nat /\ n >= 7
    BY <1>1
<1>3. NoCrc(E[1]) /\ NoCrc(E[2]) /\ NoCrc(E[3]) /\ NoCrc(E[4]) /\ NoCrc(E[n - 2])
      /\ NoCrc(E[n]) /\ IsCell(E[n - 1])
    <2>1. NoCrc(Num(n)) /\ NoCrc(Num(0)) /\ NoCrc(Num(1)) /\ NoCrc(Magic(k))
          /\ IsCell(Crc(SubSeq(E, 1, n - 2)))
        BY <1>2, CellFacts
    <2> QED BY <1>1, <2>1 DEF VERSION
<1>4. ASSUME NEW i \in 1 .. n, i # n - 1
      PROVE  NoCrc(E[i])
    <2>1. CASE i \in 5 .. m + 4
        <3> DEFINE j == i - 4
        <3>1. j \in 1 .. m /\ 4 + j = i
            BY <1>1, <2>1
        <3> HIDE DEF j
        <3>2. NoCrc(body[j])
            BY <1>m, <3>1
        <3> QED BY <1>1, <3>1, <3>2
    <2>2. CASE i \notin 5 .. m + 4
        <3>1. i = 1 \/ i = 2 \/ i = 3 \/ i = 4 \/ i = n - 2 \/ i = n
            BY <1>1, <1>4, <2>2
        <3> HIDE DEF n
        <3> QED BY <1>3, <3>1
    <2> QED BY <2>1, <2>2
<1>5. ASSUME NEW i \in 1 .. n PROVE IsCell(E[i]) /\ (i # n - 1 => E[i][1] # "crc32")
    <2> HIDE DEF n
    <2>1. CASE i = n - 1
        BY <1>3, <2>1
    <2>2. CASE i # n - 1
        BY <1>4, <2>2 DEF NoCrc
    <2> QED BY <2>1, <2>2
<1> HIDE DEF n
<1>6. IsRecord(E)
    BY <1>1, <1>2, <1>5 DEF IsRecord
<1> QED BY <1>6 DEF E

\* What FrameCodec::encode writes is a record.
LEMMA FrameIsRecord ==
    ASSUME NEW f \in Frames
    PROVE  IsRecord(EncodeFrame(f))
<1> DEFINE p == Len(f.producer)
           count == Len(f.updates)
           lengths == Lengths(f.updates)
           flat == FlattenSeq(f.updates)
           body == FrameBody(f)
           T == Total(lengths)
<1>1. /\ IsSeq(body) /\ Len(body) = p + 5 + count + T
      /\ p \in Nat /\ count \in Nat /\ T \in Nat
      /\ body[1] = Num(p)
      /\ \A i \in 1 .. p : body[1 + i] = Num(f.producer[i])
      /\ body[p + 2] = Num(f.epoch) /\ body[p + 3] = Num(f.sequence)
      /\ body[p + 4] = Num(f.batch_id) /\ body[p + 5] = Num(count)
      /\ \A i \in 1 .. count : body[p + 5 + i] = Num(lengths[i])
      /\ \A i \in 1 .. T : body[p + 5 + count + i] = Num(flat[i])
    BY FrameShape
<1>2. /\ f.producer \in Seq(Nat) /\ f.epoch \in Nat /\ f.sequence \in Nat /\ f.batch_id \in Nat
      /\ f.updates \in Seq(Seq(Nat))
    BY RecordAssumption
<1>3. \A i \in 1 .. p : f.producer[i] \in Nat
    BY <1>2
<1>4. \A i \in 1 .. count : lengths[i] \in Nat
    <2>1. f.updates \in Seq(Seq(Nat))
        BY <1>2
    <2>2. \A i \in 1 .. Len(f.updates) : lengths[i] = Len(f.updates[i]) /\ Len(f.updates[i]) \in Nat
        BY <2>1, LengthsType
    <2> QED BY <2>2
<1>5. \A i \in 1 .. T : flat[i] \in Nat
    <2>1. flat \in Seq(Nat) /\ Len(flat) = T
        BY <1>2, FlattenJoins
    <2> HIDE DEF flat, T
    <2> QED BY <2>1
<1>6. EncodeFrame(f) = Seal("frame", body, update_digest(f.updates))
    BY FrameSealed
<1> HIDE DEF p, count, lengths, flat, body, T
<1>7. ASSUME NEW i \in 1 .. Len(body) PROVE \E x \in Nat : body[i] = Num(x)
    <2>1. CASE i \in 2 .. p + 1
        <3> DEFINE j == i - 1
        <3>1. j \in 1 .. p /\ 1 + j = i
            BY <1>1, <2>1
        <3> HIDE DEF j
        <3> QED BY <1>1, <1>3, <3>1
    <2>2. CASE i \in p + 6 .. p + 5 + count
        <3> DEFINE j == i - p - 5
        <3>1. j \in 1 .. count /\ p + 5 + j = i
            BY <1>1, <2>2
        <3> HIDE DEF j
        <3> QED BY <1>1, <1>4, <3>1
    <2>3. CASE i > p + 5 + count
        <3> DEFINE j == i - p - 5 - count
        <3>1. j \in 1 .. T /\ p + 5 + count + j = i
            BY <1>1, <2>3
        <3> HIDE DEF j
        <3> QED BY <1>1, <1>5, <3>1
    <2>4. CASE i \notin 2 .. p + 1 /\ i \notin p + 6 .. p + 5 + count /\ ~(i > p + 5 + count)
        <3>1. i = 1 \/ i = p + 2 \/ i = p + 3 \/ i = p + 4 \/ i = p + 5
            BY <1>1, <2>4
        <3>2. body[i] = Num(p) \/ body[i] = Num(f.epoch) \/ body[i] = Num(f.sequence)
              \/ body[i] = Num(f.batch_id) \/ body[i] = Num(count)
            BY <1>1, <3>1
        <3> QED BY <1>1, <1>2, <3>2
    <2> QED BY <2>1, <2>2, <2>3, <2>4
<1>8. \A i \in 1 .. Len(body) : NoCrc(body[i])
    BY <1>7, CellFacts
<1>9. IsSeq(body)
    BY <1>1
<1>10. NoCrc(update_digest(f.updates))
    BY CellFacts DEF update_digest
<1>11. IsRecord(Seal("frame", body, update_digest(f.updates)))
    BY <1>8, <1>9, <1>10, SealIsRecord
<1> QED BY <1>6, <1>11

\* What CheckpointCodec::encode writes is a record.
LEMMA CheckpointIsRecord ==
    ASSUME NEW r \in Checkpoints
    PROVE  IsRecord(EncodeCheckpoint(r))
<1> DEFINE q == Len(r.snapshot)
           count == Len(r.pending_updates)
           lengths == Lengths(r.pending_updates)
           flat == FlattenSeq(r.pending_updates)
           body == CheckpointBody(r)
           six == CheckpointFields(r)
           T == Total(lengths)
<1>1. /\ IsSeq(body) /\ Len(body) = 6 + count + q + T
      /\ q \in Nat /\ count \in Nat /\ T \in Nat
      /\ \A i \in 1 .. 6 : body[i] = Num(six[i])
      /\ \A i \in 1 .. count : body[6 + i] = Num(lengths[i])
      /\ \A i \in 1 .. q : body[6 + count + i] = Num(r.snapshot[i])
      /\ \A i \in 1 .. T : body[6 + count + q + i] = Num(flat[i])
    BY CheckpointShape
<1>2. /\ r.room \in Nat /\ r.checkpoint_generation \in Nat /\ r.source_delta_generation \in Nat
      /\ r.source_delta_end_offset \in Nat /\ r.snapshot \in Seq(Nat)
      /\ r.pending_updates \in Seq(Seq(Nat))
    BY RecordAssumption
<1>3. \A i \in 1 .. q : r.snapshot[i] \in Nat
    BY <1>2
<1>4. \A i \in 1 .. count : lengths[i] \in Nat
    <2>1. r.pending_updates \in Seq(Seq(Nat))
        BY <1>2
    <2>2. \A i \in 1 .. Len(r.pending_updates) :
             lengths[i] = Len(r.pending_updates[i]) /\ Len(r.pending_updates[i]) \in Nat
        BY <2>1, LengthsType
    <2> QED BY <2>2
<1>5. \A i \in 1 .. T : flat[i] \in Nat
    <2>1. flat \in Seq(Nat) /\ Len(flat) = T
        BY <1>2, FlattenJoins
    <2> HIDE DEF flat, T
    <2> QED BY <2>1
<1>12. \A i \in 1 .. 6 : six[i] \in Nat
    <2>1. six[1] = r.room /\ six[2] = r.checkpoint_generation /\ six[3] = r.source_delta_generation
           /\ six[4] = r.source_delta_end_offset /\ six[5] = q /\ six[6] = count
        BY DEF CheckpointFields
    <2> HIDE DEF six, q, count
    <2>2. six[1] \in Nat /\ six[2] \in Nat /\ six[3] \in Nat /\ six[4] \in Nat
          /\ six[5] \in Nat /\ six[6] \in Nat
        BY <1>1, <1>2, <2>1
    <2> QED BY <2>2
<1>6. EncodeCheckpoint(r) = Seal("checkpoint", body, checkpoint_digest(r.snapshot, r.pending_updates))
    BY CheckpointSealed
<1> HIDE DEF q, count, lengths, flat, body, six, T
<1>7. ASSUME NEW i \in 1 .. Len(body) PROVE \E x \in Nat : body[i] = Num(x)
    <2>1. CASE i \in 1 .. 6
        BY <1>1, <1>12, <2>1
    <2>2. CASE i \in 7 .. 6 + count
        <3> DEFINE j == i - 6
        <3>1. j \in 1 .. count /\ 6 + j = i
            BY <1>1, <2>2
        <3> HIDE DEF j
        <3> QED BY <1>1, <1>4, <3>1
    <2>3. CASE i \in 7 + count .. 6 + count + q
        <3> DEFINE j == i - 6 - count
        <3>1. j \in 1 .. q /\ 6 + count + j = i
            BY <1>1, <2>3
        <3> HIDE DEF j
        <3> QED BY <1>1, <1>3, <3>1
    <2>4. CASE i > 6 + count + q
        <3> DEFINE j == i - 6 - count - q
        <3>1. j \in 1 .. T /\ 6 + count + q + j = i
            BY <1>1, <2>4
        <3> HIDE DEF j
        <3> QED BY <1>1, <1>5, <3>1
    <2>5. i \in 1 .. 6 \/ i \in 7 .. 6 + count \/ i \in 7 + count .. 6 + count + q \/ i > 6 + count + q
        BY <1>1
    <2> QED BY <2>1, <2>2, <2>3, <2>4, <2>5
<1>8. \A i \in 1 .. Len(body) : NoCrc(body[i])
    BY <1>7, CellFacts
<1>9. IsSeq(body)
    BY <1>1
<1> DEFINE D == checkpoint_digest(r.snapshot, r.pending_updates)
<1>10. NoCrc(D)
    BY CellFacts DEF checkpoint_digest
<1> HIDE DEF D
<1>11. IsRecord(Seal("checkpoint", body, D))
    BY <1>8, <1>9, <1>10, SealIsRecord
<1> QED BY <1>6, <1>11 DEF D

\* What ManifestCodec::encode writes is a record.
LEMMA ManifestIsRecord ==
    ASSUME NEW m \in Manifests
    PROVE  IsRecord(EncodeManifest(m))
<1> DEFINE B == ManifestBody(m)
           D == manifest_digest(B)
<1>1. IsSeq(B) /\ Len(B) = 7 /\ EncodeManifest(m) = Seal("manifest", B, D)
    BY ManifestSeq
<1>2. /\ m.room \in Nat /\ m.revision \in Nat /\ m.checkpoint_generation \in Nat
      /\ m.checkpoint_stream_end_offset \in Nat /\ m.active_delta_generation \in Nat
    BY RecordAssumption
<1>3. NoCrc(m.previous_record_digest) /\ NoCrc(m.checkpoint_record_digest)
    <2>1. m.previous_record_digest[1] = "sha256" /\ m.checkpoint_record_digest[1] = "sha256"
        BY RecordAssumption DEF Digests
    <2> QED BY <2>1 DEF NoCrc, IsCell
<1>4. B[1] = Num(m.room) /\ B[2] = Num(m.revision) /\ B[3] = m.previous_record_digest
      /\ B[4] = Num(m.checkpoint_generation) /\ B[5] = Num(m.checkpoint_stream_end_offset)
      /\ B[6] = m.checkpoint_record_digest /\ B[7] = Num(m.active_delta_generation)
    BY DEF ManifestBody
<1> HIDE DEF B
<1>5. NoCrc(B[1]) /\ NoCrc(B[2]) /\ NoCrc(B[4]) /\ NoCrc(B[5]) /\ NoCrc(B[7])
    BY <1>2, <1>4, CellFacts
<1>6. \A i \in 1 .. Len(B) : NoCrc(B[i])
    BY <1>1, <1>3, <1>4, <1>5
<1>7. NoCrc(D)
    BY CellFacts DEF manifest_digest
<1> HIDE DEF D
<1>8. IsSeq(B)
    BY <1>1
<1>9. IsRecord(Seal("manifest", B, D))
    BY <1>6, <1>7, <1>8, SealIsRecord
<1> QED BY <1>1, <1>9

\* encode, with the kind as a parameter.
EncodeAs(k, r) == CASE k = "frame" -> EncodeFrame(r)
                    [] k = "checkpoint" -> EncodeCheckpoint(r)
                    [] k = "manifest" -> EncodeManifest(r)

\* Whether encode accepts r.
EncodesAs(k, r) == CASE k = "frame" -> FrameEncodes(r)
                     [] k = "checkpoint" -> CheckpointEncodes(r)
                     [] k = "manifest" -> ManifestEncodes(r)

\* What decode finds.
DecodeAs(k, input) == CASE k = "frame" -> DecodeFrame(input)
                        [] k = "checkpoint" -> DecodeCheckpoint(input)
                        [] k = "manifest" -> DecodeManifest(input)

\* What callers try to store.
CandidatesOf(k) == CASE k = "frame" -> Frames
                     [] k = "checkpoint" -> Checkpoints
                     [] k = "manifest" -> Manifests

\* What encode writes is a record, whatever the kind.
LEMMA EncodedIsRecord ==
    ASSUME NEW k \in Kinds, NEW r \in CandidatesOf(k)
    PROVE  IsRecord(EncodeAs(k, r))
<1>1. CASE k = "frame"
    <2>1. r \in Frames /\ EncodeAs(k, r) = EncodeFrame(r)
        BY <1>1 DEF CandidatesOf, EncodeAs
    <2> QED BY <2>1, FrameIsRecord
<1>2. CASE k = "checkpoint"
    <2>1. r \in Checkpoints /\ EncodeAs(k, r) = EncodeCheckpoint(r)
        BY <1>2 DEF CandidatesOf, EncodeAs
    <2> QED BY <2>1, CheckpointIsRecord
<1>3. CASE k = "manifest"
    <2>1. r \in Manifests /\ EncodeAs(k, r) = EncodeManifest(r)
        BY <1>3 DEF CandidatesOf, EncodeAs
    <2> QED BY <2>1, ManifestIsRecord
<1> QED BY <1>1, <1>2, <1>3 DEF Kinds

\* decode gives back what encode wrote.
THEOREM EncodedIsRead ==
    ASSUME NEW k \in Kinds, NEW r \in CandidatesOf(k), EncodesAs(k, r), NEW input,
           Starts(input, EncodeAs(k, r)),
           k = "checkpoint" => Len(input) = Len(EncodeAs(k, r))
    PROVE  DecodeAs(k, input) = {r} /\ Consumed(input) = Len(EncodeAs(k, r))
<1>1. CASE k = "frame"
    <2>1. r \in Frames /\ EncodeAs(k, r) = EncodeFrame(r) /\ FrameEncodes(r)
          /\ DecodeAs(k, input) = DecodeFrame(input)
        BY <1>1 DEF CandidatesOf, EncodeAs, EncodesAs, DecodeAs
    <2> QED BY <2>1, FrameRead
<1>2. CASE k = "checkpoint"
    <2>1. r \in Checkpoints /\ EncodeAs(k, r) = EncodeCheckpoint(r) /\ CheckpointEncodes(r)
          /\ DecodeAs(k, input) = DecodeCheckpoint(input)
        BY <1>2 DEF CandidatesOf, EncodeAs, EncodesAs, DecodeAs
    <2> QED BY <1>2, <2>1, CheckpointRead
<1>3. CASE k = "manifest"
    <2>1. r \in Manifests /\ EncodeAs(k, r) = EncodeManifest(r) /\ ManifestEncodes(r)
          /\ DecodeAs(k, input) = DecodeManifest(input)
        BY <1>3 DEF CandidatesOf, EncodeAs, EncodesAs, DecodeAs
    <2> QED BY <2>1, ManifestRead
<1> QED BY <1>1, <1>2, <1>3 DEF Kinds

\* What decode insists on, whatever the kind.
Checked(input) ==
    /\ Len(input) >= 7
    /\ Number(input[4]) >= 7 /\ Number(input[4]) < Huge /\ Number(input[4]) <= Len(input)
    /\ Number(input[Number(input[4])]) = Number(input[4])
    /\ input[Number(input[4]) - 1] = Crc(SubSeq(input, 1, Number(input[4]) - 2))

\* The checks of a sealed record include these.
LEMMA SealedIsChecked ==
    ASSUME NEW k, NEW input, IsSeq(input), NEW fixed \in Nat, NEW limit \in Nat,
           fixed >= 7, limit < Huge, Sealed(k, input, fixed, limit), Number(input[4]) \in Nat
    PROVE  Checked(input)
<1> DEFINE total == Number(input[4])
           n == Len(input)
<1>1. n \in Nat /\ Huge \in Nat
    BY SeqFacts, HugeFacts
<1>2. /\ n >= fixed /\ total >= fixed /\ total <= limit /\ total <= n
      /\ Number(input[total]) = total
      /\ input[total - 1] = Crc(SubSeq(input, 1, total - 2))
    BY DEF Sealed
<1>3. total \in Nat
    OBVIOUS
<1> HIDE DEF total, n, Huge
<1>4. n >= 7 /\ total >= 7 /\ total < Huge
    BY <1>1, <1>2, <1>3
<1>5. Checked(input)
    BY <1>2, <1>4 DEF Checked, total, n
<1> QED BY <1>5

\* Whatever decode accepts has passed them.
LEMMA DecodedIsChecked ==
    ASSUME NEW k \in Kinds, NEW input, IsSeq(input), \A i \in 1 .. Len(input) : IsCell(input[i]),
           DecodeAs(k, input) # {}
    PROVE  Checked(input)
<1>0. Len(input) \in Nat
    BY SeqFacts
<1>1. PICK fixed \in Nat, limit \in Nat :
            fixed >= 7 /\ limit < Huge /\ Sealed(k, input, fixed, limit)
    <2>0. /\ FrameLimits.max_frame_bytes \in Nat /\ CheckpointLimits.max_record_bytes \in Nat
          /\ ManifestLimits.max_record_bytes \in Nat
        BY RecordAssumption
    <2>4. FIXED_PREFIX + FIXED_SUFFIX = 7 /\ CHECKPOINT_HEADER + FIXED_SUFFIX = 13
          /\ FIXED_RECORD = 14
        BY DEF FIXED_PREFIX, FIXED_SUFFIX, CHECKPOINT_HEADER, FIXED_RECORD
    <2>1. CASE k = "frame"
        <3>1. DecodeFrame(input) # {}
            BY <2>1 DEF DecodeAs
        <3>2. Sealed("frame", input, FIXED_PREFIX + FIXED_SUFFIX, FrameLimits.max_frame_bytes)
            BY <3>1 DEF DecodeFrame
        <3> QED BY <2>0, <2>1, <2>4, <3>2, HugeFacts
    <2>2. CASE k = "checkpoint"
        <3>1. DecodeCheckpoint(input) # {}
            BY <2>2 DEF DecodeAs
        <3>2. Sealed("checkpoint", input, CHECKPOINT_HEADER + FIXED_SUFFIX, CheckpointLimits.max_record_bytes)
            BY <3>1 DEF DecodeCheckpoint
        <3> QED BY <2>0, <2>2, <2>4, <3>2, HugeFacts
    <2>3. CASE k = "manifest"
        <3>1. DecodeManifest(input) # {}
            BY <2>3 DEF DecodeAs
        <3>2. Sealed("manifest", input, FIXED_RECORD, ManifestLimits.max_record_bytes)
            BY <3>1 DEF DecodeManifest
        <3> QED BY <2>0, <2>3, <2>4, <3>2, HugeFacts
    <2> QED BY <2>1, <2>2, <2>3 DEF Kinds
<1>2. 4 \in 1 .. Len(input)
    <2>1. Len(input) >= fixed
        BY <1>1 DEF Sealed
    <2> QED BY <1>0, <1>1, <2>1
<1>3. Number(input[4]) \in Nat
    BY <1>2, HugeFacts
<1> QED BY <1>1, <1>3, SealedIsChecked

\* One wrong cell of a record, other than its length, is noticed.
LEMMA WrongCellNoticed ==
    ASSUME NEW E, IsRecord(E), NEW input, IsSeq(input), Len(input) >= Len(E),
           NEW e \in 1 .. Len(E), e # 4, IsCell(input[e]),
           \A i \in 1 .. Len(E) : i # e => input[i] = E[i],
           Checked(input)
    PROVE  input[e] = E[e]
<1> DEFINE n == Len(E)
<1>1. /\ IsSeq(E) /\ n >= 7 /\ n \in Nat
      /\ E[4] = Num(n) /\ E[n] = Num(n)
      /\ E[n - 1] = Crc(SubSeq(E, 1, n - 2))
    BY SeqFacts DEF IsRecord
<1>2. \A i \in 1 .. n : i # e => input[i] = E[i]
    OBVIOUS
<1>3. e \in 1 .. n /\ n <= Len(input) /\ Len(input) \in Nat
    BY SeqFacts
<1> HIDE DEF n
<1>4. input[4] = Num(n)
    BY <1>1, <1>2
<1>5. Number(input[4]) = n
    BY <1>1, <1>4, CellFacts
<1>6. Number(input[n]) = n /\ n < Huge /\ input[n - 1] = Crc(SubSeq(input, 1, n - 2))
    BY <1>5 DEF Checked
<1> DEFINE q == n - 2
<1>7. q \in Nat /\ q >= 1 /\ q <= Len(input) /\ q <= Len(E) /\ q <= n
    BY <1>1, <1>3 DEF n
<1>q. q = n - 2
    OBVIOUS
<1> HIDE DEF q
<1>8. /\ IsSeq(SubSeq(input, 1, q)) /\ Len(SubSeq(input, 1, q)) = q - 1 + 1
      /\ \A i \in 1 .. q - 1 + 1 : SubSeq(input, 1, q)[i] = input[1 + i - 1]
    BY <1>7, PartSeq
<1>9. /\ IsSeq(SubSeq(E, 1, q)) /\ Len(SubSeq(E, 1, q)) = q - 1 + 1
      /\ \A i \in 1 .. q - 1 + 1 : SubSeq(E, 1, q)[i] = E[1 + i - 1]
    BY <1>1, <1>7, PartSeq
<1>10. q - 1 + 1 = q /\ \A i \in 1 .. q : 1 + i - 1 = i /\ i \in 1 .. n
    BY <1>1, <1>7
<1>11. CASE e = n
    <2>1. IsCell(input[n]) /\ Number(input[n]) # Huge
        <3>1. Huge \in Nat
            BY HugeFacts
        <3> HIDE DEF Huge
        <3> QED BY <1>1, <1>6, <1>11, <3>1
    <2>2. input[n] = Num(Number(input[n]))
        BY <2>1, HugeFacts
    <2> QED BY <1>1, <1>6, <1>11, <2>2
<1>12. CASE e = n - 1
    <2>1. \A i \in 1 .. q : i # e
        BY <1>1, <1>7, <1>12, <1>q
    <2> DEFINE s == SubSeq(input, 1, q)
               t == SubSeq(E, 1, q)
    <2>2. /\ IsSeq(s) /\ Len(s) = q /\ \A i \in 1 .. q : s[i] = input[i]
          /\ IsSeq(t) /\ Len(t) = q /\ \A i \in 1 .. q : t[i] = E[i]
        BY <1>8, <1>9, <1>10
    <2>4. \A i \in 1 .. q : input[i] = E[i]
        BY <1>2, <1>10, <2>1
    <2> HIDE DEF s, t
    <2>5. \A i \in 1 .. Len(s) : s[i] = t[i]
        BY <2>2, <2>4
    <2>6. IsSeq(s) /\ IsSeq(t) /\ Len(s) = Len(t)
        BY <2>2
    <2>7. s = t
        BY <2>5, <2>6, SameSeq
    <2>3. SubSeq(input, 1, q) = SubSeq(E, 1, q)
        BY <2>7 DEF s, t
    <2> QED BY <1>1, <1>6, <1>12, <1>q, <2>3
<1>13. CASE e \in 1 .. q
    <2>1. n - 1 # e /\ n - 1 \in 1 .. n
        BY <1>1, <1>13, <1>q
    <2>2. input[n - 1] = E[n - 1]
        BY <1>2, <2>1
    <2>3. Crc(SubSeq(input, 1, q)) = Crc(SubSeq(E, 1, q))
        BY <1>1, <1>6, <1>q, <2>2
    <2>4. SubSeq(input, 1, q) = SubSeq(E, 1, q)
        BY <2>3, CellFacts
    <2>5. SubSeq(input, 1, q)[e] = input[e] /\ SubSeq(E, 1, q)[e] = E[e]
        BY <1>8, <1>9, <1>10, <1>13
    <2> QED BY <2>4, <2>5
<1>14. e = n \/ e = n - 1 \/ e \in 1 .. q
    BY <1>1, <1>3, <1>q
<1> QED BY <1>11, <1>12, <1>13, <1>14

\* A record that does not end in the input is noticed.
LEMMA ShortRecordNoticed ==
    ASSUME NEW E, IsRecord(E), NEW input, IsSeq(input), Len(input) < Len(E),
           \A i \in 1 .. Len(input) : input[i] = E[i]
    PROVE  ~Checked(input)
<1> SUFFICES ASSUME Checked(input) PROVE FALSE
    OBVIOUS
<1>1. Len(input) \in Nat /\ Len(E) \in Nat /\ Len(input) >= 7 /\ E[4] = Num(Len(E))
    BY SeqFacts DEF Checked, IsRecord
<1>2. 4 \in 1 .. Len(input)
    BY <1>1
<1>3. Number(input[4]) = Len(E)
    BY <1>1, <1>2, CellFacts
<1>4. Len(E) <= Len(input)
    BY <1>3 DEF Checked
<1> QED BY <1>1, <1>4

-----------------------------------------------------------------------------
(* Streams of records *)

\* The lengths of the records of a stream.
Sizes(k, w) == [i \in 1 .. Len(w) |-> Len(EncodeAs(k, w[i]))]

\* Where its nth record ends.
End(k, w, n) == SumTo(Sizes(k, w), n)

\* w is what the appends of a stream can have been.
IsWritten(k, w) ==
    /\ w \in Seq(CandidatesOf(k))
    /\ \A i \in 1 .. Len(w) : EncodesAs(k, w[i])
    /\ k = "checkpoint" => Len(w) <= 1

\* Records end one after the other, each seven cells or more after the one before.
LEMMA EndFacts ==
    ASSUME NEW k \in Kinds, NEW w, IsWritten(k, w)
    PROVE  /\ Sizes(k, w) \in Seq(Nat) /\ Len(Sizes(k, w)) = Len(w) /\ Len(w) \in Nat
           /\ End(k, w, 0) = 0
           /\ \A n \in 0 .. Len(w) : End(k, w, n) \in Nat
           /\ \A n \in 1 .. Len(w) :
                 /\ w[n] \in CandidatesOf(k) /\ IsRecord(EncodeAs(k, w[n]))
                 /\ Len(EncodeAs(k, w[n])) \in Nat /\ Len(EncodeAs(k, w[n])) >= 7
                 /\ n - 1 \in 0 .. Len(w) /\ End(k, w, n - 1) \in Nat
                 /\ End(k, w, n) = End(k, w, n - 1) + Len(EncodeAs(k, w[n]))
           /\ \A m, n \in 0 .. Len(w) : m <= n => End(k, w, m) <= End(k, w, n)
           /\ \A m, n \in 0 .. Len(w) : m < n => End(k, w, m) < End(k, w, n)
           /\ Total(Sizes(k, w)) = End(k, w, Len(w))
<1> DEFINE L == Sizes(k, w)
           S(n) == End(k, w, n)
           sizeOf(n) == Len(EncodeAs(k, w[n]))
<1>1. Len(w) \in Nat /\ \A n \in 1 .. Len(w) : w[n] \in CandidatesOf(k)
    <2> DEFINE C == CandidatesOf(k)
    <2>1. w \in Seq(C)
        BY DEF IsWritten
    <2> HIDE DEF C
    <2>2. Len(w) \in Nat /\ \A n \in 1 .. Len(w) : w[n] \in C
        BY <2>1
    <2> QED BY <2>2 DEF C
<1>2. ASSUME NEW n \in 1 .. Len(w)
      PROVE  IsRecord(EncodeAs(k, w[n])) /\ sizeOf(n) \in Nat /\ sizeOf(n) >= 7
    <2> DEFINE E == EncodeAs(k, w[n])
    <2>1. IsRecord(E)
        BY <1>1, EncodedIsRecord
    <2> HIDE DEF E
    <2>2. Len(E) \in Nat /\ Len(E) >= 7
        BY <2>1, SeqFacts DEF IsRecord
    <2> QED BY <2>1, <2>2 DEF E
<1>3. L \in Seq(Nat) /\ Len(L) = Len(w) /\ \A n \in 1 .. Len(w) : L[n] = sizeOf(n)
    <2>1. L = [n \in 1 .. Len(w) |-> sizeOf(n)]
        BY DEF Sizes
    <2> HIDE DEF sizeOf, L
    <2> QED BY <1>1, <1>2, <2>1
<1> HIDE DEF sizeOf, L
<1>4. /\ SumTo(L, 0) = 0
      /\ \A i \in 0 .. Len(L) : SumTo(L, i) \in Nat
      /\ \A i \in 1 .. Len(L) : SumTo(L, i) = SumTo(L, i - 1) + L[i]
      /\ \A i, j \in 0 .. Len(L) : i <= j => SumTo(L, i) <= SumTo(L, j)
      /\ Total(L) = SumTo(L, Len(L))
    BY <1>3, SumSteps
<1>5. \A n : S(n) = SumTo(L, n)
    BY DEF End, L
<1> HIDE DEF S
<1>6. ASSUME NEW n \in 1 .. Len(w)
      PROVE  n - 1 \in 0 .. Len(w) /\ S(n - 1) \in Nat /\ S(n) = S(n - 1) + sizeOf(n)
    <2>1. n - 1 \in 0 .. Len(w) /\ n \in 1 .. Len(L)
        BY <1>1, <1>3
    <2>2. SumTo(L, n) = SumTo(L, n - 1) + L[n] /\ SumTo(L, n - 1) \in Nat
        BY <1>3, <1>4, <2>1
    <2> QED BY <1>3, <1>5, <2>1, <2>2
<1>7. ASSUME NEW m \in 0 .. Len(w), NEW n \in 0 .. Len(w), m < n
      PROVE  S(m) < S(n)
    <2>1. n \in 1 .. Len(w) /\ m <= n - 1
        BY <1>1, <1>7
    <2>2. n - 1 \in 0 .. Len(w) /\ S(n - 1) \in Nat /\ S(n) = S(n - 1) + sizeOf(n)
        BY <1>6, <2>1
    <2>3. S(m) <= S(n - 1) /\ S(m) \in Nat
        BY <1>3, <1>4, <1>5, <2>1, <2>2
    <2>4. sizeOf(n) \in Nat /\ sizeOf(n) >= 7
        BY <1>2, <2>1
    <2> QED BY <2>2, <2>3, <2>4
<1>8. /\ S(0) = 0 /\ Total(L) = S(Len(w))
      /\ \A n \in 0 .. Len(w) : S(n) \in Nat
      /\ \A m, n \in 0 .. Len(w) : m <= n => S(m) <= S(n)
    BY <1>3, <1>4, <1>5
<1>9. \A m, n \in 0 .. Len(w) : m < n => S(m) < S(n)
    BY <1>7
<1> QED BY <1>1, <1>2, <1>3, <1>6, <1>8, <1>9 DEF S, L, sizeOf

\* s is the stream of the records w.
IsStream(s, k, w) ==
    /\ IsSeq(s) /\ Len(s) = End(k, w, Len(w))
    /\ \A n \in 1 .. Len(w) : \A j \in 1 .. Len(EncodeAs(k, w[n])) :
          s[End(k, w, n - 1) + j] = EncodeAs(k, w[n])[j]

\* The place p is in one of the records.
HasPlace(s, k, w, p) ==
    \E n \in 1 .. Len(w) : \E j \in 1 .. Len(EncodeAs(k, w[n])) :
       p = End(k, w, n - 1) + j /\ s[p] = EncodeAs(k, w[n])[j]

\* Every cell of a stream is a cell of one of its records.
LEMMA StreamPlace ==
    ASSUME NEW k \in Kinds, NEW w, IsWritten(k, w), NEW s, IsStream(s, k, w), NEW p \in 1 .. Len(s)
    PROVE  HasPlace(s, k, w, p)
<1> DEFINE L == Sizes(k, w)
<1>1. /\ L \in Seq(Nat) /\ Len(L) = Len(w) /\ Total(L) = End(k, w, Len(w))
    BY EndFacts
<1>2. \A n \in 1 .. Len(w) : L[n] = Len(EncodeAs(k, w[n]))
    BY DEF Sizes
<1>3. p \in 1 .. Total(L)
    BY <1>1 DEF IsStream
<1>4. \A n : End(k, w, n) = SumTo(L, n)
    BY DEF End
<1> HIDE DEF L
<1>5. PICK n \in 1 .. Len(L) : \E j \in 1 .. L[n] : p = SumTo(L, n - 1) + j
    BY <1>1, <1>3, PlaceInBlock
<1>6. PICK j \in 1 .. L[n] : p = SumTo(L, n - 1) + j
    BY <1>5
<1>7. n \in 1 .. Len(w) /\ j \in 1 .. Len(EncodeAs(k, w[n])) /\ p = End(k, w, n - 1) + j
    BY <1>1, <1>2, <1>4, <1>5, <1>6
<1>8. s[p] = EncodeAs(k, w[n])[j]
    BY <1>7 DEF IsStream
<1> QED BY <1>7, <1>8 DEF HasPlace

\* A stream is made of cells.
LEMMA StreamCells ==
    ASSUME NEW k \in Kinds, NEW w, IsWritten(k, w), NEW s, IsStream(s, k, w)
    PROVE  \A p \in 1 .. Len(s) : IsCell(s[p])
<1> SUFFICES ASSUME NEW p \in 1 .. Len(s) PROVE IsCell(s[p])
    OBVIOUS
<1>0. HasPlace(s, k, w, p)
    BY StreamPlace
<1>1. PICK n \in 1 .. Len(w) : \E j \in 1 .. Len(EncodeAs(k, w[n])) :
              p = End(k, w, n - 1) + j /\ s[p] = EncodeAs(k, w[n])[j]
    BY <1>0 DEF HasPlace
<1>2. PICK j \in 1 .. Len(EncodeAs(k, w[n])) : s[p] = EncodeAs(k, w[n])[j]
    BY <1>1
<1>3. IsRecord(EncodeAs(k, w[n]))
    BY EndFacts
<1>4. IsCell(EncodeAs(k, w[n])[j])
    BY <1>3 DEF IsRecord
<1> QED BY <1>2, <1>4

\* An append adds a record to the stream.
LEMMA StreamAppend ==
    ASSUME NEW k \in Kinds, NEW w, IsWritten(k, w), NEW s, IsStream(s, k, w),
           NEW r \in CandidatesOf(k), EncodesAs(k, r), k = "checkpoint" => Len(w) < 1
    PROVE  /\ IsWritten(k, Append(w, r))
           /\ IsStream(s \o EncodeAs(k, r), k, Append(w, r))
<1> DEFINE v == Append(w, r)
           E == EncodeAs(k, r)
           t == s \o E
           C == CandidatesOf(k)
<1>1. /\ v \in Seq(C) /\ Len(v) = Len(w) + 1 /\ v[Len(w) + 1] = r /\ Len(w) \in Nat
      /\ \A i \in 1 .. Len(w) : v[i] = w[i]
    <2>1. w \in Seq(C) /\ r \in C
        BY DEF IsWritten
    <2> HIDE DEF C
    <2> QED BY <2>1, AppendProperties, LenProperties
<1>2. IsWritten(k, v)
    <2>1. ASSUME NEW i \in 1 .. Len(v) PROVE EncodesAs(k, v[i])
        <3>1. i \in 1 .. Len(w) \/ i = Len(w) + 1
            BY <1>1
        <3>2. CASE i \in 1 .. Len(w)
            BY <1>1, <3>2 DEF IsWritten
        <3>3. CASE i = Len(w) + 1
            BY <1>1, <3>3
        <3> QED BY <3>1, <3>2, <3>3
    <2>2. k = "checkpoint" => Len(v) <= 1
        BY <1>1
    <2> HIDE DEF v
    <2> QED BY <1>1, <2>1, <2>2 DEF IsWritten
<1>3. IsSeq(E) /\ Len(E) \in Nat
    <2>1. IsRecord(E)
        BY EncodedIsRecord
    <2> HIDE DEF E
    <2> QED BY <2>1, SeqFacts DEF IsRecord
<1>4. IsSeq(s) /\ Len(s) = End(k, w, Len(w)) /\ Len(s) \in Nat
    BY SeqFacts DEF IsStream
<1>5. IsPair(t, s, E)
    BY DEF IsPair
<1> HIDE DEF t
<1>6. /\ IsSeq(t) /\ Len(t) = Len(s) + Len(E)
      /\ \A i \in 1 .. Len(s) : t[i] = s[i]
      /\ \A i \in 1 .. Len(E) : t[Len(s) + i] = E[i]
    <2>1. IsSeq(s) /\ IsSeq(E)
        BY <1>3, <1>4
    <2> HIDE DEF E
    <2> QED BY <1>5, <2>1, JoinedPair
<1>7. Sizes(k, v) = Append(Sizes(k, w), Len(E))
    <2> DEFINE L == Sizes(k, w)
               M == Sizes(k, v)
               q == Len(E)
    <2>1. L \in Seq(Nat) /\ Len(L) = Len(w) /\ q \in Nat
        BY <1>3, EndFacts
    <2>2. M \in Seq(Nat) /\ Len(M) = Len(v)
        BY <1>2, EndFacts
    <2>3. \A i \in 1 .. Len(w) : L[i] = Len(EncodeAs(k, w[i]))
        BY DEF Sizes
    <2>4. \A i \in 1 .. Len(v) : M[i] = Len(EncodeAs(k, v[i]))
        BY DEF Sizes
    <2> HIDE DEF L, M, v, q
    <2> DEFINE A == Append(L, q)
    <2>5. A \in Seq(Nat) /\ Len(A) = Len(L) + 1 /\ A[Len(L) + 1] = q
          /\ \A i \in 1 .. Len(L) : A[i] = L[i]
        BY <2>1, AppendProperties
    <2> HIDE DEF A
    <2>6. ASSUME NEW i \in 1 .. Len(M) PROVE M[i] = A[i]
        <3>1. i \in 1 .. Len(w) \/ i = Len(w) + 1
            BY <1>1, <2>2
        <3>2. CASE i \in 1 .. Len(w)
            <4>1. M[i] = Len(EncodeAs(k, w[i]))
                BY <1>1, <2>2, <2>4, <3>2
            <4>2. A[i] = Len(EncodeAs(k, w[i]))
                BY <2>1, <2>3, <2>5, <3>2
            <4> QED BY <4>1, <4>2
        <3>3. CASE i = Len(w) + 1
            <4>1. M[i] = Len(EncodeAs(k, r))
                BY <1>1, <2>2, <2>4, <3>3
            <4>2. A[i] = q
                BY <2>1, <2>5, <3>3
            <4> QED BY <4>1, <4>2 DEF q
        <3> QED BY <3>1, <3>2, <3>3
    <2>7. Len(M) = Len(A)
        BY <1>1, <2>1, <2>2, <2>5
    <2>8. M = A
        BY <2>2, <2>5, <2>6, <2>7, SeqEqual
    <2> QED BY <2>8 DEF M, A, L, q
<1>8. \A n \in 0 .. Len(w) : End(k, v, n) = End(k, w, n)
    <2> DEFINE L == Sizes(k, w)
               q == Len(E)
    <2>1. L \in Seq(Nat) /\ Len(L) = Len(w) /\ q \in Nat
        BY <1>3, EndFacts
    <2>2. \A n : End(k, v, n) = SumTo(Append(L, q), n) /\ End(k, w, n) = SumTo(L, n)
        BY <1>7 DEF End
    <2> HIDE DEF L, q
    <2>3. \A i \in 0 .. Len(L) : SumTo(Append(L, q), i) = SumTo(L, i)
        BY <2>1, SumAppend
    <2> QED BY <2>1, <2>2, <2>3
<1>9. End(k, v, Len(v)) = Len(s) + Len(E)
    <2>1. Len(v) \in 1 .. Len(v) /\ Len(v) - 1 = Len(w) /\ v[Len(v)] = r
        BY <1>1
    <2>2. End(k, v, Len(v)) = End(k, v, Len(v) - 1) + Len(EncodeAs(k, v[Len(v)]))
        <3> DEFINE z == Len(v)
        <3>1. z \in 1 .. Len(v)
            BY <2>1
        <3> HIDE DEF z
        <3>2. End(k, v, z) = End(k, v, z - 1) + Len(EncodeAs(k, v[z]))
            BY <1>2, <3>1, EndFacts
        <3> QED BY <3>2 DEF z
    <2>3. End(k, v, Len(w)) = Len(s)
        <3>1. Len(w) \in 0 .. Len(w)
            BY <1>1
        <3> QED BY <1>4, <1>8, <3>1
    <2> QED BY <2>1, <2>2, <2>3
<1>10. ASSUME NEW n \in 1 .. Len(v), NEW j \in 1 .. Len(EncodeAs(k, v[n]))
       PROVE  t[End(k, v, n - 1) + j] = EncodeAs(k, v[n])[j]
    <2>1. n \in 1 .. Len(w) \/ n = Len(w) + 1
        BY <1>1
    <2>2. CASE n \in 1 .. Len(w)
        <3>1. v[n] = w[n]
            BY <1>1, <2>2
        <3>2. n - 1 \in 0 .. Len(w) /\ n \in 0 .. Len(w) /\ Len(w) \in 0 .. Len(w) /\ n <= Len(w)
            BY <1>1, <2>2
        <3>3. End(k, v, n - 1) = End(k, w, n - 1)
            BY <1>8, <3>2
        <3>4. s[End(k, w, n - 1) + j] = EncodeAs(k, w[n])[j]
            BY <2>2, <3>1 DEF IsStream
        <3>5. End(k, w, n - 1) + j \in 1 .. Len(s)
            <4>1. /\ Len(EncodeAs(k, w[n])) \in Nat /\ End(k, w, n - 1) \in Nat
                  /\ End(k, w, n) = End(k, w, n - 1) + Len(EncodeAs(k, w[n]))
                BY <2>2, EndFacts
            <4>2. End(k, w, n) <= End(k, w, Len(w))
                BY <3>2, EndFacts
            <4>3. j \in 1 .. Len(EncodeAs(k, w[n]))
                BY <3>1
            <4> QED BY <1>4, <4>1, <4>2, <4>3
        <3> QED BY <1>6, <3>1, <3>3, <3>4, <3>5
    <2>3. CASE n = Len(w) + 1
        <3>1. v[n] = r /\ n - 1 = Len(w) /\ Len(w) \in 0 .. Len(w)
            BY <1>1, <2>3
        <3>2. End(k, v, n - 1) = Len(s)
            BY <1>4, <1>8, <3>1
        <3>3. j \in 1 .. Len(E)
            BY <3>1
        <3>4. t[Len(s) + j] = E[j]
            BY <1>6, <3>3
        <3> QED BY <3>1, <3>2, <3>4
    <2> QED BY <2>1, <2>2, <2>3
<1>11. IsStream(t, k, v)
    <2> HIDE DEF v, E
    <2>1. IsSeq(t) /\ Len(t) = End(k, v, Len(v))
        BY <1>6, <1>9
    <2> QED BY <1>10, <2>1 DEF IsStream
<1> QED BY <1>2, <1>11 DEF v, t, E

\* input is what is left of b after its first P cells.
IsRest(input, b, P) ==
    IsSeq(input) /\ Len(input) = Len(b) - P /\ \A i \in 1 .. Len(input) : input[i] = b[P + i]

\* Before the first record everything is left.
LEMMA RestOfAll ==
    ASSUME NEW b, IsSeq(b)
    PROVE  IsRest(b, b, 0)
<1>1. Len(b) \in Nat
    BY SeqFacts
<1>2. \A i \in 1 .. Len(b) : 0 + i = i
    BY <1>1
<1>3. Len(b) = Len(b) - 0
    BY <1>1
<1> QED BY <1>2, <1>3 DEF IsRest

\* Dropping m cells of what is left.
LEMMA RestOfRest ==
    ASSUME NEW b, IsSeq(b), NEW P \in Nat, NEW input, IsRest(input, b, P),
           NEW m \in Nat, m <= Len(input)
    PROVE  IsRest(SubSeq(input, m + 1, Len(input)), b, P + m)
<1> DEFINE n == Len(input)
           a == m + 1
           t == SubSeq(input, a, n)
<1>1. IsSeq(input) /\ n = Len(b) - P /\ \A i \in 1 .. n : input[i] = b[P + i]
    BY DEF IsRest
<1>2. n \in Nat /\ Len(b) \in Nat
    BY <1>1, SeqFacts
<1>3. n = Len(input) /\ m <= n
    OBVIOUS
<1> HIDE DEF n
<1>4. a \in Nat /\ a >= 1 /\ a <= n + 1 /\ n <= Len(input) /\ a = m + 1
    BY <1>2, <1>3
<1> HIDE DEF a
<1>5. /\ IsSeq(SubSeq(input, a, n)) /\ Len(SubSeq(input, a, n)) = n - a + 1
      /\ \A i \in 1 .. n - a + 1 : SubSeq(input, a, n)[i] = input[a + i - 1]
    BY <1>1, <1>2, <1>4, PartSeq
<1> HIDE DEF t
<1>6. IsSeq(t) /\ Len(t) = n - m /\ \A i \in 1 .. n - m : t[i] = input[a + i - 1]
    <2>1. n - a + 1 = n - m
        BY <1>2, <1>4
    <2> QED BY <1>5, <2>1 DEF t
<1>7. ASSUME NEW i \in 1 .. n - m PROVE t[i] = b[P + m + i]
    <2>1. a + i - 1 \in 1 .. n /\ P + (a + i - 1) = P + m + i
        BY <1>2, <1>3, <1>4
    <2>2. input[a + i - 1] = b[P + (a + i - 1)]
        BY <1>1, <2>1
    <2> QED BY <1>6, <2>1, <2>2
<1>8. Len(t) = Len(b) - (P + m)
    BY <1>1, <1>2, <1>6
<1>9. IsRest(t, b, P + m)
    BY <1>6, <1>7, <1>8 DEF IsRest
<1> QED BY <1>9 DEF t, a, n

\* A wrong length sends the reader to a checksum that is not there: the only one of
\* that many cells is the record's own.
LEMMA WrongLengthNoticed ==
    ASSUME NEW k \in Kinds, NEW w, IsWritten(k, w), NEW s, IsStream(s, k, w),
           NEW n \in 1 .. Len(w), NEW P, P = End(k, w, n - 1),
           NEW b, IsSeq(b), Len(b) = Len(s), IsCell(b[P + 4]),
           \A i \in 1 .. Len(s) : i # P + 4 => b[i] = s[i],
           NEW input, IsRest(input, b, P), Checked(input)
    PROVE  b[P + 4] = s[P + 4]
<1> DEFINE t == Number(input[4])
           E == EncodeAs(k, w[n])
<1>1. IsSeq(input) /\ Len(input) = Len(b) - P /\ \A i \in 1 .. Len(input) : input[i] = b[P + i]
    BY DEF IsRest
<1>2. Len(input) \in Nat /\ Len(b) \in Nat /\ P \in Nat
    <2>1. End(k, w, n - 1) \in Nat
        BY EndFacts
    <2> QED BY <1>1, <2>1, SeqFacts
<1>3. /\ Len(input) >= 7 /\ t >= 7 /\ t < Huge /\ t <= Len(input)
      /\ input[t - 1] = Crc(SubSeq(input, 1, t - 2))
    BY DEF Checked
<1>4. 4 \in 1 .. Len(input)
    BY <1>2, <1>3
<1>5. input[4] = b[P + 4]
    BY <1>1, <1>4
<1>6. t \in Nat /\ b[P + 4] = Num(t)
    <2>1. Huge \in Nat /\ t \in Nat /\ (b[P + 4] = Num(t) \/ t = Huge)
        BY <1>5, HugeFacts
    <2> HIDE DEF t, Huge
    <2> QED BY <1>3, <2>1
<1> HIDE DEF t
<1>a. t \in Nat /\ t >= 7 /\ t <= Len(input)
    BY <1>3, <1>6
<1>b. Len(input) = Len(b) - P /\ Len(b) = Len(s)
    BY <1>1
<1>7. t - 1 \in 1 .. Len(input) /\ P + (t - 1) \in 1 .. Len(s) /\ P + (t - 1) # P + 4
    BY <1>2, <1>a, <1>b, SMTT(30)
<1> DEFINE p == P + (t - 1)
<1>8. p \in 1 .. Len(s) /\ s[p] = Crc(SubSeq(input, 1, t - 2))
    <2>1. b[p] = s[p]
        BY <1>7
    <2>2. input[t - 1] = b[p]
        BY <1>1, <1>7
    <2> QED BY <1>3, <1>7, <2>1, <2>2
<1>p. p = P + (t - 1)
    OBVIOUS
<1> HIDE DEF p
<1>9. HasPlace(s, k, w, p)
    BY <1>8, StreamPlace
<1>10. PICK m \in 1 .. Len(w) : \E j \in 1 .. Len(EncodeAs(k, w[m])) :
              p = End(k, w, m - 1) + j /\ s[p] = EncodeAs(k, w[m])[j]
    BY <1>9 DEF HasPlace
<1> DEFINE F == EncodeAs(k, w[m])
<1>11. PICK j \in 1 .. Len(F) : p = End(k, w, m - 1) + j /\ s[p] = F[j]
    BY <1>10
<1>12. IsRecord(F) /\ Len(F) \in Nat /\ Len(F) >= 7 /\ End(k, w, m - 1) \in Nat
    BY EndFacts
<1>f. F = EncodeAs(k, w[m])
    OBVIOUS
<1> HIDE DEF F
<1>13. F[j][1] = "crc32"
    BY <1>8, <1>11, CellFacts
<1>14. j = Len(F) - 1
    BY <1>12, <1>13 DEF IsRecord
<1>15. F[j] = Crc(SubSeq(F, 1, Len(F) - 2)) /\ IsSeq(F)
    BY <1>12, <1>14 DEF IsRecord
<1>16. SubSeq(F, 1, Len(F) - 2) = SubSeq(input, 1, t - 2)
    BY <1>8, <1>11, <1>15, CellFacts
<1>17. t = Len(F)
    <2> DEFINE h == Len(F)
               l == Len(input)
               x == h - 2
               y == t - 2
    <2>1. x \in Nat /\ x >= 1 /\ x <= Len(F) /\ y \in Nat /\ y >= 1 /\ y <= Len(input)
          /\ 1 <= x + 1 /\ 1 <= y + 1
        <3>1. h \in Nat /\ h >= 7
            BY <1>12
        <3>2. l \in Nat /\ t \in Nat /\ t >= 7 /\ t <= l
            BY <1>2, <1>a
        <3> HIDE DEF h, l
        <3>3. x \in Nat /\ x >= 1 /\ x <= h /\ 1 <= x + 1
            BY <3>1
        <3>4. y \in Nat /\ y >= 1 /\ y <= l /\ 1 <= y + 1
            BY <3>2
        <3> QED BY <3>3, <3>4 DEF h, l
    <2>2. SubSeq(F, 1, x) = SubSeq(input, 1, y)
        BY <1>16
    <2>5. x = Len(F) - 2 /\ y = t - 2
        OBVIOUS
    <2> HIDE DEF x, y
    <2>3. Len(SubSeq(F, 1, x)) = x - 1 + 1
        BY <1>15, <2>1, PartSeq
    <2>4. Len(SubSeq(input, 1, y)) = y - 1 + 1
        BY <1>1, <2>1, PartSeq
    <2>6. x = y
        BY <2>1, <2>2, <2>3, <2>4
    <2> QED BY <1>6, <1>12, <2>5, <2>6
<1>18. End(k, w, m - 1) = P
    <2> DEFINE x == End(k, w, m - 1)
               y == Len(F)
    <2>1. x \in Nat /\ y \in Nat /\ p = x + j /\ j = y - 1 /\ t = y
        <3>1. x \in Nat /\ y \in Nat
            BY <1>12
        <3>2. p = x + j
            BY <1>11
        <3> QED BY <1>14, <1>17, <3>1, <3>2
    <2> HIDE DEF x, y
    <2>3. x \in Nat /\ P \in Nat /\ t \in Nat
        BY <1>2, <1>a, <2>1
    <2>4. x + (t - 1) = P + (t - 1)
        BY <1>p, <2>1
    <2> HIDE DEF t
    <2>2. x = P
        BY <2>3, <2>4, SMTT(30)
    <2> QED BY <2>2 DEF x
<1>19. m = n
    <2> DEFINE x == m - 1
               y == n - 1
    <2>1. Len(w) \in Nat
        BY EndFacts
    <2>2. x \in 0 .. Len(w) /\ y \in 0 .. Len(w) /\ (x < y \/ y < x \/ x = y) /\ (x = y => m = n)
        BY <2>1
    <2>3. End(k, w, x) = P /\ End(k, w, y) = P
        BY <1>18
    <2> HIDE DEF x, y
    <2>4. \A a, c \in 0 .. Len(w) : a < c => End(k, w, a) < End(k, w, c)
        BY EndFacts
    <2>5. ~(x < y) /\ ~(y < x)
        BY <1>2, <2>2, <2>3, <2>4
    <2> QED BY <2>2, <2>5
<1>20. s[P + 4] = F[4]
    <2>1. 4 \in 1 .. Len(F)
        BY <1>12
    <2>2. \A i \in 1 .. Len(EncodeAs(k, w[n])) : s[End(k, w, n - 1) + i] = EncodeAs(k, w[n])[i]
        BY DEF IsStream
    <2> QED BY <1>19, <1>f, <2>1, <2>2
<1>21. F[4] = Num(t)
    BY <1>12, <1>17 DEF IsRecord
<1> QED BY <1>6, <1>20, <1>21

\* A record whose cells are as they were written is read.
LEMMA IntactIsRead ==
    ASSUME NEW k \in Kinds, NEW w, IsWritten(k, w), NEW s, IsStream(s, k, w),
           NEW n \in 1 .. Len(w), NEW P, P = End(k, w, n - 1),
           NEW b, IsSeq(b), Len(b) <= Len(s), End(k, w, n) <= Len(b),
           \A i \in 1 .. End(k, w, n) : b[i] = s[i],
           NEW input, IsRest(input, b, P)
    PROVE  /\ DecodeAs(k, input) = {w[n]} /\ Consumed(input) = Len(EncodeAs(k, w[n]))
           /\ Len(EncodeAs(k, w[n])) <= Len(input)
<1> DEFINE E == EncodeAs(k, w[n])
           Q == End(k, w, n)
<1>1. IsSeq(input) /\ Len(input) = Len(b) - P /\ \A i \in 1 .. Len(input) : input[i] = b[P + i]
    BY DEF IsRest
<1>2. /\ w[n] \in CandidatesOf(k) /\ IsRecord(E) /\ Len(E) \in Nat /\ Len(E) >= 7
      /\ P \in Nat /\ Q = P + Len(E) /\ Len(w) \in Nat
    BY EndFacts
<1>3. Len(b) \in Nat /\ Len(s) \in Nat /\ Len(s) = End(k, w, Len(w))
    BY SeqFacts DEF IsStream
<1>4. \A i \in 1 .. Len(E) : s[P + i] = E[i]
    BY DEF IsStream
<1>5. Q <= Len(b) /\ \A i \in 1 .. Q : b[i] = s[i]
    OBVIOUS
<1>6. EncodesAs(k, w[n]) /\ (k = "checkpoint" => Len(w) <= 1)
    BY DEF IsWritten
<1>e. E = EncodeAs(k, w[n]) /\ Q = End(k, w, n)
    OBVIOUS
<1> HIDE DEF E, Q
<1>7. Len(E) <= Len(input)
    BY <1>1, <1>2, <1>3, <1>5
<1>8. ASSUME NEW i \in 1 .. Len(E) PROVE input[i] = E[i]
    <2>1. i \in 1 .. Len(input) /\ P + i \in 1 .. Q
        BY <1>1, <1>2, <1>3, <1>7, SMTT(30)
    <2> QED BY <1>1, <1>4, <1>5, <2>1
<1>9. Starts(input, E)
    BY <1>1, <1>7, <1>8 DEF Starts
<1>10. ASSUME k = "checkpoint" PROVE Len(input) = Len(E)
    <2>1. n = Len(w)
        BY <1>2, <1>6, <1>10
    <2>2. Len(s) = Q
        BY <1>3, <1>e, <2>1
    <2> QED BY <1>1, <1>2, <1>3, <1>5, <1>7, <2>2
<1>11. DecodeAs(k, input) = {w[n]} /\ Consumed(input) = Len(E)
    <2>1. Starts(input, EncodeAs(k, w[n])) /\ (k = "checkpoint" => Len(input) = Len(EncodeAs(k, w[n])))
        BY <1>9, <1>10, <1>e
    <2>2. DecodeAs(k, input) = {w[n]} /\ Consumed(input) = Len(EncodeAs(k, w[n]))
        BY <1>2, <1>6, <2>1, EncodedIsRead
    <2> QED BY <2>2, <1>e
<1> QED BY <1>7, <1>11, <1>e

\* At most one cell of b is not that of s.
OneWrong(b, s) ==
    \/ \A i \in 1 .. Len(b) : b[i] = s[i]
    \/ Len(b) = Len(s) /\ \E d \in 1 .. Len(s) : \A i \in 1 .. Len(s) : i # d => b[i] = s[i]

\* What is decoded is the next record that was written, and it is undamaged.
LEMMA NextIsWritten ==
    ASSUME NEW k \in Kinds, NEW w, IsWritten(k, w), NEW s, IsStream(s, k, w),
           NEW n \in 0 .. Len(w), NEW P, P = End(k, w, n),
           NEW b, IsSeq(b), Len(b) <= Len(s), P <= Len(b), OneWrong(b, s),
           \A i \in 1 .. Len(b) : IsCell(b[i]),
           \A i \in 1 .. P : b[i] = s[i],
           NEW input, IsRest(input, b, P), DecodeAs(k, input) # {}
    PROVE  /\ n + 1 \in 1 .. Len(w)
           /\ End(k, w, n + 1) <= Len(b)
           /\ \A i \in 1 .. End(k, w, n + 1) : b[i] = s[i]
<1> DEFINE m == n + 1
           E == EncodeAs(k, w[m])
           Q == End(k, w, m)
<1>1. IsSeq(input) /\ Len(input) = Len(b) - P /\ \A i \in 1 .. Len(input) : input[i] = b[P + i]
    BY DEF IsRest
<1>2. Len(b) \in Nat /\ Len(s) \in Nat /\ Len(s) = End(k, w, Len(w)) /\ P \in Nat /\ Len(w) \in Nat
      /\ Len(input) \in Nat
    <2>1. End(k, w, n) \in Nat /\ Len(w) \in Nat
        BY EndFacts
    <2> QED BY <1>1, <2>1, SeqFacts DEF IsStream
<1>3. \A i \in 1 .. Len(input) : IsCell(input[i])
    <2> SUFFICES ASSUME NEW i \in 1 .. Len(input) PROVE IsCell(input[i])
        OBVIOUS
    <2>1. P + i \in 1 .. Len(b)
        BY <1>1, <1>2
    <2> QED BY <1>1, <2>1
<1>4. Checked(input)
    BY <1>1, <1>3, DecodedIsChecked
<1>5. Len(input) >= 7
    BY <1>4 DEF Checked
<1>6. m \in 1 .. Len(w)
    <2>1. n # Len(w)
        BY <1>1, <1>2, <1>5
    <2> QED BY <1>2, <2>1
<1>7. /\ IsRecord(E) /\ Len(E) \in Nat /\ Len(E) >= 7
      /\ Q = P + Len(E) /\ Q <= Len(s)
    <2> DEFINE z == Len(w)
    <2>1. m - 1 = n /\ m \in 0 .. z /\ z \in 0 .. z /\ m <= z
        BY <1>2, <1>6
    <2>3. m \in 1 .. Len(w)
        BY <1>6
    <2> HIDE DEF m, z
    <2>2. /\ IsRecord(EncodeAs(k, w[m])) /\ Len(EncodeAs(k, w[m])) \in Nat /\ Len(EncodeAs(k, w[m])) >= 7
          /\ End(k, w, m) = End(k, w, m - 1) + Len(EncodeAs(k, w[m]))
        BY <2>3, EndFacts
    <2>4. End(k, w, m) <= End(k, w, z)
        BY <2>1, EndFacts DEF z
    <2> QED BY <1>2, <2>1, <2>2, <2>4 DEF z
<1>8. \A i \in 1 .. Len(E) : s[P + i] = E[i]
    <2>1. m - 1 = n
        BY <1>2
    <2>2. \A i \in 1 .. Len(EncodeAs(k, w[m])) : s[End(k, w, m - 1) + i] = EncodeAs(k, w[m])[i]
        BY <1>6 DEF IsStream
    <2> QED BY <2>1, <2>2
<1>9. \A i \in 1 .. P : b[i] = s[i]
    OBVIOUS
<1>e. E = EncodeAs(k, w[m]) /\ Q = End(k, w, m)
    OBVIOUS
<1> HIDE DEF E, Q
<1>10. Q <= Len(b) /\ \A i \in 1 .. Q : b[i] = s[i]
    <2>1. CASE \A i \in 1 .. Len(b) : b[i] = s[i]
        <3>1. Q <= Len(b)
            <4> SUFFICES ASSUME ~(Q <= Len(b)) PROVE FALSE
                OBVIOUS
            <4>1. Len(input) < Len(E)
                BY <1>1, <1>2, <1>7
            <4>2. ASSUME NEW i \in 1 .. Len(input) PROVE input[i] = E[i]
                <5>1. P + i \in 1 .. Len(b) /\ i \in 1 .. Len(E)
                    BY <1>1, <1>2, <1>7, <4>1, SMTT(30)
                <5> QED BY <1>1, <1>8, <2>1, <5>1
            <4>3. ~Checked(input)
                BY <1>1, <1>7, <4>1, <4>2, ShortRecordNoticed
            <4> QED BY <1>4, <4>3
        <3>2. \A i \in 1 .. Q : i \in 1 .. Len(b)
            BY <1>2, <1>7, <3>1
        <3> QED BY <2>1, <3>1, <3>2
    <2>2. CASE Len(b) = Len(s) /\ \E d \in 1 .. Len(s) : \A i \in 1 .. Len(s) : i # d => b[i] = s[i]
        <3>1. PICK d \in 1 .. Len(s) : \A i \in 1 .. Len(s) : i # d => b[i] = s[i]
            BY <2>2
        <3>2. Q <= Len(b) /\ \A i \in 1 .. Q : i \in 1 .. Len(s)
            BY <1>2, <1>7, <2>2
        <3>3. CASE ~(d \in P + 1 .. Q)
            <4> SUFFICES ASSUME NEW i \in 1 .. Q PROVE b[i] = s[i]
                BY <3>2
            <4>1. i \in 1 .. P \/ i # d
                BY <1>2, <1>7, <3>3
            <4> QED BY <1>9, <3>1, <3>2, <4>1
        <3>4. CASE d \in P + 1 .. Q
            <4> DEFINE e == d - P
            <4>1. e \in 1 .. Len(E) /\ P + e = d
                BY <1>2, <1>7, <3>4
            <4> HIDE DEF e
            <4>2. IsCell(b[d])
                BY <1>2, <2>2
            <4>3. b[d] = s[d]
                <5>1. CASE e = 4
                    <6>1. d = P + 4 /\ IsCell(b[P + 4]) /\ Len(b) = Len(s)
                        BY <2>2, <4>1, <4>2, <5>1
                    <6>2. \A i \in 1 .. Len(s) : i # P + 4 => b[i] = s[i]
                        BY <3>1, <6>1
                    <6>3. m \in 1 .. Len(w) /\ P = End(k, w, m - 1)
                        <7>1. m - 1 = n
                            BY <1>2
                        <7> QED BY <1>6, <7>1
                    <6> HIDE DEF m
                    <6>4. b[P + 4] = s[P + 4]
                        BY <1>4, <6>1, <6>2, <6>3, WrongLengthNoticed
                    <6> QED BY <6>1, <6>4
                <5>2. CASE e # 4
                    <6>1. Len(input) >= Len(E)
                        BY <1>1, <1>2, <1>7, <2>2
                    <6>2. \A i \in 1 .. Len(E) : i \in 1 .. Len(input) /\ P + i \in 1 .. Len(s)
                        BY <1>2, <1>7, <6>1
                    <6>3. ASSUME NEW i \in 1 .. Len(E), i # e PROVE input[i] = E[i]
                        <7>1. input[i] = b[P + i] /\ s[P + i] = E[i] /\ P + i \in 1 .. Len(s)
                            BY <1>1, <1>8, <6>2
                        <7>2. P + i # d
                            BY <1>2, <4>1, <6>3
                        <7> QED BY <3>1, <7>1, <7>2
                    <6>4. input[e] = b[d] /\ s[d] = E[e] /\ IsCell(input[e])
                        BY <1>1, <1>8, <4>1, <4>2, <6>2
                    <6>5. IsSeq(input) /\ Checked(input) /\ IsRecord(E) /\ e \in 1 .. Len(E) /\ e # 4
                        BY <1>1, <1>4, <1>7, <4>1, <5>2
                    <6>6. IsCell(input[e]) /\ \A i \in 1 .. Len(E) : i # e => input[i] = E[i]
                        BY <6>3, <6>4
                    <6>7. input[e] = E[e]
                        BY <6>1, <6>5, <6>6, WrongCellNoticed
                    <6> QED BY <6>4, <6>7
                <5> QED BY <5>1, <5>2
            <4> QED BY <3>1, <3>2, <4>3
        <3> QED BY <3>3, <3>4
    <2> QED BY <2>1, <2>2 DEF OneWrong
<1> QED BY <1>6, <1>10, <1>e

-----------------------------------------------------------------------------
(* The inductive invariant of the stored streams *)

\* The first n of w.
IsFirst(t, w, n) == IsSeq(t) /\ Len(t) = n /\ \A i \in 1 .. n : t[i] = w[i]

\* The first none.
LEMMA FirstNone ==
    ASSUME NEW w
    PROVE  IsFirst(<<>>, w, 0)
BY ShortSeqs DEF IsFirst

\* One more.
LEMMA FirstAndNext ==
    ASSUME NEW w, NEW n \in Nat, NEW t, IsFirst(t, w, n)
    PROVE  IsFirst(Append(t, w[n + 1]), w, n + 1)
<1> DEFINE x == w[n + 1]
           u == Append(t, x)
<1>1. IsSeq(t) /\ Len(t) = n /\ \A i \in 1 .. n : t[i] = w[i]
    BY DEF IsFirst
<1>2. PICK S : t \in Seq(S)
    BY <1>1 DEF IsSeq
<1> DEFINE T == S \cup {x}
<1>3. t \in Seq(T) /\ x \in T
    BY <1>2, SeqMonotonic
<1>x. x = w[n + 1]
    OBVIOUS
<1> HIDE DEF T, x
<1>4. /\ u \in Seq(T) /\ Len(u) = n + 1 /\ u[n + 1] = x
      /\ \A i \in 1 .. n : u[i] = t[i]
    BY <1>1, <1>3, AppendProperties
<1> HIDE DEF u
<1>5. ASSUME NEW i \in 1 .. n + 1 PROVE u[i] = w[i]
    <2>1. i \in 1 .. n \/ i = n + 1
        OBVIOUS
    <2> QED BY <1>1, <1>4, <1>x, <2>1
<1>6. IsFirst(u, w, n + 1)
    BY <1>4, <1>5 DEF IsFirst, IsSeq
<1> QED BY <1>6 DEF u, x

\* The first n are a prefix, and the first Len(w) are all.
LEMMA FirstIsPrefix ==
    ASSUME NEW w, IsSeq(w), NEW n \in 0 .. Len(w), NEW t, IsFirst(t, w, n)
    PROVE  IsPrefix(t, w) /\ (n = Len(w) => t = w)
<1>1. IsSeq(t) /\ Len(t) = n /\ \A i \in 1 .. n : t[i] = w[i]
    BY DEF IsFirst
<1>2. Len(w) \in Nat /\ n \in Nat /\ n <= Len(w) /\ 1 <= n + 1
    BY SeqFacts
<1> DEFINE a == SubSeq(t, 1, n)
           c == SubSeq(w, 1, n)
<1>3. /\ IsSeq(a) /\ Len(a) = n - 1 + 1
      /\ \A i \in 1 .. n - 1 + 1 : a[i] = t[1 + i - 1]
    BY <1>1, <1>2, PartSeq
<1>4. /\ IsSeq(c) /\ Len(c) = n - 1 + 1
      /\ \A i \in 1 .. n - 1 + 1 : c[i] = w[1 + i - 1]
    BY <1>2, PartSeq
<1>5. n - 1 + 1 = n /\ \A i \in 1 .. n : 1 + i - 1 = i
    BY <1>2
<1>h. a = SubSeq(t, 1, n) /\ c = SubSeq(w, 1, n)
    OBVIOUS
<1> HIDE DEF a, c
<1>6. IsSeq(a) /\ IsSeq(c) /\ Len(a) = Len(c) /\ \A i \in 1 .. Len(a) : a[i] = c[i]
    BY <1>1, <1>3, <1>4, <1>5
<1>7. a = c
    BY <1>6, SameSeq
<1>8. IsPrefix(t, w)
    BY <1>1, <1>2, <1>7, <1>h DEF IsPrefix
<1>9. ASSUME n = Len(w) PROVE t = w
    BY <1>1, <1>9, SameSeq
<1> QED BY <1>8, <1>9

\* The limit of a stream, with the kind as a parameter.
LimitOf(k) == CASE k = "frame" -> FrameLimits.max_stream_bytes
                [] k = "checkpoint" -> CheckpointLimits.max_record_bytes
                [] k = "manifest" -> ManifestLimits.max_stream_bytes

\* b is what is left of the stream s.
Stored(s, k, w, b, f) ==
    /\ IsStream(s, k, w) /\ Len(b) <= Len(s) /\ OneWrong(b, s)
    /\ f = "none" => b = s
    /\ f = "damaged" => \E d \in 1 .. Len(b) : b[d] # s[d]

\* The reader has decoded the first n records.
Reached(n, s, k, w, b, r, fd) ==
    /\ End(k, w, n) <= Len(b) /\ \A i \in 1 .. End(k, w, n) : b[i] = s[i]
    /\ IsRest(r, b, End(k, w, n)) /\ IsFirst(fd, w, n)

\* The state of the stream and its reader.  There is a stream s of the records written
\* from which at most one cell of what the reader is given differs, and the reader, which
\* has stopped at the end of a record, has decoded all the records before it, intact.
StreamState(k, w, b, f, r, fd, v) ==
    /\ k \in Kinds /\ IsWritten(k, w)
    /\ IsSeq(b) /\ \A i \in 1 .. Len(b) : IsCell(b[i])
    /\ v = "writing" => fd = <<>>
    /\ \E s : /\ Stored(s, k, w, b, f)
              /\ v \in {"reading", "read"} =>
                    \E n \in 0 .. Len(w) : Reached(n, s, k, w, b, r, fd)
    /\ v = "read" => r = <<>>
    /\ v = "refused" /\ f = "none" =>
          \/ Len(b) > LimitOf(k)
          \/ k = "manifest" /\ Len(w) > ManifestLimits.max_records
          \/ k = "checkpoint" /\ w = <<>>

\* The inductive invariant of the stored streams.
RecordInv == StreamState(kind, written, bytes, fault, rest, found, verdict)

\* The operators of Records are those with the kind as a parameter.
LEMMA AsKind ==
    /\ \A r : Encode(r) = EncodeAs(kind, r) /\ Encodes(r) = EncodesAs(kind, r)
              /\ Decode(r) = DecodeAs(kind, r)
    /\ Candidates = CandidatesOf(kind) /\ StreamLimit = LimitOf(kind)
BY DEF Encode, EncodeAs, Encodes, EncodesAs, Decode, DecodeAs, Candidates, CandidatesOf,
       StreamLimit, LimitOf

\* It holds before anything is written.
LEMMA RecordInvInit == RecordsInit => RecordInv
<1> SUFFICES ASSUME RecordsInit PROVE RecordInv
    OBVIOUS
<1>1. kind \in Kinds /\ written = <<>> /\ bytes = <<>> /\ fault = "none" /\ found = <<>>
      /\ verdict = "writing"
    BY DEF RecordsInit
<1>2. IsSeq(<<>>) /\ Len(<<>>) = 0 /\ 1 .. 0 = {}
    BY ShortSeqs
<1>3. IsWritten(kind, <<>>)
    <2>1. <<>> \in Seq(CandidatesOf(kind))
        BY EmptySeq
    <2> QED BY <1>2, <2>1 DEF IsWritten
<1>4. IsStream(<<>>, kind, <<>>)
    <2>1. End(kind, <<>>, 0) = 0
        BY <1>1, <1>3, EndFacts
    <2> QED BY <1>2, <2>1 DEF IsStream
<1>5. Stored(<<>>, kind, <<>>, <<>>, "none")
    BY <1>2, <1>4 DEF Stored, OneWrong
<1> QED BY <1>1, <1>2, <1>3, <1>5 DEF RecordInv, StreamState

\* One append.
LEMMA RecordInvWrite ==
    ASSUME RecordInv, NEW x \in Candidates, Write(x)
    PROVE  RecordInv'
<1> DEFINE k == kind
           w == written
           E == EncodeAs(k, x)
<1>1. /\ k \in Kinds /\ IsWritten(k, w) /\ found = <<>> /\ fault = "none" /\ verdict = "writing"
    BY DEF RecordInv, StreamState, Write
<1>2. PICK s : Stored(s, k, w, bytes, fault)
    BY DEF RecordInv, StreamState
<1>3. IsStream(s, k, w) /\ bytes = s
    BY <1>1, <1>2 DEF Stored
<1>4. x \in CandidatesOf(k) /\ EncodesAs(k, x) /\ (k = "checkpoint" => Len(w) < 1)
    BY AsKind DEF Write
<1>5. /\ kind' = k /\ written' = Append(w, x) /\ bytes' = s \o E /\ fault' = "none"
      /\ found' = <<>> /\ verdict' = "writing"
    BY <1>1, <1>3, AsKind DEF Write
<1> HIDE DEF k, w, E
<1>6. IsWritten(k, Append(w, x)) /\ IsStream(s \o E, k, Append(w, x))
    BY <1>1, <1>3, <1>4, StreamAppend DEF E
<1> DEFINE t == s \o E
           v == Append(w, x)
<1>7. IsWritten(k, v) /\ IsStream(t, k, v) /\ written' = v /\ bytes' = t
    BY <1>5, <1>6
<1> HIDE DEF t, v
<1>8. IsSeq(t) /\ Len(t) \in Nat
    BY <1>7, SeqFacts DEF IsStream
<1>9. \A i \in 1 .. Len(t) : IsCell(t[i])
    BY <1>1, <1>7, StreamCells
<1>10. Stored(t, k, v, t, "none")
    BY <1>7, <1>8 DEF Stored, OneWrong
<1>11. StreamState(k, v, t, "none", rest', <<>>, "writing")
    BY <1>1, <1>7, <1>8, <1>9, <1>10 DEF StreamState
<1> QED BY <1>5, <1>7, <1>11 DEF RecordInv

\* A cell is changed.
LEMMA RecordInvDamage ==
    ASSUME RecordInv, NEW d \in DOMAIN bytes, Damage(d)
    PROVE  RecordInv'
<1> DEFINE k == kind
           w == written
           b == bytes
<1>1. /\ k \in Kinds /\ IsWritten(k, w) /\ found = <<>> /\ fault = "none" /\ verdict = "writing"
      /\ IsSeq(b) /\ \A i \in 1 .. Len(b) : IsCell(b[i])
    BY DEF RecordInv, StreamState, Damage
<1>2. PICK s : Stored(s, k, w, b, fault)
    BY DEF RecordInv, StreamState
<1>3. IsStream(s, k, w) /\ b = s
    BY <1>1, <1>2 DEF Stored
<1>4. PICK cell \in ({Num(n) : n \in Wrong} \cup ToSet(b)) \ {b[d]} :
          bytes' = [b EXCEPT ![d] = cell]
    BY DEF Damage
<1>5. kind' = k /\ written' = w /\ fault' = "damaged" /\ found' = <<>> /\ verdict' = "writing"
    BY <1>1 DEF Damage
<1>6. DOMAIN b = 1 .. Len(b) /\ Len(b) \in Nat
    BY <1>1, SeqFacts
<1>7. IsCell(cell) /\ cell # b[d]
    <2>1. CASE cell \in {Num(n) : n \in Wrong}
        <3>1. PICK n \in Nat : cell = Num(n)
            BY <2>1, RecordAssumption
        <3> QED BY <1>4, <3>1, CellFacts DEF NoCrc
    <2>2. CASE cell \in ToSet(b)
        BY <1>1, <1>4, <1>6, <2>2 DEF ToSet
    <2> QED BY <1>4, <2>1, <2>2
<1> DEFINE c == [b EXCEPT ![d] = cell]
<1>9. d \in 1 .. Len(b)
    BY <1>6
<1>8. IsSeq(c) /\ Len(c) = Len(b) /\ c[d] = cell /\ \A i \in 1 .. Len(b) : i # d => c[i] = b[i]
    <2>1. PICK S : b \in Seq(S)
        BY <1>1 DEF IsSeq
    <2> DEFINE T == S \cup {cell}
    <2>2. b \in Seq(T) /\ cell \in T
        BY <2>1, SeqMonotonic
    <2> HIDE DEF T
    <2>3. c \in Seq(T) /\ Len(c) = Len(b)
        BY <1>9, <2>2, ExceptSeq
    <2>4. c[d] = cell /\ \A i \in 1 .. Len(b) : i # d => c[i] = b[i]
        BY <1>6
    <2> HIDE DEF c
    <2> QED BY <2>3, <2>4 DEF IsSeq
<1>10. bytes' = c
    BY <1>4
<1> HIDE DEF k, w, b, c
<1>11. \A i \in 1 .. Len(c) : IsCell(c[i])
    BY <1>1, <1>7, <1>8
<1>12. Stored(s, k, w, c, "damaged")
    <2>1. Len(c) = Len(s) /\ Len(c) \in Nat /\ d \in 1 .. Len(s) /\ d \in 1 .. Len(c)
        BY <1>3, <1>6, <1>8, <1>9
    <2>2. \A i \in 1 .. Len(s) : i # d => c[i] = s[i]
        BY <1>3, <1>8
    <2>3. c[d] # s[d]
        BY <1>3, <1>7, <1>8
    <2> QED BY <1>3, <2>1, <2>2, <2>3 DEF Stored, OneWrong
<1>13. StreamState(k, w, c, "damaged", rest', <<>>, "writing")
    BY <1>1, <1>8, <1>11, <1>12 DEF StreamState
<1> QED BY <1>5, <1>10, <1>13 DEF RecordInv

\* The end is lost.
LEMMA RecordInvTear ==
    ASSUME RecordInv, NEW d \in DOMAIN bytes, Tear(d - 1)
    PROVE  RecordInv'
<1> DEFINE k == kind
           w == written
           b == bytes
           n == d - 1
           c == SubSeq(b, 1, n)
<1>1. /\ k \in Kinds /\ IsWritten(k, w) /\ found = <<>> /\ fault = "none" /\ verdict = "writing"
      /\ IsSeq(b) /\ \A i \in 1 .. Len(b) : IsCell(b[i])
    BY DEF RecordInv, StreamState, Tear
<1>2. PICK s : Stored(s, k, w, b, fault)
    BY DEF RecordInv, StreamState
<1>3. IsStream(s, k, w) /\ b = s
    BY <1>1, <1>2 DEF Stored
<1>4. kind' = k /\ written' = w /\ fault' = "torn" /\ found' = <<>> /\ verdict' = "writing"
      /\ bytes' = c
    BY <1>1 DEF Tear
<1>5. DOMAIN b = 1 .. Len(b) /\ Len(b) \in Nat
    BY <1>1, SeqFacts
<1>6. n \in Nat /\ n <= Len(b) /\ 1 <= n + 1
    BY <1>5
<1> HIDE DEF n, b
<1>7. /\ IsSeq(c) /\ Len(c) = n - 1 + 1
      /\ \A i \in 1 .. n - 1 + 1 : c[i] = b[1 + i - 1]
    BY <1>1, <1>6, PartSeq
<1>8. n - 1 + 1 = n /\ \A i \in 1 .. n : 1 + i - 1 = i /\ i \in 1 .. Len(b)
    BY <1>5, <1>6
<1> HIDE DEF c, k, w
<1>9. Len(c) = n /\ \A i \in 1 .. n : c[i] = b[i]
    BY <1>7, <1>8
<1>10. \A i \in 1 .. Len(c) : IsCell(c[i])
    BY <1>1, <1>8, <1>9
<1>11. Stored(s, k, w, c, "torn")
    <2>1. Len(c) <= Len(s) /\ \A i \in 1 .. Len(c) : c[i] = s[i]
        BY <1>3, <1>6, <1>9
    <2> QED BY <1>3, <2>1 DEF Stored, OneWrong
<1>12. StreamState(k, w, c, "torn", rest', <<>>, "writing")
    BY <1>1, <1>7, <1>10, <1>11 DEF StreamState
<1> QED BY <1>4, <1>12 DEF RecordInv

\* The reader is given the stream.
LEMMA RecordInvBegin ==
    ASSUME RecordInv, BeginRead
    PROVE  RecordInv'
<1> DEFINE k == kind
           w == written
           b == bytes
           f == fault
<1>1. /\ k \in Kinds /\ IsWritten(k, w) /\ found = <<>> /\ verdict = "writing"
      /\ IsSeq(b) /\ \A i \in 1 .. Len(b) : IsCell(b[i])
    BY DEF RecordInv, StreamState, BeginRead
<1>2. PICK s : Stored(s, k, w, b, f)
    BY DEF RecordInv, StreamState
<1>3. /\ kind' = k /\ written' = w /\ bytes' = b /\ fault' = f /\ found' = <<>> /\ rest' = b
      /\ verdict' = IF Len(b) <= LimitOf(k) THEN "reading" ELSE "refused"
    BY <1>1, AsKind DEF BeginRead
<1>4. Len(b) \in Nat
    BY <1>1, SeqFacts
<1> HIDE DEF k, w, b, f
<1>5. LimitOf(k) \in Nat
    BY <1>1, RecordAssumption DEF LimitOf, Kinds
<1>6. 0 \in 0 .. Len(w) /\ End(k, w, 0) = 0
    <2>1. Len(w) \in Nat /\ End(k, w, 0) = 0
        BY <1>1, EndFacts
    <2> QED BY <2>1
<1>7. Reached(0, s, k, w, b, b, <<>>)
    <2>1. IsRest(b, b, 0) /\ IsFirst(<<>>, w, 0)
        BY <1>1, RestOfAll, FirstNone
    <2>2. 0 <= Len(b) /\ 1 .. 0 = {}
        BY <1>4
    <2> QED BY <1>6, <2>1, <2>2 DEF Reached
<1>8. CASE Len(b) <= LimitOf(k)
    <2>1. StreamState(k, w, b, f, b, <<>>, "reading")
        BY <1>1, <1>2, <1>6, <1>7 DEF StreamState
    <2> QED BY <1>3, <1>8, <2>1 DEF RecordInv
<1>9. CASE ~(Len(b) <= LimitOf(k))
    <2>1. Len(b) > LimitOf(k)
        BY <1>4, <1>5, <1>9
    <2>2. StreamState(k, w, b, f, b, <<>>, "refused")
        BY <1>1, <1>2, <2>1 DEF StreamState
    <2> QED BY <1>3, <1>9, <2>2 DEF RecordInv
<1> QED BY <1>8, <1>9

\* One round of the reader.
LEMMA RecordInvDecode ==
    ASSUME RecordInv, DecodeNext
    PROVE  RecordInv'
<1> DEFINE k == kind
           w == written
           b == bytes
           f == fault
           input == rest
           fd == found
<1>1. /\ k \in Kinds /\ IsWritten(k, w) /\ verdict = "reading"
      /\ IsSeq(b) /\ \A i \in 1 .. Len(b) : IsCell(b[i])
    BY DEF RecordInv, StreamState, DecodeNext
<1>2. PICK s : Stored(s, k, w, b, f) /\ \E n \in 0 .. Len(w) : Reached(n, s, k, w, b, input, fd)
    BY <1>1 DEF RecordInv, StreamState
<1>3. PICK n \in 0 .. Len(w) : Reached(n, s, k, w, b, input, fd)
    BY <1>2
<1>4. kind' = k /\ written' = w /\ bytes' = b /\ fault' = f
    BY DEF DecodeNext
<1>5. \/ /\ input = <<>>
         /\ verdict' = "read" /\ rest' = input /\ found' = fd
      \/ /\ ~(input = <<>> /\ (k = "checkpoint" => fd # <<>>))
         /\ (k = "manifest" /\ ~(Len(fd) < ManifestLimits.max_records)) \/ DecodeAs(k, input) = {}
         /\ verdict' = "refused" /\ rest' = input /\ found' = fd
      \/ /\ \E r \in DecodeAs(k, input) : found' = Append(fd, r)
         /\ rest' = SubSeq(input, Consumed(input) + 1, Len(input))
         /\ verdict' = "reading"
    BY <1>1, AsKind DEF DecodeNext, MayDecode
<1> HIDE DEF k, w, b, f, input, fd
<1>6. /\ IsStream(s, k, w) /\ Len(b) <= Len(s) /\ OneWrong(b, s)
      /\ f = "none" => b = s
    BY <1>2 DEF Stored
<1> DEFINE P == End(k, w, n)
<1>7. /\ P <= Len(b) /\ \A i \in 1 .. P : b[i] = s[i]
      /\ IsRest(input, b, P) /\ IsFirst(fd, w, n)
    BY <1>3 DEF Reached
<1>8. P \in Nat /\ Len(w) \in Nat /\ n \in Nat /\ Len(b) \in Nat /\ Len(input) \in Nat /\ IsSeq(input)
      /\ Len(input) = Len(b) - P /\ Len(s) = End(k, w, Len(w))
    <2>1. P \in Nat /\ Len(w) \in Nat
        BY <1>1, EndFacts
    <2>2. Len(b) \in Nat /\ Len(s) = End(k, w, Len(w))
        BY <1>1, <1>6, SeqFacts DEF IsStream
    <2>3. IsSeq(input) /\ Len(input) = Len(b) - P
        BY <1>7 DEF IsRest
    <2>4. Len(input) \in Nat
        BY <2>3, SeqFacts
    <2> QED BY <2>1, <2>2, <2>3, <2>4
<1>P. P = End(k, w, n)
    OBVIOUS
<1> HIDE DEF P
<1> DEFINE m == n + 1
<1>9. n < Len(w) => /\ m \in 1 .. Len(w) /\ m - 1 = n /\ m \in 0 .. Len(w)
    BY <1>8
<1>m. m = n + 1
    OBVIOUS
<1> HIDE DEF m
<1>10. CASE /\ input = <<>>
            /\ verdict' = "read" /\ rest' = input /\ found' = fd
    <2>1. StreamState(k, w, b, f, input, fd, "read")
        BY <1>1, <1>2, <1>10 DEF StreamState
    <2> QED BY <1>4, <1>10, <2>1 DEF RecordInv
<1>11. CASE /\ ~(input = <<>> /\ (k = "checkpoint" => fd # <<>>))
            /\ (k = "manifest" /\ ~(Len(fd) < ManifestLimits.max_records)) \/ DecodeAs(k, input) = {}
            /\ verdict' = "refused" /\ rest' = input /\ found' = fd
    <2>1. ASSUME f = "none"
          PROVE  \/ k = "manifest" /\ Len(w) > ManifestLimits.max_records
                 \/ k = "checkpoint" /\ w = <<>>
        <3>1. b = s /\ Len(b) = End(k, w, Len(w))
            BY <1>6, <1>8, <2>1
        <3>2. CASE n = Len(w)
            <4>1. Len(input) = 0
                <5>1. Len(b) = P
                    BY <1>P, <3>1, <3>2
                <5> QED BY <1>8, <5>1
            <4>2. input = <<>>
                <5>1. PICK S : input \in Seq(S)
                    BY <1>8 DEF IsSeq
                <5> QED BY <4>1, <5>1, EmptySeq
            <4>3. k = "checkpoint" /\ fd = <<>>
                BY <1>11, <4>2
            <4>4. n = 0
                BY <1>7, <4>3, ShortSeqs DEF IsFirst
            <4>5. w = <<>>
                <5>1. w \in Seq(CandidatesOf(k)) /\ Len(w) = 0
                    BY <1>1, <3>2, <4>4 DEF IsWritten
                <5> QED BY <5>1, EmptySeq
            <4> QED BY <4>3, <4>5
        <3>3. CASE n < Len(w)
            <4>1. m \in 1 .. Len(w) /\ m - 1 = n /\ m \in 0 .. Len(w)
                BY <1>9, <3>3
            <4>2. End(k, w, m) <= Len(b)
                <5>1. Len(w) \in 0 .. Len(w) /\ m <= Len(w)
                    BY <1>8, <4>1
                <5>2. End(k, w, m) <= End(k, w, Len(w))
                    BY <1>1, <4>1, <5>1, EndFacts
                <5> QED BY <3>1, <5>2
            <4>3. \A i \in 1 .. End(k, w, m) : b[i] = s[i]
                BY <3>1
            <4>4. P = End(k, w, m - 1)
                BY <1>P, <4>1
            <4>5. DecodeAs(k, input) = {w[m]}
                <5>1. /\ m \in 1 .. Len(w) /\ End(k, w, m) <= Len(b)
                      /\ \A i \in 1 .. End(k, w, m) : b[i] = s[i]
                    BY <4>1, <4>2, <4>3
                <5>2. /\ DecodeAs(k, input) = {w[m]} /\ Consumed(input) = Len(EncodeAs(k, w[m]))
                      /\ Len(EncodeAs(k, w[m])) <= Len(input)
                    BY <1>1, <1>6, <1>7, <4>4, <5>1, IntactIsRead
                <5> QED BY <5>2
            <4>6. k = "manifest" /\ ~(Len(fd) < ManifestLimits.max_records)
                BY <1>11, <4>5
            <4>7. Len(fd) = n /\ ManifestLimits.max_records \in Nat
                BY <1>7, RecordAssumption DEF IsFirst
            <4> QED BY <1>8, <3>3, <4>6, <4>7
        <3>4. n = Len(w) \/ n < Len(w)
            BY <1>8
        <3> QED BY <3>2, <3>3, <3>4
    <2>2. StreamState(k, w, b, f, input, fd, "refused")
        BY <1>1, <1>2, <2>1 DEF StreamState
    <2> QED BY <1>4, <1>11, <2>2 DEF RecordInv
<1>12. CASE /\ \E r \in DecodeAs(k, input) : found' = Append(fd, r)
            /\ rest' = SubSeq(input, Consumed(input) + 1, Len(input))
            /\ verdict' = "reading"
    <2>1. DecodeAs(k, input) # {}
        BY <1>12
    <2>2. /\ n + 1 \in 1 .. Len(w) /\ End(k, w, n + 1) <= Len(b)
          /\ \A i \in 1 .. End(k, w, n + 1) : b[i] = s[i]
        BY <1>1, <1>3, <1>6, <1>7, <1>P, <2>1, NextIsWritten
    <2>3. /\ m \in 1 .. Len(w) /\ End(k, w, m) <= Len(b)
          /\ \A i \in 1 .. End(k, w, m) : b[i] = s[i]
        BY <1>m, <2>2
    <2>4. m - 1 = n /\ P = End(k, w, m - 1) /\ m \in 0 .. Len(w)
        BY <1>8, <1>m, <1>P, <2>3
    <2> DEFINE q == Len(EncodeAs(k, w[m]))
    <2>5. DecodeAs(k, input) = {w[m]} /\ Consumed(input) = q /\ q <= Len(input)
        BY <1>1, <1>6, <1>7, <2>3, <2>4, IntactIsRead
    <2>6. q \in Nat /\ End(k, w, m) = P + q
        BY <1>1, <2>3, <2>4, EndFacts
    <2> HIDE DEF q
    <2>7. found' = Append(fd, w[m]) /\ rest' = SubSeq(input, q + 1, Len(input))
        BY <1>12, <2>5
    <2> DEFINE r == SubSeq(input, q + 1, Len(input))
    <2>8. IsRest(r, b, End(k, w, m))
        BY <1>1, <1>7, <1>8, <2>5, <2>6, RestOfRest
    <2> HIDE DEF r
    <2>9. IsFirst(Append(fd, w[m]), w, m)
        BY <1>7, <1>8, <1>m, FirstAndNext
    <2>10. Reached(m, s, k, w, b, r, Append(fd, w[m]))
        BY <2>3, <2>8, <2>9 DEF Reached
    <2>11. StreamState(k, w, b, f, r, Append(fd, w[m]), "reading")
        BY <1>1, <1>2, <2>4, <2>10 DEF StreamState
    <2>12. rest' = r
        BY <2>7 DEF r
    <2> QED BY <1>4, <1>12, <2>7, <2>11, <2>12 DEF RecordInv
<1> QED BY <1>5, <1>10, <1>11, <1>12

\* RecordInv implies AcceptedIsWhatWasWritten.
LEMMA RecordInvAccepted == RecordInv => AcceptedIsWhatWasWritten
<1> SUFFICES ASSUME RecordInv, verdict = "read"
             PROVE  /\ fault # "damaged" /\ IsPrefix(found, written)
                    /\ fault = "none" => found = written
    BY DEF AcceptedIsWhatWasWritten
<1> DEFINE k == kind
           w == written
           b == bytes
<1>1. k \in Kinds /\ IsWritten(k, w) /\ IsSeq(b) /\ rest = <<>>
    BY DEF RecordInv, StreamState
<1>2. PICK s : Stored(s, k, w, b, fault) /\ \E n \in 0 .. Len(w) : Reached(n, s, k, w, b, rest, found)
    BY DEF RecordInv, StreamState
<1>3. PICK n \in 0 .. Len(w) : Reached(n, s, k, w, b, rest, found)
    BY <1>2
<1> HIDE DEF k, w, b
<1> DEFINE P == End(k, w, n)
<1>4. /\ P <= Len(b) /\ \A i \in 1 .. P : b[i] = s[i]
      /\ IsRest(rest, b, P) /\ IsFirst(found, w, n)
    BY <1>3 DEF Reached
<1>5. Len(b) \in Nat /\ P \in Nat /\ Len(w) \in Nat /\ IsSeq(w)
    <2>1. P \in Nat /\ Len(w) \in Nat
        BY <1>1, EndFacts
    <2>2. IsSeq(w)
        BY <1>1 DEF IsWritten, IsSeq
    <2> QED BY <1>1, <2>1, <2>2, SeqFacts
<1>6. Len(b) = P
    <2>1. 0 = Len(b) - P
        BY <1>1, <1>4, ShortSeqs DEF IsRest
    <2> HIDE DEF P
    <2> QED BY <1>5, <2>1
<1>7. fault # "damaged"
    BY <1>2, <1>4, <1>6 DEF Stored
<1>8. IsPrefix(found, w) /\ (n = Len(w) => found = w)
    BY <1>4, <1>5, FirstIsPrefix
<1>9. ASSUME fault = "none" PROVE found = w
    <2>1. End(k, w, n) = End(k, w, Len(w))
        BY <1>2, <1>6, <1>9 DEF Stored, IsStream
    <2>2. n \in 0 .. Len(w) /\ Len(w) \in 0 .. Len(w)
        BY <1>5
    <2>3. n < Len(w) => End(k, w, n) < End(k, w, Len(w))
        BY <1>1, <2>2, EndFacts
    <2>4. n = Len(w)
        BY <1>5, <2>1, <2>2, <2>3
    <2> QED BY <1>8, <2>4
<1> QED BY <1>7, <1>8, <1>9 DEF w

\* RecordInv implies WrittenIsReadable.
LEMMA RecordInvReadable == RecordInv => WrittenIsReadable
BY AsKind DEF RecordInv, StreamState, WrittenIsReadable

\* Every step keeps it.
LEMMA RecordInvNext ==
    RecordInv /\ [Next]_<<recordVars, readerVars>> => RecordInv'
<1> SUFFICES ASSUME RecordInv, [Next]_<<recordVars, readerVars>> PROVE RecordInv'
    OBVIOUS
<1>1. CASE RecordsNext
    <2>1. CASE \E r \in Candidates : Write(r)
        BY <2>1, RecordInvWrite
    <2>2. CASE \E i \in DOMAIN bytes : Damage(i)
        BY <2>2, RecordInvDamage
    <2>3. CASE \E i \in DOMAIN bytes : Tear(i - 1)
        BY <2>3, RecordInvTear
    <2>4. CASE BeginRead
        BY <2>4, RecordInvBegin
    <2>5. CASE DecodeNext
        BY <2>5, RecordInvDecode
    <2> QED BY <1>1, <2>1, <2>2, <2>3, <2>4, <2>5 DEF RecordsNext
<1>2. CASE UNCHANGED recordVars
    BY <1>2 DEF recordVars, RecordInv
<1> QED BY <1>1, <1>2 DEF Next

\* RecordInv holds in every state.
LEMMA RecordInvHolds == Spec => []RecordInv
<1>1. Init => RecordInv
    BY RecordInvInit DEF Init
<1> QED BY <1>1, RecordInvNext, PTL DEF Spec

\* AcceptedIsWhatWasWritten: what FrameCodec, CheckpointCodec and ManifestCodec decode from a
\* stored stream is the records that were appended, in order, as far as the stream goes; a
\* stream with a damaged field is refused, and an intact one is read to its end.
THEOREM AcceptedIsWhatWasWrittenHolds == Spec => []AcceptedIsWhatWasWritten
BY RecordInvHolds, RecordInvAccepted, PTL

\* WrittenIsReadable: a stream that encode and the append limits let a process write is
\* within the limits a process reads it with.
THEOREM WrittenIsReadableHolds == Spec => []WrittenIsReadable
BY RecordInvHolds, RecordInvReadable, PTL
=============================================================================
