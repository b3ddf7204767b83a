----------------------------- MODULE FoldProofs -----------------------------
(***************************************************************************)
(* Induction on numbers and on finite sets, in terms of sets instead of    *)
(* predicates, and what MapThenFoldSet of the community modules computes.  *)
(***************************************************************************)
EXTENDS FiniteSetsExt, FiniteSetTheorems, TLAPS

\* A set of numbers that is not empty has a least member.
LEMMA LeastMember ==
    ASSUME NEW S, S \subseteq Nat, S # {}
    PROVE  \E n \in S : \A m \in S : n <= m
  <1> DEFINE R == OpToRel(<, Nat)
  <1>1. IsWellFoundedOn(R, Nat)
    BY NatLessThanWellFounded
  <1>2. \A x, y \in S : y < x => <<y, x>> \in R
    BY DEF OpToRel
  <1> HIDE DEF R
  <1>3. PICK x \in S : \A y \in S : <<y, x>> \notin R
    BY <1>1, WFMin
  <1>4. \A y \in S : ~(y < x)
    BY <1>2, <1>3
  <1>5. \A y \in S : x <= y
    BY <1>4
  <1> QED BY <1>5

\* Induction on numbers.
LEMMA NumberInduction ==
    ASSUME NEW S, 0 \in S, \A n \in Nat : n \in S => n + 1 \in S
    PROVE  Nat \subseteq S
  <1> SUFFICES ASSUME Nat \ S # {} PROVE FALSE
    OBVIOUS
  <1>1. PICK n \in Nat \ S : \A m \in Nat \ S : n <= m
    BY LeastMember
  <1>2. n # 0 /\ n - 1 \in Nat /\ n - 1 \in S
    BY <1>1
  <1> QED BY <1>1, <1>2

\* What holds of a finite set whenever it holds of all its strict subsets, holds
\* of every finite set.
LEMMA SubsetInduction ==
    ASSUME NEW S, IsFiniteSet(S), NEW U,
           \A T \in SUBSET S : (\A R \in SUBSET T : R # T => R \in U) => T \in U
    PROVE  \A T \in SUBSET S : T \in U
  <1> SUFFICES ASSUME NEW T \in SUBSET S, T \notin U PROVE FALSE
    OBVIOUS
  <1> DEFINE Bad == {R \in SUBSET S : R \notin U}
             sizes == {Cardinality(R) : R \in Bad}
  <1>1. \A R \in SUBSET S : IsFiniteSet(R) /\ Cardinality(R) \in Nat
    BY FS_Subset, FS_CardinalityType
  <1>2. sizes \subseteq Nat /\ sizes # {}
    BY <1>1
  <1>3. PICK n \in sizes : \A m \in sizes : n <= m
    <2> HIDE DEF sizes
    <2> QED BY <1>2, LeastMember
  <1>4. PICK B \in Bad : n = Cardinality(B)
    OBVIOUS
  <1>5. PICK R \in SUBSET B : R # B /\ R \notin U
    BY <1>4
  <1>6. R \in Bad
    BY <1>5
  <1>7. Cardinality(R) < Cardinality(B)
    BY <1>1, <1>5, FS_Subset
  <1>8. Cardinality(B) <= Cardinality(R)
    BY <1>3, <1>4, <1>6
  <1> QED BY <1>1, <1>6, <1>7, <1>8

\* What holds of the empty set, and survives the addition of a member, holds of
\* every subset of a finite set.
LEMMA MemberInduction ==
    ASSUME NEW S, IsFiniteSet(S), NEW U, {} \in U,
           \A T \in SUBSET S : \A x \in S \ T : T \in U => T \cup {x} \in U
    PROVE  \A T \in SUBSET S : T \in U
  <1>1. ASSUME NEW T \in SUBSET S, \A R \in SUBSET T : R # T => R \in U
        PROVE  T \in U
    <2>1. CASE T = {}
      BY <2>1
    <2>2. CASE T # {}
      <3>1. PICK x \in T : TRUE
        BY <2>2
      <3>2. T \ {x} \in U /\ T \ {x} \in SUBSET S /\ x \in S \ (T \ {x})
        BY <1>1, <3>1
      <3>3. (T \ {x}) \cup {x} = T
        BY <3>1
      <3> QED BY <3>2, <3>3
    <2> QED BY <2>1, <2>2
  <1> QED BY <1>1, SubsetInduction

\* A finite set that is not empty has a member with the greatest value.
LEMMA GreatestValue ==
    ASSUME NEW S, IsFiniteSet(S), S # {}, NEW f, \A x \in S : f[x] \in Nat
    PROVE  \E x \in S : \A y \in S : f[y] <= f[x]
  <1> DEFINE U == {T \in SUBSET S : T # {} => \E x \in T : \A y \in T : f[y] <= f[x]}
  <1>1. {} \in U
    OBVIOUS
  <1>2. ASSUME NEW T \in SUBSET S, NEW z \in S \ T, T \in U
        PROVE  T \cup {z} \in U
    <2>1. CASE T = {}
      BY <2>1
    <2>2. CASE T # {}
      <3>1. PICK x \in T : \A y \in T : f[y] <= f[x]
        BY <1>2, <2>2
      <3>2. f[x] \in Nat /\ f[z] \in Nat
        OBVIOUS
      <3>3. CASE f[z] <= f[x]
        BY <3>1, <3>3
      <3>4. CASE f[x] < f[z]
        <4>1. \A y \in T \cup {z} : f[y] <= f[z]
          BY <3>1, <3>2, <3>4
        <4> QED BY <4>1
      <3> QED BY <3>2, <3>3, <3>4
    <2> QED BY <2>1, <2>2
  <1> HIDE DEF U
  <1>3. S \in U
    BY <1>1, <1>2, MemberInduction
  <1> QED BY <1>3 DEF U

-----------------------------------------------------------------------------
\* pick names a member of every set that is not empty.
Picks(pick, S) == \A s \in SUBSET S : s # {} => pick[s] \in s

\* iter[s] is computed from one member of s and iter of the others.
IsFold(iter, S, base, pick, step) ==
    \A s \in SUBSET S :
        iter[s] = IF s = {} THEN base ELSE step[<<pick[s], iter[s \ {pick[s]}]>>]

\* A function that is defined by recursion on the subsets of a finite set exists.
LEMMA FoldExists ==
    ASSUME NEW S, IsFiniteSet(S), NEW V, NEW base \in V,
           NEW pick, Picks(pick, S), NEW step \in [S \X V -> V]
    PROVE  \E iter \in [SUBSET S -> V] : IsFold(iter, S, base, pick, step)
  <1> DEFINE Sub(n) == {s \in SUBSET S : Cardinality(s) <= n}
             Fits(g, n) == \A s \in Sub(n) :
                 g[s] = IF s = {} THEN base ELSE step[<<pick[s], g[s \ {pick[s]}]>>]
             Done == {n \in Nat : \E g \in [Sub(n) -> V] : Fits(g, n)}
  <1>1. \A s \in SUBSET S : IsFiniteSet(s) /\ Cardinality(s) \in Nat
    BY FS_Subset, FS_CardinalityType
  <1>2. 0 \in Done
    <2> DEFINE g == [s \in Sub(0) |-> base]
    <2>1. \A s \in Sub(0) : s = {}
      BY <1>1, FS_EmptySet
    <2>2. g \in [Sub(0) -> V]
      OBVIOUS
    <2>3. Fits(g, 0)
      BY <2>1
    <2> QED BY <2>2, <2>3
  <1>3. ASSUME NEW n \in Nat, n \in Done PROVE n + 1 \in Done
    <2>1. PICK g \in [Sub(n) -> V] : Fits(g, n)
      BY <1>3
    <2> DEFINE h == [s \in Sub(n + 1) |->
                       IF s = {} THEN base ELSE step[<<pick[s], g[s \ {pick[s]}]>>]]
    <2>2. ASSUME NEW s \in Sub(n + 1), s # {}
          PROVE  pick[s] \in S /\ s \ {pick[s]} \in Sub(n) /\ s \ {pick[s]} \in Sub(n + 1)
      <3>1. pick[s] \in s /\ s \ {pick[s]} \in SUBSET S
        BY <2>2 DEF Picks
      <3>2. Cardinality(s \ {pick[s]}) = Cardinality(s) - 1
        BY <1>1, <3>1, FS_RemoveElement
      <3> QED BY <1>1, <3>1, <3>2
    <2>3. \A s \in Sub(n) : s \in Sub(n + 1) /\ h[s] = g[s]
      BY <1>1, <2>1
    <2> HIDE DEF Sub
    <2>4. h \in [Sub(n + 1) -> V]
      <3>1. \A s \in Sub(n + 1) : s # {} => step[<<pick[s], g[s \ {pick[s]}]>>] \in V
        BY <2>2
      <3> QED BY <3>1
    <2>5. Fits(h, n + 1)
      BY <2>2, <2>3
    <2> HIDE DEF h
    <2>6. n + 1 \in Nat
      OBVIOUS
    <2> QED BY <2>4, <2>5, <2>6, Zenon
  <1>4. Cardinality(S) \in Done
    <2> HIDE DEF Done
    <2>1. Nat \subseteq Done
      BY <1>2, <1>3, NumberInduction
    <2> QED BY <1>1, <2>1
  <1>5. PICK iter \in [Sub(Cardinality(S)) -> V] : Fits(iter, Cardinality(S))
    BY <1>4
  <1>6. Sub(Cardinality(S)) = SUBSET S
    BY FS_Subset
  <1> HIDE DEF Sub
  <1> QED BY <1>5, <1>6 DEF IsFold

\* c and g are equal on a set if they are equal on all but the picked member.
SameRecursion(c, g, S, pick) ==
    /\ c[{}] = g[{}]
    /\ \A s \in SUBSET S :
          s # {} /\ c[s \ {pick[s]}] = g[s \ {pick[s]}] => c[s] = g[s]

\* Two functions that are defined by the same recursion are equal.
LEMMA FoldUnique ==
    ASSUME NEW S, IsFiniteSet(S), NEW pick, Picks(pick, S),
           NEW c, NEW g, SameRecursion(c, g, S, pick)
    PROVE  \A s \in SUBSET S : c[s] = g[s]
  <1> DEFINE U == {s \in SUBSET S : c[s] = g[s]}
  <1>1. ASSUME NEW T \in SUBSET S, \A R \in SUBSET T : R # T => R \in U
        PROVE  T \in U
    <2>1. CASE T = {}
      BY <2>1 DEF SameRecursion
    <2>2. CASE T # {}
      <3>1. pick[T] \in T /\ T \ {pick[T]} \in SUBSET T /\ T \ {pick[T]} # T
        BY <2>2 DEF Picks
      <3>2. T \ {pick[T]} \in U
        BY <1>1, <3>1
      <3> QED BY <2>2, <3>2 DEF SameRecursion
    <2> QED BY <2>1, <2>2
  <1>2. \A T \in SUBSET S : T \in U
    <2> HIDE DEF U
    <2> QED BY <1>1, SubsetInduction, SMTT(40)
  <1> QED BY <1>2

-----------------------------------------------------------------------------
\* The greatest member of a set of positions.
LEMMA MaxMember ==
    ASSUME NEW n \in Nat, NEW s \in SUBSET (1 .. n), s # {}
    PROVE  Max(s) \in s /\ \A y \in s : y <= Max(s)
  <1> DEFINE f == [x \in s |-> x]
  <1>1. IsFiniteSet(s)
    <2>1. IsFiniteSet(1 .. n)
      BY FS_Interval
    <2> QED BY <2>1, FS_Subset
  <1>2. \A x \in s : f[x] = x /\ f[x] \in Nat
    OBVIOUS
  <1> HIDE DEF f
  <1>3. \E x \in s : \A y \in s : f[y] <= f[x]
    BY <1>1, <1>2, GreatestValue
  <1>4. \E x \in s : \A y \in s : x >= y
    BY <1>2, <1>3
  <1>5. Max(s) \in s /\ \A y \in s : Max(s) >= y
    BY <1>4, Zenon DEF Max
  <1> QED BY <1>5

\* The last position.
LEMMA MaxInterval ==
    ASSUME NEW n \in Nat, NEW k \in 1 .. n
    PROVE  /\ Max(1 .. k) = k /\ (1 .. k) \ {k} = 1 .. k - 1
           /\ 1 .. k \in SUBSET (1 .. n) /\ 1 .. k # {}
  <1>1. 1 .. k \in SUBSET (1 .. n) /\ k \in 1 .. k
    OBVIOUS
  <1>2. Max(1 .. k) \in 1 .. k /\ \A y \in 1 .. k : y <= Max(1 .. k)
    BY <1>1, MaxMember
  <1>3. Max(1 .. k) = k
    BY <1>1, <1>2
  <1> QED BY <1>1, <1>3

\* c is computed from the last position of a set and c of the others, as long as
\* the values stay in V.
Follows(c, V, base, step, n) ==
    /\ c[{}] = base
    /\ \A s \in SUBSET (1 .. n) : s # {} /\ c[s \ {Max(s)}] \in V =>
          c[s] = step[<<c[s \ {Max(s)}], Max(s)>>]

\* The values that a loop over the positions 1 to n goes through.
IsRun(run, V, base, step, n) ==
    /\ run \in [0 .. n -> V] /\ run[0] = base
    /\ \A k \in 1 .. n : run[k] = step[<<run[k - 1], k>>]

\* The body of a loop over the positions 1 to n, with values in V.
IsStep(step, V, n) == step \in [V \X (1 .. n) -> V]

\* A table of the fold of step over each set of positions.
IsTable(iter, V, base, step, n) ==
    /\ iter \in [SUBSET (1 .. n) -> V] /\ iter[{}] = base
    /\ \A s \in SUBSET (1 .. n) : s # {} => iter[s] = step[<<iter[s \ {Max(s)}], Max(s)>>]

\* A fold over a sequence exists.
LEMMA SequenceFold ==
    ASSUME NEW n \in Nat, NEW V, NEW base \in V, NEW step, IsStep(step, V, n)
    PROVE  \E iter : IsTable(iter, V, base, step, n)
  <1> USE DEF IsStep
  <1> DEFINE S == 1 .. n
             pick == [s \in SUBSET S |-> Max(s)]
             back == [p \in S \X V |-> step[<<p[2], p[1]>>]]
  <1>1. IsFiniteSet(S)
    BY FS_Interval
  <1>2. \A s \in SUBSET S : s # {} => Max(s) \in s
    BY MaxMember
  <1>3. \A s \in SUBSET S : pick[s] = Max(s)
    OBVIOUS
  <1>4. Picks(pick, S)
    BY <1>2, <1>3 DEF Picks
  <1>5. back \in [S \X V -> V] /\ \A x \in S, v \in V : back[<<x, v>>] = step[<<v, x>>]
    OBVIOUS
  <1> HIDE DEF pick, back
  <1>6. PICK iter \in [SUBSET S -> V] : IsFold(iter, S, base, pick, back)
    BY <1>1, <1>4, <1>5, FoldExists
  <1>7. ASSUME NEW s \in SUBSET S, s # {}
        PROVE  iter[s] = step[<<iter[s \ {Max(s)}], Max(s)>>]
    <2>1. iter[s] = back[<<Max(s), iter[s \ {Max(s)}]>>]
      BY <1>3, <1>6, <1>7 DEF IsFold
    <2>2. Max(s) \in S /\ iter[s \ {Max(s)}] \in V
      BY <1>2, <1>7
    <2> QED BY <1>5, <2>1, <2>2
  <1>8. iter[{}] = base
    BY <1>6 DEF IsFold
  <1> HIDE DEF S
  <1> QED BY <1>6, <1>7, <1>8 DEF S, IsTable

\* The loop ends with the value of c.
Unrolls(run, c, V, base, step, n) == IsRun(run, V, base, step, n) /\ c[1 .. n] = run[n]

\* A fold over a sequence is the last value of a loop over it.
LEMMA FoldRun ==
    ASSUME NEW n \in Nat, NEW V, NEW base \in V, NEW step, IsStep(step, V, n),
           NEW c, Follows(c, V, base, step, n)
    PROVE  \E run : Unrolls(run, c, V, base, step, n)
  <1> USE DEF IsStep
  <1> DEFINE Good == {k \in Nat : k <= n => c[1 .. k] \in V}
  <1>1. c[1 .. 0] = base
    <2>1. 1 .. 0 = {}
      OBVIOUS
    <2> QED BY <2>1 DEF Follows
  <1>2. ASSUME NEW k \in 1 .. n, c[1 .. k - 1] \in V
        PROVE  c[1 .. k] = step[<<c[1 .. k - 1], k>>] /\ c[1 .. k] \in V
    <2>1. /\ Max(1 .. k) = k /\ (1 .. k) \ {k} = 1 .. k - 1
          /\ 1 .. k \in SUBSET (1 .. n) /\ 1 .. k # {}
      BY MaxInterval
    <2>2. c[1 .. k] = step[<<c[1 .. k - 1], k>>]
      BY <1>2, <2>1, Zenon DEF Follows
    <2> QED BY <1>2, <2>2
  <1>3. 0 \in Good
    BY <1>1
  <1>4. ASSUME NEW k \in Nat, k \in Good PROVE k + 1 \in Good
    <2>1. CASE k + 1 <= n
      <3>1. k + 1 \in 1 .. n /\ (k + 1) - 1 = k /\ c[1 .. k] \in V
        BY <1>4, <2>1
      <3>2. c[1 .. k + 1] \in V
        BY <1>2, <3>1
      <3> QED BY <3>2
    <2>2. CASE ~(k + 1 <= n)
      BY <2>2
    <2> QED BY <2>1, <2>2
  <1>5. Nat \subseteq Good
    <2> HIDE DEF Good
    <2> QED BY <1>3, <1>4, NumberInduction
  <1>6. \A k \in 0 .. n : c[1 .. k] \in V
    BY <1>5
  <1> DEFINE run == [k \in 0 .. n |-> c[1 .. k]]
  <1>7. run \in [0 .. n -> V] /\ \A k \in 0 .. n : run[k] = c[1 .. k]
    BY <1>6
  <1>8. ASSUME NEW k \in 1 .. n PROVE run[k] = step[<<run[k - 1], k>>]
    <2>1. k \in 0 .. n /\ k - 1 \in 0 .. n
      OBVIOUS
    <2> HIDE DEF run
    <2> QED BY <1>2, <1>6, <1>7, <2>1
  <1>9. 0 \in 0 .. n /\ n \in 0 .. n
    OBVIOUS
  <1> HIDE DEF run
  <1> QED BY <1>1, <1>7, <1>8, <1>9 DEF IsRun, Unrolls

\* What holds at the start of a loop and is kept by each turn holds at the end.
LEMMA LoopInduction ==
    ASSUME NEW n \in Nat, NEW U, 0 \in U,
           \A k \in 1 .. n : k - 1 \in U => k \in U
    PROVE  \A k \in 0 .. n : k \in U
  <1> DEFINE W == {k \in Nat : k <= n => k \in U}
  <1>1. 0 \in W
    OBVIOUS
  <1>2. ASSUME NEW k \in Nat, k \in W PROVE k + 1 \in W
    <2>1. CASE k + 1 <= n
      <3>1. k + 1 \in 1 .. n /\ (k + 1) - 1 = k /\ k \in U
        BY <1>2, <2>1
      <3> QED BY <3>1
    <2> QED BY <2>1
  <1>3. Nat \subseteq W
    <2> HIDE DEF W
    <2> QED BY <1>1, <1>2, NumberInduction
  <1> QED BY <1>3

-----------------------------------------------------------------------------
\* The sum of a function over a finite set.
SumOf(f, S) == MapThenSumSet(LAMBDA x : f[x], S)

\* The recursion MapThenSumSet is defined by.
SumEquation(iter, f, S) ==
    iter = [s \in SUBSET S |->
              IF s = {} THEN 0
              ELSE f[CHOOSE x \in s : TRUE] + iter[s \ {CHOOSE x \in s : TRUE}]]

\* MapThenSumSet is the value of that recursion.
LEMMA SumUnfolds ==
    ASSUME NEW f, NEW S
    PROVE  SumOf(f, S) = (CHOOSE iter : SumEquation(iter, f, S))[S]
  BY DEF SumOf, MapThenSumSet, MapThenFoldSet, SumEquation

\* The recursion has a solution, with integers as values.
LEMMA SumSolution ==
    ASSUME NEW S, IsFiniteSet(S), NEW f, \A x \in S : f[x] \in Int
    PROVE  \E iter \in [SUBSET S -> Int] : SumEquation(iter, f, S)
  <1> DEFINE pick == [s \in SUBSET S |-> CHOOSE x \in s : TRUE]
             step == [p \in S \X Int |-> f[p[1]] + p[2]]
  <1>1. \A s \in SUBSET S : pick[s] = CHOOSE x \in s : TRUE
    OBVIOUS
  <1>2. Picks(pick, S)
    BY DEF Picks
  <1>3. step \in [S \X Int -> Int] /\ \A x \in S, n \in Int : step[<<x, n>>] = f[x] + n
    OBVIOUS
  <1> HIDE DEF pick, step
  <1>4. PICK iter \in [SUBSET S -> Int] : IsFold(iter, S, 0, pick, step)
    <2>1. 0 \in Int
      OBVIOUS
    <2> QED BY <1>2, <1>3, <2>1, FoldExists, Zenon
  <1>5. ASSUME NEW s \in SUBSET S
        PROVE  iter[s] = IF s = {} THEN 0
                         ELSE f[CHOOSE x \in s : TRUE] + iter[s \ {CHOOSE x \in s : TRUE}]
    <2>1. CASE s = {}
      BY <1>4, <2>1 DEF IsFold
    <2>2. CASE s # {}
      <3>1. pick[s] \in S /\ s \ {pick[s]} \in SUBSET S
        BY <1>2, <2>2 DEF Picks
      <3>2. iter[s] = f[pick[s]] + iter[s \ {pick[s]}]
        BY <1>3, <1>4, <2>2, <3>1 DEF IsFold
      <3> QED BY <1>1, <2>2, <3>2
    <2> QED BY <2>1, <2>2
  <1>6. SumEquation(iter, f, S)
    BY <1>5 DEF SumEquation
  <1> QED BY <1>6

\* Any solution of it on a larger set gives the sum.
LEMMA SumValue ==
    ASSUME NEW S, IsFiniteSet(S), NEW f, \A x \in S : f[x] \in Int,
           NEW iter, SumEquation(iter, f, S), NEW T \in SUBSET S
    PROVE  SumOf(f, T) = iter[T]
  <1> DEFINE pick == [s \in SUBSET T |-> CHOOSE x \in s : TRUE]
             c == CHOOSE g : SumEquation(g, f, T)
  <1>1. IsFiniteSet(T)
    BY FS_Subset
  <1>2. SumEquation(c, f, T)
    BY <1>1, SumSolution
  <1>3. SumOf(f, T) = c[T]
    BY SumUnfolds
  <1>4. /\ \A s \in SUBSET T : pick[s] = CHOOSE x \in s : TRUE
        /\ Picks(pick, T)
    BY DEF Picks
  <1> HIDE DEF pick, c
  <1>5. \A s \in SUBSET T :
           /\ c[s] = IF s = {} THEN 0 ELSE f[pick[s]] + c[s \ {pick[s]}]
           /\ iter[s] = IF s = {} THEN 0 ELSE f[pick[s]] + iter[s \ {pick[s]}]
    <2> SUFFICES ASSUME NEW s \in SUBSET T
                 PROVE  /\ c[s] = IF s = {} THEN 0 ELSE f[pick[s]] + c[s \ {pick[s]}]
                        /\ iter[s] = IF s = {} THEN 0 ELSE f[pick[s]] + iter[s \ {pick[s]}]
      OBVIOUS
    <2>1. s \in SUBSET S
      OBVIOUS
    <2>2. iter[s] = IF s = {} THEN 0
                    ELSE f[CHOOSE x \in s : TRUE] + iter[s \ {CHOOSE x \in s : TRUE}]
      BY <2>1 DEF SumEquation
    <2>3. c[s] = IF s = {} THEN 0
                 ELSE f[CHOOSE x \in s : TRUE] + c[s \ {CHOOSE x \in s : TRUE}]
      BY <1>2 DEF SumEquation
    <2> QED BY <1>4, <2>2, <2>3
  <1>6. SameRecursion(c, iter, T, pick)
    BY <1>5 DEF SameRecursion
  <1>7. \A s \in SUBSET T : c[s] = iter[s]
    BY <1>1, <1>4, <1>6, FoldUnique
  <1> QED BY <1>3, <1>7

\* The sum over the empty set.
LEMMA SumEmpty ==
    ASSUME NEW f
    PROVE  SumOf(f, {}) = 0
  <1>1. IsFiniteSet({})
    BY FS_EmptySet
  <1>2. PICK iter \in [SUBSET {} -> Int] : SumEquation(iter, f, {})
    BY <1>1, SumSolution
  <1>3. iter[{}] = 0
    BY <1>2 DEF SumEquation
  <1> QED BY <1>1, <1>2, <1>3, SumValue

\* Any member may be taken out of the sum first.
LEMMA SumMember ==
    ASSUME NEW S, IsFiniteSet(S), NEW f, \A x \in S : f[x] \in Int
    PROVE  /\ SumOf(f, S) \in Int
           /\ \A x \in S : SumOf(f, S) = f[x] + SumOf(f, S \ {x})
  <1>1. PICK iter \in [SUBSET S -> Int] : SumEquation(iter, f, S)
    BY SumSolution
  <1>2. \A T \in SUBSET S : SumOf(f, T) = iter[T]
    BY <1>1, SumValue
  <1>3. ASSUME NEW T \in SUBSET S, T # {}
        PROVE  \E x \in T : iter[T] = f[x] + iter[T \ {x}]
    <2>1. iter[T] = f[CHOOSE x \in T : TRUE] + iter[T \ {CHOOSE x \in T : TRUE}]
      BY <1>1, <1>3 DEF SumEquation
    <2>2. (CHOOSE x \in T : TRUE) \in T
      BY <1>3
    <2> QED BY <2>1, <2>2
  <1> DEFINE U == {T \in SUBSET S : \A x \in T : iter[T] = f[x] + iter[T \ {x}]}
  <1>4. ASSUME NEW T \in SUBSET S, \A R \in SUBSET T : R # T => R \in U
        PROVE  T \in U
    <2> SUFFICES ASSUME NEW x \in T PROVE iter[T] = f[x] + iter[T \ {x}]
      OBVIOUS
    <2>1. PICK y \in T : iter[T] = f[y] + iter[T \ {y}]
      BY <1>3
    <2>2. CASE x = y
      BY <2>1, <2>2
    <2>3. CASE x # y
      <3>1. /\ T \ {y} \in SUBSET T /\ T \ {y} # T /\ x \in T \ {y}
            /\ T \ {x} \in SUBSET T /\ T \ {x} # T /\ y \in T \ {x}
        BY <2>3
      <3>2. T \ {y} \in U /\ T \ {x} \in U
        BY <1>4, <3>1
      <3>3. iter[T \ {y}] = f[x] + iter[(T \ {y}) \ {x}]
        BY <3>1, <3>2
      <3>4. iter[T \ {x}] = f[y] + iter[(T \ {x}) \ {y}]
        BY <3>1, <3>2
      <3>5. (T \ {x}) \ {y} = (T \ {y}) \ {x}
        OBVIOUS
      <3>6. f[x] \in Int /\ f[y] \in Int /\ iter[(T \ {y}) \ {x}] \in Int
        BY <1>1
      <3> DEFINE rest == iter[(T \ {y}) \ {x}]
      <3>7. iter[T \ {x}] = f[y] + rest
        BY <3>4, <3>5
      <3>8. iter[T] = f[y] + (f[x] + rest)
        BY <2>1, <3>3, Zenon
      <3> HIDE DEF rest
      <3>9. f[y] + (f[x] + rest) = f[x] + (f[y] + rest)
        BY <3>6 DEF rest
      <3> QED BY <3>7, <3>8, <3>9, Zenon
    <2> QED BY <2>2, <2>3
  <1>5. S \in U
    <2> HIDE DEF U
    <2>1. \A T \in SUBSET S : T \in U
      BY <1>4, SubsetInduction
    <2> QED BY <2>1
  <1>6. \A x \in S : S \ {x} \in SUBSET S
    OBVIOUS
  <1> QED BY <1>1, <1>2, <1>5, <1>6

\* A new member is added to the sum.
LEMMA SumAdd ==
    ASSUME NEW S, IsFiniteSet(S), NEW f, \A x \in S : f[x] \in Int,
           NEW y, y \notin S, f[y] \in Int
    PROVE  SumOf(f, S \cup {y}) = f[y] + SumOf(f, S) /\ SumOf(f, S) \in Int
  <1>1. IsFiniteSet(S \cup {y})
    BY FS_AddElement
  <1>2. (S \cup {y}) \ {y} = S
    OBVIOUS
  <1>3. \A x \in S \cup {y} : f[x] \in Int
    OBVIOUS
  <1>4. y \in S \cup {y}
    OBVIOUS
  <1>5. SumOf(f, S \cup {y}) = f[y] + SumOf(f, (S \cup {y}) \ {y})
    BY <1>1, <1>3, <1>4, SumMember, Zenon
  <1> QED BY <1>2, <1>5, SumMember

\* Functions that are equal on a set have the same sum over it.
LEMMA SumSame ==
    ASSUME NEW S, IsFiniteSet(S), NEW f, NEW g, \A x \in S : f[x] \in Int /\ g[x] = f[x]
    PROVE  SumOf(f, S) = SumOf(g, S)
  <1> DEFINE U == {T \in SUBSET S : SumOf(f, T) = SumOf(g, T)}
  <1>1. {} \in U
    BY SumEmpty
  <1>2. ASSUME NEW T \in SUBSET S, NEW x \in S \ T, T \in U
        PROVE  T \cup {x} \in U
    <2>1. IsFiniteSet(T)
      BY FS_Subset
    <2>2. /\ SumOf(f, T \cup {x}) = f[x] + SumOf(f, T)
          /\ SumOf(g, T \cup {x}) = g[x] + SumOf(g, T)
      BY <2>1, SumAdd
    <2> QED BY <1>2, <2>2
  <1>3. \A T \in SUBSET S : T \in U
    <2> HIDE DEF U
    <2> QED BY <1>1, <1>2, MemberInduction
  <1> QED BY <1>3

\* A sum of ones counts.
LEMMA SumOfOnes ==
    ASSUME NEW S, IsFiniteSet(S), NEW f, \A x \in S : f[x] = 1
    PROVE  SumOf(f, S) = Cardinality(S)
  <1> DEFINE U == {T \in SUBSET S : SumOf(f, T) = Cardinality(T)}
  <1>1. {} \in U
    BY SumEmpty, FS_EmptySet
  <1>2. ASSUME NEW T \in SUBSET S, NEW x \in S \ T, T \in U
        PROVE  T \cup {x} \in U
    <2>1. IsFiniteSet(T) /\ Cardinality(T) \in Nat
      BY FS_Subset, FS_CardinalityType
    <2>2. Cardinality(T \cup {x}) = Cardinality(T) + 1
      BY <2>1, FS_AddElement
    <2>3. SumOf(f, T \cup {x}) = f[x] + SumOf(f, T)
      BY <2>1, SumAdd
    <2> QED BY <1>2, <2>1, <2>2, <2>3
  <1>3. \A T \in SUBSET S : T \in U
    <2> HIDE DEF U
    <2> QED BY <1>1, <1>2, MemberInduction
  <1> QED BY <1>3

\* The sums over disjoint sets add up.
LEMMA SumDisjoint ==
    ASSUME NEW S, IsFiniteSet(S), NEW R, IsFiniteSet(R), S \cap R = {},
           NEW f, \A x \in S \cup R : f[x] \in Int
    PROVE  SumOf(f, S \cup R) = SumOf(f, S) + SumOf(f, R)
  <1> DEFINE U == {T \in SUBSET S : SumOf(f, T \cup R) = SumOf(f, T) + SumOf(f, R)}
  <1>0. SumOf(f, R) \in Int
    BY SumMember
  <1>1. {} \in U
    <2>1. {} \cup R = R
      OBVIOUS
    <2> QED BY <1>0, <2>1, SumEmpty
  <1>2. ASSUME NEW T \in SUBSET S, NEW x \in S \ T, T \in U
        PROVE  T \cup {x} \in U
    <2>1. IsFiniteSet(T) /\ IsFiniteSet(T \cup R)
      BY FS_Subset, FS_Union
    <2>2. x \notin T \cup R /\ f[x] \in Int
      OBVIOUS
    <2>3. /\ SumOf(f, T \cup {x}) = f[x] + SumOf(f, T)
          /\ SumOf(f, T) \in Int
      BY <2>1, <2>2, SumAdd
    <2>4. SumOf(f, (T \cup R) \cup {x}) = f[x] + SumOf(f, T \cup R)
      BY <2>1, <2>2, SumAdd
    <2>5. (T \cup R) \cup {x} = (T \cup {x}) \cup R
      OBVIOUS
    <2>6. SumOf(f, T \cup R) = SumOf(f, T) + SumOf(f, R)
      BY <1>2
    <2>7. SumOf(f, (T \cup {x}) \cup R) = SumOf(f, T \cup {x}) + SumOf(f, R)
      <3> DEFINE t == SumOf(f, T)
                 r == SumOf(f, R)
      <3>1. SumOf(f, (T \cup {x}) \cup R) = f[x] + (t + r)
        BY <2>4, <2>5, <2>6, Zenon
      <3>2. SumOf(f, T \cup {x}) + SumOf(f, R) = (f[x] + t) + r
        BY <2>3, Zenon
      <3>3. f[x] + (t + r) = (f[x] + t) + r
        <4> HIDE DEF t, r
        <4> QED BY <1>0, <2>2, <2>3 DEF t, r
      <3> QED BY <3>1, <3>2, <3>3, Zenon
    <2> QED BY <2>7
  <1>3. \A T \in SUBSET S : T \in U
    <2> HIDE DEF U
    <2> QED BY <1>1, <1>2, MemberInduction
  <1> QED BY <1>3

\* A sum of numbers is a number, and a part of it is no larger.
LEMMA SumPart ==
    ASSUME NEW S, IsFiniteSet(S), NEW f, \A x \in S : f[x] \in Nat, NEW T \in SUBSET S
    PROVE  SumOf(f, T) \in Nat /\ SumOf(f, S) \in Nat /\ SumOf(f, T) <= SumOf(f, S)
  <1> DEFINE U == {R \in SUBSET S : SumOf(f, R) \in Nat}
  <1>1. {} \in U
    BY SumEmpty
  <1>2. ASSUME NEW R \in SUBSET S, NEW x \in S \ R, R \in U
        PROVE  R \cup {x} \in U
    <2>1. IsFiniteSet(R)
      BY FS_Subset
    <2>2. SumOf(f, R \cup {x}) = f[x] + SumOf(f, R)
      BY <2>1, SumAdd
    <2>3. f[x] \in Nat /\ SumOf(f, R) \in Nat
      BY <1>2
    <2> QED BY <2>2, <2>3
  <1>3. \A R \in SUBSET S : R \in U
    <2> HIDE DEF U
    <2> QED BY <1>1, <1>2, MemberInduction
  <1>4. IsFiniteSet(T) /\ IsFiniteSet(S \ T) /\ T \cap (S \ T) = {} /\ T \cup (S \ T) = S
    BY FS_Subset
  <1>5. SumOf(f, S) = SumOf(f, T) + SumOf(f, S \ T)
    <2>1. \A x \in T \cup (S \ T) : f[x] \in Int
      BY <1>4
    <2>2. SumOf(f, T \cup (S \ T)) = SumOf(f, T) + SumOf(f, S \ T)
      BY <1>4, <2>1, SumDisjoint, Zenon
    <2> QED BY <1>4, <2>2
  <1>6. SumOf(f, T) \in Nat /\ SumOf(f, S \ T) \in Nat /\ SumOf(f, S) \in Nat
    BY <1>3
  <1> QED BY <1>5, <1>6

\* Two parts whose sums exceed the whole have a member in common.
LEMMA PartsMeet ==
    ASSUME NEW S, IsFiniteSet(S), NEW f, \A x \in S : f[x] \in Nat,
           NEW A \in SUBSET S, NEW B \in SUBSET S,
           SumOf(f, A) + SumOf(f, B) > SumOf(f, S)
    PROVE  A \cap B # {}
  <1> SUFFICES ASSUME A \cap B = {} PROVE FALSE
    OBVIOUS
  <1>1. IsFiniteSet(A) /\ IsFiniteSet(B) /\ A \cup B \in SUBSET S
    BY FS_Subset
  <1>2. \A x \in A \cup B : f[x] \in Int
    OBVIOUS
  <1>3. SumOf(f, A \cup B) = SumOf(f, A) + SumOf(f, B)
    BY <1>1, <1>2, SumDisjoint
  <1>4. /\ SumOf(f, A) \in Nat /\ SumOf(f, B) \in Nat /\ SumOf(f, S) \in Nat
        /\ SumOf(f, A \cup B) <= SumOf(f, S)
    BY <1>1, SumPart
  <1> QED BY <1>3, <1>4
=============================================================================
