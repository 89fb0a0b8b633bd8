------------------------- MODULE BuiltinRulesProofs -------------------------
(***************************************************************************)
(* Lemmas about folds, sums and labels, and theorems about BuiltinRules,   *)
(* for any brands, senders, links and attachments.                         *)
(*                                                                         *)
(* Induction is on the least counterexample of a set of numbers: what is   *)
(* recursive in the model is a function, and the sets of its arguments     *)
(* that do as claimed are sets that can be named.                          *)
(***************************************************************************)
EXTENDS BuiltinRules, FiniteSetTheorems, SequenceTheorems, TLAPS

-----------------------------------------------------------------------------
\* A set of numbers that holds 0, and with each number the next, holds them all.
LEMMA NumbersByInduction ==
  ASSUME NEW N, 0 \in N, \A n \in Nat : n \in N => n + 1 \in N
  PROVE  Nat \subseteq N
<1> SUFFICES ASSUME Nat \ N # {} PROVE FALSE
  OBVIOUS
<1>1. \E x \in Nat \ N : \A y \in Nat \ N : <<y, x>> \notin OpToRel(<, Nat)
  <2>1. Nat \ N \subseteq Nat
    OBVIOUS
  <2> QED
    BY <2>1, NatLessThanWellFounded, WFMin, Zenon
<1>2. PICK x \in Nat \ N : \A y \in Nat \ N : ~(y < x)
  BY <1>1, Zenon DEF OpToRel
<1>3. x # 0 /\ x - 1 \in Nat /\ x - 1 < x
  BY <1>2
<1>4. x - 1 \in N
  BY <1>2, <1>3
<1>5. (x - 1) + 1 \in N
  BY <1>3, <1>4
<1> QED
  BY <1>2, <1>5

LEMMA OneLess ==
  ASSUME NEW S, IsFiniteSet(S), NEW x \in S
  PROVE  IsFiniteSet(S \ {x}) /\ Cardinality(S \ {x}) \in Nat /\ Cardinality(S \ {x}) = Cardinality(S) - 1
  BY FS_RemoveElement, FS_CardinalityType

\* A family of sets that holds the empty set, and whichever set leaves it one
\* element less than a set of the family, holds every finite set.
LEMMA SubsetsByInduction ==
  ASSUME NEW S, IsFiniteSet(S), NEW F, {} \in F,
         \A T \in SUBSET S : T # {} /\ (\A x \in T : T \ {x} \in F) => T \in F
  PROVE  SUBSET S \subseteq F
<1> DEFINE N == {n \in Nat : \A T \in SUBSET S : Cardinality(T) = n => T \in F}
<1>1. 0 \in N
  <2> SUFFICES ASSUME NEW T \in SUBSET S, Cardinality(T) = 0 PROVE T \in F
    OBVIOUS
  <2>1. T = {}
    BY FS_Subset, FS_EmptySet
  <2> QED
    BY <2>1
<1>2. ASSUME NEW n \in Nat, n \in N PROVE n + 1 \in N
  <2> SUFFICES ASSUME NEW T \in SUBSET S, Cardinality(T) = n + 1 PROVE T \in F
    OBVIOUS
  <2>1. IsFiniteSet(T)
    BY FS_Subset
  <2>2. T # {}
    <3>1. Cardinality({}) = 0
      BY FS_EmptySet
    <3> QED
      BY <3>1
  <2>3. \A x \in T : T \ {x} \in SUBSET S /\ Cardinality(T \ {x}) = n
    BY <2>1, OneLess
  <2>4. \A x \in T : T \ {x} \in F
    BY <1>2, <2>3
  <2> QED
    BY <2>2, <2>4
<1> HIDE DEF N
<1>3. Nat \subseteq N
  BY <1>1, <1>2, NumbersByInduction
<1>4. ASSUME NEW T \in SUBSET S PROVE T \in F
  <2>1. Cardinality(T) \in Nat
    BY FS_Subset, FS_CardinalityType
  <2> QED
    BY <1>3, <2>1 DEF N
<1> QED
  BY <1>4

\* A function by recursion over the subsets of a finite set, an element less
\* each time: there is one.
Picks(pick, S) == \A s \in SUBSET S : s # {} => pick[s] \in s

Recurs(g, S, base, step, pick) ==
  /\ g[{}] = base
  /\ \A s \in SUBSET S : s # {} => g[s] = step[<<pick[s], g[s \ {pick[s]}]>>]

LEMMA RecursionExists ==
  ASSUME NEW S, IsFiniteSet(S), NEW V, NEW base \in V, NEW step \in [S \X V -> V],
         NEW pick, Picks(pick, S)
  PROVE  \E g \in [SUBSET S -> V] : Recurs(g, S, base, step, pick)
<1> DEFINE Right(g, n) ==
             /\ g[{}] = base
             /\ \A s \in SUBSET S : s # {} /\ Cardinality(s) <= n => g[s] = step[<<pick[s], g[s \ {pick[s]}]>>]
           N == {n \in Nat : \E g \in [SUBSET S -> V] : Right(g, n)}
<1>0. \A s \in SUBSET S : IsFiniteSet(s) /\ Cardinality(s) \in Nat
  BY FS_Subset, FS_CardinalityType
<1>1. 0 \in N
  <2> DEFINE g == [s \in SUBSET S |-> base]
  <2>1. \A s \in SUBSET S : s # {} => ~ (Cardinality(s) <= 0)
    BY <1>0, FS_EmptySet
  <2>2. g \in [SUBSET S -> V] /\ g[{}] = base
    OBVIOUS
  <2>3. Right(g, 0)
    BY <2>1, <2>2
  <2> QED
    BY <2>2, <2>3
<1>2. ASSUME NEW n \in Nat, n \in N PROVE n + 1 \in N
  <2>1. PICK g \in [SUBSET S -> V] : Right(g, n)
    BY <1>2
  <2> DEFINE h == [s \in SUBSET S |-> IF s = {} THEN base ELSE step[<<pick[s], g[s \ {pick[s]}]>>]]
  <2>2. \A s \in SUBSET S : s # {} => pick[s] \in S /\ s \ {pick[s]} \in SUBSET S
    BY DEF Picks
  <2>3. h \in [SUBSET S -> V]
    <3>1. \A s \in SUBSET S : s # {} => <<pick[s], g[s \ {pick[s]}]>> \in S \X V
      BY <2>2
    <3>2. \A s \in SUBSET S : s # {} => step[<<pick[s], g[s \ {pick[s]}]>>] \in V
      BY <3>1
    <3> QED
      BY <3>2
  <2>4. \A s \in SUBSET S : Cardinality(s) <= n => h[s] = g[s]
    BY <2>1
  <2>5. \A s \in SUBSET S : s # {} /\ Cardinality(s) <= n + 1 => Cardinality(s \ {pick[s]}) <= n
    <3>1. ASSUME NEW s \in SUBSET S, s # {} PROVE Cardinality(s \ {pick[s]}) = Cardinality(s) - 1
      BY <1>0, <3>1, OneLess DEF Picks
    <3> QED
      BY <1>0, <3>1
  <2>6. \A s \in SUBSET S : s # {} /\ Cardinality(s) <= n + 1 => h[s] = step[<<pick[s], h[s \ {pick[s]}]>>]
    BY <2>2, <2>4, <2>5
  <2>7. h[{}] = base
    OBVIOUS
  <2>8. Right(h, n + 1)
    BY <2>6, <2>7
  <2> HIDE DEF h, Right
  <2> QED
    BY <2>3, <2>8
<1>3. Cardinality(S) \in N
  <2> HIDE DEF N
  <2>1. Nat \subseteq N
    BY <1>1, <1>2, NumbersByInduction
  <2> QED
    BY <1>0, <2>1
<1>4. PICK g \in [SUBSET S -> V] : Right(g, Cardinality(S))
  BY <1>3
<1>5. \A s \in SUBSET S : Cardinality(s) <= Cardinality(S)
  BY FS_Subset
<1> QED
  BY <1>4, <1>5 DEF Recurs

\* A fold over a sequence takes the elements at the places 1 to n, the last of
\* them first: there is a function that does.
Latest(n) == [s \in SUBSET (1 .. n) |-> Max(s)]

LEMMA Greatest == ASSUME NEW n \in Nat PROVE \A S \in SUBSET (1 .. n) : S # {} => Max(S) \in S
<1> DEFINE Has(S) == \E x \in S : \A y \in S : x >= y
           N == {k \in Nat : \A S \in SUBSET (1 .. k) : S # {} => Has(S)}
<1>1. 0 \in N
  <2>1. 1 .. 0 = {}
    OBVIOUS
  <2> QED
    BY <2>1
<1>2. ASSUME NEW k \in Nat, k \in N PROVE k + 1 \in N
  <2> SUFFICES ASSUME NEW S \in SUBSET (1 .. (k + 1)), S # {} PROVE Has(S)
    OBVIOUS
  <2>1. CASE k + 1 \in S
    <3>1. \A y \in S : k + 1 >= y
      OBVIOUS
    <3> QED
      BY <2>1, <3>1
  <2>2. CASE k + 1 \notin S
    <3>1. S \in SUBSET (1 .. k)
      BY <2>2
    <3> QED
      BY <1>2, <3>1
  <2> QED
    BY <2>1, <2>2
<1> HIDE DEF N
<1>3. n \in N
  BY <1>1, <1>2, NumbersByInduction
<1>4. \A S \in SUBSET (1 .. n) : S # {} => Has(S)
  BY <1>3 DEF N
<1> QED
  BY <1>4, Zenon DEF Max

Folds(g, n, base, step) ==
  /\ g[{}] = base
  /\ \A s \in SUBSET (1 .. n) : s # {} => g[s] = step[<<Max(s), g[s \ {Max(s)}]>>]

LEMMA FoldExists ==
  ASSUME NEW n \in Nat, NEW V, NEW base \in V, NEW step \in [(1 .. n) \X V -> V]
  PROVE  \E g \in [SUBSET (1 .. n) -> V] : Folds(g, n, base, step)
<1>1. Picks(Latest(n), 1 .. n)
  BY Greatest DEF Picks, Latest
<1>2. IsFiniteSet(1 .. n)
  BY FS_Interval
<1>3. PICK g \in [SUBSET (1 .. n) -> V] : Recurs(g, 1 .. n, base, step, Latest(n))
  BY <1>1, <1>2, RecursionExists, Zenon
<1> QED
  BY <1>3 DEF Recurs, Latest, Folds

\* The places up to k are those up to k - 1, and k.
LEMMA PlacesUpTo ==
  ASSUME NEW n \in Nat, NEW k \in 1 .. n
  PROVE  Max(1 .. k) = k /\ (1 .. k) \ {k} = 1 .. (k - 1) /\ 1 .. k \in SUBSET (1 .. n) /\ 1 .. k # {}
<1>1. \E x \in 1 .. k : \A y \in 1 .. k : x >= y
  OBVIOUS
<1>2. Max(1 .. k) \in 1 .. k /\ \A y \in 1 .. k : Max(1 .. k) >= y
  BY <1>1, Zenon DEF Max
<1>3. k \in 1 .. k /\ k <= n /\ 1 <= k /\ k \in Nat
  OBVIOUS
<1>4. Max(1 .. k) = k
  <2> DEFINE x == Max(1 .. k)
  <2>1. x \in 1 .. k /\ x >= k
    BY <1>2, <1>3
  <2> HIDE DEF x
  <2>2. x = k
    BY <1>3, <2>1
  <2> QED
    BY <2>2 DEF x
<1>5. (1 .. k) \ {k} = 1 .. (k - 1)
  BY <1>3
<1>6. 1 .. k \in SUBSET (1 .. n) /\ 1 .. k # {}
  BY <1>3
<1> QED
  BY <1>4, <1>5, <1>6

\* Whatever a fold is by its equations goes from place to place.
Places(p, n, V, base, step) ==
  /\ p \in [0 .. n -> V] /\ p[0] = base
  /\ \A k \in 1 .. n : p[k] = step[<<k, p[k - 1]>>]

Unfolds(g, n, V, base, step) ==
  /\ g[{}] = base
  /\ \A s \in SUBSET (1 .. n) : s # {} /\ g[s \ {Max(s)}] \in V => g[s] = step[<<Max(s), g[s \ {Max(s)}]>>]

GoesByPlaces(g, n, V, base, step) == \E p : Places(p, n, V, base, step) /\ p[n] = g[1 .. n]

LEMMA FoldByPlaces ==
  ASSUME NEW n \in Nat, NEW V, NEW base \in V, NEW step \in [(1 .. n) \X V -> V],
         NEW g, Unfolds(g, n, V, base, step)
  PROVE  GoesByPlaces(g, n, V, base, step)
<1> DEFINE N == {k \in Nat : k <= n => g[1 .. k] \in V}
           p == [k \in 0 .. n |-> g[1 .. k]]
<1>1. 0 \in N /\ g[1 .. 0] = base
  BY DEF Unfolds
<1>2. ASSUME NEW k \in 1 .. n, g[1 .. (k - 1)] \in V
      PROVE  g[1 .. k] = step[<<k, g[1 .. (k - 1)]>>] /\ g[1 .. k] \in V
  <2>1. Max(1 .. k) = k /\ (1 .. k) \ {k} = 1 .. (k - 1) /\ 1 .. k \in SUBSET (1 .. n) /\ 1 .. k # {}
    BY PlacesUpTo
  <2>2. g[1 .. k] = step[<<k, g[1 .. (k - 1)]>>]
    BY <1>2, <2>1 DEF Unfolds
  <2> QED
    BY <1>2, <2>2
<1>3. ASSUME NEW k \in Nat, k \in N PROVE k + 1 \in N
  <2> SUFFICES ASSUME k + 1 <= n PROVE g[1 .. (k + 1)] \in V
    OBVIOUS
  <2>1. k + 1 \in 1 .. n /\ (k + 1) - 1 = k /\ g[1 .. k] \in V
    BY <1>3
  <2> QED
    BY <1>2, <2>1
<1>4. \A k \in 0 .. n : g[1 .. k] \in V
  <2> HIDE DEF N
  <2>1. Nat \subseteq N
    BY <1>1, <1>3, NumbersByInduction
  <2> QED
    BY <2>1 DEF N
<1>5. \A k \in 1 .. n : p[k] = step[<<k, p[k - 1]>>]
  BY <1>2, <1>4
<1>6. p \in [0 .. n -> V] /\ p[0] = base /\ p[n] = g[1 .. n]
  BY <1>1, <1>4
<1> HIDE DEF p
<1>7. Places(p, n, V, base, step)
  BY <1>5, <1>6 DEF Places
<1> QED
  BY <1>6, <1>7 DEF GoesByPlaces

\* The sum of the scores, place by place.
Sums(p, rs) == p \in [0 .. Len(rs) -> Int] /\ p[0] = 0 /\ \A k \in 1 .. Len(rs) : p[k] = p[k - 1] + rs[k].score

LEMMA SumByPlaces ==
  ASSUME NEW R, \A r \in R : r.score \in Int, NEW rs \in Seq(R)
  PROVE  \E p : Sums(p, rs) /\ SumOf(rs) = p[Len(rs)]
<1> DEFINE n == Len(rs)
           D == 1 .. n
           step == [p \in D \X Int |-> p[2] + rs[p[1]].score]
<1>0. n \in Nat /\ DOMAIN rs = D /\ 0 \in Int /\ \A k \in D : rs[k].score \in Int
  OBVIOUS
<1>1. step \in [D \X Int -> Int]
  BY <1>0
<1>2. \A k \in D, v \in Int : step[<<k, v>>] = v + rs[k].score
  OBVIOUS
<1> HIDE DEF step
<1>3. \A s \in SUBSET D : s # {} => Max(s) \in D
  BY <1>0, Greatest
<1>4. PICK g \in [SUBSET D -> Int] : Folds(g, n, 0, step)
  BY <1>0, <1>1, FoldExists, Zenon
<1> DEFINE Is(f) == f = [s \in SUBSET DOMAIN rs |-> IF s = {} THEN 0 ELSE f[s \ {Max(s)}] + rs[Max(s)].score]
           it == CHOOSE f : Is(f)
<1>5. SumOf(rs) = it[DOMAIN rs]
  BY Zenon DEF SumOf, FoldLeft, MapThenFoldSet
<1>6. Is(g)
  BY <1>0, <1>2, <1>3, <1>4 DEF Folds
<1>7. Is(it)
  <2> HIDE DEF Is
  <2> QED
    BY <1>6, Zenon
<1> HIDE DEF it
<1>8. Unfolds(it, n, Int, 0, step)
  BY <1>0, <1>2, <1>3, <1>7 DEF Unfolds
<1> HIDE DEF Is
<1>9. PICK p : Places(p, n, Int, 0, step) /\ p[n] = it[1 .. n]
  <2>1. GoesByPlaces(it, n, Int, 0, step)
    BY <1>0, <1>1, <1>8, FoldByPlaces, Zenon
  <2> QED
    BY <2>1 DEF GoesByPlaces
<1>10. Sums(p, rs)
  <2>1. p \in [0 .. n -> Int] /\ p[0] = 0 /\ \A k \in D : p[k] = step[<<k, p[k - 1]>>]
    BY <1>9 DEF Places
  <2>2. \A k \in D : p[k - 1] \in Int
    BY <1>0, <2>1
  <2> QED
    BY <1>0, <1>2, <2>1, <2>2 DEF Sums
<1> QED
  BY <1>0, <1>5, <1>9, <1>10

-----------------------------------------------------------------------------
\* The points of a set of results, an element less each time.
Pick(s) == CHOOSE x \in s : TRUE

LEMMA PointsByRecursion ==
  ASSUME NEW S, IsFiniteSet(S), \A r \in S : r.score \in Int
  PROVE  /\ PointsOf({}) = 0
         /\ \A T \in SUBSET S : PointsOf(T) \in Int
         /\ \A T \in SUBSET S : T # {} => PointsOf(T) = Pick(T).score + PointsOf(T \ {Pick(T)})
<1> DEFINE pick == [s \in SUBSET S |-> Pick(s)]
           step == [p \in S \X Int |-> p[1].score + p[2]]
<1>1. \A s \in SUBSET S : s # {} => Pick(s) \in s
  BY DEF Pick
<1>2. PICK g \in [SUBSET S -> Int] :
        /\ g[{}] = 0
        /\ \A s \in SUBSET S : s # {} => g[s] = Pick(s).score + g[s \ {Pick(s)}]
  <2>1. Picks(pick, S)
    BY <1>1 DEF Picks
  <2>2. step \in [S \X Int -> Int]
    OBVIOUS
  <2> HIDE DEF pick, step
  <2>3. PICK g \in [SUBSET S -> Int] : Recurs(g, S, 0, step, pick)
    <3>1. 0 \in Int
      OBVIOUS
    <3> QED
      BY <2>1, <2>2, <3>1, RecursionExists, Zenon
  <2>4. ASSUME NEW s \in SUBSET S, s # {} PROVE g[s] = Pick(s).score + g[s \ {Pick(s)}]
    <3>1. pick[s] = Pick(s) /\ Pick(s) \in S /\ g[s \ {Pick(s)}] \in Int
      BY <1>1, <2>4 DEF pick
    <3>2. step[<<Pick(s), g[s \ {Pick(s)}]>>] = Pick(s).score + g[s \ {Pick(s)}]
      BY <3>1 DEF step
    <3> QED
      BY <2>3, <2>4, <3>1, <3>2 DEF Recurs
  <2> QED
    BY <2>3, <2>4 DEF Recurs
<1>3. ASSUME NEW T \in SUBSET S PROVE PointsOf(T) = g[T]
  <2> DEFINE Is(f) == f = [s \in SUBSET T |-> IF s = {} THEN 0 ELSE Pick(s).score + f[s \ {Pick(s)}]]
             it == CHOOSE f : Is(f)
             part == [s \in SUBSET T |-> g[s]]
  <2>1. PointsOf(T) = it[T]
    BY Zenon DEF PointsOf, MapThenSumSet, MapThenFoldSet, Pick
  <2>2. Is(part)
    <3>1. ASSUME NEW s \in SUBSET T, s # {} PROVE g[s] = Pick(s).score + part[s \ {Pick(s)}]
      BY <1>2, <3>1
    <3> QED
      BY <1>2, <3>1
  <2>3. Is(it)
    <3> HIDE DEF Is
    <3> QED
      BY <2>2, Zenon
  <2> HIDE DEF it
  <2> DEFINE F == {s \in SUBSET T : it[s] = g[s]}
  <2>4. {} \in F
    BY <1>2, <2>3
  <2>5. ASSUME NEW s \in SUBSET T, s # {}, \A x \in s : s \ {x} \in F PROVE s \in F
    <3>1. Pick(s) \in s /\ it[s \ {Pick(s)}] = g[s \ {Pick(s)}]
      BY <1>1, <2>5
    <3>2. it[s] = Pick(s).score + it[s \ {Pick(s)}]
      BY <2>3, <2>5
    <3> QED
      BY <1>2, <2>5, <3>1, <3>2
  <2>6. IsFiniteSet(T)
    BY FS_Subset
  <2> HIDE DEF F
  <2>7. SUBSET T \subseteq F
    BY <2>4, <2>5, <2>6, SubsetsByInduction
  <2> QED
    BY <2>1, <2>7 DEF F
<1> QED
  BY <1>1, <1>2, <1>3

\* Any element may be taken first.
LEMMA PointsTakeAny ==
  ASSUME NEW S, IsFiniteSet(S), \A r \in S : r.score \in Int
  PROVE  \A x \in S : PointsOf(S) = x.score + PointsOf(S \ {x})
<1> DEFINE F == {T \in SUBSET S : \A x \in T : PointsOf(T) = x.score + PointsOf(T \ {x})}
<1>0. /\ \A T \in SUBSET S : PointsOf(T) \in Int
      /\ \A T \in SUBSET S : T # {} => PointsOf(T) = Pick(T).score + PointsOf(T \ {Pick(T)})
      /\ \A T \in SUBSET S : T # {} => Pick(T) \in T
  BY PointsByRecursion DEF Pick
<1>1. {} \in F
  OBVIOUS
<1>2. ASSUME NEW T \in SUBSET S, T # {}, \A x \in T : T \ {x} \in F PROVE T \in F
  <2> SUFFICES ASSUME NEW x \in T, x # Pick(T) PROVE PointsOf(T) = x.score + PointsOf(T \ {x})
    BY <1>0
  <2> DEFINE y == Pick(T)
             rest == (T \ {x}) \ {y}
  <2>1. y \in T \ {x} /\ x \in T \ {y} /\ rest = (T \ {y}) \ {x}
    BY <1>0, <1>2
  <2>2. PointsOf(T) = y.score + PointsOf(T \ {y})
    BY <1>0, <1>2
  <2>3. PointsOf(T \ {y}) = x.score + PointsOf(rest)
    BY <1>2, <2>1
  <2>4. PointsOf(T \ {x}) = y.score + PointsOf(rest)
    BY <1>2, <2>1
  <2>5. x.score \in Int /\ y.score \in Int /\ PointsOf(rest) \in Int
    BY <1>0, <2>1
  <2> HIDE DEF y, rest
  <2> QED
    BY <2>2, <2>3, <2>4, <2>5
<1> HIDE DEF F
<1>3. SUBSET S \subseteq F
  BY <1>1, <1>2, SubsetsByInduction
<1> QED
  BY <1>3 DEF F

\* Results of other rules only add to the points, and so do higher scores: if
\* each result on the left has one of its rule on the right with no fewer.
OneEach(S) == \A r, s \in S : r.rule = s.rule => r = s
Outdone(S, T) == \A r \in S : \E s \in T : s.rule = r.rule /\ s.score >= r.score
Scored(S) == IsFiniteSet(S) /\ \A r \in S : r.score \in Int /\ r.score >= 0

LEMMA PointsNonNegative == ASSUME NEW S, Scored(S) PROVE PointsOf(S) \in Int /\ PointsOf(S) >= 0
<1> DEFINE F == {T \in SUBSET S : PointsOf(T) >= 0}
<1>0. \A T \in SUBSET S : PointsOf(T) \in Int
  BY PointsByRecursion DEF Scored
<1>1. {} \in F
  BY PointsByRecursion DEF Scored
<1>2. ASSUME NEW T \in SUBSET S, T # {}, \A x \in T : T \ {x} \in F PROVE T \in F
  <2>1. PICK x \in T : TRUE
    BY <1>2
  <2>2. PointsOf(T) = x.score + PointsOf(T \ {x})
    BY PointsTakeAny, FS_Subset DEF Scored
  <2>3. PointsOf(T \ {x}) >= 0 /\ PointsOf(T \ {x}) \in Int /\ x.score \in Int /\ x.score >= 0
    BY <1>0, <1>2 DEF Scored
  <2> QED
    BY <2>2, <2>3
<1> HIDE DEF F
<1>3. SUBSET S \subseteq F
  BY <1>1, <1>2, SubsetsByInduction DEF Scored
<1> QED
  BY <1>0, <1>3 DEF F

LEMMA PointsGrow ==
  ASSUME NEW S, NEW T, Scored(S), Scored(T), OneEach(S), Outdone(S, T)
  PROVE  PointsOf(S) <= PointsOf(T)
<1> DEFINE F == {A \in SUBSET S : \A B \in SUBSET T : Outdone(A, B) => PointsOf(A) <= PointsOf(B)}
<1>0. /\ \A A \in SUBSET S : PointsOf(A) \in Int
      /\ \A B \in SUBSET T : PointsOf(B) \in Int /\ PointsOf(B) >= 0
      /\ PointsOf({}) = 0
  <2>1. \A B \in SUBSET T : Scored(B)
    BY FS_Subset DEF Scored
  <2> QED
    BY <2>1, PointsByRecursion, PointsNonNegative DEF Scored
<1>1. {} \in F
  BY <1>0
<1>2. ASSUME NEW A \in SUBSET S, A # {}, \A x \in A : A \ {x} \in F PROVE A \in F
  <2> SUFFICES ASSUME NEW B \in SUBSET T, Outdone(A, B) PROVE PointsOf(A) <= PointsOf(B)
    OBVIOUS
  <2>1. PICK a \in A : TRUE
    BY <1>2
  <2>2. PICK b \in B : b.rule = a.rule /\ b.score >= a.score
    BY DEF Outdone
  <2>3. Outdone(A \ {a}, B \ {b})
    BY <2>2 DEF Outdone, OneEach
  <2>4. PointsOf(A \ {a}) <= PointsOf(B \ {b})
    BY <1>2, <2>3
  <2>5. PointsOf(A) = a.score + PointsOf(A \ {a}) /\ PointsOf(B) = b.score + PointsOf(B \ {b})
    BY PointsTakeAny, FS_Subset DEF Scored
  <2>6. a.score \in Int /\ b.score \in Int /\ PointsOf(A \ {a}) \in Int /\ PointsOf(B \ {b}) \in Int
    BY <1>0 DEF Scored
  <2> QED
    BY <2>2, <2>4, <2>5, <2>6
<1> HIDE DEF F
<1>3. SUBSET S \subseteq F
  BY <1>1, <1>2, SubsetsByInduction DEF Scored
<1> QED
  BY <1>3 DEF F
-----------------------------------------------------------------------------
\* How the label and the risk level depend on what was found.

Score == {n \in Int : n >= 0}

\* The label is chosen by evidence: a special score that is at least both
\* others is 0 only if all three are.
LEMMA LabelByEvidence ==
  ASSUME NEW s, \A c \in Special : s[c] \in Score, NEW dangerous \in BOOLEAN
  PROVE  /\ Label(s, dangerous) = "phishing" => s["phishing"] > 0
         /\ Label(s, dangerous) = "scam" => s["scam"] > 0
         /\ Label(s, dangerous) = "malicious_attachment" => dangerous \/ s["attachment"] > 0
         /\ Label(s, dangerous) \in {"spam", "phishing", "scam", "malicious_attachment"}
<1>1. s["phishing"] \in Score /\ s["scam"] \in Score /\ s["attachment"] \in Score
  BY DEF Special
<1> QED
  BY <1>1 DEF Label, ByScore, Dominates, NoEvidence, Special, Score

\* The special scores and the dangerous results so far decide whether a
\* high-risk total keeps the label "spam".
LEMMA LabelIsSpam ==
  ASSUME NEW s, \A c \in Special : s[c] \in Score, NEW dangerous \in BOOLEAN
  PROVE  Label(s, dangerous) = "spam" <=> ~ dangerous /\ NoEvidence(s)
<1>1. s["phishing"] \in Score /\ s["scam"] \in Score /\ s["attachment"] \in Score
  BY DEF Special
<1> QED
  BY <1>1 DEF Label, ByScore, Dominates, NoEvidence, Special, Score

\* Higher totals, and labels that only leave "spam", do not lower the risk.
LEMMA RiskGrows ==
  ASSUME NEW t \in Threshold, NEW total \in Int, NEW more \in Int, more >= total,
         NEW s, NEW d, NEW r, NEW e,
         Label(r, e) = "spam" => Label(s, d) = "spam"
  PROVE  RiskLevel(Classify(t, r, more, e)) >= RiskLevel(Classify(t, s, total, d))
<1>1. t.clean_max \in Int /\ t.suspicious_max \in Int /\ t.spam_max \in Int
  BY DEF Threshold
<1> DEFINE Level(label) == RiskLevel(label)
<1>2. Level("clean") = 0 /\ Level("suspicious") = 1 /\ Level("spam") = 2
  BY DEF RiskLevel
<1>3. Label(s, d) = "spam" \/ Level(Label(s, d)) = 3
  BY DEF Label, ByScore, RiskLevel
<1>4. Label(r, e) = "spam" \/ Level(Label(r, e)) = 3
  BY DEF Label, ByScore, RiskLevel
<1> HIDE DEF Level
<1>5. Level(Classify(t, r, more, e)) >= Level(Classify(t, s, total, d))
  BY <1>1, <1>2, <1>3, <1>4 DEF Classify
<1> QED
  BY <1>5 DEF Level
-----------------------------------------------------------------------------
\* The results of the rules: each rule has one, and few points.

SenderRules == {"blacklisted", "freemail_brand_claim"}
SpamRules == {"excessive_capitalization", "excessive_punctuation"}
ImpersonationRules == {"brand_impersonation", "sender_replyto_mismatch"}
UrlRules == {"ip_address_url", "shortener", "punycode_domain", "excessive_subdomains", "display_mismatch",
             "lookalike_domain", "suspicious_login_keywords"}
AttachmentRules == {"dangerous_extension", "executable", "macro_enabled", "double_extension", "archive"}
HeaderRules == {"return_path_mismatch", "missing_message_id", "display_name_spoofing"}
AuthenticationRules == {"spf_fail", "dkim_fail", "dmarc_fail", "all_failed"}

\* What is the same of every group of rules.
Few(r) ==
  \/ r.score \in 0 .. 27
  \/ r.rule = "blacklisted" /\ r.score = 40
  \/ r.rule = "executable" /\ r.score = 30

Group(S, names) == OneEach(S) /\ \A r \in S : r.rule \in names /\ Few(r)

LEMMA FixedGroups ==
  ASSUME NEW m
  PROVE  /\ Group(SenderResults(m), SenderRules)
         /\ Group(SpamResults(m), SpamRules)
         /\ Group(UrlResults(m), UrlRules)
         /\ Group(AttachmentResults(m), AttachmentRules)
         /\ Group(HeaderResults(m), HeaderRules)
         /\ Group(AuthenticationResults(m), AuthenticationRules)
<1> USE DEF Group, OneEach, Few, Hit
<1>1. Group(SenderResults(m), SenderRules)
  BY DEF SenderResults, SenderRules
<1>2. Group(SpamResults(m), SpamRules)
  BY DEF SpamResults, SpamRules
<1>3. Group(UrlResults(m), UrlRules)
  BY DEF UrlResults, UrlRules
<1>4. Group(AttachmentResults(m), AttachmentRules)
  BY DEF AttachmentResults, AttachmentRules
<1>5. Group(HeaderResults(m), HeaderRules)
  BY DEF HeaderResults, HeaderRules
<1>6. Group(AuthenticationResults(m), AuthenticationRules)
  BY DEF AuthenticationResults, AuthenticationRules
<1> QED
  BY <1>1, <1>2, <1>3, <1>4, <1>5, <1>6

LEMMA PhishingGroup == ASSUME NEW m PROVE Group(PhishingResults(m), ImpersonationRules)
<1> DEFINE twelve == 12 + (IF is_lookalike_domain(m.sender, FirstNamed(Of(m, "subject") \cup Of(m, "display"))) THEN 15 ELSE 0)
<1>1. \A r \in Impersonation(m) : r = [rule |-> "brand_impersonation", category |-> "phishing", score |-> twelve]
  BY DEF Hit, Impersonation
<1>2. \A r \in PhishingResults(m) :
        \/ r = [rule |-> "brand_impersonation", category |-> "phishing", score |-> twelve]
        \/ r = [rule |-> "sender_replyto_mismatch", category |-> "phishing", score |-> 15]
  BY <1>1 DEF Hit, PhishingResults
<1>3. twelve \in {12, 27}
  OBVIOUS
<1> HIDE DEF twelve
<1> QED
  BY <1>2, <1>3 DEF Group, OneEach, Few, ImpersonationRules
\* The phrase lists, and how many phrases of one there can be in a message.
ListRules ==
  {"subject_keywords", "promotional_language"}
  \cup {"lottery_prize", "investment_crypto", "inheritance", "fake_job", "fake_refund", "urgent_money_transfer",
        "fake_invoice", "emotional_manipulation"}
  \cup {"credential_request", "suspension_threat"}

LEMMA TheLists ==
  /\ DOMAIN Lists = ListRules
  /\ \A l \in DOMAIN Lists :
       \/ Lists[l].score \in 0 .. 25 /\ Lists[l].more = 0 /\ Lists[l].least \in {1, 2}
       \/ Lists[l].score = 10 /\ Lists[l].more = 2 /\ Lists[l].least = 2
<1> DEFINE Fine(L) == \A l \in DOMAIN L :
             \/ L[l].score \in 0 .. 25 /\ L[l].more = 0 /\ L[l].least \in {1, 2}
             \/ L[l].score = 10 /\ L[l].more = 2 /\ L[l].least = 2
<1>1. DOMAIN SpamLists = {"subject_keywords", "promotional_language"} /\ Fine(SpamLists)
  BY DEF SpamLists, PhraseList
<1>2. DOMAIN ScamLists = {"lottery_prize", "investment_crypto", "inheritance", "fake_job", "fake_refund",
                          "urgent_money_transfer", "fake_invoice", "emotional_manipulation"}
      /\ Fine(ScamLists)
  BY DEF ScamLists, PhraseList
<1>3. DOMAIN PhishingLists = {"credential_request", "suspension_threat"} /\ Fine(PhishingLists)
  BY DEF PhishingLists, PhraseList
<1> HIDE DEF Fine
<1>4. DOMAIN Lists = (DOMAIN SpamLists) \cup (DOMAIN ScamLists) \cup (DOMAIN PhishingLists)
  BY DEF Lists
<1>5. \A l \in DOMAIN Lists :
        \/ l \in DOMAIN SpamLists /\ Lists[l] = SpamLists[l]
        \/ l \in DOMAIN ScamLists /\ Lists[l] = ScamLists[l]
        \/ l \in DOMAIN PhishingLists /\ Lists[l] = PhishingLists[l]
  BY DEF Lists
<1>6. Fine(Lists)
  BY <1>1, <1>2, <1>3, <1>5 DEF Fine
<1> QED
  BY <1>1, <1>2, <1>3, <1>4, <1>6 DEF Fine, ListRules

LEMMA PhraseCount ==
  ASSUME NEW m, m.pieces \subseteq Pieces, NEW list
  PROVE  /\ IsFiniteSet({p \in Of(m, "phrase") : p[1] = list})
         /\ PhrasesIn(m, list) \in 0 .. 10
<1> DEFINE P == {p \in Of(m, "phrase") : p[1] = list}
           f == [p \in P |-> p[2]]
<1>1. MaxPhrases \in Nat /\ MaxPhrases <= 10
  BY RulesAssumption DEF RulesAssumption
<1>2. Of(m, "phrase") \subseteq (DOMAIN Lists) \X (1 .. MaxPhrases)
  BY DEF Of, Pieces
<1>3. \A p \in P : p = <<list, p[2]>> /\ p[2] \in 1 .. MaxPhrases
  BY <1>2
<1> HIDE DEF P
<1>4. f \in Injection(P, 1 .. MaxPhrases)
  BY <1>3 DEF Injection, IsInjective
<1>5. IsFiniteSet(1 .. MaxPhrases) /\ Cardinality(1 .. MaxPhrases) = MaxPhrases
  BY <1>1, FS_Interval
<1>6. IsFiniteSet(P) /\ Cardinality(P) <= MaxPhrases
  BY <1>4, <1>5, FS_Injection
<1>7. Cardinality(P) \in Nat
  BY <1>6, FS_CardinalityType
<1> QED
  BY <1>1, <1>6, <1>7 DEF P, PhrasesIn
\* The result a phrase list gives, if it gives one.
PhraseHit(m, list) ==
  [rule |-> list, category |-> Lists[list].category,
   score |-> Lists[list].score + Lists[list].more * (PhrasesIn(m, list) - Lists[list].least)]

LEMMA PhraseHits ==
  ASSUME NEW m, NEW r
  PROVE  r \in PhraseResults(m) <=>
           \E list \in DOMAIN Lists : PhrasesIn(m, list) >= Lists[list].least /\ r = PhraseHit(m, list)
<1> DEFINE hits(list) == Hit(list, Lists[list].category,
                             Lists[list].score + Lists[list].more * (PhrasesIn(m, list) - Lists[list].least),
                             PhrasesIn(m, list) >= Lists[list].least)
<1>1. PhraseResults(m) = UNION {hits(list) : list \in DOMAIN Lists}
  BY Zenon DEF PhraseResults
<1>2. \A list : r \in hits(list) <=> PhrasesIn(m, list) >= Lists[list].least /\ r = PhraseHit(m, list)
  BY DEF Hit, PhraseHit
<1> HIDE DEF hits
<1> QED
  BY <1>1, <1>2

LEMMA PhraseGroup ==
  ASSUME NEW m, m.pieces \subseteq Pieces
  PROVE  Group(PhraseResults(m), ListRules)
<1>1. ASSUME NEW r \in PhraseResults(m) PROVE Few(r)
  <2>1. PICK list \in DOMAIN Lists : PhrasesIn(m, list) >= Lists[list].least /\ r = PhraseHit(m, list)
    BY PhraseHits
  <2>2. r.score = Lists[list].score + Lists[list].more * (PhrasesIn(m, list) - Lists[list].least)
    BY <2>1 DEF PhraseHit
  <2>3. PhrasesIn(m, list) \in 0 .. 10
    BY PhraseCount
  <2>4. CASE Lists[list].score \in 0 .. 25 /\ Lists[list].more = 0 /\ Lists[list].least \in {1, 2}
    <3>1. r.score = Lists[list].score
      BY <2>2, <2>3, <2>4
    <3> QED
      BY <2>4, <3>1 DEF Few
  <2>5. CASE Lists[list].score = 10 /\ Lists[list].more = 2 /\ Lists[list].least = 2
    <3>1. r.score = 10 + 2 * (PhrasesIn(m, list) - 2) /\ PhrasesIn(m, list) >= 2
      BY <2>1, <2>2, <2>5
    <3> QED
      BY <2>3, <3>1 DEF Few
  <2> QED
    BY <2>4, <2>5, TheLists
<1>2. \A r \in PhraseResults(m) : \E list \in DOMAIN Lists : r = PhraseHit(m, list) /\ r.rule = list
  BY PhraseHits DEF PhraseHit
<1> QED
  BY <1>1, <1>2, TheLists DEF Group, OneEach

LEMMA EightAreFinite ==
  ASSUME NEW a, NEW b, NEW c, NEW d, NEW e, NEW f, NEW g, NEW h
  PROVE  IsFiniteSet({a, b, c, d, e, f, g, h})
<1> DEFINE S == {a, b, c, d, e, f, g, h}
           s == <<a, b, c, d, e, f, g, h>>
<1>1. s \in [1 .. 8 -> S]
  OBVIOUS
<1>2. \A x \in S : \E i \in 1 .. 8 : s[i] = x
  BY s[1] = a, s[2] = b, s[3] = c, s[4] = d, s[5] = e, s[6] = f, s[7] = g, s[8] = h
<1> HIDE DEF S, s
<1>3. s \in Surjection(1 .. 8, S)
  BY <1>1, <1>2 DEF Surjection
<1>4. IsFiniteSet(1 .. 8)
  <2>1. 1 \in Int /\ 8 \in Int
    OBVIOUS
  <2> QED
    BY <2>1, FS_Interval, Zenon
<1>5. IsFiniteSet(S)
  BY <1>3, <1>4, FS_Surjection
<1> QED
  BY <1>5 DEF S

RuleNames ==
  SenderRules \cup SpamRules \cup ListRules \cup ImpersonationRules
  \cup UrlRules \cup AttachmentRules \cup HeaderRules \cup AuthenticationRules

LEMMA RuleNamesFinite == IsFiniteSet(RuleNames)
<1>1. \A a, b, c, d, e, f, g, h : IsFiniteSet({a, b, c, d, e, f, g, h})
  BY EightAreFinite
<1>2. IsFiniteSet({"blacklisted", "freemail_brand_claim", "excessive_capitalization", "excessive_punctuation",
                   "brand_impersonation", "sender_replyto_mismatch", "credential_request", "suspension_threat"})
  BY <1>1, Zenon
<1>3. IsFiniteSet({"ip_address_url", "shortener", "punycode_domain", "excessive_subdomains", "display_mismatch",
                   "lookalike_domain", "suspicious_login_keywords", "subject_keywords"})
  BY <1>1, Zenon
<1>4. IsFiniteSet({"lottery_prize", "investment_crypto", "inheritance", "fake_job", "fake_refund",
                   "urgent_money_transfer", "fake_invoice", "emotional_manipulation"})
  BY <1>1, Zenon
<1>5. IsFiniteSet({"dangerous_extension", "executable", "macro_enabled", "double_extension", "archive",
                   "return_path_mismatch", "missing_message_id", "display_name_spoofing"})
  BY <1>1, Zenon
<1>6. IsFiniteSet({"spf_fail", "dkim_fail", "dmarc_fail", "all_failed", "promotional_language",
                   "promotional_language", "promotional_language", "promotional_language"})
  BY <1>1, Zenon
<1>7. \A S, T : IsFiniteSet(S) /\ IsFiniteSet(T) => IsFiniteSet(S \cup T)
  BY FS_Union
<1> DEFINE A == {"blacklisted", "freemail_brand_claim", "excessive_capitalization", "excessive_punctuation",
                 "brand_impersonation", "sender_replyto_mismatch", "credential_request", "suspension_threat"}
           B == {"ip_address_url", "shortener", "punycode_domain", "excessive_subdomains", "display_mismatch",
                 "lookalike_domain", "suspicious_login_keywords", "subject_keywords"}
           C == {"lottery_prize", "investment_crypto", "inheritance", "fake_job", "fake_refund",
                 "urgent_money_transfer", "fake_invoice", "emotional_manipulation"}
           D == {"dangerous_extension", "executable", "macro_enabled", "double_extension", "archive",
                 "return_path_mismatch", "missing_message_id", "display_name_spoofing"}
           E == {"spf_fail", "dkim_fail", "dmarc_fail", "all_failed", "promotional_language",
                 "promotional_language", "promotional_language", "promotional_language"}
<1>8. RuleNames \subseteq (A \cup B) \cup (C \cup (D \cup E))
  BY DEF RuleNames, SenderRules, SpamRules, ListRules, ImpersonationRules, UrlRules, AttachmentRules, HeaderRules,
         AuthenticationRules
<1>9. IsFiniteSet(A) /\ IsFiniteSet(B) /\ IsFiniteSet(C) /\ IsFiniteSet(D) /\ IsFiniteSet(E)
  BY <1>2, <1>3, <1>4, <1>5, <1>6
<1> HIDE DEF A, B, C, D, E
<1>10. IsFiniteSet((A \cup B) \cup (C \cup (D \cup E)))
  BY <1>7, <1>9, Zenon
<1> QED
  BY <1>8, <1>10, FS_Subset

\* All the groups together.
LEMMA TwoGroups ==
  ASSUME NEW S, NEW T, NEW names, NEW others, Group(S, names), Group(T, others), names \cap others = {}
  PROVE  Group(S \cup T, names \cup others)
  BY DEF Group, OneEach

LEMMA ResultsAreAGroup ==
  ASSUME NEW m, m.pieces \subseteq Pieces
  PROVE  Group(Results(m), RuleNames)
<1> USE DEF SenderRules, SpamRules, ListRules, ImpersonationRules, UrlRules, AttachmentRules, HeaderRules,
            AuthenticationRules
<1>1. /\ SenderRules \cap SpamRules = {}
      /\ (SenderRules \cup SpamRules) \cap ListRules = {}
      /\ (SenderRules \cup SpamRules \cup ListRules) \cap ImpersonationRules = {}
      /\ (SenderRules \cup SpamRules \cup ListRules \cup ImpersonationRules) \cap UrlRules = {}
      /\ (SenderRules \cup SpamRules \cup ListRules \cup ImpersonationRules \cup UrlRules) \cap AttachmentRules = {}
  OBVIOUS
<1>2. (SenderRules \cup SpamRules \cup ListRules \cup ImpersonationRules \cup UrlRules \cup AttachmentRules)
        \cap HeaderRules = {}
  OBVIOUS
<1>3. (SenderRules \cup SpamRules \cup ListRules \cup ImpersonationRules \cup UrlRules \cup AttachmentRules
        \cup HeaderRules) \cap AuthenticationRules = {}
  OBVIOUS
<1> HIDE DEF SenderRules, SpamRules, ListRules, ImpersonationRules, UrlRules, AttachmentRules, HeaderRules,
             AuthenticationRules
<1>4. /\ Group(SenderResults(m), SenderRules)
      /\ Group(SpamResults(m), SpamRules)
      /\ Group(PhraseResults(m), ListRules)
      /\ Group(PhishingResults(m), ImpersonationRules)
      /\ Group(UrlResults(m), UrlRules)
      /\ Group(AttachmentResults(m), AttachmentRules)
      /\ Group(HeaderResults(m), HeaderRules)
      /\ Group(AuthenticationResults(m), AuthenticationRules)
  BY FixedGroups, PhishingGroup, PhraseGroup
<1>5. Group(SenderResults(m) \cup SpamResults(m), SenderRules \cup SpamRules)
  BY <1>1, <1>4, TwoGroups, Zenon
<1>6. Group(SenderResults(m) \cup SpamResults(m) \cup PhraseResults(m), SenderRules \cup SpamRules \cup ListRules)
  BY <1>1, <1>4, <1>5, TwoGroups, Zenon
<1>7. Group(SenderResults(m) \cup SpamResults(m) \cup PhraseResults(m) \cup PhishingResults(m),
            SenderRules \cup SpamRules \cup ListRules \cup ImpersonationRules)
  BY <1>1, <1>4, <1>6, TwoGroups, Zenon
<1>8. Group(SenderResults(m) \cup SpamResults(m) \cup PhraseResults(m) \cup PhishingResults(m) \cup UrlResults(m),
            SenderRules \cup SpamRules \cup ListRules \cup ImpersonationRules \cup UrlRules)
  BY <1>1, <1>4, <1>7, TwoGroups, Zenon
<1>9. Group(SenderResults(m) \cup SpamResults(m) \cup PhraseResults(m) \cup PhishingResults(m) \cup UrlResults(m)
              \cup AttachmentResults(m),
            SenderRules \cup SpamRules \cup ListRules \cup ImpersonationRules \cup UrlRules \cup AttachmentRules)
  BY <1>1, <1>4, <1>8, TwoGroups, Zenon
<1>10. Group(SenderResults(m) \cup SpamResults(m) \cup PhraseResults(m) \cup PhishingResults(m) \cup UrlResults(m)
               \cup AttachmentResults(m) \cup HeaderResults(m),
             SenderRules \cup SpamRules \cup ListRules \cup ImpersonationRules \cup UrlRules \cup AttachmentRules
               \cup HeaderRules)
  BY <1>2, <1>4, <1>9, TwoGroups, Zenon
<1>11. Group(SenderResults(m) \cup SpamResults(m) \cup PhraseResults(m) \cup PhishingResults(m) \cup UrlResults(m)
               \cup AttachmentResults(m) \cup HeaderResults(m) \cup AuthenticationResults(m), RuleNames)
  BY <1>3, <1>4, <1>10, TwoGroups, Zenon DEF RuleNames
<1> QED
  BY <1>11, Zenon DEF Results

LEMMA ResultsAreScored ==
  ASSUME NEW m, m.pieces \subseteq Pieces
  PROVE  Scored(Results(m)) /\ OneEach(Results(m)) /\ \A r \in Results(m) : Few(r)
<1> DEFINE R == Results(m)
           ruleOf == [r \in R |-> r.rule]
<1>1. Group(R, RuleNames)
  BY ResultsAreAGroup
<1> HIDE DEF R
<1>2. OneEach(R) /\ \A r \in R : r.rule \in RuleNames /\ Few(r)
  BY <1>1 DEF Group
<1>3. ruleOf \in Injection(R, RuleNames)
  BY <1>2 DEF Injection, IsInjective, OneEach
<1>4. IsFiniteSet(R)
  BY <1>3, RuleNamesFinite, FS_Injection
<1>5. \A r \in R : r.score \in Int /\ r.score >= 0
  BY <1>2 DEF Few
<1> QED
  BY <1>2, <1>4, <1>5 DEF R, Scored
-----------------------------------------------------------------------------
\* The message that is written, and what is found in it.
MailInv ==
  /\ mail = [sender |-> mail.sender, pieces |-> mail.pieces]
  /\ mail.pieces \subseteq Pieces /\ IsFiniteSet(mail.pieces)
  /\ found = Results(mail)

LEMMA MailAlways == MailSpec => []MailInv
<1>1. MailInit => MailInv
  <2> SUFFICES ASSUME MailInit PROVE MailInv
    OBVIOUS
  <2>1. mail \in [sender : Senders, pieces : {{}}] /\ found = Results(mail)
    BY DEF MailInit
  <2>2. mail = [sender |-> mail.sender, pieces |-> mail.pieces] /\ mail.pieces = {}
    BY <2>1
  <2> QED
    BY <2>1, <2>2, FS_EmptySet DEF MailInv
<1>2. MailInv /\ [MailNext]_mailVars => MailInv'
  <2> SUFFICES ASSUME MailInv, [MailNext]_mailVars PROVE MailInv'
    OBVIOUS
  <2>1. CASE Misspell
    <3>1. PICK word : mail' = [mail EXCEPT !.sender[1][1] = word]
      BY <2>1 DEF Misspell
    <3>2. mail' = [mail EXCEPT !.sender = [mail.sender EXCEPT ![1] = [mail.sender[1] EXCEPT ![1] = word]]]
      BY <3>1, Zenon
    <3>3. mail' = [sender |-> mail'.sender, pieces |-> mail'.pieces] /\ mail'.pieces = mail.pieces
      BY <3>2 DEF MailInv
    <3>4. found' = Results(mail')
      BY <2>1 DEF Misspell, Change
    <3> QED
      BY <3>3, <3>4 DEF MailInv
  <2>2. ASSUME NEW p \in Pieces, AddEvidence(p) PROVE MailInv'
    <3>1. mail' = [mail EXCEPT !.pieces = @ \cup {p}] /\ found' = Results(mail')
      BY <2>2 DEF AddEvidence, Change
    <3>2. mail' = [sender |-> mail'.sender, pieces |-> mail'.pieces] /\ mail'.pieces = mail.pieces \cup {p}
      BY <3>1 DEF MailInv
    <3>3. IsFiniteSet(mail.pieces \cup {p})
      BY FS_AddElement DEF MailInv
    <3> QED
      BY <3>1, <3>2, <3>3 DEF MailInv
  <2>3. CASE UNCHANGED mailVars
    BY <2>3 DEF mailVars, MailInv
  <2> QED
    BY <2>1, <2>2, <2>3 DEF MailNext
<1> QED
  BY <1>1, <1>2, PTL DEF MailSpec

\* Two rules, neither of them the blacklist, give 57 points at most: 30 for an
\* executable and 27 for a look-alike of a brand.
LEMMA TwoRulesAreWeak ==
  ASSUME NEW m, m.pieces \subseteq Pieces, <<"sign", "blacklisted">> \notin m.pieces,
         ~ (Cardinality(Results(m)) >= 3)
  PROVE  PointsOf(Results(m)) \in Int /\ PointsOf(Results(m)) <= 57
<1> DEFINE R == Results(m)
<1>1. IsFiniteSet(R) /\ OneEach(R) /\ Scored(R) /\ \A r \in R : Few(r) /\ r.score \in Int
  BY ResultsAreScored DEF Scored
<1>2. \A r \in R : r.rule # "blacklisted"
  <2> SUFFICES ASSUME NEW r \in R, r.rule = "blacklisted" PROVE FALSE
    OBVIOUS
  <2>1. r \in SenderResults(m)
    <3>1. "blacklisted" \notin SpamRules \cup ListRules \cup ImpersonationRules \cup UrlRules \cup AttachmentRules
                                 \cup HeaderRules \cup AuthenticationRules
      BY DEF SpamRules, ListRules, ImpersonationRules, UrlRules, AttachmentRules, HeaderRules, AuthenticationRules
    <3> QED
      BY <3>1, FixedGroups, PhishingGroup, PhraseGroup DEF Results, Group
  <2>2. "blacklisted" \in Of(m, "sign")
    BY <2>1 DEF SenderResults, Hit
  <2>3. \A p \in m.pieces : p = <<p[1], p[2]>>
    BY DEF Pieces
  <2> QED
    BY <2>2, <2>3 DEF Of
<1> HIDE DEF R
<1>3. /\ \A S \in SUBSET R : IsFiniteSet(S)
      /\ \A S \in SUBSET R : PointsOf(S) \in Int
      /\ \A S \in SUBSET R : \A x \in S : PointsOf(S) = x.score + PointsOf(S \ {x})
      /\ PointsOf({}) = 0
  <2>1. \A S \in SUBSET R : IsFiniteSet(S) /\ \A r \in S : r.score \in Int
    BY <1>1, FS_Subset
  <2> QED
    BY <1>1, <2>1, PointsByRecursion, PointsTakeAny
<1>4. \A r \in R : r.score <= 27 \/ (r.rule = "executable" /\ r.score = 30)
  BY <1>1, <1>2 DEF Few
<1>5. CASE R = {}
  BY <1>3, <1>5 DEF R
<1>6. ASSUME NEW x \in R PROVE PointsOf(R) \in Int /\ PointsOf(R) <= 57
  <2>1. PointsOf(R) = x.score + PointsOf(R \ {x})
    BY <1>3
  <2>2. CASE R \ {x} = {}
    BY <1>1, <1>3, <1>4, <2>1, <2>2
  <2>3. ASSUME NEW y \in R \ {x} PROVE PointsOf(R) \in Int /\ PointsOf(R) <= 57
    <3>1. (R \ {x}) \ {y} = {}
      <4>1. Cardinality(R \ {x}) = Cardinality(R) - 1 /\ IsFiniteSet(R \ {x}) /\ Cardinality(R) \in Nat
        BY <1>1, OneLess, FS_CardinalityType
      <4>2. Cardinality((R \ {x}) \ {y}) = Cardinality(R \ {x}) - 1 /\ Cardinality((R \ {x}) \ {y}) \in Nat
            /\ IsFiniteSet((R \ {x}) \ {y})
        BY <4>1, OneLess
      <4>3. Cardinality((R \ {x}) \ {y}) = 0
        BY <4>1, <4>2 DEF R
      <4> QED
        BY <4>2, <4>3, FS_EmptySet
    <3>2. PointsOf(R \ {x}) = y.score + PointsOf((R \ {x}) \ {y})
      BY <1>3
    <3>3. PointsOf(R) = x.score + y.score
      BY <1>1, <1>3, <2>1, <3>1, <3>2
    <3>4. x.rule # y.rule
      BY <1>1 DEF OneEach
    <3> QED
      BY <1>1, <1>4, <3>3, <3>4
  <2> QED
    BY <2>2, <2>3
<1> QED
  BY <1>5, <1>6 DEF R

\* A verdict of phishing or scam rests on three rules, or on the blacklist: for
\* any lists, brands and domains, two rules do not come to 60 points ("Weak
\* evidence -> SUSPICIOUS, not a hard claim", phishing_rules.py:1).
THEOREM CorroboratedVerdicts == MailSpec => []VerdictsAreCorroborated
<1>1. MailInv => VerdictsAreCorroborated
  <2> SUFFICES ASSUME MailInv, <<"sign", "blacklisted">> \notin mail.pieces, ~ (Cardinality(found) >= 3)
               PROVE  ClassOf(Defaults, found) \notin {"phishing", "scam"}
    BY DEF VerdictsAreCorroborated
  <2>1. PointsOf(found) \in Int /\ PointsOf(found) <= 57
    BY TwoRulesAreWeak DEF MailInv
  <2>2. Defaults.spam_max = 59
    BY DEF Defaults
  <2>3. ClassOf(Defaults, found) \in {"clean", "suspicious", "spam"}
    <3>1. \E s, d : ClassOf(Defaults, found) = Classify(Defaults, s, PointsOf(found), d)
      BY Zenon DEF ClassOf
    <3>2. PointsOf(found) <= Defaults.spam_max
      BY <2>1, <2>2
    <3> QED
      BY <3>1, <3>2 DEF Classify
  <2> QED
    BY <2>3
<1> QED
  BY <1>1, MailAlways, PTL
-----------------------------------------------------------------------------
\* A message with more evidence: each rule that matched still does, and gives
\* no fewer points.
AtLeast(S, T) == \A r \in S : \E s \in T : s.rule = r.rule /\ s.category = r.category /\ s.score >= r.score

LEMMA OfGrows == ASSUME NEW m, NEW n, m.pieces \subseteq n.pieces, NEW kind PROVE Of(m, kind) \subseteq Of(n, kind)
  BY DEF Of

LEMMA OfFinite == ASSUME NEW m, IsFiniteSet(m.pieces), NEW kind PROVE IsFiniteSet(Of(m, kind))
<1> DEFINE P == {q \in m.pieces : q[1] = kind}
           f == [p \in P |-> p[2]]
<1>1. IsFiniteSet(P)
  BY FS_Subset
<1>2. f \in Surjection(P, Of(m, kind))
  BY DEF Surjection, Of
<1> HIDE DEF P, f
<1> QED
  BY <1>1, <1>2, FS_Surjection

LEMMA OneAtMost ==
  ASSUME NEW S, IsFiniteSet(S), Cardinality(S) <= 1
  PROVE  \A x, y \in S : x = y
<1> SUFFICES ASSUME NEW x \in S, NEW y \in S \ {x} PROVE FALSE
  OBVIOUS
<1>1. IsFiniteSet(S \ {x}) /\ Cardinality(S \ {x}) = Cardinality(S) - 1 /\ Cardinality(S) \in Nat
  BY OneLess, FS_CardinalityType
<1>2. Cardinality((S \ {x}) \ {y}) = Cardinality(S \ {x}) - 1 /\ Cardinality((S \ {x}) \ {y}) \in Nat
  BY <1>1, OneLess
<1> QED
  BY <1>1, <1>2

\* The first brand that is named stays the first while there is no other.
LEMMA SameBrand ==
  ASSUME NEW A, NEW B, A \subseteq B, \A x, y \in B : x = y, FirstNamed(A) # 0
  PROVE  FirstNamed(B) = FirstNamed(A)
<1>1. A # {}
  BY DEF FirstNamed
<1>2. A = B
  BY <1>1
<1> QED
  BY <1>2

\* That this message has all the evidence of that one, and names one brand.
Enriches(n, m) ==
  /\ n.sender = m.sender
  /\ m.pieces \subseteq n.pieces /\ n.pieces \subseteq Pieces /\ IsFiniteSet(n.pieces)
  /\ \A x, y \in Named(n) : x = y

LEMMA FixedResultsGrow ==
  ASSUME NEW m, NEW n, Enriches(n, m)
  PROVE  /\ SenderResults(m) \subseteq SenderResults(n)
         /\ SpamResults(m) \subseteq SpamResults(n)
         /\ AttachmentResults(m) \subseteq AttachmentResults(n)
         /\ HeaderResults(m) \subseteq HeaderResults(n)
         /\ AuthenticationResults(m) \subseteq AuthenticationResults(n)
<1>1. \A kind : Of(m, kind) \subseteq Of(n, kind)
  BY OfGrows DEF Enriches
<1>2. Of(n, "fails") \subseteq Mechanisms
  BY DEF Enriches, Of, Pieces
<1>3. SenderResults(m) \subseteq SenderResults(n)
  BY <1>1 DEF SenderResults, Hit
<1>4. SpamResults(m) \subseteq SpamResults(n)
  BY <1>1 DEF SpamResults, Hit
<1>5. AttachmentResults(m) \subseteq AttachmentResults(n)
  BY <1>1 DEF AttachmentResults, Hit
<1>6. HeaderResults(m) \subseteq HeaderResults(n)
  BY <1>1 DEF HeaderResults, Hit
<1>7. AuthenticationResults(m) \subseteq AuthenticationResults(n)
  BY <1>1, <1>2 DEF AuthenticationResults, Hit
<1> QED
  BY <1>3, <1>4, <1>5, <1>6, <1>7

LEMMA UrlResultsGrow ==
  ASSUME NEW m, NEW n, Enriches(n, m)
  PROVE  UrlResults(m) \subseteq UrlResults(n)
<1> DEFINE brand(x) == FirstNamed(Of(x, "subject") \cup Of(x, "body"))
<1>1. Of(m, "link") \subseteq Of(n, "link")
  BY OfGrows DEF Enriches
<1>2. brand(m) # 0 => brand(n) = brand(m)
  <2>1. Of(m, "subject") \cup Of(m, "body") \subseteq Of(n, "subject") \cup Of(n, "body")
    BY OfGrows DEF Enriches
  <2>2. \A x, y \in Of(n, "subject") \cup Of(n, "body") : x = y
    BY DEF Enriches, Named
  <2> QED
    BY <2>1, <2>2, SameBrand
<1> DEFINE looks(x) == brand(x) # 0 /\ \E l \in Of(x, "link") : is_lookalike_domain(l.host.domain, brand(x))
           others(x) ==
             Hit("ip_address_url", "url", 18, \E l \in Of(x, "link") : l.host.ip)
             \cup Hit("shortener", "url", 10, \E l \in Of(x, "link") : l.host.shortener)
             \cup Hit("punycode_domain", "url", 15, \E l \in Of(x, "link") : l.host.punycode)
             \cup Hit("excessive_subdomains", "url", 8, \E l \in Of(x, "link") : subdomain_count(l.host.domain) >= 3)
             \cup Hit("display_mismatch", "url", 20,
                      \E l \in Of(x, "link") : l.shown # <<>> /\ l.host.domain # <<>> /\ l.shown # l.host.domain)
           login(x) == Hit("suspicious_login_keywords", "url", 10, \E l \in Of(x, "link") : l.login)
<1>3. \A x : UrlResults(x) = others(x) \cup Hit("lookalike_domain", "url", 22, looks(x)) \cup login(x)
  BY Zenon DEF UrlResults
<1>4. looks(m) => looks(n)
  BY <1>1, <1>2
<1>5. others(m) \subseteq others(n)
  BY <1>1 DEF Hit
<1>6. login(m) \subseteq login(n)
  BY <1>1 DEF Hit
<1>7. Hit("lookalike_domain", "url", 22, looks(m)) \subseteq Hit("lookalike_domain", "url", 22, looks(n))
  BY <1>4 DEF Hit
<1> HIDE DEF others, login, looks
<1> QED
  BY <1>3, <1>5, <1>6, <1>7

LEMMA PhishingResultsGrow ==
  ASSUME NEW m, NEW n, Enriches(n, m)
  PROVE  PhishingResults(m) \subseteq PhishingResults(n)
<1> DEFINE brand(x) == FirstNamed(Of(x, "subject") \cup Of(x, "display"))
<1>1. Of(m, "sign") \subseteq Of(n, "sign")
  BY OfGrows DEF Enriches
<1>2. brand(m) # 0 => brand(n) = brand(m)
  <2>1. Of(m, "subject") \cup Of(m, "display") \subseteq Of(n, "subject") \cup Of(n, "display")
    BY OfGrows DEF Enriches
  <2>2. \A x, y \in Of(n, "subject") \cup Of(n, "display") : x = y
    BY DEF Enriches, Named
  <2> QED
    BY <2>1, <2>2, SameBrand
<1>3. Impersonation(m) \subseteq Impersonation(n)
  <2>1. CASE brand(m) = 0
    BY <2>1 DEF Impersonation
  <2>2. CASE brand(m) # 0
    BY <1>2, <2>2 DEF Impersonation, Enriches
  <2> QED
    BY <2>1, <2>2
<1> QED
  BY <1>1, <1>3 DEF PhishingResults, Hit

LEMMA PhraseResultsGrow ==
  ASSUME NEW m, NEW n, Enriches(n, m)
  PROVE  AtLeast(PhraseResults(m), PhraseResults(n))
<1> SUFFICES ASSUME NEW r \in PhraseResults(m)
             PROVE  \E s \in PhraseResults(n) : s.rule = r.rule /\ s.category = r.category /\ s.score >= r.score
  BY DEF AtLeast
<1>1. PICK list \in DOMAIN Lists : PhrasesIn(m, list) >= Lists[list].least /\ r = PhraseHit(m, list)
  BY PhraseHits
<1>2. PhrasesIn(m, list) \in 0 .. 10 /\ PhrasesIn(n, list) \in 0 .. 10
  BY PhraseCount DEF Enriches
<1>3. PhrasesIn(n, list) >= PhrasesIn(m, list)
  <2> DEFINE P(x) == {p \in Of(x, "phrase") : p[1] = list}
  <2>1. P(m) \subseteq P(n)
    BY OfGrows DEF Enriches
  <2>2. IsFiniteSet(P(n))
    BY PhraseCount DEF Enriches
  <2>3. PhrasesIn(m, list) = Cardinality(P(m)) /\ PhrasesIn(n, list) = Cardinality(P(n))
    BY DEF PhrasesIn
  <2> HIDE DEF P
  <2>4. Cardinality(P(m)) <= Cardinality(P(n))
    BY <2>1, <2>2, FS_Subset
  <2> QED
    BY <1>2, <2>3, <2>4
<1> DEFINE s == PhraseHit(n, list)
           least == Lists[list].least
<1>4. least \in {1, 2} /\ Lists[list].score \in 0 .. 25
  BY TheLists
<1>5. s \in PhraseResults(n)
  BY <1>1, <1>2, <1>3, <1>4, PhraseHits
<1>6. s.rule = r.rule /\ s.category = r.category
  BY <1>1 DEF PhraseHit
<1>7. /\ s.score = Lists[list].score + Lists[list].more * (PhrasesIn(n, list) - least)
      /\ r.score = Lists[list].score + Lists[list].more * (PhrasesIn(m, list) - least)
  BY <1>1 DEF PhraseHit
<1>8. Lists[list].more = 0 \/ Lists[list].more = 2
  BY TheLists
<1> HIDE DEF s, least
<1>9. s.score >= r.score
  <2>1. CASE Lists[list].more = 0
    BY <1>2, <1>4, <1>7, <2>1
  <2>2. CASE Lists[list].more = 2
    BY <1>2, <1>3, <1>4, <1>7, <2>2
  <2> QED
    BY <1>8, <2>1, <2>2
<1> QED
  BY <1>5, <1>6, <1>9

LEMMA ResultsGrow ==
  ASSUME NEW m, NEW n, Enriches(n, m)
  PROVE  AtLeast(Results(m), Results(n))
<1> SUFFICES ASSUME NEW r \in Results(m)
             PROVE  \E s \in Results(n) : s.rule = r.rule /\ s.category = r.category /\ s.score >= r.score
  BY DEF AtLeast
<1>1. CASE r \in Results(n)
  <2>1. r.score \in Int
    BY <1>1, ResultsAreScored DEF Enriches, Scored
  <2> QED
    BY <1>1, <2>1
<1>2. CASE r \in PhraseResults(m)
  <2>1. PICK s \in PhraseResults(n) : s.rule = r.rule /\ s.category = r.category /\ s.score >= r.score
    BY <1>2, PhraseResultsGrow DEF AtLeast
  <2> QED
    BY <2>1 DEF Results
<1> QED
  BY <1>1, <1>2, FixedResultsGrow, UrlResultsGrow, PhishingResultsGrow DEF Results

\* What scoring and classification make of results that are outdone.
LEMMA OutdoneResultsRisk ==
  ASSUME NEW S, NEW T, Scored(S), Scored(T), OneEach(S), AtLeast(S, T), NEW t \in Threshold
  PROVE  RiskLevel(ClassOf(t, T)) >= RiskLevel(ClassOf(t, S))
<1> DEFINE breakdown(R) == [c \in Columns |-> PointsOf({r \in R : r.category = c})]
           dangerous(R) == \E r \in R : r.rule \in {"dangerous_extension", "executable", "macro_enabled"}
<1>1. \A R : ClassOf(t, R) = Classify(t, breakdown(R), PointsOf(R), dangerous(R))
  BY Zenon DEF ClassOf
<1>2. \A c \in Columns : Scored({r \in S : r.category = c}) /\ Scored({r \in T : r.category = c})
  BY FS_Subset DEF Scored
<1>3. \A c \in Columns : /\ PointsOf({r \in S : r.category = c}) \in Score
                         /\ PointsOf({r \in T : r.category = c}) \in Score
                         /\ PointsOf({r \in S : r.category = c}) <= PointsOf({r \in T : r.category = c})
  <2> SUFFICES ASSUME NEW c \in Columns
               PROVE  /\ PointsOf({r \in S : r.category = c}) \in Score
                      /\ PointsOf({r \in T : r.category = c}) \in Score
                      /\ PointsOf({r \in S : r.category = c}) <= PointsOf({r \in T : r.category = c})
    OBVIOUS
  <2> DEFINE A == {r \in S : r.category = c}
             B == {r \in T : r.category = c}
  <2>1. Scored(A) /\ Scored(B) /\ OneEach(A) /\ Outdone(A, B)
    BY <1>2 DEF OneEach, AtLeast, Outdone
  <2> HIDE DEF A, B
  <2>2. PointsOf(A) \in Score /\ PointsOf(B) \in Score /\ PointsOf(A) <= PointsOf(B)
    BY <2>1, PointsGrow, PointsNonNegative DEF Score
  <2> QED
    BY <2>2 DEF A, B
<1>4. \A c \in Special : breakdown(S)[c] \in Score /\ breakdown(T)[c] \in Score
  <2>1. \A c \in Columns : breakdown(S)[c] \in Score /\ breakdown(T)[c] \in Score
    BY <1>3
  <2>2. Special \subseteq Columns
    BY DEF Special, Columns
  <2> QED
    BY <2>1, <2>2
<1>5. \A c \in Columns : breakdown(S)[c] <= breakdown(T)[c]
  BY <1>3
<1>6. Outdone(S, T)
  BY DEF AtLeast, Outdone
<1>7. PointsOf(S) \in Int /\ PointsOf(T) \in Int /\ PointsOf(T) >= PointsOf(S)
  BY <1>6, PointsGrow, PointsNonNegative
<1>8. dangerous(S) => dangerous(T)
  BY DEF AtLeast
<1>9. dangerous(S) \in BOOLEAN /\ dangerous(T) \in BOOLEAN
  OBVIOUS
<1> HIDE DEF breakdown, dangerous
<1>10. NoEvidence(breakdown(T)) => NoEvidence(breakdown(S))
  BY <1>4, <1>5 DEF NoEvidence, Special, Columns, Score
<1>11. Label(breakdown(T), dangerous(T)) = "spam" => Label(breakdown(S), dangerous(S)) = "spam"
  BY <1>4, <1>8, <1>9, <1>10, LabelIsSpam
<1>12. RiskLevel(Classify(t, breakdown(T), PointsOf(T), dangerous(T)))
         >= RiskLevel(Classify(t, breakdown(S), PointsOf(S), dangerous(S)))
  BY <1>7, <1>11, RiskGrows
<1> QED
  BY <1>1, <1>12

\* One more piece of evidence never lowers the risk level of a message, for any
\* thresholds, brands and domains, unless it names one more brand (Results,
\* calculate_score, classify).
THEOREM EvidenceOnlyAddsUp == MailSpec => EvidenceAddsUp
<1>1. ASSUME MailInv, MailInv', [MailNext]_mailVars
      PROVE  [mail'.sender = mail.sender /\ Cardinality(Named(mail')) <= 1 =>
                \A t \in Settings : RiskLevel(ClassOf(t, found')) >= RiskLevel(ClassOf(t, found))]_mailVars
  <2> SUFFICES ASSUME ~ UNCHANGED mailVars, mail'.sender = mail.sender, Cardinality(Named(mail')) <= 1,
                      NEW t \in Settings
               PROVE  RiskLevel(ClassOf(t, found')) >= RiskLevel(ClassOf(t, found))
    OBVIOUS
  <2>1. mail.pieces \subseteq mail'.pieces
    <3>1. CASE Misspell
      <4>1. mail.pieces = {}
        BY <3>1 DEF Misspell
      <4> QED
        BY <4>1
    <3>2. ASSUME NEW p \in Pieces, AddEvidence(p) PROVE mail.pieces \subseteq mail'.pieces
      BY <1>1, <3>2 DEF AddEvidence, MailInv
    <3> QED
      BY <1>1, <3>1, <3>2 DEF MailNext
  <2>2. mail'.pieces \subseteq Pieces /\ IsFiniteSet(mail'.pieces) /\ found = Results(mail) /\ found' = Results(mail')
        /\ mail.pieces \subseteq Pieces
    BY <1>1 DEF MailInv
  <2>3. IsFiniteSet(Named(mail'))
    <3>1. IsFiniteSet(Of(mail', "subject")) /\ IsFiniteSet(Of(mail', "display")) /\ IsFiniteSet(Of(mail', "body"))
      BY <2>2, OfFinite
    <3> QED
      BY <3>1, FS_Union DEF Named
  <2>4. \A x, y \in Named(mail') : x = y
    BY <2>3, OneAtMost
  <2>5. Enriches(mail', mail)
    BY <2>1, <2>2, <2>4 DEF Enriches
  <2>6. AtLeast(found, found')
    BY <2>2, <2>5, ResultsGrow
  <2>7. Scored(found) /\ Scored(found') /\ OneEach(found)
    BY <2>2, ResultsAreScored
  <2>8. t \in Threshold
    BY ScoringAssumption DEF ScoringAssumption
  <2> QED
    BY <2>6, <2>7, <2>8, OutdoneResultsRisk
<1> QED
  BY <1>1, MailAlways, PTL DEF EvidenceAddsUp, MailSpec

-----------------------------------------------------------------------------
\* The table of levenshtein, and the distance it gives.

\* The smallest of three numbers.
Least(v, x, y, z) == v \in {x, y, z} /\ v <= x /\ v <= y /\ v <= z

LEMMA MinIsLeast ==
  ASSUME NEW x \in Nat, NEW y \in Nat, NEW z \in Nat
  PROVE  Min({x, y, z}) \in Nat /\ Least(Min({x, y, z}), x, y, z)
<1> DEFINE S == {x, y, z}
<1>1. \E v \in S : \A u \in S : v <= u
  <2>1. CASE x <= y /\ x <= z
    BY <2>1
  <2>2. CASE y <= x /\ y <= z
    BY <2>2
  <2>3. CASE z <= x /\ z <= y
    BY <2>3
  <2> QED
    BY <2>1, <2>2, <2>3
<1>2. Min(S) \in S /\ \A u \in S : Min(S) <= u
  <2> HIDE DEF S
  <2> QED
    BY <1>1, Zenon DEF Min
<1> QED
  BY <1>2 DEF Least

\* The rows of levenshtein, and the row that follows another.
TableRows(n) == {r \in Seq(Nat) : Len(r) = n + 1}
Cost(x, y) == IF x = y THEN 0 ELSE 1

Follows(row, previous, ca, b) ==
  /\ row[1] = previous[1] + 1
  /\ \A j \in 1 .. Len(b) : Least(row[j + 1], previous[j + 1] + 1, row[j] + 1, previous[j] + Cost(ca, b[j]))

LEMMA NextRowFollows ==
  ASSUME NEW S, NEW b \in Seq(S), NEW previous \in TableRows(Len(b)), NEW ca
  PROVE  NextRow(previous, ca, b) \in TableRows(Len(b)) /\ Follows(NextRow(previous, ca, b), previous, ca, b)
<1> DEFINE n == Len(b)
           D == 1 .. n
           V == {r \in Seq(Nat) : r # <<>>}
           cell(row, j) == Min({previous[j + 1] + 1, Last(row) + 1, previous[j] + (IF ca = b[j] THEN 0 ELSE 1)})
           base == <<Head(previous) + 1>>
           step == [x \in D \X V |-> Append(x[2], cell(x[2], x[1]))]
           places == [i \in DOMAIN b |-> i]
<1>0. n \in Nat /\ DOMAIN b = D /\ DOMAIN places = D /\ \A j \in D : places[j] = j
  OBVIOUS
<1>1. previous \in Seq(Nat) /\ Len(previous) = n + 1 /\ Head(previous) = previous[1] /\ previous[1] \in Nat
  BY DEF TableRows
<1>2. base \in V
  BY <1>1
<1>3. ASSUME NEW j \in D, NEW row \in V
      PROVE  /\ previous[j + 1] + 1 \in Nat /\ Last(row) + 1 \in Nat /\ previous[j] + Cost(ca, b[j]) \in Nat
             /\ cell(row, j) \in Nat
             /\ Least(cell(row, j), previous[j + 1] + 1, Last(row) + 1, previous[j] + Cost(ca, b[j]))
  <2>1. previous[j + 1] \in Nat /\ previous[j] \in Nat /\ Cost(ca, b[j]) \in Nat
    BY <1>0, <1>1 DEF Cost
  <2>2. Last(row) \in Nat
    BY DEF Last
  <2>3. previous[j + 1] + 1 \in Nat /\ Last(row) + 1 \in Nat /\ previous[j] + Cost(ca, b[j]) \in Nat
    <3>1. \A u, v \in Nat : u + 1 \in Nat /\ u + v \in Nat
      OBVIOUS
    <3> QED
      BY <2>1, <2>2, <3>1, Zenon
  <2>4. cell(row, j) = Min({previous[j + 1] + 1, Last(row) + 1, previous[j] + Cost(ca, b[j])})
    BY Zenon DEF Cost
  <2> HIDE DEF cell
  <2> DEFINE u == previous[j + 1] + 1
             v == Last(row) + 1
             w == previous[j] + Cost(ca, b[j])
  <2>5. u \in Nat /\ v \in Nat /\ w \in Nat /\ cell(row, j) = Min({u, v, w})
    BY <2>3, <2>4, Zenon
  <2> HIDE DEF u, v, w
  <2>6. cell(row, j) \in Nat /\ Least(cell(row, j), u, v, w)
    <3>1. Min({u, v, w}) \in Nat /\ Least(Min({u, v, w}), u, v, w)
      BY <2>5, MinIsLeast, Zenon
    <3> QED
      BY <2>5, <3>1, Zenon
  <2> QED
    BY <2>3, <2>6, Zenon DEF u, v, w
<1> HIDE DEF cell, base
<1>4. ASSUME NEW j \in D, NEW row \in V
      PROVE  step[<<j, row>>] = Append(row, cell(row, j)) /\ Append(row, cell(row, j)) \in V
  <2>1. row \in Seq(Nat) /\ cell(row, j) \in Nat
    BY <1>3
  <2>2. Append(row, cell(row, j)) \in Seq(Nat) /\ Append(row, cell(row, j)) # <<>>
    BY <2>1
  <2> HIDE DEF V
  <2>3. step[<<j, row>>] = Append(row, cell(row, j))
    OBVIOUS
  <2> QED
    BY <2>2, <2>3 DEF V
<1>5. step \in [D \X V -> V]
  BY <1>4
<1> HIDE DEF step, places
<1>6. \A s \in SUBSET D : s # {} => Max(s) \in D
  BY <1>0, Greatest
<1> HIDE DEF V
<1>7. PICK g \in [SUBSET D -> V] : Folds(g, n, base, step)
  BY <1>0, <1>2, <1>5, FoldExists, Zenon
<1> DEFINE Is(f) == f = [s \in SUBSET DOMAIN places |->
                          IF s = {} THEN base ELSE Append(f[s \ {Max(s)}], cell(f[s \ {Max(s)}], places[Max(s)]))]
           it == CHOOSE f : Is(f)
<1>8. NextRow(previous, ca, b) = it[DOMAIN places]
  BY Zenon DEF NextRow, FoldLeftDomain, FoldLeft, MapThenFoldSet, cell, base, places
<1>9. Is(g)
  <2>1. g[{}] = base
    BY <1>7 DEF Folds
  <2>2. ASSUME NEW s \in SUBSET D, s # {} PROVE g[s] = Append(g[s \ {Max(s)}], cell(g[s \ {Max(s)}], places[Max(s)]))
    <3>1. Max(s) \in D /\ places[Max(s)] = Max(s) /\ g[s \ {Max(s)}] \in V
      BY <1>0, <1>6, <2>2
    <3>2. g[s] = step[<<Max(s), g[s \ {Max(s)}]>>]
      BY <1>7, <2>2 DEF Folds
    <3> QED
      BY <1>4, <3>1, <3>2
  <2> QED
    BY <1>0, <2>1, <2>2
<1>10. Is(it)
  <2> HIDE DEF Is
  <2> QED
    BY <1>9, Zenon
<1> HIDE DEF it
<1>11. Unfolds(it, n, V, base, step)
  <2>1. it[{}] = base
    BY <1>10
  <2>2. ASSUME NEW s \in SUBSET D, s # {}, it[s \ {Max(s)}] \in V
        PROVE  it[s] = step[<<Max(s), it[s \ {Max(s)}]>>]
    <3>1. Max(s) \in D /\ places[Max(s)] = Max(s)
      BY <1>0, <1>6, <2>2
    <3>2. it[s] = Append(it[s \ {Max(s)}], cell(it[s \ {Max(s)}], places[Max(s)]))
      BY <1>0, <1>10, <2>2
    <3> QED
      BY <1>4, <2>2, <3>1, <3>2
  <2> QED
    BY <2>1, <2>2 DEF Unfolds
<1> HIDE DEF Is
<1>12. GoesByPlaces(it, n, V, base, step)
  BY <1>0, <1>2, <1>5, <1>11, FoldByPlaces, Zenon
<1>13. PICK p : Places(p, n, V, base, step) /\ p[n] = it[D]
  BY <1>12 DEF GoesByPlaces
<1>14. \A k \in 0 .. n : p[k] \in V
  BY <1>0, <1>13 DEF Places
<1>15. \A k \in D : p[k] = Append(p[k - 1], cell(p[k - 1], k))
  <2>1. \A k \in D : p[k - 1] \in V
    BY <1>0, <1>14
  <2>2. \A k \in D : p[k] = step[<<k, p[k - 1]>>]
    BY <1>13 DEF Places
  <2> QED
    BY <1>4, <2>1, <2>2
<1> DEFINE N == {k \in Nat : k <= n =>
                   /\ Len(p[k]) = k + 1 /\ p[k][1] = previous[1] + 1
                   /\ \A j \in 1 .. k :
                        Least(p[k][j + 1], previous[j + 1] + 1, p[k][j] + 1, previous[j] + Cost(ca, b[j]))}
<1>16. 0 \in N
  <2>1. p[0] = <<previous[1] + 1>>
    BY <1>1, <1>13 DEF Places, base
  <2>2. Len(p[0]) = 0 + 1 /\ p[0][1] = previous[1] + 1 /\ 1 .. 0 = {}
    BY <2>1
  <2> QED
    BY <2>2
<1>17. ASSUME NEW k \in Nat, k \in N PROVE k + 1 \in N
  <2> SUFFICES ASSUME k + 1 <= n
               PROVE  /\ Len(p[k + 1]) = (k + 1) + 1 /\ p[k + 1][1] = previous[1] + 1
                      /\ \A j \in 1 .. (k + 1) :
                           Least(p[k + 1][j + 1], previous[j + 1] + 1, p[k + 1][j] + 1, previous[j] + Cost(ca, b[j]))
    OBVIOUS
  <2> DEFINE old == p[k]
             new == p[k + 1]
             last == cell(old, k + 1)
  <2>1. k \in 0 .. n /\ k <= n /\ k + 1 \in D /\ (k + 1) - 1 = k
    BY <1>0
  <2>2. old \in Seq(Nat) /\ old \in V /\ Len(old) = k + 1 /\ old[1] = previous[1] + 1
    BY <1>14, <1>17, <2>1 DEF V
  <2>3. last \in Nat /\ Least(last, previous[(k + 1) + 1] + 1, Last(old) + 1, previous[k + 1] + Cost(ca, b[k + 1]))
    BY <1>3, <2>1, <2>2
  <2>4. new = Append(old, last)
    BY <1>15, <2>1
  <2>5. \A j \in 1 .. k : Least(old[j + 1], previous[j + 1] + 1, old[j] + 1, previous[j] + Cost(ca, b[j]))
    BY <1>17, <2>1, Zenon
  <2> HIDE DEF old, new, last
  <2>6. Len(new) = (k + 1) + 1 /\ new[k + 2] = last /\ \A j \in 1 .. (k + 1) : new[j] = old[j]
    BY <2>2, <2>3, <2>4
  <2>7. Last(old) = new[k + 1]
    BY <2>2, <2>6 DEF Last
  <2>8. Least(new[(k + 1) + 1], previous[(k + 1) + 1] + 1, new[k + 1] + 1, previous[k + 1] + Cost(ca, b[k + 1]))
    BY <2>3, <2>6, <2>7
  <2>9. \A j \in 1 .. k : new[j + 1] = old[j + 1] /\ new[j] = old[j]
    <3>1. \A j \in 1 .. k : j \in 1 .. (k + 1) /\ j + 1 \in 1 .. (k + 1)
      OBVIOUS
    <3> QED
      BY <2>6, <3>1, Zenon
  <2>10. \A j \in 1 .. (k + 1) : Least(new[j + 1], previous[j + 1] + 1, new[j] + 1, previous[j] + Cost(ca, b[j]))
    BY <2>5, <2>8, <2>9
  <2>11. new[1] = previous[1] + 1
    BY <2>2, <2>6
  <2> QED
    BY <2>6, <2>10, <2>11 DEF new
<1> HIDE DEF N
<1>18. n \in N
  BY <1>0, <1>16, <1>17, NumbersByInduction
<1> USE DEF N
<1>19. NextRow(previous, ca, b) = p[n] /\ p[n] \in Seq(Nat)
  BY <1>0, <1>8, <1>13, <1>14 DEF V
<1> QED
  BY <1>0, <1>18, <1>19 DEF TableRows, Follows

\* The table of levenshtein: for the first i letters of a and the first j of b.
Table(D, a, b) ==
  /\ D \in [0 .. Len(a) -> [0 .. Len(b) -> Nat]]
  /\ \A i \in 0 .. Len(a) : D[i][0] = i
  /\ \A j \in 0 .. Len(b) : D[0][j] = j
  /\ \A i \in 1 .. Len(a), j \in 1 .. Len(b) :
       Least(D[i][j], D[i - 1][j] + 1, D[i][j - 1] + 1, D[i - 1][j - 1] + Cost(a[i], b[j]))

HasTable(a, b) == \E D : Table(D, a, b) /\ levenshtein(a, b) = D[Len(a)][Len(b)]

LEMMA LevenshteinByTable ==
  ASSUME NEW S, NEW a \in Seq(S), NEW b \in Seq(S)
  PROVE  HasTable(a, b)
<1> DEFINE m == Len(a)
           n == Len(b)
           V == TableRows(n)
           base == [j \in 1 .. Len(b) + 1 |-> j - 1]
           step == [x \in (1 .. m) \X V |-> NextRow(x[2], a[x[1]], b)]
<1>0. m \in Nat /\ n \in Nat /\ DOMAIN a = 1 .. m
  OBVIOUS
<1>1. base \in V /\ \A j \in 0 .. n : base[j + 1] = j
  <2>1. base \in Seq(Nat)
    BY <1>0
  <2>2. Len(base) = n + 1
    BY <1>0
  <2> QED
    BY <1>0, <2>1, <2>2 DEF TableRows
<1>2. ASSUME NEW k \in 1 .. m, NEW row \in V
      PROVE  step[<<k, row>>] = NextRow(row, a[k], b) /\ NextRow(row, a[k], b) \in V
             /\ Follows(NextRow(row, a[k], b), row, a[k], b)
  <2>1. NextRow(row, a[k], b) \in V /\ Follows(NextRow(row, a[k], b), row, a[k], b)
    BY NextRowFollows
  <2> QED
    BY <2>1
<1> HIDE DEF base, step
<1>3. step \in [(1 .. m) \X V -> V]
  BY <1>2 DEF step
<1> HIDE DEF V
<1>4. \A s \in SUBSET (1 .. m) : s # {} => Max(s) \in 1 .. m
  BY <1>0, Greatest
<1>5. PICK g \in [SUBSET (1 .. m) -> V] : Folds(g, m, base, step)
  BY <1>0, <1>1, <1>3, FoldExists, Zenon
<1> DEFINE Is(f) == f = [s \in SUBSET DOMAIN a |->
                          IF s = {} THEN base ELSE NextRow(f[s \ {Max(s)}], a[Max(s)], b)]
           it == CHOOSE f : Is(f)
<1>6. levenshtein(a, b) = Last(it[DOMAIN a])
  BY Zenon DEF levenshtein, FoldLeft, MapThenFoldSet, base
<1>7. Is(g)
  <2>1. g[{}] = base
    BY <1>5 DEF Folds
  <2>2. ASSUME NEW s \in SUBSET (1 .. m), s # {} PROVE g[s] = NextRow(g[s \ {Max(s)}], a[Max(s)], b)
    <3>1. Max(s) \in 1 .. m /\ g[s \ {Max(s)}] \in V
      BY <1>4, <2>2
    <3>2. g[s] = step[<<Max(s), g[s \ {Max(s)}]>>]
      BY <1>5, <2>2 DEF Folds
    <3> QED
      BY <1>2, <3>1, <3>2
  <2> QED
    BY <1>0, <2>1, <2>2
<1>8. Is(it)
  <2> HIDE DEF Is
  <2> QED
    BY <1>7, Zenon
<1> HIDE DEF it
<1>9. Unfolds(it, m, V, base, step)
  <2>1. it[{}] = base
    BY <1>8
  <2>2. ASSUME NEW s \in SUBSET (1 .. m), s # {}, it[s \ {Max(s)}] \in V
        PROVE  it[s] = step[<<Max(s), it[s \ {Max(s)}]>>]
    <3>1. Max(s) \in 1 .. m
      BY <1>4, <2>2
    <3>2. it[s] = NextRow(it[s \ {Max(s)}], a[Max(s)], b)
      BY <1>0, <1>8, <2>2
    <3> QED
      BY <1>2, <2>2, <3>1, <3>2
  <2> QED
    BY <2>1, <2>2 DEF Unfolds
<1> HIDE DEF Is
<1>10. GoesByPlaces(it, m, V, base, step)
  BY <1>0, <1>1, <1>3, <1>9, FoldByPlaces, Zenon
<1>11. PICK p : Places(p, m, V, base, step) /\ p[m] = it[1 .. m]
  BY <1>10 DEF GoesByPlaces
<1>12. p[0] = base /\ \A i \in 0 .. m : p[i] \in V
  BY <1>0, <1>11 DEF Places
<1>13. ASSUME NEW i \in 1 .. m PROVE Follows(p[i], p[i - 1], a[i], b)
  <2>1. p[i - 1] \in V
    BY <1>0, <1>12
  <2>2. p[i] = step[<<i, p[i - 1]>>]
    BY <1>11 DEF Places
  <2> QED
    BY <1>2, <2>1, <2>2
<1> DEFINE D == [i \in 0 .. m |-> [j \in 0 .. n |-> p[i][j + 1]]]
<1>14. \A i \in 0 .. m, j \in 0 .. n : D[i][j] = p[i][j + 1] /\ p[i][j + 1] \in Nat
  <2>1. ASSUME NEW i \in 0 .. m, NEW j \in 0 .. n PROVE p[i][j + 1] \in Nat
    <3>1. p[i] \in Seq(Nat) /\ Len(p[i]) = n + 1
      BY <1>12 DEF V, TableRows
    <3>2. j + 1 \in 1 .. (n + 1)
      BY <1>0
    <3> QED
      BY <3>1, <3>2
  <2> QED
    BY <2>1
<1>15. D \in [0 .. m -> [0 .. n -> Nat]]
  BY <1>14
<1> HIDE DEF D
<1>16. \A j \in 0 .. n : D[0][j] = j
  <2>1. 0 \in 0 .. m
    BY <1>0
  <2> QED
    BY <1>1, <1>12, <1>14, <2>1
<1>17. \A i \in 1 .. m : D[i][0] = D[i - 1][0] + 1
  <2> SUFFICES ASSUME NEW i \in 1 .. m PROVE D[i][0] = D[i - 1][0] + 1
    OBVIOUS
  <2>1. i \in 0 .. m /\ i - 1 \in 0 .. m /\ 0 \in 0 .. n /\ 0 + 1 = 1
    BY <1>0
  <2>2. p[i][1] = p[i - 1][1] + 1
    BY <1>13 DEF Follows
  <2> QED
    BY <1>14, <2>1, <2>2
<1>18. \A i \in 0 .. m : D[i][0] = i
  <2> DEFINE N == {k \in Nat : k <= m => D[k][0] = k}
  <2>1. 0 \in N
    BY <1>0, <1>16
  <2>2. ASSUME NEW k \in Nat, k \in N PROVE k + 1 \in N
    <3> SUFFICES ASSUME k + 1 <= m PROVE D[k + 1][0] = k + 1
      OBVIOUS
    <3>1. k + 1 \in 1 .. m /\ (k + 1) - 1 = k /\ k <= m
      BY <1>0
    <3> QED
      BY <1>17, <2>2, <3>1
  <2> HIDE DEF N
  <2>3. Nat \subseteq N
    BY <2>1, <2>2, NumbersByInduction
  <2> QED
    BY <1>0, <2>3 DEF N
<1>19. ASSUME NEW i \in 1 .. m, NEW j \in 1 .. n
       PROVE  Least(D[i][j], D[i - 1][j] + 1, D[i][j - 1] + 1, D[i - 1][j - 1] + Cost(a[i], b[j]))
  <2>1. i \in 0 .. m /\ i - 1 \in 0 .. m /\ j \in 0 .. n /\ j - 1 \in 0 .. n /\ (j - 1) + 1 = j
    BY <1>0
  <2>2. Least(p[i][j + 1], p[i - 1][j + 1] + 1, p[i][j] + 1, p[i - 1][j] + Cost(a[i], b[j]))
    BY <1>13 DEF Follows
  <2> QED
    BY <1>14, <2>1, <2>2
<1>20. Table(D, a, b)
  BY <1>15, <1>16, <1>18, <1>19 DEF Table
<1>21. levenshtein(a, b) = D[m][n]
  <2>1. p[m] \in Seq(Nat) /\ Len(p[m]) = n + 1 /\ m \in 0 .. m /\ n \in 0 .. n
    BY <1>0, <1>12 DEF V, TableRows
  <2>2. Last(p[m]) = p[m][n + 1]
    BY <2>1 DEF Last
  <2>3. levenshtein(a, b) = Last(p[m])
    BY <1>0, <1>6, <1>11
  <2> QED
    BY <1>14, <2>1, <2>2, <2>3
<1> QED
  BY <1>20, <1>21 DEF HasTable

\* What holds on the edges of a table, and of a cell if of the three it is made
\* from, holds of all.
LEMMA CellsByInduction ==
  ASSUME NEW m \in Nat, NEW n \in Nat, NEW P,
         \A i \in 0 .. m : <<i, 0>> \in P,
         \A j \in 0 .. n : <<0, j>> \in P,
         \A i \in 1 .. m, j \in 1 .. n :
           <<i - 1, j>> \in P /\ <<i, j - 1>> \in P /\ <<i - 1, j - 1>> \in P => <<i, j>> \in P
  PROVE  \A i \in 0 .. m, j \in 0 .. n : <<i, j>> \in P
<1> DEFINE N == {k \in Nat : \A i \in 0 .. m, j \in 0 .. n : i + j <= k => <<i, j>> \in P}
<1>1. 0 \in N
  <2> SUFFICES ASSUME NEW i \in 0 .. m, NEW j \in 0 .. n, i + j <= 0 PROVE <<i, j>> \in P
    OBVIOUS
  <2>1. j = 0
    OBVIOUS
  <2> QED
    BY <2>1
<1>2. ASSUME NEW k \in Nat, k \in N PROVE k + 1 \in N
  <2> SUFFICES ASSUME NEW i \in 0 .. m, NEW j \in 0 .. n, i + j <= k + 1 PROVE <<i, j>> \in P
    OBVIOUS
  <2>1. CASE i = 0 \/ j = 0
    BY <2>1
  <2>2. CASE i \in 1 .. m /\ j \in 1 .. n
    <3>1. /\ i - 1 \in 0 .. m /\ j - 1 \in 0 .. n
          /\ (i - 1) + j <= k /\ i + (j - 1) <= k /\ (i - 1) + (j - 1) <= k
      BY <2>2
    <3>2. <<i - 1, j>> \in P /\ <<i, j - 1>> \in P /\ <<i - 1, j - 1>> \in P
      BY <1>2, <3>1
    <3> QED
      BY <2>2, <3>2
  <2> QED
    BY <2>1, <2>2
<1> HIDE DEF N
<1>3. \A i \in 0 .. m, j \in 0 .. n : i + j \in N
  BY <1>1, <1>2, NumbersByInduction
<1> SUFFICES ASSUME NEW i \in 0 .. m, NEW j \in 0 .. n PROVE <<i, j>> \in P
  OBVIOUS
<1>4. i + j \in N /\ i + j <= i + j
  BY <1>3
<1> QED
  BY <1>4 DEF N

\* A cell, and the three it is made from.
Cell(v, up, left, corner, cost) ==
  /\ v \in Nat /\ up \in Nat /\ left \in Nat /\ corner \in Nat /\ cost \in {0, 1}
  /\ v = up + 1 \/ v = left + 1 \/ v = corner + cost
  /\ v <= up + 1 /\ v <= left + 1 /\ v <= corner + cost

LEMMA CellsOfTable ==
  ASSUME NEW D, NEW a, NEW b, Len(a) \in Nat, Len(b) \in Nat, Table(D, a, b)
  PROVE  /\ \A i \in 0 .. Len(a), j \in 0 .. Len(b) : D[i][j] \in Nat
         /\ \A i \in 1 .. Len(a), j \in 1 .. Len(b) :
              Cell(D[i][j], D[i - 1][j], D[i][j - 1], D[i - 1][j - 1], Cost(a[i], b[j]))
<1>1. ASSUME NEW i \in 0 .. Len(a), NEW j \in 0 .. Len(b) PROVE D[i][j] \in Nat
  BY DEF Table
<1>2. ASSUME NEW i \in 1 .. Len(a), NEW j \in 1 .. Len(b)
      PROVE  Cell(D[i][j], D[i - 1][j], D[i][j - 1], D[i - 1][j - 1], Cost(a[i], b[j]))
  <2>1. i \in 0 .. Len(a) /\ i - 1 \in 0 .. Len(a) /\ j \in 0 .. Len(b) /\ j - 1 \in 0 .. Len(b)
    OBVIOUS
  <2>2. D[i][j] \in Nat /\ D[i - 1][j] \in Nat /\ D[i][j - 1] \in Nat /\ D[i - 1][j - 1] \in Nat
    BY <1>1, <2>1
  <2>3. Cost(a[i], b[j]) \in {0, 1}
    BY DEF Cost
  <2>4. Least(D[i][j], D[i - 1][j] + 1, D[i][j - 1] + 1, D[i - 1][j - 1] + Cost(a[i], b[j]))
    BY DEF Table
  <2> QED
    BY <2>2, <2>3, <2>4 DEF Cell, Least
<1> QED
  BY <1>1, <1>2

\* Neighbouring cells differ by at most one.
Smooth(D, i, j) ==
  /\ i # 0 => D[i - 1][j] <= D[i][j] + 1 /\ D[i][j] <= D[i - 1][j] + 1
  /\ j # 0 => D[i][j - 1] <= D[i][j] + 1 /\ D[i][j] <= D[i][j - 1] + 1

LEMMA TableIsSmooth ==
  ASSUME NEW D, NEW a, NEW b, Len(a) \in Nat, Len(b) \in Nat, Table(D, a, b)
  PROVE  \A i \in 0 .. Len(a), j \in 0 .. Len(b) : Smooth(D, i, j)
<1> DEFINE m == Len(a)
           n == Len(b)
           P == {c \in (0 .. m) \X (0 .. n) : Smooth(D, c[1], c[2])}
<1>1. ASSUME NEW i \in 0 .. m PROVE <<i, 0>> \in P
  <2>1. i # 0 => D[i - 1][0] = i - 1 /\ D[i][0] = i
    BY DEF Table
  <2> QED
    BY <2>1 DEF Smooth
<1>2. ASSUME NEW j \in 0 .. n PROVE <<0, j>> \in P
  <2>1. j # 0 => D[0][j - 1] = j - 1 /\ D[0][j] = j
    BY DEF Table
  <2> QED
    BY <2>1 DEF Smooth
<1>3. ASSUME NEW i \in 1 .. m, NEW j \in 1 .. n,
             <<i - 1, j>> \in P, <<i, j - 1>> \in P, <<i - 1, j - 1>> \in P
      PROVE  <<i, j>> \in P
  <2> DEFINE v == D[i][j]
             up == D[i - 1][j]
             left == D[i][j - 1]
             corner == D[i - 1][j - 1]
             cost == Cost(a[i], b[j])
  <2>1. Cell(v, up, left, corner, cost)
    BY CellsOfTable
  <2>3. corner <= up + 1 /\ up <= corner + 1
    <3>1. Smooth(D, i - 1, j)
      BY <1>3
    <3> QED
      BY <3>1 DEF Smooth
  <2>4. corner <= left + 1 /\ left <= corner + 1
    <3>1. Smooth(D, i, j - 1)
      BY <1>3
    <3> QED
      BY <3>1 DEF Smooth
  <2> HIDE DEF v, up, left, corner, cost
  <2>5. up <= v + 1 /\ v <= up + 1 /\ left <= v + 1 /\ v <= left + 1
    BY <2>1, <2>3, <2>4 DEF Cell
  <2> USE DEF v, up, left
  <2>6. Smooth(D, i, j)
    BY <2>5 DEF Smooth
  <2> QED
    BY <2>6
<1> HIDE DEF P
<1>4. \A i \in 0 .. m, j \in 0 .. n : <<i, j>> \in P
  BY <1>1, <1>2, <1>3, CellsByInduction
<1> QED
  BY <1>4 DEF P

\* The distance is 0 for equal words, and for no others.
LEMMA ZeroIfEqual ==
  ASSUME NEW D, NEW S, NEW a \in Seq(S), NEW b \in Seq(S), Table(D, a, b)
  PROVE  D[Len(a)][Len(b)] = 0 <=> a = b
<1> DEFINE m == Len(a)
           n == Len(b)
           Same(i, j) == i = j /\ \A k \in 1 .. i : a[k] = b[k]
           P == {c \in (0 .. m) \X (0 .. n) : D[c[1]][c[2]] = 0 <=> Same(c[1], c[2])}
<1>0. m \in Nat /\ n \in Nat /\ m \in 0 .. m /\ n \in 0 .. n
  OBVIOUS
<1>1. ASSUME NEW i \in 0 .. m PROVE <<i, 0>> \in P
  <2>1. D[i][0] = i
    BY DEF Table
  <2> QED
    BY <1>0, <2>1
<1>2. ASSUME NEW j \in 0 .. n PROVE <<0, j>> \in P
  <2>1. D[0][j] = j
    BY DEF Table
  <2> QED
    BY <1>0, <2>1
<1>3. ASSUME NEW i \in 1 .. m, NEW j \in 1 .. n, <<i - 1, j - 1>> \in P PROVE <<i, j>> \in P
  <2>1. Cell(D[i][j], D[i - 1][j], D[i][j - 1], D[i - 1][j - 1], Cost(a[i], b[j]))
    BY <1>0, CellsOfTable
  <2>2. D[i][j] = 0 <=> D[i - 1][j - 1] = 0 /\ a[i] = b[j]
    <3>1. Cost(a[i], b[j]) = 0 <=> a[i] = b[j]
      BY DEF Cost
    <3>2. ASSUME NEW v, NEW up, NEW left, NEW corner, NEW cost, Cell(v, up, left, corner, cost)
          PROVE  v = 0 <=> corner = 0 /\ cost = 0
      BY <3>2 DEF Cell
    <3>3. D[i][j] = 0 <=> D[i - 1][j - 1] = 0 /\ Cost(a[i], b[j]) = 0
      BY <2>1, <3>2
    <3> QED
      BY <3>1, <3>3
  <2>3. D[i - 1][j - 1] = 0 <=> Same(i - 1, j - 1)
    BY <1>3
  <2>4. Same(i, j) <=> Same(i - 1, j - 1) /\ a[i] = b[j]
    <3>1. 1 .. i = (1 .. (i - 1)) \cup {i} /\ (i - 1 = j - 1 <=> i = j)
      BY <1>0
    <3> QED
      BY <3>1
  <2> HIDE DEF Same
  <2>5. D[i][j] = 0 <=> Same(i, j)
    BY <2>2, <2>3, <2>4
  <2> QED
    BY <2>5
<1> HIDE DEF P
<1>4. <<m, n>> \in P
  <2>1. \A i \in 0 .. m, j \in 0 .. n : <<i, j>> \in P
    BY <1>0, <1>1, <1>2, <1>3, CellsByInduction
  <2> QED
    BY <1>0, <2>1
<1>5. Same(m, n) <=> a = b
  BY <1>0
<1> HIDE DEF Same
<1> QED
  BY <1>4, <1>5 DEF P

\* What two cells are made from decides how far apart they are.
Near(x, y) == x <= y + 1 /\ y <= x + 1

LEMMA NearCells ==
  ASSUME NEW v, NEW up, NEW left, NEW corner, NEW cost, Cell(v, up, left, corner, cost),
         NEW w, NEW over, NEW before, NEW angle, NEW price, Cell(w, over, before, angle, price)
  PROVE  /\ up = over /\ left = before /\ corner = angle /\ cost = price => v = w
         /\ Near(up, over) /\ Near(left, before) /\ Near(corner, angle) /\ cost = price => Near(v, w)
         /\ Near(up, over) /\ Near(left, before) /\ corner = angle => Near(v, w)
<1>1. up = over /\ left = before /\ corner = angle /\ cost = price => v = w
  BY DEF Cell
<1>2. Near(up, over) /\ Near(left, before) /\ Near(corner, angle) /\ cost = price => Near(v, w)
  BY DEF Cell, Near
<1>3. Near(up, over) /\ Near(left, before) /\ corner = angle => Near(v, w)
  BY DEF Cell, Near
<1> QED
  BY <1>1, <1>2, <1>3

\* Words that begin alike have tables that begin alike.
BeginAlike(a, w, p) == p \in Nat /\ p <= Len(a) /\ p <= Len(w) /\ \A s \in 1 .. p : a[s] = w[s]
Alike(D, E, p, n) == \A i \in 0 .. p, j \in 0 .. n : D[i][j] = E[i][j]

LEMMA TablesBeginAlike ==
  ASSUME NEW S, NEW a \in Seq(S), NEW w \in Seq(S), NEW b \in Seq(S), NEW D, NEW E, Table(D, a, b), Table(E, w, b),
         NEW p, BeginAlike(a, w, p)
  PROVE  Alike(D, E, p, Len(b))
<1> DEFINE n == Len(b)
           P == {c \in (0 .. p) \X (0 .. n) : D[c[1]][c[2]] = E[c[1]][c[2]]}
<1>0. n \in Nat /\ Len(a) \in Nat /\ Len(w) \in Nat
      /\ p \in Nat /\ p <= Len(a) /\ p <= Len(w) /\ \A s \in 1 .. p : a[s] = w[s]
  BY DEF BeginAlike
<1>1. ASSUME NEW i \in 0 .. p PROVE <<i, 0>> \in P
  <2>1. D[i][0] = i /\ E[i][0] = i
    BY <1>0 DEF Table
  <2> QED
    BY <1>0, <2>1
<1>2. ASSUME NEW j \in 0 .. n PROVE <<0, j>> \in P
  <2>1. D[0][j] = j /\ E[0][j] = j
    BY DEF Table
  <2> QED
    BY <1>0, <2>1
<1>3. ASSUME NEW i \in 1 .. p, NEW j \in 1 .. n,
             <<i - 1, j>> \in P, <<i, j - 1>> \in P, <<i - 1, j - 1>> \in P
      PROVE  <<i, j>> \in P
  <2>1. /\ Cell(D[i][j], D[i - 1][j], D[i][j - 1], D[i - 1][j - 1], Cost(a[i], b[j]))
        /\ Cell(E[i][j], E[i - 1][j], E[i][j - 1], E[i - 1][j - 1], Cost(w[i], b[j]))
    <3>1. i \in 1 .. Len(a) /\ i \in 1 .. Len(w)
      BY <1>0
    <3> QED
      BY <1>0, <3>1, CellsOfTable
  <2>2. D[i - 1][j] = E[i - 1][j] /\ D[i][j - 1] = E[i][j - 1] /\ D[i - 1][j - 1] = E[i - 1][j - 1]
    BY <1>3
  <2>3. Cost(a[i], b[j]) = Cost(w[i], b[j])
    BY <1>0 DEF Cost
  <2>4. D[i][j] = E[i][j]
    BY <2>1, <2>2, <2>3, NearCells
  <2> QED
    BY <2>4
<1> HIDE DEF P
<1>4. \A i \in 0 .. p, j \in 0 .. n : <<i, j>> \in P
  BY <1>0, <1>1, <1>2, <1>3, CellsByInduction
<1> QED
  BY <1>4 DEF P, Alike

\* Word w is word a without its letter at place k, or with another one there.
Shortened(w, a, k) ==
  /\ k \in 1 .. Len(a) /\ Len(w) = Len(a) - 1
  /\ \A s \in 1 .. (k - 1) : w[s] = a[s]
  /\ \A s \in k .. Len(w) : w[s] = a[s + 1]

Altered(w, a, k) ==
  /\ k \in 1 .. Len(a) /\ Len(w) = Len(a)
  /\ \A s \in 1 .. Len(a) : s # k => w[s] = a[s]

LEMMA ShortenedIsNear ==
  ASSUME NEW S, NEW a \in Seq(S), NEW w \in Seq(S), NEW b \in Seq(S), NEW D, NEW E, Table(D, a, b), Table(E, w, b),
         NEW k, Shortened(w, a, k)
  PROVE  Near(D[Len(a)][Len(b)], E[Len(w)][Len(b)])
<1> DEFINE m == Len(a)
           n == Len(b)
           P == {c \in (0 .. m) \X (0 .. n) : c[1] >= k => Near(D[c[1]][c[2]], E[c[1] - 1][c[2]])}
<1>0. m \in Nat /\ n \in Nat /\ Len(w) \in Nat /\ Len(w) = m - 1 /\ k \in 1 .. m
      /\ m \in 0 .. m /\ n \in 0 .. n
  BY DEF Shortened
<1>1. \A i \in 0 .. (k - 1), j \in 0 .. n : D[i][j] = E[i][j]
  <2>1. BeginAlike(a, w, k - 1)
    BY <1>0 DEF Shortened, BeginAlike
  <2>2. Alike(D, E, k - 1, n)
    BY <2>1, TablesBeginAlike
  <2> QED
    BY <2>2 DEF Alike
<1>2. ASSUME NEW i \in 0 .. m PROVE <<i, 0>> \in P
  <2> SUFFICES ASSUME i >= k PROVE Near(D[i][0], E[i - 1][0])
    BY <1>0
  <2>1. i - 1 \in 0 .. Len(w)
    BY <1>0
  <2>2. D[i][0] = i /\ E[i - 1][0] = i - 1
    BY <1>0, <2>1 DEF Table
  <2> QED
    BY <2>2 DEF Near
<1>3. ASSUME NEW j \in 0 .. n PROVE <<0, j>> \in P
  BY <1>0
<1>4. ASSUME NEW i \in 1 .. m, NEW j \in 1 .. n,
             <<i - 1, j>> \in P, <<i, j - 1>> \in P, <<i - 1, j - 1>> \in P
      PROVE  <<i, j>> \in P
  <2> SUFFICES ASSUME i >= k PROVE Near(D[i][j], E[i - 1][j])
    BY <1>0
  <2>1. CASE i = k
    <3>1. E[i - 1][j] = D[i - 1][j]
      BY <1>0, <1>1, <2>1
    <3>2. Smooth(D, i, j)
      BY <1>0, TableIsSmooth
    <3> QED
      BY <1>0, <3>1, <3>2 DEF Smooth, Near
  <2>2. CASE i > k
    <3>1. i - 1 \in 1 .. Len(w) /\ i - 1 >= k
      BY <1>0, <2>2
    <3>2. /\ Cell(D[i][j], D[i - 1][j], D[i][j - 1], D[i - 1][j - 1], Cost(a[i], b[j]))
          /\ Cell(E[i - 1][j], E[(i - 1) - 1][j], E[i - 1][j - 1], E[(i - 1) - 1][j - 1], Cost(w[i - 1], b[j]))
      BY <1>0, <3>1, CellsOfTable
    <3>3. Near(D[i - 1][j], E[(i - 1) - 1][j]) /\ Near(D[i][j - 1], E[i - 1][j - 1])
          /\ Near(D[i - 1][j - 1], E[(i - 1) - 1][j - 1])
      BY <1>4, <3>1
    <3>4. Cost(a[i], b[j]) = Cost(w[i - 1], b[j])
      <4>1. w[i - 1] = a[(i - 1) + 1] /\ (i - 1) + 1 = i
        BY <1>0, <3>1 DEF Shortened
      <4> QED
        BY <4>1 DEF Cost
    <3> QED
      BY <3>2, <3>3, <3>4, NearCells
  <2> QED
    BY <1>0, <2>1, <2>2
<1> HIDE DEF P
<1>5. \A i \in 0 .. m, j \in 0 .. n : <<i, j>> \in P
  BY <1>0, <1>2, <1>3, <1>4, CellsByInduction
<1>6. <<m, n>> \in P /\ m >= k
  BY <1>0, <1>5
<1> QED
  BY <1>0, <1>6 DEF P

LEMMA AlteredIsNear ==
  ASSUME NEW S, NEW a \in Seq(S), NEW w \in Seq(S), NEW b \in Seq(S), NEW D, NEW E, Table(D, a, b), Table(E, w, b),
         NEW k, Altered(w, a, k)
  PROVE  Near(D[Len(a)][Len(b)], E[Len(w)][Len(b)])
<1> DEFINE m == Len(a)
           n == Len(b)
           P == {c \in (0 .. m) \X (0 .. n) : Near(D[c[1]][c[2]], E[c[1]][c[2]])}
<1>0. m \in Nat /\ n \in Nat /\ Len(w) \in Nat /\ Len(w) = m /\ k \in 1 .. m
      /\ m \in 0 .. m /\ n \in 0 .. n
  BY DEF Altered
<1>1. \A i \in 0 .. (k - 1), j \in 0 .. n : D[i][j] = E[i][j]
  <2>1. BeginAlike(a, w, k - 1)
    BY <1>0 DEF Altered, BeginAlike
  <2>2. Alike(D, E, k - 1, n)
    BY <2>1, TablesBeginAlike
  <2> QED
    BY <2>2 DEF Alike
<1>2. ASSUME NEW i \in 0 .. m PROVE <<i, 0>> \in P
  <2>1. D[i][0] = i /\ E[i][0] = i
    BY <1>0 DEF Table
  <2> QED
    BY <1>0, <2>1 DEF Near
<1>3. ASSUME NEW j \in 0 .. n PROVE <<0, j>> \in P
  <2>1. D[0][j] = j /\ E[0][j] = j
    BY <1>0 DEF Table
  <2> QED
    BY <1>0, <2>1 DEF Near
<1>4. ASSUME NEW i \in 1 .. m, NEW j \in 1 .. n,
             <<i - 1, j>> \in P, <<i, j - 1>> \in P, <<i - 1, j - 1>> \in P
      PROVE  <<i, j>> \in P
  <2>1. /\ Cell(D[i][j], D[i - 1][j], D[i][j - 1], D[i - 1][j - 1], Cost(a[i], b[j]))
        /\ Cell(E[i][j], E[i - 1][j], E[i][j - 1], E[i - 1][j - 1], Cost(w[i], b[j]))
    BY <1>0, CellsOfTable
  <2>2. Near(D[i - 1][j], E[i - 1][j]) /\ Near(D[i][j - 1], E[i][j - 1]) /\ Near(D[i - 1][j - 1], E[i - 1][j - 1])
    BY <1>4
  <2>3. D[i - 1][j - 1] = E[i - 1][j - 1] \/ Cost(a[i], b[j]) = Cost(w[i], b[j])
    <3>1. CASE i = k
      BY <1>0, <1>1, <3>1
    <3>2. CASE i # k
      BY <3>2 DEF Altered, Cost
    <3> QED
      BY <3>1, <3>2
  <2>4. Near(D[i][j], E[i][j])
    BY <2>1, <2>2, <2>3, NearCells
  <2> QED
    BY <2>4
<1> HIDE DEF P
<1>5. \A i \in 0 .. m, j \in 0 .. n : <<i, j>> \in P
  BY <1>0, <1>2, <1>3, <1>4, CellsByInduction
<1>6. <<m, n>> \in P
  BY <1>0, <1>5
<1> QED
  BY <1>0, <1>6 DEF P

\* The places of two sequences that are joined.
LEMMA Joining ==
  ASSUME NEW S, NEW s \in Seq(S), NEW t \in Seq(S)
  PROVE  /\ s \o t \in Seq(S) /\ Len(s \o t) = Len(s) + Len(t)
         /\ \A i \in 1 .. Len(s) : (s \o t)[i] = s[i]
         /\ \A i \in 1 .. Len(t) : (s \o t)[Len(s) + i] = t[i]
  OBVIOUS

LEMMA Deleting ==
  ASSUME NEW S, NEW a \in Seq(S), NEW k \in DOMAIN a
  PROVE  RemoveAt(a, k) \in Seq(S) /\ Shortened(RemoveAt(a, k), a, k)
<1> DEFINE m == Len(a)
           s == SubSeq(a, 1, k - 1)
           t == SubSeq(a, k + 1, m)
           w == s \o t
<1>0. m \in Nat /\ k \in 1 .. m /\ \A i \in 1 .. m : a[i] \in S
  OBVIOUS
<1>1. s \in Seq(S) /\ Len(s) = k - 1 /\ \A i \in 1 .. (k - 1) : s[i] = a[i]
  BY <1>0, SubSeqProperties
<1>2. t \in Seq(S) /\ Len(t) = m - k /\ \A i \in 1 .. (m - k) : t[i] = a[k + i]
  BY <1>0, SubSeqProperties
<1> HIDE DEF s, t
<1>3. w \in Seq(S) /\ Len(w) = m - 1
  BY <1>0, <1>1, <1>2
<1>4. \A i \in 1 .. (k - 1) : w[i] = a[i]
  BY <1>0, <1>1, <1>2
<1>5. ASSUME NEW i \in k .. (m - 1) PROVE w[i] = a[i + 1]
  <2>1. i - (k - 1) \in 1 .. (m - k) /\ (k - 1) + (i - (k - 1)) = i /\ k + (i - (k - 1)) = i + 1
    BY <1>0
  <2>2. w[(k - 1) + (i - (k - 1))] = t[i - (k - 1)]
    <3>1. \A j \in 1 .. Len(t) : w[Len(s) + j] = t[j]
      BY <1>1, <1>2, Joining
    <3> QED
      BY <1>1, <1>2, <2>1, <3>1
  <2> QED
    BY <1>2, <2>1, <2>2
<1>6. RemoveAt(a, k) = w
  BY Zenon DEF RemoveAt, s, t
<1> HIDE DEF w
<1>7. Shortened(w, a, k)
  BY <1>0, <1>3, <1>4, <1>5 DEF Shortened
<1> QED
  BY <1>3, <1>6, <1>7

LEMMA Inserting ==
  ASSUME NEW S, NEW a \in Seq(S), NEW k \in 1 .. (Len(a) + 1), NEW x \in S
  PROVE  InsertAt(a, k, x) \in Seq(S) /\ Shortened(a, InsertAt(a, k, x), k) /\ InsertAt(a, k, x)[k] = x
<1> DEFINE m == Len(a)
           s == SubSeq(a, 1, k - 1)
           t == SubSeq(a, k, m)
           u == s \o <<x>>
           w == u \o t
<1>0. m \in Nat /\ k \in 1 .. (m + 1) /\ \A i \in 1 .. m : a[i] \in S
  OBVIOUS
<1>1. s \in Seq(S) /\ Len(s) = k - 1 /\ \A i \in 1 .. (k - 1) : s[i] = a[i]
  BY <1>0, SubSeqProperties
<1>2. t \in Seq(S) /\ Len(t) = m - k + 1 /\ \A i \in 1 .. (m - k + 1) : t[i] = a[k + i - 1]
  <2>1. \A i \in k .. m : a[i] \in S
    BY <1>0
  <2> QED
    BY <1>0, <2>1, SubSeqProperties
<1> HIDE DEF s, t
<1>3. u \in Seq(S) /\ Len(u) = k /\ u[k] = x /\ \A i \in 1 .. (k - 1) : u[i] = a[i]
  BY <1>0, <1>1
<1> HIDE DEF u
<1>4. w \in Seq(S) /\ Len(w) = m + 1
  <2>1. w \in Seq(S) /\ Len(w) = Len(u) + Len(t)
    BY <1>2, <1>3, Joining
  <2> QED
    BY <1>0, <1>2, <1>3, <2>1
<1>5. w[k] = x /\ \A i \in 1 .. (k - 1) : w[i] = a[i]
  BY <1>0, <1>2, <1>3
<1>6. ASSUME NEW i \in k .. m PROVE w[i + 1] = a[i]
  <2>1. i - k + 1 \in 1 .. (m - k + 1) /\ k + (i - k + 1) = i + 1 /\ k + (i - k + 1) - 1 = i
    BY <1>0
  <2>2. w[k + (i - k + 1)] = t[i - k + 1]
    BY <1>0, <1>2, <1>3, <2>1
  <2> QED
    BY <1>2, <2>1, <2>2
<1>7. InsertAt(a, k, x) = w
  BY Zenon DEF InsertAt, s, t, u
<1> HIDE DEF w
<1>8. Shortened(a, w, k)
  BY <1>0, <1>4, <1>5, <1>6 DEF Shortened
<1> QED
  BY <1>4, <1>5, <1>7, <1>8

LEMMA Replacing ==
  ASSUME NEW S, NEW a \in Seq(S), NEW k \in DOMAIN a, NEW x \in S
  PROVE  ReplaceAt(a, k, x) \in Seq(S) /\ Altered(ReplaceAt(a, k, x), a, k) /\ ReplaceAt(a, k, x)[k] = x
<1> DEFINE w == [a EXCEPT ![k] = x]
<1>1. w \in Seq(S) /\ Len(w) = Len(a) /\ w[k] = x /\ \A s \in 1 .. Len(a) : s # k => w[s] = a[s]
  OBVIOUS
<1> HIDE DEF w
<1>2. Altered(w, a, k)
  BY <1>1 DEF Altered
<1>3. ReplaceAt(a, k, x) = w
  BY Zenon DEF ReplaceAt, w
<1> QED
  BY <1>1, <1>2, <1>3

\* Nothing else is an edit.
LEMMA EditsOfAWord ==
  ASSUME NEW a \in Seq(Letters), NEW w \in Edited(a)
  PROVE  w \in Seq(Letters) /\ \E k : Shortened(w, a, k) \/ Shortened(a, w, k) \/ Altered(w, a, k)
<1>1. CASE \E k \in DOMAIN a : w = RemoveAt(a, k)
  BY <1>1, Deleting
<1>2. CASE \E k \in DOMAIN a, x \in Letters : w = ReplaceAt(a, k, x)
  BY <1>2, Replacing
<1>3. CASE \E k \in 1 .. Len(a) + 1, x \in Letters : w = InsertAt(a, k, x)
  <2>1. PICK k \in 1 .. (Len(a) + 1), x \in Letters : w = InsertAt(a, k, x)
    BY <1>3
  <2> QED
    BY <2>1, Inserting
<1> QED
  BY <1>1, <1>2, <1>3 DEF Edited

\* An edit changes the distance by at most one.
LEMMA EditsAreNear ==
  ASSUME NEW a \in Seq(Letters), NEW w \in Edited(a), NEW b \in Seq(Letters)
  PROVE  /\ levenshtein(a, b) \in Nat /\ levenshtein(w, b) \in Nat
         /\ Near(levenshtein(a, b), levenshtein(w, b))
<1>1. w \in Seq(Letters)
  BY EditsOfAWord
<1>2. PICK k : Shortened(w, a, k) \/ Shortened(a, w, k) \/ Altered(w, a, k)
  BY EditsOfAWord
<1>3. PICK D : Table(D, a, b) /\ levenshtein(a, b) = D[Len(a)][Len(b)]
  BY LevenshteinByTable DEF HasTable
<1>4. PICK E : Table(E, w, b) /\ levenshtein(w, b) = E[Len(w)][Len(b)]
  BY <1>1, LevenshteinByTable DEF HasTable
<1>5. Near(D[Len(a)][Len(b)], E[Len(w)][Len(b)])
  <2>1. CASE Shortened(w, a, k)
    BY <1>1, <1>3, <1>4, <2>1, ShortenedIsNear
  <2>2. CASE Shortened(a, w, k)
    <3>1. Near(E[Len(w)][Len(b)], D[Len(a)][Len(b)])
      BY <1>1, <1>3, <1>4, <2>2, ShortenedIsNear
    <3> QED
      BY <3>1 DEF Near
  <2>3. CASE Altered(w, a, k)
    BY <1>1, <1>3, <1>4, <2>3, AlteredIsNear
  <2> QED
    BY <1>2, <2>1, <2>2, <2>3
<1>6. Len(a) \in Nat /\ Len(w) \in Nat /\ Len(b) \in Nat
  BY <1>1
<1>7. D[Len(a)][Len(b)] \in Nat /\ E[Len(w)][Len(b)] \in Nat
  BY <1>3, <1>4, <1>6, CellsOfTable
<1> QED
  BY <1>3, <1>4, <1>5, <1>7

\* Down a diagonal of equal letters no distance is added.
LEMMA DiagonalsAddNothing ==
  ASSUME NEW S, NEW w \in Seq(S), NEW b \in Seq(S), NEW E, Table(E, w, b),
         NEW p \in 0 .. Len(w), NEW q \in 0 .. Len(b), Len(w) - p = Len(b) - q,
         \A s \in 1 .. (Len(w) - p) : w[p + s] = b[q + s]
  PROVE  E[Len(w)][Len(b)] <= E[p][q]
<1> DEFINE N == {t \in Nat : t <= Len(w) - p => E[p + t][q + t] <= E[p][q]}
<1>0. Len(w) \in Nat /\ Len(b) \in Nat /\ \A i \in 0 .. Len(w), j \in 0 .. Len(b) : E[i][j] \in Nat
  BY CellsOfTable
<1>1. 0 \in N
  BY <1>0
<1>2. ASSUME NEW t \in Nat, t \in N PROVE t + 1 \in N
  <2> SUFFICES ASSUME t + 1 <= Len(w) - p PROVE E[p + (t + 1)][q + (t + 1)] <= E[p][q]
    OBVIOUS
  <2> DEFINE i == p + (t + 1)
             j == q + (t + 1)
  <2>1. i \in 1 .. Len(w) /\ j \in 1 .. Len(b) /\ i - 1 = p + t /\ j - 1 = q + t /\ t + 1 \in 1 .. (Len(w) - p)
    BY <1>0
  <2>2. E[p + t][q + t] <= E[p][q]
    BY <1>0, <1>2
  <2>3. w[i] = b[j]
    BY <2>1
  <2> HIDE DEF i, j
  <2>4. Cell(E[i][j], E[i - 1][j], E[i][j - 1], E[i - 1][j - 1], Cost(w[i], b[j])) /\ Cost(w[i], b[j]) = 0
    BY <1>0, <2>1, <2>3, CellsOfTable DEF Cost
  <2>5. E[i][j] <= E[i - 1][j - 1]
    BY <2>4 DEF Cell
  <2>6. E[i][j] \in Nat /\ E[i - 1][j - 1] \in Nat /\ E[p][q] \in Nat
    BY <1>0, <2>4 DEF Cell
  <2>7. E[i - 1][j - 1] <= E[p][q]
    BY <2>1, <2>2
  <2>8. E[i][j] <= E[p][q]
    BY <2>5, <2>6, <2>7
  <2> QED
    BY <2>8 DEF i, j
<1> HIDE DEF N
<1>3. Len(w) - p \in N
  BY <1>0, <1>1, <1>2, NumbersByInduction
<1>4. E[p + (Len(w) - p)][q + (Len(w) - p)] <= E[p][q]
  BY <1>0, <1>3 DEF N
<1>5. p + (Len(w) - p) = Len(w) /\ q + (Len(w) - p) = Len(b)
  BY <1>0
<1> QED
  BY <1>4, <1>5

\* A distance that is not 0 is traced back, along equal letters, to a cell that
\* is one more than one of the three it was made from.
Stepped(D, i, j) ==
  \/ i >= 1 /\ D[i][j] = D[i - 1][j] + 1
  \/ j >= 1 /\ D[i][j] = D[i][j - 1] + 1
  \/ i >= 1 /\ j >= 1 /\ D[i][j] = D[i - 1][j - 1] + 1

Traced(D, a, b, i, j) ==
  \E t \in Nat :
    /\ t <= i /\ t <= j /\ D[i - t][j - t] = D[i][j] /\ Stepped(D, i - t, j - t)
    /\ \A s \in 1 .. t : a[(i - t) + s] = b[(j - t) + s]

LEMMA TableIsTraced ==
  ASSUME NEW S, NEW a \in Seq(S), NEW b \in Seq(S), NEW D, Table(D, a, b), D[Len(a)][Len(b)] > 0
  PROVE  Traced(D, a, b, Len(a), Len(b))
<1> DEFINE m == Len(a)
           n == Len(b)
           P == {c \in (0 .. m) \X (0 .. n) : D[c[1]][c[2]] > 0 => Traced(D, a, b, c[1], c[2])}
<1>0. m \in Nat /\ n \in Nat /\ m \in 0 .. m /\ n \in 0 .. n
  OBVIOUS
<1>1. ASSUME NEW i \in 0 .. m, NEW j \in 0 .. n, Stepped(D, i, j) PROVE Traced(D, a, b, i, j)
  <2>1. i - 0 = i /\ j - 0 = j /\ 0 <= i /\ 0 <= j /\ 1 .. 0 = {} /\ 0 \in Nat
    OBVIOUS
  <2> QED
    BY <1>1, <2>1 DEF Traced
<1>2. ASSUME NEW i \in 0 .. m PROVE <<i, 0>> \in P
  <2> SUFFICES ASSUME D[i][0] > 0 PROVE Traced(D, a, b, i, 0)
    BY <1>0
  <2>1. D[i][0] = i
    BY DEF Table
  <2>2. i >= 1 /\ i - 1 \in 0 .. m
    BY <1>0, <2>1
  <2>3. D[i - 1][0] = i - 1
    BY <2>2 DEF Table
  <2>4. Stepped(D, i, 0)
    BY <2>1, <2>2, <2>3 DEF Stepped
  <2> QED
    BY <1>0, <1>1, <2>4
<1>3. ASSUME NEW j \in 0 .. n PROVE <<0, j>> \in P
  <2> SUFFICES ASSUME D[0][j] > 0 PROVE Traced(D, a, b, 0, j)
    BY <1>0
  <2>1. D[0][j] = j
    BY DEF Table
  <2>2. j >= 1 /\ j - 1 \in 0 .. n
    BY <1>0, <2>1
  <2>3. D[0][j - 1] = j - 1
    BY <2>2 DEF Table
  <2>4. Stepped(D, 0, j)
    BY <2>1, <2>2, <2>3 DEF Stepped
  <2> QED
    BY <1>0, <1>1, <2>4
<1>4. ASSUME NEW i \in 1 .. m, NEW j \in 1 .. n, <<i - 1, j - 1>> \in P PROVE <<i, j>> \in P
  <2> SUFFICES ASSUME D[i][j] > 0 PROVE Traced(D, a, b, i, j)
    BY <1>0
  <2>1. Cell(D[i][j], D[i - 1][j], D[i][j - 1], D[i - 1][j - 1], Cost(a[i], b[j]))
    BY <1>0, CellsOfTable
  <2>2. CASE D[i][j] = D[i - 1][j - 1] + Cost(a[i], b[j]) /\ a[i] = b[j]
    <3>1. Cost(a[i], b[j]) = 0 /\ D[i - 1][j - 1] \in Nat
      BY <2>1, <2>2 DEF Cost, Cell
    <3>2. D[i][j] = D[i - 1][j - 1]
      BY <2>2, <3>1
    <3>3. Traced(D, a, b, i - 1, j - 1)
      BY <1>4, <3>2
    <3>4. PICK t \in Nat :
            /\ t <= i - 1 /\ t <= j - 1 /\ D[(i - 1) - t][(j - 1) - t] = D[i - 1][j - 1]
            /\ Stepped(D, (i - 1) - t, (j - 1) - t)
            /\ \A s \in 1 .. t : a[((i - 1) - t) + s] = b[((j - 1) - t) + s]
      BY <3>3 DEF Traced
    <3> DEFINE u == t + 1
    <3>5. (i - 1) - t = i - u /\ (j - 1) - t = j - u /\ u <= i /\ u <= j /\ u \in Nat
      BY <3>4
    <3>6. \A s \in 1 .. u : a[(i - u) + s] = b[(j - u) + s]
      <4>1. \A s \in 1 .. t : a[(i - u) + s] = b[(j - u) + s]
        BY <3>4, <3>5
      <4>2. (i - u) + u = i /\ (j - u) + u = j
        BY <3>5
      <4>3. a[(i - u) + u] = b[(j - u) + u]
        BY <2>2, <4>2
      <4>4. 1 .. u = (1 .. t) \cup {u}
        OBVIOUS
      <4> QED
        BY <4>1, <4>3, <4>4
    <3> HIDE DEF u
    <3> QED
      BY <3>2, <3>4, <3>5, <3>6 DEF Traced
  <2>3. CASE ~ (D[i][j] = D[i - 1][j - 1] + Cost(a[i], b[j]) /\ a[i] = b[j])
    <3>1. Stepped(D, i, j)
      <4>1. D[i][j] = D[i - 1][j] + 1 \/ D[i][j] = D[i][j - 1] + 1
            \/ (D[i][j] = D[i - 1][j - 1] + Cost(a[i], b[j]) /\ Cost(a[i], b[j]) = 1)
        BY <2>1, <2>3 DEF Cell, Cost
      <4> QED
        BY <4>1 DEF Stepped
    <3> QED
      BY <1>0, <1>1, <3>1
  <2> QED
    BY <2>2, <2>3
<1> HIDE DEF P
<1>5. \A i \in 0 .. m, j \in 0 .. n : <<i, j>> \in P
  BY <1>0, <1>2, <1>3, <1>4, CellsByInduction
<1>6. <<m, n>> \in P
  BY <1>0, <1>5
<1> QED
  BY <1>0, <1>6 DEF P

\* A distance that is not 0 is lessened by some edit: a letter deleted,
\* inserted or replaced where the trace ends.
LEMMA NearerByLetters ==
  ASSUME NEW a \in Seq(Letters), NEW b \in Seq(Letters), NEW w \in Edited(a), NEW D, Table(D, a, b),
         NEW E, Table(E, w, b), NEW p \in 0 .. Len(w), NEW q \in 0 .. Len(b),
         p <= Len(a), \A s \in 1 .. p : w[s] = a[s],
         Len(w) - p = Len(b) - q, \A s \in 1 .. (Len(w) - p) : w[p + s] = b[q + s]
  PROVE  E[Len(w)][Len(b)] <= D[p][q]
<1>1. w \in Seq(Letters)
  BY EditsOfAWord
<1>2. BeginAlike(a, w, p) /\ p \in 0 .. p
  BY <1>1 DEF BeginAlike
<1>3. Alike(D, E, p, Len(b))
  BY <1>1, <1>2, TablesBeginAlike
<1>4. D[p][q] = E[p][q]
  BY <1>2, <1>3 DEF Alike
<1>5. E[Len(w)][Len(b)] <= E[p][q]
  BY <1>1, DiagonalsAddNothing
<1> QED
  BY <1>4, <1>5

LEMMA SomeEditIsNearer ==
  ASSUME NEW a \in Seq(Letters), NEW b \in Seq(Letters), levenshtein(a, b) > 0
  PROVE  \E w \in Edited(a) : levenshtein(w, b) = levenshtein(a, b) - 1
<1> DEFINE m == Len(a)
           n == Len(b)
<1>0. m \in Nat /\ n \in Nat /\ m \in 0 .. m /\ n \in 0 .. n
  OBVIOUS
<1>1. PICK D : Table(D, a, b) /\ levenshtein(a, b) = D[m][n]
  BY LevenshteinByTable DEF HasTable
<1>2. \A i \in 0 .. m, j \in 0 .. n : D[i][j] \in Nat
  BY <1>0, <1>1, CellsOfTable
<1>3. PICK t \in Nat :
        /\ t <= m /\ t <= n /\ D[m - t][n - t] = D[m][n] /\ Stepped(D, m - t, n - t)
        /\ \A s \in 1 .. t : a[(m - t) + s] = b[(n - t) + s]
  BY <1>1, TableIsTraced DEF Traced
<1> DEFINE i == m - t
           j == n - t
<1>4. i \in 0 .. m /\ j \in 0 .. n /\ m - i = t /\ n - j = t
  BY <1>0, <1>3
<1>5. D[i][j] = D[m][n] /\ Stepped(D, i, j) /\ \A s \in 1 .. t : a[i + s] = b[j + s]
  BY <1>3
<1> HIDE DEF i, j
<1>6. ASSUME NEW w \in Edited(a), NEW E, Table(E, w, b), levenshtein(w, b) = E[Len(w)][n],
             NEW p \in 0 .. m, NEW q \in 0 .. n, E[Len(w)][n] <= D[p][q], D[p][q] + 1 = D[m][n]
      PROVE  levenshtein(w, b) = levenshtein(a, b) - 1
  <2>1. D[p][q] \in Nat /\ D[m][n] \in Nat
    BY <1>0, <1>2
  <2>2. levenshtein(w, b) \in Nat /\ Near(levenshtein(a, b), levenshtein(w, b))
    BY EditsAreNear
  <2>3. levenshtein(w, b) <= D[p][q] /\ levenshtein(a, b) = D[p][q] + 1
    BY <1>1, <1>6
  <2>4. levenshtein(a, b) <= levenshtein(w, b) + 1
    BY <2>2 DEF Near
  <2> QED
    BY <2>1, <2>2, <2>3, <2>4
<1>7. ASSUME NEW w \in Edited(a) PROVE w \in Seq(Letters) /\ HasTable(w, b)
  <2>1. w \in Seq(Letters)
    BY EditsOfAWord
  <2> QED
    BY <2>1, LevenshteinByTable
<1>8. CASE i >= 1 /\ D[i][j] = D[i - 1][j] + 1
  <2> DEFINE w == RemoveAt(a, i)
             p == i - 1
  <2>1. i \in DOMAIN a
    BY <1>0, <1>4, <1>8
  <2>2. w \in Edited(a)
    BY <2>1 DEF Edited
  <2>3. Shortened(w, a, i)
    BY <2>1, Deleting
  <2> HIDE DEF w
  <2>4. PICK E : Table(E, w, b) /\ levenshtein(w, b) = E[Len(w)][n]
    BY <1>7, <2>2 DEF HasTable
  <2>5. Len(w) = m - 1 /\ p \in 0 .. Len(w) /\ p <= m /\ p \in 0 .. m /\ Len(w) - p = n - j /\ Len(w) - p = t
    <3>1. Len(w) = m - 1
      BY <2>3 DEF Shortened
    <3> HIDE DEF m, n
    <3>2. p \in 0 .. (m - 1) /\ p <= m /\ p \in 0 .. m /\ (m - 1) - p = n - j /\ (m - 1) - p = t
      BY <1>0, <1>4, <1>8
    <3> QED
      BY <3>1, <3>2
  <2>6. \A s \in 1 .. p : w[s] = a[s]
    BY <2>3 DEF Shortened
  <2>7. ASSUME NEW s \in 1 .. t PROVE w[p + s] = b[j + s]
    <3>1. p + s \in i .. Len(w) /\ (p + s) + 1 = i + s
      BY <1>0, <1>4, <2>5
    <3>2. w[p + s] = a[(p + s) + 1]
      BY <2>3, <3>1 DEF Shortened
    <3> QED
      BY <1>5, <3>1, <3>2
  <2> HIDE DEF p
  <2>8. E[Len(w)][n] <= D[p][j]
    BY <1>4, <2>2, <2>4, <2>5, <2>6, <2>7, <1>1, NearerByLetters
  <2>9. D[p][j] + 1 = D[m][n]
    BY <1>5, <1>8 DEF p
  <2> QED
    BY <1>4, <1>6, <2>2, <2>4, <2>5, <2>8, <2>9
<1>9. CASE j >= 1 /\ D[i][j] = D[i][j - 1] + 1
  <2> DEFINE x == b[j]
             w == InsertAt(a, i + 1, x)
             q == j - 1
  <2>1. i + 1 \in 1 .. (m + 1) /\ x \in Letters
    BY <1>0, <1>4, <1>9
  <2>2. w \in Edited(a)
    BY <2>1 DEF Edited
  <2>3. Shortened(a, w, i + 1) /\ w[i + 1] = x
    BY <2>1, Inserting
  <2>4. w \in Seq(Letters)
    BY <1>7, <2>2
  <2> HIDE DEF w
  <2>5. PICK E : Table(E, w, b) /\ levenshtein(w, b) = E[Len(w)][n]
    BY <1>7, <2>2 DEF HasTable
  <2>6. Len(w) = m + 1 /\ i \in 0 .. Len(w) /\ i <= m /\ q \in 0 .. n /\ Len(w) - i = n - q /\ Len(w) - i = t + 1
    <3>1. Len(w) \in Nat /\ m = Len(w) - 1
      BY <2>3, <2>4 DEF Shortened
    <3> HIDE DEF m, n
    <3>2. Len(w) = m + 1
      BY <1>0, <3>1
    <3>3. i \in 0 .. (m + 1) /\ i <= m /\ (m + 1) - i = t + 1
      BY <1>0, <1>4
    <3>4. q \in 0 .. n /\ n - q = t + 1
      BY <1>0, <1>4, <1>9
    <3> QED
      BY <3>2, <3>3, <3>4
  <2>7. \A s \in 1 .. i : w[s] = a[s]
    <3>1. \A s \in 1 .. ((i + 1) - 1) : a[s] = w[s]
      BY <2>3 DEF Shortened
    <3>2. (i + 1) - 1 = i
      BY <1>4
    <3> QED
      BY <3>1, <3>2
  <2>8. ASSUME NEW s \in 1 .. (t + 1) PROVE w[i + s] = b[q + s]
    <3>1. CASE s = 1
      <4>1. i + s = i + 1 /\ q + s = j
        BY <1>4, <3>1
      <4> QED
        BY <2>3, <4>1
    <3>2. CASE s \in 2 .. (t + 1)
      <4> DEFINE r == s - 1
      <4>1. r \in 1 .. t /\ i + r \in (i + 1) .. m /\ (i + r) + 1 = i + s /\ q + s = j + r
        BY <1>0, <1>4, <3>2
      <4> HIDE DEF r
      <4>2. a[i + r] = w[(i + r) + 1]
        BY <2>3, <4>1 DEF Shortened
      <4> QED
        BY <1>5, <4>1, <4>2
    <3> QED
      BY <3>1, <3>2
  <2> HIDE DEF q
  <2>9. E[Len(w)][n] <= D[i][q]
    BY <1>1, <2>2, <2>5, <2>6, <2>7, <2>8, NearerByLetters
  <2>10. D[i][q] + 1 = D[m][n]
    BY <1>5, <1>9 DEF q
  <2> QED
    BY <1>4, <1>6, <2>2, <2>5, <2>6, <2>9, <2>10
<1>10. CASE i >= 1 /\ j >= 1 /\ D[i][j] = D[i - 1][j - 1] + 1
  <2> DEFINE x == b[j]
             w == ReplaceAt(a, i, x)
             p == i - 1
             q == j - 1
  <2>1. i \in DOMAIN a /\ x \in Letters
    BY <1>0, <1>4, <1>10
  <2>2. w \in Edited(a)
    BY <2>1 DEF Edited
  <2>3. Altered(w, a, i) /\ w[i] = x
    <3> HIDE DEF m, n, x
    <3> QED
      BY <2>1, Replacing
  <2> HIDE DEF w
  <2>4. PICK E : Table(E, w, b) /\ levenshtein(w, b) = E[Len(w)][n]
    BY <1>7, <2>2 DEF HasTable
  <2>5. /\ Len(w) = m /\ p \in 0 .. Len(w) /\ p \in 0 .. m /\ p <= m /\ q \in 0 .. n
        /\ Len(w) - p = n - q /\ Len(w) - p = t + 1
    <3>1. Len(w) = m
      BY <2>3 DEF Altered
    <3> HIDE DEF m, n
    <3>2. p \in 0 .. m /\ p <= m /\ q \in 0 .. n /\ m - p = n - q /\ m - p = t + 1
      BY <1>0, <1>4, <1>10
    <3> QED
      BY <3>1, <3>2
  <2>6. \A s \in 1 .. p : w[s] = a[s]
    BY <1>0, <1>4, <2>3 DEF Altered
  <2>7. ASSUME NEW s \in 1 .. (t + 1) PROVE w[p + s] = b[q + s]
    <3>1. CASE s = 1
      <4>1. p + s = i /\ q + s = j
        BY <1>4, <3>1
      <4> QED
        BY <2>3, <4>1
    <3>2. CASE s \in 2 .. (t + 1)
      <4> DEFINE r == s - 1
      <4>1. r \in 1 .. t /\ i + r \in 1 .. m /\ i + r # i /\ p + s = i + r /\ q + s = j + r
        BY <1>0, <1>4, <3>2
      <4> HIDE DEF r
      <4>2. w[i + r] = a[i + r]
        BY <2>3, <4>1 DEF Altered
      <4> QED
        BY <1>5, <4>1, <4>2
    <3> QED
      BY <3>1, <3>2
  <2> HIDE DEF p, q
  <2>8. E[Len(w)][n] <= D[p][q]
    BY <1>1, <2>2, <2>4, <2>5, <2>6, <2>7, NearerByLetters
  <2>9. D[p][q] + 1 = D[m][n]
    BY <1>5, <1>10 DEF p, q
  <2> QED
    BY <1>6, <2>2, <2>4, <2>5, <2>8, <2>9
<1> QED
  BY <1>5, <1>7, <1>8, <1>9, <1>10 DEF Stepped

\* The sender's domain stays one that was split.
SenderInv == mail = [sender |-> mail.sender, pieces |-> mail.pieces] /\ mail.sender \in SplitDomain

LEMMA FirstWord == ASSUME NEW d \in SplitDomain PROVE d[1][1] \in Seq(Letters)
<1>1. d \in Seq(Seq(Seq(Letters))) /\ d # <<>> /\ \A i \in DOMAIN d : d[i] # <<>>
  BY DEF SplitDomain
<1>2. 1 \in DOMAIN d /\ d[1] \in Seq(Seq(Letters))
  BY <1>1
<1>3. d[1] # <<>>
  BY <1>1, <1>2
<1> QED
  BY <1>2, <1>3

LEMMA StillSplit ==
  ASSUME NEW d \in SplitDomain, NEW word \in Seq(Letters)
  PROVE  [d EXCEPT ![1][1] = word] \in SplitDomain
<1>1. d \in Seq(Seq(Seq(Letters))) /\ d # <<>> /\ \A i \in DOMAIN d : d[i] # <<>>
  BY DEF SplitDomain
<1> DEFINE label == [d[1] EXCEPT ![1] = word]
           e == [d EXCEPT ![1] = label]
<1>2. 1 \in DOMAIN d /\ d[1] \in Seq(Seq(Letters)) /\ d[1] # <<>>
  BY <1>1
<1>3. label \in Seq(Seq(Letters)) /\ label # <<>>
  BY <1>2
<1>4. [d EXCEPT ![1][1] = word] = e
  BY <1>1, <1>2
<1> HIDE DEF label
<1>5. e \in Seq(Seq(Seq(Letters))) /\ DOMAIN e = DOMAIN d /\ e # <<>>
  BY <1>1, <1>3
<1>6. \A i \in DOMAIN e : e[i] # <<>>
  BY <1>1, <1>3, <1>5
<1> HIDE DEF e
<1> QED
  BY <1>4, <1>5, <1>6 DEF SplitDomain

LEMMA SenderAlways == MailSpec => []SenderInv
<1>1. MailInit => SenderInv
  BY RulesAssumption DEF RulesAssumption, MailInit, SenderInv
<1>2. SenderInv /\ [MailNext]_mailVars => SenderInv'
  <2> SUFFICES ASSUME SenderInv, [MailNext]_mailVars PROVE SenderInv'
    OBVIOUS
  <2>1. CASE Misspell
    <3>1. PICK word \in Edited(mail.sender[1][1]) : mail' = [mail EXCEPT !.sender[1][1] = word]
      BY <2>1 DEF Misspell
    <3>2. word \in Seq(Letters)
      BY FirstWord, EditsOfAWord DEF SenderInv
    <3>3. mail' = [sender |-> [mail.sender EXCEPT ![1][1] = word], pieces |-> mail.pieces]
      BY <3>1 DEF SenderInv
    <3> QED
      BY <3>2, <3>3, StillSplit DEF SenderInv
  <2>2. ASSUME NEW p \in Pieces, AddEvidence(p) PROVE SenderInv'
    BY <2>2 DEF AddEvidence, SenderInv
  <2>3. CASE UNCHANGED mailVars
    BY <2>3 DEF mailVars, SenderInv
  <2> QED
    BY <2>1, <2>2, <2>3 DEF MailNext
<1> QED
  BY <1>1, <1>2, PTL DEF MailSpec

\* The rows of levenshtein give the edit distance, for any words and brands: 0
\* for equal words only, changed by at most one by any edit and lessened by some
\* (domain_utils.py:71-87).
THEOREM RowsGiveDistances == MailSpec => []RowsAreDistances
<1>1. SenderInv => RowsAreDistances
  <2> SUFFICES ASSUME SenderInv, NEW i \in DOMAIN Brands, NEW root \in Roots(i)
               PROVE  LET word == mail.sender[1][1]
                          distance == levenshtein(word, root)
                          after == {levenshtein(w, root) : w \in Edited(word)}
                      IN  /\ distance = 0 <=> word = root
                          /\ after \subseteq distance - 1 .. distance + 1
                          /\ distance > 0 => distance - 1 \in after
    BY DEF RowsAreDistances
  <2> DEFINE word == mail.sender[1][1]
             distance == levenshtein(word, root)
             after == {levenshtein(w, root) : w \in Edited(word)}
  <2>1. word \in Seq(Letters)
    BY FirstWord DEF SenderInv
  <2>2. root \in Seq(Letters)
    BY FirstWord, DomainsAssumption DEF DomainsAssumption, Roots
  <2> HIDE DEF word
  <2>3. distance \in Nat /\ (distance = 0 <=> word = root)
    <3>1. PICK D : Table(D, word, root) /\ distance = D[Len(word)][Len(root)]
      BY <2>1, <2>2, LevenshteinByTable DEF HasTable
    <3>2. Len(word) \in Nat /\ Len(root) \in Nat
      BY <2>1, <2>2
    <3>3. D[Len(word)][Len(root)] \in Nat
      BY <3>1, <3>2, CellsOfTable
    <3> QED
      BY <2>1, <2>2, <3>1, <3>3, ZeroIfEqual
  <2>4. ASSUME NEW w \in Edited(word) PROVE levenshtein(w, root) \in distance - 1 .. distance + 1
    <3>1. distance \in Nat /\ levenshtein(w, root) \in Nat /\ Near(distance, levenshtein(w, root))
      BY <2>1, <2>2, EditsAreNear
    <3> HIDE DEF distance
    <3> QED
      BY <3>1 DEF Near
  <2>5. ASSUME distance > 0 PROVE distance - 1 \in after
    BY <2>1, <2>2, <2>5, SomeEditIsNearer
  <2> QED
    BY <2>3, <2>4, <2>5 DEF word
<1> QED
  BY <1>1, SenderAlways, PTL
=============================================================================
