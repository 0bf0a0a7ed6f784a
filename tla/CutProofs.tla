----------------------------- MODULE CutProofs ------------------------------
(***************************************************************************)
(* That a cover's sample is cut soundly and every pixel is mapped to its   *)
(* nearest colour, for every sample, every hash and every number of        *)
(* colours.                                                                *)
(*                                                                         *)
(* The heap and the numbering of the leaves are recursive in the code.  A  *)
(* recursion that looks at members of lower rank alone has a solution, and *)
(* what holds of a member as soon as it holds of all of lower rank holds   *)
(* of every member: both follow from the least number of a set.            *)
(***************************************************************************)
EXTENDS MedianCut, FiniteSetTheorems, WellFoundedInduction, TLAPS

-----------------------------------------------------------------------------
\* Counting: a set of numbers that is not empty has a least member.
LEMMA LeastOf ==
    ASSUME NEW T, T \subseteq Nat, T # {}
    PROVE  \E x \in T : \A y \in T : x <= y
<1>1. PICK x \in T : \A y \in T : ~(<<y, x>> \in OpToRel(<, Nat))
  BY NatLessThanWellFounded, WFMin
<1>2. \A y \in T : ~(y < x)
  BY <1>1 DEF OpToRel
<1> QED
  BY <1>2

\* A member of D is in T as soon as all of lower rank are.
Climbs(D, r, T) == \A d \in D : (\A e \in D : r[e] < r[d] => e \in T) => d \in T

\* What climbs has every member.
LEMMA ByRank ==
    ASSUME NEW D, NEW r \in [D -> Nat], NEW T, Climbs(D, r, T)
    PROVE  D \subseteq T
<1> SUFFICES ASSUME NEW x \in D, x \notin T PROVE FALSE
  OBVIOUS
<1> DEFINE U == {r[d] : d \in D \ T}
<1>1. U \subseteq Nat /\ U # {}
  OBVIOUS
<1>2. PICK least \in U : \A y \in U : least <= y
  BY <1>1, LeastOf
<1>3. PICK d \in D \ T : least = r[d]
  BY <1>2
<1>4. ASSUME NEW e \in D, r[e] < r[d] PROVE e \in T
  <2>1. SUFFICES ASSUME e \notin T PROVE FALSE
    OBVIOUS
  <2>2. r[e] \in U
    BY <2>1
  <2>3. r[e] \in Nat /\ r[d] \in Nat
    OBVIOUS
  <2> HIDE DEF U
  <2> QED
    BY <1>2, <1>3, <1>4, <2>2, <2>3
<1> QED
  BY <1>3, <1>4 DEF Climbs

LEMMA LessThan ==
    ASSUME NEW x \in Int, NEW y \in Int, x <= y, x # y
    PROVE  x < y
OBVIOUS

\* F looks at members of lower rank alone; f solves the recursion.
LooksDown(F, D, V, r) ==
    \A d \in D : \A f, g \in [D -> V] :
        (\A e \in D : r[e] < r[d] => f[e] = g[e]) => F[<<d, f>>] = F[<<d, g>>]
\* f solves the recursion.
IsSolution(f, F, D) == f = [d \in D |-> F[<<d, f>>]]

\* A recursion that looks at members of lower rank alone has a solution.
LEMMA RecursionHasSolution ==
    ASSUME NEW D, NEW V, NEW v \in V, NEW n \in Nat, NEW r \in [D -> 0 .. n],
           NEW F \in [D \X [D -> V] -> V], LooksDown(F, D, V, r)
    PROVE  \E f \in [D -> V] : IsSolution(f, F, D)
<1> DEFINE Solves(f, m) == \A d \in D : r[d] <= m => f[d] = F[<<d, f>>]
           T == {m \in 0 .. n : \E f \in [D -> V] : Solves(f, m)}
<1>0. \A d \in D : r[d] \in 0 .. n
  OBVIOUS
\* One more rank.
<1>1. ASSUME NEW m \in 0 .. n, NEW f \in [D -> V],
             \A d \in D : r[d] < m => f[d] = F[<<d, f>>]
      PROVE  m \in T
  <2> DEFINE h == [d \in D |-> IF r[d] = m THEN F[<<d, f>>] ELSE f[d]]
  <2>1. h \in [D -> V]
    OBVIOUS
  <2>2. ASSUME NEW d \in D, r[d] <= m PROVE h[d] = F[<<d, h>>]
    <3>1. ASSUME NEW e \in D, r[e] < r[d] PROVE f[e] = h[e]
      <4>1. r[e] # m
        BY <1>0, <2>2, <3>1
      <4> QED
        BY <4>1
    <3>2. F[<<d, f>>] = F[<<d, h>>]
      <4> HIDE DEF h
      <4> QED
        BY <2>1, <3>1 DEF LooksDown
    <3>3. h[d] = F[<<d, f>>]
      <4>1. CASE r[d] = m
        BY <4>1
      <4>2. CASE r[d] # m
        <5>1. r[d] \in Int /\ m \in Int
          BY <1>0
        <5>2. r[d] < m
          BY <2>2, <4>2, <5>1, LessThan
        <5> QED
          BY <1>1, <4>2, <5>2
      <4> QED
        BY <4>1, <4>2
    <3> QED
      BY <3>2, <3>3
  <2> HIDE DEF h
  <2>3. Solves(h, m)
    BY <2>2
  <2> QED
    BY <2>1, <2>3
<1>2. 0 .. n \subseteq T
  <2> DEFINE rank == [m \in 0 .. n |-> m]
  <2>1. ASSUME NEW m \in 0 .. n, \A k \in 0 .. n : rank[k] < rank[m] => k \in T
        PROVE  m \in T
    <3>1. CASE m = 0
      <4>1. [d \in D |-> v] \in [D -> V]
        OBVIOUS
      <4>2. \A d \in D : ~(r[d] < m)
        BY <1>0, <3>1
      <4> HIDE DEF T
      <4> QED
        BY <1>1, <4>1, <4>2
    <3>2. CASE m # 0
      <4>1. m - 1 \in 0 .. n /\ rank[m - 1] < rank[m]
        BY <3>2
      <4>2. m - 1 \in T
        BY <2>1, <4>1
      <4>3. PICK f \in [D -> V] : Solves(f, m - 1)
        BY <4>2
      <4>4. \A d \in D : r[d] < m => f[d] = F[<<d, f>>]
        BY <1>0, <4>3
      <4> HIDE DEF T
      <4> QED
        BY <1>1, <4>4
    <3> QED
      BY <3>1, <3>2
  <2>2. rank \in [0 .. n -> Nat]
    OBVIOUS
  <2>3. Climbs(0 .. n, rank, T)
    BY <2>1 DEF Climbs
  <2> HIDE DEF T, rank
  <2> QED
    BY <2>2, <2>3, ByRank
<1>3. PICK f \in [D -> V] : Solves(f, n)
  <2>1. n \in T
    <3> HIDE DEF T
    <3> QED
      BY <1>2
  <2> QED
    BY <2>1
<1>4. \A d \in D : f[d] = F[<<d, f>>]
  BY <1>0, <1>3
<1> QED
  BY <1>4 DEF IsSolution

\* The sum of a function over one element more.
SumStep(f, g, s) ==
    IF s = {} THEN 0 ELSE LET x == CHOOSE x \in s : TRUE IN f[x] + g[s \ {x}]

LEMMA SumUnfolds ==
    ASSUME NEW S, IsFiniteSet(S), NEW f, \A x \in S : f[x] \in Nat
    PROVE  \E g \in [SUBSET S -> Nat] :
              /\ \A s \in SUBSET S : g[s] = SumStep(f, g, s)
              /\ SumFunctionOnSet(f, S) = g[S]
<1> DEFINE Step(g) == [s \in SUBSET S |-> SumStep(f, g, s)]
           G == CHOOSE g : g = Step(g)
           D == SUBSET S
           n == Cardinality(S)
           r == [s \in D |-> Cardinality(s)]
           F == [p \in D \X [D -> Nat] |-> SumStep(f, p[2], p[1])]
<1>1. n \in Nat /\ \A s \in D : IsFiniteSet(s) /\ Cardinality(s) \in 0 .. n
  BY FS_CardinalityType, FS_Subset
<1>2. r \in [D -> 0 .. n]
  BY <1>1
<1>3. \A s \in D : s # {} => /\ (CHOOSE x \in s : TRUE) \in s
                             /\ s \ {CHOOSE x \in s : TRUE} \in D
                             /\ r[s \ {CHOOSE x \in s : TRUE}] < r[s]
  <2> TAKE s \in D
  <2> HAVE s # {}
  <2> DEFINE x == CHOOSE x \in s : TRUE
  <2>1. x \in s
    OBVIOUS
  <2> HIDE DEF x
  <2>2. s \ {x} \in D /\ Cardinality(s \ {x}) = Cardinality(s) - 1
    BY <1>1, <2>1, FS_RemoveElement
  <2>3. Cardinality(s) \in Int
    BY <1>1
  <2>4. r[s] = Cardinality(s) /\ r[s \ {x}] = Cardinality(s \ {x})
    BY <2>2
  <2> QED
    BY <2>1, <2>2, <2>3, <2>4 DEF x
<1>4. \A s \in D, g \in [D -> Nat] : SumStep(f, g, s) \in Nat
  <2> TAKE s \in D, g \in [D -> Nat]
  <2>1. CASE s = {}
    BY <2>1 DEF SumStep
  <2>2. CASE s # {}
    <3> DEFINE x == CHOOSE x \in s : TRUE
    <3>1. x \in s /\ s \ {x} \in D
      BY <1>3, <2>2
    <3>2. SumStep(f, g, s) = f[x] + g[s \ {x}]
      BY <2>2 DEF SumStep
    <3> HIDE DEF x
    <3> QED
      BY <3>1, <3>2
  <2> QED
    BY <2>1, <2>2
<1>5. F \in [D \X [D -> Nat] -> Nat]
  BY <1>4
<1>6. LooksDown(F, D, Nat, r)
  <2> SUFFICES ASSUME NEW d \in D, NEW g \in [D -> Nat], NEW h \in [D -> Nat],
                      \A e \in D : r[e] < r[d] => g[e] = h[e]
               PROVE  F[<<d, g>>] = F[<<d, h>>]
    BY DEF LooksDown
  <2>1. F[<<d, g>>] = SumStep(f, g, d) /\ F[<<d, h>>] = SumStep(f, h, d)
    OBVIOUS
  <2> HIDE DEF F, D, r
  <2>2. SumStep(f, g, d) = SumStep(f, h, d)
    BY <1>3 DEF SumStep
  <2> QED
    BY <2>1, <2>2
<1>7. PICK g \in [D -> Nat] : IsSolution(g, F, D)
  <2> HIDE DEF F, D, r, n
  <2>1. 0 \in Nat /\ n \in Nat
    BY <1>1
  <2> QED
    BY <1>2, <1>5, <1>6, <2>1, RecursionHasSolution
<1>8. g = Step(g)
  <2>1. \A s \in D : F[<<s, g>>] = SumStep(f, g, s)
    OBVIOUS
  <2> HIDE DEF F
  <2> QED
    BY <1>7, <2>1 DEF IsSolution
<1>9. G = Step(G)
  BY <1>8
<1>10. SumFunctionOnSet(f, S) = G[S]
  BY DEF SumFunctionOnSet, FoldFunctionOnSet, MapThenFoldSet, SumStep
<1> HIDE DEF G
<1>11. DOMAIN G = D /\ \A s \in D : G[s] = SumStep(f, G, s)
  BY <1>9
<1>12. D \subseteq {s \in D : G[s] \in Nat}
  <2> DEFINE T == {s \in D : G[s] \in Nat}
  <2>1. ASSUME NEW d \in D, \A e \in D : r[e] < r[d] => e \in T
        PROVE  d \in T
    <3>1. CASE d = {}
      BY <1>11, <3>1 DEF SumStep
    <3>2. CASE d # {}
      <4> DEFINE x == CHOOSE x \in d : TRUE
      <4>1. x \in d /\ d \ {x} \in D /\ r[d \ {x}] < r[d]
        BY <1>3, <3>2
      <4>2. G[d] = f[x] + G[d \ {x}]
        BY <1>11, <3>2 DEF SumStep
      <4> HIDE DEF x, r
      <4>3. G[d \ {x}] \in Nat /\ f[x] \in Nat
        BY <2>1, <4>1
      <4> QED
        BY <4>2, <4>3
    <3> QED
      BY <3>1, <3>2
  <2>2. r \in [D -> Nat]
    BY <1>1
  <2>3. D \subseteq T
    <3> HIDE DEF T, D, r
    <3> QED
      BY <2>1, <2>2, ByRank DEF Climbs
  <2> QED
    BY <2>3
<1>13. G \in [SUBSET S -> Nat]
  <2>1. G = [s \in D |-> G[s]]
    BY <1>9
  <2> HIDE DEF G
  <2> QED
    BY <1>12, <2>1
<1> QED
  BY <1>10, <1>11, <1>13

\* What a sum is: no less than the number of its terms when none is 0, and no more than
\* the largest of them for each.
LEMMA SumsAreNumbers ==
    ASSUME NEW S, IsFiniteSet(S), NEW f, \A x \in S : f[x] \in Nat
    PROVE  LET sum == SumFunctionOnSet(f, S)
           IN  /\ sum \in Nat
               /\ (\A x \in S : f[x] >= 1) => sum >= Cardinality(S)
               /\ \A m \in Nat : (\A x \in S : f[x] <= m) => sum <= m * Cardinality(S)
<1>1. PICK g \in [SUBSET S -> Nat] :
              /\ \A s \in SUBSET S : g[s] = SumStep(f, g, s)
              /\ SumFunctionOnSet(f, S) = g[S]
  BY SumUnfolds
<1> DEFINE D == SUBSET S
           r == [s \in D |-> Cardinality(s)]
<1>2. \A s \in D : IsFiniteSet(s) /\ Cardinality(s) \in Nat
  BY FS_CardinalityType, FS_Subset
<1>3. r \in [D -> Nat]
  BY <1>2
<1>4. ASSUME NEW s \in D, s # {}
      PROVE  \E x \in s : /\ s \ {x} \in D /\ r[s \ {x}] = r[s] - 1
                          /\ g[s] = f[x] + g[s \ {x}]
  <2> DEFINE x == CHOOSE x \in s : TRUE
  <2>1. x \in s /\ g[s] = f[x] + g[s \ {x}]
    BY <1>1, <1>4 DEF SumStep
  <2> HIDE DEF x
  <2>2. s \ {x} \in D /\ Cardinality(s \ {x}) = Cardinality(s) - 1
    BY <1>2, <2>1, FS_RemoveElement
  <2> QED
    BY <2>1, <2>2
<1>5. g[{}] = 0 /\ r[{}] = 0
  BY <1>1, FS_EmptySet DEF SumStep
<1>6. \A s \in D : s # {} => r[s] \in Nat \ {0}
  BY <1>2, FS_EmptySet
<1> HIDE DEF r
<1>7. ASSUME \A x \in S : f[x] >= 1 PROVE g[S] >= r[S]
  <2> DEFINE T == {s \in D : g[s] >= r[s]}
  <2>1. ASSUME NEW d \in D, \A e \in D : r[e] < r[d] => e \in T PROVE d \in T
    <3>1. CASE d = {}
      BY <1>5, <3>1
    <3>2. CASE d # {}
      <4>1. PICK x \in d : d \ {x} \in D /\ r[d \ {x}] = r[d] - 1 /\ g[d] = f[x] + g[d \ {x}]
        BY <1>4, <3>2
      <4>2. r[d] \in Nat \ {0} /\ f[x] \in Nat /\ f[x] >= 1 /\ g[d \ {x}] \in Nat
        BY <1>6, <1>7, <3>2, <4>1
      <4>3. g[d \ {x}] >= r[d \ {x}]
        BY <2>1, <4>1, <4>2
      <4> QED
        BY <4>1, <4>2, <4>3
    <3> QED
      BY <3>1, <3>2
  <2>2. S \in D
    OBVIOUS
  <2> HIDE DEF T, D
  <2>3. D \subseteq T
    BY <1>3, <2>1, ByRank DEF Climbs
  <2> QED
    BY <2>2, <2>3 DEF T
<1>8. ASSUME NEW m \in Nat, \A x \in S : f[x] <= m PROVE g[S] <= m * r[S]
  <2> DEFINE T == {s \in D : g[s] <= m * r[s]}
  <2>1. ASSUME NEW d \in D, \A e \in D : r[e] < r[d] => e \in T PROVE d \in T
    <3>1. CASE d = {}
      BY <1>5, <3>1
    <3>2. CASE d # {}
      <4>1. PICK x \in d : d \ {x} \in D /\ r[d \ {x}] = r[d] - 1 /\ g[d] = f[x] + g[d \ {x}]
        BY <1>4, <3>2
      <4>2. r[d] \in Nat \ {0} /\ f[x] \in Nat /\ f[x] <= m /\ g[d \ {x}] \in Nat
        BY <1>6, <1>8, <3>2, <4>1
      <4>3. g[d \ {x}] <= m * r[d \ {x}]
        BY <2>1, <4>1, <4>2
      <4>4. m * (r[d] - 1) = m * r[d] - m
        BY <4>2, SMT
      <4>5. m * r[d] \in Nat
        BY <4>2, SMT
      <4> DEFINE big == m * r[d]
      <4>6. g[d \ {x}] <= big - m
        BY <4>1, <4>3, <4>4
      <4> HIDE DEF big
      <4>7. g[d] <= big
        BY <4>1, <4>2, <4>5, <4>6 DEF big
      <4> QED
        BY <4>7 DEF big
    <3> QED
      BY <3>1, <3>2
  <2>2. S \in D
    OBVIOUS
  <2> HIDE DEF T, D
  <2>3. D \subseteq T
    BY <1>3, <2>1, ByRank DEF Climbs
  <2> QED
    BY <2>2, <2>3 DEF T
<1> QED
  BY <1>1, <1>7, <1>8 DEF r

\* Min and Max of a set of row numbers.
LEMMA ExtremesOf ==
    ASSUME NEW m \in Nat, NEW T, T \subseteq 0 .. m, T # {}
    PROVE  /\ Min(T) \in T /\ \A y \in T : Min(T) <= y
           /\ Max(T) \in T /\ \A y \in T : y <= Max(T)
<1>0. \A y \in T : y \in Nat /\ y <= m
  OBVIOUS
<1>1. PICK x \in T : \A y \in T : x <= y
  BY <1>0, LeastOf
<1>2. Min(T) \in T /\ \A y \in T : Min(T) <= y
  BY <1>1 DEF Min
<1>3. PICK z \in T : \A y \in T : y <= z
  <2> DEFINE U == {m - y : y \in T}
  <2>1. U \subseteq Nat /\ U # {}
    BY <1>0
  <2>2. PICK x2 \in U : \A y \in U : x2 <= y
    BY <2>1, LeastOf
  <2>3. PICK z \in T : x2 = m - z
    BY <2>2
  <2>4. \A y \in T : m - z <= m - y
    BY <2>2, <2>3
  <2> QED
    BY <2>3, <2>4
<1>4. Max(T) \in T /\ \A y \in T : y <= Max(T)
  BY <1>3 DEF Max
<1> QED
  BY <1>2, <1>4

-----------------------------------------------------------------------------
\* The heap.

\* No box is below a smaller one.
IsHeap(h, w) == \A j \in 2 .. Len(h) : w[h[j]] <= w[h[j \div 2]]
\* No box is in the heap twice.
Distinct(h) == \A k, m \in 1 .. Len(h) : k # m => h[k] # h[m]

\* The parent's place, and the children's.
LEMMA Halves ==
    ASSUME NEW k \in Nat, k >= 2
    PROVE  k \div 2 \in Nat /\ k \div 2 >= 1 /\ k \div 2 < k /\ 2 * (k \div 2) <= k
           /\ k <= 2 * (k \div 2) + 1
  BY SMT

LEMMA HalfOfDouble ==
    ASSUME NEW k \in Nat
    PROVE  (2 * k) \div 2 = k /\ (2 * k + 1) \div 2 = k
  BY SMT

LEMMA FunctionsAreSequences ==
    ASSUME NEW B, NEW n \in Nat, NEW f \in [1 .. n -> B]
    PROVE  f \in Seq(B) /\ Len(f) = n
<1>1. f = [j \in 1 .. n |-> f[j]] /\ \A j \in 1 .. n : f[j] \in B
  OBVIOUS
<1>2. [j \in 1 .. n |-> f[j]] \in Seq(B) /\ Len([j \in 1 .. n |-> f[j]]) = n
  BY <1>1
<1> QED
  BY <1>1, <1>2

\* The top has the most pixels.
LEMMA TopIsLargest ==
    ASSUME NEW B, NEW w \in [B -> Nat], NEW h \in Seq(B), IsHeap(h, w)
    PROVE  \A k \in 1 .. Len(h) : w[h[k]] <= w[h[1]]
<1> DEFINE D == 1 .. Len(h)
           T == {k \in D : w[h[k]] <= w[h[1]]}
           r == [k \in D |-> k]
<1>1. Len(h) \in Nat /\ \A k \in D : h[k] \in B /\ w[h[k]] \in Nat
  OBVIOUS
<1>2. r \in [D -> Nat]
  BY <1>1
<1>3. ASSUME NEW k \in D, \A e \in D : r[e] < r[k] => e \in T PROVE k \in T
  <2>1. CASE k = 1
    BY <1>1, <2>1
  <2>2. CASE k # 1
    <3> DEFINE p == k \div 2
    <3>1. k \in Nat /\ k >= 2 /\ k \in 2 .. Len(h)
      BY <1>1, <2>2
    <3>2. p \in D /\ p < k
      BY <1>1, <3>1, Halves
    <3>3. w[h[k]] <= w[h[p]]
      BY <3>1 DEF IsHeap
    <3> HIDE DEF p
    <3>4. p \in T
      BY <1>3, <3>2
    <3>5. w[h[p]] <= w[h[1]] /\ 1 \in D
      BY <1>1, <3>1, <3>4
    <3> QED
      BY <1>1, <3>2, <3>3, <3>5
  <2> QED
    BY <2>1, <2>2
<1> HIDE DEF T, D, r
<1>4. D \subseteq T
  BY <1>2, <1>3, ByRank DEF Climbs
<1> QED
  BY <1>4 DEF T, D

-----------------------------------------------------------------------------
\* Adding.  Risen: f is the heap h with box b put at slot k or risen from there.  While
\* k is not the end of the heap, the last slot does not count yet.
Counted(n, k) == IF k = n THEN 1 .. n ELSE 1 .. n - 1

\* f is the heap h with b put where it belongs on the way up from k; above k it is
\* a heap of what was there, k itself has b or its old parent.
Risen(h, b, w, B, k, f) ==
    LET n == Len(h) + 1
        J == Counted(n, k)
    IN  /\ f \in [1 .. n -> B]
        /\ \A j \in k + 1 .. n : f[j] = Append(h, b)[j]
        /\ f[k] = b \/ (k > 1 /\ f[k] = h[k \div 2])
        /\ \A j \in 2 .. n : j \in J => w[f[j]] <= w[f[j \div 2]]
        /\ \A i, j \in J : i # j => f[i] # f[j]
        /\ \A j \in J : f[j] = b \/ \E m \in 1 .. n - 1 : m # k /\ f[j] = h[m]
        /\ \E j \in J : f[j] = b
        /\ \A m \in 1 .. n - 1 : m # k => \E j \in J : f[j] = h[m]

\* b stays at k when its parent there is no smaller.
LEMMA RiseStops ==
    ASSUME NEW B, NEW w \in [B -> Nat], NEW h \in Seq(B), NEW b \in B,
           IsHeap(h, w), Distinct(h), \A k \in 1 .. Len(h) : h[k] # b,
           NEW k \in 1 .. Len(h) + 1, k = Len(h) + 1 \/ w[h[k]] < w[b],
           k = 1 \/ w[b] <= w[h[k \div 2]]
    PROVE  Risen(h, b, w, B, k, [Append(h, b) EXCEPT ![k] = b])
<1> DEFINE n == Len(h) + 1
           J == Counted(n, k)
           base == Append(h, b)
           f == [base EXCEPT ![k] = b]
<1>1. /\ n \in Nat /\ n >= 1 /\ Len(h) = n - 1
      /\ \A j \in 1 .. n - 1 : h[j] \in B /\ base[j] = h[j] /\ h[j] # b /\ w[h[j]] \in Nat
      /\ base[n] = b /\ base \in [1 .. n -> B] /\ w[b] \in Nat
  <2>1. n \in Nat /\ n >= 1 /\ Len(h) = n - 1 /\ w[b] \in Nat
    OBVIOUS
  <2>2. \A j \in 1 .. Len(h) : h[j] \in B /\ h[j] # b /\ base[j] = h[j]
    OBVIOUS
  <2>3. Len(base) = n /\ base[n] = b /\ base \in Seq(B)
    OBVIOUS
  <2>4. base \in [1 .. n -> B]
    <3> HIDE DEF base, n
    <3> QED
      BY <2>3
  <2> HIDE DEF base, n
  <2> QED
    BY <2>1, <2>2, <2>3, <2>4
<1>2. f \in [1 .. n -> B] /\ f[k] = b /\ \A j \in 1 .. n : j # k => f[j] = base[j]
  BY <1>1
<1> HIDE DEF f, base, n
<1>3. k \in 1 .. n /\ (k = n \/ (k \in 1 .. n - 1 /\ w[h[k]] < w[b]))
  BY <1>1 DEF n
<1>4. \A j \in J : j = k \/ (j \in 1 .. n - 1 /\ j # k /\ f[j] = h[j])
  BY <1>1, <1>2, <1>3 DEF Counted
<1>5. k \in J /\ \A j \in 1 .. n - 1 : j \in J
  BY <1>1, <1>3 DEF Counted
<1>6. \A j \in 1 .. n - 1 : \A m \in 1 .. n - 1 : j # m => h[j] # h[m]
  BY <1>1 DEF Distinct
<1>7. ASSUME NEW j \in 2 .. n, j \in J
      PROVE  w[f[j]] <= w[f[j \div 2]]
  <2> DEFINE p == j \div 2
  <2>1. p \in 1 .. n - 1 /\ p < j
    BY <1>1, Halves
  <2>2. CASE j = k
    <3>1. f[p] = h[p]
      BY <1>1, <1>2, <2>1, <2>2
    <3>2. w[b] <= w[h[p]]
      BY <2>2
    <3> QED
      BY <1>2, <2>2, <3>1, <3>2
  <2>3. CASE j # k
    <3>1. j \in 1 .. n - 1 /\ f[j] = h[j] /\ j \in 2 .. Len(h)
      BY <1>1, <1>4, <1>7, <2>3
    <3>2. w[h[j]] <= w[h[p]]
      BY <3>1 DEF IsHeap
    <3> HIDE DEF p
    <3>3. CASE p = k
      <4>1. w[h[k]] < w[b] /\ f[p] = b
        BY <1>1, <1>2, <1>3, <2>1, <3>3
      <4>2. w[h[j]] \in Nat /\ w[h[k]] \in Nat /\ w[b] \in Nat
        BY <1>1, <2>1, <3>1, <3>3
      <4>3. w[h[j]] <= w[b]
        BY <3>2, <3>3, <4>1, <4>2
      <4> QED
        BY <3>1, <4>1, <4>3 DEF p
    <3>4. CASE p # k
      <4>1. f[p] = h[p]
        BY <1>1, <1>2, <2>1, <3>4
      <4> QED
        BY <3>1, <3>2, <4>1 DEF p
    <3> QED
      BY <3>3, <3>4
  <2> QED
    BY <2>2, <2>3
<1>8. \A i, j \in J : i # j => f[i] # f[j]
  BY <1>1, <1>2, <1>4, <1>6
<1>9. \A j \in J : f[j] = b \/ \E m \in 1 .. n - 1 : m # k /\ f[j] = h[m]
  BY <1>2, <1>4
<1>10. \A m \in 1 .. n - 1 : m # k => \E j \in J : f[j] = h[m]
  <2> TAKE m \in 1 .. n - 1
  <2> HAVE m # k
  <2>1. m \in J /\ f[m] = h[m]
    BY <1>1, <1>2, <1>5
  <2> QED
    BY <2>1
<1>11. \A j \in k + 1 .. n : f[j] = base[j]
  BY <1>1, <1>2, <1>3
<1> HIDE DEF J
<1> QED
  BY <1>2, <1>5, <1>7, <1>8, <1>9, <1>10, <1>11 DEF Risen, J, n, f, base

\* Otherwise the parent comes down to k, and b goes on above.
LEMMA RiseGoesOn ==
    ASSUME NEW B, NEW w \in [B -> Nat], NEW h \in Seq(B), NEW b \in B,
           IsHeap(h, w), Distinct(h), \A k \in 1 .. Len(h) : h[k] # b,
           NEW k \in 1 .. Len(h) + 1, k = Len(h) + 1 \/ w[h[k]] < w[b],
           k # 1, ~(w[b] <= w[h[k \div 2]]),
           NEW g, Risen(h, b, w, B, k \div 2, g)
    PROVE  Risen(h, b, w, B, k, [g EXCEPT ![k] = h[k \div 2]])
<1> DEFINE n == Len(h) + 1
           p == k \div 2
           J == Counted(n, k)
           base == Append(h, b)
           f == [g EXCEPT ![k] = h[p]]
<1>1. /\ n \in Nat /\ n >= 1 /\ Len(h) = n - 1
      /\ \A j \in 1 .. n - 1 : h[j] \in B /\ base[j] = h[j] /\ h[j] # b /\ w[h[j]] \in Nat
      /\ w[b] \in Nat
  OBVIOUS
<1>2. k \in 2 .. n /\ p \in 1 .. n - 1 /\ p < k /\ p \in Nat /\ p # n
  BY <1>1, Halves
<1> HIDE DEF base, n, p
<1>3. /\ g \in [1 .. n -> B]
      /\ \A j \in p + 1 .. n : g[j] = base[j]
      /\ g[p] = b \/ (p > 1 /\ g[p] = h[p \div 2])
      /\ \A j \in 2 .. n : j \in 1 .. n - 1 => w[g[j]] <= w[g[j \div 2]]
      /\ \A i, j \in 1 .. n - 1 : i # j => g[i] # g[j]
      /\ \A j \in 1 .. n - 1 : g[j] = b \/ \E m \in 1 .. n - 1 : m # p /\ g[j] = h[m]
      /\ \E j \in 1 .. n - 1 : g[j] = b
      /\ \A m \in 1 .. n - 1 : m # p => \E j \in 1 .. n - 1 : g[j] = h[m]
  <2>1. Counted(n, p) = 1 .. n - 1
    BY <1>2 DEF Counted
  <2> QED
    BY <2>1 DEF Risen, n, base, p
<1>4. f \in [1 .. n -> B] /\ f[k] = h[p] /\ \A j \in 1 .. n : j # k => f[j] = g[j]
  BY <1>1, <1>2, <1>3
<1> HIDE DEF f
<1>5. w[h[p]] < w[b] /\ (k = n \/ (k \in 1 .. n - 1 /\ w[h[k]] < w[b]))
  <2>1. ~(w[b] <= w[h[p]]) /\ w[b] \in Nat /\ w[h[p]] \in Nat
    BY <1>1, <1>2 DEF p
  <2> QED
    BY <1>2, <2>1 DEF n
<1>6. \A j \in J : j = k \/ (j \in 1 .. n - 1 /\ j # k /\ f[j] = g[j])
  BY <1>1, <1>2, <1>4, <1>5 DEF Counted
<1>7. k \in J /\ \A j \in 1 .. n - 1 : j \in J
  BY <1>2, <1>5 DEF Counted
<1>8. \A j \in 1 .. n - 1 : \A m \in 1 .. n - 1 : j # m => h[j] # h[m]
  BY <1>1 DEF Distinct
\* What stood at k is still there in g.
<1>9. k # n => g[k] = h[k]
  <2>1. k \in p + 1 .. n
    BY <1>1, <1>2
  <2> QED
    BY <1>1, <1>3, <1>5, <2>1
<1>10. \A j \in k + 1 .. n : f[j] = base[j]
  <2>1. \A j \in k + 1 .. n : j \in p + 1 .. n /\ j \in 1 .. n /\ j # k
    BY <1>1, <1>2
  <2> QED
    BY <1>3, <1>4, <2>1
<1>11. k > 1 /\ f[k] = h[k \div 2]
  BY <1>2, <1>4 DEF p
<1>12. ASSUME NEW j \in 2 .. n, j \in J
       PROVE  w[f[j]] <= w[f[j \div 2]]
  <2> DEFINE q == j \div 2
  <2>1. q \in 1 .. n - 1 /\ q < j /\ j \in Nat
    BY <1>1, Halves
  <2>2. CASE j = k
    <3>1. q = p /\ f[q] = g[p]
      <4>1. q = p
        BY <2>2 DEF p
      <4>2. p \in 1 .. n /\ p # k
        BY <1>1, <1>2
      <4> HIDE DEF q
      <4> QED
        BY <1>4, <4>1, <4>2
    <3>2. CASE g[p] = b
      BY <1>1, <1>2, <1>4, <1>5, <2>2, <3>1, <3>2
    <3>3. CASE p > 1 /\ g[p] = h[p \div 2]
      <4>1. p \in 2 .. Len(h)
        BY <1>1, <1>2, <3>3
      <4>2. w[h[p]] <= w[h[p \div 2]]
        BY <4>1 DEF IsHeap
      <4> QED
        BY <1>4, <2>2, <3>1, <3>3, <4>2
    <3> QED
      BY <1>3, <3>2, <3>3
  <2>3. CASE j # k
    <3>1. j \in 1 .. n - 1 /\ f[j] = g[j] /\ j \in 2 .. Len(h)
      BY <1>1, <1>6, <1>12, <2>1, <2>3
    <3>2. CASE q = k
      <4>1. g[j] = h[j]
        <5>1. j \in p + 1 .. n
          BY <1>1, <1>2, <2>1, <3>1, <3>2
        <5> QED
          BY <1>1, <1>3, <3>1, <5>1
      <4>2. w[h[j]] <= w[h[k]]
        BY <3>1, <3>2 DEF IsHeap
      <4>3. k \in 2 .. Len(h)
        BY <1>1, <1>2, <2>1, <3>2
      <4>4. w[h[k]] <= w[h[p]]
        BY <4>3 DEF IsHeap, p
      <4>5. w[h[j]] \in Nat /\ w[h[k]] \in Nat /\ w[h[p]] \in Nat
        BY <1>1, <1>2, <3>1, <4>3
      <4>6. w[h[j]] <= w[h[p]]
        BY <4>2, <4>4, <4>5, SMTT(30)
      <4> QED
        BY <1>4, <3>1, <3>2, <4>1, <4>6
    <3>3. CASE q # k
      <4>1. f[q] = g[q]
        BY <1>1, <1>4, <2>1, <3>3, SMTT(30)
      <4>2. w[g[j]] <= w[g[q]]
        BY <1>3, <3>1
      <4> QED
        BY <3>1, <4>1, <4>2
    <3> QED
      BY <3>2, <3>3
  <2> QED
    BY <2>2, <2>3
\* h[p] is not in g any more.
<1>13. \A j \in 1 .. n - 1 : g[j] # h[p]
  <2> TAKE j \in 1 .. n - 1
  <2>1. CASE g[j] = b
    BY <1>1, <1>2, <2>1
  <2>2. CASE g[j] # b
    <3>1. PICK m \in 1 .. n - 1 : m # p /\ g[j] = h[m]
      BY <1>3, <2>2
    <3> QED
      BY <1>2, <1>8, <3>1
  <2> QED
    BY <2>1, <2>2
<1>14. \A i, j \in J : i # j => f[i] # f[j]
  <2> HIDE DEF J
  <2> TAKE i, j \in J
  <2> HAVE i # j
  <2>1. CASE i = k
    <3>1. j \in 1 .. n - 1 /\ f[j] = g[j]
      BY <1>6, <2>1
    <3> QED
      BY <1>4, <1>13, <2>1, <3>1
  <2>2. CASE j = k
    <3>1. i \in 1 .. n - 1 /\ f[i] = g[i]
      BY <1>6, <2>2
    <3> QED
      BY <1>4, <1>13, <2>2, <3>1
  <2>3. CASE i # k /\ j # k
    <3>1. i \in 1 .. n - 1 /\ f[i] = g[i] /\ j \in 1 .. n - 1 /\ f[j] = g[j]
      BY <1>6, <2>3
    <3>2. \A x, y \in 1 .. n - 1 : x # y => g[x] # g[y]
      BY <1>3
    <3> QED
      BY <3>1, <3>2
  <2> QED
    BY <2>1, <2>2, <2>3
<1>15. ASSUME NEW j \in J
       PROVE  f[j] = b \/ \E m \in 1 .. n - 1 : m # k /\ f[j] = h[m]
  <2>1. CASE j = k
    BY <1>2, <1>4, <2>1
  <2>2. CASE j # k
    <3>1. j \in 1 .. n - 1 /\ f[j] = g[j]
      BY <1>6, <2>2
    <3>2. CASE g[j] = b
      BY <3>1, <3>2
    <3>3. CASE g[j] # b
      <4>1. PICK m \in 1 .. n - 1 : m # p /\ g[j] = h[m]
        BY <1>3, <3>1, <3>3
      <4>2. m # k
        <5>1. SUFFICES ASSUME m = k PROVE FALSE
          OBVIOUS
        <5>2. k # n /\ k \in 1 .. n - 1 /\ g[k] = g[j]
          BY <1>1, <1>9, <4>1, <5>1
        <5> QED
          BY <1>3, <2>2, <3>1, <5>2
      <4> QED
        BY <3>1, <4>1, <4>2
    <3> QED
      BY <3>2, <3>3
  <2> QED
    BY <2>1, <2>2
<1>16. \E j \in J : f[j] = b
  <2>1. PICK j \in 1 .. n - 1 : g[j] = b
    BY <1>3
  <2>2. j # k
    BY <1>1, <1>5, <1>9, <2>1
  <2>3. j \in 1 .. n /\ j \in J
    BY <1>1, <1>7
  <2> QED
    BY <1>4, <2>1, <2>2, <2>3
<1>17. ASSUME NEW m \in 1 .. n - 1, m # k
       PROVE  \E j \in J : f[j] = h[m]
  <2>1. CASE m = p
    BY <1>4, <1>7, <2>1
  <2>2. CASE m # p
    <3>1. PICK j \in 1 .. n - 1 : g[j] = h[m]
      BY <1>3, <2>2
    <3>2. j # k
      BY <1>5, <1>8, <1>9, <1>17, <3>1
    <3>3. j \in 1 .. n /\ j \in J
      BY <1>1, <1>7
    <3> QED
      BY <1>4, <3>1, <3>2, <3>3
  <2> QED
    BY <2>1, <2>2
<1> HIDE DEF J
<1> QED
  BY <1>4, <1>10, <1>11, <1>12, <1>14, <1>15, <1>16, <1>17 DEF Risen, J, n, f, base, p

\* g is the heap h with the box b added.
IsAdded(g, h, b, w, B) ==
    /\ g \in Seq(B) /\ Len(g) = Len(h) + 1 /\ IsHeap(g, w) /\ Distinct(g)
    /\ \A x : (\E k \in 1 .. Len(g) : g[k] = x) <=> (x = b \/ \E k \in 1 .. Len(h) : h[k] = x)

\* Adding a box to a heap makes a heap of its boxes and the new one.
LEMMA HeapAddKeeps ==
    ASSUME NEW B, NEW w \in [B -> Nat], NEW h \in Seq(B), NEW b \in B,
           IsHeap(h, w), Distinct(h), \A k \in 1 .. Len(h) : h[k] # b
    PROVE  IsAdded(HeapAdd(h, b, w), h, b, w, B)
<1> DEFINE n == Len(h) + 1
           D == 1 .. n
           V == [D -> B]
           base == Append(h, b)
           Stops(k) == k = 1 \/ w[b] <= w[h[k \div 2]]
           Body(k, g) == IF Stops(k) THEN [base EXCEPT ![k] = b]
                         ELSE [g[k \div 2] EXCEPT ![k] = h[k \div 2]]
           Step(g) == [k \in D |-> Body(k, g)]
           S == CHOOSE g : g = Step(g)
           r == [k \in D |-> k]
           F == [x \in D \X [D -> V] |-> Body(x[1], x[2])]
<1>1. n \in Nat /\ n >= 1 /\ n = Len(h) + 1 /\ \A k \in D : k \in Nat /\ k <= n
  OBVIOUS
<1>2. base \in V
  <2>1. Len(base) = n /\ base \in Seq(B)
    OBVIOUS
  <2> HIDE DEF base, n
  <2> QED
    BY <2>1
<1>3. \A k \in D : k # 1 => k \div 2 \in D /\ k \div 2 < k /\ h[k \div 2] \in B
  <2> TAKE k \in D
  <2> HAVE k # 1
  <2>1. k \div 2 \in Nat /\ k \div 2 >= 1 /\ k \div 2 < k
    BY <1>1, Halves
  <2>2. k \div 2 \in 1 .. Len(h)
    BY <1>1, <2>1
  <2> QED
    BY <1>1, <2>1, <2>2
<1>4. \A k \in D, g \in [D -> V] : Body(k, g) \in V
  <2> HIDE DEF base, n, D
  <2> TAKE k \in D, g \in [D -> V]
  <2>1. CASE Stops(k)
    BY <1>2, <2>1
  <2>2. CASE ~Stops(k)
    <3>1. g[k \div 2] \in V /\ h[k \div 2] \in B
      BY <1>3, <2>2
    <3> QED
      BY <2>2, <3>1
  <2> QED
    BY <2>1, <2>2
<1>5. F \in [D \X [D -> V] -> V]
  BY <1>4
<1>6. LooksDown(F, D, V, r)
  <2> SUFFICES ASSUME NEW k \in D, NEW f \in [D -> V], NEW g \in [D -> V],
                      \A e \in D : r[e] < r[k] => f[e] = g[e]
               PROVE  F[<<k, f>>] = F[<<k, g>>]
    BY DEF LooksDown
  <2>1. F[<<k, f>>] = Body(k, f) /\ F[<<k, g>>] = Body(k, g)
    OBVIOUS
  <2>2. k # 1 => f[k \div 2] = g[k \div 2]
    BY <1>3
  <2> HIDE DEF F, base, D, n
  <2> QED
    BY <2>1, <2>2
<1>7. r \in [D -> 0 .. n] /\ r \in [D -> Nat]
  BY <1>1
<1>8. PICK g \in [D -> V] : IsSolution(g, F, D)
  <2> HIDE DEF F, D, V, r, n, base
  <2> QED
    BY <1>1, <1>2, <1>5, <1>6, <1>7, RecursionHasSolution
<1>9. g = Step(g)
  <2>1. \A k \in D : F[<<k, g>>] = Body(k, g)
    OBVIOUS
  <2> HIDE DEF F, D, Body
  <2> QED
    BY <1>8, <2>1 DEF IsSolution
<1>10. S = Step(S)
  <2> HIDE DEF Step
  <2> QED
    BY <1>9
<1>11. HeapAdd(h, b, w) = S[n]
  BY DEF HeapAdd
<1> HIDE DEF S
<1>12. \A k \in D : S[k] = Body(k, S)
  <2> HIDE DEF Body, D
  <2> QED
    BY <1>10
<1> DEFINE T == {k \in D : (k = n \/ w[h[k]] < w[b]) => Risen(h, b, w, B, k, S[k])}
<1>13. ASSUME NEW k \in D, \A e \in D : r[e] < r[k] => e \in T
       PROVE  k \in T
  <2> SUFFICES ASSUME k = n \/ w[h[k]] < w[b] PROVE Risen(h, b, w, B, k, S[k])
    OBVIOUS
  <2>1. CASE Stops(k)
    <3>1. S[k] = [base EXCEPT ![k] = b]
      BY <1>12, <2>1
    <3>2. k \in 1 .. Len(h) + 1 /\ (k = Len(h) + 1 \/ w[h[k]] < w[b])
      OBVIOUS
    <3>3. k = 1 \/ w[b] <= w[h[k \div 2]]
      BY <2>1
    <3> HIDE DEF T, D, n
    <3>4. Risen(h, b, w, B, k, [Append(h, b) EXCEPT ![k] = b])
      BY <3>2, <3>3, RiseStops
    <3> QED
      BY <3>1, <3>4
  <2>2. CASE ~Stops(k)
    <3> DEFINE p == k \div 2
    <3>1. p \in D /\ p < k /\ k # 1 /\ ~(w[b] <= w[h[p]]) /\ h[p] \in B
      BY <1>3, <2>2
    <3>2. p \in T
      BY <1>13, <3>1
    <3>3. w[h[p]] < w[b]
      <4>1. w[h[p]] \in Nat /\ w[b] \in Nat
        BY <3>1
      <4> HIDE DEF p
      <4> QED
        BY <3>1, <4>1
    <3>4. Risen(h, b, w, B, p, S[p])
      BY <3>2, <3>3
    <3>5. S[k] = [S[p] EXCEPT ![k] = h[p]]
      BY <1>12, <2>2
    <3>6. k \in 1 .. Len(h) + 1 /\ (k = Len(h) + 1 \/ w[h[k]] < w[b])
      OBVIOUS
    <3>7. Risen(h, b, w, B, k \div 2, S[p]) /\ ~(w[b] <= w[h[k \div 2]])
      BY <3>1, <3>4
    <3> HIDE DEF T, D, n
    <3>8. Risen(h, b, w, B, k, [S[p] EXCEPT ![k] = h[k \div 2]])
      BY <3>1, <3>6, <3>7, RiseGoesOn
    <3> QED
      BY <3>5, <3>8
  <2> QED
    BY <2>1, <2>2
<1>14. D \subseteq T
  <2> HIDE DEF T, D, r
  <2> QED
    BY <1>7, <1>13, ByRank DEF Climbs
<1>15. Risen(h, b, w, B, n, S[n])
  <2>1. n \in D
    BY <1>1
  <2> HIDE DEF D, n
  <2> QED
    BY <1>14, <2>1
<1> DEFINE f == S[n]
<1> HIDE DEF T, D, n, f
<1>16. /\ f \in [1 .. n -> B]
       /\ \A j \in 2 .. n : j \in 1 .. n => w[f[j]] <= w[f[j \div 2]]
       /\ \A i, j \in 1 .. n : i # j => f[i] # f[j]
       /\ \A j \in 1 .. n : f[j] = b \/ \E m \in 1 .. n - 1 : m # n /\ f[j] = h[m]
       /\ \E j \in 1 .. n : f[j] = b
       /\ \A m \in 1 .. n - 1 : m # n => \E j \in 1 .. n : f[j] = h[m]
  BY <1>15 DEF Risen, Counted, n, f
<1>17. n - 1 = Len(h) /\ \A m \in 1 .. n - 1 : m # n
  BY <1>1
<1>18. \A j \in 2 .. n : j \in 1 .. n
  BY <1>1
<1>19. f \in Seq(B) /\ Len(f) = n
  BY <1>1, <1>16, FunctionsAreSequences, SMTT(30)
<1>20. IsHeap(f, w) /\ Distinct(f)
  BY <1>16, <1>18, <1>19 DEF IsHeap, Distinct
<1>21. ASSUME NEW x
       PROVE  (\E k \in 1 .. n : f[k] = x) <=> (x = b \/ \E k \in 1 .. Len(h) : h[k] = x)
  BY <1>16, <1>17
<1>22. HeapAdd(h, b, w) = f /\ n = Len(h) + 1
  BY <1>1, <1>11 DEF f
<1> QED
  BY <1>19, <1>20, <1>21, <1>22 DEF IsAdded

-----------------------------------------------------------------------------
\* Removing.  Sunk: f is the heap h without its last box, which is put at slot k or sunk
\* from there; what stood at k is not in f.
LargerChild(h, w, k) ==
    IF 2 * k < Len(h) - 1 /\ w[h[2 * k]] < w[h[2 * k + 1]] THEN 2 * k + 1 ELSE 2 * k

\* The larger child is a child, and no smaller than the other.
LEMMA LargerIsChild ==
    ASSUME NEW B, NEW w \in [B -> Nat], NEW h \in Seq(B), NEW k \in Nat \ {0},
           2 * k <= Len(h) - 1
    PROVE  LET l == LargerChild(h, w, k)
           IN  /\ l \in 2 .. Len(h) - 1 /\ l > k /\ l >= 2 * k /\ l <= 2 * k + 1 /\ l \div 2 = k
               /\ w[h[l]] \in Nat
               /\ \A j \in 1 .. Len(h) - 1 : j \div 2 = k => w[h[j]] <= w[h[l]]
<1> DEFINE l == LargerChild(h, w, k)
           n == Len(h) - 1
<1>1. Len(h) \in Nat /\ \A j \in 1 .. Len(h) : h[j] \in B /\ w[h[j]] \in Nat
  OBVIOUS
<1>2. l = IF 2 * k < n /\ w[h[2 * k]] < w[h[2 * k + 1]] THEN 2 * k + 1 ELSE 2 * k
  BY DEF LargerChild
<1> HIDE DEF l
<1>3. n \in Nat /\ 2 * k \in 2 .. n /\ (2 * k < n => 2 * k + 1 \in 2 .. n) /\ n < Len(h)
  BY <1>1
<1> HIDE DEF n
<1>4. l \in 2 .. n /\ (l = 2 * k \/ l = 2 * k + 1)
  BY <1>2, <1>3
<1>5. l \div 2 = k
  BY <1>4, HalfOfDouble
<1>6. ASSUME NEW j \in 1 .. n, j \div 2 = k
      PROVE  w[h[j]] <= w[h[l]]
  <2>1. j = 2 * k \/ j = 2 * k + 1
    <3>1. j \in Nat /\ j >= 2
      BY <1>3, <1>6, SMT
    <3> QED
      BY <1>6, <3>1, Halves
  <2>2. w[h[2 * k]] \in Nat
    BY <1>1, <1>3
  <2>3. CASE j = 2 * k
    <3>1. 2 * k < n => w[h[2 * k + 1]] \in Nat
      BY <1>1, <1>3
    <3> QED
      BY <1>2, <2>2, <2>3, <3>1
  <2>4. CASE j = 2 * k + 1
    <3>1. 2 * k < n /\ w[h[2 * k + 1]] \in Nat
      BY <1>1, <1>3, <2>4
    <3> QED
      BY <1>2, <2>2, <2>4, <3>1
  <2> QED
    BY <2>1, <2>3, <2>4
<1>7. w[h[l]] \in Nat
  BY <1>1, <1>3, <1>4
<1>8. l > k /\ l >= 2 * k /\ l <= 2 * k + 1
  BY <1>4
<1> QED
  BY <1>4, <1>5, <1>6, <1>7, <1>8 DEF n, l

\* f is the heap h without its last box, which was put where it belongs on the way
\* down from k in place of what stood there.
Sunk(h, w, B, k, f) ==
    LET n == Len(h) - 1
        v == h[Len(h)]
    IN  /\ f \in [1 .. n -> B]
        /\ \A j \in 1 .. n : j # k /\ j < 2 * k => f[j] = h[j]
        /\ f[k] = v \/ (2 * k <= n /\ f[k] = h[LargerChild(h, w, k)])
        /\ \A j \in 2 .. n : j # k => w[f[j]] <= w[f[j \div 2]]
        /\ \A i, j \in 1 .. n : i # j => f[i] # f[j]
        /\ \A j \in 1 .. n : f[j] = v \/ \E m \in 1 .. n : m # k /\ f[j] = h[m]
        /\ \E j \in 1 .. n : f[j] = v
        /\ \A m \in 1 .. n : m # k => \E j \in 1 .. n : f[j] = h[m]

\* The last box stays at k when it is larger than the children there.
LEMMA SinkStops ==
    ASSUME NEW B, NEW w \in [B -> Nat], NEW h \in Seq(B), IsHeap(h, w), Distinct(h),
           NEW k \in 1 .. Len(h) - 1,
           2 * k > Len(h) - 1 \/ w[h[Len(h)]] > w[h[LargerChild(h, w, k)]]
    PROVE  Sunk(h, w, B, k, [Front(h) EXCEPT ![k] = h[Len(h)]])
<1> DEFINE n == Len(h) - 1
           v == h[Len(h)]
           base == Front(h)
           f == [base EXCEPT ![k] = v]
<1>1. /\ n \in Nat /\ n >= 1 /\ Len(h) = n + 1 /\ v \in B /\ w[v] \in Nat
      /\ \A j \in 1 .. n : h[j] \in B /\ base[j] = h[j] /\ h[j] # v /\ w[h[j]] \in Nat
      /\ base \in [1 .. n -> B]
  <2>1. Len(h) \in Nat /\ n \in Nat /\ n >= 1 /\ Len(h) = n + 1
    OBVIOUS
  <2>2. base = [j \in 1 .. n |-> h[j]]
    <3>1. base = SubSeq(h, 1, n)
      BY DEF Front
    <3>2. SubSeq(h, 1, n) = [j \in 1 .. n |-> h[j]]
      <4>1. SubSeq(h, 1, n) \in Seq(B) /\ Len(SubSeq(h, 1, n)) = n
            /\ \A j \in 1 .. n : SubSeq(h, 1, n)[j] = h[j]
        BY <2>1
      <4> HIDE DEF n
      <4> QED
        BY <4>1
    <3> QED
      BY <3>1, <3>2
  <2>3. \A j \in 1 .. n + 1 : h[j] \in B
    BY <2>1
  <2>4. \A j \in 1 .. n : j \in 1 .. Len(h) /\ j # Len(h) /\ Len(h) \in 1 .. Len(h)
    <3> HIDE DEF n
    <3> QED
      BY <2>1
  <2>5. \A j \in 1 .. n : h[j] # v
    BY <2>4 DEF Distinct
  <2>6. v \in B
    BY <2>1, <2>3
  <2> HIDE DEF base, v, n
  <2> QED
    BY <2>1, <2>2, <2>3, <2>4, <2>5, <2>6
<1>2. k \in 1 .. n /\ f \in [1 .. n -> B] /\ f[k] = v /\ \A j \in 1 .. n : j # k => f[j] = h[j]
  BY <1>1
<1>3. \A i \in 1 .. n : \A j \in 1 .. n : i # j => h[i] # h[j]
  BY <1>1 DEF Distinct
<1> HIDE DEF f, base, n, v
<1>4. ASSUME NEW j \in 2 .. n, j # k
      PROVE  w[f[j]] <= w[f[j \div 2]]
  <2> DEFINE p == j \div 2
  <2>1. j \in 1 .. n /\ p \in 1 .. n /\ j \in 2 .. Len(h)
    BY <1>1, Halves
  <2>2. f[j] = h[j] /\ w[h[j]] <= w[h[p]]
    BY <1>2, <1>4, <2>1 DEF IsHeap
  <2> HIDE DEF p
  <2>3. CASE p = k
    <3>1. 2 * k <= n
      BY <1>1, <2>1, <2>3, Halves DEF p
    <3>2. w[v] > w[h[LargerChild(h, w, k)]]
      BY <1>1, <3>1 DEF n, v
    <3>3. w[h[LargerChild(h, w, k)]] \in Nat /\ w[h[j]] <= w[h[LargerChild(h, w, k)]]
      <4>1. k \in Nat \ {0} /\ 2 * k <= Len(h) - 1 /\ j \in 1 .. Len(h) - 1
        BY <1>1, <1>2, <2>1, <3>1 DEF n
      <4> QED
        BY <2>3, <4>1, LargerIsChild DEF p
    <3>4. w[h[j]] <= w[v]
      BY <1>1, <2>1, <3>2, <3>3
    <3> QED
      BY <1>2, <2>2, <2>3, <3>4 DEF p
  <2>4. CASE p # k
    BY <1>2, <2>1, <2>2, <2>4 DEF p
  <2> QED
    BY <2>3, <2>4
<1>5. \A i, j \in 1 .. n : i # j => f[i] # f[j]
  BY <1>1, <1>2, <1>3
<1>6. \A j \in 1 .. n : f[j] = v \/ \E m \in 1 .. n : m # k /\ f[j] = h[m]
  BY <1>2
<1>7. \A m \in 1 .. n : m # k => \E j \in 1 .. n : f[j] = h[m]
  BY <1>2
<1> QED
  BY <1>2, <1>4, <1>5, <1>6, <1>7 DEF Sunk, f, base, n, v

\* Otherwise the larger child comes up to k, and the box goes on below.
LEMMA SinkGoesOn ==
    ASSUME NEW B, NEW w \in [B -> Nat], NEW h \in Seq(B), IsHeap(h, w), Distinct(h),
           NEW k \in 1 .. Len(h) - 1, 2 * k <= Len(h) - 1,
           ~(w[h[Len(h)]] > w[h[LargerChild(h, w, k)]]),
           NEW g, Sunk(h, w, B, LargerChild(h, w, k), g)
    PROVE  Sunk(h, w, B, k, [g EXCEPT ![k] = h[LargerChild(h, w, k)]])
<1>0. \A i \in Nat \ {0} : 2 * i <= Len(h) - 1 =>
          LargerChild(h, w, i) \in 2 .. Len(h) - 1 /\ LargerChild(h, w, i) \div 2 = i
  <2> TAKE i \in Nat \ {0}
  <2> HAVE 2 * i <= Len(h) - 1
  <2> DEFINE c == LargerChild(h, w, i)
  <2>1. /\ c \in 2 .. Len(h) - 1 /\ c > i /\ c >= 2 * i /\ c <= 2 * i + 1 /\ c \div 2 = i
        /\ w[h[c]] \in Nat
        /\ \A j \in 1 .. Len(h) - 1 : j \div 2 = i => w[h[j]] <= w[h[c]]
    <3> HIDE DEF c
    <3> QED
      BY LargerIsChild DEF c
  <2> HIDE DEF c
  <2>2. c \in 2 .. Len(h) - 1 /\ c \div 2 = i
    BY <2>1
  <2> QED
    BY <2>2 DEF c
<1> DEFINE n == Len(h) - 1
           v == h[Len(h)]
           l == LargerChild(h, w, k)
           f == [g EXCEPT ![k] = h[l]]
<1>1. /\ n \in Nat /\ n >= 1 /\ Len(h) = n + 1 /\ v \in B /\ w[v] \in Nat
      /\ \A j \in 1 .. n : h[j] \in B /\ w[h[j]] \in Nat
      /\ k \in 1 .. n
  OBVIOUS
<1>2. \A j \in 1 .. n : j \in 1 .. Len(h) /\ j # Len(h) /\ Len(h) \in 1 .. Len(h)
  <2> HIDE DEF n
  <2> QED
    BY <1>1
<1>3. /\ \A i \in 1 .. n : \A j \in 1 .. n : i # j => h[i] # h[j]
      /\ \A j \in 1 .. n : h[j] # v
  BY <1>2 DEF Distinct
<1>4. /\ l \in 2 .. n /\ l > k /\ l >= 2 * k /\ l <= 2 * k + 1 /\ l \div 2 = k
      /\ w[h[l]] \in Nat
      /\ \A j \in 1 .. n : j \div 2 = k => w[h[j]] <= w[h[l]]
  <2>1. k \in Nat \ {0}
    BY <1>1
  <2> HIDE DEF l, n
  <2> QED
    BY <2>1, LargerIsChild DEF l, n
<1>5. w[v] <= w[h[l]]
  <2>1. ~(w[v] > w[h[l]])
    OBVIOUS
  <2> HIDE DEF l, v
  <2> QED
    BY <1>1, <1>4, <2>1, SMTT(30)
<1>6. /\ g \in [1 .. n -> B]
      /\ \A j \in 1 .. n : j # l /\ j < 2 * l => g[j] = h[j]
      /\ g[l] = v \/ (2 * l <= n /\ g[l] = h[LargerChild(h, w, l)])
      /\ \A j \in 2 .. n : j # l => w[g[j]] <= w[g[j \div 2]]
      /\ \A i, j \in 1 .. n : i # j => g[i] # g[j]
      /\ \A j \in 1 .. n : g[j] = v \/ \E m \in 1 .. n : m # l /\ g[j] = h[m]
      /\ \E j \in 1 .. n : g[j] = v
      /\ \A m \in 1 .. n : m # l => \E j \in 1 .. n : g[j] = h[m]
  BY DEF Sunk
<1> HIDE DEF l, v, n
<1>7. f \in [1 .. n -> B] /\ f[k] = h[l] /\ \A j \in 1 .. n : j # k => f[j] = g[j]
  BY <1>1, <1>4, <1>6, SMTT(30)
<1> HIDE DEF f
<1>8. g[k] = h[k] /\ k # l
  <2>1. k # l /\ k < 2 * l
    BY <1>1, <1>4
  <2>2. \A j \in 1 .. n : j # l /\ j < 2 * l => g[j] = h[j]
    BY <1>6
  <2> QED
    BY <1>1, <2>1, <2>2
<1>9. l \in 1 .. n
  BY <1>1, <1>4
<1>10. \A j \in 1 .. n : j # k /\ j < 2 * k => f[j] = h[j]
  <2> TAKE j \in 1 .. n
  <2> HAVE j # k /\ j < 2 * k
  <2>1. j # l /\ j < 2 * l
    BY <1>1, <1>4
  <2> QED
    BY <1>6, <1>7, <2>1
<1>11. ASSUME NEW j \in 2 .. n, j # k
       PROVE  w[f[j]] <= w[f[j \div 2]]
  <2> DEFINE p == j \div 2
  <2>1. j \in 1 .. n /\ p \in 1 .. n /\ j <= 2 * p + 1
    BY <1>1, Halves
  <2>2. f[j] = g[j]
    BY <1>7, <1>11, <2>1
  <2>3. CASE j = l
    <3>1. f[p] = h[l]
      BY <1>4, <1>7, <2>3
    <3>2. CASE g[l] = v
      BY <1>5, <2>2, <2>3, <3>1, <3>2
    <3>3. CASE 2 * l <= n /\ g[l] = h[LargerChild(h, w, l)]
      <4> DEFINE c == LargerChild(h, w, l)
      <4>1. l \in Nat \ {0} /\ 2 * l <= n
        BY <1>1, <1>9, <3>3
      <4>2. c \in 2 .. Len(h) - 1 /\ c \div 2 = l
        <5>1. 2 * l <= Len(h) - 1
          BY <4>1 DEF n
        <5> QED
          BY <1>0, <4>1, <5>1
      <4> HIDE DEF c
      <4>3. c \in 2 .. Len(h)
        BY <1>1, <4>2
      <4>4. w[h[c]] <= w[h[c \div 2]]
        BY <4>3 DEF IsHeap
      <4> QED
        BY <2>2, <2>3, <3>1, <3>3, <4>2, <4>4 DEF c
    <3> QED
      BY <1>6, <3>2, <3>3
  <2>4. CASE j # l /\ p = k
    <3>1. j < 2 * l
      BY <1>1, <1>4, <2>1, <2>4
    <3>2. g[j] = h[j]
      BY <1>6, <2>1, <2>4, <3>1
    <3>3. w[h[j]] <= w[h[l]]
      BY <1>4, <2>1, <2>4
    <3> QED
      BY <1>7, <2>2, <2>4, <3>2, <3>3
  <2>5. CASE j # l /\ p # k
    <3>1. f[p] = g[p]
      BY <1>7, <2>1, <2>5
    <3>2. w[g[j]] <= w[g[p]]
      BY <1>6, <2>5
    <3> QED
      BY <2>2, <3>1, <3>2
  <2> QED
    BY <2>3, <2>4, <2>5
\* h[l] is not in g any more.
<1>12. \A j \in 1 .. n : g[j] # h[l]
  <2> TAKE j \in 1 .. n
  <2>1. CASE g[j] = v
    BY <1>3, <1>9, <2>1
  <2>2. CASE g[j] # v
    <3>1. PICK m \in 1 .. n : m # l /\ g[j] = h[m]
      BY <1>6, <2>2
    <3> QED
      BY <1>3, <1>9, <3>1
  <2> QED
    BY <2>1, <2>2
<1>13. \A i, j \in 1 .. n : i # j => f[i] # f[j]
  <2> TAKE i, j \in 1 .. n
  <2> HAVE i # j
  <2>1. CASE i = k
    BY <1>7, <1>12, <2>1
  <2>2. CASE j = k
    BY <1>7, <1>12, <2>2
  <2>3. CASE i # k /\ j # k
    <3>1. f[i] = g[i] /\ f[j] = g[j]
      BY <1>7, <2>3
    <3>2. \A x, y \in 1 .. n : x # y => g[x] # g[y]
      BY <1>6
    <3> QED
      BY <3>1, <3>2
  <2> QED
    BY <2>1, <2>2, <2>3
<1>14. ASSUME NEW j \in 1 .. n
       PROVE  f[j] = v \/ \E m \in 1 .. n : m # k /\ f[j] = h[m]
  <2>1. CASE j = k
    BY <1>7, <1>8, <1>9, <2>1
  <2>2. CASE j # k
    <3>1. f[j] = g[j]
      BY <1>7, <2>2
    <3>2. CASE g[j] = v
      BY <3>1, <3>2
    <3>3. CASE g[j] # v
      <4>1. PICK m \in 1 .. n : m # l /\ g[j] = h[m]
        BY <1>6, <3>3
      <4>2. g[j] # g[k]
        BY <1>1, <1>6, <2>2
      <4>3. m # k
        BY <1>8, <4>1, <4>2
      <4> QED
        BY <3>1, <4>1, <4>3
    <3> QED
      BY <3>2, <3>3
  <2> QED
    BY <2>1, <2>2
<1>15. \E j \in 1 .. n : f[j] = v
  <2>1. PICK j \in 1 .. n : g[j] = v
    BY <1>6
  <2>2. j # k
    BY <1>1, <1>3, <1>8, <2>1
  <2> QED
    BY <1>7, <2>1, <2>2
<1>16. ASSUME NEW m \in 1 .. n, m # k
       PROVE  \E j \in 1 .. n : f[j] = h[m]
  <2>1. CASE m = l
    BY <1>1, <1>7, <2>1
  <2>2. CASE m # l
    <3>1. PICK j \in 1 .. n : g[j] = h[m]
      BY <1>6, <2>2
    <3>2. j # k
      BY <1>1, <1>3, <1>8, <1>16, <3>1
    <3> QED
      BY <1>7, <3>1, <3>2
  <2> QED
    BY <2>1, <2>2
<1>17. f[k] = v \/ (2 * k <= n /\ f[k] = h[LargerChild(h, w, k)])
  BY <1>7 DEF l, n
<1> QED
  BY <1>7, <1>10, <1>11, <1>13, <1>14, <1>15, <1>16, <1>17 DEF Sunk, n, v, f, l

\* Taking the top out of a heap makes a heap of the other boxes.
LEMMA HeapRemoveKeeps ==
    ASSUME NEW B, NEW w \in [B -> Nat], heap \in Seq(B), heap # <<>>,
           IsHeap(heap, w), Distinct(heap),
           \A b \in B : Count(b) = w[b]
    PROVE  /\ HeapRemove(heap) \in Seq(B) /\ Len(HeapRemove(heap)) = Len(heap) - 1
           /\ IsHeap(HeapRemove(heap), w) /\ Distinct(HeapRemove(heap))
           /\ \A x : (\E k \in 1 .. Len(heap) - 1 : HeapRemove(heap)[k] = x)
                        <=> (x # heap[1] /\ \E k \in 1 .. Len(heap) : heap[k] = x)
<1> DEFINE n == Len(heap) - 1
           D == 1 .. n
           V == [D -> B]
           v == heap[Len(heap)]
           base == Front(heap)
           l(k) == LargerChild(heap, w, k)
           Stops(k) == 2 * k > n \/ w[v] > w[heap[l(k)]]
           Body(k, g) == IF Stops(k) THEN [base EXCEPT ![k] = v]
                         ELSE [g[l(k)] EXCEPT ![k] = heap[l(k)]]
           Step(g) == [k \in D |-> Body(k, g)]
           S == CHOOSE g : g = Step(g)
           r == [k \in D |-> n - k]
           F == [x \in D \X [D -> V] |-> Body(x[1], x[2])]
<1>1. /\ Len(heap) \in Nat /\ Len(heap) >= 1 /\ n \in Nat /\ Len(heap) = n + 1
      /\ \A j \in 1 .. Len(heap) : heap[j] \in B
  OBVIOUS
<1>2. v \in B /\ \A k \in D : k \in Nat \ {0} /\ k <= n /\ k \in 1 .. Len(heap) /\ k # Len(heap)
  <2>1. Len(heap) \in 1 .. Len(heap)
    BY <1>1
  <2>2. v \in B
    BY <1>1, <2>1
  <2> HIDE DEF n, v
  <2> QED
    BY <1>1, <2>2
<1>3. ASSUME n = 0
      PROVE  /\ HeapRemove(heap) = <<>>
             /\ \A x : ~(x # heap[1] /\ \E k \in 1 .. Len(heap) : heap[k] = x)
  <2>1. HeapRemove(heap) = <<>>
    BY <1>3 DEF HeapRemove
  <2>2. Len(heap) = 1
    <3> HIDE DEF n
    <3> QED
      BY <1>1, <1>3
  <2>3. \A k \in 1 .. Len(heap) : k = 1
    BY <2>2
  <2> QED
    BY <2>1, <2>3
<1>4. CASE n = 0
  <2>1. <<>> \in Seq(B) /\ Len(<<>>) = 0 /\ IsHeap(<<>>, w) /\ Distinct(<<>>)
    BY DEF IsHeap, Distinct
  <2>2. \A k \in 1 .. n : FALSE
    <3> HIDE DEF n
    <3> QED
      BY <1>4
  <2> HIDE DEF n
  <2> QED
    BY <1>1, <1>3, <1>4, <2>1, <2>2
<1>5. CASE n # 0
  <2>1. base \in V
    <3>1. base = SubSeq(heap, 1, n)
      BY DEF Front
    <3>2. SubSeq(heap, 1, n) \in Seq(B) /\ Len(SubSeq(heap, 1, n)) = n
      BY <1>1
    <3>3. base \in Seq(B) /\ Len(base) = n
      BY <3>1, <3>2
    <3> HIDE DEF base, n
    <3> QED
      BY <3>3
  <2>2. \A k \in D : 2 * k <= n => l(k) \in D /\ l(k) > k /\ heap[l(k)] \in B
    <3> TAKE k \in D
    <3> HAVE 2 * k <= n
    <3> DEFINE c == LargerChild(heap, w, k)
    <3>1. k \in Nat \ {0} /\ 2 * k <= Len(heap) - 1
      BY <1>2
    <3>2. /\ c \in 2 .. Len(heap) - 1 /\ c > k /\ c >= 2 * k /\ c <= 2 * k + 1 /\ c \div 2 = k
          /\ w[heap[c]] \in Nat
          /\ \A j \in 1 .. Len(heap) - 1 : j \div 2 = k => w[heap[j]] <= w[heap[c]]
      <4> HIDE DEF c
      <4> QED
        BY <3>1, LargerIsChild DEF c
    <3> HIDE DEF c
    <3>3. c \in D /\ c > k /\ c \in 1 .. Len(heap)
      BY <1>1, <3>2
    <3> QED
      BY <1>1, <3>3 DEF c
  <2>3. \A k \in D, g \in [D -> V] : Body(k, g) \in V
    <3> HIDE DEF base, n, D, v, l
    <3> TAKE k \in D, g \in [D -> V]
    <3>1. CASE Stops(k)
      BY <1>2, <2>1, <3>1
    <3>2. CASE ~Stops(k)
      <4>1. 2 * k <= n
        BY <1>1, <1>2, <3>2
      <4>2. g[l(k)] \in V /\ heap[l(k)] \in B
        BY <2>2, <4>1
      <4> QED
        BY <3>2, <4>2
    <3> QED
      BY <3>1, <3>2
  <2>4. F \in [D \X [D -> V] -> V]
    BY <2>3
  <2>5. \A k \in D : r[k] = n - k
    OBVIOUS
  <2>6. \A k \in D : ~Stops(k) => 2 * k <= n /\ l(k) \in D /\ r[l(k)] < r[k]
    <3> HIDE DEF n, D, v, l, r
    <3> TAKE k \in D
    <3> HAVE ~Stops(k)
    <3>1. 2 * k <= n
      BY <1>1, <1>2
    <3>2. l(k) \in D /\ l(k) > k
      BY <2>2, <3>1
    <3> QED
      BY <1>1, <1>2, <2>5, <3>1, <3>2
  <2>7. LooksDown(F, D, V, r)
    <3> SUFFICES ASSUME NEW k \in D, NEW f \in [D -> V], NEW g \in [D -> V],
                        \A e \in D : r[e] < r[k] => f[e] = g[e]
                 PROVE  F[<<k, f>>] = F[<<k, g>>]
      BY DEF LooksDown
    <3>1. F[<<k, f>>] = Body(k, f) /\ F[<<k, g>>] = Body(k, g)
      OBVIOUS
    <3>2. ~Stops(k) => f[l(k)] = g[l(k)]
      <4> HIDE DEF Stops, l, D, r
      <4> QED
        BY <2>6
    <3> HIDE DEF F, base, D, n, Stops, l
    <3> QED
      BY <3>1, <3>2
  <2>8. r \in [D -> 0 .. n] /\ r \in [D -> Nat]
    <3>1. \A k \in D : n - k \in 0 .. n /\ n - k \in Nat
      <4> HIDE DEF n, D
      <4> QED
        BY <1>1, <1>2
    <3> HIDE DEF n, D
    <3> QED
      BY <3>1
  <2>9. PICK g \in [D -> V] : IsSolution(g, F, D)
    <3> HIDE DEF F, D, V, r, n, base
    <3> QED
      BY <1>1, <2>1, <2>4, <2>7, <2>8, RecursionHasSolution
  <2>10. g = Step(g)
    <3>1. \A k \in D : F[<<k, g>>] = Body(k, g)
      OBVIOUS
    <3> HIDE DEF F, D, Body
    <3> QED
      BY <2>9, <3>1 DEF IsSolution
  <2>11. S = Step(S)
    <3> HIDE DEF Step
    <3> QED
      BY <2>10
  <2>12. \A k \in D : S[k] = Body(k, S)
    <3> HIDE DEF Body, D, S
    <3> QED
      BY <2>11
  \* The code compares the counts in the boxes.
  <2> DEFINE lc(k) == IF 2 * k < n /\ Count(heap[2 * k]) < Count(heap[2 * k + 1])
                      THEN 2 * k + 1 ELSE 2 * k
             StopsC(k) == 2 * k > n \/ Count(v) > Count(heap[lc(k)])
             BodyC(k, z) == IF StopsC(k) THEN [base EXCEPT ![k] = v]
                            ELSE [z[lc(k)] EXCEPT ![k] = heap[lc(k)]]
             StepC(z) == [k \in D |-> BodyC(k, z)]
             SC == CHOOSE z : z = StepC(z)
  <2>13. \A k \in D : 2 * k <= n => lc(k) = l(k)
    <3> TAKE k \in D
    <3> HAVE 2 * k <= n
    <3>1. 2 * k \in 1 .. Len(heap) /\ (2 * k < n => 2 * k + 1 \in 1 .. Len(heap))
      <4> HIDE DEF n, D
      <4> QED
        BY <1>1, <1>2
    <3>2. /\ Count(heap[2 * k]) = w[heap[2 * k]]
          /\ 2 * k < n => Count(heap[2 * k + 1]) = w[heap[2 * k + 1]]
      BY <1>1, <3>1
    <3> QED
      BY <3>2 DEF LargerChild
  <2>14. \A k \in D : StopsC(k) <=> Stops(k)
    <3> TAKE k \in D
    <3>1. CASE 2 * k > n
      BY <3>1
    <3>2. CASE ~(2 * k > n)
      <4>1. 2 * k <= n
        <5> HIDE DEF n, D
        <5> QED
          BY <1>1, <1>2, <3>2
      <4>2. lc(k) = l(k) /\ heap[l(k)] \in B
        BY <2>2, <2>13, <4>1
      <4> HIDE DEF lc, l
      <4>3. Count(v) = w[v] /\ Count(heap[l(k)]) = w[heap[l(k)]]
        BY <1>2, <4>2
      <4> QED
        BY <4>2, <4>3
    <3> QED
      BY <3>1, <3>2
  <2>15. \A f : StepC(f) = Step(f)
    <3> TAKE f
    <3>1. \A k \in D : BodyC(k, f) = Body(k, f)
      <4> TAKE k \in D
      <4>1. CASE Stops(k)
        BY <2>14, <4>1
      <4>2. CASE ~Stops(k)
        <5>1. ~StopsC(k) /\ lc(k) = l(k)
          BY <2>6, <2>13, <2>14, <4>2
        <5> HIDE DEF Stops, StopsC, lc, l
        <5> QED
          BY <4>2, <5>1
      <4> QED
        BY <4>1, <4>2
    <3> HIDE DEF BodyC, Body
    <3> QED
      BY <3>1
  <2>16. SC = S
    <3> HIDE DEF StepC, Step
    <3> QED
      BY <2>15
  <2>17. HeapRemove(heap) = SC[1]
    BY <1>5 DEF HeapRemove, Last
  <2>18. HeapRemove(heap) = S[1]
    BY <2>16, <2>17
  <2> HIDE DEF S, SC, StepC, BodyC, StopsC, lc
  <2> DEFINE T == {k \in D : Sunk(heap, w, B, k, S[k])}
  <2>19. ASSUME NEW k \in D, \A e \in D : r[e] < r[k] => e \in T
         PROVE  k \in T
    <3> SUFFICES Sunk(heap, w, B, k, S[k])
      OBVIOUS
    <3>0. k \in 1 .. Len(heap) - 1
      OBVIOUS
    <3>1. CASE Stops(k)
      <4>1. S[k] = [Front(heap) EXCEPT ![k] = heap[Len(heap)]]
        BY <2>12, <3>1
      <4>2. 2 * k > Len(heap) - 1 \/ w[heap[Len(heap)]] > w[heap[LargerChild(heap, w, k)]]
        BY <3>1
      <4> HIDE DEF T, D, n, v
      <4>3. Sunk(heap, w, B, k, [Front(heap) EXCEPT ![k] = heap[Len(heap)]])
        BY <3>0, <4>2, SinkStops
      <4> QED
        BY <4>1, <4>3
    <3>2. CASE ~Stops(k)
      <4>1. 2 * k <= n /\ l(k) \in D /\ r[l(k)] < r[k]
        BY <2>6, <3>2
      <4>2. l(k) \in T
        BY <2>19, <4>1
      <4>3. Sunk(heap, w, B, LargerChild(heap, w, k), S[l(k)])
        BY <4>2
      <4>4. S[k] = [S[l(k)] EXCEPT ![k] = heap[LargerChild(heap, w, k)]]
        BY <2>12, <3>2
      <4>5. 2 * k <= Len(heap) - 1 /\ ~(w[heap[Len(heap)]] > w[heap[LargerChild(heap, w, k)]])
        BY <3>2, <4>1
      <4> DEFINE gg == S[l(k)]
      <4> HIDE DEF T, D, n, v, l, gg
      <4>6. Sunk(heap, w, B, k, [gg EXCEPT ![k] = heap[LargerChild(heap, w, k)]])
        BY <3>0, <4>3, <4>5, SinkGoesOn DEF gg
      <4> QED
        BY <4>4, <4>6 DEF gg
    <3> QED
      BY <3>1, <3>2
  <2>20. D \subseteq T
    <3> HIDE DEF T, D, r
    <3> QED
      BY <2>8, <2>19, ByRank DEF Climbs
  <2>21. Sunk(heap, w, B, 1, S[1]) /\ 1 \in D
    <3>1. 1 \in D
      <4> HIDE DEF n
      <4> QED
        BY <1>1, <1>5
    <3> HIDE DEF D, n
    <3> QED
      BY <2>20, <3>1
  <2> DEFINE f == S[1]
  <2> HIDE DEF T, D, n, f, v
  <2>22. /\ f \in [1 .. n -> B]
         /\ \A j \in 2 .. n : j # 1 => w[f[j]] <= w[f[j \div 2]]
         /\ \A i, j \in 1 .. n : i # j => f[i] # f[j]
         /\ \A j \in 1 .. n : f[j] = v \/ \E m \in 1 .. n : m # 1 /\ f[j] = heap[m]
         /\ \E j \in 1 .. n : f[j] = v
         /\ \A m \in 1 .. n : m # 1 => \E j \in 1 .. n : f[j] = heap[m]
    BY <2>21 DEF Sunk, n, f, v
  <2>23. f \in Seq(B) /\ Len(f) = n
    <3>1. n \in Nat /\ f \in [1 .. n -> B]
      BY <1>1, <2>22
    <3> QED
      BY <3>1, FunctionsAreSequences
  <2>24. IsHeap(f, w) /\ Distinct(f)
    <3>1. \A j \in 2 .. n : j # 1
      BY <1>1
    <3> QED
      BY <2>22, <2>23, <3>1 DEF IsHeap, Distinct
  <2>25. ASSUME NEW x
         PROVE  (\E k \in 1 .. n : f[k] = x)
                   <=> (x # heap[1] /\ \E k \in 1 .. Len(heap) : heap[k] = x)
    <3>0. 1 \in 1 .. Len(heap) /\ Len(heap) \in 1 .. Len(heap) /\ Len(heap) # 1
      BY <1>1, <1>5
    <3>1. ASSUME NEW k \in 1 .. n, f[k] = x
          PROVE  x # heap[1] /\ \E m \in 1 .. Len(heap) : heap[m] = x
      <4>1. CASE f[k] = v
        BY <3>0, <3>1, <4>1 DEF Distinct, v
      <4>2. CASE f[k] # v
        <5>1. PICK m \in 1 .. n : m # 1 /\ f[k] = heap[m]
          BY <2>22, <4>2
        <5>2. m \in 1 .. Len(heap)
          BY <1>1
        <5> QED
          BY <3>0, <3>1, <5>1, <5>2 DEF Distinct
      <4> QED
        BY <4>1, <4>2
    <3>2. ASSUME NEW k \in 1 .. Len(heap), heap[k] = x, x # heap[1]
          PROVE  \E j \in 1 .. n : f[j] = x
      <4>1. k # 1 /\ (k = Len(heap) \/ k \in 1 .. n)
        BY <1>1, <3>2
      <4>2. CASE k = Len(heap)
        BY <2>22, <3>2, <4>2 DEF v
      <4>3. CASE k \in 1 .. n
        BY <2>22, <3>2, <4>1, <4>3
      <4> QED
        BY <4>1, <4>2, <4>3
    <3> QED
      BY <3>1, <3>2
  <2>26. HeapRemove(heap) = f /\ n = Len(heap) - 1
    BY <2>18 DEF f, n
  <2> QED
    BY <2>23, <2>24, <2>25, <2>26
<1> QED
  BY <1>4, <1>5

-----------------------------------------------------------------------------
\* A cut leaves pixels on either side.
AreEntries(set) ==
    /\ IsFiniteSet(set) /\ set # {}
    /\ \A e \in set : e.color \in Rgb /\ e.count \in Nat \ {0}

LEMMA EntriesHavePixels ==
    ASSUME NEW set, AreEntries(set)
    PROVE  Pixels(set) \in Nat \ {0}
<1> DEFINE f == [e \in set |-> e.count]
<1>1. IsFiniteSet(set) /\ set # {} /\ \A e \in set : f[e] \in Nat /\ f[e] >= 1
  BY DEF AreEntries
<1>2. Pixels(set) = SumFunctionOnSet(f, set)
  BY DEF Pixels, SumFunction
<1> HIDE DEF f
<1>3. SumFunctionOnSet(f, set) \in Nat /\ SumFunctionOnSet(f, set) >= Cardinality(set)
  BY <1>1, SumsAreNumbers
<1>4. Cardinality(set) \in Nat \ {0}
  BY <1>1, FS_CardinalityType, FS_EmptySet
<1> QED
  BY <1>2, <1>3, <1>4

\* The extent of a box on an axis is between values that some entries have.
LEMMA ExtentOfEntries ==
    ASSUME NEW set, AreEntries(set), NEW a \in Axes
    PROVE  LET values == Values(set, a)
           IN  /\ values \subseteq 0 .. 255 /\ values # {}
               /\ Min(values) \in values /\ Max(values) \in values
               /\ \A v \in values : Min(values) <= v /\ v <= Max(values)
               /\ Extent(set, a) \in Nat /\ Extent(set, a) = Max(values) - Min(values)
<1> DEFINE values == Values(set, a)
<1>1. values \subseteq 0 .. 255
  <2>1. \A e \in set : e.color \in [Axes -> 0 .. 255]
    BY DEF AreEntries, Rgb
  <2>2. \A e \in set : e.color[a] \in 0 .. 255
    BY <2>1
  <2> QED
    BY <2>2 DEF Values
<1>2. values # {}
  BY DEF AreEntries, Values
<1> HIDE DEF values
<1>3. /\ Min(values) \in values /\ \A y \in values : Min(values) <= y
      /\ Max(values) \in values /\ \A y \in values : y <= Max(values)
  <2>1. 255 \in Nat
    OBVIOUS
  <2> QED
    BY <1>1, <1>2, <2>1, ExtremesOf
<1>4. Extent(set, a) = Max(values) - Min(values)
  BY DEF Extent, values
<1>5. Min(values) \in 0 .. 255 /\ Max(values) \in 0 .. 255 /\ Min(values) <= Max(values)
  <2>1. Min(values) \in 0 .. 255 /\ Max(values) \in 0 .. 255
    BY <1>1, <1>3
  <2> QED
    BY <1>3, <2>1
<1>6. Extent(set, a) \in Nat
  <2> DEFINE low == Min(values)
             top == Max(values)
  <2>1. low \in 0 .. 255 /\ top \in 0 .. 255 /\ low <= top /\ Extent(set, a) = top - low
    BY <1>4, <1>5
  <2> HIDE DEF low, top
  <2> QED
    BY <2>1
<1> QED
  BY <1>1, <1>2, <1>3, <1>4, <1>6 DEF values

\* The axis of a cut has an extent when any has.
LEMMA CutAxisHasExtent ==
    ASSUME NEW set, AreEntries(set), NEW a \in Axes, Extent(set, a) # 0
    PROVE  CutAxis(set) \in Axes /\ Extent(set, CutAxis(set)) >= 1
<1> DEFINE W(x) == Extent(set, x) * Weights[x]
           best == {x \in Axes : \A other \in Axes : W(other) <= W(x)}
<1>1. \A x \in Axes : Extent(set, x) \in Nat
  BY ExtentOfEntries
<1>2. Axes = {1, 2, 3} /\ Weights[1] = 77 /\ Weights[2] = 150 /\ Weights[3] = 29
  BY DEF Axes, Weights
<1>3. \A x \in Axes : W(x) \in Nat /\ (W(x) = 0 <=> Extent(set, x) = 0)
  BY <1>1, <1>2
<1> HIDE DEF W
<1>4. best # {}
  <2> DEFINE w1 == W(1)
             w2 == W(2)
             w3 == W(3)
  <2>1. w1 \in Nat /\ w2 \in Nat /\ w3 \in Nat
    BY <1>2, <1>3
  <2>2. \A x \in Axes : x = 1 \/ x = 2 \/ x = 3
    BY <1>2
  <2>3. \/ (w2 <= w1 /\ w3 <= w1 /\ w1 <= w1) \/ (w1 <= w2 /\ w3 <= w2 /\ w2 <= w2)
        \/ (w1 <= w3 /\ w2 <= w3 /\ w3 <= w3)
    <3> HIDE DEF w1, w2, w3
    <3> QED
      BY <2>1
  <2>4. CASE w2 <= w1 /\ w3 <= w1 /\ w1 <= w1
    <3>1. 1 \in best
      BY <1>2, <2>2, <2>4
    <3> QED
      BY <3>1
  <2>5. CASE w1 <= w2 /\ w3 <= w2 /\ w2 <= w2
    <3>1. 2 \in best
      BY <1>2, <2>2, <2>5
    <3> QED
      BY <3>1
  <2>6. CASE w1 <= w3 /\ w2 <= w3 /\ w3 <= w3
    <3>1. 3 \in best
      BY <1>2, <2>2, <2>6
    <3> QED
      BY <3>1
  <2> QED
    BY <2>3, <2>4, <2>5, <2>6
<1>5. best \subseteq 0 .. 3
  BY <1>2
<1>6. Min(best) \in best
  <2> HIDE DEF best
  <2>1. 3 \in Nat
    OBVIOUS
  <2> QED
    BY <1>4, <1>5, <2>1, ExtremesOf
<1>7. CutAxis(set) = Min(best)
  BY DEF CutAxis, W
<1> DEFINE x == Min(best)
<1>8. x \in Axes /\ W(a) <= W(x)
  BY <1>6
<1> HIDE DEF x, best
<1>9. Extent(set, x) # 0
  BY <1>3, <1>8
<1>10. Extent(set, x) >= 1
  BY <1>1, <1>8, <1>9
<1> QED
  BY <1>7, <1>8, <1>10 DEF x

\* A cut on an axis with an extent leaves an entry on either side.
LEMMA HalvesArePixels ==
    ASSUME NEW box, AreEntries(box.entries), box.pixel_count = Pixels(box.entries),
           NEW a \in Axes, Extent(box.entries, a) # 0
    PROVE  /\ HighHalf(box) \subseteq box.entries
           /\ HighHalf(box) # {}
           /\ HighHalf(box) # box.entries
<1> DEFINE set == box.entries
           axis == CutAxis(set)
           From(v) == {e \in set : e.color[axis] >= v}
           values == Values(set, axis)
           heavy == {v \in values : 2 * Pixels(From(v)) > box.pixel_count}
           median == Max(heavy)
           low == Min(values)
           top == Max(values)
<1>1. AreEntries(set) /\ axis \in Axes /\ Extent(set, axis) >= 1
  BY CutAxisHasExtent
<1>2. HighHalf(box) = IF median > low THEN From(median) ELSE From(low + 1)
  BY DEF HighHalf
<1>3. /\ values \subseteq 0 .. 255 /\ values # {} /\ low \in values /\ top \in values
      /\ \A v \in values : low <= v /\ v <= top
      /\ Extent(set, axis) \in Nat /\ Extent(set, axis) = top - low
  <2> HIDE DEF axis, set
  <2> QED
    BY <1>1, ExtentOfEntries
<1>4. \A e \in set : e.color[axis] \in values
  BY DEF Values
<1>5. \A v \in values : \E e \in set : e.color[axis] = v
  BY DEF Values
<1> HIDE DEF values, axis, set, low, top
<1>6. low \in heavy
  <2>1. From(low) = set
    BY <1>3, <1>4
  <2>2. Pixels(set) \in Nat \ {0} /\ box.pixel_count = Pixels(set)
    BY <1>1, EntriesHavePixels DEF set
  <2>3. 2 * Pixels(From(low)) > box.pixel_count
    BY <2>1, <2>2
  <2> QED
    BY <1>3, <2>3
<1>7. heavy \subseteq values
  OBVIOUS
<1> HIDE DEF heavy
<1>8. median \in values
  <2>1. 255 \in Nat /\ heavy \subseteq 0 .. 255 /\ heavy # {}
    BY <1>3, <1>6, <1>7
  <2>2. Max(heavy) \in heavy
    BY <2>1, ExtremesOf
  <2> QED
    BY <1>7, <2>2
<1> HIDE DEF median
<1>9. PICK eLow \in set : eLow.color[axis] = low
  BY <1>3, <1>5
<1>10. PICK eTop \in set : eTop.color[axis] = top
  BY <1>3, <1>5
<1>11. low \in Nat /\ top \in Nat /\ top >= low + 1 /\ median \in Nat
  BY <1>1, <1>3, <1>8
<1>12. CASE median > low
  <2>1. PICK e \in set : e.color[axis] = median
    BY <1>5, <1>8
  <2>2. e \in From(median) /\ eLow \notin From(median)
    BY <1>9, <1>11, <1>12, <2>1
  <2> QED
    BY <1>2, <1>9, <1>12, <2>2 DEF set
<1>13. CASE ~(median > low)
  <2>1. eTop \in From(low + 1) /\ eLow \notin From(low + 1)
    BY <1>9, <1>10, <1>11
  <2> QED
    BY <1>2, <1>9, <1>13, <2>1 DEF set
<1> QED
  BY <1>12, <1>13

-----------------------------------------------------------------------------
\* The inductive invariant of the cut.
Histo == boxes[1].entries

\* An entry for every hash of the sample's colours, and it has pixels.
HistogramOK ==
    /\ AreEntries(Histo)
    /\ \A e \in Histo : e.color \in DOMAIN pixels
    /\ \A c \in DOMAIN pixels : \E e \in Histo : pixel_hash[e.color] = pixel_hash[c]

BoxRecords == [entries : SUBSET Histo, pixel_count : Nat, children : Seq(Nat)]

CutTyped ==
    /\ pixels \in Samples
    /\ colors \in Nat /\ cuts \in Nat /\ cuts < colors
    /\ boxes \in Seq(BoxRecords) /\ Len(boxes) >= 1

\* No box is empty, each has the pixels of its entries, and its entries are its children's.
TreeOK ==
    \A b \in 1 .. Len(boxes) :
        /\ boxes[b].entries # {}
        /\ boxes[b].pixel_count = Pixels(boxes[b].entries)
        /\ ~IsLeaf(b) =>
              \E l \in b + 1 .. Len(boxes) - 1 :
                  /\ boxes[b].children = <<l, l + 1>>
                  /\ boxes[b].entries = boxes[l].entries \cup boxes[l + 1].entries

\* The leaves share the histogram out, one more of them than there were cuts.
LeavesOK ==
    /\ \A e \in Histo : \E b \in Leaves : e \in boxes[b].entries
    /\ \A b, c \in Leaves : b # c => boxes[b].entries \cap boxes[c].entries = {}
    /\ IsFiniteSet(Leaves) /\ Cardinality(Leaves) = cuts + 1

\* What the heap is ordered by.
Weight == [b \in DOMAIN boxes |-> boxes[b].pixel_count]

\* The heap has every leaf that can be cut once.
HeapOK ==
    /\ heap \in Seq(DOMAIN boxes)
    /\ IsHeap(heap, Weight)
    /\ Distinct(heap)
    /\ \A k \in 1 .. Len(heap) : heap[k] \in Leaves
    /\ \A b \in Leaves : Volume(b) # 1 => \E k \in 1 .. Len(heap) : heap[k] = b

\* The inductive invariant.  That the leaves are disjoint and cover the histogram needs
\* the tree, and that a cut is made of a leaf needs the heap.
CutInv == CutTyped /\ HistogramOK /\ TreeOK /\ LeavesOK /\ HeapOK

LEMMA BoxesHaveEntries ==
    ASSUME CutTyped, HistogramOK, TreeOK
    PROVE  /\ DOMAIN boxes = 1 .. Len(boxes) /\ Len(boxes) \in Nat
           /\ \A b \in DOMAIN boxes :
                 AreEntries(boxes[b].entries) /\ boxes[b].entries \subseteq Histo
           /\ Weight \in [DOMAIN boxes -> Nat]
           /\ \A b \in DOMAIN boxes : Count(b) = Weight[b]
<1>1. DOMAIN boxes = 1 .. Len(boxes) /\ Len(boxes) \in Nat
  BY DEF CutTyped
<1>2. ASSUME NEW b \in DOMAIN boxes
      PROVE  /\ AreEntries(boxes[b].entries) /\ boxes[b].entries \subseteq Histo
             /\ boxes[b].pixel_count \in Nat
  <2>1. boxes[b] \in BoxRecords
    BY <1>1 DEF CutTyped
  <2>2. boxes[b].entries \subseteq Histo /\ boxes[b].pixel_count \in Nat
    BY <2>1 DEF BoxRecords
  <2>3. boxes[b].entries # {}
    BY <1>1 DEF TreeOK
  <2>4. IsFiniteSet(boxes[b].entries)
    BY <2>2, FS_Subset DEF HistogramOK, AreEntries
  <2> QED
    BY <2>2, <2>3, <2>4 DEF HistogramOK, AreEntries
<1>3. Weight \in [DOMAIN boxes -> Nat] /\ \A b \in DOMAIN boxes : Count(b) = Weight[b]
  BY <1>2 DEF Weight, Count
<1> QED
  BY <1>1, <1>2, <1>3

\* The invariant says all that CutIsSound does.
LEMMA CutInvIsSound == CutInv => CutIsSound
<1> SUFFICES ASSUME CutInv PROVE CutIsSound
  OBVIOUS
<1>1. CutTyped /\ HistogramOK /\ TreeOK /\ LeavesOK /\ HeapOK
  BY DEF CutInv
<1>2. /\ DOMAIN boxes = 1 .. Len(boxes) /\ Len(boxes) \in Nat
      /\ \A b \in DOMAIN boxes : boxes[b].entries \subseteq Histo
      /\ Weight \in [DOMAIN boxes -> Nat]
      /\ \A b \in DOMAIN boxes : Count(b) = Weight[b]
  BY <1>1, BoxesHaveEntries
<1>3. Cardinality(Leaves) <= colors
  BY <1>1 DEF LeavesOK, CutTyped
<1>4. \A b \in Leaves : boxes[b].entries # {} /\ Count(b) = Pixels(boxes[b].entries)
  BY <1>1, <1>2 DEF TreeOK, Leaves, Count
<1>5. UNION {boxes[b].entries : b \in Leaves} = boxes[1].entries
  BY <1>1, <1>2 DEF LeavesOK, Leaves, Histo
<1>6. \A b, c \in Leaves : b # c => boxes[b].entries \cap boxes[c].entries = {}
  BY <1>1 DEF LeavesOK
<1>7. DOMAIN heap = 1 .. Len(heap)
  BY <1>1 DEF HeapOK
<1>8. \A b \in Leaves : Volume(b) > 1 => \E k \in DOMAIN heap : heap[k] = b
  <2> TAKE b \in Leaves
  <2> HAVE Volume(b) > 1
  <2> DEFINE vol == Volume(b)
  <2>1. vol # 1
    <3>1. vol > 1
      OBVIOUS
    <3> HIDE DEF vol
    <3> QED
      BY <3>1
  <2> QED
    BY <1>1, <1>7, <2>1 DEF HeapOK
<1>9. \A k, m \in DOMAIN heap : k # m => heap[k] # heap[m]
  BY <1>1, <1>7 DEF HeapOK, Distinct
<1>10. \A k \in DOMAIN heap : IsLeaf(heap[k]) /\ Count(heap[k]) <= Count(heap[1])
  <2> TAKE k \in DOMAIN heap
  <2>1. heap \in Seq(DOMAIN boxes) /\ IsHeap(heap, Weight)
    BY <1>1 DEF HeapOK
  <2>2. Weight[heap[k]] <= Weight[heap[1]]
    BY <1>2, <1>7, <2>1, TopIsLargest
  <2>3. heap[k] \in DOMAIN boxes /\ heap[1] \in DOMAIN boxes
    <3>1. 1 \in 1 .. Len(heap)
      BY <1>7, <2>1
    <3> QED
      BY <1>7, <2>1, <3>1
  <2>4. IsLeaf(heap[k])
    BY <1>1, <1>7 DEF HeapOK, Leaves
  <2> QED
    BY <1>2, <2>2, <2>3, <2>4
<1> QED
  BY <1>3, <1>4, <1>5, <1>6, <1>8, <1>9, <1>10 DEF CutIsSound

\* A box with room to cut has an axis with an extent.
LEMMA RoomToCut ==
    ASSUME NEW b, AreEntries(boxes[b].entries), Volume(b) # 1
    PROVE  \E a \in Axes : Extent(boxes[b].entries, a) # 0
<1> DEFINE x == Extent(boxes[b].entries, 1)
           y == Extent(boxes[b].entries, 2)
           z == Extent(boxes[b].entries, 3)
<1>1. Volume(b) = (x + 1) * (y + 1) * (z + 1)
  BY DEF Volume, AreEntries
<1>2. 1 \in Axes /\ 2 \in Axes /\ 3 \in Axes
  BY DEF Axes
<1>3. SUFFICES ASSUME x = 0, y = 0, z = 0 PROVE FALSE
  BY <1>2
<1>4. (x + 1) * (y + 1) * (z + 1) = 1
  <2> HIDE DEF x, y, z
  <2> QED
    BY <1>3
<1> QED
  BY <1>1, <1>4

LEMMA AfterTheFirst ==
    ASSUME NEW R, NEW p \in Seq(R), NEW q \in Seq(R), NEW i \in 1 .. Len(q)
    PROVE  (p \o q)[Len(p) + i] = q[i]
<1>1. Len(p) \in Nat /\ Len(q) \in Nat /\ Len(p \o q) = Len(p) + Len(q)
  OBVIOUS
<1>2. Len(p) + i \in 1 .. Len(p) + Len(q) /\ Len(p) + i > Len(p) /\ (Len(p) + i) - Len(p) = i
  BY <1>1
<1> QED
  BY <1>1, <1>2

LEMMA BoxesAfterCut ==
    ASSUME NEW R, NEW s \in Seq(R), NEW t \in 1 .. Len(s), NEW kids,
           NEW x \in R, NEW y \in R, [s[t] EXCEPT !.children = kids] \in R
    PROVE  LET q == [s EXCEPT ![t].children = kids] \o <<x, y>>
           IN  /\ q \in Seq(R) /\ Len(q) = Len(s) + 2
               /\ q[t] = [s[t] EXCEPT !.children = kids]
               /\ \A b \in 1 .. Len(s) : b # t => q[b] = s[b]
               /\ q[Len(s) + 1] = x /\ q[Len(s) + 2] = y
<1> DEFINE p == [s EXCEPT ![t].children = kids]
           n == Len(s)
           new == [s[t] EXCEPT !.children = kids]
<1>1. p = [s EXCEPT ![t] = new]
  OBVIOUS
<1> HIDE DEF p, new
<1>2. n \in Nat /\ s \in [1 .. n -> R] /\ new \in R
  BY DEF new
<1>3. p \in [1 .. n -> R] /\ p[t] = new /\ \A b \in 1 .. n : b # t => p[b] = s[b]
  BY <1>1, <1>2
<1>4. p \in Seq(R) /\ Len(p) = n
  BY <1>2, <1>3, FunctionsAreSequences
<1>5. <<x, y>> \in Seq(R) /\ Len(<<x, y>>) = 2 /\ <<x, y>>[1] = x /\ <<x, y>>[2] = y
  OBVIOUS
<1> DEFINE tail == <<x, y>>
           q == p \o tail
<1> HIDE DEF n, tail
<1>6. q \in Seq(R) /\ Len(q) = n + 2
  BY <1>4, <1>5 DEF tail
<1>7. \A b \in 1 .. n : q[b] = p[b]
  BY <1>4, <1>5 DEF tail
<1>8. q[n + 1] = x /\ q[n + 2] = y
  <2>1. Len(tail) = 2 /\ tail \in Seq(R) /\ tail[1] = x /\ tail[2] = y
    BY <1>5 DEF tail
  <2>2. 1 \in 1 .. Len(tail) /\ 2 \in 1 .. Len(tail)
    BY <2>1
  <2>3. \A i \in 1 .. Len(tail) : (p \o tail)[Len(p) + i] = tail[i]
    <3>1. p \in Seq(R) /\ tail \in Seq(R)
      BY <1>4, <2>1
    <3> TAKE i \in 1 .. Len(tail)
    <3>2. (p \o tail)[Len(p) + i] = tail[i]
      BY <3>1, AfterTheFirst, Zenon
    <3> QED
      BY <3>2
  <2> HIDE DEF q
  <2>4. (p \o tail)[Len(p) + 1] = x /\ (p \o tail)[Len(p) + 2] = y
    BY <2>1, <2>2, <2>3
  <2> QED
    BY <1>4, <2>4 DEF q
<1>9. t \in 1 .. n
  BY DEF n
<1> QED
  BY <1>3, <1>6, <1>7, <1>8, <1>9 DEF n, tail, p, new

\* What is assumed of the sample.
LEMMA SampleOfCut ==
    ASSUME pixels \in Samples
    PROVE  /\ IsFiniteSet(DOMAIN pixels) /\ DOMAIN pixels # {} /\ DOMAIN pixels \subseteq Rgb
           /\ \A c \in DOMAIN pixels : pixels[c] \in Nat \ {0}
BY MedianCutAssumption

\* The histogram has an entry for every hash.
LEMMA HistogramOfSample ==
    ASSUME pixels \in Samples,
           NEW first \in [{pixel_hash[c] : c \in DOMAIN pixels} -> DOMAIN pixels],
           \A h \in DOMAIN first : pixel_hash[first[h]] = h
    PROVE  /\ AreEntries(Histogram(first))
           /\ \A e \in Histogram(first) : e.color \in DOMAIN pixels
           /\ \A c \in DOMAIN pixels :
                 \E e \in Histogram(first) : pixel_hash[e.color] = pixel_hash[c]
<1> DEFINE D == DOMAIN pixels
           hashes == {pixel_hash[c] : c \in D}
           Entry(h) == [color |-> first[h], count |-> SumFunctionOnSet(pixels, Sharing(h))]
           H == Histogram(first)
           g == [c \in D |-> Entry(pixel_hash[c])]
<1>1. /\ IsFiniteSet(D) /\ D # {} /\ D \subseteq Rgb
      /\ \A c \in D : pixels[c] \in Nat \ {0}
  BY SampleOfCut
<1>2. H = {Entry(h) : h \in hashes}
  BY DEF Histogram
<1>3. \A h \in hashes : first[h] \in D /\ pixel_hash[first[h]] = h
  OBVIOUS
<1>4. ASSUME NEW h \in hashes
      PROVE  SumFunctionOnSet(pixels, Sharing(h)) \in Nat \ {0}
  <2> DEFINE S == Sharing(h)
             sum == SumFunctionOnSet(pixels, S)
  <2>1. S \subseteq D /\ first[h] \in S
    BY <1>3 DEF Sharing
  <2>2. IsFiniteSet(S) /\ S # {}
    BY <1>1, <2>1, FS_Subset
  <2>3. \A x \in S : pixels[x] \in Nat /\ pixels[x] >= 1
    BY <1>1, <2>1
  <2> HIDE DEF S
  <2>4. sum \in Nat /\ sum >= Cardinality(S)
    BY <2>2, <2>3, SumsAreNumbers
  <2>5. Cardinality(S) \in Nat \ {0}
    BY <2>2, FS_CardinalityType, FS_EmptySet
  <2> HIDE DEF sum
  <2>6. sum \in Nat \ {0}
    BY <2>4, <2>5
  <2> QED
    BY <2>6 DEF sum, S
<1>5. IsFiniteSet(H)
  <2>1. g \in Surjection(D, H)
    <3>1. g \in [D -> H]
      BY <1>2
    <3>2. \A e \in H : \E c \in D : g[c] = e
      BY <1>2
    <3> HIDE DEF g, H
    <3> QED
      BY <3>1, <3>2 DEF Surjection
  <2> HIDE DEF g, H
  <2> QED
    BY <1>1, <2>1, FS_Surjection
<1>6. H # {}
  <2>1. PICK c \in D : TRUE
    BY <1>1
  <2>2. Entry(pixel_hash[c]) \in H
    BY <1>2
  <2> QED
    BY <2>2
<1>7. \A e \in H : e.color \in D /\ e.count \in Nat \ {0}
  BY <1>2, <1>3, <1>4
<1>8. \A c \in D : \E e \in H : pixel_hash[e.color] = pixel_hash[c]
  <2> TAKE c \in D
  <2> DEFINE h == pixel_hash[c]
  <2>1. h \in hashes /\ Entry(h) \in H /\ Entry(h).color = first[h]
    BY <1>2
  <2> QED
    BY <1>3, <2>1
<1> HIDE DEF H, D
<1> QED
  BY <1>1, <1>5, <1>6, <1>7, <1>8 DEF AreEntries, H, D

LEMMA CutInitInv == CutInit => CutInv
<1> SUFFICES ASSUME CutInit PROVE CutInv
  OBVIOUS
<1>1. PICK first \in [{pixel_hash[c] : c \in DOMAIN pixels} -> DOMAIN pixels] :
            /\ \A h \in DOMAIN first : pixel_hash[first[h]] = h
            /\ boxes = <<MakeBox(Histogram(first))>>
  BY DEF CutInit
<1> DEFINE H == Histogram(first)
           box == MakeBox(H)
<1>2. pixels \in Samples /\ colors \in Nat \ {0} /\ cuts = 0 /\ heap = <<1>>
  BY MedianCutAssumption DEF CutInit
<1>3. /\ AreEntries(H) /\ \A e \in H : e.color \in DOMAIN pixels
      /\ \A c \in DOMAIN pixels : \E e \in H : pixel_hash[e.color] = pixel_hash[c]
  BY <1>1, <1>2, HistogramOfSample
<1> HIDE DEF H
<1>4. box.entries = H /\ box.pixel_count = Pixels(H) /\ box.children = <<>>
  BY DEF MakeBox
<1>5. Pixels(H) \in Nat /\ H # {}
  BY <1>3, EntriesHavePixels DEF AreEntries
<1>6. boxes = <<box>>
  BY <1>1 DEF H
<1>7. box \in BoxRecords /\ Histo = H
  <2>1. box = [entries |-> H, pixel_count |-> Pixels(H), children |-> <<>>]
    BY DEF MakeBox
  <2>2. boxes[1] = box
    BY <1>6
  <2>3. Histo = H
    BY <1>4, <2>2 DEF Histo
  <2>4. <<>> \in Seq(Nat)
    OBVIOUS
  <2> HIDE DEF box
  <2> QED
    BY <1>5, <2>1, <2>3, <2>4 DEF BoxRecords
<1> HIDE DEF box
<1>8. boxes \in Seq(BoxRecords) /\ Len(boxes) = 1 /\ DOMAIN boxes = {1} /\ boxes[1] = box
  BY <1>6, <1>7
<1>9. Leaves = {1}
  BY <1>4, <1>8 DEF Leaves, IsLeaf
<1>10. CutTyped
  BY <1>2, <1>8 DEF CutTyped
<1>11. HistogramOK
  BY <1>3, <1>7 DEF HistogramOK
<1>12. TreeOK
  BY <1>4, <1>5, <1>8 DEF TreeOK, IsLeaf
<1>13. LeavesOK
  <2>1. IsFiniteSet({1}) /\ Cardinality({1}) = 1
    BY FS_Singleton
  <2>2. \A e \in Histo : \E b \in Leaves : e \in boxes[b].entries
    BY <1>9 DEF Histo
  <2>3. \A b, c \in Leaves : b = c
    BY <1>9
  <2>4. cuts + 1 = 1
    BY <1>2
  <2> QED
    BY <1>9, <2>1, <2>2, <2>3, <2>4 DEF LeavesOK
<1>14. HeapOK
  <2>1. heap \in Seq(DOMAIN boxes) /\ Len(heap) = 1 /\ heap[1] = 1
    BY <1>2, <1>8
  <2>2. IsHeap(heap, Weight) /\ Distinct(heap)
    BY <2>1 DEF IsHeap, Distinct
  <2> QED
    BY <1>9, <2>1, <2>2 DEF HeapOK
<1> QED
  BY <1>10, <1>11, <1>12, <1>13, <1>14 DEF CutInv

\* A box dropped has no room to cut.
LEMMA DropKeeps == CutInv /\ DropUnitBox => CutInv'
<1> SUFFICES ASSUME CutInv, DropUnitBox PROVE CutInv'
  OBVIOUS
<1> DEFINE h1 == HeapRemove(heap)
           B == DOMAIN boxes
<1>1. CutTyped /\ HistogramOK /\ TreeOK /\ LeavesOK /\ HeapOK
  BY DEF CutInv
<1>2. /\ heap # <<>> /\ Volume(heap[1]) = 1 /\ heap' = h1
      /\ UNCHANGED <<pixels, colors, boxes, cuts>>
  BY DEF DropUnitBox
<1>3. Weight \in [B -> Nat] /\ \A b \in B : Count(b) = Weight[b]
  BY <1>1, BoxesHaveEntries
<1>4. heap \in Seq(B) /\ IsHeap(heap, Weight) /\ Distinct(heap)
  BY <1>1 DEF HeapOK
<1>5. /\ h1 \in Seq(B) /\ Len(h1) = Len(heap) - 1
      /\ IsHeap(h1, Weight) /\ Distinct(h1)
      /\ \A x : (\E k \in 1 .. Len(heap) - 1 : h1[k] = x)
                   <=> (x # heap[1] /\ \E k \in 1 .. Len(heap) : heap[k] = x)
  <2> HIDE DEF B
  <2> DEFINE w == Weight
  <2>1. /\ w \in [B -> Nat] /\ \A b \in B : Count(b) = w[b]
        /\ heap \in Seq(B) /\ heap # <<>> /\ IsHeap(heap, w) /\ Distinct(heap)
    BY <1>2, <1>3, <1>4
  <2> HIDE DEF w
  <2>2. /\ HeapRemove(heap) \in Seq(B) /\ Len(HeapRemove(heap)) = Len(heap) - 1
        /\ IsHeap(HeapRemove(heap), w) /\ Distinct(HeapRemove(heap))
        /\ \A x : (\E k \in 1 .. Len(heap) - 1 : HeapRemove(heap)[k] = x)
                     <=> (x # heap[1] /\ \E k \in 1 .. Len(heap) : heap[k] = x)
    BY <2>1, HeapRemoveKeeps
  <2> QED
    BY <2>2 DEF w
<1> HIDE DEF h1
<1>6. CutTyped'
  BY <1>1, <1>2 DEF CutTyped, BoxRecords, Histo
<1>7. HistogramOK'
  BY <1>1, <1>2 DEF HistogramOK, Histo
<1>8. TreeOK'
  BY <1>1, <1>2 DEF TreeOK, IsLeaf
<1>9. Leaves' = Leaves
  BY <1>2 DEF Leaves, IsLeaf
<1>10. LeavesOK'
  BY <1>1, <1>2, <1>9 DEF LeavesOK, Histo
<1>11. HeapOK'
  <2>1. Weight' = Weight
    BY <1>2 DEF Weight
  <2>2. \A k \in 1 .. Len(h1) : h1[k] \in Leaves
    <3> TAKE k \in 1 .. Len(h1)
    <3>1. \E m \in 1 .. Len(heap) - 1 : h1[m] = h1[k]
      BY <1>5
    <3>2. \E m \in 1 .. Len(heap) : heap[m] = h1[k]
      BY <1>5, <3>1
    <3> QED
      BY <1>1, <3>2 DEF HeapOK
  <2>3. ASSUME NEW b \in Leaves, Volume(b)' # 1
        PROVE  \E k \in 1 .. Len(h1) : h1[k] = b
    <3>1. Volume(b)' = Volume(b)
      BY <1>2 DEF Volume
    <3>2. b # heap[1]
      BY <1>2, <2>3, <3>1
    <3>3. \E k \in 1 .. Len(heap) : heap[k] = b
      BY <1>1, <2>3, <3>1 DEF HeapOK
    <3> QED
      BY <1>5, <3>2, <3>3
  <2> QED
    BY <1>2, <1>5, <1>9, <2>1, <2>2, <2>3 DEF HeapOK, IsHeap
<1> QED
  BY <1>6, <1>7, <1>8, <1>10, <1>11 DEF CutInv

\* What a cut makes of the boxes: t is cut in two, high and rest.
CutMakes(t, n, high, rest) ==
    /\ n \in Nat /\ n = Len(boxes) /\ t \in 1 .. n /\ t = heap[1] /\ t \in Leaves
    /\ high # {} /\ rest # {} /\ high \cap rest = {}
    /\ high \cup rest = boxes[t].entries
    /\ high \subseteq Histo /\ rest \subseteq Histo
    /\ boxes' \in Seq(BoxRecords) /\ Len(boxes') = n + 2
    /\ boxes'[t].entries = boxes[t].entries /\ boxes'[t].pixel_count = boxes[t].pixel_count
    /\ boxes'[t].children = <<n + 1, n + 2>>
    /\ \A b \in 1 .. n : b # t => boxes'[b] = boxes[b]
    /\ boxes'[n + 1] = MakeBox(high) /\ boxes'[n + 2] = MakeBox(rest)

\* A half that is not empty makes a box.
LEMMA BoxOfHalf ==
    ASSUME HistogramOK, NEW set, set \subseteq Histo, set # {}
    PROVE  /\ AreEntries(set) /\ MakeBox(set) \in BoxRecords
           /\ MakeBox(set).entries = set /\ MakeBox(set).pixel_count = Pixels(set)
           /\ MakeBox(set).children = <<>>
<1>1. AreEntries(set)
  BY FS_Subset DEF HistogramOK, AreEntries
<1>2. Pixels(set) \in Nat
  BY <1>1, EntriesHavePixels
<1>3. MakeBox(set) = [entries |-> set, pixel_count |-> Pixels(set), children |-> <<>>]
  BY DEF MakeBox
<1>4. <<>> \in Seq(Nat)
  OBVIOUS
<1> QED
  BY <1>1, <1>2, <1>3, <1>4 DEF BoxRecords

\* CutTopBox does what CutMakes says.
LEMMA TopIsCut ==
    ASSUME CutInv, CutTopBox
    PROVE  \E t, n, high, rest : CutMakes(t, n, high, rest)
<1> DEFINE t == heap[1]
           n == Len(boxes)
           box == boxes[t]
           high == HighHalf(box)
           rest == box.entries \ high
           kids == <<n + 1, n + 2>>
           new == [box EXCEPT !.children = kids]
           q == [boxes EXCEPT ![t].children = kids] \o <<MakeBox(high), MakeBox(rest)>>
<1>1. CutTyped /\ HistogramOK /\ TreeOK /\ LeavesOK /\ HeapOK
  BY DEF CutInv
<1>2. heap # <<>> /\ Volume(t) # 1
  BY DEF CutTopBox
<1>3. n \in Nat /\ DOMAIN boxes = 1 .. n
  BY <1>1 DEF CutTyped
<1>4. t \in 1 .. n /\ t \in Leaves
  <2>1. heap \in Seq(DOMAIN boxes) /\ 1 \in 1 .. Len(heap)
    BY <1>1, <1>2 DEF HeapOK
  <2>2. heap[1] \in Leaves
    BY <1>1, <2>1 DEF HeapOK
  <2>3. heap[1] \in DOMAIN boxes
    BY <2>2 DEF Leaves
  <2> QED
    BY <1>3, <2>2, <2>3
<1>5. /\ AreEntries(box.entries) /\ box.entries \subseteq Histo
      /\ box.pixel_count = Pixels(box.entries) /\ box \in BoxRecords
  <2>1. AreEntries(box.entries) /\ box.entries \subseteq Histo
    BY <1>1, <1>3, <1>4, BoxesHaveEntries
  <2>2. box.pixel_count = Pixels(box.entries)
    BY <1>4, <1>1 DEF TreeOK
  <2>3. box \in BoxRecords
    BY <1>3, <1>4, <1>1 DEF CutTyped
  <2> QED
    BY <2>1, <2>2, <2>3
<1>6. PICK a \in Axes : Extent(box.entries, a) # 0
  BY <1>2, <1>5, RoomToCut
<1>7. high \subseteq box.entries /\ high # {} /\ high # box.entries
  <2> HIDE DEF box
  <2> QED
    BY <1>5, <1>6, HalvesArePixels
<1>8. high \subseteq Histo /\ rest \subseteq Histo /\ rest # {}
  <2> HIDE DEF high, box
  <2> QED
    BY <1>5, <1>7
<1>9. MakeBox(high) \in BoxRecords /\ MakeBox(rest) \in BoxRecords
  <2> HIDE DEF high, rest, box
  <2> QED
    BY <1>1, <1>7, <1>8, BoxOfHalf
<1>10. new \in BoxRecords /\ new.entries = box.entries /\ new.pixel_count = box.pixel_count
       /\ new.children = kids
  <2>1. kids \in Seq(Nat)
    BY <1>3
  <2> HIDE DEF box, kids
  <2> QED
    BY <1>5, <2>1 DEF BoxRecords
<1>11. boxes' = q
  <2>1. boxes' = [boxes EXCEPT ![heap[1]].children = <<Len(boxes) + 1, (Len(boxes) + 1) + 1>>]
                   \o <<MakeBox(high), MakeBox(rest)>>
    BY Zenon DEF CutTopBox
  <2>2. (n + 1) + 1 = n + 2
    BY <1>3
  <2> HIDE DEF high, rest, box
  <2> QED
    BY <2>1, <2>2, Zenon
<1>12. /\ q \in Seq(BoxRecords) /\ Len(q) = n + 2
       /\ q[t] = [boxes[t] EXCEPT !.children = kids]
       /\ \A b \in 1 .. n : b # t => q[b] = boxes[b]
       /\ q[n + 1] = MakeBox(high) /\ q[n + 2] = MakeBox(rest)
  <2> DEFINE x == MakeBox(high)
             y == MakeBox(rest)
  <2>1. x \in BoxRecords /\ y \in BoxRecords /\ boxes \in Seq(BoxRecords) /\ t \in 1 .. Len(boxes)
        /\ [boxes[t] EXCEPT !.children = kids] \in BoxRecords
    BY <1>1, <1>4, <1>9, <1>10 DEF CutTyped
  <2> HIDE DEF x, y, kids, t
  <2>2. LET qq == [boxes EXCEPT ![t].children = kids] \o <<x, y>>
        IN  /\ qq \in Seq(BoxRecords) /\ Len(qq) = Len(boxes) + 2
            /\ qq[t] = [boxes[t] EXCEPT !.children = kids]
            /\ \A b \in 1 .. Len(boxes) : b # t => qq[b] = boxes[b]
            /\ qq[Len(boxes) + 1] = x /\ qq[Len(boxes) + 2] = y
    BY <2>1, BoxesAfterCut, SMTT(30)
  <2> QED
    BY <2>2 DEF x, y
<1>13. high \cap rest = {} /\ high \cup rest = box.entries
  <2> HIDE DEF high, box
  <2> QED
    BY <1>7
<1> HIDE DEF high, rest
<1>14. CutMakes(t, n, high, rest)
  <2> HIDE DEF q
  <2> QED
    BY <1>3, <1>4, <1>7, <1>8, <1>10, <1>11, <1>12, <1>13 DEF CutMakes
<1> QED
  BY <1>14

\* What has become of each box.
LEMMA CutParts ==
    ASSUME CutInv, NEW t, NEW n, NEW high, NEW rest, CutMakes(t, n, high, rest)
    PROVE  /\ n \in Nat /\ t \in 1 .. n
           /\ DOMAIN boxes = 1 .. n /\ DOMAIN boxes' = 1 .. n + 2 /\ Len(boxes') = n + 2
           /\ Histo' = Histo
           /\ \A b \in 1 .. n : /\ boxes'[b].entries = boxes[b].entries
                                /\ boxes'[b].pixel_count = boxes[b].pixel_count
                                /\ b # t => boxes'[b] = boxes[b]
           /\ boxes[t].children = <<>>
           /\ boxes'[n + 1].entries = high /\ boxes'[n + 2].entries = rest
           /\ boxes'[n + 1].pixel_count = Pixels(high) /\ boxes'[n + 2].pixel_count = Pixels(rest)
           /\ boxes'[n + 1].children = <<>> /\ boxes'[n + 2].children = <<>>
<1>1. CutTyped /\ HistogramOK
  BY DEF CutInv
<1>2. /\ n \in Nat /\ n = Len(boxes) /\ t \in 1 .. n /\ t \in Leaves
      /\ high # {} /\ rest # {} /\ high \subseteq Histo /\ rest \subseteq Histo
      /\ boxes' \in Seq(BoxRecords) /\ Len(boxes') = n + 2
      /\ boxes'[t].entries = boxes[t].entries /\ boxes'[t].pixel_count = boxes[t].pixel_count
      /\ \A b \in 1 .. n : b # t => boxes'[b] = boxes[b]
      /\ boxes'[n + 1] = MakeBox(high) /\ boxes'[n + 2] = MakeBox(rest)
  BY DEF CutMakes
<1>3. DOMAIN boxes = 1 .. n /\ DOMAIN boxes' = 1 .. n + 2
  <2>1. boxes \in Seq(BoxRecords)
    BY <1>1 DEF CutTyped
  <2> QED
    BY <1>2, <2>1
<1>4. \A b \in 1 .. n : boxes'[b].entries = boxes[b].entries
                        /\ boxes'[b].pixel_count = boxes[b].pixel_count
  <2> TAKE b \in 1 .. n
  <2>1. CASE b = t
    BY <1>2, <2>1
  <2>2. CASE b # t
    <3>1. boxes'[b] = boxes[b]
      BY <1>2, <2>2
    <3> QED
      BY <3>1
  <2> QED
    BY <2>1, <2>2
<1>5. Histo' = Histo
  <2>1. 1 \in 1 .. n
    BY <1>2
  <2> QED
    BY <1>4, <2>1 DEF Histo
<1>6. boxes[t].children = <<>>
  BY <1>2 DEF Leaves, IsLeaf
<1>7. /\ MakeBox(high).entries = high /\ MakeBox(high).pixel_count = Pixels(high)
      /\ MakeBox(high).children = <<>>
  BY <1>1, <1>2, BoxOfHalf
<1>8. /\ MakeBox(rest).entries = rest /\ MakeBox(rest).pixel_count = Pixels(rest)
      /\ MakeBox(rest).children = <<>>
  BY <1>1, <1>2, BoxOfHalf
<1> QED
  BY <1>2, <1>3, <1>4, <1>5, <1>6, <1>7, <1>8

LEMMA CutKeepsTree ==
    ASSUME CutInv, NEW t, NEW n, NEW high, NEW rest, CutMakes(t, n, high, rest)
    PROVE  TreeOK'
<1>1. TreeOK /\ CutTyped
  BY DEF CutInv
<1>2. /\ n \in Nat /\ t \in 1 .. n
      /\ DOMAIN boxes = 1 .. n /\ DOMAIN boxes' = 1 .. n + 2 /\ Len(boxes') = n + 2
      /\ \A b \in 1 .. n : /\ boxes'[b].entries = boxes[b].entries
                           /\ boxes'[b].pixel_count = boxes[b].pixel_count
                           /\ b # t => boxes'[b] = boxes[b]
      /\ boxes'[n + 1].entries = high /\ boxes'[n + 2].entries = rest
      /\ boxes'[n + 1].pixel_count = Pixels(high) /\ boxes'[n + 2].pixel_count = Pixels(rest)
      /\ boxes'[n + 1].children = <<>> /\ boxes'[n + 2].children = <<>>
  BY CutParts
<1>3. /\ high # {} /\ rest # {} /\ high \cup rest = boxes[t].entries
      /\ boxes'[t].children = <<n + 1, n + 2>> /\ n = Len(boxes)
  BY DEF CutMakes
<1>4. ASSUME NEW b \in 1 .. n + 2
      PROVE  /\ boxes'[b].entries # {}
             /\ boxes'[b].pixel_count = Pixels(boxes'[b].entries)
             /\ boxes'[b].children # <<>> =>
                   \E l \in b + 1 .. n + 2 - 1 :
                       /\ boxes'[b].children = <<l, l + 1>>
                       /\ boxes'[b].entries = boxes'[l].entries \cup boxes'[l + 1].entries
  <2>1. CASE b = n + 1
    BY <1>2, <1>3, <2>1
  <2>2. CASE b = n + 2
    BY <1>2, <1>3, <2>2
  <2>3. CASE b \in 1 .. n
    <3>1. /\ boxes[b].entries # {} /\ boxes[b].pixel_count = Pixels(boxes[b].entries)
          /\ boxes[b].children # <<>> =>
                \E l \in b + 1 .. n - 1 :
                    /\ boxes[b].children = <<l, l + 1>>
                    /\ boxes[b].entries = boxes[l].entries \cup boxes[l + 1].entries
      BY <1>1, <1>3, <2>3 DEF TreeOK, IsLeaf
    <3>2. /\ boxes'[b].entries = boxes[b].entries
          /\ boxes'[b].pixel_count = boxes[b].pixel_count
      BY <1>2, <2>3
    <3>3. CASE b = t
      <4>1. n + 1 \in b + 1 .. n + 2 - 1 /\ (n + 1) + 1 = n + 2
        BY <1>2, <2>3
      <4>2. boxes'[b].entries = boxes'[n + 1].entries \cup boxes'[n + 2].entries
        BY <1>2, <1>3, <3>2, <3>3
      <4> QED
        BY <1>3, <3>1, <3>2, <3>3, <4>1, <4>2
    <3>4. CASE b # t
      <4>1. boxes'[b].children = boxes[b].children
        BY <1>2, <2>3, <3>4
      <4>2. ASSUME boxes[b].children # <<>>
            PROVE  \E l \in b + 1 .. n + 2 - 1 :
                       /\ boxes'[b].children = <<l, l + 1>>
                       /\ boxes'[b].entries = boxes'[l].entries \cup boxes'[l + 1].entries
        <5>1. PICK l \in b + 1 .. n - 1 :
                    /\ boxes[b].children = <<l, l + 1>>
                    /\ boxes[b].entries = boxes[l].entries \cup boxes[l + 1].entries
          BY <3>1, <4>2
        <5>2. l \in 1 .. n /\ l + 1 \in 1 .. n /\ l \in b + 1 .. n + 2 - 1
          BY <1>2, <2>3
        <5>3. boxes'[l].entries = boxes[l].entries /\ boxes'[l + 1].entries = boxes[l + 1].entries
          BY <1>2, <5>2
        <5> QED
          BY <3>2, <4>1, <5>1, <5>2, <5>3
      <4> QED
        BY <3>1, <3>2, <4>1, <4>2
    <3> QED
      BY <3>3, <3>4
  <2> QED
    BY <1>2, <2>1, <2>2, <2>3
<1> QED
  BY <1>2, <1>4, SMTT(30) DEF TreeOK, IsLeaf

\* A cut replaces one leaf by two.
LEMMA CutChangesLeaves ==
    ASSUME CutInv, NEW t, NEW n, NEW high, NEW rest, CutMakes(t, n, high, rest)
    PROVE  /\ Leaves' = (Leaves \ {t}) \cup {n + 1, n + 2}
           /\ t \in Leaves /\ n + 1 \notin Leaves /\ n + 2 \notin Leaves /\ n + 1 # n + 2
           /\ \A b \in Leaves : b \in 1 .. n
<1>1. /\ n \in Nat /\ t \in 1 .. n
      /\ DOMAIN boxes = 1 .. n /\ DOMAIN boxes' = 1 .. n + 2
      /\ \A b \in 1 .. n : b # t => boxes'[b] = boxes[b]
      /\ boxes'[n + 1].children = <<>> /\ boxes'[n + 2].children = <<>>
  BY CutParts
<1>2. boxes'[t].children = <<n + 1, n + 2>> /\ t \in Leaves
  BY DEF CutMakes
<1>3. boxes'[t].children # <<>>
  <2>1. Len(<<n + 1, n + 2>>) = 2 /\ Len(<<>>) = 0
    OBVIOUS
  <2> QED
    BY <1>2, <2>1
<1>4. Leaves' = {b \in 1 .. n + 2 : boxes'[b].children = <<>>}
  BY <1>1 DEF Leaves, IsLeaf
<1>5. Leaves = {b \in 1 .. n : boxes[b].children = <<>>}
  BY <1>1 DEF Leaves, IsLeaf
<1>6. \A b : b \in 1 .. n + 2 <=> (b \in 1 .. n \/ b = n + 1 \/ b = n + 2)
  BY <1>1
<1>7. n + 1 \notin 1 .. n /\ n + 2 \notin 1 .. n /\ n + 1 # n + 2
  BY <1>1
<1>8. \A b : b \in Leaves' <=> (b \in Leaves /\ b # t) \/ b = n + 1 \/ b = n + 2
  <2> TAKE b
  <2>1. CASE b = n + 1 \/ b = n + 2
    BY <1>1, <1>4, <1>6, <2>1
  <2>2. CASE ~(b = n + 1 \/ b = n + 2)
    <3>1. b \in Leaves' <=> b \in 1 .. n /\ boxes'[b].children = <<>>
      BY <1>4, <1>6, <2>2
    <3>2. CASE b = t
      BY <1>3, <2>2, <3>1, <3>2
    <3>3. CASE b # t
      <4>1. b \in 1 .. n => boxes'[b] = boxes[b]
        BY <1>1, <3>3
      <4> QED
        BY <1>5, <2>2, <3>1, <3>3, <4>1
    <3> QED
      BY <3>2, <3>3
  <2> QED
    BY <2>1, <2>2
<1>9. Leaves' = (Leaves \ {t}) \cup {n + 1, n + 2}
  BY <1>8
<1> QED
  BY <1>2, <1>5, <1>7, <1>9

LEMMA CutKeepsLeaves ==
    ASSUME CutInv, NEW t, NEW n, NEW high, NEW rest, CutMakes(t, n, high, rest),
           cuts' = cuts + 1
    PROVE  LeavesOK'
<1>1. LeavesOK /\ CutTyped
  BY DEF CutInv
<1>2. /\ n \in Nat /\ t \in 1 .. n
      /\ Histo' = Histo
      /\ \A b \in 1 .. n : boxes'[b].entries = boxes[b].entries
      /\ boxes'[n + 1].entries = high /\ boxes'[n + 2].entries = rest
  BY CutParts
<1>3. high \cap rest = {} /\ high \cup rest = boxes[t].entries
  BY DEF CutMakes
<1>4. /\ Leaves' = (Leaves \ {t}) \cup {n + 1, n + 2}
      /\ t \in Leaves /\ n + 1 \notin Leaves /\ n + 2 \notin Leaves /\ n + 1 # n + 2
      /\ \A b \in Leaves : b \in 1 .. n
  BY CutChangesLeaves
<1>5. /\ \A e \in Histo : \E b \in Leaves : e \in boxes[b].entries
      /\ \A b, c \in Leaves : b # c => boxes[b].entries \cap boxes[c].entries = {}
      /\ IsFiniteSet(Leaves) /\ Cardinality(Leaves) = cuts + 1
  BY <1>1 DEF LeavesOK
<1> DEFINE L == Leaves'
           In(b) == boxes'[b].entries
<1>6. \A b \in L : (b \in Leaves /\ b # t /\ In(b) = boxes[b].entries)
                   \/ (b = n + 1 /\ In(b) = high) \/ (b = n + 2 /\ In(b) = rest)
  BY <1>2, <1>4
<1>7. \A e \in Histo : \E b \in L : e \in In(b)
  <2> TAKE e \in Histo
  <2>1. PICK b \in Leaves : e \in boxes[b].entries
    BY <1>5
  <2>2. CASE b # t
    <3>1. b \in L /\ In(b) = boxes[b].entries
      BY <1>2, <1>4, <2>2
    <3> QED
      BY <2>1, <3>1
  <2>3. CASE b = t
    <3>1. n + 1 \in L /\ n + 2 \in L /\ (e \in high \/ e \in rest)
      BY <1>3, <1>4, <2>1, <2>3
    <3> QED
      BY <1>2, <3>1
  <2> QED
    BY <2>2, <2>3
<1>8. \A b \in Leaves : b # t => boxes[b].entries \cap high = {} /\ boxes[b].entries \cap rest = {}
  BY <1>3, <1>4, <1>5
<1>9. \A b, c \in L : b # c => In(b) \cap In(c) = {}
  <2> TAKE b, c \in L
  <2> HAVE b # c
  <2>1. /\ (b \in Leaves /\ b # t /\ In(b) = boxes[b].entries)
           \/ (b = n + 1 /\ In(b) = high) \/ (b = n + 2 /\ In(b) = rest)
        /\ (c \in Leaves /\ c # t /\ In(c) = boxes[c].entries)
           \/ (c = n + 1 /\ In(c) = high) \/ (c = n + 2 /\ In(c) = rest)
    BY <1>6
  <2> HIDE DEF In, L
  <2>2. CASE b \in Leaves /\ b # t /\ In(b) = boxes[b].entries
    BY <1>5, <1>8, <2>1, <2>2
  <2>3. CASE c \in Leaves /\ c # t /\ In(c) = boxes[c].entries
    BY <1>5, <1>8, <2>1, <2>3
  <2> QED
    BY <1>3, <2>1, <2>2, <2>3
<1>10. IsFiniteSet(L) /\ Cardinality(L) = cuts' + 1
  <2> DEFINE L1 == Leaves \ {t}
             L2 == L1 \cup {n + 1}
  <2>1. cuts \in Nat /\ cuts' = cuts + 1
    BY <1>1 DEF CutTyped
  <2>2. IsFiniteSet(L1) /\ Cardinality(L1) = cuts
    <3>1. IsFiniteSet(L1) /\ Cardinality(L1) = Cardinality(Leaves) - 1
      BY <1>4, <1>5, FS_RemoveElement
    <3> QED
      BY <1>5, <2>1, <3>1
  <2>3. n + 1 \notin L1
    BY <1>4
  <2> HIDE DEF L1
  <2>4. IsFiniteSet(L2) /\ Cardinality(L2) = cuts + 1
    BY <2>2, <2>3, FS_AddElement
  <2>5. n + 2 \notin L2
    BY <1>4 DEF L1
  <2> HIDE DEF L2
  <2>6. IsFiniteSet(L2 \cup {n + 2}) /\ Cardinality(L2 \cup {n + 2}) = (cuts + 1) + 1
    BY <2>4, <2>5, FS_AddElement
  <2>7. L = L2 \cup {n + 2}
    BY <1>4 DEF L1, L2
  <2> QED
    BY <2>1, <2>6, <2>7
<1> QED
  BY <1>2, <1>7, <1>9, <1>10 DEF LeavesOK

\* The top leaves the heap, and what can be cut of its halves comes in.
LEMMA CutKeepsHeap ==
    ASSUME CutInv, CutTopBox, NEW t, NEW n, NEW high, NEW rest, CutMakes(t, n, high, rest)
    PROVE  HeapOK'
<1> DEFINE B == DOMAIN boxes
           C == DOMAIN boxes'
           w == Weight'
           h1 == HeapRemove(heap)
           h2 == HeapAdd(h1, n + 1, w)
           h3 == HeapAdd(h2, n + 2, w)
           L == Leaves'
<1>1. CutTyped /\ HistogramOK /\ TreeOK /\ HeapOK
  BY DEF CutInv
<1>2. /\ n \in Nat /\ B = 1 .. n /\ C = 1 .. n + 2
      /\ \A b \in 1 .. n : /\ boxes'[b].pixel_count = boxes[b].pixel_count
                           /\ b # t => boxes'[b] = boxes[b]
      /\ boxes'[n + 1].pixel_count = Pixels(high) /\ boxes'[n + 2].pixel_count = Pixels(rest)
  BY CutParts
<1>3. /\ t = heap[1] /\ n = Len(boxes) /\ high # {} /\ rest # {}
      /\ high \subseteq Histo /\ rest \subseteq Histo
  BY DEF CutMakes
<1>4. /\ L = (Leaves \ {t}) \cup {n + 1, n + 2}
      /\ t \in Leaves /\ n + 1 \notin Leaves /\ n + 2 \notin Leaves /\ n + 1 # n + 2
      /\ \A b \in Leaves : b \in 1 .. n
  BY CutChangesLeaves
<1>5. /\ heap \in Seq(B) /\ IsHeap(heap, Weight) /\ Distinct(heap) /\ heap # <<>>
      /\ \A k \in 1 .. Len(heap) : heap[k] \in Leaves
      /\ \A b \in Leaves : Volume(b) # 1 => \E k \in 1 .. Len(heap) : heap[k] = b
  BY <1>1 DEF HeapOK, CutTopBox
<1>6. Weight \in [B -> Nat] /\ \A b \in B : Count(b) = Weight[b]
  BY <1>1, BoxesHaveEntries
<1>7. w \in [C -> Nat] /\ \A b \in B : w[b] = Weight[b]
  <2>1. w = [b \in C |-> boxes'[b].pixel_count]
    BY DEF Weight
  <2>2. \A b \in B : boxes'[b].pixel_count = Weight[b]
    BY <1>2 DEF Weight
  <2>3. Pixels(high) \in Nat /\ Pixels(rest) \in Nat
    BY <1>1, <1>3, BoxOfHalf, EntriesHavePixels
  <2>4. \A b \in C : b \in B \/ b = n + 1 \/ b = n + 2
    BY <1>2
  <2>5. \A b \in C : boxes'[b].pixel_count \in Nat
    <3> HIDE DEF B, C
    <3> QED
      BY <1>2, <1>6, <2>2, <2>3, <2>4
  <2>6. \A b \in B : b \in C
    BY <1>2
  <2> HIDE DEF w, B, C
  <2> QED
    BY <2>1, <2>2, <2>5, <2>6
<1>8. /\ h1 \in Seq(B) /\ Len(h1) = Len(heap) - 1
      /\ IsHeap(h1, Weight) /\ Distinct(h1)
      /\ \A x : (\E k \in 1 .. Len(heap) - 1 : h1[k] = x)
                   <=> (x # heap[1] /\ \E k \in 1 .. Len(heap) : heap[k] = x)
  <2> HIDE DEF B
  <2> DEFINE old == Weight
  <2>1. old \in [B -> Nat] /\ \A b \in B : Count(b) = old[b]
    BY <1>6
  <2>2. heap \in Seq(B) /\ heap # <<>> /\ IsHeap(heap, old) /\ Distinct(heap)
    BY <1>5
  <2> HIDE DEF old
  <2>3. /\ HeapRemove(heap) \in Seq(B) /\ Len(HeapRemove(heap)) = Len(heap) - 1
        /\ IsHeap(HeapRemove(heap), old) /\ Distinct(HeapRemove(heap))
        /\ \A x : (\E k \in 1 .. Len(heap) - 1 : HeapRemove(heap)[k] = x)
                     <=> (x # heap[1] /\ \E k \in 1 .. Len(heap) : heap[k] = x)
    BY <2>1, <2>2, HeapRemoveKeeps
  <2> QED
    BY <2>3 DEF old
<1>9. heap' = h3
  <2>1. heap' = LET weight == [b \in DOMAIN boxes' |-> boxes'[b].pixel_count]
                IN  HeapAdd(HeapAdd(HeapRemove(heap), n + 1, weight), n + 1 + 1, weight)
    BY <1>3 DEF CutTopBox
  <2>2. w = [b \in DOMAIN boxes' |-> boxes'[b].pixel_count]
    BY DEF Weight
  <2>3. n + 1 + 1 = n + 2
    BY <1>2
  <2> HIDE DEF w
  <2> QED
    BY <2>1, <2>2, <2>3
<1> HIDE DEF w, h1
<1>10. B \subseteq C /\ n + 1 \in C /\ n + 2 \in C /\ n + 1 \notin B /\ n + 2 \notin B
  BY <1>2
<1> HIDE DEF B, C
<1>11. h1 \in Seq(C) /\ IsHeap(h1, w) /\ \A k \in 1 .. Len(h1) : h1[k] \in B
  <2>1. \A k \in 1 .. Len(h1) : h1[k] \in B
    BY <1>8
  <2>2. h1 \in Seq(C)
    <3>1. h1 \in [1 .. Len(h1) -> C] /\ Len(h1) \in Nat
      BY <1>8, <1>10, <2>1
    <3> QED
      BY <3>1, FunctionsAreSequences
  <2>3. IsHeap(h1, w)
    <3>1. ASSUME NEW j \in 2 .. Len(h1)
          PROVE  w[h1[j]] <= w[h1[j \div 2]]
      <4>1. j \in 1 .. Len(h1) /\ j \div 2 \in 1 .. Len(h1)
        BY <1>8, Halves
      <4>2. Weight[h1[j]] <= Weight[h1[j \div 2]]
        BY <1>8 DEF IsHeap
      <4> QED
        BY <1>7, <2>1, <4>1, <4>2
    <3> QED
      BY <3>1 DEF IsHeap
  <2> QED
    BY <2>1, <2>2, <2>3
<1>12. /\ h2 \in Seq(C) /\ Len(h2) = Len(h1) + 1 /\ IsHeap(h2, w) /\ Distinct(h2)
       /\ \A x : (\E k \in 1 .. Len(h2) : h2[k] = x)
                    <=> (x = n + 1 \/ \E k \in 1 .. Len(h1) : h1[k] = x)
  <2> DEFINE new == n + 1
  <2>1. new \in C /\ \A k \in 1 .. Len(h1) : h1[k] # new
    BY <1>10, <1>11
  <2> HIDE DEF new
  <2>2. IsAdded(HeapAdd(h1, new, w), h1, new, w, C)
    BY <1>7, <1>8, <1>11, <2>1, HeapAddKeeps
  <2> QED
    BY <2>2 DEF IsAdded, new
<1> HIDE DEF h2
<1>13. \A k \in 1 .. Len(h2) : h2[k] # n + 2
  <2> TAKE k \in 1 .. Len(h2)
  <2> DEFINE x == h2[k]
  <2>1. x = n + 1 \/ \E m \in 1 .. Len(h1) : h1[m] = x
    BY <1>12
  <2>2. x = n + 1 \/ x \in B
    BY <1>11, <2>1
  <2> HIDE DEF x
  <2>3. x # n + 2
    BY <1>4, <1>10, <2>2
  <2> QED
    BY <2>3 DEF x
<1>14. /\ h3 \in Seq(C) /\ Len(h3) = Len(h2) + 1 /\ IsHeap(h3, w) /\ Distinct(h3)
       /\ \A x : (\E k \in 1 .. Len(h3) : h3[k] = x)
                    <=> (x = n + 2 \/ \E k \in 1 .. Len(h2) : h2[k] = x)
  <2> DEFINE new == n + 2
  <2>1. new \in C /\ \A k \in 1 .. Len(h2) : h2[k] # new
    BY <1>10, <1>13
  <2> HIDE DEF new
  <2>2. IsAdded(HeapAdd(h2, new, w), h2, new, w, C)
    BY <1>7, <1>12, <2>1, HeapAddKeeps
  <2> QED
    BY <2>2 DEF IsAdded, new
<1> HIDE DEF h3
\* What is in the heap now.
<1>15. \A x : (\E k \in 1 .. Len(h3) : h3[k] = x)
                 <=> (\/ x = n + 1 \/ x = n + 2
                      \/ (x # t /\ \E k \in 1 .. Len(heap) : heap[k] = x))
  <2>1. Len(h1) + 1 = Len(h2) /\ Len(h2) + 1 = Len(h3) /\ Len(heap) - 1 = Len(h1)
    BY <1>8, <1>12, <1>14
  <2> QED
    BY <1>3, <1>8, <1>12, <1>14, <2>1
<1>16. \A k \in 1 .. Len(h3) : h3[k] \in L
  <2> TAKE k \in 1 .. Len(h3)
  <2> DEFINE x == h3[k]
  <2>1. \E m \in 1 .. Len(h3) : h3[m] = x
    OBVIOUS
  <2> HIDE DEF x
  <2>2. x = n + 1 \/ x = n + 2 \/ (x # t /\ \E m \in 1 .. Len(heap) : heap[m] = x)
    BY <1>15, <2>1
  <2>3. x \in L
    BY <1>4, <1>5, <2>2
  <2> QED
    BY <2>3 DEF x
<1>17. ASSUME NEW b \in L, Volume(b)' # 1
       PROVE  \E k \in 1 .. Len(h3) : h3[k] = b
  <2>1. CASE b = n + 1 \/ b = n + 2
    BY <1>15, <2>1
  <2>2. CASE ~(b = n + 1 \/ b = n + 2)
    <3>1. b \in Leaves /\ b # t
      BY <1>4, <2>2
    <3>2. boxes'[b] = boxes[b]
      BY <1>2, <1>4, <3>1
    <3>3. Volume(b)' = Volume(b)
      BY <3>2 DEF Volume
    <3>4. \E k \in 1 .. Len(heap) : heap[k] = b
      BY <1>5, <1>17, <3>1, <3>3
    <3> QED
      BY <1>15, <3>1, <3>4
  <2> QED
    BY <2>1, <2>2
<1> QED
  BY <1>9, <1>14, <1>16, <1>17 DEF HeapOK, C, w, L

LEMMA CutKeeps == CutInv /\ CutTopBox => CutInv'
<1> SUFFICES ASSUME CutInv, CutTopBox PROVE CutInv'
  OBVIOUS
<1>1. PICK t, n, high, rest : CutMakes(t, n, high, rest)
  BY TopIsCut
<1>2. /\ pixels' = pixels /\ colors' = colors /\ cuts' = cuts + 1 /\ cuts < colors - 1
  BY DEF CutTopBox
<1>3. CutTyped /\ HistogramOK
  BY DEF CutInv
<1>4. Histo' = Histo /\ n \in Nat
  BY <1>1, CutParts
<1>5. CutTyped'
  <2>1. boxes' \in Seq(BoxRecords) /\ Len(boxes') = n + 2
    BY <1>1 DEF CutMakes
  <2>2. boxes' \in Seq(BoxRecords')
    BY <1>4, <2>1 DEF BoxRecords
  <2>3. cuts' \in Nat /\ cuts' < colors' /\ colors' \in Nat /\ pixels' \in Samples
    BY <1>2, <1>3 DEF CutTyped
  <2> QED
    BY <1>4, <2>1, <2>2, <2>3 DEF CutTyped
<1>6. HistogramOK'
  BY <1>2, <1>3, <1>4 DEF HistogramOK
<1>7. TreeOK'
  BY <1>1, CutKeepsTree
<1>8. LeavesOK'
  BY <1>1, <1>2, CutKeepsLeaves
<1>9. HeapOK'
  BY <1>1, CutKeepsHeap
<1> QED
  BY <1>5, <1>6, <1>7, <1>8, <1>9 DEF CutInv

LEMMA RestKeepsCut ==
    CutInv /\ UNCHANGED <<pixels, colors, boxes, heap, cuts>> => CutInv'
<1> SUFFICES ASSUME CutInv, UNCHANGED <<pixels, colors, boxes, heap, cuts>> PROVE CutInv'
  OBVIOUS
<1>1. CutTyped /\ HistogramOK /\ TreeOK /\ LeavesOK /\ HeapOK
  BY DEF CutInv
<1>2. Histo' = Histo /\ Leaves' = Leaves /\ Weight' = Weight
  BY DEF Histo, Leaves, IsLeaf, Weight
<1>3. CutTyped' /\ HistogramOK' /\ TreeOK'
  BY <1>1, <1>2 DEF CutTyped, BoxRecords, HistogramOK, TreeOK, IsLeaf
<1>4. LeavesOK'
  BY <1>1, <1>2 DEF LeavesOK
<1>5. HeapOK'
  <2>1. \A b \in Leaves : Volume(b)' = Volume(b)
    BY DEF Volume
  <2> QED
    BY <1>1, <1>2, <2>1 DEF HeapOK
<1> QED
  BY <1>3, <1>4, <1>5 DEF CutInv

LEMMA CutInvNext == CutInv /\ [CutNext]_cutvars => CutInv'
<1> SUFFICES ASSUME CutInv, [CutNext]_cutvars PROVE CutInv'
  OBVIOUS
<1>1. CASE DropUnitBox
  BY <1>1, DropKeeps
<1>2. CASE CutTopBox
  BY <1>2, CutKeeps
<1>3. CASE MakePalette
  BY <1>3, RestKeepsCut DEF MakePalette
<1>4. CASE MapPixels
  BY <1>4, RestKeepsCut DEF MapPixels
<1>5. CASE UNCHANGED cutvars
  BY <1>5, RestKeepsCut DEF cutvars
<1> QED
  BY <1>1, <1>2, <1>3, <1>4, <1>5 DEF CutNext

\* However a sample is cut, the leaves share its histogram out and none is empty, the
\* boxes have the pixels of their entries, the heap has every leaf that can still be
\* cut, largest first, and there are never more leaves than colours were asked for:
\* Heap, split and the loop of quantize in color/quantize.rs, for every sample and hash.
THEOREM CutsAreSound == CutSpec => []CutIsSound
<1>1. CutInit => CutInv
  BY CutInitInv
<1>2. CutInv /\ [CutNext]_cutvars => CutInv'
  BY CutInvNext
<1>3. CutInv => CutIsSound
  BY CutInvIsSound
<1> QED
  BY <1>1, <1>2, <1>3, PTL DEF CutSpec

-----------------------------------------------------------------------------
\* The nearest entry.

LEMMA SquareOfDifference ==
    ASSUME NEW x \in Int, NEW y \in Int, NEW z \in Int
    PROVE  /\ (x - y) * (x - y) \in Nat
           /\ (x - y) * (x - y) <= 2 * ((x - z) * (x - z)) + 2 * ((y - z) * (y - z))
<1> DEFINE u == x - z
           v == y - z
<1>1. u \in Int /\ v \in Int /\ x - y = u - v
  OBVIOUS
<1> HIDE DEF u, v
<1>2. (u + v) * (u + v) >= 0 /\ (u - v) * (u - v) >= 0
  BY <1>1, SMT
<1>3. (u - v) * (u - v) + (u + v) * (u + v) = 2 * (u * u) + 2 * (v * v)
  BY <1>1, SMT
<1>4. (u - v) * (u - v) \in Int /\ (u + v) * (u + v) \in Int /\ u * u \in Int /\ v * v \in Int
  BY <1>1
<1>5. (u - v) * (u - v) \in Nat /\ (u - v) * (u - v) <= 2 * (u * u) + 2 * (v * v)
  <2> DEFINE p == (u - v) * (u - v)
             q == (u + v) * (u + v)
             s == u * u
             t == v * v
  <2>1. /\ p \in Int /\ q \in Int /\ s \in Int /\ t \in Int
        /\ q >= 0 /\ p >= 0 /\ p + q = 2 * s + 2 * t
    BY <1>2, <1>3, <1>4
  <2> HIDE DEF p, q, s, t
  <2>2. p \in Nat /\ p <= 2 * s + 2 * t
    BY <2>1
  <2> QED
    BY <2>2 DEF p, s, t
<1> QED
  BY <1>1, <1>5 DEF u, v

\* Half a triangle inequality, which is what the search breaks off by.
LEMMA DistancesOf ==
    ASSUME NEW a \in [Axes -> Int], NEW b \in [Axes -> Int], NEW c \in [Axes -> Int]
    PROVE  /\ DistSq(a, b) \in Nat
           /\ DistSq(a, b) <= 2 * DistSq(a, c) + 2 * DistSq(b, c)
<1> DEFINE S(x, y, i) == (x[i] - y[i]) * (x[i] - y[i])
<1>1. \A i \in {1, 2, 3} : a[i] \in Int /\ b[i] \in Int /\ c[i] \in Int
  BY DEF Axes
<1>2. \A i \in {1, 2, 3} : /\ S(a, b, i) \in Nat /\ S(a, c, i) \in Nat /\ S(b, c, i) \in Nat
                           /\ S(a, b, i) <= 2 * S(a, c, i) + 2 * S(b, c, i)
  <2> TAKE i \in {1, 2, 3}
  <2> DEFINE x == a[i]
             y == b[i]
             z == c[i]
  <2>1. x \in Int /\ y \in Int /\ z \in Int
    BY <1>1
  <2> HIDE DEF x, y, z
  <2>2. /\ (x - y) * (x - y) \in Nat
        /\ (x - y) * (x - y) <= 2 * ((x - z) * (x - z)) + 2 * ((y - z) * (y - z))
    BY <2>1, SquareOfDifference
  <2>3. (x - z) * (x - z) \in Nat
    BY <2>1, SquareOfDifference
  <2>4. (y - z) * (y - z) \in Nat
    BY <2>1, SquareOfDifference
  <2> QED
    BY <2>2, <2>3, <2>4 DEF x, y, z
<1>3. /\ DistSq(a, b) = S(a, b, 1) + S(a, b, 2) + S(a, b, 3)
      /\ DistSq(a, c) = S(a, c, 1) + S(a, c, 2) + S(a, c, 3)
      /\ DistSq(b, c) = S(b, c, 1) + S(b, c, 2) + S(b, c, 3)
  BY DEF DistSq
<1> HIDE DEF S
<1>4. /\ S(a, b, 1) \in Nat /\ S(a, b, 2) \in Nat /\ S(a, b, 3) \in Nat
      /\ S(a, c, 1) \in Nat /\ S(a, c, 2) \in Nat /\ S(a, c, 3) \in Nat
      /\ S(b, c, 1) \in Nat /\ S(b, c, 2) \in Nat /\ S(b, c, 3) \in Nat
      /\ S(a, b, 1) <= 2 * S(a, c, 1) + 2 * S(b, c, 1)
      /\ S(a, b, 2) <= 2 * S(a, c, 2) + 2 * S(b, c, 2)
      /\ S(a, b, 3) <= 2 * S(a, c, 3) + 2 * S(b, c, 3)
  BY <1>2
<1> QED
  BY <1>3, <1>4

LEMMA LeastIsMin ==
    ASSUME NEW T, T \subseteq Nat, T # {}
    PROVE  Min(T) \in T /\ \A y \in T : Min(T) <= y
<1>1. \E x \in T : \A y \in T : x <= y
  BY LeastOf
<1> QED
  BY <1>1 DEF Min

\* Nearest finds an entry as near as any.
LEMMA NearestIsNear ==
    ASSUME NEW n \in Nat, palette \in [1 .. n -> [Axes -> Int]],
           NEW c \in [Axes -> Int], OwnEntry(c) \in 1 .. n
    PROVE  \A i \in 1 .. n : DistSq(palette[Nearest(c)], c) <= DistSq(palette[i], c)
<1> DEFINE own == OwnEntry(c)
           D == 1 .. n
           dist == [i \in D |-> DistSq(palette[i], c)]
           far == [i \in D |-> DistSq(palette[own], palette[i])]
           seen == SearchFrom(own, c) \cup {own}
           T == {dist[i] : i \in seen}
           least == Min(T)
           best == {i \in seen : dist[i] = least}
           First(i) == \A j \in best : far[i] < far[j] \/ (far[i] = far[j] /\ i <= j)
           pick == CHOOSE i \in best : First(i)
           found == IF own \in best THEN own ELSE pick
<1>1. DOMAIN palette = D /\ \A i \in D : palette[i] \in [Axes -> Int]
  OBVIOUS
<1>2. own \in D /\ seen \subseteq D /\ own \in seen
  BY <1>1 DEF SearchFrom
<1>3. \A i \in D : dist[i] = DistSq(palette[i], c) /\ far[i] = DistSq(palette[own], palette[i])
  OBVIOUS
<1>4. \A i \in D : dist[i] \in Nat /\ far[i] \in Nat
  <2> HIDE DEF own, D, dist, far
  <2> QED
    BY <1>1, <1>2, <1>3, DistancesOf
<1>5. Nearest(c) = found
  <2> DEFINE T2 == {DistSq(palette[i], c) : i \in seen}
             best2 == {i \in seen : DistSq(palette[i], c) = Min(T2)}
             Far(i) == DistSq(palette[own], palette[i])
             First2(i) == \A j \in best2 : Far(i) < Far(j) \/ (Far(i) = Far(j) /\ i <= j)
             pick2 == CHOOSE i \in best2 : First2(i)
  <2>1. Nearest(c) = IF own \in best2 THEN own ELSE pick2
    BY Zenon DEF Nearest
  <2>2. T2 = T
    <3> HIDE DEF seen, D
    <3> QED
      BY <1>2, <1>3
  <2>3. best2 = best
    <3> HIDE DEF seen, D, T, T2
    <3> QED
      BY <1>2, <1>3, <2>2
  <2>4. \A i \in best : First2(i) <=> First(i)
    <3>1. best \subseteq D
      BY <1>2
    <3> HIDE DEF best, best2, D, own, dist, far
    <3> QED
      BY <1>3, <2>3, <3>1
  <2>5. pick2 = pick
    <3> HIDE DEF best, best2, First2, First
    <3> QED
      BY <2>3, <2>4
  <2> HIDE DEF pick2, pick, best2, best, own
  <2> QED
    BY <2>1, <2>3, <2>5
<1> HIDE DEF own, seen, dist, far, D
<1>6. least \in T /\ \A y \in T : least <= y
  <2>1. T \subseteq Nat /\ T # {}
    BY <1>2, <1>4
  <2> HIDE DEF T
  <2> QED
    BY <2>1, LeastIsMin
<1>7. best # {} /\ best \subseteq D
  BY <1>2, <1>6
<1>8. \A i \in seen : least <= dist[i]
  BY <1>6
<1> HIDE DEF least, T
<1>9. \E i \in best : First(i)
  <2> HIDE DEF best
  <2> DEFINE fars == {far[i] : i \in best}
             f == Min(fars)
             nearest == {i \in best : far[i] = f}
             k == Min(nearest)
  <2>1. f \in fars /\ \A y \in fars : f <= y
    <3>1. fars \subseteq Nat /\ fars # {}
      BY <1>4, <1>7
    <3> HIDE DEF fars
    <3> QED
      BY <3>1, LeastIsMin
  <2>2. \A i \in best : f <= far[i] /\ far[i] \in Nat
    BY <1>4, <1>7, <2>1
  <2>3. nearest # {} /\ f \in Nat
    BY <2>1, <2>2
  <2>4. nearest \subseteq Nat
    BY <1>7 DEF D
  <2> HIDE DEF f, fars
  <2>5. k \in nearest /\ \A y \in nearest : k <= y
    <3> HIDE DEF nearest
    <3> QED
      BY <2>3, <2>4, LeastIsMin
  <2>6. k \in best /\ far[k] = f
    BY <2>5
  <2>7. ASSUME NEW j \in best
        PROVE  far[k] < far[j] \/ (far[k] = far[j] /\ k <= j)
    <3>1. CASE far[j] = f
      BY <2>5, <2>6, <3>1
    <3>2. CASE far[j] # f
      <4>1. f < far[j]
        BY <2>2, <2>3, <3>2
      <4> HIDE DEF k
      <4> QED
        BY <2>6, <4>1
    <3> QED
      BY <3>1, <3>2
  <2> HIDE DEF k
  <2> QED
    BY <2>6, <2>7
<1>10. found \in best
  <2> HIDE DEF best, First
  <2> QED
    BY <1>9
<1>11. found \in D /\ dist[found] = least
  <2> HIDE DEF found
  <2> QED
    BY <1>7, <1>10
\* An entry that is not looked at is further away than the own one.
<1>12. ASSUME NEW i \in D, i \notin seen PROVE dist[own] <= dist[i]
  <2>1. ~(DistSq(palette[own], palette[i]) <= 4 * DistSq(palette[own], c))
    BY <1>1, <1>12 DEF SearchFrom, seen
  <2> DEFINE x == DistSq(palette[own], palette[i])
             y == DistSq(palette[own], c)
             z == DistSq(palette[i], c)
  <2>2. x \in Nat /\ x <= 2 * y + 2 * z
    BY <1>1, <1>2, DistancesOf
  <2>3. y \in Nat /\ z \in Nat
    BY <1>1, <1>2, DistancesOf
  <2>4. dist[own] = y /\ dist[i] = z
    BY <1>2, <1>3
  <2> HIDE DEF x, y, z
  <2>5. ~(x <= 4 * y)
    BY <2>1 DEF x, y
  <2>6. y <= z
    BY <2>2, <2>3, <2>5
  <2> QED
    BY <2>4, <2>6
<1>13. ASSUME NEW i \in D PROVE dist[found] <= dist[i]
  <2> DEFINE m == dist[found]
  <2>1. m = least /\ m \in Nat /\ dist[own] \in Nat /\ dist[i] \in Nat
    BY <1>2, <1>4, <1>11
  <2> HIDE DEF m, found
  <2>2. CASE i \in seen
    BY <1>8, <2>1, <2>2 DEF m
  <2>3. CASE i \notin seen
    <3>1. dist[own] <= dist[i] /\ m <= dist[own]
      BY <1>2, <1>8, <1>12, <2>1, <2>3
    <3>2. m <= dist[i]
      BY <2>1, <3>1
    <3> QED
      BY <3>2 DEF m
  <2> QED
    BY <2>2, <2>3
<1> HIDE DEF found
<1> QED
  BY <1>3, <1>5, <1>11, <1>13 DEF D

\* The leaves numbered are boxes, and hold every entry.
NumberedOK ==
    /\ Numbered \in Seq(1 .. Len(boxes))
    /\ \A e \in Histo : \E i \in 1 .. Len(Numbered) : e \in boxes[Numbered[i]].entries

\* s has all that p has.
HasAll(s, p) == \A i \in 1 .. Len(p) : \E k \in 1 .. Len(s) : s[k] = p[i]

LEMMA JoinedHave ==
    ASSUME NEW R, NEW p \in Seq(R), NEW q \in Seq(R)
    PROVE  p \o q \in Seq(R) /\ HasAll(p \o q, p) /\ HasAll(p \o q, q)
<1>1. p \o q \in Seq(R) /\ Len(p \o q) = Len(p) + Len(q) /\ Len(p) \in Nat /\ Len(q) \in Nat
  OBVIOUS
<1>2. \A i \in 1 .. Len(p) : i \in 1 .. Len(p \o q) /\ (p \o q)[i] = p[i]
  OBVIOUS
<1>3. \A i \in 1 .. Len(q) : (p \o q)[Len(p) + i] = q[i]
  BY AfterTheFirst
<1>4. \A i \in 1 .. Len(q) : Len(p) + i \in 1 .. Len(p \o q)
  BY <1>1
<1> QED
  BY <1>1, <1>2, <1>3, <1>4 DEF HasAll

\* The numbering reaches every leaf: down the tree, from a child to its parent.
LEMMA NumberedHasAll == CutInv => NumberedOK
<1> SUFFICES ASSUME CutInv PROVE NumberedOK
  OBVIOUS
<1> DEFINE n == Len(boxes)
           D == 1 .. n
           V == Seq(D)
           kids(b) == boxes[b].children
           Body(b, g) == IF ~IsLeaf(b) THEN g[kids(b)[1]] \o g[kids(b)[2]]
                         ELSE IF boxes[b].entries = {} THEN <<>> ELSE <<b>>
           Step(g) == [b \in D |-> Body(b, g)]
           U == CHOOSE g : g = Step(g)
           r == [b \in D |-> n - b]
           F == [x \in D \X [D -> V] |-> Body(x[1], x[2])]
<1>1. CutTyped /\ TreeOK
  BY DEF CutInv
<1>2. n \in Nat /\ n >= 1 /\ \A b \in D : b \in Nat /\ b >= 1 /\ b <= n
  BY <1>1 DEF CutTyped
<1>3. Numbered = U[1]
  BY DEF Numbered
<1>4. \A b \in D : ~IsLeaf(b) =>
         \E l \in D : /\ l > b /\ l + 1 \in D /\ kids(b)[1] = l /\ kids(b)[2] = l + 1
                      /\ boxes[b].entries = boxes[l].entries \cup boxes[l + 1].entries
  <2> TAKE b \in D
  <2> HAVE ~IsLeaf(b)
  <2>1. PICK l \in b + 1 .. n - 1 :
              /\ boxes[b].children = <<l, l + 1>>
              /\ boxes[b].entries = boxes[l].entries \cup boxes[l + 1].entries
    BY <1>1 DEF TreeOK
  <2>2. l \in D /\ l > b /\ l + 1 \in D
    <3> HIDE DEF n
    <3> QED
      BY <1>2
  <2> QED
    BY <2>1, <2>2
<1>5. \A b \in D : boxes[b].entries # {}
  BY <1>1 DEF TreeOK
<1>6. \A b \in D : ~IsLeaf(b) => /\ kids(b)[1] \in D /\ kids(b)[2] \in D
                                 /\ r[kids(b)[1]] < r[b] /\ r[kids(b)[2]] < r[b]
  <2> TAKE b \in D
  <2> HAVE ~IsLeaf(b)
  <2>1. PICK l \in D : l > b /\ l + 1 \in D /\ kids(b)[1] = l /\ kids(b)[2] = l + 1
    BY <1>4
  <2>2. r[l] = n - l /\ r[l + 1] = n - (l + 1) /\ r[b] = n - b
    BY <2>1
  <2> HIDE DEF r, n, kids, D
  <2>3. n - l < n - b /\ n - (l + 1) < n - b
    BY <1>2, <2>1
  <2> QED
    BY <2>1, <2>2, <2>3
<1>7. \A b \in D, g \in [D -> V] : Body(b, g) \in V
  <2> TAKE b \in D, g \in [D -> V]
  <2>1. CASE ~IsLeaf(b)
    <3> DEFINE p == g[kids(b)[1]]
               q == g[kids(b)[2]]
    <3>1. p \in V /\ q \in V /\ Body(b, g) = p \o q
      BY <1>6, <2>1
    <3> HIDE DEF p, q, D
    <3>2. p \o q \in Seq(D)
      BY <3>1, SMTT(30)
    <3> QED
      BY <3>1, <3>2
  <2>2. CASE IsLeaf(b)
    <3>1. Body(b, g) = <<b>>
      BY <1>5, <2>2
    <3> HIDE DEF Body, D
    <3> QED
      BY <3>1
  <2> QED
    BY <2>1, <2>2
<1>8. F \in [D \X [D -> V] -> V]
  <2> HIDE DEF Body, D, V
  <2> QED
    BY <1>7
<1>9. LooksDown(F, D, V, r)
  <2> SUFFICES ASSUME NEW b \in D, NEW f \in [D -> V], NEW g \in [D -> V],
                      \A e \in D : r[e] < r[b] => f[e] = g[e]
               PROVE  F[<<b, f>>] = F[<<b, g>>]
    BY DEF LooksDown
  <2>1. F[<<b, f>>] = Body(b, f) /\ F[<<b, g>>] = Body(b, g)
    <3> HIDE DEF Body
    <3> QED
      OBVIOUS
  <2>2. ~IsLeaf(b) => f[kids(b)[1]] = g[kids(b)[1]] /\ f[kids(b)[2]] = g[kids(b)[2]]
    <3> HIDE DEF r, D, kids
    <3> QED
      BY <1>6
  <2> HIDE DEF F, D, n, r, kids
  <2>3. Body(b, f) = Body(b, g)
    BY <2>2
  <2> QED
    BY <2>1, <2>3
<1>10. r \in [D -> 0 .. n] /\ r \in [D -> Nat]
  <2>1. \A b \in D : n - b \in 0 .. n /\ n - b \in Nat
    <3> HIDE DEF n, D
    <3> QED
      BY <1>2
  <2> HIDE DEF n, D
  <2> QED
    BY <2>1
<1>11. PICK g \in [D -> V] : IsSolution(g, F, D)
  <2>1. <<>> \in V
    OBVIOUS
  <2> HIDE DEF F, D, V, r, n
  <2> QED
    BY <1>2, <1>8, <1>9, <1>10, <2>1, RecursionHasSolution
<1>12. g = Step(g)
  <2>1. \A b \in D : F[<<b, g>>] = Body(b, g)
    <3> HIDE DEF Body
    <3> QED
      OBVIOUS
  <2> HIDE DEF F, D, Body
  <2> QED
    BY <1>11, <2>1 DEF IsSolution
<1>13. U = Step(U)
  <2> HIDE DEF Step
  <2> QED
    BY <1>12
<1>14. \A b \in D : U[b] = Body(b, U)
  <2> HIDE DEF Body, D, U
  <2> QED
    BY <1>13
<1> DEFINE T == {b \in D : /\ U[b] \in V
                           /\ \A e \in boxes[b].entries :
                                 \E i \in 1 .. Len(U[b]) : e \in boxes[U[b][i]].entries}
<1>15. ASSUME NEW b \in D, \A e \in D : r[e] < r[b] => e \in T
       PROVE  b \in T
  <2> DEFINE u == U[b]
  <2> SUFFICES u \in V /\ \A e \in boxes[b].entries :
                             \E i \in 1 .. Len(u) : e \in boxes[u[i]].entries
    OBVIOUS
  <2>1. CASE IsLeaf(b)
    <3>1. u = <<b>>
      BY <1>5, <1>14, <2>1
    <3> HIDE DEF u, D
    <3>2. u \in Seq(D) /\ 1 \in 1 .. Len(u) /\ u[1] = b
      BY <3>1
    <3> QED
      BY <3>2
  <2>2. CASE ~IsLeaf(b)
    <3>1. PICK l \in D : /\ l > b /\ l + 1 \in D /\ kids(b)[1] = l /\ kids(b)[2] = l + 1
                         /\ boxes[b].entries = boxes[l].entries \cup boxes[l + 1].entries
      BY <1>4, <2>2
    <3> DEFINE p == U[l]
               q == U[l + 1]
    <3>2. u = p \o q
      BY <1>14, <2>2, <3>1
    <3>3. l \in T /\ l + 1 \in T
      <4> HIDE DEF T, D, r, kids
      <4> QED
        BY <1>6, <1>15, <2>2, <3>1
    <3>4. /\ p \in V /\ q \in V
          /\ \A e \in boxes[l].entries : \E i \in 1 .. Len(p) : e \in boxes[p[i]].entries
          /\ \A e \in boxes[l + 1].entries : \E i \in 1 .. Len(q) : e \in boxes[q[i]].entries
      BY <3>3
    <3> HIDE DEF p, q, u, U, T, kids, D
    <3>5. /\ u \in Seq(D)
          /\ \A i \in 1 .. Len(p) : \E k \in 1 .. Len(u) : u[k] = p[i]
          /\ \A i \in 1 .. Len(q) : \E k \in 1 .. Len(u) : u[k] = q[i]
      <4>1. p \in Seq(D) /\ q \in Seq(D)
        BY <3>4
      <4>2. p \o q \in Seq(D) /\ HasAll(p \o q, p) /\ HasAll(p \o q, q)
        BY <4>1, JoinedHave
      <4> QED
        BY <3>2, <4>2 DEF HasAll
    <3>6. ASSUME NEW e \in boxes[b].entries
          PROVE  \E i \in 1 .. Len(u) : e \in boxes[u[i]].entries
      <4>1. CASE e \in boxes[l].entries
        <5>1. PICK i \in 1 .. Len(p) : e \in boxes[p[i]].entries
          BY <3>4, <4>1
        <5>2. PICK k \in 1 .. Len(u) : u[k] = p[i]
          BY <3>5
        <5> QED
          BY <5>1, <5>2
      <4>2. CASE e \in boxes[l + 1].entries
        <5>1. PICK i \in 1 .. Len(q) : e \in boxes[q[i]].entries
          BY <3>4, <4>2
        <5>2. PICK k \in 1 .. Len(u) : u[k] = q[i]
          BY <3>5
        <5> QED
          BY <5>1, <5>2
      <4> QED
        BY <3>1, <4>1, <4>2
    <3> QED
      BY <3>5, <3>6
  <2> QED
    BY <2>1, <2>2
<1>16. D \subseteq T
  <2> HIDE DEF T, D, r
  <2> QED
    BY <1>10, <1>15, ByRank DEF Climbs
<1>17. 1 \in T
  <2>1. 1 \in D
    <3> HIDE DEF n
    <3> QED
      BY <1>2
  <2> HIDE DEF T, D
  <2> QED
    BY <1>16, <2>1
<1> HIDE DEF U
<1>18. /\ U[1] \in Seq(1 .. Len(boxes))
       /\ \A e \in boxes[1].entries : \E i \in 1 .. Len(U[1]) : e \in boxes[U[1][i]].entries
  BY <1>17
<1> QED
  BY <1>3, <1>18 DEF NumberedOK, Histo

LEMMA ChannelsAreNumbers ==
    ASSUME NEW c \in Rgb, NEW a \in Axes
    PROVE  c[a] \in Nat
<1>1. c[a] \in 0 .. 255
  BY DEF Rgb
<1> QED
  BY <1>1

\* A box that holds anything has pixels to average.
LEMMA MeansAreColours ==
    ASSUME CutInv, NEW b \in 1 .. Len(boxes)
    PROVE  Mean(b) \in [Axes -> Int]
<1> DEFINE M == Members(b)
           count == SumFunctionOnSet(pixels, M)
           S(a) == [c \in M |-> pixels[c] * c[a]]
           sum(a) == SumFunction(S(a))
<1>1. CutTyped /\ HistogramOK /\ TreeOK
  BY DEF CutInv
<1>2. /\ IsFiniteSet(DOMAIN pixels) /\ DOMAIN pixels \subseteq Rgb
      /\ \A c \in DOMAIN pixels : pixels[c] \in Nat \ {0}
  BY <1>1, SampleOfCut DEF CutTyped
<1>3. M \subseteq DOMAIN pixels
  BY DEF Members
<1>4. M # {}
  <2>1. boxes[b].entries # {} /\ boxes[b].entries \subseteq Histo
    BY <1>1, BoxesHaveEntries DEF TreeOK
  <2>2. PICK e \in boxes[b].entries : TRUE
    BY <2>1
  <2>3. e.color \in DOMAIN pixels
    BY <1>1, <2>1, <2>2 DEF HistogramOK
  <2>4. e.color \in M
    BY <2>2, <2>3 DEF Members
  <2> QED
    BY <2>4
<1>5. IsFiniteSet(M)
  BY <1>2, <1>3, FS_Subset
<1> HIDE DEF M
<1>6. count \in Nat \ {0}
  <2>1. \A c \in M : pixels[c] \in Nat /\ pixels[c] >= 1
    BY <1>2, <1>3
  <2>2. count \in Nat /\ count >= Cardinality(M)
    BY <1>5, <2>1, SumsAreNumbers
  <2>3. Cardinality(M) \in Nat \ {0}
    BY <1>4, <1>5, FS_CardinalityType, FS_EmptySet
  <2> HIDE DEF count
  <2> QED
    BY <2>2, <2>3
<1>7. \A a \in Axes : sum(a) \in Nat
  <2> TAKE a \in Axes
  <2> DEFINE f == S(a)
  <2>1. \A c \in M : f[c] \in Nat
    <3> TAKE c \in M
    <3>1. c \in [Axes -> 0 .. 255] /\ pixels[c] \in Nat
      BY <1>2, <1>3 DEF Rgb
    <3>2. c[a] \in Nat
      BY <3>1, ChannelsAreNumbers DEF Rgb
    <3>3. pixels[c] * c[a] \in Nat
      BY <3>1, <3>2, SMT
    <3> QED
      BY <3>3
  <2>2. sum(a) = SumFunctionOnSet(f, M)
    BY DEF SumFunction
  <2> HIDE DEF f
  <2>3. SumFunctionOnSet(f, M) \in Nat
    BY <1>5, <2>1, SumsAreNumbers
  <2> QED
    BY <2>2, <2>3
<1>8. Mean(b) = [a \in Axes |-> (2 * sum(a) + count) \div (2 * count)]
  BY DEF Mean, M
<1> HIDE DEF count, sum
<1>9. \A a \in Axes : (2 * sum(a) + count) \div (2 * count) \in Int
  <2> TAKE a \in Axes
  <2> DEFINE x == 2 * sum(a) + count
             y == 2 * count
  <2>1. x \in Int /\ y \in Int /\ y > 0
    BY <1>6, <1>7
  <2> HIDE DEF x, y
  <2>2. x \div y \in Int
    BY <2>1, SMT
  <2> QED
    BY <2>2 DEF x, y
<1> QED
  BY <1>8, <1>9

\* The palette is the boxes' means, and every colour's own entry is one of them.
PaletteOK ==
    palette = [i \in 1 .. Len(Numbered) |-> Mean(Numbered[i])]

\* The inductive invariant of the mapping, beside CutInv.
MapInv ==
    /\ quant \in {"cut", "map", "done"}
    /\ quant # "cut" => PaletteOK
    /\ NearestIsFound

\* The search starts from an entry of the palette.
LEMMA OwnEntryIsThere ==
    ASSUME CutInv, PaletteOK, NEW c \in DOMAIN pixels
    PROVE  /\ Len(Numbered) \in Nat
           /\ palette \in [1 .. Len(Numbered) -> [Axes -> Int]]
           /\ c \in [Axes -> Int]
           /\ OwnEntry(c) \in 1 .. Len(Numbered)
<1> DEFINE s == Numbered
           n == Len(s)
<1>1. CutTyped /\ HistogramOK
  BY DEF CutInv
<1>2. s \in Seq(1 .. Len(boxes)) /\ \A e \in Histo : \E i \in 1 .. n : e \in boxes[s[i]].entries
  BY NumberedHasAll DEF NumberedOK
<1>3. n \in Nat /\ \A i \in 1 .. n : s[i] \in 1 .. Len(boxes)
  <2> HIDE DEF s
  <2> QED
    BY <1>2
<1>4. palette = [i \in 1 .. n |-> Mean(s[i])]
  BY DEF PaletteOK
<1> HIDE DEF s, n
<1>5. \A i \in 1 .. n : Mean(s[i]) \in [Axes -> Int]
  BY <1>3, MeansAreColours
<1>6. palette \in [1 .. n -> [Axes -> Int]]
  BY <1>4, <1>5
<1>7. c \in [Axes -> Int]
  <2>1. c \in Rgb
    BY <1>1, SampleOfCut DEF CutTyped
  <2>2. c \in [Axes -> 0 .. 255] /\ \A a \in Axes : c[a] \in Int
    BY <2>1, ChannelsAreNumbers DEF Rgb
  <2> QED
    BY <2>2
<1>8. PICK e \in Histo : pixel_hash[e.color] = pixel_hash[c]
  BY <1>1 DEF HistogramOK
<1>9. PICK i \in 1 .. n : e \in boxes[s[i]].entries
  BY <1>2 DEF n
<1>10. c \in Members(s[i])
  BY <1>8, <1>9 DEF Members
<1>11. DOMAIN palette = 1 .. n
  BY <1>4
<1>12. OwnEntry(c) \in 1 .. n
  <2>1. OwnEntry(c) = CHOOSE k \in 1 .. n : c \in Members(s[k])
    BY <1>11 DEF OwnEntry, s
  <2> QED
    BY <1>10, <2>1
<1> QED
  BY <1>3, <1>6, <1>7, <1>12 DEF n, s

LEMMA MeansStay ==
    ASSUME pixels' = pixels, boxes' = boxes
    PROVE  [i \in 1 .. Len(Numbered) |-> Mean(Numbered[i])]'
              = [i \in 1 .. Len(Numbered) |-> Mean(Numbered[i])]
  BY DEF Numbered, IsLeaf, Mean, Members

LEMMA MapInvNext == CutInv /\ MapInv /\ [CutNext]_cutvars => MapInv'
<1> SUFFICES ASSUME CutInv, MapInv, [CutNext]_cutvars PROVE MapInv'
  OBVIOUS
<1>1. quant \in {"cut", "map", "done"} /\ (quant # "cut" => PaletteOK) /\ NearestIsFound
  BY DEF MapInv
<1>2. CASE quant' = "cut" /\ quant = "cut"
  BY <1>2 DEF MapInv, NearestIsFound
<1>3. CASE MakePalette
  <2>1. /\ palette' = [i \in DOMAIN Numbered |-> Mean(Numbered[i])] /\ quant' = "map"
        /\ pixels' = pixels /\ boxes' = boxes
    BY <1>3 DEF MakePalette
  <2>2. DOMAIN Numbered = 1 .. Len(Numbered)
    <3> DEFINE s == Numbered
    <3>1. s \in Seq(1 .. Len(boxes))
      BY NumberedHasAll DEF NumberedOK
    <3> HIDE DEF s
    <3>2. DOMAIN s = 1 .. Len(s)
      BY <3>1
    <3> QED
      BY <3>2 DEF s
  <2>3. palette' = [i \in 1 .. Len(Numbered) |-> Mean(Numbered[i])]
    BY <2>1, <2>2
  <2>4. [i \in 1 .. Len(Numbered) |-> Mean(Numbered[i])]'
           = [i \in 1 .. Len(Numbered) |-> Mean(Numbered[i])]
    BY <2>1, MeansStay
  <2>5. PaletteOK'
    BY <2>3, <2>4 DEF PaletteOK
  <2> QED
    BY <2>1, <2>5 DEF MapInv, NearestIsFound
<1>4. CASE MapPixels \/ UNCHANGED <<pixels, boxes, palette, index, quant>>
  <2>1. pixels' = pixels /\ boxes' = boxes /\ palette' = palette
    BY <1>4 DEF MapPixels
  <2>2. [i \in 1 .. Len(Numbered) |-> Mean(Numbered[i])]'
           = [i \in 1 .. Len(Numbered) |-> Mean(Numbered[i])]
    BY <2>1, MeansStay
  <2>3. quant # "cut" => PaletteOK'
    BY <1>1, <2>1, <2>2 DEF PaletteOK
  <2>4. CASE MapPixels
    <3>1. quant = "map" /\ quant' = "done" /\ index' = [c \in DOMAIN pixels |-> Nearest(c)]
      BY <2>4 DEF MapPixels
    <3>2. PaletteOK
      BY <1>1, <3>1
    <3>3. ASSUME NEW c \in DOMAIN pixels, NEW i \in DOMAIN palette
          PROVE  DistSq(palette[index'[c]], c) <= DistSq(palette[i], c)
      <4> DEFINE n == Len(Numbered)
      <4>1. /\ n \in Nat /\ palette \in [1 .. n -> [Axes -> Int]]
            /\ c \in [Axes -> Int] /\ OwnEntry(c) \in 1 .. n
        BY <3>2, OwnEntryIsThere
      <4> HIDE DEF n
      <4>2. \A k \in 1 .. n : DistSq(palette[Nearest(c)], c) <= DistSq(palette[k], c)
        BY <4>1, NearestIsNear
      <4>3. i \in 1 .. n
        BY <4>1
      <4>4. index'[c] = Nearest(c)
        BY <3>1
      <4> QED
        BY <4>2, <4>3, <4>4
    <3>4. NearestIsFound'
      BY <2>1, <3>3 DEF NearestIsFound
    <3> QED
      BY <2>3, <3>1, <3>4 DEF MapInv
  <2>5. CASE UNCHANGED <<pixels, boxes, palette, index, quant>>
    BY <1>1, <2>3, <2>5 DEF MapInv, NearestIsFound
  <2> QED
    BY <1>4, <2>4, <2>5
<1>5. CASE DropUnitBox
  BY <1>2, <1>5 DEF DropUnitBox
<1>6. CASE CutTopBox
  BY <1>2, <1>6 DEF CutTopBox
<1>7. CASE UNCHANGED cutvars
  BY <1>4, <1>7 DEF cutvars
<1> QED
  BY <1>3, <1>4, <1>5, <1>6, <1>7 DEF CutNext

\* Every pixel is mapped to an entry of the palette that is as near as any, although
\* the search breaks off at the first entry too far from the pixel's own: the mapping in
\* quantize of color/quantize.rs, for every sample and every hash.
THEOREM NearestIsAlwaysFound == CutSpec => []NearestIsFound
<1>1. CutInit => CutInv /\ MapInv
  <2>1. CutInit => MapInv
    BY DEF CutInit, MapInv, NearestIsFound
  <2> QED
    BY <2>1, CutInitInv
<1>2. (CutInv /\ MapInv) /\ [CutNext]_cutvars => (CutInv /\ MapInv)'
  BY CutInvNext, MapInvNext
<1>3. CutInv /\ MapInv => NearestIsFound
  BY DEF MapInv
<1> QED
  BY <1>1, <1>2, <1>3, PTL DEF CutSpec
=============================================================================
