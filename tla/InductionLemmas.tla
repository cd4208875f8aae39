--------------------------- MODULE InductionLemmas ---------------------------
(***************************************************************************)
(* Induction without operators.  The induction theorems of the library are *)
(* about any operator P(_), which the provers cannot instantiate; but its  *)
(* theorem that a set in a well-founded relation has a minimal element is  *)
(* about sets.  From it follow the least element of a set of naturals,     *)
(* induction over an interval and over the subsets of a finite set, and    *)
(* from these what SumFunction, a recursive function, computes.            *)
(***************************************************************************)
EXTENDS Integers, Functions, FiniteSetTheorems, TLAPS

\* A set of naturals that is not empty has a least element.
LEMMA LeastNatural ==
  ASSUME NEW Q \in SUBSET Nat, Q # {}
  PROVE  \E k \in Q : \A j \in Q : k <= j
<1> DEFINE R == OpToRel(<, Nat)
<1>1. IsWellFoundedOn(R, Nat)
  BY NatLessThanWellFounded
<1>2. \A x, y \in Nat : y < x => <<y, x>> \in R
  BY DEF OpToRel
<1> HIDE DEF R
<1>3. PICK k \in Q : \A j \in Q : ~(<<j, k>> \in R)
  BY <1>1, WFMin
<1>4. ASSUME NEW j \in Q PROVE k <= j
  <2>1. ~(j < k)
    BY <1>2, <1>3
  <2> QED BY <2>1
<1> QED BY <1>4

\* Induction over 0..m: a set with 0 that has the successor of each of its
\* elements up to m has all of them.
LEMMA IntervalInduction ==
  ASSUME NEW m \in Nat, NEW Q, 0 \in Q, \A n \in Q : n \in 0..(m - 1) => n + 1 \in Q
  PROVE  0..m \subseteq Q
<1> SUFFICES ASSUME (0..m) \ Q # {} PROVE FALSE
  OBVIOUS
<1>1. PICK k \in (0..m) \ Q : \A j \in (0..m) \ Q : k <= j
  <2> DEFINE rest == (0..m) \ Q
  <2>1. rest \in SUBSET Nat /\ rest # {}
    OBVIOUS
  <2> HIDE DEF rest
  <2>2. \E k \in rest : \A j \in rest : k <= j
    BY <2>1, LeastNatural
  <2> QED BY <2>2 DEF rest
<1>2. k \in 1..m /\ k - 1 \in 0..(m - 1)
  OBVIOUS
<1>3. k - 1 \in Q
  BY <1>1, <1>2
<1>4. (k - 1) + 1 = k
  BY <1>2
<1> QED BY <1>2, <1>3, <1>4

\* Induction over the subsets of a finite set.
LEMMA SubsetInduction ==
  ASSUME NEW S, IsFiniteSet(S), NEW Q, {} \in Q,
         \A T \in SUBSET S : T # {} /\ (\A x \in T : T \ {x} \in Q) => T \in Q
  PROVE  SUBSET S \subseteq Q
<1> DEFINE rest == (SUBSET S) \ Q
           R == StrictSubsetOrdering(S)
<1>1. IsWellFoundedOn(R, SUBSET S)
  BY FS_StrictSubsetOrderingWellFounded, FS_FiniteSubsetsOfFinite
<1>2. SUFFICES ASSUME rest # {} PROVE FALSE
  OBVIOUS
<1>3. \A T, U \in SUBSET S : U \subseteq T /\ U # T => <<U, T>> \in R
  BY DEF StrictSubsetOrdering
<1> HIDE DEF R
<1>4. PICK T \in rest : \A U \in rest : ~(<<U, T>> \in R)
  <2>1. rest \subseteq SUBSET S
    OBVIOUS
  <2> HIDE DEF rest
  <2> QED BY <1>1, <1>2, <2>1, WFMin
<1>5. ASSUME NEW x \in T PROVE T \ {x} \in Q
  <2>1. T \ {x} \in SUBSET S /\ T \ {x} # T
    OBVIOUS
  <2>2. <<T \ {x}, T>> \in R
    BY <1>3, <2>1
  <2> QED BY <1>4, <2>1, <2>2
<1> QED BY <1>5

-----------------------------------------------------------------------------
(* Sums                                                                    *)

\* The element SumFunction takes next.
Pick(s) == CHOOSE x \in s : TRUE

\* g adds up f over each set of the collection T.
Adds(g, f, T) ==
  g = [s \in T |-> IF s = {} THEN 0 ELSE f[Pick(s)] + g[s \ {Pick(s)}]]

\* SumFunction is defined by such a g.
LEMMA SumDef ==
  ASSUME NEW f
  PROVE  SumFunction(f) = (CHOOSE g : Adds(g, f, SUBSET DOMAIN f))[DOMAIN f]
BY DEF SumFunction, SumFunctionOnSet, FoldFunctionOnSet, MapThenFoldSet, Adds, Pick

\* There is one for the subsets of any finite set, one cardinality after another.
LEMMA SumExists ==
  ASSUME NEW S, IsFiniteSet(S), NEW f
  PROVE  \E g : Adds(g, f, SUBSET S)
<1> DEFINE Upto(n) == {s \in SUBSET S : Cardinality(s) <= n}
           m == Cardinality(S)
           Q == {n \in 0..m : \E g : Adds(g, f, Upto(n))}
<1>1. m \in Nat /\ \A s \in SUBSET S : IsFiniteSet(s) /\ Cardinality(s) \in 0..m
  BY FS_CardinalityType, FS_Subset
<1>2. 0 \in Q
  <2>1. Upto(0) = {{}}
    BY <1>1, FS_EmptySet
  <2> DEFINE g == [s \in {{}} |-> 0]
  <2>2. Adds(g, f, {{}})
    BY DEF Adds
  <2>3. 0 \in 0..m
    BY <1>1
  <2> HIDE DEF g, m, Upto
  <2> QED BY <2>1, <2>2, <2>3
<1>3. ASSUME NEW n \in Q, n \in 0..(m - 1) PROVE n + 1 \in Q
  <2>1. PICK g : Adds(g, f, Upto(n))
    OBVIOUS
  <2> DEFINE h == [s \in Upto(n + 1) |-> IF s = {} THEN 0 ELSE f[Pick(s)] + g[s \ {Pick(s)}]]
  <2>2. ASSUME NEW s \in Upto(n + 1), s # {} PROVE s \ {Pick(s)} \in Upto(n)
    <3>1. Pick(s) \in s /\ IsFiniteSet(s)
      BY <1>1, <2>2 DEF Pick
    <3>2. Cardinality(s \ {Pick(s)}) = Cardinality(s) - 1
      BY <3>1, FS_RemoveElement
    <3>3. Cardinality(s) \in Nat /\ Cardinality(s) <= n + 1 /\ n \in Nat
      BY <1>1, <2>2
    <3> QED BY <3>2, <3>3
  <2>3. ASSUME NEW s \in Upto(n) PROVE s \in Upto(n + 1) /\ h[s] = g[s]
    <3>1. s \in Upto(n + 1)
      BY <1>1
    <3>2. g[s] = IF s = {} THEN 0 ELSE f[Pick(s)] + g[s \ {Pick(s)}]
      BY <2>1 DEF Adds
    <3> QED BY <3>1, <3>2
  <2>4. Adds(h, f, Upto(n + 1))
    <3>1. \A s \in Upto(n + 1) : s # {} => h[s \ {Pick(s)}] = g[s \ {Pick(s)}]
      BY <2>2, <2>3
    <3>2. h = [s \in Upto(n + 1) |-> IF s = {} THEN 0 ELSE f[Pick(s)] + h[s \ {Pick(s)}]]
      <4> DEFINE U == Upto(n + 1)
      <4> HIDE DEF Upto, U
      <4> QED BY <3>1 DEF U
    <3> QED BY <3>2 DEF Adds
  <2>5. n + 1 \in 0..m
    BY <1>1, <1>3
  <2> HIDE DEF h, Upto
  <2> QED BY <2>4, <2>5
<1>4. m \in Q
  <2>1. \A n \in Q : n \in 0..(m - 1) => n + 1 \in Q
    BY <1>3
  <2> HIDE DEF Q, m
  <2>2. 0..m \subseteq Q
    BY <1>1, <1>2, <2>1, IntervalInduction
  <2> QED BY <1>1, <2>2
<1>5. Upto(m) = SUBSET S
  BY <1>1
<1> QED BY <1>4, <1>5

\* What the sums of f over the subsets of S are made of.
SumsOf(g, f, S) ==
  /\ SumFunction(f) = g[S] /\ g[{}] = 0
  /\ \A s \in SUBSET S : s # {} =>
       Pick(s) \in s /\ g[s] = f[Pick(s)] + g[s \ {Pick(s)}]

LEMMA SumEquations ==
  ASSUME NEW S, IsFiniteSet(S), NEW f, DOMAIN f = S
  PROVE  \E g : SumsOf(g, f, S)
<1> DEFINE g == CHOOSE h : Adds(h, f, SUBSET S)
<1>1. Adds(g, f, SUBSET S)
  BY SumExists
<1>2. SumFunction(f) = g[S]
  BY SumDef
<1> HIDE DEF g
<1>3. g[{}] = 0
  BY <1>1 DEF Adds
<1>4. ASSUME NEW s \in SUBSET S, s # {}
      PROVE  Pick(s) \in s /\ g[s] = f[Pick(s)] + g[s \ {Pick(s)}]
  <2>1. Pick(s) \in s
    BY <1>4 DEF Pick
  <2> QED BY <1>1, <1>4, <2>1 DEF Adds
<1> QED BY <1>2, <1>3, <1>4 DEF SumsOf

\* The sum of naturals is a natural.
LEMMA SumNatural ==
  ASSUME NEW S, IsFiniteSet(S), NEW f \in [S -> Nat]
  PROVE  SumFunction(f) \in Nat
<1>1. PICK g : SumsOf(g, f, S)
  <2>1. DOMAIN f = S
    OBVIOUS
  <2> QED BY <2>1, SumEquations
<1> DEFINE Q == {s \in SUBSET S : g[s] \in Nat}
<1>2. {} \in Q
  BY <1>1 DEF SumsOf
<1>3. ASSUME NEW s \in SUBSET S, s # {}, \A x \in s : s \ {x} \in Q PROVE s \in Q
  <2>1. /\ Pick(s) \in s /\ g[s] = f[Pick(s)] + g[s \ {Pick(s)}]
        /\ s \ {Pick(s)} \in Q
    BY <1>1, <1>3 DEF SumsOf
  <2>2. f[Pick(s)] \in Nat /\ g[s \ {Pick(s)}] \in Nat
    BY <2>1
  <2> QED BY <2>1, <2>2
<1>4. S \in Q
  <2> HIDE DEF Q
  <2> QED BY <1>2, <1>3, SubsetInduction
<1> QED BY <1>1, <1>4 DEF SumsOf

\* Adding to one of the numbers adds to their sum.
LEMMA SumIncrease ==
  ASSUME NEW S, IsFiniteSet(S), NEW f \in [S -> Nat], NEW e \in [S -> Nat],
         NEW a \in S, NEW w \in Nat, e[a] = f[a] + w,
         \A x \in S : x # a => e[x] = f[x]
  PROVE  SumFunction(e) = SumFunction(f) + w
<1>1. PICK g : SumsOf(g, f, S)
  <2>1. DOMAIN f = S
    OBVIOUS
  <2> QED BY <2>1, SumEquations
<1>2. DOMAIN e = S
  OBVIOUS
<1>3. PICK h : SumsOf(h, e, S)
  BY <1>2, SumEquations
<1> DEFINE Q == {s \in SUBSET S : g[s] \in Nat /\ h[s] = IF a \in s THEN g[s] + w ELSE g[s]}
<1>4. {} \in Q
  BY <1>1, <1>3 DEF SumsOf
<1>5. ASSUME NEW s \in SUBSET S, s # {}, \A x \in s : s \ {x} \in Q PROVE s \in Q
  <2> DEFINE x == Pick(s)
             t == s \ {x}
  <2>1. /\ x \in s /\ g[s] = f[x] + g[t] /\ h[s] = e[x] + h[t]
    BY <1>1, <1>3, <1>5 DEF SumsOf
  <2>2. t \in Q
    BY <1>5, <2>1
  <2>3. g[t] \in Nat /\ h[t] = IF a \in t THEN g[t] + w ELSE g[t]
    BY <2>2
  <2>4. /\ f[x] \in Nat /\ e[x] = IF x = a THEN f[x] + w ELSE f[x]
        /\ a \in s <=> a \in t \/ x = a
        /\ x = a => a \notin t
    BY <2>1
  <2> HIDE DEF x, t, Q
  <2>5. g[s] \in Nat /\ h[s] = IF a \in s THEN g[s] + w ELSE g[s]
    BY <2>1, <2>3, <2>4
  <2> QED BY <2>5 DEF Q
<1>6. S \in Q
  <2> HIDE DEF Q
  <2> QED BY <1>4, <1>5, SubsetInduction
<1> QED BY <1>1, <1>3, <1>6 DEF SumsOf

\* The sum of zeros is zero.
LEMMA SumOfZeros ==
  ASSUME NEW S, IsFiniteSet(S), NEW f, f = [x \in S |-> 0]
  PROVE  SumFunction(f) = 0
<1>1. PICK g : SumsOf(g, f, S)
  <2>1. DOMAIN f = S
    OBVIOUS
  <2> QED BY <2>1, SumEquations
<1> DEFINE Q == {s \in SUBSET S : g[s] = 0}
<1>2. {} \in Q
  BY <1>1 DEF SumsOf
<1>3. ASSUME NEW s \in SUBSET S, s # {}, \A x \in s : s \ {x} \in Q PROVE s \in Q
  <2>1. /\ Pick(s) \in s /\ g[s] = f[Pick(s)] + g[s \ {Pick(s)}]
        /\ s \ {Pick(s)} \in Q
    BY <1>1, <1>3 DEF SumsOf
  <2>2. f[Pick(s)] = 0 /\ g[s \ {Pick(s)}] = 0
    BY <2>1
  <2> QED BY <2>1, <2>2
<1>4. S \in Q
  <2> HIDE DEF Q
  <2> QED BY <1>2, <1>3, SubsetInduction
<1> QED BY <1>1, <1>4 DEF SumsOf

-----------------------------------------------------------------------------
(* Recursive functions                                                     *)

\* v has the values val on base and elsewhere what step makes of the value
\* before, at prev.
Recursive(v, D, base, val, prev, step) ==
  \A x \in D : v[x] = IF x \in base THEN val[x] ELSE step[<<x, v[prev[x]]>>]

\* From anywhere in D, prev leads to base: it goes down in rank.
LeadsTo(prev, D, base, rank, m) ==
  /\ m \in Nat /\ prev \in [D -> D] /\ rank \in [D -> 0..m]
  /\ \A x \in D : x \notin base => rank[prev[x]] < rank[x]

\* G has base, and an element when it has the one before.
Inductive(G, D, base, prev) ==
  /\ G \subseteq D
  /\ \A x \in D : x \in base \/ prev[x] \in G => x \in G

\* Then there is such a function.
LEMMA RecursionExists ==
  ASSUME NEW D, NEW V, NEW base, NEW val \in [D -> V], NEW step \in [D \X V -> V],
         NEW prev, NEW rank, NEW m, LeadsTo(prev, D, base, rank, m)
  PROVE  \E v \in [D -> V] : Recursive(v, D, base, val, prev, step)
<1> USE DEF LeadsTo
<1> DEFINE Upto(r) == {x \in D : rank[x] <= r}
           Good(r, v) == Recursive(v, Upto(r), base, val, prev, step)
           Q == {r \in 0..m : \E v \in [D -> V] : Good(r, v)}
<1>1. \A x \in D : rank[x] \in Nat /\ rank[x] <= m /\ rank[prev[x]] \in Nat
  OBVIOUS
<1>2. 0 \in Q
  <2>1. Good(0, val)
    BY <1>1 DEF Recursive
  <2>2. 0 \in 0..m
    OBVIOUS
  <2> HIDE DEF Good
  <2> QED BY <2>1, <2>2
<1>3. ASSUME NEW r \in Q, r \in 0..(m - 1) PROVE r + 1 \in Q
  <2>1. PICK v \in [D -> V] : Good(r, v)
    OBVIOUS
  <2> DEFINE w == [x \in D |-> IF x \in base THEN val[x] ELSE step[<<x, v[prev[x]]>>]]
  <2>2. r \in Nat /\ r + 1 \in 0..m
    BY <1>3
  <2>3. w \in [D -> V]
    OBVIOUS
  <2>4. \A x \in Upto(r) : w[x] = v[x]
    BY <2>1 DEF Recursive
  <2>5. \A x \in Upto(r + 1) : x \notin base => prev[x] \in Upto(r)
    BY <1>1, <2>2
  <2>6. Good(r + 1, w)
    <3> SUFFICES ASSUME NEW x \in Upto(r + 1)
                 PROVE  w[x] = IF x \in base THEN val[x] ELSE step[<<x, w[prev[x]]>>]
      BY DEF Recursive
    <3>1. x \in D /\ (x \notin base => w[prev[x]] = v[prev[x]])
      BY <2>4, <2>5
    <3> QED BY <3>1
  <2> HIDE DEF Good, w
  <2> QED BY <2>2, <2>3, <2>6
<1>4. m \in Q
  <2>1. m \in Nat /\ m \in 0..m
    OBVIOUS
  <2> HIDE DEF Q, LeadsTo
  <2>2. 0..m \subseteq Q
    BY <1>2, <1>3, <2>1, IntervalInduction
  <2> QED BY <2>1, <2>2
<1>5. PICK v \in [D -> V] : Good(m, v)
  BY <1>4
<1>6. Upto(m) = D
  BY <1>1
<1> HIDE DEF Upto
<1> QED BY <1>5, <1>6

\* And what is true of base, and of an element when it is of the one before, is
\* true of all.
LEMMA RecursionInduction ==
  ASSUME NEW D, NEW base, NEW prev, NEW rank, NEW m, NEW G,
         LeadsTo(prev, D, base, rank, m), Inductive(G, D, base, prev)
  PROVE  G = D
<1> USE DEF LeadsTo, Inductive
<1> DEFINE Q == {r \in 0..m : \A x \in D : rank[x] <= r => x \in G}
<1>1. \A x \in D : rank[x] \in Nat /\ rank[prev[x]] \in Nat
  OBVIOUS
<1>2. 0 \in Q
  BY <1>1
<1>3. ASSUME NEW r \in Q, r \in 0..(m - 1) PROVE r + 1 \in Q
  <2>1. r \in Nat /\ r + 1 \in 0..m
    BY <1>3
  <2>2. ASSUME NEW x \in D, rank[x] <= r + 1 PROVE x \in G
    <3>1. x \notin base => rank[prev[x]] <= r
      BY <1>1, <2>1, <2>2
    <3> QED BY <2>2, <3>1
  <2> QED BY <2>1, <2>2
<1>4. 0..m \subseteq Q
  <2> HIDE DEF Q
  <2> QED BY <1>2, <1>3, IntervalInduction
<1> QED BY <1>4
=============================================================================
