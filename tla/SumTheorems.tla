---------------------------- MODULE SumTheorems ----------------------------
(***************************************************************************)
(* The sum of a function over a finite set, SumFunctionOnSet of module     *)
(* Functions, obeys the laws the models rely on: it is independent of the  *)
(* order in which the elements are taken.  The proofs go by a smallest     *)
(* counterexample, since an induction rule with a predicate as parameter   *)
(* is of no use to the provers.                                            *)
(***************************************************************************)
EXTENDS Integers, FiniteSets, Functions, FiniteSetTheorems, WellFoundedInduction, TLAPS

\* A nonempty set of natural numbers has a least element.
LEMMA LeastNatural ==
    ASSUME NEW S \in SUBSET Nat, S # {}
    PROVE  \E x \in S : \A y \in S : x <= y
<1>1. PICK x \in S : \A y \in S : ~(<<y, x>> \in OpToRel(<, Nat))
  BY NatLessThanWellFounded, WFMin
<1>2. \A y \in S : ~(y < x)
  BY <1>1 DEF OpToRel
<1>3. QED
  BY <1>2

\* If a finite set has a subset of some kind then it has one all of whose proper
\* subsets are not of that kind.
LEMMA SmallestSubset ==
    ASSUME NEW S, IsFiniteSet(S), NEW Kind \in SUBSET (SUBSET S), Kind # {}
    PROVE  \E T \in Kind : IsFiniteSet(T) /\ \A U \in SUBSET T : U # T => U \notin Kind
<1>1. \A T \in SUBSET S : IsFiniteSet(T) /\ Cardinality(T) \in Nat
  BY FS_Subset, FS_CardinalityType
<1> DEFINE sizes == {Cardinality(T) : T \in Kind}
<1>2. sizes \in SUBSET Nat /\ sizes # {}
  BY <1>1
<1>3. PICK n \in sizes : \A m \in sizes : n <= m
  BY <1>2, LeastNatural
<1>4. PICK T \in Kind : n = Cardinality(T)
  BY <1>3
<1>5. ASSUME NEW U \in SUBSET T, U # T, U \in Kind PROVE FALSE
  <2>1. Cardinality(U) < Cardinality(T)
    BY <1>1, <1>5, FS_Subset
  <2>2. n <= Cardinality(U)
    BY <1>3, <1>5
  <2>3. QED
    BY <1>1, <1>4, <1>5, <2>1, <2>2
<1>6. QED
  BY <1>1, <1>4, <1>5

-----------------------------------------------------------------------------
\* The element SumFunctionOnSet takes first, and the equation its partial sums obey.
Pick(s) == CHOOSE x \in s : TRUE

Recurs(f, S, g) ==
    g = [s \in SUBSET S |-> IF s = {} THEN 0 ELSE f[Pick(s)] + g[s \ {Pick(s)}]]

\* The community fold, unfolded to the choice of a solution of its equation.
LEMMA SumUnfolds ==
    ASSUME NEW f, NEW S
    PROVE  SumFunctionOnSet(f, S) = (CHOOSE g : Recurs(f, S, g))[S]
  BY DEF SumFunctionOnSet, FoldFunctionOnSet, MapThenFoldSet, Recurs, Pick

\* The element the fold takes next is one of the set.
LEMMA PickIn == ASSUME NEW s, s # {} PROVE Pick(s) \in s
  BY DEF Pick

\* Two solutions of the equation agree wherever both are defined.
LEMMA RecursUnique ==
    ASSUME NEW f, NEW S, NEW T, IsFiniteSet(S), NEW g, NEW h,
           Recurs(f, S, g), Recurs(f, T, h), NEW s \in SUBSET S, s \in SUBSET T
    PROVE  g[s] = h[s]
<1> DEFINE Bad == {u \in SUBSET S : u \in SUBSET T /\ g[u] # h[u]}
<1>1. SUFFICES ASSUME Bad # {} PROVE FALSE
  OBVIOUS
<1>2. PICK u \in Bad : \A v \in SUBSET u : v # u => v \notin Bad
  <2>1. Bad \in SUBSET (SUBSET S)
    OBVIOUS
  <2> HIDE DEF Bad
  <2>2. QED
    BY <1>1, <2>1, SmallestSubset
<1>3. CASE u = {}
  BY <1>2, <1>3 DEF Recurs
<1>4. CASE u # {}
  <2> DEFINE v == u \ {Pick(u)}
  <2>1. v \in SUBSET u /\ v # u
    BY <1>4, PickIn
  <2>2. g[v] = h[v]
    BY <1>2, <2>1
  <2>3. g[u] = f[Pick(u)] + g[v] /\ h[u] = f[Pick(u)] + h[v]
    BY <1>2, <1>4 DEF Recurs
  <2>4. QED
    BY <1>2, <2>2, <2>3
<1>5. QED
  BY <1>3, <1>4

\* The equation has a solution over every finite set.
LEMMA RecursExists ==
    ASSUME NEW f, NEW S, IsFiniteSet(S)
    PROVE  \E g : Recurs(f, S, g)
<1> DEFINE Bad == {u \in SUBSET S : ~\E g : Recurs(f, u, g)}
<1>1. SUFFICES ASSUME Bad # {} PROVE FALSE
  OBVIOUS
<1>2. PICK T \in Bad : IsFiniteSet(T) /\ \A v \in SUBSET T : v # T => v \notin Bad
  <2>1. Bad \in SUBSET (SUBSET S)
    OBVIOUS
  <2> HIDE DEF Bad
  <2>2. QED
    BY <1>1, <2>1, SmallestSubset
<1> DEFINE sum(s) == (CHOOSE g : Recurs(f, s, g))
           total(s) == sum(s)[s]
           rest(s) == s \ {Pick(s)}
<1>3. \A s \in SUBSET T : s # T => Recurs(f, s, sum(s)) /\ IsFiniteSet(s)
  BY <1>2, FS_Subset
<1>4. ASSUME NEW s \in SUBSET T, s # T, s # {}
      PROVE  total(s) = f[Pick(s)] + total(rest(s))
  <2>1. rest(s) \in SUBSET s /\ rest(s) \in SUBSET T /\ rest(s) # T
    BY <1>4, PickIn
  <2>2. /\ Recurs(f, s, sum(s)) /\ IsFiniteSet(s)
        /\ Recurs(f, rest(s), sum(rest(s)))
    BY <1>3, <1>4, <2>1
  <2> HIDE DEF sum
  <2>3. sum(s)[s] = f[Pick(s)] + sum(s)[rest(s)]
    BY <1>4, <2>2 DEF Recurs
  <2>4. sum(s)[rest(s)] = sum(rest(s))[rest(s)]
    <3>1. ASSUME NEW A, A \in SUBSET s, Recurs(f, A, sum(A))
          PROVE  sum(s)[A] = sum(A)[A]
      BY <2>2, <3>1, RecursUnique
    <3> HIDE DEF rest
    <3>2. QED
      BY <2>1, <2>2, <3>1
  <2>5. QED
    BY <2>3, <2>4
<1>5. total({}) = 0 \/ T = {}
  <2>1. CASE T # {}
    <3>1. Recurs(f, {}, sum({}))
      BY <1>3, <2>1
    <3> HIDE DEF sum
    <3>2. QED
      BY <3>1 DEF Recurs
  <2>2. QED
    BY <2>1
<1> DEFINE step(s) == IF s = {} THEN 0 ELSE f[Pick(s)] + total(rest(s))
           h == [s \in SUBSET T |-> IF s = T THEN step(s) ELSE total(s)]
<1>6. ASSUME NEW s \in SUBSET T
      PROVE  h[s] = IF s = {} THEN 0 ELSE f[Pick(s)] + h[rest(s)]
  <2> HIDE DEF sum
  <2>1. CASE s = {}
    BY <1>5, <2>1
  <2>2. CASE s # {}
    <3>1. rest(s) \in SUBSET T /\ rest(s) # T
      BY <2>2, PickIn
    <3>2. h[rest(s)] = total(rest(s))
      BY <3>1
    <3>3. h[s] = f[Pick(s)] + total(rest(s))
      BY <1>4, <2>2
    <3>4. QED
      BY <2>2, <3>2, <3>3
  <2>3. QED
    BY <2>1, <2>2
<1>7. Recurs(f, T, h)
  <2>1. h = [s \in SUBSET T |-> h[s]]
    OBVIOUS
  <2> HIDE DEF h, step, total, sum
  <2>2. QED
    BY <1>6, <2>1 DEF Recurs
<1>8. QED
  BY <1>2, <1>7

-----------------------------------------------------------------------------
\* The sum over the empty set.
LEMMA SumEmpty ==
    ASSUME NEW f
    PROVE  SumFunctionOnSet(f, {}) = 0
<1> DEFINE g == CHOOSE g : Recurs(f, {}, g)
<1>1. Recurs(f, {}, g)
  BY RecursExists, FS_EmptySet
<1> HIDE DEF g
<1>2. g[{}] = 0
  BY <1>1 DEF Recurs
<1>3. QED
  BY <1>2, SumUnfolds DEF g

\* The element that is chosen can be taken out.
LEMMA SumPick ==
    ASSUME NEW f, NEW S, IsFiniteSet(S), S # {}
    PROVE  SumFunctionOnSet(f, S) = f[Pick(S)] + SumFunctionOnSet(f, S \ {Pick(S)})
<1> DEFINE sum(s) == CHOOSE g : Recurs(f, s, g)
           R == S \ {Pick(S)}
<1>1. R \in SUBSET S /\ IsFiniteSet(R)
  BY FS_Subset
<1>2. Recurs(f, S, sum(S)) /\ Recurs(f, R, sum(R))
  BY <1>1, RecursExists
<1>3. SumFunctionOnSet(f, S) = sum(S)[S] /\ SumFunctionOnSet(f, R) = sum(R)[R]
  BY SumUnfolds
<1>4. sum(S)[S] = f[Pick(S)] + sum(S)[R]
  <2> HIDE DEF sum
  <2>1. QED
    BY <1>2 DEF Recurs
<1>5. sum(S)[R] = sum(R)[R]
  <2> HIDE DEF sum, R
  <2>1. QED
    BY <1>1, <1>2, RecursUnique
<1>6. QED
  BY <1>3, <1>4, <1>5

\* The sum of numbers is a number.
LEMMA SumType ==
    ASSUME NEW f, NEW S, IsFiniteSet(S), NEW Numbers \in {Nat, Int}, \A x \in S : f[x] \in Numbers
    PROVE  SumFunctionOnSet(f, S) \in Numbers
<1> DEFINE Bad == {u \in SUBSET S : SumFunctionOnSet(f, u) \notin Numbers}
<1>1. SUFFICES ASSUME Bad # {} PROVE FALSE
  OBVIOUS
<1>2. PICK T \in Bad : IsFiniteSet(T) /\ \A v \in SUBSET T : v # T => v \notin Bad
  <2>1. Bad \in SUBSET (SUBSET S)
    OBVIOUS
  <2> HIDE DEF Bad
  <2>2. QED
    BY <1>1, <2>1, SmallestSubset
<1>3. CASE T = {}
  BY <1>2, <1>3, SumEmpty
<1>4. CASE T # {}
  <2> DEFINE R == T \ {Pick(T)}
  <2>1. R \in SUBSET T /\ R # T /\ Pick(T) \in S
    BY <1>2, <1>4, PickIn
  <2>2. SumFunctionOnSet(f, R) \in Numbers /\ f[Pick(T)] \in Numbers
    BY <1>2, <2>1
  <2>3. SumFunctionOnSet(f, T) = f[Pick(T)] + SumFunctionOnSet(f, R)
    BY <1>2, <1>4, SumPick
  <2> HIDE DEF R
  <2>4. QED
    BY <1>2, <2>2, <2>3
<1>5. QED
  BY <1>3, <1>4

\* Any element can be taken out.
THEOREM SumRemove ==
    ASSUME NEW f, NEW S, IsFiniteSet(S), \A x \in S : f[x] \in Int, NEW e \in S
    PROVE  SumFunctionOnSet(f, S) = f[e] + SumFunctionOnSet(f, S \ {e})
<1> DEFINE sum(s) == SumFunctionOnSet(f, s)
           Bad == {u \in SUBSET S : \E x \in u : sum(u) # f[x] + sum(u \ {x})}
<1>1. SUFFICES ASSUME Bad # {} PROVE FALSE
  OBVIOUS
<1>2. PICK T \in Bad : IsFiniteSet(T) /\ \A v \in SUBSET T : v # T => v \notin Bad
  <2>1. Bad \in SUBSET (SUBSET S)
    OBVIOUS
  <2> HIDE DEF Bad
  <2>2. QED
    BY <1>1, <2>1, SmallestSubset
<1>3. PICK x \in T : sum(T) # f[x] + sum(T \ {x})
  BY <1>2
<1> DEFINE p == Pick(T)
<1>4. p \in T /\ sum(T) = f[p] + sum(T \ {p}) /\ f[p] \in Int /\ f[x] \in Int
  BY <1>2, <1>3, PickIn, SumPick
<1>5. p # x
  BY <1>3, <1>4
<1>6. /\ sum(T \ {p}) = f[x] + sum((T \ {p}) \ {x})
      /\ sum(T \ {x}) = f[p] + sum((T \ {x}) \ {p})
  <2>1. T \ {p} \in SUBSET T /\ T \ {p} # T /\ x \in T \ {p} /\ T \ {p} \in SUBSET S
    BY <1>2, <1>3, <1>4, <1>5
  <2>2. T \ {x} \in SUBSET T /\ T \ {x} # T /\ p \in T \ {x} /\ T \ {x} \in SUBSET S
    BY <1>2, <1>3, <1>4, <1>5
  <2>3. ASSUME NEW v \in SUBSET T, v # T, v \in SUBSET S, NEW y \in v
        PROVE  sum(v) = f[y] + sum(v \ {y})
    BY <1>2, <2>3
  <2> HIDE DEF sum, p, Bad
  <2>4. QED
    BY <2>1, <2>2, <2>3
<1>7. sum((T \ {p}) \ {x}) = sum((T \ {x}) \ {p})
  <2>1. (T \ {p}) \ {x} = (T \ {x}) \ {p}
    OBVIOUS
  <2>2. QED
    BY <2>1
<1>8. sum((T \ {x}) \ {p}) \in Int
  <2>1. IsFiniteSet((T \ {x}) \ {p}) /\ (T \ {x}) \ {p} \in SUBSET S
    BY <1>2, FS_Subset
  <2> HIDE DEF p
  <2>2. QED
    BY <2>1, SumType
<1> HIDE DEF sum, p, Bad
<1>9. ASSUME NEW n, n = sum((T \ {x}) \ {p}), n \in Int
      PROVE  FALSE
  <2>1. sum(T) = f[p] + (f[x] + n) /\ sum(T \ {x}) = f[p] + n
    BY <1>4, <1>6, <1>7, <1>9
  <2>2. QED
    BY <1>3, <1>4, <1>9, <2>1
<1>10. QED
  BY <1>8, <1>9

\* Adding an element.
COROLLARY SumAdd ==
    ASSUME NEW f, NEW S, IsFiniteSet(S), NEW e, e \notin S, \A x \in S \cup {e} : f[x] \in Int
    PROVE  SumFunctionOnSet(f, S \cup {e}) = f[e] + SumFunctionOnSet(f, S)
<1>1. IsFiniteSet(S \cup {e})
  BY FS_AddElement
<1>2. (S \cup {e}) \ {e} = S
  OBVIOUS
<1>3. QED
  BY <1>1, <1>2, SumRemove

\* The sum depends on the function only where it is summed.
THEOREM SumSame ==
    ASSUME NEW f, NEW g, NEW S, IsFiniteSet(S), \A x \in S : f[x] = g[x]
    PROVE  SumFunctionOnSet(f, S) = SumFunctionOnSet(g, S)
<1> DEFINE Bad == {u \in SUBSET S : SumFunctionOnSet(f, u) # SumFunctionOnSet(g, u)}
<1>1. SUFFICES ASSUME Bad # {} PROVE FALSE
  OBVIOUS
<1>2. PICK T \in Bad : IsFiniteSet(T) /\ \A v \in SUBSET T : v # T => v \notin Bad
  <2>1. Bad \in SUBSET (SUBSET S)
    OBVIOUS
  <2> HIDE DEF Bad
  <2>2. QED
    BY <1>1, <2>1, SmallestSubset
<1>3. CASE T = {}
  BY <1>2, <1>3, SumEmpty
<1>4. CASE T # {}
  <2> DEFINE R == T \ {Pick(T)}
  <2>1. R \in SUBSET T /\ R # T /\ Pick(T) \in S
    BY <1>2, <1>4, PickIn
  <2>2. SumFunctionOnSet(f, R) = SumFunctionOnSet(g, R) /\ f[Pick(T)] = g[Pick(T)]
    BY <1>2, <2>1
  <2>3. /\ SumFunctionOnSet(f, T) = f[Pick(T)] + SumFunctionOnSet(f, R)
        /\ SumFunctionOnSet(g, T) = g[Pick(T)] + SumFunctionOnSet(g, R)
    BY <1>2, <1>4, SumPick
  <2>4. QED
    BY <1>2, <2>2, <2>3
<1>5. QED
  BY <1>3, <1>4

\* The sum over two disjoint sets.
THEOREM SumUnion ==
    ASSUME NEW f, NEW A, NEW B, IsFiniteSet(A), IsFiniteSet(B), A \cap B = {},
           \A x \in A \cup B : f[x] \in Int
    PROVE  SumFunctionOnSet(f, A \cup B) = SumFunctionOnSet(f, A) + SumFunctionOnSet(f, B)
<1> DEFINE sum(s) == SumFunctionOnSet(f, s)
           Bad == {u \in SUBSET B : sum(A \cup u) # sum(A) + sum(u)}
<1>1. SUFFICES ASSUME Bad # {} PROVE FALSE
  OBVIOUS
<1>2. PICK T \in Bad : IsFiniteSet(T) /\ \A v \in SUBSET T : v # T => v \notin Bad
  <2>1. Bad \in SUBSET (SUBSET B)
    OBVIOUS
  <2> HIDE DEF Bad
  <2>2. QED
    BY <1>1, <2>1, SmallestSubset
<1>3. sum(A) \in Int
  BY SumType
<1>4. CASE T = {}
  <2>1. A \cup T = A
    BY <1>4
  <2>2. QED
    BY <1>2, <1>3, <1>4, <2>1, SumEmpty
<1>5. CASE T # {}
  <2>1. PICK e : e \in T
    BY <1>5
  <2> DEFINE R == T \ {e}
  <2>2. R \in SUBSET T /\ R # T /\ R \in SUBSET B /\ e \in B /\ IsFiniteSet(R)
    BY <1>2, <2>1, FS_Subset
  <2>3. sum(A \cup R) = sum(A) + sum(R)
    BY <1>2, <2>2
  <2>4. sum(T) = f[e] + sum(R)
    BY <1>2, <2>1, SumRemove
  <2>5. sum(A \cup T) = f[e] + sum(A \cup R)
    <3>1. (A \cup T) \ {e} = A \cup R /\ e \in A \cup T
      BY <2>1, <2>2
    <3>2. IsFiniteSet(A \cup T) /\ \A x \in A \cup T : f[x] \in Int
      BY <1>2, FS_Union
    <3> HIDE DEF R
    <3>3. QED
      BY <3>1, <3>2, SumRemove
  <2>6. sum(R) \in Int /\ f[e] \in Int
    BY <2>2, SumType
  <2> HIDE DEF R, sum
  <2>7. sum(A \cup T) = sum(A) + sum(T)
    BY <1>3, <2>3, <2>4, <2>5, <2>6
  <2>8. QED
    BY <1>2, <2>7
<1>6. QED
  BY <1>4, <1>5
=============================================================================
