-------------------------- MODULE ExpiryIndexProofs -------------------------
(***************************************************************************)
(* The heap of timers, for every set of keys and of deadlines: positions   *)
(* is its inverse, the root is earliest, and together they implement the   *)
(* map of TimerMap.                                                        *)
(***************************************************************************)
EXTENDS ExpiryIndex, SumTheorems, SequenceTheorems

Timers == [key : Keys, deadline : Int]

\* The index x holds the deadlines m: every key of m at its position, every timer
\* of the heap at the position recorded for it.
Carries(x, m) ==
    /\ x = Index(x.heap, x.positions)
    /\ x.heap \in Seq(Timers)
    /\ x.positions \in [DOMAIN m -> 1 .. Len(x.heap)]
    /\ \A k \in DOMAIN m : x.heap[x.positions[k]] = Timer(k, m[k])
    /\ \A i \in 1 .. Len(x.heap) : x.heap[i].key \in DOMAIN m /\ x.positions[x.heap[i].key] = i

\* No timer is earlier than its parent.
Ordered(h) == \A i \in 2 .. Len(h) : h[i \div 2].deadline <= h[i].deadline

\* The same away from place i, and across it.
OrderedAround(h, i) ==
    /\ \A j \in 2 .. Len(h) : j # i /\ j \div 2 # i => h[j \div 2].deadline <= h[j].deadline
    /\ i > 1 => \A j \in 2 .. Len(h) : j \div 2 = i => h[i \div 2].deadline <= h[j].deadline

\* The deadlines the index stands for: what ExpiryIndex substitutes for TimerMap's timers.
Held == [k \in DOMAIN positions |-> heap[positions[k]].deadline]

\* The inductive invariant.
IInv == Carries(Index(heap, positions), Held) /\ Ordered(heap)

-----------------------------------------------------------------------------
(***************************************************************************)
(* The loops.                                                              *)
(***************************************************************************)
\* g is the loop before each of its first n iterations, and after them.
RunsTo(way, r, n, g) == g = [k \in 0 .. n |-> IF k = 0 THEN r ELSE Once(way, g[k - 1])]

\* Two such runs agree wherever both are defined.
LEMMA RunsUnique ==
    ASSUME NEW way, NEW r, NEW n \in Nat, NEW m \in Nat, NEW g, NEW h,
           RunsTo(way, r, n, g), RunsTo(way, r, m, h),
           NEW i \in Nat, i <= n, i <= m
    PROVE  g[i] = h[i]
<1> DEFINE Bad == {j \in Nat : j <= n /\ j <= m /\ g[j] # h[j]}
<1>1. SUFFICES ASSUME Bad # {} PROVE FALSE
  OBVIOUS
<1>2. PICK j \in Bad : \A k \in Bad : j <= k
  BY <1>1, LeastNatural
<1>3. /\ g[j] = IF j = 0 THEN r ELSE Once(way, g[j - 1])
      /\ h[j] = IF j = 0 THEN r ELSE Once(way, h[j - 1])
  BY DEF RunsTo
<1>4. j # 0
  BY <1>2, <1>3
<1>5. j - 1 \in Nat /\ ~(j <= j - 1) /\ j - 1 <= n /\ j - 1 <= m
  BY <1>4
<1>6. g[j - 1] = h[j - 1]
  BY <1>2, <1>5
<1>7. QED
  BY <1>2, <1>3, <1>6

\* There is one for every number of iterations.
LEMMA RunsExist ==
    ASSUME NEW way, NEW r, NEW n \in Nat
    PROVE  \E g : RunsTo(way, r, n, g)
<1> DEFINE Bad == {j \in Nat : ~\E g : RunsTo(way, r, j, g)}
<1>1. SUFFICES ASSUME Bad # {} PROVE FALSE
  OBVIOUS
<1>2. PICK j \in Bad : \A k \in Bad : j <= k
  BY <1>1, LeastNatural
<1>3. CASE j = 0
  <2> DEFINE g == [i \in 0 .. 0 |-> r]
  <2>1. RunsTo(way, r, 0, g)
    BY DEF RunsTo
  <2>2. QED
    BY <1>2, <1>3, <2>1
<1>4. CASE j # 0
  <2>1. j - 1 \in Nat /\ ~(j <= j - 1)
    BY <1>4
  <2>2. PICK g : RunsTo(way, r, j - 1, g)
    BY <1>2, <2>1
  <2> DEFINE h == [i \in 0 .. j |-> IF i = j THEN Once(way, g[j - 1]) ELSE g[i]]
  <2>3. ASSUME NEW i \in 0 .. j
        PROVE  h[i] = IF i = 0 THEN r ELSE Once(way, h[i - 1])
    <3>1. CASE i = j
      BY <1>4, <2>1, <3>1
    <3>2. CASE i # j
      <4>1. g[i] = IF i = 0 THEN r ELSE Once(way, g[i - 1])
        BY <2>1, <2>2, <3>2 DEF RunsTo
      <4>2. i # 0 => h[i - 1] = g[i - 1]
        BY <3>2
      <4>3. QED
        BY <3>2, <4>1, <4>2
    <3>3. QED
      BY <3>1, <3>2
  <2>4. RunsTo(way, r, j, h)
    <3>1. h = [i \in 0 .. j |-> h[i]]
      OBVIOUS
    <3> HIDE DEF h
    <3>2. QED
      BY <2>3, <3>1 DEF RunsTo
  <2>5. QED
    BY <1>2, <2>4
<1>5. QED
  BY <1>3, <1>4

\* A loop is its iterations one after the other.
LEMMA LoopSteps ==
    ASSUME NEW way, NEW r
    PROVE  /\ Loop(way, r, 0) = r
           /\ \A n \in Nat : Loop(way, r, n + 1) = Once(way, Loop(way, r, n))
<1> DEFINE upto(n) == CHOOSE g : RunsTo(way, r, n, g)
<1>1. \A n \in Nat : RunsTo(way, r, n, upto(n))
  BY RunsExist
<1>2. \A n : Loop(way, r, n) = upto(n)[n]
  BY DEF Loop, RunsTo
<1> HIDE DEF upto
<1>3. upto(0)[0] = r
  BY <1>1 DEF RunsTo
<1>4. ASSUME NEW i \in Nat
      PROVE  upto(i + 1)[i + 1] = Once(way, upto(i)[i])
  <2>1. upto(i + 1)[i] = upto(i)[i]
    BY <1>1, RunsUnique
  <2>2. upto(i + 1)[i + 1] = Once(way, upto(i + 1)[i + 1 - 1])
    BY <1>1 DEF RunsTo
  <2>3. i + 1 - 1 = i
    OBVIOUS
  <2>4. QED
    BY <2>1, <2>2, <2>3
<1>5. QED
  BY <1>2, <1>3, <1>4

(***************************************************************************)
(* One iteration.                                                          *)
(***************************************************************************)
\* The timers of an index, place by place.
LEMMA Places ==
    ASSUME NEW x, NEW m, Carries(x, m)
    PROVE  /\ Len(x.heap) \in Nat /\ DOMAIN x.heap = 1 .. Len(x.heap)
           /\ \A i \in 1 .. Len(x.heap) :
                 /\ x.heap[i] \in Timers /\ x.heap[i].deadline \in Int /\ x.heap[i].key \in Keys
                 /\ x.heap[i].key \in DOMAIN m
                 /\ x.heap[i] = Timer(x.heap[i].key, m[x.heap[i].key])
<1>1. x.heap \in Seq(Timers)
  BY DEF Carries
<1>2. Len(x.heap) \in Nat /\ DOMAIN x.heap = 1 .. Len(x.heap)
      /\ \A i \in 1 .. Len(x.heap) : x.heap[i] \in Timers
  BY <1>1
<1>3. \A i \in 1 .. Len(x.heap) : x.heap[i].deadline \in Int /\ x.heap[i].key \in Keys
  BY <1>2 DEF Timers
<1>4. ASSUME NEW i \in 1 .. Len(x.heap)
      PROVE  x.heap[i].key \in DOMAIN m /\ x.heap[i] = Timer(x.heap[i].key, m[x.heap[i].key])
  <2>1. x.heap[i].key \in DOMAIN m /\ x.positions[x.heap[i].key] = i
    BY DEF Carries
  <2>2. QED
    BY <2>1 DEF Carries
<1>5. QED
  BY <1>2, <1>3, <1>4

\* A swap moves two timers, and their positions with them.
LEMMA SwapCarries ==
    ASSUME NEW x, NEW m, Carries(x, m),
           NEW i \in 1 .. Len(x.heap), NEW j \in 1 .. Len(x.heap), i # j
    PROVE  /\ Carries(swap(x, i, j), m)
           /\ swap(x, i, j).heap = [x.heap EXCEPT ![i] = x.heap[j], ![j] = x.heap[i]]
           /\ Len(swap(x, i, j).heap) = Len(x.heap)
<1> DEFINE n == Len(x.heap)
           h == [x.heap EXCEPT ![i] = x.heap[j], ![j] = x.heap[i]]
           p == At(At(x.positions, h[i].key, i), h[j].key, j)
           y == swap(x, i, j)
<1>1. n \in Nat /\ DOMAIN x.heap = 1 .. n /\ \A l \in 1 .. n : x.heap[l] \in Timers
  BY Places
<1>2. y = [heap |-> h, positions |-> p]
  BY DEF swap, Index
<1>3. y.heap = h /\ y.positions = p /\ y = Index(y.heap, y.positions)
  BY <1>2 DEF Index
<1>4. h \in Seq(Timers) /\ Len(h) = n
  BY <1>1 DEF Carries
<1>5. \A l \in 1 .. n : h[l] = IF l = j THEN x.heap[i] ELSE IF l = i THEN x.heap[j] ELSE x.heap[l]
  BY <1>1
<1> HIDE DEF h, y
<1>6. /\ h[i] = x.heap[j] /\ h[j] = x.heap[i]
      /\ \A l \in 1 .. n : l # i /\ l # j => h[l] = x.heap[l]
  BY <1>5
<1> DEFINE a == x.heap[i].key
           b == x.heap[j].key
<1>7. /\ a \in DOMAIN m /\ b \in DOMAIN m /\ x.positions[a] = i /\ x.positions[b] = j
      /\ DOMAIN x.positions = DOMAIN m
      /\ \A k \in DOMAIN m : x.positions[k] \in 1 .. n
  BY DEF Carries
<1>8. a # b
  BY <1>7
<1>9. p = [k \in DOMAIN m |-> IF k = a THEN j ELSE IF k = b THEN i ELSE x.positions[k]]
  <2>1. p = At(At(x.positions, b, i), a, j)
    BY <1>6
  <2> HIDE DEF a, b, p
  <2>2. At(x.positions, b, i) = [k \in DOMAIN m |-> IF k = b THEN i ELSE x.positions[k]]
    BY <1>7 DEF At
  <2>3. QED
    BY <1>7, <2>1, <2>2 DEF At
<1> HIDE DEF p
<1>10. p \in [DOMAIN m -> 1 .. n]
  BY <1>7, <1>9
<1>11. ASSUME NEW k \in DOMAIN m PROVE h[p[k]] = Timer(k, m[k])
  <2>1. x.heap[x.positions[k]] = Timer(k, m[k])
    BY DEF Carries
  <2>2. CASE k = a
    BY <1>6, <1>7, <1>9, <2>1, <2>2
  <2>3. CASE k # a /\ k = b
    BY <1>6, <1>7, <1>9, <2>1, <2>3
  <2>4. CASE k # a /\ k # b
    <3>1. p[k] = x.positions[k] /\ x.positions[k] \in 1 .. n
      BY <1>7, <1>9, <2>4
    <3>2. x.positions[k] # i /\ x.positions[k] # j
      <4>1. x.heap[x.positions[k]].key = k
        BY <2>1 DEF Timer
      <4>2. QED
        BY <2>4, <4>1
    <3>3. QED
      BY <1>6, <2>1, <3>1, <3>2
  <2>5. QED
    BY <2>2, <2>3, <2>4
<1>12. ASSUME NEW l \in 1 .. n PROVE h[l].key \in DOMAIN m /\ p[h[l].key] = l
  <2>1. CASE l = i
    BY <1>6, <1>7, <1>8, <1>9, <2>1
  <2>2. CASE l = j
    BY <1>6, <1>7, <1>8, <1>9, <2>2
  <2>3. CASE l # i /\ l # j
    <3>1. h[l] = x.heap[l]
      BY <1>6, <2>3
    <3>2. x.heap[l].key \in DOMAIN m /\ x.positions[x.heap[l].key] = l
      BY DEF Carries
    <3>3. x.heap[l].key # a /\ x.heap[l].key # b
      BY <1>7, <2>3, <3>2
    <3>4. QED
      BY <1>9, <3>1, <3>2, <3>3
  <2>4. QED
    BY <2>1, <2>2, <2>3
<1>13. Carries(y, m)
  BY <1>3, <1>4, <1>10, <1>11, <1>12 DEF Carries
<1>14. QED
  BY <1>3, <1>4, <1>13 DEF h, y

\* The parent of a place.
LEMMA Parent ==
    ASSUME NEW i \in Nat, i >= 2
    PROVE  i \div 2 \in Nat /\ 1 <= i \div 2 /\ i \div 2 < i
  OBVIOUS

\* The children of a place.
LEMMA Children ==
    ASSUME NEW i \in Nat, NEW j \in Nat
    PROVE  j \div 2 = i <=> j = 2 * i \/ j = 2 * i + 1
  OBVIOUS

\* The deadlines d and e of two heaps of n timers that differ by a swap of i and j.
Swapped(d, e, n, i, j) ==
    /\ \A l \in 1 .. n : d[l] \in Int /\ e[l] \in Int
    /\ e[i] = d[j] /\ e[j] = d[i]
    /\ \A l \in 1 .. n : l # i /\ l # j => e[l] = d[l]

\* OrderedAround, of the deadlines alone.
Around(d, n, i) ==
    /\ \A j \in 2 .. n : j # i /\ j \div 2 # i => d[j \div 2] <= d[j]
    /\ i > 1 => \A j \in 2 .. n : j \div 2 = i => d[i \div 2] <= d[j]

\* A timer that is earlier than its parent and rises leaves order around its new place.
LEMMA RiseOrder ==
    ASSUME NEW n \in Nat, NEW d, NEW e, NEW i \in 2 .. n, NEW p \in 1 .. n, p = i \div 2,
           Swapped(d, e, n, p, i), Around(d, n, i), ~(d[p] <= d[i])
    PROVE  Around(e, n, p)
<1>1. ASSUME NEW j \in 2 .. n, j # p, j \div 2 # p PROVE e[j \div 2] <= e[j]
  <2>1. j \div 2 \in 1 .. n /\ j \in 1 .. n /\ i \in 1 .. n /\ j # i
    BY <1>1, Parent
  <2>2. CASE j \div 2 = i
    <3>1. d[p] <= d[j]
      BY <2>2 DEF Around
    <3>2. e[i] = d[p] /\ e[j] = d[j]
      BY <1>1, <2>1 DEF Swapped
    <3>3. QED
      BY <2>2, <3>1, <3>2
  <2>3. CASE j \div 2 # i
    <3>1. d[j \div 2] <= d[j]
      BY <2>1, <2>3 DEF Around
    <3>2. e[j] = d[j] /\ e[j \div 2] = d[j \div 2]
      BY <1>1, <2>1, <2>3 DEF Swapped
    <3>3. QED
      BY <3>1, <3>2
  <2>4. QED
    BY <2>2, <2>3
<1>2. ASSUME p > 1, NEW j \in 2 .. n, j \div 2 = p PROVE e[p \div 2] <= e[j]
  <2> DEFINE g == p \div 2
  <2>1. g \in 1 .. n /\ g < p /\ p < i /\ j \in 1 .. n /\ i \in 1 .. n /\ p \in 2 .. n
    BY <1>2, Parent
  <2> HIDE DEF g
  <2>2. g # p /\ g # i /\ p # i
    BY <2>1
  <2>3. d[g] <= d[p] /\ e[g] = d[g]
    BY <2>1, <2>2 DEF Around, Swapped, g
  <2>4. CASE j = i
    BY <2>3, <2>4 DEF Swapped, g
  <2>5. CASE j # i
    <3>1. j # p /\ p # i
      BY <1>2, <2>1, Parent
    <3>2. d[p] <= d[j] /\ e[j] = d[j]
      BY <1>2, <2>1, <2>5, <3>1 DEF Around, Swapped
    <3>3. d[g] \in Int /\ d[p] \in Int /\ d[j] \in Int
      BY <2>1 DEF Swapped
    <3>4. QED
      BY <2>3, <3>2, <3>3 DEF g
  <2>6. QED
    BY <2>4, <2>5
<1>3. QED
  BY <1>1, <1>2 DEF Around

\* At its new place it is not later than its children.
LEMMA RiseBottom ==
    ASSUME NEW n \in Nat, NEW d, NEW e, NEW i \in 2 .. n, NEW p \in 1 .. n, p = i \div 2,
           Swapped(d, e, n, p, i), Around(d, n, i), ~(d[p] <= d[i]),
           NEW j \in 2 .. n, j \div 2 = p
    PROVE  e[p] <= e[j]
<1>1. p < i /\ j \in 1 .. n /\ i \in 1 .. n /\ j # p
  BY Parent
<1>2. e[p] = d[i] /\ e[i] = d[p] /\ d[i] \in Int /\ d[p] \in Int /\ d[j] \in Int
  BY <1>1 DEF Swapped
<1>3. CASE j = i
  BY <1>2, <1>3
<1>4. CASE j # i
  <2>1. d[p] <= d[j] /\ e[j] = d[j]
    BY <1>1, <1>4 DEF Around, Swapped
  <2>2. QED
    BY <1>2, <2>1
<1>5. QED
  BY <1>3, <1>4

\* A timer that is later than its earlier child c and sinks leaves order around its
\* new place, and is not earlier than its new parent.
LEMMA SinkOrder ==
    ASSUME NEW n \in Nat, NEW d, NEW e, NEW i \in 1 .. n, NEW c \in 2 .. n, c \div 2 = i,
           Swapped(d, e, n, i, c), Around(d, n, i), ~(d[i] <= d[c]),
           \A j \in 2 .. n : j \div 2 = i => d[c] <= d[j]
    PROVE  Around(e, n, c) /\ e[i] <= e[c]
<1>0. c \in 1 .. n /\ i < c
  BY Parent
<1>1. ASSUME NEW j \in 2 .. n, j # c, j \div 2 # c PROVE e[j \div 2] <= e[j]
  <2>1. j \div 2 \in 1 .. n /\ j \in 1 .. n /\ j \div 2 < j
    BY Parent
  <2>2. CASE j = i
    <3>1. d[j \div 2] <= d[c]
      BY <2>1, <2>2 DEF Around
    <3>2. e[j] = d[c] /\ e[j \div 2] = d[j \div 2]
      BY <1>0, <1>1, <2>1, <2>2 DEF Swapped
    <3>3. QED
      BY <3>1, <3>2
  <2>3. CASE j # i /\ j \div 2 = i
    <3>1. d[c] <= d[j]
      BY <2>3
    <3>2. e[j] = d[j] /\ e[i] = d[c]
      BY <1>0, <1>1, <2>1, <2>3 DEF Swapped
    <3>3. QED
      BY <2>3, <3>1, <3>2
  <2>4. CASE j # i /\ j \div 2 # i
    <3>1. d[j \div 2] <= d[j]
      BY <2>4 DEF Around
    <3>2. e[j] = d[j] /\ e[j \div 2] = d[j \div 2]
      BY <1>1, <2>1, <2>4 DEF Swapped
    <3>3. QED
      BY <3>1, <3>2
  <2>5. QED
    BY <2>2, <2>3, <2>4
<1>2. ASSUME NEW j \in 2 .. n, j \div 2 = c PROVE e[c \div 2] <= e[j]
  <2>1. j # c /\ j # i /\ j \div 2 # i /\ j \in 1 .. n
    BY <1>0, <1>2, Parent
  <2>2. d[c] <= d[j] /\ e[j] = d[j] /\ e[i] = d[c]
    BY <1>2, <2>1 DEF Around, Swapped
  <2>3. QED
    BY <2>2
<1>3. e[i] <= e[c]
  <2>1. e[i] = d[c] /\ e[c] = d[i] /\ d[c] \in Int /\ d[i] \in Int
    BY <1>0 DEF Swapped
  <2>2. QED
    BY <2>1
<1>4. QED
  BY <1>1, <1>2, <1>3 DEF Around

(***************************************************************************)
(* The invariant of both loops, and where they end.                        *)
(***************************************************************************)
Loops(r, m, n) ==
    /\ r = Moving(r.index, r.at) /\ r.at \in 1 .. n
    /\ Carries(r.index, m) /\ Len(r.index.heap) = n
    /\ OrderedAround(r.index.heap, r.at)

\* The timer is not earlier than its parent.
AtTop(r) == r.at = 1 \/ r.index.heap[r.at \div 2].deadline <= r.index.heap[r.at].deadline

\* The timer is not later than its children.
AtBottom(r) ==
    \A j \in 2 .. Len(r.index.heap) :
        j \div 2 = r.at => r.index.heap[r.at].deadline <= r.index.heap[j].deadline

DeadlinesOf(h) == [l \in 1 .. Len(h) |-> h[l].deadline]

\* The order of a heap is that of its deadlines.
LEMMA AroundIs ==
    ASSUME NEW h, Len(h) \in Nat, NEW i \in 1 .. Len(h)
    PROVE  OrderedAround(h, i) <=> Around(DeadlinesOf(h), Len(h), i)
<1>1. \A l \in 1 .. Len(h) : DeadlinesOf(h)[l] = h[l].deadline
  BY DEF DeadlinesOf
<1>2. \A j \in 2 .. Len(h) : j \in 1 .. Len(h) /\ j \div 2 \in 1 .. Len(h)
  BY Parent
<1>3. i > 1 => i \div 2 \in 1 .. Len(h)
  BY Parent
<1>4. QED
  BY <1>1, <1>2, <1>3 DEF OrderedAround, Around

\* A swap of two places, as the loops do it.
LEMMA SwapLoops ==
    ASSUME NEW x, NEW m, Carries(x, m),
           NEW i \in 1 .. Len(x.heap), NEW j \in 1 .. Len(x.heap), i # j
    PROVE  /\ Carries(swap(x, i, j), m) /\ Len(swap(x, i, j).heap) = Len(x.heap)
           /\ Swapped(DeadlinesOf(x.heap), DeadlinesOf(swap(x, i, j).heap), Len(x.heap), i, j)
<1> DEFINE y == swap(x, i, j)
<1>1. /\ Carries(y, m) /\ Len(y.heap) = Len(x.heap)
      /\ y.heap = [x.heap EXCEPT ![i] = x.heap[j], ![j] = x.heap[i]]
  BY SwapCarries
<1> HIDE DEF y
<1>2. /\ DOMAIN x.heap = 1 .. Len(x.heap)
      /\ \A l \in 1 .. Len(x.heap) : x.heap[l].deadline \in Int
  BY Places
<1>3. \A l \in 1 .. Len(x.heap) :
        y.heap[l] = IF l = j THEN x.heap[i] ELSE IF l = i THEN x.heap[j] ELSE x.heap[l]
  BY <1>1, <1>2
<1>4. \A l \in 1 .. Len(x.heap) : DeadlinesOf(x.heap)[l] = x.heap[l].deadline
                                  /\ DeadlinesOf(y.heap)[l] = y.heap[l].deadline
  BY <1>1 DEF DeadlinesOf
<1>5. Swapped(DeadlinesOf(x.heap), DeadlinesOf(y.heap), Len(x.heap), i, j)
  BY <1>2, <1>3, <1>4 DEF Swapped
<1>6. QED
  BY <1>1, <1>5 DEF y

\* One iteration of up.
LEMMA RiseStep ==
    ASSUME NEW r, NEW m, NEW n, Loops(r, m, n)
    PROVE  /\ Loops(Rise(r), m, n)
           /\ (Rise(r) = r /\ AtTop(r)) \/ (Rise(r).at < r.at /\ AtBottom(Rise(r)))
<1> DEFINE x == r.index
           i == r.at
           p == r.at \div 2
<1>1. n \in Nat /\ n = Len(x.heap) /\ i \in 1 .. n /\ Carries(x, m) /\ OrderedAround(x.heap, i)
  BY Places DEF Loops
<1>2. CASE AtTop(r)
  BY <1>2 DEF AtTop, Rise
<1>3. CASE ~AtTop(r)
  <2>1. i # 1 /\ ~(x.heap[p].deadline <= x.heap[i].deadline)
        /\ Rise(r) = Moving(swap(x, p, i), p)
    BY <1>3 DEF AtTop, Rise
  <2>2. i \in 2 .. n /\ p \in 1 .. n /\ p < i /\ p # i
    BY <1>1, <2>1, Parent
  <2> DEFINE y == swap(x, p, i)
             d == DeadlinesOf(x.heap)
             e == DeadlinesOf(y.heap)
  <2>3. Carries(y, m) /\ Len(y.heap) = n /\ Swapped(d, e, n, p, i)
    BY <1>1, <2>2, SwapLoops
  <2>4. Around(d, n, i)
    BY <1>1, AroundIs
  <2>5. ~(d[p] <= d[i])
    BY <1>1, <2>1, <2>2 DEF DeadlinesOf
  <2>p. p = i \div 2
    OBVIOUS
  <2> HIDE DEF d, e, y, p
  <2>6. Around(e, n, p) /\ \A j \in 2 .. n : j \div 2 = p => e[p] <= e[j]
    <3>1. Around(e, n, p)
      BY <1>1, <2>2, <2>3, <2>4, <2>5, <2>p, RiseOrder
    <3>2. ASSUME NEW j \in 2 .. n, j \div 2 = p PROVE e[p] <= e[j]
      BY <1>1, <2>2, <2>3, <2>4, <2>5, <2>p, <3>2, RiseBottom
    <3>3. QED
      BY <3>1, <3>2
  <2>7. OrderedAround(y.heap, p)
    BY <1>1, <2>2, <2>3, <2>6, AroundIs DEF e
  <2>8. Rise(r) = Moving(y, p) /\ Rise(r).index = y /\ Rise(r).at = p
    BY <2>1 DEF Moving, y
  <2>9. Loops(Rise(r), m, n)
    BY <2>2, <2>3, <2>7, <2>8 DEF Loops
  <2>10. AtBottom(Rise(r))
    <3>1. \A l \in 1 .. n : e[l] = y.heap[l].deadline
      BY <2>3 DEF e, DeadlinesOf
    <3>2. \A j \in 2 .. n : j \in 1 .. n
      BY <1>1
    <3>3. QED
      BY <2>2, <2>3, <2>6, <2>8, <3>1, <3>2 DEF AtBottom
  <2>11. QED
    BY <2>2, <2>8, <2>9, <2>10
<1>4. QED
  BY <1>2, <1>3

\* One iteration of down.
LEMMA SinkStep ==
    ASSUME NEW r, NEW m, NEW n, Loops(r, m, n), AtTop(r)
    PROVE  /\ Loops(Sink(r), m, n) /\ AtTop(Sink(r))
           /\ (Sink(r) = r /\ AtBottom(r)) \/ Sink(r).at > r.at
<1> DEFINE x == r.index
           h == r.index.heap
           i == r.at
           left == 2 * r.at
           right == left + 1
           c == IF right <= Len(h) /\ h[right].deadline < h[left].deadline THEN right ELSE left
<1>1. n \in Nat /\ n = Len(h) /\ i \in 1 .. n /\ Carries(x, m) /\ OrderedAround(h, i)
  BY Places DEF Loops
<1>2. \A l \in 1 .. n : h[l].deadline \in Int
  BY <1>1, Places
<1>3. left \in Nat /\ right \in Nat /\ left >= 2 /\ left > i /\ right = left + 1
  BY <1>1
<1>4. \A j \in 2 .. n : j \div 2 = i <=> j = left \/ j = right
  BY <1>1, Children
<1>5. Sink(r) = IF left > Len(h) \/ h[i].deadline <= h[c].deadline THEN r
                ELSE Moving(swap(x, i, c), c)
  BY DEF Sink
<1> HIDE DEF left, right
<1>6. CASE left > n
  <2>1. AtBottom(r)
    BY <1>1, <1>3, <1>4, <1>6 DEF AtBottom
  <2>2. QED
    BY <1>1, <1>5, <1>6, <2>1
<1>7. CASE ~(left > n)
  <2>0. left \in 2 .. n /\ (right <= n => right \in 2 .. n)
    BY <1>1, <1>3, <1>7
  <2>1. c \in 2 .. n /\ c \div 2 = i /\ c > i
    <3>1. c = left \/ (c = right /\ right <= n)
      BY <1>1
    <3> HIDE DEF c
    <3>2. c \in 2 .. n /\ c \div 2 = i
      BY <1>4, <2>0, <3>1
    <3>3. QED
      BY <1>1, <1>3, <3>1, <3>2
  <2>2. \A j \in 2 .. n : j \div 2 = i => h[c].deadline <= h[j].deadline
    <3> SUFFICES ASSUME NEW j \in 2 .. n, j = left \/ j = right
                 PROVE  h[c].deadline <= h[j].deadline
      BY <1>4
    <3>1. h[left].deadline \in Int /\ (right <= n => h[right].deadline \in Int)
      <4>1. left \in 1 .. n /\ (right <= n => right \in 1 .. n)
        BY <1>1, <2>0
      <4>2. QED
        BY <1>2, <4>1
    <3>2. right <= n \/ j = left
      BY <1>1
    <3>3. CASE right <= n
      <4>1. PICK a \in Int, b \in Int : a = h[left].deadline /\ b = h[right].deadline
        BY <3>1, <3>3
      <4>2. CASE b < a
        <5>1. c = right
          BY <1>1, <3>3, <4>1, <4>2
        <5>2. QED
          BY <4>1, <4>2, <5>1, SMTT(30)
      <4>3. CASE ~(b < a)
        <5>1. c = left
          BY <4>1, <4>3
        <5>2. QED
          BY <4>1, <4>3, <5>1
      <4>4. QED
        BY <4>2, <4>3
    <3>4. CASE ~(right <= n)
      <4>1. c = left /\ j = left
        BY <1>1, <3>2, <3>4
      <4>2. QED
        BY <3>1, <4>1
    <3>5. QED
      BY <3>3, <3>4
  <2> HIDE DEF c
  <2>3. CASE h[i].deadline <= h[c].deadline
    <3>1. AtBottom(r)
      <4> SUFFICES ASSUME NEW j \in 2 .. n, j \div 2 = i PROVE h[i].deadline <= h[j].deadline
        BY <1>1 DEF AtBottom
      <4>1. h[c].deadline <= h[j].deadline
        BY <2>2
      <4>2. h[i].deadline \in Int /\ h[c].deadline \in Int /\ h[j].deadline \in Int
        <5>1. c \in 1 .. n /\ j \in 1 .. n
          BY <1>1, <2>1
        <5>2. QED
          BY <1>1, <1>2, <5>1, Zenon
      <4>3. QED
        BY <2>3, <4>1, <4>2
    <3>2. QED
      BY <1>5, <2>3, <3>1
  <2>4. CASE ~(h[i].deadline <= h[c].deadline)
    <3>1. c \in 1 .. n /\ i # c
      BY <1>1, <2>1
    <3> DEFINE y == swap(x, i, c)
               d == DeadlinesOf(h)
               e == DeadlinesOf(y.heap)
    <3>2. Carries(y, m) /\ Len(y.heap) = n /\ Swapped(d, e, n, i, c)
      BY <1>1, <3>1, SwapLoops
    <3>3. \A l \in 1 .. n : d[l] = h[l].deadline /\ e[l] = y.heap[l].deadline
      BY <1>1, <3>2 DEF DeadlinesOf
    <3>4. Around(d, n, i)
      BY <1>1, AroundIs
    <3> HIDE DEF d, e, y
    <3>5. ~(d[i] <= d[c]) /\ \A j \in 2 .. n : j \div 2 = i => d[c] <= d[j]
      BY <1>1, <2>2, <2>4, <3>1, <3>3
    <3>6. Around(e, n, c) /\ e[i] <= e[c]
      BY <1>1, <2>1, <3>2, <3>4, <3>5, SinkOrder
    <3>7. OrderedAround(y.heap, c)
      BY <1>1, <3>1, <3>2, <3>6, AroundIs DEF e
    <3>8. Sink(r) = Moving(y, c) /\ Sink(r).index = y /\ Sink(r).at = c
      BY <1>1, <1>5, <1>7, <2>4 DEF Moving, y
    <3>9. Loops(Sink(r), m, n)
      BY <3>1, <3>2, <3>7, <3>8 DEF Loops
    <3>10. AtTop(Sink(r))
      BY <1>1, <2>1, <3>1, <3>3, <3>6, <3>8 DEF AtTop
    <3>11. QED
      BY <2>1, <3>8, <3>9, <3>10
  <2>5. QED
    BY <2>3, <2>4
<1>8. QED
  BY <1>6, <1>7

\* A timer that is not later than its children stays.
LEMMA SinkRests ==
    ASSUME NEW r, NEW m, NEW n, Loops(r, m, n), AtTop(r), AtBottom(r)
    PROVE  Sink(r) = r
<1> DEFINE h == r.index.heap
           left == 2 * r.at
           right == left + 1
           c == IF right <= Len(h) /\ h[right].deadline < h[left].deadline THEN right ELSE left
<1>1. n \in Nat /\ n = Len(h) /\ r.at \in 1 .. n
  BY Places DEF Loops
<1>2. Sink(r) = IF left > Len(h) \/ h[r.at].deadline <= h[c].deadline THEN r
                ELSE Moving(swap(r.index, r.at, c), c)
  BY DEF Sink
<1>3. CASE ~(left > n)
  <2>1. c = left \/ (c = right /\ right <= n)
    BY <1>1
  <2> HIDE DEF c
  <2>2. c \in 2 .. n /\ c \div 2 = r.at
    BY <1>1, <1>3, <2>1, Children
  <2>3. QED
    BY <1>1, <1>2, <2>2 DEF AtBottom
<1>4. QED
  BY <1>1, <1>2, <1>3

\* up leaves a timer that is not earlier than its parent; if the timer was not later
\* than its children it is so in the end.
LEMMA UpResult ==
    ASSUME NEW x, NEW i, NEW m, NEW n, Loops(Moving(x, i), m, n)
    PROVE  /\ Loops(up(x, i), m, n) /\ AtTop(up(x, i))
           /\ AtBottom(Moving(x, i)) => AtBottom(up(x, i))
<1> DEFINE r(k) == Loop("up", Moving(x, i), k)
           Good(k) == /\ Loops(r(k), m, n) /\ (AtTop(r(k)) \/ r(k).at + k <= i)
                      /\ AtBottom(Moving(x, i)) => AtBottom(r(k))
           Bad == {k \in Nat : ~Good(k)}
<1>0. i \in 1 .. n /\ i \in Nat /\ Moving(x, i).at = i
  <2>1. Moving(x, i).at = i
    BY DEF Moving
  <2>2. Moving(x, i).index = x
    BY DEF Moving
  <2>3. n \in Nat
    BY <2>2, Places DEF Loops
  <2>4. QED
    BY <2>1, <2>3 DEF Loops
<1>1. r(0) = Moving(x, i) /\ \A k \in Nat : r(k + 1) = Rise(r(k))
  BY LoopSteps DEF Once
<1> HIDE DEF r
<1>2. Good(0)
  BY <1>0, <1>1
<1>3. ASSUME NEW k \in Nat, Good(k) PROVE Good(k + 1)
  <2>1. r(k + 1) = Rise(r(k))
    BY <1>1
  <2>2. PICK y : y = r(k)
    OBVIOUS
  <2>3. /\ Loops(Rise(y), m, n)
        /\ (Rise(y) = y /\ AtTop(y)) \/ (Rise(y).at < y.at /\ AtBottom(Rise(y)))
    BY <1>3, <2>2, RiseStep
  <2>4. y.at \in Int /\ Rise(y).at \in Int
    BY <1>3, <2>2, <2>3 DEF Loops
  <2>5. AtTop(Rise(y)) \/ Rise(y).at + (k + 1) <= i
    <3>1. CASE Rise(y) = y /\ AtTop(y)
      BY <3>1
    <3>2. CASE Rise(y).at < y.at /\ ~AtTop(y)
      BY <1>0, <1>3, <2>2, <2>4, <3>2
    <3>3. CASE Rise(y).at < y.at /\ AtTop(y)
      <4>1. Rise(y) = y
        BY <3>3, Zenon DEF AtTop, Rise
      <4>2. QED
        BY <2>4, <3>3, <4>1
    <3>4. QED
      BY <2>3, <3>1, <3>2, <3>3
  <2>6. AtBottom(Moving(x, i)) => AtBottom(Rise(y))
    BY <1>3, <2>2, <2>3, Zenon
  <2>7. QED
    BY <2>1, <2>2, <2>3, <2>5, <2>6
<1> HIDE DEF Good
<1>4. \A k \in Nat : Good(k)
  <2>1. SUFFICES ASSUME Bad # {} PROVE FALSE
    OBVIOUS
  <2>2. PICK k \in Bad : \A l \in Bad : k <= l
    BY <2>1, LeastNatural
  <2>3. k # 0 /\ k - 1 \in Nat /\ ~(k <= k - 1)
    BY <1>2, <2>2
  <2>4. Good(k - 1)
    BY <2>2, <2>3
  <2>5. (k - 1) + 1 = k
    OBVIOUS
  <2>6. QED
    BY <1>3, <2>2, <2>3, <2>4, <2>5
<1>5. Good(i)
  BY <1>0, <1>4
<1>6. up(x, i) = r(i)
  BY DEF up, r
<1>7. r(i).at \in Nat /\ r(i).at >= 1
  BY <1>0, <1>5 DEF Good, Loops
<1>8. QED
  BY <1>0, <1>5, <1>6, <1>7 DEF Good

\* A timer that is neither earlier than its parent nor later than its children
\* completes the order.
LEMMA LoopsOrdered ==
    ASSUME NEW r, NEW m, NEW n, Loops(r, m, n), AtTop(r), AtBottom(r)
    PROVE  Ordered(r.index.heap)
<1> SUFFICES ASSUME NEW j \in 2 .. n
             PROVE  r.index.heap[j \div 2].deadline <= r.index.heap[j].deadline
  BY DEF Ordered, Loops
<1>1. n \in Nat
  BY Places DEF Loops
<1>2. CASE j = r.at
  BY <1>1, <1>2 DEF AtTop
<1>3. CASE j \div 2 = r.at
  BY <1>3 DEF AtBottom, Loops
<1>4. CASE j # r.at /\ j \div 2 # r.at
  BY <1>4 DEF Loops, OrderedAround
<1>5. QED
  BY <1>2, <1>3, <1>4

\* down leaves an ordered heap.
LEMMA DownResult ==
    ASSUME NEW x, NEW i, NEW m, NEW n, Loops(Moving(x, i), m, n), AtTop(Moving(x, i))
    PROVE  Carries(down(x, i), m) /\ Ordered(down(x, i).heap)
<1> DEFINE r(k) == Loop("down", Moving(x, i), k)
           Good(k) == Loops(r(k), m, n) /\ AtTop(r(k)) /\ (AtBottom(r(k)) \/ r(k).at >= i + k)
           Bad == {k \in Nat : ~Good(k)}
<1>0. i \in 1 .. n /\ i \in Nat /\ Moving(x, i).at = i /\ Len(x.heap) = n /\ n \in Nat
  <2>1. Moving(x, i).at = i
    BY DEF Moving
  <2>2. Moving(x, i).index = x
    BY DEF Moving
  <2>3. n \in Nat /\ Len(x.heap) = n
    BY <2>2, Places DEF Loops
  <2>4. QED
    BY <2>1, <2>3 DEF Loops
<1>1. r(0) = Moving(x, i) /\ \A k \in Nat : r(k + 1) = Sink(r(k))
  <2>1. \A y : Once("down", y) = Sink(y)
    BY DEF Once
  <2>2. r(0) = Moving(x, i) /\ \A k \in Nat : r(k + 1) = Once("down", r(k))
    BY LoopSteps
  <2> HIDE DEF r
  <2>3. QED
    BY <2>1, <2>2
<1> HIDE DEF r
<1>2. Good(0)
  <2>1. r(0).at = i
    BY <1>0, <1>1, Zenon
  <2>2. Loops(r(0), m, n) /\ AtTop(r(0))
    BY <1>1
  <2>3. i >= i + 0
    BY <1>0
  <2>4. QED
    BY <2>1, <2>2, <2>3, Zenon
<1>3. ASSUME NEW k \in Nat, Good(k) PROVE Good(k + 1)
  <2>1. r(k + 1) = Sink(r(k))
    BY <1>1
  <2>2. PICK y : y = r(k)
    OBVIOUS
  <2>3. /\ Loops(Sink(y), m, n) /\ AtTop(Sink(y))
        /\ (Sink(y) = y /\ AtBottom(y)) \/ Sink(y).at > y.at
    BY <1>3, <2>2, SinkStep
  <2>4. y.at \in Int /\ Sink(y).at \in Int
    BY <1>3, <2>2, <2>3 DEF Loops
  <2>5. AtBottom(Sink(y)) \/ Sink(y).at >= i + (k + 1)
    <3>1. CASE Sink(y) = y /\ AtBottom(y)
      BY <3>1
    <3>2. CASE Sink(y).at > y.at /\ ~AtBottom(y)
      BY <1>0, <1>3, <2>2, <2>4, <3>2
    <3>3. CASE Sink(y).at > y.at /\ AtBottom(y)
      <4>1. Sink(y) = y
        BY <1>3, <2>2, <3>3, SinkRests
      <4>2. QED
        BY <2>4, <3>3, <4>1
    <3>4. QED
      BY <2>3, <3>1, <3>2, <3>3
  <2>6. QED
    BY <2>1, <2>2, <2>3, <2>5
<1> HIDE DEF Good
<1>4. \A k \in Nat : Good(k)
  <2>1. SUFFICES ASSUME Bad # {} PROVE FALSE
    OBVIOUS
  <2>2. PICK k \in Bad : \A l \in Bad : k <= l
    BY <2>1, LeastNatural
  <2>3. k # 0 /\ k - 1 \in Nat /\ ~(k <= k - 1)
    BY <1>2, <2>2
  <2>4. Good(k - 1)
    BY <2>2, <2>3
  <2>5. (k - 1) + 1 = k
    OBVIOUS
  <2>6. QED
    BY <1>3, <2>2, <2>3, <2>4, <2>5
<1>5. Good(n)
  BY <1>0, <1>4
<1>6. down(x, i) = r(n).index
  BY <1>0 DEF down, r
<1>7. PICK y : y = r(n)
  OBVIOUS
<1>8. y.at \in 1 .. n /\ Loops(y, m, n) /\ AtTop(y) /\ AtBottom(y)
  BY <1>0, <1>5, <1>7 DEF Good, Loops
<1>9. Ordered(y.index.heap)
  BY <1>8, LoopsOrdered
<1>10. QED
  BY <1>6, <1>7, <1>8, <1>9 DEF Loops

\* Both, after any change of the timer at i.
LEMMA SettleResult ==
    ASSUME NEW x, NEW i, NEW m, Carries(x, m), i \in 1 .. Len(x.heap), OrderedAround(x.heap, i)
    PROVE  Carries(Settle(x, i), m) /\ Ordered(Settle(x, i).heap)
<1> DEFINE n == Len(x.heap)
<1>1. Loops(Moving(x, i), m, n)
  BY DEF Loops, Moving
<1>2. PICK r : r = up(x, i)
  OBVIOUS
<1>3. Loops(r, m, n) /\ AtTop(r)
  BY <1>1, <1>2, UpResult
<1>4. r = Moving(r.index, r.at)
  BY <1>3 DEF Loops
<1>5. Carries(down(r.index, r.at), m) /\ Ordered(down(r.index, r.at).heap)
  BY <1>3, <1>4, DownResult
<1>6. QED
  BY <1>2, <1>5 DEF Settle

(***************************************************************************)
(* The operations.                                                         *)
(***************************************************************************)
\* The map with one deadline set, and with one key taken out.
With(m, key, deadline) ==
    [k \in DOMAIN m \cup {key} |-> IF k = key THEN deadline ELSE m[k]]

Without(m, key) == [k \in DOMAIN m \ {key} |-> m[k]]

\* In an ordered heap any one timer may be changed, and the last ones left out.
LEMMA OrderedAllowsChange ==
    ASSUME NEW h \in Seq(Timers), NEW g, Len(g) \in 0 .. Len(h), NEW i \in 1 .. Len(g), Ordered(h),
           \A l \in 1 .. Len(g) : l # i => g[l] = h[l]
    PROVE  OrderedAround(g, i)
<1> DEFINE n == Len(g)
           d(l) == h[l].deadline
<1>0. n \in Nat /\ Len(h) \in Nat /\ n <= Len(h)
  OBVIOUS
<1>1. \A l \in 1 .. n : h[l] \in Timers /\ d(l) \in Int
  <2>1. \A l \in 1 .. n : h[l] \in Timers
    BY <1>0
  <2>2. QED
    BY <2>1 DEF Timers
<1>o. \A j \in 2 .. n : h[j \div 2].deadline <= h[j].deadline
  BY <1>0 DEF Ordered
<1>2. ASSUME NEW j \in 2 .. n, j # i, j \div 2 # i PROVE g[j \div 2].deadline <= g[j].deadline
  <2>1. j \div 2 \in 1 .. n /\ j \in 1 .. n
    BY <1>0, Parent
  <2>2. g[j] = h[j] /\ g[j \div 2] = h[j \div 2]
    BY <1>2, <2>1
  <2>3. QED
    BY <1>o, <2>2
<1>3. ASSUME i > 1, NEW j \in 2 .. n, j \div 2 = i PROVE g[i \div 2].deadline <= g[j].deadline
  <2>1. i \div 2 \in 1 .. n /\ i \div 2 # i /\ j # i /\ j \in 1 .. n /\ i \in 2 .. n
    BY <1>0, <1>3, Parent
  <2>2. g[j] = h[j] /\ g[i \div 2] = h[i \div 2]
    BY <2>1
  <2>3. d(i \div 2) <= d(i) /\ d(i) <= d(j)
    BY <1>o, <1>3, <2>1
  <2>4. d(i \div 2) \in Int /\ d(i) \in Int /\ d(j) \in Int
    BY <1>1, <2>1
  <2> HIDE DEF d
  <2>5. d(i \div 2) <= d(j)
    BY <2>3, <2>4
  <2>6. QED
    BY <2>2, <2>5 DEF d
<1>4. QED
  BY <1>2, <1>3 DEF OrderedAround

\* set, for a key that has a timer.
LEMMA SetAgain ==
    ASSUME NEW m, Carries(Index(heap, positions), m), Ordered(heap),
           NEW key \in Keys, NEW deadline \in Int, key \in DOMAIN positions
    PROVE  /\ Carries(SetTimer(key, deadline), With(m, key, deadline))
           /\ Ordered(SetTimer(key, deadline).heap)
<1> DEFINE n == Len(heap)
           i == positions[key]
           h == [heap EXCEPT ![i].deadline = deadline]
           m2 == With(m, key, deadline)
<1>1. Index(heap, positions).heap = heap /\ Index(heap, positions).positions = positions
  BY DEF Index
<1>2. /\ heap \in Seq(Timers) /\ positions \in [DOMAIN m -> 1 .. n]
      /\ \A k \in DOMAIN m : heap[positions[k]] = Timer(k, m[k])
      /\ \A l \in 1 .. n : heap[l].key \in DOMAIN m /\ positions[heap[l].key] = l
  BY <1>1 DEF Carries
<1>3. key \in DOMAIN m /\ i \in 1 .. n /\ heap[i] = Timer(key, m[key])
  BY <1>2
<1>4. h \in Seq(Timers) /\ Len(h) = n /\ \A l \in 1 .. n : h[l] = IF l = i THEN Timer(key, deadline) ELSE heap[l]
  <2>1. DOMAIN heap = 1 .. n /\ \A l \in 1 .. n : heap[l] \in Timers
    BY <1>2
  <2>2. Timer(key, deadline) \in Timers
    BY DEF Timer, Timers
  <2>3. [heap[i] EXCEPT !.deadline = deadline] = Timer(key, deadline)
    BY <1>3 DEF Timer
  <2>4. h = [l \in 1 .. n |-> IF l = i THEN Timer(key, deadline) ELSE heap[l]]
    BY <2>1, <2>3
  <2> HIDE DEF h
  <2>5. h \in [1 .. n -> Timers] /\ n \in Nat
    BY <1>2, <2>1, <2>2, <2>4
  <2>6. h \in Seq(Timers) /\ Len(h) = n
    BY <2>5
  <2>7. QED
    BY <2>4, <2>6
<1>5. DOMAIN m2 = DOMAIN m /\ m2[key] = deadline /\ \A k \in DOMAIN m : k # key => m2[k] = m[k]
  BY <1>3 DEF With
<1> HIDE DEF h, m2
<1>6. Carries(Index(h, positions), m2)
  <2>1. Index(h, positions).heap = h /\ Index(h, positions).positions = positions
    BY DEF Index
  <2>2. ASSUME NEW k \in DOMAIN m2 PROVE h[positions[k]] = Timer(k, m2[k])
    <3>1. CASE k = key
      BY <1>3, <1>4, <1>5, <3>1
    <3>2. CASE k # key
      <4>1. positions[k] \in 1 .. n /\ heap[positions[k]] = Timer(k, m[k])
        BY <1>2, <1>5
      <4>2. heap[positions[k]].key = k /\ heap[i].key = key
        BY <1>3, <4>1 DEF Timer
      <4>3. QED
        BY <1>4, <1>5, <3>2, <4>1, <4>2
    <3>3. QED
      BY <3>1, <3>2
  <2>3. ASSUME NEW l \in 1 .. n PROVE h[l].key \in DOMAIN m2 /\ positions[h[l].key] = l
    <3>1. h[l].key = heap[l].key
      BY <1>3, <1>4 DEF Timer
    <3>2. QED
      BY <1>2, <1>5, <3>1
  <2>4. QED
    BY <1>2, <1>4, <1>5, <2>1, <2>2, <2>3 DEF Carries
<1>7. OrderedAround(h, i)
  <2>1. Len(h) \in 0 .. Len(heap) /\ i \in 1 .. Len(h)
    BY <1>2, <1>3, <1>4
  <2>2. \A l \in 1 .. Len(h) : l # i => h[l] = heap[l]
    BY <1>4
  <2>3. QED
    BY <1>2, <2>1, <2>2, OrderedAllowsChange
<1>8. SetTimer(key, deadline) = Settle(Index(h, positions), i)
  BY DEF SetTimer, h
<1>9. Index(h, positions).heap = h
  BY DEF Index
<1>10. QED
  BY <1>3, <1>4, <1>6, <1>7, <1>8, <1>9, SettleResult DEF m2

\* set, for a key that has none.
LEMMA SetFirst ==
    ASSUME NEW m, Carries(Index(heap, positions), m), Ordered(heap),
           NEW key \in Keys, NEW deadline \in Int, key \notin DOMAIN positions
    PROVE  /\ Carries(SetTimer(key, deadline), With(m, key, deadline))
           /\ Ordered(SetTimer(key, deadline).heap)
<1> DEFINE n == Len(heap)
           i == n + 1
           h == Append(heap, Timer(key, deadline))
           p == At(positions, key, i)
           m2 == With(m, key, deadline)
           x == Index(h, p)
<1>1. Index(heap, positions).heap = heap /\ Index(heap, positions).positions = positions
  BY DEF Index
<1>2. /\ heap \in Seq(Timers) /\ positions \in [DOMAIN m -> 1 .. n] /\ n \in Nat
      /\ \A k \in DOMAIN m : heap[positions[k]] = Timer(k, m[k])
      /\ \A l \in 1 .. n : heap[l].key \in DOMAIN m /\ positions[heap[l].key] = l
  BY <1>1 DEF Carries
<1>3. key \notin DOMAIN m /\ DOMAIN positions = DOMAIN m
  BY <1>2
<1>4. /\ h \in Seq(Timers) /\ Len(h) = i /\ h[i] = Timer(key, deadline)
      /\ \A l \in 1 .. n : h[l] = heap[l]
  <2>1. Timer(key, deadline) \in Timers
    BY DEF Timer, Timers
  <2>2. QED
    BY <1>2, <2>1
<1>5. /\ DOMAIN m2 = DOMAIN m \cup {key} /\ m2[key] = deadline
      /\ \A k \in DOMAIN m : m2[k] = m[k]
  BY <1>3 DEF With
<1>6. /\ p \in [DOMAIN m \cup {key} -> 1 .. i] /\ p[key] = i
      /\ \A k \in DOMAIN m : p[k] = positions[k]
  <2>1. p = [k \in DOMAIN m \cup {key} |-> IF k = key THEN i ELSE positions[k]]
    BY <1>3 DEF At
  <2>2. i \in 1 .. i /\ \A k \in DOMAIN m : positions[k] \in 1 .. i
    BY <1>2
  <2>3. QED
    BY <1>3, <2>1, <2>2
<1>7. x.heap = h /\ x.positions = p /\ x = Index(x.heap, x.positions)
  BY DEF Index
<1>8. SetTimer(key, deadline) = up(x, i).index
  BY DEF SetTimer
<1> HIDE DEF h, p, m2, x
<1>9. Carries(x, m2)
  <2>1. ASSUME NEW k \in DOMAIN m2 PROVE h[p[k]] = Timer(k, m2[k])
    BY <1>2, <1>4, <1>5, <1>6
  <2>2. ASSUME NEW l \in 1 .. i PROVE h[l].key \in DOMAIN m2 /\ p[h[l].key] = l
    <3>1. CASE l = i
      BY <1>4, <1>5, <1>6, <3>1 DEF Timer
    <3>2. CASE l # i
      <4>1. l \in 1 .. n
        BY <1>2, <3>2
      <4>2. h[l] = heap[l] /\ heap[l].key \in DOMAIN m /\ positions[heap[l].key] = l
        BY <1>2, <1>4, <4>1, Zenon
      <4>3. QED
        BY <1>5, <1>6, <4>2
    <3>3. QED
      BY <3>1, <3>2
  <2>3. QED
    BY <1>4, <1>5, <1>6, <1>7, <2>1, <2>2 DEF Carries
<1>10. OrderedAround(h, i)
  <2>1. ASSUME NEW j \in 2 .. i, j # i PROVE h[j \div 2].deadline <= h[j].deadline
    <3>1. j \in 2 .. n /\ j \in 1 .. n /\ j \div 2 \in 1 .. n
      BY <1>2, <2>1, Parent
    <3>2. QED
      BY <1>4, <3>1 DEF Ordered
  <2>2. ASSUME NEW j \in 2 .. i, j \div 2 = i PROVE FALSE
    BY <1>2, <2>2, Parent
  <2>3. QED
    BY <1>4, <2>1, <2>2 DEF OrderedAround
<1>11. Moving(x, i).index = x /\ Moving(x, i).at = i /\ Moving(x, i) = Moving(x, i)
  BY DEF Moving
<1>12. Loops(Moving(x, i), m2, i)
  BY <1>2, <1>4, <1>7, <1>9, <1>10, <1>11 DEF Loops
<1>13. AtBottom(Moving(x, i))
  <2>1. ASSUME NEW j \in 2 .. i, j \div 2 = i PROVE FALSE
    BY <1>2, <2>1, Parent
  <2>2. QED
    BY <1>4, <1>7, <1>11, <2>1 DEF AtBottom
<1>14. PICK r : r = up(x, i)
  OBVIOUS
<1>15. Loops(r, m2, i) /\ AtTop(r) /\ AtBottom(r)
  BY <1>12, <1>13, <1>14, UpResult
<1>16. Ordered(r.index.heap)
  BY <1>15, LoopsOrdered
<1>17. QED
  BY <1>8, <1>14, <1>15, <1>16 DEF Loops, m2

\* swap_remove, place by place.
LEMMA SwapRemove ==
    ASSUME NEW h \in Seq(Timers), NEW i \in 1 .. Len(h)
    PROVE  /\ swap_remove(h, i) \in Seq(Timers) /\ Len(swap_remove(h, i)) = Len(h) - 1
           /\ \A l \in 1 .. Len(h) - 1 : swap_remove(h, i)[l] = IF l = i THEN h[Len(h)] ELSE h[l]
<1> DEFINE n == Len(h)
           g == [h EXCEPT ![i] = h[n]]
<1>1. n \in Nat /\ DOMAIN h = 1 .. n /\ \A l \in 1 .. n : h[l] \in Timers
  OBVIOUS
<1>2. g \in Seq(Timers) /\ Len(g) = n /\ \A l \in 1 .. n : g[l] = IF l = i THEN h[n] ELSE h[l]
  BY <1>1
<1> HIDE DEF g
<1>3. n - 1 \in 0 .. n /\ 1 .. n - 1 \subseteq 1 .. n
  BY <1>1
<1>4. SubSeq(g, 1, n - 1) \in Seq(Timers) /\ Len(SubSeq(g, 1, n - 1)) = n - 1
      /\ \A l \in 1 .. n - 1 : SubSeq(g, 1, n - 1)[l] = g[l]
  <2>1. n - 1 \in Int /\ \A l \in 1 .. n - 1 : g[l] \in Timers
    BY <1>1, <1>2, <1>3
  <2>2. PICK s : s = SubSeq(g, 1, n - 1)
    OBVIOUS
  <2>3. /\ s \in Seq(Timers) /\ Len(s) = IF 1 <= n - 1 THEN (n - 1) - 1 + 1 ELSE 0
        /\ \A l \in 1 .. (n - 1) - 1 + 1 : s[l] = g[1 + l - 1]
    BY <2>1, <2>2, SubSeqProperties
  <2>4. (n - 1) - 1 + 1 = n - 1 /\ \A l \in 1 .. n - 1 : 1 + l - 1 = l
    BY <1>1
  <2>5. Len(s) = n - 1
    <3>1. n - 1 \in Nat /\ (~(1 <= n - 1) => n - 1 = 0)
      BY <1>1
    <3>2. QED
      BY <2>3, <2>4, <3>1, Zenon
  <2>6. ASSUME NEW l \in 1 .. n - 1 PROVE s[l] = g[l]
    <3>1. l \in 1 .. (n - 1) - 1 + 1 /\ 1 + l - 1 = l
      BY <2>4, Zenon
    <3>2. s[l] = g[1 + l - 1]
      BY <2>3, <3>1, Zenon
    <3>3. QED
      BY <3>1, <3>2, Zenon
  <2>7. QED
    BY <2>2, <2>3, <2>5, <2>6
<1>5. QED
  BY <1>2, <1>3, <1>4 DEF swap_remove, g

\* remove, for a key that has a timer.
LEMMA RemoveHeld ==
    ASSUME NEW m, Carries(Index(heap, positions), m), Ordered(heap), NEW key \in DOMAIN positions
    PROVE  Carries(RemoveTimer(key), Without(m, key)) /\ Ordered(RemoveTimer(key).heap)
<1> DEFINE n == Len(heap)
           i == positions[key]
           h == swap_remove(heap, i)
           p == [k \in DOMAIN positions \ {key} |-> positions[k]]
           q == At(p, h[i].key, i)
           m2 == Without(m, key)
<1>1. Index(heap, positions).heap = heap /\ Index(heap, positions).positions = positions
  BY DEF Index
<1>2. /\ heap \in Seq(Timers) /\ positions \in [DOMAIN m -> 1 .. n] /\ n \in Nat
      /\ \A k \in DOMAIN m : heap[positions[k]] = Timer(k, m[k])
      /\ \A l \in 1 .. n : heap[l].key \in DOMAIN m /\ positions[heap[l].key] = l
  BY <1>1 DEF Carries
<1>3. DOMAIN positions = DOMAIN m /\ key \in DOMAIN m /\ i \in 1 .. n
  BY <1>2
<1>4. ASSUME NEW k \in DOMAIN m PROVE heap[positions[k]].key = k /\ positions[k] \in 1 .. n
  <2>1. heap[positions[k]] = Timer(k, m[k]) /\ positions[k] \in 1 .. n
    BY <1>2
  <2>2. QED
    BY <2>1 DEF Timer
<1>5. /\ h \in Seq(Timers) /\ Len(h) = n - 1
      /\ \A l \in 1 .. n - 1 : h[l] = IF l = i THEN heap[n] ELSE heap[l]
  BY <1>2, <1>3, SwapRemove
<1>6. RemoveTimer(key) = IF i > Len(h) THEN Index(h, p) ELSE Settle(Index(h, q), i)
  BY <1>3 DEF RemoveTimer
<1>7. DOMAIN m2 = DOMAIN m \ {key} /\ \A k \in DOMAIN m2 : k \in DOMAIN m /\ k # key /\ m2[k] = m[k]
  BY DEF Without
<1>8. DOMAIN p = DOMAIN m2 /\ \A k \in DOMAIN m2 : p[k] = positions[k]
  BY <1>3, <1>7
<1>9. \A l \in 1 .. n - 1 : l \in 1 .. n /\ l # n
  BY <1>2
<1> HIDE DEF h, p, m2
<1>10. CASE i > Len(h)
  <2>1. i = n
    BY <1>2, <1>3, <1>5, <1>10
  <2>2. \A l \in 1 .. n - 1 : h[l] = heap[l]
    BY <1>5, <1>9, <2>1
  <2>3. \A k \in DOMAIN m2 : p[k] \in 1 .. n - 1 /\ p[k] = positions[k]
    <3> SUFFICES ASSUME NEW k \in DOMAIN m2 PROVE positions[k] \in 1 .. n - 1
      BY <1>8
    <3>1. positions[k] \in 1 .. n /\ positions[k] # n
      BY <1>3, <1>4, <1>7, <2>1
    <3>2. QED
      BY <1>2, <3>1
  <2>4. p \in [DOMAIN m2 -> 1 .. n - 1]
    <3>1. p = [k \in DOMAIN m2 |-> p[k]]
      BY <1>3, <1>7 DEF p
    <3>2. QED
      BY <2>3, <3>1
  <2>5. \A k \in DOMAIN m2 : h[p[k]] = Timer(k, m2[k])
    BY <1>2, <1>7, <2>2, <2>3
  <2>6. ASSUME NEW l \in 1 .. n - 1 PROVE h[l].key \in DOMAIN m2 /\ p[h[l].key] = l
    <3>1. heap[l].key \in DOMAIN m /\ positions[heap[l].key] = l
      BY <1>2, <1>9
    <3>2. heap[l].key # key
      BY <1>9, <2>1, <3>1
    <3>3. QED
      BY <1>7, <1>8, <2>2, <3>1, <3>2
  <2>7. Index(h, p).heap = h /\ Index(h, p).positions = p
    BY DEF Index
  <2>8. Carries(Index(h, p), m2)
    BY <1>5, <2>4, <2>5, <2>6, <2>7 DEF Carries
  <2>9. Ordered(h)
    <3> SUFFICES ASSUME NEW j \in 2 .. n - 1 PROVE h[j \div 2].deadline <= h[j].deadline
      BY <1>5 DEF Ordered
    <3>1. j \in 1 .. n - 1 /\ j \div 2 \in 1 .. n - 1 /\ j \in 2 .. n
      BY <1>2, Parent
    <3>2. QED
      BY <2>2, <3>1 DEF Ordered
  <2>10. QED
    BY <1>6, <1>10, <2>7, <2>8, <2>9 DEF m2
<1>11. CASE ~(i > Len(h))
  <2>1. i \in 1 .. n - 1 /\ i # n /\ n \in 1 .. n /\ n >= 1
    BY <1>2, <1>3, <1>5, <1>11
  <2> DEFINE b == heap[n].key
  <2>2. h[i] = heap[n] /\ \A l \in 1 .. n - 1 : l # i => h[l] = heap[l]
    BY <1>5, <2>1
  <2>3. b \in DOMAIN m /\ positions[b] = n /\ b # key /\ b \in DOMAIN m2
    <3>1. b \in DOMAIN m /\ positions[b] = n
      BY <1>2, <2>1
    <3>2. QED
      BY <1>7, <2>1, <3>1
  <2>4. q = [k \in DOMAIN m2 |-> IF k = b THEN i ELSE positions[k]]
    <3>1. q = [k \in DOMAIN p \cup {b} |-> IF k = b THEN i ELSE p[k]]
      BY <2>2 DEF At
    <3>2. DOMAIN p \cup {b} = DOMAIN m2
      BY <1>8, <2>3
    <3>3. QED
      BY <1>8, <3>1, <3>2
  <2> HIDE DEF q, b
  <2>5. \A k \in DOMAIN m2 : k # b => positions[k] \in 1 .. n - 1 /\ positions[k] # i
    <3> SUFFICES ASSUME NEW k \in DOMAIN m2, k # b
                 PROVE  positions[k] \in 1 .. n - 1 /\ positions[k] # i
      OBVIOUS
    <3>1. k \in DOMAIN m /\ k # key /\ heap[positions[k]].key = k /\ positions[k] \in 1 .. n
      BY <1>4, <1>7
    <3>2. positions[k] # n /\ positions[k] # i
      BY <1>3, <1>4, <3>1 DEF b
    <3>3. QED
      BY <1>2, <3>1, <3>2
  <2>6. q \in [DOMAIN m2 -> 1 .. n - 1]
    BY <2>1, <2>4, <2>5
  <2>7. ASSUME NEW k \in DOMAIN m2 PROVE h[q[k]] = Timer(k, m2[k])
    <3>1. heap[positions[k]] = Timer(k, m2[k])
      BY <1>2, <1>7
    <3>2. CASE k = b
      BY <2>2, <2>3, <2>4, <3>1, <3>2
    <3>3. CASE k # b
      BY <2>2, <2>4, <2>5, <3>1, <3>3
    <3>4. QED
      BY <3>2, <3>3
  <2>8. ASSUME NEW l \in 1 .. n - 1 PROVE h[l].key \in DOMAIN m2 /\ q[h[l].key] = l
    <3>1. CASE l = i
      BY <2>2, <2>3, <2>4, <3>1 DEF b
    <3>2. CASE l # i
      <4>1. h[l] = heap[l] /\ heap[l].key \in DOMAIN m /\ positions[heap[l].key] = l
        BY <1>2, <1>9, <2>2, <3>2
      <4>2. heap[l].key # key /\ heap[l].key # b
        BY <1>9, <2>3, <3>2, <4>1
      <4>3. QED
        BY <1>7, <2>4, <4>1, <4>2
    <3>3. QED
      BY <3>1, <3>2
  <2>9. Index(h, q).heap = h /\ Index(h, q).positions = q
    BY DEF Index
  <2>10. Carries(Index(h, q), m2)
    BY <1>5, <2>6, <2>7, <2>8, <2>9 DEF Carries
  <2>11. OrderedAround(h, i)
    <3>1. Len(h) \in 0 .. Len(heap) /\ i \in 1 .. Len(h)
      BY <1>2, <1>5, <2>1
    <3>2. \A l \in 1 .. Len(h) : l # i => h[l] = heap[l]
      BY <1>5, <2>2
    <3>3. QED
      BY <1>2, <3>1, <3>2, OrderedAllowsChange
  <2>12. i \in 1 .. Len(Index(h, q).heap) /\ OrderedAround(Index(h, q).heap, i)
    BY <1>5, <2>1, <2>9, <2>11
  <2>13. Carries(Settle(Index(h, q), i), m2) /\ Ordered(Settle(Index(h, q), i).heap)
    BY <2>10, <2>12, SettleResult
  <2>14. QED
    BY <1>6, <1>11, <2>13 DEF m2
<1>12. QED
  BY <1>10, <1>11

\* remove, for any key.
LEMMA RemoveResult ==
    ASSUME NEW m, Carries(Index(heap, positions), m), m = [k \in DOMAIN m |-> m[k]],
           Ordered(heap), NEW key
    PROVE  Carries(RemoveTimer(key), Without(m, key)) /\ Ordered(RemoveTimer(key).heap)
<1>1. CASE key \in DOMAIN positions
  BY <1>1, RemoveHeld
<1>2. CASE key \notin DOMAIN positions
  <2>1. RemoveTimer(key) = Index(heap, positions) /\ Index(heap, positions).heap = heap
    BY <1>2 DEF RemoveTimer, Index
  <2>2. DOMAIN positions = DOMAIN m
    BY DEF Carries, Index
  <2>3. Without(m, key) = m
    <3>1. DOMAIN m \ {key} = DOMAIN m
      BY <1>2, <2>2
    <3>2. QED
      BY <3>1 DEF Without
  <2>4. QED
    BY <2>1, <2>3
<1>3. QED
  BY <1>1, <1>2

\* The root is earliest.
LEMMA RootIsEarliest ==
    ASSUME NEW h \in Seq(Timers), Ordered(h), NEW j \in 1 .. Len(h)
    PROVE  h[1].deadline <= h[j].deadline
<1> DEFINE n == Len(h)
           Bad == {l \in Nat : l \in 1 .. n /\ ~(h[1].deadline <= h[l].deadline)}
<1>1. n \in Nat /\ \A l \in 1 .. n : h[l] \in Timers
  OBVIOUS
<1>2. \A l \in 1 .. n : h[l].deadline \in Int
  BY <1>1 DEF Timers
<1>3. SUFFICES ASSUME Bad # {} PROVE FALSE
  BY <1>1
<1>4. PICK b \in Bad : \A k \in Bad : b <= k
  BY <1>3, LeastNatural
<1>5. b \in 1 .. n /\ ~(h[1].deadline <= h[b].deadline) /\ 1 \in 1 .. n
  BY <1>1, <1>4
<1>6. b # 1
  BY <1>2, <1>5
<1>7. b \in 2 .. n /\ b \div 2 \in Nat /\ b \div 2 \in 1 .. n /\ b \div 2 < b
  BY <1>1, <1>5, <1>6, Parent
<1>8. h[1].deadline <= h[b \div 2].deadline
  BY <1>4, <1>7
<1>9. h[b \div 2].deadline <= h[b].deadline
  BY <1>7 DEF Ordered
<1>10. PICK u \in Int, v \in Int, w \in Int :
         u = h[1].deadline /\ v = h[b \div 2].deadline /\ w = h[b].deadline
  BY <1>2, <1>5, <1>7
<1>11. u <= v /\ v <= w /\ ~(u <= w)
  BY <1>5, <1>8, <1>9, <1>10, Zenon
<1>12. QED
  BY <1>11

-----------------------------------------------------------------------------
(***************************************************************************)
(* The specification.                                                      *)
(***************************************************************************)
\* An index that carries m stands for m.
LEMMA HoldsMap ==
    ASSUME NEW y, NEW m, Carries(y, m), Ordered(y.heap), m = [k \in DOMAIN m |-> m[k]], Becomes(y)
    PROVE  IInv' /\ Held' = m
<1>1. heap' = y.heap /\ positions' = y.positions /\ y = Index(y.heap, y.positions)
  BY DEF Becomes, Carries
<1>2. DOMAIN y.positions = DOMAIN m /\ \A k \in DOMAIN m : y.heap[y.positions[k]] = Timer(k, m[k])
  BY DEF Carries
<1>3. ASSUME NEW k \in DOMAIN m PROVE y.heap[y.positions[k]].deadline = m[k]
  <2>1. y.heap[y.positions[k]] = Timer(k, m[k])
    BY <1>2, Zenon
  <2>2. Timer(k, m[k]).deadline = m[k]
    BY DEF Timer
  <2>3. QED
    BY <2>1, <2>2
<1>4. [k \in DOMAIN y.positions |-> y.heap[y.positions[k]].deadline] = [k \in DOMAIN m |-> m[k]]
  BY <1>2, <1>3, Zenon
<1>5. Held' = m
  BY <1>1, <1>4 DEF Held
<1>6. Index(heap, positions)' = y
  BY <1>1 DEF Index
<1>7. QED
  BY <1>1, <1>5, <1>6 DEF IInv

\* set sets one deadline.
LEMMA SetStep ==
    ASSUME IInv, NEW key \in Keys, NEW deadline \in Int, Becomes(SetTimer(key, deadline))
    PROVE  IInv' /\ Held' = With(Held, key, deadline)
<1>1. PICK y : y = SetTimer(key, deadline)
  OBVIOUS
<1>2. Carries(y, With(Held, key, deadline)) /\ Ordered(y.heap)
  BY <1>1, SetAgain, SetFirst DEF IInv
<1>3. PICK m : m = With(Held, key, deadline) /\ m = [k \in DOMAIN m |-> m[k]]
  BY DEF With
<1>4. QED
  BY <1>1, <1>2, <1>3, HoldsMap

\* remove takes one key out.
LEMMA RemoveStep ==
    ASSUME IInv, NEW key, Becomes(RemoveTimer(key))
    PROVE  IInv' /\ Held' = Without(Held, key)
<1>1. PICK y : y = RemoveTimer(key)
  OBVIOUS
<1>2. Held = [k \in DOMAIN Held |-> Held[k]]
  BY DEF Held
<1>3. Carries(y, Without(Held, key)) /\ Ordered(y.heap)
  BY <1>1, <1>2, RemoveResult DEF IInv
<1>4. PICK m : m = Without(Held, key) /\ m = [k \in DOMAIN m |-> m[k]]
  BY DEF Without
<1>5. QED
  BY <1>1, <1>3, <1>4, HoldsMap

\* What expired hands out is an earliest key, and due.
LEMMA ExpiredIsEarliest ==
    ASSUME IInv, NEW now \in Int, NEW key \in expired(now)
    PROVE  /\ key \in DOMAIN Held /\ Held[key] <= now
           /\ \A k \in DOMAIN Held : Held[key] <= Held[k]
<1>1. Index(heap, positions).heap = heap /\ Index(heap, positions).positions = positions
  BY DEF Index
<1>2. /\ heap \in Seq(Timers) /\ positions \in [DOMAIN Held -> 1 .. Len(heap)]
      /\ \A l \in 1 .. Len(heap) : heap[l].key \in DOMAIN Held /\ positions[heap[l].key] = l
  BY <1>1 DEF IInv, Carries
<1>3. \A k \in DOMAIN Held : Held[k] = heap[positions[k]].deadline /\ positions[k] \in 1 .. Len(heap)
  BY <1>2 DEF Held
<1>4. 1 \in 1 .. Len(heap) /\ key = heap[1].key /\ heap[1].deadline <= now
  BY <1>2 DEF expired
<1>5. key \in DOMAIN Held /\ positions[key] = 1 /\ Held[key] = heap[1].deadline
  BY <1>2, <1>3, <1>4
<1>6. ASSUME NEW k \in DOMAIN Held PROVE Held[key] <= Held[k]
  <2>1. heap[1].deadline <= heap[positions[k]].deadline
    BY <1>2, <1>3, RootIsEarliest DEF IInv
  <2>2. QED
    BY <1>3, <1>5, <2>1
<1>7. QED
  BY <1>4, <1>5, <1>6

\* Nothing is held at the start.
LEMMA InitIInv ==
    ASSUME Init
    PROVE  IInv /\ Held = [k \in {} |-> 0]
<1>1. heap = <<>> /\ Len(heap) = 0 /\ heap \in Seq(Timers) /\ DOMAIN positions = {}
  BY DEF Init
<1>2. Held = [k \in {} |-> 0] /\ DOMAIN Held = {}
  BY <1>1 DEF Held
<1>3. positions \in [DOMAIN Held -> 1 .. Len(heap)]
  BY <1>1, <1>2 DEF Init
<1>4. 1 .. Len(heap) = {} /\ 2 .. Len(heap) = {}
  BY <1>1
<1>5. Index(heap, positions).heap = heap /\ Index(heap, positions).positions = positions
  BY DEF Index
<1>6. Carries(Index(heap, positions), Held)
  BY <1>1, <1>2, <1>3, <1>4, <1>5 DEF Carries
<1>7. QED
  BY <1>2, <1>4, <1>6 DEF IInv, Ordered

\* Every step keeps the invariant and is a step of TimerMap, or leaves it unchanged.
LEMMA NextIInv ==
    ASSUME IInv, [Next]_vars
    PROVE  IInv' /\ ([Map!Next]_<<Held, taken>>)
<1>1. ASSUME NEW key \in Keys, NEW deadline \in Deadlines, Set(key, deadline)
      PROVE  IInv' /\ Map!Set(key, deadline)
  <2>1. deadline \in Int
    BY ExpiryIndexAssumption
  <2>2. IInv' /\ Held' = With(Held, key, deadline) /\ taken' = <<>>
    BY <1>1, <2>1, SetStep DEF Set
  <2>3. QED
    BY <2>2 DEF Map!Set, With, Held
<1>2. ASSUME NEW key \in Keys, Remove(key)
      PROVE  IInv' /\ Map!Remove(key)
  <2>1. IInv' /\ Held' = Without(Held, key) /\ taken' = <<>>
    BY <1>2, RemoveStep DEF Remove
  <2>2. QED
    BY <2>1 DEF Map!Remove, Map!Without, Without, Held
<1>3. ASSUME NEW now \in Times, TakeExpired(now)
      PROVE  IInv' /\ Map!TakeExpired(now)
  <2>1. PICK key \in expired(now) : Becomes(RemoveTimer(key)) /\ taken' = <<key, now>>
    BY <1>3 DEF TakeExpired
  <2>2. IInv' /\ Held' = Without(Held, key)
    BY <2>1, RemoveStep
  <2>3. now \in Int
    BY ExpiryIndexAssumption
  <2>4. /\ key \in DOMAIN Held /\ Held[key] <= now
        /\ \A k \in DOMAIN Held : Held[key] <= Held[k]
    BY <2>1, <2>3, ExpiredIsEarliest
  <2>5. QED
    BY <2>1, <2>2, <2>4 DEF Map!TakeExpired, Map!Without, Without, Held
<1>4. CASE UNCHANGED vars
  BY <1>4 DEF vars, IInv, Carries, Ordered, Index, Held
<1>5. QED
  BY <1>1, <1>2, <1>3, <1>4 DEF Next, Map!Next

\* The invariant says that the heap is sound.
LEMMA IInvHeapSound ==
    ASSUME IInv
    PROVE  HeapSound
<1> DEFINE n == Len(heap)
           f == [i \in 1 .. n |-> heap[i].key]
<1>1. Index(heap, positions).heap = heap /\ Index(heap, positions).positions = positions
  BY DEF Index
<1>2. /\ heap \in Seq(Timers) /\ positions \in [DOMAIN positions -> 1 .. n]
      /\ DOMAIN Held = DOMAIN positions
      /\ \A k \in DOMAIN positions : heap[positions[k]] = Timer(k, Held[k])
      /\ \A l \in 1 .. n : heap[l].key \in DOMAIN positions /\ positions[heap[l].key] = l
  <2>1. DOMAIN Held = DOMAIN positions
    BY DEF Held
  <2>2. QED
    BY <1>1, <2>1 DEF IInv, Carries
<1>3. n \in Nat /\ DOMAIN heap = 1 .. n
  BY <1>2
<1>4. ASSUME NEW k \in DOMAIN positions
      PROVE  positions[k] \in 1 .. n /\ heap[positions[k]].key = k
  <2>1. positions[k] \in 1 .. n /\ heap[positions[k]] = Timer(k, Held[k])
    BY <1>2
  <2>2. QED
    BY <2>1 DEF Timer
<1>5. f \in Bijection(1 .. n, DOMAIN positions)
  <2>1. f \in [1 .. n -> DOMAIN positions] /\ \A i \in 1 .. n : f[i] = heap[i].key
    BY <1>2
  <2>2. \A a, b \in DOMAIN f : f[a] = f[b] => a = b
    BY <1>2
  <2>3. \A k \in DOMAIN positions : \E i \in 1 .. n : f[i] = k
    BY <1>4
  <2> HIDE DEF f
  <2>4. QED
    BY <2>1, <2>2, <2>3, Zenon DEF Bijection, Injection, Surjection, IsInjective
<1>6. Cardinality(DOMAIN positions) = n
  <2>1. ExistsBijection(1 .. n, DOMAIN positions)
    BY <1>5, Zenon DEF ExistsBijection
  <2>2. QED
    BY <1>3, <2>1, FS_CountingElements
<1>7. ASSUME NEW i \in DOMAIN heap, i > 1 PROVE heap[i \div 2].deadline <= heap[i].deadline
  <2>1. i \in 2 .. n
    BY <1>3, <1>7
  <2>2. QED
    BY <2>1 DEF IInv, Ordered
<1>8. QED
  BY <1>3, <1>4, <1>6, <1>7 DEF HeapSound

\* The index of expiry.rs, after any sequence of set, remove and expired: positions is
\* the inverse of the heap, and no timer is earlier than its parent.
THEOREM ExpiryIndexHeapSound == Spec => []HeapSound
<1>1. Init => IInv
  BY InitIInv
<1>2. IInv /\ [Next]_vars => IInv'
  BY NextIInv
<1>3. IInv => HeapSound
  BY IInvHeapSound
<1>4. QED
  BY <1>1, <1>2, <1>3, PTL DEF Spec

\* It implements the map of TimerMap: set and remove change exactly their key, and
\* the key handed to expire_due is due and an earliest one.
THEOREM ExpiryIndexImplementsTimerMap == Spec => ImplementsTimerMap
<1>1. Init => IInv /\ Map!Init
  BY InitIInv DEF Map!Init, Init, Held
<1>2. IInv /\ [Next]_vars => IInv' /\ [Map!Next]_<<Held, taken>>
  BY NextIInv
<1>3. QED
  BY <1>1, <1>2, PTL DEF Spec, ImplementsTimerMap, Map!Spec, Held
=============================================================================
