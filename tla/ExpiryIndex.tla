---------------------------- MODULE ExpiryIndex ----------------------------
(***************************************************************************)
(* recall-core/src/expiry.rs: a binary heap of timers ordered by deadline, *)
(* and the position of every key in it.  Positions count from 1 here and   *)
(* from 0 in the code, so the parent of i is i \div 2 and its children are *)
(* 2 * i and 2 * i + 1.                                                    *)
(*                                                                         *)
(* set, remove and expired are called by Shard only: set and remove from   *)
(* apply, expired followed by remove from expire_due.                      *)
(***************************************************************************)
EXTENDS Integers, Sequences, FiniteSets

CONSTANTS Keys, Deadlines, Times

ASSUME ExpiryIndexAssumption == Deadlines \subseteq Int /\ Times \subseteq Int

VARIABLES
    heap, positions,    \* the fields of struct ExpiryIndex
    taken               \* the key the last step handed to expire_due, and when

vars == <<heap, positions, taken>>

Timer(key, deadline) == [key |-> key, deadline |-> deadline]

\* The index as a value: both fields of struct ExpiryIndex.
Index(h, p) == [heap |-> h, positions |-> p]

At(p, key, i) == [k \in DOMAIN p \cup {key} |-> IF k = key THEN i ELSE p[k]]

\* Mutant: the timer that moved down keeps its old position.
swapOneSided(x, left, right) ==
    LET h == [x.heap EXCEPT ![left] = x.heap[right], ![right] = x.heap[left]]
    IN  Index(h, At(x.positions, h[left].key, left))

swap(x, left, right) ==
    LET h == [x.heap EXCEPT ![left] = x.heap[right], ![right] = x.heap[left]]
    IN  Index(h, At(At(x.positions, h[left].key, left), h[right].key, right))

\* A loop in progress: the index, and where the timer that moves is.
Moving(x, i) == [index |-> x, at |-> i]

\* One iteration of up: the timer changes places with its parent, unless it is at
\* rest.
Rise(r) ==
    LET h == r.index.heap
        parent == r.at \div 2
    IN  IF r.at = 1 \/ h[parent].deadline <= h[r.at].deadline THEN r
        ELSE Moving(swap(r.index, parent, r.at), parent)

\* One iteration of down: the timer changes places with its earlier child.
Sink(r) ==
    LET h == r.index.heap
        left == 2 * r.at
        right == left + 1
        child == IF right <= Len(h) /\ h[right].deadline < h[left].deadline
                 THEN right ELSE left
    IN  IF left > Len(h) \/ h[r.at].deadline <= h[child].deadline THEN r
        ELSE Moving(swap(r.index, r.at, child), child)

Once(way, r) == IF way = "up" THEN Rise(r) ELSE Sink(r)

\* The loop after n iterations; a timer at rest stays where it is.
Loop(way, r, n) ==
    LET after[k \in 0 .. n] == IF k = 0 THEN r ELSE Once(way, after[k - 1])
    IN  after[n]

\* A timer at i rises fewer than i times and sinks fewer than Len(heap) times.
up(x, i) == Loop("up", Moving(x, i), i)

down(x, i) == Loop("down", Moving(x, i), Len(x.heap)).index

Settle(x, i) == LET risen == up(x, i) IN down(risen.index, risen.at)

SetTimer(key, deadline) ==
    IF key \in DOMAIN positions
    THEN LET i == positions[key]
         IN  Settle(Index([heap EXCEPT ![i].deadline = deadline], positions), i)
    ELSE LET i == Len(heap) + 1
         IN  up(Index(Append(heap, Timer(key, deadline)), At(positions, key, i)), i).index

\* Vec::swap_remove: the last timer takes the removed one's place.
swap_remove(h, i) == SubSeq([h EXCEPT ![i] = h[Len(h)]], 1, Len(h) - 1)

RemoveTimer(key) ==
    LET i == positions[key]
        h == swap_remove(heap, i)
        p == [k \in DOMAIN positions \ {key} |-> positions[k]]
    IN  IF key \notin DOMAIN positions THEN Index(heap, positions)
        ELSE IF i > Len(h) THEN Index(h, p)
        ELSE Settle(Index(h, At(p, h[i].key, i)), i)

\* Mutant: the end of the heap is read instead of its root.
expiredLast(now) ==
    {heap[i].key : i \in {j \in DOMAIN heap : j = Len(heap) /\ heap[j].deadline <= now}}

\* The key at the root, when its deadline has been reached; a set of at most one.
expired(now) == {heap[i].key : i \in {j \in DOMAIN heap : j = 1 /\ heap[j].deadline <= now}}

Becomes(x) == heap' = x.heap /\ positions' = x.positions

-----------------------------------------------------------------------------
Init == heap = <<>> /\ positions = [k \in {} |-> 0] /\ taken = <<>>

Set(key, deadline) == Becomes(SetTimer(key, deadline)) /\ taken' = <<>>

Remove(key) == Becomes(RemoveTimer(key)) /\ taken' = <<>>

\* One iteration of expire_due.
TakeExpired(now) ==
    \E key \in expired(now) : Becomes(RemoveTimer(key)) /\ taken' = <<key, now>>

Next ==
    \/ \E key \in Keys, deadline \in Deadlines : Set(key, deadline)
    \/ \E key \in Keys : Remove(key)
    \/ \E now \in Times : TakeExpired(now)

Spec == Init /\ [][Next]_vars

-----------------------------------------------------------------------------
\* "Exactly one heap node and position entry per expiring key": positions is the
\* inverse of the heap, after every combination of swaps and swap_remove, and no
\* timer is earlier than its parent, so the root is the earliest.
HeapSound ==
    /\ Len(heap) = Cardinality(DOMAIN positions)
    /\ \A k \in DOMAIN positions :
          positions[k] \in DOMAIN heap /\ heap[positions[k]].key = k
    /\ \A i \in DOMAIN heap : i > 1 => heap[i \div 2].deadline <= heap[i].deadline

\* The heap implements the map from keys to deadlines: every set and remove
\* changes exactly its key, and the key handed to expire_due is an earliest due
\* one.
Map == INSTANCE TimerMap WITH
         timers <- [k \in DOMAIN positions |-> heap[positions[k]].deadline]

ImplementsTimerMap == Map!Spec
=============================================================================
