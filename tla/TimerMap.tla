------------------------------ MODULE TimerMap ------------------------------
(***************************************************************************)
(* What the expiration index promises: one deadline per expiring key, and  *)
(* the earliest due key on demand.                                         *)
(***************************************************************************)
EXTENDS Integers

CONSTANTS Keys, Deadlines, Times

VARIABLES
    timers,     \* the expiring keys and their deadlines
    taken       \* the key the last step handed out, with the time it was asked at

Init == timers = [k \in {} |-> 0] /\ taken = <<>>

Set(key, deadline) ==
    /\ timers' = [k \in DOMAIN timers \cup {key} |->
                     IF k = key THEN deadline ELSE timers[k]]
    /\ taken' = <<>>

Without(key) == [k \in DOMAIN timers \ {key} |-> timers[k]]

Remove(key) == timers' = Without(key) /\ taken' = <<>>

\* A due key no other key precedes is taken off.
TakeExpired(now) ==
    \E key \in DOMAIN timers :
        /\ timers[key] <= now
        /\ \A k \in DOMAIN timers : timers[key] <= timers[k]
        /\ timers' = Without(key)
        /\ taken' = <<key, now>>

Next ==
    \/ \E key \in Keys, deadline \in Deadlines : Set(key, deadline)
    \/ \E key \in Keys : Remove(key)
    \/ \E now \in Times : TakeExpired(now)

Spec == Init /\ [][Next]_<<timers, taken>>
=============================================================================
