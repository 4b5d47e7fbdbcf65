------------------------------ MODULE KeySpace ------------------------------
(***************************************************************************)
(* What the engine promises its callers: one table of keys on which every  *)
(* command takes effect at a single instant between its call and its reply *)
(* (or not at all), at the time the clock then shows.  Owners, queues,     *)
(* credits, reservations and the shutdown are not visible here.            *)
(*                                                                         *)
(* `db` holds the raw entries; a due entry is invisible to every command   *)
(* and may be dropped at any moment.                                       *)
(***************************************************************************)
EXTENDS Commands

CONSTANTS Requests, Ops, Times

VARIABLES
    db,     \* the keys and their entries
    clock,  \* the wall clock
    call    \* call[r]: the state, the operation and the reply of request r

vars == <<db, clock, call>>

Call(state, op, reply) == [state |-> state, op |-> op, reply |-> reply]

DueKeys(entries) == {k \in DOMAIN entries : Due(entries[k], clock)}

Init ==
    /\ db = [k \in {} |-> None]
    /\ clock \in Times
    /\ call = [r \in Requests |-> Call("idle", None, None)]

Invoke(r, op) ==
    /\ call[r].state = "idle"
    /\ call' = [call EXCEPT ![r] = Call("open", op, None)]
    /\ UNCHANGED <<db, clock>>

Decide(r, reply) ==
    /\ call[r].state = "open"
    /\ call' = [call EXCEPT ![r] = Call("decided", @.op, reply)]

\* The command takes effect: the live table and the reply are the reference's.
\* Of the due entries, some may be swept on the way.
Commit(r) ==
    LET op == call[r].op
        old == db
        view == View(old, clock)
        new == NewView(op, clock, view)
        live == {k \in Keys : new[k] # None}
    IN  /\ Decide(r, NewReply(op, clock, view))
        /\ Refusal(op, clock, view) = None
        /\ \E kept \in SUBSET DueKeys(old) :
              db' = [k \in live \cup kept |-> IF k \in live THEN new[k] ELSE old[k]]
        /\ UNCHANGED clock

\* The command is refused by the state of the table, and changes nothing.
Refuse(r) ==
    LET refusal == Refusal(call[r].op, clock, View(db, clock))
    IN  /\ Decide(r, Error(refusal))
        /\ refusal # None
        /\ UNCHANGED <<db, clock>>

ResourceErrors ==
    {"oom", "reply_limit", "busy_closing", "busy_deadline", "busy_bytes", "empty_keys"}

\* The command is refused for want of a resource, and changes nothing.
Fail(r) ==
    /\ \E code \in ResourceErrors : Decide(r, Error(code))
    /\ UNCHANGED <<db, clock>>

\* The caller goes away before the command is accepted: it never takes effect.
Abandon(r) ==
    /\ call[r].state = "open"
    /\ call' = [call EXCEPT ![r].state = "abandoned"]
    /\ UNCHANGED <<db, clock>>

Expire ==
    LET old == db
        due == DueKeys(old)
    IN  /\ UNCHANGED <<clock, call>>
        /\ \E kept \in SUBSET due :
              db' = [k \in (DOMAIN old \ due) \cup kept |-> old[k]]

Tick ==
    /\ clock' \in Times
    /\ UNCHANGED <<db, call>>

Next ==
    \/ \E r \in Requests :
          \/ \E op \in Ops : Invoke(r, op)
          \/ Commit(r) \/ Refuse(r) \/ Fail(r) \/ Abandon(r)
    \/ Expire
    \/ Tick

Spec == Init /\ [][Next]_vars
=============================================================================
