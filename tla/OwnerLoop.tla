------------------------------ MODULE OwnerLoop -----------------------------
(***************************************************************************)
(* The scheduling of one owner thread (owner_loop in engine.rs) under a    *)
(* load that never ends: clients keep its data channel filled, the         *)
(* coordinator begins one transaction after the other, and callers of      *)
(* stats may keep its control channel filled.  Engine has a bounded number *)
(* of requests, and so cannot ask what an endless stream may starve; here  *)
(* messages are reduced to what the scheduler tells apart.  Stopping the   *)
(* owner, and what messages do to its shard, are in Engine.                *)
(***************************************************************************)
EXTENDS Naturals, Sequences

CONSTANTS
    Jobs,               \* data requests; one is sent again once executed
    DataCapacity,       \* Config.queue_capacity
    ControlCapacity     \* the control channel's capacity

ASSUME OwnerLoopAssumption ==
    /\ DataCapacity \in Nat /\ DataCapacity >= 1
    /\ ControlCapacity \in Nat /\ ControlCapacity >= 1

VARIABLES
    data,           \* the data channel
    controls,       \* the control channel
    reserved,       \* a reservation is held
    data_turn,
    due,            \* the interval's next tick has been reached
    co              \* the message the coordinator sends next; "wait" for its answer

vars == <<data, controls, reserved, data_turn, due, co>>

Init ==
    /\ data = <<>>
    /\ controls = <<>>
    /\ reserved = FALSE
    /\ data_turn = FALSE
    /\ due = TRUE       \* the first tick of an interval is immediate
    /\ co = "reserve"

(***************************************************************************)
(* The load.                                                               *)
(***************************************************************************)
Queued(job) == \E i \in DOMAIN data : data[i] = job

SendData(job) ==
    /\ ~Queued(job) /\ Len(data) < DataCapacity
    /\ data' = Append(data, job)
    /\ UNCHANGED <<controls, reserved, data_turn, due, co>>

SendStats ==
    /\ Len(controls) < ControlCapacity
    /\ controls' = Append(controls, "stats")
    /\ UNCHANGED <<data, reserved, data_turn, due, co>>

\* The coordinator sends a message of its transaction and awaits the answer.
SendControl ==
    /\ co # "wait" /\ Len(controls) < ControlCapacity
    /\ controls' = Append(controls, co)
    /\ co' = "wait"
    /\ UNCHANGED <<data, reserved, data_turn, due>>

TimerFires ==
    /\ ~due
    /\ due' = TRUE
    /\ UNCHANGED <<data, controls, reserved, data_turn, co>>

(***************************************************************************)
(* One iteration of owner_loop: the data turn at the top, then the first   *)
(* ready branch of the biased select.                                      *)
(***************************************************************************)
DataTurn ==
    /\ data_turn /\ ~reserved
    /\ data_turn' = FALSE
    /\ data' = IF data = <<>> THEN data ELSE Tail(data)
    /\ UNCHANGED <<controls, reserved, due, co>>

Selecting == ~(data_turn /\ ~reserved)

\* After a failed preparation, here or at another participant before this one is
\* asked, the owner is released.
After(message) ==
    CASE message = "reserve" -> {"prepare", "release"}
      [] message = "prepare" -> {"apply", "release"}
      [] message = "apply"   -> {"release"}
      [] message = "release" -> {"reserve"}

\* Mutant: the turn is not given.
NoTurnAfter(message) == FALSE

\* The messages after which queued data has its turn.
TurnAfter(message) == message \in {"release", "stats"}

Control ==
    LET message == Head(controls)
    IN  /\ Selecting
        /\ controls # <<>>
        /\ controls' = Tail(controls)
        /\ reserved' = CASE message = "reserve" -> TRUE
                         [] message = "release" -> FALSE
                         [] OTHER -> reserved
        /\ data_turn' = (data_turn \/ TurnAfter(message))
        /\ IF message = "stats" THEN UNCHANGED co ELSE co' \in After(message)
        /\ UNCHANGED <<data, due>>

Tick ==
    /\ Selecting
    /\ controls = <<>>
    /\ due /\ ~reserved
    /\ due' = FALSE
    /\ data_turn' = TRUE
    /\ UNCHANGED <<data, controls, reserved, co>>

\* Mutant: data is polled before the tick.
DataFirst ==
    /\ Selecting
    /\ controls = <<>>
    /\ ~reserved /\ data # <<>>
    /\ data' = Tail(data)
    /\ UNCHANGED <<controls, reserved, data_turn, due, co>>

Data ==
    /\ Selecting
    /\ controls = <<>>
    /\ ~due /\ ~reserved /\ data # <<>>
    /\ data' = Tail(data)
    /\ UNCHANGED <<controls, reserved, data_turn, due, co>>

Owner == DataTurn \/ Control \/ Tick \/ Data

Next ==
    \/ \E job \in Jobs : SendData(job)
    \/ SendStats \/ SendControl \/ TimerFires
    \/ DataTurn \/ Control \/ Tick \/ Data

Spec == Init /\ [][Next]_vars

\* The owner's thread runs, the timer fires, and the coordinator goes on with a
\* transaction it has begun; it need not begin another.  A waiting sender gets
\* into the control channel, which serves its senders in order.
FairSpec ==
    /\ Spec
    /\ WF_vars(Owner) /\ WF_vars(TimerFires)
    /\ SF_vars(co # "reserve" /\ SendControl)

-----------------------------------------------------------------------------
\* "An ongoing stream of cross-owner reservations cannot starve queued local
\* work": every request in the data channel is executed, however many control
\* messages come.
DataNotStarved == \A job \in Jobs : Queued(job) ~> ~Queued(job)

\* From some point on no stats call and no new transaction comes.
ControlsEnd == <>[][~SendStats /\ ~(co = "reserve" /\ SendControl)]_vars

\* Active expiration goes on for ever however much data comes, and whatever stream
\* of control messages came before: only a stream of them that never ends, which
\* the select polls first and gives no quota, can put it off for good.
ExpirationResumes == ControlsEnd => []<><<Tick>>_vars
=============================================================================
