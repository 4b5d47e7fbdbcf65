------------------------------- MODULE Engine -------------------------------
(***************************************************************************)
(* recall-server/src/engine.rs: callers of EngineHandle::execute, one      *)
(* owner thread per shard, the coordinator of cross-owner commands,        *)
(* callers of stats, and shutdown.                                         *)
(*                                                                         *)
(* Processes share bounded channels and byte credits only.  Pool o \in     *)
(* Owners is the data channel of owner o with its credits; pool Cross is   *)
(* the coordinator's.  Each await of the code is a boundary between two    *)
(* actions; what runs between two awaits is one action.  Every owner reads *)
(* the same wall clock, which may take any value at any time.              *)
(*                                                                         *)
(* The owner's biased select! is kept: control before tick before data,    *)
(* and the data turn at the top of the loop before any of them.            *)
(***************************************************************************)
EXTENDS Store

CONSTANTS
    Requests,           \* calls of execute; each happens at most once
    Ops,                \* the operations they may carry
    Times,              \* the instants the clock may show
    Workers,            \* Config.workers
    Route,              \* Route[k]: the owner the hash gives key k
    QueueCapacity,      \* Config.queue_capacity
    QueueBytes,         \* Config.queue_bytes
    ControlCapacity,    \* the control channels' capacity, 8 in the code
    KeysPerWorker,      \* Config.keys_per_worker
    MaxPayloadBytes,    \* Config.max_payload_bytes
    MaxReplyBytes,      \* Config.max_reply_bytes
    ExpiryBatch,        \* Config.expiry_batch
    Events,             \* the environment events explored, see EventKinds
    Stop                \* CrossRequest::Stop, in the coordinator's channel

Owners == 1 .. Workers

Cross == 0

Pools == Owners \cup {Cross}

EventKinds == {"clock", "tick", "timeout", "drop_future", "stats", "shutdown", "drop_engine"}

\* Config::validate and Config::shard_limits, and what the hash may return.
ASSUME EngineAssumption ==
    /\ Workers \in Nat /\ Workers >= 1
    /\ Route \in [Keys -> Owners]
    /\ QueueCapacity \in Nat /\ QueueCapacity >= 1
    /\ ControlCapacity \in Nat /\ ControlCapacity >= 1
    /\ QueueBytes \in Nat /\ QueueBytes >= 1
    /\ KeysPerWorker \in Nat /\ KeysPerWorker >= 1
    /\ MaxPayloadBytes \in Nat /\ MaxPayloadBytes >= Workers
    /\ MaxReplyBytes \in Nat /\ MaxReplyBytes >= 64
    /\ \A t \in Texts : MaxReplyBytes >= TextLen[t] + 64
    /\ ExpiryBatch \in Nat /\ ExpiryBatch >= 1
    /\ Ops \subseteq Operations
    /\ Times \subseteq I64
    /\ Events \subseteq EventKinds
    /\ None \notin Requests /\ Stop \notin Requests /\ None # Stop
    /\ None \notin {"busy_closing", "empty_keys", "busy_bytes"}

\* Config::shard_limits; owners count from 1 here and from 0 in the code.
shard_limits(o) ==
    [max_keys |-> KeysPerWorker,
     max_payload_bytes |-> MaxPayloadBytes \div Workers
                             + (IF o - 1 < MaxPayloadBytes % Workers THEN 1 ELSE 0),
     max_reply_bytes |-> MaxReplyBytes]

(***************************************************************************)
(* Routing and splitting an operation.                                     *)
(***************************************************************************)
Participants(op) == {Route[k] : k \in KeySet(op)}

Pool(op) == IF Cardinality(Participants(op)) = 1 THEN CHOOSE o \in Participants(op) : TRUE
            ELSE Cross

charge(op) == operation_payload_bytes(op) + 128 * Len(operation_keys(op)) + 256

\* The n-th smallest of a set of numbers.
Nth(S, n) == CHOOSE x \in S : Cardinality({y \in S : y <= x}) = n

\* Parts are visited in ascending owner order.
Part(op, i) == Nth(Participants(op), i)

Parts(op) == Cardinality(Participants(op))

\* Part.positions: where the keys of owner o stand in the command.
Positions(op, o) ==
    {i \in DOMAIN operation_keys(op) : Route[operation_keys(op)[i]] = o}

\* The arguments at these positions, in their order.
Selected(arguments, positions) ==
    [n \in 1 .. Cardinality(positions) |-> arguments[Nth(positions, n)]]

PartOperation(op, o) ==
    IF op.type = "multi_set"
    THEN [op EXCEPT !.pairs = Selected(@, Positions(op, o))]
    ELSE [op EXCEPT !.keys = Selected(@, Positions(op, o))]

split(op) ==
    [i \in 1 .. Parts(op) |->
        [owner |-> Part(op, i), operation |-> PartOperation(op, Part(op, i))]]

\* Where the value at position i of the whole command stands in its part.
Rank(op, i) == Cardinality({j \in Positions(op, Route[op.keys[i]]) : j <= i})

PartNumber(op, k) == Cardinality({x \in Participants(op) : x <= Route[k]})

combine(op, results) ==
    CASE op.type = "multi_set" -> Ok
      [] op.type = "multi_get" ->
           Array([i \in DOMAIN op.keys |->
                    results[PartNumber(op, op.keys[i])].array[Rank(op, i)]])
      [] OTHER -> Integer(SumFunction([i \in DOMAIN results |-> results[i].integer]))

-----------------------------------------------------------------------------
VARIABLES
    clock,
    closing,    \* Routing.closing
    call,       \* call[r]: where request r stands, its operation and its reply
    credits,    \* credits[p]: free bytes of pool p
    queue,      \* queue[p]: the channel of pool p, a sequence of requests
    closed,     \* closed[p]: its receiver has been closed
    control,    \* control[o]: the control channel of owner o
    owner,      \* owner[o]: the locals of owner_loop, and whether it runs
    shard,      \* shard[o]
    co,         \* the locals of coordinator_loop and coordinate; and plan, see Foresee
    stats,      \* one call of EngineHandle::stats
    shutdown    \* how far Engine::shutdown has come

callers == <<call, credits>>
channels == <<queue, closed>>
owners == <<control, owner, shard>>
vars == <<clock, closing, callers, channels, owners, co, stats, shutdown>>

\* Option<Reservation>: a flag tells whether there is one.  Its Option<Prepared> is
\* the Prepared of module Store, with ok = FALSE while there is none.
NoReservation == [held |-> FALSE]

NothingPrepared == [ok |-> FALSE]

Reservation(id) == [held |-> TRUE, id |-> id, prepared |-> NothingPrepared]

\* What the coordinator's oneshot receiver holds.
NoAnswer == [arrived |-> FALSE]

NoPlan == [made |-> FALSE]

IdleCoordinator(id) ==
    [phase |-> "idle", id |-> id, request |-> None, parts |-> <<>>, part |-> 0, sent |-> FALSE,
     ack |-> NoAnswer, now |-> None, results |-> <<>>, reply |-> None, plan |-> NoPlan]

Init ==
    /\ clock \in Times
    /\ closing = FALSE
    /\ call = [r \in Requests |-> [pc |-> "idle", op |-> None, reply |-> None]]
    /\ credits = [p \in Pools |-> QueueBytes]
    /\ queue = [p \in Pools |-> <<>>]
    /\ closed = [p \in Pools |-> FALSE]
    /\ control = [o \in Owners |-> <<>>]
    /\ owner = [o \in Owners |-> [reservation |-> NoReservation, stopping |-> FALSE,
                                  data_turn |-> FALSE, running |-> TRUE]]
    /\ shard = [o \in Owners |-> NewShard]
    /\ co = IdleCoordinator(0)
    /\ stats = [at |-> 0, sent |-> FALSE, answered |-> FALSE, samples |-> 0]
    /\ shutdown = [phase |-> "up", stops |-> 0]

(***************************************************************************)
(* EngineHandle::execute.                                                  *)
(***************************************************************************)
At(r, pc) == call[r].pc = pc

Charge(r) == charge(call[r].op)

PoolOf(r) == Pool(call[r].op)

GoTo(r, pc) == call' = [call EXCEPT ![r].pc = pc]

\* The future resolves with the reply.
Return(r, reply) == call' = [call EXCEPT ![r].pc = "done", ![r].reply = reply]

\* The permit of r goes back to its pool.
Refund(r) == credits' = [credits EXCEPT ![PoolOf(r)] = @ + Charge(r)]

\* A handle still exists.
HandleAlive == shutdown.phase # "dropped"

Call(r, op) ==
    /\ At(r, "idle") /\ HandleAlive
    /\ call' = [call EXCEPT ![r].pc = "called", ![r].op = op]
    /\ UNCHANGED <<clock, closing, credits, channels, owners, co, stats, shutdown>>

\* The synchronous prefix of execute, up to the first await.
Begin(r) ==
    LET op == call[r].op
        rejection == IF closing THEN "busy_closing"
                     ELSE IF operation_keys(op) = <<>> THEN "empty_keys"
                     ELSE IF charge(op) > QueueBytes THEN "busy_bytes"
                     ELSE None
    IN  /\ At(r, "called")
        /\ IF rejection = None THEN GoTo(r, "credit") ELSE Return(r, Error(rejection))
        /\ UNCHANGED <<clock, closing, credits, channels, owners, co, stats, shutdown>>

\* acquire_many_owned.
AcquireCredit(r) ==
    /\ At(r, "credit")
    /\ Charge(r) <= credits[PoolOf(r)]
    /\ credits' = [credits EXCEPT ![PoolOf(r)] = @ - Charge(r)]
    /\ GoTo(r, "send")
    /\ UNCHANGED <<clock, closing, channels, owners, co, stats, shutdown>>

\* The channel accepts the request.
Enqueue(r) ==
    /\ At(r, "send")
    /\ ~closed[PoolOf(r)]
    /\ Len(queue[PoolOf(r)]) < QueueCapacity
    /\ queue' = [queue EXCEPT ![PoolOf(r)] = Append(@, r)]
    /\ GoTo(r, "queued")
    /\ UNCHANGED <<clock, closing, credits, closed, owners, co, stats, shutdown>>

\* The channel was closed: the request, and its permit, are dropped.
RejectClosed(r) ==
    /\ At(r, "send")
    /\ closed[PoolOf(r)]
    /\ Return(r, Error("busy_closing"))
    /\ Refund(r)
    /\ UNCHANGED <<clock, closing, channels, owners, co, stats, shutdown>>

\* Mutant: the permit of a request that times out is forgotten.
AdmissionTimeoutLeaks(r) ==
    /\ "timeout" \in Events
    /\ At(r, "credit") \/ At(r, "send")
    /\ Return(r, Error("busy_deadline"))
    /\ UNCHANGED <<clock, closing, credits, channels, owners, co, stats, shutdown>>

\* The admission future is dropped at its deadline, with the permit it may hold.
AdmissionTimeout(r) ==
    /\ "timeout" \in Events
    /\ At(r, "credit") \/ At(r, "send")
    /\ Return(r, Error("busy_deadline"))
    /\ IF At(r, "send") THEN Refund(r) ELSE UNCHANGED credits
    /\ UNCHANGED <<clock, closing, channels, owners, co, stats, shutdown>>

\* The caller drops the future.  An accepted request stays accepted.
DropFuture(r) ==
    /\ "drop_future" \in Events
    /\ \/ /\ At(r, "called") \/ At(r, "credit")
          /\ GoTo(r, "abandoned")
          /\ UNCHANGED credits
       \/ /\ At(r, "send")
          /\ GoTo(r, "abandoned")
          /\ Refund(r)
       \/ /\ At(r, "queued")
          /\ GoTo(r, "detached")
          /\ UNCHANGED credits
    /\ UNCHANGED <<clock, closing, channels, owners, co, stats, shutdown>>

\* The request's oneshot is answered and the request dropped, with its permit.
Respond(r, reply) ==
    /\ call' = [call EXCEPT ![r].reply = reply,
                            ![r].pc = IF @ = "detached" THEN "gone" ELSE "done"]
    /\ Refund(r)

(***************************************************************************)
(* owner_loop.                                                             *)
(***************************************************************************)
Reserved(o) == owner[o].reservation.held

\* The data turn at the top of the loop comes before the select.
DataTurnDue(o) == owner[o].data_turn /\ ~Reserved(o)

Selecting(o) == owner[o].running /\ ~DataTurnDue(o)

Pass(o) == control' = [control EXCEPT ![o] = Tail(@)]

\* execute_local of the request at the head of the data channel.
ExecuteLocal(o) ==
    LET r == Head(queue[o])
    IN  \E p \in {prepare(shard[o], call[r].op, clock, shard_limits(o))} :
          /\ queue' = [queue EXCEPT ![o] = Tail(@)]
          /\ shard' = [shard EXCEPT ![o] = IF p.ok THEN apply(@, p) ELSE @]
          /\ Respond(r, p.reply)

OwnerDataTurn(o) ==
    /\ owner[o].running /\ DataTurnDue(o)
    /\ owner' = [owner EXCEPT ![o].data_turn = FALSE]
    /\ IF queue[o] # <<>> THEN ExecuteLocal(o) ELSE UNCHANGED <<queue, shard, callers>>
    /\ UNCHANGED <<clock, closing, closed, control, co, stats, shutdown>>

\* Every control sender is gone: the handles and the coordinator's clones.
ControlClosed == ~HandleAlive /\ co.phase = "finished"

\* The control branch of the select has nothing to deliver.
ControlPending(o) == control[o] = <<>> /\ ~ControlClosed

\* The next control message of owner o has this type.
Controlled(o, type) ==
    /\ Selecting(o) /\ ~owner[o].stopping
    /\ control[o] # <<>> /\ Head(control[o]).type = type

Acknowledge(ok, reply) ==
    co' = [co EXCEPT !.ack = [arrived |-> TRUE, ok |-> ok, reply |-> reply]]

OwnerReserve(o) ==
    /\ Controlled(o, "reserve")
    /\ Pass(o)
    /\ owner' = [owner EXCEPT ![o].reservation = Reservation(Head(control[o]).id)]
    /\ Acknowledge(TRUE, None)
    /\ UNCHANGED <<clock, closing, callers, channels, shard, stats, shutdown>>

OwnerPrepare(o) ==
    LET m == Head(control[o])
    IN  /\ Controlled(o, "prepare")
        /\ Pass(o)
        /\ \E p \in {prepare(shard[o], m.op, m.now, shard_limits(o))} :
              /\ owner' = [owner EXCEPT ![o].reservation.prepared = IF p.ok THEN p ELSE @]
              /\ Acknowledge(p.ok, p.reply)
        /\ UNCHANGED <<clock, closing, callers, channels, shard, stats, shutdown>>

OwnerApply(o) ==
    /\ Controlled(o, "apply")
    /\ Pass(o)
    /\ shard' = [shard EXCEPT ![o] = apply(@, owner[o].reservation.prepared)]
    /\ owner' = [owner EXCEPT ![o].reservation.prepared = NothingPrepared]
    /\ Acknowledge(TRUE, None)
    /\ UNCHANGED <<clock, closing, callers, channels, stats, shutdown>>

OwnerRelease(o) ==
    /\ Controlled(o, "release")
    /\ Pass(o)
    /\ owner' = [owner EXCEPT ![o].reservation = NoReservation, ![o].data_turn = TRUE]
    /\ Acknowledge(TRUE, None)
    /\ UNCHANGED <<clock, closing, callers, channels, shard, stats, shutdown>>

OwnerStats(o) ==
    /\ Controlled(o, "stats")
    /\ Pass(o)
    /\ stats' = [stats EXCEPT !.answered = TRUE]
    /\ owner' = [owner EXCEPT ![o].data_turn = TRUE]
    /\ UNCHANGED <<clock, closing, callers, channels, shard, co, shutdown>>

\* Mutant: the owner stops without closing its data channel.
OwnerStopOpen(o) ==
    /\ Controlled(o, "stop")
    /\ Pass(o)
    /\ owner' = [owner EXCEPT ![o].stopping = TRUE]
    /\ UNCHANGED <<clock, closing, callers, channels, shard, co, stats, shutdown>>

\* Mutant: the requests still in the channel are dropped.
OwnerStopDiscards(o) ==
    /\ Controlled(o, "stop")
    /\ Pass(o)
    /\ closed' = [closed EXCEPT ![o] = TRUE]
    /\ queue' = [queue EXCEPT ![o] = <<>>]
    /\ owner' = [owner EXCEPT ![o].stopping = TRUE]
    /\ UNCHANGED <<clock, closing, callers, shard, co, stats, shutdown>>

OwnerStop(o) ==
    /\ Controlled(o, "stop")
    /\ Pass(o)
    /\ closed' = [closed EXCEPT ![o] = TRUE]
    /\ owner' = [owner EXCEPT ![o].stopping = TRUE]
    /\ UNCHANGED <<clock, closing, callers, queue, shard, co, stats, shutdown>>

\* Mutant: the data channel stays open.
OwnerOrphanedOpen(o) ==
    /\ Selecting(o) /\ ~owner[o].stopping
    /\ control[o] = <<>> /\ ControlClosed
    /\ owner' = [owner EXCEPT ![o].stopping = TRUE]
    /\ UNCHANGED <<clock, closing, callers, channels, control, shard, co, stats, shutdown>>

OwnerControlClosed(o) ==
    /\ Selecting(o) /\ ~owner[o].stopping
    /\ control[o] = <<>> /\ ControlClosed
    /\ closed' = [closed EXCEPT ![o] = TRUE]
    /\ owner' = [owner EXCEPT ![o].stopping = TRUE]
    /\ UNCHANGED <<clock, closing, callers, queue, control, shard, co, stats, shutdown>>

OwnerTick(o) ==
    /\ "tick" \in Events
    /\ Selecting(o) /\ ~owner[o].stopping /\ ~Reserved(o)
    /\ ControlPending(o)
    /\ \E S \in ExpirySets(shard[o].timers, clock, ExpiryBatch) :
          shard' = [shard EXCEPT ![o] = expire(@, S)]
    /\ owner' = [owner EXCEPT ![o].data_turn = TRUE]
    /\ UNCHANGED <<clock, closing, callers, channels, control, co, stats, shutdown>>

\* Mutant: the data branch does not look at the reservation.
DataReadyReserved(o) ==
    /\ Selecting(o)
    /\ owner[o].stopping \/ ControlPending(o)

\* The data branch of the select is reached.
DataReady(o) ==
    /\ Selecting(o) /\ ~Reserved(o)
    /\ owner[o].stopping \/ ControlPending(o)

OwnerData(o) ==
    /\ DataReady(o)
    /\ queue[o] # <<>>
    /\ ExecuteLocal(o)
    /\ UNCHANGED <<clock, closing, closed, control, owner, co, stats, shutdown>>

\* Mutant: the loop ends without draining the closed channel.
OwnerExitUndrained(o) ==
    /\ DataReady(o)
    /\ closed[o]
    /\ owner' = [owner EXCEPT ![o].running = FALSE]
    /\ control' = [control EXCEPT ![o] = <<>>]
    /\ UNCHANGED <<clock, closing, callers, channels, shard, co, stats, shutdown>>

\* The closed channel is drained: the loop ends and drops both receivers.
OwnerExit(o) ==
    /\ DataReady(o)
    /\ queue[o] = <<>> /\ closed[o]
    /\ owner' = [owner EXCEPT ![o].running = FALSE]
    /\ control' = [control EXCEPT ![o] = <<>>]
    /\ UNCHANGED <<clock, closing, callers, channels, shard, co, stats, shutdown>>

OwnerStep(o) ==
    \/ OwnerDataTurn(o)
    \/ OwnerReserve(o) \/ OwnerPrepare(o) \/ OwnerApply(o) \/ OwnerRelease(o)
    \/ OwnerStats(o) \/ OwnerStop(o) \/ OwnerControlClosed(o)
    \/ OwnerTick(o) \/ OwnerData(o) \/ OwnerExit(o)

(***************************************************************************)
(* coordinator_loop and coordinate.                                        *)
(***************************************************************************)
CoOp == call[co.request].op

CoOwner == co.parts[co.part].owner

LastPart == co.part = Len(co.parts)

CoTake ==
    /\ co.phase = "idle" /\ queue[Cross] # <<>> /\ Head(queue[Cross]) # Stop
    /\ queue' = [queue EXCEPT ![Cross] = Tail(@)]
    /\ LET r == Head(queue[Cross])
       IN  co' = [IdleCoordinator(co.id + 1) EXCEPT !.phase = "reserve", !.request = r,
                                                    !.parts = split(call[r].op), !.part = 1]
    /\ UNCHANGED <<clock, closing, callers, closed, owners, stats, shutdown>>

CoStop ==
    /\ co.phase = "idle" /\ queue[Cross] # <<>> /\ Head(queue[Cross]) = Stop
    /\ queue' = [queue EXCEPT ![Cross] = Tail(@)]
    /\ closed' = [closed EXCEPT ![Cross] = TRUE]
    /\ UNCHANGED <<clock, closing, callers, owners, co, stats, shutdown>>

CoFinish ==
    /\ co.phase = "idle" /\ queue[Cross] = <<>> /\ closed[Cross]
    /\ co' = [co EXCEPT !.phase = "finished"]
    /\ UNCHANGED <<clock, closing, callers, channels, owners, stats, shutdown>>

\* Mutant: every participant prepares at its own instant.
CoMessageResampled ==
    IF co.phase = "prepare"
    THEN [type |-> "prepare", id |-> co.id, op |-> co.parts[co.part].operation, now |-> clock]
    ELSE [type |-> co.phase, id |-> co.id]

CoMessage ==
    IF co.phase = "prepare"
    THEN [type |-> "prepare", id |-> co.id, op |-> co.parts[co.part].operation, now |-> co.now]
    ELSE [type |-> co.phase, id |-> co.id]

Coordinating == co.phase \in {"reserve", "prepare", "apply", "release"}

CoSend ==
    /\ Coordinating /\ ~co.sent
    /\ Len(control[CoOwner]) < ControlCapacity
    /\ control' = [control EXCEPT ![CoOwner] = Append(@, CoMessage)]
    /\ co' = [co EXCEPT !.sent = TRUE]
    /\ UNCHANGED <<clock, closing, callers, channels, owner, shard, stats, shutdown>>

\* On to the same phase at the next part, or to the next phase at the first.
Advance(phase) ==
    [co EXCEPT !.ack = NoAnswer, !.sent = FALSE,
               !.phase = IF LastPart THEN phase ELSE @,
               !.part = IF LastPart THEN 1 ELSE @ + 1]

\* The transaction gives up, and releases every part.
Abort(reply) ==
    [co EXCEPT !.ack = NoAnswer, !.sent = FALSE, !.phase = "release", !.part = 1, !.reply = reply]

CoAcked(phase) ==
    /\ co.phase = phase /\ co.ack.arrived
    /\ UNCHANGED <<clock, closing, channels, owners, stats, shutdown>>

\* History, not code: the effects and the reply that the parts, once all are
\* reserved, will arrive at; NoPlan when one of them or the reply limit will refuse.
\* Only EngineKeySpace looks at it.
Foreseen(now) ==
    [i \in DOMAIN co.parts |->
        LET o == co.parts[i].owner
        IN  prepare(shard[o], co.parts[i].operation, now, shard_limits(o))]

Foresee(op, foreseen) ==
    LET reply == combine(op, [i \in DOMAIN foreseen |-> foreseen[i].reply])
    IN  IF (\E i \in DOMAIN foreseen : ~foreseen[i].ok) \/ encoded_len(reply) > MaxReplyBytes
        THEN NoPlan
        ELSE [made |-> TRUE, effects |-> [i \in DOMAIN foreseen |-> foreseen[i].effects], reply |-> reply]

\* The clock is sampled once, when every part is reserved.
CoReserved ==
    /\ CoAcked("reserve")
    /\ \/ /\ ~LastPart
          /\ co' = Advance("prepare")
       \/ /\ LastPart
          /\ \E foreseen \in {Foreseen(clock)} :
                co' = [Advance("prepare") EXCEPT !.now = clock, !.plan = Foresee(CoOp, foreseen)]
    /\ UNCHANGED callers

CoPrepared ==
    LET results == Append(co.results, co.ack.reply)
        reply == combine(CoOp, results)
    IN  /\ CoAcked("prepare")
        /\ co' = IF ~co.ack.ok THEN Abort(co.ack.reply)
                 ELSE IF ~LastPart THEN [Advance("apply") EXCEPT !.results = results]
                 ELSE IF encoded_len(reply) > MaxReplyBytes THEN Abort(Error("reply_limit"))
                 ELSE [Advance("apply") EXCEPT !.results = results, !.reply = reply]
        /\ UNCHANGED callers

CoApplied ==
    /\ CoAcked("apply")
    /\ co' = Advance("release")
    /\ UNCHANGED callers

CoReleased ==
    /\ CoAcked("release")
    /\ IF LastPart
       THEN co' = IdleCoordinator(co.id) /\ Respond(co.request, co.reply)
       ELSE co' = Advance("release") /\ UNCHANGED callers

CoStep ==
    \/ CoTake \/ CoStop \/ CoFinish \/ CoSend
    \/ CoReserved \/ CoPrepared \/ CoApplied \/ CoReleased

(***************************************************************************)
(* EngineHandle::stats: the owners in turn.                                *)
(***************************************************************************)
StatsDone == Workers + 1

StatsCall ==
    /\ "stats" \in Events
    /\ stats.at = 0 /\ HandleAlive
    /\ stats' = [stats EXCEPT !.at = 1]
    /\ UNCHANGED <<clock, closing, callers, channels, owners, co, shutdown>>

StatsActive == stats.at \in Owners

StatsSend ==
    /\ StatsActive /\ ~stats.sent
    /\ owner[stats.at].running /\ Len(control[stats.at]) < ControlCapacity
    /\ control' = [control EXCEPT ![stats.at] = Append(@, [type |-> "stats"])]
    /\ stats' = [stats EXCEPT !.sent = TRUE]
    /\ UNCHANGED <<clock, closing, callers, channels, owner, shard, co, shutdown>>

\* The owner is gone: the loop over the owners ends.
StatsBreak ==
    /\ StatsActive /\ ~stats.sent
    /\ ~owner[stats.at].running
    /\ stats' = [stats EXCEPT !.at = StatsDone]
    /\ UNCHANGED <<clock, closing, callers, channels, owners, co, shutdown>>

\* Mutant: a dropped sender is not noticed.
StatsReceiveAnswer ==
    /\ StatsActive /\ stats.sent
    /\ stats.answered
    /\ stats' = [at |-> stats.at + 1, sent |-> FALSE, answered |-> FALSE,
                 samples |-> stats.samples + 1]
    /\ UNCHANGED <<clock, closing, callers, channels, owners, co, shutdown>>

\* The sample arrives, or its sender was dropped with the channel.
StatsReceive ==
    /\ StatsActive /\ stats.sent
    /\ stats.answered \/ ~owner[stats.at].running
    /\ stats' = [at |-> stats.at + 1, sent |-> FALSE, answered |-> FALSE,
                 samples |-> stats.samples + (IF stats.answered THEN 1 ELSE 0)]
    /\ UNCHANGED <<clock, closing, callers, channels, owners, co, shutdown>>

StatsStep == StatsSend \/ StatsBreak \/ StatsReceive

(***************************************************************************)
(* Engine::shutdown, and an Engine dropped without it.                     *)
(***************************************************************************)
ShutdownAt(phase) ==
    /\ shutdown.phase = phase
    /\ UNCHANGED <<clock, callers, closed, owner, shard, co, stats>>

ShutdownBegin ==
    /\ "shutdown" \in Events
    /\ ShutdownAt("up")
    /\ closing' = TRUE
    /\ shutdown' = [shutdown EXCEPT !.phase = "stop_cross"]
    /\ UNCHANGED <<queue, control>>

ShutdownStopCross ==
    /\ ShutdownAt("stop_cross")
    /\ Len(queue[Cross]) < QueueCapacity
    /\ queue' = [queue EXCEPT ![Cross] = Append(@, Stop)]
    /\ shutdown' = [shutdown EXCEPT !.phase = "join_cross"]
    /\ UNCHANGED <<closing, control>>

\* Mutant: the owners are stopped while the coordinator still runs.
ShutdownUnjoined ==
    /\ ShutdownAt("join_cross")
    /\ shutdown' = [shutdown EXCEPT !.phase = "stop_owners"]
    /\ UNCHANGED <<closing, queue, control>>

ShutdownJoinCross ==
    /\ ShutdownAt("join_cross")
    /\ co.phase = "finished"
    /\ shutdown' = [shutdown EXCEPT !.phase = "stop_owners"]
    /\ UNCHANGED <<closing, queue, control>>

ShutdownStopOwner ==
    LET o == shutdown.stops + 1
    IN  /\ ShutdownAt("stop_owners")
        /\ Len(control[o]) < ControlCapacity
        /\ control' = [control EXCEPT ![o] = Append(@, [type |-> "stop"])]
        /\ shutdown' = [stops |-> o, phase |-> IF o = Workers THEN "join" ELSE "stop_owners"]
        /\ UNCHANGED <<closing, queue>>

ShutdownJoin ==
    /\ ShutdownAt("join")
    /\ \A o \in Owners : ~owner[o].running
    /\ shutdown' = [shutdown EXCEPT !.phase = "down"]
    /\ UNCHANGED <<closing, queue, control>>

ShutdownStep ==
    ShutdownStopCross \/ ShutdownJoinCross \/ ShutdownStopOwner \/ ShutdownJoin

\* The last handle goes.  A call in progress borrows one.
InProgress(r) == call[r].pc \in {"called", "credit", "send", "queued"}

DropEngine ==
    /\ "drop_engine" \in Events
    /\ shutdown.phase = "up" /\ ~StatsActive
    /\ \A r \in Requests : ~InProgress(r)
    /\ shutdown' = [shutdown EXCEPT !.phase = "dropped"]
    /\ closed' = [closed EXCEPT ![Cross] = TRUE]
    /\ UNCHANGED <<clock, closing, callers, queue, owners, co, stats>>

ClockStep ==
    /\ "clock" \in Events
    /\ clock' \in Times \ {clock}
    /\ UNCHANGED <<closing, callers, channels, owners, co, stats, shutdown>>

-----------------------------------------------------------------------------
CallStep(r) ==
    \/ Begin(r) \/ AcquireCredit(r) \/ Enqueue(r) \/ RejectClosed(r) \/ AdmissionTimeout(r)

Next ==
    \/ \E r \in Requests :
          \/ \E op \in Ops : Call(r, op)
          \/ CallStep(r) \/ DropFuture(r)
    \/ \E o \in Owners : OwnerStep(o)
    \/ CoStep
    \/ StatsCall \/ StatsStep
    \/ ShutdownBegin \/ ShutdownStep \/ DropEngine
    \/ ClockStep

Spec == Init /\ [][Next]_vars

(***************************************************************************)
(* Threads and tasks that can run do run: each owner thread, the           *)
(* coordinator task, the shutdown, the stats call and every execute future *)
(* is polled when it is ready.  An owner that has several branches ready   *)
(* chooses by its bias, not by fairness.  Nothing is assumed of the clock, *)
(* of clients, or of the events.                                           *)
(***************************************************************************)
Fairness ==
    /\ \A r \in Requests : WF_vars(CallStep(r))
    /\ \A o \in Owners : WF_vars(OwnerStep(o))
    /\ WF_vars(CoStep)
    /\ WF_vars(StatsStep)
    /\ WF_vars(ShutdownStep)

FairSpec == Spec /\ Fairness

-----------------------------------------------------------------------------
Holding == {"send", "queued", "detached"}

Accepted(r) == call[r].pc \in {"queued", "detached"}

\* No assert or expect of owner_loop, nor the revision assertion of Shard::apply,
\* fails when the owner comes to its next control message; a reservation is that
\* of the transaction in progress.
NoAssertionFails ==
    /\ \A o \in Owners :
          Reserved(o) => /\ Coordinating /\ o \in Participants(CoOp)
                         /\ owner[o].reservation.id = co.id
    /\ \A o \in Owners :
          owner[o].running /\ ~owner[o].stopping /\ control[o] # <<>> =>
            LET m == Head(control[o])
                held == owner[o].reservation
            IN  /\ m.type \in {"reserve", "stop"} => ~held.held
                /\ m.type \in {"prepare", "apply", "release"} => held.held /\ held.id = m.id
                /\ m.type = "prepare" => ~held.prepared.ok
                /\ m.type = "apply" => /\ held.prepared.ok
                                      /\ held.prepared.revision = shard[o].revision

\* No condition under which the code calls fatal: no owner leaves or stops listening to
\* its control channel during a transaction, the coordinator outlives the
\* shutdown's Stop, and no owner is orphaned while reserved.
NeverFatal ==
    /\ Coordinating => \A o \in Participants(CoOp) : owner[o].running /\ ~owner[o].stopping
    /\ shutdown.phase = "stop_cross" => ~closed[Cross]
    /\ shutdown.phase = "stop_owners" => \A o \in Owners : o > shutdown.stops => owner[o].running
    /\ co.phase = "finished" => \A o \in Owners : ~Reserved(o)

\* No interleaving of commands, timeouts, shutdown and a dropped engine makes a
\* thread of the engine panic or the process abort.
NeverAborts == NoAssertionFails /\ NeverFatal

\* How often a command is in a channel or with the coordinator.
Occurrences(r) ==
    Cardinality({at \in Pools \X (1 .. QueueCapacity) :
                    at[2] \in DOMAIN queue[at[1]] /\ queue[at[1]][at[2]] = r})
      + (IF co.request = r THEN 1 ELSE 0)

\* An accepted command is in exactly one place, so it is answered exactly once:
\* never lost by a timeout, a dropped future or the shutdown, nor run twice; and
\* when shutdown returns none is left.
AcceptedExactlyOnce ==
    /\ \A r \in Requests : Occurrences(r) = IF Accepted(r) THEN 1 ELSE 0
    /\ shutdown.phase = "down" => \A r \in Requests : ~Accepted(r)

\* The requests that hold credits of pool p.
Holders(p) == {r \in Requests : call[r].pc \in Holding /\ PoolOf(r) = p}

\* Every byte of a pool is free or held by one request on its way; nothing leaks
\* on a timeout, a dropped future, a closed channel or an answered command.
CreditsConserved ==
    \A p \in Pools :
        QueueBytes = credits[p]
            + SumFunction([r \in Holders(p) |-> Charge(r)])

-----------------------------------------------------------------------------
\* Every call returns, without relying on the admission timeout: no wait for a
\* credit, a slot, a reservation or a reply is circular.
EveryCallReturns ==
    \A r \in Requests : InProgress(r) ~> ~InProgress(r)

\* stats returns, also when it meets the shutdown.
StatsReturn == StatsActive ~> stats.at = StatsDone

\* shutdown returns.
ShutdownCompletes == shutdown.phase = "stop_cross" ~> shutdown.phase = "down"

\* Without shutdown, the owners stop when the last handle is gone.
OwnersStopWithoutHandles == ~HandleAlive ~> \A o \in Owners : ~owner[o].running
=============================================================================
