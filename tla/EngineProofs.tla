---------------------------- MODULE EngineProofs ----------------------------
(***************************************************************************)
(* Theorems about the engine, for every number of owners, requests and     *)
(* keys, every routing, every capacity and every mixture of events.        *)
(***************************************************************************)
EXTENDS EngineKeySpace, StoreProofs

(***************************************************************************)
(* Channels as sequences.                                                  *)
(***************************************************************************)
IsSeq(s) == s \in Seq({s[i] : i \in 1 .. Len(s)})

In(e, s) == \E i \in 1 .. Len(s) : s[i] = e

NoRepeats(s) == \A i, j \in 1 .. Len(s) : s[i] = s[j] => i = j

\* A sequence over any set is one over its own elements.
LEMMA SeqAny == ASSUME NEW S, NEW s \in Seq(S) PROVE IsSeq(s)
  BY DEF IsSeq

\* The length of a sequence.
LEMMA SeqLength == ASSUME NEW s, IsSeq(s) PROVE Len(s) \in Nat
  BY DEF IsSeq

\* A new channel: an empty sequence without repetitions.
LEMMA SeqNew == IsSeq(<<>>) /\ Len(<<>>) = 0 /\ NoRepeats(<<>>) /\ \A e : ~In(e, <<>>)
  BY DEF IsSeq, NoRepeats, In

\* Sending to a channel.
LEMMA SeqAppend ==
    ASSUME NEW s, IsSeq(s), NEW e
    PROVE  /\ IsSeq(Append(s, e))
           /\ Len(Append(s, e)) = Len(s) + 1
           /\ \A i \in 1 .. Len(s) : Append(s, e)[i] = s[i]
           /\ Append(s, e)[Len(s) + 1] = e
<1> DEFINE S == {s[i] : i \in 1 .. Len(s)} \cup {e}
           t == Append(s, e)
<1>1. s \in Seq(S) /\ Len(s) \in Nat
  BY DEF IsSeq
<1>2. t \in Seq(S) /\ Len(t) = Len(s) + 1
  BY <1>1
<1>3. \A i \in 1 .. Len(s) : t[i] = s[i]
  BY <1>1
<1>4. t[Len(s) + 1] = e
  BY <1>1
<1>5. IsSeq(t)
  BY <1>2, SeqAny
<1>6. QED
  BY <1>2, <1>3, <1>4, <1>5

\* Receiving from a channel.
LEMMA SeqTail ==
    ASSUME NEW s, IsSeq(s), s # <<>>
    PROVE  /\ IsSeq(Tail(s))
           /\ Len(s) \in Nat /\ Len(s) >= 1
           /\ Len(Tail(s)) = Len(s) - 1
           /\ \A i \in 1 .. Len(s) - 1 : Tail(s)[i] = s[i + 1]
           /\ Head(s) = s[1]
<1> DEFINE S == {s[i] : i \in 1 .. Len(s)}
           t == Tail(s)
<1>1. s \in Seq(S) /\ Len(s) \in Nat
  BY DEF IsSeq
<1>2. t \in Seq(S) /\ Len(t) = Len(s) - 1 /\ Len(s) >= 1
  BY <1>1
<1>3. \A i \in 1 .. Len(s) - 1 : t[i] = s[i + 1]
  BY <1>1
<1>4. Head(s) = s[1]
  BY <1>1
<1>5. IsSeq(t)
  BY <1>2, SeqAny
<1>6. QED
  BY <1>1, <1>2, <1>3, <1>4, <1>5

\* What sending adds to the members of a channel, and when it repeats none.
LEMMA AppendIn ==
    ASSUME NEW s, IsSeq(s), NEW e
    PROVE  /\ \A x : In(x, Append(s, e)) <=> In(x, s) \/ x = e
           /\ NoRepeats(s) /\ ~In(e, s) => NoRepeats(Append(s, e))
<1> DEFINE t == Append(s, e)
<1>1. /\ Len(s) \in Nat /\ Len(t) = Len(s) + 1 /\ t[Len(s) + 1] = e
      /\ \A i \in 1 .. Len(s) : t[i] = s[i]
  BY SeqLength, SeqAppend
<1> HIDE DEF t
<1>2. \A x : In(x, t) <=> In(x, s) \/ x = e
  <2>1. \A i \in 1 .. Len(t) : i \in 1 .. Len(s) \/ i = Len(s) + 1
    BY <1>1
  <2>2. Len(s) + 1 \in 1 .. Len(t) /\ \A i \in 1 .. Len(s) : i \in 1 .. Len(t)
    BY <1>1
  <2>3. QED
    BY <1>1, <2>1, <2>2 DEF In
<1>3. NoRepeats(s) /\ ~In(e, s) => NoRepeats(t)
  BY <1>1 DEF In, NoRepeats
<1>4. QED
  BY <1>2, <1>3 DEF t

\* What receiving takes from the members of a channel.
LEMMA TailIn ==
    ASSUME NEW s, IsSeq(s), s # <<>>
    PROVE  /\ In(Head(s), s)
           /\ \A x : In(x, Tail(s)) => In(x, s)
           /\ \A x : x # Head(s) /\ In(x, s) => In(x, Tail(s))
           /\ NoRepeats(s) => NoRepeats(Tail(s)) /\ ~In(Head(s), Tail(s))
<1> DEFINE t == Tail(s)
<1>1. /\ Len(s) \in Nat /\ Len(s) >= 1 /\ Len(t) = Len(s) - 1 /\ Head(s) = s[1]
      /\ \A i \in 1 .. Len(s) - 1 : t[i] = s[i + 1]
  BY SeqTail
<1> HIDE DEF t
<1>2. In(Head(s), s)
  BY <1>1 DEF In
<1>3. \A x : In(x, t) => In(x, s)
  <2>1. \A i \in 1 .. Len(t) : i + 1 \in 1 .. Len(s) /\ t[i] = s[i + 1]
    BY <1>1
  <2>2. QED
    BY <2>1 DEF In
<1>4. \A x : x # Head(s) /\ In(x, s) => In(x, t)
  <2>1. \A i \in 1 .. Len(s) : i # 1 => i - 1 \in 1 .. Len(t) /\ t[i - 1] = s[i]
    BY <1>1
  <2>2. QED
    BY <1>1, <2>1 DEF In
<1>5. NoRepeats(s) => NoRepeats(t) /\ ~In(Head(s), t)
  BY <1>1 DEF NoRepeats, In
<1>6. QED
  BY <1>2, <1>3, <1>4, <1>5 DEF t

(***************************************************************************)
(* Routing: the owners of a command, in ascending order.                   *)
(***************************************************************************)
LEMMA ParticipantsFinite ==
    ASSUME NEW op \in Operations
    PROVE  /\ Participants(op) \in SUBSET Owners /\ IsFiniteSet(Participants(op))
           /\ Parts(op) \in Nat
           /\ operation_keys(op) # <<>> => Parts(op) >= 1
<1>1. KeySet(op) \in SUBSET Keys
  BY KeySetFinite
<1>2. Participants(op) \in SUBSET Owners
  BY <1>1, EngineAssumption DEF Participants
<1>3. IsFiniteSet(Owners)
  BY FS_Interval, EngineAssumption DEF Owners
<1>4. IsFiniteSet(Participants(op)) /\ Parts(op) \in Nat
  BY <1>2, <1>3, FS_Subset, FS_CardinalityType DEF Parts
<1>5. ASSUME operation_keys(op) # <<>> PROVE Parts(op) >= 1
  <2>1. operation_keys(op) \in Seq(Keys)
    BY OperationKeysType
  <2>2. 1 \in DOMAIN operation_keys(op)
    BY <1>5, <2>1
  <2>3. Participants(op) # {}
    BY <2>2 DEF Participants, KeySet
  <2>4. Parts(op) # 0
    BY <1>4, <2>3, FS_EmptySet DEF Parts
  <2>5. QED
    BY <1>4, <2>4
<1>6. QED
  BY <1>2, <1>4, <1>5

\* A finite set of integers numbers its members from 1 to its size.
LEMMA RankOnto ==
    ASSUME NEW P \in SUBSET Int, IsFiniteSet(P), NEW i \in 1 .. Cardinality(P)
    PROVE  \E o \in P : Cardinality({x \in P : x <= o}) = i
<1> DEFINE Below(o) == {x \in P : x <= o}
           rank == [o \in P |-> Cardinality(Below(o))]
           n == Cardinality(P)
<1>1. n \in Nat /\ IsFiniteSet(1 .. n) /\ Cardinality(1 .. n) = n
  BY FS_CardinalityType, FS_Interval
<1>2. \A o \in P : /\ IsFiniteSet(Below(o)) /\ Cardinality(Below(o)) \in Nat
                   /\ Cardinality(Below(o)) <= n
  <2> TAKE o \in P
  <2>1. Below(o) \in SUBSET P
    OBVIOUS
  <2>2. QED
    BY <2>1, FS_Subset, FS_CardinalityType
<1>3. \A o \in P : Cardinality(Below(o)) >= 1
  <2> TAKE o \in P
  <2>1. Below(o) # {}
    OBVIOUS
  <2>2. Cardinality(Below(o)) # 0
    BY <1>2, <2>1, FS_EmptySet
  <2>3. QED
    BY <1>2, <2>2
<1>4. \A a, b \in P : a < b => Cardinality(Below(a)) # Cardinality(Below(b))
  <2> TAKE a, b \in P
  <2> HAVE a < b
  <2>1. Below(a) \in SUBSET Below(b) /\ b \in Below(b) /\ b \notin Below(a)
    <3>1. a \in Int /\ b \in Int /\ ~(b <= a) /\ \A x \in P : x \in Int
      OBVIOUS
    <3>2. \A x \in P : x <= a => x <= b
      BY <3>1
    <3>3. b <= b
      BY <3>1
    <3>4. b \in Below(b) /\ b \notin Below(a)
      BY <3>1, <3>3
    <3>5. \A x \in Below(a) : x \in Below(b)
      BY <3>2
    <3>6. QED
      BY <3>4, <3>5
  <2>2. IsFiniteSet(Below(b))
    BY <1>2
  <2> HIDE DEF Below
  <2>3. QED
    BY <2>1, <2>2, FS_Subset
<1> HIDE DEF Below, n
<1>5. rank \in [P -> 1 .. n]
  BY <1>1, <1>2, <1>3
<1>6. \A a, b \in P : rank[a] = rank[b] => a = b
  BY <1>4
<1>7. rank \in Injection(P, 1 .. n)
  BY <1>5, <1>6 DEF Injection, IsInjective
<1>8. rank \in Surjection(P, 1 .. n)
  <2>1. Cardinality(P) = Cardinality(1 .. n)
    BY <1>1 DEF n
  <2>2. QED
    BY <1>1, <1>7, <2>1, FS_Injection
<1>9. \E o \in P : rank[o] = i
  BY <1>8 DEF Surjection, n
<1>10. QED
  BY <1>9 DEF Below

\* The parts of a cross-owner command go to its participants, each to another.
LEMMA SplitParts ==
    ASSUME NEW op \in Operations
    PROVE  /\ Len(split(op)) = Parts(op)
           /\ \A i \in 1 .. Parts(op) :
                 split(op)[i].owner \in Participants(op) /\ split(op)[i].owner \in Owners
           /\ \A i, j \in 1 .. Parts(op) : split(op)[i].owner = split(op)[j].owner => i = j
<1> DEFINE P == Participants(op)
<1>1. P \in SUBSET Owners /\ IsFiniteSet(P) /\ Parts(op) \in Nat
  BY ParticipantsFinite
<1>2. \A i \in 1 .. Parts(op) :
        Part(op, i) \in P /\ Cardinality({x \in P : x <= Part(op, i)}) = i
  <2> TAKE i \in 1 .. Parts(op)
  <2>1. P \in SUBSET Int
    BY <1>1 DEF Owners
  <2>2. \E o \in P : Cardinality({x \in P : x <= o}) = i
    BY <1>1, <2>1, RankOnto DEF Parts
  <2>3. QED
    BY <2>2 DEF Part, Nth
<1>3. \A i \in 1 .. Parts(op) : split(op)[i].owner = Part(op, i)
  BY DEF split
<1>4. Len(split(op)) = Parts(op)
  BY <1>1 DEF split
<1> HIDE DEF P
<1>5. \A i, j \in 1 .. Parts(op) : split(op)[i].owner = split(op)[j].owner => i = j
  BY <1>2, <1>3
<1>6. QED
  BY <1>1, <1>2, <1>3, <1>4, <1>5 DEF P

\* Every admitted command has a pool, and a charge.
LEMMA PoolType ==
    ASSUME NEW op \in Operations, operation_keys(op) # <<>>
    PROVE  Pool(op) \in Pools
  BY ParticipantsFinite, FS_Singleton DEF Pool, Pools

\* The bytes charge() asks for are a natural number.
LEMMA ChargeType ==
    ASSUME NEW op \in Operations
    PROVE  charge(op) \in Nat
<1>1. operation_payload_bytes(op) \in Nat /\ Len(operation_keys(op)) \in Nat
  BY OperationBytesType, OperationKeysType
<1>2. QED
  BY <1>1 DEF charge

(***************************************************************************)
(* The inductive invariant.                                                *)
(***************************************************************************)
CallFields == {"pc", "op", "reply"}

OwnerFields == {"reservation", "stopping", "data_turn", "running"}

CoFields ==
    {"phase", "id", "request", "parts", "part", "sent", "ack", "now", "results", "reply", "plan"}

\* A request that went through Begin has an operation with a key.
Calls ==
    /\ DOMAIN call = Requests
    /\ \A r \in Requests :
          /\ DOMAIN call[r] = CallFields
          /\ call[r].pc # "idle" => call[r].op \in Ops
          /\ call[r].pc \in Holding \cup {"credit"} => operation_keys(call[r].op) # <<>>

Credits ==
    /\ DOMAIN credits = Pools
    /\ \A p \in Pools : credits[p] \in Nat /\ IsFiniteSet(Holders(p))
    /\ CreditsConserved

\* Request r is accepted by pool p, and nobody has taken it yet.
Waits(r, p) == Accepted(r) /\ PoolOf(r) = p /\ r # co.request

\* A channel holds exactly the requests that wait in its pool, once each; the
\* coordinator's may also hold the Stop.
QueueOK(p) ==
    /\ IsSeq(queue[p]) /\ Len(queue[p]) <= QueueCapacity /\ NoRepeats(queue[p])
    /\ \A e : In(e, queue[p]) => e \in Requests \/ (e = Stop /\ p = Cross)
    /\ \A r \in Requests : In(r, queue[p]) <=> Waits(r, p)

Queues ==
    /\ DOMAIN queue = Pools
    /\ \A p \in Pools : QueueOK(p)
    /\ co.request # None =>
          co.request \in Requests /\ Accepted(co.request) /\ PoolOf(co.request) = Cross

\* The transaction in progress.
Transaction ==
    /\ DOMAIN co = CoFields
    /\ co.phase \in {"idle", "reserve", "prepare", "apply", "release", "finished"}
    /\ co.request # None <=> Coordinating
    /\ Coordinating => co.parts = split(CoOp) /\ co.part \in 1 .. Len(co.parts)
    /\ co.sent \in BOOLEAN /\ co.ack.arrived \in BOOLEAN
    /\ co.ack.arrived => co.sent /\ co.ack.ok \in BOOLEAN

\* Who stops whom: the coordinator finishes before any owner is told to stop, and
\* an owner drains its closed channel before it leaves.
OwnerLife(o) ==
    /\ DOMAIN owner[o] = OwnerFields
    /\ owner[o].running \in BOOLEAN
    /\ owner[o].stopping = closed[o]
    /\ ~owner[o].running => closed[o] /\ queue[o] = <<>>
    /\ closed[o] => co.phase = "finished"
    /\ closed[o] /\ shutdown.phase # "dropped" => o <= shutdown.stops

CrossLife ==
    /\ co.phase = "finished" => closed[Cross] /\ queue[Cross] = <<>>
    /\ closed[Cross] \/ In(Stop, queue[Cross]) => shutdown.phase \notin {"up", "stop_cross"}

ShutdownLife ==
    /\ DOMAIN shutdown = {"phase", "stops"} /\ shutdown.stops \in Nat
    /\ shutdown.phase \in {"up", "stop_cross", "join_cross"} => shutdown.stops = 0
    /\ shutdown.phase \in {"stop_owners", "join", "down"} => co.phase = "finished"
    /\ shutdown.phase = "stop_owners" => shutdown.stops < Workers
    /\ shutdown.phase = "down" => \A o \in Owners : ~owner[o].running

Lives ==
    /\ DOMAIN owner = Owners /\ DOMAIN closed = Pools
    /\ \A p \in Pools : closed[p] \in BOOLEAN
    /\ \A o \in Owners : OwnerLife(o)
    /\ CrossLife
    /\ ShutdownLife

Plain(type) == [type |-> type]

Transactional == {"reserve", "prepare", "apply", "release"}

InFlight == Coordinating /\ co.sent /\ ~co.ack.arrived

\* What the control channel of owner o may hold: stats calls, a stop once the
\* coordinator has finished, and at most one message of the transaction in progress,
\* if o is the owner it waits for.
Lasting(o, m) ==
    \/ m = Plain("stats")
    \/ /\ m = Plain("stop") /\ co.phase = "finished"
       /\ shutdown.phase # "dropped" => o <= shutdown.stops

Expected(o, m) == Lasting(o, m) \/ (m = CoMessage /\ InFlight /\ o = CoOwner)

OneTransactional(s) ==
    \A i, j \in 1 .. Len(s) :
        s[i].type \in Transactional /\ s[j].type \in Transactional => i = j

ControlOK(o) ==
    /\ IsSeq(control[o])
    /\ \A m : In(m, control[o]) => Expected(o, m)
    /\ OneTransactional(control[o])

Messages == DOMAIN control = Owners /\ \A o \in Owners : ControlOK(o)

\* Part j of the transaction in progress is reserved; and prepared.
PartHeld(j) ==
    CASE co.phase = "reserve" -> j < co.part \/ (j = co.part /\ co.ack.arrived)
      [] co.phase = "release" -> j > co.part \/ (j = co.part /\ ~co.ack.arrived)
      [] OTHER -> TRUE

PartPrepared(j) ==
    CASE co.phase = "prepare" -> j < co.part \/ (j = co.part /\ co.ack.arrived /\ co.ack.ok)
      [] co.phase = "apply" -> j > co.part \/ (j = co.part /\ ~co.ack.arrived)
      [] OTHER -> FALSE

\* A reservation is that of a part of the transaction in progress, and what it has
\* prepared is still applicable to the shard.
OwnerLock(o) ==
    /\ owner[o].reservation.held \in BOOLEAN
    /\ Reserved(o) =>
          /\ Coordinating
          /\ \E j \in 1 .. Len(co.parts) : co.parts[j].owner = o
          /\ DOMAIN owner[o].reservation = {"held", "id", "prepared"}
          /\ owner[o].reservation.id = co.id
          /\ owner[o].reservation.prepared.ok \in BOOLEAN
          /\ owner[o].reservation.prepared.ok =>
                owner[o].reservation.prepared.revision = shard[o].revision

PartLock(j) ==
    /\ Reserved(co.parts[j].owner) <=> PartHeld(j)
    /\ co.phase # "release" /\ PartHeld(j) =>
          (owner[co.parts[j].owner].reservation.prepared.ok <=> PartPrepared(j))

\* Two-phase locking as the phases of coordinate do it.
Locks ==
    /\ DOMAIN shard = Owners
    /\ \A o \in Owners : OwnerLock(o)
    /\ Coordinating => \A j \in 1 .. Len(co.parts) : PartLock(j)

IInv == Calls /\ Credits /\ Queues /\ Transaction /\ Lives /\ Messages /\ Locks

-----------------------------------------------------------------------------
(***************************************************************************)
(* The calls and their credits.                                            *)
(***************************************************************************)
\* Request r goes to pc; its operation and the other requests stay.
Moved(r, pc) ==
    /\ DOMAIN call' = Requests /\ DOMAIN call'[r] = CallFields
    /\ call'[r].op = call[r].op /\ call'[r].pc = pc
    /\ \A s \in Requests : s # r => call'[s] = call[s]

Answered(r) == IF call[r].pc = "detached" THEN "gone" ELSE "done"

\* Each way of advancing a call moves that call and no other.
LEMMA CallMoves ==
    ASSUME Calls, NEW r \in Requests
    PROVE  /\ \A pc : GoTo(r, pc) => Moved(r, pc)
           /\ \A reply : Return(r, reply) => Moved(r, "done")
           /\ \A reply : Respond(r, reply) => Moved(r, Answered(r)) /\ Refund(r)
<1>1. DOMAIN call = Requests /\ DOMAIN call[r] = CallFields
  BY DEF Calls
<1>2. ASSUME NEW pc, GoTo(r, pc) PROVE Moved(r, pc)
  BY <1>1, <1>2 DEF GoTo, Moved, CallFields
<1>3. ASSUME NEW reply, Return(r, reply) PROVE Moved(r, "done")
  BY <1>1, <1>3 DEF Return, Moved, CallFields
<1>4. ASSUME NEW reply, Respond(r, reply) PROVE Moved(r, Answered(r)) /\ Refund(r)
  BY <1>1, <1>4 DEF Respond, Moved, CallFields, Answered
<1>5. QED
  BY <1>2, <1>3, <1>4

\* A request that wants or holds a permit has a pool and a charge.
LEMMA HolderFacts ==
    ASSUME Calls, NEW r \in Requests, call[r].pc \in Holding \cup {"credit"}
    PROVE  /\ call[r].op \in Operations /\ operation_keys(call[r].op) # <<>>
           /\ PoolOf(r) \in Pools /\ Charge(r) \in Nat
<1>1. call[r].op \in Operations /\ operation_keys(call[r].op) # <<>>
  BY EngineAssumption DEF Calls, Holding
<1>2. QED
  BY <1>1, PoolType, ChargeType DEF PoolOf, Charge

\* What pool p has lent, as a sum over a set of requests.
Lent(p) == SumFunctionOnSet([r \in Requests |-> Charge(r)], Holders(p))

\* The sum CreditsConserved writes, over the holders of a pool, is Lent.
LEMMA LentIs ==
    ASSUME NEW p, IsFiniteSet(Holders(p))
    PROVE  SumFunction([r \in Holders(p) |-> Charge(r)]) = Lent(p)
<1> DEFINE f == [r \in Holders(p) |-> Charge(r)]
           g == [r \in Requests |-> Charge(r)]
<1>1. Holders(p) \in SUBSET Requests
  BY DEF Holders
<1>2. \A r \in Holders(p) : f[r] = g[r]
  BY <1>1
<1>3. DOMAIN f = Holders(p)
  OBVIOUS
<1> HIDE DEF f, g
<1>4. SumFunctionOnSet(f, Holders(p)) = SumFunctionOnSet(g, Holders(p))
  BY <1>2, SumSame
<1>5. QED
  BY <1>3, <1>4 DEF SumFunction, Lent, f, g

\* CreditsConserved in these terms.
Conserved(p) == IsFiniteSet(Holders(p)) /\ QueueBytes = credits[p] + Lent(p)

\* The invariant Credits, pool by pool.
LEMMA ConservedIs ==
    Credits <=> /\ DOMAIN credits = Pools
                /\ \A p \in Pools : credits[p] \in Nat /\ Conserved(p)
<1>1. ASSUME Credits, NEW p \in Pools PROVE credits[p] \in Nat /\ Conserved(p)
  BY <1>1, LentIs DEF Credits, CreditsConserved, Conserved
<1>2. ASSUME DOMAIN credits = Pools, \A p \in Pools : credits[p] \in Nat /\ Conserved(p)
      PROVE  Credits
  BY <1>2, LentIs DEF Credits, CreditsConserved, Conserved
<1>3. QED
  BY <1>1, <1>2 DEF Credits

\* A request comes to hold credits of its pool, or gives them back, or neither.
LEMMA LentMoves ==
    ASSUME Calls, NEW r \in Requests, NEW pc, Moved(r, pc), call[r].pc # "idle",
           pc \in Holding => call[r].pc \in Holding \cup {"credit"},
           NEW p \in Pools, IsFiniteSet(Holders(p))
    PROVE  /\ IsFiniteSet(Holders(p)')
           /\ p # PoolOf(r) \/ (pc \in Holding <=> call[r].pc \in Holding) => Lent(p)' = Lent(p)
           /\ p = PoolOf(r) /\ pc \in Holding /\ call[r].pc \notin Holding =>
                 Lent(p)' = Lent(p) + Charge(r)
           /\ p = PoolOf(r) /\ pc \notin Holding /\ call[r].pc \in Holding =>
                 Lent(p) = Lent(p)' + Charge(r)
           /\ Lent(p) \in Nat /\ Lent(p)' \in Nat
<1> DEFINE H == Holders(p)
           G == Holders(p)'
           f == [s \in Requests |-> Charge(s)]
           g == [s \in Requests |-> Charge(s)']
<1>1. \A s \in Requests : call'[s].op = call[s].op /\ (s # r => call'[s] = call[s])
  BY DEF Moved
<1>2. f = g
  BY <1>1 DEF Charge
<1>3. \A s \in Requests : s # r => (s \in H <=> s \in G)
  BY <1>1 DEF Holders, PoolOf
<1>4. /\ r \in H <=> call[r].pc \in Holding /\ PoolOf(r) = p
      /\ r \in G <=> pc \in Holding /\ PoolOf(r) = p
  BY DEF Moved, Holders, PoolOf
<1>5. H \in SUBSET Requests /\ G \in SUBSET Requests
  BY DEF Holders
<1>6. \A s \in H \cup {r} : call[s].pc \in Holding \cup {"credit"} => f[s] \in Nat
  BY <1>5, HolderFacts
<1>7. \A s \in H : f[s] \in Nat
  BY <1>5, HolderFacts DEF Holders
<1>8. Lent(p) = SumFunctionOnSet(f, H) /\ Lent(p)' = SumFunctionOnSet(f, G)
  BY <1>2 DEF Lent
<1>9. f[r] = Charge(r)
  OBVIOUS
<1>10. IsFiniteSet(H)
  OBVIOUS
<1> HIDE DEF H, G, f
<1>11. CASE r \in H <=> r \in G
  <2>1. G = H
    BY <1>3, <1>5, <1>11
  <2>2. Lent(p) \in Nat
    BY <1>7, <1>8, <1>10, SumType
  <2>3. QED
    BY <1>4, <1>8, <1>10, <1>11, <2>1, <2>2 DEF G
<1>12. CASE r \notin H /\ r \in G
  <2>1. G = H \cup {r}
    BY <1>3, <1>5, <1>12
  <2>2. f[r] \in Nat
    BY <1>4, <1>6, <1>12
  <2>3. IsFiniteSet(G) /\ Lent(p) \in Nat
    BY <1>7, <1>8, <1>10, <2>1, FS_AddElement, SumType
  <2>4. \A s \in H \cup {r} : f[s] \in Int
    BY <1>7, <2>2
  <2>5. SumFunctionOnSet(f, H \cup {r}) = f[r] + SumFunctionOnSet(f, H)
    BY <1>10, <1>12, <2>4, SumAdd
  <2>6. Lent(p)' = Lent(p) + Charge(r) /\ Lent(p)' \in Nat
    BY <1>8, <1>9, <2>1, <2>2, <2>3, <2>5
  <2>7. QED
    BY <1>4, <1>12, <2>3, <2>6 DEF G
<1>13. CASE r \in H /\ r \notin G
  <2>1. G = H \ {r}
    BY <1>3, <1>5, <1>13
  <2>2. IsFiniteSet(G) /\ \A s \in G : f[s] \in Nat
    BY <1>7, <1>10, <2>1, FS_RemoveElement
  <2>3. Lent(p) \in Nat /\ Lent(p)' \in Nat
    BY <1>7, <1>8, <1>10, <2>2, SumType
  <2>4. SumFunctionOnSet(f, H) = f[r] + SumFunctionOnSet(f, H \ {r})
    <3>1. \A s \in H : f[s] \in Int
      BY <1>7
    <3>2. QED
      BY <1>10, <1>13, <3>1, SumRemove
  <2>5. f[r] \in Nat
    BY <1>7, <1>13
  <2>6. Lent(p) = Lent(p)' + Charge(r)
    BY <1>8, <1>9, <2>1, <2>3, <2>4, <2>5
  <2>7. QED
    BY <1>4, <1>13, <2>2, <2>3, <2>6 DEF G
<1>14. QED
  BY <1>11, <1>12, <1>13

\* The same of the next state.
LEMMA ConservedNext ==
    ASSUME DOMAIN credits' = Pools, \A p \in Pools : credits'[p] \in Nat /\ Conserved(p)'
    PROVE  Credits'
<1>1. (Credits <=> /\ DOMAIN credits = Pools
                   /\ \A p \in Pools : credits[p] \in Nat /\ Conserved(p))'
  BY ConservedIs, PTL
<1>2. QED
  BY <1>1

\* The request keeps what it holds.
LEMMA CreditsKept ==
    ASSUME Calls, Credits, NEW r \in Requests, NEW pc, Moved(r, pc), call[r].pc # "idle",
           pc \in Holding <=> call[r].pc \in Holding, credits' = credits
    PROVE  Credits'
<1>1. DOMAIN credits = Pools /\ \A p \in Pools : credits[p] \in Nat /\ Conserved(p)
  BY ConservedIs
<1>2. \A p \in Pools : IsFiniteSet(Holders(p)') /\ Lent(p)' = Lent(p)
  BY <1>1, LentMoves DEF Conserved
<1>3. \A p \in Pools : credits'[p] \in Nat /\ Conserved(p)'
  BY <1>1, <1>2 DEF Conserved
<1>4. QED
  BY <1>1, <1>3, ConservedNext

\* acquire_many_owned.
LEMMA CreditsTaken ==
    ASSUME Calls, Credits, NEW r \in Requests, call[r].pc = "credit", Moved(r, "send"),
           Charge(r) <= credits[PoolOf(r)],
           credits' = [credits EXCEPT ![PoolOf(r)] = @ - Charge(r)]
    PROVE  Credits'
<1>1. DOMAIN credits = Pools /\ \A p \in Pools : credits[p] \in Nat /\ Conserved(p)
  BY ConservedIs
<1>2. PoolOf(r) \in Pools /\ Charge(r) \in Nat
  BY HolderFacts
<1>3. "credit" \notin Holding /\ "send" \in Holding
  BY DEF Holding
<1>4. \A p \in Pools :
        /\ IsFiniteSet(Holders(p)') /\ Lent(p) \in Nat /\ Lent(p)' \in Nat
        /\ Lent(p)' = IF p = PoolOf(r) THEN Lent(p) + Charge(r) ELSE Lent(p)
  BY <1>1, <1>3, LentMoves DEF Conserved
<1>5. \A p \in Pools : credits'[p] = IF p = PoolOf(r) THEN credits[p] - Charge(r) ELSE credits[p]
  BY <1>1, <1>2
<1>6. \A p \in Pools : credits'[p] \in Nat /\ Conserved(p)'
  <2> TAKE p \in Pools
  <2>1. credits'[p] \in Nat
    BY <1>1, <1>2, <1>5
  <2>2. QueueBytes = credits[p] + Lent(p)
    BY <1>1 DEF Conserved
  <2>3. QueueBytes = credits'[p] + Lent(p)'
    BY <1>1, <1>2, <1>4, <1>5, <2>2
  <2>4. QED
    BY <1>4, <2>1, <2>3 DEF Conserved
<1>7. QED
  BY <1>1, <1>6, ConservedNext

\* The permit is dropped.
LEMMA CreditsReturned ==
    ASSUME Calls, Credits, NEW r \in Requests, NEW pc, call[r].pc \in Holding, pc \notin Holding,
           Moved(r, pc), Refund(r)
    PROVE  Credits'
<1>1. DOMAIN credits = Pools /\ \A p \in Pools : credits[p] \in Nat /\ Conserved(p)
  BY ConservedIs
<1>2. PoolOf(r) \in Pools /\ Charge(r) \in Nat
  BY HolderFacts
<1>3. call[r].pc # "idle"
  BY DEF Holding
<1>4. \A p \in Pools :
        /\ IsFiniteSet(Holders(p)') /\ Lent(p) \in Nat /\ Lent(p)' \in Nat
        /\ Lent(p) = IF p = PoolOf(r) THEN Lent(p)' + Charge(r) ELSE Lent(p)'
  BY <1>1, <1>3, LentMoves DEF Conserved
<1>5. \A p \in Pools : credits'[p] = IF p = PoolOf(r) THEN credits[p] + Charge(r) ELSE credits[p]
  BY <1>1, <1>2 DEF Refund
<1>6. \A p \in Pools : credits'[p] \in Nat /\ Conserved(p)'
  <2> TAKE p \in Pools
  <2>1. credits'[p] \in Nat
    BY <1>1, <1>2, <1>5
  <2>2. QueueBytes = credits[p] + Lent(p)
    BY <1>1 DEF Conserved
  <2>3. QueueBytes = credits'[p] + Lent(p)'
    BY <1>1, <1>2, <1>4, <1>5, <2>2
  <2>4. QED
    BY <1>4, <2>1, <2>3 DEF Conserved
<1>7. DOMAIN credits' = Pools
  BY <1>1 DEF Refund
<1>8. QED
  BY <1>6, <1>7, ConservedNext

\* The request at the head of an owner's channel.
LEMMA HeadRequest ==
    ASSUME Queues, NEW o \in Owners, queue[o] # <<>>
    PROVE  LET r == Head(queue[o])
           IN  r \in Requests /\ Accepted(r) /\ PoolOf(r) = o /\ r # co.request
<1>1. o \in Pools /\ o # Cross
  BY EngineAssumption DEF Pools, Owners, Cross
<1>2. In(Head(queue[o]), queue[o])
  BY <1>1, TailIn DEF Queues, QueueOK
<1>3. Head(queue[o]) \in Requests
  BY <1>1, <1>2 DEF Queues, QueueOK
<1>4. QED
  BY <1>1, <1>2, <1>3 DEF Queues, QueueOK, Waits

\* What a step does to the calls and the credits: a new call; or one request moves,
\* and holds what it held, takes its charge or gives it back.
Keeps(r, pc) ==
    /\ Moved(r, pc) /\ call[r].pc # "idle" /\ credits' = credits
    /\ pc \in Holding <=> call[r].pc \in Holding
    /\ pc \in Holding \cup {"credit"} => operation_keys(call[r].op) # <<>>

Takes(r) ==
    /\ Moved(r, "send") /\ call[r].pc = "credit"
    /\ Charge(r) <= credits[PoolOf(r)]
    /\ credits' = [credits EXCEPT ![PoolOf(r)] = @ - Charge(r)]

GivesBack(r, pc) ==
    /\ Moved(r, pc) /\ call[r].pc \in Holding /\ pc \notin Holding \cup {"credit"}
    /\ Refund(r)

\* Answering an accepted request gives its permit back.
LEMMA RespondGivesBack ==
    ASSUME Calls, NEW r \in Requests, Accepted(r), NEW reply, Respond(r, reply)
    PROVE  GivesBack(r, Answered(r))
<1>1. Moved(r, Answered(r)) /\ Refund(r)
  BY CallMoves
<1>2. call[r].pc \in Holding /\ Answered(r) \notin Holding \cup {"credit"}
  BY DEF Accepted, Holding, Answered
<1>3. QED
  BY <1>1, <1>2 DEF GivesBack

\* What every step of the engine does to calls and permits: nothing, a new call, or
\* one request that takes a permit, keeps what it has, or gives its permit back.
LEMMA CallSteps ==
    ASSUME Calls, Queues, Transaction, [Next]_vars
    PROVE  \/ UNCHANGED callers
           \/ \E r \in Requests, op \in Ops : Call(r, op)
           \/ \E r \in Requests : Takes(r) \/ \E pc : Keeps(r, pc) \/ GivesBack(r, pc)
<1> USE DEF callers
<1>1. ASSUME NEW r \in Requests, Begin(r) PROVE \E pc : Keeps(r, pc)
  <2>1. At(r, "called") /\ credits' = credits
    BY <1>1 DEF Begin
  <2>2. CASE \E reply : Return(r, reply)
    <3>1. Moved(r, "done")
      BY <2>2, CallMoves
    <3>2. QED
      BY <2>1, <3>1 DEF Keeps, Holding, At
  <2>3. CASE GoTo(r, "credit") /\ operation_keys(call[r].op) # <<>>
    <3>1. Moved(r, "credit")
      BY <2>3, CallMoves
    <3>2. QED
      BY <2>1, <2>3, <3>1 DEF Keeps, Holding, At
  <2>4. QED
    BY <1>1, <2>2, <2>3, EngineAssumption DEF Begin
<1>2. ASSUME NEW r \in Requests, AcquireCredit(r) PROVE Takes(r)
  BY <1>2, CallMoves DEF AcquireCredit, Takes, At
<1>3. ASSUME NEW r \in Requests, Enqueue(r) PROVE Keeps(r, "queued")
  <2>1. At(r, "send") /\ credits' = credits /\ Moved(r, "queued")
    BY <1>3, CallMoves DEF Enqueue
  <2>2. operation_keys(call[r].op) # <<>>
    BY <2>1, HolderFacts DEF Holding, At
  <2>3. QED
    BY <2>1, <2>2 DEF Keeps, Holding, At
<1>4. ASSUME NEW r \in Requests, RejectClosed(r) PROVE GivesBack(r, "done")
  BY <1>4, CallMoves DEF RejectClosed, GivesBack, Holding, At
<1>5. ASSUME NEW r \in Requests, AdmissionTimeout(r)
      PROVE  Keeps(r, "done") \/ GivesBack(r, "done")
  <2>1. Moved(r, "done")
    BY <1>5, CallMoves DEF AdmissionTimeout
  <2>2. QED
    BY <1>5, <2>1 DEF AdmissionTimeout, Keeps, GivesBack, Holding, At
<1>6. ASSUME NEW r \in Requests, DropFuture(r)
      PROVE  \E pc : Keeps(r, pc) \/ GivesBack(r, pc)
  <2>1. CASE (At(r, "called") \/ At(r, "credit")) /\ GoTo(r, "abandoned") /\ credits' = credits
    <3>1. Moved(r, "abandoned")
      BY <2>1, CallMoves
    <3>2. QED
      BY <2>1, <3>1 DEF Keeps, Holding, At
  <2>2. CASE At(r, "send") /\ GoTo(r, "abandoned") /\ Refund(r)
    <3>1. Moved(r, "abandoned")
      BY <2>2, CallMoves
    <3>2. QED
      BY <2>2, <3>1 DEF GivesBack, Holding, At
  <2>3. CASE At(r, "queued") /\ GoTo(r, "detached") /\ credits' = credits
    <3>1. Moved(r, "detached")
      BY <2>3, CallMoves
    <3>2. operation_keys(call[r].op) # <<>>
      BY <2>3, HolderFacts DEF Holding, At
    <3>3. QED
      BY <2>3, <3>1, <3>2 DEF Keeps, Holding, At
  <2>4. QED
    BY <1>6, <2>1, <2>2, <2>3 DEF DropFuture
<1>7. ASSUME NEW o \in Owners, queue[o] # <<>>, ExecuteLocal(o)
      PROVE  \E r \in Requests : \E pc : GivesBack(r, pc)
  <2> DEFINE r == Head(queue[o])
  <2>1. r \in Requests /\ Accepted(r)
    BY <1>7, HeadRequest
  <2>2. \E reply : Respond(r, reply)
    BY <1>7 DEF ExecuteLocal
  <2> HIDE DEF r
  <2>3. QED
    BY <2>1, <2>2, RespondGivesBack
<1>8. ASSUME NEW o \in Owners, OwnerStep(o)
      PROVE  UNCHANGED callers \/ \E r \in Requests : \E pc : GivesBack(r, pc)
  <2>1. CASE OwnerDataTurn(o)
    BY <1>7, <2>1 DEF OwnerDataTurn
  <2>2. CASE OwnerData(o)
    BY <1>7, <2>2 DEF OwnerData
  <2>3. CASE ~(OwnerDataTurn(o) \/ OwnerData(o))
    BY <1>8, <2>3 DEF OwnerStep, OwnerReserve, OwnerPrepare, OwnerApply, OwnerRelease, OwnerStats,
                      OwnerStop, OwnerControlClosed, OwnerTick, OwnerExit
  <2>4. QED
    BY <2>1, <2>2, <2>3
<1>9. ASSUME CoStep PROVE UNCHANGED callers \/ \E r \in Requests : \E pc : GivesBack(r, pc)
  <2>1. CASE CoReleased
    <3>1. CASE LastPart
      <4>1. co.request \in Requests /\ Accepted(co.request)
        BY <2>1 DEF CoReleased, CoAcked, Transaction, Queues, Coordinating
      <4>2. Respond(co.request, co.reply)
        BY <2>1, <3>1 DEF CoReleased
      <4>3. QED
        BY <4>1, <4>2, RespondGivesBack
    <3>2. CASE ~LastPart
      BY <2>1, <3>2 DEF CoReleased
    <3>3. QED
      BY <3>1, <3>2
  <2>2. CASE ~CoReleased
    BY <1>9, <2>2 DEF CoStep, CoTake, CoStop, CoFinish, CoSend, CoReserved, CoPrepared, CoApplied
  <2>3. QED
    BY <2>1, <2>2
<1>10. ASSUME StatsCall \/ StatsStep \/ ShutdownBegin \/ ShutdownStep \/ DropEngine \/ ClockStep
       PROVE  UNCHANGED callers
  BY <1>10 DEF StatsCall, StatsStep, StatsSend, StatsBreak, StatsReceive, ShutdownBegin, ShutdownStep,
               ShutdownStopCross, ShutdownJoinCross, ShutdownStopOwner, ShutdownJoin, ShutdownAt,
               DropEngine, ClockStep
<1>11. CASE UNCHANGED vars
  BY <1>11 DEF vars
<1>12. QED
  BY <1>1, <1>2, <1>3, <1>4, <1>5, <1>6, <1>8, <1>9, <1>10, <1>11 DEF Next, CallStep

\* The calls stay well-formed, and no step changes the operation of a call under way.
LEMMA CallsNext ==
    ASSUME Calls, Queues, Transaction, [Next]_vars
    PROVE  Calls' /\ \A r \in Requests : call[r].pc # "idle" => call'[r].op = call[r].op
<1>1. CASE UNCHANGED callers
  BY <1>1 DEF callers, Calls
<1>2. ASSUME NEW r \in Requests, NEW op \in Ops, Call(r, op)
      PROVE  Calls' /\ \A s \in Requests : call[s].pc # "idle" => call'[s].op = call[s].op
  BY <1>2 DEF Call, Calls, CallFields, At, Holding
<1>3. ASSUME NEW r \in Requests, NEW pc, Moved(r, pc), call[r].pc # "idle",
             pc \in Holding \cup {"credit"} => operation_keys(call[r].op) # <<>>
      PROVE  Calls' /\ \A s \in Requests : call[s].pc # "idle" => call'[s].op = call[s].op
  BY <1>3 DEF Calls, Moved
<1>4. ASSUME NEW r \in Requests, Takes(r)
      PROVE  Calls' /\ \A s \in Requests : call[s].pc # "idle" => call'[s].op = call[s].op
  <2>1. operation_keys(call[r].op) # <<>>
    BY <1>4, HolderFacts DEF Takes
  <2>2. QED
    BY <1>3, <1>4, <2>1 DEF Takes
<1>5. ASSUME NEW r \in Requests, NEW pc, Keeps(r, pc) \/ GivesBack(r, pc)
      PROVE  Calls' /\ \A s \in Requests : call[s].pc # "idle" => call'[s].op = call[s].op
  BY <1>3, <1>5 DEF Keeps, GivesBack, Holding
<1>6. QED
  BY <1>1, <1>2, <1>4, <1>5, CallSteps

\* Every step keeps the permits conserved.
LEMMA CreditsNext ==
    ASSUME Calls, Queues, Transaction, Credits, [Next]_vars
    PROVE  Credits'
<1>1. CASE UNCHANGED callers
  BY <1>1 DEF callers, Credits, CreditsConserved, Holders, PoolOf, Charge
<1>2. ASSUME NEW r \in Requests, NEW op \in Ops, Call(r, op) PROVE Credits'
  <2>1. /\ call[r].pc = "idle" /\ credits' = credits /\ call'[r].pc = "called"
        /\ \A s \in Requests : s # r => call'[s] = call[s]
    BY <1>2 DEF Call, Calls, CallFields, At
  <2>2. \A p \in Pools : Holders(p)' = Holders(p)
    BY <2>1 DEF Holders, PoolOf, Holding
  <2>3. \A p \in Pools : [s \in Holders(p) |-> Charge(s)]' = [s \in Holders(p) |-> Charge(s)]
    <3> TAKE p \in Pools
    <3>1. \A s \in Holders(p) : Charge(s)' = Charge(s)
      BY <2>1 DEF Holders, Charge, Holding
    <3>2. QED
      BY <2>2, <3>1
  <2>4. QED
    BY <2>1, <2>2, <2>3 DEF Credits, CreditsConserved
<1>3. ASSUME NEW r \in Requests, Takes(r) PROVE Credits'
  BY <1>3, CreditsTaken DEF Takes
<1>4. ASSUME NEW r \in Requests, NEW pc, Keeps(r, pc) PROVE Credits'
  BY <1>4, CreditsKept DEF Keeps
<1>5. ASSUME NEW r \in Requests, NEW pc, GivesBack(r, pc) PROVE Credits'
  BY <1>5, CreditsReturned DEF GivesBack
<1>6. QED
  BY <1>1, <1>2, <1>3, <1>4, <1>5, CallSteps

-----------------------------------------------------------------------------
(***************************************************************************)
(* The channels.                                                           *)
(***************************************************************************)
LEMMA PoolKept ==
    ASSUME NEW p \in Pools, QueueOK(p), queue'[p] = queue[p],
           \A r \in Requests : Waits(r, p)' <=> Waits(r, p)
    PROVE  QueueOK(p)'
  BY DEF QueueOK

\* A send keeps the invariant of one channel.
LEMMA PoolSent ==
    ASSUME NEW p \in Pools, QueueOK(p), Len(queue[p]) < QueueCapacity,
           NEW e, e \in Requests \/ (e = Stop /\ p = Cross), ~In(e, queue[p]),
           queue'[p] = Append(queue[p], e),
           \A r \in Requests : Waits(r, p)' <=> Waits(r, p) \/ r = e
    PROVE  QueueOK(p)'
<1>1. IsSeq(queue[p]) /\ NoRepeats(queue[p]) /\ Len(queue[p]) \in Nat
  BY SeqLength DEF QueueOK
<1>2. IsSeq(queue'[p]) /\ Len(queue'[p]) = Len(queue[p]) + 1
  BY <1>1, SeqAppend
<1>3. NoRepeats(queue'[p]) /\ \A x : In(x, queue'[p]) <=> In(x, queue[p]) \/ x = e
  BY <1>1, AppendIn
<1>4. Len(queue'[p]) <= QueueCapacity
  BY <1>1, <1>2, EngineAssumption
<1>5. QED
  BY <1>2, <1>3, <1>4 DEF QueueOK

\* A receive keeps the invariant of one channel.
LEMMA PoolTaken ==
    ASSUME NEW p \in Pools, QueueOK(p), queue[p] # <<>>, queue'[p] = Tail(queue[p]),
           \A r \in Requests : Waits(r, p)' <=> Waits(r, p) /\ r # Head(queue[p])
    PROVE  QueueOK(p)'
<1>1. IsSeq(queue[p]) /\ NoRepeats(queue[p]) /\ Len(queue[p]) \in Nat
  BY SeqLength DEF QueueOK
<1>2. IsSeq(queue'[p]) /\ Len(queue'[p]) = Len(queue[p]) - 1
  BY <1>1, SeqTail
<1>3. /\ NoRepeats(queue'[p])
      /\ \A x : In(x, queue'[p]) <=> In(x, queue[p]) /\ x # Head(queue[p])
  BY <1>1, TailIn
<1>4. Len(queue'[p]) <= QueueCapacity
  BY <1>1, <1>2, EngineAssumption DEF QueueOK
<1>5. QED
  BY <1>2, <1>3, <1>4 DEF QueueOK

\* A request that moves without being accepted or answered stays where it is.
LEMMA QueuesKept ==
    ASSUME Queues, NEW r \in Requests, NEW pc, Moved(r, pc), queue' = queue, co' = co,
           Accepted(r) <=> pc \in {"queued", "detached"}
    PROVE  Queues'
<1>1. \A s \in Requests : (Accepted(s)' <=> Accepted(s)) /\ PoolOf(s)' = PoolOf(s)
  BY DEF Moved, Accepted, PoolOf
<1>2. \A p \in Pools, s \in Requests : Waits(s, p)' <=> Waits(s, p)
  BY <1>1 DEF Waits
<1>3. \A p \in Pools : QueueOK(p)'
  BY <1>2, PoolKept DEF Queues
<1>4. QED
  BY <1>1, <1>3 DEF Queues

\* Requests and the coordinator stay as they are.
LEMMA QueuesSame ==
    ASSUME Queues, call' = call, queue' = queue, co'.request = co.request
    PROVE  Queues'
  BY DEF Queues, QueueOK, Waits, Accepted, PoolOf

\* The owner takes the request at the head of its channel and answers it.
LEMMA QueuesExecuted ==
    ASSUME Calls, Queues, NEW o \in Owners, queue[o] # <<>>, ExecuteLocal(o), co' = co
    PROVE  Queues'
<1> DEFINE r == Head(queue[o])
<1>1. r \in Requests /\ Accepted(r) /\ PoolOf(r) = o /\ r # co.request
  BY HeadRequest
<1>2. Moved(r, Answered(r))
  BY <1>1, CallMoves DEF ExecuteLocal
<1>3. o \in Pools /\ o # Cross
  BY EngineAssumption DEF Pools, Owners, Cross
<1>4. /\ DOMAIN queue' = Pools /\ queue'[o] = Tail(queue[o])
      /\ \A p \in Pools : p # o => queue'[p] = queue[p]
  BY <1>3 DEF ExecuteLocal, Queues
<1> HIDE DEF r
<1>5. \A s \in Requests : (Accepted(s)' <=> Accepted(s) /\ s # r) /\ PoolOf(s)' = PoolOf(s)
  BY <1>1, <1>2 DEF Moved, Accepted, PoolOf, Answered
<1>6. \A p \in Pools, s \in Requests : Waits(s, p)' <=> Waits(s, p) /\ s # r
  BY <1>5 DEF Waits
<1>7. \A p \in Pools : p # o => QueueOK(p)'
  <2> SUFFICES ASSUME NEW p \in Pools, p # o PROVE QueueOK(p)'
    OBVIOUS
  <2>1. \A s \in Requests : Waits(s, p)' <=> Waits(s, p)
    BY <1>1, <1>6 DEF Waits
  <2>2. QED
    BY <1>4, <2>1, PoolKept DEF Queues
<1>8. QueueOK(o)'
  BY <1>3, <1>4, <1>6, PoolTaken DEF Queues, r
<1>9. QED
  BY <1>1, <1>4, <1>5, <1>7, <1>8 DEF Queues

\* Every step keeps the channels and the states of the requests in agreement.
LEMMA QueuesNext ==
    ASSUME Calls, Queues, Transaction, Lives, [Next]_vars
    PROVE  Queues'
<1> USE DEF callers, channels, owners
<1>0. /\ DOMAIN queue = Pools /\ \A p \in Pools : QueueOK(p)
      /\ Cross \in Pools /\ Cross \notin Owners /\ \A o \in Owners : o \in Pools
  BY EngineAssumption DEF Queues, Pools, Cross, Owners
<1>1. ASSUME NEW r \in Requests, NEW op \in Ops, Call(r, op) PROVE Queues'
  <2>1. /\ call[r].pc = "idle" /\ call'[r].pc = "called" /\ queue' = queue /\ co' = co
        /\ \A s \in Requests : s # r => call'[s] = call[s]
    BY <1>1 DEF Call, Calls, CallFields, At
  <2>2. ~Accepted(r) /\ ~Accepted(r)'
    BY <2>1 DEF Accepted
  <2>3. \A s \in Requests : /\ Accepted(s)' <=> Accepted(s)
                            /\ Accepted(s) => PoolOf(s)' = PoolOf(s)
    BY <2>1, <2>2 DEF Accepted, PoolOf
  <2>4. \A p \in Pools, s \in Requests : Waits(s, p)' <=> Waits(s, p)
    BY <2>1, <2>3 DEF Waits
  <2>5. \A p \in Pools : QueueOK(p)'
    BY <1>0, <2>1, <2>4, PoolKept
  <2>6. QED
    BY <2>1, <2>3, <2>5 DEF Queues
<1>2. ASSUME NEW r \in Requests, Begin(r) \/ AcquireCredit(r) \/ RejectClosed(r) \/ AdmissionTimeout(r)
      PROVE  Queues'
  <2>1. queue' = queue /\ co' = co /\ call[r].pc \in {"called", "credit", "send"}
    BY <1>2 DEF Begin, AcquireCredit, RejectClosed, AdmissionTimeout, At
  <2>2. GoTo(r, "credit") \/ GoTo(r, "send") \/ \E reply : Return(r, reply)
    BY <1>2 DEF Begin, AcquireCredit, RejectClosed, AdmissionTimeout
  <2>3. Moved(r, "credit") \/ Moved(r, "send") \/ Moved(r, "done")
    BY <2>2, CallMoves
  <2>4. ~Accepted(r)
    BY <2>1 DEF Accepted
  <2>5. QED
    BY <2>1, <2>3, <2>4, QueuesKept
<1>3. ASSUME NEW r \in Requests, DropFuture(r) PROVE Queues'
  <2>1. queue' = queue /\ co' = co
    BY <1>3 DEF DropFuture
  <2>2. \/ GoTo(r, "abandoned") /\ ~Accepted(r)
        \/ GoTo(r, "detached") /\ Accepted(r)
    BY <1>3 DEF DropFuture, At, Accepted
  <2>3. \/ Moved(r, "abandoned") /\ ~Accepted(r)
        \/ Moved(r, "detached") /\ Accepted(r)
    BY <2>2, CallMoves
  <2>4. QED
    BY <2>1, <2>3, QueuesKept
<1>4. ASSUME NEW r \in Requests, Enqueue(r) PROVE Queues'
  <2>1. call[r].pc = "send" /\ co' = co /\ Moved(r, "queued") /\ Len(queue[PoolOf(r)]) < QueueCapacity
    BY <1>4, CallMoves DEF Enqueue, At
  <2>2. PICK q \in Pools : q = PoolOf(r)
    BY <2>1, HolderFacts DEF Holding
  <2>3. /\ DOMAIN queue' = Pools /\ queue'[q] = Append(queue[q], r)
        /\ \A p \in Pools : p # q => queue'[p] = queue[p]
    BY <1>0, <1>4, <2>2 DEF Enqueue
  <2>4. ~Accepted(r) /\ r # co.request
    BY <2>1, EngineAssumption DEF Accepted, Queues
  <2>5. \A s \in Requests : (Accepted(s)' <=> Accepted(s) \/ s = r) /\ PoolOf(s)' = PoolOf(s)
    BY <2>1, <2>4 DEF Moved, Accepted, PoolOf
  <2>6. \A p \in Pools, s \in Requests : Waits(s, p)' <=> Waits(s, p) \/ (s = r /\ p = q)
    BY <2>1, <2>2, <2>4, <2>5 DEF Waits
  <2>7. \A p \in Pools : p # q => QueueOK(p)'
    BY <1>0, <2>3, <2>6, PoolKept
  <2>8. ~In(r, queue[q])
    BY <1>0, <2>2, <2>4 DEF QueueOK, Waits
  <2>9. QueueOK(q)'
    BY <1>0, <2>1, <2>2, <2>3, <2>6, <2>8, PoolSent
  <2>10. QED
    BY <2>1, <2>3, <2>4, <2>5, <2>7, <2>9 DEF Queues
<1>5. ASSUME NEW o \in Owners, OwnerStep(o) PROVE Queues'
  <2>1. CASE (OwnerDataTurn(o) /\ queue[o] # <<>>) \/ OwnerData(o)
    <3>1. queue[o] # <<>> /\ ExecuteLocal(o) /\ co' = co
      BY <2>1 DEF OwnerDataTurn, OwnerData
    <3>2. QED
      BY <3>1, QueuesExecuted
  <2>2. CASE OwnerDataTurn(o) /\ ~(queue[o] # <<>>)
    <3>1. call' = call /\ queue' = queue /\ co' = co
      BY <2>2 DEF OwnerDataTurn
    <3>2. QED
      BY <3>1, QueuesSame
  <2>3. CASE OwnerReserve(o) \/ OwnerPrepare(o) \/ OwnerApply(o) \/ OwnerRelease(o)
    <3>1. call' = call /\ queue' = queue
      BY <2>3 DEF OwnerReserve, OwnerPrepare, OwnerApply, OwnerRelease
    <3>2. \E ok, reply : Acknowledge(ok, reply)
      BY <2>3 DEF OwnerReserve, OwnerPrepare, OwnerApply, OwnerRelease
    <3>3. co'.request = co.request
      BY <3>2 DEF Acknowledge, Transaction, CoFields
    <3>4. QED
      BY <3>1, <3>3, QueuesSame
  <2>4. CASE OwnerStats(o) \/ OwnerStop(o) \/ OwnerControlClosed(o) \/ OwnerTick(o) \/ OwnerExit(o)
    <3>1. call' = call /\ queue' = queue /\ co' = co
      BY <2>4 DEF OwnerStats, OwnerStop, OwnerControlClosed, OwnerTick, OwnerExit
    <3>2. QED
      BY <3>1, QueuesSame
  <2>5. QED
    BY <1>5, <2>1, <2>2, <2>3, <2>4 DEF OwnerStep
<1>6. ASSUME CoTake PROVE Queues'
  <2> DEFINE r == Head(queue[Cross])
  <2>1. /\ call' = call /\ queue[Cross] # <<>> /\ r # Stop /\ co.phase = "idle"
        /\ queue' = [queue EXCEPT ![Cross] = Tail(@)]
    BY <1>6 DEF CoTake
  <2>2. co'.request = r
    BY <1>6 DEF CoTake, IdleCoordinator
  <2>3. co.request = None
    BY <2>1 DEF Transaction, Coordinating
  <2>4. In(r, queue[Cross])
    BY <1>0, <2>1, TailIn DEF QueueOK
  <2>5. r \in Requests /\ Waits(r, Cross)
    BY <1>0, <2>1, <2>4 DEF QueueOK
  <2>6. /\ DOMAIN queue' = Pools /\ queue'[Cross] = Tail(queue[Cross])
        /\ \A p \in Pools : p # Cross => queue'[p] = queue[p]
    BY <1>0, <2>1
  <2> HIDE DEF r
  <2>7. \A s \in Requests : (Accepted(s)' <=> Accepted(s)) /\ PoolOf(s)' = PoolOf(s)
    BY <2>1 DEF Accepted, PoolOf
  <2>8. \A p \in Pools, s \in Requests : Waits(s, p)' <=> Waits(s, p) /\ s # r
    BY <2>2, <2>3, <2>7, EngineAssumption DEF Waits
  <2>9. \A p \in Pools : p # Cross => QueueOK(p)'
    <3> SUFFICES ASSUME NEW p \in Pools, p # Cross PROVE QueueOK(p)'
      OBVIOUS
    <3>1. \A s \in Requests : Waits(s, p)' <=> Waits(s, p)
      BY <2>5, <2>8 DEF Waits
    <3>2. QED
      BY <1>0, <2>6, <3>1, PoolKept
  <2>10. QueueOK(Cross)'
    BY <1>0, <2>1, <2>6, <2>8, PoolTaken DEF r
  <2>11. QED
    BY <2>2, <2>5, <2>6, <2>7, <2>9, <2>10 DEF Queues, Waits
<1>7. ASSUME CoStop PROVE Queues'
  <2>1. /\ call' = call /\ co' = co /\ queue[Cross] # <<>> /\ Head(queue[Cross]) = Stop
        /\ queue' = [queue EXCEPT ![Cross] = Tail(@)]
    BY <1>7 DEF CoStop
  <2>2. /\ DOMAIN queue' = Pools /\ queue'[Cross] = Tail(queue[Cross])
        /\ \A p \in Pools : p # Cross => queue'[p] = queue[p]
    BY <1>0, <2>1
  <2>3. \A p \in Pools, s \in Requests : Waits(s, p)' <=> Waits(s, p)
    BY <2>1 DEF Waits, Accepted, PoolOf
  <2>4. \A s \in Requests : s # Stop
    BY EngineAssumption
  <2>5. \A p \in Pools : p # Cross => QueueOK(p)'
    BY <1>0, <2>2, <2>3, PoolKept
  <2>6. QueueOK(Cross)'
    BY <1>0, <2>1, <2>2, <2>3, <2>4, PoolTaken
  <2>7. QED
    BY <2>1, <2>2, <2>5, <2>6 DEF Queues, Accepted, PoolOf
<1>8. ASSUME CoReleased PROVE Queues'
  <2>1. queue' = queue /\ co.phase = "release"
    BY <1>8 DEF CoReleased, CoAcked
  <2>2. CASE ~LastPart
    <3>1. call' = call /\ co' = Advance("release")
      BY <1>8, <2>2 DEF CoReleased
    <3>2. co'.request = co.request
      BY <3>1 DEF Advance, Transaction, CoFields
    <3>3. QED
      BY <2>1, <3>1, <3>2, QueuesSame
  <2>3. CASE LastPart
    <3> DEFINE r == co.request
    <3>1. Respond(r, co.reply) /\ co' = IdleCoordinator(co.id)
      BY <1>8, <2>3 DEF CoReleased
    <3>2. r \in Requests /\ Accepted(r) /\ r # None
      BY <2>1 DEF Transaction, Queues, Coordinating
    <3>3. Moved(r, Answered(r)) /\ co'.request = None
      BY <3>1, <3>2, CallMoves DEF IdleCoordinator
    <3>4. \A s \in Requests : (Accepted(s)' <=> Accepted(s) /\ s # r) /\ PoolOf(s)' = PoolOf(s)
      BY <3>2, <3>3 DEF Moved, Accepted, PoolOf, Answered
    <3>5. \A p \in Pools, s \in Requests : Waits(s, p)' <=> Waits(s, p)
      BY <3>3, <3>4, EngineAssumption DEF Waits
    <3>6. \A p \in Pools : QueueOK(p)'
      BY <1>0, <2>1, <3>5, PoolKept
    <3>7. QED
      BY <2>1, <3>3, <3>6 DEF Queues
  <2>4. QED
    BY <2>2, <2>3
<1>9. ASSUME CoFinish \/ CoSend \/ CoReserved \/ CoPrepared \/ CoApplied PROVE Queues'
  <2>1. call' = call /\ queue' = queue
    BY <1>9 DEF CoFinish, CoSend, CoReserved, CoPrepared, CoApplied, CoAcked
  <2>2. co'.request = co.request
    BY <1>9 DEF CoFinish, CoSend, CoReserved, CoPrepared, CoApplied, Advance, Abort, Transaction,
                CoFields
  <2>3. QED
    BY <2>1, <2>2, QueuesSame
<1>10. ASSUME ShutdownStopCross PROVE Queues'
  <2>1. /\ call' = call /\ co' = co /\ Len(queue[Cross]) < QueueCapacity
        /\ queue' = [queue EXCEPT ![Cross] = Append(@, Stop)] /\ shutdown.phase = "stop_cross"
    BY <1>10 DEF ShutdownStopCross, ShutdownAt
  <2>2. /\ DOMAIN queue' = Pools /\ queue'[Cross] = Append(queue[Cross], Stop)
        /\ \A p \in Pools : p # Cross => queue'[p] = queue[p]
    BY <1>0, <2>1
  <2>3. \A p \in Pools, s \in Requests : Waits(s, p)' <=> Waits(s, p)
    BY <2>1 DEF Waits, Accepted, PoolOf
  <2>4. ~In(Stop, queue[Cross])
    BY <2>1 DEF Lives, CrossLife
  <2>5. \A s \in Requests : s # Stop
    BY EngineAssumption
  <2>6. \A p \in Pools : p # Cross => QueueOK(p)'
    BY <1>0, <2>2, <2>3, PoolKept
  <2>7. QueueOK(Cross)'
    BY <1>0, <2>1, <2>2, <2>3, <2>4, <2>5, PoolSent
  <2>8. QED
    BY <2>1, <2>2, <2>6, <2>7 DEF Queues, Accepted, PoolOf
<1>11. ASSUME \/ StatsCall \/ StatsStep \/ ShutdownBegin \/ ShutdownJoinCross \/ ShutdownStopOwner
              \/ ShutdownJoin \/ DropEngine \/ ClockStep \/ UNCHANGED vars
       PROVE  Queues'
  <2>1. call' = call /\ queue' = queue /\ co' = co
    BY <1>11 DEF StatsCall, StatsStep, StatsSend, StatsBreak, StatsReceive, ShutdownBegin,
                 ShutdownJoinCross, ShutdownStopOwner, ShutdownJoin, ShutdownAt, DropEngine,
                 ClockStep, vars
  <2>2. QED
    BY <2>1, QueuesSame
<1>12. QED
  BY <1>1, <1>2, <1>3, <1>4, <1>5, <1>6, <1>7, <1>8, <1>9, <1>10, <1>11
     DEF Next, CallStep, CoStep, ShutdownStep

-----------------------------------------------------------------------------
(***************************************************************************)
(* The coordinator.                                                        *)
(***************************************************************************)
\* What the phases of coordinate do to the transaction.
Advanced(phase) ==
    /\ DOMAIN co' = CoFields
    /\ co'.id = co.id /\ co'.request = co.request /\ co'.parts = co.parts
    /\ co'.sent = FALSE /\ co'.ack = NoAnswer
    /\ co'.phase = IF LastPart THEN phase ELSE co.phase
    /\ co'.part = IF LastPart THEN 1 ELSE co.part + 1

Aborted ==
    /\ DOMAIN co' = CoFields
    /\ co'.id = co.id /\ co'.request = co.request /\ co'.parts = co.parts
    /\ co'.sent = FALSE /\ co'.ack = NoAnswer
    /\ co'.phase = "release" /\ co'.part = 1

\* The forms in which the coordinator's next state is written.
LEMMA CoAdvances ==
    ASSUME DOMAIN co = CoFields, NEW phase, NEW now, NEW plan, NEW results, NEW reply
    PROVE  /\ co' = Advance(phase) => Advanced(phase)
           /\ co' = [Advance(phase) EXCEPT !.now = now, !.plan = plan] => Advanced(phase)
           /\ co' = [Advance(phase) EXCEPT !.results = results] => Advanced(phase)
           /\ co' = [Advance(phase) EXCEPT !.results = results, !.reply = reply]
                => Advanced(phase)
           /\ co' = Abort(reply) => Aborted
<1>1. co' = Advance(phase) => Advanced(phase)
  BY DEF Advance, Advanced, CoFields
<1>2. co' = [Advance(phase) EXCEPT !.now = now, !.plan = plan] => Advanced(phase)
  BY DEF Advance, Advanced, CoFields
<1>3. co' = [Advance(phase) EXCEPT !.results = results] => Advanced(phase)
  BY DEF Advance, Advanced, CoFields
<1>4. co' = [Advance(phase) EXCEPT !.results = results, !.reply = reply] => Advanced(phase)
  BY DEF Advance, Advanced, CoFields
<1>5. co' = Abort(reply) => Aborted
  BY DEF Abort, Aborted, CoFields
<1>6. QED
  BY <1>1, <1>2, <1>3, <1>4, <1>5

\* What each step of the coordinator after an answer does to its phase.
LEMMA CoMoves ==
    ASSUME DOMAIN co = CoFields
    PROVE  /\ CoReserved => CoAcked("reserve") /\ Advanced("prepare")
           /\ CoPrepared => /\ CoAcked("prepare")
                            /\ (co.ack.ok /\ Advanced("apply")) \/ Aborted
           /\ CoApplied => CoAcked("apply") /\ Advanced("release")
           /\ CoReleased /\ ~LastPart => CoAcked("release") /\ Advanced("release")
<1>1. ASSUME CoReserved PROVE CoAcked("reserve") /\ Advanced("prepare")
  BY <1>1, CoAdvances DEF CoReserved
<1>2. ASSUME CoPrepared
      PROVE  CoAcked("prepare") /\ ((co.ack.ok /\ Advanced("apply")) \/ Aborted)
  BY <1>2, CoAdvances DEF CoPrepared
<1>3. ASSUME CoApplied PROVE CoAcked("apply") /\ Advanced("release")
  BY <1>3, CoAdvances DEF CoApplied
<1>4. ASSUME CoReleased, ~LastPart PROVE CoAcked("release") /\ Advanced("release")
  BY <1>4, CoAdvances DEF CoReleased
<1>5. QED
  BY <1>1, <1>2, <1>3, <1>4

\* A coordinator that has just advanced has no answer.
LEMMA NothingArrived ==
    ASSUME co'.ack = NoAnswer, co'.sent = FALSE
    PROVE  co'.sent \in BOOLEAN /\ co'.ack.arrived \in BOOLEAN /\ ~co'.ack.arrived
<1>1. NoAnswer.arrived = FALSE
  BY DEF NoAnswer
<1>2. co'.ack.arrived = FALSE
  BY <1>1
<1>3. QED
  BY <1>2

\* The parts of the transaction in progress.
LEMMA CoParts ==
    ASSUME Calls, Queues, Transaction, Coordinating
    PROVE  /\ co.request \in Requests /\ CoOp \in Operations
           /\ Len(co.parts) \in Nat /\ co.part \in 1 .. Len(co.parts)
           /\ \A j \in 1 .. Len(co.parts) :
                 co.parts[j].owner \in Owners /\ co.parts[j].owner \in Participants(CoOp)
           /\ \A i, j \in 1 .. Len(co.parts) : co.parts[i].owner = co.parts[j].owner => i = j
<1>1. co.request \in Requests /\ Accepted(co.request)
  BY DEF Transaction, Queues
<1>2. CoOp \in Operations
  BY <1>1, HolderFacts DEF Accepted, Holding, CoOp
<1>3. co.parts = split(CoOp) /\ co.part \in 1 .. Len(co.parts)
  BY DEF Transaction
<1>4. Parts(CoOp) \in Nat
  BY <1>2, ParticipantsFinite
<1>5. Len(co.parts) = Parts(CoOp)
  BY <1>2, <1>3, SplitParts
<1>6. QED
  BY <1>1, <1>2, <1>3, <1>4, <1>5, SplitParts

\* The message of the transaction has the type of its phase.
LEMMA CoMessageType == Coordinating => CoMessage.type = co.phase /\ CoMessage.id = co.id
  BY DEF CoMessage, Coordinating

\* An owner that meets a message of a transaction is the one waited for.
LEMMA HeadMessage ==
    ASSUME Messages, NEW o \in Owners, NEW type \in Transactional, Controlled(o, type)
    PROVE  InFlight /\ o = CoOwner /\ Head(control[o]) = CoMessage /\ co.phase = type
<1>1. IsSeq(control[o]) /\ control[o] # <<>> /\ Head(control[o]).type = type
  BY DEF Messages, ControlOK, Controlled
<1>2. Expected(o, Head(control[o]))
  BY <1>1, TailIn DEF Messages, ControlOK
<1>3. Head(control[o]) # Plain("stats") /\ Head(control[o]) # Plain("stop")
  BY <1>1 DEF Plain, Transactional
<1>4. Head(control[o]) = CoMessage /\ InFlight /\ o = CoOwner
  BY <1>2, <1>3 DEF Expected, Lasting
<1>5. QED
  BY <1>1, <1>4, CoMessageType DEF InFlight

\* An owner is stopped only after the coordinator has finished.
LEMMA HeadStop ==
    ASSUME Messages, NEW o \in Owners, Controlled(o, "stop")
    PROVE  co.phase = "finished" /\ (shutdown.phase # "dropped" => o <= shutdown.stops)
<1>1. IsSeq(control[o]) /\ control[o] # <<>> /\ Head(control[o]).type = "stop"
  BY DEF Messages, ControlOK, Controlled
<1>2. Expected(o, Head(control[o]))
  BY <1>1, TailIn DEF Messages, ControlOK
<1>3. Head(control[o]) # Plain("stats")
  BY <1>1 DEF Plain
<1>4. ~(Head(control[o]) = CoMessage /\ InFlight)
  BY <1>1, CoMessageType DEF InFlight, Coordinating
<1>5. QED
  BY <1>2, <1>3, <1>4 DEF Expected, Lasting

\* The outcome of a preparation.
LEMMA PrepareOk ==
    ASSUME NEW sh, NEW op, NEW now, NEW limits
    PROVE  /\ prepare(sh, op, now, limits).ok \in BOOLEAN
           /\ prepare(sh, op, now, limits).revision = sh.revision
  BY DEF prepare, preflight, Failed, Prepared

\* The answer of an owner.
AckArrived(ok) ==
    /\ DOMAIN co' = CoFields
    /\ \A field \in CoFields : field # "ack" => co'[field] = co[field]
    /\ co'.ack.arrived = TRUE /\ co'.ack.ok = ok

\* The effect of an owner's answer on the coordinator.
LEMMA Acks ==
    ASSUME DOMAIN co = CoFields, NEW ok, NEW reply, Acknowledge(ok, reply)
    PROVE  AckArrived(ok)
  BY DEF Acknowledge, AckArrived, CoFields

\* The steps of an owner for a transaction.
LEMMA OwnerAcks ==
    ASSUME Transaction, Messages, NEW o \in Owners,
           OwnerReserve(o) \/ OwnerPrepare(o) \/ OwnerApply(o) \/ OwnerRelease(o)
    PROVE  InFlight /\ o = CoOwner /\ \E ok \in BOOLEAN : AckArrived(ok)
<1>1. \E type \in Transactional : Controlled(o, type)
  BY DEF OwnerReserve, OwnerPrepare, OwnerApply, OwnerRelease, Transactional
<1>2. InFlight /\ o = CoOwner
  BY <1>1, HeadMessage
<1>3. \E ok \in BOOLEAN : \E reply : Acknowledge(ok, reply)
  <2>1. CASE OwnerPrepare(o)
    BY <2>1, PrepareOk DEF OwnerPrepare
  <2>2. CASE OwnerReserve(o) \/ OwnerApply(o) \/ OwnerRelease(o)
    <3>1. Acknowledge(TRUE, None)
      BY <2>2 DEF OwnerReserve, OwnerApply, OwnerRelease
    <3>2. QED
      BY <3>1
  <2>3. QED
    BY <2>1, <2>2
<1>4. QED
  BY <1>2, <1>3, Acks DEF Transaction

\* Every step keeps the coordinator's state of a transaction sound.
LEMMA TransactionNext ==
    ASSUME Calls, Queues, Transaction, Messages, [Next]_vars
    PROVE  Transaction'
<1> USE DEF callers, channels, owners
<1>0. Coordinating => call'[co.request].op = call[co.request].op
  BY CallsNext DEF Transaction, Queues, Accepted
<1>1. CASE co' = co
  BY <1>0, <1>1 DEF Transaction, CoOp, Coordinating
<1>2. ASSUME NEW ok \in BOOLEAN, AckArrived(ok), InFlight PROVE Transaction'
  BY <1>0, <1>2 DEF Transaction, CoOp, Coordinating, AckArrived, CoFields, InFlight
<1>3. ASSUME NEW phase \in Transactional, Advanced(phase), Coordinating PROVE Transaction'
  <2>1. Len(co.parts) \in Nat /\ co.part \in 1 .. Len(co.parts)
    BY <1>3, CoParts
  <2>2. co'.part \in 1 .. Len(co'.parts)
    BY <1>3, <2>1 DEF Advanced, LastPart
  <2>3. Coordinating' /\ co.request # None /\ co'.phase \in Transactional
    BY <1>3 DEF Advanced, Coordinating, Transaction, Transactional
  <2>4. co'.parts = split(CoOp)'
    BY <1>0, <1>3 DEF Advanced, Transaction, CoOp
  <2>5. QED
    BY <1>3, <2>2, <2>3, <2>4, NothingArrived DEF Transaction, Advanced, Transactional
<1>4. ASSUME Aborted, Coordinating PROVE Transaction'
  <2>1. Len(co.parts) \in Nat /\ co.part \in 1 .. Len(co.parts)
    BY <1>4, CoParts
  <2>2. co'.part \in 1 .. Len(co'.parts)
    BY <1>4, <2>1 DEF Aborted
  <2>3. Coordinating' /\ co.request # None
    BY <1>4 DEF Aborted, Coordinating, Transaction
  <2>4. co'.parts = split(CoOp)'
    BY <1>0, <1>4 DEF Aborted, Transaction, CoOp
  <2>5. QED
    BY <1>4, <2>2, <2>3, <2>4, NothingArrived DEF Transaction, Aborted
<1>5. CASE CoTake
  <2> DEFINE r == Head(queue[Cross])
             op == call[r].op
  <2>1. /\ call' = call /\ queue[Cross] # <<>> /\ r # Stop
        /\ co' = [IdleCoordinator(co.id + 1) EXCEPT !.phase = "reserve", !.request = r,
                                                    !.parts = split(op), !.part = 1]
    BY <1>5 DEF CoTake
  <2>2. Cross \in Pools
    BY DEF Pools
  <2>3. In(r, queue[Cross])
    BY <2>1, <2>2, TailIn DEF Queues, QueueOK
  <2>4. r \in Requests /\ Accepted(r)
    BY <2>1, <2>2, <2>3 DEF Queues, QueueOK, Waits
  <2>5. op \in Operations /\ operation_keys(op) # <<>>
    BY <2>4, HolderFacts DEF Accepted, Holding
  <2> HIDE DEF r
  <2>6. Parts(op) \in Nat /\ Parts(op) >= 1 /\ Len(split(op)) = Parts(op)
    BY <2>5, ParticipantsFinite, SplitParts
  <2> DEFINE s == split(op)
  <2>7. /\ DOMAIN co' = CoFields /\ co'.phase = "reserve" /\ co'.request = r
        /\ co'.parts = s /\ co'.part = 1 /\ co'.sent = FALSE /\ co'.ack = NoAnswer
    BY <2>1 DEF IdleCoordinator, CoFields
  <2>8. s = split(CoOp)'
    BY <2>1, <2>7 DEF CoOp
  <2>9. 1 \in 1 .. Len(s)
    BY <2>6
  <2>10. r # None
    BY <2>4, EngineAssumption
  <2> HIDE DEF s
  <2>11. QED
    BY <2>7, <2>8, <2>9, <2>10, NothingArrived DEF Transaction, Coordinating
<1>6. CASE CoFinish
  BY <1>6 DEF CoFinish, Transaction, Coordinating, CoFields
<1>7. CASE CoSend
  BY <1>0, <1>7 DEF CoSend, Transaction, Coordinating, CoFields, CoOp
<1>8. CASE CoReserved \/ CoPrepared \/ CoApplied \/ (CoReleased /\ ~LastPart)
  <2>1. \/ \E phase \in Transactional : Advanced(phase)
        \/ Aborted
    BY <1>8, CoMoves DEF Transaction, Transactional
  <2>2. Coordinating
    BY <1>8 DEF CoReserved, CoPrepared, CoApplied, CoReleased, CoAcked, Coordinating
  <2>3. QED
    BY <1>3, <1>4, <2>1, <2>2
<1>9. CASE CoReleased /\ LastPart
  <2>1. /\ DOMAIN co' = CoFields /\ co'.phase = "idle" /\ co'.request = None
        /\ co'.sent = FALSE /\ co'.ack = NoAnswer
    BY <1>9 DEF CoReleased, IdleCoordinator, CoFields
  <2>2. QED
    BY <2>1, NothingArrived DEF Transaction, Coordinating
<1>10. ASSUME NEW o \in Owners, OwnerStep(o) PROVE Transaction'
  <2>1. CASE OwnerReserve(o) \/ OwnerPrepare(o) \/ OwnerApply(o) \/ OwnerRelease(o)
    BY <1>2, <2>1, OwnerAcks
  <2>2. CASE ~(OwnerReserve(o) \/ OwnerPrepare(o) \/ OwnerApply(o) \/ OwnerRelease(o))
    <3>1. co' = co
      BY <1>10, <2>2 DEF OwnerStep, OwnerDataTurn, OwnerStats, OwnerStop, OwnerControlClosed,
                         OwnerTick, OwnerData, OwnerExit
    <3>2. QED
      BY <1>1, <3>1
  <2>3. QED
    BY <2>1, <2>2
<1>11. ASSUME NEW r \in Requests, CallStep(r) \/ DropFuture(r) \/ \E op \in Ops : Call(r, op)
       PROVE  co' = co
  BY <1>11 DEF CallStep, Begin, AcquireCredit, Enqueue, RejectClosed, AdmissionTimeout, DropFuture, Call
<1>12. ASSUME \/ CoStop \/ StatsCall \/ StatsStep \/ ShutdownBegin \/ ShutdownStep \/ DropEngine
              \/ ClockStep \/ UNCHANGED vars
       PROVE  co' = co
  BY <1>12 DEF CoStop, StatsCall, StatsStep, StatsSend, StatsBreak, StatsReceive, ShutdownBegin,
               ShutdownStep, ShutdownStopCross, ShutdownJoinCross, ShutdownStopOwner, ShutdownJoin,
               ShutdownAt, DropEngine, ClockStep, vars
<1>13. QED
  BY <1>1, <1>5, <1>6, <1>7, <1>8, <1>9, <1>10, <1>11, <1>12 DEF Next, CoStep

-----------------------------------------------------------------------------
(***************************************************************************)
(* Starting and stopping.                                                  *)
(***************************************************************************)
\* No owner starts to stop or leaves.
Steady ==
    /\ DOMAIN owner' = Owners
    /\ \A o \in Owners : /\ DOMAIN owner'[o] = OwnerFields
                         /\ owner'[o].running = owner[o].running
                         /\ owner'[o].stopping = owner[o].stopping

\* The life of one owner in a step that starts and stops nothing.
LEMMA OwnerLifeKept ==
    ASSUME Lives, Steady, closed' = closed, shutdown' = shutdown,
           co.phase = "finished" => co'.phase = "finished",
           NEW o \in Owners, owner[o].running \/ queue'[o] = queue[o]
    PROVE  OwnerLife(o)'
  BY DEF Lives, OwnerLife, Steady

\* The lives of all tasks in a step that starts and stops nothing.
LEMMA LivesKept ==
    ASSUME Lives, Steady, closed' = closed, queue' = queue, shutdown' = shutdown,
           co'.phase = "finished" <=> co.phase = "finished"
    PROVE  Lives'
<1>1. \A o \in Owners : OwnerLife(o)'
  BY OwnerLifeKept
<1>2. CrossLife'
  BY DEF Lives, CrossLife
<1>3. ShutdownLife'
  BY DEF Lives, ShutdownLife, Steady
<1>4. QED
  BY <1>1, <1>2, <1>3 DEF Lives, Steady

\* A step of a request, or of an owner on a request, changes one channel that is open
\* or in use.
LEMMA LivesQueue ==
    ASSUME Lives, Steady, closed' = closed, shutdown' = shutdown, co' = co,
           DOMAIN queue = Pools, NEW p \in Pools, NEW q, queue' = [queue EXCEPT ![p] = q],
           p \in Owners => owner[p].running,
           p = Cross => co.phase # "finished" /\ (In(Stop, q) => In(Stop, queue[Cross]))
    PROVE  Lives'
<1>1. Cross \in Pools /\ \A o \in Owners : o \in Pools /\ o # Cross
  BY EngineAssumption DEF Pools, Cross, Owners
<1>2. \A o \in Owners : owner[o].running \/ queue'[o] = queue[o]
  BY <1>1
<1>3. \A o \in Owners : OwnerLife(o)'
  BY <1>2, OwnerLifeKept
<1>4. CrossLife'
  <2>1. CASE p = Cross
    BY <1>1, <2>1 DEF Lives, CrossLife
  <2>2. CASE p # Cross
    <3>1. queue'[Cross] = queue[Cross]
      BY <1>1, <2>2
    <3>2. QED
      BY <3>1 DEF Lives, CrossLife
  <2>3. QED
    BY <2>1, <2>2
<1>5. ShutdownLife'
  BY DEF Lives, ShutdownLife, Steady
<1>6. QED
  BY <1>3, <1>4, <1>5 DEF Lives, Steady

\* A step of one owner that leaves its two life flags alone.
LEMMA SteadyExcept ==
    ASSUME Lives, NEW o \in Owners,
           DOMAIN owner' = Owners, \A x \in Owners : x # o => owner'[x] = owner[x],
           DOMAIN owner'[o] = OwnerFields,
           owner'[o].running = owner[o].running, owner'[o].stopping = owner[o].stopping
    PROVE  Steady
  BY DEF Steady, Lives, OwnerLife

\* The handlers of a running owner do not change its life.
LEMMA OwnerSteady ==
    ASSUME Lives, NEW o \in Owners,
           \/ OwnerDataTurn(o) \/ OwnerReserve(o) \/ OwnerPrepare(o) \/ OwnerApply(o)
           \/ OwnerRelease(o) \/ OwnerStats(o) \/ OwnerTick(o) \/ OwnerData(o)
    PROVE  Steady /\ closed' = closed /\ shutdown' = shutdown
<1>1. DOMAIN owner = Owners /\ \A x \in Owners : DOMAIN owner[x] = OwnerFields
  BY DEF Lives, OwnerLife
<1>0. DOMAIN owner[o] = OwnerFields
  BY <1>1
<1>2. closed' = closed /\ shutdown' = shutdown
  BY DEF OwnerDataTurn, OwnerReserve, OwnerPrepare, OwnerApply, OwnerRelease, OwnerStats, OwnerTick,
         OwnerData, channels, owners
<1>3. CASE OwnerDataTurn(o)
  <2>1. /\ DOMAIN owner' = Owners /\ \A x \in Owners : x # o => owner'[x] = owner[x]
        /\ DOMAIN owner'[o] = OwnerFields
        /\ owner'[o].running = owner[o].running /\ owner'[o].stopping = owner[o].stopping
    BY <1>0, <1>1, <1>3 DEF OwnerDataTurn, OwnerFields
  <2>2. QED
    BY <1>2, <2>1, SteadyExcept
<1>4. CASE OwnerReserve(o)
  <2>1. /\ DOMAIN owner' = Owners /\ \A x \in Owners : x # o => owner'[x] = owner[x]
        /\ DOMAIN owner'[o] = OwnerFields
        /\ owner'[o].running = owner[o].running /\ owner'[o].stopping = owner[o].stopping
    BY <1>0, <1>1, <1>4 DEF OwnerReserve, OwnerFields
  <2>2. QED
    BY <1>2, <2>1, SteadyExcept
<1>5. CASE OwnerPrepare(o)
  <2>0. PICK p : owner' = [owner EXCEPT ![o].reservation.prepared = p]
    BY <1>5 DEF OwnerPrepare
  <2>1. /\ DOMAIN owner' = Owners /\ \A x \in Owners : x # o => owner'[x] = owner[x]
        /\ DOMAIN owner'[o] = OwnerFields
        /\ owner'[o].running = owner[o].running /\ owner'[o].stopping = owner[o].stopping
    BY <1>0, <1>1, <2>0 DEF OwnerFields
  <2>2. QED
    BY <1>2, <2>1, SteadyExcept
<1>6. CASE OwnerApply(o)
  <2>1. /\ DOMAIN owner' = Owners /\ \A x \in Owners : x # o => owner'[x] = owner[x]
        /\ DOMAIN owner'[o] = OwnerFields
        /\ owner'[o].running = owner[o].running /\ owner'[o].stopping = owner[o].stopping
    BY <1>0, <1>1, <1>6 DEF OwnerApply, OwnerFields
  <2>2. QED
    BY <1>2, <2>1, SteadyExcept
<1>7. CASE OwnerRelease(o)
  <2>1. /\ DOMAIN owner' = Owners /\ \A x \in Owners : x # o => owner'[x] = owner[x]
        /\ DOMAIN owner'[o] = OwnerFields
        /\ owner'[o].running = owner[o].running /\ owner'[o].stopping = owner[o].stopping
    BY <1>0, <1>1, <1>7 DEF OwnerRelease, OwnerFields
  <2>2. QED
    BY <1>2, <2>1, SteadyExcept
<1>8. CASE OwnerStats(o)
  <2>1. /\ DOMAIN owner' = Owners /\ \A x \in Owners : x # o => owner'[x] = owner[x]
        /\ DOMAIN owner'[o] = OwnerFields
        /\ owner'[o].running = owner[o].running /\ owner'[o].stopping = owner[o].stopping
    BY <1>0, <1>1, <1>8 DEF OwnerStats, OwnerFields
  <2>2. QED
    BY <1>2, <2>1, SteadyExcept
<1>9. CASE OwnerTick(o)
  <2>1. /\ DOMAIN owner' = Owners /\ \A x \in Owners : x # o => owner'[x] = owner[x]
        /\ DOMAIN owner'[o] = OwnerFields
        /\ owner'[o].running = owner[o].running /\ owner'[o].stopping = owner[o].stopping
    BY <1>0, <1>1, <1>9 DEF OwnerTick, OwnerFields
  <2>2. QED
    BY <1>2, <2>1, SteadyExcept
<1>10. CASE OwnerData(o)
  BY <1>1, <1>2, <1>10 DEF OwnerData, Steady, owners
<1>11. QED
  BY <1>2, <1>3, <1>4, <1>5, <1>6, <1>7, <1>8, <1>9, <1>10

\* The channel of an owner that stops is closed.
LEMMA LivesStopping ==
    ASSUME Lives, NEW o \in Owners, co.phase = "finished",
           shutdown.phase # "dropped" => o <= shutdown.stops,
           closed' = [closed EXCEPT ![o] = TRUE],
           owner' = [owner EXCEPT ![o].stopping = TRUE],
           queue' = queue, co' = co, shutdown' = shutdown
    PROVE  Lives'
<1>1. /\ DOMAIN owner = Owners /\ DOMAIN closed = Pools /\ \A p \in Pools : closed[p] \in BOOLEAN
      /\ \A x \in Owners : OwnerLife(x)
  BY DEF Lives
<1>2. Cross \in Pools /\ \A x \in Owners : x \in Pools /\ x # Cross
  BY EngineAssumption DEF Pools, Cross, Owners
<1>3. /\ DOMAIN closed' = Pools /\ closed'[o] = TRUE /\ closed'[Cross] = closed[Cross]
      /\ \A p \in Pools : p # o => closed'[p] = closed[p]
  BY <1>1, <1>2
<1>4. DOMAIN owner[o] = OwnerFields
  BY <1>1 DEF OwnerLife
<1>5. /\ DOMAIN owner' = Owners /\ DOMAIN owner'[o] = OwnerFields
      /\ owner'[o].stopping = TRUE /\ owner'[o].running = owner[o].running
      /\ \A x \in Owners : x # o => owner'[x] = owner[x]
  BY <1>1, <1>4 DEF OwnerFields
<1>6. \A x \in Owners : OwnerLife(x)'
  <2> TAKE x \in Owners
  <2>1. CASE x # o
    BY <1>1, <1>2, <1>3, <1>5, <2>1 DEF OwnerLife
  <2>2. CASE x = o
    BY <1>1, <1>3, <1>5, <2>2 DEF OwnerLife
  <2>3. QED
    BY <2>1, <2>2
<1>7. CrossLife'
  BY <1>3 DEF Lives, CrossLife
<1>8. ShutdownLife'
  BY <1>5 DEF Lives, ShutdownLife
<1>9. \A p \in Pools : closed'[p] \in BOOLEAN
  BY <1>1, <1>3
<1>10. QED
  BY <1>3, <1>5, <1>6, <1>7, <1>8, <1>9 DEF Lives

\* Every step keeps the lives of owners, coordinator and shutdown in order.
LEMMA LivesNext ==
    ASSUME Calls, Queues, Transaction, Lives, Messages, [Next]_vars
    PROVE  Lives'
<1> USE DEF callers, channels, owners
<1>0. /\ DOMAIN queue = Pools /\ \A p \in Pools : QueueOK(p)
      /\ Cross \in Pools /\ \A o \in Owners : o \in Pools /\ o # Cross
  BY EngineAssumption DEF Queues, Pools, Cross, Owners
<1>a. /\ DOMAIN owner = Owners /\ DOMAIN closed = Pools /\ \A p \in Pools : closed[p] \in BOOLEAN
      /\ \A o \in Owners : OwnerLife(o)
      /\ CrossLife /\ ShutdownLife
  BY DEF Lives
<1>b. owner' = owner => Steady
  BY <1>a DEF Steady, OwnerLife
<1>1. ASSUME NEW r \in Requests,
             \/ \E op \in Ops : Call(r, op)
             \/ Begin(r) \/ AcquireCredit(r) \/ RejectClosed(r) \/ AdmissionTimeout(r) \/ DropFuture(r)
      PROVE  Lives'
  <2>1. UNCHANGED <<owner, closed, queue, shutdown, co>>
    BY <1>1 DEF Call, Begin, AcquireCredit, RejectClosed, AdmissionTimeout, DropFuture
  <2>2. QED
    BY <1>b, <2>1, LivesKept
<1>2. ASSUME NEW r \in Requests, Enqueue(r) PROVE Lives'
  <2>1. /\ UNCHANGED <<owner, closed, shutdown, co>> /\ ~closed[PoolOf(r)]
        /\ queue' = [queue EXCEPT ![PoolOf(r)] = Append(queue[PoolOf(r)], r)]
        /\ call[r].pc = "send"
    BY <1>2 DEF Enqueue, At
  <2>2. PICK p \in Pools : p = PoolOf(r)
    BY <2>1, HolderFacts DEF Holding
  <2>3. p \in Owners => owner[p].running
    BY <1>a, <2>1, <2>2 DEF OwnerLife
  <2>4. p = Cross => co.phase # "finished"
    BY <1>a, <2>1, <2>2 DEF CrossLife
  <2>5. In(Stop, Append(queue[p], r)) => In(Stop, queue[p])
    BY <1>0, EngineAssumption, AppendIn DEF QueueOK
  <2>6. QED
    BY <1>0, <1>b, <2>1, <2>2, <2>3, <2>4, <2>5, LivesQueue
<1>3. ASSUME NEW o \in Owners, OwnerStep(o) PROVE Lives'
  <2>1. CASE OwnerDataTurn(o) \/ OwnerData(o)
    <3>1. Steady /\ closed' = closed /\ shutdown' = shutdown /\ co' = co
      BY <2>1, OwnerSteady DEF OwnerDataTurn, OwnerData
    <3>2. CASE queue' = queue
      BY <3>1, <3>2, LivesKept
    <3>3. CASE queue' # queue
      <4>1. queue[o] # <<>> /\ queue' = [queue EXCEPT ![o] = Tail(queue[o])]
        BY <2>1, <3>3 DEF OwnerDataTurn, OwnerData, ExecuteLocal
      <4>2. owner[o].running
        BY <1>a, <4>1 DEF OwnerLife
      <4>3. QED
        BY <1>0, <3>1, <4>1, <4>2, LivesQueue
    <3>4. QED
      BY <3>2, <3>3
  <2>2. CASE OwnerReserve(o) \/ OwnerPrepare(o) \/ OwnerApply(o) \/ OwnerRelease(o)
    <3>1. Steady /\ closed' = closed /\ shutdown' = shutdown /\ queue' = queue
      BY <2>2, OwnerSteady DEF OwnerReserve, OwnerPrepare, OwnerApply, OwnerRelease
    <3>2. co'.phase = co.phase
      BY <2>2, OwnerAcks DEF AckArrived, CoFields
    <3>3. QED
      BY <3>1, <3>2, LivesKept
  <2>3. CASE OwnerStats(o) \/ OwnerTick(o)
    <3>1. Steady /\ closed' = closed /\ shutdown' = shutdown /\ queue' = queue /\ co' = co
      BY <2>3, OwnerSteady DEF OwnerStats, OwnerTick
    <3>2. QED
      BY <3>1, LivesKept
  <2>4. CASE OwnerStop(o)
    <3>1. co.phase = "finished" /\ (shutdown.phase # "dropped" => o <= shutdown.stops)
      BY <2>4, HeadStop DEF OwnerStop
    <3>2. QED
      BY <2>4, <3>1, LivesStopping DEF OwnerStop
  <2>5. CASE OwnerControlClosed(o)
    <3>1. co.phase = "finished" /\ shutdown.phase = "dropped"
      BY <2>5 DEF OwnerControlClosed, ControlClosed, HandleAlive
    <3>2. QED
      BY <2>5, <3>1, LivesStopping DEF OwnerControlClosed
  <2>6. CASE OwnerExit(o)
    <3>1. /\ owner' = [owner EXCEPT ![o].running = FALSE] /\ closed[o] /\ queue[o] = <<>>
          /\ UNCHANGED <<closed, queue, co, shutdown>>
      BY <2>6 DEF OwnerExit
    <3>2. DOMAIN owner[o] = OwnerFields
      BY <1>a DEF OwnerLife
    <3>3. /\ DOMAIN owner' = Owners /\ DOMAIN owner'[o] = OwnerFields
          /\ owner'[o].stopping = owner[o].stopping /\ owner'[o].running = FALSE
          /\ \A x \in Owners : x # o => owner'[x] = owner[x]
      BY <1>a, <3>1, <3>2 DEF OwnerFields
    <3>4. \A x \in Owners : OwnerLife(x)'
      BY <1>a, <3>1, <3>3 DEF OwnerLife
    <3>5. CrossLife'
      BY <1>a, <3>1 DEF CrossLife
    <3>6. ShutdownLife'
      BY <1>a, <3>1, <3>3 DEF ShutdownLife
    <3>7. QED
      BY <1>a, <3>1, <3>3, <3>4, <3>5, <3>6 DEF Lives
  <2>7. QED
    BY <1>3, <2>1, <2>2, <2>3, <2>4, <2>5, <2>6 DEF OwnerStep
<1>4. CASE CoTake \/ CoStop
  <2>1. /\ queue[Cross] # <<>> /\ co.phase = "idle" /\ co'.phase # "finished"
        /\ queue' = [queue EXCEPT ![Cross] = Tail(queue[Cross])]
        /\ UNCHANGED <<owner, shutdown>>
    BY <1>4 DEF CoTake, CoStop, IdleCoordinator
  <2>2. Steady
    BY <1>b, <2>1
  <2>3. /\ DOMAIN closed' = Pools /\ \A p \in Pools : closed'[p] \in BOOLEAN
        /\ \A o \in Owners : closed'[o] = closed[o]
    BY <1>0, <1>4, <1>a DEF CoTake, CoStop
  <2>4. \A o \in Owners : queue'[o] = queue[o]
    BY <1>0, <2>1
  <2>5. \A o \in Owners : OwnerLife(o)'
    BY <1>a, <2>1, <2>2, <2>3, <2>4 DEF OwnerLife, Steady
  <2>6. CrossLife'
    <3>1. queue'[Cross] = Tail(queue[Cross])
      BY <1>0, <2>1
    <3>2. In(Stop, queue'[Cross]) => In(Stop, queue[Cross])
      BY <1>0, <2>1, <3>1, TailIn DEF QueueOK
    <3>3. closed'[Cross] => closed[Cross] \/ In(Stop, queue[Cross])
      BY <1>0, <1>4, <1>a, TailIn DEF CoTake, CoStop, QueueOK
    <3>4. QED
      BY <1>a, <2>1, <3>2, <3>3 DEF CrossLife
  <2>7. ShutdownLife'
    BY <1>a, <2>1 DEF ShutdownLife
  <2>8. QED
    BY <1>a, <2>1, <2>3, <2>5, <2>6, <2>7 DEF Lives
<1>5. CASE CoFinish
  <2>1. /\ co' = [co EXCEPT !.phase = "finished"] /\ queue[Cross] = <<>> /\ closed[Cross]
        /\ UNCHANGED <<owner, closed, queue, shutdown>>
    BY <1>5 DEF CoFinish
  <2>2. co'.phase = "finished"
    BY <2>1 DEF Transaction, CoFields
  <2>3. \A o \in Owners : OwnerLife(o)'
    BY <1>b, <2>1, <2>2, OwnerLifeKept
  <2>4. CrossLife'
    BY <1>a, <2>1, <2>2 DEF CrossLife
  <2>5. ShutdownLife'
    BY <1>a, <2>1, <2>2 DEF ShutdownLife
  <2>6. QED
    BY <1>a, <2>1, <2>3, <2>4, <2>5 DEF Lives
<1>6. CASE CoSend \/ CoReserved \/ CoPrepared \/ CoApplied \/ CoReleased
  <2>1. UNCHANGED <<owner, closed, queue, shutdown>> /\ Coordinating
    BY <1>6 DEF CoSend, CoReserved, CoPrepared, CoApplied, CoReleased, CoAcked, Coordinating
  <2>2. co'.phase # "finished"
    <3>1. CASE CoSend
      BY <2>1, <3>1 DEF CoSend, Coordinating, Transaction, CoFields
    <3>2. CASE CoReleased /\ LastPart
      BY <3>2 DEF CoReleased, IdleCoordinator
    <3>3. CASE CoReserved \/ CoPrepared \/ CoApplied \/ (CoReleased /\ ~LastPart)
      <4>1. Aborted \/ \E phase \in Transactional : Advanced(phase)
        BY <3>3, CoMoves DEF Transaction, Transactional
      <4>2. QED
        BY <2>1, <4>1 DEF Aborted, Advanced, Coordinating, Transactional
    <3>4. QED
      BY <1>6, <3>1, <3>2, <3>3
  <2>3. QED
    BY <1>b, <2>1, <2>2, LivesKept DEF Coordinating
<1>7. CASE ShutdownBegin \/ ShutdownJoinCross \/ ShutdownStopOwner \/ ShutdownJoin
  <2>1. UNCHANGED <<owner, closed, queue, co>>
    BY <1>7 DEF ShutdownBegin, ShutdownJoinCross, ShutdownStopOwner, ShutdownJoin, ShutdownAt
  <2>2. /\ DOMAIN shutdown' = {"phase", "stops"} /\ shutdown'.stops \in Nat
        /\ shutdown'.stops >= shutdown.stops /\ shutdown.phase # "dropped"
        /\ shutdown'.phase # "up"
    BY <1>7, <1>a DEF ShutdownBegin, ShutdownJoinCross, ShutdownStopOwner, ShutdownJoin, ShutdownAt,
                      ShutdownLife
  <2>3. \A o \in Owners : OwnerLife(o)'
    <3> TAKE o \in Owners
    <3>1. o \in Nat /\ shutdown.stops \in Nat
      BY <1>a DEF Owners, ShutdownLife
    <3>2. QED
      BY <1>a, <2>1, <2>2, <3>1 DEF OwnerLife
  <2>4. CrossLife'
    BY <1>7, <1>a, <2>1, <2>2 DEF CrossLife, ShutdownBegin, ShutdownJoinCross, ShutdownStopOwner,
                                ShutdownJoin, ShutdownAt, ShutdownLife
  <2>5. ShutdownLife'
    <3>1. CASE ShutdownBegin
      BY <1>a, <2>1, <3>1 DEF ShutdownBegin, ShutdownAt, ShutdownLife
    <3>2. CASE ShutdownJoinCross
      BY <1>a, <2>1, <3>2, EngineAssumption DEF ShutdownJoinCross, ShutdownAt, ShutdownLife
    <3>3. CASE ShutdownStopOwner
      BY <1>a, <2>1, <3>3, EngineAssumption DEF ShutdownStopOwner, ShutdownAt, ShutdownLife
    <3>4. CASE ShutdownJoin
      BY <1>a, <2>1, <3>4 DEF ShutdownJoin, ShutdownAt, ShutdownLife
    <3>5. QED
      BY <1>7, <3>1, <3>2, <3>3, <3>4
  <2>6. QED
    BY <1>a, <2>1, <2>3, <2>4, <2>5 DEF Lives
<1>8. CASE ShutdownStopCross
  <2>1. /\ UNCHANGED <<owner, closed, co>>
        /\ queue' = [queue EXCEPT ![Cross] = Append(queue[Cross], Stop)]
        /\ shutdown.phase = "stop_cross" /\ shutdown' = [shutdown EXCEPT !.phase = "join_cross"]
    BY <1>8 DEF ShutdownStopCross, ShutdownAt
  <2>2. /\ DOMAIN shutdown' = {"phase", "stops"} /\ shutdown'.stops = shutdown.stops
        /\ shutdown'.phase = "join_cross"
    BY <1>a, <2>1 DEF ShutdownLife
  <2>3. co.phase # "finished"
    BY <1>a, <2>1 DEF CrossLife
  <2>4. \A o \in Owners : queue'[o] = queue[o]
    BY <1>0, <2>1
  <2>5. \A o \in Owners : OwnerLife(o)'
    BY <1>a, <2>1, <2>2, <2>4, ZenonT(40) DEF OwnerLife
  <2>6. CrossLife'
    BY <2>1, <2>2, <2>3 DEF CrossLife
  <2>7. ShutdownLife'
    BY <1>a, <2>1, <2>2 DEF ShutdownLife
  <2>8. QED
    BY <1>a, <2>1, <2>5, <2>6, <2>7 DEF Lives
<1>9. CASE DropEngine
  <2>1. /\ UNCHANGED <<owner, queue, co>> /\ shutdown.phase = "up"
        /\ closed' = [closed EXCEPT ![Cross] = TRUE]
        /\ shutdown' = [shutdown EXCEPT !.phase = "dropped"]
    BY <1>9 DEF DropEngine
  <2>2. /\ DOMAIN shutdown' = {"phase", "stops"} /\ shutdown'.stops = shutdown.stops
        /\ shutdown'.phase = "dropped"
    BY <1>a, <2>1 DEF ShutdownLife
  <2>3. co.phase # "finished"
    BY <1>a, <2>1 DEF CrossLife
  <2>4. /\ DOMAIN closed' = Pools /\ \A p \in Pools : closed'[p] \in BOOLEAN
        /\ \A o \in Owners : closed'[o] = closed[o]
    BY <1>0, <1>a, <2>1
  <2>5. \A o \in Owners : OwnerLife(o)'
    BY <1>a, <2>1, <2>2, <2>4, ZenonT(40) DEF OwnerLife
  <2>6. CrossLife'
    BY <2>1, <2>2, <2>3 DEF CrossLife
  <2>7. ShutdownLife'
    BY <1>a, <2>1, <2>2 DEF ShutdownLife
  <2>8. QED
    BY <1>a, <2>1, <2>4, <2>5, <2>6, <2>7 DEF Lives
<1>10. CASE StatsCall \/ StatsStep \/ ClockStep \/ UNCHANGED vars
  <2>1. UNCHANGED <<owner, closed, queue, shutdown, co>>
    BY <1>10 DEF StatsCall, StatsStep, StatsSend, StatsBreak, StatsReceive, ClockStep, vars
  <2>2. QED
    BY <1>b, <2>1, LivesKept
<1>11. QED
  BY <1>1, <1>2, <1>3, <1>4, <1>5, <1>6, <1>7, <1>8, <1>9, <1>10
     DEF Next, CallStep, CoStep, ShutdownStep

-----------------------------------------------------------------------------
(***************************************************************************)
(* The control channels.                                                   *)
(***************************************************************************)
\* No message of a transaction is in the channel.
NoTransactional(s) == \A m : In(m, s) => m.type \notin Transactional

\* Sending keeps at most one transactional message in a channel.
LEMMA OneAppend ==
    ASSUME NEW s, IsSeq(s), OneTransactional(s), NEW e,
           e.type \notin Transactional \/ NoTransactional(s)
    PROVE  OneTransactional(Append(s, e))
<1> DEFINE t == Append(s, e)
<1>1. /\ Len(s) \in Nat /\ Len(t) = Len(s) + 1 /\ t[Len(s) + 1] = e
      /\ \A i \in 1 .. Len(s) : t[i] = s[i]
  BY SeqLength, SeqAppend
<1>2. \A i \in 1 .. Len(t) : (i \in 1 .. Len(s) /\ t[i] = s[i]) \/ (i = Len(s) + 1 /\ t[i] = e)
  BY <1>1
<1> HIDE DEF t
<1>3. CASE e.type \notin Transactional
  BY <1>2, <1>3 DEF OneTransactional
<1>4. CASE NoTransactional(s)
  <2>1. \A i \in 1 .. Len(s) : s[i].type \notin Transactional
    BY <1>4 DEF NoTransactional, In
  <2>2. QED
    BY <1>2, <2>1 DEF OneTransactional
<1>5. QED
  BY <1>3, <1>4 DEF t

\* So does receiving, which may take the only one.
LEMMA OneTail ==
    ASSUME NEW s, IsSeq(s), s # <<>>, OneTransactional(s)
    PROVE  /\ OneTransactional(Tail(s))
           /\ Head(s).type \in Transactional => NoTransactional(Tail(s))
<1> DEFINE t == Tail(s)
<1>1. /\ Len(s) \in Nat /\ Len(s) >= 1 /\ Len(t) = Len(s) - 1 /\ Head(s) = s[1]
      /\ \A i \in 1 .. Len(s) - 1 : t[i] = s[i + 1]
  BY SeqTail
<1>2. \A i \in 1 .. Len(t) : i + 1 \in 1 .. Len(s) /\ t[i] = s[i + 1] /\ i + 1 # 1 /\ i \in Int
  BY <1>1
<1>3. 1 \in 1 .. Len(s)
  BY <1>1
<1> HIDE DEF t
<1>4. OneTransactional(t)
  <2>1. \A i, j \in Int : i + 1 = j + 1 => i = j
    OBVIOUS
  <2>2. QED
    BY <1>2, <2>1 DEF OneTransactional
<1>5. Head(s).type \in Transactional => NoTransactional(t)
  BY <1>1, <1>2, <1>3 DEF OneTransactional, NoTransactional, In
<1>6. QED
  BY <1>4, <1>5 DEF t

\* A message that lasts is not one of a transaction, and conversely.
LEMMA ExpectedType ==
    ASSUME NEW o, NEW m, Expected(o, m)
    PROVE  /\ Lasting(o, m) <=> m.type \notin Transactional
           /\ ~InFlight => Lasting(o, m)
<1>1. Lasting(o, m) => m.type \notin Transactional
  BY DEF Lasting, Plain, Transactional
<1>2. m = CoMessage /\ InFlight => m.type \in Transactional
  BY CoMessageType DEF InFlight, Coordinating, Transactional
<1>3. QED
  BY <1>1, <1>2 DEF Expected

\* Nothing of the transaction is in a channel of an owner it does not wait for.
LEMMA QuietControl ==
    ASSUME Messages, NEW o \in Owners, ~InFlight \/ o # CoOwner
    PROVE  NoTransactional(control[o]) /\ \A m : In(m, control[o]) => Lasting(o, m)
<1>1. \A m : In(m, control[o]) => Expected(o, m)
  BY DEF Messages, ControlOK
<1>2. \A m : In(m, control[o]) => Lasting(o, m)
  BY <1>1 DEF Expected
<1>3. QED
  BY <1>1, <1>2, ExpectedType DEF NoTransactional

\* The shutdown takes no stop back.
Forward ==
    shutdown'.phase # "dropped" =>
        /\ shutdown.phase # "dropped" /\ shutdown'.stops >= shutdown.stops
        /\ shutdown'.stops \in Nat /\ shutdown.stops \in Nat

\* What lasts, lasts while the coordinator stays finished and no stop is taken back.
LEMMA LastingKept ==
    ASSUME NEW o \in Owners, NEW m, Lasting(o, m), Forward,
           co.phase = "finished" => co'.phase = "finished"
    PROVE  Lasting(o, m)'
<1>1. o \in Int
  BY DEF Owners
<1>2. QED
  BY <1>1 DEF Lasting, Forward

\* No channel changes, and nothing is in flight.
LEMMA MessagesQuiet ==
    ASSUME Messages, control' = control, ~InFlight, Forward,
           co.phase = "finished" => co'.phase = "finished"
    PROVE  Messages'
<1>1. \A o \in Owners : \A m : In(m, control[o]) => Lasting(o, m)'
  BY QuietControl, LastingKept
<1>2. \A o \in Owners : ControlOK(o)'
  BY <1>1 DEF Messages, ControlOK, Expected
<1>3. QED
  BY <1>2 DEF Messages

\* What is expected stays expected while the coordinator does nothing.
LEMMA ExpectedKept ==
    ASSUME NEW o \in Owners, NEW m, Expected(o, m), Forward, co' = co
    PROVE  Expected(o, m)'
<1>1. Lasting(o, m) => Lasting(o, m)'
  BY LastingKept
<1>2. CoMessage' = CoMessage /\ (InFlight' <=> InFlight) /\ CoOwner' = CoOwner
  BY DEF CoMessage, InFlight, Coordinating, CoOwner
<1>3. QED
  BY <1>1, <1>2 DEF Expected

\* The coordinator does nothing, and no channel changes.
LEMMA MessagesSame ==
    ASSUME Messages, control' = control, co' = co, Forward
    PROVE  Messages'
<1>1. \A o \in Owners : \A m : In(m, control[o]) => Expected(o, m)'
  BY ExpectedKept DEF Messages, ControlOK
<1>2. \A o \in Owners : ControlOK(o)'
  BY <1>1 DEF Messages, ControlOK
<1>3. QED
  BY <1>2 DEF Messages

\* One channel changes.
LEMMA MessagesOne ==
    ASSUME Messages, NEW o \in Owners, NEW s, control' = [control EXCEPT ![o] = s],
           IsSeq(s), OneTransactional(s), \A m : In(m, s) => Expected(o, m)',
           \A x \in Owners : \A m : x # o /\ In(m, control[x]) => Expected(x, m)'
    PROVE  Messages'
<1>1. DOMAIN control' = Owners /\ control'[o] = s /\ \A x \in Owners : x # o => control'[x] = control[x]
  BY DEF Messages
<1>2. ControlOK(o)'
  BY <1>1 DEF ControlOK
<1>3. \A x \in Owners : x # o => ControlOK(x)'
  <2> SUFFICES ASSUME NEW x \in Owners, x # o PROVE ControlOK(x)'
    OBVIOUS
  <2>1. control'[x] = control[x] /\ IsSeq(control[x]) /\ OneTransactional(control[x])
    BY <1>1 DEF Messages, ControlOK
  <2>2. QED
    BY <2>1 DEF ControlOK
<1>4. QED
  BY <1>1, <1>2, <1>3 DEF Messages

\* A message that is not of a transaction is sent.
LEMMA MessagesSent ==
    ASSUME Messages, NEW o \in Owners, NEW e, control' = [control EXCEPT ![o] = Append(@, e)],
           e.type \notin Transactional, Expected(o, e)', co' = co, Forward
    PROVE  Messages'
<1> DEFINE s == Append(control[o], e)
<1>1. IsSeq(control[o]) /\ OneTransactional(control[o])
  BY DEF Messages, ControlOK
<1>2. IsSeq(s) /\ OneTransactional(s) /\ \A m : In(m, s) <=> In(m, control[o]) \/ m = e
  BY <1>1, SeqAppend, AppendIn, OneAppend
<1>3. \A x \in Owners : \A m : In(m, control[x]) => Expected(x, m)'
  BY ExpectedKept DEF Messages, ControlOK
<1>4. control' = [control EXCEPT ![o] = s]
  BY DEF Messages
<1> HIDE DEF s
<1>5. \A m : In(m, s) => Expected(o, m)'
  BY <1>2, <1>3
<1>6. QED
  BY <1>2, <1>3, <1>4, <1>5, MessagesOne

\* An owner takes a message while the coordinator does nothing.
LEMMA MessagesTaken ==
    ASSUME Messages, NEW o \in Owners, control[o] # <<>>, Pass(o), co' = co, Forward
    PROVE  Messages'
<1> DEFINE s == Tail(control[o])
<1>1. IsSeq(control[o]) /\ OneTransactional(control[o])
  BY DEF Messages, ControlOK
<1>2. IsSeq(s) /\ OneTransactional(s) /\ \A m : In(m, s) => In(m, control[o])
  BY <1>1, SeqTail, TailIn, OneTail
<1>3. \A x \in Owners : \A m : In(m, control[x]) => Expected(x, m)'
  BY ExpectedKept DEF Messages, ControlOK
<1>4. control' = [control EXCEPT ![o] = s]
  BY DEF Pass
<1> HIDE DEF s
<1>5. QED
  BY <1>2, <1>3, <1>4, MessagesOne

\* The owner the transaction waits for takes its message, and answers.
LEMMA MessagesAcked ==
    ASSUME Transaction, Messages, Forward, NEW o \in Owners,
           OwnerReserve(o) \/ OwnerPrepare(o) \/ OwnerApply(o) \/ OwnerRelease(o)
    PROVE  Messages'
<1> DEFINE s == Tail(control[o])
<1>1. InFlight /\ o = CoOwner /\ co'.phase = co.phase
  BY OwnerAcks DEF AckArrived, CoFields
<1>2. PICK type \in Transactional : Controlled(o, type) /\ Pass(o)
  BY DEF OwnerReserve, OwnerPrepare, OwnerApply, OwnerRelease, Transactional
<1>3. IsSeq(control[o]) /\ OneTransactional(control[o])
  BY DEF Messages, ControlOK
<1>4. control[o] # <<>> /\ Head(control[o]).type \in Transactional
  BY <1>2 DEF Controlled
<1>5. /\ IsSeq(s) /\ OneTransactional(s) /\ NoTransactional(s)
      /\ \A m : In(m, s) => In(m, control[o])
  BY <1>3, <1>4, SeqTail, TailIn, OneTail
<1>6. control' = [control EXCEPT ![o] = s]
  BY <1>2 DEF Pass
<1> HIDE DEF s
<1>7. \A m : In(m, s) => Lasting(o, m)
  BY <1>5, ExpectedType DEF Messages, ControlOK, NoTransactional
<1>8. \A x \in Owners : \A m : x # o /\ In(m, control[x]) => Lasting(x, m)
  BY <1>1, QuietControl
<1>9. \A x \in Owners : \A m : Lasting(x, m) => Expected(x, m)'
  BY <1>1, LastingKept DEF Expected
<1>10. QED
  BY <1>5, <1>6, <1>7, <1>8, <1>9, MessagesOne

\* The coordinator sends its message.
LEMMA MessagesCoSend ==
    ASSUME Calls, Queues, Transaction, Messages, Forward, CoSend
    PROVE  Messages'
<1>1. Coordinating /\ ~co.sent /\ co' = [co EXCEPT !.sent = TRUE]
  BY DEF CoSend
<1>2. PICK o \in Owners : o = CoOwner
  BY <1>1, CoParts DEF CoOwner
<1>3. PICK e : e = CoMessage
  OBVIOUS
<1>4. /\ \A field \in CoFields : field # "sent" => co'[field] = co[field]
      /\ co'.sent = TRUE
  BY <1>1 DEF Transaction, CoFields
<1>5. ~InFlight /\ ~co.ack.arrived
  BY <1>1 DEF InFlight, Transaction
<1>6. InFlight' /\ CoOwner' = o /\ CoMessage' = e /\ co'.phase = co.phase
  BY <1>1, <1>2, <1>3, <1>4, <1>5 DEF InFlight, CoOwner, CoMessage, CoFields, Coordinating
<1> DEFINE s == Append(control[o], e)
<1>7. /\ IsSeq(control[o]) /\ OneTransactional(control[o]) /\ NoTransactional(control[o])
  BY <1>5, QuietControl DEF Messages, ControlOK
<1>8. IsSeq(s) /\ OneTransactional(s) /\ \A m : In(m, s) <=> In(m, control[o]) \/ m = e
  BY <1>7, SeqAppend, AppendIn, OneAppend
<1>9. control' = [control EXCEPT ![o] = s]
  BY <1>2, <1>3 DEF CoSend
<1> HIDE DEF s
<1>10. \A x \in Owners : \A m : In(m, control[x]) => Lasting(x, m)
  BY <1>5, QuietControl
<1>11. \A x \in Owners : \A m : Lasting(x, m) => Expected(x, m)'
  BY <1>6, LastingKept DEF Expected
<1>12. Expected(o, e)'
  BY <1>6 DEF Expected
<1>13. \A m : In(m, s) => Expected(o, m)'
  BY <1>8, <1>10, <1>11, <1>12
<1>14. QED
  BY <1>8, <1>9, <1>10, <1>11, <1>13, MessagesOne

\* No step of the engine breaks the discipline of the control channels.
LEMMA MessagesNext ==
    ASSUME Calls, Queues, Transaction, Lives, Messages, [Next]_vars
    PROVE  Messages'
<1> USE DEF callers, channels, owners
<1>a. DOMAIN shutdown = {"phase", "stops"} /\ shutdown.stops \in Nat
  BY DEF Lives, ShutdownLife
<1>b. shutdown' = shutdown => Forward
  BY <1>a DEF Forward
<1>1. ASSUME NEW r \in Requests, CallStep(r) \/ DropFuture(r) \/ \E op \in Ops : Call(r, op)
      PROVE  Messages'
  <2>1. control' = control /\ co' = co /\ shutdown' = shutdown
    BY <1>1 DEF CallStep, Begin, AcquireCredit, Enqueue, RejectClosed, AdmissionTimeout, DropFuture,
                Call
  <2>2. QED
    BY <1>b, <2>1, MessagesSame
<1>2. ASSUME NEW o \in Owners, OwnerStep(o) PROVE Messages'
  <2>1. CASE OwnerReserve(o) \/ OwnerPrepare(o) \/ OwnerApply(o) \/ OwnerRelease(o)
    <3>1. shutdown' = shutdown
      BY <2>1 DEF OwnerReserve, OwnerPrepare, OwnerApply, OwnerRelease
    <3>2. QED
      BY <1>b, <2>1, <3>1, MessagesAcked
  <2>2. CASE OwnerStats(o) \/ OwnerStop(o)
    <3>1. Pass(o) /\ control[o] # <<>> /\ co' = co /\ shutdown' = shutdown
      BY <2>2 DEF OwnerStats, OwnerStop, Controlled
    <3>2. QED
      BY <1>b, <3>1, MessagesTaken
  <2>3. CASE OwnerExit(o)
    <3>1. /\ control' = [control EXCEPT ![o] = <<>>] /\ co' = co /\ shutdown' = shutdown
      BY <2>3 DEF OwnerExit
    <3>2. OneTransactional(<<>>)
      BY DEF OneTransactional
    <3>3. \A x \in Owners : \A m : In(m, control[x]) => Expected(x, m)'
      BY <1>b, <3>1, ExpectedKept DEF Messages, ControlOK
    <3>4. QED
      BY <3>1, <3>2, <3>3, SeqNew, MessagesOne
  <2>4. CASE OwnerDataTurn(o) \/ OwnerControlClosed(o) \/ OwnerTick(o) \/ OwnerData(o)
    <3>1. control' = control /\ co' = co /\ shutdown' = shutdown
      BY <2>4 DEF OwnerDataTurn, OwnerControlClosed, OwnerTick, OwnerData
    <3>2. QED
      BY <1>b, <3>1, MessagesSame
  <2>5. QED
    BY <1>2, <2>1, <2>2, <2>3, <2>4 DEF OwnerStep
<1>3. CASE CoSend
  <2>1. shutdown' = shutdown
    BY <1>3 DEF CoSend
  <2>2. QED
    BY <1>3, <1>b, <2>1, MessagesCoSend
<1>4. CASE CoTake \/ CoFinish \/ CoReserved \/ CoPrepared \/ CoApplied \/ CoReleased
  <2>1. control' = control /\ shutdown' = shutdown
    BY <1>4 DEF CoTake, CoFinish, CoReserved, CoPrepared, CoApplied, CoReleased, CoAcked
  <2>2. ~InFlight /\ co.phase # "finished"
    BY <1>4 DEF CoTake, CoFinish, CoReserved, CoPrepared, CoApplied, CoReleased, CoAcked, InFlight,
                Coordinating
  <2>3. QED
    BY <1>b, <2>1, <2>2, MessagesQuiet
<1>5. CASE CoStop \/ StatsCall \/ StatsBreak \/ StatsReceive \/ ClockStep \/ UNCHANGED vars
  <2>1. control' = control /\ co' = co /\ shutdown' = shutdown
    BY <1>5 DEF CoStop, StatsCall, StatsBreak, StatsReceive, ClockStep, vars
  <2>2. QED
    BY <1>b, <2>1, MessagesSame
<1>6. CASE StatsSend
  <2>1. PICK o \in Owners : o = stats.at
    BY <1>6 DEF StatsSend, StatsActive
  <2>2. /\ control' = [control EXCEPT ![o] = Append(@, Plain("stats"))]
        /\ co' = co /\ shutdown' = shutdown
    BY <1>6, <2>1 DEF StatsSend, Plain
  <2>3. Plain("stats").type \notin Transactional /\ Expected(o, Plain("stats"))'
    BY DEF Plain, Transactional, Expected, Lasting
  <2>4. QED
    BY <1>b, <2>2, <2>3, MessagesSent
<1>7. CASE ShutdownStopOwner
  <2>1. /\ shutdown.phase = "stop_owners" /\ co' = co
        /\ shutdown'.stops = shutdown.stops + 1 /\ shutdown'.phase # "dropped"
    BY <1>7 DEF ShutdownStopOwner, ShutdownAt
  <2>2. PICK o \in Owners : o = shutdown.stops + 1
    <3>1. shutdown.stops + 1 \in 1 .. Workers
      BY <1>a, <2>1, EngineAssumption DEF Lives, ShutdownLife
    <3>2. QED
      BY <3>1 DEF Owners
  <2>3. control' = [control EXCEPT ![o] = Append(@, Plain("stop"))]
    BY <1>7, <2>2 DEF ShutdownStopOwner, Plain
  <2>4. Forward
    BY <1>a, <2>1 DEF Forward
  <2>5. Plain("stop").type \notin Transactional
    BY DEF Plain, Transactional
  <2>6. Expected(o, Plain("stop"))'
    <3>1. co'.phase = "finished"
      BY <2>1 DEF Lives, ShutdownLife
    <3>2. o <= shutdown'.stops
      BY <2>1, <2>2 DEF Owners
    <3>3. QED
      BY <3>1, <3>2 DEF Expected, Lasting
  <2>7. QED
    BY <2>1, <2>3, <2>4, <2>5, <2>6, MessagesSent
<1>8. CASE ShutdownBegin \/ ShutdownStopCross \/ ShutdownJoinCross \/ ShutdownJoin \/ DropEngine
  <2>1. control' = control /\ co' = co
    BY <1>8 DEF ShutdownBegin, ShutdownStopCross, ShutdownJoinCross, ShutdownJoin, ShutdownAt,
                DropEngine
  <2>2. PICK phase : shutdown' = [shutdown EXCEPT !.phase = phase]
                     /\ (phase = "dropped" \/ shutdown.phase # "dropped")
    BY <1>8 DEF ShutdownBegin, ShutdownStopCross, ShutdownJoinCross, ShutdownJoin, ShutdownAt,
                DropEngine
  <2>3. Forward
    BY <1>a, <2>2 DEF Forward
  <2>4. QED
    BY <2>1, <2>3, MessagesSame
<1>9. QED
  BY <1>1, <1>2, <1>3, <1>4, <1>5, <1>6, <1>7, <1>8
     DEF Next, CoStep, StatsStep, ShutdownStep

-----------------------------------------------------------------------------
(***************************************************************************)
(* The reservations.                                                       *)
(***************************************************************************)
\* The reservations, and the shards they protect, stay as they are.
Protected ==
    /\ DOMAIN shard' = Owners
    /\ \A o \in Owners : /\ owner'[o].reservation = owner[o].reservation
                         /\ Reserved(o) => shard'[o] = shard[o]

\* A step that leaves the transaction where it is.
LEMMA LocksKept ==
    ASSUME Calls, Queues, Transaction, Locks, Protected,
           co'.phase = co.phase, co'.id = co.id, co'.parts = co.parts, co'.part = co.part,
           co'.ack = co.ack
    PROVE  Locks'
<1>1. \A o \in Owners : Reserved(o)' <=> Reserved(o)
  BY DEF Protected, Reserved
<1>2. Coordinating' <=> Coordinating
  BY DEF Coordinating
<1>3. \A o \in Owners : OwnerLock(o)'
  BY <1>1, <1>2 DEF OwnerLock, Locks, Protected
<1>4. ASSUME Coordinating, NEW j \in 1 .. Len(co.parts) PROVE PartLock(j)'
  <2>1. co.parts[j].owner \in Owners
    BY <1>4, CoParts
  <2>2. (PartHeld(j)' <=> PartHeld(j)) /\ (PartPrepared(j)' <=> PartPrepared(j))
    BY DEF PartHeld, PartPrepared
  <2>3. PartLock(j)
    BY <1>4 DEF Locks
  <2>4. QED
    BY <1>1, <2>1, <2>2, <2>3 DEF PartLock, Protected
<1>5. QED
  BY <1>2, <1>3, <1>4 DEF Locks, Protected

\* Between two transactions nothing is reserved.
LEMMA LocksIdle ==
    ASSUME Locks, Protected, ~Coordinating, ~Coordinating'
    PROVE  Locks'
<1>1. \A o \in Owners : ~Reserved(o) /\ owner[o].reservation.held \in BOOLEAN
  BY DEF Locks, OwnerLock
<1>2. \A o \in Owners : OwnerLock(o)'
  BY <1>1 DEF OwnerLock, Protected, Reserved
<1>3. QED
  BY <1>2 DEF Locks, Protected

\* The parts of a transaction name owners.
PartsOwned == Len(co.parts) \in Nat /\ \A j \in 1 .. Len(co.parts) : co.parts[j].owner \in Owners

\* Every part of the transaction has an owner.
LEMMA PartOwners == Calls /\ Queues /\ Transaction /\ Coordinating => PartsOwned
  BY CoParts DEF PartsOwned

\* A new transaction begins with nothing reserved.
LEMMA LocksTaken ==
    ASSUME Calls', Queues', Transaction', Locks, Protected, ~Coordinating,
           co'.phase = "reserve", co'.part = 1, co'.ack = NoAnswer
    PROVE  Locks'
<1>1. \A o \in Owners : ~Reserved(o) /\ owner[o].reservation.held \in BOOLEAN
  BY DEF Locks, OwnerLock
<1>2. \A o \in Owners : OwnerLock(o)' /\ ~Reserved(o)'
  BY <1>1 DEF OwnerLock, Protected, Reserved
<1>3. \A j \in 1 .. Len(co'.parts) : co'.parts[j].owner \in Owners /\ j \in Int /\ j >= 1
  <2>1. (Calls /\ Queues /\ Transaction /\ Coordinating => PartsOwned)'
    BY PartOwners, PTL
  <2>2. Coordinating'
    BY DEF Coordinating
  <2>3. QED
    BY <2>1, <2>2 DEF PartsOwned
<1>4. ~co'.ack.arrived
  BY DEF NoAnswer
<1>5. \A j \in 1 .. Len(co'.parts) : ~PartHeld(j)'
  BY <1>3, <1>4 DEF PartHeld
<1>6. \A j \in 1 .. Len(co'.parts) : PartLock(j)'
  BY <1>2, <1>3, <1>5 DEF PartLock
<1>7. QED
  BY <1>2, <1>6 DEF Locks, Protected

\* The coordinator goes on to the next part or to another phase.
LEMMA LocksMoved ==
    ASSUME Calls, Queues, Transaction, Locks, Protected, Coordinating, Coordinating',
           co'.id = co.id, co'.parts = co.parts,
           \A j \in 1 .. Len(co.parts) : PartHeld(j)' <=> PartHeld(j),
           co'.phase # "release" =>
              /\ co.phase # "release"
              /\ \A j \in 1 .. Len(co.parts) :
                    PartHeld(j) => (PartPrepared(j)' <=> PartPrepared(j))
    PROVE  Locks'
<1>1. \A o \in Owners : Reserved(o)' <=> Reserved(o)
  BY DEF Protected, Reserved
<1>2. \A o \in Owners : OwnerLock(o)'
  BY <1>1 DEF OwnerLock, Locks, Protected
<1>3. ASSUME NEW j \in 1 .. Len(co.parts) PROVE PartLock(j)'
  <2>1. co.parts[j].owner \in Owners
    BY CoParts
  <2>2. PartLock(j)
    BY DEF Locks
  <2>3. QED
    BY <1>1, <2>1, <2>2 DEF PartLock, Protected
<1>4. QED
  BY <1>2, <1>3 DEF Locks, Protected

\* The four ways in which coordinate goes on.
LEMMA LocksAdvance ==
    ASSUME Calls, Queues, Transaction, Locks, Protected,
           CoReserved \/ CoPrepared \/ CoApplied \/ (CoReleased /\ ~LastPart)
    PROVE  Locks'
<1>1. DOMAIN co = CoFields
  BY DEF Transaction
<1>2. Coordinating
  BY DEF CoReserved, CoPrepared, CoApplied, CoReleased, CoAcked, Coordinating
<1>3. Len(co.parts) \in Nat /\ co.part \in 1 .. Len(co.parts)
  BY <1>2, CoParts
<1>4. \A j \in 1 .. Len(co.parts) : j \in Int /\ j >= 1 /\ j <= Len(co.parts)
  BY <1>3
<1>5. /\ Advanced("prepare") \/ Advanced("apply") \/ Advanced("release") \/ Aborted
      /\ co.ack.arrived
  BY <1>1, CoMoves DEF CoAcked
<1>6. co'.id = co.id /\ co'.parts = co.parts /\ ~co'.ack.arrived /\ Coordinating'
  <2>1. co'.id = co.id /\ co'.parts = co.parts /\ co'.ack = NoAnswer /\ co'.sent = FALSE
    BY <1>5 DEF Advanced, Aborted
  <2>2. Coordinating'
    BY <1>2, <1>5 DEF Advanced, Aborted, Coordinating
  <2>3. QED
    BY <2>1, <2>2, NothingArrived
<1>7. CASE CoReserved
  <2>1. co.phase = "reserve" /\ Advanced("prepare")
    BY <1>1, <1>7, CoMoves DEF CoAcked
  <2>2. CASE LastPart
    <3>1. co'.phase = "prepare" /\ co'.part = 1 /\ co.part = Len(co.parts)
      BY <2>1, <2>2 DEF Advanced, LastPart
    <3>2. \A j \in 1 .. Len(co.parts) : PartHeld(j) /\ PartHeld(j)' /\ ~PartPrepared(j) /\ ~PartPrepared(j)'
      BY <1>3, <1>4, <1>5, <1>6, <2>1, <3>1 DEF PartHeld, PartPrepared
    <3>3. QED
      BY <1>2, <1>6, <2>1, <3>2, LocksMoved
  <2>3. CASE ~LastPart
    <3>1. co'.phase = "reserve" /\ co'.part = co.part + 1
      BY <2>1, <2>3 DEF Advanced
    <3>2. \A j \in 1 .. Len(co.parts) :
            (PartHeld(j)' <=> PartHeld(j)) /\ ~PartPrepared(j) /\ ~PartPrepared(j)'
      BY <1>3, <1>4, <1>5, <1>6, <2>1, <3>1 DEF PartHeld, PartPrepared
    <3>3. QED
      BY <1>2, <1>6, <2>1, <3>2, LocksMoved
  <2>4. QED
    BY <2>2, <2>3
<1>8. CASE CoPrepared
  <2>1. co.phase = "prepare" /\ ((co.ack.ok /\ Advanced("apply")) \/ Aborted)
    BY <1>1, <1>8, CoMoves DEF CoAcked
  <2>2. CASE co.ack.ok /\ Advanced("apply") /\ LastPart
    <3>1. co'.phase = "apply" /\ co'.part = 1 /\ co.part = Len(co.parts)
      BY <2>2 DEF Advanced, LastPart
    <3>2. \A j \in 1 .. Len(co.parts) : PartHeld(j) /\ PartHeld(j)' /\ PartPrepared(j) /\ PartPrepared(j)'
      BY <1>3, <1>4, <1>5, <1>6, <2>1, <2>2, <3>1 DEF PartHeld, PartPrepared
    <3>3. QED
      BY <1>2, <1>6, <2>1, <3>2, LocksMoved
  <2>3. CASE co.ack.ok /\ Advanced("apply") /\ ~LastPart
    <3>1. co'.phase = "prepare" /\ co'.part = co.part + 1
      BY <2>1, <2>3 DEF Advanced
    <3>2. \A j \in 1 .. Len(co.parts) :
            PartHeld(j)' /\ PartHeld(j) /\ (PartPrepared(j)' <=> PartPrepared(j))
      BY <1>3, <1>4, <1>5, <1>6, <2>1, <2>3, <3>1 DEF PartHeld, PartPrepared
    <3>3. QED
      BY <1>2, <1>6, <2>1, <3>2, LocksMoved
  <2>4. CASE Aborted
    <3>1. co'.phase = "release" /\ co'.part = 1
      BY <2>4 DEF Aborted
    <3>2. \A j \in 1 .. Len(co.parts) : PartHeld(j)' /\ PartHeld(j)
      BY <1>3, <1>4, <1>6, <2>1, <3>1 DEF PartHeld
    <3>3. QED
      BY <1>2, <1>6, <3>1, <3>2, LocksMoved
  <2>5. QED
    BY <2>1, <2>2, <2>3, <2>4
<1>9. CASE CoApplied
  <2>1. co.phase = "apply" /\ Advanced("release")
    BY <1>1, <1>9, CoMoves DEF CoAcked
  <2>2. CASE LastPart
    <3>1. co'.phase = "release" /\ co'.part = 1
      BY <2>1, <2>2 DEF Advanced
    <3>2. \A j \in 1 .. Len(co.parts) : PartHeld(j)' /\ PartHeld(j)
      BY <1>3, <1>4, <1>6, <2>1, <3>1 DEF PartHeld
    <3>3. QED
      BY <1>2, <1>6, <3>1, <3>2, LocksMoved
  <2>3. CASE ~LastPart
    <3>1. co'.phase = "apply" /\ co'.part = co.part + 1
      BY <2>1, <2>3 DEF Advanced
    <3>2. \A j \in 1 .. Len(co.parts) :
            PartHeld(j)' /\ PartHeld(j) /\ (PartPrepared(j)' <=> PartPrepared(j))
      BY <1>3, <1>4, <1>5, <1>6, <2>1, <3>1 DEF PartHeld, PartPrepared
    <3>3. QED
      BY <1>2, <1>6, <2>1, <3>2, LocksMoved
  <2>4. QED
    BY <2>2, <2>3
<1>10. CASE CoReleased /\ ~LastPart
  <2>1. co.phase = "release" /\ Advanced("release")
    BY <1>1, <1>10, CoMoves DEF CoAcked
  <2>2. co'.phase = "release" /\ co'.part = co.part + 1
    BY <1>10, <2>1 DEF Advanced
  <2>3. \A j \in 1 .. Len(co.parts) : PartHeld(j)' <=> PartHeld(j)
    BY <1>3, <1>4, <1>5, <1>6, <2>1, <2>2 DEF PartHeld
  <2>4. QED
    BY <1>2, <1>6, <2>2, <2>3, LocksMoved
<1>11. QED
  BY <1>7, <1>8, <1>9, <1>10

\* The owner the transaction waits for changes its reservation, or its shard, and answers.
LEMMA LocksAcked ==
    ASSUME Calls, Queues, Transaction, Locks, InFlight, NEW ok, AckArrived(ok),
           NEW o \in Owners, o = CoOwner, DOMAIN shard' = Owners,
           \A x \in Owners : x # o => owner'[x] = owner[x] /\ shard'[x] = shard[x],
           OwnerLock(o)', NEW n, n = co.part, PartLock(n)'
    PROVE  Locks'
<1>1. /\ co'.phase = co.phase /\ co'.id = co.id /\ co'.parts = co.parts /\ co'.part = co.part
  BY DEF AckArrived, CoFields
<1>2. Coordinating /\ Coordinating'
  BY <1>1 DEF InFlight, Coordinating
<1>3. n \in 1 .. Len(co.parts) /\ co.parts[n].owner = o
  BY <1>2, CoParts DEF CoOwner
<1>4. \A x \in Owners : x # o => OwnerLock(x)'
  <2> SUFFICES ASSUME NEW x \in Owners, x # o PROVE OwnerLock(x)'
    OBVIOUS
  <2>1. OwnerLock(x) /\ owner'[x] = owner[x] /\ shard'[x] = shard[x]
    BY DEF Locks
  <2>2. QED
    BY <1>1, <1>2, <2>1 DEF OwnerLock, Reserved
<1>5. ASSUME NEW j \in 1 .. Len(co.parts), j # n PROVE PartLock(j)'
  <2>1. co.parts[j].owner \in Owners /\ co.parts[j].owner # o
    BY <1>2, <1>3, <1>5, CoParts
  <2>2. owner'[co.parts[j].owner] = owner[co.parts[j].owner]
    BY <2>1
  <2>3. PartLock(j)
    BY <1>2 DEF Locks
  <2>4. (PartHeld(j)' <=> PartHeld(j)) /\ (PartPrepared(j)' <=> PartPrepared(j))
    BY <1>1, <1>5 DEF PartHeld, PartPrepared
  <2>5. QED
    BY <1>1, <2>2, <2>3, <2>4 DEF PartLock, Reserved
<1>6. \A j \in 1 .. Len(co'.parts) : PartLock(j)'
  BY <1>1, <1>5
<1>7. QED
  BY <1>2, <1>4, <1>6 DEF Locks

\* Reserve, prepare, apply and release.
LEMMA LocksOwner ==
    ASSUME Calls, Queues, Transaction, Lives, Messages, Locks, NEW o \in Owners,
           OwnerReserve(o) \/ OwnerPrepare(o) \/ OwnerApply(o) \/ OwnerRelease(o)
    PROVE  Locks'
<1>1. InFlight /\ o = CoOwner
  BY OwnerAcks
<1>2. Coordinating /\ ~co.ack.arrived
  BY <1>1 DEF InFlight
<1>3. PICK n : n = co.part
  OBVIOUS
<1>4. n \in 1 .. Len(co.parts) /\ co.parts[n].owner = o /\ n \in Int /\ ~(n < n)
  <2>1. n \in 1 .. Len(co.parts) /\ Len(co.parts) \in Nat
    BY <1>2, <1>3, CoParts
  <2>2. QED
    BY <1>1, <1>3, <2>1 DEF CoOwner
<1>5. DOMAIN co = CoFields /\ DOMAIN shard = Owners /\ DOMAIN owner = Owners
  BY DEF Transaction, Locks, Lives
<1>6. DOMAIN owner[o] = OwnerFields /\ OwnerLock(o) /\ PartLock(n)
  BY <1>2, <1>4 DEF Lives, OwnerLife, Locks
<1>7. ASSUME NEW ok, AckArrived(ok)
      PROVE  /\ co'.phase = co.phase /\ co'.id = co.id /\ co'.parts = co.parts /\ co'.part = n
             /\ co'.ack.arrived = TRUE /\ co'.ack.ok = ok /\ Coordinating'
  BY <1>2, <1>3, <1>7 DEF AckArrived, CoFields, Coordinating
<1>8. CASE OwnerReserve(o)
  <2>1. co.phase = "reserve" /\ Head(control[o]).id = co.id
    BY <1>2, <1>8, HeadMessage, CoMessageType DEF OwnerReserve, Transactional
  <2>2. AckArrived(TRUE)
    BY <1>5, <1>8, Acks DEF OwnerReserve
  <2>3. /\ owner' = [owner EXCEPT ![o].reservation = Reservation(co.id)] /\ shard' = shard
    BY <1>8, <2>1 DEF OwnerReserve
  <2>4. /\ owner'[o].reservation = Reservation(co.id)
        /\ \A x \in Owners : x # o => owner'[x] = owner[x]
    BY <1>5, <1>6, <2>3 DEF OwnerFields
  <2>5. /\ owner'[o].reservation.held = TRUE /\ owner'[o].reservation.id = co.id
        /\ owner'[o].reservation.prepared.ok = FALSE
        /\ DOMAIN owner'[o].reservation = {"held", "id", "prepared"}
    BY <2>4 DEF Reservation, NothingPrepared
  <2>6. OwnerLock(o)'
    BY <1>4, <1>7, <2>2, <2>5 DEF OwnerLock, Reserved
  <2>7. PartHeld(n)' /\ ~PartPrepared(n)'
    BY <1>7, <2>1, <2>2 DEF PartHeld, PartPrepared
  <2>8. PartLock(n)'
    BY <1>4, <1>7, <2>2, <2>5, <2>7 DEF PartLock, Reserved
  <2>9. QED
    BY <1>1, <1>3, <1>5, <2>2, <2>3, <2>4, <2>6, <2>8, LocksAcked
<1>9. CASE OwnerPrepare(o)
  <2>1. co.phase = "prepare"
    BY <1>9, HeadMessage DEF OwnerPrepare, Transactional
  <2>2. PICK p : /\ p = prepare(shard[o], Head(control[o]).op, Head(control[o]).now, shard_limits(o))
                 /\ owner' = [owner EXCEPT ![o].reservation.prepared = IF p.ok THEN p ELSE @]
                 /\ Acknowledge(p.ok, p.reply)
    BY <1>9 DEF OwnerPrepare
  <2>3. p.ok \in BOOLEAN /\ p.revision = shard[o].revision /\ shard' = shard
    BY <1>9, <2>2, PrepareOk, SMTT(30) DEF OwnerPrepare
  <2>4. AckArrived(p.ok)
    BY <1>5, <2>2, Acks
  <2>5. PartHeld(n) /\ ~PartPrepared(n)
    BY <1>2, <1>3, <1>4, <2>1 DEF PartHeld, PartPrepared
  <2>6. /\ owner[o].reservation.held = TRUE /\ owner[o].reservation.prepared.ok = FALSE
        /\ DOMAIN owner[o].reservation = {"held", "id", "prepared"}
        /\ owner[o].reservation.id = co.id
    BY <1>4, <1>6, <2>1, <2>5 DEF PartLock, OwnerLock, Reserved
  <2> DEFINE q == IF p.ok THEN p ELSE owner[o].reservation.prepared
  <2>7. owner' = [owner EXCEPT ![o].reservation.prepared = q]
    BY <2>2
  <2>8. q.ok = p.ok /\ (q.ok => q.revision = shard[o].revision)
    BY <2>3, <2>6
  <2> HIDE DEF q
  <2>9. /\ DOMAIN owner'[o].reservation = {"held", "id", "prepared"}
        /\ owner'[o].reservation.held = TRUE /\ owner'[o].reservation.id = co.id
        /\ owner'[o].reservation.prepared = q
        /\ \A x \in Owners : x # o => owner'[x] = owner[x]
    BY <1>5, <1>6, <2>6, <2>7 DEF OwnerFields
  <2>10. OwnerLock(o)'
    BY <1>4, <1>7, <2>3, <2>4, <2>8, <2>9 DEF OwnerLock, Reserved
  <2>11. PartHeld(n)' /\ (PartPrepared(n)' <=> p.ok)
    BY <1>4, <1>7, <2>1, <2>3, <2>4 DEF PartHeld, PartPrepared
  <2>12. PartLock(n)'
    BY <1>4, <1>7, <2>3, <2>4, <2>8, <2>9, <2>11 DEF PartLock, Reserved
  <2>13. QED
    BY <1>1, <1>3, <1>5, <2>3, <2>4, <2>9, <2>10, <2>12, LocksAcked
<1>10. CASE OwnerApply(o)
  <2>1. co.phase = "apply"
    BY <1>10, HeadMessage DEF OwnerApply, Transactional
  <2>2. AckArrived(TRUE)
    BY <1>5, <1>10, Acks DEF OwnerApply
  <2>3. /\ owner' = [owner EXCEPT ![o].reservation.prepared = NothingPrepared]
        /\ DOMAIN shard' = Owners /\ \A x \in Owners : x # o => shard'[x] = shard[x]
    BY <1>5, <1>10 DEF OwnerApply
  <2>4. PartHeld(n)
    BY <2>1 DEF PartHeld
  <2>5. /\ owner[o].reservation.held = TRUE
        /\ DOMAIN owner[o].reservation = {"held", "id", "prepared"}
        /\ owner[o].reservation.id = co.id
    BY <1>4, <1>6, <2>4 DEF PartLock, OwnerLock, Reserved
  <2>6. /\ DOMAIN owner'[o].reservation = {"held", "id", "prepared"}
        /\ owner'[o].reservation.held = TRUE /\ owner'[o].reservation.id = co.id
        /\ owner'[o].reservation.prepared = NothingPrepared
        /\ \A x \in Owners : x # o => owner'[x] = owner[x]
    BY <1>5, <1>6, <2>3, <2>5 DEF OwnerFields
  <2>7. owner'[o].reservation.prepared.ok = FALSE
    BY <2>6 DEF NothingPrepared
  <2>8. OwnerLock(o)'
    BY <1>4, <1>7, <2>2, <2>6, <2>7 DEF OwnerLock, Reserved
  <2>9. PartHeld(n)' /\ ~PartPrepared(n)'
    BY <1>4, <1>7, <2>1, <2>2 DEF PartHeld, PartPrepared
  <2>10. PartLock(n)'
    BY <1>4, <1>7, <2>2, <2>6, <2>7, <2>9 DEF PartLock, Reserved
  <2>11. QED
    BY <1>1, <1>3, <2>2, <2>3, <2>6, <2>8, <2>10, LocksAcked
<1>11. CASE OwnerRelease(o)
  <2>1. co.phase = "release"
    BY <1>11, HeadMessage DEF OwnerRelease, Transactional
  <2>2. AckArrived(TRUE)
    BY <1>5, <1>11, Acks DEF OwnerRelease
  <2>3. /\ owner'[o].reservation = NoReservation /\ shard' = shard
        /\ \A x \in Owners : x # o => owner'[x] = owner[x]
    BY <1>5, <1>6, <1>11 DEF OwnerRelease, OwnerFields
  <2>4. owner'[o].reservation.held = FALSE
    BY <2>3 DEF NoReservation
  <2>5. OwnerLock(o)'
    BY <2>4 DEF OwnerLock, Reserved
  <2>6. ~PartHeld(n)'
    BY <1>4, <1>7, <2>1, <2>2 DEF PartHeld
  <2>7. PartLock(n)'
    BY <1>4, <1>7, <2>2, <2>4, <2>6 DEF PartLock, Reserved
  <2>8. QED
    BY <1>1, <1>3, <1>5, <2>2, <2>3, <2>5, <2>7, LocksAcked
<1>12. QED
  BY <1>8, <1>9, <1>10, <1>11

\* An owner runs a command of its own, or expires keys, only when it is not reserved.
LEMMA OwnerProtects ==
    ASSUME Lives, Locks, NEW o \in Owners,
           \/ OwnerDataTurn(o) \/ OwnerStats(o) \/ OwnerStop(o) \/ OwnerControlClosed(o)
           \/ OwnerTick(o) \/ OwnerData(o) \/ OwnerExit(o)
    PROVE  Protected /\ co' = co
<1> USE DEF callers, channels, owners
<1>1. DOMAIN shard = Owners /\ DOMAIN owner = Owners
  BY DEF Locks, Lives
<1>2. DOMAIN owner[o] = OwnerFields
  BY DEF Lives, OwnerLife
<1>3. co' = co
  BY DEF OwnerDataTurn, OwnerStats, OwnerStop, OwnerControlClosed, OwnerTick, OwnerData, OwnerExit
<1>4. /\ DOMAIN shard' = Owners /\ \A x \in Owners : x # o => shard'[x] = shard[x]
      /\ ~Reserved(o) \/ shard' = shard
  <2>1. CASE OwnerDataTurn(o)
    BY <1>1, <2>1 DEF OwnerDataTurn, DataTurnDue, ExecuteLocal
  <2>2. CASE OwnerData(o)
    BY <1>1, <2>2 DEF OwnerData, DataReady, ExecuteLocal
  <2>3. CASE OwnerTick(o)
    BY <1>1, <2>3 DEF OwnerTick
  <2>4. CASE OwnerStats(o) \/ OwnerStop(o) \/ OwnerControlClosed(o) \/ OwnerExit(o)
    <3>1. shard' = shard
      BY <2>4 DEF OwnerStats, OwnerStop, OwnerControlClosed, OwnerExit
    <3>2. QED
      BY <1>1, <3>1
  <2>5. QED
    BY <2>1, <2>2, <2>3, <2>4
<1>5. \A x \in Owners : owner'[x].reservation = owner[x].reservation
  <2>1. \/ owner' = owner
        \/ owner' = [owner EXCEPT ![o].data_turn = FALSE]
        \/ owner' = [owner EXCEPT ![o].data_turn = TRUE]
        \/ owner' = [owner EXCEPT ![o].stopping = TRUE]
        \/ owner' = [owner EXCEPT ![o].running = FALSE]
    BY DEF OwnerDataTurn, OwnerStats, OwnerStop, OwnerControlClosed, OwnerTick, OwnerData, OwnerExit
  <2>2. QED
    BY <1>1, <1>2, <2>1 DEF OwnerFields
<1>6. QED
  BY <1>3, <1>4, <1>5 DEF Protected

\* No step of the engine breaks the locking.
LEMMA LocksNext ==
    ASSUME Calls, Queues, Transaction, Lives, Messages, Locks, [Next]_vars,
           Calls', Queues', Transaction'
    PROVE  Locks'
<1> USE DEF callers, channels, owners
<1>0. owner' = owner /\ shard' = shard => Protected
  BY DEF Protected, Locks
<1>1. CASE co' = co /\ Protected
  BY <1>1, LocksKept
<1>2. ASSUME NEW r \in Requests, CallStep(r) \/ DropFuture(r) \/ \E op \in Ops : Call(r, op)
      PROVE  co' = co /\ owner' = owner /\ shard' = shard
  BY <1>2 DEF CallStep, Begin, AcquireCredit, Enqueue, RejectClosed, AdmissionTimeout, DropFuture, Call
<1>3. ASSUME NEW o \in Owners, OwnerStep(o) PROVE Locks'
  <2>1. CASE OwnerReserve(o) \/ OwnerPrepare(o) \/ OwnerApply(o) \/ OwnerRelease(o)
    BY <2>1, LocksOwner
  <2>2. CASE ~(OwnerReserve(o) \/ OwnerPrepare(o) \/ OwnerApply(o) \/ OwnerRelease(o))
    BY <1>1, <1>3, <2>2, OwnerProtects DEF OwnerStep
  <2>3. QED
    BY <2>1, <2>2
<1>4. CASE CoTake
  <2>1. co.phase = "idle" /\ owner' = owner /\ shard' = shard
    BY <1>4 DEF CoTake
  <2>2. co'.phase = "reserve" /\ co'.part = 1 /\ co'.ack = NoAnswer
    BY <1>4 DEF CoTake, IdleCoordinator
  <2>3. ~Coordinating
    BY <2>1 DEF Coordinating
  <2>4. QED
    BY <1>0, <2>1, <2>2, <2>3, LocksTaken
<1>5. CASE CoFinish
  <2>1. owner' = owner /\ shard' = shard /\ ~Coordinating /\ ~Coordinating'
    BY <1>5 DEF CoFinish, Coordinating, Transaction, CoFields
  <2>2. QED
    BY <1>0, <2>1, LocksIdle
<1>6. CASE CoSend
  <2>1. owner' = owner /\ shard' = shard /\ co' = [co EXCEPT !.sent = TRUE]
    BY <1>6 DEF CoSend
  <2>2. /\ co'.phase = co.phase /\ co'.id = co.id /\ co'.parts = co.parts /\ co'.part = co.part
        /\ co'.ack = co.ack
    BY <2>1 DEF Transaction, CoFields
  <2>3. QED
    BY <1>0, <2>1, <2>2, LocksKept
<1>7. CASE CoReserved \/ CoPrepared \/ CoApplied \/ (CoReleased /\ ~LastPart)
  <2>1. owner' = owner /\ shard' = shard
    BY <1>7 DEF CoReserved, CoPrepared, CoApplied, CoReleased, CoAcked
  <2>2. QED
    BY <1>0, <1>7, <2>1, LocksAdvance
<1>8. CASE CoReleased /\ LastPart
  <2>1. /\ co.phase = "release" /\ co.ack.arrived /\ owner' = owner /\ shard' = shard
        /\ co'.phase = "idle"
    BY <1>8 DEF CoReleased, CoAcked, IdleCoordinator
  <2>2. Coordinating /\ ~Coordinating'
    BY <2>1 DEF Coordinating
  <2>3. Len(co.parts) \in Nat /\ co.part = Len(co.parts)
    BY <1>8, <2>2, CoParts DEF LastPart
  <2>4. \A j \in 1 .. Len(co.parts) : ~PartHeld(j)
    BY <2>1, <2>3 DEF PartHeld
  <2>5. \A o \in Owners : ~Reserved(o) /\ owner[o].reservation.held \in BOOLEAN
    BY <2>2, <2>4 DEF Locks, OwnerLock, PartLock
  <2>6. \A o \in Owners : OwnerLock(o)'
    BY <2>1, <2>5 DEF OwnerLock, Reserved
  <2>7. QED
    BY <2>1, <2>2, <2>6 DEF Locks
<1>9. ASSUME \/ CoStop \/ StatsCall \/ StatsStep \/ ShutdownBegin \/ ShutdownStep \/ DropEngine
             \/ ClockStep \/ UNCHANGED vars
      PROVE  co' = co /\ owner' = owner /\ shard' = shard
  BY <1>9 DEF CoStop, StatsCall, StatsStep, StatsSend, StatsBreak, StatsReceive, ShutdownBegin,
              ShutdownStep, ShutdownStopCross, ShutdownJoinCross, ShutdownStopOwner, ShutdownJoin,
              ShutdownAt, DropEngine, ClockStep, vars
<1>10. QED
  BY <1>0, <1>1, <1>2, <1>3, <1>4, <1>5, <1>6, <1>7, <1>8, <1>9 DEF Next, CoStep

-----------------------------------------------------------------------------
(***************************************************************************)
(* The invariant, and what follows from it.                                *)
(***************************************************************************)
\* The invariant holds when the engine starts.
LEMMA InitIInv == Init => IInv
<1> SUFFICES ASSUME Init PROVE IInv
  OBVIOUS
<1> USE DEF Init
<1>0. Cross \in Pools /\ \A o \in Owners : o \in Pools /\ o # Cross
  BY EngineAssumption DEF Pools, Cross, Owners
<1>1. Calls
  BY DEF Calls, CallFields, Holding
<1>2. Credits
  <2>1. \A p \in Pools : Holders(p) = {}
    BY DEF Holders, Holding
  <2>2. \A p \in Pools : Lent(p) = 0
    BY <2>1, SumEmpty DEF Lent
  <2>3. \A p \in Pools : credits[p] = QueueBytes /\ IsFiniteSet(Holders(p))
    BY <2>1, FS_EmptySet
  <2>4. \A p \in Pools : credits[p] \in Nat /\ Conserved(p)
    BY <2>2, <2>3, EngineAssumption DEF Conserved
  <2>5. QED
    BY <2>4, ConservedIs
<1>3. co = IdleCoordinator(0) /\ co.phase = "idle" /\ co.request = None
  BY DEF IdleCoordinator
<1>4. \A r \in Requests : ~Accepted(r)
  BY DEF Accepted
<1>5. Queues
  <2>1. \A p \in Pools : queue[p] = <<>>
    OBVIOUS
  <2>2. \A p \in Pools : QueueOK(p)
    BY <1>4, <2>1, SeqNew, EngineAssumption DEF QueueOK, Waits
  <2>3. QED
    BY <1>3, <2>2 DEF Queues
<1>6. Transaction
  <2>1. co.sent = FALSE /\ co.ack = NoAnswer /\ DOMAIN co = CoFields
    BY DEF IdleCoordinator, CoFields
  <2>2. co.ack.arrived = FALSE
    BY <2>1 DEF NoAnswer
  <2>3. QED
    BY <1>3, <2>1, <2>2 DEF Transaction, Coordinating
<1>7. Lives
  <2>1. \A o \in Owners : OwnerLife(o)
    BY <1>0 DEF OwnerLife, OwnerFields
  <2>2. CrossLife
    BY <1>0, <1>3, SeqNew DEF CrossLife
  <2>3. ShutdownLife
    BY DEF ShutdownLife
  <2>4. QED
    BY <2>1, <2>2, <2>3 DEF Lives
<1>8. Messages
  <2>1. OneTransactional(<<>>)
    BY DEF OneTransactional
  <2>2. \A o \in Owners : ControlOK(o)
    BY <2>1, SeqNew DEF ControlOK
  <2>3. QED
    BY <2>2 DEF Messages
<1>9. Locks
  <2>1. \A o \in Owners : owner[o].reservation = NoReservation
    OBVIOUS
  <2>2. \A o \in Owners : owner[o].reservation.held = FALSE
    BY <2>1 DEF NoReservation
  <2>3. \A o \in Owners : OwnerLock(o)
    BY <2>2 DEF OwnerLock, Reserved
  <2>4. QED
    BY <1>3, <2>3 DEF Locks, Coordinating
<1>10. QED
  BY <1>1, <1>2, <1>5, <1>6, <1>7, <1>8, <1>9 DEF IInv

\* Every step keeps it.
LEMMA NextIInv == IInv /\ [Next]_vars => IInv'
<1> SUFFICES ASSUME IInv, [Next]_vars PROVE IInv'
  OBVIOUS
<1> USE DEF IInv
<1>1. Calls'
  BY CallsNext
<1>2. Credits'
  BY CreditsNext
<1>3. Queues'
  BY QueuesNext
<1>4. Transaction'
  BY TransactionNext
<1>5. Lives'
  BY LivesNext
<1>6. Messages'
  BY MessagesNext
<1>7. Locks'
  BY <1>1, <1>3, <1>4, LocksNext
<1>8. QED
  BY <1>1, <1>2, <1>3, <1>4, <1>5, <1>6, <1>7

\* The inductive invariant of the engine.
THEOREM EngineInvariant == Spec => []IInv
  BY InitIInv, NextIInv, PTL DEF Spec

\* Every byte of a pool is free or held by one request on its way: whatever timeout,
\* dropped future, closed channel or answer ends it, execute gives its credits back.
THEOREM EngineCreditsConserved == Spec => []CreditsConserved
<1>1. IInv => CreditsConserved
  BY DEF IInv, Credits
<1>2. QED
  BY <1>1, EngineInvariant, PTL

\* What an owner finds when it comes to its next control message.
LEMMA MessageMeets ==
    ASSUME IInv, NEW o \in Owners, control[o] # <<>>
    PROVE  LET m == Head(control[o])
               held == owner[o].reservation
           IN  /\ m.type \in {"reserve", "stop"} => ~held.held
               /\ m.type \in {"prepare", "apply", "release"} => held.held /\ held.id = m.id
               /\ m.type = "prepare" => ~held.prepared.ok
               /\ m.type = "apply" => /\ held.prepared.ok
                                      /\ held.prepared.revision = shard[o].revision
<1> DEFINE m == Head(control[o])
           held == owner[o].reservation
<1>0. Calls /\ Queues /\ Transaction /\ Messages /\ Locks
  BY DEF IInv
<1>1. Expected(o, m)
  BY <1>0, TailIn DEF Messages, ControlOK
<1>2. OwnerLock(o)
  BY <1>0 DEF Locks
<1>3. CASE Lasting(o, m)
  <2>1. m.type = "stats" \/ (m.type = "stop" /\ co.phase = "finished")
    BY <1>3 DEF Lasting, Plain
  <2>2. co.phase = "finished" => ~held.held
    BY <1>2 DEF OwnerLock, Reserved, Coordinating
  <2>3. QED
    BY <2>1, <2>2
<1>4. CASE m = CoMessage /\ InFlight /\ o = CoOwner
  <2>1. Coordinating /\ ~co.ack.arrived
    BY <1>4 DEF InFlight
  <2>2. m.type = co.phase /\ m.id = co.id
    BY <1>4, <2>1, CoMessageType
  <2>3. PICK n : n = co.part
    OBVIOUS
  <2>4. n \in 1 .. Len(co.parts) /\ co.parts[n].owner = o /\ n \in Int
    <3>1. n \in 1 .. Len(co.parts) /\ Len(co.parts) \in Nat
      BY <1>0, <2>1, <2>3, CoParts
    <3>2. QED
      BY <1>4, <2>3, <3>1 DEF CoOwner
  <2>5. PartLock(n)
    BY <1>0, <2>1, <2>4 DEF Locks
  <2>6. /\ held.held <=> PartHeld(n)
        /\ co.phase # "release" /\ PartHeld(n) => (held.prepared.ok <=> PartPrepared(n))
    BY <2>4, <2>5 DEF PartLock, Reserved
  <2>7. /\ PartHeld(n) <=> co.phase # "reserve"
        /\ PartPrepared(n) <=> co.phase = "apply"
    BY <2>1, <2>3, <2>4 DEF PartHeld, PartPrepared, Coordinating
  <2>8. held.held => held.id = co.id /\ (held.prepared.ok => held.prepared.revision = shard[o].revision)
    BY <1>2 DEF OwnerLock, Reserved
  <2> HIDE DEF m, held
  <2>9. /\ m.type \in {"reserve", "stop"} => ~held.held
        /\ m.type \in {"prepare", "apply", "release"} => held.held /\ held.id = m.id
    BY <2>1, <2>2, <2>6, <2>7, <2>8 DEF Coordinating
  <2>10. /\ m.type = "prepare" => ~held.prepared.ok
         /\ m.type = "apply" => held.prepared.ok /\ held.prepared.revision = shard[o].revision
    BY <2>2, <2>6, <2>7, <2>8
  <2>11. QED
    BY <2>9, <2>10 DEF m, held
<1>5. QED
  BY <1>1, <1>3, <1>4 DEF Expected

\* The engine never aborts: in no interleaving of commands, timeouts, dropped futures,
\* statistics, shutdown and a dropped engine does an assert or expect of owner_loop or
\* Shard::apply fail, or a thread meet a condition under which it calls fatal.
THEOREM EngineNeverAborts == Spec => []NeverAborts
<1>1. ASSUME IInv PROVE NeverAborts
  <2>0. Calls /\ Queues /\ Transaction /\ Lives /\ Messages /\ Locks
    BY <1>1 DEF IInv
  <2>1. ASSUME NEW o \in Owners, Reserved(o)
        PROVE  Coordinating /\ o \in Participants(CoOp) /\ owner[o].reservation.id = co.id
    <3>1. /\ Coordinating /\ owner[o].reservation.id = co.id
          /\ \E j \in 1 .. Len(co.parts) : co.parts[j].owner = o
      BY <2>0, <2>1 DEF Locks, OwnerLock
    <3>2. QED
      BY <2>0, <3>1, CoParts
  <2>2. NoAssertionFails
    BY <1>1, <2>1, MessageMeets DEF NoAssertionFails
  <2>3. \A o \in Owners :
          /\ owner[o].running \in BOOLEAN /\ owner[o].stopping = closed[o]
          /\ ~owner[o].running => closed[o]
          /\ closed[o] => co.phase = "finished"
          /\ closed[o] /\ shutdown.phase # "dropped" => o <= shutdown.stops
    BY <2>0 DEF Lives, OwnerLife
  <2>4. Coordinating => \A o \in Participants(CoOp) : owner[o].running /\ ~owner[o].stopping
    <3> SUFFICES ASSUME Coordinating, NEW o \in Participants(CoOp)
                 PROVE  owner[o].running /\ ~owner[o].stopping
      OBVIOUS
    <3>1. CoOp \in Operations
      BY <2>0, CoParts
    <3>2. o \in Owners
      BY <3>1, ParticipantsFinite
    <3>3. ~closed[o]
      BY <2>3, <3>2 DEF Coordinating
    <3>4. QED
      BY <2>3, <3>2, <3>3
  <2>5. shutdown.phase = "stop_cross" => ~closed[Cross]
    BY <2>0 DEF Lives, CrossLife
  <2>6. shutdown.phase = "stop_owners" => \A o \in Owners : o > shutdown.stops => owner[o].running
    <3> SUFFICES ASSUME shutdown.phase = "stop_owners", NEW o \in Owners, o > shutdown.stops
                 PROVE  owner[o].running
      OBVIOUS
    <3>1. o \in Int /\ shutdown.stops \in Int
      BY <2>0 DEF Owners, Lives, ShutdownLife
    <3>2. ~(o <= shutdown.stops)
      BY <3>1
    <3>3. QED
      BY <2>3, <3>2
  <2>7. co.phase = "finished" => \A o \in Owners : ~Reserved(o)
    BY <2>1 DEF Coordinating
  <2>8. QED
    BY <2>2, <2>4, <2>5, <2>6, <2>7 DEF NeverAborts, NeverFatal
<1>2. QED
  BY <1>1, EngineInvariant, PTL

\* An accepted command is in exactly one channel, at one place, or with the coordinator,
\* so it is answered exactly once; and when Engine::shutdown returns none is left.
THEOREM EngineAcceptedExactlyOnce == Spec => []AcceptedExactlyOnce
<1>1. ASSUME IInv PROVE AcceptedExactlyOnce
  <2>0. Calls /\ Queues /\ Transaction /\ Lives
    BY <1>1 DEF IInv
  <2>1. \A p \in Pools : /\ Len(queue[p]) \in Nat /\ DOMAIN queue[p] = 1 .. Len(queue[p])
                         /\ Len(queue[p]) <= QueueCapacity /\ NoRepeats(queue[p])
                         /\ \A r \in Requests : In(r, queue[p]) <=> Waits(r, p)
    <3> TAKE p \in Pools
    <3>1. QueueOK(p)
      BY <2>0 DEF Queues
    <3>2. Len(queue[p]) \in Nat /\ DOMAIN queue[p] = 1 .. Len(queue[p])
      BY <3>1 DEF QueueOK, IsSeq
    <3>3. QED
      BY <3>1, <3>2 DEF QueueOK
  <2>2. ASSUME NEW r \in Requests PROVE Occurrences(r) = IF Accepted(r) THEN 1 ELSE 0
    <3> DEFINE Places == {at \in Pools \X (1 .. QueueCapacity) :
                             at[2] \in DOMAIN queue[at[1]] /\ queue[at[1]][at[2]] = r}
    <3>1. CASE ~Accepted(r) \/ r = co.request
      <4>1. \A p \in Pools : ~In(r, queue[p])
        BY <2>1, <3>1 DEF Waits
      <4>2. Places = {}
        BY <2>1, <4>1 DEF In
      <4>3. Cardinality(Places) = 0
        BY <4>2, FS_EmptySet
      <4>4. r = co.request => Accepted(r)
        BY <2>0, EngineAssumption DEF Queues
      <4> HIDE DEF Places
      <4>5. Cardinality(Places) + (IF co.request = r THEN 1 ELSE 0) = IF Accepted(r) THEN 1 ELSE 0
        BY <3>1, <4>3, <4>4
      <4>6. QED
        BY <4>5 DEF Occurrences, Places
    <3>2. CASE Accepted(r) /\ r # co.request
      <4>1. PICK p \in Pools : p = PoolOf(r)
        BY <2>0, <3>2, HolderFacts DEF Accepted, Holding
      <4>2. In(r, queue[p])
        BY <2>1, <3>2, <4>1 DEF Waits
      <4>3. PICK i \in 1 .. Len(queue[p]) : queue[p][i] = r
        BY <4>2 DEF In
      <4>4. i \in 1 .. QueueCapacity
        BY <2>1, <4>3, EngineAssumption
      <4>5. \A q \in Pools : \A j \in 1 .. Len(queue[q]) : queue[q][j] = r => q = p /\ j = i
        <5> SUFFICES ASSUME NEW q \in Pools, NEW j \in 1 .. Len(queue[q]), queue[q][j] = r
                     PROVE  q = p /\ j = i
          OBVIOUS
        <5>1. In(r, queue[q])
          BY DEF In
        <5>2. q = p
          BY <2>1, <4>1, <5>1 DEF Waits
        <5>3. QED
          BY <2>1, <4>3, <5>2 DEF NoRepeats
      <4>6. Places = {<<p, i>>}
        <5>1. <<p, i>> \in Places
          BY <2>1, <4>3, <4>4
        <5>2. \A at \in Places : at[1] = p /\ at[2] = i /\ at = <<at[1], at[2]>>
          BY <2>1, <4>5
        <5> HIDE DEF Places
        <5>3. QED
          BY <5>1, <5>2
      <4>7. Cardinality(Places) = 1
        BY <4>6, FS_Singleton
      <4> HIDE DEF Places
      <4>8. Cardinality(Places) + (IF co.request = r THEN 1 ELSE 0) = IF Accepted(r) THEN 1 ELSE 0
        BY <3>2, <4>7
      <4>9. QED
        BY <4>8 DEF Occurrences, Places
    <3>3. QED
      BY <3>1, <3>2
  <2>3. shutdown.phase = "down" => \A r \in Requests : ~Accepted(r)
    <3> SUFFICES ASSUME shutdown.phase = "down", NEW r \in Requests, Accepted(r) PROVE FALSE
      OBVIOUS
    <3>1. co.phase = "finished" /\ \A o \in Owners : ~owner[o].running
      BY <2>0 DEF Lives, ShutdownLife
    <3>2. \A p \in Pools : queue[p] = <<>>
      <4>1. queue[Cross] = <<>>
        BY <2>0, <3>1 DEF Lives, CrossLife
      <4>2. \A o \in Owners : queue[o] = <<>>
        BY <2>0, <3>1 DEF Lives, OwnerLife
      <4>3. QED
        BY <4>1, <4>2 DEF Pools
    <3>3. co.request # r
      BY <2>0, <3>1, EngineAssumption DEF Transaction, Coordinating
    <3>4. PICK p \in Pools : p = PoolOf(r)
      BY <2>0, HolderFacts DEF Accepted, Holding
    <3>5. In(r, queue[p])
      BY <2>1, <3>3, <3>4 DEF Waits
    <3>6. QED
      BY <3>2, <3>5, SeqNew
  <2>4. QED
    BY <2>2, <2>3 DEF AcceptedExactlyOnce
<1>2. QED
  BY <1>1, EngineInvariant, PTL

-----------------------------------------------------------------------------
(***************************************************************************)
(* The proof of Linearizable: the engine implements KeySpace, for every    *)
(* number of workers, requests, keys and operations.                       *)
(***************************************************************************)

(***************************************************************************)
(* The reference meaning of commands is the same on both levels.           *)
(***************************************************************************)
LEMMA SameMeaning ==
    ASSUME NEW op, NEW now, NEW view, NEW entries
    PROVE  /\ Table!View(entries, now) = View(entries, now)
           /\ Table!Refusal(op, now, view) = Refusal(op, now, view)
           /\ Table!NewView(op, now, view) = NewView(op, now, view)
           /\ Table!NewReply(op, now, view) = NewReply(op, now, view)
<1>1. Table!View(entries, now) = View(entries, now)
  BY DEF Table!View, View, Table!Due, Due
<1>2. Table!Refusal(op, now, view) = Refusal(op, now, view)
  BY DEF Table!Refusal, Refusal, Table!Delta, Delta, Table!Numeric, Numeric, Table!Current, Current,
         Table!Present, Present, Table!I64, I64, Table!I64Min, I64Min
<1>3. \A k : Table!NewEntry(op, now, view, k) = NewEntry(op, now, view, k)
  BY DEF Table!NewEntry, NewEntry, Table!Permitted, Permitted, Table!Present, Present,
         Table!Entry, Entry, Table!Deadline, Deadline, Table!Current, Current, Table!Delta, Delta,
         Table!LastValue, LastValue, Table!WithDeadline, WithDeadline
<1>4. Table!KeySet(op) = KeySet(op)
  BY DEF Table!KeySet, KeySet, Table!operation_keys, operation_keys
<1>5. Table!NewView(op, now, view) = NewView(op, now, view)
  BY <1>3, <1>4 DEF Table!NewView, NewView
<1>6. Table!NewReply(op, now, view) = NewReply(op, now, view)
  BY <1>4 DEF Table!NewReply, NewReply, Table!Bulk, Bulk, Table!ValueIn, ValueIn, Table!Permitted, Permitted,
     Table!Present, Present, Table!Ok, Ok, Table!Integer, Integer, Table!Current, Current, Table!Delta, Delta,
     Table!Array, Array, Table!Truth, Truth, Table!Remaining, Remaining, Table!Deadline, Deadline,
     Table!Seconds, Seconds
<1>7. QED
  BY <1>1, <1>2, <1>5, <1>6
-----------------------------------------------------------------------------
(***************************************************************************)
(* A command depends on the keys it names, and installs live entries only. *)
(***************************************************************************)
MultiKeyTypes == {"delete", "exists", "multi_get", "multi_set"}

\* The commands with one key.
LEMMA SingleKey ==
    ASSUME NEW op \in Operations, op \notin KeysOperations \cup MultiSetOperations
    PROVE  /\ op.type \in {"get", "persist", "set", "increment", "expire", "ttl"}
           /\ op.key \in Keys /\ KeySet(op) = {op.key}
<1>1. op.type \in {"get", "persist", "set", "increment", "expire", "ttl"} /\ op.key \in Keys
  BY DEF Operations, KeyOperations, SetOperations, IncrementOperations, ExpireOperations,
         TtlOperations
<1>2. operation_keys(op) = <<op.key>>
  BY <1>1 DEF operation_keys
<1>3. DOMAIN <<op.key>> = {1} /\ <<op.key>>[1] = op.key
  OBVIOUS
<1>4. KeySet(op) = {op.key}
  BY <1>2, <1>3 DEF KeySet
<1>5. QED
  BY <1>1, <1>4

\* A command looks at nothing but its own keys.
LEMMA LooksAtItsKeys ==
    ASSUME NEW op \in Operations, NEW now, NEW v, NEW w,
           \A k \in KeySet(op) : v[k] = w[k]
    PROVE  /\ Refusal(op, now, v) = Refusal(op, now, w)
           /\ NewReply(op, now, v) = NewReply(op, now, w)
           /\ \A k \in KeySet(op) : NewEntry(op, now, v, k) = NewEntry(op, now, w, k)
<1>1. CASE op \in KeysOperations \cup MultiSetOperations
  <2>1. op.type \in {"delete", "exists", "multi_get", "multi_set"}
    BY <1>1 DEF KeysOperations, MultiSetOperations
  <2>2. op.type \in {"delete", "exists", "multi_get"} =>
          \A i \in DOMAIN op.keys : v[op.keys[i]] = w[op.keys[i]]
    BY <2>1 DEF KeySet, operation_keys
  <2>3. Refusal(op, now, v) = Refusal(op, now, w)
    BY <2>1 DEF Refusal
  <2>4. \A k \in KeySet(op) : NewEntry(op, now, v, k) = NewEntry(op, now, w, k)
    BY <2>1 DEF NewEntry
  <2>5. CASE op.type = "delete"
    <3>1. {k \in KeySet(op) : Present(v, k)} = {k \in KeySet(op) : Present(w, k)}
      BY DEF Present
    <3>2. QED
      BY <2>3, <2>4, <2>5, <3>1 DEF NewReply
  <2>6. CASE op.type = "exists"
    <3>1. {i \in DOMAIN op.keys : Present(v, op.keys[i])}
            = {i \in DOMAIN op.keys : Present(w, op.keys[i])}
      BY <2>2, <2>6 DEF Present
    <3>2. QED
      BY <2>3, <2>4, <2>6, <3>1 DEF NewReply
  <2>7. CASE op.type = "multi_get"
    <3>1. [i \in DOMAIN op.keys |-> ValueIn(v, op.keys[i])]
            = [i \in DOMAIN op.keys |-> ValueIn(w, op.keys[i])]
      BY <2>2, <2>7 DEF ValueIn
    <3>2. QED
      BY <2>3, <2>4, <2>7, <3>1 DEF NewReply
  <2>8. CASE op.type = "multi_set"
    BY <2>3, <2>4, <2>8 DEF NewReply
  <2>9. QED
    BY <2>1, <2>5, <2>6, <2>7, <2>8
<1>2. CASE op \notin KeysOperations \cup MultiSetOperations
  <2>1. op.type \in {"get", "persist", "set", "increment", "expire", "ttl"}
    BY <1>2, SingleKey
  <2>2. KeySet(op) = {op.key}
    BY <1>2, SingleKey
  <2>3. v[op.key] = w[op.key]
    BY <2>2
  <2>4. Refusal(op, now, v) = Refusal(op, now, w)
    BY <2>1, <2>3 DEF Refusal, Numeric, Current, Present
  <2>5. \A k \in KeySet(op) : NewEntry(op, now, v, k) = NewEntry(op, now, w, k)
    <3>1. NewEntry(op, now, v, op.key) = NewEntry(op, now, w, op.key)
      BY <2>1, <2>3 DEF NewEntry, Permitted, Present, Deadline, Current
    <3>2. QED
      BY <2>2, <3>1
  <2>6. NewReply(op, now, v) = NewReply(op, now, w)
    BY <2>1, <2>3 DEF NewReply, ValueIn, Permitted, Present, Current, Deadline, Remaining
  <2>7. QED
    BY <2>4, <2>5, <2>6
<1>3. QED
  BY <1>1, <1>2

\* What a command that is carried out installs is live at its instant, and belongs to
\* its own keys.
LEMMA InstallsLive ==
    ASSUME NEW entries, TableOK(entries), NEW op \in Operations, NEW now \in I64,
           Command(entries, op, now).ok
    PROVE  LET effects == Command(entries, op, now).effects
           IN  /\ DOMAIN effects \subseteq KeySet(op)
               /\ \A k \in Inserted(effects) : ~Due(effects[k], now)
<1> DEFINE Live(effects) == /\ DOMAIN effects \subseteq KeySet(op)
                            /\ \A k \in Inserted(effects) : ~Due(effects[k], now)
           old == observe(entries, op.key, now)
<1>1. \A K : K \subseteq KeySet(op) => Live(Observed(entries, K, now))
  BY DEF Observed, Inserted
<1>2. \A k \in KeySet(op) : \A entry : entry = None \/ ~Due(entry, now) => Live(Installs(k, entry))
  BY DEF Installs, Inserted
<1>3. now \in Int /\ None \notin I64
  BY CommandsAssumption DEF I64, I64Min
<1>4. \A value : ~Due(Entry(value, None), now)
  BY DEF Due, Entry
<1>5. \A value : \A d \in Int : d > now => ~Due(Entry(value, d), now)
  BY <1>3 DEF Due, Entry
<1>6. old = None \/ ~Due(old, now)
  BY DEF observe
<1>7. \A value : ~Due(Entry(value, ExpiresAt(old)), now)
  BY <1>4, <1>6 DEF Due, Entry, ExpiresAt
<1> DEFINE result == Command(entries, op, now)
<1>8. SUFFICES Live(result.effects)
  OBVIOUS
<1> HIDE DEF Live
<1>9. CASE op \in KeysOperations \cup MultiSetOperations
  <2>1. op.type \in {"delete", "exists", "multi_get", "multi_set"}
    BY <1>9 DEF KeysOperations, MultiSetOperations
  <2>2. CASE op.type = "delete"
    <3>1. result.effects = [k \in KeySet(op) |-> None]
      BY <2>2 DEF Command, PrepareDelete, Outcome
    <3>2. QED
      BY <3>1 DEF Live, Inserted
  <2>3. CASE op.type \in {"exists", "multi_get"}
    <3>1. result.effects = Observed(entries, KeySet(op), now)
      BY <2>3 DEF Command, PrepareExists, PrepareMultiGet, Outcome
    <3>2. QED
      BY <1>1, <3>1
  <2>4. CASE op.type = "multi_set"
    <3>1. result.effects = [k \in KeySet(op) |-> Entry(LastValue(op.pairs, k), None)]
      BY <2>4 DEF Command, PrepareMultiSet, Outcome
    <3>2. QED
      BY <1>4, <3>1 DEF Live, Inserted
  <2>5. QED
    BY <2>1, <2>2, <2>3, <2>4
<1>10. CASE op \notin KeysOperations \cup MultiSetOperations
  <2>1. op.type \in {"get", "persist", "set", "increment", "expire", "ttl"}
    BY <1>10, SingleKey
  <2>2. KeySet(op) = {op.key}
    BY <1>10, SingleKey
  <2>3. Live(Observed(entries, {op.key}, now))
    BY <1>1, <2>2
  <2>4. \A entry : entry = None \/ ~Due(entry, now) => Live(Installs(op.key, entry))
    BY <1>2, <2>2
  <2>5. CASE op.type \in {"get", "ttl"}
    <3>1. result.effects = Observed(entries, {op.key}, now)
      BY <2>5 DEF Command, PrepareGet, PrepareTtl, Outcome
    <3>2. QED
      BY <2>3, <3>1
  <2>6. CASE op.type = "persist"
    <3>1. \/ result.effects = Observed(entries, {op.key}, now)
          \/ \E value : result.effects = Installs(op.key, Entry(value, None))
      BY <2>6 DEF Command, PreparePersist, Outcome
    <3>2. QED
      BY <1>4, <2>3, <2>4, <3>1
  <2>7. CASE op.type = "increment"
    <3>1. \E value : result.effects = Installs(op.key, Entry(value, ExpiresAt(old)))
      BY <2>7 DEF Command, PrepareIncrement, Outcome, Refused
    <3>2. QED
      BY <1>7, <2>4, <3>1
  <2>8. CASE op.type = "set"
    <3>1. op \in SetOperations
      BY <2>8 DEF Operations, KeyOperations, SetOperations, IncrementOperations, ExpireOperations,
                  TtlOperations, KeysOperations, MultiSetOperations
    <3>2. op.expiry \in Expiries /\ op.milliseconds \in Int
      BY <3>1 DEF SetOperations, I64, I64Min
    <3>3. \/ result.effects = Observed(entries, {op.key}, now)
          \/ /\ op.expiry = "clear"
             /\ result.effects = Installs(op.key, Entry(op.value, None))
          \/ /\ op.expiry = "keep"
             /\ result.effects = Installs(op.key, Entry(op.value, ExpiresAt(old)))
          \/ /\ op.expiry = "after" /\ ~(op.milliseconds <= 0)
             /\ result.effects = Installs(op.key, Entry(op.value, now + op.milliseconds))
      BY <2>8, <3>2 DEF Command, PrepareSet, Outcome, Refused, Expiries
    <3>4. ~(op.milliseconds <= 0) => now + op.milliseconds \in Int /\ now + op.milliseconds > now
      BY <1>3, <3>2
    <3>5. QED
      BY <1>4, <1>5, <1>7, <2>3, <2>4, <3>3, <3>4
  <2>9. CASE op.type = "expire"
    <3>1. op \in ExpireOperations
      BY <2>9 DEF Operations, KeyOperations, SetOperations, IncrementOperations, ExpireOperations,
                  TtlOperations, KeysOperations, MultiSetOperations
    <3>2. op.milliseconds \in Int
      BY <3>1 DEF ExpireOperations, I64, I64Min
    <3>3. \/ result.effects = Observed(entries, {op.key}, now)
          \/ result.effects = Installs(op.key, None)
          \/ /\ ~(op.milliseconds <= 0)
             /\ \E value : result.effects = Installs(op.key, Entry(value, now + op.milliseconds))
      BY <2>9, <3>2 DEF Command, PrepareExpire, Outcome, Refused
    <3>4. ~(op.milliseconds <= 0) => now + op.milliseconds \in Int /\ now + op.milliseconds > now
      BY <1>3, <3>2
    <3>5. QED
      BY <1>5, <2>3, <2>4, <3>3, <3>4
  <2>10. QED
    BY <2>1, <2>5, <2>6, <2>7, <2>8, <2>9
<1>11. QED
  BY <1>9, <1>10

-----------------------------------------------------------------------------
(***************************************************************************)
(* One table out of the tables of all owners.                              *)
(***************************************************************************)
Gather(f) == [k \in {x \in Keys : x \in DOMAIN f[Route[x]]} |-> f[Route[k]][k]]

\* What a command sees of a key is what its owner holds.
LEMMA GatherView ==
    ASSUME NEW f, NEW now, NEW k \in Keys
    PROVE  View(Gather(f), now)[k] = View(f[Route[k]], now)[k]
  BY DEF Gather, View

\* The members of the one table.
LEMMA GatherMembers ==
    ASSUME NEW f
    PROVE  /\ DOMAIN Gather(f) = {k \in Keys : k \in DOMAIN f[Route[k]]}
           /\ \A k \in DOMAIN Gather(f) : Gather(f)[k] = f[Route[k]][k]
  BY DEF Gather

\* Owner o carries out the part of op that concerns its keys.
CarriesOut(now, old, new, part) ==
    /\ part \in Operations /\ Command(old, part, now).ok
    /\ new = Install(old, Command(old, part, now).effects)

\* When every participant has carried out its part and nobody else has changed, the
\* command has taken effect on the one table; and the due entries that are left are
\* old ones.
LEMMA TakesEffect ==
    ASSUME NEW op \in Operations, NEW now \in I64, NEW f, NEW g, NEW part,
           \A o \in Owners : TableOK(f[o]),
           \A o \in Participants(op) :
              /\ CarriesOut(now, f[o], g[o], part[o])
              /\ KeySet(part[o]) = {k \in KeySet(op) : Route[k] = o}
              /\ \A k \in KeySet(part[o]) :
                    NewEntry(part[o], now, View(Gather(f), now), k)
                      = NewEntry(op, now, View(Gather(f), now), k),
           \A o \in Owners : o \notin Participants(op) => g[o] = f[o]
    PROVE  /\ View(Gather(g), now) = NewView(op, now, View(Gather(f), now))
           /\ \A k \in DOMAIN Gather(g) : Due(Gather(g)[k], now) =>
                 k \in DOMAIN Gather(f) /\ Gather(g)[k] = Gather(f)[k]
<1> DEFINE V == View(Gather(f), now)
           W == NewView(op, now, V)
           eff(o) == Command(f[o], part[o], now).effects
<1>1. \A k \in KeySet(op) : Route[k] \in Participants(op)
  BY DEF Participants
<1>2. Participants(op) \subseteq Owners /\ \A k \in Keys : Route[k] \in Owners
  BY ParticipantsFinite, EngineAssumption
<1>3. ASSUME NEW o \in Participants(op)
      PROVE  /\ \A k \in Keys : Route[k] = o => View(g[o], now)[k] = W[k]
             /\ \A k \in DOMAIN g[o] : Due(g[o][k], now) =>
                   k \in DOMAIN f[o] /\ g[o][k] = f[o][k]
  <2> DEFINE v == View(f[o], now)
             p == part[o]
  <2>1. TableOK(f[o]) /\ p \in Operations /\ Command(f[o], p, now).ok
    BY <1>2 DEF CarriesOut
  <2>2. g[o] = Install(f[o], eff(o))
    BY DEF CarriesOut
  <2>3. Means(f[o], p, now)
    BY <2>1, CommandMeans
  <2>4. View(g[o], now) = NewView(p, now, v)
    BY <2>1, <2>2, <2>3 DEF Means
  <2>5. \A k \in Keys : Route[k] = o => v[k] = V[k]
    BY GatherView
  <2>6. KeySet(p) = {k \in KeySet(op) : Route[k] = o} /\ KeySet(p) \subseteq Keys
    BY <2>1, KeySetFinite
  <2>7. \A k \in KeySet(p) : v[k] = V[k]
    BY <2>5, <2>6
  <2>8. \A k \in KeySet(p) : NewEntry(p, now, v, k) = NewEntry(p, now, V, k)
    <3> HIDE DEF v, V, p
    <3>1. QED
      BY <2>1, <2>7, LooksAtItsKeys
  <2>9. \A k \in KeySet(p) : NewEntry(p, now, v, k) = NewEntry(op, now, V, k)
    <3>1. \A k \in KeySet(p) : NewEntry(p, now, V, k) = NewEntry(op, now, V, k)
      BY Zenon
    <3> HIDE DEF v, V, p
    <3>2. QED
      BY <2>8, <3>1
  <2>10. ASSUME NEW k \in Keys, Route[k] = o PROVE View(g[o], now)[k] = W[k]
    <3> HIDE DEF v, V, p
    <3>1. View(g[o], now)[k] = IF k \in KeySet(p) THEN NewEntry(p, now, v, k) ELSE v[k]
      BY <2>4 DEF NewView
    <3>2. k \in KeySet(p) <=> k \in KeySet(op)
      BY <2>6, <2>10
    <3>3. QED
      BY <2>5, <2>9, <2>10, <3>1, <3>2 DEF NewView
  <2>11. ASSUME NEW k \in DOMAIN g[o], Due(g[o][k], now)
         PROVE  k \in DOMAIN f[o] /\ g[o][k] = f[o][k]
    <3>1. \A x \in Inserted(eff(o)) : ~Due(eff(o)[x], now)
      BY <2>1, InstallsLive
    <3> HIDE DEF eff
    <3>2. k \notin Inserted(eff(o))
      BY <2>2, <2>11, <3>1 DEF Install, Inserted
    <3>3. QED
      BY <2>2, <2>11, <3>2 DEF Install
  <2>12. QED
    BY <2>10, <2>11
<1> HIDE DEF V, eff
<1>4. View(Gather(g), now) = W
  <2>1. \A k \in Keys : View(Gather(g), now)[k] = W[k]
    <3> TAKE k \in Keys
    <3>1. View(Gather(g), now)[k] = View(g[Route[k]], now)[k]
      BY GatherView
    <3>2. CASE Route[k] \in Participants(op)
      BY <1>3, <3>1, <3>2
    <3>3. CASE Route[k] \notin Participants(op)
      <4>1. k \notin KeySet(op)
        BY <1>1, <3>3
      <4>2. W[k] = V[k]
        BY <4>1 DEF NewView
      <4>3. g[Route[k]] = f[Route[k]]
        BY <1>2, <3>3
      <4>4. QED
        BY <3>1, <4>2, <4>3, GatherView DEF V
    <3>4. QED
      BY <3>2, <3>3
  <2>2. View(Gather(g), now) = [k \in Keys |-> View(Gather(g), now)[k]] /\ W = [k \in Keys |-> W[k]]
    BY DEF View, NewView
  <2> HIDE DEF W
  <2>3. QED
    BY <2>1, <2>2
<1>5. ASSUME NEW k \in DOMAIN Gather(g), Due(Gather(g)[k], now)
      PROVE  k \in DOMAIN Gather(f) /\ Gather(g)[k] = Gather(f)[k]
  <2>1. k \in Keys /\ k \in DOMAIN g[Route[k]] /\ Gather(g)[k] = g[Route[k]][k]
    BY GatherMembers
  <2>2. k \in DOMAIN f[Route[k]] /\ g[Route[k]][k] = f[Route[k]][k]
    <3>1. CASE Route[k] \in Participants(op)
      BY <1>3, <1>5, <2>1, <3>1
    <3>2. CASE Route[k] \notin Participants(op)
      BY <1>2, <2>1, <3>2
    <3>3. QED
      BY <3>1, <3>2
  <2>3. QED
    BY <2>1, <2>2, GatherMembers
<1>6. QED
  BY <1>4, <1>5 DEF V

-----------------------------------------------------------------------------
(***************************************************************************)
(* The steps of KeySpace, in terms of the engine's state.                  *)
(***************************************************************************)
CallsStay(r) == \A x \in Requests : x # r => AbstractCall(x)' = AbstractCall(x)

Decides(r, reply) ==
    /\ AbstractCall(r).state = "open"
    /\ AbstractCall(r)' = [state |-> "decided", op |-> AbstractCall(r).op, reply |-> reply]
    /\ CallsStay(r)

\* A request is decided.
LEMMA DecideStep ==
    ASSUME NEW r \in Requests, NEW reply, Decides(r, reply)
    PROVE  Table!Decide(r, reply)
<1>1. [x \in Requests |-> AbstractCall(x)]'
        = [[x \in Requests |-> AbstractCall(x)] EXCEPT
              ![r] = [state |-> "decided", op |-> @.op, reply |-> reply]]
  BY DEF Decides, CallsStay
<1>2. QED
  BY <1>1 DEF Table!Decide, Table!Call, Decides

\* A command takes effect.
LEMMA CommitStep ==
    ASSUME NEW r \in Requests, NEW op, op = AbstractCall(r).op, NEW view, view = View(Database, clock),
           clock' = clock,
           Refusal(op, clock, view) = None,
           Decides(r, NewReply(op, clock, view)),
           View(Database', clock) = NewView(op, clock, view),
           \A k \in DOMAIN Database' : Database'[k] # None,
           \A k \in DOMAIN Database' : Due(Database'[k], clock) =>
              k \in DOMAIN Database /\ Database'[k] = Database[k]
    PROVE  Table!Commit(r)
<1> DEFINE aop == [x \in Requests |-> AbstractCall(x)][r].op
           aview == Table!View(Database, clock)
           new == Table!NewView(aop, clock, aview)
           live == {k \in Keys : new[k] # None}
           kept == DOMAIN Database' \ live
<1>1. /\ aop = op /\ aview = view /\ new = NewView(op, clock, view)
      /\ Table!Refusal(aop, clock, aview) = Refusal(op, clock, view)
      /\ Table!NewReply(aop, clock, aview) = NewReply(op, clock, view)
  <2>1. aop = op
    OBVIOUS
  <2>2. aview = view
    BY SameMeaning
  <2> HIDE DEF aop, aview
  <2>3. QED
    BY <2>1, <2>2, SameMeaning
<1>2. DOMAIN Database' \subseteq Keys /\ Database' = [k \in DOMAIN Database' |-> Database'[k]]
  BY DEF Database
<1>3. \A k \in Keys : new[k] = IF k \in DOMAIN Database' /\ ~Due(Database'[k], clock)
                               THEN Database'[k] ELSE None
  <2>1. new = View(Database', clock)
    BY <1>1
  <2> HIDE DEF new
  <2>2. QED
    BY <2>1 DEF View
<1> HIDE DEF new
<1>4. \A k \in live : k \in DOMAIN Database' /\ Database'[k] = new[k]
  BY <1>3
<1>5. \A k \in kept : Due(Database'[k], clock)
  <2> TAKE k \in kept
  <2>1. k \in Keys /\ k \in DOMAIN Database' /\ new[k] = None
    BY <1>2
  <2>2. Database'[k] # None
    BY <2>1
  <2>3. QED
    BY <1>3, <2>1, <2>2
<1>6. kept \in SUBSET Table!DueKeys(Database)
  BY <1>5 DEF Table!DueKeys, Table!Due, Due
<1>7. Database' = [k \in live \cup kept |-> IF k \in live THEN new[k] ELSE Database[k]]
  BY <1>2, <1>4, <1>5
<1>8. Table!Decide(r, Table!NewReply(aop, clock, aview)) /\ Table!Refusal(aop, clock, aview) = None
  <2> HIDE DEF aop, aview
  <2>1. QED
    BY <1>1, DecideStep
<1>9. \E K \in SUBSET Table!DueKeys(Database) :
        Database' = [k \in live \cup K |-> IF k \in live THEN new[k] ELSE Database[k]]
  <2> HIDE DEF live, kept
  <2> WITNESS kept \in SUBSET Table!DueKeys(Database)
  <2>1. QED
    BY <1>7
<1>10. QED
  BY <1>8, <1>9 DEF Table!Commit, new

\* A command is refused by what the table holds.
LEMMA RefuseStep ==
    ASSUME NEW r \in Requests, NEW op, op = AbstractCall(r).op, NEW refusal,
           refusal = Refusal(op, clock, View(Database, clock)), refusal # None,
           clock' = clock, Database' = Database, Decides(r, Error(refusal))
    PROVE  Table!Refuse(r)
<1>1. [x \in Requests |-> AbstractCall(x)][r] = AbstractCall(r)
  OBVIOUS
<1>2. Table!Refusal(op, clock, Table!View(Database, clock)) = refusal
  BY SameMeaning
<1>3. Table!Decide(r, Table!Error(refusal))
  BY DecideStep DEF Table!Error, Error
<1>4. QED
  BY <1>1, <1>2, <1>3 DEF Table!Refuse

\* A command is refused for want of a resource.
LEMMA FailStep ==
    ASSUME NEW r \in Requests, NEW code \in Table!ResourceErrors,
           clock' = clock, Database' = Database, Decides(r, Error(code))
    PROVE  Table!Fail(r)
<1>1. Table!Decide(r, Table!Error(code))
  BY DecideStep DEF Table!Error, Error
<1>2. QED
  BY <1>1 DEF Table!Fail

\* A caller goes away in time.
LEMMA AbandonStep ==
    ASSUME NEW r \in Requests, clock' = clock, Database' = Database, CallsStay(r),
           AbstractCall(r).state = "open", AbstractCall(r)' = [AbstractCall(r) EXCEPT !.state = "abandoned"]
    PROVE  Table!Abandon(r)
<1>1. [x \in Requests |-> AbstractCall(x)]'
        = [[x \in Requests |-> AbstractCall(x)] EXCEPT ![r].state = "abandoned"]
  BY DEF CallsStay
<1>2. QED
  BY <1>1 DEF Table!Abandon

\* A call begins.
LEMMA InvokeStep ==
    ASSUME NEW r \in Requests, NEW op, clock' = clock, Database' = Database, CallsStay(r),
           AbstractCall(r).state = "idle",
           AbstractCall(r)' = [state |-> "open", op |-> op, reply |-> None]
    PROVE  Table!Invoke(r, op)
<1>1. [x \in Requests |-> AbstractCall(x)]'
        = [[x \in Requests |-> AbstractCall(x)] EXCEPT
              ![r] = [state |-> "open", op |-> op, reply |-> None]]
  BY DEF CallsStay
<1>2. QED
  BY <1>1 DEF Table!Invoke, Table!Call

\* A sweep: some due entries go.
LEMMA ExpireStep ==
    ASSUME clock' = clock, \A r \in Requests : AbstractCall(r)' = AbstractCall(r),
           DOMAIN Database' \subseteq DOMAIN Database,
           \A k \in DOMAIN Database' : Database'[k] = Database[k],
           \A k \in DOMAIN Database \ DOMAIN Database' : Due(Database[k], clock)
    PROVE  Table!Expire
<1> DEFINE due == Table!DueKeys(Database)
           kept == due \cap DOMAIN Database'
<1>1. due = {k \in DOMAIN Database : Due(Database[k], clock)}
  BY DEF Table!DueKeys, Table!Due, Due
<1>2. Database' = [k \in DOMAIN Database' |-> Database'[k]]
  BY DEF Database
<1> HIDE DEF due
<1>3. DOMAIN Database' = (DOMAIN Database \ due) \cup kept
  BY <1>1
<1>4. Database' = [k \in (DOMAIN Database \ due) \cup kept |-> Database[k]]
  BY <1>2, <1>3
<1>5. kept \in SUBSET due
  OBVIOUS
<1>6. [x \in Requests |-> AbstractCall(x)]' = [x \in Requests |-> AbstractCall(x)]
  OBVIOUS
<1>7. \E K \in SUBSET due : Database' = [k \in (DOMAIN Database \ due) \cup K |-> Database[k]]
  <2> HIDE DEF kept
  <2> WITNESS kept \in SUBSET due
  <2>1. QED
    BY <1>4
<1>8. QED
  BY <1>6, <1>7 DEF Table!Expire, due

\* A step that callers cannot see.
LEMMA StutterStep ==
    ASSUME clock' = clock, Database' = Database,
           \A r \in Requests : AbstractCall(r)' = AbstractCall(r)
    PROVE  UNCHANGED Table!vars
  BY DEF Table!vars

-----------------------------------------------------------------------------
(***************************************************************************)
(* The parts of a cross-owner command.                                     *)
(***************************************************************************)
RankIn(P, x) == Cardinality({y \in P : y <= x})

\* Ranks number the members of a finite set of integers in ascending order.
LEMMA Ranks ==
    ASSUME NEW P \in SUBSET Int, IsFiniteSet(P)
    PROVE  /\ Cardinality(P) \in Nat
           /\ \A n \in 1 .. Cardinality(P) : Nth(P, n) \in P /\ RankIn(P, Nth(P, n)) = n
           /\ \A x \in P : RankIn(P, x) \in 1 .. Cardinality(P) /\ Nth(P, RankIn(P, x)) = x
           /\ \A x, y \in P : x < y => RankIn(P, x) < RankIn(P, y)
<1>0. Cardinality(P) \in Nat
  BY FS_CardinalityType
<1>1. \A n \in 1 .. Cardinality(P) : Nth(P, n) \in P /\ RankIn(P, Nth(P, n)) = n
  <2> TAKE n \in 1 .. Cardinality(P)
  <2>1. \E x \in P : Cardinality({y \in P : y <= x}) = n
    BY RankOnto
  <2>2. QED
    BY <2>1 DEF Nth, RankIn
<1>2. ASSUME NEW x \in P PROVE RankIn(P, x) \in 1 .. Cardinality(P)
  <2> DEFINE B == {y \in P : y <= x}
  <2>1. B \in SUBSET P /\ x \in B
    OBVIOUS
  <2>2. IsFiniteSet(B) /\ Cardinality(B) <= Cardinality(P) /\ Cardinality(B) \in Nat
    BY <2>1, FS_Subset, FS_CardinalityType
  <2>3. Cardinality(B) # 0
    BY <2>1, <2>2, FS_EmptySet
  <2>4. QED
    BY <1>0, <2>2, <2>3 DEF RankIn
<1>3. ASSUME NEW x \in P, NEW y \in P, x < y PROVE RankIn(P, x) < RankIn(P, y)
  <2> DEFINE B == {z \in P : z <= x}
             C == {z \in P : z <= y}
  <2>1. x \in Int /\ y \in Int /\ \A z \in P : z \in Int
    OBVIOUS
  <2>2. B \in SUBSET C /\ y \in C /\ y \notin B /\ C \in SUBSET P
    <3>1. ASSUME NEW z \in P, z <= x PROVE z <= y
      BY <1>3, <2>1, <3>1
    <3>2. ~(y <= x) /\ y <= y
      BY <1>3, <2>1
    <3>3. QED
      BY <3>1, <3>2
  <2>3. RankIn(P, x) = Cardinality(B) /\ RankIn(P, y) = Cardinality(C)
    BY DEF RankIn
  <2> HIDE DEF B, C
  <2>4. IsFiniteSet(C)
    BY <2>2, FS_Subset
  <2>5. Cardinality(B) <= Cardinality(C) /\ Cardinality(B) # Cardinality(C)
    BY <2>2, <2>4, FS_Subset
  <2>6. Cardinality(B) \in Int /\ Cardinality(C) \in Int
    BY <1>2, <2>3
  <2>7. QED
    BY <2>3, <2>5, <2>6
<1>4. \A x, y \in P : RankIn(P, x) = RankIn(P, y) => x = y
  <2> TAKE x, y \in P
  <2>1. x \in Int /\ y \in Int
    OBVIOUS
  <2>2. RankIn(P, x) \in Int /\ RankIn(P, y) \in Int
    BY <1>2
  <2>3. QED
    BY <1>3, <2>1, <2>2
<1>5. QED
  BY <1>0, <1>1, <1>2, <1>3, <1>4

\* The positions of an owner's keys.
LEMMA PositionsType ==
    ASSUME NEW op \in Operations, NEW o
    PROVE  /\ Positions(op, o) \in SUBSET Int /\ IsFiniteSet(Positions(op, o))
           /\ \A i \in Positions(op, o) :
                 i \in DOMAIN operation_keys(op) /\ Route[operation_keys(op)[i]] = o
           /\ DOMAIN operation_keys(op) = 1 .. Len(operation_keys(op))
<1>1. operation_keys(op) \in Seq(Keys)
  BY OperationKeysType
<1>2. DOMAIN operation_keys(op) = 1 .. Len(operation_keys(op)) /\ Len(operation_keys(op)) \in Nat
  BY <1>1
<1>3. IsFiniteSet(1 .. Len(operation_keys(op)))
  BY <1>2, FS_Interval
<1>4. Positions(op, o) \in SUBSET (1 .. Len(operation_keys(op)))
  BY <1>2 DEF Positions
<1>5. QED
  BY <1>2, <1>3, <1>4, FS_Subset DEF Positions

\* Selecting the arguments at positions P.
LEMMA SelectedIs ==
    ASSUME NEW S, NEW s \in Seq(S), NEW P \in SUBSET Int, IsFiniteSet(P),
           \A i \in P : i \in DOMAIN s
    PROVE  /\ Selected(s, P) \in Seq(S)
           /\ DOMAIN Selected(s, P) = 1 .. Cardinality(P)
           /\ \A n \in 1 .. Cardinality(P) : Selected(s, P)[n] = s[Nth(P, n)]
           /\ \A i \in P : RankIn(P, i) \in DOMAIN Selected(s, P) /\ Selected(s, P)[RankIn(P, i)] = s[i]
<1>1. /\ Cardinality(P) \in Nat
      /\ \A n \in 1 .. Cardinality(P) : Nth(P, n) \in P
      /\ \A x \in P : RankIn(P, x) \in 1 .. Cardinality(P) /\ Nth(P, RankIn(P, x)) = x
  BY Ranks
<1>2. \A i \in P : s[i] \in S
  OBVIOUS
<1>3. \A n \in 1 .. Cardinality(P) : s[Nth(P, n)] \in S
  BY <1>1, <1>2
<1>4. Selected(s, P) \in [1 .. Cardinality(P) -> S]
  BY <1>3 DEF Selected
<1>5. Selected(s, P) \in Seq(S)
  BY <1>1, <1>4
<1>6. QED
  BY <1>1, <1>5 DEF Selected

\* The part of an owner has the owner's keys.
LEMMA PartKeys ==
    ASSUME NEW op \in Operations, op.type \in MultiKeyTypes, NEW o
    PROVE  /\ PartOperation(op, o) \in Operations /\ PartOperation(op, o).type = op.type
           /\ operation_keys(PartOperation(op, o)) = Selected(operation_keys(op), Positions(op, o))
           /\ KeySet(PartOperation(op, o)) = {k \in KeySet(op) : Route[k] = o}
<1> DEFINE P == Positions(op, o)
           p == PartOperation(op, o)
           keys == operation_keys(op)
<1>1. P \in SUBSET Int /\ IsFiniteSet(P) /\ \A i \in P : i \in DOMAIN keys /\ Route[keys[i]] = o
  BY PositionsType
<1>2. keys \in Seq(Keys)
  BY OperationKeysType
<1>3. p \in Operations /\ p.type = op.type /\ operation_keys(p) = Selected(keys, P)
  <2>1. CASE op.type = "multi_set"
    <3>1. op \in MultiSetOperations
      BY <2>1 DEF Operations, KeyOperations, SetOperations, IncrementOperations, ExpireOperations,
                  TtlOperations, KeysOperations, MultiSetOperations
    <3>2. op.pairs \in Seq(Keys \X Values) /\ DOMAIN op = {"type", "pairs"}
      BY <3>1 DEF MultiSetOperations
    <3>3. keys = [i \in DOMAIN op.pairs |-> op.pairs[i][1]]
      BY <2>1 DEF operation_keys
    <3>4. p = [op EXCEPT !.pairs = Selected(@, P)]
      BY <2>1 DEF PartOperation
    <3> HIDE DEF P
    <3>5. \A i \in P : i \in DOMAIN op.pairs
      BY <1>1, <3>3
    <3>6. /\ Selected(op.pairs, P) \in Seq(Keys \X Values)
          /\ DOMAIN Selected(op.pairs, P) = 1 .. Cardinality(P)
          /\ \A n \in 1 .. Cardinality(P) : Selected(op.pairs, P)[n] = op.pairs[Nth(P, n)]
      BY <1>1, <3>2, <3>5, SelectedIs
    <3>7. p.type = "multi_set" /\ p.pairs = Selected(op.pairs, P) /\ DOMAIN p = {"type", "pairs"}
      BY <2>1, <3>2, <3>4
    <3>8. p \in MultiSetOperations
      <4>1. p = [type |-> p.type, pairs |-> p.pairs]
        BY <2>1, <3>1, <3>4 DEF MultiSetOperations
      <4>2. QED
        BY <3>6, <3>7, <4>1 DEF MultiSetOperations
    <3>9. operation_keys(p) = [n \in 1 .. Cardinality(P) |-> op.pairs[Nth(P, n)][1]]
      BY <3>6, <3>7 DEF operation_keys
    <3>10. \A n \in 1 .. Cardinality(P) : keys[Nth(P, n)] = op.pairs[Nth(P, n)][1]
      BY <1>1, <3>3, <3>5, Ranks
    <3>11. operation_keys(p) = Selected(keys, P)
      BY <3>9, <3>10 DEF Selected
    <3>12. QED
      BY <2>1, <3>7, <3>8, <3>11 DEF Operations
  <2>2. CASE op.type # "multi_set"
    <3>1. op \in KeysOperations
      BY <2>2 DEF Operations, KeyOperations, SetOperations, IncrementOperations, ExpireOperations,
                  TtlOperations, KeysOperations, MultiSetOperations, MultiKeyTypes
    <3>2. op.keys \in Seq(Keys) /\ keys = op.keys /\ op.type \in {"delete", "exists", "multi_get"}
      BY <3>1 DEF KeysOperations, operation_keys
    <3>3. p = [op EXCEPT !.keys = Selected(@, P)]
      BY <2>2 DEF PartOperation
    <3> HIDE DEF P
    <3>4. Selected(op.keys, P) \in Seq(Keys)
      BY <1>1, <3>2, SelectedIs
    <3>5. p.type = op.type /\ p.keys = Selected(op.keys, P) /\ p = [type |-> p.type, keys |-> p.keys]
      BY <3>1, <3>3 DEF KeysOperations
    <3>6. p \in KeysOperations
      BY <3>2, <3>4, <3>5 DEF KeysOperations
    <3>7. operation_keys(p) = Selected(keys, P)
      BY <3>2, <3>5 DEF operation_keys
    <3>8. QED
      BY <3>5, <3>6, <3>7 DEF Operations
  <2>3. QED
    BY <2>1, <2>2
<1> HIDE DEF P, p, keys
<1>4. KeySet(p) = {Selected(keys, P)[n] : n \in DOMAIN Selected(keys, P)}
  BY <1>3 DEF KeySet
<1>5. KeySet(op) = {keys[i] : i \in DOMAIN keys}
  BY DEF KeySet, keys
<1>6. \A k \in KeySet(p) : k \in KeySet(op) /\ Route[k] = o
  <2> TAKE k \in KeySet(p)
  <2>0. /\ DOMAIN Selected(keys, P) = 1 .. Cardinality(P)
        /\ \A n \in 1 .. Cardinality(P) : Selected(keys, P)[n] = keys[Nth(P, n)]
    BY <1>1, <1>2, SelectedIs
  <2>1. PICK n \in 1 .. Cardinality(P) : k = keys[Nth(P, n)]
    BY <1>4, <2>0
  <2>2. Nth(P, n) \in P
    BY <1>1, Ranks
  <2>3. QED
    BY <1>1, <1>5, <2>1, <2>2
<1>7. \A k \in KeySet(op) : Route[k] = o => k \in KeySet(p)
  <2> TAKE k \in KeySet(op)
  <2> HAVE Route[k] = o
  <2>1. PICK i \in DOMAIN keys : k = keys[i]
    BY <1>5
  <2>2. i \in P
    BY <2>1 DEF P, keys, Positions
  <2>3. RankIn(P, i) \in DOMAIN Selected(keys, P) /\ Selected(keys, P)[RankIn(P, i)] = keys[i]
    BY <1>1, <1>2, <2>2, SelectedIs
  <2>4. QED
    BY <1>4, <2>1, <2>3
<1>8. QED
  BY <1>3, <1>6, <1>7 DEF P, p, keys

\* The greatest of a nonempty set of positions.
LEMMA Greatest ==
    ASSUME NEW n \in Nat, NEW S \in SUBSET (1 .. n), S # {}
    PROVE  Max(S) \in S /\ \A i \in S : i <= Max(S)
<1> DEFINE T == {n - i : i \in S}
<1>1. T \in SUBSET Nat /\ T # {}
  <2>1. \A i \in S : n - i \in Nat
    OBVIOUS
  <2>2. QED
    BY <2>1
<1>2. PICK t \in T : \A u \in T : t <= u
  BY <1>1, LeastNatural
<1>3. PICK m \in S : t = n - m
  OBVIOUS
<1>4. \A i \in S : i <= m
  <2> TAKE i \in S
  <2>1. n - m <= n - i
    BY <1>2, <1>3
  <2>2. QED
    BY <2>1
<1>5. \A i \in S : m >= i
  BY <1>4
<1>6. Max(S) \in S /\ \A i \in S : Max(S) >= i
  <2>1. \E x \in S : \A y \in S : x >= y
    BY <1>5
  <2>2. QED
    BY <2>1, Zenon DEF Max
<1>7. QED
  BY <1>6

\* The greatest is the one above all.
LEMMA GreatestIs ==
    ASSUME NEW n \in Nat, NEW S \in SUBSET (1 .. n), NEW m \in S, \A i \in S : i <= m
    PROVE  Max(S) = m
<1>1. Max(S) \in S /\ m <= Max(S) /\ Max(S) <= m
  BY Greatest
<1>2. \A i, j \in S : i <= j /\ j <= i => i = j
  OBVIOUS
<1>3. QED
  BY <1>1, <1>2, Zenon

\* The last pair that names a key of owner o is the last one in the part of o.
LEMMA PartLastValue ==
    ASSUME NEW op \in MultiSetOperations, NEW o, NEW k \in KeySet(op), Route[k] = o
    PROVE  LastValue(Selected(op.pairs, Positions(op, o)), k) = LastValue(op.pairs, k)
<1> DEFINE P == Positions(op, o)
           pairs == op.pairs
           part == Selected(pairs, P)
           I == {i \in DOMAIN pairs : pairs[i][1] = k}
           J == {j \in DOMAIN part : part[j][1] = k}
<1>1. op.type = "multi_set" /\ pairs \in Seq(Keys \X Values) /\ op \in Operations
  BY DEF MultiSetOperations, Operations
<1>2. operation_keys(op) = [i \in DOMAIN pairs |-> pairs[i][1]]
  BY <1>1 DEF operation_keys
<1>3. P = {i \in DOMAIN pairs : Route[pairs[i][1]] = o}
  BY <1>2 DEF Positions
<1>4. I \in SUBSET P
  BY <1>3
<1>5. I # {}
  BY <1>2 DEF KeySet
<1>6. DOMAIN pairs = 1 .. Len(pairs) /\ Len(pairs) \in Nat
  BY <1>1
<1>7. P \in SUBSET Int /\ IsFiniteSet(P) /\ \A i \in P : i \in DOMAIN pairs
  BY <1>1, <1>3, PositionsType
<1>8. I \in SUBSET (1 .. Len(pairs))
  BY <1>6
<1> HIDE DEF P, pairs
<1>9. /\ DOMAIN part = 1 .. Cardinality(P) /\ Cardinality(P) \in Nat
      /\ \A n \in 1 .. Cardinality(P) : part[n] = pairs[Nth(P, n)]
      /\ \A i \in P : RankIn(P, i) \in DOMAIN part /\ part[RankIn(P, i)] = pairs[i]
  BY <1>1, <1>7, SelectedIs, Ranks
<1> DEFINE m == Max(I)
<1>10. m \in I /\ \A i \in I : i <= m
  BY <1>5, <1>6, <1>8, Greatest
<1> HIDE DEF m, part
<1>11. m \in P /\ RankIn(P, m) \in J
  BY <1>4, <1>9, <1>10
<1>12. \A j \in J : j <= RankIn(P, m)
  <2> TAKE j \in J
  <2>1. j \in 1 .. Cardinality(P) /\ Nth(P, j) \in P /\ RankIn(P, Nth(P, j)) = j
    BY <1>7, <1>9, Ranks
  <2>2. Nth(P, j) \in I
    BY <1>7, <1>9, <2>1
  <2>3. Nth(P, j) <= m /\ Nth(P, j) \in Int /\ m \in Int
    BY <1>7, <1>10, <1>11, <2>1, <2>2
  <2>4. Nth(P, j) = m \/ Nth(P, j) < m
    BY <2>3
  <2>5. RankIn(P, m) \in Int
    BY <1>7, <1>11, Ranks
  <2>6. Nth(P, j) < m => RankIn(P, Nth(P, j)) < RankIn(P, m)
    BY <1>7, <1>11, <2>1, Ranks
  <2>7. QED
    BY <2>1, <2>4, <2>5, <2>6
<1>13. J \in SUBSET (1 .. Cardinality(P))
  BY <1>9
<1> HIDE DEF I, J
<1>14. Max(J) = RankIn(P, m)
  BY <1>9, <1>11, <1>12, <1>13, GreatestIs
<1>15. part[Max(J)] = pairs[Max(I)]
  BY <1>9, <1>11, <1>14 DEF m
<1>16. QED
  BY <1>15 DEF LastValue, part, P, pairs, I, J

\* A key ends up the same whether its owner's part or the whole command is carried out.
LEMMA PartEntry ==
    ASSUME NEW op \in Operations, op.type \in MultiKeyTypes, NEW o, NEW now, NEW view,
           NEW k \in KeySet(PartOperation(op, o))
    PROVE  NewEntry(PartOperation(op, o), now, view, k) = NewEntry(op, now, view, k)
<1>1. PartOperation(op, o).type = op.type /\ k \in KeySet(op) /\ Route[k] = o
  BY PartKeys
<1>2. CASE op.type = "multi_set"
  <2>1. op \in MultiSetOperations
    BY <1>2 DEF Operations, KeyOperations, SetOperations, IncrementOperations, ExpireOperations,
                TtlOperations, KeysOperations, MultiSetOperations
  <2>2. PartOperation(op, o).pairs = Selected(op.pairs, Positions(op, o))
    BY <1>2, <2>1 DEF PartOperation, MultiSetOperations
  <2>3. LastValue(PartOperation(op, o).pairs, k) = LastValue(op.pairs, k)
    BY <1>1, <2>1, <2>2, PartLastValue
  <2>4. QED
    BY <1>1, <1>2, <2>3 DEF NewEntry
<1>3. CASE op.type # "multi_set"
  BY <1>1, <1>3 DEF NewEntry, MultiKeyTypes
<1>4. QED
  BY <1>2, <1>3

\* The size of a union of disjoint finite sets is the sum of their sizes.
LEMMA SumOfSizes ==
    ASSUME NEW I, IsFiniteSet(I), NEW A, \A i \in I : IsFiniteSet(A[i]),
           \A i, j \in I : i # j => A[i] \cap A[j] = {}
    PROVE  LET f == [i \in I |-> Cardinality(A[i])]
           IN  SumFunctionOnSet(f, I) = Cardinality(UNION {A[i] : i \in I})
<1> DEFINE f == [i \in I |-> Cardinality(A[i])]
           All(J) == UNION {A[i] : i \in J}
           Good(J) == IsFiniteSet(All(J)) /\ SumFunctionOnSet(f, J) = Cardinality(All(J))
           Bad == {J \in SUBSET I : ~Good(J)}
<1>1. SUFFICES ASSUME Bad # {} PROVE FALSE
  OBVIOUS
<1>2. PICK T \in Bad : IsFiniteSet(T) /\ \A U \in SUBSET T : U # T => U \notin Bad
  <2>1. Bad \in SUBSET (SUBSET I)
    OBVIOUS
  <2> HIDE DEF Bad
  <2>2. QED
    BY <1>1, <2>1, SmallestSubset
<1>3. T \in SUBSET I /\ ~Good(T)
  OBVIOUS
<1>4. T # {}
  <2>1. All({}) = {}
    OBVIOUS
  <2>2. Good({})
    BY <2>1, SumEmpty, FS_EmptySet
  <2>3. QED
    BY <1>3, <2>2
<1>5. PICK e \in T : TRUE
  BY <1>4
<1> DEFINE U == T \ {e}
<1>6. U \in SUBSET T /\ U # T /\ U \in SUBSET I
  BY <1>3, <1>5
<1>7. Good(U)
  BY <1>2, <1>6
<1>8. All(T) = All(U) \cup A[e] /\ All(U) \cap A[e] = {}
  BY <1>3, <1>5
<1>9. \A i \in T : f[i] \in Int /\ f[i] = Cardinality(A[i])
  BY <1>3, FS_CardinalityType
<1> HIDE DEF f, All
<1>10. SumFunctionOnSet(f, T) = f[e] + SumFunctionOnSet(f, U)
  BY <1>2, <1>5, <1>9, SumRemove
<1>11. IsFiniteSet(A[e])
  BY <1>3, <1>5
<1>12. IsFiniteSet(All(T)) /\ Cardinality(All(T)) = Cardinality(All(U)) + Cardinality(A[e])
  <2>1. IsFiniteSet(All(U) \cup A[e])
    BY <1>7, <1>11, FS_Union
  <2>2. Cardinality(All(U) \cup A[e])
          = Cardinality(All(U)) + Cardinality(A[e]) - Cardinality(All(U) \cap A[e])
    BY <1>7, <1>11, FS_Union
  <2>3. Cardinality(All(U) \cap A[e]) = 0
    BY <1>8, FS_EmptySet
  <2>4. Cardinality(All(U)) \in Nat /\ Cardinality(A[e]) \in Nat
    BY <1>7, <1>11, FS_CardinalityType
  <2>5. QED
    BY <1>8, <2>1, <2>2, <2>3, <2>4
<1>13. Cardinality(All(U)) \in Nat /\ Cardinality(A[e]) \in Nat
  BY <1>7, <1>11, FS_CardinalityType
<1>14. Good(T)
  BY <1>5, <1>7, <1>9, <1>10, <1>12, <1>13
<1>15. QED
  BY <1>3, <1>14

\* The participants of a command, as its parts number them.
LEMMA PartNumbers ==
    ASSUME NEW op \in Operations
    PROVE  /\ Parts(op) \in Nat /\ IsFiniteSet(1 .. Parts(op))
           /\ \A i \in 1 .. Parts(op) : Part(op, i) \in Participants(op)
           /\ \A i, j \in 1 .. Parts(op) : Part(op, i) = Part(op, j) => i = j
           /\ \A k \in KeySet(op) :
                 PartNumber(op, k) \in 1 .. Parts(op) /\ Part(op, PartNumber(op, k)) = Route[k]
<1> DEFINE P == Participants(op)
<1>1. P \in SUBSET Int /\ IsFiniteSet(P)
  BY ParticipantsFinite DEF Owners
<1>2. \A k \in KeySet(op) : Route[k] \in P /\ PartNumber(op, k) = RankIn(P, Route[k])
  BY DEF Participants, PartNumber, RankIn
<1>3. Parts(op) = Cardinality(P) /\ \A i : Part(op, i) = Nth(P, i)
  BY DEF Parts, Part
<1> HIDE DEF P
<1>4. /\ Cardinality(P) \in Nat
      /\ \A n \in 1 .. Cardinality(P) : Nth(P, n) \in P /\ RankIn(P, Nth(P, n)) = n
      /\ \A x \in P : RankIn(P, x) \in 1 .. Cardinality(P) /\ Nth(P, RankIn(P, x)) = x
  BY <1>1, Ranks
<1>5. IsFiniteSet(1 .. Parts(op))
  BY <1>3, <1>4, FS_Interval
<1>6. \A i, j \in 1 .. Parts(op) : Part(op, i) = Part(op, j) => i = j
  BY <1>3, <1>4
<1>7. QED
  BY <1>2, <1>3, <1>4, <1>5, <1>6 DEF P

\* The replies of the parts, each at the same instant and on the same table.
PartReplies(op, now, view, results) ==
    /\ DOMAIN results = 1 .. Parts(op)
    /\ \A i \in 1 .. Parts(op) :
          results[i] = NewReply(PartOperation(op, Part(op, i)), now, view)

Total(results) == SumFunction([i \in DOMAIN results |-> results[i].integer])

\* Each part counts the members of All that belong to its owner.
CountsOf(op, results, All, where) ==
    /\ \A x \in All : where[x] \in Participants(op)
    /\ \A i \in 1 .. Parts(op) :
          results[i] = Integer(Cardinality({x \in All : where[x] = Part(op, i)}))

\* The counts of the parts add up to the count of the whole.
LEMMA CountsAddUp ==
    ASSUME NEW op \in Operations, NEW results, DOMAIN results = 1 .. Parts(op),
           NEW All, IsFiniteSet(All), NEW where, CountsOf(op, results, All, where)
    PROVE  Total(results) = Cardinality(All)
<1> DEFINE I == 1 .. Parts(op)
           A == [i \in I |-> {x \in All : where[x] = Part(op, i)}]
           f == [i \in I |-> Cardinality(A[i])]
           g == [i \in DOMAIN results |-> results[i].integer]
<1>1. /\ IsFiniteSet(I)
      /\ \A i, j \in I : Part(op, i) = Part(op, j) => i = j
  BY PartNumbers
<1>2. g = f
  <2>1. \A i \in I : results[i].integer = Cardinality(A[i])
    BY DEF Integer, CountsOf
  <2>2. QED
    BY <2>1
<1>3. \A i \in I : IsFiniteSet(A[i])
  <2>1. \A i \in I : A[i] \in SUBSET All
    OBVIOUS
  <2>2. QED
    BY <2>1, FS_Subset
<1>4. \A i, j \in I : i # j => A[i] \cap A[j] = {}
  BY <1>1
<1>5. UNION {A[i] : i \in I} = All
  <2>1. \A x \in All : \E i \in I : where[x] = Part(op, i)
    <3> TAKE x \in All
    <3>1. PICK k \in KeySet(op) : where[x] = Route[k]
      BY DEF Participants, CountsOf
    <3>2. QED
      BY <3>1, PartNumbers
  <2>2. QED
    BY <2>1
<1>6. DOMAIN g = I
  OBVIOUS
<1> HIDE DEF I, A
<1>7. SumFunctionOnSet(f, I) = Cardinality(UNION {A[i] : i \in I})
  BY <1>1, <1>3, <1>4, SumOfSizes
<1>8. SumFunction(g) = SumFunctionOnSet(g, I)
  <2> HIDE DEF g
  <2>1. QED
    BY <1>6 DEF SumFunction, SumFunctionOnSet, FoldFunction
<1>9. QED
  BY <1>2, <1>5, <1>7, <1>8 DEF Total

\* combine makes of the parts' replies the reply of the whole command.
LEMMA PartsCombine ==
    ASSUME NEW op \in Operations, op.type \in MultiKeyTypes, NEW now, NEW view, NEW results,
           PartReplies(op, now, view, results)
    PROVE  combine(op, results) = NewReply(op, now, view)
<1> DEFINE part(i) == PartOperation(op, Part(op, i))
<1>1. DOMAIN results = 1 .. Parts(op)
  BY DEF PartReplies
<1>2. \A i \in 1 .. Parts(op) : results[i] = NewReply(part(i), now, view)
  BY DEF PartReplies
<1>3. \A o : /\ PartOperation(op, o) \in Operations /\ PartOperation(op, o).type = op.type
             /\ operation_keys(PartOperation(op, o)) = Selected(operation_keys(op), Positions(op, o))
             /\ KeySet(PartOperation(op, o)) = {k \in KeySet(op) : Route[k] = o}
  BY PartKeys
<1> HIDE DEF part
<1>4. CASE op.type = "multi_set"
  BY <1>4 DEF combine, NewReply
<1>5. CASE op.type = "delete"
  <2> DEFINE All == {k \in KeySet(op) : Present(view, k)}
             where == [k \in All |-> Route[k]]
  <2>1. IsFiniteSet(All)
    <3>1. All \in SUBSET KeySet(op)
      OBVIOUS
    <3>2. QED
      BY <3>1, KeySetFinite, FS_Subset
  <2>2. \A k \in All : where[k] \in Participants(op)
    BY DEF Participants
  <2>3. ASSUME NEW i \in 1 .. Parts(op)
        PROVE  results[i] = Integer(Cardinality({k \in All : where[k] = Part(op, i)}))
    <3>1. part(i).type = "delete" /\ KeySet(part(i)) = {k \in KeySet(op) : Route[k] = Part(op, i)}
      BY <1>3, <1>5 DEF part
    <3>2. {k \in KeySet(part(i)) : Present(view, k)} = {k \in All : where[k] = Part(op, i)}
      BY <3>1
    <3>3. results[i] = Integer(Cardinality({k \in KeySet(part(i)) : Present(view, k)}))
      BY <1>2, <3>1 DEF NewReply
    <3>4. QED
      BY <3>2, <3>3
  <2> HIDE DEF All, where
  <2>a. CountsOf(op, results, All, where)
    BY <2>2, <2>3 DEF CountsOf
  <2>4. Total(results) = Cardinality(All)
    BY <1>1, <2>1, <2>a, CountsAddUp
  <2>5. combine(op, results) = Integer(Cardinality(All))
    BY <1>5, <2>4 DEF combine, Total
  <2>6. NewReply(op, now, view) = Integer(Cardinality(All))
    BY <1>5 DEF NewReply, All
  <2>7. QED
    BY <2>5, <2>6
<1>6. CASE op.type \in {"exists", "multi_get"}
  <2>0. op.keys \in Seq(Keys) /\ operation_keys(op) = op.keys
    <3>1. op \in KeysOperations
      BY <1>6 DEF Operations, KeyOperations, SetOperations, IncrementOperations, ExpireOperations,
                  TtlOperations, KeysOperations, MultiSetOperations
    <3>2. QED
      BY <3>1, <1>6 DEF KeysOperations, operation_keys
  <2>1. \A o : /\ Positions(op, o) \in SUBSET Int /\ IsFiniteSet(Positions(op, o))
               /\ Positions(op, o) = {i \in DOMAIN op.keys : Route[op.keys[i]] = o}
    BY <2>0, PositionsType DEF Positions
  <2>2. \A o : PartOperation(op, o).keys = Selected(op.keys, Positions(op, o))
    BY <1>3, <1>6, <2>0 DEF operation_keys
  <2>3. \A i \in DOMAIN op.keys : op.keys[i] \in KeySet(op) /\ Route[op.keys[i]] \in Participants(op)
    BY <2>0 DEF KeySet, Participants
  <2>4. CASE op.type = "exists"
    <3> DEFINE All == {i \in DOMAIN op.keys : Present(view, op.keys[i])}
               where == [i \in All |-> Route[op.keys[i]]]
    <3>1. IsFiniteSet(All)
      <4>1. DOMAIN op.keys = 1 .. Len(op.keys) /\ Len(op.keys) \in Nat
        BY <2>0
      <4>2. All \in SUBSET (1 .. Len(op.keys))
        BY <4>1
      <4>3. IsFiniteSet(1 .. Len(op.keys))
        BY <4>1, FS_Interval
      <4> HIDE DEF All
      <4>4. QED
        BY <4>2, <4>3, FS_Subset
    <3>2. \A i \in All : where[i] \in Participants(op)
      BY <2>3
    <3>3. ASSUME NEW i \in 1 .. Parts(op)
          PROVE  results[i] = Integer(Cardinality({x \in All : where[x] = Part(op, i)}))
      <4> DEFINE P == Positions(op, Part(op, i))
                 keys == Selected(op.keys, P)
                 Here == {x \in All : where[x] = Part(op, i)}
                 There == {n \in DOMAIN keys : Present(view, keys[n])}
      <4>1. part(i).type = "exists" /\ part(i).keys = keys
        BY <1>3, <2>2, <2>4 DEF part
      <4>2. results[i] = Integer(Cardinality(There))
        BY <1>2, <4>1 DEF NewReply
      <4>3. Here = {x \in P : Present(view, op.keys[x])}
        BY <2>1
      <4>4. /\ P \in SUBSET Int /\ IsFiniteSet(P) /\ \A x \in P : x \in DOMAIN op.keys
        BY <2>1
      <4> HIDE DEF P
      <4>5. /\ DOMAIN keys = 1 .. Cardinality(P)
            /\ \A n \in 1 .. Cardinality(P) : keys[n] = op.keys[Nth(P, n)]
            /\ \A x \in P : RankIn(P, x) \in DOMAIN keys /\ keys[RankIn(P, x)] = op.keys[x]
        <5>1. PICK s : s = op.keys
          OBVIOUS
        <5>2. s \in Seq(Keys) /\ \A x \in P : x \in DOMAIN s
          BY <2>0, <4>4, <5>1
        <5>3. /\ DOMAIN Selected(s, P) = 1 .. Cardinality(P)
              /\ \A n \in 1 .. Cardinality(P) : Selected(s, P)[n] = s[Nth(P, n)]
              /\ \A x \in P : RankIn(P, x) \in DOMAIN Selected(s, P) /\ Selected(s, P)[RankIn(P, x)] = s[x]
          BY <4>4, <5>2, SelectedIs
        <5>4. QED
          BY <5>1, <5>3
      <4>6. /\ \A n \in 1 .. Cardinality(P) : Nth(P, n) \in P /\ RankIn(P, Nth(P, n)) = n
            /\ \A x \in P : Nth(P, RankIn(P, x)) = x
        BY <4>4, Ranks
      <4> HIDE DEF keys
      <4> DEFINE b == [x \in Here |-> RankIn(P, x)]
      <4>7. b \in Bijection(Here, There)
        <5>1. \A x \in Here : RankIn(P, x) \in There
          BY <4>3, <4>5
        <5>2. \A x, y \in Here : RankIn(P, x) = RankIn(P, y) => x = y
          BY <4>3, <4>6
        <5>3. \A n \in There : Nth(P, n) \in Here /\ RankIn(P, Nth(P, n)) = n
          BY <4>3, <4>5, <4>6
        <5> HIDE DEF Here, There
        <5>4. b \in [Here -> There]
          BY <5>1
        <5>5. \A x, y \in Here : b[x] = b[y] => x = y
          BY <5>2
        <5>6. \A n \in There : \E x \in Here : b[x] = n
          BY <5>3
        <5> HIDE DEF b
        <5>7. b \in Injection(Here, There)
          BY <5>4, <5>5, Zenon DEF Injection, IsInjective
        <5>8. b \in Surjection(Here, There)
          BY <5>4, <5>6, Zenon DEF Surjection
        <5>9. QED
          BY <5>7, <5>8 DEF Bijection
      <4>8. IsFiniteSet(Here)
        <5>1. Here \in SUBSET All
          OBVIOUS
        <5>2. QED
          BY <3>1, <5>1, FS_Subset
      <4> HIDE DEF Here, There, b
      <4>9. Cardinality(Here) = Cardinality(There)
        <5>1. ExistsBijection(Here, There)
          BY <4>7 DEF ExistsBijection
        <5>2. QED
          BY <4>8, <5>1, FS_Bijection
      <4>10. QED
        BY <4>2, <4>9 DEF Here
    <3> HIDE DEF All, where
    <3>a. CountsOf(op, results, All, where)
      BY <3>2, <3>3 DEF CountsOf
    <3>4. Total(results) = Cardinality(All)
      BY <1>1, <3>1, <3>a, CountsAddUp
    <3>5. combine(op, results) = Integer(Cardinality(All))
      BY <2>4, <3>4 DEF combine, Total
    <3>6. NewReply(op, now, view) = Integer(Cardinality(All))
      BY <2>4 DEF NewReply, All
    <3>7. QED
      BY <3>5, <3>6
  <2>5. CASE op.type = "multi_get"
    <3>1. ASSUME NEW i \in DOMAIN op.keys
          PROVE  results[PartNumber(op, op.keys[i])].array[Rank(op, i)] = ValueIn(view, op.keys[i])
      <4> DEFINE k == op.keys[i]
                 n == PartNumber(op, k)
                 P == Positions(op, Route[k])
      <4>1. n \in 1 .. Parts(op) /\ Part(op, n) = Route[k]
        BY <2>3, PartNumbers
      <4>2. part(n).type = "multi_get" /\ part(n).keys = Selected(op.keys, P)
        BY <1>3, <2>2, <2>5, <4>1 DEF part
      <4>3. /\ P \in SUBSET Int /\ IsFiniteSet(P) /\ i \in P /\ \A x \in P : x \in DOMAIN op.keys
        BY <2>1
      <4>4. Rank(op, i) = RankIn(P, i)
        BY DEF Rank, RankIn
      <4> HIDE DEF P, n
      <4>5. RankIn(P, i) \in DOMAIN Selected(op.keys, P) /\ Selected(op.keys, P)[RankIn(P, i)] = k
        BY <2>0, <4>3, SelectedIs
      <4>6. results[n].array = [j \in DOMAIN part(n).keys |-> ValueIn(view, part(n).keys[j])]
        <5>1. results[n] = NewReply(part(n), now, view)
          BY <1>2, <4>1
        <5>2. NewReply(part(n), now, view)
                = Array([j \in DOMAIN part(n).keys |-> ValueIn(view, part(n).keys[j])])
          BY <4>2 DEF NewReply
        <5>3. QED
          BY <5>1, <5>2 DEF Array
      <4>7. QED
        BY <4>2, <4>4, <4>5, <4>6 DEF n
    <3>2. [i \in DOMAIN op.keys |-> results[PartNumber(op, op.keys[i])].array[Rank(op, i)]]
            = [i \in DOMAIN op.keys |-> ValueIn(view, op.keys[i])]
      BY <3>1
    <3>3. QED
      BY <2>5, <3>2 DEF combine, NewReply
  <2>6. QED
    BY <1>6, <2>4, <2>5
<1>7. QED
  BY <1>4, <1>5, <1>6 DEF MultiKeyTypes

-----------------------------------------------------------------------------
(***************************************************************************)
(* The inductive invariant of the refinement, beside IInv.                 *)
(***************************************************************************)
ShardOK(sh) == DOMAIN sh = ShardFields /\ TableOK(sh.entries) /\ TimersAgree(sh)

Shards == \A o \in Owners : ShardOK(shard[o])

\* What the parts would prepare on the shards as they are, at the sampled instant.
Outlook == Foreseen(co.now)

HeldOf(j) == owner[co.parts[j].owner].reservation.prepared

\* Before the clock is sampled there is no plan.
Unplanned ==
    co.phase \in {"idle", "reserve", "finished"} => co.plan = NoPlan /\ co.results = <<>>

\* While the parts prepare, the plan is what they still would arrive at: the reserved
\* shards have not changed since the clock was sampled.
Preparing ==
    co.phase = "prepare" =>
        /\ co.now \in Times
        /\ co.plan = Foresee(CoOp, Outlook)
        /\ IsSeq(co.results) /\ Len(co.results) = co.part - 1
        /\ \A j \in 1 .. co.part - 1 : Outlook[j].ok /\ co.results[j] = Outlook[j].reply
        /\ co.ack.arrived =>
              co.ack.ok = Outlook[co.part].ok /\ co.ack.reply = Outlook[co.part].reply
        /\ \A j \in 1 .. Len(co.parts) : PartPrepared(j) => HeldOf(j) = Outlook[j]

\* A transaction that applies has a plan, and applies it.
Applying ==
    co.phase = "apply" =>
        /\ co.plan.made /\ co.reply = co.plan.reply
        /\ \A j \in 1 .. Len(co.parts) :
              /\ EffectsOK(co.plan.effects[j])
              /\ PartPrepared(j) => HeldOf(j).effects = co.plan.effects[j]

\* It answers what was planned.
Releasing == co.phase = "release" /\ co.plan.made => co.reply = co.plan.reply

LInv ==
    /\ clock \in Times /\ Shards /\ co.plan.made \in BOOLEAN
    /\ Unplanned /\ Preparing /\ Applying /\ Releasing

\* What prepare makes of the outcome of the command.
LEMMA PrepareOutcome ==
    ASSUME NEW sh, NEW op, NEW now, NEW limits
    PROVE  LET p == prepare(sh, op, now, limits)
               c == Command(sh.entries, op, now)
           IN  /\ p.ok \in BOOLEAN
               /\ p.ok => c.ok /\ p.effects = c.effects /\ p.reply = c.reply
               /\ ~p.ok => \/ c.ok /\ p.reply \in {Error("reply_limit"), Error("oom")}
                           \/ ~c.ok /\ p.reply = c.reply
  BY DEF prepare, preflight, Failed, Prepared

\* The commands that may have several keys are carried out whatever the table holds.
LEMMA MultiNeverRefused ==
    ASSUME NEW entries, NEW op, op.type \in MultiKeyTypes, NEW now, NEW view
    PROVE  Command(entries, op, now).ok /\ Refusal(op, now, view) = None
<1>1. Command(entries, op, now).ok
  BY DEF MultiKeyTypes, Command, PrepareDelete, PrepareExists, PrepareMultiGet, PrepareMultiSet, Outcome
<1>2. Refusal(op, now, view) = None
  BY DEF MultiKeyTypes, Refusal
<1>3. QED
  BY <1>1, <1>2

\* The reasons for which a command is refused.
LEMMA RefusalCodes ==
    ASSUME NEW entries, NEW op \in Operations, NEW now, ~Command(entries, op, now).ok
    PROVE  \E code \in {"invalid_expire", "not_integer", "overflow"} :
              Command(entries, op, now).reply = Error(code)
<1>1. op.type \in {"get", "persist", "set", "increment", "expire", "ttl"} \cup MultiKeyTypes
  BY DEF Operations, KeyOperations, SetOperations, IncrementOperations, ExpireOperations,
         TtlOperations, KeysOperations, MultiSetOperations, MultiKeyTypes
<1>2. op.type \notin MultiKeyTypes
  BY MultiNeverRefused
<1>3. op.type \in {"set", "increment", "expire"}
  BY <1>1, <1>2 DEF Command, PrepareGet, PreparePersist, PrepareTtl, Outcome
<1>4. CASE op.type = "set"
  BY <1>4 DEF Command, PrepareSet, Outcome, Refused
<1>5. CASE op.type = "increment"
  BY <1>5 DEF Command, PrepareIncrement, Outcome, Refused
<1>6. CASE op.type = "expire"
  BY <1>6 DEF Command, PrepareExpire, Outcome, Refused
<1>7. QED
  BY <1>3, <1>4, <1>5, <1>6

\* Which pool serves a command tells its participants.
LEMMA PoolParticipants ==
    ASSUME NEW op \in Operations, operation_keys(op) # <<>>
    PROVE  /\ \A o \in Owners : Pool(op) = o => Participants(op) = {o}
           /\ Pool(op) = Cross => op.type \in MultiKeyTypes
<1> DEFINE P == Participants(op)
<1>1. P \in SUBSET Owners /\ IsFiniteSet(P)
  BY ParticipantsFinite
<1>2. Cross \notin Owners
  BY EngineAssumption DEF Cross, Owners
<1> HIDE DEF P
<1>3. ASSUME Cardinality(P) = 1 PROVE \E o \in Owners : P = {o} /\ Pool(op) = o
  <2>1. PICK o : P = {o}
    BY <1>1, <1>3, FS_Singleton
  <2>2. o \in Owners
    BY <1>1, <2>1
  <2>3. (CHOOSE x \in P : TRUE) = o
    BY <2>1
  <2>4. QED
    BY <1>3, <2>1, <2>2, <2>3 DEF Pool, P
<1>4. ASSUME Cardinality(P) # 1 PROVE Pool(op) = Cross
  BY <1>4 DEF Pool, P
<1>5. ASSUME op.type \notin MultiKeyTypes PROVE Cardinality(P) = 1
  <2>1. op \notin KeysOperations \cup MultiSetOperations
    BY <1>5 DEF KeysOperations, MultiSetOperations, MultiKeyTypes
  <2>2. KeySet(op) = {op.key}
    BY <2>1, SingleKey
  <2>3. P = {Route[op.key]}
    BY <2>2 DEF P, Participants
  <2>4. QED
    BY <2>3, FS_Singleton
<1>6. QED
  BY <1>2, <1>3, <1>4, <1>5 DEF P

\* The transaction in progress is that of a command whose every part is one of its
\* owner's keys.
LEMMA TransactionParts ==
    ASSUME Calls, Queues, Transaction, Coordinating
    PROVE  /\ CoOp \in Operations /\ CoOp.type \in MultiKeyTypes
           /\ co.request \in Requests /\ Accepted(co.request)
           /\ Len(co.parts) = Parts(CoOp) /\ Len(co.parts) \in Nat
           /\ DOMAIN co.parts = 1 .. Len(co.parts) /\ co.part \in 1 .. Len(co.parts)
           /\ \A j \in 1 .. Len(co.parts) :
                 /\ co.parts[j].owner = Part(CoOp, j)
                 /\ co.parts[j].owner \in Owners /\ co.parts[j].owner \in Participants(CoOp)
                 /\ co.parts[j].operation = PartOperation(CoOp, Part(CoOp, j))
                 /\ co.parts[j].operation \in Operations
                 /\ co.parts[j].operation.type \in MultiKeyTypes
           /\ \A i, j \in 1 .. Len(co.parts) : co.parts[i].owner = co.parts[j].owner => i = j
<1>1. co.request \in Requests /\ Accepted(co.request) /\ PoolOf(co.request) = Cross
  BY DEF Transaction, Queues
<1>2. CoOp \in Operations /\ operation_keys(CoOp) # <<>>
  BY <1>1, HolderFacts DEF Accepted, Holding, CoOp
<1>3. CoOp.type \in MultiKeyTypes
  BY <1>1, <1>2, PoolParticipants DEF PoolOf, CoOp
<1>4. /\ Len(co.parts) \in Nat /\ co.part \in 1 .. Len(co.parts)
      /\ \A j \in 1 .. Len(co.parts) :
            co.parts[j].owner \in Owners /\ co.parts[j].owner \in Participants(CoOp)
      /\ \A i, j \in 1 .. Len(co.parts) : co.parts[i].owner = co.parts[j].owner => i = j
  BY CoParts
<1>5. co.parts = split(CoOp)
  BY DEF Transaction
<1>6. Len(co.parts) = Parts(CoOp)
  BY <1>2, <1>5, SplitParts
<1>7. DOMAIN co.parts = 1 .. Len(co.parts)
  BY <1>5, <1>6 DEF split
<1>8. \A j \in 1 .. Len(co.parts) :
         /\ co.parts[j].owner = Part(CoOp, j)
         /\ co.parts[j].operation = PartOperation(CoOp, Part(CoOp, j))
  <2> TAKE j \in 1 .. Len(co.parts)
  <2>1. j \in 1 .. Parts(CoOp)
    BY <1>6
  <2>2. split(CoOp)[j] = [owner |-> Part(CoOp, j), operation |-> PartOperation(CoOp, Part(CoOp, j))]
    BY <2>1 DEF split
  <2>3. QED
    BY <1>5, <2>2
<1>9. \A j \in 1 .. Len(co.parts) : /\ co.parts[j].operation \in Operations
                                    /\ co.parts[j].operation.type \in MultiKeyTypes
  <2> TAKE j \in 1 .. Len(co.parts)
  <2>1. /\ PartOperation(CoOp, Part(CoOp, j)) \in Operations
        /\ PartOperation(CoOp, Part(CoOp, j)).type = CoOp.type
    BY <1>2, <1>3, PartKeys
  <2>2. QED
    BY <1>3, <1>8, <2>1
<1>10. QED
  BY <1>1, <1>2, <1>3, <1>4, <1>6, <1>7, <1>8, <1>9

\* Each forecast, in its place.
LEMMA OutlookIs ==
    ASSUME NEW now, NEW j \in DOMAIN co.parts
    PROVE  /\ DOMAIN Foreseen(now) = DOMAIN co.parts
           /\ Foreseen(now)[j] = prepare(shard[co.parts[j].owner], co.parts[j].operation, now,
                                         shard_limits(co.parts[j].owner))
  BY DEF Foreseen

\* A forecast becomes a plan exactly when nothing refuses.
LEMMA ForeseeIs ==
    ASSUME NEW op, NEW foreseen
    PROVE  LET plan == Foresee(op, foreseen)
               reply == combine(op, [i \in DOMAIN foreseen |-> foreseen[i].reply])
               fine == (\A i \in DOMAIN foreseen : foreseen[i].ok) /\ ~(encoded_len(reply) > MaxReplyBytes)
           IN  /\ plan.made \in BOOLEAN
               /\ plan.made <=> fine
               /\ fine => /\ plan.reply = reply
                          /\ \A i \in DOMAIN foreseen : plan.effects[i] = foreseen[i].effects
<1> DEFINE reply == combine(op, [i \in DOMAIN foreseen |-> foreseen[i].reply])
           effects == [i \in DOMAIN foreseen |-> foreseen[i].effects]
           fine == (\A i \in DOMAIN foreseen : foreseen[i].ok) /\ ~(encoded_len(reply) > MaxReplyBytes)
<1>1. Foresee(op, foreseen) = IF fine THEN [made |-> TRUE, effects |-> effects, reply |-> reply]
                              ELSE NoPlan
  BY DEF Foresee
<1> HIDE DEF reply
<1>2. CASE fine
  <2> DEFINE plan == [made |-> TRUE, effects |-> effects, reply |-> reply]
  <2>1. Foresee(op, foreseen) = plan
    BY <1>1, <1>2
  <2>2. plan.made = TRUE /\ plan.reply = reply /\ plan.effects = effects
    OBVIOUS
  <2> HIDE DEF plan
  <2>3. \A i \in DOMAIN foreseen : effects[i] = foreseen[i].effects
    OBVIOUS
  <2>4. QED
    BY <1>2, <2>1, <2>2, <2>3 DEF reply
<1>3. CASE ~fine
  <2>1. Foresee(op, foreseen) = NoPlan
    BY <1>1, <1>3
  <2>2. Foresee(op, foreseen).made = FALSE
    BY <2>1 DEF NoPlan
  <2>3. QED
    BY <1>3, <2>2 DEF reply
<1>4. QED
  BY <1>2, <1>3

-----------------------------------------------------------------------------
(***************************************************************************)
(* The invariant is preserved.                                             *)
(***************************************************************************)
\* Applying and expiring keep a shard sound.
LEMMA ShardSteps ==
    ASSUME NEW sh, ShardOK(sh)
    PROVE  /\ \A p : EffectsOK(p.effects) => /\ ShardOK(apply(sh, p))
                                             /\ apply(sh, p).entries = Install(sh.entries, p.effects)
           /\ \A now, S : S \in SUBSET DueTimers(sh.timers, now) => ShardOK(expire(sh, S))
<1>1. ASSUME NEW p, EffectsOK(p.effects)
      PROVE  ShardOK(apply(sh, p)) /\ apply(sh, p).entries = Install(sh.entries, p.effects)
  BY <1>1, ApplyResult DEF ShardOK
<1>2. ASSUME NEW now, NEW S \in SUBSET DueTimers(sh.timers, now) PROVE ShardOK(expire(sh, S))
  <2>1. CASE S = {}
    BY <2>1 DEF expire
  <2>2. CASE S # {}
    BY <1>2, <2>2, ExpireResult DEF ShardOK
  <2>3. QED
    BY <2>1, <2>2
<1>3. QED
  BY <1>1, <1>2

\* The request an owner executes, and what its operation is.
LEMMA LocalRequest ==
    ASSUME IInv, NEW o \in Owners, queue[o] # <<>>
    PROVE  LET r == Head(queue[o])
           IN  /\ r \in Requests /\ Accepted(r) /\ r # co.request
               /\ call[r].op \in Operations /\ Participants(call[r].op) = {o}
<1> DEFINE r == Head(queue[o])
<1>1. r \in Requests /\ Accepted(r) /\ PoolOf(r) = o /\ r # co.request
  BY HeadRequest DEF IInv
<1> HIDE DEF r
<1>2. call[r].op \in Operations /\ operation_keys(call[r].op) # <<>>
  BY <1>1, HolderFacts DEF IInv, Accepted, Holding
<1>3. Participants(call[r].op) = {o}
  BY <1>1, <1>2, PoolParticipants DEF PoolOf
<1>4. QED
  BY <1>1, <1>2, <1>3 DEF r

\* The kinds of steps, as far as the transaction is concerned.
LEMMA StepKinds ==
    ASSUME IInv, [Next]_vars
    PROVE  \/ co' = co /\ Protected
           \/ \E o \in Owners : OwnerReserve(o) \/ OwnerPrepare(o) \/ OwnerApply(o) \/ OwnerRelease(o)
           \/ CoTake \/ CoFinish \/ CoSend \/ CoReserved \/ CoPrepared \/ CoApplied \/ CoReleased
<1> USE DEF callers, channels, owners
<1>0. owner' = owner /\ shard' = shard => Protected
  BY DEF Protected, Locks, IInv
<1>1. ASSUME NEW r \in Requests, CallStep(r) \/ DropFuture(r) \/ \E op \in Ops : Call(r, op)
      PROVE  co' = co /\ owner' = owner /\ shard' = shard
  BY <1>1 DEF CallStep, Begin, AcquireCredit, Enqueue, RejectClosed, AdmissionTimeout, DropFuture, Call
<1>2. ASSUME NEW o \in Owners, OwnerStep(o)
      PROVE  \/ co' = co /\ Protected
             \/ OwnerReserve(o) \/ OwnerPrepare(o) \/ OwnerApply(o) \/ OwnerRelease(o)
  BY <1>2, OwnerProtects DEF OwnerStep, IInv
<1>3. ASSUME \/ CoStop \/ StatsCall \/ StatsStep \/ ShutdownBegin \/ ShutdownStep \/ DropEngine
             \/ ClockStep \/ UNCHANGED vars
      PROVE  co' = co /\ owner' = owner /\ shard' = shard
  BY <1>3 DEF CoStop, StatsCall, StatsStep, StatsSend, StatsBreak, StatsReceive, ShutdownBegin,
              ShutdownStep, ShutdownStopCross, ShutdownJoinCross, ShutdownStopOwner, ShutdownJoin,
              ShutdownAt, DropEngine, ClockStep, vars
<1>4. QED
  BY <1>0, <1>1, <1>2, <1>3 DEF Next, CoStep

\* During a transaction the owner that answers is the one waited for, and its part is
\* one of the transaction's.
LEMMA PartInFlight ==
    ASSUME IInv, NEW o \in Owners, NEW type \in Transactional, Controlled(o, type)
    PROVE  /\ co.phase = type /\ Coordinating /\ co.part \in 1 .. Len(co.parts)
           /\ o = co.parts[co.part].owner /\ Head(control[o]) = CoMessage
           /\ ~co.ack.arrived
           /\ \A j \in 1 .. Len(co.parts) : j # co.part => co.parts[j].owner # o
<1>1. InFlight /\ o = CoOwner /\ Head(control[o]) = CoMessage /\ co.phase = type
  BY HeadMessage DEF IInv
<1>2. Coordinating /\ ~co.ack.arrived
  BY <1>1 DEF InFlight
<1>3. /\ co.part \in 1 .. Len(co.parts)
      /\ \A i, j \in 1 .. Len(co.parts) : co.parts[i].owner = co.parts[j].owner => i = j
  BY <1>2, TransactionParts DEF IInv
<1>4. QED
  BY <1>1, <1>2, <1>3 DEF CoOwner

\* What an owner has prepared, when it is told to apply, is what was planned.
LEMMA AppliesThePlan ==
    ASSUME IInv, LInv, NEW o \in Owners, Controlled(o, "apply")
    PROVE  /\ co.plan.made /\ Reserved(o) /\ owner[o].reservation.prepared.ok
           /\ owner[o].reservation.prepared.effects = co.plan.effects[co.part]
           /\ EffectsOK(co.plan.effects[co.part])
<1>1. /\ co.phase = "apply" /\ Coordinating /\ co.part \in 1 .. Len(co.parts)
      /\ o = co.parts[co.part].owner /\ ~co.ack.arrived
  BY PartInFlight DEF Transactional
<1>2. PartHeld(co.part) /\ PartPrepared(co.part)
  BY <1>1 DEF PartHeld, PartPrepared
<1>3. PartLock(co.part)
  BY <1>1 DEF IInv, Locks
<1>4. Reserved(o) /\ owner[o].reservation.prepared.ok
  BY <1>1, <1>2, <1>3 DEF PartLock
<1>5. /\ co.plan.made /\ EffectsOK(co.plan.effects[co.part])
      /\ HeldOf(co.part).effects = co.plan.effects[co.part]
  BY <1>1, <1>2 DEF LInv, Applying
<1>6. QED
  BY <1>1, <1>4, <1>5 DEF HeldOf

\* No step damages a shard.
LEMMA ShardsNext ==
    ASSUME IInv, LInv, [Next]_vars
    PROVE  Shards'
<1> USE DEF callers, channels, owners
<1>0. DOMAIN shard = Owners /\ (\A o \in Owners : ShardOK(shard[o])) /\ clock \in I64
  BY EngineAssumption DEF IInv, Locks, LInv, Shards
<1>1. shard' = shard => Shards'
  BY <1>0 DEF Shards
<1>2. ASSUME NEW o \in Owners, NEW sh, ShardOK(sh), shard' = [shard EXCEPT ![o] = sh] PROVE Shards'
  BY <1>0, <1>2 DEF Shards
<1>3. ASSUME NEW o \in Owners, queue[o] # <<>>, ExecuteLocal(o) PROVE Shards'
  <2> DEFINE op == call[Head(queue[o])].op
             p == prepare(shard[o], op, clock, shard_limits(o))
  <2>1. op \in Operations
    BY <1>3, LocalRequest
  <2>2. shard' = [shard EXCEPT ![o] = IF p.ok THEN apply(shard[o], p) ELSE shard[o]]
    BY <1>3 DEF ExecuteLocal
  <2> HIDE DEF op
  <2>3. p.ok => EffectsOK(p.effects)
    BY <1>0, <2>1, PrepareResult DEF ShardOK
  <2> HIDE DEF p
  <2>4. ShardOK(IF p.ok THEN apply(shard[o], p) ELSE shard[o])
    BY <1>0, <2>3, ShardSteps
  <2>5. QED
    BY <1>2, <2>2, <2>4
<1>4. ASSUME NEW o \in Owners, OwnerTick(o) PROVE Shards'
  <2>1. PICK S \in ExpirySets(shard[o].timers, clock, ExpiryBatch) :
           shard' = [shard EXCEPT ![o] = expire(shard[o], S)]
    BY <1>4 DEF OwnerTick
  <2>2. S \in SUBSET DueTimers(shard[o].timers, clock)
    BY DEF ExpirySets
  <2>3. ShardOK(expire(shard[o], S))
    BY <1>0, <2>2, ShardSteps
  <2>4. QED
    BY <1>2, <2>1, <2>3
<1>5. ASSUME NEW o \in Owners, OwnerApply(o) PROVE Shards'
  <2> DEFINE p == owner[o].reservation.prepared
  <2>1. Controlled(o, "apply") /\ shard' = [shard EXCEPT ![o] = apply(shard[o], p)]
    BY <1>5 DEF OwnerApply
  <2>2. EffectsOK(p.effects)
    BY <2>1, AppliesThePlan
  <2> HIDE DEF p
  <2>3. ShardOK(apply(shard[o], p))
    BY <1>0, <2>2, ShardSteps
  <2>4. QED
    BY <1>2, <2>1, <2>3
<1>6. ASSUME NEW o \in Owners, OwnerStep(o) PROVE Shards'
  <2>1. CASE OwnerDataTurn(o)
    BY <1>1, <1>3, <2>1 DEF OwnerDataTurn
  <2>2. CASE OwnerData(o)
    BY <1>3, <2>2 DEF OwnerData
  <2>3. CASE \/ OwnerReserve(o) \/ OwnerPrepare(o) \/ OwnerRelease(o)
             \/ OwnerStats(o) \/ OwnerStop(o) \/ OwnerControlClosed(o) \/ OwnerExit(o)
    <3>1. shard' = shard
      BY <2>3 DEF OwnerReserve, OwnerPrepare, OwnerRelease, OwnerStats, OwnerStop,
                  OwnerControlClosed, OwnerExit
    <3>2. QED
      BY <1>1, <3>1
  <2>4. QED
    BY <1>4, <1>5, <1>6, <2>1, <2>2, <2>3 DEF OwnerStep
<1>7. ASSUME NEW r \in Requests, CallStep(r) \/ DropFuture(r) \/ \E op \in Ops : Call(r, op)
      PROVE  shard' = shard
  BY <1>7 DEF CallStep, Begin, AcquireCredit, Enqueue, RejectClosed, AdmissionTimeout, DropFuture, Call
<1>8. CASE CoStep
  <2>1. shard' = shard
    BY <1>8 DEF CoStep, CoTake, CoStop, CoFinish, CoSend, CoReserved, CoPrepared, CoApplied,
                CoReleased, CoAcked
  <2>2. QED
    BY <1>1, <2>1
<1>9. ASSUME \/ StatsCall \/ StatsStep \/ ShutdownBegin \/ ShutdownStep \/ DropEngine
             \/ ClockStep \/ UNCHANGED vars
      PROVE  shard' = shard
  BY <1>9 DEF StatsCall, StatsStep, StatsSend, StatsBreak, StatsReceive, ShutdownBegin,
              ShutdownStep, ShutdownStopCross, ShutdownJoinCross, ShutdownStopOwner, ShutdownJoin,
              ShutdownAt, DropEngine, ClockStep, vars
<1>10. QED
  BY <1>1, <1>6, <1>7, <1>8, <1>9 DEF Next

\* The plan's part of the invariant.
Plans == Unplanned /\ Preparing /\ Applying /\ Releasing

\* The coordinator's record keeps these fields.
Keeping(fields) == DOMAIN co' = CoFields /\ \A field \in fields : co'[field] = co[field]

\* The command of the transaction in progress does not change.
LEMMA SameOperation ==
    ASSUME IInv, [Next]_vars, Coordinating, co'.request = co.request
    PROVE  CoOp' = CoOp
<1>1. co.request \in Requests /\ Accepted(co.request)
  BY TransactionParts DEF IInv
<1>2. call'[co.request].op = call[co.request].op
  BY <1>1, CallsNext DEF IInv, Accepted
<1>3. QED
  BY <1>2 DEF CoOp

\* Shards that stay keep their forecast.
LEMMA SameOutlook ==
    ASSUME co'.parts = co.parts, co'.now = co.now,
           \A j \in DOMAIN co.parts : shard'[co.parts[j].owner] = shard[co.parts[j].owner]
    PROVE  Outlook' = Outlook
  BY DEF Outlook, Foreseen

\* While the parts prepare, all of them are reserved.
LEMMA AllReserved ==
    ASSUME IInv, co.phase \in {"prepare", "apply"}
    PROVE  /\ Coordinating /\ DOMAIN co.parts = 1 .. Len(co.parts)
           /\ \A j \in 1 .. Len(co.parts) :
                 co.parts[j].owner \in Owners /\ Reserved(co.parts[j].owner)
<1>1. Coordinating
  BY DEF Coordinating
<1>2. DOMAIN co.parts = 1 .. Len(co.parts) /\ \A j \in 1 .. Len(co.parts) : co.parts[j].owner \in Owners
  BY <1>1, TransactionParts DEF IInv
<1>3. \A j \in 1 .. Len(co.parts) : PartLock(j) /\ PartHeld(j)
  BY <1>1 DEF IInv, Locks, PartHeld
<1>4. QED
  BY <1>1, <1>2, <1>3 DEF PartLock

\* A step that leaves the transaction where it is.
LEMMA PlansKept ==
    ASSUME IInv, LInv, [Next]_vars, Protected,
           Keeping({"phase", "request", "parts", "part", "ack", "now", "results", "reply", "plan"})
    PROVE  Plans'
<1>1. /\ co'.phase = co.phase /\ co'.request = co.request /\ co'.parts = co.parts
      /\ co'.part = co.part /\ co'.ack = co.ack /\ co'.now = co.now /\ co'.results = co.results
      /\ co'.reply = co.reply /\ co'.plan = co.plan
  BY DEF Keeping
<1>2. Unplanned' /\ Releasing'
  BY <1>1 DEF LInv, Unplanned, Releasing
<1>3. \A j : PartPrepared(j)' <=> PartPrepared(j)
  BY <1>1 DEF PartPrepared
<1>4. ASSUME co.phase \in {"prepare", "apply"}
      PROVE  /\ Outlook' = Outlook /\ CoOp' = CoOp
             /\ \A j \in 1 .. Len(co.parts) : HeldOf(j)' = HeldOf(j)
  <2>1. /\ Coordinating /\ DOMAIN co.parts = 1 .. Len(co.parts)
        /\ \A j \in 1 .. Len(co.parts) :
              co.parts[j].owner \in Owners /\ Reserved(co.parts[j].owner)
    BY <1>4, AllReserved
  <2>2. CoOp' = CoOp
    BY <1>1, <2>1, SameOperation
  <2>3. \A j \in 1 .. Len(co.parts) :
           /\ shard'[co.parts[j].owner] = shard[co.parts[j].owner]
           /\ owner'[co.parts[j].owner].reservation = owner[co.parts[j].owner].reservation
    BY <2>1 DEF Protected
  <2>4. Outlook' = Outlook
    BY <1>1, <2>1, <2>3, SameOutlook
  <2>5. \A j \in 1 .. Len(co.parts) : HeldOf(j)' = HeldOf(j)
    BY <1>1, <2>3 DEF HeldOf
  <2>6. QED
    BY <2>2, <2>4, <2>5
<1>5. Preparing'
  <2> SUFFICES ASSUME co.phase = "prepare" PROVE Preparing'
    BY <1>1 DEF Preparing
  <2>1. Preparing /\ Outlook' = Outlook /\ CoOp' = CoOp
        /\ \A j \in 1 .. Len(co.parts) : HeldOf(j)' = HeldOf(j)
    BY <1>4 DEF LInv
  <2>2. QED
    BY <1>1, <1>3, <2>1 DEF Preparing
<1>6. Applying'
  <2> SUFFICES ASSUME co.phase = "apply" PROVE Applying'
    BY <1>1 DEF Applying
  <2>1. Applying /\ \A j \in 1 .. Len(co.parts) : HeldOf(j)' = HeldOf(j)
    BY <1>4 DEF LInv
  <2>2. QED
    BY <1>1, <1>3, <2>1 DEF Applying
<1>7. QED
  BY <1>2, <1>5, <1>6 DEF Plans

\* The answer of an owner, in full.
LEMMA AckIs ==
    ASSUME DOMAIN co = CoFields, NEW ok, NEW reply, Acknowledge(ok, reply)
    PROVE  /\ Keeping(CoFields \ {"ack"})
           /\ co'.ack.arrived = TRUE /\ co'.ack.ok = ok /\ co'.ack.reply = reply
  BY DEF Acknowledge, Keeping, CoFields

\* The transactional steps of an owner.
LEMMA PlansOwner ==
    ASSUME IInv, LInv, [Next]_vars, NEW o \in Owners,
           OwnerReserve(o) \/ OwnerPrepare(o) \/ OwnerApply(o) \/ OwnerRelease(o)
    PROVE  Plans'
<1>0. DOMAIN co = CoFields /\ DOMAIN owner = Owners /\ DOMAIN owner[o] = OwnerFields
  BY DEF IInv, Transaction, Lives, OwnerLife
<1>a. ASSUME Keeping(CoFields \ {"ack"})
      PROVE  /\ co'.phase = co.phase /\ co'.request = co.request /\ co'.parts = co.parts
             /\ co'.part = co.part /\ co'.now = co.now /\ co'.results = co.results
             /\ co'.reply = co.reply /\ co'.plan = co.plan
  BY <1>a DEF Keeping, CoFields
<1>1. CASE OwnerReserve(o) \/ OwnerRelease(o)
  <2>1. co.phase \in {"reserve", "release"}
    BY <1>1, PartInFlight DEF OwnerReserve, OwnerRelease, Transactional
  <2>2. Keeping(CoFields \ {"ack"})
    BY <1>0, <1>1, AckIs DEF OwnerReserve, OwnerRelease
  <2>3. QED
    BY <1>a, <2>1, <2>2 DEF Plans, LInv, Unplanned, Preparing, Applying, Releasing
<1>2. CASE OwnerPrepare(o)
  <2> DEFINE m == Head(control[o])
             p == prepare(shard[o], m.op, m.now, shard_limits(o))
             n == co.part
  <2>1. /\ Controlled(o, "prepare") /\ shard' = shard
        /\ owner' = [owner EXCEPT ![o].reservation.prepared =
                        IF p.ok THEN p ELSE owner[o].reservation.prepared]
        /\ Acknowledge(p.ok, p.reply)
    BY <1>2 DEF OwnerPrepare
  <2>2. /\ co.phase = "prepare" /\ Coordinating /\ n \in 1 .. Len(co.parts)
        /\ o = co.parts[n].owner /\ m = CoMessage /\ ~co.ack.arrived
        /\ \A j \in 1 .. Len(co.parts) : j # n => co.parts[j].owner # o
    BY <2>1, PartInFlight DEF Transactional
  <2>3. m.op = co.parts[n].operation /\ m.now = co.now
    BY <2>2 DEF CoMessage
  <2>4. /\ DOMAIN co.parts = 1 .. Len(co.parts) /\ Len(co.parts) \in Nat
    BY <2>2, TransactionParts DEF IInv
  <2>5. Outlook[n] = p
    BY <2>2, <2>3, <2>4, OutlookIs DEF Outlook
  <2> HIDE DEF p, m
  <2>6. /\ Keeping(CoFields \ {"ack"})
        /\ co'.ack.arrived = TRUE /\ co'.ack.ok = p.ok /\ co'.ack.reply = p.reply
    BY <1>0, <2>1, AckIs
  <2>7. /\ co'.phase = co.phase /\ co'.request = co.request /\ co'.parts = co.parts
        /\ co'.part = n /\ co'.now = co.now /\ co'.results = co.results
        /\ co'.reply = co.reply /\ co'.plan = co.plan
    BY <1>a, <2>6
  <2>8. Outlook' = Outlook
    BY <2>1, <2>7, SameOutlook
  <2>9. CoOp' = CoOp
    BY <2>2, <2>7, SameOperation
  <2>10. \A j \in 1 .. Len(co.parts) : j # n => HeldOf(j)' = HeldOf(j)
    BY <2>1, <2>2, <2>7, SMTT(30) DEF HeldOf
  <2>11. p.ok => owner'[o].reservation.prepared = p
    <3>1. DOMAIN owner[o].reservation = {"held", "id", "prepared"}
      BY <2>2, AllReserved DEF IInv, Locks, OwnerLock
    <3>2. QED
      BY <1>0, <2>1, <3>1 DEF OwnerFields
  <2>12. ASSUME NEW j \in 1 .. Len(co.parts), PartPrepared(j)' PROVE HeldOf(j)' = Outlook[j]
    <3>1. j \in Nat /\ n \in Nat
      BY <2>2, <2>4
    <3>2. j < n \/ (j = n /\ p.ok)
      BY <2>2, <2>6, <2>7, <2>12 DEF PartPrepared
    <3>3. CASE j < n
      <4>1. PartPrepared(j)
        BY <2>2, <3>3 DEF PartPrepared
      <4>2. j # n
        BY <3>1, <3>3
      <4>3. QED
        BY <2>2, <2>10, <4>1, <4>2 DEF LInv, Preparing
    <3>4. CASE j = n /\ p.ok
      BY <2>2, <2>5, <2>7, <2>11, <3>4 DEF HeldOf
    <3>5. QED
      BY <3>2, <3>3, <3>4
  <2>13. Preparing'
    <3>1. Preparing
      BY DEF LInv
    <3> HIDE DEF n
    <3>2. QED
      BY <2>2, <2>5, <2>6, <2>7, <2>8, <2>9, <2>12, <3>1 DEF Preparing, n
  <2>14. QED
    BY <2>2, <2>7, <2>13 DEF Plans, Unplanned, Applying, Releasing
<1>3. CASE OwnerApply(o)
  <2> DEFINE n == co.part
  <2>1. /\ Controlled(o, "apply") /\ Acknowledge(TRUE, None)
        /\ owner' = [owner EXCEPT ![o].reservation.prepared = NothingPrepared]
    BY <1>3 DEF OwnerApply
  <2>2. /\ co.phase = "apply" /\ Coordinating /\ n \in 1 .. Len(co.parts)
        /\ o = co.parts[n].owner /\ ~co.ack.arrived
        /\ \A j \in 1 .. Len(co.parts) : j # n => co.parts[j].owner # o
    BY <2>1, PartInFlight DEF Transactional
  <2>3. Keeping(CoFields \ {"ack"}) /\ co'.ack.arrived = TRUE
    BY <1>0, <2>1, AckIs
  <2>4. /\ co'.phase = co.phase /\ co'.parts = co.parts /\ co'.part = n
        /\ co'.reply = co.reply /\ co'.plan = co.plan
    BY <1>a, <2>3
  <2>5. Len(co.parts) \in Nat
    BY <2>2, TransactionParts DEF IInv
  <2>6. \A j \in 1 .. Len(co.parts) : j # n => HeldOf(j)' = HeldOf(j)
    BY <2>1, <2>2, <2>4 DEF HeldOf
  <2>7. ASSUME NEW j \in 1 .. Len(co.parts), PartPrepared(j)' PROVE PartPrepared(j) /\ j # n
    <3>1. j > n
      BY <2>2, <2>3, <2>4, <2>7 DEF PartPrepared
    <3>2. j \in Nat /\ n \in Nat
      BY <2>2, <2>5
    <3>3. QED
      BY <2>2, <3>1, <3>2 DEF PartPrepared
  <2>8. Applying'
    <3>1. Applying
      BY DEF LInv
    <3>2. QED
      BY <2>2, <2>4, <2>6, <2>7, <3>1 DEF Applying
  <2>9. QED
    BY <2>2, <2>4, <2>8 DEF Plans, Unplanned, Preparing, Releasing
<1>4. QED
  BY <1>1, <1>2, <1>3

\* The coordinator takes a request, or finishes.
LEMMA PlansTaken ==
    ASSUME IInv, LInv, CoTake \/ CoFinish \/ (CoReleased /\ LastPart)
    PROVE  Plans' /\ co'.plan = NoPlan
<1>1. DOMAIN co = CoFields
  BY DEF IInv, Transaction
<1>2. CASE CoTake
  <2>1. co'.phase = "reserve" /\ co'.plan = NoPlan /\ co'.results = <<>>
    BY <1>2 DEF CoTake, IdleCoordinator
  <2>2. QED
    BY <2>1 DEF Plans, Unplanned, Preparing, Applying, Releasing
<1>3. CASE CoFinish
  <2>1. co.phase = "idle" /\ co'.phase = "finished" /\ co'.plan = co.plan /\ co'.results = co.results
    BY <1>1, <1>3 DEF CoFinish, CoFields
  <2>2. QED
    BY <2>1 DEF LInv, Plans, Unplanned, Preparing, Applying, Releasing
<1>4. CASE CoReleased /\ LastPart
  <2>1. co'.phase = "idle" /\ co'.plan = NoPlan /\ co'.results = <<>>
    BY <1>4 DEF CoReleased, IdleCoordinator
  <2>2. QED
    BY <2>1 DEF Plans, Unplanned, Preparing, Applying, Releasing
<1>5. QED
  BY <1>2, <1>3, <1>4

\* The fields that Advance and Abort leave alone.
LEMMA CoKeeps ==
    ASSUME DOMAIN co = CoFields
    PROVE  /\ \A phase : co' = Advance(phase) => Keeping({"now", "results", "reply", "plan"})
           /\ \A reply : co' = Abort(reply) => Keeping({"now", "results", "plan"}) /\ co'.reply = reply
           /\ \A phase, results : co' = [Advance(phase) EXCEPT !.results = results] =>
                 Keeping({"now", "reply", "plan"}) /\ co'.results = results
           /\ \A phase, results, reply :
                 co' = [Advance(phase) EXCEPT !.results = results, !.reply = reply] =>
                    Keeping({"now", "plan"}) /\ co'.results = results /\ co'.reply = reply
           /\ \A phase, now, plan : co' = [Advance(phase) EXCEPT !.now = now, !.plan = plan] =>
                 Keeping({"results", "reply"}) /\ co'.now = now /\ co'.plan = plan
  BY DEF Advance, Abort, Keeping, CoFields

\* Once every part is reserved the clock is sampled and the plan is made.
LEMMA PlansReserved ==
    ASSUME IInv, LInv, [Next]_vars, CoReserved
    PROVE  Plans' /\ co'.plan.made \in BOOLEAN
<1>1. DOMAIN co = CoFields /\ co.phase = "reserve" /\ shard' = shard /\ clock' = clock
  BY DEF IInv, Transaction, CoReserved, CoAcked, owners
<1>2. Advanced("prepare")
  BY <1>1, CoMoves
<1>3. co.plan = NoPlan /\ co.results = <<>>
  BY <1>1 DEF LInv, Unplanned
<1>4. CASE ~LastPart
  <2>1. co' = Advance("prepare")
    BY <1>4 DEF CoReserved
  <2>2. Keeping({"now", "results", "reply", "plan"})
    BY <1>1, <2>1, CoKeeps
  <2>3. co'.phase = "reserve" /\ co'.plan = NoPlan /\ co'.results = <<>>
    BY <1>1, <1>2, <1>3, <1>4, <2>2 DEF Advanced, Keeping
  <2>4. co'.plan.made = FALSE
    BY <2>3 DEF NoPlan
  <2>5. QED
    BY <2>3, <2>4 DEF Plans, Unplanned, Preparing, Applying, Releasing
<1>5. CASE LastPart
  <2>1. co' = [Advance("prepare") EXCEPT !.now = clock, !.plan = Foresee(CoOp, Foreseen(clock))]
    BY <1>5 DEF CoReserved
  <2>2. /\ Keeping({"results", "reply"}) /\ co'.now = clock
        /\ co'.plan = Foresee(CoOp, Foreseen(clock))
    BY <1>1, <2>1, CoKeeps
  <2>3. /\ co'.phase = "prepare" /\ co'.part = 1 /\ co'.parts = co.parts /\ co'.ack = NoAnswer
        /\ co'.request = co.request /\ co'.results = <<>>
    BY <1>2, <1>3, <1>5, <2>2 DEF Advanced, Keeping
  <2>4. Outlook' = Foreseen(clock)
    BY <1>1, <2>2, <2>3 DEF Outlook, Foreseen
  <2>5. CoOp' = CoOp
    BY <1>1, <2>3, SameOperation DEF Coordinating
  <2>6. co'.plan = Foresee(CoOp, Outlook)'
    BY <2>2, <2>4, <2>5
  <2>7. ~co'.ack.arrived
    BY <2>3 DEF NoAnswer
  <2>8. \A j \in 1 .. Len(co.parts) : ~PartPrepared(j)'
    <3>1. Len(co.parts) \in Nat
      BY <1>1, TransactionParts DEF IInv, Coordinating
    <3>2. \A j \in 1 .. Len(co.parts) : ~(j < 1)
      BY <3>1
    <3>3. QED
      BY <2>3, <2>7, <3>2 DEF PartPrepared
  <2>9. IsSeq(co'.results) /\ Len(co'.results) = co'.part - 1 /\ 1 .. co'.part - 1 = {}
    BY <2>3, SeqNew
  <2>10. Preparing'
    BY <2>2, <2>3, <2>6, <2>7, <2>8, <2>9 DEF Preparing, LInv
  <2>11. co'.plan.made \in BOOLEAN
    BY <2>2, ForeseeIs
  <2>12. QED
    BY <2>3, <2>10, <2>11 DEF Plans, Unplanned, Applying, Releasing
<1>6. QED
  BY <1>4, <1>5

\* The replies collected so far are the foreseen ones.
LEMMA CollectedReplies ==
    ASSUME IInv, LInv, co.phase = "prepare", co.ack.arrived, co.ack.ok
    PROVE  LET results == Append(co.results, co.ack.reply)
           IN  /\ IsSeq(results) /\ Len(results) = co.part
               /\ \A j \in 1 .. co.part : Outlook[j].ok /\ results[j] = Outlook[j].reply
               /\ LastPart => results = [j \in DOMAIN Outlook |-> Outlook[j].reply]
<1> DEFINE results == Append(co.results, co.ack.reply)
<1>1. /\ IsSeq(co.results) /\ Len(co.results) = co.part - 1
      /\ \A j \in 1 .. co.part - 1 : Outlook[j].ok /\ co.results[j] = Outlook[j].reply
      /\ co.ack.ok = Outlook[co.part].ok /\ co.ack.reply = Outlook[co.part].reply
  BY DEF LInv, Preparing
<1>2. /\ Len(co.parts) \in Nat /\ co.part \in 1 .. Len(co.parts)
      /\ DOMAIN co.parts = 1 .. Len(co.parts)
  BY TransactionParts DEF IInv, Coordinating
<1>3. co.part \in Nat
  BY <1>2
<1>4. /\ IsSeq(results) /\ Len(results) = Len(co.results) + 1
      /\ \A i \in 1 .. Len(co.results) : results[i] = co.results[i]
      /\ results[Len(co.results) + 1] = co.ack.reply
  BY <1>1, SeqAppend
<1> HIDE DEF results
<1>5. Len(results) = co.part /\ results[co.part] = co.ack.reply
  BY <1>1, <1>3, <1>4
<1>6. ASSUME NEW j \in 1 .. co.part PROVE Outlook[j].ok /\ results[j] = Outlook[j].reply
  <2>1. j \in 1 .. co.part - 1 \/ j = co.part
    BY <1>3
  <2>2. CASE j \in 1 .. co.part - 1
    BY <1>1, <1>4, <2>2
  <2>3. CASE j = co.part
    BY <1>1, <1>5, <2>3
  <2>4. QED
    BY <2>1, <2>2, <2>3
<1>7. ASSUME LastPart PROVE results = [j \in DOMAIN Outlook |-> Outlook[j].reply]
  <2>1. DOMAIN Outlook = 1 .. co.part
    BY <1>2, <1>7 DEF LastPart, Outlook, Foreseen
  <2>2. DOMAIN results = 1 .. co.part /\ results = [j \in 1 .. co.part |-> results[j]]
    BY <1>4, <1>5 DEF IsSeq
  <2>3. QED
    BY <1>6, <2>1, <2>2
<1>8. QED
  BY <1>4, <1>5, <1>6, <1>7 DEF results

\* What the forecast of the parts contains is fit to be installed.
LEMMA OutlookEffects ==
    ASSUME IInv, LInv, co.phase = "prepare", NEW j \in 1 .. Len(co.parts), Outlook[j].ok
    PROVE  EffectsOK(Outlook[j].effects)
<1>1. /\ DOMAIN co.parts = 1 .. Len(co.parts)
      /\ co.parts[j].owner \in Owners /\ co.parts[j].operation \in Operations
  BY TransactionParts DEF IInv, Coordinating
<1>2. co.now \in I64
  BY EngineAssumption DEF LInv, Preparing
<1>3. TableOK(shard[co.parts[j].owner].entries)
  BY <1>1 DEF LInv, Shards, ShardOK
<1>4. Outlook[j] = prepare(shard[co.parts[j].owner], co.parts[j].operation, co.now,
                           shard_limits(co.parts[j].owner))
  BY <1>1, OutlookIs DEF Outlook
<1>5. QED
  BY <1>1, <1>2, <1>3, <1>4, PrepareResult

\* A transaction gives up only when there was no plan; and otherwise does as planned.
LEMMA PlansPrepared ==
    ASSUME IInv, LInv, [Next]_vars, CoPrepared
    PROVE  /\ Plans' /\ co'.plan = co.plan
           /\ co'.phase = "release" =>
                 ~co.plan.made /\ co'.reply \in {Error("reply_limit"), Error("oom")}
<1> DEFINE results == Append(co.results, co.ack.reply)
           reply == combine(CoOp, results)
<1>1. /\ DOMAIN co = CoFields /\ co.phase = "prepare" /\ co.ack.arrived
      /\ shard' = shard /\ owner' = owner
  BY DEF IInv, Transaction, CoPrepared, CoAcked, owners
<1>2. /\ co.plan = Foresee(CoOp, Outlook)
      /\ co.ack.ok = Outlook[co.part].ok /\ co.ack.reply = Outlook[co.part].reply
      /\ \A j \in 1 .. Len(co.parts) : PartPrepared(j) => HeldOf(j) = Outlook[j]
      /\ co.now \in Times
  BY <1>1 DEF LInv, Preparing
<1>3. /\ Len(co.parts) \in Nat /\ co.part \in 1 .. Len(co.parts)
      /\ DOMAIN co.parts = 1 .. Len(co.parts)
      /\ co.parts[co.part].operation.type \in MultiKeyTypes
  BY <1>1, TransactionParts DEF IInv, Coordinating
<1>4. DOMAIN Outlook = 1 .. Len(co.parts)
  BY <1>3 DEF Outlook, Foreseen
<1>5. CASE ~co.ack.ok
  <2>1. co' = Abort(co.ack.reply)
    BY <1>5 DEF CoPrepared
  <2>2. /\ Keeping({"now", "results", "plan"}) /\ co'.reply = co.ack.reply
        /\ co'.phase = "release"
    BY <1>1, <2>1, CoKeeps, CoAdvances DEF Aborted
  <2>3. co'.plan = co.plan
    BY <2>2 DEF Keeping
  <2>4. ~co.plan.made
    BY <1>2, <1>3, <1>4, <1>5, ForeseeIs
  <2>5. co.ack.reply \in {Error("reply_limit"), Error("oom")}
    <3>1. Outlook[co.part] = prepare(shard[co.parts[co.part].owner], co.parts[co.part].operation,
                                     co.now, shard_limits(co.parts[co.part].owner))
      BY <1>3, OutlookIs DEF Outlook
    <3>2. Command(shard[co.parts[co.part].owner].entries, co.parts[co.part].operation, co.now).ok
      BY <1>3, MultiNeverRefused
    <3>3. QED
      BY <1>2, <1>5, <3>1, <3>2, PrepareOutcome
  <2>6. QED
    BY <2>2, <2>3, <2>4, <2>5 DEF Plans, Unplanned, Preparing, Applying, Releasing
<1>6. CASE co.ack.ok
  <2>1. /\ IsSeq(results) /\ Len(results) = co.part
        /\ \A j \in 1 .. co.part : Outlook[j].ok /\ results[j] = Outlook[j].reply
        /\ LastPart => results = [j \in DOMAIN Outlook |-> Outlook[j].reply]
    BY <1>1, <1>6, CollectedReplies
  <2>2. CASE ~LastPart
    <3>1. co' = [Advance("apply") EXCEPT !.results = results]
      BY <1>6, <2>2 DEF CoPrepared
    <3> HIDE DEF results
    <3>2. Keeping({"now", "reply", "plan"}) /\ co'.results = results /\ Advanced("apply")
      BY <1>1, <3>1, CoKeeps, CoAdvances
    <3>3. /\ co'.phase = "prepare" /\ co'.part = co.part + 1 /\ co'.parts = co.parts
          /\ co'.request = co.request /\ co'.ack = NoAnswer /\ co'.now = co.now
          /\ co'.plan = co.plan
      BY <1>1, <2>2, <3>2 DEF Advanced, Keeping
    <3>4. Outlook' = Outlook /\ CoOp' = CoOp
      BY <1>1, <3>3, SameOutlook, SameOperation DEF Coordinating
    <3>5. ~co'.ack.arrived
      BY <3>3 DEF NoAnswer
    <3>6. \A j \in 1 .. Len(co.parts) : HeldOf(j)' = HeldOf(j)
      BY <1>1, <3>3 DEF HeldOf
    <3>7. ASSUME NEW j \in 1 .. Len(co.parts), PartPrepared(j)' PROVE PartPrepared(j)
      <4>1. j < co.part + 1
        BY <3>3, <3>5, <3>7 DEF PartPrepared
      <4>2. j \in Nat /\ co.part \in Nat
        BY <1>3
      <4>3. j < co.part \/ j = co.part
        BY <4>1, <4>2
      <4>4. QED
        BY <1>1, <1>6, <4>3 DEF PartPrepared
    <3>8. co'.part - 1 = co.part
      BY <1>3, <3>3
    <3>9. co'.results = results /\ IsSeq(results) /\ Len(results) = co'.part - 1
      BY <2>1, <3>2, <3>8
    <3>10. \A j \in 1 .. co'.part - 1 : Outlook'[j].ok /\ co'.results[j] = Outlook'[j].reply
      BY <2>1, <3>4, <3>8, <3>9
    <3>11. Preparing'
      BY <1>2, <3>3, <3>4, <3>5, <3>6, <3>7, <3>9, <3>10 DEF Preparing
    <3>12. QED
      BY <3>3, <3>11 DEF Plans, Unplanned, Applying, Releasing
  <2>3. CASE LastPart
    <3>1. co.part = Len(co.parts)
      BY <2>3 DEF LastPart
    <3>2. \A j \in DOMAIN Outlook : Outlook[j].ok
      BY <1>4, <2>1, <3>1
    <3>3. results = [j \in DOMAIN Outlook |-> Outlook[j].reply]
      BY <2>1, <2>3
    <3> HIDE DEF results
    <3>4. /\ co.plan.made <=> ~(encoded_len(reply) > MaxReplyBytes)
          /\ co.plan.made => /\ co.plan.reply = reply
                             /\ \A i \in DOMAIN Outlook : co.plan.effects[i] = Outlook[i].effects
      <4>1. QED
        BY <1>2, <3>2, <3>3, ForeseeIs
    <3>5. CASE encoded_len(reply) > MaxReplyBytes
      <4>1. co' = Abort(Error("reply_limit"))
        BY <1>6, <2>3, <3>5 DEF CoPrepared, results
      <4>2. /\ Keeping({"now", "results", "plan"}) /\ co'.reply = Error("reply_limit")
            /\ co'.phase = "release"
        BY <1>1, <4>1, CoKeeps, CoAdvances DEF Aborted
      <4>3. co'.plan = co.plan /\ ~co.plan.made
        BY <3>4, <3>5, <4>2 DEF Keeping
      <4>4. QED
        BY <4>2, <4>3 DEF Plans, Unplanned, Preparing, Applying, Releasing
    <3>6. CASE ~(encoded_len(reply) > MaxReplyBytes)
      <4>1. co' = [Advance("apply") EXCEPT !.results = results, !.reply = reply]
        BY <1>6, <2>3, <3>6 DEF CoPrepared, results
      <4> HIDE DEF reply
      <4>2. /\ Keeping({"now", "plan"}) /\ co'.results = results /\ co'.reply = reply
            /\ Advanced("apply")
        BY <1>1, <4>1, CoKeeps, CoAdvances
      <4>3. /\ co'.phase = "apply" /\ co'.part = 1 /\ co'.parts = co.parts /\ co'.plan = co.plan
            /\ co'.ack = NoAnswer
        BY <2>3, <4>2 DEF Advanced, Keeping
      <4>4. co'.plan.made /\ co'.reply = co'.plan.reply
        BY <3>4, <3>6, <4>2, <4>3
      <4>5. ASSUME NEW j \in 1 .. Len(co.parts)
            PROVE  /\ EffectsOK(co.plan.effects[j])
                   /\ HeldOf(j)'.effects = co.plan.effects[j]
        <5>1. co.plan.effects[j] = Outlook[j].effects /\ Outlook[j].ok
          BY <1>4, <3>2, <3>4, <3>6
        <5>2. EffectsOK(Outlook[j].effects)
          BY <1>1, <5>1, OutlookEffects
        <5>3. j < co.part \/ j = co.part
          BY <1>3, <3>1
        <5>4. PartPrepared(j)
          BY <1>1, <1>6, <5>3 DEF PartPrepared
        <5>5. HeldOf(j)' = Outlook[j]
          BY <1>1, <1>2, <4>3, <5>4 DEF HeldOf
        <5>6. QED
          BY <5>1, <5>2, <5>5
      <4>6. Applying'
        BY <4>3, <4>4, <4>5 DEF Applying
      <4>7. QED
        BY <4>3, <4>6 DEF Plans, Unplanned, Preparing, Releasing
    <3>7. QED
      BY <3>5, <3>6
  <2>4. QED
    BY <2>2, <2>3
<1>7. QED
  BY <1>5, <1>6 DEF IInv, Transaction

\* From the first application to the last release, the reply stays the planned one.
LEMMA PlansApplied ==
    ASSUME IInv, LInv, CoApplied \/ (CoReleased /\ ~LastPart)
    PROVE  Plans' /\ co'.plan = co.plan
<1>1. DOMAIN co = CoFields /\ co' = Advance("release") /\ owner' = owner
  BY DEF IInv, Transaction, CoApplied, CoReleased, CoAcked, owners
<1>2. Keeping({"now", "results", "reply", "plan"}) /\ Advanced("release")
  BY <1>1, CoKeeps, CoAdvances
<1>3. /\ co'.plan = co.plan /\ co'.reply = co.reply /\ co'.parts = co.parts
      /\ co'.ack = NoAnswer
      /\ co'.phase = IF LastPart THEN "release" ELSE co.phase
      /\ co'.part = IF LastPart THEN 1 ELSE co.part + 1
  BY <1>2 DEF Keeping, Advanced
<1>4. CASE CoApplied
  <2>1. co.phase = "apply" /\ co.ack.arrived
    BY <1>4 DEF CoApplied, CoAcked
  <2>2. /\ co.plan.made /\ co.reply = co.plan.reply
        /\ \A j \in 1 .. Len(co.parts) :
              /\ EffectsOK(co.plan.effects[j])
              /\ PartPrepared(j) => HeldOf(j).effects = co.plan.effects[j]
    BY <2>1 DEF LInv, Applying
  <2>3. CASE LastPart
    BY <1>3, <2>2, <2>3 DEF Plans, Unplanned, Preparing, Applying, Releasing
  <2>4. CASE ~LastPart
    <3>1. co'.phase = "apply" /\ co'.part = co.part + 1 /\ ~co'.ack.arrived
      BY <1>3, <2>1, <2>4 DEF NoAnswer
    <3>2. \A j \in 1 .. Len(co.parts) : HeldOf(j)' = HeldOf(j)
      BY <1>1, <1>3 DEF HeldOf
    <3>3. co.part \in Nat
      BY <2>1, TransactionParts DEF IInv, Coordinating
    <3>4. ASSUME NEW j \in 1 .. Len(co.parts), PartPrepared(j)' PROVE PartPrepared(j)
      <4>1. j > co.part + 1 \/ j = co.part + 1
        BY <3>1, <3>4 DEF PartPrepared
      <4>2. j > co.part
        BY <3>3, <4>1
      <4>3. QED
        BY <2>1, <4>2 DEF PartPrepared
    <3>5. Applying'
      BY <1>3, <2>2, <3>2, <3>4 DEF Applying
    <3>6. QED
      BY <1>3, <3>1, <3>5 DEF Plans, Unplanned, Preparing, Releasing
  <2>5. QED
    BY <2>3, <2>4
<1>5. CASE CoReleased /\ ~LastPart
  <2>1. co.phase = "release" /\ co'.phase = "release"
    BY <1>3, <1>5 DEF CoReleased, CoAcked
  <2>2. QED
    BY <1>3, <2>1 DEF LInv, Plans, Unplanned, Preparing, Applying, Releasing
<1>6. QED
  BY <1>4, <1>5

\* Sending a message to an owner leaves the plan alone.
LEMMA PlansSent ==
    ASSUME IInv, LInv, [Next]_vars, CoSend
    PROVE  Plans' /\ co'.plan = co.plan
<1>1. DOMAIN co = CoFields /\ co' = [co EXCEPT !.sent = TRUE] /\ owner' = owner /\ shard' = shard
  BY DEF IInv, Transaction, CoSend
<1>2. Keeping({"phase", "request", "parts", "part", "ack", "now", "results", "reply", "plan"})
  BY <1>1 DEF Keeping, CoFields
<1>3. Protected
  BY <1>1 DEF Protected, IInv, Locks
<1>4. QED
  BY <1>2, <1>3, PlansKept DEF Keeping

\* The clock shows one of its instants.
LEMMA ClockNext ==
    ASSUME clock \in Times, [Next]_vars
    PROVE  clock' \in Times /\ (clock' = clock \/ ClockStep)
<1> USE DEF callers, channels, owners
<1>1. ASSUME NEW r \in Requests, CallStep(r) \/ DropFuture(r) \/ \E op \in Ops : Call(r, op)
      PROVE  clock' = clock
  BY <1>1 DEF CallStep, Begin, AcquireCredit, Enqueue, RejectClosed, AdmissionTimeout, DropFuture, Call
<1>2. ASSUME NEW o \in Owners, OwnerStep(o) PROVE clock' = clock
  BY <1>2 DEF OwnerStep, OwnerDataTurn, OwnerReserve, OwnerPrepare, OwnerApply, OwnerRelease,
              OwnerStats, OwnerStop, OwnerControlClosed, OwnerTick, OwnerData, OwnerExit
<1>3. CoStep => clock' = clock
  BY DEF CoStep, CoTake, CoStop, CoFinish, CoSend, CoReserved, CoPrepared, CoApplied,
         CoReleased, CoAcked
<1>4. ASSUME \/ StatsCall \/ StatsStep \/ ShutdownBegin \/ ShutdownStep \/ DropEngine
             \/ UNCHANGED vars
      PROVE  clock' = clock
  BY <1>4 DEF StatsCall, StatsStep, StatsSend, StatsBreak, StatsReceive, ShutdownBegin,
              ShutdownStep, ShutdownStopCross, ShutdownJoinCross, ShutdownStopOwner, ShutdownJoin,
              ShutdownAt, DropEngine, vars
<1>5. ClockStep => clock' \in Times
  BY DEF ClockStep
<1>6. QED
  BY <1>1, <1>2, <1>3, <1>4, <1>5 DEF Next

\* The plan stays, is dropped, or is made.
LEMMA PlansNext ==
    ASSUME IInv, LInv, [Next]_vars
    PROVE  Plans' /\ co'.plan.made \in BOOLEAN
<1>1. NoPlan.made = FALSE /\ co.plan.made \in BOOLEAN
  BY DEF NoPlan, LInv
<1>2. CASE co' = co /\ Protected
  <2>1. Keeping({"phase", "request", "parts", "part", "ack", "now", "results", "reply", "plan"})
    BY <1>2 DEF IInv, Transaction, Keeping
  <2>2. QED
    BY <1>1, <1>2, <2>1, PlansKept
<1>3. ASSUME NEW o \in Owners, OwnerReserve(o) \/ OwnerPrepare(o) \/ OwnerApply(o) \/ OwnerRelease(o)
      PROVE  Plans' /\ co'.plan.made \in BOOLEAN
  <2>1. Plans'
    BY <1>3, PlansOwner
  <2>2. \E ok \in BOOLEAN : AckArrived(ok)
    BY <1>3, OwnerAcks DEF IInv
  <2>3. co'.plan = co.plan
    BY <2>2 DEF AckArrived, CoFields
  <2>4. QED
    BY <1>1, <2>1, <2>3
<1>4. CASE CoTake \/ CoFinish \/ (CoReleased /\ LastPart)
  BY <1>1, <1>4, PlansTaken
<1>5. CASE CoApplied \/ (CoReleased /\ ~LastPart)
  BY <1>1, <1>5, PlansApplied
<1>6. CASE CoSend
  BY <1>1, <1>6, PlansSent
<1>7. CASE CoReserved
  BY <1>7, PlansReserved
<1>8. CASE CoPrepared
  BY <1>1, <1>8, PlansPrepared
<1>9. QED
  BY <1>2, <1>3, <1>4, <1>5, <1>6, <1>7, <1>8, StepKinds

\* The invariant of the refinement is kept.
LEMMA NextLInv == IInv /\ LInv /\ [Next]_vars => LInv'
  BY ShardsNext, ClockNext, PlansNext DEF LInv, Plans

\* It holds initially.
LEMMA InitLInv == Init => LInv
<1> SUFFICES ASSUME Init PROVE LInv
  OBVIOUS
<1>1. /\ clock \in Times /\ shard = [o \in Owners |-> NewShard]
      /\ co.phase = "idle" /\ co.results = <<>> /\ co.plan = NoPlan
  BY DEF Init, IdleCoordinator
<1>2. ShardOK(NewShard)
  <2>1. NewShard.entries = EmptyMap /\ NewShard.timers = EmptyMap /\ DOMAIN NewShard = ShardFields
    BY DEF NewShard, ShardFields
  <2>2. DOMAIN EmptyMap = {}
    BY DEF EmptyMap
  <2>3. TableOK(EmptyMap)
    BY <2>2, FS_EmptySet DEF TableOK
  <2>4. QED
    BY <2>1, <2>2, <2>3 DEF ShardOK, TimersAgree
<1>3. Shards
  BY <1>1, <1>2 DEF Shards
<1>4. co.plan.made \in BOOLEAN
  BY <1>1 DEF NoPlan
<1>5. QED
  BY <1>1, <1>3, <1>4 DEF LInv, Unplanned, Preparing, Applying, Releasing

-----------------------------------------------------------------------------
(***************************************************************************)
(* The table callers see, owner by owner.                                  *)
(***************************************************************************)
Tables == [o \in Owners |-> Visible(o)]

\* The table is what the owners show of it, now and after a step.
LEMMA DatabaseIs == Database = Gather(Tables) /\ Database' = Gather(Tables')
<1>1. \A k \in Keys : Route[k] \in Owners
  BY EngineAssumption
<1>2. Database = Gather(Tables)
  BY DEF Database, Gather, Tables
<1>3. Database' = Gather(Tables')
  BY DEF Database, Gather, Tables
<1>4. QED
  BY <1>2, <1>3

\* A step that changes what no owner shows does not change the table.
LEMMA SameDatabase ==
    ASSUME \A o \in Owners : Visible(o)' = Visible(o)
    PROVE  Database' = Database
<1>1. Tables' = Tables
  BY DEF Tables
<1>2. QED
  BY <1>1, DatabaseIs

\* Effects that are fit to be installed give a table again.
LEMMA InstallOK ==
    ASSUME NEW entries, TableOK(entries), NEW effects, EffectsOK(effects)
    PROVE  TableOK(Install(entries, effects))
<1>1. IsFiniteSet(DOMAIN entries \cup DOMAIN effects)
  BY FS_Union DEF TableOK, EffectsOK
<1>2. DOMAIN Install(entries, effects) \in SUBSET (DOMAIN entries \cup DOMAIN effects)
  BY DEF Install, Inserted
<1>3. IsFiniteSet(DOMAIN Install(entries, effects))
  BY <1>1, <1>2, FS_Subset
<1>4. DOMAIN Install(entries, effects) \subseteq Keys
  BY <1>2 DEF TableOK, EffectsOK
<1>5. \A k \in DOMAIN Install(entries, effects) : Install(entries, effects)[k] \in Entries
  BY DEF Install, Inserted, TableOK, EffectsOK
<1>6. QED
  BY <1>3, <1>4, <1>5 DEF TableOK

\* What is planned for a part is fit to be installed.
LEMMA PlanEffects ==
    ASSUME IInv, LInv, co.plan.made, co.phase \in {"prepare", "apply"}, NEW j \in 1 .. Len(co.parts)
    PROVE  EffectsOK(co.plan.effects[j])
<1>1. CASE co.phase = "apply"
  BY <1>1 DEF LInv, Applying
<1>2. CASE co.phase = "prepare"
  <2>1. co.plan = Foresee(CoOp, Outlook)
    BY <1>2 DEF LInv, Preparing
  <2>2. j \in DOMAIN Outlook
    <3>1. DOMAIN co.parts = 1 .. Len(co.parts)
      BY <1>2, TransactionParts DEF IInv, Coordinating
    <3>2. QED
      BY <3>1 DEF Outlook, Foreseen
  <2>3. Outlook[j].ok /\ co.plan.effects[j] = Outlook[j].effects
    BY <2>1, <2>2, ForeseeIs
  <2>4. QED
    BY <1>2, <2>3, OutlookEffects
<1>3. QED
  BY <1>1, <1>2

\* What the owner of an awaited part shows.
LEMMA VisiblePart ==
    ASSUME IInv, NEW j \in 1 .. Len(co.parts), NEW o, o = co.parts[j].owner, Coordinating
    PROVE  Visible(o) = IF Awaited(o) THEN Install(shard[o].entries, co.plan.effects[j])
                        ELSE shard[o].entries
<1> DEFINE i == PartOf(co.parts, o)
<1>1. /\ DOMAIN co.parts = 1 .. Len(co.parts)
      /\ \A x, y \in 1 .. Len(co.parts) : co.parts[x].owner = co.parts[y].owner => x = y
  BY TransactionParts DEF IInv
<1>2. i \in DOMAIN co.parts /\ co.parts[i].owner = o
  BY <1>1 DEF PartOf
<1>3. i = j
  BY <1>1, <1>2
<1>4. QED
  BY <1>3 DEF Visible

\* An awaited owner is a part's owner.
LEMMA AwaitedPart ==
    ASSUME IInv, NEW o \in Owners, Awaited(o)
    PROVE  /\ co.plan.made /\ co.phase \in {"prepare", "apply"} /\ Coordinating
           /\ \E j \in 1 .. Len(co.parts) : co.parts[j].owner = o
  BY DEF Awaited, IInv, Locks, OwnerLock

\* Every owner shows a table.
LEMMA VisibleOK ==
    ASSUME IInv, LInv, NEW o \in Owners
    PROVE  TableOK(Visible(o))
<1>1. TableOK(shard[o].entries)
  BY DEF LInv, Shards, ShardOK
<1>2. CASE ~Awaited(o)
  BY <1>1, <1>2 DEF Visible
<1>3. CASE Awaited(o)
  <2>1. /\ co.plan.made /\ co.phase \in {"prepare", "apply"} /\ Coordinating
        /\ \E j \in 1 .. Len(co.parts) : co.parts[j].owner = o
    BY <1>3, AwaitedPart
  <2>2. PICK j \in 1 .. Len(co.parts) : co.parts[j].owner = o
    BY <2>1
  <2>3. Visible(o) = Install(shard[o].entries, co.plan.effects[j])
    BY <1>3, <2>1, <2>2, VisiblePart
  <2>4. QED
    BY <1>1, <2>1, <2>3, InstallOK, PlanEffects
<1>4. QED
  BY <1>2, <1>3

\* What an owner shows stays when its table, its being awaited and the plan do.
LEMMA VisibleStays ==
    ASSUME NEW o, shard'[o].entries = shard[o].entries, Awaited(o)' <=> Awaited(o),
           Awaited(o) => co'.parts = co.parts /\ co'.plan = co.plan
    PROVE  Visible(o)' = Visible(o)
  BY DEF Visible

\* When the owners carry out their parts of a command in one step, and its caller's
\* request is decided in that step, the command takes effect.
LEMMA CommitParts ==
    ASSUME IInv, LInv, NEW r \in Requests, NEW op \in Operations, op = AbstractCall(r).op, NEW part,
           clock' = clock,
           \A o \in Participants(op) :
              /\ CarriesOut(clock, Visible(o), Visible(o)', part[o])
              /\ KeySet(part[o]) = {k \in KeySet(op) : Route[k] = o}
              /\ \A k \in KeySet(part[o]) :
                    NewEntry(part[o], clock, View(Database, clock), k)
                      = NewEntry(op, clock, View(Database, clock), k),
           \A o \in Owners : o \notin Participants(op) => Visible(o)' = Visible(o),
           Refusal(op, clock, View(Database, clock)) = None,
           Decides(r, NewReply(op, clock, View(Database, clock)))
    PROVE  Table!Commit(r)
<1>0. Participants(op) \subseteq Owners /\ clock \in I64
  BY ParticipantsFinite, EngineAssumption DEF LInv
<1>1. \A o \in Owners : Tables[o] = Visible(o) /\ Tables'[o] = Visible(o)'
  BY DEF Tables
<1>2. \A o \in Owners : TableOK(Tables[o])
  BY <1>1, VisibleOK
<1>3. Database = Gather(Tables) /\ Database' = Gather(Tables')
  BY DatabaseIs
<1> DEFINE f == Tables
           g == Tables'
           now == clock
<1>4. \A o \in Participants(op) :
        /\ CarriesOut(now, f[o], g[o], part[o])
        /\ KeySet(part[o]) = {k \in KeySet(op) : Route[k] = o}
        /\ \A k \in KeySet(part[o]) :
              NewEntry(part[o], now, View(Gather(f), now), k)
                = NewEntry(op, now, View(Gather(f), now), k)
  BY <1>0, <1>1, <1>3
<1>5. \A o \in Owners : o \notin Participants(op) => g[o] = f[o]
  BY <1>1
<1>6. now \in I64
  BY <1>0
<1> HIDE DEF f, g, now
<1>7. /\ View(Gather(g), now) = NewView(op, now, View(Gather(f), now))
      /\ \A k \in DOMAIN Gather(g) : Due(Gather(g)[k], now) =>
            k \in DOMAIN Gather(f) /\ Gather(g)[k] = Gather(f)[k]
  BY <1>2, <1>4, <1>5, <1>6, TakesEffect DEF f
<1>8. \A o \in Owners : TableOK(g[o])
  <2> TAKE o \in Owners
  <2>1. CASE o \in Participants(op)
    <3>1. /\ part[o] \in Operations
          /\ g[o] = Install(f[o], Command(f[o], part[o], now).effects)
      BY <1>4, <2>1 DEF CarriesOut
    <3>2. QED
      BY <1>2, <1>6, <3>1, InstallOK, CommandEffects DEF f
  <2>2. CASE o \notin Participants(op)
    BY <1>2, <1>5, <2>2 DEF f
  <2>3. QED
    BY <2>1, <2>2
<1>9. \A k \in DOMAIN Gather(g) : Gather(g)[k] # None
  <2> TAKE k \in DOMAIN Gather(g)
  <2>1. k \in Keys /\ k \in DOMAIN g[Route[k]] /\ Gather(g)[k] = g[Route[k]][k]
    BY GatherMembers, ZenonT(30)
  <2>2. Gather(g)[k] \in Entries
    BY <1>8, <2>1, EngineAssumption DEF TableOK
  <2>3. QED
    BY <2>2, EntriesAssumption
<1>10. QED
  BY <1>3, <1>7, <1>9, CommitStep DEF f, g, now

-----------------------------------------------------------------------------
(***************************************************************************)
(* The calls callers see.                                                  *)
(***************************************************************************)
\* AbstractCall as a function of the call's record and the coordinator's.
CallSeen(r, c, k) ==
    LET is(state, reply) == [state |-> state, op |-> c.op, reply |-> reply]
    IN  CASE c.pc = "idle" -> is("idle", None)
          [] c.pc \in {"called", "credit", "send"} -> is("open", None)
          [] c.pc = "abandoned" -> is("abandoned", None)
          [] c.pc \in {"done", "gone"} -> is("decided", c.reply)
          [] r = k.request /\ k.plan.made -> is("decided", k.plan.reply)
          [] r = k.request /\ k.phase = "release" /\ ~k.plan.made -> is("decided", k.reply)
          [] OTHER -> is("open", None)

\* The request of the transaction in progress, once its outcome is settled.
Settled(r, k) == r = k.request /\ (k.plan.made \/ k.phase = "release")

\* How a call is seen, before and after a step.
LEMMA SeenIs ==
    ASSUME NEW r
    PROVE  AbstractCall(r) = CallSeen(r, call[r], co) /\ AbstractCall(r)' = CallSeen(r, call'[r], co')
  BY DEF AbstractCall, CallSeen

\* How it is seen at each place.
LEMMA SeenAs ==
    ASSUME NEW r, NEW c, NEW k, ~Settled(r, k)
    PROVE  LET is(state, reply) == [state |-> state, op |-> c.op, reply |-> reply]
               seen == CallSeen(r, c, k)
           IN  /\ c.pc = "idle" => seen = is("idle", None)
               /\ c.pc \in {"called", "credit", "send"} => seen = is("open", None)
               /\ c.pc = "abandoned" => seen = is("abandoned", None)
               /\ c.pc \in {"done", "gone"} => seen = is("decided", c.reply)
               /\ c.pc \in {"queued", "detached"} => seen = is("open", None)
<1>1. ~(r = k.request /\ k.plan.made) /\ ~(r = k.request /\ k.phase = "release" /\ ~k.plan.made)
  BY DEF Settled
<1>2. QED
  BY <1>1 DEF CallSeen

\* How the request of the transaction in progress is seen, once settled.
LEMMA SeenSettled ==
    ASSUME NEW r, NEW c, NEW k, c.pc \in {"queued", "detached"}, r = k.request
    PROVE  /\ k.plan.made => CallSeen(r, c, k) = [state |-> "decided", op |-> c.op, reply |-> k.plan.reply]
           /\ ~k.plan.made /\ k.phase = "release" =>
                 CallSeen(r, c, k) = [state |-> "decided", op |-> c.op, reply |-> k.reply]
  BY DEF CallSeen

\* Only an accepted request has an outcome settled by the coordinator.
LEMMA Unsettled ==
    ASSUME IInv, NEW r \in Requests, ~Accepted(r)
    PROVE  r # co.request /\ ~Settled(r, co)
<1>1. r # None
  BY EngineAssumption
<1>2. QED
  BY <1>1 DEF IInv, Queues, Settled

\* A call that stays is seen as before, unless the coordinator settles it.
LEMMA SeenSame ==
    ASSUME NEW r, call'[r] = call[r],
           \/ co' = co
           \/ ~Settled(r, co) /\ ~Settled(r, co')
           \/ /\ co'.request = co.request /\ co'.plan = co.plan
              /\ \/ co.plan.made
                 \/ co'.phase = "release" <=> co.phase = "release"
              /\ co.phase = "release" => co'.reply = co.reply
    PROVE  AbstractCall(r)' = AbstractCall(r)
<1>1. AbstractCall(r) = CallSeen(r, call[r], co) /\ AbstractCall(r)' = CallSeen(r, call[r], co')
  BY SeenIs
<1> DEFINE c == call[r]
<1> HIDE DEF c
<1>2. CallSeen(r, c, co') = CallSeen(r, c, co)
  <2>1. CASE co' = co
    BY <2>1
  <2>2. CASE ~Settled(r, co) /\ ~Settled(r, co')
    BY <2>2 DEF CallSeen, Settled
  <2>3. CASE /\ co'.request = co.request /\ co'.plan = co.plan
             /\ \/ co.plan.made
                \/ co'.phase = "release" <=> co.phase = "release"
             /\ co.phase = "release" => co'.reply = co.reply
    BY <2>3 DEF CallSeen
  <2>4. QED
    BY <2>1, <2>2, <2>3
<1>3. QED
  BY <1>1, <1>2 DEF c

\* A step of the engine is a step of the key space, or one callers cannot see.
Simulated == Table!Next \/ UNCHANGED Table!vars

\* A step that touches neither owners nor shards nor the coordinator.
LEMMA OwnersQuiet ==
    ASSUME co' = co, owner' = owner, shard' = shard
    PROVE  Database' = Database
<1>1. \A o \in Owners : Awaited(o)' <=> Awaited(o)
  BY DEF Awaited, Reserved
<1>2. ASSUME NEW o \in Owners PROVE Visible(o)' = Visible(o)
  <2>1. Awaited(o)' <=> Awaited(o)
    BY <1>1
  <2>2. QED
    BY <2>1, VisibleStays
<1>3. QED
  BY <1>2, SameDatabase

\* What callers do on their own side of the channels.
LEMMA CallsSimulated ==
    ASSUME IInv, LInv, NEW r \in Requests, CallStep(r) \/ DropFuture(r) \/ \E op \in Ops : Call(r, op)
    PROVE  Simulated
<1>0. DOMAIN call = Requests /\ DOMAIN call[r] = CallFields /\ co.plan.made \in BOOLEAN
  BY DEF IInv, Calls, LInv
<1>1. co' = co /\ clock' = clock /\ owner' = owner /\ shard' = shard
  BY DEF CallStep, Begin, AcquireCredit, Enqueue, RejectClosed, AdmissionTimeout, DropFuture, Call,
         callers, channels, owners
<1>2. Database' = Database
  BY <1>1, OwnersQuiet
<1>3. \A x \in Requests : x # r => call'[x] = call[x]
  <2>1. CASE \E op \in Ops : Call(r, op)
    BY <1>0, <2>1 DEF Call
  <2>2. CASE CallStep(r) \/ DropFuture(r)
    <3>1. (\E pc : GoTo(r, pc)) \/ (\E reply : Return(r, reply))
      BY <2>2 DEF CallStep, Begin, AcquireCredit, Enqueue, RejectClosed, AdmissionTimeout, DropFuture
    <3>2. \E pc : Moved(r, pc)
      BY <3>1, CallMoves DEF IInv
    <3>3. QED
      BY <3>2 DEF Moved
  <2>3. QED
    BY <2>1, <2>2
<1>4. CallsStay(r)
  BY <1>1, <1>3, SeenSame DEF CallsStay
<1>5. AbstractCall(r) = CallSeen(r, call[r], co) /\ AbstractCall(r)' = CallSeen(r, call'[r], co)
  BY <1>1, SeenIs
<1>6. ASSUME AbstractCall(r)' = AbstractCall(r) PROVE Simulated
  <2>1. \A x \in Requests : AbstractCall(x)' = AbstractCall(x)
    BY <1>4, <1>6 DEF CallsStay
  <2>2. QED
    BY <1>1, <1>2, <2>1, StutterStep DEF Simulated
<1>7. CASE \E op \in Ops : Call(r, op)
  <2>1. PICK op \in Ops : Call(r, op)
    BY <1>7
  <2>2. call[r].pc = "idle" /\ call'[r].pc = "called" /\ call'[r].op = op
    BY <1>0, <2>1 DEF Call, At, CallFields
  <2>3. ~Settled(r, co)
    BY <2>2, Unsettled DEF Accepted
  <2>4. /\ AbstractCall(r).state = "idle"
        /\ AbstractCall(r)' = [state |-> "open", op |-> op, reply |-> None]
    BY <1>0, <1>5, <2>2, <2>3, SeenAs
  <2>5. Table!Invoke(r, op)
    BY <1>1, <1>2, <1>4, <2>4, InvokeStep
  <2>6. QED
    BY <2>5 DEF Simulated, Table!Next
<1>8. ASSUME NEW code \in Table!ResourceErrors, call[r].pc \in {"called", "credit", "send"},
             Return(r, Error(code))
      PROVE  Simulated
  <2>1. call'[r].pc = "done" /\ call'[r].op = call[r].op /\ call'[r].reply = Error(code)
    BY <1>0, <1>8 DEF Return, CallFields
  <2>2. ~Settled(r, co)
    BY <1>8, Unsettled DEF Accepted
  <2>3. /\ AbstractCall(r) = [state |-> "open", op |-> call[r].op, reply |-> None]
        /\ AbstractCall(r)' = [state |-> "decided", op |-> call[r].op, reply |-> Error(code)]
    BY <1>0, <1>5, <1>8, <2>1, <2>2, SeenAs
  <2>4. Decides(r, Error(code))
    BY <1>4, <2>3 DEF Decides
  <2>5. Table!Fail(r)
    BY <1>1, <1>2, <1>8, <2>4, FailStep
  <2>6. QED
    BY <2>5 DEF Simulated, Table!Next
<1>9. ASSUME NEW pc, call[r].pc \in {"called", "credit", "send"}, GoTo(r, pc)
      PROVE  /\ pc = "abandoned" => Simulated
             /\ pc \in {"credit", "send", "queued"} => Simulated
  <2>1. call'[r].pc = pc /\ call'[r].op = call[r].op
    BY <1>0, <1>9 DEF GoTo, CallFields
  <2>2. ~Settled(r, co)
    BY <1>9, Unsettled DEF Accepted
  <2>3. /\ AbstractCall(r) = [state |-> "open", op |-> call[r].op, reply |-> None]
        /\ pc = "abandoned" =>
              AbstractCall(r)' = [state |-> "abandoned", op |-> call[r].op, reply |-> None]
        /\ pc \in {"credit", "send", "queued"} =>
              AbstractCall(r)' = [state |-> "open", op |-> call[r].op, reply |-> None]
    BY <1>0, <1>5, <1>9, <2>1, <2>2, SeenAs
  <2>4. ASSUME pc = "abandoned" PROVE Simulated
    <3>1. /\ AbstractCall(r).state = "open"
          /\ AbstractCall(r)' = [AbstractCall(r) EXCEPT !.state = "abandoned"]
      BY <2>3, <2>4
    <3>2. Table!Abandon(r)
      BY <1>1, <1>2, <1>4, <3>1, AbandonStep
    <3>3. QED
      BY <3>2 DEF Simulated, Table!Next
  <2>5. ASSUME pc \in {"credit", "send", "queued"} PROVE Simulated
    BY <1>6, <2>3, <2>5
  <2>6. QED
    BY <2>4, <2>5
<1>10. CASE Begin(r)
  <2> DEFINE op == call[r].op
             rejection == IF closing THEN "busy_closing"
                          ELSE IF operation_keys(op) = <<>> THEN "empty_keys"
                          ELSE IF charge(op) > QueueBytes THEN "busy_bytes"
                          ELSE None
  <2>1. /\ call[r].pc = "called"
        /\ IF rejection = None THEN GoTo(r, "credit") ELSE Return(r, Error(rejection))
    BY <1>10 DEF Begin, At
  <2>2. rejection # None => rejection \in Table!ResourceErrors
    BY DEF Table!ResourceErrors
  <2> HIDE DEF rejection
  <2>3. CASE rejection = None
    BY <1>9, <2>1, <2>3
  <2>4. CASE rejection # None
    BY <1>8, <2>1, <2>2, <2>4
  <2>5. QED
    BY <2>3, <2>4
<1>11. CASE AcquireCredit(r) \/ Enqueue(r)
  <2>1. call[r].pc \in {"credit", "send"} /\ \E pc \in {"send", "queued"} : GoTo(r, pc)
    BY <1>11 DEF AcquireCredit, Enqueue, At
  <2>2. QED
    BY <1>9, <2>1
<1>12. CASE RejectClosed(r) \/ AdmissionTimeout(r)
  <2>1. /\ call[r].pc \in {"credit", "send"}
        /\ \E code \in {"busy_closing", "busy_deadline"} : Return(r, Error(code))
    BY <1>12 DEF RejectClosed, AdmissionTimeout, At
  <2>2. QED
    BY <1>8, <2>1 DEF Table!ResourceErrors
<1>13. CASE DropFuture(r)
  <2>1. CASE call[r].pc \in {"called", "credit", "send"} /\ GoTo(r, "abandoned")
    BY <1>9, <2>1
  <2>2. CASE call[r].pc = "queued" /\ GoTo(r, "detached")
    <3>1. call'[r].pc = "detached" /\ call'[r].op = call[r].op
      BY <1>0, <2>2 DEF GoTo, CallFields
    <3>2. AbstractCall(r)' = AbstractCall(r)
      <4>1. CASE ~Settled(r, co)
        BY <1>0, <1>5, <2>2, <3>1, <4>1, SeenAs
      <4>2. CASE Settled(r, co)
        BY <1>0, <1>5, <2>2, <3>1, <4>2, SeenSettled DEF Settled
      <4>3. QED
        BY <4>1, <4>2
    <3>3. QED
      BY <1>6, <3>2
  <2>3. QED
    BY <1>13, <2>1, <2>2 DEF DropFuture, At
<1>14. QED
  BY <1>7, <1>10, <1>11, <1>12, <1>13 DEF CallStep

-----------------------------------------------------------------------------
(***************************************************************************)
(* The steps of owners.                                                    *)
(***************************************************************************)
\* The keys of a single-owner command are seen as that owner holds them.
LEMMA LocalView ==
    ASSUME NEW op \in Operations, NEW o \in Owners, Participants(op) = {o}, NEW k \in KeySet(op)
    PROVE  k \in Keys /\ Route[k] = o /\ View(Database, clock)[k] = View(Visible(o), clock)[k]
<1>1. k \in Keys /\ Route[k] = o
  BY KeySetFinite DEF Participants
<1>2. View(Gather(Tables), clock)[k] = View(Tables[Route[k]], clock)[k]
  BY <1>1, GatherView
<1>3. Tables[o] = Visible(o)
  BY DEF Tables
<1>4. QED
  BY <1>1, <1>2, <1>3, DatabaseIs

\* What the owner computes of a single-owner command is what the whole table says.
LEMMA LocalMeans ==
    ASSUME IInv, LInv, NEW op \in Operations, NEW o \in Owners, Participants(op) = {o}
    PROVE  LET c == Command(Visible(o), op, clock)
               view == View(Database, clock)
           IN  /\ c.ok => /\ Refusal(op, clock, view) = None
                          /\ c.reply = NewReply(op, clock, view)
               /\ ~c.ok => /\ Refusal(op, clock, view) # None
                           /\ c.reply = Error(Refusal(op, clock, view))
<1> DEFINE c == Command(Visible(o), op, clock)
           view == View(Database, clock)
           own == View(Visible(o), clock)
<1>1. TableOK(Visible(o)) /\ clock \in I64
  BY VisibleOK, EngineAssumption DEF LInv
<1>2. Means(Visible(o), op, clock)
  BY <1>1, CommandMeans
<1>3. /\ c.ok => Refusal(op, clock, own) = None /\ c.reply = NewReply(op, clock, own)
      /\ ~c.ok => c.reply = Error(Refusal(op, clock, own))
  BY <1>2 DEF Means
<1>4. \A k \in KeySet(op) : view[k] = own[k]
  BY LocalView
<1> HIDE DEF view, own
<1>5. Refusal(op, clock, view) = Refusal(op, clock, own) /\ NewReply(op, clock, view) = NewReply(op, clock, own)
  BY <1>4, LooksAtItsKeys
<1>6. ~c.ok => \E code \in {"invalid_expire", "not_integer", "overflow"} : c.reply = Error(code)
  BY RefusalCodes
<1> HIDE DEF c
<1>7. ~c.ok => Refusal(op, clock, view) # None
  BY <1>3, <1>5, <1>6, CommandsAssumption DEF Error
<1>8. QED
  BY <1>3, <1>5, <1>7 DEF c, view

\* A command takes effect, or is refused, where its only owner executes it.
LEMMA LocalSimulated ==
    ASSUME IInv, LInv, NEW o \in Owners, queue[o] # <<>>, ~Reserved(o), ExecuteLocal(o),
           co' = co, clock' = clock,
           \A x \in Owners : owner'[x].reservation = owner[x].reservation
    PROVE  Simulated
<1>0. PICK r : r = Head(queue[o])
  OBVIOUS
<1> DEFINE op == call[r].op
           p == prepare(shard[o], op, clock, shard_limits(o))
           view == View(Database, clock)
<1>1. /\ r \in Requests /\ Accepted(r) /\ r # co.request
      /\ op \in Operations /\ Participants(op) = {o}
  BY <1>0, LocalRequest
<1>2. /\ shard' = [shard EXCEPT ![o] = IF p.ok THEN apply(shard[o], p) ELSE shard[o]]
      /\ Respond(r, p.reply)
  BY <1>0 DEF ExecuteLocal
<1>3. DOMAIN shard = Owners /\ ShardOK(shard[o]) /\ clock \in I64 /\ co.plan.made \in BOOLEAN
  BY EngineAssumption DEF IInv, Locks, LInv, Shards
<1>4. \A x \in Owners : Awaited(x)' <=> Awaited(x)
  BY DEF Awaited, Reserved
<1>5. Visible(o) = shard[o].entries /\ Visible(o)' = shard'[o].entries
  <2>1. ~Awaited(o)
    BY DEF Awaited
  <2>2. QED
    BY <1>4, <2>1 DEF Visible
<1>6. ASSUME NEW x \in Owners, x # o PROVE Visible(x)' = Visible(x)
  <2>1. shard'[x].entries = shard[x].entries
    BY <1>2, <1>3, <1>6
  <2>2. Awaited(x)' <=> Awaited(x)
    BY <1>4
  <2>3. QED
    BY <2>1, <2>2, VisibleStays
<1>7. Moved(r, Answered(r)) /\ call'[r].reply = p.reply
  <2> HIDE DEF p
  <2>1. Moved(r, Answered(r))
    BY <1>1, <1>2, CallMoves DEF IInv
  <2>2. call'[r].reply = p.reply
    BY <1>1, <1>2 DEF Respond, IInv, Calls, CallFields
  <2>3. QED
    BY <2>1, <2>2
<1>8. CallsStay(r)
  BY <1>7, SeenSame DEF CallsStay, Moved
<1>9. /\ AbstractCall(r) = [state |-> "open", op |-> op, reply |-> None]
      /\ AbstractCall(r)' = [state |-> "decided", op |-> op, reply |-> p.reply]
  <2> HIDE DEF p
  <2>1. AbstractCall(r) = CallSeen(r, call[r], co) /\ AbstractCall(r)' = CallSeen(r, call'[r], co)
    BY SeenIs
  <2>2. ~Settled(r, co) /\ call[r].pc \in {"queued", "detached"}
    BY <1>1 DEF Settled, Accepted
  <2>3. call'[r].pc \in {"done", "gone"} /\ call'[r].op = op /\ call'[r].reply = p.reply
    BY <1>7 DEF Moved, Answered
  <2>4. QED
    BY <1>3, <2>1, <2>2, <2>3, SeenAs
<1>10. Decides(r, p.reply) /\ op = AbstractCall(r).op
  <2> HIDE DEF p, op
  <2>1. QED
    BY <1>8, <1>9 DEF Decides
<1> DEFINE c == Command(shard[o].entries, op, clock)
<1>11. /\ p.ok \in BOOLEAN
       /\ p.ok => c.ok /\ p.effects = c.effects /\ p.reply = c.reply
       /\ ~p.ok => \/ c.ok /\ p.reply \in {Error("reply_limit"), Error("oom")}
                   \/ ~c.ok /\ p.reply = c.reply
  BY PrepareOutcome
<1>12. /\ c.ok => /\ Refusal(op, clock, view) = None
                  /\ c.reply = NewReply(op, clock, view)
       /\ ~c.ok => /\ Refusal(op, clock, view) # None
                   /\ c.reply = Error(Refusal(op, clock, view))
  BY <1>1, <1>5, LocalMeans
<1>13. p.ok => EffectsOK(p.effects)
  BY <1>1, <1>3, PrepareResult DEF ShardOK
<1> HIDE DEF p, op
<1>14. CASE p.ok
  <2> DEFINE part == [x \in {o} |-> op]
  <2>1. Visible(o)' = Install(shard[o].entries, c.effects)
    <3>1. shard'[o] = apply(shard[o], p)
      BY <1>2, <1>3, <1>14
    <3>2. QED
      BY <1>3, <1>5, <1>11, <1>13, <1>14, <3>1, ShardSteps
  <2>2. CarriesOut(clock, Visible(o), Visible(o)', op)
    BY <1>1, <1>5, <1>11, <1>14, <2>1 DEF CarriesOut
  <2>3. KeySet(op) = {k \in KeySet(op) : Route[k] = o}
    BY <1>1, LocalView
  <2>4. \A x \in Participants(op) :
           /\ CarriesOut(clock, Visible(x), Visible(x)', part[x])
           /\ KeySet(part[x]) = {k \in KeySet(op) : Route[k] = x}
           /\ \A k \in KeySet(part[x]) :
                 NewEntry(part[x], clock, View(Database, clock), k)
                   = NewEntry(op, clock, View(Database, clock), k)
    <3>1. part[o] = op
      OBVIOUS
    <3> HIDE DEF part
    <3>2. ASSUME NEW x \in Participants(op)
          PROVE  /\ CarriesOut(clock, Visible(x), Visible(x)', part[x])
                 /\ KeySet(part[x]) = {k \in KeySet(op) : Route[k] = x}
                 /\ \A k \in KeySet(part[x]) :
                       NewEntry(part[x], clock, View(Database, clock), k)
                         = NewEntry(op, clock, View(Database, clock), k)
      <4>1. x = o
        BY <1>1
      <4>2. QED
        BY <2>2, <2>3, <3>1, <4>1
    <3>3. QED
      BY <3>2
  <2> HIDE DEF part
  <2>5. \A x \in Owners : x \notin Participants(op) => Visible(x)' = Visible(x)
    BY <1>1, <1>6
  <2>6. /\ Refusal(op, clock, View(Database, clock)) = None
        /\ Decides(r, NewReply(op, clock, View(Database, clock)))
    BY <1>10, <1>11, <1>12, <1>14
  <2>7. Table!Commit(r)
    BY <1>1, <1>10, <2>4, <2>5, <2>6, CommitParts
  <2>8. QED
    BY <1>1, <2>7 DEF Simulated, Table!Next
<1>15. CASE ~p.ok
  <2>1. Database' = Database
    <3>1. shard'[o] = shard[o]
      BY <1>2, <1>3, <1>15
    <3>2. Visible(o)' = Visible(o)
      BY <1>5, <3>1
    <3>3. \A x \in Owners : Visible(x)' = Visible(x)
      BY <1>6, <3>2
    <3>4. QED
      BY <3>3, SameDatabase
  <2>2. CASE ~c.ok
    <3> DEFINE refusal == Refusal(op, clock, View(Database, clock))
    <3>1. refusal # None /\ Decides(r, Error(refusal))
      BY <1>10, <1>11, <1>12, <1>15, <2>2
    <3>2. Table!Refuse(r)
      BY <1>1, <1>10, <2>1, <3>1, RefuseStep
    <3>3. QED
      BY <1>1, <3>2 DEF Simulated, Table!Next
  <2>3. CASE c.ok
    <3>1. \E code \in {"reply_limit", "oom"} : p.reply = Error(code)
      BY <1>11, <1>15, <2>3
    <3>2. PICK code \in {"reply_limit", "oom"} : p.reply = Error(code)
      BY <3>1
    <3>3. Table!Fail(r)
      BY <1>1, <1>10, <2>1, <3>2, FailStep DEF Table!ResourceErrors
    <3>4. QED
      BY <1>1, <3>3 DEF Simulated, Table!Next
  <2>4. QED
    BY <2>2, <2>3
<1>16. QED
  BY <1>14, <1>15

\* A step that moves neither a call, nor what an owner shows, nor the fields of the
\* coordinator that callers can tell.
LEMMA Unseen ==
    ASSUME clock' = clock, call' = call, \A o \in Owners : Visible(o)' = Visible(o),
           co'.request = co.request, co'.plan = co.plan, co'.phase = co.phase, co'.reply = co.reply
    PROVE  Simulated
<1>1. Database' = Database
  BY SameDatabase
<1>2. \A r \in Requests : AbstractCall(r)' = AbstractCall(r)
  BY SeenSame
<1>3. QED
  BY <1>1, <1>2, StutterStep DEF Simulated

\* An owner that keeps its reservation and its shard shows what it showed.
LEMMA OwnerUnseen ==
    ASSUME co' = co, NEW o, shard'[o] = shard[o], owner'[o].reservation = owner[o].reservation
    PROVE  Visible(o)' = Visible(o)
<1>1. Awaited(o)' <=> Awaited(o)
  BY DEF Awaited, Reserved
<1>2. QED
  BY <1>1, VisibleStays

\* A sweep drops due entries only.
LEMMA TickSimulated ==
    ASSUME IInv, LInv, NEW o \in Owners, OwnerTick(o)
    PROVE  Simulated
<1>1. co' = co /\ call' = call /\ clock' = clock /\ ~Reserved(o)
  BY DEF OwnerTick, callers
<1>2. Protected
  BY OwnerProtects DEF IInv
<1>3. PICK S \in ExpirySets(shard[o].timers, clock, ExpiryBatch) :
         shard' = [shard EXCEPT ![o] = expire(shard[o], S)]
  BY DEF OwnerTick
<1>4. S \in SUBSET DueTimers(shard[o].timers, clock)
  BY DEF ExpirySets
<1>5. DOMAIN shard = Owners /\ ShardOK(shard[o])
  BY DEF IInv, Locks, LInv, Shards
<1>6. ~Awaited(o) /\ ~Awaited(o)'
  BY <1>1, <1>2 DEF Awaited, Reserved, Protected
<1>7. Visible(o) = shard[o].entries /\ Visible(o)' = expire(shard[o], S).entries
  BY <1>3, <1>5, <1>6 DEF Visible
<1>8. \A x \in Owners : x # o => Visible(x)' = Visible(x)
  <2> SUFFICES ASSUME NEW x \in Owners, x # o PROVE Visible(x)' = Visible(x)
    OBVIOUS
  <2>1. shard'[x] = shard[x] /\ owner'[x].reservation = owner[x].reservation
    BY <1>2, <1>3, <1>5 DEF Protected
  <2>2. QED
    BY <1>1, <2>1, OwnerUnseen
<1>9. /\ DOMAIN expire(shard[o], S).entries = DOMAIN shard[o].entries \ S
      /\ \A k \in DOMAIN expire(shard[o], S).entries :
            expire(shard[o], S).entries[k] = shard[o].entries[k]
  <2>1. CASE S = {}
    BY <2>1 DEF expire
  <2>2. CASE S # {}
    BY <1>5, <2>2 DEF expire, ShardOK, ShardFields
  <2>3. QED
    BY <2>1, <2>2
<1>10. \A k \in S : Due(shard[o].entries[k], clock)
  BY <1>4, <1>5 DEF DueTimers, ShardOK, TimersAgree, Due
<1> DEFINE f == Tables
           g == Tables'
<1>11. \A x \in Owners : f[x] = Visible(x) /\ g[x] = Visible(x)'
  BY DEF Tables
<1>12. Database = Gather(f) /\ Database' = Gather(g)
  BY DatabaseIs
<1> HIDE DEF f, g
<1>13. /\ \A x \in Owners : x # o => g[x] = f[x]
       /\ DOMAIN g[o] = DOMAIN f[o] \ S
       /\ \A k \in DOMAIN g[o] : g[o][k] = f[o][k]
       /\ \A k \in S : Due(f[o][k], clock)
  BY <1>7, <1>8, <1>9, <1>10, <1>11
<1>14. \A k \in Keys : Route[k] \in Owners
  BY EngineAssumption
<1>15. /\ DOMAIN Gather(g) \subseteq DOMAIN Gather(f)
       /\ \A k \in DOMAIN Gather(g) : Gather(g)[k] = Gather(f)[k]
       /\ \A k \in DOMAIN Gather(f) \ DOMAIN Gather(g) : Due(Gather(f)[k], clock)
  <2>1. /\ DOMAIN Gather(f) = {k \in Keys : k \in DOMAIN f[Route[k]]}
        /\ DOMAIN Gather(g) = {k \in Keys : k \in DOMAIN g[Route[k]]}
        /\ \A k \in DOMAIN Gather(f) : Gather(f)[k] = f[Route[k]][k]
        /\ \A k \in DOMAIN Gather(g) : Gather(g)[k] = g[Route[k]][k]
    BY GatherMembers
  <2>2. \A x \in Owners : /\ DOMAIN g[x] \subseteq DOMAIN f[x]
                          /\ \A k \in DOMAIN g[x] : g[x][k] = f[x][k]
                          /\ \A k \in DOMAIN f[x] \ DOMAIN g[x] : Due(f[x][k], clock)
    BY <1>13
  <2>3. QED
    BY <1>14, <2>1, <2>2
<1>16. \A r \in Requests : AbstractCall(r)' = AbstractCall(r)
  BY <1>1, SeenSame
<1>17. Table!Expire
  BY <1>1, <1>12, <1>15, <1>16, ExpireStep
<1>18. QED
  BY <1>17 DEF Simulated, Table!Next

\* Reserving, preparing, applying and releasing are not seen by callers: what an owner
\* applies is what it already showed.
LEMMA TransactionalSimulated ==
    ASSUME IInv, LInv, NEW o \in Owners,
           OwnerReserve(o) \/ OwnerPrepare(o) \/ OwnerApply(o) \/ OwnerRelease(o)
    PROVE  Simulated
<1>0. /\ DOMAIN co = CoFields /\ DOMAIN owner = Owners /\ DOMAIN owner[o] = OwnerFields
      /\ DOMAIN shard = Owners /\ ShardOK(shard[o])
  BY DEF IInv, Transaction, Lives, OwnerLife, Locks, LInv, Shards
<1>1. clock' = clock /\ call' = call
  BY DEF OwnerReserve, OwnerPrepare, OwnerApply, OwnerRelease, callers
<1>2. \E ok, reply : Acknowledge(ok, reply)
  BY DEF OwnerReserve, OwnerPrepare, OwnerApply, OwnerRelease
<1>3. /\ co'.request = co.request /\ co'.plan = co.plan /\ co'.phase = co.phase
      /\ co'.reply = co.reply /\ co'.parts = co.parts
  <2>1. Keeping(CoFields \ {"ack"})
    BY <1>0, <1>2, AckIs
  <2>2. QED
    BY <2>1 DEF Keeping, CoFields
<1>4. \A x \in Owners : x # o => owner'[x] = owner[x]
  BY <1>0 DEF OwnerReserve, OwnerPrepare, OwnerApply, OwnerRelease
<1>5. \A x \in Owners : x # o => shard'[x] = shard[x]
  BY <1>0 DEF OwnerReserve, OwnerPrepare, OwnerApply, OwnerRelease
<1>6. ASSUME NEW x \in Owners, x # o PROVE Visible(x)' = Visible(x)
  <2>1. Awaited(x)' <=> Awaited(x)
    BY <1>3, <1>4, <1>6 DEF Awaited, Reserved
  <2>2. QED
    BY <1>3, <1>5, <1>6, <2>1, VisibleStays
<1>7. SUFFICES Visible(o)' = Visible(o)
  BY <1>1, <1>3, <1>6, Unseen
<1>8. CASE OwnerReserve(o) \/ OwnerRelease(o)
  <2>1. co.phase \in {"reserve", "release"} /\ shard' = shard
    BY <1>8, PartInFlight DEF OwnerReserve, OwnerRelease, Transactional
  <2>2. ~Awaited(o) /\ ~Awaited(o)'
    BY <1>3, <2>1 DEF Awaited
  <2>3. QED
    BY <2>1, <2>2, VisibleStays
<1>9. CASE OwnerPrepare(o)
  <2>1. /\ co.phase = "prepare" /\ shard' = shard /\ co.part \in 1 .. Len(co.parts)
        /\ o = co.parts[co.part].owner
    BY <1>9, PartInFlight DEF OwnerPrepare, Transactional
  <2>2. Reserved(o)
    BY <2>1, AllReserved
  <2>3. DOMAIN owner[o].reservation = {"held", "id", "prepared"}
    BY <2>2 DEF IInv, Locks, OwnerLock
  <2>4. \E x : owner' = [owner EXCEPT ![o].reservation.prepared = x]
    BY <1>9 DEF OwnerPrepare
  <2>5. owner'[o].reservation.held = owner[o].reservation.held
    BY <1>0, <2>3, <2>4 DEF OwnerFields
  <2>6. Awaited(o)' <=> Awaited(o)
    BY <1>3, <2>1, <2>5 DEF Awaited, Reserved
  <2>7. QED
    BY <1>3, <2>1, <2>6, VisibleStays
<1>10. CASE OwnerApply(o)
  <2> DEFINE p == owner[o].reservation.prepared
  <2>1. Controlled(o, "apply") /\ shard' = [shard EXCEPT ![o] = apply(shard[o], p)]
    BY <1>10 DEF OwnerApply
  <2>2. /\ co.phase = "apply" /\ Coordinating /\ co.part \in 1 .. Len(co.parts)
        /\ o = co.parts[co.part].owner
    BY <2>1, PartInFlight DEF Transactional
  <2>3. /\ co.plan.made /\ Reserved(o) /\ p.ok
        /\ p.effects = co.plan.effects[co.part] /\ EffectsOK(co.plan.effects[co.part])
    BY <2>1, AppliesThePlan
  <2>4. Awaited(o)
    BY <2>2, <2>3 DEF Awaited
  <2>5. Visible(o) = Install(shard[o].entries, co.plan.effects[co.part])
    BY <2>2, <2>4, VisiblePart
  <2>6. DOMAIN owner[o].reservation = {"held", "id", "prepared"}
    BY <2>3 DEF IInv, Locks, OwnerLock
  <2>7. owner'[o].reservation.prepared = NothingPrepared
    BY <1>0, <1>10, <2>6 DEF OwnerApply, OwnerFields
  <2>8. ~Awaited(o)'
    BY <1>3, <2>2, <2>7 DEF Awaited, NothingPrepared
  <2> HIDE DEF p
  <2>9. shard'[o].entries = Install(shard[o].entries, p.effects)
    BY <1>0, <2>1, <2>3, ShardSteps
  <2>10. QED
    BY <2>3, <2>5, <2>8, <2>9 DEF Visible
<1>11. QED
  BY <1>8, <1>9, <1>10

\* The steps of owner_loop.
LEMMA OwnersSimulated ==
    ASSUME IInv, LInv, NEW o \in Owners, OwnerStep(o)
    PROVE  Simulated
<1>1. CASE OwnerReserve(o) \/ OwnerPrepare(o) \/ OwnerApply(o) \/ OwnerRelease(o)
  BY <1>1, TransactionalSimulated
<1>2. CASE OwnerTick(o)
  BY <1>2, TickSimulated
<1>3. ASSUME \/ OwnerDataTurn(o) \/ OwnerStats(o) \/ OwnerStop(o) \/ OwnerControlClosed(o)
             \/ OwnerData(o) \/ OwnerExit(o)
      PROVE  /\ co' = co /\ clock' = clock
             /\ \A x \in Owners : owner'[x].reservation = owner[x].reservation
             /\ call' = call /\ shard' = shard => Simulated
  <2>1. Protected /\ co' = co
    BY <1>3, OwnerProtects DEF IInv
  <2>2. clock' = clock
    BY <1>3 DEF OwnerDataTurn, OwnerStats, OwnerStop, OwnerControlClosed, OwnerData, OwnerExit
  <2>3. \A x \in Owners : owner'[x].reservation = owner[x].reservation
    BY <2>1 DEF Protected
  <2>4. ASSUME call' = call, shard' = shard PROVE Simulated
    <3>1. \A x \in Owners : Visible(x)' = Visible(x)
      BY <2>1, <2>3, <2>4, OwnerUnseen
    <3>2. QED
      BY <2>1, <2>2, <2>4, <3>1, Unseen
  <2>5. QED
    BY <2>1, <2>2, <2>3, <2>4
<1>4. CASE OwnerStats(o) \/ OwnerStop(o) \/ OwnerControlClosed(o) \/ OwnerExit(o)
  BY <1>3, <1>4 DEF OwnerStats, OwnerStop, OwnerControlClosed, OwnerExit, callers
<1>5. CASE OwnerData(o)
  <2>1. queue[o] # <<>> /\ ~Reserved(o) /\ ExecuteLocal(o)
    BY <1>5 DEF OwnerData, DataReady
  <2>2. QED
    BY <1>3, <1>5, <2>1, LocalSimulated
<1>6. CASE OwnerDataTurn(o)
  <2>1. CASE queue[o] # <<>>
    <3>1. ~Reserved(o) /\ ExecuteLocal(o)
      BY <1>6, <2>1 DEF OwnerDataTurn, DataTurnDue
    <3>2. QED
      BY <1>3, <1>6, <2>1, <3>1, LocalSimulated
  <2>2. CASE queue[o] = <<>>
    BY <1>3, <1>6, <2>2 DEF OwnerDataTurn, callers
  <2>3. QED
    BY <2>1, <2>2
<1>7. QED
  BY <1>1, <1>2, <1>4, <1>5, <1>6 DEF OwnerStep

-----------------------------------------------------------------------------
(***************************************************************************)
(* The steps of the coordinator.                                           *)
(***************************************************************************)
\* The part of a participant concerns that owner alone.
LEMMA PartIsLocal ==
    ASSUME NEW op \in Operations, op.type \in MultiKeyTypes, NEW o \in Participants(op)
    PROVE  Participants(PartOperation(op, o)) = {o}
<1>1. KeySet(PartOperation(op, o)) = {k \in KeySet(op) : Route[k] = o}
  BY PartKeys
<1>2. \E k \in KeySet(op) : Route[k] = o
  BY DEF Participants
<1>3. QED
  BY <1>1, <1>2 DEF Participants

\* The participants are the owners of the parts, and once the clock is sampled exactly
\* they are reserved.
LEMMA ReservedParts ==
    ASSUME IInv, CoReserved, LastPart, NEW o \in Owners
    PROVE  /\ Reserved(o) <=> o \in Participants(CoOp)
           /\ Reserved(o) => \E j \in 1 .. Len(co.parts) : co.parts[j].owner = o
<1>1. co.phase = "reserve" /\ co.ack.arrived /\ Coordinating /\ co.part = Len(co.parts)
  BY DEF CoReserved, CoAcked, Coordinating, LastPart
<1>2. /\ CoOp \in Operations /\ Len(co.parts) = Parts(CoOp) /\ Len(co.parts) \in Nat
      /\ \A j \in 1 .. Len(co.parts) :
            co.parts[j].owner = Part(CoOp, j) /\ co.parts[j].owner \in Participants(CoOp)
  BY <1>1, TransactionParts DEF IInv
<1>3. \A j \in 1 .. Len(co.parts) : Reserved(co.parts[j].owner)
  <2> TAKE j \in 1 .. Len(co.parts)
  <2>1. j < co.part \/ j = co.part
    BY <1>1, <1>2
  <2>2. PartHeld(j)
    BY <1>1, <2>1 DEF PartHeld
  <2>3. QED
    BY <1>1, <2>2 DEF IInv, Locks, PartLock
<1>4. Reserved(o) => \E j \in 1 .. Len(co.parts) : co.parts[j].owner = o
  BY DEF IInv, Locks, OwnerLock
<1>5. ASSUME o \in Participants(CoOp) PROVE Reserved(o)
  <2>1. PICK k \in KeySet(CoOp) : o = Route[k]
    BY <1>5 DEF Participants
  <2>2. PICK j \in 1 .. Parts(CoOp) : Part(CoOp, j) = o
    BY <1>2, <2>1, PartNumbers
  <2>3. QED
    BY <1>2, <1>3, <2>2
<1>6. QED
  BY <1>2, <1>4, <1>5

\* The number of an owner's part.
LEMMA PartOfIs ==
    ASSUME IInv, Coordinating, NEW j \in 1 .. Len(co.parts)
    PROVE  PartOf(co.parts, co.parts[j].owner) = j
<1>1. /\ DOMAIN co.parts = 1 .. Len(co.parts)
      /\ \A x, y \in 1 .. Len(co.parts) : co.parts[x].owner = co.parts[y].owner => x = y
  BY TransactionParts DEF IInv
<1> DEFINE i == PartOf(co.parts, co.parts[j].owner)
<1>2. i \in DOMAIN co.parts /\ co.parts[i].owner = co.parts[j].owner
  BY <1>1 DEF PartOf
<1> HIDE DEF i
<1>3. i = j
  BY <1>1, <1>2
<1>4. QED
  BY <1>3 DEF i

\* A cross-owner command takes effect when the clock is sampled, if nothing will
\* refuse it.
LEMMA ReservedSimulated ==
    ASSUME IInv, LInv, CoReserved, LastPart
    PROVE  Simulated
<1>0. PICK r, op : r = co.request /\ op = CoOp
  OBVIOUS
<1>1. co.phase = "reserve" /\ co.ack.arrived /\ Coordinating /\ DOMAIN co = CoFields
  BY DEF CoReserved, CoAcked, Coordinating, IInv, Transaction
<1>2. /\ op \in Operations /\ op.type \in MultiKeyTypes /\ r \in Requests /\ Accepted(r)
      /\ Len(co.parts) = Parts(op) /\ Len(co.parts) \in Nat
      /\ DOMAIN co.parts = 1 .. Len(co.parts)
      /\ \A j \in 1 .. Len(co.parts) :
            /\ co.parts[j].owner = Part(op, j)
            /\ co.parts[j].owner \in Owners /\ co.parts[j].owner \in Participants(op)
            /\ co.parts[j].operation = PartOperation(op, Part(op, j))
            /\ co.parts[j].operation \in Operations
            /\ co.parts[j].operation.type \in MultiKeyTypes
  BY <1>0, <1>1, TransactionParts DEF IInv
<1> DEFINE foreseen == Foreseen(clock)
           plan == Foresee(op, foreseen)
<1>3. /\ co' = [Advance("prepare") EXCEPT !.now = clock, !.plan = plan]
      /\ call' = call /\ owner' = owner /\ shard' = shard /\ clock' = clock
  BY <1>0 DEF CoReserved, CoAcked, callers, owners
<1> HIDE DEF plan
<1>4. Keeping({"results", "reply"}) /\ co'.plan = plan /\ Advanced("prepare")
  BY <1>1, <1>3, CoKeeps, CoAdvances
<1>5. co'.phase = "prepare" /\ co'.parts = co.parts /\ co'.request = r /\ co'.plan = plan
  BY <1>0, <1>4 DEF Advanced
<1>6. ~co.plan.made /\ co.plan.made \in BOOLEAN /\ plan.made \in BOOLEAN /\ co'.plan.made \in BOOLEAN
  <2>1. co.plan = NoPlan
    BY <1>1 DEF LInv, Unplanned
  <2>2. ~co.plan.made /\ co.plan.made \in BOOLEAN
    BY <2>1 DEF NoPlan
  <2>3. plan.made \in BOOLEAN
    BY ForeseeIs DEF plan
  <2>4. co'.plan.made \in BOOLEAN
    BY <1>5, <2>3
  <2>5. QED
    BY <2>2, <2>3, <2>4
<1>7. \A x \in Owners : ~Awaited(x) /\ (Awaited(x)' <=> plan.made /\ Reserved(x))
  BY <1>1, <1>3, <1>5, <1>6 DEF Awaited, Reserved
<1>8. /\ AbstractCall(r) = [state |-> "open", op |-> op, reply |-> None]
      /\ plan.made => AbstractCall(r)' = [state |-> "decided", op |-> op, reply |-> plan.reply]
  <2>1. AbstractCall(r) = CallSeen(r, call[r], co) /\ AbstractCall(r)' = CallSeen(r, call[r], co')
    BY <1>3, SeenIs
  <2>2. call[r].pc \in {"queued", "detached"} /\ call[r].op = op
    BY <1>0, <1>2 DEF Accepted, CoOp
  <2>3. ~Settled(r, co)
    BY <1>1, <1>6 DEF Settled
  <2>4. AbstractCall(r) = [state |-> "open", op |-> op, reply |-> None]
    BY <1>6, <2>1, <2>2, <2>3, SeenAs
  <2>5. ASSUME plan.made
        PROVE  AbstractCall(r)' = [state |-> "decided", op |-> op, reply |-> plan.reply]
    <3>1. co'.plan.made /\ r = co'.request
      BY <1>5, <2>5
    <3>2. AbstractCall(r)' = [state |-> "decided", op |-> call[r].op, reply |-> co'.plan.reply]
      BY <2>1, <2>2, <3>1, SeenSettled
    <3>3. QED
      BY <1>5, <2>2, <3>2
  <2>6. QED
    BY <2>4, <2>5
<1>9. CASE ~plan.made
  <2>1. \A x \in Owners : Visible(x)' = Visible(x)
    <3> TAKE x \in Owners
    <3>1. ~Awaited(x) /\ ~Awaited(x)'
      BY <1>7, <1>9
    <3>2. QED
      BY <1>3, <3>1, VisibleStays
  <2>2. Database' = Database
    BY <2>1, SameDatabase
  <2>3. \A x \in Requests : AbstractCall(x)' = AbstractCall(x)
    <3>1. \A x : ~Settled(x, co) /\ ~Settled(x, co')
      BY <1>1, <1>5, <1>6, <1>9 DEF Settled
    <3>2. QED
      BY <1>3, <3>1, SeenSame
  <2>4. QED
    BY <1>3, <2>2, <2>3, StutterStep DEF Simulated
<1>10. CASE plan.made
  <2> DEFINE part == [x \in Participants(op) |-> PartOperation(op, x)]
             view == View(Database, clock)
  <2>1. DOMAIN foreseen = 1 .. Len(co.parts)
    BY <1>2 DEF Foreseen
  <2>2. /\ \A i \in 1 .. Len(co.parts) : foreseen[i].ok /\ plan.effects[i] = foreseen[i].effects
        /\ plan.reply = combine(op, [i \in 1 .. Len(co.parts) |-> foreseen[i].reply])
    <3> HIDE DEF foreseen
    <3>1. QED
      BY <1>10, <2>1, ForeseeIs DEF plan
  <2>3. ASSUME NEW j \in 1 .. Len(co.parts), NEW x, x = co.parts[j].owner
        PROVE  LET c == Command(Visible(x), PartOperation(op, x), clock)
               IN  /\ c.ok
                   /\ Visible(x)' = Install(Visible(x), c.effects)
                   /\ foreseen[j].reply = NewReply(PartOperation(op, x), clock, View(Database, clock))
    <3> DEFINE c == Command(Visible(x), PartOperation(op, x), clock)
    <3>1. /\ x \in Owners /\ x \in Participants(op) /\ x = Part(op, j)
          /\ co.parts[j].operation = PartOperation(op, x)
          /\ PartOperation(op, x) \in Operations
      BY <1>2, <2>3
    <3>2. Visible(x) = shard[x].entries
      BY <1>7, <3>1 DEF Visible
    <3>3. foreseen[j] = prepare(shard[x], PartOperation(op, x), clock, shard_limits(x))
      BY <1>2, <2>3, <3>1, OutlookIs
    <3> HIDE DEF foreseen
    <3>4. c.ok /\ foreseen[j].effects = c.effects /\ foreseen[j].reply = c.reply
      BY <2>2, <3>2, <3>3, PrepareOutcome
    <3>5. Awaited(x)'
      BY <1>0, <1>7, <1>10, <3>1, ReservedParts
    <3>6. PartOf(co'.parts, x) = j
      BY <1>1, <1>5, <2>3, PartOfIs
    <3>7. Visible(x)' = Install(shard[x].entries, plan.effects[j])
      BY <1>3, <1>5, <3>5, <3>6 DEF Visible
    <3>8. Participants(PartOperation(op, x)) = {x}
      BY <1>2, <3>1, PartIsLocal
    <3>9. c.reply = NewReply(PartOperation(op, x), clock, View(Database, clock))
      BY <3>1, <3>4, <3>8, LocalMeans
    <3>10. QED
      BY <2>2, <3>2, <3>4, <3>7, <3>9
  <2>4. ASSUME NEW x \in Participants(op)
        PROVE  /\ CarriesOut(clock, Visible(x), Visible(x)', part[x])
               /\ KeySet(part[x]) = {k \in KeySet(op) : Route[k] = x}
               /\ \A k \in KeySet(part[x]) :
                     NewEntry(part[x], clock, View(Database, clock), k)
                       = NewEntry(op, clock, View(Database, clock), k)
    <3>1. part[x] = PartOperation(op, x) /\ x \in Owners
      BY <1>2, ParticipantsFinite
    <3>2. PICK j \in 1 .. Len(co.parts) : co.parts[j].owner = x
      BY <1>0, <3>1, ReservedParts
    <3>3. CarriesOut(clock, Visible(x), Visible(x)', PartOperation(op, x))
      <4>1. PartOperation(op, x) \in Operations
        BY <1>2, PartKeys
      <4>2. QED
        BY <2>3, <3>2, <4>1 DEF CarriesOut
    <3>4. KeySet(PartOperation(op, x)) = {k \in KeySet(op) : Route[k] = x}
      BY <1>2, PartKeys
    <3>5. \A k \in KeySet(PartOperation(op, x)) :
             NewEntry(PartOperation(op, x), clock, View(Database, clock), k)
               = NewEntry(op, clock, View(Database, clock), k)
      BY <1>2, PartEntry
    <3> HIDE DEF part
    <3>6. QED
      BY <3>1, <3>3, <3>4, <3>5
  <2>5. \A x \in Owners : x \notin Participants(op) => Visible(x)' = Visible(x)
    <3> SUFFICES ASSUME NEW x \in Owners, x \notin Participants(op) PROVE Visible(x)' = Visible(x)
      OBVIOUS
    <3>1. ~Awaited(x) /\ ~Awaited(x)'
      BY <1>0, <1>7, ReservedParts
    <3>2. QED
      BY <1>3, <3>1, VisibleStays
  <2>6. Refusal(op, clock, View(Database, clock)) = None
    BY <1>2, MultiNeverRefused
  <2>7. plan.reply = NewReply(op, clock, View(Database, clock))
    <3> DEFINE results == [i \in 1 .. Len(co.parts) |-> foreseen[i].reply]
    <3>1. ASSUME NEW i \in 1 .. Len(co.parts)
          PROVE  results[i] = NewReply(PartOperation(op, Part(op, i)), clock, View(Database, clock))
      <4>1. co.parts[i].owner = Part(op, i)
        BY <1>2
      <4>2. foreseen[i].reply = NewReply(PartOperation(op, Part(op, i)), clock, View(Database, clock))
        BY <2>3, <4>1
      <4> HIDE DEF foreseen
      <4>3. QED
        BY <4>2
    <3>2. DOMAIN results = 1 .. Parts(op)
      BY <1>2
    <3> HIDE DEF results
    <3>3. PartReplies(op, clock, View(Database, clock), results)
      BY <1>2, <3>1, <3>2 DEF PartReplies
    <3>4. combine(op, results) = NewReply(op, clock, View(Database, clock))
      BY <1>2, <3>3, PartsCombine
    <3>5. QED
      BY <2>2, <3>4 DEF results
  <2>8. Decides(r, NewReply(op, clock, View(Database, clock))) /\ op = AbstractCall(r).op
    <3>1. CallsStay(r)
      <4>1. \A x : x # r => ~Settled(x, co) /\ ~Settled(x, co')
        BY <1>0, <1>5 DEF Settled
      <4>2. QED
        BY <1>3, <4>1, SeenSame DEF CallsStay
    <3>2. QED
      BY <1>8, <1>10, <2>7, <3>1 DEF Decides
  <2> HIDE DEF part
  <2>9. Table!Commit(r)
    BY <1>2, <1>3, <2>4, <2>5, <2>6, <2>8, CommitParts
  <2>10. QED
    BY <1>2, <2>9 DEF Simulated, Table!Next
<1>11. QED
  BY <1>6, <1>9, <1>10

\* Preparing is not seen by callers, unless a part or the reply limit refuses: the
\* transaction then fails and nothing of it has been shown.
LEMMA PreparedSimulated ==
    ASSUME IInv, LInv, [Next]_vars, CoPrepared
    PROVE  Simulated
<1>1. /\ DOMAIN co = CoFields /\ co.phase = "prepare" /\ co.ack.arrived
      /\ shard' = shard /\ owner' = owner /\ call' = call /\ clock' = clock
  BY DEF IInv, Transaction, CoPrepared, CoAcked, owners, callers
<1>2. /\ co'.plan = co.plan
      /\ co'.phase = "release" =>
            ~co.plan.made /\ co'.reply \in {Error("reply_limit"), Error("oom")}
  BY PlansPrepared
<1>3. (co.ack.ok /\ Advanced("apply")) \/ Aborted
  BY <1>1, CoMoves
<1>4. co'.request = co.request /\ co'.parts = co.parts
  BY <1>3 DEF Advanced, Aborted
<1>5. CASE co'.phase = "release"
  <2>0. PICK r : r = co.request
    OBVIOUS
  <2>1. r \in Requests /\ Accepted(r)
    BY <1>1, <2>0, TransactionParts DEF IInv, Coordinating
  <2>2. \A o \in Owners : Visible(o)' = Visible(o)
    <3> TAKE o \in Owners
    <3>1. ~Awaited(o) /\ ~Awaited(o)'
      BY <1>2, <1>5 DEF Awaited
    <3>2. QED
      BY <1>1, <3>1, VisibleStays
  <2>3. Database' = Database
    BY <2>2, SameDatabase
  <2>4. CallsStay(r)
    <3>1. \A x : x # r => ~Settled(x, co) /\ ~Settled(x, co')
      BY <1>4, <2>0 DEF Settled
    <3>2. QED
      BY <1>1, <3>1, SeenSame DEF CallsStay
  <2>5. AbstractCall(r) = CallSeen(r, call[r], co) /\ AbstractCall(r)' = CallSeen(r, call[r], co')
    BY <1>1, SeenIs
  <2>6. call[r].pc \in {"queued", "detached"}
    BY <2>1 DEF Accepted
  <2>7. AbstractCall(r) = [state |-> "open", op |-> call[r].op, reply |-> None]
    <3>1. ~Settled(r, co)
      BY <1>1, <1>2, <1>5 DEF Settled
    <3>2. QED
      BY <2>5, <2>6, <3>1, SeenAs
  <2>8. AbstractCall(r)' = [state |-> "decided", op |-> call[r].op, reply |-> co'.reply]
    <3>1. ~co'.plan.made /\ r = co'.request
      BY <1>2, <1>4, <1>5, <2>0
    <3>2. QED
      BY <1>5, <2>5, <2>6, <3>1, SeenSettled
  <2>9. Decides(r, co'.reply)
    BY <2>4, <2>7, <2>8 DEF Decides
  <2>10. PICK code \in {"reply_limit", "oom"} : co'.reply = Error(code)
    BY <1>2, <1>5
  <2>11. Table!Fail(r)
    BY <1>1, <2>1, <2>3, <2>9, <2>10, FailStep DEF Table!ResourceErrors
  <2>12. QED
    BY <2>1, <2>11 DEF Simulated, Table!Next
<1>6. CASE co'.phase # "release"
  <2>1. co.ack.ok /\ Advanced("apply")
    BY <1>3, <1>6 DEF Aborted
  <2>2. \A r \in Requests : AbstractCall(r)' = AbstractCall(r)
    BY <1>1, <1>2, <1>4, <1>6, SeenSame
  <2>3. \A o \in Owners : Awaited(o)' <=> Awaited(o)
    <3>1. CASE ~LastPart
      <4>1. co'.phase = "prepare"
        BY <1>1, <2>1, <3>1 DEF Advanced
      <4>2. QED
        BY <1>1, <1>2, <4>1 DEF Awaited, Reserved
    <3>2. CASE LastPart
      <4>1. co'.phase = "apply" /\ co.part = Len(co.parts)
        BY <2>1, <3>2 DEF Advanced, LastPart
      <4>2. ASSUME NEW o \in Owners, Reserved(o) PROVE owner[o].reservation.prepared.ok
        <5>1. Coordinating
          BY <1>1 DEF Coordinating
        <5>2. PICK j \in 1 .. Len(co.parts) : co.parts[j].owner = o
          BY <4>2 DEF IInv, Locks, OwnerLock
        <5>3. j < co.part \/ j = co.part
          BY <4>1, <5>1, TransactionParts DEF IInv
        <5>4. PartPrepared(j) /\ PartHeld(j)
          BY <1>1, <2>1, <5>3 DEF PartPrepared, PartHeld
        <5>5. PartLock(j)
          BY <5>1 DEF IInv, Locks
        <5>6. QED
          BY <1>1, <5>2, <5>4, <5>5 DEF PartLock
      <4>3. QED
        BY <1>1, <1>2, <4>1, <4>2 DEF Awaited, Reserved
    <3>3. QED
      BY <3>1, <3>2
  <2>4. \A o \in Owners : Visible(o)' = Visible(o)
    <3> TAKE o \in Owners
    <3>1. Awaited(o)' <=> Awaited(o)
      BY <2>3
    <3>2. QED
      BY <1>1, <1>2, <1>4, <3>1, VisibleStays
  <2>5. Database' = Database
    BY <2>4, SameDatabase
  <2>6. QED
    BY <1>1, <2>2, <2>5, StutterStep DEF Simulated
<1>7. QED
  BY <1>5, <1>6

\* When the last part has applied, nothing is awaited any more.
LEMMA AppliedSimulated ==
    ASSUME IInv, LInv, CoApplied
    PROVE  Simulated
<1>1. /\ DOMAIN co = CoFields /\ co.phase = "apply" /\ co.ack.arrived /\ Coordinating
      /\ shard' = shard /\ owner' = owner /\ call' = call /\ clock' = clock
  BY DEF IInv, Transaction, CoApplied, CoAcked, Coordinating, owners, callers
<1>2. co.plan.made /\ co'.plan = co.plan
  BY <1>1, PlansApplied DEF LInv, Applying
<1>3. Advanced("release")
  BY <1>1, CoMoves
<1>4. co'.request = co.request /\ co'.parts = co.parts
  BY <1>3 DEF Advanced
<1>5. \A r \in Requests : AbstractCall(r)' = AbstractCall(r)
  BY <1>1, <1>2, <1>4, SeenSame
<1>6. \A o \in Owners : Awaited(o)' <=> Awaited(o)
  <2>1. CASE ~LastPart
    <3>1. co'.phase = "apply"
      BY <1>1, <1>3, <2>1 DEF Advanced
    <3>2. QED
      BY <1>1, <1>2, <3>1 DEF Awaited, Reserved
  <2>2. CASE LastPart
    <3>1. co'.phase = "release" /\ co.part = Len(co.parts)
      BY <1>3, <2>2 DEF Advanced, LastPart
    <3>2. ASSUME NEW o \in Owners, Reserved(o) PROVE ~owner[o].reservation.prepared.ok
      <4>1. PICK j \in 1 .. Len(co.parts) : co.parts[j].owner = o
        BY <3>2 DEF IInv, Locks, OwnerLock
      <4>2. ~(j > co.part)
        BY <1>1, <3>1, TransactionParts DEF IInv
      <4>3. ~PartPrepared(j) /\ PartHeld(j)
        BY <1>1, <4>2 DEF PartPrepared, PartHeld
      <4>4. PartLock(j)
        BY <1>1 DEF IInv, Locks
      <4>5. QED
        BY <1>1, <4>1, <4>3, <4>4 DEF PartLock
    <3>3. QED
      BY <1>1, <3>1, <3>2 DEF Awaited
  <2>3. QED
    BY <2>1, <2>2
<1>7. \A o \in Owners : Visible(o)' = Visible(o)
  <2> TAKE o \in Owners
  <2>1. Awaited(o)' <=> Awaited(o)
    BY <1>6
  <2>2. QED
    BY <1>1, <1>2, <1>4, <2>1, VisibleStays
<1>8. Database' = Database
  BY <1>7, SameDatabase
<1>9. QED
  BY <1>1, <1>5, <1>8, StutterStep DEF Simulated

\* The caller is answered with what was decided.
LEMMA ReleasedSimulated ==
    ASSUME IInv, LInv, CoReleased
    PROVE  Simulated
<1>1. /\ DOMAIN co = CoFields /\ co.phase = "release" /\ Coordinating
      /\ shard' = shard /\ owner' = owner /\ clock' = clock
  BY DEF IInv, Transaction, CoReleased, CoAcked, Coordinating, owners
<1>2. ASSUME co'.phase \in {"release", "idle"} PROVE Database' = Database
  <2>1. \A o \in Owners : Visible(o)' = Visible(o)
    <3> TAKE o \in Owners
    <3>1. ~Awaited(o) /\ ~Awaited(o)'
      BY <1>1, <1>2 DEF Awaited
    <3>2. QED
      BY <1>1, <3>1, VisibleStays
  <2>2. QED
    BY <2>1, SameDatabase
<1>3. CASE ~LastPart
  <2>1. co' = Advance("release") /\ call' = call
    BY <1>3 DEF CoReleased, callers
  <2>2. Keeping({"now", "results", "reply", "plan"}) /\ Advanced("release")
    BY <1>1, <2>1, CoKeeps, CoAdvances
  <2>3. /\ co'.phase = "release" /\ co'.request = co.request /\ co'.plan = co.plan
        /\ co'.reply = co.reply
    BY <1>1, <1>3, <2>2 DEF Keeping, Advanced
  <2>4. \A r \in Requests : AbstractCall(r)' = AbstractCall(r)
    BY <1>1, <2>1, <2>3, SeenSame
  <2>5. QED
    BY <1>1, <1>2, <2>3, <2>4, StutterStep DEF Simulated
<1>4. CASE LastPart
  <2>0. PICK r : r = co.request
    OBVIOUS
  <2>1. co' = IdleCoordinator(co.id) /\ Respond(r, co.reply)
    BY <1>4, <2>0 DEF CoReleased
  <2>2. co'.phase = "idle" /\ co'.request = None /\ co'.plan = NoPlan
    BY <2>1 DEF IdleCoordinator
  <2>3. r \in Requests /\ Accepted(r)
    BY <1>1, <2>0, TransactionParts DEF IInv
  <2>4. \A x \in Requests : ~Settled(x, co')
    BY <2>2, EngineAssumption DEF Settled
  <2>5. Moved(r, Answered(r)) /\ call'[r].reply = co.reply
    <3>1. Moved(r, Answered(r))
      BY <2>1, <2>3, CallMoves DEF IInv
    <3>2. call'[r].reply = co.reply
      BY <2>1, <2>3 DEF Respond, IInv, Calls, CallFields
    <3>3. QED
      BY <3>1, <3>2
  <2>6. ASSUME NEW x \in Requests, x # r PROVE AbstractCall(x)' = AbstractCall(x)
    <3>1. call'[x] = call[x]
      BY <2>5, <2>6 DEF Moved
    <3>2. ~Settled(x, co) /\ ~Settled(x, co')
      BY <2>0, <2>4, <2>6 DEF Settled
    <3>3. QED
      BY <3>1, <3>2, SeenSame
  <2>7. AbstractCall(r) = CallSeen(r, call[r], co) /\ AbstractCall(r)' = CallSeen(r, call'[r], co')
    BY SeenIs
  <2>8. AbstractCall(r)' = [state |-> "decided", op |-> call[r].op, reply |-> co.reply]
    <3>1. call'[r].pc \in {"done", "gone"} /\ call'[r].op = call[r].op
      BY <2>5 DEF Moved, Answered
    <3>2. QED
      BY <2>3, <2>4, <2>5, <2>7, <3>1, SeenAs
  <2>9. AbstractCall(r) = [state |-> "decided", op |-> call[r].op, reply |-> co.reply]
    <3>1. call[r].pc \in {"queued", "detached"}
      BY <2>3 DEF Accepted
    <3>2. CASE co.plan.made
      <4>1. co.reply = co.plan.reply
        BY <1>1, <3>2 DEF LInv, Releasing
      <4>2. QED
        BY <2>0, <2>7, <3>1, <3>2, <4>1, SeenSettled
    <3>3. CASE ~co.plan.made
      BY <1>1, <2>0, <2>7, <3>1, <3>3, SeenSettled
    <3>4. QED
      BY <3>2, <3>3
  <2>10. \A x \in Requests : AbstractCall(x)' = AbstractCall(x)
    BY <2>6, <2>8, <2>9
  <2>11. QED
    BY <1>1, <1>2, <2>2, <2>10, StutterStep DEF Simulated
<1>5. QED
  BY <1>3, <1>4

\* The steps of coordinator_loop and coordinate.
LEMMA CoordinatorSimulated ==
    ASSUME IInv, LInv, [Next]_vars, CoStep
    PROVE  Simulated
<1>0. DOMAIN co = CoFields
  BY DEF IInv, Transaction
<1>1. ASSUME CoTake \/ CoStop \/ CoFinish
      PROVE  /\ clock' = clock /\ call' = call /\ owner' = owner /\ shard' = shard
             /\ co.phase = "idle" /\ co.plan = NoPlan /\ co'.plan = NoPlan
             /\ co'.phase \in {"idle", "reserve", "finished"}
  <2>1. clock' = clock /\ call' = call /\ owner' = owner /\ shard' = shard /\ co.phase = "idle"
    BY <1>1 DEF CoTake, CoStop, CoFinish, callers, owners
  <2>2. co.plan = NoPlan
    BY <2>1 DEF LInv, Unplanned
  <2>3. CASE CoTake
    BY <2>1, <2>2, <2>3 DEF CoTake, IdleCoordinator
  <2>4. CASE CoStop
    BY <2>1, <2>2, <2>4 DEF CoStop
  <2>5. CASE CoFinish
    BY <1>0, <2>1, <2>2, <2>5 DEF CoFinish, CoFields
  <2>6. QED
    BY <1>1, <2>1, <2>2, <2>3, <2>4, <2>5
<1>2. CASE CoTake \/ CoStop \/ CoFinish
  <2>1. ~co.plan.made /\ ~co'.plan.made
    BY <1>1, <1>2 DEF NoPlan
  <2>2. \A o \in Owners : Visible(o)' = Visible(o)
    <3> TAKE o \in Owners
    <3>1. ~Awaited(o) /\ ~Awaited(o)'
      BY <2>1 DEF Awaited
    <3>2. QED
      BY <1>1, <1>2, <3>1, VisibleStays
  <2>3. Database' = Database
    BY <2>2, SameDatabase
  <2>4. \A r \in Requests : AbstractCall(r)' = AbstractCall(r)
    <3>1. \A r : ~Settled(r, co) /\ ~Settled(r, co')
      BY <1>1, <1>2, <2>1 DEF Settled
    <3>2. QED
      BY <1>1, <1>2, <3>1, SeenSame
  <2>5. QED
    BY <1>1, <1>2, <2>3, <2>4, StutterStep DEF Simulated
<1>3. CASE CoSend \/ (CoReserved /\ ~LastPart)
  <2>1. clock' = clock /\ call' = call /\ owner' = owner /\ shard' = shard
    BY <1>3 DEF CoSend, CoReserved, CoAcked, callers, owners
  <2>2. /\ co'.request = co.request /\ co'.plan = co.plan /\ co'.phase = co.phase
        /\ co'.reply = co.reply /\ co'.parts = co.parts
    <3>1. CASE CoSend
      BY <1>0, <3>1 DEF CoSend, CoFields
    <3>2. CASE CoReserved /\ ~LastPart
      <4>1. co' = Advance("prepare")
        BY <3>2 DEF CoReserved
      <4>2. Keeping({"now", "results", "reply", "plan"}) /\ Advanced("prepare")
        BY <1>0, <4>1, CoKeeps, CoAdvances
      <4>3. QED
        BY <3>2, <4>2 DEF Keeping, Advanced
    <3>3. QED
      BY <1>3, <3>1, <3>2
  <2>3. \A o \in Owners : Visible(o)' = Visible(o)
    <3> TAKE o \in Owners
    <3>1. Awaited(o)' <=> Awaited(o)
      BY <2>1, <2>2 DEF Awaited, Reserved
    <3>2. QED
      BY <2>1, <2>2, <3>1, VisibleStays
  <2>4. QED
    BY <2>1, <2>2, <2>3, Unseen
<1>4. QED
  BY <1>2, <1>3, ReservedSimulated, PreparedSimulated, AppliedSimulated, ReleasedSimulated DEF CoStep

-----------------------------------------------------------------------------
(***************************************************************************)
(* The refinement.                                                         *)
(***************************************************************************)
\* Every step of the engine is a step of the key space, or none.
LEMMA NextSimulated == IInv /\ LInv /\ [Next]_vars => Simulated
<1> SUFFICES ASSUME IInv, LInv, [Next]_vars PROVE Simulated
  OBVIOUS
<1>1. ASSUME NEW r \in Requests, CallStep(r) \/ DropFuture(r) \/ \E op \in Ops : Call(r, op)
      PROVE  Simulated
  BY <1>1, CallsSimulated
<1>2. ASSUME NEW o \in Owners, OwnerStep(o) PROVE Simulated
  BY <1>2, OwnersSimulated
<1>3. CASE CoStep
  BY <1>3, CoordinatorSimulated
<1>4. ASSUME \/ StatsCall \/ StatsStep \/ ShutdownBegin \/ ShutdownStep \/ DropEngine
             \/ ClockStep \/ UNCHANGED vars
      PROVE  call' = call /\ co' = co /\ owner' = owner /\ shard' = shard
  BY <1>4 DEF StatsCall, StatsStep, StatsSend, StatsBreak, StatsReceive, ShutdownBegin,
              ShutdownStep, ShutdownStopCross, ShutdownJoinCross, ShutdownStopOwner, ShutdownJoin,
              ShutdownAt, DropEngine, ClockStep, vars, callers, owners
<1>5. CASE \/ StatsCall \/ StatsStep \/ ShutdownBegin \/ ShutdownStep \/ DropEngine
           \/ ClockStep \/ UNCHANGED vars
  <2>1. Database' = Database
    BY <1>4, <1>5, OwnersQuiet
  <2>2. \A r \in Requests : AbstractCall(r)' = AbstractCall(r)
    BY <1>4, <1>5, SeenSame
  <2>3. clock' \in Times /\ (clock' = clock \/ ClockStep)
    BY ClockNext DEF LInv
  <2>4. CASE clock' = clock
    BY <2>1, <2>2, <2>4, StutterStep DEF Simulated
  <2>5. CASE ClockStep
    <3>1. Table!Tick
      BY <2>1, <2>2, <2>3 DEF Table!Tick
    <3>2. QED
      BY <3>1 DEF Simulated, Table!Next
  <2>6. QED
    BY <2>3, <2>4, <2>5
<1>6. QED
  BY <1>1, <1>2, <1>3, <1>5 DEF Next

\* The engine starts as an empty table with no call.
LEMMA InitSimulated == Init => Table!Init
<1> SUFFICES ASSUME Init PROVE Table!Init
  OBVIOUS
<1>1. /\ clock \in Times /\ shard = [o \in Owners |-> NewShard]
      /\ call = [r \in Requests |-> [pc |-> "idle", op |-> None, reply |-> None]]
      /\ co = IdleCoordinator(0)
  BY DEF Init
<1>2. co.plan = NoPlan /\ co.request = None /\ co.phase = "idle"
  BY <1>1 DEF IdleCoordinator
<1>3. \A o \in Owners : ~Awaited(o)
  BY <1>2 DEF Awaited
<1>4. \A o \in Owners : Visible(o) = EmptyMap
  BY <1>1, <1>3 DEF Visible, NewShard
<1>5. Database = [k \in {} |-> None]
  <2>1. DOMAIN EmptyMap = {}
    BY DEF EmptyMap
  <2>2. \A k \in Keys : Route[k] \in Owners
    BY EngineAssumption
  <2>3. {x \in Keys : x \in DOMAIN [o \in Owners |-> Visible(o)][Route[x]]} = {}
    BY <1>4, <2>1, <2>2
  <2>4. QED
    BY <2>3 DEF Database
<1>6. \A r \in Requests : AbstractCall(r) = [state |-> "idle", op |-> None, reply |-> None]
  <2> TAKE r \in Requests
  <2>1. AbstractCall(r) = CallSeen(r, call[r], co)
    BY SeenIs
  <2>2. ~Settled(r, co)
    BY <1>2, EngineAssumption DEF Settled
  <2>3. call[r].pc = "idle" /\ call[r].op = None
    BY <1>1
  <2>4. QED
    BY <2>1, <2>2, <2>3, SeenAs
<1>7. QED
  BY <1>1, <1>5, <1>6 DEF Table!Init, Table!Call

\* For every number of workers, requests, keys and operations, every queue and reply
\* limit, and every behaviour of the clock: the engine's commands are linearizable.
\* Cross-owner commands are never seen half done, refused, timed-out and abandoned ones
\* have no effect, and every reply is that of the instant of effect.
THEOREM EngineLinearizable == Spec => Linearizable
<1>1. Init => IInv /\ LInv
  BY InitIInv, InitLInv
<1>2. IInv /\ LInv /\ [Next]_vars => (IInv /\ LInv)'
  BY NextIInv, NextLInv
<1>3. Init => Table!Init
  BY InitSimulated
<1>4. IInv /\ LInv /\ [Next]_vars => [Table!Next]_(Table!vars)
  BY NextSimulated DEF Simulated
<1>5. QED
  BY <1>1, <1>2, <1>3, <1>4, PTL DEF Spec, Linearizable, Table!Spec
=============================================================================
