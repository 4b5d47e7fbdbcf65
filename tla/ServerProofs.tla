---------------------------- MODULE ServerProofs ----------------------------
(***************************************************************************)
(* Theorems about Server, for every finite set of clients, every script,   *)
(* every number of permits and every configuration of the session, and     *)
(* about SessionGate, for every password, every set of supplied passwords, *)
(* user names and names, and every sequence of commands; and about         *)
(* Settings, for every command line, every environment and every file.     *)
(***************************************************************************)
EXTENDS Server, SessionGate, Settings, SumTheorems

\* A connection has the fields of NoConnection, Metrics those of NoMetrics.
ConnectionFields ==
    {"pc", "script", "wire", "gone", "sent", "input", "session", "reply", "close"}

IsConnection(x) == x = [field \in ConnectionFields |-> x[field]]

MetricsFields ==
    {"active_connections", "total_connections", "rejected_connections", "total_commands",
     "protocol_errors", "io_timeouts"}

IsMetrics(x) == x = [field \in MetricsFields |-> x[field]]

\* The shape of the state; nothing is said of what clients send.
Shape ==
    /\ server \in {"accept", "spawn", "join", "engine", "returned"}
    /\ stop \in BOOLEAN
    /\ permits \in Nat
    /\ IsMetrics(metrics) /\ metrics.active_connections \in Int
    /\ conn = [c \in Clients |-> conn[c]]
    /\ \A c \in Clients : IsConnection(conn[c])
    /\ engine = [c \in Clients |-> engine[c]]
    /\ late \in [Clients -> Nat]

\* The clients whose connection stands at one of these places.
In(places) == {c \in Clients : conn[c].pc \in places}

\* A connection that its guard still counts in connected_clients.
Counted == Running \cup {"drop"}

\* A connection that has a permit.
Permitted == Counted \cup {"accepted", "release"}

\* Every permit is free or held by one connection, and the counter of active
\* connections is the number of guards that have not been dropped.
Accounts ==
    /\ permits + Cardinality(In(Permitted)) = MaxConnections
    /\ metrics.active_connections = Cardinality(In(Counted))

\* A connection that has begun a request after the stop signal is not going to
\* decode or to read again.
Lateness ==
    \A c \in Clients :
        /\ late[c] <= 1
        /\ ~stop => late[c] = 0
        /\ late[c] = 1 =>
             conn[c].pc \in {"top", "engine", "write", "drop", "release", "finished", "joined"}

\* The engine works for a connection exactly while the connection waits for it;
\* when the engine is shut down every task has been joined.
Quiet ==
    /\ \A c \in Clients : engine[c] = "idle" <=> conn[c].pc # "engine"
    /\ server \in {"accept", "spawn"} <=> ~stop
    /\ server \in {"engine", "returned"} => AllJoined

IInv == Shape /\ Accounts /\ Lateness /\ Quiet

-----------------------------------------------------------------------------
\* Two sets that differ at most in one element differ by at most one in size.
LEMMA CountMoves ==
    ASSUME NEW A \in SUBSET Clients, NEW B \in SUBSET Clients, NEW c \in Clients,
           A \ {c} = B \ {c}
    PROVE  /\ Cardinality(A) \in Nat
           /\ Cardinality(B) = Cardinality(A)
                + (IF c \in B THEN 1 ELSE 0) - (IF c \in A THEN 1 ELSE 0)
<1> DEFINE others == A \ {c}
<1>1. IsFiniteSet(others) /\ c \notin others
  BY ServerAssumption, FS_Subset
<1>2. Cardinality(others) \in Nat /\ Cardinality(others \cup {c}) = Cardinality(others) + 1
  BY <1>1, FS_CardinalityType, FS_AddElement
<1>3. ASSUME NEW S \in SUBSET Clients, S \ {c} = others
      PROVE  Cardinality(S) = Cardinality(others) + (IF c \in S THEN 1 ELSE 0)
  <2>1. CASE c \in S
    <3>1. S = others \cup {c}
      BY <1>3, <2>1
    <3>2. QED
      BY <1>2, <2>1, <3>1
  <2>2. CASE c \notin S
    <3>1. S = others
      BY <1>3, <2>2
    <3>2. QED
      BY <1>2, <2>2, <3>1
  <2>3. QED
    BY <2>1, <2>2
<1>4. /\ Cardinality(A) = Cardinality(others) + (IF c \in A THEN 1 ELSE 0)
      /\ Cardinality(B) = Cardinality(others) + (IF c \in B THEN 1 ELSE 0)
  BY <1>3
<1> HIDE DEF others
<1>5. QED
  BY <1>2, <1>4

\* The step moves the connection of c to this place, and no other connection.
Moves(c, to) ==
    /\ conn' = [d \in Clients |-> conn'[d]]
    /\ \A d \in Clients : IsConnection(conn'[d])
    /\ \A d \in Clients : conn'[d].pc = IF d = c THEN to ELSE conn[d].pc

\* Writing a connection moves that connection.
LEMMA UpdateMoves ==
    ASSUME Shape, NEW c \in Clients, NEW x, IsConnection(x), conn' = [conn EXCEPT ![c] = x]
    PROVE  Moves(c, x.pc)
  BY DEF Shape, Moves

\* So does changing its place in the handler.
LEMMA GoToMoves ==
    ASSUME Shape, NEW c \in Clients, NEW to, GoTo(c, to)
    PROVE  Moves(c, to)
  BY DEF Shape, GoTo, IsConnection, ConnectionFields, Moves

\* What dropping a part of its guard leaves of a connection.
GuardDropped(x) == {[x EXCEPT !.pc = "release"], Dropped(x)}

\* It keeps its script and what was sent.
LEMMA DroppedConnection ==
    ASSUME NEW x, IsConnection(x), NEW y \in GuardDropped(x)
    PROVE  y.pc \in {"release", "finished"} /\ y.script = x.script /\ y.sent = x.sent
<1>1. CASE y = [x EXCEPT !.pc = "release"]
  BY <1>1 DEF IsConnection, ConnectionFields, Dropped
<1>2. CASE y = Dropped(x)
  BY <1>2 DEF IsConnection, ConnectionFields, Dropped
<1>3. QED
  BY <1>1, <1>2 DEF GuardDropped

\* How a move changes the two counts of Accounts.
LEMMA MoveCounts ==
    ASSUME Shape, NEW c \in Clients, NEW to, Moves(c, to), NEW P
    PROVE  /\ Cardinality(In(P)) \in Nat
           /\ Cardinality(In(P)') = Cardinality(In(P))
                + (IF to \in P THEN 1 ELSE 0) - (IF conn[c].pc \in P THEN 1 ELSE 0)
<1>1. In(P) \in SUBSET Clients /\ In(P)' \in SUBSET Clients /\ In(P) \ {c} = In(P)' \ {c}
  BY DEF In, Moves
<1>2. (c \in In(P)' <=> to \in P) /\ (c \in In(P) <=> conn[c].pc \in P)
  BY DEF In, Moves
<1>3. QED
  BY <1>1, <1>2, CountMoves

\* A counter other than active_connections moves.
LEMMA CountKeepsActive ==
    ASSUME Shape, NEW m \in {"total_connections", "rejected_connections", "total_commands",
                             "protocol_errors", "io_timeouts"},
           Count(m)
    PROVE  /\ IsMetrics(metrics')
           /\ metrics'.active_connections = metrics.active_connections
  BY DEF Shape, Count, IsMetrics, MetricsFields

\* What a step has to show that leaves the server, the engine and the accounts
\* alone and moves one connection between two places of the same standing.
LEMMA PlainMove ==
    ASSUME IInv, NEW c \in Clients, NEW to, Moves(c, to),
           conn[c].pc \in Permitted <=> to \in Permitted,
           conn[c].pc \in Counted <=> to \in Counted,
           conn[c].pc # "engine", to # "engine",
           late[c] = 1 /\ stop =>
              to \in {"top", "write", "drop", "release", "finished", "joined"},
           server \in {"engine", "returned"} => to \in {"none", "refused", "joined"},
           UNCHANGED <<server, stop, permits, engine, late>>,
           IsMetrics(metrics'), metrics'.active_connections = metrics.active_connections
    PROVE  IInv'
<1>1. Shape'
  BY DEF IInv, Shape, Moves
<1>2. Accounts'
  <2>1. Cardinality(In(Permitted)') = Cardinality(In(Permitted))
    BY MoveCounts DEF IInv
  <2>2. Cardinality(In(Counted)') = Cardinality(In(Counted))
    BY MoveCounts DEF IInv
  <2>3. QED
    BY <2>1, <2>2 DEF IInv, Accounts
<1>3. Lateness'
  BY DEF IInv, Lateness, Moves, Shape
<1>4. Quiet'
  BY DEF IInv, Quiet, Moves, AllJoined
<1>5. QED
  BY <1>1, <1>2, <1>3, <1>4 DEF IInv

-----------------------------------------------------------------------------
\* The invariant holds before the first client connects.
LEMMA InitIInv == Init => IInv
<1> SUFFICES ASSUME Init PROVE IInv
  OBVIOUS
<1>1. \A c \in Clients : conn[c].pc = "none" /\ IsConnection(conn[c])
  BY DEF Init, NoConnection, IsConnection, ConnectionFields
<1>2. Shape
  <2>1. IsMetrics(metrics) /\ metrics.active_connections \in Int
    BY DEF Init, NoMetrics, IsMetrics, MetricsFields
  <2>2. conn = [c \in Clients |-> conn[c]] /\ engine = [c \in Clients |-> engine[c]]
    BY DEF Init
  <2>3. QED
    BY <1>1, <2>1, <2>2, ServerAssumption DEF Init, Shape
<1>3. Accounts
  <2>1. In(Permitted) = {} /\ In(Counted) = {}
    BY <1>1 DEF In, Permitted, Counted, Running
  <2>2. QED
    BY <2>1, FS_EmptySet, ServerAssumption DEF Init, Accounts, NoMetrics
<1>4. Lateness /\ Quiet
  BY <1>1 DEF Init, Lateness, Quiet
<1>5. QED
  BY <1>2, <1>3, <1>4 DEF IInv

\* The steps a client takes.
LEMMA ClientSteps ==
    ASSUME IInv, NEW c \in Clients,
           (\E script \in Scripts : Connect(c, script)) \/ HangUp(c)
    PROVE  IInv'
<1> USE DEF IInv, Shape
<1>1. CASE \E script \in Scripts : Connect(c, script)
  <2>1. Moves(c, "backlog")
    <3>1. PICK script \in Scripts : Connect(c, script)
      BY <1>1
    <3> DEFINE x == [conn[c] EXCEPT !.pc = "backlog", !.script = script, !.wire = script]
    <3>2. IsConnection(x) /\ x.pc = "backlog"
      BY DEF IsConnection, ConnectionFields
    <3>3. conn' = [conn EXCEPT ![c] = x]
      BY <3>1 DEF Connect
    <3>4. QED
      BY <3>2, <3>3, UpdateMoves
  <2>2. conn[c].pc = "none" /\ server \notin {"engine", "returned"}
    BY <1>1 DEF Connect, At
  <2>3. UNCHANGED <<server, stop, permits, metrics, engine, late>>
    BY <1>1 DEF Connect
  <2>4. QED
    BY <2>1, <2>2, <2>3, PlainMove DEF Permitted, Counted, Running, Lateness
<1>2. CASE HangUp(c)
  <2>1. Moves(c, conn[c].pc)
    BY <1>2, ZenonT(30) DEF HangUp, Moves, IsConnection, ConnectionFields
  <2>2. CASE conn[c].pc # "engine"
    <3>1. UNCHANGED <<server, stop, permits, metrics, engine, late>>
      BY <1>2 DEF HangUp
    <3>2. server \in {"engine", "returned"} => conn[c].pc \in {"none", "refused", "joined"}
      BY DEF Quiet, AllJoined
    <3>3. late[c] = 1 /\ stop =>
            conn[c].pc \in {"top", "write", "drop", "release", "finished", "joined"}
      BY <2>2 DEF Lateness
    <3>4. QED
      BY <2>1, <2>2, <3>1, <3>2, <3>3, PlainMove
  <2>3. CASE conn[c].pc = "engine"
    <3>1. Shape'
      BY <1>2, <2>1 DEF HangUp, Moves
    <3>2. Accounts'
      <4>1. \A P : Cardinality(In(P)') = Cardinality(In(P))
        BY <2>1, MoveCounts
      <4>2. QED
        BY <1>2, <4>1 DEF HangUp, Accounts
    <3>3. Lateness' /\ Quiet'
      BY <1>2, <2>1 DEF HangUp, Moves, Lateness, Quiet, AllJoined
    <3>4. QED
      BY <3>1, <3>2, <3>3
  <2>4. QED
    BY <2>2, <2>3
<1>3. QED
  BY <1>1, <1>2

\* The accept loop: a permit is taken before the counter rises.
LEMMA AcceptSteps ==
    ASSUME IInv, NEW c \in Clients, Accept(c) \/ Refuse(c) \/ Spawn(c) \/ Join(c)
    PROVE  IInv'
<1> USE DEF IInv, Shape
<1>1. CASE Accept(c)
  <2>1. Moves(c, "accepted") /\ At(c, "backlog")
    BY <1>1, GoToMoves DEF Accept
  <2>2. IsMetrics(metrics') /\ metrics'.active_connections = metrics.active_connections
    BY <1>1, CountKeepsActive DEF Accept
  <2>3. Cardinality(In(Permitted)') = Cardinality(In(Permitted)) + 1
    BY <2>1, MoveCounts DEF At, Permitted, Counted, Running
  <2>4. Cardinality(In(Counted)') = Cardinality(In(Counted))
    BY <2>1, MoveCounts DEF At, Counted, Running
  <2>5. Cardinality(In(Permitted)) \in Nat /\ MaxConnections \in Nat
    BY <2>1, MoveCounts, ServerAssumption
  <2>6. Shape'
    BY <1>1, <2>1, <2>2 DEF Accept, Moves
  <2>7. Accounts'
    BY <1>1, <2>2, <2>3, <2>4, <2>5 DEF Accept, Accounts
  <2>8. Lateness' /\ Quiet'
    BY <1>1, <2>1 DEF Accept, At, Moves, Lateness, Quiet, AllJoined
  <2>9. QED
    BY <2>6, <2>7, <2>8
<1>2. CASE Refuse(c)
  <2>1. Moves(c, "refused") /\ At(c, "backlog")
    BY <1>2, GoToMoves DEF Refuse
  <2>2. IsMetrics(metrics') /\ metrics'.active_connections = metrics.active_connections
    BY <1>2, CountKeepsActive DEF Refuse
  <2>3. QED
    BY <1>2, <2>1, <2>2, PlainMove
       DEF Refuse, At, Permitted, Counted, Running, Lateness
<1>3. CASE Spawn(c)
  <2>1. Moves(c, "top") /\ At(c, "accepted")
    BY <1>3, GoToMoves DEF Spawn
  <2>2. IsMetrics(metrics') /\ metrics'.active_connections = metrics.active_connections + 1
    BY <1>3 DEF Spawn, Count, IsMetrics, MetricsFields
  <2>3. Cardinality(In(Permitted)') = Cardinality(In(Permitted))
    BY <2>1, MoveCounts DEF At, Permitted, Counted, Running
  <2>4. Cardinality(In(Counted)') = Cardinality(In(Counted)) + 1
    BY <2>1, MoveCounts DEF At, Counted, Running
  <2>5. Shape'
    BY <1>3, <2>1, <2>2 DEF Spawn, Moves
  <2>6. Accounts'
    BY <1>3, <2>2, <2>3, <2>4 DEF Spawn, Accounts
  <2>7. Lateness' /\ Quiet'
    BY <1>3, <2>1 DEF Spawn, At, Moves, Lateness, Quiet, AllJoined
  <2>8. QED
    BY <2>5, <2>6, <2>7
<1>4. CASE Join(c)
  <2>1. Moves(c, "joined") /\ At(c, "finished")
    BY <1>4, GoToMoves DEF Join
  <2>2. QED
    BY <1>4, <2>1, PlainMove DEF Join, At, Permitted, Counted, Running
<1>5. QED
  BY <1>1, <1>2, <1>3, <1>4

\* The stop: the backlog is refused, which nobody counts.
LEMMA StopSteps ==
    ASSUME IInv, Signal \/ StopAccepting \/ ShutEngine \/ Return \/ UNCHANGED vars
    PROVE  IInv'
<1> USE DEF IInv, Shape
<1>1. CASE Signal \/ UNCHANGED vars
  <2>1. UNCHANGED <<server, stop, permits, metrics, conn, engine, late>>
    BY <1>1 DEF Signal, vars, tasks
  <2>2. QED
    BY <2>1 DEF Accounts, In, Lateness, Quiet, AllJoined
<1>2. CASE StopAccepting
  <2>1. \A c \in Clients : /\ IsConnection(conn'[c])
                           /\ conn'[c].pc = IF conn[c].pc = "backlog" THEN "refused" ELSE conn[c].pc
    BY <1>2 DEF StopAccepting, At, IsConnection, ConnectionFields
  <2>2. In(Permitted)' = In(Permitted) /\ In(Counted)' = In(Counted)
    BY <2>1 DEF In, Permitted, Counted, Running
  <2>3. Shape'
    BY <1>2, <2>1 DEF StopAccepting
  <2>4. Accounts'
    BY <1>2, <2>2 DEF StopAccepting, Accounts
  <2>5. Lateness' /\ Quiet'
    BY <1>2, <2>1 DEF StopAccepting, Lateness, Quiet
  <2>6. QED
    BY <2>3, <2>4, <2>5
<1>3. CASE ShutEngine
  BY <1>3 DEF ShutEngine, tasks, Accounts, In, Lateness, Quiet, AllJoined
<1>4. CASE Return
  BY <1>4 DEF Return, tasks, Accounts, In, Lateness, Quiet, AllJoined
<1>5. QED
  BY <1>1, <1>2, <1>3, <1>4

\* A protocol error is answered, and counted in a counter of its own.
LEMMA ProtocolErrorMoves ==
    ASSUME Shape, NEW c \in Clients, ProtocolError(c)
    PROVE  /\ Moves(c, "write")
           /\ IsMetrics(metrics')
           /\ metrics'.active_connections = metrics.active_connections
<1> DEFINE x == [conn[c] EXCEPT !.pc = "write", !.reply = Failure("protocol"), !.close = TRUE]
<1>1. IsConnection(x) /\ x.pc = "write"
  BY DEF Shape, IsConnection, ConnectionFields
<1>2. conn' = [conn EXCEPT ![c] = x]
  BY DEF Shape, ProtocolError
<1>3. Moves(c, "write")
  BY <1>1, <1>2, UpdateMoves
<1>4. Count("protocol_errors")
  BY DEF ProtocolError
<1>5. QED
  BY <1>3, <1>4, CountKeepsActive

\* The loop's top and next_request: a connection moves among the places of
\* Running, or leaves for the drop of its guard, which still counts.
LEMMA ReadingSteps ==
    ASSUME IInv, NEW c \in Clients,
           \/ Top(c) \/ Await(c) \/ Reject(c) \/ Receive(c) \/ StopReading(c)
           \/ EndOfStream(c) \/ ReadFails(c) \/ ReadDeadline(c)
    PROVE  IInv'
<1> USE DEF IInv, Shape
<1>1. conn[c].pc \in {"top", "decode", "read"}
  BY Zenon DEF Top, Await, Reject, Receive, StopReading, EndOfStream, ReadFails, ReadDeadline, At
<1>2. server \notin {"engine", "returned"}
  BY <1>1 DEF Quiet, AllJoined
<1>3. UNCHANGED <<server, stop, permits, engine, late>>
  BY Zenon DEF Top, Await, Reject, Receive, StopReading, EndOfStream, ReadFails, ReadDeadline
<1>4. IsMetrics(metrics') /\ metrics'.active_connections = metrics.active_connections
  <2>1. CASE Reject(c) \/ (EndOfStream(c) /\ conn[c].input # <<>>)
    BY <2>1, ProtocolErrorMoves DEF Reject, EndOfStream
  <2>2. CASE ReadDeadline(c)
    BY <2>2, CountKeepsActive DEF ReadDeadline
  <2>3. CASE \/ Top(c) \/ Await(c) \/ Receive(c) \/ StopReading(c) \/ ReadFails(c)
             \/ (EndOfStream(c) /\ conn[c].input = <<>>)
    <3>1. UNCHANGED metrics
      BY <2>3, Zenon DEF Top, Await, Receive, StopReading, EndOfStream, ReadFails
    <3>2. QED
      BY <3>1
  <2>4. QED
    BY <2>1, <2>2, <2>3
<1>5. ASSUME NEW to \in {"write", "drop"} \cup (IF stop /\ late[c] = 1 THEN {} ELSE {"decode", "read"}),
             Moves(c, to)
      PROVE  IInv'
  BY <1>1, <1>2, <1>3, <1>4, <1>5, PlainMove DEF Permitted, Counted, Running
<1>6. CASE Top(c)
  BY <1>5, <1>6, GoToMoves DEF Top, At
<1>7. CASE Await(c)
  BY <1>5, <1>7, GoToMoves DEF Await, At, Lateness
<1>8. CASE Reject(c) \/ (EndOfStream(c) /\ conn[c].input # <<>>)
  BY <1>5, <1>8, ProtocolErrorMoves DEF Reject, EndOfStream
<1>9. CASE Receive(c)
  <2>1. PICK n \in 1 .. Len(conn[c].wire) :
          conn' = [conn EXCEPT ![c].input = @ \o SubSeq(conn[c].wire, 1, n),
                               ![c].wire = SubSeq(@, n + 1, Len(@)),
                               ![c].pc = "decode"]
    BY <1>9, Zenon DEF Receive
  <2> DEFINE x == [conn[c] EXCEPT !.input = @ \o SubSeq(conn[c].wire, 1, n),
                                  !.wire = SubSeq(@, n + 1, Len(@)),
                                  !.pc = "decode"]
  <2>2. IsConnection(x) /\ x.pc = "decode"
    BY ZenonT(30) DEF IsConnection, ConnectionFields
  <2>3. conn' = [conn EXCEPT ![c] = x]
    BY <2>1
  <2>4. Moves(c, "decode")
    BY <2>2, <2>3, UpdateMoves
  <2>5. QED
    BY <1>5, <1>9, <2>4, Zenon DEF Receive
<1>10. CASE StopReading(c) \/ ReadFails(c) \/ ReadDeadline(c)
             \/ (EndOfStream(c) /\ conn[c].input = <<>>)
  BY <1>5, <1>10, GoToMoves DEF StopReading, ReadFails, ReadDeadline, EndOfStream
<1>11. QED
  BY <1>6, <1>7, <1>8, <1>9, <1>10

\* A request begins: this is where one more may begin after the stop signal, and
\* where a call to the engine is made.
LEMMA BeginStep ==
    ASSUME IInv, NEW c \in Clients, Begin(c)
    PROVE  IInv'
<1> USE DEF IInv, Shape
<1>1. PICK to \in {"engine", "write"} :
        /\ Moves(c, to)
        /\ engine' = [engine EXCEPT ![c] = IF to = "engine" THEN "called" ELSE @]
  <2> DEFINE frame == First(conn[c].input)
             calls == frame # Unparsable /\ CallsEngine(conn[c].session, frame)
             outcome == Handle(conn[c].session, frame)
             to == IF calls THEN "engine" ELSE "write"
             x == [conn[c] EXCEPT !.input = WithoutFirst(@), !.pc = to,
                                  !.session = outcome.session, !.reply = outcome.reply,
                                  !.close = outcome.close]
  <2>1. /\ conn' = [conn EXCEPT ![c] = x]
        /\ engine' = [engine EXCEPT ![c] = IF calls THEN "called" ELSE @]
    BY DEF Begin
  <2>2. IsConnection(x) /\ x.pc = to
    BY ZenonT(30) DEF IsConnection, ConnectionFields
  <2> HIDE DEF x, calls
  <2>3. Moves(c, to)
    BY <2>1, <2>2, UpdateMoves
  <2>4. CASE calls
    BY <2>1, <2>3, <2>4
  <2>5. CASE ~calls
    BY <2>1, <2>3, <2>5
  <2>6. QED
    BY <2>4, <2>5
<1>2. conn[c].pc = "decode" /\ UNCHANGED <<server, stop, permits>>
  BY DEF Begin, At
<1>3. IsMetrics(metrics') /\ metrics'.active_connections = metrics.active_connections
  BY CountKeepsActive DEF Begin
<1>4. late' = [late EXCEPT ![c] = IF stop THEN @ + 1 ELSE @]
  BY DEF Begin
<1>5. Shape'
  <2>1. engine' = [d \in Clients |-> engine'[d]]
    BY <1>1
  <2>2. late' \in [Clients -> Nat]
    BY <1>4
  <2>3. QED
    BY <1>1, <1>2, <1>3, <2>1, <2>2 DEF Moves
<1>6. Accounts'
  <2>1. Cardinality(In(Permitted)') = Cardinality(In(Permitted))
    BY <1>1, <1>2, MoveCounts DEF Permitted, Counted, Running
  <2>2. Cardinality(In(Counted)') = Cardinality(In(Counted))
    BY <1>1, <1>2, MoveCounts DEF Counted, Running
  <2>3. QED
    BY <1>2, <1>3, <2>1, <2>2 DEF Accounts
<1>7. Lateness'
  BY <1>1, <1>2, <1>4 DEF Lateness, Moves
<1>8. Quiet'
  BY <1>1, <1>2 DEF Quiet, Moves, AllJoined
<1>9. QED
  BY <1>5, <1>6, <1>7, <1>8

\* The engine's side of a call, and its end.
LEMMA EngineSteps ==
    ASSUME IInv, NEW c \in Clients, EngineApplies(c) \/ EngineAnswers(c)
    PROVE  IInv'
<1> USE DEF IInv, Shape
<1>1. CASE EngineApplies(c)
  <2>1. /\ UNCHANGED <<server, stop, permits, metrics, conn, late>>
        /\ engine' = [engine EXCEPT ![c] = "applied"] /\ engine[c] = "called"
    BY <1>1 DEF EngineApplies
  <2>2. Accounts' /\ Lateness' /\ Shape'
    BY <2>1 DEF Accounts, In, Lateness
  <2>3. Quiet'
    BY <2>1 DEF Quiet, AllJoined
  <2>4. QED
    BY <2>2, <2>3
<1>2. CASE EngineAnswers(c)
  <2>1. Moves(c, "write")
    BY <1>2, GoToMoves DEF EngineAnswers
  <2>2. /\ UNCHANGED <<server, stop, permits, metrics, late>> /\ conn[c].pc = "engine"
        /\ engine' = [engine EXCEPT ![c] = "idle"]
    BY <1>2 DEF EngineAnswers, At
  <2>3. Shape'
    BY <2>1, <2>2 DEF Moves
  <2>4. Accounts'
    <3>1. Cardinality(In(Permitted)') = Cardinality(In(Permitted))
      BY <2>1, <2>2, MoveCounts DEF Permitted, Counted, Running
    <3>2. Cardinality(In(Counted)') = Cardinality(In(Counted))
      BY <2>1, <2>2, MoveCounts DEF Counted, Running
    <3>3. QED
      BY <2>2, <3>1, <3>2 DEF Accounts
  <2>5. Lateness' /\ Quiet'
    BY <2>1, <2>2 DEF Lateness, Quiet, Moves, AllJoined
  <2>6. QED
    BY <2>3, <2>4, <2>5
<1>3. QED
  BY <1>1, <1>2

\* The reply goes out, or fails, or is late.
LEMMA WritingSteps ==
    ASSUME IInv, NEW c \in Clients, Write(c) \/ WriteFails(c) \/ WriteDeadline(c)
    PROVE  IInv'
<1> USE DEF IInv, Shape
<1>1. conn[c].pc = "write" /\ UNCHANGED <<server, stop, permits, engine, late>>
  BY DEF Write, WriteFails, WriteDeadline, At
<1>2. server \notin {"engine", "returned"}
  BY <1>1 DEF Quiet, AllJoined
<1>3. IsMetrics(metrics') /\ metrics'.active_connections = metrics.active_connections
  <2>1. CASE WriteDeadline(c)
    BY <2>1, CountKeepsActive DEF WriteDeadline
  <2>2. CASE Write(c) \/ WriteFails(c)
    BY <2>2 DEF Write, WriteFails
  <2>3. QED
    BY <2>1, <2>2
<1>4. ASSUME NEW to \in {"top", "drop"}, Moves(c, to)
      PROVE  IInv'
  BY <1>1, <1>2, <1>3, <1>4, PlainMove DEF Permitted, Counted, Running
<1>5. CASE Write(c)
  <2>0. PICK written \in Written(conn[c].reply) :
          conn' = [conn EXCEPT ![c].sent = Append(@, written), ![c].reply = None,
                               ![c].pc = IF conn[c].close THEN "drop" ELSE "top"]
    BY <1>5 DEF Write
  <2> DEFINE to == IF conn[c].close THEN "drop" ELSE "top"
             x == [conn[c] EXCEPT !.sent = Append(@, written), !.reply = None, !.pc = to]
  <2>1. IsConnection(x) /\ x.pc = to
    BY ZenonT(30) DEF IsConnection, ConnectionFields
  <2>2. conn' = [conn EXCEPT ![c] = x]
    BY <2>0
  <2>3. Moves(c, to)
    BY <2>1, <2>2, UpdateMoves, ZenonT(30)
  <2>4. QED
    BY <1>4, <2>3
<1>6. CASE WriteFails(c) \/ WriteDeadline(c)
  BY <1>4, <1>6, GoToMoves DEF WriteFails, WriteDeadline
<1>7. QED
  BY <1>5, <1>6

\* Either part of a guard, and what it leaves.
LEMMA GuardStep ==
    ASSUME NEW c \in Clients, DropGuard(c)
    PROVE  /\ At(c, "drop") => conn' = [conn EXCEPT ![c] = [conn[c] EXCEPT !.pc = "release"]]
           /\ At(c, "release") => conn' = [conn EXCEPT ![c] = Dropped(conn[c])]
<1>1. PICK i \in {1, 2} :
        /\ At(c, <<"drop", "release">>[i])
        /\ conn' = [conn EXCEPT ![c] = IF i = 1 THEN [@ EXCEPT !.pc = "release"] ELSE Dropped(@)]
  BY DEF DropGuard
<1>2. CASE i = 1
  BY <1>1, <1>2 DEF At
<1>3. CASE i = 2
  BY <1>1, <1>3 DEF At
<1>4. QED
  BY <1>2, <1>3

\* The guard is dropped: the counter falls before the permit is given back.
LEMMA DropSteps ==
    ASSUME IInv, NEW c \in Clients, DropGuard(c)
    PROVE  IInv'
<1> USE DEF IInv, Shape
<1>1. UNCHANGED <<server, stop, engine, late>>
  BY DEF DropGuard
<1>2. CASE At(c, "drop")
  <2>1. Moves(c, "release")
    <3> DEFINE y == [conn[c] EXCEPT !.pc = "release"]
    <3>1. conn' = [conn EXCEPT ![c] = y]
      BY <1>2, GuardStep
    <3>2. IsConnection(y) /\ y.pc = "release"
      BY DEF IsConnection, ConnectionFields, Dropped
    <3> HIDE DEF y
    <3>3. QED
      BY <3>1, <3>2, UpdateMoves
  <2>2. /\ IsMetrics(metrics') /\ metrics'.active_connections = metrics.active_connections - 1
        /\ UNCHANGED permits
    BY <1>2 DEF DropGuard, At, GuardParts, IsMetrics, MetricsFields
  <2>3. Cardinality(In(Permitted)') = Cardinality(In(Permitted))
    BY <1>2, <2>1, MoveCounts DEF At, Permitted, Counted, Running
  <2>4. Cardinality(In(Counted)') = Cardinality(In(Counted)) - 1
    BY <1>2, <2>1, MoveCounts DEF At, Counted, Running
  <2>5. Shape'
    BY <1>1, <2>1, <2>2 DEF Moves
  <2>6. Accounts'
    BY <2>2, <2>3, <2>4 DEF Accounts
  <2>7. Lateness' /\ Quiet'
    BY <1>1, <1>2, <2>1 DEF At, Moves, Lateness, Quiet, AllJoined
  <2>8. QED
    BY <2>5, <2>6, <2>7
<1>3. CASE At(c, "release")
  <2>1. Moves(c, "finished")
    <3> DEFINE y == Dropped(conn[c])
    <3>1. conn' = [conn EXCEPT ![c] = y]
      BY <1>3, GuardStep
    <3>2. IsConnection(y) /\ y.pc = "finished"
      BY DEF IsConnection, ConnectionFields, Dropped
    <3> HIDE DEF y
    <3>3. QED
      BY <3>1, <3>2, UpdateMoves
  <2>2. UNCHANGED metrics /\ permits' = permits + 1
    BY <1>3 DEF DropGuard, At, GuardParts
  <2>3. /\ Cardinality(In(Permitted)) \in Nat
        /\ Cardinality(In(Permitted)') = Cardinality(In(Permitted)) - 1
    BY <1>3, <2>1, MoveCounts DEF At, Permitted, Counted, Running
  <2>4. Cardinality(In(Counted)') = Cardinality(In(Counted))
    BY <1>3, <2>1, MoveCounts DEF At, Counted, Running
  <2>5. Shape'
    BY <1>1, <2>1, <2>2 DEF Moves
  <2>6. Accounts'
    BY <2>2, <2>3, <2>4, ServerAssumption DEF Accounts
  <2>7. Lateness' /\ Quiet'
    BY <1>1, <1>3, <2>1 DEF At, Moves, Lateness, Quiet, AllJoined
  <2>8. QED
    BY <2>5, <2>6, <2>7
<1>4. At(c, "drop") \/ At(c, "release")
  BY DEF DropGuard, At
<1>5. QED
  BY <1>2, <1>3, <1>4

\* Every step of a task, a client, an owner or the server keeps it.
LEMMA StepIInv == IInv /\ [Next]_vars => IInv'
<1> SUFFICES ASSUME IInv, [Next]_vars PROVE IInv'
  OBVIOUS
<1>1. ASSUME NEW c \in Clients, Task(c) PROVE IInv'
  BY <1>1, AcceptSteps, ReadingSteps, BeginStep, EngineSteps, DropSteps DEF Task
<1>2. ASSUME NEW c \in Clients, Outside(c) PROVE IInv'
  BY <1>2, ClientSteps, AcceptSteps, ReadingSteps, WritingSteps DEF Outside
<1>3. CASE Signal \/ StopAccepting \/ ShutEngine \/ Return \/ UNCHANGED vars
  BY <1>3, StopSteps
<1>4. QED
  BY <1>1, <1>2, <1>3 DEF Next, Returned

-----------------------------------------------------------------------------
\* For every number of clients and of permits, connected_clients never exceeds
\* max_connections and never falls short of the connections that run, at
\* whatever moment an INFO reads it.
THEOREM ServerConnectedWithinLimit == Spec => []ConnectedWithinLimit
<1>1. IInv => ConnectedWithinLimit
  <2> SUFFICES ASSUME IInv PROVE ConnectedWithinLimit
    OBVIOUS
  <2>1. /\ In(Running) \subseteq In(Counted) /\ In(Counted) \subseteq In(Permitted)
        /\ IsFiniteSet(In(Permitted)) /\ IsFiniteSet(In(Counted))
    BY ServerAssumption, FS_Subset DEF In, Counted, Permitted
  <2>2. /\ Cardinality(In(Running)) <= Cardinality(In(Counted))
        /\ Cardinality(In(Counted)) <= Cardinality(In(Permitted))
        /\ Cardinality(In(Permitted)) \in Nat /\ Cardinality(In(Counted)) \in Nat
    BY <2>1, FS_Subset, FS_CardinalityType
  <2>3. metrics.active_connections <= MaxConnections
    BY <2>2, ServerAssumption DEF IInv, Shape, Accounts
  <2>4. QED
    BY <2>2, <2>3 DEF IInv, Accounts, ConnectedWithinLimit, In
<1>2. QED
  BY InitIInv, StepIInv, <1>1, PTL DEF Spec

\* After the stop signal a connection begins at most one more request, however
\* many its client has pipelined.
THEOREM ServerAtMostOneLateRequest == Spec => []AtMostOneLateRequest
<1>1. IInv => AtMostOneLateRequest
  BY DEF IInv, Lateness, AtMostOneLateRequest
<1>2. QED
  BY InitIInv, StepIInv, <1>1, PTL DEF Spec

\* Engine::shutdown begins when every task is joined and every call answered.
THEOREM ServerEngineIdleAtShutdown == Spec => []EngineIdleAtShutdown
<1>1. IInv => EngineIdleAtShutdown
  BY DEF IInv, Quiet, AllJoined, EngineIdleAtShutdown
<1>2. QED
  BY InitIInv, StepIInv, <1>1, PTL DEF Spec

-----------------------------------------------------------------------------
(***************************************************************************)
(* What a client is answered.  The invariant places every connection in    *)
(* its client's script: the frames up to p have been decoded, those up to  *)
(* q have been read.                                                       *)
(***************************************************************************)
\* The number of requests among the first p frames of a script.
Taken(script, p) == Cardinality({i \in Complete(script) : i <= p})

IsSeq(s) == s \in Seq({s[i] : i \in 1 .. Len(s)})

\* A sequence over any set is one over its own elements.
LEMMA SeqAny == ASSUME NEW S, NEW s \in Seq(S) PROVE IsSeq(s)
  BY DEF IsSeq

\* One more reply.
LEMMA SeqAppend ==
    ASSUME NEW s, IsSeq(s), NEW e
    PROVE  /\ IsSeq(Append(s, e)) /\ Len(s) \in Nat
           /\ Len(Append(s, e)) = Len(s) + 1
           /\ \A i \in 1 .. Len(s) : Append(s, e)[i] = s[i]
           /\ Append(s, e)[Len(s) + 1] = e
<1> DEFINE S == {s[i] : i \in 1 .. Len(s)} \cup {e}
           t == Append(s, e)
<1>1. s \in Seq(S) /\ Len(s) \in Nat
  BY DEF IsSeq
<1>2. t \in Seq(S) /\ Len(t) = Len(s) + 1
  BY <1>1
<1>3. (\A i \in 1 .. Len(s) : t[i] = s[i]) /\ t[Len(s) + 1] = e
  BY <1>1
<1>4. IsSeq(t)
  BY <1>2, SeqAny
<1>5. QED
  BY <1>1, <1>2, <1>3, <1>4

(***************************************************************************)
(* SessionAfter is defined by recursion over the requests; its equation    *)
(* holds, by smallest counterexamples.                                     *)
(***************************************************************************)
\* g is the session before each of the requests up to n.
SessionsTo(requests, n, g) ==
    g = [j \in 0 .. n |-> IF j = 0 THEN new ELSE Handle(g[j - 1], requests[j]).session]

\* Two such sequences agree wherever both are defined.
LEMMA SessionsUnique ==
    ASSUME NEW requests, NEW n \in Nat, NEW m \in Nat, NEW g, NEW h,
           SessionsTo(requests, n, g), SessionsTo(requests, m, h),
           NEW i \in Nat, i <= n, i <= m
    PROVE  g[i] = h[i]
<1> DEFINE Bad == {j \in Nat : j <= n /\ j <= m /\ g[j] # h[j]}
<1>1. SUFFICES ASSUME Bad # {} PROVE FALSE
  OBVIOUS
<1>2. PICK j \in Bad : \A k \in Bad : j <= k
  BY <1>1, LeastNatural
<1>3. /\ g[j] = IF j = 0 THEN new ELSE Handle(g[j - 1], requests[j]).session
      /\ h[j] = IF j = 0 THEN new ELSE Handle(h[j - 1], requests[j]).session
  BY DEF SessionsTo
<1>4. j # 0
  BY <1>2, <1>3
<1>5. j - 1 \in Nat /\ ~(j <= j - 1) /\ j - 1 <= n /\ j - 1 <= m
  BY <1>4
<1>6. g[j - 1] = h[j - 1]
  BY <1>2, <1>5
<1>7. QED
  BY <1>2, <1>3, <1>6

\* There is one for every number of requests.
LEMMA SessionsExist ==
    ASSUME NEW requests, NEW n \in Nat
    PROVE  \E g : SessionsTo(requests, n, g)
<1> DEFINE Bad == {j \in Nat : ~\E g : SessionsTo(requests, j, g)}
<1>1. SUFFICES ASSUME Bad # {} PROVE FALSE
  OBVIOUS
<1>2. PICK j \in Bad : \A k \in Bad : j <= k
  BY <1>1, LeastNatural
<1>3. CASE j = 0
  <2> DEFINE g == [i \in 0 .. 0 |-> new]
  <2>1. SessionsTo(requests, 0, g)
    BY DEF SessionsTo
  <2>2. QED
    BY <1>2, <1>3, <2>1
<1>4. CASE j # 0
  <2>1. j - 1 \in Nat /\ ~(j <= j - 1)
    BY <1>4
  <2>2. PICK g : SessionsTo(requests, j - 1, g)
    BY <1>2, <2>1
  <2> DEFINE h == [i \in 0 .. j |-> IF i = j THEN Handle(g[j - 1], requests[j]).session ELSE g[i]]
  <2>3. ASSUME NEW i \in 0 .. j
        PROVE  h[i] = IF i = 0 THEN new ELSE Handle(h[i - 1], requests[i]).session
    <3>1. CASE i = j
      BY <1>4, <2>1, <3>1
    <3>2. CASE i # j
      <4>1. g[i] = IF i = 0 THEN new ELSE Handle(g[i - 1], requests[i]).session
        BY <2>1, <2>2, <3>2 DEF SessionsTo
      <4>2. i # 0 => h[i - 1] = g[i - 1]
        BY <3>2
      <4>3. QED
        BY <3>2, <4>1, <4>2
    <3>3. QED
      BY <3>1, <3>2
  <2>4. SessionsTo(requests, j, h)
    <3>1. h = [i \in 0 .. j |-> h[i]]
      OBVIOUS
    <3> HIDE DEF h
    <3>2. QED
      BY <2>3, <3>1 DEF SessionsTo
  <2>5. QED
    BY <1>2, <2>4
<1>5. QED
  BY <1>3, <1>4

\* The sessions of a connection: a fresh one, then one request after the other.
LEMMA SessionSteps ==
    ASSUME NEW requests
    PROVE  /\ SessionAfter(requests, 0) = new
           /\ \A i \in Nat : SessionAfter(requests, i + 1)
                               = Handle(SessionAfter(requests, i), requests[i + 1]).session
<1> DEFINE upto(n) == CHOOSE g : SessionsTo(requests, n, g)
<1>1. \A n \in Nat : SessionsTo(requests, n, upto(n))
  BY SessionsExist
<1>2. \A n : SessionAfter(requests, n) = upto(n)[n]
  BY DEF SessionAfter, SessionsTo
<1> HIDE DEF upto
<1>3. upto(0)[0] = new
  BY <1>1 DEF SessionsTo
<1>4. ASSUME NEW i \in Nat
      PROVE  upto(i + 1)[i + 1] = Handle(upto(i)[i], requests[i + 1]).session
  <2>1. upto(i + 1)[i] = upto(i)[i]
    BY <1>1, SessionsUnique
  <2>2. upto(i + 1)[i + 1] = Handle(upto(i + 1)[i + 1 - 1], requests[i + 1]).session
    BY <1>1 DEF SessionsTo
  <2>3. i + 1 - 1 = i
    OBVIOUS
  <2>4. QED
    BY <2>1, <2>2, <2>3
<1>5. QED
  BY <1>2, <1>3, <1>4

(***************************************************************************)
(* The requests of a script, by position.                                  *)
(***************************************************************************)
\* Where a script has complete frames.
LEMMA CompleteType ==
    ASSUME NEW s \in Seq(Frames)
    PROVE  /\ Len(s) \in Nat /\ DOMAIN s = 1 .. Len(s)
           /\ Complete(s) \in SUBSET Nat /\ IsFiniteSet(Complete(s))
           /\ Cardinality(Complete(s)) \in Nat
<1>1. Len(s) \in Nat /\ DOMAIN s = 1 .. Len(s)
  OBVIOUS
<1>2. Complete(s) \in SUBSET (1 .. Len(s)) /\ IsFiniteSet(1 .. Len(s))
  BY <1>1, FS_Interval DEF Complete
<1>3. QED
  BY <1>1, <1>2, FS_Subset, FS_CardinalityType

\* Counting frames.
LEMMA TakenType ==
    ASSUME NEW s \in Seq(Frames), NEW p
    PROVE  /\ Taken(s, p) \in Nat /\ Taken(s, p) <= Cardinality(Complete(s))
           /\ IsFiniteSet({i \in Complete(s) : i <= p})
<1>1. {i \in Complete(s) : i <= p} \in SUBSET Complete(s)
  OBVIOUS
<1>2. QED
  BY <1>1, CompleteType, FS_Subset, FS_CardinalityType DEF Taken

\* Later frames have greater numbers.
LEMMA TakenGrows ==
    ASSUME NEW s \in Seq(Frames), NEW a \in Complete(s), NEW b \in Complete(s), a < b
    PROVE  Taken(s, a) # Taken(s, b)
<1> DEFINE A == {i \in Complete(s) : i <= a}
           B == {i \in Complete(s) : i <= b}
<1>1. a \in Nat /\ b \in Nat /\ \A i \in Complete(s) : i \in Nat
  BY CompleteType
<1>2. \A i \in A : i \in B
  BY <1>1
<1>3. b \in B /\ b \notin A
  BY <1>1
<1>4. A \in SUBSET B /\ A # B
  BY <1>2, <1>3
<1>5. IsFiniteSet(B)
  BY TakenType
<1>6. Taken(s, a) = Cardinality(A) /\ Taken(s, b) = Cardinality(B)
  BY DEF Taken
<1> HIDE DEF A, B
<1>7. QED
  BY <1>4, <1>5, <1>6, FS_Subset

\* The n-th complete frame is the n-th request, and an unfinished frame at the end
\* is one more.
LEMMA RequestsAre ==
    ASSUME NEW s \in Seq(Frames)
    PROVE  LET n == Cardinality(Complete(s))
               requests == RequestsOf(s)
           IN  /\ Len(requests) \in Nat /\ n <= Len(requests)
               /\ \A m \in Complete(s) :
                    Taken(s, m) \in 1 .. n /\ requests[Taken(s, m)] = s[m]
               /\ s # <<>> /\ s[Len(s)] = Partial =>
                    Len(requests) = n + 1 /\ requests[n + 1] = Malformed
<1> DEFINE F == Complete(s)
           n == Cardinality(F)
           Nth(i) == CHOOSE m \in F : Cardinality({j \in F : j <= m}) = i
           whole == [i \in 1 .. n |-> s[Nth(i)]]
<1>1. n \in Nat /\ F \in SUBSET Nat
  BY CompleteType
<1>3. ASSUME NEW m \in F PROVE Taken(s, m) \in 1 .. n
  <2> DEFINE B == {i \in F : i <= m}
  <2>1. m \in Nat
    BY <1>1
  <2>2. B # {}
    BY <2>1
  <2>3. IsFiniteSet(B) /\ Taken(s, m) = Cardinality(B)
    BY TakenType DEF Taken
  <2>4. Taken(s, m) # 0
    BY <2>2, <2>3, FS_EmptySet
  <2>5. Taken(s, m) \in Nat /\ Taken(s, m) <= n
    BY TakenType
  <2> HIDE DEF n
  <2>6. QED
    BY <1>1, <2>4, <2>5
<1>4. ASSUME NEW m \in F PROVE Nth(Taken(s, m)) = m
  <2>1. PICK k \in F : k = Nth(Taken(s, m)) /\ Taken(s, k) = Taken(s, m)
    BY DEF Taken
  <2>2. ~(k < m) /\ ~(m < k)
    BY <2>1, TakenGrows
  <2>3. k \in Nat /\ m \in Nat
    BY <1>1
  <2>4. k = m
    BY <2>2, <2>3
  <2>5. QED
    BY <2>1, <2>4
<1>5. RequestsOf(s) = IF s # <<>> /\ s[Len(s)] = Partial THEN Append(whole, Malformed) ELSE whole
  BY DEF RequestsOf
<1>6. \A m \in F : whole[Taken(s, m)] = s[m]
  BY <1>3, <1>4
<1> HIDE DEF Nth
<1>7. /\ whole \in Seq({whole[i] : i \in 1 .. n}) /\ Len(whole) = n
      /\ IsSeq(whole)
  <2>1. whole \in [1 .. n -> {whole[i] : i \in 1 .. n}]
    OBVIOUS
  <2> HIDE DEF whole
  <2>2. whole \in Seq({whole[i] : i \in 1 .. n}) /\ Len(whole) = n
    BY <1>1, <2>1, SMTT(30)
  <2>3. QED
    BY <2>2 DEF IsSeq
<1> HIDE DEF whole
<1>8. CASE s # <<>> /\ s[Len(s)] = Partial
  <2>1. /\ Len(Append(whole, Malformed)) = n + 1 /\ Append(whole, Malformed)[n + 1] = Malformed
        /\ \A i \in 1 .. n : Append(whole, Malformed)[i] = whole[i]
    BY <1>7, SeqAppend
  <2>2. RequestsOf(s) = Append(whole, Malformed)
    BY <1>5, <1>8
  <2> HIDE DEF n, F
  <2>3. /\ Len(RequestsOf(s)) = n + 1 /\ RequestsOf(s)[n + 1] = Malformed
        /\ \A i \in 1 .. n : RequestsOf(s)[i] = whole[i]
    BY <2>1, <2>2
  <2>4. \A m \in F : RequestsOf(s)[Taken(s, m)] = s[m]
    BY <1>3, <1>6, <2>3
  <2>5. QED
    BY <1>1, <1>3, <2>3, <2>4 DEF n, F
<1>9. CASE ~(s # <<>> /\ s[Len(s)] = Partial)
  <2>1. RequestsOf(s) = whole
    BY <1>5, <1>9
  <2>2. QED
    BY <1>1, <1>3, <1>6, <1>7, <1>9, <2>1
<1>10. QED
  BY <1>8, <1>9

\* Two sequences of frames, joined.
LEMMA FramesJoined ==
    ASSUME NEW x \in Seq(Frames), NEW y \in Seq(Frames)
    PROVE  /\ x \o y \in Seq(Frames) /\ Len(x \o y) = Len(x) + Len(y)
           /\ \A i \in 1 .. Len(x) + Len(y) : (x \o y)[i] = IF i <= Len(x) THEN x[i] ELSE y[i - Len(x)]
  OBVIOUS

\* Two scripts with the same frames.
LEMMA SameFrames ==
    ASSUME NEW u \in Seq(Frames), NEW v \in Seq(Frames), Len(u) = Len(v),
           \A i \in 1 .. Len(u) : u[i] = v[i]
    PROVE  u = v
  OBVIOUS

\* A piece of a script.
LEMMA PieceIs ==
    ASSUME NEW s \in Seq(Frames), NEW q \in 0 .. Len(s), NEW p \in 0 .. q
    PROVE  /\ SubSeq(s, p + 1, q) \in Seq(Frames) /\ Len(SubSeq(s, p + 1, q)) = q - p
           /\ \A i \in 1 .. q - p : SubSeq(s, p + 1, q)[i] = s[p + i]
           /\ \A n \in 0 .. q - p : SubSeq(SubSeq(s, p + 1, q), n + 1, q - p) = SubSeq(s, p + n + 1, q)
           /\ \A n \in 0 .. q - p : SubSeq(SubSeq(s, p + 1, q), 1, n) = SubSeq(s, p + 1, p + n)
           /\ \A n \in q .. Len(s) : SubSeq(s, p + 1, q) \o SubSeq(s, q + 1, n) = SubSeq(s, p + 1, n)
<1> DEFINE t == SubSeq(s, p + 1, q)
<1>1. Len(s) \in Nat /\ p \in Nat /\ q \in Nat /\ q - p \in Nat
  OBVIOUS
<1>2. t \in Seq(Frames) /\ Len(t) = q - p
  BY <1>1
<1>3. \A i \in 1 .. q - p : t[i] = s[p + i]
  BY <1>1
<1>4. ASSUME NEW a \in 0 .. Len(s), NEW b \in a .. Len(s)
      PROVE  /\ SubSeq(s, a + 1, b) \in Seq(Frames) /\ Len(SubSeq(s, a + 1, b)) = b - a
             /\ \A i \in 1 .. b - a : SubSeq(s, a + 1, b)[i] = s[a + i]
  BY <1>1
<1> HIDE DEF t
<1>5. ASSUME NEW n \in 0 .. q - p
      PROVE  SubSeq(t, n + 1, q - p) = SubSeq(s, p + n + 1, q)
  <2> DEFINE u == SubSeq(t, n + 1, q - p)
             v == SubSeq(s, p + n + 1, q)
  <2>1. p + n \in 0 .. Len(s) /\ q \in p + n .. Len(s) /\ q - (p + n) = q - p - n
    BY <1>1
  <2>2. /\ v \in Seq(Frames) /\ Len(v) = q - p - n
        /\ \A i \in 1 .. q - p - n : v[i] = s[p + n + i]
    BY <1>4, <2>1
  <2>3. /\ u \in Seq(Frames) /\ Len(u) = q - p - n
        /\ \A i \in 1 .. q - p - n : u[i] = t[n + i]
    BY <1>1, <1>2
  <2> HIDE DEF u, v
  <2>4. \A i \in 1 .. q - p - n : u[i] = v[i]
    <3> TAKE i \in 1 .. q - p - n
    <3>1. n + i \in 1 .. q - p /\ p + (n + i) = p + n + i
      BY <1>1
    <3>2. QED
      BY <1>3, <2>2, <2>3, <3>1
  <2>5. u = v
    BY <2>2, <2>3, <2>4, SameFrames, Zenon
  <2>6. QED
    BY <2>5 DEF u, v
<1>6. ASSUME NEW n \in 0 .. q - p
      PROVE  SubSeq(t, 1, n) = SubSeq(s, p + 1, p + n)
  <2> DEFINE u == SubSeq(t, 1, n)
             v == SubSeq(s, p + 1, p + n)
  <2>1. p \in 0 .. Len(s) /\ p + n \in p .. Len(s) /\ p + n - p = n
    BY <1>1
  <2>2. /\ v \in Seq(Frames) /\ Len(v) = n /\ \A i \in 1 .. n : v[i] = s[p + i]
    BY <1>4, <2>1
  <2>3. /\ u \in Seq(Frames) /\ Len(u) = n /\ \A i \in 1 .. n : u[i] = t[i]
    BY <1>1, <1>2
  <2> HIDE DEF u, v
  <2>4. \A i \in 1 .. n : u[i] = v[i]
    <3> TAKE i \in 1 .. n
    <3>1. i \in 1 .. q - p
      BY <1>1
    <3>2. QED
      BY <1>3, <2>2, <2>3, <3>1
  <2>5. u = v
    BY <2>2, <2>3, <2>4, SameFrames, Zenon
  <2>6. QED
    BY <2>5 DEF u, v
<1>7. ASSUME NEW n \in q .. Len(s)
      PROVE  t \o SubSeq(s, q + 1, n) = SubSeq(s, p + 1, n)
  <2> DEFINE w == SubSeq(s, q + 1, n)
             u == t \o w
             v == SubSeq(s, p + 1, n)
  <2>1. p \in 0 .. Len(s) /\ n \in p .. Len(s) /\ q \in 0 .. Len(s) /\ n - q \in Nat /\ n \in Nat
    BY <1>1
  <2>2. v \in Seq(Frames) /\ Len(v) = n - p /\ \A i \in 1 .. n - p : v[i] = s[p + i]
    BY <1>4, <2>1
  <2>3. w \in Seq(Frames) /\ Len(w) = n - q /\ \A i \in 1 .. n - q : w[i] = s[q + i]
    BY <1>4, <2>1
  <2> HIDE DEF w, v
  <2>4. /\ u \in Seq(Frames) /\ Len(u) = Len(t) + Len(w)
        /\ \A i \in 1 .. Len(t) + Len(w) : u[i] = IF i <= Len(t) THEN t[i] ELSE w[i - Len(t)]
    BY <1>2, <2>3, FramesJoined
  <2> HIDE DEF u
  <2>5. Len(u) = n - p
    BY <1>1, <1>2, <2>1, <2>3, <2>4
  <2>6. \A i \in 1 .. n - p : u[i] = v[i]
    <3> TAKE i \in 1 .. n - p
    <3>1. u[i] = IF i <= Len(t) THEN t[i] ELSE w[i - Len(t)]
      BY <2>4, <2>5
    <3>2. CASE i <= q - p
      BY <1>1, <1>2, <1>3, <2>1, <2>2, <3>1, <3>2
    <3>3. CASE ~(i <= q - p)
      <4>1. i - (q - p) \in 1 .. n - q /\ q + (i - (q - p)) = p + i
        BY <1>1, <2>1, <3>3
      <4>2. u[i] = w[i - (q - p)]
        BY <1>2, <3>1, <3>3
      <4>3. QED
        BY <2>2, <2>3, <4>1, <4>2
    <3>4. QED
      BY <3>2, <3>3
  <2>7. u = v
    <3>1. Len(u) = Len(v) /\ u \in Seq(Frames) /\ v \in Seq(Frames)
      BY <2>2, <2>4, <2>5
    <3>2. \A i \in 1 .. Len(u) : u[i] = v[i]
      BY <2>5, <2>6
    <3>3. QED
      BY <3>1, <3>2
  <2>8. QED
    BY <2>7 DEF u, v, w
<1>8. QED
  BY <1>2, <1>3, <1>5, <1>6, <1>7 DEF t

\* Of a script s, read up to q and decoded up to p, the next request is the first in t.
NextIs(s, p, q, t) ==
    \E n \in 0 .. q :
        /\ WithoutFirst(t) = SubSeq(s, n + 1, q)
        /\ Taken(s, n) = Taken(s, p) + 1
        /\ First(t) \in Frames \ {Partial}
        /\ Taken(s, p) + 1 <= Len(RequestsOf(s))
        /\ RequestsOf(s)[Taken(s, p) + 1] = First(t)

\* Decoding takes the next complete frame of the script, with the partial ones before it.
LEMMA NextFrame ==
    ASSUME NEW s \in Seq(Frames), NEW q \in 0 .. Len(s), NEW p \in 0 .. q,
           NEW t, t = SubSeq(s, p + 1, q), Complete(t) # {}
    PROVE  NextIs(s, p, q, t)
<1>1. /\ t \in Seq(Frames) /\ Len(t) = q - p
      /\ \A i \in 1 .. q - p : t[i] = s[p + i]
      /\ \A n \in 0 .. q - p : SubSeq(t, n + 1, q - p) = SubSeq(s, p + n + 1, q)
  BY PieceIs, Zenon
<1>2. Len(s) \in Nat /\ p \in Nat /\ q \in Nat /\ q - p \in Nat /\ q <= Len(s)
  OBVIOUS
<1>3. Complete(t) = {i \in 1 .. q - p : t[i] # Partial}
  BY <1>1 DEF Complete
<1>4. Complete(s) = {i \in 1 .. Len(s) : s[i] # Partial}
  BY DEF Complete
<1> DEFINE m == Min(Complete(t))
<1>5. m \in Complete(t) /\ \A y \in Complete(t) : m <= y
  <2>1. Complete(t) \in SUBSET Nat
    BY <1>2, <1>3
  <2>2. \E x \in Complete(t) : \A y \in Complete(t) : x <= y
    BY <2>1, LeastNatural
  <2>3. QED
    BY <2>2 DEF Min
<1>6. First(t) = t[m] /\ WithoutFirst(t) = SubSeq(t, m + 1, q - p)
  BY <1>1 DEF First, WithoutFirst
<1> HIDE DEF m
<1>7. m \in 1 .. q - p /\ t[m] # Partial /\ m \in Nat
  BY <1>2, <1>3, <1>5
<1> DEFINE n == p + m
<1>8. n \in 0 .. q /\ n \in 1 .. Len(s) /\ s[n] = t[m] /\ n \in Nat /\ ~(n <= p)
  <2>1. n \in 0 .. q /\ n \in 1 .. Len(s) /\ n \in Nat /\ ~(n <= p)
    BY <1>2, <1>7
  <2>2. s[n] = t[m]
    BY <1>1, <1>7, Zenon
  <2>3. QED
    BY <2>1, <2>2
<1>9. n \in Complete(s) /\ First(t) = s[n] /\ s[n] \in Frames \ {Partial}
  BY <1>4, <1>6, <1>7, <1>8
<1>10. WithoutFirst(t) = SubSeq(s, n + 1, q)
  <2>1. m \in 0 .. q - p
    BY <1>2, <1>7
  <2>2. SubSeq(t, m + 1, q - p) = SubSeq(s, p + m + 1, q)
    BY <1>1, <2>1, Zenon
  <2>3. QED
    BY <1>6, <2>2
<1>11. {i \in Complete(s) : i <= n} = {i \in Complete(s) : i <= p} \cup {n}
  <2>1. ASSUME NEW i \in Complete(s), i <= n, ~(i <= p) PROVE i = n
    <3>1. i \in Nat /\ i \in 1 .. Len(s) /\ s[i] # Partial
      BY <1>2, <1>4
    <3>2. i - p \in 1 .. q - p /\ p + (i - p) = i
      BY <1>2, <1>7, <2>1, <3>1
    <3>3. i - p \in Complete(t)
      BY <1>1, <1>3, <3>1, <3>2
    <3>4. m <= i - p
      BY <1>5, <3>3
    <3>5. QED
      BY <1>2, <1>7, <2>1, <3>1, <3>4
  <2>2. ASSUME NEW i \in Complete(s), i <= p PROVE i <= n
    BY <1>2, <1>4, <1>7, <2>2
  <2>3. n <= n
    BY <1>8
  <2> HIDE DEF n
  <2>4. QED
    BY <1>9, <2>1, <2>2, <2>3
<1> HIDE DEF n
<1>12. Taken(s, n) = Taken(s, p) + 1
  <2> DEFINE B == {i \in Complete(s) : i <= p}
  <2>1. IsFiniteSet(B) /\ n \notin B
    BY <1>8, TakenType
  <2>2. Taken(s, p) = Cardinality(B) /\ Taken(s, n) = Cardinality(B \cup {n})
    BY <1>11 DEF Taken
  <2> HIDE DEF B
  <2>3. QED
    BY <2>1, <2>2, FS_AddElement
<1>13. /\ Taken(s, n) \in 1 .. Cardinality(Complete(s)) /\ RequestsOf(s)[Taken(s, n)] = s[n]
       /\ Cardinality(Complete(s)) <= Len(RequestsOf(s)) /\ Len(RequestsOf(s)) \in Nat
       /\ Cardinality(Complete(s)) \in Nat
  BY <1>9, RequestsAre, CompleteType
<1>14. Taken(s, n) <= Len(RequestsOf(s))
  BY <1>13
<1>15. QED
  BY <1>8, <1>9, <1>10, <1>12, <1>13, <1>14 DEF NextIs

\* Partial frames at the end of a script, with nothing to complete them.
LEMMA NothingLeft ==
    ASSUME NEW s \in Seq(Frames), NEW p \in 0 .. Len(s),
           NEW t, t = SubSeq(s, p + 1, Len(s)), Complete(t) = {}, t # <<>>
    PROVE  /\ Len(RequestsOf(s)) = Taken(s, p) + 1
           /\ RequestsOf(s)[Taken(s, p) + 1] = Malformed
<1>1. Len(s) \in Nat /\ p \in Nat /\ Len(s) - p \in Nat /\ Len(s) \in 0 .. Len(s)
  OBVIOUS
<1>2. /\ t \in Seq(Frames) /\ Len(t) = Len(s) - p
      /\ \A i \in 1 .. Len(s) - p : t[i] = s[p + i]
  <2> DEFINE w == SubSeq(s, p + 1, Len(s))
  <2>1. /\ w \in Seq(Frames) /\ Len(w) = Len(s) - p
        /\ \A i \in 1 .. Len(s) - p : w[i] = s[p + i]
    BY <1>1, PieceIs, Zenon
  <2> HIDE DEF w
  <2>2. t = w
    BY DEF w
  <2>3. QED
    BY <2>1, <2>2
<1>3. Len(s) - p # 0
  BY <1>2
<1>4. ASSUME NEW i \in 1 .. Len(s), ~(i <= p) PROVE s[i] = Partial
  <2>1. i - p \in 1 .. Len(s) - p /\ p + (i - p) = i
    BY <1>1, <1>4
  <2>2. t[i - p] = Partial
    <3>1. DOMAIN t = 1 .. Len(s) - p
      BY <1>2
    <3>2. QED
      BY <2>1, <3>1 DEF Complete
  <2>3. QED
    BY <1>2, <2>1, <2>2
<1>5. s # <<>> /\ s[Len(s)] = Partial
  <2>1. Len(s) \in 1 .. Len(s) /\ ~(Len(s) <= p)
    BY <1>1, <1>3
  <2>2. QED
    BY <1>4, <2>1
<1>6. {i \in Complete(s) : i <= p} = Complete(s)
  <2>1. \A i \in Complete(s) : i \in 1 .. Len(s) /\ s[i] # Partial
    BY DEF Complete
  <2>2. QED
    BY <1>4, <2>1
<1>7. Taken(s, p) = Cardinality(Complete(s))
  BY <1>6 DEF Taken
<1>8. QED
  BY <1>5, <1>7, RequestsAre

\* The client's requests are answered so far.
Answered(x) ==
    LET requests == RequestsOf(x.script)
    IN  /\ Len(x.sent) <= Len(requests)
        /\ \A i \in DOMAIN x.sent :
              /\ x.sent[i] \in Answers(requests, i)
              /\ Closes(requests, i) => i = Len(x.sent)

\* The places where no request is being handled, and those with nothing left to do.
Between == {"none", "backlog", "accepted", "top", "decode", "read"}

Ended == {"refused", "drop", "release", "finished", "joined"}

\* Whatever may be written of the reply answers the next request.
Answering(x, k) ==
    LET requests == RequestsOf(x.script)
        i == Len(x.sent) + 1
    IN  /\ i <= Len(requests)
        /\ x.close <=> Closes(requests, i)
        /\ Written(x.reply) \subseteq Answers(requests, i)
        /\ ~x.close => k = i

InPlace(x, p, q) ==
    LET requests == RequestsOf(x.script)
        k == Taken(x.script, p)
    IN  /\ x.input = SubSeq(x.script, p + 1, q)
        /\ x.wire = SubSeq(x.script, q + 1, Len(x.script))
        /\ x.session = SessionAfter(requests, k)
        /\ \A i \in 1 .. Len(x.sent) : ~Closes(requests, i)
        /\ x.pc \in Between => k = Len(x.sent)
        /\ x.pc = "read" => Complete(x.input) = {}
        /\ x.pc \in {"engine", "write"} => Answering(x, k)

Follows(x) ==
    /\ x.script \in Seq(Frames)
    /\ IsSeq(x.sent)
    /\ Answered(x)
    /\ x.pc = "none" => x = NoConnection
    /\ x.pc \in Between \cup Ended \cup {"engine", "write"}
    /\ x.pc \notin Ended => \E q \in 0 .. Len(x.script) : \E p \in 0 .. q : InPlace(x, p, q)

RInv == \A c \in Clients : Follows(conn[c])

-----------------------------------------------------------------------------
\* A connection that has read nothing.
LEMMA FreshFollows ==
    ASSUME NEW x, x.script \in Seq(Frames), x.wire = x.script, x.input = <<>>, x.sent = <<>>,
           x.session = new, x.pc \in {"none", "backlog"}, x.pc = "none" => x = NoConnection
    PROVE  Follows(x)
<1> DEFINE s == x.script
           requests == RequestsOf(s)
<1>1. s \in Seq(Frames) /\ Len(s) \in Nat /\ Len(requests) \in Nat
  BY RequestsAre
<1>2. IsSeq(x.sent) /\ Len(x.sent) = 0 /\ DOMAIN x.sent = {}
  BY DEF IsSeq
<1>3. Taken(s, 0) = 0
  <2>1. {i \in Complete(s) : i <= 0} = {}
    <3>1. \A i \in Complete(s) : i \in 1 .. Len(s)
      BY <1>1 DEF Complete
    <3>2. QED
      BY <1>1, <3>1
  <2>2. QED
    BY <2>1, FS_EmptySet DEF Taken
<1>4. SubSeq(s, 1, 0) = <<>> /\ SubSeq(s, 1, Len(s)) = s
  BY <1>1
<1>5. SessionAfter(requests, 0) = new
  BY SessionSteps
<1> HIDE DEF requests
<1>6. InPlace(x, 0, 0)
  BY <1>2, <1>3, <1>4, <1>5 DEF InPlace, Between, requests
<1>7. Answered(x)
  BY <1>1, <1>2 DEF Answered, requests
<1>8. 0 \in 0 .. Len(s) /\ 0 \in 0 .. 0
  BY <1>1
<1>9. QED
  BY <1>2, <1>6, <1>7, <1>8 DEF Follows, Between

\* y stands in the script where x does.
SamePlace(x, y) ==
    /\ y.script = x.script /\ y.sent = x.sent /\ y.input = x.input /\ y.wire = x.wire
    /\ y.session = x.session

\* A connection that ends, one that goes on without a request, and one that waits as
\* before.
LEMMA PlaceFollows ==
    ASSUME NEW x, NEW y, Follows(x), SamePlace(x, y),
           \/ y.pc \in Ended
           \/ /\ x.pc \in Between /\ y.pc \in Between \ {"none"}
              /\ y.pc = "read" => Complete(y.input) = {}
           \/ /\ y.pc = x.pc /\ y.pc # "none" /\ y.reply = x.reply /\ y.close = x.close
    PROVE  Follows(y)
<1>1. /\ y.script \in Seq(Frames) /\ IsSeq(y.sent)
      /\ y.pc # "none" /\ y.pc \in Between \cup Ended \cup {"engine", "write"}
  BY DEF Follows, SamePlace, Ended
<1>2. Answered(y)
  BY DEF Follows, SamePlace, Answered
<1>3. ASSUME y.pc \notin Ended PROVE \E q \in 0 .. Len(y.script) : \E p \in 0 .. q : InPlace(y, p, q)
  <2>1. x.pc \notin Ended
    BY <1>3 DEF Between, Ended
  <2>2. PICK q \in 0 .. Len(x.script) : \E p \in 0 .. q : InPlace(x, p, q)
    BY <2>1 DEF Follows
  <2>3. PICK p \in 0 .. q : InPlace(x, p, q)
    BY <2>2
  <2>4. CASE x.pc \in Between /\ y.pc \in Between /\ (y.pc = "read" => Complete(y.input) = {})
    <3>1. InPlace(y, p, q)
      BY <2>3, <2>4 DEF InPlace, SamePlace, Between
    <3>2. QED
      BY <3>1 DEF SamePlace
  <2>5. CASE y.pc = x.pc /\ y.reply = x.reply /\ y.close = x.close
    <3>1. ASSUME NEW k PROVE Answering(y, k) <=> Answering(x, k)
      BY <2>5 DEF Answering, SamePlace
    <3>2. InPlace(y, p, q)
      BY <2>3, <2>5, <3>1 DEF InPlace, SamePlace
    <3>3. QED
      BY <3>2 DEF SamePlace
  <2>6. QED
    BY <1>3, <2>4, <2>5
<1>4. QED
  BY <1>1, <1>2, <1>3 DEF Follows

\* What is written of the right reply is a right answer.
LEMMA WrittenAnswers ==
    ASSUME NEW requests, NEW i, NEW right, right = ReplyTo(requests, i)
    PROVE  Written(right) \subseteq Answers(requests, i)
  BY DEF Written, Answers

\* A protocol error answers a request that is malformed.
LEMMA ProtocolErrorFollows ==
    ASSUME NEW x, NEW y, Follows(x), SamePlace(x, y), x.pc \in {"decode", "read"},
           y.pc = "write", y.reply = Failure("protocol"), y.close = TRUE,
           Len(x.sent) + 1 <= Len(RequestsOf(x.script)),
           RequestsOf(x.script)[Len(x.sent) + 1] = Malformed
    PROVE  Follows(y)
<1>1. /\ y.script \in Seq(Frames) /\ IsSeq(y.sent) /\ y.pc # "none" /\ y.pc \notin Between \cup Ended
  BY DEF Follows, SamePlace, Ended, Between
<1>2. Answered(y)
  BY DEF Follows, SamePlace, Answered
<1>3. x.pc \notin Ended
  BY DEF Ended
<1>4. PICK q \in 0 .. Len(x.script) : \E p \in 0 .. q : InPlace(x, p, q)
  BY <1>3 DEF Follows
<1>5. PICK p \in 0 .. q : InPlace(x, p, q)
  BY <1>4
<1>6. Answering(y, Taken(y.script, p))
  <2> DEFINE requests == RequestsOf(x.script)
             i == Len(x.sent) + 1
  <2>1. Closes(requests, i) /\ ReplyTo(requests, i) = y.reply
    BY DEF Closes, ReplyTo
  <2>2. Written(y.reply) \subseteq Answers(requests, i)
    BY <2>1, WrittenAnswers
  <2>3. y.script = x.script /\ y.sent = x.sent
    BY DEF SamePlace
  <2> HIDE DEF requests
  <2>4. QED
    BY <2>1, <2>2, <2>3 DEF Answering, requests
<1>7. InPlace(y, p, q)
  BY <1>1, <1>5, <1>6 DEF InPlace, SamePlace
<1>8. QED
  BY <1>1, <1>2, <1>7 DEF Follows, SamePlace

\* What decode takes is the next request of the script.
LEMMA TakesNext ==
    ASSUME NEW x, Follows(x), x.pc = "decode", Complete(x.input) # {}
    PROVE  \E q \in 0 .. Len(x.script) : \E p \in 0 .. q :
              InPlace(x, p, q) /\ NextIs(x.script, p, q, x.input)
<1>1. PICK q \in 0 .. Len(x.script) : \E p \in 0 .. q : InPlace(x, p, q)
  BY DEF Follows, Ended
<1>2. PICK p \in 0 .. q : InPlace(x, p, q)
  BY <1>1
<1> DEFINE s == x.script
           t == x.input
<1>3. s \in Seq(Frames) /\ t = SubSeq(s, p + 1, q) /\ q \in 0 .. Len(s) /\ Complete(t) # {}
  BY <1>2 DEF Follows, InPlace
<1> HIDE DEF s, t
<1>4. NextIs(s, p, q, t)
  BY <1>3, NextFrame
<1>5. QED
  BY <1>2, <1>4 DEF s, t

\* What decode refuses is the next request of the script.
LEMMA RejectFollows ==
    ASSUME NEW x, NEW y, Follows(x), SamePlace(x, y), x.pc = "decode",
           Complete(x.input) # {}, First(x.input) = Malformed,
           y.pc = "write", y.reply = Failure("protocol"), y.close = TRUE
    PROVE  Follows(y)
<1>1. PICK q \in 0 .. Len(x.script) : \E p \in 0 .. q :
              InPlace(x, p, q) /\ NextIs(x.script, p, q, x.input)
  BY TakesNext
<1>2. PICK p \in 0 .. q : InPlace(x, p, q) /\ NextIs(x.script, p, q, x.input)
  BY <1>1
<1>3. Taken(x.script, p) = Len(x.sent)
  BY <1>2 DEF InPlace, Between
<1>4. /\ Len(x.sent) + 1 <= Len(RequestsOf(x.script))
      /\ RequestsOf(x.script)[Len(x.sent) + 1] = Malformed
  BY <1>2, <1>3 DEF NextIs
<1>5. QED
  BY <1>4, ProtocolErrorFollows

\* The client hangs up in the middle of a frame.
LEMMA TruncatedFollows ==
    ASSUME NEW x, NEW y, Follows(x), SamePlace(x, y), x.pc = "read",
           x.wire = <<>>, x.input # <<>>,
           y.pc = "write", y.reply = Failure("protocol"), y.close = TRUE
    PROVE  Follows(y)
<1>1. PICK q \in 0 .. Len(x.script) : \E p \in 0 .. q : InPlace(x, p, q)
  BY DEF Follows, Ended
<1>2. PICK p \in 0 .. q : InPlace(x, p, q)
  BY <1>1
<1> DEFINE s == x.script
<1>3. /\ s \in Seq(Frames) /\ x.input = SubSeq(s, p + 1, q) /\ Taken(s, p) = Len(x.sent)
      /\ x.wire = SubSeq(s, q + 1, Len(s)) /\ Complete(x.input) = {}
  BY <1>2 DEF Follows, InPlace, Between
<1> HIDE DEF s
<1>4. Len(s) \in Nat /\ q \in 0 .. Len(s) /\ Len(s) \in 0 .. Len(s)
  BY <1>3 DEF s
<1>5. q = Len(s)
  <2>1. Len(SubSeq(s, q + 1, Len(s))) = Len(s) - q
    BY <1>3, <1>4, PieceIs, Zenon
  <2>2. Len(SubSeq(s, q + 1, Len(s))) = 0
    BY <1>3
  <2>3. QED
    BY <1>4, <2>1, <2>2
<1>6. /\ Len(RequestsOf(s)) = Taken(s, p) + 1
      /\ RequestsOf(s)[Taken(s, p) + 1] = Malformed /\ Taken(s, p) \in Nat
  BY <1>3, <1>5, NothingLeft, TakenType
<1>7. Len(x.sent) + 1 <= Len(RequestsOf(x.script)) /\ RequestsOf(x.script)[Len(x.sent) + 1] = Malformed
  BY <1>3, <1>6 DEF s
<1>8. QED
  BY <1>7, ProtocolErrorFollows

\* Bytes arrive.
LEMMA ReceiveFollows ==
    ASSUME NEW x, NEW y, Follows(x), x.pc = "read", y.pc = "decode",
           y.script = x.script, y.sent = x.sent, y.session = x.session,
           NEW n \in 1 .. Len(x.wire),
           y.input = x.input \o SubSeq(x.wire, 1, n), y.wire = SubSeq(x.wire, n + 1, Len(x.wire))
    PROVE  Follows(y)
<1>1. PICK q \in 0 .. Len(x.script) : \E p \in 0 .. q : InPlace(x, p, q)
  BY DEF Follows, Ended
<1>2. PICK p \in 0 .. q : InPlace(x, p, q)
  BY <1>1
<1> DEFINE s == x.script
<1>3. /\ s \in Seq(Frames) /\ x.input = SubSeq(s, p + 1, q) /\ x.wire = SubSeq(s, q + 1, Len(s))
  BY <1>2 DEF Follows, InPlace
<1>4. Len(s) \in Nat /\ q \in 0 .. Len(s) /\ Len(s) \in 0 .. Len(s)
  BY <1>3
<1> HIDE DEF s
<1>5. /\ Len(x.wire) = Len(s) - q
      /\ \A m \in 0 .. Len(s) - q : SubSeq(x.wire, m + 1, Len(s) - q) = SubSeq(s, q + m + 1, Len(s))
      /\ \A m \in 0 .. Len(s) - q : SubSeq(x.wire, 1, m) = SubSeq(s, q + 1, q + m)
  <2> DEFINE w == SubSeq(s, q + 1, Len(s))
  <2>1. /\ Len(w) = Len(s) - q
        /\ \A m \in 0 .. Len(s) - q : SubSeq(w, m + 1, Len(s) - q) = SubSeq(s, q + m + 1, Len(s))
        /\ \A m \in 0 .. Len(s) - q : SubSeq(w, 1, m) = SubSeq(s, q + 1, q + m)
    BY <1>3, <1>4, PieceIs, Zenon
  <2>2. QED
    BY <1>3, <2>1, Zenon
<1>6. \A m \in q .. Len(s) : SubSeq(s, p + 1, q) \o SubSeq(s, q + 1, m) = SubSeq(s, p + 1, m)
  BY <1>3, <1>4, PieceIs, Zenon
<1>7. n \in 0 .. Len(s) - q /\ q + n \in q .. Len(s) /\ q + n \in 0 .. Len(s) /\ p \in 0 .. q + n
  BY <1>4, <1>5
<1>8. y.input = SubSeq(s, p + 1, q + n)
  <2>1. SubSeq(x.wire, 1, n) = SubSeq(s, q + 1, q + n)
    BY <1>5, <1>7, Zenon
  <2>2. SubSeq(s, p + 1, q) \o SubSeq(s, q + 1, q + n) = SubSeq(s, p + 1, q + n)
    BY <1>6, <1>7, Zenon
  <2>3. QED
    BY <1>3, <2>1, <2>2
<1>9. y.wire = SubSeq(s, (q + n) + 1, Len(s))
  <2>1. SubSeq(x.wire, n + 1, Len(s) - q) = SubSeq(s, q + n + 1, Len(s))
    BY <1>5, <1>7, Zenon
  <2>2. QED
    BY <1>5, <2>1
<1>10. InPlace(y, p, q + n)
  BY <1>2, <1>8, <1>9 DEF InPlace, Between, s
<1>11. Answered(y)
  BY DEF Follows, Answered
<1>12. QED
  BY <1>7, <1>10, <1>11 DEF Follows, Between, s

\* A request is taken: it is the next of the script, and the session executes it as
\* the reference does.
LEMMA BeginFollows ==
    ASSUME NEW x, NEW y, Follows(x), x.pc = "decode", Complete(x.input) # {},
           First(x.input) # Malformed,
           y.script = x.script, y.sent = x.sent, y.wire = x.wire, y.input = WithoutFirst(x.input),
           y.session = Handle(x.session, First(x.input)).session,
           y.reply = Handle(x.session, First(x.input)).reply,
           y.close = Handle(x.session, First(x.input)).close,
           y.pc = IF First(x.input) # Unparsable /\ CallsEngine(x.session, First(x.input))
                  THEN "engine" ELSE "write"
    PROVE  Follows(y)
<1>1. PICK q \in 0 .. Len(x.script) : \E p \in 0 .. q :
              InPlace(x, p, q) /\ NextIs(x.script, p, q, x.input)
  BY TakesNext
<1>2. PICK p \in 0 .. q : InPlace(x, p, q) /\ NextIs(x.script, p, q, x.input)
  BY <1>1
<1> DEFINE s == x.script
           requests == RequestsOf(s)
           f == First(x.input)
           k == Taken(s, p)
           calls == f # Unparsable /\ CallsEngine(x.session, f)
<1>3. /\ s \in Seq(Frames) /\ x.input = SubSeq(s, p + 1, q) /\ k = Len(x.sent)
      /\ x.wire = SubSeq(s, q + 1, Len(s)) /\ x.session = SessionAfter(requests, k)
      /\ \A i \in 1 .. Len(x.sent) : ~Closes(requests, i)
  BY <1>2 DEF Follows, InPlace, Between
<1>4. PICK n \in 0 .. q :
        /\ WithoutFirst(x.input) = SubSeq(s, n + 1, q) /\ Taken(s, n) = k + 1
        /\ f \in Frames \ {Partial} /\ k + 1 <= Len(requests) /\ requests[k + 1] = f
  BY <1>2 DEF NextIs
<1>5. k \in Nat /\ k + 1 - 1 = k
  BY <1>3, TakenType
<1>6. SessionAfter(requests, k + 1) = y.session
  BY <1>3, <1>4, <1>5, SessionSteps
<1>7. f # Malformed
  OBVIOUS
<1> HIDE DEF f, k, requests
<1>8. y.reply = ReplyTo(requests, k + 1) /\ (y.close <=> Closes(requests, k + 1))
  BY <1>3, <1>4, <1>5, <1>7 DEF ReplyTo, Closes, f
<1>9. Written(y.reply) \subseteq Answers(requests, k + 1)
  BY <1>8, WrittenAnswers
<1>10. Answering(y, k + 1)
  <2>1. Len(y.sent) + 1 = k + 1 /\ requests = RequestsOf(y.script)
    BY <1>3 DEF requests
  <2>2. QED
    BY <1>4, <1>8, <1>9, <2>1 DEF Answering
<1>11. InPlace(y, n, q)
  <2>1. y.pc \notin Between
    BY DEF Between
  <2>2. QED
    BY <1>3, <1>4, <1>6, <1>10, <2>1 DEF InPlace, requests, Between
<1>12. Answered(y)
  BY DEF Follows, Answered
<1>13. y.pc \in {"engine", "write"}
  OBVIOUS
<1>14. QED
  BY <1>11, <1>12, <1>13 DEF Follows, Between, Ended

\* The engine's answer leaves the connection where it was in its script.
LEMMA AnswerFollows ==
    ASSUME NEW x, NEW y, Follows(x), SamePlace(x, y), x.pc = "engine", y.pc = "write",
           y.close = x.close, y.reply = x.reply
    PROVE  Follows(y)
<1>1. PICK q \in 0 .. Len(x.script) : \E p \in 0 .. q : InPlace(x, p, q)
  BY DEF Follows, Ended
<1>2. PICK p \in 0 .. q : InPlace(x, p, q)
  BY <1>1
<1> DEFINE k == Taken(x.script, p)
<1>3. Answering(x, k)
  BY <1>2 DEF InPlace
<1> HIDE DEF k
<1>4. Answering(y, k)
  BY <1>3 DEF Answering, SamePlace
<1>5. InPlace(y, p, q)
  BY <1>2, <1>4 DEF InPlace, SamePlace, Between, k
<1>6. Answered(y)
  BY DEF Follows, Answered, SamePlace
<1>7. QED
  BY <1>5, <1>6 DEF Follows, SamePlace, Between, Ended

\* A reply is written; a connection that does not close is ready for the next request.
LEMMA WriteFollows ==
    ASSUME NEW x, NEW y, Follows(x), x.pc = "write", NEW written \in Written(x.reply),
           y.script = x.script, y.input = x.input, y.wire = x.wire, y.session = x.session,
           y.sent = Append(x.sent, written),
           y.pc = IF x.close THEN "drop" ELSE "top"
    PROVE  Follows(y)
<1>1. PICK q \in 0 .. Len(x.script) : \E p \in 0 .. q : InPlace(x, p, q)
  BY DEF Follows, Ended
<1>2. PICK p \in 0 .. q : InPlace(x, p, q)
  BY <1>1
<1> DEFINE requests == RequestsOf(x.script)
           n == Len(x.sent)
           k == Taken(x.script, p)
<1>3. /\ n + 1 <= Len(requests) /\ (x.close <=> Closes(requests, n + 1))
      /\ written \in Answers(requests, n + 1) /\ (~x.close => k = n + 1)
  BY <1>2 DEF InPlace, Answering
<1>4. /\ IsSeq(y.sent) /\ n \in Nat /\ Len(y.sent) = n + 1
      /\ \A i \in 1 .. n : y.sent[i] = x.sent[i]
      /\ y.sent[n + 1] = written
  BY SeqAppend DEF Follows
<1>5. DOMAIN x.sent = 1 .. n /\ DOMAIN y.sent = 1 .. n + 1
  BY <1>4 DEF Follows, IsSeq
<1>6. \A i \in 1 .. n : x.sent[i] \in Answers(requests, i) /\ ~Closes(requests, i)
  BY <1>2, <1>5 DEF Follows, Answered, InPlace
<1> HIDE DEF requests, n, k
<1>7. \A i \in 1 .. n + 1 : i \in 1 .. n \/ i = n + 1
  BY <1>4
<1>8. Answered(y)
  <2>1. \A i \in DOMAIN y.sent :
           y.sent[i] \in Answers(requests, i) /\ (Closes(requests, i) => i = n + 1)
    BY <1>3, <1>4, <1>5, <1>6, <1>7
  <2>2. QED
    BY <1>3, <1>4, <2>1 DEF Answered, requests
<1>9. ASSUME y.pc \notin Ended PROVE InPlace(y, p, q)
  <2>1. ~x.close /\ y.pc = "top"
    BY <1>9 DEF Ended
  <2>2. \A i \in 1 .. Len(y.sent) : ~Closes(requests, i)
    BY <1>3, <1>4, <1>6, <1>7, <2>1
  <2>3. k = Len(y.sent)
    BY <1>3, <1>4, <2>1
  <2>4. QED
    BY <1>2, <2>1, <2>2, <2>3 DEF InPlace, requests, k
<1>10. QED
  BY <1>4, <1>8, <1>9 DEF Follows, Between, Ended

-----------------------------------------------------------------------------
\* The invariant holds before the first client connects.
LEMMA InitRInv == Init => RInv
<1> SUFFICES ASSUME Init, NEW c \in Clients PROVE Follows(conn[c])
  BY DEF RInv
<1>1. conn[c] = NoConnection
  BY DEF Init
<1>2. /\ NoConnection.script \in Seq(Frames) /\ NoConnection.wire = NoConnection.script
      /\ NoConnection.input = <<>> /\ NoConnection.sent = <<>> /\ NoConnection.session = new
      /\ NoConnection.pc = "none"
  BY DEF NoConnection
<1>3. QED
  BY <1>1, <1>2, FreshFollows

\* A step that changes one connection keeps the invariant if that connection does.
LEMMA OneFollows ==
    ASSUME Shape, RInv, NEW c \in Clients, NEW y, conn' = [conn EXCEPT ![c] = y], Follows(y)
    PROVE  RInv'
  BY DEF Shape, RInv

\* A step that moves one connection and leaves its place in the script alone.
LEMMA MoveFollows ==
    ASSUME Shape, RInv, NEW c \in Clients, NEW to, GoTo(c, to),
           \/ to \in Ended
           \/ /\ conn[c].pc \in Between /\ to \in Between \ {"none"}
              /\ to = "read" => Complete(conn[c].input) = {}
    PROVE  RInv'
<1> DEFINE x == conn[c]
           y == [x EXCEPT !.pc = to]
<1>1. SamePlace(x, y) /\ y.pc = to
  BY DEF Shape, IsConnection, ConnectionFields, SamePlace
<1>2. conn' = [conn EXCEPT ![c] = y]
  BY DEF GoTo, Shape
<1>3. Follows(x)
  BY DEF RInv
<1>4. y.pc = "read" => Complete(y.input) = {}
  BY <1>1 DEF SamePlace, Ended
<1> HIDE DEF y
<1>5. Follows(y)
  BY <1>1, <1>3, <1>4, PlaceFollows
<1>6. QED
  BY <1>2, <1>5, OneFollows

\* The same for a protocol error, which the connection answers.
LEMMA ErrorFollows ==
    ASSUME Shape, RInv, NEW c \in Clients, ProtocolError(c),
           \/ conn[c].pc = "decode" /\ Complete(conn[c].input) # {} /\ First(conn[c].input) = Malformed
           \/ conn[c].pc = "read" /\ conn[c].wire = <<>> /\ conn[c].input # <<>>
    PROVE  RInv'
<1> DEFINE x == conn[c]
           y == [x EXCEPT !.pc = "write", !.reply = Failure("protocol"), !.close = TRUE]
<1>1. SamePlace(x, y) /\ y.pc = "write" /\ y.reply = Failure("protocol") /\ y.close = TRUE
  BY DEF Shape, IsConnection, ConnectionFields, SamePlace
<1>2. conn' = [conn EXCEPT ![c] = y]
  BY DEF ProtocolError, Shape
<1>3. Follows(x)
  BY DEF RInv
<1> HIDE DEF y
<1>4. Follows(y)
  BY <1>1, <1>3, RejectFollows, TruncatedFollows
<1>5. QED
  BY <1>2, <1>4, OneFollows

\* What clients and the accept loop do.
LEMMA OutsideFollows ==
    ASSUME Shape, RInv, NEW c \in Clients,
           \/ \E script \in Scripts : Connect(c, script)
           \/ HangUp(c) \/ Accept(c) \/ Refuse(c) \/ Spawn(c) \/ Join(c)
    PROVE  RInv'
<1> DEFINE x == conn[c]
<1>1. Follows(x) /\ IsConnection(x)
  BY DEF RInv, Shape
<1>2. CASE \E script \in Scripts : Connect(c, script)
  <2>1. PICK script \in Scripts : Connect(c, script)
    BY <1>2
  <2> DEFINE y == [x EXCEPT !.pc = "backlog", !.script = script, !.wire = script]
  <2>2. x = NoConnection
    BY <1>1, <2>1 DEF Follows, Connect, At
  <2>3. /\ y.script = script /\ y.wire = script /\ y.input = <<>> /\ y.sent = <<>>
        /\ y.session = new /\ y.pc = "backlog"
    <3> HIDE DEF x
    <3>1. QED
      BY <2>2 DEF NoConnection
  <2>4. script \in Seq(Frames)
    BY ServerAssumption
  <2>5. conn' = [conn EXCEPT ![c] = y]
    BY <2>1 DEF Connect, Shape
  <2> HIDE DEF y
  <2>6. Follows(y)
    BY <2>3, <2>4, FreshFollows
  <2>7. QED
    BY <2>5, <2>6, OneFollows
<1>3. CASE HangUp(c)
  <2> DEFINE y == [x EXCEPT !.gone = TRUE]
  <2>1. SamePlace(x, y) /\ y.pc = x.pc /\ y.reply = x.reply /\ y.close = x.close
    BY <1>1 DEF IsConnection, ConnectionFields, SamePlace
  <2>2. y.pc # "none"
    BY <1>3, <2>1 DEF HangUp, At
  <2>3. conn' = [conn EXCEPT ![c] = y]
    BY <1>3 DEF HangUp, Shape
  <2> HIDE DEF y
  <2>4. Follows(y)
    BY <1>1, <2>1, <2>2, PlaceFollows
  <2>5. QED
    BY <2>3, <2>4, OneFollows
<1>4. CASE Accept(c)
  BY <1>4, MoveFollows DEF Accept, At, Between
<1>5. CASE Refuse(c)
  BY <1>5, MoveFollows DEF Refuse, Ended
<1>6. CASE Spawn(c)
  BY <1>6, MoveFollows DEF Spawn, At, Between
<1>7. CASE Join(c)
  BY <1>7, MoveFollows DEF Join, Ended
<1>8. QED
  BY <1>2, <1>3, <1>4, <1>5, <1>6, <1>7

\* What a connection does while it reads.
LEMMA ReadingFollows ==
    ASSUME Shape, RInv, NEW c \in Clients,
           \/ Top(c) \/ Await(c) \/ Reject(c) \/ Receive(c) \/ StopReading(c)
           \/ EndOfStream(c) \/ ReadFails(c) \/ ReadDeadline(c)
    PROVE  RInv'
<1> DEFINE x == conn[c]
<1>1. Follows(x) /\ IsConnection(x)
  BY DEF RInv, Shape
<1>2. CASE Top(c)
  <2>1. conn[c].pc \in Between /\ GoTo(c, IF stop THEN "drop" ELSE "decode")
    BY <1>2 DEF Top, At, Between
  <2>2. QED
    BY <2>1, MoveFollows DEF Between, Ended
<1>3. CASE Await(c)
  BY <1>3, MoveFollows DEF Await, At, Between
<1>4. CASE Reject(c)
  BY <1>4, ErrorFollows DEF Reject, At
<1>5. CASE EndOfStream(c)
  BY <1>5, ErrorFollows, MoveFollows DEF EndOfStream, At, Ended
<1>6. CASE StopReading(c) \/ ReadFails(c) \/ ReadDeadline(c)
  BY <1>6, MoveFollows DEF StopReading, ReadFails, ReadDeadline, Ended
<1>7. CASE Receive(c)
  <2>1. x.pc = "read"
    BY <1>7, Zenon DEF Receive, At
  <2>2. PICK n \in 1 .. Len(conn[c].wire) :
          conn' = [conn EXCEPT ![c].input = @ \o SubSeq(conn[c].wire, 1, n),
                               ![c].wire = SubSeq(@, n + 1, Len(@)),
                               ![c].pc = "decode"]
    BY <1>7, Zenon DEF Receive
  <2> DEFINE y == [x EXCEPT !.input = @ \o SubSeq(x.wire, 1, n),
                            !.wire = SubSeq(@, n + 1, Len(@)), !.pc = "decode"]
  <2>3. /\ y.pc = "decode" /\ y.script = x.script /\ y.sent = x.sent /\ y.session = x.session
        /\ y.input = x.input \o SubSeq(x.wire, 1, n) /\ y.wire = SubSeq(x.wire, n + 1, Len(x.wire))
    BY <1>1 DEF IsConnection, ConnectionFields
  <2>4. conn' = [conn EXCEPT ![c] = y]
    BY <2>2 DEF Shape
  <2> HIDE DEF y
  <2>5. Follows(y)
    BY <1>1, <2>1, <2>3, ReceiveFollows
  <2>6. QED
    BY <2>4, <2>5, OneFollows
<1>8. QED
  BY <1>2, <1>3, <1>4, <1>5, <1>6, <1>7

\* What it does with a request.
LEMMA RequestFollows ==
    ASSUME Shape, RInv, NEW c \in Clients,
           \/ Begin(c) \/ EngineApplies(c) \/ EngineAnswers(c)
           \/ Write(c) \/ WriteFails(c) \/ WriteDeadline(c) \/ DropGuard(c)
    PROVE  RInv'
<1> DEFINE x == conn[c]
<1>1. Follows(x) /\ IsConnection(x)
  BY DEF RInv, Shape
<1>2. CASE Begin(c)
  <2> DEFINE frame == First(x.input)
             outcome == Handle(x.session, frame)
             calls == frame # Unparsable /\ CallsEngine(x.session, frame)
             y == [x EXCEPT !.input = WithoutFirst(@), !.pc = IF calls THEN "engine" ELSE "write",
                            !.session = outcome.session, !.reply = outcome.reply,
                            !.close = outcome.close]
  <2>1. x.pc = "decode" /\ Complete(x.input) # {} /\ frame # Malformed
    BY <1>2 DEF Begin, At
  <2>2. conn' = [conn EXCEPT ![c] = y]
    BY <1>2 DEF Begin, Shape
  <2>3. /\ y.script = x.script /\ y.sent = x.sent /\ y.wire = x.wire
        /\ y.input = WithoutFirst(x.input) /\ y.session = outcome.session
        /\ y.reply = outcome.reply /\ y.close = outcome.close
        /\ y.pc = IF calls THEN "engine" ELSE "write"
    <3> HIDE DEF outcome, calls
    <3>1. QED
      BY <1>1 DEF IsConnection, ConnectionFields
  <2> HIDE DEF y
  <2>4. Follows(y)
    BY <1>1, <2>1, <2>3, BeginFollows
  <2>5. QED
    BY <2>2, <2>4, OneFollows
<1>3. CASE EngineApplies(c)
  BY <1>3 DEF EngineApplies, RInv
<1>4. CASE EngineAnswers(c)
  <2>1. x.pc = "engine"
    BY <1>4 DEF EngineAnswers, At
  <2> DEFINE y == [x EXCEPT !.pc = "write"]
  <2>2. SamePlace(x, y) /\ y.pc = "write" /\ y.close = x.close /\ y.reply = x.reply
    BY <1>1 DEF IsConnection, ConnectionFields, SamePlace
  <2>3. conn' = [conn EXCEPT ![c] = y]
    BY <1>4 DEF EngineAnswers, GoTo, Shape
  <2> HIDE DEF y
  <2>4. Follows(y)
    BY <1>1, <2>1, <2>2, AnswerFollows
  <2>5. QED
    BY <2>3, <2>4, OneFollows
<1>5. CASE Write(c)
  <2>0. PICK written \in Written(x.reply) :
          conn' = [conn EXCEPT ![c].sent = Append(@, written), ![c].reply = None,
                               ![c].pc = IF conn[c].close THEN "drop" ELSE "top"]
    BY <1>5 DEF Write
  <2> DEFINE to == IF x.close THEN "drop" ELSE "top"
             y == [x EXCEPT !.sent = Append(@, written), !.reply = None, !.pc = to]
  <2>1. x.pc = "write"
    BY <1>5 DEF Write, At
  <2>2. conn' = [conn EXCEPT ![c] = y]
    BY <2>0 DEF Shape
  <2>3. /\ y.script = x.script /\ y.input = x.input /\ y.wire = x.wire /\ y.session = x.session
        /\ y.sent = Append(x.sent, written) /\ y.pc = to
    <3> HIDE DEF to
    <3>1. QED
      BY <1>1 DEF IsConnection, ConnectionFields
  <2> HIDE DEF y
  <2>4. Follows(y)
    BY <1>1, <2>1, <2>3, WriteFollows
  <2>5. QED
    BY <2>2, <2>4, OneFollows
<1>6. CASE WriteFails(c) \/ WriteDeadline(c)
  BY <1>6, MoveFollows DEF WriteFails, WriteDeadline, Ended
<1>7. CASE DropGuard(c)
  <2>1. PICK y \in GuardDropped(x) : conn' = [conn EXCEPT ![c] = y]
    BY <1>7 DEF DropGuard, GuardDropped
  <2>2. y.pc \in {"release", "finished"} /\ y.script = x.script /\ y.sent = x.sent
    BY <1>1, DroppedConnection
  <2>3. Follows(y)
    BY <1>1, <2>2 DEF Follows, Answered, Ended
  <2>4. QED
    BY <2>1, <2>3, OneFollows
<1>8. QED
  BY <1>2, <1>3, <1>4, <1>5, <1>6, <1>7

\* Every step keeps every connection at its place in its script.
LEMMA StepRInv == IInv /\ RInv /\ [Next]_vars => RInv'
<1> SUFFICES ASSUME IInv, RInv, [Next]_vars PROVE RInv'
  OBVIOUS
<1>0. Shape
  BY DEF IInv
<1>1. ASSUME NEW c \in Clients, Task(c) \/ Outside(c) PROVE RInv'
  BY <1>0, <1>1, OutsideFollows, ReadingFollows, RequestFollows DEF Task, Outside
<1>2. CASE StopAccepting
  <2> SUFFICES ASSUME NEW c \in Clients PROVE Follows(conn'[c])
    BY DEF RInv
  <2>1. Follows(conn[c]) /\ IsConnection(conn[c])
    BY <1>0 DEF RInv, Shape
  <2>2. CASE ~At(c, "backlog")
    BY <1>2, <2>1, <2>2 DEF StopAccepting
  <2>3. CASE At(c, "backlog")
    <3> DEFINE y == [conn[c] EXCEPT !.pc = "refused"]
    <3>1. SamePlace(conn[c], y) /\ y.pc \in Ended
      BY <2>1 DEF IsConnection, ConnectionFields, SamePlace, Ended
    <3>2. conn'[c] = y
      BY <1>2, <2>3 DEF StopAccepting
    <3> HIDE DEF y
    <3>3. QED
      BY <2>1, <3>1, <3>2, PlaceFollows
  <2>4. QED
    BY <2>2, <2>3
<1>3. CASE Signal \/ ShutEngine \/ Return \/ UNCHANGED vars
  <2>1. conn' = conn
    BY <1>3 DEF Signal, ShutEngine, Return, vars, tasks
  <2>2. QED
    BY <2>1 DEF RInv
<1>4. QED
  BY <1>1, <1>2, <1>3 DEF Next, Returned

\* For every number of clients, every script and every way its frames are cut into
\* reads, a client is answered what its requests mean executed one by one, in order
\* and once each, and nothing after the reply that closes the connection.
THEOREM ServerRepliesFollowTheScript == Spec => []RepliesFollowTheScript
<1>1. RInv => RepliesFollowTheScript
  BY DEF RInv, Follows, Answered, RepliesFollowTheScript
<1>2. QED
  BY InitIInv, StepIInv, InitRInv, StepRInv, <1>1, PTL DEF Spec

-----------------------------------------------------------------------------
(***************************************************************************)
(* One session, under every sequence of commands.                          *)
(***************************************************************************)
\* Every command has a type by which execute dispatches.
LEMMA CommandTypes ==
    ASSUME NEW c \in SessionCommands
    PROVE  /\ c.type = "auth" => c \in AuthCommands
           /\ c.type = "hello" => c \in HelloCommands
           /\ c.type \in {"client_setname", "client_lib_name", "client_lib_ver"} => c.name \in Names
           /\ c.type \in {"auth", "hello", "data", "ping", "echo", "quit", "metadata", "select",
                          "client_getname", "client_setname", "client_lib_name",
                          "client_lib_ver", "info"}
    BY DEF SessionCommands, AuthCommands, HelloCommands, ClientCommands, InfoCommands

\* An empty name becomes None, so a stored name is never empty.
LEMMA NonemptyType ==
    ASSUME NEW name \in Names
    PROVE  nonempty(name) \in (Names \ {""}) \cup {None}
    BY DEF nonempty

\* AUTH authenticates exactly when the password is configured and correct, and
\* otherwise refuses and changes nothing.
LEMMA AuthResult ==
    ASSUME NEW s \in SessionType, NEW c \in AuthCommands
    PROVE  /\ Auth(s, c).close = FALSE
           /\ \/ /\ Password # None /\ Correct(c.username, c.password)
                 /\ Auth(s, c).session \in SessionType
                 /\ Auth(s, c).session.authenticated = TRUE
                 /\ ~IsError(Auth(s, c).reply)
              \/ /\ Password = None \/ ~Correct(c.username, c.password)
                 /\ Auth(s, c).session = s
                 /\ IsError(Auth(s, c).reply)
    BY SessionAssumption
       DEF Auth, authenticate, Correct, Outcome, Failure, Reply, IsError, AuthCommands, SessionType

\* HELLO is accepted exactly when its version is spoken here, its credentials are
\* correct if it has any, and the session is authenticated if it has none.
LEMMA HelloErrorExact ==
    ASSUME NEW s \in SessionType, NEW c \in HelloCommands
    PROVE  HelloError(s, c) = None <=>
             /\ c.protocol \in {None, 2}
             /\ IF c.auth = None THEN s.authenticated
                ELSE Password # None /\ Correct(c.auth.username, c.auth.password)
    BY SessionAssumption DEF HelloError, authenticate, Correct, SessionType

\* A HELLO that is refused changes nothing; one that is accepted leaves an
\* authenticated session with a legal name.
LEMMA HelloResult ==
    ASSUME NEW s \in SessionType, NEW c \in HelloCommands
    PROVE  /\ Hello(s, c).close = FALSE
           /\ HelloError(s, c) = None =>
                /\ Hello(s, c).session \in SessionType
                /\ Hello(s, c).session.authenticated = TRUE
                /\ ~IsError(Hello(s, c).reply)
           /\ HelloError(s, c) # None =>
                /\ Hello(s, c).session = s
                /\ IsError(Hello(s, c).reply)
<1>1. CASE HelloError(s, c) = None
  <2>1. (IF c.name = None THEN s.name ELSE nonempty(c.name)) \in (Names \ {""}) \cup {None}
    BY NonemptyType DEF HelloCommands, SessionType
  <2>2. QED
    BY <1>1, <2>1 DEF Hello, Outcome, SessionType, IsError, Reply, hello_reply
<1>2. CASE HelloError(s, c) # None
  BY <1>2 DEF Hello, Outcome, Failure, IsError
<1>3. QED
  BY <1>1, <1>2

\* A command behind the gate neither grants nor withdraws authentication, and
\* one it refuses changes nothing and closes nothing.
LEMMA AdmittedResult ==
    ASSUME NEW s \in SessionType, NEW c \in SessionCommands, c.type \notin {"auth", "hello"}
    PROVE  /\ Admitted(s, c).session \in SessionType
           /\ Admitted(s, c).session.authenticated = s.authenticated
           /\ Admitted(s, c).close \in BOOLEAN
           /\ IsError(Admitted(s, c).reply) =>
                Admitted(s, c).session = s /\ Admitted(s, c).close = FALSE
<1>1. CASE c.type \in {"client_setname", "client_lib_name", "client_lib_ver"}
  <2>1. nonempty(c.name) \in (Names \ {""}) \cup {None}
    BY <1>1, CommandTypes, NonemptyType
  <2>2. QED
    BY <1>1, <2>1, ZenonT(30) DEF Admitted, Outcome, Reply, IsError, SessionType
<1>2. CASE c.type \in {"data", "ping", "echo", "quit", "metadata", "select", "client_getname", "info"}
  BY <1>2 DEF Admitted, Outcome, Reply, Failure, Bulk, IsError, SessionType, info
<1>3. QED
  BY <1>1, <1>2, CommandTypes

\* What one command does to a session and its reply, in one place.
LEMMA ExecuteResult ==
    ASSUME NEW s \in SessionType, NEW c \in SessionCommands
    PROVE  /\ execute(s, c).session \in SessionType
           /\ execute(s, c).close \in BOOLEAN
           /\ execute(s, c).session.authenticated <=>
                s.authenticated \/ (Password # None /\ Proof(c))
           /\ ~execute(s, c).session.authenticated => IsError(execute(s, c).reply)
           /\ IsError(execute(s, c).reply) =>
                execute(s, c).session = s /\ execute(s, c).close = FALSE
<1>1. CASE c.type = "auth"
  <2>1. c \in AuthCommands /\ execute(s, c) = Auth(s, c)
    BY <1>1, CommandTypes DEF execute
  <2>2. Proof(c) <=> Correct(c.username, c.password)
    BY <1>1 DEF Proof
  <2>3. CASE Password # None /\ Correct(c.username, c.password)
    <3>1. /\ Auth(s, c).session \in SessionType /\ Auth(s, c).session.authenticated = TRUE
          /\ ~IsError(Auth(s, c).reply) /\ Auth(s, c).close = FALSE
      BY <2>1, <2>3, AuthResult
    <3>2. Password # None /\ Proof(c)
      BY <2>2, <2>3
    <3>3. QED
      BY <2>1, <3>1, <3>2
  <2>4. CASE ~(Password # None /\ Correct(c.username, c.password))
    <3>1. Auth(s, c).session = s /\ IsError(Auth(s, c).reply) /\ Auth(s, c).close = FALSE
      BY <2>1, <2>4, AuthResult
    <3>2. ~(Password # None /\ Proof(c))
      BY <2>2, <2>4
    <3>3. QED
      BY <2>1, <3>1, <3>2
  <2>5. QED
    BY <2>3, <2>4
<1>2. CASE c.type = "hello"
  <2>1. c \in HelloCommands /\ execute(s, c) = Hello(s, c)
    BY <1>2, CommandTypes DEF execute
  <2>2. Proof(c) <=> /\ c.protocol \in {None, 2} /\ c.auth # None
                     /\ Correct(c.auth.username, c.auth.password)
    BY <1>2 DEF Proof
  <2>3. HelloError(s, c) = None <=> /\ c.protocol \in {None, 2}
                                    /\ IF c.auth = None THEN s.authenticated
                                       ELSE /\ Password # None
                                            /\ Correct(c.auth.username, c.auth.password)
    BY <2>1, HelloErrorExact
  <2>4. CASE HelloError(s, c) = None
    <3>1. s.authenticated \/ (Password # None /\ Proof(c))
      BY <2>2, <2>3, <2>4
    <3>2. QED
      BY <2>1, <2>4, <3>1, HelloResult
  <2>5. CASE HelloError(s, c) # None
    <3>1. ~(Password # None /\ Proof(c))
      BY <2>2, <2>3, <2>5
    <3>2. QED
      BY <2>1, <2>5, <3>1, HelloResult
  <2>6. QED
    BY <2>4, <2>5
<1>3. CASE c.type \notin {"auth", "hello"}
  <2>1. ~Proof(c)
    BY <1>3 DEF Proof
  <2>2. CASE s.authenticated
    BY <1>3, <2>1, <2>2, AdmittedResult DEF execute
  <2>3. CASE ~s.authenticated
    BY <1>3, <2>1, <2>3 DEF execute, Outcome, Failure, IsError
  <2>4. QED
    BY <2>2, <2>3
<1>4. QED
  BY <1>1, <1>2, <1>3

-----------------------------------------------------------------------------
\* Authentication is proof of the password, over sessions of the right type.
GateIInv == GateTypeOK /\ AuthenticatedIffProved

\* The invariant holds in a new session.
LEMMA InitGateIInv == GateInit => GateIInv
<1> SUFFICES ASSUME GateInit PROVE GateIInv
  OBVIOUS
<1>1. CASE Password = None
  BY <1>1 DEF GateInit, new, GateIInv, GateTypeOK, AuthenticatedIffProved, SessionType
<1>2. CASE Password # None
  BY <1>2 DEF GateInit, new, GateIInv, GateTypeOK, AuthenticatedIffProved, SessionType
<1>3. QED
  BY <1>1, <1>2

\* Every command keeps it.
LEMMA StepGateIInv == GateIInv /\ [GateNext]_gate_vars => GateIInv'
<1> SUFFICES ASSUME GateIInv, [GateNext]_gate_vars
             PROVE  GateIInv'
  OBVIOUS
<1>1. ASSUME NEW c \in SessionCommands, Execute(c)
      PROVE  GateIInv'
  <2>1. session \in SessionType /\ proved \in BOOLEAN
    BY DEF GateIInv, GateTypeOK
  <2>2. GateTypeOK'
    BY <1>1, <2>1, ExecuteResult DEF Execute, GateTypeOK, Proof, Correct
  <2>3. AuthenticatedIffProved'
    BY <1>1, <2>1, ExecuteResult DEF Execute, GateIInv, AuthenticatedIffProved
  <2>4. QED
    BY <2>2, <2>3 DEF GateIInv
<1>2. CASE UNCHANGED gate_vars
  BY <1>2 DEF gate_vars, GateIInv, GateTypeOK, AuthenticatedIffProved
<1>3. QED
  BY <1>1, <1>2 DEF GateNext

\* A session keeps its type: a stored name is never the empty one.
THEOREM SessionTypeOK == GateSpec => []GateTypeOK
<1>1. GateIInv => GateTypeOK
  BY DEF GateIInv
<1>2. QED
  BY InitGateIInv, StepGateIInv, <1>1, PTL DEF GateSpec

\* For every password and every sequence of commands, a session is authenticated
\* exactly when none is configured or the client has shown it on this connection.
THEOREM SessionAuthenticatedIffProved == GateSpec => []AuthenticatedIffProved
<1>1. GateIInv => AuthenticatedIffProved
  BY DEF GateIInv
<1>2. QED
  BY InitGateIInv, StepGateIInv, <1>1, PTL DEF GateSpec

\* Until then execute answers nothing but errors and closes nothing.
THEOREM SessionOnlyErrorsBeforeProof == GateSpec => OnlyErrorsBeforeProof
<1>1. GateIInv /\ [GateNext]_gate_vars => [~session'.authenticated => IsError(reply') /\ open']_gate_vars
  <2> SUFFICES ASSUME GateIInv, NEW c \in SessionCommands, Execute(c), ~session'.authenticated
               PROVE  IsError(reply') /\ open'
    BY DEF GateNext
  <2>1. session \in SessionType
    BY DEF GateIInv, GateTypeOK
  <2>2. QED
    BY <2>1, ExecuteResult DEF Execute
<1>2. QED
  BY InitGateIInv, StepGateIInv, <1>1, PTL DEF GateSpec, OnlyErrorsBeforeProof

\* A refused command leaves the session as it was and the connection open.
THEOREM SessionRefusalChangesNothing == GateSpec => RefusalChangesNothing
<1>1. GateIInv /\ [GateNext]_gate_vars => [IsError(reply') => session' = session /\ open']_gate_vars
  <2> SUFFICES ASSUME GateIInv, NEW c \in SessionCommands, Execute(c), IsError(reply')
               PROVE  session' = session /\ open'
    BY DEF GateNext
  <2>1. session \in SessionType
    BY DEF GateIInv, GateTypeOK
  <2>2. QED
    BY <2>1, ExecuteResult DEF Execute
<1>2. QED
  BY InitGateIInv, StepGateIInv, <1>1, PTL DEF GateSpec, RefusalChangesNothing

-----------------------------------------------------------------------------
(***************************************************************************)
(* The settings: what the loops over the command line and over the lines   *)
(* of the file have read so far.                                           *)
(***************************************************************************)
FileOptions == {"--env-file", "--no-env-file"}

OptionWords == DOMAIN OptionName \cup FileOptions

\* The conditions that Starts is chosen by.
Chain(S) ==
    /\ DOMAIN arguments # {} => 1 \in S
    /\ \A i \in S : i + Width(arguments[i]) \in S \cup {Len(arguments) + 1, Len(arguments) + 2}
    /\ \A j \in S \ {1} : \E i \in S : j = i + Width(arguments[i])

\* The places before the k-th that hold an option.
Before(k) == {i \in Starts : i < k}

\* A file option has a path that is not empty.
PathAt(i) == arguments[i + 1] # ""

\* No option before the k-th place is wrong or repeats another.
OptionsLegal(k) ==
    /\ \A i \in Before(k) : arguments[i] \in OptionWords /\ i + Width(arguments[i]) <= k
    /\ \A i, j \in Before(k) : arguments[i] \in FileOptions /\ arguments[j] \in FileOptions => i = j
    /\ \A i, j \in Before(k) : arguments[i] \in DOMAIN OptionName /\ arguments[j] = arguments[i]
                                 => i = j
    /\ \A i \in Before(k) : arguments[i] = "--env-file" => PathAt(i)

\* options holds what the options before the k-th place say.
OptionsHeld(k) ==
    /\ options.seen = \E i \in Before(k) : arguments[i] \in FileOptions
    /\ options.explicit_file = \E i \in Before(k) : arguments[i] = "--env-file"
    /\ options.env_file = IF \E i \in Before(k) : arguments[i] = "--no-env-file" THEN Unset
                          ELSE IF options.explicit_file THEN "local" ELSE "env"
    /\ DOMAIN options.values =
          {n \in ENV_NAMES : \E i \in Before(k) : /\ arguments[i] \in DOMAIN OptionName
                                                 /\ OptionName[arguments[i]] = n}
    /\ \A i \in Before(k) : arguments[i] \in DOMAIN OptionName =>
          options.values[OptionName[arguments[i]]] = arguments[i + 1]

OptionsRead(k) == OptionsLegal(k) /\ OptionsHeld(k)

Assigned(i) == Lines[i].kind = "assign"

\* A value that starts with a quote ends with it.
QuotesAt(i) == Lines[i].open \in {"", Lines[i].close}

\* No line before the k-th is wrong or repeats another, and values holds what they say.
LinesRead(k) ==
    /\ \A i \in 1 .. k - 1 : Lines[i].kind # "malformed"
    /\ \A i \in 1 .. k - 1 : Assigned(i) =>
          Lines[i].name \in ENV_NAMES /\ QuotesAt(i)
    /\ \A i, j \in 1 .. k - 1 : Assigned(i) /\ Assigned(j) /\ Lines[i].name = Lines[j].name => i = j
    /\ DOMAIN values = {n \in ENV_NAMES : \E i \in 1 .. k - 1 : Assigned(i) /\ Lines[i].name = n}
    /\ \A i \in 1 .. k - 1 : Assigned(i) => values[Lines[i].name] = Lines[i].value

\* What makes the inputs legal.
LegalInputs == LegalCommandLine /\ LegalEnvironment /\ LegalLines /\ Readable /\ validate(Meant)

\* The inputs are those of the exploration, and do not change.
InputsAre ==
    /\ arguments \in CommandLines /\ environment \in Environments
    /\ files \in [env : DotEnvs, local : LocalEnvs]

OptionsAre ==
    options \in [env_file : {"env", "local", Unset}, explicit_file : BOOLEAN,
                 values : {options.values}, seen : BOOLEAN]

\* The numbers of a configuration that validate and the budgets compare.
Sized(c) ==
    /\ c.max_payload_bytes \in Nat /\ c.max_reply_bytes \in Nat
    /\ c.commands.max_value_bytes \in Nat
    /\ c.protocol.max_bulk_bytes \in Nat /\ c.protocol.max_frame_bytes \in Nat

SettingsStages ==
    /\ pc \in {"main", "options", "environment", "file"} => values = <<>>
    /\ pc = "main" => index = 1 /\ OptionsRead(1)
    /\ pc = "options" => /\ index \in 1 .. Len(arguments) + 1
                         /\ index \in Starts \cup {Len(arguments) + 1}
                         /\ OptionsRead(index)
    /\ pc \in {"environment", "file", "lines", "sources"} => OptionsRead(Len(arguments) + 1)
    /\ pc \in {"file", "lines", "sources"} => LegalEnvironment
    /\ pc = "lines" => /\ options.env_file # Unset /\ Found = "text"
                       /\ index \in 1 .. Len(Lines) + 1 /\ LinesRead(index)
    /\ pc = "sources" => Lines # Unset /\ LinesRead(Len(Lines) + 1)
    /\ pc \in {"bind", "running"} => config = Meant /\ LegalInputs
    /\ pc = "failed" => ~LegalInputs

\* The inductive invariant.
SettingsInv ==
    /\ pc \in {"main", "options", "environment", "file", "lines", "sources", "bind", "help",
               "running", "failed"}
    /\ FromInputs => InputsAre /\ OptionsAre /\ SettingsStages
    /\ ~FromInputs => pc \in {"bind", "running", "failed"}
    /\ pc \in {"bind", "running"} => Sized(config)
    /\ pc = "running" => validate(config)

-----------------------------------------------------------------------------
(***************************************************************************)
(* The places of the options on the command line.                          *)
(***************************************************************************)
\* An argument of the command line is a token.
LEMMA CommandLineIs ==
    ASSUME arguments \in CommandLines
    PROVE  /\ arguments \in Seq(Tokens) /\ Len(arguments) \in Nat
           /\ DOMAIN arguments = 1 .. Len(arguments)
           /\ \A i \in 1 .. Len(arguments) : arguments[i] \in Tokens
  BY SettingsAssumption

\* The options are seven with a value, of one name each, and two about the file.
LEMMA OptionsTable ==
    /\ DOMAIN OptionName = {"--bind", "--workers", "--io-threads", "--max-memory-mib",
                            "--keys-per-worker", "--max-connections", "--queue-bytes-mib"}
    /\ \A o \in DOMAIN OptionName : OptionName[o] \in ENV_NAMES
    /\ \A o, p \in DOMAIN OptionName : OptionName[o] = OptionName[p] => o = p
    /\ "--env-file" \notin DOMAIN OptionName /\ "--no-env-file" \notin DOMAIN OptionName
<1>1. DOMAIN OptionName = {"--bind", "--workers", "--io-threads", "--max-memory-mib",
                           "--keys-per-worker", "--max-connections", "--queue-bytes-mib"}
  BY DEF OptionName
<1>2. /\ OptionName["--bind"] = "RECALL_BIND"
      /\ OptionName["--workers"] = "RECALL_WORKERS"
      /\ OptionName["--io-threads"] = "RECALL_IO_THREADS"
      /\ OptionName["--max-memory-mib"] = "RECALL_MAX_MEMORY_MIB"
      /\ OptionName["--keys-per-worker"] = "RECALL_KEYS_PER_WORKER"
      /\ OptionName["--max-connections"] = "RECALL_MAX_CONNECTIONS"
      /\ OptionName["--queue-bytes-mib"] = "RECALL_QUEUE_BYTES_MIB"
  BY DEF OptionName
<1>3. QED
  BY <1>1, <1>2 DEF ENV_NAMES

\* There are places as Starts asks for: the least set that the first place and
\* the rule of the next one give.
LEMMA ChainExists ==
    ASSUME arguments \in CommandLines
    PROVE  \E S \in SUBSET DOMAIN arguments : Chain(S)
<1>1. PICK n \in Nat : n = Len(arguments) /\ DOMAIN arguments = 1 .. n
  BY CommandLineIs
<1> DEFINE W(i) == Width(arguments[i])
           Closed(T) == /\ n >= 1 => 1 \in T
                        /\ \A i \in T : i + W(i) <= n => i + W(i) \in T
           S == {i \in 1 .. n : \A T \in SUBSET (1 .. n) : Closed(T) => i \in T}
<1>2. \A i : W(i) \in {1, 2}
  BY DEF Width
<1> HIDE DEF W
<1>3. S \in SUBSET (1 .. n) /\ Closed(S)
  <2>1. n >= 1 => 1 \in S
    OBVIOUS
  <2>2. ASSUME NEW i \in S, i + W(i) <= n PROVE i + W(i) \in S
    <3>1. i \in 1 .. n /\ i + W(i) \in 1 .. n
      BY <1>2, <2>2
    <3>2. ASSUME NEW T \in SUBSET (1 .. n), Closed(T) PROVE i + W(i) \in T
      <4>1. i \in T
        BY <3>2
      <4>2. QED
        BY <2>2, <3>2, <4>1
    <3>3. QED
      BY <3>1, <3>2
  <2>3. QED
    BY <2>1, <2>2
<1>4. ASSUME NEW i \in S PROVE i + W(i) \in S \cup {n + 1, n + 2}
  <2>1. i \in 1 .. n /\ (i + W(i) <= n => i + W(i) \in S)
    BY <1>3
  <2>2. QED
    BY <1>2, <2>1
<1>5. ASSUME NEW j \in S \ {1} PROVE \E i \in S : j = i + W(i)
  <2> SUFFICES ASSUME \A i \in S : j # i + W(i) PROVE FALSE
    OBVIOUS
  <2>1. PICK T : T = S \ {j}
    OBVIOUS
  <2>2. Closed(T)
    BY <1>3, <2>1
  <2>3. j \in T
    BY <1>3, <2>1, <2>2
  <2>4. QED
    BY <2>1, <2>3
<1>6. n >= 1 => 1 \in S
  BY <1>3
<1> HIDE DEF S
<1>7. Chain(S)
  BY <1>1, <1>4, <1>5, <1>6 DEF Chain, W
<1>8. QED
  BY <1>1, <1>3, <1>7

\* What the places of the options obey.
LEMMA StartsAre ==
    ASSUME arguments \in CommandLines
    PROVE  Starts \in SUBSET DOMAIN arguments /\ Chain(Starts)
<1>1. Starts = CHOOSE S \in SUBSET DOMAIN arguments : Chain(S)
  BY DEF Starts, Chain
<1>2. PICK S \in SUBSET DOMAIN arguments : Chain(S)
  BY ChainExists
<1>3. QED
  BY <1>1, <1>2

\* A set has at most one element.
LEMMA AtMostOne ==
    ASSUME NEW S, IsFiniteSet(S)
    PROVE  Cardinality(S) <= 1 <=> \A x, y \in S : x = y
<1>1. Cardinality(S) \in Nat
  BY FS_CardinalityType
<1>2. CASE S = {}
  BY <1>2, FS_EmptySet
<1>3. CASE S # {}
  <2>1. Cardinality(S) # 0
    BY <1>3, FS_EmptySet
  <2>2. Cardinality(S) = 1 <=> \E x : S = {x}
    BY FS_Singleton
  <2>3. (\E x : S = {x}) <=> \A x, y \in S : x = y
    BY <1>3
  <2>4. PICK c \in Nat : c = Cardinality(S)
    BY <1>1
  <2>5. c <= 1 <=> c = 1
    BY <2>1, <2>4
  <2>6. QED
    BY <2>2, <2>3, <2>4, <2>5, Zenon
<1>4. QED
  BY <1>2, <1>3

\* The options the command line may hold, by pairs of places.
LEMMA LegalCommandLineIs ==
    ASSUME arguments \in CommandLines
    PROVE  LegalCommandLine <=> OptionsLegal(Len(arguments) + 1)
<1>1. PICK n \in Nat : n = Len(arguments) /\ DOMAIN arguments = 1 .. n
  BY CommandLineIs
<1>2. Starts \in SUBSET (1 .. n) /\ IsFiniteSet(Starts)
  <2>1. IsFiniteSet(1 .. n)
    BY FS_Interval
  <2>2. QED
    BY <1>1, <2>1, StartsAre, FS_Subset
<1>3. Before(n + 1) = Starts
  <2>1. PICK S \in SUBSET (1 .. n) : S = Starts
    BY <1>2
  <2>2. \A i \in S : i < n + 1
    OBVIOUS
  <2>3. QED
    BY <2>1, <2>2 DEF Before
<1>4. ASSUME NEW S \in SUBSET Starts PROVE Cardinality(S) <= 1 <=> \A x, y \in S : x = y
  BY <1>2, FS_Subset, AtMostOne
<1>5. Cardinality(Places("--env-file") \cup Places("--no-env-file")) <= 1
        <=> \A i, j \in Starts : arguments[i] \in FileOptions /\ arguments[j] \in FileOptions => i = j
  <2>1. Places("--env-file") \cup Places("--no-env-file") = {i \in Starts : arguments[i] \in FileOptions}
    BY DEF Places, FileOptions
  <2>2. QED
    BY <1>4, <2>1
<1>6. ASSUME NEW option
      PROVE  Cardinality(Places(option)) <= 1
               <=> \A i, j \in Starts : arguments[i] = option /\ arguments[j] = option => i = j
  <2>1. Places(option) \in SUBSET Starts
    BY DEF Places
  <2>2. QED
    BY <1>4, <2>1 DEF Places
<1>7. (\A option \in DOMAIN OptionName : Cardinality(Places(option)) <= 1)
        <=> \A i, j \in Starts : arguments[i] \in DOMAIN OptionName /\ arguments[j] = arguments[i]
                                   => i = j
  <2>1. PICK D : D = DOMAIN OptionName
    OBVIOUS
  <2>2. (\A option \in D : Cardinality(Places(option)) <= 1)
          <=> \A i, j \in Starts : arguments[i] \in D /\ arguments[j] = arguments[i] => i = j
    BY <1>6
  <2>3. QED
    BY <2>1, <2>2
<1>8. (\A i \in Places("--env-file") : arguments[i + 1] # "")
        <=> \A i \in Starts : arguments[i] = "--env-file" => PathAt(i)
  BY Zenon DEF Places, PathAt
<1>9. OptionsLegal(n + 1) <=>
        /\ \A i \in Starts : arguments[i] \in OptionWords /\ i + Width(arguments[i]) <= n + 1
        /\ \A i, j \in Starts : arguments[i] \in FileOptions /\ arguments[j] \in FileOptions => i = j
        /\ \A i, j \in Starts : arguments[i] \in DOMAIN OptionName /\ arguments[j] = arguments[i]
                                   => i = j
        /\ \A i \in Starts : arguments[i] = "--env-file" => PathAt(i)
  BY <1>3 DEF OptionsLegal
<1>10. LegalCommandLine <=>
        /\ \A i \in Starts : arguments[i] \in OptionWords /\ i + Width(arguments[i]) <= n + 1
        /\ Cardinality(Places("--env-file") \cup Places("--no-env-file")) <= 1
        /\ \A i \in Places("--env-file") : arguments[i + 1] # ""
        /\ \A option \in DOMAIN OptionName : Cardinality(Places(option)) <= 1
  BY <1>1, Zenon DEF LegalCommandLine, OptionWords, FileOptions
<1>11. QED
  BY <1>1, <1>5, <1>7, <1>8, <1>9, <1>10, Zenon

-----------------------------------------------------------------------------
(***************************************************************************)
(* What is said about the inputs stays said: they do not change.           *)
(***************************************************************************)
\* The choices the reference makes, as functions of what it chooses from.
StartsOf(args) ==
    CHOOSE S \in SUBSET DOMAIN args :
        /\ DOMAIN args # {} => 1 \in S
        /\ \A i \in S : i + Width(args[i]) \in S \cup {Len(args) + 1, Len(args) + 2}
        /\ \A j \in S \ {1} : \E i \in S : j = i + Width(args[i])

Some(S) == CHOOSE i \in S : TRUE

\* The places on the command line that give a value to a setting.
Giving(name) ==
    {i \in Starts \cap 1 .. Len(arguments) - 1 :
        arguments[i] \in DOMAIN OptionName /\ OptionName[arguments[i]] = name}

\* What the user states for a setting, in those terms.
LEMMA StatedIs ==
    ASSUME NEW name
    PROVE  Stated(name) = IF Giving(name) # {} THEN arguments[Some(Giving(name)) + 1]
                          ELSE IF name \in DOMAIN environment THEN environment[name]
                          ELSE IF Assigning(name) # {} THEN Lines[Some(Assigning(name))].value
                          ELSE Unset
  BY DEF Stated, Giving, Some

\* The reference depends on the inputs only.
LEMMA SameReference ==
    ASSUME arguments' = arguments, environment' = environment, files' = files
    PROVE  /\ Starts' = Starts /\ Lines' = Lines /\ Meant' = Meant
           /\ LegalInputs' = LegalInputs /\ LegalEnvironment' = LegalEnvironment
           /\ InputsAre' = InputsAre /\ FromInputs' = FromInputs
<1>1. Starts' = Starts
  <2>1. Starts' = StartsOf(arguments') /\ Starts = StartsOf(arguments)
    BY DEF Starts, StartsOf
  <2>2. QED
    BY <2>1
<1>2. \A option : Places(option)' = Places(option)
  BY <1>1 DEF Places
<1>3. Lines' = Lines
  BY <1>2 DEF Lines
<1>4. LegalCommandLine' = LegalCommandLine
  BY <1>1, <1>2 DEF LegalCommandLine
<1>5. \A name : Assigning(name)' = Assigning(name)
  BY <1>3 DEF Assigning
<1>6. LegalLines' = LegalLines
  BY <1>3, <1>5 DEF LegalLines
<1>7. ASSUME NEW name PROVE Stated(name)' = Stated(name)
  <2>1. Giving(name)' = Giving(name)
    BY <1>1 DEF Giving
  <2>2. Assigning(name)' = Assigning(name)
    BY <1>5
  <2>3. /\ Some(Giving(name))' = Some(Giving(name)) /\ Some(Assigning(name))' = Some(Assigning(name))
    BY <2>1, <2>2
  <2>4. Stated(name)' = (IF Giving(name) # {} THEN arguments[Some(Giving(name)) + 1]
                         ELSE IF name \in DOMAIN environment THEN environment[name]
                         ELSE IF Assigning(name) # {} THEN Lines[Some(Assigning(name))].value
                         ELSE Unset)'
    BY DEF Stated, Giving, Some
  <2>5. QED
    BY <1>3, <2>1, <2>2, <2>3, <2>4, StatedIs
<1>8. Meant' = Meant /\ Readable' = Readable
  BY <1>7 DEF Meant, Readable
<1>9. LegalEnvironment' = LegalEnvironment
  BY DEF LegalEnvironment
<1>10. LegalInputs' = LegalInputs
  BY <1>4, <1>6, <1>8, <1>9 DEF LegalInputs
<1>11. QED
  BY <1>1, <1>3, <1>8, <1>9, <1>10 DEF InputsAre, FromInputs

-----------------------------------------------------------------------------
(***************************************************************************)
(* The loop over the command line.                                         *)
(***************************************************************************)
\* The places are numbers.
LEMMA StartIs ==
    ASSUME arguments \in CommandLines, NEW i \in Starts
    PROVE  i \in Nat /\ i \in 1 .. Len(arguments) /\ Width(arguments[i]) \in Nat
  BY StartsAre, CommandLineIs DEF Width

\* The place behind an option and its value is the next one.
LEMMA OptionTaken ==
    ASSUME arguments \in CommandLines, NEW k \in Starts, OptionsLegal(k),
           NEW w, w = Width(arguments[k]), k + w <= Len(arguments) + 1
    PROVE  /\ w \in {1, 2} /\ k \in 1 .. Len(arguments)
           /\ Before(k + w) = Before(k) \cup {k}
           /\ k + w \in 1 .. Len(arguments) + 1
           /\ k + w \in Starts \cup {Len(arguments) + 1}
<1>1. PICK n \in Nat : n = Len(arguments) /\ DOMAIN arguments = 1 .. n
  BY CommandLineIs
<1>2. /\ Starts \in SUBSET (1 .. n)
      /\ \A i \in Starts : i + Width(arguments[i]) \in Starts \cup {n + 1, n + 2}
      /\ \A j \in Starts \ {1} : \E i \in Starts : j = i + Width(arguments[i])
  BY <1>1, StartsAre DEF Chain
<1>3. w \in {1, 2} /\ \A i : Width(arguments[i]) \in {1, 2}
  BY DEF Width
<1>4. k \in 1 .. n /\ k + w \in 1 .. n + 1 /\ k + w \in Starts \cup {n + 1}
  BY <1>1, <1>2, <1>3
<1>5. ASSUME NEW j \in Starts, j < k + w, ~(j < k) PROVE j = k
  <2> SUFFICES ASSUME j # k PROVE FALSE
    OBVIOUS
  <2>1. j \in 1 .. n /\ j > k /\ j # 1
    BY <1>2, <1>4, <1>5
  <2>2. PICK i \in Starts : j = i + Width(arguments[i])
    BY <1>2, <2>1
  <2>3. i \in 1 .. n /\ Width(arguments[i]) \in {1, 2}
    BY <1>2, <1>3
  <2>4. i < k => i + Width(arguments[i]) <= k
    BY DEF OptionsLegal, Before
  <2>5. QED
    BY <1>3, <1>4, <1>5, <2>1, <2>2, <2>3, <2>4
<1>6. \A j \in Starts : j < k + w <=> j < k \/ j = k
  BY <1>2, <1>3, <1>4, <1>5
<1>7. Before(k + w) = Before(k) \cup {k}
  BY <1>6 DEF Before
<1>8. QED
  BY <1>1, <1>3, <1>4, <1>7

\* An option that is known, complete and new is legal like the ones before it.
LEMMA LegalGoesOn ==
    ASSUME arguments \in CommandLines, NEW k \in Starts, OptionsRead(k),
           arguments[k] \in OptionWords, NEW w, w = Width(arguments[k]),
           k + w <= Len(arguments) + 1,
           arguments[k] \in FileOptions => ~options.seen,
           arguments[k] \in DOMAIN OptionName => OptionName[arguments[k]] \notin DOMAIN options.values,
           arguments[k] = "--env-file" => PathAt(k)
    PROVE  OptionsLegal(k + w)
<1>0. Before(k + w) = Before(k) \cup {k} /\ w \in {1, 2} /\ k \in Nat
  BY StartIs, OptionTaken DEF OptionsRead
<1>1. Before(k + w) = Before(k) \cup {k} /\ k \in Nat /\ w \in Nat /\ k <= k + w
  BY <1>0
<1>2. ASSUME NEW i \in Before(k + w)
      PROVE  arguments[i] \in OptionWords /\ i + Width(arguments[i]) <= k + w
  <2>1. CASE i = k
    <3>1. Width(arguments[i]) = w /\ k + w <= k + w
      BY <1>1, <2>1
    <3>2. QED
      BY <2>1, <3>1
  <2>2. CASE i \in Before(k)
    <3>1. PICK v \in Nat : v = Width(arguments[i])
      BY <2>2, StartIs DEF Before
    <3>2. i \in Nat
      BY <2>2, StartIs DEF Before
    <3>3. arguments[i] \in OptionWords /\ i + v <= k
      BY <2>2, <3>1 DEF OptionsRead, OptionsLegal
    <3>4. QED
      BY <1>1, <3>1, <3>2, <3>3
  <2>3. QED
    BY <1>1, <2>1, <2>2
<1>3. ASSUME NEW i \in Before(k), arguments[i] \in FileOptions PROVE arguments[k] \notin FileOptions
  BY <1>3 DEF OptionsRead, OptionsHeld
<1>4. ASSUME NEW i \in Before(k), arguments[i] \in DOMAIN OptionName
      PROVE  arguments[k] # arguments[i]
  <2>1. OptionName[arguments[i]] \in DOMAIN options.values
    BY <1>4, OptionsTable DEF OptionsRead, OptionsHeld
  <2>2. QED
    BY <1>4, <2>1
<1>5. \A i, j \in Before(k + w) : arguments[i] \in FileOptions /\ arguments[j] \in FileOptions => i = j
  BY <1>1, <1>3 DEF OptionsRead, OptionsLegal
<1>6. \A i, j \in Before(k + w) : arguments[i] \in DOMAIN OptionName /\ arguments[j] = arguments[i]
                                    => i = j
  BY <1>1, <1>4 DEF OptionsRead, OptionsLegal
<1>7. \A i \in Before(k + w) : arguments[i] = "--env-file" => PathAt(i)
  BY <1>1 DEF OptionsRead, OptionsLegal
<1>8. QED
  BY <1>2, <1>5, <1>6, <1>7 DEF OptionsLegal

\* An option that is not makes the command line illegal.
LEMMA OptionRefused ==
    ASSUME arguments \in CommandLines, NEW k \in Starts, OptionsRead(k),
           \/ arguments[k] \notin OptionWords
           \/ k + Width(arguments[k]) > Len(arguments) + 1
           \/ arguments[k] \in FileOptions /\ options.seen
           \/ /\ arguments[k] \in DOMAIN OptionName
              /\ OptionName[arguments[k]] \in DOMAIN options.values
           \/ arguments[k] = "--env-file" /\ ~PathAt(k)
    PROVE  ~LegalCommandLine
<1>1. PICK n \in Nat : n = Len(arguments) /\ DOMAIN arguments = 1 .. n
  BY CommandLineIs
<1>2. Starts \in SUBSET (1 .. n)
  BY <1>1, StartsAre
<1>3. k \in Before(n + 1) /\ \A i \in Before(k) : i \in Before(n + 1) /\ i # k
  <2>1. PICK S \in SUBSET (1 .. n) : S = Starts
    BY <1>2
  <2>2. k \in S /\ k < n + 1 /\ \A i \in S : i < n + 1 /\ (i < k => i # k)
    BY <2>1
  <2>3. QED
    BY <2>1, <2>2 DEF Before
<1>4. SUFFICES ASSUME OptionsLegal(n + 1) PROVE FALSE
  BY <1>1, LegalCommandLineIs
<1>5. CASE arguments[k] \notin OptionWords \/ k + Width(arguments[k]) > n + 1
  <2>1. PICK w \in Nat : w = Width(arguments[k])
    BY DEF Width
  <2>2. arguments[k] \in OptionWords /\ k + w <= n + 1
    BY <1>3, <1>4, <2>1 DEF OptionsLegal
  <2>3. k \in Nat /\ ~(k + w > n + 1)
    BY <2>1, <2>2, StartIs
  <2>4. QED
    BY <1>5, <2>1, <2>2, <2>3
<1>6. CASE arguments[k] \in FileOptions /\ options.seen
  BY <1>3, <1>4, <1>6 DEF OptionsRead, OptionsHeld, OptionsLegal
<1>7. CASE /\ arguments[k] \in DOMAIN OptionName
           /\ OptionName[arguments[k]] \in DOMAIN options.values
  <2>1. PICK i \in Before(k) : /\ arguments[i] \in DOMAIN OptionName
                               /\ OptionName[arguments[i]] = OptionName[arguments[k]]
    BY <1>7 DEF OptionsRead, OptionsHeld
  <2>2. arguments[i] = arguments[k]
    BY <1>7, <2>1, OptionsTable
  <2>3. QED
    BY <1>3, <1>4, <1>7, <2>1, <2>2 DEF OptionsLegal
<1>8. CASE arguments[k] = "--env-file" /\ ~PathAt(k)
  BY <1>3, <1>4, <1>8 DEF OptionsLegal
<1>9. QED
  BY <1>1, <1>5, <1>6, <1>7, <1>8

\* The inputs stay, and the state is again one of those the invariant describes.
LEMMA SettingsStep ==
    ASSUME SettingsInv, FromInputs, arguments' = arguments, environment' = environment,
           files' = files,
           pc' \in {"main", "options", "environment", "file", "lines", "sources", "bind", "help",
                    "running", "failed"},
           OptionsAre', SettingsStages',
           pc' \in {"bind", "running"} => Sized(config'), pc' = "running" => validate(config')
    PROVE  SettingsInv'
<1>1. FromInputs' /\ InputsAre'
  BY SameReference DEF SettingsInv
<1>2. (pc \in {"bind", "running"} => Sized(config))'
  BY DEF Sized
<1>3. (pc = "running" => validate(config))'
  OBVIOUS
<1>4. QED
  BY <1>1, <1>2, <1>3 DEF SettingsInv

\* A failure is right where the inputs are illegal.
LEMMA SettingsFails ==
    ASSUME SettingsInv, Fail, FromInputs => ~LegalInputs
    PROVE  SettingsInv'
<1>1. /\ pc' = "failed" /\ arguments' = arguments /\ environment' = environment /\ files' = files
      /\ options' = options
  BY DEF Fail, Go, inputs
<1>2. FromInputs' = FromInputs /\ LegalInputs' = LegalInputs /\ InputsAre' = InputsAre
  BY <1>1, SameReference
<1>3. CASE FromInputs
  <2>1. OptionsAre'
    BY <1>1, <1>3 DEF OptionsAre, SettingsInv
  <2>2. SettingsStages'
    BY <1>1, <1>2, <1>3 DEF SettingsStages
  <2>3. QED
    BY <1>1, <1>3, <2>1, <2>2, SettingsStep
<1>4. CASE ~FromInputs
  BY <1>1, <1>2, <1>4 DEF SettingsInv
<1>5. QED
  BY <1>3, <1>4

\* What the loop over the command line knows.
LEMMA OptionsAt ==
    ASSUME SettingsInv, Option
    PROVE  /\ FromInputs /\ arguments \in CommandLines /\ OptionsAre /\ values = <<>>
           /\ index \in Starts /\ OptionsRead(index)
           /\ Len(arguments) \in Nat /\ index \in Nat /\ index <= Len(arguments)
<1>1. pc = "options" /\ index <= Len(arguments)
  BY DEF Option
<1>2. FromInputs /\ arguments \in CommandLines /\ OptionsAre /\ SettingsStages
  BY <1>1 DEF SettingsInv, InputsAre
<1>3. PICK n \in Nat : n = Len(arguments)
  BY <1>2, CommandLineIs
<1>4. index \in 1 .. n + 1 /\ index \in Starts \cup {n + 1} /\ OptionsRead(index) /\ values = <<>>
  BY <1>1, <1>2, <1>3 DEF SettingsStages
<1>5. QED
  BY <1>1, <1>2, <1>3, <1>4

\* An option that has been taken, and is held.
LEMMA OptionAdvances ==
    ASSUME SettingsInv, Option, NEW w, w = Width(arguments[index]), NEW parsed, Advance(w, parsed),
           arguments[index] \in OptionWords, index + w <= Len(arguments) + 1,
           arguments[index] \in FileOptions => ~options.seen,
           arguments[index] \in DOMAIN OptionName =>
              OptionName[arguments[index]] \notin DOMAIN options.values,
           arguments[index] = "--env-file" => PathAt(index),
           parsed \in [env_file : {"env", "local", Unset}, explicit_file : BOOLEAN,
                       values : {parsed.values}, seen : BOOLEAN],
           parsed.seen = (options.seen \/ arguments[index] \in FileOptions),
           parsed.explicit_file = (options.explicit_file \/ arguments[index] = "--env-file"),
           parsed.env_file = IF arguments[index] = "--no-env-file" THEN Unset
                             ELSE IF arguments[index] = "--env-file" THEN "local"
                             ELSE options.env_file,
           arguments[index] \in FileOptions => parsed.values = options.values,
           arguments[index] \in DOMAIN OptionName =>
              parsed.values = Insert(options.values, OptionName[arguments[index]],
                                     arguments[index + 1])
    PROVE  SettingsInv'
<1>1. /\ FromInputs /\ arguments \in CommandLines /\ OptionsAre /\ values = <<>>
      /\ index \in Starts /\ OptionsLegal(index) /\ OptionsHeld(index) /\ OptionsRead(index)
      /\ Len(arguments) \in Nat /\ pc = "options"
  BY OptionsAt DEF OptionsRead, Option
<1>2. /\ arguments' = arguments /\ environment' = environment /\ files' = files
      /\ pc' = "options" /\ values' = <<>> /\ options' = parsed /\ index' = index + w
  BY <1>1 DEF Advance, inputs
<1>3. PICK k, B : k = index /\ B = Before(k)
  OBVIOUS
<1>4. /\ Before(k + w) = B \cup {k} /\ k + w \in 1 .. Len(arguments) + 1
      /\ k + w \in Starts \cup {Len(arguments) + 1}
  BY <1>1, <1>3, OptionTaken
<1>5. Starts' = Starts
  BY <1>2, SameReference
<1>6. Before(index)' = B \cup {k}
  BY <1>2, <1>3, <1>4, <1>5 DEF Before
<1>7. OptionsLegal(index)'
  <2>1. OptionsLegal(k + w)
    BY <1>1, <1>3, LegalGoesOn
  <2>2. \A i : PathAt(i)' = PathAt(i)
    BY <1>2, Zenon DEF PathAt
  <2>3. QED
    BY <1>2, <1>3, <1>4, <1>6, <2>1, <2>2 DEF OptionsLegal
<1>8. OptionsHeld(index)'
  <2>1. (options.seen = \E i \in Before(index) : arguments[i] \in FileOptions)'
    BY <1>1, <1>2, <1>3, <1>6 DEF OptionsHeld
  <2>2. (options.explicit_file = \E i \in Before(index) : arguments[i] = "--env-file")'
    BY <1>1, <1>2, <1>3, <1>6 DEF OptionsHeld
  <2>3. (options.env_file = IF \E i \in Before(index) : arguments[i] = "--no-env-file" THEN Unset
                            ELSE IF options.explicit_file THEN "local" ELSE "env")'
    BY <1>1, <1>2, <1>3, <1>6 DEF OptionsHeld, FileOptions
  <2>4. DOMAIN parsed.values =
          {n \in ENV_NAMES : \E i \in B \cup {k} : /\ arguments[i] \in DOMAIN OptionName
                                                   /\ OptionName[arguments[i]] = n}
    BY <1>1, <1>3, OptionsTable DEF OptionsHeld, Insert, OptionWords, FileOptions
  <2>5. ASSUME NEW i \in B \cup {k}, arguments[i] \in DOMAIN OptionName
        PROVE  parsed.values[OptionName[arguments[i]]] = arguments[i + 1]
    <3>1. CASE i = k
      BY <1>3, <2>5, <3>1 DEF Insert
    <3>2. CASE i # k
      <4>1. options.values[OptionName[arguments[i]]] = arguments[i + 1]
        BY <1>1, <1>3, <2>5, <3>2 DEF OptionsHeld
      <4>2. OptionName[arguments[i]] \in DOMAIN options.values
        BY <1>1, <1>3, <2>5, <3>2, OptionsTable DEF OptionsHeld
      <4>3. QED
        BY <1>3, <4>1, <4>2 DEF Insert, OptionWords
    <3>3. QED
      BY <3>1, <3>2
  <2>6. QED
    BY <1>2, <1>6, <2>1, <2>2, <2>3, <2>4, <2>5 DEF OptionsHeld
<1>9. OptionsAre'
  BY <1>2 DEF OptionsAre
<1>10. SettingsStages'
  <2>1. (/\ index \in 1 .. Len(arguments) + 1
         /\ index \in Starts \cup {Len(arguments) + 1}
         /\ OptionsRead(index))'
    BY <1>2, <1>3, <1>4, <1>5, <1>7, <1>8 DEF OptionsRead
  <2>2. QED
    BY <1>2, <2>1 DEF SettingsStages
<1>11. QED
  BY <1>1, <1>2, <1>9, <1>10, SettingsStep

\* A refusal in the loop over the command line.
LEMMA OptionFails ==
    ASSUME SettingsInv, Option, Fail, ~LegalCommandLine
    PROVE  SettingsInv'
  BY SettingsFails DEF LegalInputs

\* --no-env-file.
LEMMA StepNoEnvFile == SettingsInv /\ NoEnvFile => SettingsInv'
<1> SUFFICES ASSUME SettingsInv, NoEnvFile PROVE SettingsInv'
  OBVIOUS
<1>1. Option /\ arguments[index] = "--no-env-file"
  BY DEF NoEnvFile
<1>2. /\ arguments \in CommandLines /\ OptionsAre /\ index \in Starts /\ OptionsRead(index)
      /\ Len(arguments) \in Nat /\ index \in Nat /\ index <= Len(arguments)
  BY <1>1, OptionsAt
<1>3. /\ arguments[index] \in FileOptions /\ arguments[index] \in OptionWords
      /\ arguments[index] \notin DOMAIN OptionName /\ arguments[index] # "--env-file"
  BY <1>1, OptionsTable DEF FileOptions, OptionWords
<1>4. CASE options.seen
  <2>1. Fail
    BY <1>4 DEF NoEnvFile
  <2>2. ~LegalCommandLine
    BY <1>2, <1>3, <1>4, OptionRefused
  <2>3. QED
    BY <1>1, <2>1, <2>2, OptionFails
<1>5. CASE ~options.seen
  <2>1. PICK w : w = Width(arguments[index])
    OBVIOUS
  <2>2. w = 1 /\ index + w <= Len(arguments) + 1
    BY <1>1, <1>2, <2>1 DEF Width
  <2>3. PICK parsed : parsed = [options EXCEPT !.seen = TRUE, !.env_file = Unset]
    OBVIOUS
  <2>4. Advance(w, parsed)
    BY <1>5, <2>2, <2>3 DEF NoEnvFile
  <2>5. /\ parsed \in [env_file : {"env", "local", Unset}, explicit_file : BOOLEAN,
                       values : {parsed.values}, seen : BOOLEAN]
        /\ parsed.seen = TRUE /\ parsed.explicit_file = options.explicit_file
        /\ parsed.env_file = Unset /\ parsed.values = options.values
        /\ options.explicit_file \in BOOLEAN
    BY <1>2, <2>3 DEF OptionsAre
  <2>6. /\ parsed.seen = (options.seen \/ arguments[index] \in FileOptions)
        /\ parsed.explicit_file = (options.explicit_file \/ arguments[index] = "--env-file")
    BY <1>3, <2>5
  <2>7. QED
    BY <1>1, <1>3, <1>5, <2>1, <2>2, <2>4, <2>5, <2>6, OptionAdvances
<1>6. QED
  BY <1>4, <1>5

\* --env-file and its path.
LEMMA StepEnvFile == SettingsInv /\ EnvFile => SettingsInv'
<1> SUFFICES ASSUME SettingsInv, EnvFile PROVE SettingsInv'
  OBVIOUS
<1>1. Option /\ arguments[index] = "--env-file"
  BY Zenon DEF EnvFile
<1>2. /\ arguments \in CommandLines /\ OptionsAre /\ index \in Starts /\ OptionsRead(index)
      /\ Len(arguments) \in Nat /\ index \in Nat /\ index <= Len(arguments)
  BY <1>1, OptionsAt
<1>3. /\ arguments[index] \in FileOptions /\ arguments[index] \in OptionWords
      /\ arguments[index] \notin DOMAIN OptionName /\ arguments[index] # "--no-env-file"
  BY <1>1, OptionsTable DEF FileOptions, OptionWords
<1>4. Width(arguments[index]) = 2
  BY <1>1 DEF Width
<1>5. PICK parsed : parsed = [options EXCEPT !.seen = TRUE, !.explicit_file = TRUE,
                                             !.env_file = "local"]
  OBVIOUS
<1>6. IF options.seen \/ ~HasValue \/ ~PathAt(index) THEN Fail ELSE Advance(2, parsed)
  BY <1>5, Zenon DEF EnvFile, Value, PathAt
<1>7. CASE options.seen \/ ~HasValue \/ ~PathAt(index)
  <2>1. ~HasValue => index + 2 > Len(arguments) + 1
    BY <1>2 DEF HasValue
  <2>2. ~LegalCommandLine
    BY <1>1, <1>2, <1>3, <1>4, <1>7, <2>1, OptionRefused
  <2>3. QED
    BY <1>1, <1>6, <1>7, <2>2, OptionFails
<1>8. CASE ~(options.seen \/ ~HasValue \/ ~PathAt(index))
  <2>1. PICK w : w = Width(arguments[index])
    OBVIOUS
  <2>2. w = 2 /\ index + w <= Len(arguments) + 1
    BY <1>2, <1>4, <1>8, <2>1 DEF HasValue
  <2>3. Advance(w, parsed)
    BY <1>6, <1>8, <2>2
  <2>4. /\ parsed \in [env_file : {"env", "local", Unset}, explicit_file : BOOLEAN,
                       values : {parsed.values}, seen : BOOLEAN]
        /\ parsed.seen = TRUE /\ parsed.explicit_file = TRUE
        /\ parsed.env_file = "local" /\ parsed.values = options.values
    BY <1>2, <1>5 DEF OptionsAre
  <2>5. /\ parsed.seen = (options.seen \/ arguments[index] \in FileOptions)
        /\ parsed.explicit_file = (options.explicit_file \/ arguments[index] = "--env-file")
    BY <1>1, <1>3, <2>4
  <2>6. QED
    BY <1>1, <1>3, <1>8, <2>1, <2>2, <2>3, <2>4, <2>5, OptionAdvances
<1>9. QED
  BY <1>7, <1>8

\* An option with a value.
LEMMA StepValueOption == SettingsInv /\ ValueOption => SettingsInv'
<1> SUFFICES ASSUME SettingsInv, ValueOption PROVE SettingsInv'
  OBVIOUS
<1>1. Option /\ arguments[index] \in DOMAIN OptionName
  BY DEF ValueOption
<1>2. /\ arguments \in CommandLines /\ OptionsAre /\ index \in Starts /\ OptionsRead(index)
      /\ Len(arguments) \in Nat /\ index \in Nat /\ index <= Len(arguments)
  BY <1>1, OptionsAt
<1>3. /\ arguments[index] \notin FileOptions /\ arguments[index] \in OptionWords
      /\ arguments[index] # "--env-file" /\ arguments[index] # "--no-env-file"
  BY <1>1, OptionsTable DEF FileOptions, OptionWords
<1>4. Width(arguments[index]) = 2
  BY <1>3 DEF Width
<1>5. PICK name : name = OptionName[arguments[index]]
  OBVIOUS
<1>6. CASE ~HasValue \/ name \in DOMAIN options.values
  <2>1. Fail
    BY <1>5, <1>6 DEF ValueOption
  <2>2. ~HasValue => index + 2 > Len(arguments) + 1
    BY <1>2 DEF HasValue
  <2>3. ~LegalCommandLine
    BY <1>1, <1>2, <1>4, <1>5, <1>6, <2>2, OptionRefused
  <2>4. QED
    BY <1>1, <2>1, <2>3, OptionFails
<1>7. CASE ~(~HasValue \/ name \in DOMAIN options.values)
  <2>1. PICK w : w = Width(arguments[index])
    OBVIOUS
  <2>2. w = 2 /\ index + w <= Len(arguments) + 1
    BY <1>2, <1>4, <1>7, <2>1 DEF HasValue
  <2>3. PICK given : given = Insert(options.values, name, arguments[index + 1])
    OBVIOUS
  <2>4. PICK parsed : parsed = [options EXCEPT !.values = given]
    OBVIOUS
  <2>5. Advance(w, parsed)
    BY <1>5, <1>7, <2>2, <2>3, <2>4 DEF ValueOption, Value
  <2>6. /\ parsed \in [env_file : {"env", "local", Unset}, explicit_file : BOOLEAN,
                       values : {parsed.values}, seen : BOOLEAN]
        /\ parsed.seen = options.seen /\ parsed.explicit_file = options.explicit_file
        /\ parsed.env_file = options.env_file /\ parsed.values = given
        /\ options.explicit_file \in BOOLEAN /\ options.seen \in BOOLEAN
    BY <1>2, <2>4 DEF OptionsAre
  <2>7. /\ parsed.seen = (options.seen \/ arguments[index] \in FileOptions)
        /\ parsed.explicit_file = (options.explicit_file \/ arguments[index] = "--env-file")
    BY <1>3, <2>6
  <2>8. QED
    BY <1>1, <1>3, <1>5, <1>7, <2>1, <2>2, <2>3, <2>5, <2>6, <2>7, OptionAdvances
<1>8. QED
  BY <1>6, <1>7

\* Any other argument.
LEMMA StepUnknownOption == SettingsInv /\ UnknownOption => SettingsInv'
<1> SUFFICES ASSUME SettingsInv, UnknownOption PROVE SettingsInv'
  OBVIOUS
<1>1. Option /\ Fail /\ arguments[index] \notin OptionWords
  BY DEF UnknownOption, OptionWords, FileOptions
<1>2. ~LegalCommandLine
  BY <1>1, OptionsAt, OptionRefused
<1>3. QED
  BY <1>1, <1>2, OptionFails

-----------------------------------------------------------------------------
(***************************************************************************)
(* From the options to the file.                                           *)
(***************************************************************************)
\* The options stay read.
LEMMA OptionsStay ==
    ASSUME arguments' = arguments, environment' = environment, files' = files, options' = options
    PROVE  OptionsRead(Len(arguments) + 1) => OptionsRead(Len(arguments) + 1)'
<1>1. Starts' = Starts
  BY SameReference
<1>2. Before(Len(arguments) + 1)' = Before(Len(arguments) + 1)
  BY <1>1 DEF Before
<1>3. \A i : PathAt(i)' = PathAt(i)
  BY Zenon DEF PathAt
<1>4. OptionsLegal(Len(arguments) + 1)' = OptionsLegal(Len(arguments) + 1)
  BY <1>2, <1>3 DEF OptionsLegal
<1>5. OptionsHeld(Len(arguments) + 1) => OptionsHeld(Len(arguments) + 1)'
  BY <1>2 DEF OptionsHeld
<1>6. QED
  BY <1>4, <1>5 DEF OptionsRead

\* The options have all been read.
LEMMA StepEndOfOptions == SettingsInv /\ EndOfOptions => SettingsInv'
<1> SUFFICES ASSUME SettingsInv, EndOfOptions PROVE SettingsInv'
  OBVIOUS
<1>1. pc = "options" /\ index > Len(arguments) /\ Go("environment")
  BY DEF EndOfOptions
<1>2. FromInputs /\ arguments \in CommandLines /\ OptionsAre /\ SettingsStages
  BY <1>1 DEF SettingsInv, InputsAre
<1>3. /\ pc' = "environment" /\ arguments' = arguments /\ environment' = environment
      /\ files' = files /\ options' = options /\ values' = values
  BY <1>1 DEF Go, inputs
<1>4. PICK n \in Nat : n = Len(arguments)
  BY <1>2, CommandLineIs
<1>5. index = n + 1 /\ OptionsRead(index) /\ values = <<>>
  BY <1>1, <1>2, <1>4 DEF SettingsStages
<1>6. OptionsRead(Len(arguments) + 1)'
  BY <1>3, <1>4, <1>5, OptionsStay
<1>7. SettingsStages'
  BY <1>3, <1>5, <1>6 DEF SettingsStages
<1>8. OptionsAre'
  BY <1>2, <1>3 DEF OptionsAre
<1>9. QED
  BY <1>2, <1>3, <1>7, <1>8, SettingsStep

\* --help and --version end the program.
LEMMA StepHelp == SettingsInv /\ Help => SettingsInv'
<1> SUFFICES ASSUME SettingsInv, Help PROVE SettingsInv'
  OBVIOUS
<1>1. pc = "main" /\ Go("help")
  BY DEF Help
<1>2. FromInputs /\ OptionsAre
  BY <1>1 DEF SettingsInv
<1>3. /\ pc' = "help" /\ arguments' = arguments /\ environment' = environment
      /\ files' = files /\ options' = options
  BY <1>1 DEF Go, inputs
<1>4. SettingsStages'
  BY <1>3 DEF SettingsStages
<1>5. OptionsAre'
  BY <1>2, <1>3 DEF OptionsAre
<1>6. QED
  BY <1>2, <1>3, <1>4, <1>5, SettingsStep

\* The loop over the command line starts.
LEMMA StepLoad == SettingsInv /\ Load => SettingsInv'
<1> SUFFICES ASSUME SettingsInv, Load PROVE SettingsInv'
  OBVIOUS
<1>1. pc = "main" /\ Go("options")
  BY DEF Load
<1>2. FromInputs /\ arguments \in CommandLines /\ OptionsAre /\ SettingsStages
  BY <1>1 DEF SettingsInv, InputsAre
<1>3. /\ pc' = "options" /\ arguments' = arguments /\ environment' = environment
      /\ files' = files /\ options' = options /\ values' = values /\ index' = index
  BY <1>1 DEF Go, inputs
<1>4. index = 1 /\ OptionsRead(1) /\ values = <<>>
  BY <1>1, <1>2 DEF SettingsStages
<1>5. PICK n \in Nat : n = Len(arguments) /\ DOMAIN arguments = 1 .. n
  BY <1>2, CommandLineIs
<1>6. index \in 1 .. n + 1 /\ index \in Starts \cup {n + 1}
  <2>1. n >= 1 => 1 \in Starts
    BY <1>2, <1>5, StartsAre DEF Chain
  <2>2. QED
    BY <1>4, <2>1
<1>7. Starts' = Starts
  BY <1>3, SameReference
<1>8. OptionsRead(index)'
  <2>1. Before(index)' = Before(1)
    BY <1>3, <1>4, <1>7 DEF Before
  <2>2. \A i : PathAt(i)' = PathAt(i)
    BY <1>3, Zenon DEF PathAt
  <2>3. OptionsLegal(index)'
    BY <1>3, <1>4, <2>1, <2>2 DEF OptionsLegal, OptionsRead
  <2>4. OptionsHeld(index)'
    BY <1>3, <1>4, <2>1 DEF OptionsHeld, OptionsRead
  <2>5. QED
    BY <2>3, <2>4 DEF OptionsRead
<1>9. SettingsStages'
  BY <1>3, <1>4, <1>5, <1>6, <1>7, <1>8 DEF SettingsStages
<1>10. OptionsAre'
  BY <1>2, <1>3 DEF OptionsAre
<1>11. QED
  BY <1>2, <1>3, <1>9, <1>10, SettingsStep

\* The environment.
LEMMA StepReadEnvironment == SettingsInv /\ ReadEnvironment => SettingsInv'
<1> SUFFICES ASSUME SettingsInv, ReadEnvironment PROVE SettingsInv'
  OBVIOUS
<1>1. pc = "environment"
  BY DEF ReadEnvironment
<1>2. FromInputs /\ OptionsAre /\ OptionsRead(Len(arguments) + 1) /\ values = <<>>
  BY <1>1 DEF SettingsInv, SettingsStages
<1>3. CASE ~LegalEnvironment
  <2>1. Fail
    BY <1>3 DEF ReadEnvironment
  <2>2. QED
    BY <1>3, <2>1, SettingsFails DEF LegalInputs
<1>4. CASE LegalEnvironment
  <2>1. Go("file")
    BY <1>4 DEF ReadEnvironment
  <2>2. /\ pc' = "file" /\ arguments' = arguments /\ environment' = environment
        /\ files' = files /\ options' = options /\ values' = values
    BY <2>1 DEF Go, inputs
  <2>3. LegalEnvironment' /\ OptionsRead(Len(arguments) + 1)'
    BY <1>2, <1>4, <2>2, SameReference, OptionsStay
  <2>4. SettingsStages'
    BY <1>2, <2>2, <2>3 DEF SettingsStages
  <2>5. OptionsAre'
    BY <1>2, <2>2 DEF OptionsAre
  <2>6. QED
    BY <1>2, <2>2, <2>4, <2>5, SettingsStep
<1>5. QED
  BY <1>3, <1>4

\* The file the options choose is the one the reference reads.
LEMMA LinesAre ==
    ASSUME InputsAre, OptionsAre, OptionsRead(Len(arguments) + 1)
    PROVE  Lines = IF options.env_file = Unset THEN <<>>
                   ELSE IF Found = "text" THEN Text
                   ELSE IF Found = "missing" /\ ~options.explicit_file THEN <<>> ELSE Unset
<1>1. PICK n \in Nat : n = Len(arguments) /\ DOMAIN arguments = 1 .. n
  BY CommandLineIs DEF InputsAre
<1>2. Before(Len(arguments) + 1) = Starts
  <2>1. PICK S \in SUBSET (1 .. n) : S = Starts
    BY <1>1, StartsAre DEF InputsAre
  <2>2. \A i \in S : i < n + 1
    OBVIOUS
  <2>3. QED
    BY <1>1, <2>1, <2>2 DEF Before
<1>3. /\ options.explicit_file = \E i \in Starts : arguments[i] = "--env-file"
      /\ options.env_file = IF \E i \in Starts : arguments[i] = "--no-env-file" THEN Unset
                            ELSE IF options.explicit_file THEN "local" ELSE "env"
  BY <1>2 DEF OptionsRead, OptionsHeld
<1>4. /\ Places("--env-file") # {} <=> options.explicit_file
      /\ Places("--no-env-file") # {} <=> \E i \in Starts : arguments[i] = "--no-env-file"
  BY <1>3 DEF Places, OptionsAre
<1>5. Unset # "local" /\ Unset # "env"
  BY SettingsAssumption
<1>6. CASE Places("--no-env-file") # {}
  BY <1>3, <1>4, <1>6 DEF Lines
<1>7. CASE Places("--no-env-file") = {} /\ options.explicit_file
  <2>1. options.env_file = "local"
    BY <1>3, <1>4, <1>7
  <2>2. Found = files.local.state /\ Text = files.local.lines
    BY <2>1 DEF Found, Text, InputsAre
  <2>3. QED
    BY <1>4, <1>5, <1>7, <2>1, <2>2 DEF Lines
<1>8. CASE Places("--no-env-file") = {} /\ ~options.explicit_file
  <2>1. options.env_file = "env"
    BY <1>3, <1>4, <1>8
  <2>2. Found = files.env.state /\ Text = files.env.lines
    BY <2>1 DEF Found, Text, InputsAre
  <2>3. Lines = IF files.env.state = "missing" THEN <<>>
                ELSE IF files.env.state = "text" THEN files.env.lines ELSE Unset
    BY <1>4, <1>8 DEF Lines
  <2>4. QED
    BY <1>5, <1>8, <2>1, <2>2, <2>3
<1>9. QED
  BY <1>6, <1>7, <1>8

-----------------------------------------------------------------------------
(***************************************************************************)
(* The loop over the lines of the file.                                    *)
(***************************************************************************)
\* No line before the k-th is wrong or repeats another.
LinesLegal(k) ==
    /\ \A i \in 1 .. k - 1 : Lines[i].kind # "malformed"
    /\ \A i \in 1 .. k - 1 : Assigned(i) => Lines[i].name \in ENV_NAMES /\ QuotesAt(i)
    /\ \A i, j \in 1 .. k - 1 : Assigned(i) /\ Assigned(j) /\ Lines[i].name = Lines[j].name => i = j

\* The lines of a file that can be used.
LEMMA LinesType ==
    ASSUME InputsAre, Lines # Unset
    PROVE  /\ Lines \in Seq(AnyLine) /\ Len(Lines) \in Nat /\ DOMAIN Lines = 1 .. Len(Lines)
           /\ \A i \in 1 .. Len(Lines) : Lines[i] \in AnyLine
<1>1. <<>> \in Seq(AnyLine)
  OBVIOUS
<1>2. files.env.lines \in Seq(AnyLine) /\ files.local.lines \in Seq(AnyLine)
  BY SettingsAssumption DEF InputsAre
<1>3. Lines \in {<<>>, files.env.lines, files.local.lines}
  BY DEF Lines
<1>4. Lines \in Seq(AnyLine)
  BY <1>1, <1>2, <1>3
<1>5. QED
  BY <1>4

\* A line is blank, malformed, or an assignment of a token.
LEMMA LineIs ==
    ASSUME NEW line \in AnyLine
    PROVE  /\ line.kind \in {"blank", "malformed", "assign"}
           /\ line.kind = "assign" => line.value \in Tokens
  BY DEF AnyLine

\* The lines a file may have, by pairs of places.
LEMMA LegalLinesAre ==
    ASSUME InputsAre, Lines # Unset
    PROVE  LegalLines <=> LinesLegal(Len(Lines) + 1)
<1>1. PICK n \in Nat : n = Len(Lines) /\ DOMAIN Lines = 1 .. n
  BY LinesType
<1>2. (n + 1) - 1 = n
  OBVIOUS
<1>3. \A name : Assigning(name) = {i \in 1 .. n : Assigned(i) /\ Lines[i].name = name}
  BY <1>1 DEF Assigning, Assigned
<1>4. ASSUME NEW name
      PROVE  Cardinality(Assigning(name)) <= 1 <=>
               \A i, j \in 1 .. n : Assigned(i) /\ Assigned(j) /\ Lines[i].name = name
                                      /\ Lines[j].name = name => i = j
  <2>1. IsFiniteSet(1 .. n) /\ Assigning(name) \in SUBSET (1 .. n)
    BY <1>3, FS_Interval
  <2>2. Cardinality(Assigning(name)) <= 1 <=> \A i, j \in Assigning(name) : i = j
    BY <2>1, FS_Subset, AtMostOne
  <2>3. QED
    BY <1>3, <2>2
<1>5. LegalLines <=>
        /\ \A i \in 1 .. n : Lines[i].kind # "malformed"
        /\ \A i \in 1 .. n : Assigned(i) => Lines[i].name \in ENV_NAMES /\ QuotesAt(i)
        /\ \A name \in ENV_NAMES : Cardinality(Assigning(name)) <= 1
  BY <1>1, Zenon DEF LegalLines, Assigned, QuotesAt
<1>6. LinesLegal(n + 1) <=>
        /\ \A i \in 1 .. n : Lines[i].kind # "malformed"
        /\ \A i \in 1 .. n : Assigned(i) => Lines[i].name \in ENV_NAMES /\ QuotesAt(i)
        /\ \A i, j \in 1 .. n : Assigned(i) /\ Assigned(j) /\ Lines[i].name = Lines[j].name => i = j
  BY <1>2, Zenon DEF LinesLegal
<1>7. ASSUME \A i \in 1 .. n : Assigned(i) => Lines[i].name \in ENV_NAMES
      PROVE  (\A name \in ENV_NAMES : Cardinality(Assigning(name)) <= 1) <=>
               \A i, j \in 1 .. n : Assigned(i) /\ Assigned(j) /\ Lines[i].name = Lines[j].name
                                      => i = j
  <2>1. PICK E : E = ENV_NAMES
    OBVIOUS
  <2>2. (\A name \in E : Cardinality(Assigning(name)) <= 1) <=>
               \A i, j \in 1 .. n : Assigned(i) /\ Assigned(j) /\ Lines[i].name = Lines[j].name
                                      => i = j
    BY <1>4, <1>7, <2>1
  <2>3. QED
    BY <2>1, <2>2
<1>8. QED
  BY <1>1, <1>5, <1>6, <1>7, Zenon

\* What the step before the loop knows.
LEMMA FileAt ==
    ASSUME SettingsInv, pc \in {"file", "lines"}
    PROVE  /\ FromInputs /\ InputsAre /\ OptionsAre /\ SettingsStages
           /\ OptionsRead(Len(arguments) + 1) /\ LegalEnvironment
           /\ Lines = IF options.env_file = Unset THEN <<>>
                      ELSE IF Found = "text" THEN Text
                      ELSE IF Found = "missing" /\ ~options.explicit_file THEN <<>> ELSE Unset
<1>1. /\ FromInputs /\ InputsAre /\ OptionsAre /\ SettingsStages
      /\ OptionsRead(Len(arguments) + 1) /\ LegalEnvironment
  BY DEF SettingsInv, SettingsStages
<1>2. QED
  BY <1>1, LinesAre

\* The lines stay.
LEMMA LinesStay ==
    ASSUME arguments' = arguments, environment' = environment, files' = files
    PROVE  /\ Lines' = Lines
           /\ \A i : Assigned(i)' = Assigned(i) /\ QuotesAt(i)' = QuotesAt(i)
<1>1. Lines' = Lines
  BY SameReference
<1>2. QED
  BY <1>1, Zenon DEF Assigned, QuotesAt

\* No file is needed, or .env is not there.
LEMMA StepNoFile == SettingsInv /\ NoFile => SettingsInv'
<1> SUFFICES ASSUME SettingsInv, NoFile PROVE SettingsInv'
  OBVIOUS
<1>1. pc = "file" /\ Go("sources")
  BY DEF NoFile
<1>2. options.env_file = Unset \/ (Found = "missing" /\ ~options.explicit_file)
  BY DEF NoFile
<1>3. Lines = <<>>
  BY <1>1, <1>2, FileAt
<1>4. /\ pc' = "sources" /\ arguments' = arguments /\ environment' = environment
      /\ files' = files /\ options' = options /\ values' = values
  BY <1>1 DEF Go, inputs
<1>5. values = <<>>
  BY <1>1, FileAt DEF SettingsStages
<1>6. Lines' = <<>> /\ values' = <<>>
  BY <1>3, <1>4, <1>5, LinesStay
<1>7. (Lines # Unset)'
  BY <1>6, SettingsAssumption
<1>8. LinesRead(Len(Lines) + 1)'
  BY <1>6 DEF LinesRead
<1>9. LegalEnvironment' /\ OptionsRead(Len(arguments) + 1)'
  BY <1>1, <1>4, FileAt, SameReference, OptionsStay
<1>10. SettingsStages'
  BY <1>4, <1>7, <1>8, <1>9 DEF SettingsStages
<1>11. OptionsAre'
  BY <1>1, <1>4, FileAt DEF OptionsAre
<1>12. QED
  BY <1>1, <1>4, <1>10, <1>11, FileAt, SettingsStep

\* A file that has been opened has lines.
LEMMA TextIs ==
    ASSUME InputsAre, OptionsAre, options.env_file # Unset
    PROVE  Text # Unset
<1>1. options.env_file \in {"env", "local"}
  BY DEF OptionsAre
<1>2. files.env \in DotEnvs /\ files.local \in LocalEnvs
  BY DEF InputsAre
<1>3. files.env.lines # Unset /\ files.local.lines # Unset
  BY <1>2, SettingsAssumption
<1>4. CASE options.env_file = "env"
  BY <1>3, <1>4 DEF Text, InputsAre
<1>5. CASE options.env_file = "local"
  BY <1>3, <1>5 DEF Text, InputsAre
<1>6. QED
  BY <1>1, <1>4, <1>5

\* The file is there.
LEMMA StepOpenFile == SettingsInv /\ OpenFile => SettingsInv'
<1> SUFFICES ASSUME SettingsInv, OpenFile PROVE SettingsInv'
  OBVIOUS
<1>1. pc = "file" /\ options.env_file # Unset /\ Found = "text"
  BY DEF OpenFile
<1>2. /\ pc' = "lines" /\ arguments' = arguments /\ environment' = environment
      /\ files' = files /\ options' = options /\ values' = values /\ index' = 1
  BY DEF OpenFile, inputs
<1>3. FromInputs /\ InputsAre /\ OptionsAre /\ Lines = Text /\ values = <<>>
  BY <1>1, FileAt DEF SettingsStages
<1>4. Lines # Unset
  BY <1>1, <1>3, TextIs
<1>5. PICK n \in Nat : n = Len(Lines)
  BY <1>3, <1>4, LinesType
<1>6. Lines' = Lines /\ Found' = Found
  BY <1>2, LinesStay DEF Found
<1>7. index' \in 1 .. n + 1
  BY <1>2
<1>8. LinesRead(index)'
  BY <1>2, <1>3, <1>6 DEF LinesRead
<1>9. LegalEnvironment' /\ OptionsRead(Len(arguments) + 1)'
  BY <1>1, <1>2, FileAt, SameReference, OptionsStay
<1>10. SettingsStages'
  BY <1>1, <1>2, <1>5, <1>6, <1>7, <1>8, <1>9 DEF SettingsStages
<1>11. OptionsAre'
  BY <1>2, <1>3 DEF OptionsAre
<1>12. QED
  BY <1>2, <1>3, <1>10, <1>11, SettingsStep

\* The file cannot be used, or was named and is not there.
LEMMA StepRejectFile == SettingsInv /\ RejectFile => SettingsInv'
<1> SUFFICES ASSUME SettingsInv, RejectFile PROVE SettingsInv'
  OBVIOUS
<1>1. /\ pc = "file" /\ options.env_file # Unset /\ Fail
      /\ Found # "text" /\ (Found = "missing" => options.explicit_file)
  BY DEF RejectFile
<1>2. Lines = Unset
  BY <1>1, FileAt
<1>3. ~LegalLines
  BY <1>2, Zenon DEF LegalLines
<1>4. QED
  BY <1>1, <1>3, SettingsFails DEF LegalInputs

\* What the loop over the lines knows.
LEMMA LinesAt ==
    ASSUME SettingsInv, pc = "lines"
    PROVE  /\ FromInputs /\ InputsAre /\ OptionsAre /\ OptionsRead(Len(arguments) + 1)
           /\ LegalEnvironment /\ options.env_file # Unset /\ Found = "text"
           /\ Lines = Text /\ Lines # Unset /\ Len(Lines) \in Nat
           /\ index \in 1 .. Len(Lines) + 1 /\ LinesRead(index)
<1>1. /\ FromInputs /\ InputsAre /\ OptionsAre /\ OptionsRead(Len(arguments) + 1)
      /\ LegalEnvironment /\ SettingsStages
  BY FileAt
<1>2. options.env_file # Unset /\ Found = "text" /\ index \in 1 .. Len(Lines) + 1 /\ LinesRead(index)
  BY <1>1 DEF SettingsStages
<1>3. Lines = Text
  BY <1>2, FileAt
<1>4. Lines # Unset
  BY <1>1, <1>2, <1>3, TextIs
<1>5. QED
  BY <1>1, <1>2, <1>3, <1>4, LinesType

\* A line that has been read.
LEMMA LineAdvances ==
    ASSUME SettingsInv, NextLine, index' = index + 1, pc' = pc, arguments' = arguments,
           environment' = environment, files' = files, options' = options,
           LinesRead(index)'
    PROVE  SettingsInv'
<1>1. pc = "lines" /\ index <= Len(Text)
  BY DEF NextLine
<1>2. /\ FromInputs /\ OptionsAre /\ OptionsRead(Len(arguments) + 1)
      /\ LegalEnvironment /\ options.env_file # Unset /\ Found = "text" /\ Lines = Text
  BY <1>1, LinesAt
<1>3. PICK n \in Nat : n = Len(Lines) /\ index \in 1 .. n + 1
  BY <1>1, LinesAt
<1>4. index' \in 1 .. n + 1
  BY <1>1, <1>2, <1>3
<1>5. Lines' = Lines /\ Found' = Found
  BY LinesStay DEF Found
<1>6. LegalEnvironment' /\ OptionsRead(Len(arguments) + 1)'
  BY <1>2, SameReference, OptionsStay
<1>7. SettingsStages'
  BY <1>1, <1>2, <1>3, <1>4, <1>5, <1>6 DEF SettingsStages
<1>8. OptionsAre'
  BY <1>2 DEF OptionsAre
<1>9. QED
  BY <1>1, <1>2, <1>7, <1>8, SettingsStep

\* A line with nothing to say.
LEMMA StepSkipLine == SettingsInv /\ SkipLine => SettingsInv'
<1> SUFFICES ASSUME SettingsInv, SkipLine PROVE SettingsInv'
  OBVIOUS
<1>1. /\ pc = "lines" /\ NextLine /\ Line.kind = "blank" /\ index' = index + 1 /\ pc' = pc
      /\ arguments' = arguments /\ environment' = environment /\ files' = files
      /\ options' = options /\ values' = values
  BY DEF SkipLine, NextLine, inputs
<1>2. Lines = Text /\ LinesRead(index)
  BY <1>1, LinesAt
<1>3. PICK k \in Nat : k = index
  BY <1>1, LinesAt
<1>4. Lines[k].kind = "blank" /\ ~Assigned(k)
  BY <1>1, <1>2, <1>3 DEF Line, Assigned
<1>5. PICK D : D = 1 .. k
  OBVIOUS
<1>6. 1 .. index' - 1 = D /\ \A i \in D : i \in 1 .. k - 1 \/ i = k
  BY <1>1, <1>3, <1>5
<1>7. 1 .. index - 1 \subseteq D
  BY <1>3, <1>5
<1>8. Lines' = Lines /\ \A i : Assigned(i)' = Assigned(i) /\ QuotesAt(i)' = QuotesAt(i)
  BY <1>1, LinesStay
<1>9. LinesRead(index)'
  BY <1>1, <1>2, <1>3, <1>4, <1>6, <1>7, <1>8 DEF LinesRead
<1>10. QED
  BY <1>1, <1>9, LineAdvances

\* What LegalLine asks of a line.
LEMMA LegalLineIs ==
    ASSUME Lines = Text, NEW k, k = index, Lines[k].kind \in {"malformed", "assign"}
    PROVE  LegalLine <=> /\ Assigned(k) /\ Lines[k].name \in ENV_NAMES /\ QuotesAt(k)
                         /\ Lines[k].name \notin DOMAIN values
<1>1. Line = Lines[k]
  BY DEF Line
<1>2. Lines[k].kind # "malformed" <=> Assigned(k)
  BY DEF Assigned
<1>3. QED
  BY <1>1, <1>2, Zenon DEF LegalLine, QuotesAt

\* A line that says something.
LEMMA StepTakeLine == SettingsInv /\ TakeLine => SettingsInv'
<1> SUFFICES ASSUME SettingsInv, TakeLine PROVE SettingsInv'
  OBVIOUS
<1>1. pc = "lines" /\ NextLine /\ Line.kind # "blank" /\ index <= Len(Text)
  BY DEF TakeLine, NextLine
<1>2. Lines = Text /\ LinesRead(index) /\ InputsAre /\ Lines # Unset
  BY <1>1, LinesAt
<1>3. PICK k \in Nat : k = index /\ k >= 1
  BY <1>1, LinesAt
<1>4. PICK n \in Nat : n = Len(Lines) /\ k \in 1 .. n
  BY <1>1, <1>2, <1>3, LinesAt
<1>5. Lines[k].kind \in {"malformed", "assign"} /\ Line = Lines[k]
  <2>1. Lines[k] \in AnyLine
    BY <1>2, <1>4, LinesType
  <2>2. Line = Lines[k]
    BY <1>2, <1>3 DEF Line
  <2>3. QED
    BY <1>1, <2>1, <2>2, LineIs
<1>6. LegalLine <=> /\ Assigned(k) /\ Lines[k].name \in ENV_NAMES /\ QuotesAt(k)
                    /\ Lines[k].name \notin DOMAIN values
  BY <1>2, <1>3, <1>5, LegalLineIs
<1>7. CASE ~LegalLine
  <2>1. Fail
    BY <1>7 DEF TakeLine
  <2>2. LinesLegal(n + 1) => LegalLine
    <3> SUFFICES ASSUME LinesLegal(n + 1) PROVE LegalLine
      OBVIOUS
    <3>1. 1 .. (n + 1) - 1 = 1 .. n
      OBVIOUS
    <3>2. Lines[k].kind # "malformed"
      BY <1>4, <3>1 DEF LinesLegal
    <3>3. Assigned(k)
      BY <1>5, <3>2 DEF Assigned
    <3>4. Lines[k].name \in ENV_NAMES /\ QuotesAt(k)
      BY <1>4, <3>1, <3>3 DEF LinesLegal
    <3>5. ASSUME Lines[k].name \in DOMAIN values PROVE FALSE
      <4>1. PICK i \in 1 .. k - 1 : Assigned(i) /\ Lines[i].name = Lines[k].name
        BY <1>2, <1>3, <3>5 DEF LinesRead
      <4>2. i \in 1 .. n /\ i # k
        BY <1>4
      <4>3. QED
        BY <1>4, <3>1, <3>3, <4>1, <4>2 DEF LinesLegal
    <3>6. QED
      BY <1>6, <3>3, <3>4, <3>5
  <2>3. ~LegalLines
    BY <1>2, <1>4, <1>7, <2>2, LegalLinesAre
  <2>4. QED
    BY <2>1, <2>3, SettingsFails DEF LegalInputs
<1>8. CASE LegalLine
  <2>1. /\ index' = index + 1 /\ pc' = pc /\ options' = options
        /\ arguments' = arguments /\ environment' = environment /\ files' = files
        /\ values' = Insert(values, Lines[k].name, Lines[k].value)
    BY <1>5, <1>8 DEF TakeLine, inputs
  <2>2. PICK D : D = 1 .. k
    OBVIOUS
  <2>3. 1 .. index' - 1 = D /\ \A i \in D : i \in 1 .. k - 1 \/ i = k
    BY <1>3, <2>1, <2>2
  <2>4. 1 .. index - 1 \subseteq D /\ 1 .. index - 1 = 1 .. k - 1 /\ k \in D
    BY <1>3, <2>2
  <2>5. Lines' = Lines /\ \A i : Assigned(i)' = Assigned(i) /\ QuotesAt(i)' = QuotesAt(i)
    BY <2>1, LinesStay
  <2>6. /\ Assigned(k) /\ Lines[k].name \in ENV_NAMES /\ QuotesAt(k)
        /\ Lines[k].name \notin DOMAIN values
    BY <1>6, <1>8
  <2>7. /\ DOMAIN values' = DOMAIN values \cup {Lines[k].name}
        /\ values'[Lines[k].name] = Lines[k].value
        /\ \A x \in DOMAIN values : values'[x] = values[x]
    BY <2>1, <2>6 DEF Insert
  <2>8. ASSUME NEW i \in 1 .. k - 1, Assigned(i)
        PROVE  Lines[i].name \in DOMAIN values /\ values[Lines[i].name] = Lines[i].value
    BY <1>2, <2>4, <2>8 DEF LinesRead
  <2>9. \A i \in D : (Lines[i].kind # "malformed" /\ (Assigned(i) => Lines[i].name \in ENV_NAMES
                                                                    /\ QuotesAt(i)))
    BY <1>2, <2>3, <2>4, <2>6 DEF LinesRead, Assigned
  <2>10. \A i, j \in D : Assigned(i) /\ Assigned(j) /\ Lines[i].name = Lines[j].name => i = j
    <3>1. \A i, j \in 1 .. k - 1 :
            Assigned(i) /\ Assigned(j) /\ Lines[i].name = Lines[j].name => i = j
      BY <1>2, <2>4, Zenon DEF LinesRead
    <3>2. \A i \in 1 .. k - 1 : Assigned(i) => Lines[i].name # Lines[k].name
      BY <2>6, <2>8
    <3>3. QED
      BY <2>3, <3>1, <3>2
  <2>11. DOMAIN values' = {x \in ENV_NAMES : \E i \in D : Assigned(i) /\ Lines[i].name = x}
    <3>1. DOMAIN values = {x \in ENV_NAMES : \E i \in 1 .. k - 1 : Assigned(i) /\ Lines[i].name = x}
      BY <1>2, <2>4 DEF LinesRead
    <3>2. PICK E : E = ENV_NAMES
      OBVIOUS
    <3>3. QED
      BY <2>3, <2>4, <2>6, <2>7, <3>1, <3>2
  <2>12. \A i \in D : Assigned(i) => values'[Lines[i].name] = Lines[i].value
    BY <2>3, <2>7, <2>8
  <2>13. LinesRead(index)'
    BY <2>3, <2>5, <2>9, <2>10, <2>11, <2>12 DEF LinesRead
  <2>14. QED
    BY <1>1, <2>1, <2>13, LineAdvances
<1>9. QED
  BY <1>7, <1>8

\* The lines have all been read.
LEMMA StepEndOfFile == SettingsInv /\ EndOfFile => SettingsInv'
<1> SUFFICES ASSUME SettingsInv, EndOfFile PROVE SettingsInv'
  OBVIOUS
<1>1. pc = "lines" /\ index > Len(Text) /\ Go("sources")
  BY DEF EndOfFile
<1>2. /\ pc' = "sources" /\ arguments' = arguments /\ environment' = environment
      /\ files' = files /\ options' = options /\ values' = values
  BY <1>1 DEF Go, inputs
<1>3. /\ FromInputs /\ OptionsAre /\ OptionsRead(Len(arguments) + 1) /\ LegalEnvironment
      /\ Lines = Text /\ Lines # Unset /\ LinesRead(index)
  BY <1>1, LinesAt
<1>4. PICK n \in Nat : n = Len(Lines) /\ index \in 1 .. n + 1
  BY <1>1, LinesAt
<1>5. index = n + 1
  BY <1>1, <1>3, <1>4
<1>6. Lines' = Lines /\ \A i : Assigned(i)' = Assigned(i) /\ QuotesAt(i)' = QuotesAt(i)
  BY <1>2, LinesStay
<1>7. LinesRead(Len(Lines) + 1)'
  BY <1>2, <1>3, <1>4, <1>5, <1>6 DEF LinesRead
<1>8. LegalEnvironment' /\ OptionsRead(Len(arguments) + 1)'
  BY <1>2, <1>3, SameReference, OptionsStay
<1>9. SettingsStages'
  BY <1>2, <1>3, <1>6, <1>7, <1>8 DEF SettingsStages
<1>10. OptionsAre'
  BY <1>2, <1>3 DEF OptionsAre
<1>11. QED
  BY <1>2, <1>3, <1>9, <1>10, SettingsStep

-----------------------------------------------------------------------------
(***************************************************************************)
(* The sources together.                                                   *)
(***************************************************************************)
\* What the last step knows.
LEMMA SourcesAt ==
    ASSUME SettingsInv, pc = "sources"
    PROVE  /\ FromInputs /\ InputsAre /\ OptionsAre /\ OptionsRead(Len(arguments) + 1)
           /\ LegalEnvironment /\ Lines # Unset /\ LinesRead(Len(Lines) + 1)
  BY DEF SettingsInv, SettingsStages

\* The options that give a setting its value.
LEMMA GivenIs ==
    ASSUME InputsAre, OptionsRead(Len(arguments) + 1), NEW name \in ENV_NAMES
    PROVE  /\ name \in DOMAIN options.values <=> Giving(name) # {}
           /\ Giving(name) # {} => /\ options.values[name] = arguments[Some(Giving(name)) + 1]
                                   /\ arguments[Some(Giving(name)) + 1] \in Tokens
<1>1. PICK n \in Nat : n = Len(arguments) /\ DOMAIN arguments = 1 .. n
  BY CommandLineIs DEF InputsAre
<1>2. PICK S \in SUBSET (1 .. n) : S = Starts
  BY <1>1, StartsAre DEF InputsAre
<1>3. Before(Len(arguments) + 1) = S
  <2>1. \A i \in S : i < n + 1
    OBVIOUS
  <2>2. QED
    BY <1>1, <1>2, <2>1 DEF Before
<1>4. ASSUME NEW i \in S, arguments[i] \in DOMAIN OptionName PROVE i \in 1 .. n - 1
  <2>1. Width(arguments[i]) = 2
    BY <1>4, OptionsTable DEF Width
  <2>2. i + 2 <= n + 1
    BY <1>1, <1>3, <2>1 DEF OptionsRead, OptionsLegal
  <2>3. QED
    BY <2>2
<1>5. \A i : i \in Giving(name) <=> i \in S /\ arguments[i] \in DOMAIN OptionName
                                      /\ OptionName[arguments[i]] = name
  BY <1>1, <1>2, <1>4 DEF Giving
<1>6. name \in DOMAIN options.values <=> Giving(name) # {}
  BY <1>3, <1>5 DEF OptionsRead, OptionsHeld
<1>7. ASSUME Giving(name) # {}
      PROVE  /\ options.values[name] = arguments[Some(Giving(name)) + 1]
             /\ arguments[Some(Giving(name)) + 1] \in Tokens
  <2>1. PICK i : i = Some(Giving(name))
    OBVIOUS
  <2>2. i \in Giving(name)
    BY <1>7, <2>1 DEF Some
  <2>3. i \in S /\ arguments[i] \in DOMAIN OptionName /\ OptionName[arguments[i]] = name
    BY <1>5, <2>2
  <2>4. i \in 1 .. n - 1
    BY <1>4, <2>3
  <2>5. options.values[name] = arguments[i + 1]
    BY <1>3, <2>3 DEF OptionsRead, OptionsHeld
  <2>6. arguments[i + 1] \in Tokens
    BY <1>1, <2>4, CommandLineIs DEF InputsAre
  <2>7. QED
    BY <2>1, <2>5, <2>6
<1>8. QED
  BY <1>6, <1>7

\* The line that gives a setting its value.
LEMMA AssignedIs ==
    ASSUME InputsAre, Lines # Unset, LinesRead(Len(Lines) + 1), NEW name \in ENV_NAMES
    PROVE  /\ name \in DOMAIN values <=> Assigning(name) # {}
           /\ Assigning(name) # {} => /\ values[name] = Lines[Some(Assigning(name))].value
                                      /\ Lines[Some(Assigning(name))].value \in Tokens
<1>1. PICK n \in Nat : n = Len(Lines) /\ DOMAIN Lines = 1 .. n
  BY LinesType
<1>2. 1 .. (Len(Lines) + 1) - 1 = 1 .. n
  BY <1>1
<1>3. Assigning(name) = {i \in 1 .. n : Assigned(i) /\ Lines[i].name = name}
  BY <1>1 DEF Assigning, Assigned
<1>4. name \in DOMAIN values <=> Assigning(name) # {}
  BY <1>2, <1>3 DEF LinesRead
<1>5. ASSUME Assigning(name) # {}
      PROVE  /\ values[name] = Lines[Some(Assigning(name))].value
             /\ Lines[Some(Assigning(name))].value \in Tokens
  <2>1. PICK i : i = Some(Assigning(name))
    OBVIOUS
  <2>2. i \in Assigning(name)
    BY <1>5, <2>1 DEF Some
  <2>3. i \in 1 .. n /\ Assigned(i) /\ Lines[i].name = name
    BY <1>3, <2>2
  <2>4. values[name] = Lines[i].value
    BY <1>2, <2>3 DEF LinesRead
  <2>5. Lines[i] \in AnyLine
    BY <1>1, <2>3, LinesType
  <2>6. Lines[i].value \in Tokens
    BY <2>3, <2>5, LineIs DEF Assigned
  <2>7. QED
    BY <2>1, <2>4, <2>6
<1>6. QED
  BY <1>4, <1>5

\* The names a source may use.
LEMMA NamesOfSources ==
    ASSUME InputsAre, OptionsRead(Len(arguments) + 1), LegalEnvironment, LinesRead(Len(Lines) + 1)
    PROVE  /\ DOMAIN options.values \subseteq ENV_NAMES /\ DOMAIN environment \subseteq ENV_NAMES
           /\ DOMAIN values \subseteq ENV_NAMES
           /\ \A name \in DOMAIN environment : environment[name] \in Tokens
<1>1. DOMAIN options.values \subseteq ENV_NAMES
  BY DEF OptionsRead, OptionsHeld
<1>2. DOMAIN environment \subseteq ENV_NAMES
  BY DEF LegalEnvironment
<1>3. DOMAIN values \subseteq ENV_NAMES
  BY DEF LinesRead
<1>4. environment \in [DOMAIN environment -> Tokens]
  BY SettingsAssumption DEF InputsAre
<1>5. QED
  BY <1>1, <1>2, <1>3, <1>4

\* The sources in the order the code takes them are what the user states.
LEMMA EffectiveIs ==
    ASSUME InputsAre, OptionsRead(Len(arguments) + 1), LegalEnvironment, Lines # Unset,
           LinesRead(Len(Lines) + 1)
    PROVE  /\ DOMAIN Effective = {name \in ENV_NAMES : Stated(name) # Unset}
           /\ \A name \in DOMAIN Effective : Effective[name] = Stated(name)
           /\ \A name \in ENV_NAMES : Stated(name) # Unset => Stated(name) \in Tokens
<1>1. /\ DOMAIN Effective = DOMAIN values \cup DOMAIN environment \cup DOMAIN options.values
      /\ \A name \in DOMAIN Effective :
            Effective[name] = IF name \in DOMAIN options.values THEN options.values[name]
                              ELSE IF name \in DOMAIN environment THEN environment[name]
                              ELSE values[name]
  BY DEF Effective, Extend
<1>2. DOMAIN Effective \subseteq ENV_NAMES
  BY <1>1, NamesOfSources
<1>3. ASSUME NEW name \in ENV_NAMES
      PROVE  /\ name \in DOMAIN Effective <=> Stated(name) # Unset
             /\ name \in DOMAIN Effective => Effective[name] = Stated(name)
             /\ Stated(name) # Unset => Stated(name) \in Tokens
  <2>1. Stated(name) = IF Giving(name) # {} THEN arguments[Some(Giving(name)) + 1]
                       ELSE IF name \in DOMAIN environment THEN environment[name]
                       ELSE IF Assigning(name) # {} THEN Lines[Some(Assigning(name))].value
                       ELSE Unset
    BY StatedIs
  <2>2. Unset \notin Tokens
    BY SettingsAssumption
  <2>3. CASE Giving(name) # {}
    BY <1>1, <2>1, <2>2, <2>3, GivenIs
  <2>4. CASE Giving(name) = {} /\ name \in DOMAIN environment
    <3>1. Stated(name) = environment[name] /\ environment[name] \in Tokens
      BY <2>1, <2>4, NamesOfSources
    <3>2. name \notin DOMAIN options.values
      BY <2>4, GivenIs
    <3>3. QED
      BY <1>1, <2>2, <2>4, <3>1, <3>2
  <2>5. CASE Giving(name) = {} /\ name \notin DOMAIN environment
    <3>1. name \notin DOMAIN options.values
      BY <2>5, GivenIs
    <3>2. QED
      BY <1>1, <2>1, <2>2, <2>5, <3>1, AssignedIs
  <2>6. QED
    BY <2>3, <2>4, <2>5
<1>4. PICK E : E = ENV_NAMES
  OBVIOUS
<1>5. QED
  BY <1>2, <1>3, <1>4

\* The settings in force can be read where all that is stated can.
LEMMA LegalSourcesAre ==
    ASSUME InputsAre, OptionsRead(Len(arguments) + 1), LegalEnvironment, Lines # Unset,
           LinesRead(Len(Lines) + 1)
    PROVE  LegalSources <=> Readable
<1>1. PICK E : E = ENV_NAMES
  OBVIOUS
<1>2. /\ DOMAIN Effective = {name \in E : Stated(name) # Unset}
      /\ \A name \in DOMAIN Effective : Effective[name] = Stated(name)
  BY <1>1, EffectiveIs
<1>3. Readable <=> \A name \in E : Stated(name) # Unset => FieldValue(name, Stated(name)) # Unset
  BY <1>1 DEF Readable
<1>4. LegalSources <=> \A name \in DOMAIN Effective : FieldValue(name, Effective[name]) # Unset
  BY DEF LegalSources
<1>5. QED
  BY <1>2, <1>3, <1>4

\* Every setting has a field of its own.
LEMMA FieldsTable ==
    /\ Field("RECALL_BIND") = "loopback" /\ Field("RECALL_WORKERS") = "workers"
    /\ Field("RECALL_IO_THREADS") = "io_threads"
    /\ Field("RECALL_MAX_MEMORY_MIB") = "max_payload_bytes"
    /\ Field("RECALL_KEYS_PER_WORKER") = "keys_per_worker"
    /\ Field("RECALL_MAX_CONNECTIONS") = "max_connections"
    /\ Field("RECALL_QUEUE_BYTES_MIB") = "queue_bytes"
    /\ Field("RECALL_PASSWORD") = "password_bytes"
    /\ \A n, m \in ENV_NAMES : Field(n) = Field(m) => n = m
<1>1. /\ Field("RECALL_BIND") = "loopback" /\ Field("RECALL_WORKERS") = "workers"
      /\ Field("RECALL_IO_THREADS") = "io_threads"
      /\ Field("RECALL_MAX_MEMORY_MIB") = "max_payload_bytes"
      /\ Field("RECALL_KEYS_PER_WORKER") = "keys_per_worker"
      /\ Field("RECALL_MAX_CONNECTIONS") = "max_connections"
      /\ Field("RECALL_QUEUE_BYTES_MIB") = "queue_bytes"
      /\ Field("RECALL_PASSWORD") = "password_bytes"
  BY DEF Field
<1>2. QED
  BY <1>1 DEF ENV_NAMES

\* The setting a field belongs to, chosen from a set of names.
Owner(S, f) == CHOOSE n \in S : Field(n) = f

\* Any set of names that holds the setting gives the same one.
LEMMA OwnerIs ==
    ASSUME NEW S \in SUBSET ENV_NAMES, NEW n \in S, NEW f, f = Field(n)
    PROVE  Owner(S, f) = n
<1>1. Owner(S, f) \in S /\ Field(Owner(S, f)) = Field(n)
  BY DEF Owner
<1>2. QED
  BY <1>1, FieldsTable

\* The configuration the code puts together is the one that is meant.
LEMMA ConfiguredIs ==
    ASSUME InputsAre, OptionsRead(Len(arguments) + 1), LegalEnvironment, Lines # Unset,
           LinesRead(Len(Lines) + 1)
    PROVE  Configured = Meant
<1>1. PICK E : E = ENV_NAMES
  OBVIOUS
<1>2. PICK D : D = DOMAIN Effective
  OBVIOUS
<1>3. /\ D = {name \in E : Stated(name) # Unset}
      /\ \A name \in D : Effective[name] = Stated(name)
  BY <1>1, <1>2, EffectiveIs
<1>4. PICK F : F = DOMAIN Default
  OBVIOUS
<1>5. PICK C : C = [f \in F |-> IF f \notin {Field(name) : name \in D} THEN Default[f]
                     ELSE FieldValue(Owner(D, f), Effective[Owner(D, f)])]
  OBVIOUS
<1>6. Configured = C
  BY <1>2, <1>4, <1>5 DEF Configured, WithFields, Owner
<1>7. PICK M : M = [f \in F |-> IF \A name \in E : Field(name) # f THEN Default[f]
                     ELSE IF Stated(Owner(E, f)) = Unset THEN Default[f]
                     ELSE FieldValue(Owner(E, f), Stated(Owner(E, f)))]
  OBVIOUS
<1>8. Meant = M
  BY <1>1, <1>4, <1>7 DEF Meant, Owner
<1>9. ASSUME NEW f \in F PROVE C[f] = M[f]
  <2>1. CASE \A name \in E : Field(name) # f
    <3>1. f \notin {Field(name) : name \in D}
      BY <1>3, <2>1
    <3>2. QED
      BY <1>5, <1>7, <2>1, <3>1
  <2>2. CASE \E name \in E : Field(name) = f
    <3>1. PICK name \in E : Field(name) = f
      BY <2>2
    <3>2. Owner(E, f) = name
      BY <1>1, <3>1, OwnerIs
    <3>3. CASE name \in D
      <4>1. Owner(D, f) = name
        BY <1>1, <1>3, <3>1, <3>3, OwnerIs
      <4>2. Stated(name) # Unset /\ Effective[name] = Stated(name)
        BY <1>3, <3>3
      <4>3. C[f] = FieldValue(name, Stated(name))
        BY <1>5, <3>1, <3>3, <4>1, <4>2
      <4>4. M[f] = FieldValue(name, Stated(name))
        BY <1>7, <3>1, <3>2, <4>2
      <4>5. QED
        BY <4>3, <4>4
    <3>4. CASE name \notin D
      <4>1. Stated(name) = Unset
        BY <1>3, <3>4
      <4>2. f \notin {Field(m) : m \in D}
        BY <1>1, <1>3, <3>1, <3>4, FieldsTable
      <4>3. QED
        BY <1>5, <1>7, <3>1, <3>2, <4>1, <4>2
    <3>5. QED
      BY <3>3, <3>4
  <2>3. QED
    BY <2>1, <2>2
<1>10. C = M
  BY <1>5, <1>7, <1>9
<1>11. QED
  BY <1>6, <1>8, <1>10

\* The numbers of the configuration that is meant.
LEMMA MeantSized ==
    ASSUME InputsAre, OptionsRead(Len(arguments) + 1), LegalEnvironment, Lines # Unset,
           LinesRead(Len(Lines) + 1), Readable
    PROVE  Sized(Meant)
<1>1. /\ Default.max_payload_bytes = 512 * Mib /\ Default.max_reply_bytes = 4 * Mib
      /\ Default.commands = DefaultCommands /\ Default.protocol = DefaultLimits
      /\ {"max_payload_bytes", "max_reply_bytes", "commands", "protocol"} \subseteq DOMAIN Default
  BY DEF Default
<1>2. ASSUME NEW f \in {"max_reply_bytes", "commands", "protocol"}
      PROVE  \A name \in ENV_NAMES : Field(name) # f
  BY FieldsTable DEF ENV_NAMES
<1>3. /\ Meant.max_reply_bytes = Default.max_reply_bytes
      /\ Meant.commands = Default.commands /\ Meant.protocol = Default.protocol
  BY <1>1, <1>2 DEF Meant
<1>4. Meant.max_payload_bytes \in Nat
  <2>1. PICK name : name = "RECALL_MAX_MEMORY_MIB"
    OBVIOUS
  <2>2. name \in ENV_NAMES /\ Field(name) = "max_payload_bytes"
    BY <2>1, FieldsTable DEF ENV_NAMES
  <2>3. Owner(ENV_NAMES, "max_payload_bytes") = name
    BY <2>2, OwnerIs
  <2>4. Meant.max_payload_bytes = IF Stated(name) = Unset THEN Default.max_payload_bytes
                                  ELSE FieldValue(name, Stated(name))
    BY <1>1, <2>2, <2>3 DEF Meant, Owner
  <2>5. CASE Stated(name) = Unset
    BY <1>1, <2>4, <2>5 DEF Mib
  <2>6. CASE Stated(name) # Unset
    <3>1. Stated(name) \in Tokens
      BY <2>2, <2>6, EffectiveIs
    <3>2. PICK t \in Tokens : t = Stated(name)
      BY <3>1
    <3>3. FieldValue(name, t) = mib(t)
      BY <2>1 DEF FieldValue
    <3>4. mib(t) # Unset
      BY <2>2, <2>6, <3>2, <3>3 DEF Readable
    <3>5. NumberOf[t] \in Nat \cup {Unset}
      BY SettingsAssumption
    <3>6. mib(t) = NumberOf[t] * Mib /\ NumberOf[t] \in Nat
      BY <3>4, <3>5 DEF mib
    <3>7. QED
      BY <2>4, <2>6, <3>2, <3>3, <3>6 DEF Mib
  <2>7. QED
    BY <2>5, <2>6
<1>5. QED
  BY <1>1, <1>3, <1>4 DEF Sized, DefaultCommands, DefaultLimits, Mib

\* The sources become the configuration.
LEMMA StepFromSources == SettingsInv /\ FromSources => SettingsInv'
<1> SUFFICES ASSUME SettingsInv, FromSources PROVE SettingsInv'
  OBVIOUS
<1>1. pc = "sources"
  BY DEF FromSources
<1>2. /\ FromInputs /\ InputsAre /\ OptionsAre /\ OptionsRead(Len(arguments) + 1)
      /\ LegalEnvironment /\ Lines # Unset /\ LinesRead(Len(Lines) + 1)
  BY <1>1, SourcesAt
<1>3. Configured = Meant /\ (LegalSources <=> Readable)
  BY <1>2, ConfiguredIs, LegalSourcesAre
<1>4. CASE ~LegalSources
  <2>1. Fail
    BY <1>4 DEF FromSources
  <2>2. QED
    BY <1>3, <1>4, <2>1, SettingsFails DEF LegalInputs
<1>5. CASE LegalSources /\ ~validate(Configured)
  <2>1. Fail
    BY <1>5 DEF FromSources
  <2>2. QED
    BY <1>3, <1>5, <2>1, SettingsFails DEF LegalInputs
<1>6. CASE LegalSources /\ validate(Configured)
  <2>1. /\ config' = Meant /\ pc' = "bind" /\ arguments' = arguments
        /\ environment' = environment /\ files' = files /\ options' = options
    BY <1>3, <1>6 DEF FromSources, inputs
  <2>2. LegalCommandLine
    BY <1>2, LegalCommandLineIs DEF InputsAre, OptionsRead
  <2>3. LegalLines
    <3>1. LinesLegal(Len(Lines) + 1)
      BY <1>2, Zenon DEF LinesRead, LinesLegal
    <3>2. QED
      BY <1>2, <3>1, LegalLinesAre
  <2>4. LegalInputs
    BY <1>2, <1>3, <1>6, <2>2, <2>3 DEF LegalInputs
  <2>5. LegalInputs' /\ Meant' = Meant
    BY <2>1, <2>4, SameReference
  <2>6. SettingsStages'
    BY <2>1, <2>5 DEF SettingsStages
  <2>7. OptionsAre'
    BY <1>2, <2>1 DEF OptionsAre
  <2>8. Sized(config')
    BY <1>2, <1>3, <1>6, <2>1, MeantSized
  <2>9. QED
    BY <1>2, <2>1, <2>6, <2>7, <2>8, SettingsStep
<1>7. QED
  BY <1>4, <1>5, <1>6

\* Server::bind validates whatever it is given.
LEMMA StepBind == SettingsInv /\ Bind => SettingsInv'
<1> SUFFICES ASSUME SettingsInv, Bind PROVE SettingsInv'
  OBVIOUS
<1>1. pc = "bind"
  BY DEF Bind
<1>2. CASE ~validate(config)
  <2>1. Fail
    BY <1>2 DEF Bind, Fail
  <2>2. FromInputs => config = Meant /\ LegalInputs
    BY <1>1 DEF SettingsInv, SettingsStages
  <2>3. QED
    BY <1>2, <2>1, <2>2, SettingsFails DEF LegalInputs
<1>3. CASE validate(config)
  <2>1. /\ pc' = "running" /\ arguments' = arguments /\ environment' = environment
        /\ files' = files /\ options' = options /\ config' = config
    BY <1>3 DEF Bind, Go, inputs
  <2>2. Sized(config') /\ validate(config')
    BY <1>1, <1>3, <2>1 DEF SettingsInv
  <2>3. CASE FromInputs
    <3>1. config = Meant /\ LegalInputs /\ OptionsAre
      BY <1>1, <2>3 DEF SettingsInv, SettingsStages
    <3>2. Meant' = Meant /\ LegalInputs'
      BY <2>1, <3>1, SameReference
    <3>3. SettingsStages'
      BY <2>1, <3>1, <3>2 DEF SettingsStages
    <3>4. OptionsAre'
      BY <2>1, <3>1 DEF OptionsAre
    <3>5. QED
      BY <2>1, <2>2, <2>3, <3>3, <3>4, SettingsStep
  <2>4. CASE ~FromInputs
    <3>1. ~FromInputs'
      BY <2>1, <2>4, SameReference
    <3>2. (pc \in {"bind", "running"} => Sized(config))'
      BY <2>2 DEF Sized
    <3>3. (pc = "running" => validate(config))'
      BY <2>2
    <3>4. QED
      BY <2>1, <3>1, <3>2, <3>3 DEF SettingsInv
  <2>5. QED
    BY <2>3, <2>4
<1>4. QED
  BY <1>2, <1>3

\* Nothing happens.
LEMMA StepSettled == SettingsInv /\ UNCHANGED settings_vars => SettingsInv'
<1> SUFFICES ASSUME SettingsInv, UNCHANGED settings_vars PROVE SettingsInv'
  OBVIOUS
<1>1. /\ pc' = pc /\ arguments' = arguments /\ environment' = environment /\ files' = files
      /\ options' = options /\ values' = values /\ config' = config /\ index' = index
  BY DEF settings_vars, inputs
<1>2. /\ Starts' = Starts /\ Lines' = Lines /\ Meant' = Meant /\ FromInputs' = FromInputs
      /\ LegalInputs' = LegalInputs /\ LegalEnvironment' = LegalEnvironment /\ InputsAre' = InputsAre
  BY <1>1, SameReference
<1>3. \A k : Before(k)' = Before(k)
  BY <1>2 DEF Before
<1>4. \A i : PathAt(i)' = PathAt(i)
  BY <1>1, Zenon DEF PathAt
<1>5. \A i : Assigned(i)' = Assigned(i) /\ QuotesAt(i)' = QuotesAt(i)
  BY <1>1, LinesStay
<1>6. \A k : OptionsRead(k)' = OptionsRead(k)
  <2>1. \A k : OptionsLegal(k)' = OptionsLegal(k)
    BY <1>1, <1>3, <1>4 DEF OptionsLegal
  <2>2. \A k : OptionsHeld(k)' = OptionsHeld(k)
    BY <1>1, <1>3 DEF OptionsHeld
  <2>3. QED
    BY <2>1, <2>2 DEF OptionsRead
<1>7. \A k : LinesRead(k)' = LinesRead(k)
  BY <1>1, <1>2, <1>5 DEF LinesRead
<1>8. SettingsStages' = SettingsStages
  BY <1>1, <1>2, <1>6, <1>7 DEF SettingsStages, Found
<1>9. OptionsAre' = OptionsAre
  BY <1>1 DEF OptionsAre
<1>10. QED
  BY <1>1, <1>2, <1>8, <1>9 DEF SettingsInv

\* The first state.
LEMMA SettingsStart == SettingsInit => SettingsInv
<1> SUFFICES ASSUME SettingsInit PROVE SettingsInv
  OBVIOUS
<1>1. CASE /\ arguments \in CommandLines /\ environment \in Environments
           /\ files \in [env : DotEnvs, local : LocalEnvs] /\ pc = "main"
  <2>1. FromInputs /\ InputsAre
    BY <1>1, SettingsAssumption DEF FromInputs, InputsAre
  <2>2. /\ index = 1 /\ values = <<>>
        /\ options = [env_file |-> "env", explicit_file |-> FALSE, values |-> <<>>, seen |-> FALSE]
    BY DEF SettingsInit
  <2>3. OptionsAre
    BY <2>2 DEF OptionsAre
  <2>4. Before(1) = {}
    <3>1. PICK n \in Nat : n = Len(arguments) /\ DOMAIN arguments = 1 .. n
      BY <1>1, CommandLineIs
    <3>2. PICK S \in SUBSET (1 .. n) : S = Starts
      BY <1>1, <3>1, StartsAre
    <3>3. \A i \in S : ~(i < 1)
      OBVIOUS
    <3>4. QED
      BY <3>2, <3>3 DEF Before
  <2>5. OptionsRead(1)
    BY <2>2, <2>4 DEF OptionsRead, OptionsLegal, OptionsHeld
  <2>6. SettingsStages
    BY <1>1, <2>2, <2>5 DEF SettingsStages
  <2>7. QED
    BY <1>1, <2>1, <2>3, <2>6 DEF SettingsInv
<1>2. CASE arguments = Unset /\ pc = "bind" /\ config \in Embedded
  <2>1. config \in Configs
    BY <1>2, SettingsAssumption
  <2>2. Sized(config)
    BY <2>1 DEF Configs, Sized
  <2>3. QED
    BY <1>2, <2>2 DEF SettingsInv, FromInputs
<1>3. QED
  BY <1>1, <1>2 DEF SettingsInit

\* The inductive invariant of the settings holds in every state.
THEOREM SettingsInvariant == SettingsSpec => []SettingsInv
<1>1. SettingsInit => SettingsInv
  BY SettingsStart
<1>2. SettingsInv /\ [SettingsNext]_settings_vars => SettingsInv'
  BY StepHelp, StepLoad, StepNoEnvFile, StepEnvFile, StepValueOption, StepUnknownOption,
     StepEndOfOptions, StepReadEnvironment, StepNoFile, StepOpenFile, StepRejectFile, StepSkipLine,
     StepTakeLine, StepEndOfFile, StepFromSources, StepBind, StepSettled
     DEF SettingsNext, Settled
<1>3. QED
  BY <1>1, <1>2, PTL DEF SettingsSpec

\* A server that comes up from a command line, an environment and a file runs with
\* what they state, setting by setting, however the loops of parse_options,
\* parse_values and from_sources came to it.
THEOREM SettingsRunsAsStated == SettingsSpec => []RunsAsStated
<1>1. SettingsInv => RunsAsStated
  BY DEF SettingsInv, SettingsStages, RunsAsStated
<1>2. QED
  BY <1>1, SettingsInvariant, PTL

\* It comes up exactly when they are legal: main refuses nothing it should take, and
\* takes nothing it should refuse.
THEOREM SettingsStartsExactlyWhenLegal == SettingsSpec => []StartsExactlyWhenLegal
<1>1. SettingsInv => StartsExactlyWhenLegal
  BY DEF SettingsInv, SettingsStages, StartsExactlyWhenLegal, LegalInputs
<1>2. QED
  BY <1>1, SettingsInvariant, PTL

-----------------------------------------------------------------------------
(***************************************************************************)
(* The budgets.                                                            *)
(***************************************************************************)
\* The first r of w shares of a quotient q are one larger: their sum.
LEMMA SharesSum ==
    ASSUME NEW w \in Nat, NEW q \in Nat, NEW r \in 0 .. w, NEW f,
           f = [o \in 0 .. w - 1 |-> q + (IF o < r THEN 1 ELSE 0)]
    PROVE  SumFunctionOnSet(f, 0 .. w - 1) = w * q + r
<1> DEFINE Upto(k) == k * q + (IF k < r THEN k ELSE r)
           Bad == {k \in 0 .. w : SumFunctionOnSet(f, 0 .. k - 1) # Upto(k)}
<1>1. SUFFICES ASSUME Bad # {} PROVE FALSE
  <2>1. w \notin Bad
    BY <1>1
  <2>2. SumFunctionOnSet(f, 0 .. w - 1) = Upto(w)
    BY <2>1
  <2>3. Upto(w) = w * q + r
    OBVIOUS
  <2>4. QED
    BY <2>2, <2>3
<1>2. PICK k \in Bad : \A j \in Bad : k <= j
  <2>1. Bad \in SUBSET Nat
    OBVIOUS
  <2> HIDE DEF Bad
  <2>2. QED
    BY <1>1, <2>1, LeastNatural
<1>3. k # 0
  <2>1. 0 .. 0 - 1 = {}
    OBVIOUS
  <2>2. SumFunctionOnSet(f, 0 .. 0 - 1) = 0
    BY <2>1, SumEmpty
  <2>3. Upto(0) = 0
    OBVIOUS
  <2>4. QED
    BY <2>2, <2>3
<1>4. PICK j \in 0 .. w - 1 : k = j + 1 /\ j \notin Bad
  <2>1. k \in 0 .. w /\ k - 1 \in 0 .. w - 1 /\ ~(k <= k - 1)
    BY <1>3
  <2>2. k - 1 \notin Bad
    BY <1>2, <2>1
  <2>3. k = (k - 1) + 1
    BY <2>1
  <2> HIDE DEF Bad
  <2>4. QED
    BY <2>1, <2>2, <2>3
<1>5. SumFunctionOnSet(f, 0 .. j - 1) = Upto(j)
  BY <1>4
<1>6. SumFunctionOnSet(f, 0 .. j) = f[j] + SumFunctionOnSet(f, 0 .. j - 1)
  <2>0. j \in Nat /\ 0 \in Int
    OBVIOUS
  <2>1. j \in 0 .. j /\ (0 .. j) \ {j} = 0 .. j - 1
    BY <2>0
  <2>4. IsFiniteSet(0 .. j)
    BY <2>0, FS_Interval
  <2>2. \A o \in 0 .. j : f[o] \in Int
    OBVIOUS
  <2>3. QED
    BY <2>1, <2>2, <2>4, SumRemove, SMTT(30)
<1>7. f[j] = q + (IF j < r THEN 1 ELSE 0)
  OBVIOUS
<1>8. (j + 1) * q = j * q + q /\ j * q \in Nat
  OBVIOUS
<1>9. Upto(j + 1) = f[j] + Upto(j)
  BY <1>7, <1>8
<1>10. 0 .. k - 1 = 0 .. j
  BY <1>4
<1>11. SumFunctionOnSet(f, 0 .. k - 1) = Upto(k)
  BY <1>4, <1>5, <1>6, <1>9, <1>10
<1>12. QED
  BY <1>2, <1>11

\* What a division leaves.
LEMMA Divided ==
    ASSUME NEW n \in Nat, NEW w \in Nat, w >= 1
    PROVE  /\ n \div w \in Nat /\ n % w \in 0 .. w - 1 /\ w * (n \div w) + (n % w) = n
           /\ n >= w => n \div w >= 1
<1>1. n \div w \in Nat /\ n % w \in 0 .. w - 1
  OBVIOUS
<1>3. w * (n \div w) + (n % w) = n
  OBVIOUS
<1>2. n >= w => n \div w >= 1
  OBVIOUS
<1>4. QED
  BY <1>1, <1>2, <1>3

\* The smaller of two numbers.
LEMMA SmallerOfTwo ==
    ASSUME NEW x \in Int, NEW y \in Int
    PROVE  Min({x, y}) = IF x <= y THEN x ELSE y
<1>1. PICK m : m = IF x <= y THEN x ELSE y
  OBVIOUS
<1>2. m \in {x, y} /\ \A z \in {x, y} : m <= z
  BY <1>1
<1>3. \A n \in {x, y} : (\A z \in {x, y} : n <= z) => n = m
  BY <1>1
<1>4. QED
  BY <1>1, <1>2, <1>3 DEF Min

\* The owners of a running server share its budget to the byte, and its replies have
\* room for its values.
THEOREM SettingsBudgetsExact == SettingsSpec => []BudgetsExact
<1>1. SettingsInv => BudgetsExact
  <2> SUFFICES ASSUME SettingsInv, pc = "running"
               PROVE  /\ \A o \in OwnersOf(config) : shard_limits(config, o).max_payload_bytes >= 1
                      /\ config.max_reply_bytes >= config.commands.max_value_bytes + 64
                      /\ TotalBudget(config) = config.max_payload_bytes
                      /\ \A o, p \in OwnersOf(config) :
                            shard_limits(config, o).max_payload_bytes
                              <= shard_limits(config, p).max_payload_bytes + 1
    BY DEF BudgetsExact
  <2>1. Sized(config) /\ validate(config)
    BY DEF SettingsInv
  <2>2. PICK w \in 1 .. 64 : w = config.workers
    BY <2>1 DEF validate, ValidCounts
  <2>3. PICK n \in Nat : n = config.max_payload_bytes /\ n >= w
    BY <2>1, <2>2 DEF validate, Sized
  <2>4. w \in Nat /\ w >= 1
    OBVIOUS
  <2>5. PICK q \in Nat, r \in 0 .. w - 1 : q = n \div w /\ q >= 1 /\ r = n % w /\ w * q + r = n
    <3>1. /\ n \div w \in Nat /\ n % w \in 0 .. w - 1 /\ w * (n \div w) + (n % w) = n
          /\ n \div w >= 1
      BY <2>3, <2>4, Divided
    <3>2. PICK q \in Nat, r \in 0 .. w - 1 : q = n \div w /\ r = n % w
      BY <3>1
    <3>3. QED
      BY <3>1, <3>2
  <2>6. PICK f : f = [o \in 0 .. w - 1 |-> q + (IF o < r THEN 1 ELSE 0)]
    OBVIOUS
  <2>7. /\ OwnersOf(config) = 0 .. w - 1
        /\ \A o \in 0 .. w - 1 : shard_limits(config, o).max_payload_bytes = f[o]
    BY <2>2, <2>3, <2>5, <2>6 DEF OwnersOf, shard_limits
  <2>8. \A o \in 0 .. w - 1 : f[o] \in {q, q + 1}
    BY <2>6
  <2>9. TotalBudget(config) = n
    <3>1. [o \in OwnersOf(config) |-> shard_limits(config, o).max_payload_bytes] = f
      BY <2>6, <2>7
    <3>2. TotalBudget(config) = SumFunctionOnSet(f, 0 .. w - 1)
      BY <2>6, <3>1 DEF TotalBudget, SumFunction
    <3>3. QED
      <4>1. r \in 0 .. w
        BY <2>4
      <4>2. SumFunctionOnSet(f, 0 .. w - 1) = w * q + r
        BY <2>4, <2>6, <4>1, SharesSum
      <4>3. QED
        BY <2>5, <3>2, <4>2
  <2>10. config.max_reply_bytes >= config.commands.max_value_bytes + 64
    <3>1. PICK v \in Nat : v = config.commands.max_value_bytes
      BY <2>1 DEF Sized
    <3>2. /\ v <= config.protocol.max_bulk_bytes
          /\ config.protocol.max_bulk_bytes <= config.protocol.max_frame_bytes
          /\ config.protocol.max_frame_bytes <= 16 * Mib
          /\ config.max_reply_bytes >= saturating_add(v, 64)
      BY <2>1, <3>1 DEF validate, ValidSizes, validate_limits
    <3>3. v <= 16 * 1024 * 1024
      BY <2>1, <3>2 DEF Sized, Mib
    <3>4. UsizeMax \in Nat /\ UsizeMax >= 64 * 1024 * 1024
      BY ConfigAssumption
    <3>5. saturating_add(v, 64) = v + 64
      BY <3>3, <3>4, SmallerOfTwo DEF saturating_add
    <3>6. QED
      BY <3>1, <3>2, <3>5
  <2>11. \A o, p \in 0 .. w - 1 : f[o] >= 1 /\ f[o] <= f[p] + 1
    BY <2>5, <2>8
  <2>12. QED
    BY <2>3, <2>7, <2>9, <2>10, <2>11
<1>2. QED
  BY <1>1, SettingsInvariant, PTL
=============================================================================
