------------------------------- MODULE Server -------------------------------
(***************************************************************************)
(* recall-server/src/lib.rs: the accept loop of Server::run, one task per  *)
(* connection, and the graceful stop that precedes Engine::shutdown.       *)
(*                                                                         *)
(* A client sends a script of frames and may stall, hang up or stop        *)
(* reading at any time.  A frame is a command as parse returns it, or one  *)
(* of the three below; a read delivers any number of the frames that are   *)
(* on their way, so that requests are pipelined.  An await is the boundary *)
(* between two actions.  The engine is represented by one call per         *)
(* connection: made, applied, answered.                                    *)
(***************************************************************************)
EXTENDS Session, Sequences, FiniteSetsExt

CONSTANTS
    Clients,            \* each connects at most once
    Scripts,            \* what a client may send
    MaxConnections      \* Config.max_connections

Malformed == [type |-> "malformed"]         \* a frame that decode refuses

Partial == [type |-> "partial"]             \* the first bytes of the next frame

Unparsable == [type |-> "unparsable"]       \* a request that parse refuses

Frames == SessionCommands \cup {Malformed, Partial, Unparsable}

ASSUME ServerAssumption ==
    /\ MaxConnections \in Nat /\ MaxConnections >= 1
    /\ IsFiniteSet(Clients)
    /\ Scripts \subseteq Seq(Frames)

VARIABLES
    server,     \* where run stands: "accept", "spawn", "join", "engine", "returned"
    signal,     \* the shutdown future is ready
    stop,       \* the value of the watch channel
    permits,    \* free permits of the semaphore
    metrics,    \* Metrics
    conn,       \* conn[c]: the connection of client c
    engine,     \* engine[c]: the engine's side of the call conn[c] makes
    late        \* late[c]: requests c's connection began after the stop signal

tasks == <<conn, engine, late>>
vars == <<server, signal, stop, permits, metrics, tasks>>

\* script, wire and gone belong to the client: what it sends in all, what is on
\* its way, whether it has hung up or been closed on.  sent is what it has been
\* answered.
NoConnection ==
    [pc |-> "none", script |-> <<>>, wire |-> <<>>, gone |-> FALSE, sent |-> <<>>,
     input |-> <<>>, session |-> new, reply |-> None, close |-> FALSE]

NoMetrics ==
    [active_connections |-> 0, total_connections |-> 0, rejected_connections |-> 0,
     total_commands |-> 0, protocol_errors |-> 0, io_timeouts |-> 0]

Init ==
    /\ server = "accept"
    /\ signal = FALSE
    /\ stop = FALSE
    /\ permits = MaxConnections
    /\ metrics = NoMetrics
    /\ conn = [c \in Clients |-> NoConnection]
    /\ engine = [c \in Clients |-> "idle"]
    /\ late = [c \in Clients |-> 0]

At(c, pc) == conn[c].pc = pc

GoTo(c, pc) == conn' = [conn EXCEPT ![c].pc = pc]

Count(metric) == metrics' = [metrics EXCEPT ![metric] = @ + 1]

(***************************************************************************)
(* Clients, and the signal to stop.                                        *)
(***************************************************************************)
Connect(c, script) ==
    /\ At(c, "none") /\ server \in {"accept", "spawn"}
    /\ conn' = [conn EXCEPT ![c].pc = "backlog", ![c].script = script, ![c].wire = script]
    /\ UNCHANGED <<server, signal, stop, permits, metrics, engine, late>>

HangUp(c) ==
    /\ ~At(c, "none") /\ ~conn[c].gone
    /\ conn' = [conn EXCEPT ![c].gone = TRUE]
    /\ UNCHANGED <<server, signal, stop, permits, metrics, engine, late>>

Signal ==
    /\ ~signal
    /\ signal' = TRUE
    /\ UNCHANGED <<server, stop, permits, metrics, tasks>>

(***************************************************************************)
(* Server::run.                                                            *)
(***************************************************************************)
\* try_acquire_owned and the connection's number.
Accept(c) ==
    /\ server = "accept" /\ ~signal
    /\ At(c, "backlog") /\ permits > 0
    /\ permits' = permits - 1
    /\ Count("total_connections")
    /\ GoTo(c, "accepted")
    /\ server' = "spawn"
    /\ UNCHANGED <<signal, stop, engine, late>>

Refuse(c) ==
    /\ server = "accept" /\ ~signal
    /\ At(c, "backlog") /\ permits = 0
    /\ Count("rejected_connections")
    /\ GoTo(c, "refused")
    /\ UNCHANGED <<server, signal, stop, permits, engine, late>>

\* ConnectionGuard::new and spawn.
Spawn(c) ==
    /\ server = "spawn" /\ At(c, "accepted")
    /\ Count("active_connections")
    /\ GoTo(c, "top")
    /\ server' = "accept"
    /\ UNCHANGED <<signal, stop, permits, engine, late>>

\* join_next, in the accept loop and after it.
Join(c) ==
    /\ server \in {"accept", "join"} /\ At(c, "finished")
    /\ GoTo(c, "joined")
    /\ UNCHANGED <<server, signal, stop, permits, metrics, engine, late>>

\* Mutant: the connections are not told.
StopUnsent ==
    /\ server = "accept"
    /\ server' = "join"
    /\ conn' = [c \in Clients |->
                  IF At(c, "backlog") THEN [conn[c] EXCEPT !.pc = "refused"] ELSE conn[c]]
    /\ UNCHANGED <<signal, stop, permits, metrics, engine, late>>

\* The loop ends, by the signal or by a failure of accept: the listener goes,
\* with the connections nobody accepted, and the stop signal is sent.
StopAccepting ==
    /\ server = "accept"
    /\ server' = "join"
    /\ stop' = TRUE
    /\ conn' = [c \in Clients |->
                  IF At(c, "backlog") THEN [conn[c] EXCEPT !.pc = "refused"] ELSE conn[c]]
    /\ UNCHANGED <<signal, permits, metrics, engine, late>>

\* The join set is empty.
AllJoined == \A c \in Clients : conn[c].pc \in {"none", "refused", "joined"}

ShutEngine ==
    /\ server = "join" /\ AllJoined
    /\ server' = "engine"
    /\ UNCHANGED <<signal, stop, permits, metrics, tasks>>

\* Engine::shutdown completes.
Return ==
    /\ server = "engine"
    /\ server' = "returned"
    /\ UNCHANGED <<signal, stop, permits, metrics, tasks>>

(***************************************************************************)
(* connection: reading.                                                    *)
(***************************************************************************)
\* Mutant: the loop does not look at the stop signal.
TopUnchecked(c) ==
    /\ At(c, "top")
    /\ GoTo(c, "decode")
    /\ UNCHANGED <<server, signal, stop, permits, metrics, engine, late>>

Top(c) ==
    /\ At(c, "top")
    /\ GoTo(c, IF stop THEN "drop" ELSE "decode")
    /\ UNCHANGED <<server, signal, stop, permits, metrics, engine, late>>

\* Where the buffer's frames are; a partial frame is completed by what follows.
Complete(input) == {i \in DOMAIN input : input[i] # Partial}

\* The frame decode returns, if there is a complete one.
First(input) == input[Min(Complete(input))]

\* decode returns None.
Await(c) ==
    /\ At(c, "decode") /\ Complete(conn[c].input) = {}
    /\ GoTo(c, "read")
    /\ UNCHANGED <<server, signal, stop, permits, metrics, engine, late>>

\* The bytes of the first frame leave the buffer, a partial frame at its end stays.
WithoutFirst(input) ==
    SubSeq(input, Min(Complete(input)) + 1, Len(input))

\* Mutant: the connection goes on with whatever follows.
ProtocolErrorResumes(c) ==
    /\ Count("protocol_errors")
    /\ conn' = [conn EXCEPT ![c].pc = "write", ![c].reply = Failure("protocol"),
                            ![c].input = WithoutFirst(@)]

\* The connection answers a protocol error and closes.
ProtocolError(c) ==
    /\ Count("protocol_errors")
    /\ conn' = [conn EXCEPT ![c].pc = "write", ![c].reply = Failure("protocol"),
                            ![c].close = TRUE]

Reject(c) ==
    /\ At(c, "decode")
    /\ Complete(conn[c].input) # {} /\ First(conn[c].input) = Malformed
    /\ ProtocolError(c)
    /\ UNCHANGED <<server, signal, stop, permits, engine, late>>

\* What one request does to a session up to its first await or its reply.
Handle(session, frame) ==
    IF frame = Unparsable THEN Outcome(session, Failure("parse")) ELSE execute(session, frame)

\* A request is decoded, parsed, and executed up to its first await.
Begin(c) ==
    LET frame == First(conn[c].input)
        outcome == Handle(conn[c].session, frame)
        calls == frame # Unparsable /\ CallsEngine(conn[c].session, frame)
    IN  /\ At(c, "decode")
        /\ Complete(conn[c].input) # {} /\ frame # Malformed
        /\ Count("total_commands")
        /\ conn' = [conn EXCEPT ![c].input = WithoutFirst(@),
                                ![c].pc = IF calls THEN "engine" ELSE "write",
                                ![c].session = outcome.session,
                                ![c].reply = outcome.reply,
                                ![c].close = outcome.close]
        /\ engine' = [engine EXCEPT ![c] = IF calls THEN "called" ELSE @]
        /\ late' = [late EXCEPT ![c] = IF stop THEN @ + 1 ELSE @]
        /\ UNCHANGED <<server, signal, stop, permits>>

\* stream.read returns some bytes; the stop signal is polled first.
Receive(c) ==
    /\ At(c, "read") /\ ~stop
    /\ \E n \in 1 .. Len(conn[c].wire) :
          conn' = [conn EXCEPT ![c].input = @ \o SubSeq(conn[c].wire, 1, n),
                               ![c].wire = SubSeq(@, n + 1, Len(@)),
                               ![c].pc = "decode"]
    /\ UNCHANGED <<server, signal, stop, permits, metrics, engine, late>>

\* shutdown.changed() is ready: next_request returns None.
StopReading(c) ==
    /\ At(c, "read") /\ stop
    /\ GoTo(c, "drop")
    /\ UNCHANGED <<server, signal, stop, permits, metrics, engine, late>>

\* read returns 0.
EndOfStream(c) ==
    /\ At(c, "read") /\ ~stop
    /\ conn[c].gone /\ conn[c].wire = <<>>
    /\ IF conn[c].input = <<>> THEN GoTo(c, "drop") /\ UNCHANGED metrics ELSE ProtocolError(c)
    /\ UNCHANGED <<server, signal, stop, permits, engine, late>>

\* read fails: the client has reset the connection.
ReadFails(c) ==
    /\ At(c, "read") /\ ~stop /\ conn[c].gone
    /\ GoTo(c, "drop")
    /\ UNCHANGED <<server, signal, stop, permits, metrics, engine, late>>

\* Mutant: only a request that has begun to arrive has a deadline.
ReadDeadlineMidFrame(c) ==
    /\ At(c, "read") /\ ~stop /\ conn[c].input # <<>>
    /\ Count("io_timeouts")
    /\ GoTo(c, "drop")
    /\ UNCHANGED <<server, signal, stop, permits, engine, late>>

\* The request's read deadline passes.
ReadDeadline(c) ==
    /\ At(c, "read") /\ ~stop
    /\ Count("io_timeouts")
    /\ GoTo(c, "drop")
    /\ UNCHANGED <<server, signal, stop, permits, engine, late>>

(***************************************************************************)
(* connection: the engine's answer and the reply.                          *)
(***************************************************************************)
EngineApplies(c) ==
    /\ engine[c] = "called" /\ server # "returned"
    /\ engine' = [engine EXCEPT ![c] = "applied"]
    /\ UNCHANGED <<server, signal, stop, permits, metrics, conn, late>>

\* Mutant: the stop signal interrupts the wait for the engine.
EngineAnswersOrStop(c) ==
    \/ /\ At(c, "engine") /\ engine[c] = "applied"
       /\ engine' = [engine EXCEPT ![c] = "idle"]
       /\ GoTo(c, "write")
       /\ UNCHANGED <<server, signal, stop, permits, metrics, late>>
    \/ /\ At(c, "engine") /\ stop
       /\ GoTo(c, "drop")
       /\ UNCHANGED <<server, signal, stop, permits, metrics, engine, late>>

EngineAnswers(c) ==
    /\ At(c, "engine") /\ engine[c] = "applied"
    /\ engine' = [engine EXCEPT ![c] = "idle"]
    /\ GoTo(c, "write")
    /\ UNCHANGED <<server, signal, stop, permits, metrics, late>>

\* The reply is within max_reply_bytes under every configuration that validate
\* accepts: the engine limits its own replies, and the limit is at least 64 bytes,
\* which two error texts exceed.  The length of the others depends on what they
\* hold and, like the limit, is left out.
Fits(reply) ==
    CASE reply.kind = "reply" -> reply.text \in {"OK", "engine"}
      [] reply.kind = "error" -> reply.text \notin {"parse", "no_password"}
      [] reply.kind = "name"  -> reply.text = None
      [] reply.kind = "info"  -> reply.text = {}

\* What write_reply may encode: any reply over the limit becomes an error.
Written(reply) == {reply} \cup IF Fits(reply) THEN {} ELSE {Failure("reply_limit")}

\* write_all completes.
Write(c) ==
    /\ At(c, "write")
    /\ \E reply \in Written(conn[c].reply) :
          conn' = [conn EXCEPT ![c].sent = Append(@, reply),
                               ![c].reply = None,
                               ![c].pc = IF conn[c].close THEN "drop" ELSE "top"]
    /\ UNCHANGED <<server, signal, stop, permits, metrics, engine, late>>

WriteFails(c) ==
    /\ At(c, "write") /\ conn[c].gone
    /\ GoTo(c, "drop")
    /\ UNCHANGED <<server, signal, stop, permits, metrics, engine, late>>

WriteDeadline(c) ==
    /\ At(c, "write")
    /\ Count("io_timeouts")
    /\ GoTo(c, "drop")
    /\ UNCHANGED <<server, signal, stop, permits, engine, late>>

\* Mutant: the permit is given back before the counter.
GuardPartsSwapped == <<"permit", "counter">>

\* What dropping a ConnectionGuard gives back, in this order: the counter by its
\* Drop, then the permit by that of its field.
GuardParts == <<"counter", "permit">>

\* What is left of a connection when its task is over: its buffer and its session
\* are gone and, last, its socket is closed.
Dropped(connection) ==
    [connection EXCEPT !.pc = "finished", !.wire = <<>>, !.gone = TRUE, !.input = <<>>,
                       !.session = new, !.reply = None, !.close = FALSE]

\* The task ends.
DropGuard(c) ==
    \E i \in {1, 2} :
        /\ At(c, <<"drop", "release">>[i])
        /\ conn' = [conn EXCEPT ![c] = IF i = 1 THEN [@ EXCEPT !.pc = "release"] ELSE Dropped(@)]
        /\ IF GuardParts[i] = "counter"
           THEN /\ metrics' = [metrics EXCEPT !.active_connections = @ - 1]
                /\ UNCHANGED permits
           ELSE permits' = permits + 1 /\ UNCHANGED metrics
        /\ UNCHANGED <<server, signal, stop, engine, late>>

-----------------------------------------------------------------------------
\* The steps the server's own tasks and the engine take.
Task(c) ==
    \/ Spawn(c) \/ Join(c)
    \/ Top(c) \/ Await(c) \/ Reject(c) \/ Begin(c) \/ StopReading(c)
    \/ EngineApplies(c) \/ EngineAnswers(c)
    \/ DropGuard(c)

\* The steps that the client, the network or a deadline brings about.
Outside(c) ==
    \/ \E script \in Scripts : Connect(c, script)
    \/ HangUp(c)
    \/ Accept(c) \/ Refuse(c)
    \/ Receive(c) \/ EndOfStream(c) \/ ReadFails(c) \/ ReadDeadline(c)
    \/ Write(c) \/ WriteFails(c) \/ WriteDeadline(c)

\* run has returned and nothing is left to do.
Returned == server = "returned" /\ UNCHANGED vars

Next ==
    \/ \E c \in Clients : Task(c) \/ Outside(c)
    \/ Signal \/ StopAccepting \/ ShutEngine \/ Return \/ Returned

Spec == Init /\ [][Next]_vars

\* The runtime polls every task that can go on, the engine answers every call,
\* and a write ends, at the latest at its deadline.  Nothing is asked of clients.
Fairness ==
    /\ \A c \in Clients : WF_vars(Task(c)) /\ WF_vars(Write(c) \/ WriteFails(c) \/ WriteDeadline(c))
    /\ WF_vars(signal /\ StopAccepting)
    /\ WF_vars(ShutEngine \/ Return)

\* A read deadline passes as well.
ReadFairness == \A c \in Clients : WF_vars(ReadDeadline(c))

FairSpec == Spec /\ Fairness

-----------------------------------------------------------------------------
Running == {"top", "decode", "read", "engine", "write"}

\* connected_clients, as any INFO may read it at any time, is never more than
\* max_connections and never less than the connections that are running: the
\* counter rises after the permit is taken and falls before it is given back.
ConnectedWithinLimit ==
    /\ metrics.active_connections <= MaxConnections
    /\ metrics.active_connections >= Cardinality({c \in Clients : conn[c].pc \in Running})

\* The requests of a script, in order; a truncated last frame is a malformed one.
RequestsOf(script) ==
    LET frames == Complete(script)
        Nth(n) == CHOOSE i \in frames : Cardinality({j \in frames : j <= i}) = n
        whole == [n \in 1 .. Cardinality(frames) |-> script[Nth(n)]]
    IN  IF script # <<>> /\ script[Len(script)] = Partial THEN Append(whole, Malformed)
        ELSE whole

\* The session after the first i requests, executed one by one.
SessionAfter(requests, i) ==
    LET after[j \in 0 .. i] ==
          IF j = 0 THEN new ELSE Handle(after[j - 1], requests[j]).session
    IN  after[i]

\* The reply to the i-th request, whatever its length.
ReplyTo(requests, i) ==
    IF requests[i] = Malformed THEN Failure("protocol")
    ELSE Handle(SessionAfter(requests, i - 1), requests[i]).reply

\* What may answer the i-th request: the limit error only where the reply may be
\* too long.
Answers(requests, i) ==
    {ReplyTo(requests, i)}
        \cup {limit \in {Failure("reply_limit")} : ~Fits(ReplyTo(requests, i))}

\* The i-th request closes the connection.
Closes(requests, i) ==
    requests[i] = Malformed \/ Handle(SessionAfter(requests, i - 1), requests[i]).close

\* A client is answered what its requests mean when they are executed one by one
\* on a session of its own, one reply for each and in order, whatever was
\* pipelined, whatever the other clients do and whenever the server stops; a reply
\* over max_reply_bytes, whoever made it, is the limit error in its place; and
\* nothing follows the reply to a malformed frame or to QUIT.
RepliesFollowTheScript ==
    \A c \in Clients :
        LET requests == RequestsOf(conn[c].script)
        IN  /\ Len(conn[c].sent) <= Len(requests)
            /\ \A i \in DOMAIN conn[c].sent :
                  /\ conn[c].sent[i] \in Answers(requests, i)
                  /\ Closes(requests, i) => i = Len(conn[c].sent)

\* After the stop signal a connection begins at most one more request, the one it
\* was already about to take: a full pipeline does not hold up the shutdown.
AtMostOneLateRequest == \A c \in Clients : late[c] <= 1

\* Engine::shutdown begins only when no connection can call the engine any more
\* and every call made has been answered: "Shutdown interrupts socket reads, not
\* admitted mutations", so no connection leaves while the engine works for it.
EngineIdleAtShutdown ==
    server \in {"engine", "returned"} =>
        \A c \in Clients : engine[c] = "idle" /\ conn[c].pc \in {"none", "refused", "joined"}

\* Once the signal arrives run returns, however silent or slow its clients are.
RunReturns == signal ~> server = "returned"

\* As read deadlines pass, a connection ends and gives its permit back, even if its client never sends
\* another byte and never reads a reply.
ConnectionsEnd ==
    ReadFairness =>
      \A c \in Clients : At(c, "accepted") ~> conn[c].pc \in {"finished", "joined"}
=============================================================================
