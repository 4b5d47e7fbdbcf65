# A TLA+ model of Recall

Recall is a memory-only key-value server that speaks RESP2.  These modules model
it from the bytes of a connection to the table of a shard, and from the command
line to the return of `Server::run`; check the models with TLC on small
instances; and prove with TLAPS, for every value of the constants, most of the
safety properties, the linearizability of the engine among them.  Paths below are
relative to the repository's `crates/`.

## 1. The system

| Part | State | Operations | Interacts with |
| --- | --- | --- | --- |
| Decoder, Reply (`recall-protocol/src/lib.rs`) | scan position of a partial frame | `decode`, `encode`, `encoded_len` | fed by a connection; `encoded_len` is used by every reply limit |
| Parser (`recall-core/src/command.rs`) | none | `parse`, `Operation::keys`, `payload_bytes`, `metadata` | a connection; admission charges `payload_bytes` |
| Shard (`recall-core/src/store.rs`) | table, payload total, revision, counters, limits | `prepare`, `apply`, `execute`, `expire_due`, `stats` | owned by one owner thread; owns an expiration index |
| Expiration index (`recall-core/src/expiry.rs`) | heap of timers, positions | `set`, `remove`, `expired` | its shard only |
| Engine handle (`recall-server/src/engine.rs`) | `closing`, byte credits, channel senders | `execute`, `stats` | called by sessions; sends to owners or to the coordinator |
| Owner threads (`owner_loop`) | shard, reservation, `stopping`, `data_turn` | data, control, tick | bounded data and control channels |
| Coordinator (`coordinator_loop`, `coordinate`) | transaction id and progress | reserve, prepare, apply, release | a bounded channel from handles, control channels to owners |
| Engine (`with_clock`, `shutdown`) | thread and task handles | start, graceful stop | everything above |
| Session (`session.rs`) | authenticated, names | AUTH, HELLO, CLIENT, dispatch | the engine handle |
| Server and connections (`lib.rs`) | permits, metrics, stop signal | accept, read, write, shutdown | sessions, then `Engine::shutdown` |
| Config, settings, main | immutable after start | parse, validate, `shard_limits` | everything, at start |

A command that touches one owner goes through that owner's data channel.  One
that touches several goes through the coordinator, which reserves the owners in
ascending order, samples the clock, asks each to prepare its part, applies all
or none of them, and releases.  Nothing is persisted.

A connection reads bytes into a buffer, decodes a request, parses it, lets the
session execute it and writes the reply, one request at a time.

What is hard here: a preparation is computed in one step and applied in a later
one; participants apply one after the other; admission may time out, or the
caller may go away, at every await; ticks, control and data meet in a biased
`select!`; shutdown must overtake none of what was accepted; the wall clock may
go back; bytes arrive in pieces and requests in pipelines; the stop signal meets
a connection anywhere.  `PROJECT.json` lists these as hazards, each at its line.

What makes each part correct:

- *Shard*: the index and the payload total always agree with the table, budgets
  hold, a failed command changes nothing, every command means what a table of
  live keys would make of it, the revision tells a stale preparation.
- *Expiration index*: it is the map from keys to deadlines, and yields an
  earliest due key.
- *Engine*: commands are linearizable; an accepted command is executed and
  answered exactly once; credits are conserved; no assertion and no `fatal` is
  reached; every call, `stats` and `shutdown` end; data is not
  starved by control messages.
- *Decoder*: the requests do not depend on how the bytes arrive, the limits are
  exact, the buffer is bounded.
- *Reply*: the length computed before is the length written, and what is written
  reads back.
- *Parser*: the option loops accept what the options mean, and keys are where
  COMMAND says.
- *Session*: authentication is proof of the password; a refusal changes nothing.
- *Server*: replies follow the requests, the limit on connections is what INFO
  shows, connections end before the engine does, and `run` returns.
- *Settings*: the server runs with what the most specific source states, or not
  at all.

## 2. The modules

| Module | Models |
| --- | --- |
| `Commands` | operations, replies and their encoded length; the reference meaning of every data command on one table of live keys at one instant |
| `Store` | `store.rs` as functions of a shard: `prepare`, `apply`, `expire` |
| `SumTheorems` | laws of sums over finite sets, for the proofs |
| `StoreProofs` | what `prepare`, `apply` and `expire` do to any shard |
| `Shard` | one shard and its caller as a state machine; its invariants |
| `ShardProofs` | the theorems about `Shard` |
| `TimerMap` | what the expiration index promises |
| `ExpiryIndex` | the heap of `expiry.rs`; refines `TimerMap` |
| `ExpiryIndexProofs` | the theorems about `ExpiryIndex`, the refinement included |
| `KeySpace` | what the engine promises: one linearizable table |
| `Engine` | `engine.rs`: callers, owners, coordinator, stats, shutdown |
| `EngineKeySpace` | the refinement mapping from `Engine` to `KeySpace` |
| `EngineProofs` | the theorems about the invariants of `Engine`, and that it implements `KeySpace` |
| `OwnerLoop` | the scheduling of `owner_loop` alone, under an endless load |
| `Resp` | what the decoder and the encoder share |
| `Decoder` | `Decoder::decode` under the reads of `next_request`, byte by byte |
| `Encoder` | `encoded_len`, `encode`, and the limit in `write_reply` |
| `RespProofs` | the theorems about `Decoder` and `Encoder` |
| `Parser` | `parse` and its helpers; the table `SPECS` |
| `ParserProofs` | the theorems about `Parser` |
| `Session` | `session.rs` as a function of a session and a command |
| `SessionGate` | one session under any sequence of commands; its properties |
| `Server` | `Server::run`, the connection tasks, the stop |
| `Config` | the defaults, `validate`, `shard_limits` |
| `Settings` | `main` and `settings.rs`, up to `Server::bind` |
| `ServerProofs` | the theorems about `Server`, `SessionGate` and `Settings` |
| `MC*` | instances for TLC |

`Shard` and `Engine` both extend `Store`, so what is shown of one shard is about
the functions the owners run.  `Store` uses the map from keys to deadlines where
the code has the heap; `ExpiryIndex` shows that the heap implements that map.
`Server` and `SessionGate` both extend `Session`, `Settings` extends `Config`, and
`Parser` takes the operations and their keys from `Commands`.

### State and data

A value is the canonical decimal of an i64 (the integer itself) or a member of
`Texts`, which `integer` refuses.  Lengths of keys and values are kept, because
budgets, credits and reply limits count them.  The width of i64 is the constant
`I64Max`.  Effects are a partial function from keys to an entry or `None`.
`now` is any instant of `Times`, in any order.  Error messages are codes.

Left out of `Store`: failure of an allocation (`try_reserve`), which returns an
error before anything is touched, and exhaustion of the u64 revision, which is a
panic.  `expire_due` removes due timers one by one, earliest first; as nothing
interleaves with it, it is one step that removes a set, ties being broken in any
way (`ExpirySets`).

### The engine's steps

An await is the boundary between two actions.  Queues, credits, control channels
and oneshot answers are variables; a oneshot that only the coordinator waits for
is `co.ack`.  `OwnerStep` follows the code's order: the data turn at the top of
the loop, then control, tick and data by the bias of the `select!`.  That the
control channel is found empty and data is taken in one step loses nothing: a
message sent in between is not seen by this iteration either.

- Tokio's semaphores and channels serve waiters in order and may set permits
  aside for the first of them.  The model lets any waiter that fits go first,
  which includes the orders of the code; `EveryCallReturns` therefore does not
  rest on that order.
- A request drops its permit right after its answer is sent; `Respond` does both.
- The control channels have 8 places in the code and 1 in the instances, which
  makes every sender wait more.
- `Events` selects which events of the environment an instance explores: clock
  steps, ticks, timeouts, dropped futures, stats, shutdown, and an engine that
  is dropped without shutdown.
- The rejection of an empty key set cannot be reached through the parser; it is
  part of `Begin` because `execute` tests it.
- A runtime that is itself dropped cancels the coordinator, which aborts the
  process by design; the model does not do that.
- `NeverAborts` states as invariants the assertions and the calls of `fatal` in
  `owner_loop`, `coordinate` and `shutdown`.

### Connections

- *Decoder.*  A byte is one of the characters the decoder tells apart, offsets
  count from 0.  The actions are the iterations of the loop in `decode`; a read
  takes any number of the bytes to come.  The reference `Meaning` reads a whole
  stream at once, with headers and frames given by what they look like and not
  by a scan.  `UsizeMax` is the frame limit in the instance, so that a stated
  length may overflow.
- *Encoder.*  `encoded_len` walks the reply first, `encode` again, one element
  per step, by the stack of what is still to be encoded (`pending`) in place of the
  recursive calls; the reference `Read` parses the bytes as a client would.  What the
  module speaks of are `Parts`, the replies explored and the elements of their
  arrays, each with the depth of its nesting: recursion over a reply is a recursive
  function over `Parts`, and the client reads one level of nesting after the other.
  `Numbers` and `MaxDepth`, which bound what the client tries, may be infinite and
  any number.
- *Parser.*  An argument is a token with a lower-case spelling, the i64 it is
  the canonical decimal of, a length, and whether it is printable.  Each iteration
  of the option loops is a step.  The references `Assignments` and `Greetings`
  find what a list of options means among the spellings of every meaning, and the
  command that is built is compared with it in every field.  AUTH and SETNAME may be
  written in any case; the credentials and the name behind them are the tokens
  themselves.  The request without arguments, which `parse`
  refuses, is not an input: the decoder refuses it first.
- *Session.*  `execute` is one step up to its only await, the engine's answer; no
  field changes after it.  The texts of HELLO and INFO are left out, but for the
  sections of an INFO, since a section decides whether the engine is asked, and
  so are the lengths of all replies.  The comparison of passwords is equality; that it takes constant time is not
  modelled.
- *Server.*  A client's script is a sequence of frames: commands as `parse` returns
  them, a frame `decode` refuses, a request `parse` refuses, and the first part of
  the frame that follows.  A read delivers any number of frames.  The engine is one
  call per connection, made, applied and answered: `Engine` shows that it answers
  every call.  The drop of a guard is two steps, the counter and the permit.
  A connection whose task is over keeps only its place and, as history, its script and
  what it was answered.
  `write_reply` replaces any reply over `max_reply_bytes` by an error.  Lengths are
  left out, so `Written` lets either be sent, for every reply but those that `Fits`
  names: what the engine has limited itself, OK, an absent name, an empty INFO, and
  the error texts of at most 64 bytes, which is the least limit `validate` accepts.
  The greeting, an ECHO, a name, COMMAND, INFO with any section, an error of `parse`
  and the text for AUTH without a configured password may be over it.
  A failing `set_nodelay` and a failing allocation of the output are left out: they
  end a connection as a reset does.  Panics of tasks, which abort the process, do
  not occur.
- *Config, Settings.*  Words of the command line, of the environment and of files
  are tokens with a number, an address kind and a length.  Every path given with
  `--env-file` names the one other file.  Durations are in milliseconds, the width
  of usize and u32 is scaled.  Configurations that a program embedding the server
  hands to `Server::bind` are initial states of their own.  Arguments that are not
  UTF-8 make `std::env::args` panic and are not modelled.
- *OwnerLoop.*  Messages are reduced to their kind; the coordinator's next message
  is what `coordinate` sends after an answer.  Stopping is in `Engine`.

## 3. The runs

| Run | Config | Shows |
| --- | --- | --- |
| `shard` | `MCShard.cfg` | accounts, index, budgets and meaning of one shard |
| `expiry_index` | `MCExpiryIndex.cfg` | the heap implements the map |
| `linearizable` | `MCKeySpaceLinear.cfg` | concurrent local and cross-owner commands with a moving clock refine `KeySpace` |
| `linearizable_under_faults` | `MCKeySpaceAdmission.cfg` | the same with timeouts, dropped futures, stats, shutdown and a dropped engine; assertions hold, acceptance is exactly once, credits are conserved |
| `calls_return` | `MCEngineCalls.cfg` | calls, stats, shutdown and abandoned owners end |
| `owner_loop` | `MCOwnerLoop.cfg` | endless transactions and stats do not starve data; expiration resumes |
| `server` | `MCServer.cfg` | pipelined replies, the limits on replies and on connections, and the stop at any moment of a connection |
| `session` | `MCSession.cfg` | the authentication gate |
| `decoder` | `MCDecoder.cfg` | fragmentation and limits |
| `encoder` | `MCEncoder.cfg` | lengths and bytes of replies |
| `parser` | `MCParser.cfg` | options, arities and advertised keys |
| `settings` | `MCSettings.cfg` | sources, precedence, validation, budgets |

`shard`.  Three keys for a table of two, so that the key budget is met and
exceeded; a long and a short value that together exceed the byte budget; a reply
limit that a multi-get can exceed; i64 narrowed to -4001..4000, so that counters
and deadlines pass both ends while the seconds of TTL still round.  Twenty
commands at three instants, four revisions deep: enough to set a deadline,
replace or persist the key, let it fall due and sweep it, with a preparation held
across any part of that.  `CommandsMeanTheReference` and `OomExact` try every
command at every instant in every state reached.  `MaxRevision` is the only bound
on the exploration.

`expiry_index`.  Six timers make the smallest heap in which the timer moved by
`swap_remove` may have to rise; the instance has seven.

`linearizable`.  Two owners, two keys each, room for one key per owner, so that
either participant of a cross-owner write may be the one to fail; a multi-get
whose parts each fit the reply limit when the whole may not, whose argument order
is not the owners' order, and which names an absent key; an expiring local write.
Three requests, two instants.

`linearizable_under_faults`.  Queues of one place and credits for two local
commands but only one cross-owner one, so that callers wait for credits, wait for
slots, and are met there by timeouts, dropped futures, the shutdown and the drop of
the engine; one command is too large for any pool.

`calls_return`.  Two commands of either kind, ticks, one stats call, and a shutdown
or a dropped engine.

`owner_loop`.  Three jobs for a data channel of two places and a control channel of
two places; jobs, transactions and stats calls come for ever.

`server`.  One permit for two clients, so that one is refused, or accepted as the
other leaves; scripts that put a data command behind a greeting with credentials,
requests behind a malformed frame and behind QUIT, and that end in the middle of a
frame.  The greeting, an ECHO and the error for a request `parse` refuses may be over
the reply limit, with requests behind them.

`session`.  A configured password, right, wrong and empty ones supplied, both
kinds of user, two names and the empty one: the reachable states are few, every
command is tried in each, and the theorems remove the bound.

`decoder`.  Eight streams at the limits (a frame of exactly the limit and one
byte more, a bulk over its limit, a header at its limit, texts that look like line
endings, two requests in one buffer, one argument too many), each also with every
byte replaced, dropped or inserted and cut at every length, and each of these in
every fragmentation.

`encoder`.  Integers and texts around the powers of ten, arrays of up to three,
arrays of arrays, arrays of 9 to 11, around a limit of 40 bytes.

`parser`.  Every command with up to four arguments; SET with every list of up to
five option words; HELLO with up to six, with three versions and with credentials and names that differ
in case only or spell an option word; keys and values at and over their limits;
a duration whose milliseconds overflow.

`settings`.  Some seventy command lines, 28 environments, 13 files in combination,
and embedded configurations with each field at its limits.

The refinement maps a single-owner command to the step in which its owner
executes it and a cross-owner command to the step in which the coordinator
samples the clock: all participants are reserved then, so the outcome is
determined.  The history field `co.plan` of `Engine` (`Foresee`, `Foreseen` and
`NoPlan`, the definitions there that stand for no code) remembers that outcome until
it is applied; a participant that prepared anything else would break the refinement.
`KeySpace` lets a due entry stay in the table invisibly, since a clock that goes
back may make it visible again before it is swept.

Deadlock is not checked in the engine's runs, in `shard` and in `session`: requests
are used once, revisions are bounded and QUIT ends a session, so these instances
come to rest.  The liveness
properties say where they must not rest before.

Every property has a mutant: an operator of the same module, marked so, that
stands for a plausible slip in the code and makes TLC violate the property.

### What may put expiration off

`owner_loop` gives queued data a turn after each transaction, stats answer or tick, so
`DataNotStarved` holds under any load.  It polls control messages before the tick and
has no quota for them: `ExpirationResumes` therefore has a premise, that from some
point on no stats call and no new transaction comes; without it TLC finds a behaviour
in which the tick is never taken.  Due keys are invisible to commands meanwhile, and a
write to one replaces it; what suffers is the memory they hold.  (`ROADMAP.md:41`
plans to verify fair progress of expiration under pressure.)

### Fairness

`Fairness` is weak fairness of each execute future, owner thread, coordinator
task, stats call and shutdown: the threads are scheduled by the operating system
and the tasks are polled by Tokio when they are woken.  An owner with several
ready branches is not assumed to choose fairly among them; its bias and the data
turn decide.  Nothing is assumed of the clock, the clients or the events.
`calls_return` leaves the admission timeout out, so that no call is saved by it; what
ticks and control messages may starve is the matter of `owner_loop`.

`OwnerLoop` assumes weak fairness of the owner thread and of the timer, and strong
fairness of the coordinator's sends once a transaction has begun: the channel
serves its waiting senders in order, so callers of stats cannot pass it for ever.

`Server`: the runtime polls every task that can go on, the engine answers every call
(`calls_return`), and a write ends, at the latest at its deadline; `run` notices a
signal.  Nothing is asked of clients, and `RunReturns` does not need the read
deadline, since the stop signal interrupts reads.  Only `ConnectionsEnd` assumes,
in its premise, that read deadlines pass.  That the deadline of a frame is not extended byte by
byte is in the model by construction: it has no clock, and the deadline may pass in
any wait.

## 4. The proofs

| Module | Proves, of every behaviour | From |
| --- | --- | --- |
| `ShardProofs` | `TypeOK`, `TimersMatchEntries`, `PayloadExact`, `WithinKeyBudget`, `RevisionGuardsPrepared`, `CommandsMeanTheReference`, `OomExact`, `ExpirationIsInvisible` | `CommandsAssumption`, `EntriesAssumption`, `ShardAssumption` |
| `EngineProofs` | `CreditsConserved`, `AcceptedExactlyOnce`, `NeverAborts`; `Linearizable`: `Engine` implements `KeySpace` | `CommandsAssumption`, `EntriesAssumption`, `EngineAssumption` |
| `ExpiryIndexProofs` | `HeapSound`; `ImplementsTimerMap`: the heap implements `TimerMap` | `ExpiryIndexAssumption` |
| `RespProofs` | of `Decoder`: `BufferSound`, `NothingHeldBack`, `DecodesTheStream` | `DecoderAssumption` |
| | of `Encoder`: `ReadsBack`, `LengthExact` | `EncoderAssumption` |
| `ParserProofs` | `SetMeansItsOptions`, `HelloMeansItsOptions`, `KeysAsAdvertised` | `ParserAssumption` |
| `ServerProofs` | of `Server`: `ConnectedWithinLimit`, `AtMostOneLateRequest`, `EngineIdleAtShutdown`, `RepliesFollowTheScript` | `SessionAssumption`, `ServerAssumption` |
| | of `SessionGate`: `GateTypeOK`, `AuthenticatedIffProved`, `OnlyErrorsBeforeProof`, `RefusalChangesNothing` | `SessionAssumption` |
| | of `Settings`: `RunsAsStated`, `StartsExactlyWhenLegal`, `BudgetsExact` | `ConfigAssumption`, `SettingsAssumption` |

The assumptions are what `Config::validate` and the types of the code give: limits
of at least one, `max_reply_bytes` at least 64 over the longest value, a routing
that is a function to the owners, texts that are no integers, the limits
`Limits::validate` asks for, and a usize that can count them (at least 64 MiB, and at
least the number of arguments).  Of spellings the parser's assumption says that two
words which differ in case only stand for the same integer or for none.  The encoder's says that an array is nested deeper than
its elements, and that simple and error texts, which are the server's own, hold no
carriage return.  The rest of them says
that the markers `None`, `Unset`, `Stop` and `Malformed` are none of the values beside
which they stand.  Keys, texts, operations, requests, byte streams, argument lists,
command lines and files may be infinitely many and of any length.

The specifications are `Spec` of their modules; where modules share a module of proofs
the others are called `GateSpec`, `SettingsSpec` and `EncoderSpec`.

### Induction

The installed provers cannot use an induction rule that takes a predicate.  Where a
fact goes by induction over data the proofs take a smallest counterexample instead,
from `LeastNatural` and `SmallestSubset` in `SumTheorems`, whose own ground is that
`<` is well founded on the natural numbers.  In this way `SumTheorems` shows that the
sum over a finite set exists and does not depend on an order (`SumRemove`, `SumSame`,
`SumUnion`), `StoreProofs` that `decimal_digits` is well defined, `ExpiryIndexProofs`
that the recursive functions which stand for the loops `up` and `down`
have the values their equations give, and `RespProofs` the same for the chains of
frames in a stream, for decimal numerals, and, by depth, for the length of a nested
reply.  It does not help with `RECURSIVE` operators, which
the prover does not accept at all, so the models have none; recursion is written as
recursive functions.

### One shard

`StoreProofs` is about the functions, for any shard: every command produces finitely
many well-typed effects (`CommandEffects`); a successful `prepare` carries the
revision and effects within the key budget (`PrepareResult`); the counts that
`preflight` computes by differences are those of the table `apply` leaves
(`KeysAfterExact`, `PayloadAfterExact`); `apply` and `expire_due` keep table, index and
payload in agreement (`ApplyResult`, `ExpireResult`, `ApplyPayload`, `ExpirePayload`);
and `CommandMeans`: at every instant, what a command computes from the stored
entries, due ones included, and installs, is its reference meaning on the live ones.
That goes by one lemma for each kind of command; the arithmetic is that of INCR at the
ends of i64, of a duration added to the present, and of the rounding of TTL.

`ShardProofs` is about sequences of calls.  `WithinKeyBudget` is not inductive, nor is
`PayloadExact`.  The table after `apply` is within bounds because the
preparation was checked against the shard it is applied to; a held preparation is
applied later, and it is known to be that of the current shard only through
`RevisionGuardsPrepared`.  That in turn needs revisions never to run behind: a held
preparation's revision is at most the shard's, and every change of the shard
increases it.  And `expire_due` changes the table through the index, so its result is
within bounds because the index holds keys of the table.  The inductive invariant
`IInv` is the conjunction of these facts.

### The engine

The invariant `IInv` of `EngineProofs` has seven parts, each shown for every action:

- `Calls`: a request past admission has an operation with a key;
- `Credits`: the free bytes of a pool and the charges of its holders add up to its
  budget;
- `Queues`: a channel holds exactly the accepted requests that wait in its pool,
  once each, and the one the coordinator has taken is accepted;
- `Transaction`: the coordinator's parts are the split of its request;
- `Lives`: who stops whom.  The coordinator finishes before any owner is told to
  stop; an owner closes its channel when it begins to stop and leaves only when that
  channel is empty; `shutdown` counts the owners it has told;
- `Messages`: a control channel holds stats calls, a stop only once the coordinator
  has finished, and at most one message of the transaction in progress, if it is for
  the owner the coordinator waits for;
- `Locks`: two-phase locking.  Which owners are reserved, and which of them have
  something prepared, is determined by the coordinator's phase and part; and what is
  prepared has the revision of the shard.

`CreditsConserved` is a part of it and `AcceptedExactlyOnce` follows from `Queues` and
`Lives`.  `NeverAborts` needs them all: that the owner finds the reservation a
message names is `Locks` with `Messages`; that `apply` meets the revision it was
prepared at is the last conjunct of `Locks`, which holds because a reserved owner
takes neither data nor tick; that a send to an owner does not fail is `Lives`.

### Linearizability

`EngineLinearizable` states `Spec => Linearizable`: under the mapping of
`EngineKeySpace` each step of the engine is a step of `KeySpace` or a stutter.

- `Call` is Invoke; a refusal of `Begin`, a timeout and a closed channel are Fail; a
  future dropped before its request is accepted is Abandon;
- the owner's execution of a local command is Commit, Refuse, or Fail for want of
  memory or for the length of its reply;
- the sample of the clock in `coordinate`, once every participant is reserved, is the
  Commit of a cross-owner command, or a stutter if a part or the reply limit is going
  to refuse it; that refusal is Fail when the coordinator begins to release;
- a tick is Expire, since only due entries are removed;
- a step of the clock is Tick, and everything else stutters.

The invariant beside `IInv` is `LInv`.  It says that the index of each shard agrees
with its table; that there is no plan before the clock is sampled; that while the
parts prepare the plan is still what they would arrive at, and what has been
prepared so far is part of it (`Preparing`); that what is applied is what was planned
(`Applying`); and that the reply is the planned one (`Releasing`).  `Preparing` is
preserved because `Locks` keeps every other step away from the reserved shards.

Two facts carry the committing steps.  `LooksAtItsKeys`: the meaning of a command
depends on its own keys only, so an owner that has one part of the database computes
what the whole database gives.  `PartsCombine`: the parts `split` makes, executed each
on its owner's table, have together the effects and, combined by `combine`, the reply
of the whole command; for MSET this needs that the last value given for a key
survives the split, for DEL and EXISTS that the counts add up, repeated keys
included, and for MGET that the replies go back to the positions of the
arguments.

### The expiration index

`HeapSound` says that the heap is ordered and that `positions` is the inverse of the
places in it.  While a timer moves neither is so, and the loops of `up` and `down` have
an invariant of their own: the array holds the timers it should, once each, where
`positions` says (`Carries`), and it is ordered but around the place of the
moving timer, whose parent is no later than its children (`OrderedAround`).  Each
iteration keeps that and brings the timer nearer to the root or to a leaf, so the
timer rests within i iterations up, or `Len` down, and what was excepted is in order.
A change of a deadline, and a removal that moves the last timer into the gap, leave the
heap ordered around that place, whichever way the timer has to go (`SettleResult`).

The refinement maps the heap to the function from keys to deadlines.  What needs an
argument is `expired`, which looks at the root only: that no timer is earlier goes by
the first place whose deadline is, and its parent (`RootIsEarliest`).

### The decoder

`BufferSound` is inductive together with the types of the decoder's fields.
What it rests on is `HeaderEnd`: the search resumed at the saved scan position stops
within the buffer, and finds nothing only where the buffer has room for more.

`DecodesTheStream` compares the requests with `Meaning`, which reads a whole stream
at once; what has been read so far may be followed by anything.  The invariant
`StreamInv` therefore speaks of every stream that agrees with the bytes read: the
requests returned are those of the frames consumed, and the decoder's fields are the
beginning of the next frame (`Faithful`).  It adds that decode asks for more only when
the bytes read hold no further frame (`Waits`), which is `NothingHeldBack`, and that a
connection ends only when its whole stream holds none (`Ends`).  Three groups of
lemmas carry it: facts about the reference (the header, the bulk and the frame that
start at an offset are unique, bulks form a chain, and the meaning of a stream is its
first frame and the meaning of the rest); what the loop does with a header, also with
one that is unfinished at its limit; and what it does with the body of a bulk.

### The encoder

The code encodes by recursion, the model by a stack; so the invariant speaks of the
bytes that are out and of the parts still pending together (`EncoderInv`).  For
`LengthExact`: the pending parts, each as long as `Total` says and laid one after the
other behind the output, end at the total of the reply.  A step pushes the bytes of
one part and puts its elements in its place, and these fill what is left of that
part's length.  That a header is as long as `encoded_len` counts needs that a decimal
numeral has `decimal_digits` digits (`DigitsCounted`) and a minus sign one byte.

For `ReadsBack`: which part stands where in a text is the least relation closed under
"the header of r stands at p, and its elements stand one after the other behind it"
(`Spelled`).  The invariant says that in every text that begins with the output and
goes on with the pending parts the reply stands at the beginning (`Completes`).  When
nothing is pending the output itself is such a text.  It remains that a client reads
what is spelled and nothing else: the places where it does are closed too
(`ReadableClosed`), since a header is read in one way only.  A numeral determines its
number (`DecimalInjective`), and the first line ending behind a header's first byte is
its own, because neither numerals nor the server's texts hold a carriage return; the
bytes of a bulk may, and are skipped by count.

### The parser

The loops of `parse_set` and `parse_hello` take one to three words a turn and hold
what they found in a record.  The reference lists the legal spellings of every
meaning.  `IInv` says that the words before the loop's place spell exactly the record
so far, by the place at which each option stands.  A refusal is the harder half:
`SetExtends` and `HelloExtends` show that where a legal list goes on from the words read
so far the loop accepts its next word, so a list in which a word is refused is not
legal.  Option words are compared in lower case and what follows them as it stands, so a
password or a name that spells an option is told from one by its place only; the
meaning of a list is unique (`HelloUnique`), and the command is that meaning.  `KeysAsAdvertised` compares the keys of an
operation with the table `SPECS`, in one case for each command.

### Settings

The reference has no loops either.  The places of options on the command line
(`Starts`) are chosen by what they obey; `ChainExists` shows that such a set exists,
as the least one that holds the first place and the next of each of its members.
`SettingsInv` says stage by stage what has been read: the options before the loop's
place are legal and `options` holds what they say (`OptionsRead`), the lines before
the loop's are legal and `values` holds what they assign (`LinesRead`).
`OptionRefused` and the failing case of `StepTakeLine` turn a refusal
into an illegal input; at the end `EffectiveIs` shows that the three maps laid
over one another hold what `Stated` finds, and `ConfiguredIs` that the
configuration is the one that is meant, since every setting has a field of its own.

`BudgetsExact` holds for embedded configurations too, which pass by none of this: it
follows from `validate` alone, once more in `Server::bind`.  That the shares add up is
`SharesSum`, over the number of owners; that `saturating_add` does not saturate follows
from the limits `validate` puts on a frame.

### Server and session

`Server`: every permit is free or held by one connection, and the counter of active
connections is the number of guards not yet dropped (`Accounts`, by cardinalities);
a connection that began a request after the stop does not decode again
(`Lateness`); the engine works for a connection exactly while that connection waits
for it, and every task is joined when it is shut down (`Quiet`).

`RepliesFollowTheScript` needs more, `RInv`: every connection has a place in its
client's script (`Follows`).  The frames up to some p have been decoded and those up to
some q read, so the decoder's buffer is what lies between and the wire is the rest.
The session is the one the requests taken so far lead to, whatever may be written of
the reply in hand is one the next request may get (`Answering`), and no request before it
closed the connection.  A read moves q whatever its length, `Begin` moves p past the
next whole frame, partial ones included, and a write turns the next request into an
answered one, by that reply or, where the reply may be too long, by the limit error
(`WrittenAnswers`); so a frame is neither dropped, repeated nor overtaken where a read ends
inside it.  That the session of the reference after one more request is
`Handle` of the one before goes by a smallest counterexample (`SessionsTo`).

`Session`: the invariant is inductive together with the type of the session; the
action properties follow from the same lemma, `ExecuteResult`, which says in one place
what a command may do: authentication changes only by proof, an unauthenticated
session is answered an error, an error changes nothing.

### Only model-checked

- Liveness: `EveryCallReturns`, `StatsReturn`, `ShutdownCompletes`,
  `OwnersStopWithoutHandles`, `DataNotStarved`, `ExpirationResumes`, `RunReturns`,
  `ConnectionsEnd`.  The proof system does not cover it.

Every invariant and every action property the runs check is also a theorem; so are
the two refinements.

## 5. Not modelled

Not modelled: the repository's checking tools and deployment files, which are no
part of the running system; the wording of errors, HELLO and INFO; logging;
failures of allocation and of thread creation; the construction of the runtime in
`main`.
