------------------------------- MODULE Shard -------------------------------
(***************************************************************************)
(* One Shard of recall-core and its caller: execute, prepare, apply, drop  *)
(* of a preparation, expire_due.  The caller samples the wall clock for    *)
(* every call, so `now` is any instant: it may stand still or go back.     *)
(*                                                                         *)
(* The caller may hold one Prepared while it goes on using the shard.      *)
(* apply asserts that the revision has not moved, so only a current        *)
(* preparation is applied; module Engine shows that the owners never trip  *)
(* that assertion.                                                         *)
(***************************************************************************)
EXTENDS Store

CONSTANTS
    Ops,            \* the operations clients send
    Times,          \* the instants the clock may show
    Limits,         \* ShardLimits
    ExpiryBatch,    \* the budget of one expire_due
    MaxRevision     \* bound of the exploration; u64::MAX in the code

ASSUME ShardAssumption ==
    /\ Ops \subseteq Operations
    /\ Times \subseteq I64
    /\ ValidLimits(Limits)
    /\ ExpiryBatch \in Nat /\ ExpiryBatch > 0
    /\ MaxRevision \in Nat

VARIABLES
    shard,      \* struct Shard
    held        \* the Prepared the caller holds, with the call that made it; or None

vars == <<shard, held>>

Init == shard = NewShard /\ held = None

\* Shard::execute: prepare and apply at once; an error leaves the shard alone.
Execute(op, now) ==
    LET p == prepare(shard, op, now, Limits)
    IN  /\ shard.revision < MaxRevision
        /\ shard' = IF p.ok THEN apply(shard, p) ELSE shard
        /\ UNCHANGED held

\* The operations a cross-owner transaction prepares (split refuses the others).
Coordinated == {"delete", "exists", "multi_get", "multi_set"}

\* Shard::prepare; an error is returned and nothing is held.
Prepare(op, now) ==
    LET p == prepare(shard, op, now, Limits)
    IN  /\ op.type \in Coordinated
        /\ held = None
        /\ held' = IF p.ok THEN [prepared |-> p, op |-> op, now |-> now] ELSE None
        /\ UNCHANGED shard

\* Shard::apply; the revision test is its assertion.
Apply ==
    /\ held # None
    /\ shard.revision < MaxRevision
    /\ held.prepared.revision = shard.revision
    /\ shard' = apply(shard, held.prepared)
    /\ held' = None

\* The caller drops a Prepared.
Drop ==
    /\ held # None
    /\ held' = None
    /\ UNCHANGED shard

\* Shard::expire_due.
ExpireDue(now) ==
    /\ \E S \in ExpirySets(shard.timers, now, ExpiryBatch) :
          /\ shard.revision + Cardinality(S) <= MaxRevision
          /\ shard' = expire(shard, S)
    /\ UNCHANGED held

Next ==
    \/ \E op \in Ops, now \in Times : Execute(op, now) \/ Prepare(op, now)
    \/ Apply
    \/ Drop
    \/ \E now \in Times : ExpireDue(now)

Spec == Init /\ [][Next]_vars

-----------------------------------------------------------------------------
\* The shard and the held preparation have the types of struct Shard and
\* struct Prepared.  (PayloadExact gives payload_bytes its value.)
TypeOK ==
    /\ DOMAIN shard.entries \subseteq Keys /\ IsFiniteSet(DOMAIN shard.entries)
    /\ \A k \in DOMAIN shard.entries : shard.entries[k] \in Entries
    /\ DOMAIN shard.timers \subseteq Keys
    /\ shard.revision \in Nat
    /\ shard.expired_keys \in Nat
    /\ shard.applied_commands \in Nat
    /\ held # None => /\ held.op \in Ops /\ held.now \in Times
                      /\ held.prepared.ok
                      /\ held.prepared.revision \in Nat
                      /\ DOMAIN held.prepared.effects \subseteq Keys
                      /\ IsFiniteSet(DOMAIN held.prepared.effects)
                      /\ \A k \in Inserted(held.prepared.effects) :
                            held.prepared.effects[k] \in Entries

\* The expiration index and the table never diverge, whatever mixture of SET,
\* EXPIRE, PERSIST, deletions and expirations came before: expire_due finds a
\* due table entry behind every due timer (its expect and its assert hold).
TimersMatchEntries == TimersAgree(shard)

\* payload_bytes, which prepare and expire_due only ever adjust by differences,
\* is the sum of key and value lengths over the table, and within its budget.
PayloadExact == PayloadAgrees(shard) /\ shard.payload_bytes <= Limits.max_payload_bytes

\* The table stays within max_keys, although preflight only ever counts the keys
\* the effects replace and insert.
WithinKeyBudget == Cardinality(DOMAIN shard.entries) <= Limits.max_keys

\* At every reachable shard, every command at every instant either answers and
\* changes the live keys as the reference meaning says, or fails for the
\* reference's reason or for want of memory or reply space.  Dead keys left by
\* lazy expiration are never visible.
CommandsMeanTheReference ==
    \A op \in Ops, now \in Times :
        LET p == prepare(shard, op, now, Limits)
            view == View(shard.entries, now)
            refusal == Refusal(op, now, view)
        IN  IF p.ok
            THEN /\ refusal = None
                 /\ p.reply = NewReply(op, now, view)
                 /\ View(apply(shard, p).entries, now) = NewView(op, now, view)
            ELSE \/ p.reply = Error(refusal)
                 \/ refusal = None /\ p.reply \in {Error("oom"), Error("reply_limit")}

\* preflight refuses for memory exactly when the table the command would leave
\* exceeds a budget, although it never looks at that table.
OomExact ==
    \A op \in Ops, now \in Times :
        LET outcome == Command(shard.entries, op, now)
            table == Install(shard.entries, outcome.effects)
        IN  outcome.ok /\ encoded_len(outcome.reply) <= Limits.max_reply_bytes =>
              ((prepare(shard, op, now, Limits).reply = Error("oom")) <=>
                 \/ Cardinality(DOMAIN table) > Limits.max_keys
                 \/ Bytes(DOMAIN table, table) > Limits.max_payload_bytes)

\* The revision number is enough to tell a stale preparation: while it has not
\* moved, preparing the same command again gives the very same Prepared.
RevisionGuardsPrepared ==
    held # None /\ held.prepared.revision = shard.revision =>
        held.prepared = prepare(shard, held.op, held.now, Limits)

\* Background expiration removes only what no client can see at that instant.
ExpirationIsInvisible ==
    [][\A now \in Times : ExpireDue(now) =>
          View(shard'.entries, now) = View(shard.entries, now)]_vars
=============================================================================
