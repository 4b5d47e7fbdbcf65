------------------------------- MODULE Store -------------------------------
(***************************************************************************)
(* recall-core/src/store.rs as functions of the shard: what prepare        *)
(* computes, what apply installs, what expire_due removes.  The shard is a *)
(* record of the fields of struct Shard; its expiration index is the map   *)
(* `timers` from an expiring key to its deadline (module ExpiryIndex       *)
(* shows that the heap implements that map).                               *)
(*                                                                         *)
(* The effects of a command are a partial function from keys to            *)
(* Entries \cup {None}; None is a removal.                                 *)
(***************************************************************************)
EXTENDS Commands

EmptyMap == [k \in {} |-> None]

\* Shard::new.
NewShard ==
    [entries |-> EmptyMap, timers |-> EmptyMap, payload_bytes |-> 0,
     revision |-> 0, expired_keys |-> 0, applied_commands |-> 0]

\* What Shard::new demands of its limits.
ValidLimits(limits) ==
    /\ limits.max_keys \in Nat /\ limits.max_keys > 0
    /\ limits.max_payload_bytes \in Nat /\ limits.max_payload_bytes > 0
    /\ limits.max_reply_bytes \in Nat /\ limits.max_reply_bytes >= 64

(***************************************************************************)
(* prepare: the effects and the reply of each command.  observe returns    *)
(* the live entry, and leaves a removal in the effects for a due one.      *)
(***************************************************************************)
\* Mutant: a key is still live at its deadline.
observeLate(entries, k, now) ==
    IF k \in DOMAIN entries /\ ~Due(entries[k], now - 1) THEN entries[k] ELSE None

observe(entries, k, now) ==
    IF k \in DOMAIN entries /\ ~Due(entries[k], now) THEN entries[k] ELSE None

Observed(entries, K, now) ==
    [k \in {x \in K \cap DOMAIN entries : Due(entries[x], now)} |-> None]

Outcome(effects, reply) == [ok |-> TRUE, effects |-> effects, reply |-> reply]

Refused(code) == [ok |-> FALSE, effects |-> EmptyMap, reply |-> Error(code)]

Installs(k, entry) == [x \in {k} |-> entry]

ExpiresAt(old) == IF old = None THEN None ELSE old.expires_at_ms

\* checked_add and checked_sub have a result.
Checked(n) == n \in I64

PrepareGet(entries, op, now) ==
    LET old == observe(entries, op.key, now)
    IN  Outcome(Observed(entries, {op.key}, now),
                Bulk(IF old = None THEN None ELSE old.value))

PrepareSet(entries, op, now) ==
    LET old == observe(entries, op.key, now)
        deadline == CASE op.expiry = "clear" -> None
                      [] op.expiry = "keep"  -> ExpiresAt(old)
                      [] op.expiry = "after" -> now + op.milliseconds
    IN  IF op.expiry = "after" /\ (op.milliseconds <= 0 \/ ~Checked(now + op.milliseconds))
        THEN Refused("invalid_expire")
        ELSE IF \/ op.condition = "if_absent" /\ old # None
                \/ op.condition = "if_present" /\ old = None
        THEN Outcome(Observed(entries, {op.key}, now), Bulk(None))
        ELSE Outcome(Installs(op.key, Entry(op.value, deadline)), Ok)

PrepareIncrement(entries, op, now) ==
    LET old == observe(entries, op.key, now)
        current == IF old = None THEN 0 ELSE old.value
        next == IF op.subtract THEN current - op.amount ELSE current + op.amount
    IN  IF op.subtract /\ op.amount = I64Min THEN Refused("overflow")
        ELSE IF current \notin I64 THEN Refused("not_integer")
        ELSE IF ~Checked(next) THEN Refused("overflow")
        ELSE Outcome(Installs(op.key, Entry(next, ExpiresAt(old))), Integer(next))

PrepareDelete(entries, op, now) ==
    Outcome([k \in KeySet(op) |-> None],
            Integer(Cardinality({k \in KeySet(op) : observe(entries, k, now) # None})))

PrepareExists(entries, op, now) ==
    Outcome(Observed(entries, KeySet(op), now),
            Integer(Cardinality({i \in DOMAIN op.keys :
                                    observe(entries, op.keys[i], now) # None})))

PrepareMultiGet(entries, op, now) ==
    LET value(k) == LET old == observe(entries, k, now)
                    IN  IF old = None THEN None ELSE old.value
    IN  Outcome(Observed(entries, KeySet(op), now),
                Array([i \in DOMAIN op.keys |-> value(op.keys[i])]))

PrepareMultiSet(entries, op, now) ==
    Outcome([k \in KeySet(op) |-> Entry(LastValue(op.pairs, k), None)], Ok)

PrepareExpire(entries, op, now) ==
    LET old == observe(entries, op.key, now)
    IN  IF old = None
        THEN Outcome(Observed(entries, {op.key}, now), Integer(0))
        ELSE IF op.milliseconds <= 0
        THEN Outcome(Installs(op.key, None), Integer(1))
        ELSE IF ~Checked(now + op.milliseconds)
        THEN Refused("invalid_expire")
        ELSE Outcome(Installs(op.key, Entry(old.value, now + op.milliseconds)), Integer(1))

PrepareTtl(entries, op, now) ==
    LET old == observe(entries, op.key, now)
        remaining == IF old.expires_at_ms - now > I64Max THEN I64Max
                     ELSE old.expires_at_ms - now
        ttl == IF old = None THEN -2
               ELSE IF old.expires_at_ms = None THEN -1
               ELSE IF op.milliseconds THEN remaining
               ELSE remaining \div 1000 + (IF remaining % 1000 >= 500 THEN 1 ELSE 0)
    IN  Outcome(Observed(entries, {op.key}, now), Integer(ttl))

PreparePersist(entries, op, now) ==
    LET old == observe(entries, op.key, now)
    IN  IF old # None /\ old.expires_at_ms # None
        THEN Outcome(Installs(op.key, Entry(old.value, None)), Integer(1))
        ELSE Outcome(Observed(entries, {op.key}, now), Integer(0))

\* The match of Shard::prepare.
Command(entries, op, now) ==
    CASE op.type = "get"       -> PrepareGet(entries, op, now)
      [] op.type = "set"       -> PrepareSet(entries, op, now)
      [] op.type = "increment" -> PrepareIncrement(entries, op, now)
      [] op.type = "delete"    -> PrepareDelete(entries, op, now)
      [] op.type = "exists"    -> PrepareExists(entries, op, now)
      [] op.type = "multi_get" -> PrepareMultiGet(entries, op, now)
      [] op.type = "multi_set" -> PrepareMultiSet(entries, op, now)
      [] op.type = "expire"    -> PrepareExpire(entries, op, now)
      [] op.type = "ttl"       -> PrepareTtl(entries, op, now)
      [] op.type = "persist"   -> PreparePersist(entries, op, now)

(***************************************************************************)
(* preflight: the reply limit, then the key and payload budgets, adjusted  *)
(* by the difference the effects make.                                     *)
(***************************************************************************)
EntryBytes(k, entry) == KeyLen[k] + ValueLen(entry.value)

Bytes(K, map) == SumFunction([k \in K |-> EntryBytes(k, map[k])])

Replaced(entries, effects) == DOMAIN effects \cap DOMAIN entries

Inserted(effects) == {k \in DOMAIN effects : effects[k] # None}

\* Mutant: a replaced key is counted twice.
KeysAfterTwice(sh, effects) ==
    Cardinality(DOMAIN sh.entries) + Cardinality(Inserted(effects))

\* Mutant: the budget is compared before the insertion.
KeysBefore(sh, effects) == Cardinality(DOMAIN sh.entries)

KeysAfter(sh, effects) ==
    Cardinality(DOMAIN sh.entries) - Cardinality(Replaced(sh.entries, effects))
        + Cardinality(Inserted(effects))

\* Mutant: the replaced entries stay on the account.
PayloadAdded(sh, effects) == sh.payload_bytes + Bytes(Inserted(effects), effects)

PayloadAfter(sh, effects) ==
    sh.payload_bytes - Bytes(Replaced(sh.entries, effects), sh.entries)
        + Bytes(Inserted(effects), effects)

\* A Prepared, or the error in its place (ok = FALSE).
Prepared(ok, revision, effects, payload, reply) ==
    [ok |-> ok, revision |-> revision, effects |-> effects,
     payload_after |-> payload, reply |-> reply]

Failed(sh, reply) == Prepared(FALSE, sh.revision, EmptyMap, sh.payload_bytes, reply)

OverBudget(sh, effects, limits) ==
    \/ KeysAfter(sh, effects) > limits.max_keys
    \/ PayloadAfter(sh, effects) > limits.max_payload_bytes

preflight(sh, effects, reply, limits) ==
    IF encoded_len(reply) > limits.max_reply_bytes THEN Failed(sh, Error("reply_limit"))
    ELSE IF OverBudget(sh, effects, limits) THEN Failed(sh, Error("oom"))
    ELSE Prepared(TRUE, sh.revision, effects, PayloadAfter(sh, effects), reply)

prepare(sh, op, now, limits) ==
    LET outcome == Command(sh.entries, op, now)
    IN  IF outcome.ok THEN preflight(sh, outcome.effects, outcome.reply, limits)
        ELSE Failed(sh, outcome.reply)

(***************************************************************************)
(* apply installs the effects in the table and in the expiration index.    *)
(***************************************************************************)
Install(entries, effects) ==
    [k \in (DOMAIN entries \ DOMAIN effects) \cup Inserted(effects) |->
        IF k \in DOMAIN effects THEN effects[k] ELSE entries[k]]

Expiring(effects) == {k \in Inserted(effects) : effects[k].expires_at_ms # None}

\* Mutant: a key that stops expiring keeps its timer.
AddTimers(timers, effects) ==
    [k \in DOMAIN timers \cup Expiring(effects) |->
        IF k \in Expiring(effects) THEN effects[k].expires_at_ms ELSE timers[k]]

InstallTimers(timers, effects) ==
    [k \in (DOMAIN timers \ DOMAIN effects) \cup Expiring(effects) |->
        IF k \in DOMAIN effects THEN effects[k].expires_at_ms ELSE timers[k]]

apply(sh, p) ==
    [sh EXCEPT !.entries = Install(@, p.effects),
               !.timers = InstallTimers(@, p.effects),
               !.payload_bytes = p.payload_after,
               !.revision = @ + 1,
               !.applied_commands = @ + 1]

(***************************************************************************)
(* expire_due removes the due timers, earliest deadline first, until the   *)
(* budget is spent.  Ties may go either way: ExpirySets holds every choice.*)
(***************************************************************************)
\* Mutant: the deadline is not compared with the clock.
AnyTimers(timers, now) == DOMAIN timers

DueTimers(timers, now) == {k \in DOMAIN timers : timers[k] <= now}

ExpirySets(timers, now, budget) ==
    {S \in SUBSET DueTimers(timers, now) :
        /\ Cardinality(S) = Min({budget, Cardinality(DueTimers(timers, now))})
        /\ \A k \in S, x \in DueTimers(timers, now) \ S : timers[k] <= timers[x]}

\* Mutant: expiration does not move the revision.
expireSilently(sh, S) ==
    [sh EXCEPT !.entries = [k \in DOMAIN @ \ S |-> @[k]],
               !.timers = [k \in DOMAIN @ \ S |-> @[k]],
               !.payload_bytes = @ - Bytes(S, sh.entries)]

\* With nothing due the loop ends before its body.
expire(sh, S) ==
    IF S = {} THEN sh ELSE
    [sh EXCEPT !.entries = [k \in DOMAIN @ \ S |-> @[k]],
               !.timers = [k \in DOMAIN @ \ S |-> @[k]],
               !.payload_bytes = @ - Bytes(S, sh.entries),
               !.revision = @ + Cardinality(S),
               !.expired_keys = @ + Cardinality(S)]

(***************************************************************************)
(* Facts a shard keeps between calls, stated as predicates of one shard so *)
(* that the modules that hold shards can use them.                         *)
(***************************************************************************)
\* The index holds exactly the keys that expire, with the table's deadline.
TimersAgree(sh) ==
    /\ DOMAIN sh.timers = {k \in DOMAIN sh.entries : sh.entries[k].expires_at_ms # None}
    /\ \A k \in DOMAIN sh.timers : sh.timers[k] = sh.entries[k].expires_at_ms

\* The running payload total is the sum over the table.
PayloadAgrees(sh) == sh.payload_bytes = Bytes(DOMAIN sh.entries, sh.entries)
=============================================================================
