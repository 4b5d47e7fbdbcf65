---------------------------- MODULE ShardProofs ----------------------------
(***************************************************************************)
(* Theorems about one shard and its caller, for every set of keys,         *)
(* operations and instants and every valid limits.                         *)
(***************************************************************************)
EXTENDS Shard, StoreProofs

(***************************************************************************)
(* The inductive invariant.  TypeOK alone says nothing of what the held    *)
(* preparation was computed from; RevisionGuardsPrepared ties it to the    *)
(* present table, and is inductive only because a preparation is never     *)
(* ahead of the shard and every change of the table moves the revision.    *)
(* PayloadExact needs it in turn: the account that a held preparation      *)
(* carries is right only for the table it was computed from.               *)
(***************************************************************************)
\* A preparation is never ahead of its shard.
HeldNotAhead == held # None => held.prepared.revision <= shard.revision

IInv ==
    /\ DOMAIN shard = ShardFields
    /\ TypeOK
    /\ TimersMatchEntries
    /\ PayloadExact
    /\ WithinKeyBudget
    /\ HeldNotAhead
    /\ RevisionGuardsPrepared

\* The invariant holds in an empty shard.
LEMMA InitIInv == Init => IInv
<1> SUFFICES ASSUME Init PROVE IInv
  OBVIOUS
<1>1. shard = NewShard /\ held = None
  BY DEF Init
<1>2. TableOK(shard.entries) /\ DOMAIN shard.entries = {}
  BY <1>1, FS_EmptySet DEF NewShard, EmptyMap, TableOK
<1>3. TypeOK
  BY <1>1, <1>2 DEF TypeOK, NewShard, EmptyMap, TableOK
<1>4. TimersMatchEntries
  BY <1>1 DEF TimersMatchEntries, TimersAgree, NewShard, EmptyMap
<1>5. WithinKeyBudget
  BY <1>2, FS_EmptySet, ShardAssumption DEF WithinKeyBudget, ValidLimits
<1>6. DOMAIN shard = ShardFields
  BY <1>1 DEF NewShard, ShardFields
<1>7. PayloadExact
  <2>1. shard.payload_bytes = 0 /\ DOMAIN shard.entries = {}
    BY <1>1 DEF NewShard, EmptyMap
  <2>2. Bytes({}, shard.entries) = 0
    BY BytesIs, SumEmpty
  <2>3. QED
    BY <2>1, <2>2, ShardAssumption DEF PayloadExact, PayloadAgrees, ValidLimits
<1> QED
  BY <1>1, <1>3, <1>4, <1>5, <1>6, <1>7 DEF IInv, HeldNotAhead, RevisionGuardsPrepared

\* What one application leaves, whether from execute or from a held Prepared.
LEMMA ApplyStep ==
    ASSUME IInv, NEW op \in Ops, NEW now \in Times,
           prepare(shard, op, now, Limits).ok,
           shard' = apply(shard, prepare(shard, op, now, Limits)),
           held' = None \/ held' = held
    PROVE  IInv'
<1> DEFINE p == prepare(shard, op, now, Limits)
<1>1. /\ TableOK(shard.entries) /\ TimersAgree(shard) /\ DOMAIN shard = ShardFields
      /\ PayloadAgrees(shard)
  BY DEF IInv, TypeOK, TableOK, TimersMatchEntries, PayloadExact
<1>2. op \in Operations /\ now \in I64
  BY ShardAssumption
<1>3. /\ EffectsOK(p.effects) /\ ~OverBudget(shard, p.effects, Limits)
      /\ p.payload_after = PayloadAfter(shard, p.effects)
  BY <1>1, <1>2, PrepareResult
<1> HIDE DEF p
<1>4. /\ DOMAIN shard' = ShardFields
      /\ shard'.entries = Install(shard.entries, p.effects)
      /\ shard'.revision = shard.revision + 1
      /\ shard'.applied_commands = shard.applied_commands + 1
      /\ shard'.expired_keys = shard.expired_keys
      /\ TableOK(shard'.entries)
      /\ TimersAgree(shard')
  <2>1. shard' = apply(shard, p)
    BY DEF p
  <2> QED
    BY <1>1, <1>3, <2>1, ApplyResult
<1>5. TypeOK'
  <2>1. DOMAIN shard'.timers \subseteq Keys
    BY <1>4 DEF TimersAgree, TableOK
  <2> QED
    BY <1>4, <2>1 DEF IInv, TypeOK, TableOK
<1>6. WithinKeyBudget'
  <2>1. Limits.max_keys \in Nat
    BY ShardAssumption DEF ValidLimits
  <2> QED
    BY <1>1, <1>3, <1>4, <2>1, KeysAfterExact DEF WithinKeyBudget, OverBudget
<1>7. HeldNotAhead' /\ RevisionGuardsPrepared'
  BY <1>4 DEF IInv, TypeOK, HeldNotAhead, RevisionGuardsPrepared
<1>8. PayloadExact'
  <2>1. Limits.max_payload_bytes \in Nat
    BY ShardAssumption DEF ValidLimits
  <2>2. shard' = apply(shard, p)
    BY DEF p
  <2>3. /\ PayloadAgrees(shard') /\ shard'.payload_bytes = PayloadAfter(shard, p.effects)
        /\ PayloadAfter(shard, p.effects) \in Nat
    BY <1>1, <1>3, <2>2, ApplyPayload
  <2>4. QED
    BY <1>3, <2>1, <2>3 DEF PayloadExact, PayloadAgrees, OverBudget
<1> QED
  BY <1>4, <1>5, <1>6, <1>7, <1>8 DEF IInv, TimersMatchEntries

\* Every call of the store keeps it.
LEMMA NextIInv == IInv /\ [Next]_vars => IInv'
<1> SUFFICES ASSUME IInv, [Next]_vars PROVE IInv'
  OBVIOUS
<1>0. /\ TableOK(shard.entries) /\ TimersAgree(shard) /\ DOMAIN shard = ShardFields
      /\ shard.revision \in Nat
  BY DEF IInv, TypeOK, TableOK, TimersMatchEntries
<1>1. ASSUME NEW op \in Ops, NEW now \in Times, Execute(op, now) PROVE IInv'
  <2>1. CASE prepare(shard, op, now, Limits).ok
    BY <1>1, <2>1, ApplyStep DEF Execute
  <2>2. CASE ~prepare(shard, op, now, Limits).ok
    <3>1. shard' = shard /\ held' = held
      BY <1>1, <2>2 DEF Execute
    <3> QED
      BY <3>1 DEF IInv, TypeOK, TimersMatchEntries, TimersAgree, WithinKeyBudget, PayloadExact, PayloadAgrees,
                  HeldNotAhead, RevisionGuardsPrepared
  <2> QED
    BY <2>1, <2>2
<1>2. ASSUME NEW op \in Ops, NEW now \in Times, Prepare(op, now) PROVE IInv'
  <2> DEFINE p == prepare(shard, op, now, Limits)
  <2>1. shard' = shard /\ held' = IF p.ok THEN [prepared |-> p, op |-> op, now |-> now] ELSE None
    BY <1>2 DEF Prepare
  <2>2. CASE p.ok
    <3>1. op \in Operations /\ now \in I64
      BY ShardAssumption
    <3>2. p.revision = shard.revision /\ EffectsOK(p.effects)
      BY <1>0, <2>2, <3>1, PrepareResult
    <3>3. p = prepare(shard', op, now, Limits)
      BY <2>1
    <3> HIDE DEF p
    <3>4. held' = [prepared |-> p, op |-> op, now |-> now]
      BY <2>1, <2>2
    <3>5. held'.prepared = p /\ held'.op = op /\ held'.now = now
      BY <3>4
    <3>6. TypeOK'
      BY <1>0, <2>1, <2>2, <3>2, <3>5 DEF IInv, TypeOK, EffectsOK
    <3>7. HeldNotAhead' /\ RevisionGuardsPrepared'
      BY <1>0, <2>1, <3>2, <3>3, <3>5 DEF HeldNotAhead, RevisionGuardsPrepared
    <3> QED
      BY <2>1, <3>6, <3>7 DEF IInv, TimersMatchEntries, WithinKeyBudget, PayloadExact
  <2>3. CASE ~p.ok
    <3>1. shard' = shard /\ held' = None
      BY <2>1, <2>3
    <3> QED
      BY <3>1 DEF IInv, TypeOK, TimersMatchEntries, TimersAgree, WithinKeyBudget, PayloadExact, PayloadAgrees,
                  HeldNotAhead, RevisionGuardsPrepared
  <2> QED
    BY <2>2, <2>3
<1>3. ASSUME Apply PROVE IInv'
  <2>1. /\ held # None /\ held.prepared.revision = shard.revision
        /\ shard' = apply(shard, held.prepared) /\ held' = None
    BY <1>3 DEF Apply
  <2>2. /\ held.prepared = prepare(shard, held.op, held.now, Limits)
        /\ held.prepared.ok /\ held.op \in Ops /\ held.now \in Times
    BY <2>1 DEF IInv, RevisionGuardsPrepared, TypeOK
  <2> QED
    BY <2>1, <2>2, ApplyStep
<1>4. ASSUME Drop PROVE IInv'
  BY <1>4 DEF Drop, IInv, TypeOK, TimersMatchEntries, TimersAgree, WithinKeyBudget, PayloadExact, PayloadAgrees,
              HeldNotAhead, RevisionGuardsPrepared
<1>5. ASSUME NEW now \in Times, ExpireDue(now) PROVE IInv'
  <2>1. PICK S \in ExpirySets(shard.timers, now, ExpiryBatch) : shard' = expire(shard, S)
    BY <1>5 DEF ExpireDue
  <2>2. held' = held
    BY <1>5 DEF ExpireDue
  <2>3. CASE S = {}
    <3>1. shard' = shard
      BY <2>1, <2>3 DEF expire
    <3> QED
      BY <2>2, <3>1 DEF IInv, TypeOK, TimersMatchEntries, TimersAgree, WithinKeyBudget, PayloadExact, PayloadAgrees,
                        HeldNotAhead, RevisionGuardsPrepared
  <2>4. CASE S # {}
    <3>1. /\ DOMAIN shard' = ShardFields
          /\ Cardinality(S) \in Nat /\ Cardinality(S) > 0
          /\ shard'.revision = shard.revision + Cardinality(S)
          /\ shard'.expired_keys = shard.expired_keys + Cardinality(S)
          /\ shard'.applied_commands = shard.applied_commands
          /\ DOMAIN shard'.entries \in SUBSET DOMAIN shard.entries
          /\ TableOK(shard'.entries)
          /\ TimersAgree(shard')
      <4>1. S \in SUBSET DueTimers(shard.timers, now)
        BY DEF ExpirySets
      <4>2. QED
        BY <1>0, <2>1, <2>4, <4>1, ExpireResult
    <3>2. TypeOK'
      BY <2>2, <3>1 DEF IInv, TypeOK, TableOK, TimersAgree
    <3>3. WithinKeyBudget'
      <4>1. /\ Cardinality(DOMAIN shard'.entries) <= Cardinality(DOMAIN shard.entries)
            /\ Cardinality(DOMAIN shard'.entries) \in Nat
            /\ Cardinality(DOMAIN shard.entries) \in Nat
        BY <1>0, <3>1, FS_Subset, FS_CardinalityType DEF TableOK
      <4>2. Limits.max_keys \in Nat
        BY ShardAssumption DEF ValidLimits
      <4> QED
        BY <4>1, <4>2 DEF IInv, WithinKeyBudget
    <3>4. HeldNotAhead' /\ RevisionGuardsPrepared'
      BY <1>0, <2>2, <3>1 DEF IInv, TypeOK, HeldNotAhead, RevisionGuardsPrepared
    <3>5. PayloadExact'
      <4>1. S \in SUBSET DOMAIN shard.entries
        BY <1>0 DEF ExpirySets, DueTimers, TimersAgree
      <4>2. Limits.max_payload_bytes \in Nat
        BY ShardAssumption DEF ValidLimits
      <4>3. /\ PayloadAgrees(shard') /\ shard'.payload_bytes <= shard.payload_bytes
            /\ shard'.payload_bytes \in Nat /\ shard.payload_bytes \in Nat
        BY <1>0, <2>1, <2>4, <4>1, ExpirePayload DEF IInv, PayloadExact
      <4>4. shard.payload_bytes <= Limits.max_payload_bytes
        BY DEF IInv, PayloadExact
      <4>5. QED
        BY <4>2, <4>3, <4>4 DEF PayloadExact, PayloadAgrees
    <3> QED
      BY <3>1, <3>2, <3>3, <3>4, <3>5 DEF IInv, TimersMatchEntries
  <2> QED
    BY <2>3, <2>4
<1>6. CASE UNCHANGED vars
  BY <1>6 DEF vars, IInv, TypeOK, TimersMatchEntries, TimersAgree, WithinKeyBudget, PayloadExact, PayloadAgrees,
              HeldNotAhead, RevisionGuardsPrepared
<1> QED
  BY <1>1, <1>2, <1>3, <1>4, <1>5, <1>6 DEF Next

\* The invariant holds throughout every behaviour of a shard.
THEOREM ShardInvariant == Spec => []IInv
  BY InitIInv, NextIInv, PTL DEF Spec

\* The shard and the preparation held against it keep their types.
THEOREM ShardTypeOK == Spec => []TypeOK
<1>1. IInv => TypeOK
  BY DEF IInv
<1> QED
  BY <1>1, ShardInvariant, PTL

\* The expiration index always holds exactly the expiring keys of the table,
\* with their deadlines, so expire_due's expect and assert never fail.
THEOREM ShardTimersMatchEntries == Spec => []TimersMatchEntries
<1>1. IInv => TimersMatchEntries
  BY DEF IInv
<1> QED
  BY <1>1, ShardInvariant, PTL

\* The table never exceeds max_keys.
THEOREM ShardWithinKeyBudget == Spec => []WithinKeyBudget
<1>1. IInv => WithinKeyBudget
  BY DEF IInv
<1> QED
  BY <1>1, ShardInvariant, PTL

\* A preparation whose revision is still the shard's is the one prepare would
\* compute now: apply's revision assertion is a sufficient staleness test.
THEOREM ShardRevisionGuardsPrepared == Spec => []RevisionGuardsPrepared
<1>1. IInv => RevisionGuardsPrepared
  BY DEF IInv
<1> QED
  BY <1>1, ShardInvariant, PTL

\* payload_bytes, only ever adjusted by differences, is the sum over the table and
\* within its budget.
THEOREM ShardPayloadExact == Spec => []PayloadExact
<1>1. IInv => PayloadExact
  BY DEF IInv
<1> QED
  BY <1>1, ShardInvariant, PTL

\* At every reachable shard, every command answers and changes the live keys as
\* the reference meaning says, or fails for the reference's reason, for want of
\* memory or for want of reply space: the ten arms of Shard::prepare with preflight
\* and apply mean what one command does to one table of live keys.
THEOREM ShardCommandsMeanTheReference == Spec => []CommandsMeanTheReference
<1>1. IInv => CommandsMeanTheReference
  <2> SUFFICES ASSUME IInv, NEW op \in Ops, NEW now \in Times
               PROVE  LET p == prepare(shard, op, now, Limits)
                          view == View(shard.entries, now)
                          refusal == Refusal(op, now, view)
                      IN  IF p.ok
                          THEN /\ refusal = None
                               /\ p.reply = NewReply(op, now, view)
                               /\ View(apply(shard, p).entries, now) = NewView(op, now, view)
                          ELSE \/ p.reply = Error(refusal)
                               \/ refusal = None /\ p.reply \in {Error("oom"), Error("reply_limit")}
    BY DEF CommandsMeanTheReference
  <2> DEFINE outcome == Command(shard.entries, op, now)
             p == prepare(shard, op, now, Limits)
  <2>1. TableOK(shard.entries) /\ DOMAIN shard = ShardFields
    BY DEF IInv, TypeOK, TableOK
  <2>2. Means(shard.entries, op, now)
    BY <2>1, ShardAssumption, CommandMeans
  <2>3. CASE ~outcome.ok
    BY <2>2, <2>3 DEF prepare, Failed, Prepared, Means
  <2>4. CASE outcome.ok
    <3>1. /\ Refusal(op, now, View(shard.entries, now)) = None
          /\ outcome.reply = NewReply(op, now, View(shard.entries, now))
          /\ View(Install(shard.entries, outcome.effects), now)
               = NewView(op, now, View(shard.entries, now))
      BY <2>2, <2>4 DEF Means
    <3>2. p = preflight(shard, outcome.effects, outcome.reply, Limits)
      BY <2>4 DEF prepare
    <3> HIDE DEF outcome, p
    <3>3. IF p.ok THEN p.effects = outcome.effects /\ p.reply = outcome.reply
          ELSE p.reply \in {Error("oom"), Error("reply_limit")}
      BY <3>2 DEF preflight, Failed, Prepared
    <3>4. apply(shard, p).entries = Install(shard.entries, p.effects)
      BY <2>1 DEF apply, ShardFields
    <3>5. QED
      BY <3>1, <3>3, <3>4 DEF p
  <2>5. QED
    BY <2>3, <2>4
<1>2. QED
  BY <1>1, ShardInvariant, PTL

\* preflight refuses for memory exactly when the table the command would leave
\* exceeds a budget, although it only looks at what the effects change.
THEOREM ShardOomExact == Spec => []OomExact
<1>1. IInv => OomExact
  <2> SUFFICES ASSUME IInv, NEW op \in Ops, NEW now \in Times,
                      Command(shard.entries, op, now).ok,
                      encoded_len(Command(shard.entries, op, now).reply) <= Limits.max_reply_bytes
               PROVE  LET outcome == Command(shard.entries, op, now)
                          table == Install(shard.entries, outcome.effects)
                      IN  (prepare(shard, op, now, Limits).reply = Error("oom")) <=>
                             \/ Cardinality(DOMAIN table) > Limits.max_keys
                             \/ Bytes(DOMAIN table, table) > Limits.max_payload_bytes
    BY DEF OomExact
  <2> DEFINE outcome == Command(shard.entries, op, now)
             table == Install(shard.entries, outcome.effects)
  <2>1. TableOK(shard.entries) /\ PayloadAgrees(shard)
    BY DEF IInv, TypeOK, TableOK, PayloadExact
  <2>2. op \in Operations /\ now \in I64 /\ Limits.max_reply_bytes \in Nat
    BY ShardAssumption DEF ValidLimits
  <2>3. EffectsOK(outcome.effects)
    BY <2>1, <2>2, CommandEffects
  <2>4. encoded_len(outcome.reply) \in Nat /\ outcome.reply # Error("oom")
    BY <2>1, <2>2, ReplyType, ReplyLength
  <2>5. prepare(shard, op, now, Limits)
          = preflight(shard, outcome.effects, outcome.reply, Limits)
    BY DEF prepare
  <2>6. encoded_len(outcome.reply) <= Limits.max_reply_bytes
    OBVIOUS
  <2> HIDE DEF outcome
  <2>7. (prepare(shard, op, now, Limits).reply = Error("oom"))
          <=> OverBudget(shard, outcome.effects, Limits)
    <3>1. ~(encoded_len(outcome.reply) > Limits.max_reply_bytes)
      BY <2>2, <2>4, <2>6
    <3>2. prepare(shard, op, now, Limits) =
            IF OverBudget(shard, outcome.effects, Limits) THEN Failed(shard, Error("oom"))
            ELSE Prepared(TRUE, shard.revision, outcome.effects,
                          PayloadAfter(shard, outcome.effects), outcome.reply)
      BY <2>5, <3>1 DEF preflight
    <3>3. QED
      BY <2>4, <3>2 DEF Failed, Prepared
  <2>8. /\ Cardinality(DOMAIN table) = KeysAfter(shard, outcome.effects)
        /\ Bytes(DOMAIN table, table) = PayloadAfter(shard, outcome.effects)
    BY <2>1, <2>3, KeysAfterExact, PayloadAfterExact
  <2>9. QED
    BY <2>7, <2>8 DEF OverBudget, outcome
<1>2. QED
  BY <1>1, ShardInvariant, PTL

\* Background expiration removes only keys that no client can see at that instant.
THEOREM ShardExpirationIsInvisible == Spec => ExpirationIsInvisible
<1>1. IInv /\ [Next]_vars =>
        [\A now \in Times : ExpireDue(now) =>
            View(shard'.entries, now) = View(shard.entries, now)]_vars
  <2> SUFFICES ASSUME IInv, NEW now \in Times, ExpireDue(now)
               PROVE  View(shard'.entries, now) = View(shard.entries, now)
    OBVIOUS
  <2>1. PICK S \in ExpirySets(shard.timers, now, ExpiryBatch) : shard' = expire(shard, S)
    BY DEF ExpireDue
  <2>2. S \in SUBSET DueTimers(shard.timers, now)
    BY DEF ExpirySets
  <2>3. TimersAgree(shard) /\ DOMAIN shard = ShardFields
    BY DEF IInv, TimersMatchEntries
  <2>4. \A k \in S : k \in DOMAIN shard.entries /\ Due(shard.entries[k], now)
    BY <2>2, <2>3 DEF TimersAgree, DueTimers, Due
  <2>5. shard'.entries = [k \in DOMAIN shard.entries \ S |-> shard.entries[k]]
        \/ shard'.entries = shard.entries
    BY <2>1, <2>3 DEF expire, ShardFields
  <2>6. QED
    BY <2>4, <2>5 DEF View
<1>2. QED
  BY <1>1, ShardInvariant, PTL DEF Spec, ExpirationIsInvisible
=============================================================================
