---------------------------- MODULE StoreProofs ----------------------------
(***************************************************************************)
(* What prepare, apply and expire do to any shard, for every set of keys,  *)
(* every operation, instant and limits.  ShardProofs and EngineProofs rest *)
(* on these lemmas.                                                        *)
(***************************************************************************)
EXTENDS Store, SumTheorems

(***************************************************************************)
(* Lengths.  decimal_digits is a recursive function on Nat; that it is     *)
(* well defined, and a natural number, goes by a smallest counterexample.  *)
(***************************************************************************)
\* g satisfies the equation of decimal_digits up to n.
DigitsTo(n, g) == g = [i \in 0 .. n |-> IF i < 10 THEN 1 ELSE 1 + g[i \div 10]]

\* The quotient by ten of a number of more than one digit is smaller.
LEMMA TenthSmaller ==
    ASSUME NEW n \in Nat, ~(n < 10)
    PROVE  n \div 10 \in Nat /\ n \div 10 < n
  OBVIOUS

\* Two tables of decimal lengths agree wherever both are defined.
LEMMA DigitsUnique ==
    ASSUME NEW n \in Nat, NEW m \in Nat, NEW g, NEW h, DigitsTo(n, g), DigitsTo(m, h),
           NEW i \in Nat, i <= n, i <= m
    PROVE  g[i] = h[i]
<1> DEFINE Bad == {j \in Nat : j <= n /\ j <= m /\ g[j] # h[j]}
<1>1. SUFFICES ASSUME Bad # {} PROVE FALSE
  OBVIOUS
<1>2. PICK j \in Bad : \A k \in Bad : j <= k
  BY <1>1, LeastNatural
<1>3. /\ g[j] = IF j < 10 THEN 1 ELSE 1 + g[j \div 10]
      /\ h[j] = IF j < 10 THEN 1 ELSE 1 + h[j \div 10]
  BY DEF DigitsTo
<1>4. ~(j < 10)
  BY <1>2, <1>3
<1>5. j \div 10 \in Nat /\ j \div 10 < j
  BY <1>4, TenthSmaller
<1>6. g[j \div 10] = h[j \div 10]
  BY <1>2, <1>5
<1>7. QED
  BY <1>2, <1>3, <1>4, <1>6

\* There is a table up to every number.
LEMMA DigitsExist ==
    ASSUME NEW n \in Nat
    PROVE  \E g : DigitsTo(n, g)
<1> DEFINE Bad == {j \in Nat : ~\E g : DigitsTo(j, g)}
<1>1. SUFFICES ASSUME Bad # {} PROVE FALSE
  OBVIOUS
<1>2. PICK j \in Bad : \A k \in Bad : j <= k
  BY <1>1, LeastNatural
<1>3. CASE j = 0
  <2> DEFINE g == [i \in 0 .. 0 |-> 1]
  <2>1. DigitsTo(0, g)
    BY DEF DigitsTo
  <2>2. QED
    BY <1>2, <1>3, <2>1
<1>4. CASE j # 0
  <2>1. j - 1 \in Nat /\ ~(j <= j - 1)
    BY <1>4
  <2>2. PICK g : DigitsTo(j - 1, g)
    BY <1>2, <2>1
  <2> DEFINE step(i) == IF i < 10 THEN 1 ELSE 1 + g[i \div 10]
             h == [i \in 0 .. j |-> IF i = j THEN step(j) ELSE g[i]]
  <2>3. ASSUME NEW i \in 0 .. j
        PROVE  h[i] = IF i < 10 THEN 1 ELSE 1 + h[i \div 10]
    <3>1. h[i] = step(i)
      BY <2>1, <2>2 DEF DigitsTo
    <3>2. CASE i < 10
      BY <3>1, <3>2
    <3>3. CASE ~(i < 10)
      <4>1. i \div 10 \in Nat /\ i \div 10 < i
        BY <3>3, TenthSmaller
      <4>2. h[i \div 10] = g[i \div 10]
        BY <4>1
      <4>3. QED
        BY <3>1, <3>3, <4>2
    <3>4. QED
      BY <3>2, <3>3
  <2>4. DigitsTo(j, h)
    <3>1. h = [i \in 0 .. j |-> h[i]]
      OBVIOUS
    <3> HIDE DEF h
    <3>2. QED
      BY <2>3, <3>1 DEF DigitsTo
  <2>5. QED
    BY <1>2, <2>4
<1>5. QED
  BY <1>3, <1>4

\* The equation that defines decimal_digits holds.
LEMMA DigitsDefined ==
    \A n \in Nat : decimal_digits[n] = IF n < 10 THEN 1 ELSE 1 + decimal_digits[n \div 10]
<1> DEFINE upto(n) == CHOOSE g : DigitsTo(n, g)
           d == [n \in Nat |-> upto(n)[n]]
<1>1. \A n \in Nat : DigitsTo(n, upto(n))
  BY DigitsExist
<1>2. ASSUME NEW n \in Nat
      PROVE  d[n] = IF n < 10 THEN 1 ELSE 1 + d[n \div 10]
  <2> HIDE DEF upto
  <2>1. upto(n)[n] = IF n < 10 THEN 1 ELSE 1 + upto(n)[n \div 10]
    BY <1>1 DEF DigitsTo
  <2>2. CASE n < 10
    BY <2>1, <2>2
  <2>3. CASE ~(n < 10)
    <3>1. n \div 10 \in Nat /\ n \div 10 < n
      BY <2>3, TenthSmaller
    <3>2. ASSUME NEW m \in Nat, m < n
          PROVE  upto(n)[m] = upto(m)[m]
      BY <1>1, <3>2, DigitsUnique
    <3>3. upto(n)[n \div 10] = d[n \div 10]
      BY <3>1, <3>2
    <3>4. QED
      BY <2>1, <2>3, <3>3
  <2>4. QED
    BY <2>2, <2>3
<1>3. d = [n \in Nat |-> IF n < 10 THEN 1 ELSE 1 + d[n \div 10]]
  <2>1. d = [n \in Nat |-> d[n]]
    OBVIOUS
  <2> HIDE DEF d
  <2>2. QED
    BY <1>2, <2>1
<1> HIDE DEF d
<1> DEFINE solves(f) == f = [n \in Nat |-> IF n < 10 THEN 1 ELSE 1 + f[n \div 10]]
<1>4. decimal_digits = CHOOSE f : solves(f)
  BY DEF decimal_digits
<1>5. solves(decimal_digits)
  BY <1>3, <1>4
<1>6. QED
  BY <1>5

\* A number has at least one digit.
LEMMA DigitsType ==
    ASSUME NEW n \in Nat
    PROVE  decimal_digits[n] \in Nat /\ decimal_digits[n] >= 1
<1> DEFINE Bad == {j \in Nat : ~(decimal_digits[j] \in Nat /\ decimal_digits[j] >= 1)}
<1>1. SUFFICES ASSUME Bad # {} PROVE FALSE
  OBVIOUS
<1>2. PICK j \in Bad : \A k \in Bad : j <= k
  BY <1>1, LeastNatural
<1>3. CASE j < 10
  BY <1>2, <1>3, DigitsDefined
<1>4. CASE ~(j < 10)
  <2>1. j \div 10 \in Nat /\ j \div 10 < j
    BY <1>4, TenthSmaller
  <2>2. decimal_digits[j \div 10] \in Nat
    BY <1>2, <2>1
  <2>3. decimal_digits[j] = 1 + decimal_digits[j \div 10]
    BY <1>4, DigitsDefined
  <2>4. QED
    BY <1>2, <2>2, <2>3
<1>5. QED
  BY <1>3, <1>4

\* The length of a printed integer.
LEMMA DecimalLenType ==
    ASSUME NEW n \in Int
    PROVE  DecimalLen(n) \in Nat
<1>1. (IF n < 0 THEN -n ELSE n) \in Nat
  OBVIOUS
<1>2. QED
  BY <1>1, DigitsType DEF DecimalLen, Negative

\* The length of a value, and of its bulk string.
LEMMA ValueLenType ==
    ASSUME NEW v \in Values
    PROVE  ValueLen(v) \in Nat
<1>1. CASE v \in Texts
  BY <1>1, CommandsAssumption DEF ValueLen
<1>2. CASE v \notin Texts
  <2>1. v \in Int
    BY <1>2, CommandsAssumption DEF Values, I64, I64Min
  <2>2. QED
    BY <1>2, <2>1, DecimalLenType DEF ValueLen
<1>3. QED
  BY <1>1, <1>2

\* The length of a bulk reply.
LEMMA BulkLenType ==
    ASSUME NEW v \in Values \cup {None}
    PROVE  BulkLen(v) \in Nat
<1>1. CASE v = None
  BY <1>1 DEF BulkLen
<1>2. CASE v # None
  <2>1. ValueLen(v) \in Nat
    BY <1>2, ValueLenType
  <2>2. decimal_digits[ValueLen(v)] \in Nat
    BY <2>1, DigitsType
  <2>3. QED
    BY <1>2, <2>1, <2>2 DEF BulkLen
<1>3. QED
  BY <1>1, <1>2

(***************************************************************************)
(* Effects: what every command hands to preflight.                         *)
(***************************************************************************)
EffectsOK(effects) ==
    /\ DOMAIN effects \subseteq Keys
    /\ IsFiniteSet(DOMAIN effects)
    /\ \A k \in Inserted(effects) : effects[k] \in Entries

TableOK(entries) ==
    /\ DOMAIN entries \subseteq Keys
    /\ IsFiniteSet(DOMAIN entries)
    /\ \A k \in DOMAIN entries : entries[k] \in Entries

\* A nonempty set of positions of a sequence has a greatest element, so the
\* last pair that names a key exists.
LEMMA GreatestPosition ==
    ASSUME NEW n \in Nat, NEW S \in SUBSET (1 .. n), S # {}
    PROVE  Max(S) \in S
<1> DEFINE T == {n - i : i \in S}
<1>1. T \in SUBSET Nat /\ T # {}
  <2>1. \A i \in S : n - i \in Nat
    OBVIOUS
  <2>2. T # {}
    OBVIOUS
  <2> QED
    BY <2>1, <2>2
<1>2. PICK t \in T : \A u \in T : t <= u
  BY <1>1, LeastNatural
<1>3. PICK i \in S : t = n - i
  OBVIOUS
<1>4. \A j \in S : i >= j
  BY <1>2, <1>3
<1> QED
  BY <1>4 DEF Max

\* Operation::keys names keys.
LEMMA OperationKeysType ==
    ASSUME NEW op \in Operations
    PROVE  operation_keys(op) \in Seq(Keys)
<1>1. CASE op \in KeysOperations
  BY <1>1 DEF KeysOperations, operation_keys
<1>2. CASE op \in MultiSetOperations
  BY <1>2 DEF MultiSetOperations, operation_keys
<1>3. CASE op \in KeyOperations \cup SetOperations \cup IncrementOperations
                    \cup ExpireOperations \cup TtlOperations
  <2>1. op.key \in Keys /\ op.type \notin {"delete", "exists", "multi_get", "multi_set"}
    BY <1>3 DEF KeyOperations, SetOperations, IncrementOperations, ExpireOperations,
                TtlOperations
  <2>2. QED
    BY <2>1 DEF operation_keys
<1>4. QED
  BY <1>1, <1>2, <1>3 DEF Operations

\* The keys an operation names are finitely many members of Keys.
LEMMA KeySetFinite ==
    ASSUME NEW op \in Operations
    PROVE  KeySet(op) \subseteq Keys /\ IsFiniteSet(KeySet(op))
<1> DEFINE s == operation_keys(op)
<1>1. s \in Seq(Keys)
  BY OperationKeysType
<1>2. s \in Surjection(1 .. Len(s), KeySet(op))
  BY <1>1 DEF Surjection, KeySet
<1>3. IsFiniteSet(1 .. Len(s))
  BY <1>1, FS_Interval
<1>4. IsFiniteSet(KeySet(op))
  BY <1>2, <1>3, FS_Surjection
<1> QED
  BY <1>1, <1>4 DEF KeySet

\* An operation without effects.
LEMMA EmptyEffects == EffectsOK(EmptyMap)
  BY FS_EmptySet DEF EffectsOK, EmptyMap, Inserted

\* The effects of observing keys: the expired ones go.
LEMMA ObservedEffects ==
    ASSUME NEW entries, TableOK(entries), NEW K, NEW now
    PROVE  EffectsOK(Observed(entries, K, now))
<1>1. DOMAIN Observed(entries, K, now) \in SUBSET DOMAIN entries
  BY DEF Observed
<1>2. IsFiniteSet(DOMAIN Observed(entries, K, now))
  BY <1>1, FS_Subset DEF TableOK
<1>3. Inserted(Observed(entries, K, now)) = {}
  BY DEF Observed, Inserted
<1> QED
  BY <1>1, <1>2, <1>3 DEF EffectsOK, TableOK

\* The effects of writing or removing one key.
LEMMA InstalledEffects ==
    ASSUME NEW k \in Keys, NEW entry \in Entries \cup {None}
    PROVE  EffectsOK(Installs(k, entry))
<1>1. DOMAIN Installs(k, entry) = {k} /\ Installs(k, entry)[k] = entry
  BY DEF Installs
<1> QED
  BY <1>1, FS_Singleton DEF EffectsOK, Inserted

\* What observing a key returns.
LEMMA ObserveType ==
    ASSUME NEW entries, TableOK(entries), NEW k, NEW now
    PROVE  /\ observe(entries, k, now) \in Entries \cup {None}
           /\ ExpiresAt(observe(entries, k, now)) \in I64 \cup {None}
<1>1. observe(entries, k, now) \in Entries \cup {None}
  BY DEF observe, TableOK
<1> QED
  BY <1>1 DEF ExpiresAt, Entries

\* Every command's effects are finitely many well-typed installations and
\* removals of keys.
LEMMA CommandEffects ==
    ASSUME NEW entries, TableOK(entries), NEW op \in Operations, NEW now \in I64
    PROVE  EffectsOK(Command(entries, op, now).effects)
<1> DEFINE old == observe(entries, op.key, now)
<1> USE EmptyEffects, ObservedEffects
<1> USE CommandsAssumption DEF Outcome, Refused
<1>1. CASE op \in KeyOperations
  <2>1. op.key \in Keys /\ op.type \in {"get", "persist"}
    BY <1>1 DEF KeyOperations
  <2>2. CASE op.type = "get"
    BY <2>2 DEF Command, PrepareGet
  <2>3. CASE op.type = "persist"
    <3>1. ASSUME old # None PROVE Entry(old.value, None) \in Entries
      BY <3>1, ObserveType DEF Entry, Entries
    <3> QED
      BY <2>1, <2>3, <3>1, InstalledEffects DEF Command, PreparePersist
  <2> QED
    BY <2>1, <2>2, <2>3
<1>2. CASE op \in SetOperations
  <2>1. /\ op.type = "set" /\ op.key \in Keys /\ op.value \in Values
        /\ op.expiry \in {"clear", "keep", "after"} /\ op.milliseconds \in I64
    BY <1>2 DEF SetOperations, Expiries
  <2> DEFINE deadline == CASE op.expiry = "clear" -> None
                           [] op.expiry = "keep"  -> ExpiresAt(old)
                           [] op.expiry = "after" -> now + op.milliseconds
             tooFar == op.expiry = "after" /\ (op.milliseconds <= 0
                                                \/ ~Checked(now + op.milliseconds))
  <2>2. ASSUME ~tooFar PROVE deadline \in I64 \cup {None}
    <3>1. CASE op.expiry = "after"
      BY <2>1, <2>2, <3>1 DEF Checked
    <3> QED
      BY <2>1, <3>1, ObserveType
  <2>3. ASSUME ~tooFar PROVE EffectsOK(Installs(op.key, Entry(op.value, deadline)))
    <3> HIDE DEF deadline, tooFar
    <3>1. Entry(op.value, deadline) \in Entries
      BY <2>1, <2>2, <2>3 DEF Entry, Entries
    <3> QED
      BY <2>1, <3>1, InstalledEffects
  <2>4. Command(entries, op, now) = PrepareSet(entries, op, now)
    BY <2>1 DEF Command
  <2> DEFINE denied == \/ op.condition = "if_absent" /\ old # None
                       \/ op.condition = "if_present" /\ old = None
  <2>5. CASE tooFar
    BY <2>4, <2>5 DEF PrepareSet
  <2>6. CASE ~tooFar /\ denied
    BY <2>4, <2>6 DEF PrepareSet
  <2>7. CASE ~tooFar /\ ~denied
    <3>1. PrepareSet(entries, op, now) = Outcome(Installs(op.key, Entry(op.value, deadline)), Ok)
      BY <2>7 DEF PrepareSet
    <3> HIDE DEF tooFar, denied, deadline
    <3> QED
      BY <2>3, <2>4, <2>7, <3>1
  <2> QED
    BY <2>5, <2>6, <2>7
<1>3. CASE op \in IncrementOperations
  <2>1. op.type = "increment" /\ op.key \in Keys
    BY <1>3 DEF IncrementOperations
  <2> DEFINE current == IF old = None THEN 0 ELSE old.value
             next == IF op.subtract THEN current - op.amount ELSE current + op.amount
  <2>2. ASSUME Checked(next) PROVE EffectsOK(Installs(op.key, Entry(next, ExpiresAt(old))))
    <3> HIDE DEF next
    <3>1. Entry(next, ExpiresAt(old)) \in Entries
      BY <2>2, ObserveType DEF Entry, Entries, Values, Checked
    <3> QED
      BY <2>1, <3>1, InstalledEffects
  <2>3. Command(entries, op, now) = PrepareIncrement(entries, op, now)
    BY <2>1 DEF Command
  <2> QED
    BY <2>2, <2>3 DEF PrepareIncrement
<1>4. CASE op \in ExpireOperations
  <2>1. op.type = "expire" /\ op.key \in Keys /\ op.milliseconds \in I64
    BY <1>4 DEF ExpireOperations
  <2>2. ASSUME old # None, ~(op.milliseconds <= 0), Checked(now + op.milliseconds)
        PROVE  EffectsOK(Installs(op.key, Entry(old.value, now + op.milliseconds)))
    <3>1. now + op.milliseconds \in I64
      BY <2>2 DEF Checked
    <3>2. Entry(old.value, now + op.milliseconds) \in Entries
      BY <3>1, <2>2, ObserveType DEF Entry, Entries
    <3> QED
      BY <2>1, <3>2, InstalledEffects
  <2>3. EffectsOK(Installs(op.key, None))
    BY <2>1, InstalledEffects
  <2>4. Command(entries, op, now) = PrepareExpire(entries, op, now)
    BY <2>1 DEF Command
  <2> QED
    BY <2>2, <2>3, <2>4 DEF PrepareExpire
<1>5. CASE op \in TtlOperations
  <2>1. op.type = "ttl"
    BY <1>5 DEF TtlOperations
  <2>2. Command(entries, op, now) = PrepareTtl(entries, op, now)
    BY <2>1 DEF Command
  <2> QED
    BY <2>2 DEF PrepareTtl
<1>6. CASE op \in KeysOperations
  <2>1. op.type \in {"delete", "exists", "multi_get"}
    BY <1>6 DEF KeysOperations
  <2>2. CASE op.type = "delete"
    <3>1. EffectsOK([k \in KeySet(op) |-> None])
      BY KeySetFinite DEF EffectsOK, Inserted
    <3> QED
      BY <2>2, <3>1 DEF Command, PrepareDelete
  <2>3. CASE op.type = "exists"
    BY <2>3 DEF Command, PrepareExists
  <2>4. CASE op.type = "multi_get"
    BY <2>4 DEF Command, PrepareMultiGet
  <2> QED
    BY <2>1, <2>2, <2>3, <2>4
<1>7. CASE op \in MultiSetOperations
  <2>1. op.type = "multi_set" /\ op.pairs \in Seq(Keys \X Values)
    BY <1>7 DEF MultiSetOperations
  <2>2. ASSUME NEW k \in KeySet(op) PROVE LastValue(op.pairs, k) \in Values
    <3> DEFINE P == {i \in DOMAIN op.pairs : op.pairs[i][1] = k}
    <3>1. P # {}
      BY <2>1 DEF KeySet, operation_keys
    <3>2. P \in SUBSET (1 .. Len(op.pairs)) /\ Len(op.pairs) \in Nat
      BY <2>1
    <3>3. Max(P) \in DOMAIN op.pairs
      BY <3>1, <3>2, GreatestPosition
    <3>4. LastValue(op.pairs, k) = op.pairs[Max(P)][2]
      BY DEF LastValue
    <3> HIDE DEF P
    <3>5. op.pairs[Max(P)] \in Keys \X Values
      BY <2>1, <3>3
    <3> QED
      BY <3>4, <3>5
  <2>3. EffectsOK([k \in KeySet(op) |-> Entry(LastValue(op.pairs, k), None)])
    BY <2>2, KeySetFinite DEF EffectsOK, Inserted, Entry, Entries
  <2>4. Command(entries, op, now) = PrepareMultiSet(entries, op, now)
    BY <2>1 DEF Command
  <2> QED
    BY <2>3, <2>4 DEF PrepareMultiSet
<1> QED
  BY <1>1, <1>2, <1>3, <1>4, <1>5, <1>6, <1>7 DEF Operations

(***************************************************************************)
(* prepare and apply.                                                      *)
(***************************************************************************)
ShardFields ==
    {"entries", "timers", "payload_bytes", "revision", "expired_keys", "applied_commands"}

\* A successful prepare carries the shard's revision, and effects that keep the
\* table within its budgets.
LEMMA PrepareResult ==
    ASSUME NEW sh, TableOK(sh.entries), NEW op \in Operations, NEW now \in I64, NEW limits,
           prepare(sh, op, now, limits).ok
    PROVE  LET p == prepare(sh, op, now, limits)
           IN  /\ p.revision = sh.revision
               /\ EffectsOK(p.effects)
               /\ p.payload_after = PayloadAfter(sh, p.effects)
               /\ ~OverBudget(sh, p.effects, limits)
<1> DEFINE outcome == Command(sh.entries, op, now)
<1>1. EffectsOK(outcome.effects)
  BY CommandEffects
<1> HIDE DEF outcome
<1>2. /\ outcome.ok
      /\ prepare(sh, op, now, limits) = preflight(sh, outcome.effects, outcome.reply, limits)
  BY DEF prepare, Failed, Prepared, outcome
<1>3. ~OverBudget(sh, outcome.effects, limits)
  BY <1>2 DEF preflight, Failed, Prepared
<1>4. /\ prepare(sh, op, now, limits).effects = outcome.effects
      /\ prepare(sh, op, now, limits).revision = sh.revision
      /\ prepare(sh, op, now, limits).payload_after = PayloadAfter(sh, outcome.effects)
  BY <1>2 DEF preflight, Failed, Prepared
<1> QED
  BY <1>1, <1>3, <1>4

\* KeysAfter is the size of the table apply leaves.
LEMMA KeysAfterExact ==
    ASSUME NEW sh, TableOK(sh.entries), NEW effects, EffectsOK(effects)
    PROVE  /\ IsFiniteSet(DOMAIN Install(sh.entries, effects))
           /\ Cardinality(DOMAIN Install(sh.entries, effects)) = KeysAfter(sh, effects)
           /\ KeysAfter(sh, effects) \in Nat
<1> DEFINE D == DOMAIN sh.entries
           E == DOMAIN effects
           I == Inserted(effects)
<1>1. IsFiniteSet(D) /\ IsFiniteSet(E) /\ I \in SUBSET E
  BY DEF TableOK, EffectsOK, Inserted
<1>2. IsFiniteSet(I)
  BY <1>1, FS_Subset
<1>3. IsFiniteSet(D \ E) /\ Cardinality(D \ E) = Cardinality(D) - Cardinality(E \cap D)
  <2>1. E \cap D = D \cap E
    OBVIOUS
  <2> QED
    BY <1>1, <2>1, FS_Difference, ZenonT(30)
<1>4. (D \ E) \cap I = {}
  BY <1>1
<1>5. /\ IsFiniteSet((D \ E) \cup I)
      /\ Cardinality((D \ E) \cup I) = Cardinality(D \ E) + Cardinality(I) - 0
  BY <1>2, <1>3, <1>4, FS_Union, FS_EmptySet
<1>6. DOMAIN Install(sh.entries, effects) = (D \ E) \cup I
  BY DEF Install
<1>7. /\ Cardinality(D) \in Nat /\ Cardinality(I) \in Nat
      /\ Cardinality(D \ E) \in Nat /\ Cardinality(E \cap D) \in Nat
  BY <1>1, <1>2, <1>3, FS_CardinalityType, FS_Intersection
<1> HIDE DEF D, E, I
<1>8. KeysAfter(sh, effects) = Cardinality(D) - Cardinality(E \cap D) + Cardinality(I)
  BY DEF KeysAfter, Replaced, D, E, I
<1> QED
  BY <1>3, <1>5, <1>6, <1>7, <1>8

\* What apply does to the table, its timers and its revision.
LEMMA ApplyResult ==
    ASSUME NEW sh, DOMAIN sh = ShardFields, TableOK(sh.entries), TimersAgree(sh),
           NEW p, EffectsOK(p.effects)
    PROVE  LET new == apply(sh, p)
           IN  /\ DOMAIN new = ShardFields
               /\ new.entries = Install(sh.entries, p.effects)
               /\ new.revision = sh.revision + 1
               /\ new.applied_commands = sh.applied_commands + 1
               /\ new.expired_keys = sh.expired_keys
               /\ TableOK(new.entries)
               /\ TimersAgree(new)
<1> DEFINE new == apply(sh, p)
<1>1. /\ DOMAIN new = ShardFields
      /\ new.entries = Install(sh.entries, p.effects)
      /\ new.timers = InstallTimers(sh.timers, p.effects)
      /\ new.revision = sh.revision + 1
      /\ new.applied_commands = sh.applied_commands + 1
      /\ new.expired_keys = sh.expired_keys
  BY DEF apply, ShardFields
<1>2. TableOK(Install(sh.entries, p.effects))
  <2>1. IsFiniteSet(DOMAIN Install(sh.entries, p.effects))
    BY KeysAfterExact
  <2> QED
    BY <2>1 DEF TableOK, EffectsOK, Install, Inserted
<1>3. TimersAgree(new)
  <2> HIDE DEF new
  <2> DEFINE e == Install(sh.entries, p.effects)
             t == InstallTimers(sh.timers, p.effects)
  <2>1. \A k : k \in DOMAIN t <=> k \in DOMAIN e /\ e[k].expires_at_ms # None
    BY DEF TimersAgree, Install, InstallTimers, Inserted, Expiring
  <2>2. \A k \in DOMAIN t : t[k] = e[k].expires_at_ms
    BY DEF TimersAgree, Install, InstallTimers, Inserted, Expiring
  <2> HIDE DEF e, t
  <2>3. new.entries = e /\ new.timers = t
    BY <1>1 DEF e, t
  <2> QED
    BY <2>1, <2>2, <2>3 DEF TimersAgree
<1> QED
  BY <1>1, <1>2, <1>3

\* expire removes due keys from the table and from the index.
LEMMA ExpireResult ==
    ASSUME NEW sh, DOMAIN sh = ShardFields, TableOK(sh.entries), TimersAgree(sh),
           NEW now, NEW S \in SUBSET DueTimers(sh.timers, now), S # {}
    PROVE  LET new == expire(sh, S)
           IN  /\ DOMAIN new = ShardFields
               /\ Cardinality(S) \in Nat /\ Cardinality(S) > 0
               /\ new.revision = sh.revision + Cardinality(S)
               /\ new.expired_keys = sh.expired_keys + Cardinality(S)
               /\ new.applied_commands = sh.applied_commands
               /\ DOMAIN new.entries \in SUBSET DOMAIN sh.entries
               /\ TableOK(new.entries)
               /\ TimersAgree(new)
<1> DEFINE new == expire(sh, S)
<1>1. /\ DOMAIN new = ShardFields
      /\ new.entries = [k \in DOMAIN sh.entries \ S |-> sh.entries[k]]
      /\ new.timers = [k \in DOMAIN sh.timers \ S |-> sh.timers[k]]
      /\ new.revision = sh.revision + Cardinality(S)
      /\ new.expired_keys = sh.expired_keys + Cardinality(S)
      /\ new.applied_commands = sh.applied_commands
  BY DEF expire, ShardFields
<1>2. S \in SUBSET DOMAIN sh.entries
  BY DEF DueTimers, TimersAgree
<1>3. IsFiniteSet(S) /\ Cardinality(S) \in Nat
  BY <1>2, FS_Subset, FS_CardinalityType DEF TableOK
<1>4. Cardinality(S) > 0
  BY <1>3, FS_EmptySet
<1> HIDE DEF new
<1>5. TableOK(new.entries) /\ DOMAIN new.entries \in SUBSET DOMAIN sh.entries
  BY <1>1, FS_Difference DEF TableOK
<1>6. TimersAgree(new)
  BY <1>1 DEF TimersAgree
<1> QED
  BY <1>1, <1>3, <1>4, <1>5, <1>6 DEF new

(***************************************************************************)
(* The payload account.                                                    *)
(***************************************************************************)
\* map gives each key of the finite set K an entry.
Holds(map, K) == K \subseteq Keys /\ IsFiniteSet(K) /\ \A k \in K : map[k] \in Entries

\* The bytes of a set of keys, as the sum the lemmas are about.
LEMMA BytesIs ==
    ASSUME NEW K, NEW map
    PROVE  Bytes(K, map) = SumFunctionOnSet([k \in K |-> EntryBytes(k, map[k])], K)
  BY DEF Bytes, SumFunction

\* Every term of that sum is a natural number.
LEMMA BytesTerms ==
    ASSUME NEW K, NEW map, Holds(map, K)
    PROVE  \A k \in K : [x \in K |-> EntryBytes(x, map[x])][k] \in Nat
<1> SUFFICES ASSUME NEW k \in K PROVE EntryBytes(k, map[k]) \in Nat
  OBVIOUS
<1>1. map[k].value \in Values /\ KeyLen[k] \in Nat
  BY CommandsAssumption DEF Holds, Entries
<1>2. QED
  BY <1>1, ValueLenType DEF EntryBytes

\* So is the sum.
LEMMA BytesType ==
    ASSUME NEW K, NEW map, Holds(map, K)
    PROVE  Bytes(K, map) \in Nat
<1> DEFINE f == [k \in K |-> EntryBytes(k, map[k])]
<1>1. \A k \in K : f[k] \in Nat
  BY BytesTerms
<1> HIDE DEF f
<1>2. SumFunctionOnSet(f, K) \in Nat
  BY <1>1, SumType DEF Holds
<1>3. QED
  BY <1>2, BytesIs DEF f

\* The account of two tables that agree on K is the same there.
LEMMA BytesSame ==
    ASSUME NEW K, IsFiniteSet(K), NEW map, NEW other, \A k \in K : map[k] = other[k]
    PROVE  Bytes(K, map) = Bytes(K, other)
<1>1. [k \in K |-> EntryBytes(k, map[k])] = [k \in K |-> EntryBytes(k, other[k])]
  OBVIOUS
<1>2. QED
  BY <1>1, BytesIs

\* The account of two disjoint parts of a table is that of the whole.
LEMMA BytesUnion ==
    ASSUME NEW A, NEW B, A \cap B = {}, NEW map, Holds(map, A \cup B)
    PROVE  /\ Bytes(A \cup B, map) = Bytes(A, map) + Bytes(B, map)
           /\ Bytes(A, map) \in Nat /\ Bytes(B, map) \in Nat
<1> DEFINE f(K) == [k \in K |-> EntryBytes(k, map[k])]
<1>1. Holds(map, A) /\ Holds(map, B)
  BY FS_Subset DEF Holds
<1>2. IsFiniteSet(A) /\ IsFiniteSet(B)
  BY <1>1 DEF Holds
<1>3. \A k \in A \cup B : f(A \cup B)[k] \in Int
  BY BytesTerms
<1>4. (\A k \in A : f(A \cup B)[k] = f(A)[k]) /\ (\A k \in B : f(A \cup B)[k] = f(B)[k])
  OBVIOUS
<1>5. /\ Bytes(A \cup B, map) = SumFunctionOnSet(f(A \cup B), A \cup B)
      /\ Bytes(A, map) = SumFunctionOnSet(f(A), A)
      /\ Bytes(B, map) = SumFunctionOnSet(f(B), B)
  BY BytesIs
<1> HIDE DEF f
<1>6. SumFunctionOnSet(f(A \cup B), A \cup B) =
        SumFunctionOnSet(f(A \cup B), A) + SumFunctionOnSet(f(A \cup B), B)
  BY <1>2, <1>3, SumUnion
<1>7. /\ SumFunctionOnSet(f(A \cup B), A) = SumFunctionOnSet(f(A), A)
      /\ SumFunctionOnSet(f(A \cup B), B) = SumFunctionOnSet(f(B), B)
  BY <1>2, <1>4, SumSame
<1>8. QED
  BY <1>1, <1>5, <1>6, <1>7, BytesType

\* PayloadAfter, which never looks at the table apply leaves, is that table's account.
LEMMA PayloadAfterExact ==
    ASSUME NEW sh, TableOK(sh.entries), PayloadAgrees(sh), NEW effects, EffectsOK(effects)
    PROVE  LET table == Install(sh.entries, effects)
           IN  /\ PayloadAfter(sh, effects) = Bytes(DOMAIN table, table)
               /\ PayloadAfter(sh, effects) \in Nat
<1> DEFINE D == DOMAIN sh.entries
           E == DOMAIN effects
           I == Inserted(effects)
           table == Install(sh.entries, effects)
<1>1. /\ DOMAIN table = (D \ E) \cup I /\ (D \ E) \cap I = {} /\ (D \ E) \cap (E \cap D) = {}
      /\ D = (D \ E) \cup (E \cap D)
      /\ \A k \in D \ E : table[k] = sh.entries[k]
      /\ \A k \in I : table[k] = effects[k]
  BY DEF Install, Inserted
<1>2. Holds(sh.entries, D)
  BY DEF TableOK, Holds
<1>3. Holds(effects, I)
  <2>1. IsFiniteSet(I)
    BY FS_Subset DEF EffectsOK, Inserted
  <2>2. QED
    BY <2>1 DEF EffectsOK, Holds, Inserted
<1>4. Holds(table, (D \ E) \cup I)
  <2>1. IsFiniteSet((D \ E) \cup I)
    BY <1>2, <1>3, FS_Union, FS_Difference DEF Holds
  <2> HIDE DEF table, D, E, I
  <2>2. QED
    BY <1>1, <1>2, <1>3, <2>1 DEF Holds
<1> HIDE DEF table, D, E, I
<1>5. /\ Bytes(D, sh.entries) = Bytes(D \ E, sh.entries) + Bytes(E \cap D, sh.entries)
      /\ Bytes(D \ E, sh.entries) \in Nat /\ Bytes(E \cap D, sh.entries) \in Nat
  BY <1>1, <1>2, BytesUnion
<1>6. /\ Bytes((D \ E) \cup I, table) = Bytes(D \ E, table) + Bytes(I, table)
      /\ Bytes(D \ E, table) \in Nat /\ Bytes(I, table) \in Nat
  BY <1>1, <1>4, BytesUnion
<1>7. IsFiniteSet(D \ E) /\ IsFiniteSet(I)
  BY <1>2, <1>3, FS_Difference DEF Holds
<1>8. Bytes(D \ E, table) = Bytes(D \ E, sh.entries) /\ Bytes(I, table) = Bytes(I, effects)
  BY <1>1, <1>7, BytesSame
<1>9. PayloadAfter(sh, effects) = Bytes(D, sh.entries) - Bytes(E \cap D, sh.entries) + Bytes(I, effects)
  BY DEF PayloadAfter, Replaced, PayloadAgrees, D, E, I
<1>10. DOMAIN table = (D \ E) \cup I
  BY <1>1
<1>11. PayloadAfter(sh, effects) = Bytes(DOMAIN table, table) /\ PayloadAfter(sh, effects) \in Nat
  BY <1>5, <1>6, <1>8, <1>9, <1>10
<1>12. QED
  BY <1>11 DEF table

\* apply leaves an exact account when the preparation foresaw it.
LEMMA ApplyPayload ==
    ASSUME NEW sh, DOMAIN sh = ShardFields, TableOK(sh.entries), PayloadAgrees(sh),
           NEW p, EffectsOK(p.effects), p.payload_after = PayloadAfter(sh, p.effects)
    PROVE  /\ PayloadAgrees(apply(sh, p))
           /\ apply(sh, p).payload_bytes = PayloadAfter(sh, p.effects)
           /\ PayloadAfter(sh, p.effects) \in Nat
<1>1. /\ apply(sh, p).entries = Install(sh.entries, p.effects)
      /\ apply(sh, p).payload_bytes = p.payload_after
  BY DEF apply, ShardFields
<1>2. QED
  BY <1>1, PayloadAfterExact DEF PayloadAgrees

\* expire takes the removed entries off the account.
LEMMA ExpirePayload ==
    ASSUME NEW sh, DOMAIN sh = ShardFields, TableOK(sh.entries), PayloadAgrees(sh),
           NEW S \in SUBSET DOMAIN sh.entries, S # {}
    PROVE  /\ PayloadAgrees(expire(sh, S))
           /\ expire(sh, S).payload_bytes \in Nat /\ sh.payload_bytes \in Nat
           /\ expire(sh, S).payload_bytes <= sh.payload_bytes
<1> DEFINE D == DOMAIN sh.entries
           left == [k \in D \ S |-> sh.entries[k]]
<1>1. /\ expire(sh, S).entries = left
      /\ expire(sh, S).payload_bytes = sh.payload_bytes - Bytes(S, sh.entries)
  BY DEF expire, ShardFields
<1>2. D = (D \ S) \cup S /\ (D \ S) \cap S = {} /\ Holds(sh.entries, D)
  BY DEF TableOK, Holds
<1>3. /\ Bytes(D, sh.entries) = Bytes(D \ S, sh.entries) + Bytes(S, sh.entries)
      /\ Bytes(D \ S, sh.entries) \in Nat /\ Bytes(S, sh.entries) \in Nat
  <2> HIDE DEF D
  <2>1. QED
    BY <1>2, BytesUnion
<1>4. Bytes(D \ S, left) = Bytes(D \ S, sh.entries)
  <2>1. IsFiniteSet(D \ S) /\ \A k \in D \ S : left[k] = sh.entries[k]
    BY FS_Difference DEF TableOK
  <2> HIDE DEF left, D
  <2>2. QED
    BY <2>1, BytesSame
<1>5. sh.payload_bytes = Bytes(D, sh.entries) /\ DOMAIN left = D \ S
  BY DEF PayloadAgrees
<1> HIDE DEF left, D
<1>6. QED
  BY <1>1, <1>3, <1>4, <1>5 DEF PayloadAgrees

(***************************************************************************)
(* The meaning of a command: what Command computes from the table, dead    *)
(* entries and all, is what the reference says of the live keys.           *)
(***************************************************************************)
\* observe reads the view.
LEMMA ObserveIsView ==
    ASSUME NEW entries, NEW now, NEW k \in Keys
    PROVE  observe(entries, k, now) = View(entries, now)[k]
  BY DEF observe, View

\* Removing the dead keys a command met changes nothing a client can see.
LEMMA ViewObserved ==
    ASSUME NEW entries, NEW K, NEW now
    PROVE  View(Install(entries, Observed(entries, K, now)), now) = View(entries, now)
  BY DEF View, Install, Observed, Inserted

\* A live entry installed is seen; None installed is an absent key.
LEMMA ViewInstalls ==
    ASSUME NEW entries, NEW now, NEW k \in Keys,
           NEW e \in Entries \cup {None}, e # None => ~Due(e, now)
    PROVE  View(Install(entries, Installs(k, e)), now) = [View(entries, now) EXCEPT ![k] = e]
  BY DEF View, Install, Installs, Inserted

\* The same for many keys at once.
LEMMA ViewInstallsMany ==
    ASSUME NEW entries, NEW now, NEW K \in SUBSET Keys, NEW effects, DOMAIN effects = K,
           \A k \in K : effects[k] # None => ~Due(effects[k], now)
    PROVE  View(Install(entries, effects), now) =
             [k \in Keys |-> IF k \in K THEN effects[k] ELSE View(entries, now)[k]]
  BY DEF View, Install, Inserted

\* A live entry is not due, and is an entry.
LEMMA ViewType ==
    ASSUME NEW entries, TableOK(entries), NEW now, NEW k \in Keys
    PROVE  /\ View(entries, now)[k] \in Entries \cup {None}
           /\ View(entries, now)[k] # None => ~Due(View(entries, now)[k], now)
<1>1. View(entries, now)[k] =
        IF k \in DOMAIN entries /\ ~Due(entries[k], now) THEN entries[k] ELSE None
  BY DEF View
<1>2. QED
  BY <1>1 DEF TableOK

\* The smaller of two numbers.
LEMMA MinOfTwo ==
    ASSUME NEW a \in Int, NEW b \in Int
    PROVE  Min({a, b}) = IF a > b THEN b ELSE a
<1> DEFINE m == IF a > b THEN b ELSE a
<1>1. m \in {a, b} /\ \A y \in {a, b} : m <= y
  OBVIOUS
<1>2. \A x \in {a, b} : (\A y \in {a, b} : x <= y) => x = m
  OBVIOUS
<1> HIDE DEF m
<1>3. QED
  BY <1>1, <1>2 DEF Min, m

\* What the reference says of op at this table, as a fact about Command.
Means(entries, op, now) ==
    LET outcome == Command(entries, op, now)
        view == View(entries, now)
    IN  IF outcome.ok
        THEN /\ Refusal(op, now, view) = None
             /\ outcome.reply = NewReply(op, now, view)
             /\ View(Install(entries, outcome.effects), now) = NewView(op, now, view)
        ELSE outcome.reply = Error(Refusal(op, now, view))

\* The two ways an operation can mean what the reference says: carried out,
LEMMA CarriedOutMeans ==
    ASSUME NEW entries, NEW op, NEW now, NEW effects, NEW reply,
           Command(entries, op, now) = Outcome(effects, reply),
           Refusal(op, now, View(entries, now)) = None,
           NewReply(op, now, View(entries, now)) = reply,
           View(Install(entries, effects), now) = NewView(op, now, View(entries, now))
    PROVE  Means(entries, op, now)
  BY DEF Means, Outcome

\* or refused with the reference's error.
LEMMA RefusedMeans ==
    ASSUME NEW entries, NEW op, NEW now, NEW code,
           Command(entries, op, now) = Refused(code),
           Refusal(op, now, View(entries, now)) = code
    PROVE  Means(entries, op, now)
  BY DEF Means, Refused

\* The commands of one key: the new view differs at that key at most.
LEMMA OneKeyView ==
    ASSUME NEW entries, NEW now, NEW op, op.key \in Keys,
           op.type \notin {"delete", "exists", "multi_get", "multi_set"}
    PROVE  NewView(op, now, View(entries, now)) =
             [View(entries, now) EXCEPT ![op.key] = NewEntry(op, now, View(entries, now), op.key)]
<1>1. KeySet(op) = {op.key}
  <2>1. operation_keys(op) = <<op.key>>
    BY DEF operation_keys
  <2>2. QED
    BY <2>1 DEF KeySet
<1>2. DOMAIN View(entries, now) = Keys
  BY DEF View
<1>3. QED
  BY <1>1, <1>2 DEF NewView

\* A command that reads leaves the view as it is.
LEMMA ReadView ==
    ASSUME NEW entries, NEW now, NEW op, op.type \in {"get", "exists", "multi_get", "ttl"}, NEW K
    PROVE  View(Install(entries, Observed(entries, K, now)), now) =
             NewView(op, now, View(entries, now))
<1>1. \A k : NewEntry(op, now, View(entries, now), k) = View(entries, now)[k]
  BY DEF NewEntry
<1>2. View(entries, now) = [k \in Keys |-> View(entries, now)[k]]
  BY DEF View
<1>3. NewView(op, now, View(entries, now)) = View(entries, now)
  BY <1>1, <1>2 DEF NewView
<1>4. QED
  BY <1>3, ViewObserved

\* GET and PERSIST mean what the reference says.
LEMMA KeyMeans ==
    ASSUME NEW entries, TableOK(entries), NEW op \in KeyOperations, NEW now \in I64
    PROVE  Means(entries, op, now)
<1> DEFINE view == View(entries, now)
           k == op.key
<1>1. k \in Keys /\ op.type \in {"get", "persist"}
  BY DEF KeyOperations
<1>2. /\ observe(entries, k, now) = view[k] /\ view[k] \in Entries \cup {None}
      /\ view[k] # None => ~Due(view[k], now)
  BY <1>1, ObserveIsView, ViewType
<1>3. Refusal(op, now, view) = None
  BY <1>1 DEF Refusal
<1>4. CASE op.type = "get"
  <2>1. Command(entries, op, now) =
          Outcome(Observed(entries, {k}, now), Bulk(IF view[k] = None THEN None ELSE view[k].value))
    BY <1>2, <1>4 DEF Command, PrepareGet
  <2>2. NewReply(op, now, view) = Bulk(IF view[k] = None THEN None ELSE view[k].value)
    BY <1>4 DEF NewReply, ValueIn
  <2>3. QED
    BY <1>3, <1>4, <2>1, <2>2, ReadView, CarriedOutMeans
<1>5. CASE op.type = "persist"
  <2>1. NewReply(op, now, view) =
          Integer(IF view[k] # None /\ view[k].expires_at_ms # None THEN 1 ELSE 0)
    BY <1>5 DEF NewReply, Truth, Present, Deadline
  <2>2. NewEntry(op, now, view, k) =
          IF view[k] = None THEN None ELSE [view[k] EXCEPT !.expires_at_ms = None]
    BY <1>5 DEF NewEntry, WithDeadline
  <2>3. NewView(op, now, view) = [view EXCEPT ![k] = NewEntry(op, now, view, k)]
    BY <1>1, <1>5, OneKeyView
  <2>4. CASE view[k] # None /\ view[k].expires_at_ms # None
    <3>1. Command(entries, op, now) =
            Outcome(Installs(k, Entry(view[k].value, None)), Integer(1))
      BY <1>2, <1>5, <2>4 DEF Command, PreparePersist
    <3>2. /\ Entry(view[k].value, None) = [view[k] EXCEPT !.expires_at_ms = None]
          /\ Entry(view[k].value, None) \in Entries /\ ~Due(Entry(view[k].value, None), now)
      BY <1>2, <2>4 DEF Entry, Entries, Due
    <3>3. View(Install(entries, Installs(k, Entry(view[k].value, None))), now) =
            [view EXCEPT ![k] = Entry(view[k].value, None)]
      BY <1>1, <3>2, ViewInstalls
    <3>4. QED
      BY <1>3, <2>1, <2>2, <2>3, <2>4, <3>1, <3>2, <3>3, CarriedOutMeans
  <2>5. CASE ~(view[k] # None /\ view[k].expires_at_ms # None)
    <3>1. Command(entries, op, now) = Outcome(Observed(entries, {k}, now), Integer(0))
      BY <1>2, <1>5, <2>5 DEF Command, PreparePersist
    <3>2. NewEntry(op, now, view, k) = view[k]
      BY <1>2, <2>2, <2>5 DEF Entries
    <3>3. [view EXCEPT ![k] = view[k]] = view
      BY DEF View
    <3>4. NewView(op, now, view) = view /\ NewReply(op, now, view) = Integer(0)
      BY <2>1, <2>3, <2>5, <3>2, <3>3
    <3>5. QED
      BY <1>3, <3>1, <3>4, ViewObserved, CarriedOutMeans
  <2>6. QED
    BY <2>4, <2>5
<1>6. QED
  BY <1>1, <1>4, <1>5

\* So does SET with every condition and expiry option.
LEMMA SetMeans ==
    ASSUME NEW entries, TableOK(entries), NEW op \in SetOperations, NEW now \in I64
    PROVE  Means(entries, op, now)
<1> DEFINE view == View(entries, now)
           k == op.key
           deadline == CASE op.expiry = "clear" -> None
                         [] op.expiry = "keep"  -> Deadline(view, k)
                         [] op.expiry = "after" -> now + op.milliseconds
           e == Entry(op.value, deadline)
           tooFar == op.expiry = "after" /\ (op.milliseconds <= 0 \/ now + op.milliseconds \notin I64)
<1>1. /\ k \in Keys /\ op.type = "set" /\ op.value \in Values /\ op.condition \in Conditions
      /\ op.expiry \in {"clear", "keep", "after"} /\ op.milliseconds \in I64
  BY DEF SetOperations, Expiries
<1>2. /\ observe(entries, k, now) = view[k] /\ view[k] \in Entries \cup {None}
      /\ view[k] # None => ~Due(view[k], now)
  BY <1>1, ObserveIsView, ViewType
<1>3. ExpiresAt(view[k]) = Deadline(view, k)
  BY DEF ExpiresAt, Deadline
<1>4. Command(entries, op, now) = PrepareSet(entries, op, now)
  BY <1>1 DEF Command
<1>5. Refusal(op, now, view) = IF tooFar THEN "invalid_expire" ELSE None
  BY <1>1 DEF Refusal
<1>6. CASE tooFar
  <2>1. Command(entries, op, now) = Refused("invalid_expire")
    BY <1>4, <1>6 DEF PrepareSet, Checked
  <2>2. QED
    BY <1>5, <1>6, <2>1, RefusedMeans
<1>7. CASE ~tooFar /\ ~Permitted(op, view)
  <2>1. \/ op.condition = "if_absent" /\ view[k] # None
        \/ op.condition = "if_present" /\ view[k] = None
    BY <1>7 DEF Permitted, Present
  <2>2. Command(entries, op, now) = Outcome(Observed(entries, {k}, now), Bulk(None))
    BY <1>2, <1>4, <1>7, <2>1 DEF PrepareSet, Checked
  <2>3. NewReply(op, now, view) = Bulk(None)
    BY <1>1, <1>7 DEF NewReply
  <2>4. NewEntry(op, now, view, k) = view[k]
    BY <1>1, <1>7 DEF NewEntry
  <2>5. NewView(op, now, view) = view
    BY <1>1, <2>4, OneKeyView DEF View
  <2>6. QED
    BY <1>5, <1>7, <2>2, <2>3, <2>5, ViewObserved, CarriedOutMeans
<1>8. CASE ~tooFar /\ Permitted(op, view)
  <2>1. ~\/ op.condition = "if_absent" /\ view[k] # None
         \/ op.condition = "if_present" /\ view[k] = None
    BY <1>8 DEF Permitted, Present
  <2>2. Command(entries, op, now) = Outcome(Installs(k, e), Ok)
    BY <1>2, <1>3, <1>4, <1>8, <2>1 DEF PrepareSet, Checked
  <2>3. NewReply(op, now, view) = Ok /\ NewEntry(op, now, view, k) = e
    BY <1>1, <1>8 DEF NewReply, NewEntry
  <2>4. deadline \in I64 \cup {None} /\ (deadline # None => ~(deadline <= now))
    <3>1. CASE op.expiry = "clear"
      BY <3>1
    <3>2. CASE op.expiry = "keep"
      <4>1. deadline = Deadline(view, k)
        BY <3>2
      <4> HIDE DEF deadline
      <4>2. QED
        BY <1>2, <4>1 DEF Deadline, Entries, Due
    <3>3. CASE op.expiry = "after"
      <4>1. deadline = now + op.milliseconds
        BY <3>3
      <4>2. now \in Int /\ op.milliseconds \in Int
        BY <1>1, CommandsAssumption DEF I64, I64Min
      <4>3. ~(op.milliseconds <= 0) /\ now + op.milliseconds \in I64
        BY <1>8, <3>3
      <4> HIDE DEF deadline
      <4>4. QED
        BY <4>1, <4>2, <4>3
    <3>4. QED
      BY <1>1, <3>1, <3>2, <3>3
  <2>5. e \in Entries /\ ~Due(e, now)
    <3> HIDE DEF deadline
    <3>1. QED
      BY <1>1, <2>4 DEF Entry, Entries, Due
  <2> HIDE DEF e, tooFar
  <2>6. View(Install(entries, Installs(k, e)), now) = NewView(op, now, view)
    BY <1>1, <2>3, <2>5, ViewInstalls, OneKeyView, SMTT(30)
  <2>7. QED
    BY <1>5, <1>8, <2>2, <2>3, <2>6, CarriedOutMeans
<1>9. QED
  BY <1>6, <1>7, <1>8

\* So do INCRBY and DECRBY, overflow included.
LEMMA IncrementMeans ==
    ASSUME NEW entries, TableOK(entries), NEW op \in IncrementOperations, NEW now \in I64
    PROVE  Means(entries, op, now)
<1> DEFINE view == View(entries, now)
           k == op.key
           current == Current(view, k)
           next == IF op.subtract THEN current - op.amount ELSE current + op.amount
<1>1. k \in Keys /\ op.type = "increment" /\ op.amount \in I64 /\ op.subtract \in BOOLEAN
  BY DEF IncrementOperations
<1>2. /\ observe(entries, k, now) = view[k] /\ view[k] \in Entries \cup {None}
      /\ view[k] # None => ~Due(view[k], now)
  BY <1>1, ObserveIsView, ViewType
<1>3. Command(entries, op, now) =
        IF op.subtract /\ op.amount = I64Min THEN Refused("overflow")
        ELSE IF current \notin I64 THEN Refused("not_integer")
        ELSE IF ~Checked(next) THEN Refused("overflow")
        ELSE Outcome(Installs(k, Entry(next, Deadline(view, k))), Integer(next))
  BY <1>1, <1>2 DEF Command, PrepareIncrement, ExpiresAt, Deadline, Current
<1>4. I64Max \in Nat /\ I64Min = -I64Max - 1 /\ \A i \in I64 : i \in Int
  BY CommandsAssumption DEF I64, I64Min
<1>5. Delta(op) \notin I64 <=> op.subtract /\ op.amount = I64Min
  BY <1>1, <1>4 DEF Delta, I64
<1>6. Numeric(view, k) <=> current \in I64
  BY CommandsAssumption DEF Numeric, Current, I64, I64Min
<1>7. current \in I64 => next = current + Delta(op)
  BY <1>1, <1>4 DEF Delta
<1>8. Refusal(op, now, view) =
        IF Delta(op) \notin I64 THEN "overflow"
        ELSE IF ~Numeric(view, k) THEN "not_integer"
        ELSE IF current + Delta(op) \notin I64 THEN "overflow"
        ELSE None
  BY <1>1 DEF Refusal
<1> HIDE DEF current, next
<1>9. CASE Delta(op) \notin I64
  BY <1>3, <1>5, <1>8, <1>9, RefusedMeans
<1>10. CASE Delta(op) \in I64 /\ current \notin I64
  BY <1>3, <1>5, <1>6, <1>8, <1>10, RefusedMeans
<1>11. CASE Delta(op) \in I64 /\ current \in I64 /\ next \notin I64
  BY <1>3, <1>5, <1>6, <1>7, <1>8, <1>11, RefusedMeans DEF Checked
<1>12. CASE Delta(op) \in I64 /\ current \in I64 /\ next \in I64
  <2> DEFINE e == Entry(next, Deadline(view, k))
  <2>1. Command(entries, op, now) = Outcome(Installs(k, e), Integer(next))
    BY <1>3, <1>5, <1>12 DEF Checked
  <2>2. Refusal(op, now, view) = None
    BY <1>6, <1>7, <1>8, <1>12
  <2>3. NewReply(op, now, view) = Integer(next) /\ NewEntry(op, now, view, k) = e
    BY <1>1, <1>7, <1>12 DEF NewReply, NewEntry, current
  <2>4. e \in Entries /\ ~Due(e, now)
    BY <1>2, <1>12 DEF Entry, Entries, Due, Deadline, Values
  <2> HIDE DEF e
  <2>5. View(Install(entries, Installs(k, e)), now) = NewView(op, now, view)
    BY <1>1, <2>3, <2>4, ViewInstalls, OneKeyView
  <2>6. QED
    BY <2>1, <2>2, <2>3, <2>5, CarriedOutMeans
<1>13. QED
  BY <1>9, <1>10, <1>11, <1>12

\* So does EXPIRE, with deadlines already past and out of range.
LEMMA ExpireMeans ==
    ASSUME NEW entries, TableOK(entries), NEW op \in ExpireOperations, NEW now \in I64
    PROVE  Means(entries, op, now)
<1> DEFINE view == View(entries, now)
           k == op.key
           ms == op.milliseconds
<1>1. k \in Keys /\ op.type = "expire" /\ ms \in I64
  BY DEF ExpireOperations
<1>2. /\ observe(entries, k, now) = view[k] /\ view[k] \in Entries \cup {None}
      /\ view[k] # None => ~Due(view[k], now)
  BY <1>1, ObserveIsView, ViewType
<1>3. ms \in Int /\ now \in Int
  BY <1>1, CommandsAssumption DEF I64, I64Min
<1>4. Command(entries, op, now) =
        IF view[k] = None THEN Outcome(Observed(entries, {k}, now), Integer(0))
        ELSE IF ms <= 0 THEN Outcome(Installs(k, None), Integer(1))
        ELSE IF ~Checked(now + ms) THEN Refused("invalid_expire")
        ELSE Outcome(Installs(k, Entry(view[k].value, now + ms)), Integer(1))
  BY <1>1, <1>2 DEF Command, PrepareExpire
<1>5. Refusal(op, now, view) =
        IF view[k] # None /\ ms > 0 /\ now + ms \notin I64 THEN "invalid_expire" ELSE None
  BY <1>1 DEF Refusal, Present
<1>6. NewReply(op, now, view) = Integer(IF view[k] # None THEN 1 ELSE 0)
  BY <1>1 DEF NewReply, Truth, Present
<1>7. NewView(op, now, view) = [view EXCEPT ![k] = NewEntry(op, now, view, k)]
  BY <1>1, OneKeyView
<1>8. NewEntry(op, now, view, k) =
        IF view[k] = None \/ ms <= 0 THEN None ELSE [view[k] EXCEPT !.expires_at_ms = now + ms]
  BY <1>1 DEF NewEntry, WithDeadline
<1>9. CASE view[k] = None
  <2>1. [view EXCEPT ![k] = None] = view
    BY <1>9 DEF View
  <2>2. NewView(op, now, view) = view /\ NewReply(op, now, view) = Integer(0)
    BY <1>6, <1>7, <1>8, <1>9, <2>1
  <2>3. QED
    BY <1>4, <1>5, <1>9, <2>2, ViewObserved, CarriedOutMeans
<1>10. CASE view[k] # None /\ ms <= 0
  <2>1. View(Install(entries, Installs(k, None)), now) = [view EXCEPT ![k] = None]
    BY <1>1, ViewInstalls
  <2>2. NewView(op, now, view) = [view EXCEPT ![k] = None] /\ NewReply(op, now, view) = Integer(1)
    BY <1>6, <1>7, <1>8, <1>10
  <2>3. Command(entries, op, now) = Outcome(Installs(k, None), Integer(1))
    BY <1>4, <1>10
  <2>4. Refusal(op, now, view) = None
    BY <1>3, <1>5, <1>10
  <2>5. QED
    BY <2>1, <2>2, <2>3, <2>4, CarriedOutMeans
<1>11. CASE view[k] # None /\ ~(ms <= 0) /\ now + ms \notin I64
  BY <1>3, <1>4, <1>5, <1>11, RefusedMeans DEF Checked
<1>12. CASE view[k] # None /\ ~(ms <= 0) /\ now + ms \in I64
  <2> DEFINE e == Entry(view[k].value, now + ms)
  <2>1. Command(entries, op, now) = Outcome(Installs(k, e), Integer(1))
    BY <1>4, <1>12 DEF Checked
  <2>2. Refusal(op, now, view) = None /\ NewReply(op, now, view) = Integer(1)
    BY <1>5, <1>6, <1>12
  <2>3. NewEntry(op, now, view, k) = e
    BY <1>2, <1>8, <1>12 DEF Entry, Entries
  <2>4. e \in Entries /\ ~Due(e, now)
    BY <1>2, <1>3, <1>12 DEF Entry, Entries, Due
  <2> HIDE DEF e
  <2>5. View(Install(entries, Installs(k, e)), now) = [view EXCEPT ![k] = e]
    BY <1>1, <2>4, ViewInstalls
  <2>6. NewView(op, now, view) = [view EXCEPT ![k] = e]
    BY <1>7, <2>3
  <2>7. View(Install(entries, Installs(k, e)), now) = NewView(op, now, view)
    BY <2>5, <2>6
  <2>8. QED
    BY <2>1, <2>2, <2>7, CarriedOutMeans
<1>13. QED
  BY <1>9, <1>10, <1>11, <1>12

\* So do TTL and PTTL.
LEMMA TtlMeans ==
    ASSUME NEW entries, TableOK(entries), NEW op \in TtlOperations, NEW now \in I64
    PROVE  Means(entries, op, now)
<1> DEFINE view == View(entries, now)
           k == op.key
<1>1. k \in Keys /\ op.type = "ttl" /\ op.milliseconds \in BOOLEAN
  BY DEF TtlOperations
<1>2. observe(entries, k, now) = view[k] /\ view[k] \in Entries \cup {None}
  BY <1>1, ObserveIsView, ViewType
<1>3. PICK n : Command(entries, op, now) = Outcome(Observed(entries, {k}, now), Integer(n))
               /\ n = Remaining(op, now, view)
  <2> DEFINE left == view[k].expires_at_ms - now
             remaining == IF left > I64Max THEN I64Max ELSE left
             n == IF view[k] = None THEN -2
                  ELSE IF view[k].expires_at_ms = None THEN -1
                  ELSE IF op.milliseconds THEN remaining
                  ELSE remaining \div 1000 + (IF remaining % 1000 >= 500 THEN 1 ELSE 0)
  <2>1. Command(entries, op, now) = Outcome(Observed(entries, {k}, now), Integer(n))
    BY <1>1, <1>2 DEF Command, PrepareTtl
  <2>2. ASSUME view[k] # None, view[k].expires_at_ms # None
        PROVE  Min({left, I64Max}) = remaining
    <3>1. left \in Int /\ I64Max \in Int
      BY <1>2, <2>2, CommandsAssumption DEF Entries, I64, I64Min
    <3> HIDE DEF left
    <3>2. QED
      BY <3>1, MinOfTwo
  <2>3. Remaining(op, now, view) = n
    <3> HIDE DEF remaining
    <3>1. QED
      BY <2>2 DEF Remaining, Seconds
  <2>4. QED
    BY <2>1, <2>3
<1>4. NewReply(op, now, view) = Integer(n) /\ Refusal(op, now, view) = None
  BY <1>1, <1>3 DEF NewReply, Refusal
<1>5. QED
  BY <1>1, <1>3, <1>4, ReadView, CarriedOutMeans

\* So do DEL, EXISTS and MGET, repeated keys included.
LEMMA KeysMeans ==
    ASSUME NEW entries, TableOK(entries), NEW op \in KeysOperations, NEW now \in I64
    PROVE  Means(entries, op, now)
<1> DEFINE view == View(entries, now)
<1>1. op.type \in {"delete", "exists", "multi_get"} /\ op.keys \in Seq(Keys) /\ op \in Operations
  BY DEF KeysOperations, Operations
<1>2. KeySet(op) \subseteq Keys /\ \A i \in DOMAIN op.keys : op.keys[i] \in Keys
  BY <1>1, KeySetFinite
<1>3. \A k \in Keys : observe(entries, k, now) = view[k]
  BY ObserveIsView
<1>4. Refusal(op, now, view) = None
  BY <1>1 DEF Refusal
<1>5. CASE op.type = "delete"
  <2> DEFINE effects == [k \in KeySet(op) |-> None]
             n == Cardinality({k \in KeySet(op) : view[k] # None})
  <2>1. {k \in KeySet(op) : observe(entries, k, now) # None} = {k \in KeySet(op) : view[k] # None}
    BY <1>2, <1>3
  <2>2. Command(entries, op, now) = Outcome(effects, Integer(n))
    BY <1>5, <2>1 DEF Command, PrepareDelete
  <2>3. NewReply(op, now, view) = Integer(n)
    BY <1>5 DEF NewReply, Present
  <2>4. View(Install(entries, effects), now) = NewView(op, now, view)
    <3>1. \A k : NewEntry(op, now, view, k) = None
      BY <1>5 DEF NewEntry
    <3>2. NewView(op, now, view) = [k \in Keys |-> IF k \in KeySet(op) THEN None ELSE view[k]]
      BY <3>1 DEF NewView
    <3>3. View(Install(entries, effects), now) =
            [k \in Keys |-> IF k \in KeySet(op) THEN effects[k] ELSE view[k]]
      BY <1>2, ViewInstallsMany
    <3>4. QED
      BY <3>2, <3>3
  <2>5. QED
    BY <1>4, <2>2, <2>3, <2>4, CarriedOutMeans
<1>6. CASE op.type = "exists"
  <2> DEFINE n == Cardinality({i \in DOMAIN op.keys : view[op.keys[i]] # None})
  <2>1. {i \in DOMAIN op.keys : observe(entries, op.keys[i], now) # None} =
          {i \in DOMAIN op.keys : view[op.keys[i]] # None}
    BY <1>2, <1>3
  <2>2. Command(entries, op, now) = Outcome(Observed(entries, KeySet(op), now), Integer(n))
    BY <1>6, <2>1 DEF Command, PrepareExists
  <2>3. NewReply(op, now, view) = Integer(n)
    BY <1>6 DEF NewReply, Present
  <2>4. QED
    BY <1>4, <1>6, <2>2, <2>3, ReadView, CarriedOutMeans
<1>7. CASE op.type = "multi_get"
  <2> DEFINE values == [i \in DOMAIN op.keys |-> ValueIn(view, op.keys[i])]
  <2>1. Command(entries, op, now) = Outcome(Observed(entries, KeySet(op), now), Array(values))
    BY <1>2, <1>3, <1>7 DEF Command, PrepareMultiGet, ValueIn
  <2>2. NewReply(op, now, view) = Array(values)
    BY <1>7 DEF NewReply
  <2>3. QED
    BY <1>4, <1>7, <2>1, <2>2, ReadView, CarriedOutMeans
<1>8. QED
  BY <1>1, <1>5, <1>6, <1>7

\* So does MSET, where the last pair of a repeated key wins.
LEMMA MultiSetMeans ==
    ASSUME NEW entries, TableOK(entries), NEW op \in MultiSetOperations, NEW now \in I64
    PROVE  Means(entries, op, now)
<1> DEFINE view == View(entries, now)
           effects == [k \in KeySet(op) |-> Entry(LastValue(op.pairs, k), None)]
<1>1. op.type = "multi_set" /\ op \in Operations
  BY DEF MultiSetOperations, Operations
<1>2. KeySet(op) \subseteq Keys
  BY <1>1, KeySetFinite
<1>3. Command(entries, op, now) = Outcome(effects, Ok)
  BY <1>1 DEF Command, PrepareMultiSet
<1>4. Refusal(op, now, view) = None /\ NewReply(op, now, view) = Ok
  BY <1>1 DEF Refusal, NewReply
<1>5. \A k \in KeySet(op) : ~Due(effects[k], now)
  BY DEF Due, Entry
<1>6. View(Install(entries, effects), now) =
        [k \in Keys |-> IF k \in KeySet(op) THEN effects[k] ELSE view[k]]
  BY <1>2, <1>5, ViewInstallsMany
<1>7. NewView(op, now, view) = [k \in Keys |-> IF k \in KeySet(op) THEN effects[k] ELSE view[k]]
  <2>1. \A k : NewEntry(op, now, view, k) = Entry(LastValue(op.pairs, k), None)
    BY <1>1 DEF NewEntry
  <2>2. QED
    BY <2>1 DEF NewView
<1>8. QED
  BY <1>3, <1>4, <1>6, <1>7, CarriedOutMeans

\* Every command at every table means what the reference says.
THEOREM CommandMeans ==
    ASSUME NEW entries, TableOK(entries), NEW op \in Operations, NEW now \in I64
    PROVE  Means(entries, op, now)
  BY KeyMeans, SetMeans, IncrementMeans, ExpireMeans, TtlMeans, KeysMeans, MultiSetMeans
     DEF Operations
(***************************************************************************)
(* The replies of a command carried out have a length.                     *)
(***************************************************************************)
Replies ==
    {Ok} \cup {Integer(n) : n \in Int} \cup {Bulk(v) : v \in Values \cup {None}}
        \cup {Array(s) : s \in Seq(Values \cup {None})}

\* A command that prepare carries out is answered with one of them.
LEMMA ReplyType ==
    ASSUME NEW entries, TableOK(entries), NEW op \in Operations, NEW now \in I64,
           Command(entries, op, now).ok
    PROVE  Command(entries, op, now).reply \in Replies
<1> DEFINE view == View(entries, now)
<1>0. Command(entries, op, now).reply = NewReply(op, now, view)
  BY CommandMeans DEF Means
<1>1. \A k \in Keys : view[k] \in Entries \cup {None}
  BY ViewType
<1> HIDE DEF view
<1>2. \A k \in Keys : ValueIn(view, k) \in Values \cup {None}
  BY <1>1 DEF ValueIn, Entries
<1>3. CASE op \in KeyOperations
  <2>1. CASE op.type = "get"
    <3>1. NewReply(op, now, view) = Bulk(ValueIn(view, op.key))
      BY <2>1 DEF NewReply
    <3>2. ValueIn(view, op.key) \in Values \cup {None}
      BY <1>2, <1>3 DEF KeyOperations
    <3>3. QED
      BY <1>0, <3>1, <3>2 DEF Replies
  <2>2. CASE op.type = "persist"
    BY <1>0, <2>2 DEF NewReply, Replies, Truth
  <2>3. QED
    BY <1>3, <2>1, <2>2 DEF KeyOperations
<1>4. CASE op \in SetOperations
  BY <1>0, <1>4 DEF SetOperations, NewReply, Replies
<1>5. CASE op \in IncrementOperations
  <2>1. op.key \in Keys /\ op.type = "increment"
    BY <1>5 DEF IncrementOperations
  <2>2. PICK n \in I64 : Command(entries, op, now).reply = Integer(n)
    BY <2>1 DEF Command, PrepareIncrement, Refused, Outcome, Checked
  <2>3. n \in Int
    BY CommandsAssumption DEF I64, I64Min
  <2>4. QED
    BY <2>2, <2>3 DEF Replies
<1>6. CASE op \in ExpireOperations
  BY <1>0, <1>6 DEF ExpireOperations, NewReply, Replies, Truth
<1>7. CASE op \in TtlOperations
  <2>1. op.key \in Keys /\ op.type = "ttl" /\ op.milliseconds \in BOOLEAN
    BY <1>7 DEF TtlOperations
  <2>2. Remaining(op, now, view) \in Int
    <3>1. now \in Int /\ I64Max \in Int /\ I64 \in SUBSET Int
      BY CommandsAssumption DEF I64, I64Min
    <3>2. CASE view[op.key] = None \/ view[op.key].expires_at_ms = None
      BY <3>2 DEF Remaining
    <3>3. CASE view[op.key] # None /\ view[op.key].expires_at_ms # None
      <4> DEFINE left == view[op.key].expires_at_ms - now
                 ms == Min({left, I64Max})
      <4>1. left \in Int
        <5>1. view[op.key].expires_at_ms \in I64
          BY <1>1, <2>1, <3>3 DEF Entries
        <5>2. view[op.key].expires_at_ms \in Int
          BY <3>1, <5>1
        <5>3. QED
          BY <3>1, <5>2
      <4> HIDE DEF left
      <4>2. ms \in Int
        <5>1. ms = IF left > I64Max THEN I64Max ELSE left
          BY <3>1, <4>1, MinOfTwo
        <5>2. QED
          BY <3>1, <4>1, <5>1
      <4> HIDE DEF ms
      <4>3. ms \div 1000 \in Int /\ ms % 1000 \in Int
        BY <4>2
      <4>4. Seconds(ms) \in Int
        BY <4>3 DEF Seconds
      <4>5. Remaining(op, now, view) = IF op.milliseconds THEN ms ELSE Seconds(ms)
        BY <3>3 DEF Remaining, ms, left
      <4>6. QED
        BY <4>2, <4>4, <4>5
    <3>4. QED
      BY <3>2, <3>3
  <2>3. QED
    BY <1>0, <2>1, <2>2 DEF NewReply, Replies
<1>8. CASE op \in KeysOperations
  <2>1. /\ op.type \in {"delete", "exists", "multi_get"} /\ op.keys \in Seq(Keys)
        /\ operation_keys(op) = op.keys
    BY <1>8 DEF KeysOperations, operation_keys
  <2>2. CASE op.type = "delete"
    <3>1. IsFiniteSet(KeySet(op))
      BY KeySetFinite
    <3>2. {k \in KeySet(op) : Present(view, k)} \in SUBSET KeySet(op)
      OBVIOUS
    <3>3. Cardinality({k \in KeySet(op) : Present(view, k)}) \in Int
      BY <3>1, <3>2, FS_Subset, FS_CardinalityType
    <3>4. QED
      BY <1>0, <2>2, <3>3 DEF NewReply, Replies
  <2>3. CASE op.type = "exists"
    <3>1. IsFiniteSet(DOMAIN op.keys)
      BY <2>1, FS_Interval
    <3>2. {i \in DOMAIN op.keys : Present(view, op.keys[i])} \in SUBSET DOMAIN op.keys
      OBVIOUS
    <3>3. Cardinality({i \in DOMAIN op.keys : Present(view, op.keys[i])}) \in Int
      BY <3>1, <3>2, FS_Subset, FS_CardinalityType
    <3>4. QED
      BY <1>0, <2>3, <3>3 DEF NewReply, Replies
  <2>4. CASE op.type = "multi_get"
    <3>1. [i \in DOMAIN op.keys |-> ValueIn(view, op.keys[i])] \in Seq(Values \cup {None})
      BY <1>2, <2>1
    <3>2. QED
      BY <1>0, <2>4, <3>1 DEF NewReply, Replies
  <2>5. QED
    BY <2>1, <2>2, <2>3, <2>4
<1>9. CASE op \in MultiSetOperations
  BY <1>0, <1>9 DEF MultiSetOperations, NewReply, Replies
<1>10. QED
  BY <1>3, <1>4, <1>5, <1>6, <1>7, <1>8, <1>9 DEF Operations

\* Reply::encoded_len is defined for each of them, and none is an error.
LEMMA ReplyLength ==
    ASSUME NEW reply \in Replies
    PROVE  encoded_len(reply) \in Nat /\ \A code : reply # Error(code)
<1>1. CASE reply = Ok
  <2>1. DOMAIN reply = {"simple"}
    BY <1>1 DEF Ok
  <2>2. encoded_len(reply) = 5
    BY <2>1, SMTT(30) DEF encoded_len
  <2>3. QED
    BY <2>1, <2>2 DEF Error
<1>2. ASSUME NEW n \in Int, reply = Integer(n)
      PROVE  encoded_len(reply) \in Nat /\ \A code : reply # Error(code)
  <2>1. DOMAIN reply = {"integer"} /\ reply.integer = n /\ "integer" # "simple"
    BY <1>2 DEF Integer
  <2>2. encoded_len(reply) = DecimalLen(n) + 3
    BY <2>1 DEF encoded_len
  <2>3. QED
    BY <2>1, <2>2, DecimalLenType DEF Error
<1>3. ASSUME NEW v \in Values \cup {None}, reply = Bulk(v)
      PROVE  encoded_len(reply) \in Nat /\ \A code : reply # Error(code)
  <2>1. DOMAIN reply = {"bulk"} /\ reply.bulk = v
    BY <1>3 DEF Bulk
  <2>2. encoded_len(reply) = BulkLen(v)
    BY <2>1 DEF encoded_len
  <2>3. QED
    BY <2>1, <2>2, BulkLenType DEF Error
<1>4. ASSUME NEW s \in Seq(Values \cup {None}), reply = Array(s)
      PROVE  encoded_len(reply) \in Nat /\ \A code : reply # Error(code)
  <2> DEFINE f == [i \in DOMAIN s |-> BulkLen(s[i])]
  <2>1. encoded_len(reply) = decimal_digits[Len(s)] + 3 + SumFunction(f)
    BY <1>4 DEF encoded_len, Array
  <2>2. Len(s) \in Nat /\ DOMAIN s = 1 .. Len(s) /\ IsFiniteSet(DOMAIN s)
    BY FS_Interval
  <2>3. \A i \in DOMAIN s : f[i] \in Nat
    BY <2>2, BulkLenType
  <2>4. DOMAIN f = DOMAIN s
    OBVIOUS
  <2> HIDE DEF f
  <2>5. SumFunctionOnSet(f, DOMAIN s) \in Nat
    BY <2>2, <2>3, SumType
  <2>6. SumFunction(f) \in Nat
    BY <2>4, <2>5 DEF SumFunction
  <2>7. QED
    <3>1. DOMAIN reply = {"array"}
      BY <1>4 DEF Array
    <3>2. decimal_digits[Len(s)] \in Nat
      BY <2>2, DigitsType
    <3>3. QED
      <4>1. encoded_len(reply) \in Nat
        BY <2>1, <2>6, <3>2
      <4>2. \A code : DOMAIN Error(code) = {"error"}
        BY DEF Error
      <4>3. {"error"} # {"array"}
        OBVIOUS
      <4>4. QED
        BY <3>1, <4>1, <4>2, <4>3
<1>5. QED
  BY <1>1, <1>2, <1>3, <1>4 DEF Replies

(***************************************************************************)
(* The payload of an operation.                                            *)
(***************************************************************************)
\* A sum of naturals over the positions of a sequence.
LEMMA SequenceSumType ==
    ASSUME NEW n \in Nat, NEW f, DOMAIN f = 1 .. n, \A i \in 1 .. n : f[i] \in Nat
    PROVE  SumFunction(f) \in Nat
<1>1. IsFiniteSet(1 .. n)
  BY FS_Interval
<1>2. SumFunctionOnSet(f, 1 .. n) \in Nat
  BY <1>1, SumType
<1>3. QED
  BY <1>2 DEF SumFunction

\* Operation::payload_bytes is a number of bytes.
LEMMA OperationBytesType ==
    ASSUME NEW op \in Operations
    PROVE  operation_payload_bytes(op) \in Nat
<1> DEFINE s == operation_keys(op)
           f == [i \in DOMAIN s |-> KeyLen[s[i]]]
           g == [i \in DOMAIN op.pairs |-> ValueLen(op.pairs[i][2])]
           rest == CASE op.type = "set" -> ValueLen(op.value)
                     [] op.type = "multi_set" -> SumFunction(g)
                     [] OTHER -> 0
<1>1. s \in Seq(Keys)
  BY OperationKeysType
<1>2. SumFunction(f) \in Nat
  <2>1. Len(s) \in Nat /\ DOMAIN f = 1 .. Len(s)
    BY <1>1
  <2>2. \A i \in 1 .. Len(s) : f[i] \in Nat
    BY <1>1, CommandsAssumption
  <2> HIDE DEF f, s
  <2>3. QED
    BY <2>1, <2>2, SequenceSumType
<1>3. CASE op.type = "set"
  <2>1. op.value \in Values
    BY <1>3 DEF Operations, KeyOperations, SetOperations, IncrementOperations, ExpireOperations,
                TtlOperations, KeysOperations, MultiSetOperations
  <2>2. ValueLen(op.value) \in Nat
    BY <2>1, ValueLenType
  <2>3. rest \in Nat
    BY <1>3, <2>2
  <2> HIDE DEF rest, f
  <2>4. QED
    BY <1>2, <2>3 DEF operation_payload_bytes, rest, f
<1>4. CASE op.type = "multi_set"
  <2>1. op.pairs \in Seq(Keys \X Values)
    BY <1>4 DEF Operations, KeyOperations, SetOperations, IncrementOperations, ExpireOperations,
                TtlOperations, KeysOperations, MultiSetOperations
  <2>2. Len(op.pairs) \in Nat /\ DOMAIN g = 1 .. Len(op.pairs)
    BY <2>1
  <2>3. \A i \in 1 .. Len(op.pairs) : g[i] \in Nat
    BY <2>1, ValueLenType
  <2> HIDE DEF g
  <2>4. SumFunction(g) \in Nat
    BY <2>2, <2>3, SequenceSumType
  <2>5. rest \in Nat
    BY <1>4, <2>4
  <2> HIDE DEF rest, f
  <2>6. QED
    BY <1>2, <2>5 DEF operation_payload_bytes, rest, f, g
<1>5. CASE op.type \notin {"set", "multi_set"}
  <2>1. rest = 0
    BY <1>5
  <2> HIDE DEF rest, f
  <2>2. QED
    BY <1>2, <2>1 DEF operation_payload_bytes, rest, f
<1>6. QED
  BY <1>3, <1>4, <1>5
=============================================================================
