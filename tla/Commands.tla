------------------------------ MODULE Commands ------------------------------
(***************************************************************************)
(* The data commands of recall-core (command.rs), the replies of           *)
(* recall-protocol they produce, and their reference meaning: what one     *)
(* command does to a single table of live keys at one instant.  The        *)
(* meaning says nothing of tombstones, prepared effects, owners or byte    *)
(* budgets; it is what the detailed modules are compared with.             *)
(*                                                                         *)
(* Strings are abstracted to what the code tells apart.  A value is either *)
(* the canonical decimal of an i64, represented by the integer itself, or  *)
(* a text that `integer` refuses, a member of Texts.  Lengths stay: they   *)
(* are what the byte budgets count.                                        *)
(***************************************************************************)
EXTENDS Integers, Sequences, FiniteSets, FiniteSetsExt

CONSTANTS
    Keys,       \* the keys clients use
    KeyLen,     \* KeyLen[k]: bytes of key k
    Texts,      \* the values that are not the canonical decimal of an i64
    TextLen,    \* TextLen[t]: bytes of text t
    I64Max,     \* i64::MAX; i64::MIN is -I64Max - 1
    None        \* Option::None, and the value of a missing key

I64Min == -I64Max - 1

I64 == I64Min .. I64Max

ASSUME CommandsAssumption ==
    /\ KeyLen \in [Keys -> Nat]
    /\ TextLen \in [Texts -> Nat]
    /\ I64Max \in Nat /\ I64Max >= 1
    /\ Texts \cap I64 = {}
    /\ None \notin I64 \cup Texts
    /\ None \notin {"invalid_expire", "not_integer", "overflow"}

Values == I64 \cup Texts

(***************************************************************************)
(* Lengths.                                                                *)
(***************************************************************************)
decimal_digits[n \in Nat] == IF n < 10 THEN 1 ELSE 1 + decimal_digits[n \div 10]

Negative(n) == IF n < 0 THEN 1 ELSE 0

DecimalLen(n) == decimal_digits[IF n < 0 THEN -n ELSE n] + Negative(n)

ValueLen(v) == IF v \in Texts THEN TextLen[v] ELSE DecimalLen(v)

(***************************************************************************)
(* Replies.  A multi-get array holds bulk strings only, so an element of   *)
(* the array is the bulk's value, None for the null bulk.                  *)
(***************************************************************************)
Ok == [simple |-> "OK"]

Integer(n) == [integer |-> n]

Bulk(v) == [bulk |-> v]

Array(s) == [array |-> s]

Error(code) == [error |-> code]

BulkLen(v) ==
    IF v = None THEN 5 ELSE decimal_digits[ValueLen(v)] + 5 + ValueLen(v)

\* Reply::encoded_len of the replies a command produces.
encoded_len(reply) ==
    CASE DOMAIN reply = {"simple"}  -> 2 + 3
      [] DOMAIN reply = {"integer"} -> DecimalLen(reply.integer) + 3
      [] DOMAIN reply = {"bulk"}    -> BulkLen(reply.bulk)
      [] OTHER -> decimal_digits[Len(reply.array)] + 3
                    + SumFunction([i \in DOMAIN reply.array |-> BulkLen(reply.array[i])])

(***************************************************************************)
(* Operations.                                                             *)
(***************************************************************************)
Conditions == {"always", "if_absent", "if_present"}

Expiries == {"clear", "keep", "after"}

KeyOperations == [type : {"get", "persist"}, key : Keys]

SetOperations ==
    [type : {"set"}, key : Keys, value : Values, condition : Conditions,
     expiry : Expiries, milliseconds : I64]

IncrementOperations == [type : {"increment"}, key : Keys, amount : I64, subtract : BOOLEAN]

ExpireOperations == [type : {"expire"}, key : Keys, milliseconds : I64]

TtlOperations == [type : {"ttl"}, key : Keys, milliseconds : BOOLEAN]

KeysOperations == [type : {"delete", "exists", "multi_get"}, keys : Seq(Keys)]

MultiSetOperations == [type : {"multi_set"}, pairs : Seq(Keys \X Values)]

Operations ==
    KeyOperations \cup SetOperations \cup IncrementOperations \cup ExpireOperations
        \cup TtlOperations \cup KeysOperations \cup MultiSetOperations

\* Operation::keys.
operation_keys(op) ==
    CASE op.type \in {"delete", "exists", "multi_get"} -> op.keys
      [] op.type = "multi_set" -> [i \in DOMAIN op.pairs |-> op.pairs[i][1]]
      [] OTHER -> <<op.key>>

KeySet(op) == {operation_keys(op)[i] : i \in DOMAIN operation_keys(op)}

\* Operation::payload_bytes.
operation_payload_bytes(op) ==
    SumFunction([i \in DOMAIN operation_keys(op) |-> KeyLen[operation_keys(op)[i]]])
      + CASE op.type = "set" -> ValueLen(op.value)
          [] op.type = "multi_set" ->
               SumFunction([i \in DOMAIN op.pairs |-> ValueLen(op.pairs[i][2])])
          [] OTHER -> 0

(***************************************************************************)
(* Entries.                                                                *)
(***************************************************************************)
Entry(value, deadline) == [value |-> value, expires_at_ms |-> deadline]

Entries == [value : Values, expires_at_ms : I64 \cup {None}]

ASSUME EntriesAssumption == None \notin Entries

\* A deadline that has been reached: the test observe, expired and expire_due share.
Due(entry, now) == entry.expires_at_ms # None /\ entry.expires_at_ms <= now

(***************************************************************************)
(* Reference meaning.  A view gives every key its live entry or None.      *)
(***************************************************************************)
View(entries, now) ==
    [k \in Keys |->
        IF k \in DOMAIN entries /\ ~Due(entries[k], now) THEN entries[k] ELSE None]

Present(view, k) == view[k] # None

\* A key that keeps its value has its deadline replaced.
WithDeadline(entry, deadline) == [entry EXCEPT !.expires_at_ms = deadline]

Numeric(view, k) == view[k] = None \/ view[k].value \in I64

Current(view, k) == IF view[k] = None THEN 0 ELSE view[k].value

Deadline(view, k) == IF view[k] = None THEN None ELSE view[k].expires_at_ms

Delta(op) == IF op.subtract THEN -op.amount ELSE op.amount

\* The reason a command is refused whatever the state of the memory budgets;
\* None when it is carried out.
Refusal(op, now, view) ==
    CASE op.type = "set" ->
           IF op.expiry = "after" /\ (op.milliseconds <= 0 \/ now + op.milliseconds \notin I64)
           THEN "invalid_expire" ELSE None
      [] op.type = "increment" ->
           IF Delta(op) \notin I64 THEN "overflow"
           ELSE IF ~Numeric(view, op.key) THEN "not_integer"
           ELSE IF Current(view, op.key) + Delta(op) \notin I64 THEN "overflow"
           ELSE None
      [] op.type = "expire" ->
           IF Present(view, op.key) /\ op.milliseconds > 0 /\ now + op.milliseconds \notin I64
           THEN "invalid_expire" ELSE None
      [] OTHER -> None

\* A conditional SET goes ahead.
Permitted(op, view) ==
    /\ op.condition = "if_absent" => ~Present(view, op.key)
    /\ op.condition = "if_present" => Present(view, op.key)

LastValue(pairs, k) ==
    pairs[Max({i \in DOMAIN pairs : pairs[i][1] = k})][2]

\* The live entry of key k after op, for a key that op names.
NewEntry(op, now, view, k) ==
    CASE op.type = "set" ->
           IF ~Permitted(op, view) THEN view[k]
           ELSE Entry(op.value, CASE op.expiry = "clear" -> None
                                  [] op.expiry = "keep"  -> Deadline(view, k)
                                  [] op.expiry = "after" -> now + op.milliseconds)
      [] op.type = "increment" -> Entry(Current(view, k) + Delta(op), Deadline(view, k))
      [] op.type = "delete"    -> None
      [] op.type = "multi_set" -> Entry(LastValue(op.pairs, k), None)
      [] op.type = "expire" ->
           IF view[k] = None \/ op.milliseconds <= 0 THEN None
           ELSE WithDeadline(view[k], now + op.milliseconds)
      [] op.type = "persist" ->
           IF view[k] = None THEN None ELSE WithDeadline(view[k], None)
      [] OTHER -> view[k]

\* The live table after op.
NewView(op, now, view) ==
    [k \in Keys |-> IF k \in KeySet(op) THEN NewEntry(op, now, view, k) ELSE view[k]]

ValueIn(view, k) == IF view[k] = None THEN None ELSE view[k].value

\* Whole seconds, rounded to the nearest.
Seconds(ms) == ms \div 1000 + (IF ms % 1000 >= 500 THEN 1 ELSE 0)

Remaining(op, now, view) ==
    LET k == op.key
        ms == Min({view[k].expires_at_ms - now, I64Max})
    IN  IF view[k] = None THEN -2
        ELSE IF view[k].expires_at_ms = None THEN -1
        ELSE IF op.milliseconds THEN ms ELSE Seconds(ms)

Truth(b) == IF b THEN 1 ELSE 0

\* The reply to op.
NewReply(op, now, view) ==
    CASE op.type = "get" -> Bulk(ValueIn(view, op.key))
      [] op.type = "set" -> IF Permitted(op, view) THEN Ok ELSE Bulk(None)
      [] op.type = "increment" -> Integer(Current(view, op.key) + Delta(op))
      [] op.type = "delete" -> Integer(Cardinality({k \in KeySet(op) : Present(view, k)}))
      [] op.type = "exists" ->
           Integer(Cardinality({i \in DOMAIN op.keys : Present(view, op.keys[i])}))
      [] op.type = "multi_get" ->
           Array([i \in DOMAIN op.keys |-> ValueIn(view, op.keys[i])])
      [] op.type = "multi_set" -> Ok
      [] op.type = "expire" -> Integer(Truth(Present(view, op.key)))
      [] op.type = "ttl" -> Integer(Remaining(op, now, view))
      [] op.type = "persist" ->
           Integer(Truth(Present(view, op.key) /\ Deadline(view, op.key) # None))
=============================================================================
