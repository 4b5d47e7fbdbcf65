------------------------------- MODULE Parser -------------------------------
(***************************************************************************)
(* parse and its helpers in recall-core/src/command.rs: from the arguments *)
(* of one request to a command.  An argument is a token; of its bytes the  *)
(* parser looks at the spelling without case, the integer it is the        *)
(* canonical decimal of, its length, and whether it is printable.  Each    *)
(* iteration of the option loops of SET and HELLO is a step.               *)
(*                                                                         *)
(* Arguments count from 1 here and from 0 in the code.                     *)
(***************************************************************************)
EXTENDS Integers, Sequences, FiniteSets

CONSTANTS
    Tokens,                 \* the arguments
    Lower,                  \* Lower[t]: t in lower case
    IntegerOf,              \* IntegerOf[t]: the i64 t is the decimal of, or None
    Length,                 \* Length[t]: bytes of t
    Printable,              \* the tokens without spaces and control characters
    Inputs,                 \* the requests explored
    I64Max,
    MaxKeyBytes,            \* ParseLimits
    MaxValueBytes,
    MaxClientMetadataBytes,
    None

\* Arguments that differ in case only stand for the same integer, or for none.
ASSUME ParserAssumption ==
    /\ Lower \in [Tokens -> STRING]
    /\ I64Max \in Nat
    /\ IntegerOf \in [Tokens -> -I64Max - 1 .. I64Max \cup {None}]
    /\ Length \in [Tokens -> Nat]
    /\ Printable \subseteq Tokens
    /\ MaxKeyBytes \in Nat /\ MaxValueBytes \in Nat /\ MaxClientMetadataBytes \in Nat
    /\ \A s, t \in Tokens : Lower[s] = Lower[t] => IntegerOf[s] = IntegerOf[t]
    /\ Inputs \subseteq Seq(Tokens) \ {<<>>}
    /\ None \notin Int \cup {"unknown", "arity"} \cup Tokens \cup Tokens \X Tokens

\* The operations, and the keys they name.
C == INSTANCE Commands WITH Keys <- Tokens, KeyLen <- Length, Texts <- Tokens,
                            TextLen <- Length

Keyless(arity) == [arity |-> arity, write |-> FALSE, first_key |-> 0, last_key |-> 0,
                   key_step |-> 0]

OneKey(arity, write) == [arity |-> arity, write |-> write, first_key |-> 1, last_key |-> 1,
                         key_step |-> 1]

ManyKeys(arity, write) == [OneKey(arity, write) EXCEPT !.last_key = -1]

PairedKeys(arity) == [ManyKeys(arity, TRUE) EXCEPT !.key_step = 2]

SPECS ==
    [ping |-> Keyless(-1), echo |-> Keyless(2), quit |-> Keyless(1), auth |-> Keyless(-2),
     hello |-> Keyless(-1), select |-> Keyless(2),
     get |-> OneKey(2, FALSE), set |-> OneKey(-3, TRUE),
     incr |-> OneKey(2, TRUE), incrby |-> OneKey(3, TRUE),
     decr |-> OneKey(2, TRUE), decrby |-> OneKey(3, TRUE),
     del |-> ManyKeys(-2, TRUE), exists |-> ManyKeys(-2, FALSE),
     mget |-> ManyKeys(-2, FALSE), mset |-> PairedKeys(-3),
     expire |-> OneKey(3, TRUE), pexpire |-> OneKey(3, TRUE),
     ttl |-> OneKey(2, FALSE), pttl |-> OneKey(2, FALSE), persist |-> OneKey(2, TRUE),
     command |-> Keyless(-1), client |-> Keyless(-2), info |-> Keyless(-1)]

\* One entry of a COMMAND reply.
spec_reply(name) ==
    LET spec == SPECS[name]
    IN  [name |-> name, arity |-> spec.arity,
         flags |-> IF spec.first_key = 0 THEN {} ELSE {IF spec.write THEN "write" ELSE "readonly"},
         first_key |-> spec.first_key, last_key |-> spec.last_key, key_step |-> spec.key_step]

\* COMMAND, COMMAND COUNT and COMMAND INFO.  The list of every command is a set
\* here: its order carries no meaning.
metadata(command, names) ==
    CASE command = "count" -> Cardinality(DOMAIN SPECS)
      [] command = "all" \/ names = <<>> -> {spec_reply(name) : name \in DOMAIN SPECS}
      [] OTHER -> [i \in DOMAIN names |->
                     IF Lower[names[i]] \in DOMAIN SPECS THEN spec_reply(Lower[names[i]]) ELSE None]

VARIABLES
    a,          \* the arguments
    pc,         \* "name", "set", "hello", "done"
    index,      \* the next option
    partial,    \* the options so far
    result

vars == <<a, pc, index, partial, result>>

Name == Lower[a[1]]

Rest == SubSeq(a, 2, Len(a))

\* Slice::get.
Arg(i) == IF i <= Len(a) THEN a[i] ELSE None

Failed(code) == [ok |-> FALSE, error |-> code]

Parsed(command) == [ok |-> TRUE, command |-> command]

\* The last check of parse, on data commands only.
Limited(operation) ==
    LET keys == C!operation_keys(operation)
        values == CASE operation.type = "set" -> {operation.value}
                    [] operation.type = "multi_set" ->
                         {operation.pairs[i][2] : i \in DOMAIN operation.pairs}
                    [] OTHER -> {}
    IN  IF \E i \in DOMAIN keys : Length[keys[i]] > MaxKeyBytes THEN Failed("key_limit")
        ELSE IF \E v \in values : Length[v] > MaxValueBytes THEN Failed("value_limit")
        ELSE Parsed([type |-> "data", operation |-> operation])

\* checked_mul(1000) of a duration in seconds; None when it overflows.
checked_mul(seconds) ==
    IF seconds * 1000 \in -I64Max - 1 .. I64Max THEN seconds * 1000 ELSE None

client_name(token) == Length[token] <= MaxClientMetadataBytes /\ token \in Printable

(***************************************************************************)
(* The commands without an option loop.                                    *)
(***************************************************************************)
Keyed(type) == Limited([type |-> type, key |-> a[2]])

Listed(type) == Limited([type |-> type, keys |-> Rest])

Increment ==
    LET amount == IF Len(a) = 3 THEN IntegerOf[a[3]] ELSE 1
    IN  IF amount = None THEN Failed("integer")
        ELSE Limited([type |-> "increment", key |-> a[2], amount |-> amount,
                      subtract |-> Name \in {"decr", "decrby"}])

\* Mutant: the keys come first, then the values.
PairsKeysFirst ==
    [i \in 1 .. (Len(a) - 1) \div 2 |-> <<a[i + 1], a[i + 1 + (Len(a) - 1) \div 2]>>]

Pairs == [i \in 1 .. (Len(a) - 1) \div 2 |-> <<a[2 * i], a[2 * i + 1]>>]

Expire ==
    LET value == IntegerOf[a[3]]
        milliseconds == IF Name = "expire" THEN checked_mul(value) ELSE value
    IN  IF value = None THEN Failed("integer")
        ELSE IF milliseconds = None THEN Failed("expire")
        ELSE Limited([type |-> "expire", key |-> a[2], milliseconds |-> milliseconds])

parse_client ==
    LET command == Lower[a[2]]
    IN  CASE command = "getname" /\ Len(a) = 2 -> Parsed([type |-> "client_getname"])
          [] command = "setname" /\ Len(a) = 3 ->
               IF client_name(a[3]) THEN Parsed([type |-> "client_setname", name |-> a[3]])
               ELSE Failed("client_name")
          [] command = "setinfo" /\ Len(a) = 4 ->
               IF ~client_name(a[4]) THEN Failed("client_name")
               ELSE IF Lower[a[3]] = "lib-name"
               THEN Parsed([type |-> "client_lib_name", name |-> a[4]])
               ELSE IF Lower[a[3]] = "lib-ver"
               THEN Parsed([type |-> "client_lib_ver", name |-> a[4]])
               ELSE Failed("setinfo")
          [] OTHER -> Failed("client")

Auth(username, password) ==
    Parsed([type |-> "auth", username |-> username, password |-> password])

Metadata(command, names) == Parsed([type |-> "metadata", command |-> command, names |-> names])

Dispatch ==
    CASE Name = "ping" /\ Len(a) <= 2 -> Parsed([type |-> "ping", value |-> Arg(2)])
      [] Name = "echo" -> Parsed([type |-> "echo", value |-> a[2]])
      [] Name = "quit" -> Parsed([type |-> "quit"])
      [] Name \in {"get", "persist"} -> Keyed(Name)
      [] Name \in {"incr", "decr", "incrby", "decrby"} -> Increment
      [] Name = "del" -> Listed("delete")
      [] Name = "exists" -> Listed("exists")
      [] Name = "mget" -> Listed("multi_get")
      [] Name = "mset" /\ Len(a) % 2 = 1 -> Limited([type |-> "multi_set", pairs |-> Pairs])
      [] Name \in {"expire", "pexpire"} -> Expire
      [] Name \in {"ttl", "pttl"} ->
           Limited([type |-> "ttl", key |-> a[2], milliseconds |-> Name = "pttl"])
      [] Name = "auth" /\ Len(a) = 2 -> Auth(None, a[2])
      [] Name = "auth" /\ Len(a) = 3 -> Auth(a[2], a[3])
      [] Name = "select" ->
           IF IntegerOf[a[2]] = None THEN Failed("integer")
           ELSE Parsed([type |-> "select", index |-> IntegerOf[a[2]]])
      [] Name = "client" -> parse_client
      [] Name = "command" /\ Len(a) = 1 -> Metadata("all", <<>>)
      [] Name = "command" /\ Len(a) = 2 /\ Lower[Arg(2)] = "count" -> Metadata("count", <<>>)
      [] Name = "command" /\ Len(a) >= 2 /\ Lower[Arg(2)] = "info" ->
           Metadata("info", SubSeq(a, 3, Len(a)))
      [] Name = "info" /\ Len(a) <= 2 -> Parsed([type |-> "info", section |-> Arg(2)])
      [] OTHER -> Failed("syntax")

(***************************************************************************)
(* parse: a step for the name, and one for each option.                    *)
(***************************************************************************)
Init ==
    /\ a \in Inputs
    /\ pc = "name"
    /\ index = 0
    /\ partial = None
    /\ result = None

Finish(outcome) == result' = outcome /\ pc' = "done" /\ UNCHANGED <<a, index, partial>>

\* The error of the table lookup, or None.
LookupError ==
    IF Name \notin DOMAIN SPECS THEN "unknown"
    ELSE LET arity == SPECS[Name].arity
         IN  IF (arity > 0 /\ Len(a) # arity) \/ (arity < 0 /\ Len(a) < -arity)
             THEN "arity" ELSE None

Lookup ==
    /\ pc = "name"
    /\ LookupError # None
    /\ Finish(Failed(LookupError))

ParseSimple ==
    /\ pc = "name"
    /\ LookupError = None /\ Name \notin {"set", "hello"}
    /\ Finish(Dispatch)

EnterSet ==
    /\ pc = "name"
    /\ LookupError = None /\ Name = "set"
    /\ partial' = [condition |-> "always", expiry |-> "clear", milliseconds |-> 0]
    /\ index' = 4
    /\ pc' = "set"
    /\ UNCHANGED <<a, result>>

Option(loop) == pc = loop /\ index <= Len(a)

\* The loop goes on n arguments further.
Advance(n, options) ==
    /\ partial' = options
    /\ index' = index + n
    /\ UNCHANGED <<a, pc, result>>

SetCondition ==
    /\ Option("set")
    /\ Lower[a[index]] \in {"nx", "xx"}
    /\ IF partial.condition # "always" THEN Finish(Failed("syntax"))
       ELSE Advance(1, [partial EXCEPT !.condition = IF Lower[a[index]] = "nx"
                                                     THEN "if_absent" ELSE "if_present"])

\* Mutant: KEEPTTL silently replaces an EX or PX before it.
SetKeepReplaces ==
    /\ Option("set")
    /\ Lower[a[index]] = "keepttl"
    /\ Advance(1, [partial EXCEPT !.expiry = "keep", !.milliseconds = 0])

SetKeep ==
    /\ Option("set")
    /\ Lower[a[index]] = "keepttl"
    /\ IF partial.expiry # "clear" THEN Finish(Failed("syntax"))
       ELSE Advance(1, [partial EXCEPT !.expiry = "keep"])

SetExpiry ==
    /\ Option("set")
    /\ Lower[a[index]] \in {"ex", "px"}
    /\ IF partial.expiry # "clear" \/ index = Len(a) THEN Finish(Failed("syntax"))
       ELSE LET value == IntegerOf[a[index + 1]]
                duration == IF Lower[a[index]] = "ex" THEN checked_mul(value) ELSE value
            IN  IF value = None THEN Finish(Failed("integer"))
                ELSE IF duration = None THEN Finish(Failed("expire"))
                ELSE IF duration <= 0 THEN Finish(Failed("expire"))
                ELSE Advance(2, [partial EXCEPT !.expiry = "after", !.milliseconds = duration])

SetOther ==
    /\ Option("set")
    /\ Lower[a[index]] \notin {"nx", "xx", "keepttl", "ex", "px"}
    /\ Finish(Failed("syntax"))

LeaveSet ==
    /\ pc = "set" /\ index > Len(a)
    /\ Finish(Limited([type |-> "set", key |-> a[2], value |-> a[3],
                       condition |-> partial.condition, expiry |-> partial.expiry,
                       milliseconds |-> partial.milliseconds]))

EnterHello ==
    /\ pc = "name"
    /\ LookupError = None /\ Name = "hello"
    /\ IF Len(a) >= 2 /\ IntegerOf[Arg(2)] = None THEN Finish(Failed("integer"))
       ELSE /\ partial' = [auth |-> None, name |-> None,
                           protocol |-> IF Len(a) >= 2 THEN IntegerOf[a[2]] ELSE None]
            /\ index' = 3
            /\ pc' = "hello"
            /\ UNCHANGED <<a, result>>

\* Mutant: a second AUTH replaces the first.
AuthOptionRepeats ==
    Option("hello") /\ Lower[a[index]] = "auth" /\ index + 2 <= Len(a)

AuthOption ==
    /\ Option("hello") /\ Lower[a[index]] = "auth"
    /\ partial.auth = None /\ index + 2 <= Len(a)

NameOption ==
    /\ Option("hello") /\ Lower[a[index]] = "setname"
    /\ partial.name = None /\ index + 1 <= Len(a)

HelloAuth ==
    /\ AuthOption
    /\ Advance(3, [partial EXCEPT !.auth = <<a[index + 1], a[index + 2]>>])

HelloName ==
    /\ NameOption
    /\ IF client_name(a[index + 1]) THEN Advance(2, [partial EXCEPT !.name = a[index + 1]])
       ELSE Finish(Failed("client_name"))

HelloOther ==
    /\ Option("hello")
    /\ ~AuthOption /\ ~NameOption
    /\ Finish(Failed("syntax"))

LeaveHello ==
    /\ pc = "hello" /\ index > Len(a)
    /\ Finish(Parsed([type |-> "hello", protocol |-> partial.protocol,
                      auth |-> partial.auth, name |-> partial.name]))

Done == pc = "done" /\ UNCHANGED vars

Next ==
    \/ Lookup \/ ParseSimple
    \/ EnterSet \/ SetCondition \/ SetKeep \/ SetExpiry \/ SetOther \/ LeaveSet
    \/ EnterHello \/ HelloAuth \/ HelloName \/ HelloOther \/ LeaveHello
    \/ Done

Spec == Init /\ [][Next]_vars

-----------------------------------------------------------------------------
(***************************************************************************)
(* Reference: the spellings of an assignment and of a greeting.            *)
(***************************************************************************)
LowerCase(s) == [i \in DOMAIN s |-> Lower[s[i]]]

EitherOrder(S, T) == {s \o t : s \in S, t \in T} \cup {t \o s : s \in S, t \in T}

ConditionWords(condition) ==
    CASE condition = "always"     -> {<<>>}
      [] condition = "if_absent"  -> {<<"nx">>}
      [] condition = "if_present" -> {<<"xx">>}

Numerals == {t \in Tokens : IntegerOf[t] # None}

ExpiryWords(expiry, milliseconds) ==
    CASE expiry = "clear" -> {<<>>}
      [] expiry = "keep"  -> {<<"keepttl">>}
      [] expiry = "after" ->
           {<<"px", Lower[t]>> : t \in {n \in Numerals : IntegerOf[n] = milliseconds}}
             \cup {<<"ex", Lower[t]>> : t \in {n \in Numerals : IntegerOf[n] * 1000 = milliseconds}}

Durations ==
    ({IntegerOf[t] : t \in Numerals} \cup {IntegerOf[t] * 1000 : t \in Numerals}) \cap 1 .. I64Max

\* What the options of an assignment may mean: {} or one element.
Assignments(options) ==
    {m \in [condition : C!Conditions, expiry : {"clear", "keep"}, milliseconds : {0}]
             \cup [condition : C!Conditions, expiry : {"after"}, milliseconds : Durations] :
        LowerCase(options) \in EitherOrder(ConditionWords(m.condition),
                                           ExpiryWords(m.expiry, m.milliseconds))}

\* AUTH and SETNAME may be written in any case; what follows them stands as it is.
Spelt(word) == {t \in Tokens : Lower[t] = word}

AuthWords(auth) ==
    IF auth = None THEN {<<>>} ELSE {<<t, auth[1], auth[2]>> : t \in Spelt("auth")}

NameWords(name) == IF name = None THEN {<<>>} ELSE {<<t, name>> : t \in Spelt("setname")}

\* What the options of a greeting may mean: {} or one element.
Greetings(options) ==
    LET words == {options[i] : i \in DOMAIN options}
    IN  {m \in [auth : (words \X words) \cup {None}, name : words \cup {None}] :
            options \in EitherOrder(AuthWords(m.auth), NameWords(m.name))}

LegalName(name) == name = None \/ (name \in Printable /\ Length[name] <= MaxClientMetadataBytes)

-----------------------------------------------------------------------------
Finished(name) == pc = "done" /\ Name = name /\ Len(a) >= -SPECS[name].arity

\* SET accepts exactly at most one condition and at most one expiration choice,
\* in either order and any case, with a positive duration that fits an i64 in
\* milliseconds; and what it accepts is what those options say.
SetMeansItsOptions ==
    Finished("set") =>
        LET meanings == Assignments(SubSeq(a, 4, Len(a)))
        IN  /\ result.ok <=> meanings # {} /\ Length[a[2]] <= MaxKeyBytes
                                           /\ Length[a[3]] <= MaxValueBytes
            /\ result.ok =>
                 \A m \in meanings : result.command.operation =
                    [type |-> "set", key |-> a[2], value |-> a[3], condition |-> m.condition,
                     expiry |-> m.expiry, milliseconds |-> m.milliseconds]

\* HELLO accepts exactly a version, then credentials and a legal name at most
\* once each, in either order, behind AUTH and SETNAME in any case; and the command
\* it builds holds that version and those credentials and that name as they were
\* written, case included.
HelloMeansItsOptions ==
    Finished("hello") =>
        LET meanings == {m \in Greetings(SubSeq(a, 3, Len(a))) : LegalName(m.name)}
            version == IF Len(a) = 1 THEN None ELSE IntegerOf[a[2]]
        IN  /\ result.ok <=> meanings # {} /\ (version = None => Len(a) = 1)
            /\ result.ok =>
                 \A m \in meanings : result.command =
                    [type |-> "hello", protocol |-> version, auth |-> m.auth, name |-> m.name]

\* The operations that may change a key: expire, persist and delete among them.
Changing == {"set", "increment", "delete", "multi_set", "expire", "persist"}

\* What COMMAND INFO tells a client about a command is what the parser does with
\* it: the keys of every accepted data command are the arguments advertised, in
\* that order, at least one; a command advertised as readonly changes nothing and
\* one advertised as write may; and a command without keys reaches no shard.
KeysAsAdvertised ==
    pc = "done" /\ result.ok =>
        LET info == metadata("info", <<a[1]>>)[1]
            last == IF info.last_key < 0 THEN Len(a) + info.last_key ELSE info.last_key
            operation == result.command.operation
            keys == C!operation_keys(operation)
        IN  /\ result.command.type = "data" <=> info.first_key > 0
            /\ result.command.type = "data" =>
                 /\ info.flags = {IF operation.type \in Changing THEN "write" ELSE "readonly"}
                 /\ keys # <<>>
                 /\ Len(keys) = (last - info.first_key) \div info.key_step + 1
                 /\ \A i \in DOMAIN keys :
                       keys[i] = a[1 + info.first_key + (i - 1) * info.key_step]
=============================================================================
