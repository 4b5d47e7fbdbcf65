------------------------------ MODULE Settings ------------------------------
(***************************************************************************)
(* How a process comes to its configuration: main in main.rs and load in   *)
(* settings.rs, one step per option of the command line and per line of    *)
(* the environment file.  A program that embeds the server (the tests do)  *)
(* hands Server::bind a configuration of its own instead.                  *)
(*                                                                         *)
(* A value is a token; of its text the code looks at the number it spells, *)
(* the address it spells, its length and its quotes.  The environment is   *)
(* what starts with RECALL_ in it.  A file is what opening and decoding    *)
(* gives: an error, or its lines.                                          *)
(***************************************************************************)
EXTENDS Config, Sequences, Functions

CONSTANTS
    Tokens,         \* the words on the command line and the values in the files
    NumberOf,       \* NumberOf[t]: the usize t spells in digits, or Unset
    LoopbackOf,     \* LoopbackOf[t]: whether address t is a loopback one; Unset: no address
    Length,         \* Length[t]: bytes of t
    CommandLines,   \* the argument sequences explored
    Environments,   \* the environments explored: names to tokens
    DotEnvs,        \* what .env may be: its state, and its lines where it can be read
    LocalEnvs,      \* what local.env may be
    Embedded        \* the configurations of programs that embed the server

\* The configurations of the type Config.
Configs ==
    [loopback : BOOLEAN, workers : Nat, io_threads : Nat, max_connections : Nat,
     queue_capacity : Nat, queue_bytes : Nat, admission_timeout : Nat, read_timeout : Nat,
     write_timeout : Nat, expiry_interval : Nat, expiry_batch : Nat, max_payload_bytes : Nat,
     keys_per_worker : Nat, max_reply_bytes : Nat,
     protocol : [max_frame_bytes : Nat, max_bulk_bytes : Nat, max_arguments : Nat,
                 max_header_bytes : Nat],
     commands : [max_key_bytes : Nat, max_value_bytes : Nat, max_client_metadata_bytes : Nat],
     password_bytes : Nat \cup {Unset}]

\* What a line of a file may be.
AnyLine ==
    [kind : {"blank", "malformed"}]
      \cup [kind : {"assign"}, name : STRING, open : STRING, value : Tokens, close : STRING]

ASSUME SettingsAssumption ==
    /\ NumberOf \in [Tokens -> Nat \cup {Unset}]
    /\ LoopbackOf \in [Tokens -> BOOLEAN \cup {Unset}]
    /\ Length \in [Tokens -> Nat]
    /\ CommandLines \subseteq Seq(Tokens)
    /\ \A e \in Environments : e \in [DOMAIN e -> Tokens]
    /\ DotEnvs \cup LocalEnvs \subseteq [state : STRING, lines : Seq(AnyLine)]
    /\ Embedded \subseteq Configs
    /\ Unset \notin Tokens \cup {"env", "local"}
    /\ Unset \notin {<<>>} \cup CommandLines
    /\ \A f \in DotEnvs \cup LocalEnvs : f.lines # Unset

MAX_ENV_LINE_BYTES == 2048

ENV_NAMES ==
    {"RECALL_BIND", "RECALL_WORKERS", "RECALL_IO_THREADS", "RECALL_MAX_MEMORY_MIB",
     "RECALL_KEYS_PER_WORKER", "RECALL_MAX_CONNECTIONS", "RECALL_QUEUE_BYTES_MIB",
     "RECALL_PASSWORD"}

\* The names of the options that take a value; there is none for the password.
OptionName ==
    [o \in {"--bind", "--workers", "--io-threads", "--max-memory-mib", "--keys-per-worker",
            "--max-connections", "--queue-bytes-mib"} |->
        CASE o = "--bind"            -> "RECALL_BIND"
          [] o = "--workers"         -> "RECALL_WORKERS"
          [] o = "--io-threads"      -> "RECALL_IO_THREADS"
          [] o = "--max-memory-mib"  -> "RECALL_MAX_MEMORY_MIB"
          [] o = "--keys-per-worker" -> "RECALL_KEYS_PER_WORKER"
          [] o = "--max-connections" -> "RECALL_MAX_CONNECTIONS"
          [] o = "--queue-bytes-mib" -> "RECALL_QUEUE_BYTES_MIB"]

VARIABLES
    arguments, environment, files,  \* the inputs; they do not change
    pc,         \* "main", "options", "environment", "file", "lines", "sources",
                \* "bind", "help", "running", "failed"
    index,      \* the next argument, or the next line
    options,    \* Options, and file_option_seen
    values,     \* the values read from the file
    config

inputs == <<arguments, environment, files>>

settings_vars == <<inputs, pc, index, options, values, config>>

SettingsInit ==
    /\ index = 1
    /\ options = [env_file |-> "env", explicit_file |-> FALSE, values |-> <<>>, seen |-> FALSE]
    /\ values = <<>>
    /\ \/ /\ arguments \in CommandLines
          /\ environment \in Environments
          /\ files \in [env : DotEnvs, local : LocalEnvs]
          /\ pc = "main" /\ config = Unset
       \/ /\ arguments = Unset /\ environment = Unset /\ files = Unset
          /\ pc = "bind" /\ config \in Embedded

Go(next) == pc' = next /\ UNCHANGED <<inputs, index, options, values, config>>

Fail == Go("failed")

(***************************************************************************)
(* main and parse_options.                                                 *)
(***************************************************************************)
Informs == Len(arguments) = 1 /\ arguments[1] \in {"--help", "-h", "--version", "-V"}

Help == pc = "main" /\ Informs /\ Go("help")

Load == pc = "main" /\ ~Informs /\ Go("options")

Option == pc = "options" /\ index <= Len(arguments)

HasValue == index < Len(arguments)

Value == arguments[index + 1]

\* The loop goes on n arguments further.
Advance(n, parsed) ==
    /\ options' = parsed
    /\ index' = index + n
    /\ UNCHANGED <<inputs, pc, values, config>>

NoEnvFile ==
    /\ Option /\ arguments[index] = "--no-env-file"
    /\ IF options.seen THEN Fail
       ELSE Advance(1, [options EXCEPT !.seen = TRUE, !.env_file = Unset])

\* Mutant: a file named on the command line may be missing, like .env.
EnvFileOptional ==
    /\ Option /\ arguments[index] = "--env-file"
    /\ IF options.seen \/ ~HasValue THEN Fail
       ELSE IF Value = "" THEN Fail
       ELSE Advance(2, [options EXCEPT !.seen = TRUE, !.env_file = "local"])

\* Every nonempty path names the one other file.
EnvFile ==
    /\ Option /\ arguments[index] = "--env-file"
    /\ IF options.seen \/ ~HasValue THEN Fail
       ELSE IF Value = "" THEN Fail
       ELSE Advance(2, [options EXCEPT !.seen = TRUE, !.explicit_file = TRUE,
                                       !.env_file = "local"])

\* BTreeMap::insert; the callers refuse a name that is there.
Insert(map, name, value) ==
    [n \in DOMAIN map \cup {name} |-> IF n = name THEN value ELSE map[n]]

ValueOption ==
    /\ Option /\ arguments[index] \in DOMAIN OptionName
    /\ LET name == OptionName[arguments[index]]
       IN  IF ~HasValue \/ name \in DOMAIN options.values THEN Fail
           ELSE Advance(2, [options EXCEPT !.values = Insert(@, name, Value)])

UnknownOption ==
    /\ Option
    /\ arguments[index] \notin DOMAIN OptionName \cup {"--env-file", "--no-env-file"}
    /\ Fail

EndOfOptions == pc = "options" /\ index > Len(arguments) /\ Go("environment")

(***************************************************************************)
(* load: the environment, then the file.                                   *)
(***************************************************************************)
\* vars_os in any order: one bad variable is enough.  "not UTF-8" is a token.
LegalEnvironment ==
    \A name \in DOMAIN environment :
        /\ name \in ENV_NAMES
        /\ environment[name] # "not UTF-8"
        /\ Length[environment[name]] <= MAX_ENV_LINE_BYTES

ReadEnvironment == pc = "environment" /\ (IF LegalEnvironment THEN Go("file") ELSE Fail)

\* What File::open, metadata and read_values find: "missing", "text", or one of
\* "unreadable", "directory", "oversized" and "not UTF-8".
Found == files[options.env_file].state

Text == files[options.env_file].lines

NoFile ==
    /\ pc = "file"
    /\ IF options.env_file = Unset THEN TRUE
       ELSE Found = "missing" /\ ~options.explicit_file
    /\ Go("sources")

OpenFile ==
    /\ pc = "file" /\ options.env_file # Unset
    /\ Found = "text"
    /\ pc' = "lines" /\ index' = 1
    /\ UNCHANGED <<inputs, options, values, config>>

RejectFile ==
    /\ pc = "file" /\ options.env_file # Unset
    /\ Found # "text" /\ (Found = "missing" => options.explicit_file)
    /\ Fail

(***************************************************************************)
(* parse_values.  A line is "blank" (or a comment), "malformed" (no equals *)
(* sign, a NUL, too long), or an assignment: a name and a value between    *)
(* quotes "", "'" or '"'.  A quote at the end of an unquoted value belongs *)
(* to its token.                                                           *)
(***************************************************************************)
Line == Text[index]

\* A value that starts with a quote ends with the same one.
LegalLine ==
    /\ Line.kind # "malformed"
    /\ Line.name \in ENV_NAMES
    /\ Line.open # "" => Line.close = Line.open
    /\ Line.name \notin DOMAIN values

NextLine == pc = "lines" /\ index <= Len(Text)

SkipLine ==
    /\ NextLine /\ Line.kind = "blank"
    /\ index' = index + 1
    /\ UNCHANGED <<inputs, pc, options, values, config>>

TakeLine ==
    /\ NextLine /\ Line.kind # "blank"
    /\ IF ~LegalLine THEN Fail
       ELSE /\ values' = Insert(values, Line.name, Line.value)
            /\ index' = index + 1
            /\ UNCHANGED <<inputs, pc, options, config>>

EndOfFile == pc = "lines" /\ index > Len(Text) /\ Go("sources")

(***************************************************************************)
(* from_sources.                                                           *)
(***************************************************************************)
\* Extend is BTreeMap::extend: what comes later replaces what was there.
Extend(map, more) ==
    [n \in DOMAIN map \cup DOMAIN more |-> IF n \in DOMAIN more THEN more[n] ELSE map[n]]

Effective == Extend(Extend(values, environment), options.values)

mib(token) ==
    IF NumberOf[token] = Unset THEN Unset
    ELSE IF NumberOf[token] * Mib > UsizeMax THEN Unset ELSE NumberOf[token] * Mib

\* The field a setting gives a value to, and the value; Unset is an error.
Field(name) ==
    CASE name = "RECALL_BIND"            -> "loopback"
      [] name = "RECALL_WORKERS"         -> "workers"
      [] name = "RECALL_IO_THREADS"      -> "io_threads"
      [] name = "RECALL_MAX_MEMORY_MIB"  -> "max_payload_bytes"
      [] name = "RECALL_KEYS_PER_WORKER" -> "keys_per_worker"
      [] name = "RECALL_MAX_CONNECTIONS" -> "max_connections"
      [] name = "RECALL_QUEUE_BYTES_MIB" -> "queue_bytes"
      [] name = "RECALL_PASSWORD"        -> "password_bytes"

FieldValue(name, token) ==
    CASE name = "RECALL_BIND" -> LoopbackOf[token]
      [] name = "RECALL_PASSWORD" -> Length[token]
      [] name \in {"RECALL_MAX_MEMORY_MIB", "RECALL_QUEUE_BYTES_MIB"} -> mib(token)
      [] OTHER -> NumberOf[token]

LegalSources == \A name \in DOMAIN Effective : FieldValue(name, Effective[name]) # Unset

\* The configuration with the fields in given taken from the sources.
WithFields(given) ==
    [f \in DOMAIN Default |->
        IF f \notin given THEN Default[f]
        ELSE LET name == CHOOSE n \in DOMAIN Effective : Field(n) = f
             IN  FieldValue(name, Effective[name])]

\* Mutant: the number of connections is read and forgotten.
ConfiguredForgets == WithFields({Field(n) : n \in DOMAIN Effective} \ {"max_connections"})

Configured == WithFields({Field(name) : name \in DOMAIN Effective})

FromSources ==
    /\ pc = "sources"
    /\ IF ~LegalSources THEN Fail
       ELSE IF ~validate(Configured) THEN Fail
       ELSE /\ config' = Configured
            /\ pc' = "bind"
            /\ UNCHANGED <<inputs, index, options, values>>

\* Server::bind and Engine::start validate once more, whoever calls them.
Bind == pc = "bind" /\ Go(IF validate(config) THEN "running" ELSE "failed")

Settled == pc \in {"help", "running", "failed"} /\ UNCHANGED settings_vars

SettingsNext ==
    \/ Help \/ Load \/ NoEnvFile \/ EnvFile \/ ValueOption \/ UnknownOption \/ EndOfOptions
    \/ ReadEnvironment \/ NoFile \/ OpenFile \/ RejectFile
    \/ SkipLine \/ TakeLine \/ EndOfFile
    \/ FromSources \/ Bind \/ Settled

SettingsSpec == SettingsInit /\ [][SettingsNext]_settings_vars

-----------------------------------------------------------------------------
(***************************************************************************)
(* Reference: what the inputs state, without the loops.                    *)
(***************************************************************************)
Width(option) == IF option = "--no-env-file" THEN 1 ELSE 2

\* The places of the command line that hold an option: the first, and every place
\* right behind another option and its value.
Starts ==
    CHOOSE S \in SUBSET DOMAIN arguments :
        /\ DOMAIN arguments # {} => 1 \in S
        /\ \A i \in S : i + Width(arguments[i]) \in S \cup {Len(arguments) + 1, Len(arguments) + 2}
        /\ \A j \in S \ {1} : \E i \in S : j = i + Width(arguments[i])

Places(option) == {i \in Starts : arguments[i] = option}

LegalCommandLine ==
    /\ \A i \in Starts : /\ arguments[i] \in DOMAIN OptionName \cup {"--env-file", "--no-env-file"}
                         /\ i + Width(arguments[i]) <= Len(arguments) + 1
    /\ Cardinality(Places("--env-file") \cup Places("--no-env-file")) <= 1
    /\ \A i \in Places("--env-file") : arguments[i + 1] # ""
    /\ \A option \in DOMAIN OptionName : Cardinality(Places(option)) <= 1

\* The lines of the file in force: a file that is named must be there, .env may be
\* missing, and --no-env-file does without.  Unset when it cannot be used.
Lines ==
    IF Places("--no-env-file") # {} THEN <<>>
    ELSE IF Places("--env-file") # {}
    THEN IF files.local.state = "text" THEN files.local.lines ELSE Unset
    ELSE IF files.env.state = "missing" THEN <<>>
    ELSE IF files.env.state = "text" THEN files.env.lines ELSE Unset

Assigning(name) ==
    IF Lines = Unset THEN {}
    ELSE {i \in DOMAIN Lines : Lines[i].kind = "assign" /\ Lines[i].name = name}

LegalLines ==
    /\ Lines # Unset
    /\ \A i \in DOMAIN Lines : Lines[i].kind # "malformed"
    /\ \A i \in DOMAIN Lines : Lines[i].kind = "assign" =>
          Lines[i].name \in ENV_NAMES /\ (Lines[i].open \in {"", Lines[i].close})
    /\ \A name \in ENV_NAMES : Cardinality(Assigning(name)) <= 1

\* What the user states for a setting, the most specific source first.
Stated(name) ==
    LET places == {i \in Starts \cap 1 .. Len(arguments) - 1 :
                      arguments[i] \in DOMAIN OptionName /\ OptionName[arguments[i]] = name}
    IN  IF places # {} THEN arguments[(CHOOSE i \in places : TRUE) + 1]
        ELSE IF name \in DOMAIN environment THEN environment[name]
        ELSE IF Assigning(name) # {} THEN Lines[CHOOSE i \in Assigning(name) : TRUE].value
        ELSE Unset

\* The configuration that follows, with Unset where a value cannot be read.
Meant ==
    [f \in DOMAIN Default |->
        IF \A name \in ENV_NAMES : Field(name) # f THEN Default[f]
        ELSE LET name == CHOOSE n \in ENV_NAMES : Field(n) = f
             IN  IF Stated(name) = Unset THEN Default[f] ELSE FieldValue(name, Stated(name))]

Readable ==
    \A name \in ENV_NAMES : Stated(name) # Unset => FieldValue(name, Stated(name)) # Unset

FromInputs == arguments # Unset

-----------------------------------------------------------------------------
\* The precedence main.rs prints: command line, then process environment, then the
\* environment file, then defaults, for each setting by itself.  A file option, a
\* value that looks like an option and a value that is overridden change nothing
\* else.
RunsAsStated == FromInputs /\ pc = "running" => config = Meant

\* The server starts exactly when the command line, the environment, the file and
\* the values in force are legal.  A value that is overridden is not read, so it may
\* be anything; a name that is unknown or given twice, or a file that was named and
\* is not there, stops the server even where it would not matter.
StartsExactlyWhenLegal ==
    FromInputs /\ pc \in {"running", "failed"} =>
        (pc = "running" <=> /\ LegalCommandLine /\ LegalEnvironment /\ LegalLines
                            /\ Readable /\ validate(Meant))

\* Wherever its configuration comes from, the owners of a running server can each
\* hold something, their budgets add up to the configured one, to the byte, and no
\* two differ by more than one; and every value that can be received and stored can
\* be read back in one reply.
BudgetsExact ==
    pc = "running" =>
        /\ \A o \in OwnersOf(config) : shard_limits(config, o).max_payload_bytes >= 1
        /\ config.max_reply_bytes >= config.commands.max_value_bytes + 64
        /\ TotalBudget(config) = config.max_payload_bytes
        /\ \A o, p \in OwnersOf(config) :
              shard_limits(config, o).max_payload_bytes
                <= shard_limits(config, p).max_payload_bytes + 1
=============================================================================
