----------------------------- MODULE MCSettings -----------------------------
(***************************************************************************)
(* Up to five arguments, environments of two variables and files of two    *)
(* lines that contradict each other, and configurations of an embedding    *)
(* program that differ from the default in one field, at its limits.       *)
(*                                                                         *)
(* usize::MAX is 1000 MiB here and u32::MAX 600 MiB, so that 700 MiB is    *)
(* too much for a queue and 2000 MiB for any size.                         *)
(***************************************************************************)
EXTENDS Settings

MCUsizeMax == 1000 * Mib
MCU32Max == 600 * Mib

Numerals == [n \in {"0", "1", "3", "65", "700", "2000"} |->
    CASE n = "0" -> 0 [] n = "1" -> 1 [] n = "3" -> 3 [] n = "65" -> 65 [] n = "700" -> 700
      [] n = "2000" -> 2000]

Words == {"--no-env-file", "--env-file", "--help", "-V", "--bogus", "", "x", "local.env",
          "127.0.0.1:0", "0.0.0.0:0", "overlong", "not UTF-8"}

MCTokens == DOMAIN Numerals \cup DOMAIN OptionName \cup Words

MCNumberOf == [t \in MCTokens |-> IF t \in DOMAIN Numerals THEN Numerals[t] ELSE Unset]

MCLoopbackOf ==
    [t \in MCTokens |-> IF t = "127.0.0.1:0" THEN TRUE
                        ELSE IF t = "0.0.0.0:0" THEN FALSE ELSE Unset]

MCLength == [t \in MCTokens |-> CASE t = "" -> 0 [] t = "overlong" -> 2049 [] OTHER -> 1]

MCCommandLines ==
    {<<>>, <<"--help">>, <<"-V">>, <<"--help", "-V">>, <<"--bogus">>, <<"--workers">>,
     <<"--env-file">>, <<"--env-file", "">>, <<"--no-env-file">>,
     <<"--env-file", "local.env">>,
     <<"--env-file", "--no-env-file">>,
     <<"--no-env-file", "--env-file", "local.env">>,
     <<"--workers", "--no-env-file">>,
     <<"--workers", "3", "--workers", "3">>,
     <<"--workers", "3", "--env-file", "local.env">>,
     <<"--no-env-file", "--workers", "3", "--max-memory-mib", "1">>,
     <<"--env-file", "local.env", "--workers", "1", "--env-file">>}
      \cup {<<option, value>> : option \in DOMAIN OptionName,
                                value \in {"0", "1", "65", "700", "2000", "x", "127.0.0.1:0",
                                           "0.0.0.0:0"}}

MCEnvironments ==
    {<<>>}
      \cup UNION {[{name} -> {"", "1", "3", "x", "overlong", "not UTF-8"}] :
                     name \in {"RECALL_WORKERS", "RECALL_PASSWORD", "RECALL_OTHER"}}
      \cup [{"RECALL_WORKERS", "RECALL_MAX_MEMORY_MIB"} -> {"0", "1", "x"}]

Assign(name, open, value, close) ==
    [kind |-> "assign", name |-> name, open |-> open, value |-> value, close |-> close]

Blank == [kind |-> "blank"]

Unusable(state) == [state |-> state, lines |-> <<>>]

Readables(texts) == [state : {"text"}, lines : texts]

MCDotEnvs ==
    {Unusable(s) : s \in {"missing", "unreadable", "directory", "oversized", "not UTF-8"}}
      \cup Readables(
        {<<>>,
         <<[kind |-> "malformed"]>>,
         <<Blank, Assign("RECALL_WORKERS", "'", "65", "'")>>,
         <<Assign("RECALL_WORKERS", "'", "1", "")>>,
         <<Assign("RECALL_WORKERS", "", "x", ""), Blank>>,
         <<Assign("RECALL_WORKERS", "", "1", ""), Assign("RECALL_WORKERS", "", "1", "")>>,
         <<Assign("RECALL_OTHER", "", "1", "")>>,
         <<Assign("RECALL_BIND", "", "127.0.0.1:0", ""),
           Assign("RECALL_MAX_MEMORY_MIB", "'", "3", "'")>>})

MCLocalEnvs ==
    {Unusable("missing")} \cup Readables({<<Blank, Assign("RECALL_WORKERS", "", "3", "")>>})

\* The default with one field changed, and budgets around the number of owners.
MCEmbedded ==
    {[Default EXCEPT ![f] = n] :
        f \in {"workers", "io_threads", "max_connections", "queue_capacity", "queue_bytes",
               "admission_timeout", "read_timeout", "write_timeout", "expiry_interval",
               "expiry_batch", "keys_per_worker", "max_payload_bytes", "max_reply_bytes"},
        n \in {0, 1, 64, 65, 65537, 512 * 1024 + 63, 512 * 1024 + 64}}
      \cup {[Default EXCEPT !.password_bytes = n] : n \in {0, 1, 1024, 1025}}
      \cup {[Default EXCEPT !.workers = w, !.max_payload_bytes = n] :
               w \in 1 .. 7, n \in {0, 1, 2, 3, 5, 7, 8, 100}}
      \cup {[Default EXCEPT !.protocol[f] = n] :
               f \in DOMAIN DefaultLimits,
               n \in {0, 1, 3, 4, 15, 16, 24, 4096, 4097, 512 * 1024 - 1, 512 * 1024, 16 * Mib,
                      16 * Mib + 1}}
      \cup {[Default EXCEPT !.commands[f] = n] :
               f \in DOMAIN DefaultCommands, n \in {0, 1024, 1025, Mib - 64, Mib - 63}}
=============================================================================
