------------------------------ MODULE MCShard ------------------------------
(***************************************************************************)
(* Three keys for a table of two, a byte budget that a long and a short    *)
(* value exceed together, and the smallest reply limit Config::validate    *)
(* accepts for 40-byte values: a multi-get may exceed it, one value cannot.*)
(* i64 is narrowed to -4001 .. 4000: deadlines and increments pass both    *)
(* ends of it.                                                             *)
(***************************************************************************)
EXTENDS Shard, TLC

CONSTANTS a, b, c, short, long

MCKeys == {a, b, c}
MCKeyLen == (a :> 1) @@ (b :> 1) @@ (c :> 2)
MCTexts == {short, long}
MCTextLen == (short :> 3) @@ (long :> 40)

MCLimits == [max_keys |-> 2, max_payload_bytes |-> 44, max_reply_bytes |-> 104]

MCTimes == {0, 700, 2500}

Set(k, v, cond, expiry, ms) ==
    [type |-> "set", key |-> k, value |-> v, condition |-> cond,
     expiry |-> expiry, milliseconds |-> ms]

MCOps ==
    { [type |-> "get", key |-> a],
      Set(a, short, "always", "clear", 0),
      Set(a, long, "if_present", "keep", 0),
      Set(a, 7, "if_absent", "after", 700),
      Set(a, short, "always", "after", 2000),
      Set(a, short, "if_absent", "after", 0),
      [type |-> "increment", key |-> a, amount |-> 4000, subtract |-> FALSE],
      [type |-> "increment", key |-> a, amount |-> -4001, subtract |-> TRUE],
      [type |-> "increment", key |-> a, amount |-> 1, subtract |-> TRUE],
      [type |-> "delete", keys |-> <<a, b, a>>],
      [type |-> "exists", keys |-> <<a, a, b>>],
      [type |-> "multi_get", keys |-> <<a, b, a>>],
      [type |-> "multi_set", pairs |-> <<<<a, 1>>, <<b, short>>, <<a, short>>>>],
      [type |-> "multi_set", pairs |-> <<<<c, short>>>>],
      [type |-> "expire", key |-> b, milliseconds |-> 700],
      [type |-> "expire", key |-> b, milliseconds |-> 0],
      [type |-> "expire", key |-> a, milliseconds |-> 4000],
      [type |-> "ttl", key |-> a, milliseconds |-> TRUE],
      [type |-> "ttl", key |-> a, milliseconds |-> FALSE],
      [type |-> "persist", key |-> a] }
=============================================================================
