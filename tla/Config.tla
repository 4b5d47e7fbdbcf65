------------------------------- MODULE Config -------------------------------
(***************************************************************************)
(* recall-server/src/config.rs: the configuration, its defaults, what      *)
(* makes it valid, and the budgets it gives the owners.  Sizes are bytes   *)
(* and times milliseconds.  The address keeps the one bit that matters:    *)
(* whether it is a loopback address; of a password only the length counts. *)
(***************************************************************************)
EXTENDS Integers, FiniteSets, FiniteSetsExt

CONSTANTS
    Cpus,       \* available_parallelism
    UsizeMax,   \* usize::MAX
    U32Max,     \* u32::MAX
    Unset       \* Option::None

ASSUME ConfigAssumption ==
    /\ Cpus \in Nat \ {0}
    /\ UsizeMax \in Nat /\ U32Max \in 64 * 1024 * 1024 .. UsizeMax
    /\ Unset \notin Nat

Ki == 1024

Mib == 1024 * 1024

\* Limits::default.
DefaultLimits == [max_frame_bytes |-> Mib, max_bulk_bytes |-> Mib - 64,
                  max_arguments |-> 1024, max_header_bytes |-> 24]

\* ParseLimits::default.
DefaultCommands == [max_key_bytes |-> 1024, max_value_bytes |-> 512 * 1024,
                    max_client_metadata_bytes |-> 128]

Default ==
    [loopback |-> TRUE, workers |-> Max({1, Min({Cpus - 2, 16})}), io_threads |-> 2,
     max_connections |-> 128, queue_capacity |-> 256, queue_bytes |-> 4 * Mib,
     admission_timeout |-> 250, read_timeout |-> 30000, write_timeout |-> 10000,
     expiry_interval |-> 10, expiry_batch |-> 64, max_payload_bytes |-> 512 * Mib,
     keys_per_worker |-> 16384, max_reply_bytes |-> 4 * Mib,
     protocol |-> DefaultLimits, commands |-> DefaultCommands, password_bytes |-> Unset]

\* Limits::validate.
validate_limits(l) ==
    /\ l.max_frame_bytes >= 16
    /\ l.max_bulk_bytes <= l.max_frame_bytes
    /\ l.max_arguments # 0
    /\ l.max_header_bytes \in 4 .. l.max_frame_bytes

saturating_add(x, y) == Min({x + y, UsizeMax})

ValidCounts(c) ==
    /\ c.workers \in 1 .. 64
    /\ c.io_threads \in 1 .. 64
    /\ c.max_connections \in 1 .. 64 * Ki
    /\ c.queue_capacity \in 1 .. 64 * Ki
    /\ c.queue_bytes \in 1 .. U32Max
    /\ c.keys_per_worker \in 1 .. Ki * Ki

ValidTimes(c) ==
    0 \notin {c.admission_timeout, c.read_timeout, c.write_timeout, c.expiry_interval,
              c.expiry_batch}

ValidSizes(c) ==
    /\ validate_limits(c.protocol)
    /\ c.protocol.max_frame_bytes <= 16 * Mib
    /\ c.protocol.max_arguments <= 4096
    /\ c.commands.max_key_bytes <= c.protocol.max_bulk_bytes
    /\ c.commands.max_value_bytes <= c.protocol.max_bulk_bytes
    /\ c.commands.max_client_metadata_bytes <= 1024
    /\ c.max_reply_bytes >= saturating_add(c.commands.max_value_bytes, 64)
    /\ c.max_reply_bytes <= 64 * Mib

ValidPassword(c) == c.password_bytes = Unset \/ c.password_bytes \in 1 .. 1024

\* Config::validate: the error's text is left out.
validate(c) ==
    /\ c.loopback
    /\ ValidCounts(c) /\ c.max_payload_bytes >= c.workers
    /\ ValidTimes(c)
    /\ ValidSizes(c)
    /\ ValidPassword(c)

\* Mutant: the remainder of the division is lost.
LimitsWithoutRemainder(c, owner) ==
    [max_keys |-> c.keys_per_worker, max_reply_bytes |-> c.max_reply_bytes,
     max_payload_bytes |-> c.max_payload_bytes \div c.workers]

\* Config::shard_limits; owners count from 0 as in the code.
shard_limits(c, owner) ==
    [max_keys |-> c.keys_per_worker, max_reply_bytes |-> c.max_reply_bytes,
     max_payload_bytes |->
        c.max_payload_bytes \div c.workers
          + IF owner < c.max_payload_bytes % c.workers THEN 1 ELSE 0]

\* The owners of a configuration, and the sum of their budgets.
OwnersOf(c) == 0 .. c.workers - 1

TotalBudget(c) ==
    SumFunction([o \in OwnersOf(c) |-> shard_limits(c, o).max_payload_bytes])
=============================================================================
