--------------------------- MODULE EngineKeySpace ---------------------------
(***************************************************************************)
(* The engine implements KeySpace: its commands are linearizable.          *)
(*                                                                         *)
(* A single-owner command takes effect when its owner executes it.  A      *)
(* cross-owner command takes effect when the coordinator samples the       *)
(* clock: every participant is reserved by then, so what each will prepare *)
(* is already determined, and no other command can see the participants    *)
(* until all of them have applied it.                                      *)
(*                                                                         *)
(* The history field co.plan remembers, from that instant to the end of    *)
(* the transaction, the effects and the reply foreseen.                    *)
(***************************************************************************)
EXTENDS Engine

-----------------------------------------------------------------------------
\* Until its application, the foreseen effects stand in for those of owner o.
Awaited(o) ==
    /\ co.plan.made /\ Reserved(o)
    /\ \/ co.phase = "prepare"
       \/ co.phase = "apply" /\ owner[o].reservation.prepared.ok

PartOf(parts, o) == CHOOSE i \in DOMAIN parts : parts[i].owner = o

Visible(o) ==
    IF Awaited(o) THEN Install(shard[o].entries, co.plan.effects[PartOf(co.parts, o)])
    ELSE shard[o].entries

Database ==
    LET visible == [o \in Owners |-> Visible(o)]
    IN  [k \in {x \in Keys : x \in DOMAIN visible[Route[x]]} |-> visible[Route[k]][k]]

AbstractCall(r) ==
    LET c == call[r]
        is(state, reply) == [state |-> state, op |-> c.op, reply |-> reply]
    IN  CASE c.pc = "idle" -> is("idle", None)
          [] c.pc \in {"called", "credit", "send"} -> is("open", None)
          [] c.pc = "abandoned" -> is("abandoned", None)
          [] c.pc \in {"done", "gone"} -> is("decided", c.reply)
          [] r = co.request /\ co.plan.made -> is("decided", co.plan.reply)
          [] r = co.request /\ co.phase = "release" /\ ~co.plan.made -> is("decided", co.reply)
          [] OTHER -> is("open", None)

Table == INSTANCE KeySpace WITH
            db <- Database, call <- [r \in Requests |-> AbstractCall(r)]

\* The engine behaves as one table on which commands take effect one at a time:
\* no torn cross-owner read or write, no effect of a command that was refused,
\* timed out or abandoned, every reply that of the instant of effect.
Linearizable == Table!Spec

=============================================================================
