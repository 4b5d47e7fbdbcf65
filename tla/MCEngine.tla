------------------------------ MODULE MCEngine ------------------------------
(***************************************************************************)
(* Two owners with two keys each and room for one key per owner, so that   *)
(* either participant of a cross-owner command may run out of memory.      *)
(***************************************************************************)
EXTENDS Engine, TLC

CONSTANTS a1, a2, b1, b2, t, u

MCKeys == {a1, a2, b1, b2}
MCKeyLen == [k \in MCKeys |-> 1]
MCRoute == (a1 :> 1) @@ (a2 :> 1) @@ (b1 :> 2) @@ (b2 :> 2)
MCTexts == {t, u}
MCTextLen == (t :> 2) @@ (u :> 1)

MSet(pairs) == [type |-> "multi_set", pairs |-> pairs]

\* A write, a write whose second participant then has no room, a read and a
\* deletion across the owners, and a local write that expires.  The read fits
\* the reply limit of 72 bytes unless a1 and b1 both hold the longer text; each
\* half of it always fits.
LinearOps ==
    { MSet(<<<<a1, u>>, <<b1, t>>>>),
      MSet(<<<<b2, u>>, <<a1, u>>>>),
      [type |-> "multi_get", keys |-> <<b1, a1, b2, a1, b1, a1, b1, a1, b1>>],
      [type |-> "delete", keys |-> <<a1, b1, a1>>],
      [type |-> "set", key |-> a1, value |-> t, condition |-> "always",
       expiry |-> "after", milliseconds |-> 1] }

\* A cross-owner write, a local write and a command no pool can hold.
AdmissionOps ==
    { MSet(<<<<a1, u>>, <<b1, t>>>>),
      [type |-> "set", key |-> b1, value |-> u, condition |-> "always",
       expiry |-> "clear", milliseconds |-> 0],
      [type |-> "exists", keys |-> <<a1, b1, a1, b1, a1>>] }

\* A cross-owner write, and a local write that expires.
CrowdOps ==
    { MSet(<<<<a1, u>>, <<b1, t>>>>),
      [type |-> "set", key |-> b1, value |-> u, condition |-> "always",
       expiry |-> "after", milliseconds |-> 1] }

RequestSymmetry == Permutations(Requests)
=============================================================================
