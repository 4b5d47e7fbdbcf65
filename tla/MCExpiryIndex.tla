--------------------------- MODULE MCExpiryIndex ---------------------------
(***************************************************************************)
(* Six keys make the smallest heap in which the timer that swap_remove     *)
(* moves into the gap may have to rise instead of sink; there are seven.   *)
(***************************************************************************)
EXTENDS ExpiryIndex, TLC

KeySymmetry == Permutations(Keys)
=============================================================================
