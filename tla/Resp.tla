-------------------------------- MODULE Resp --------------------------------
(***************************************************************************)
(* What the decoder and the encoder of recall-protocol share.  A byte is a *)
(* character, or "CR" or "LF".                                             *)
(***************************************************************************)
EXTENDS Integers, Sequences

CONSTANTS
    UsizeMax,   \* usize::MAX
    None        \* Option::None

DigitNames == <<"0", "1", "2", "3", "4", "5", "6", "7", "8", "9">>

Digits == {DigitNames[i] : i \in 1 .. 10}
=============================================================================
