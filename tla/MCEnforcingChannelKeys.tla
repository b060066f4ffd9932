----------------------- MODULE MCEnforcingChannelKeys -----------------------
(* Model-checking instance: two threads, a 4-bit obscured number split     *)
(* into two 2-bit halves, a non-trivial mask, commitment numbers 0..3.      *)
EXTENDS EnforcingChannelKeys

MCH == 2
MCChannelMask == 6
MCNums == 0..3
=============================================================================
