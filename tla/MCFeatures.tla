----------------------------- MODULE MCFeatures -----------------------------
(* Model-checking instance of Features: initial vectors of up to two bytes *)
(* over single-bit bytes plus 0 and 0xff; or'ed values of length 0 to 3 so *)
(* that both "self longer" and "other longer" and the idx >= 2 fallback   *)
(* masks occur.                                                            *)
EXTENDS Features

MCBytes == {0, 1, 2, 4, 8, 16, 32, 64, 128, 255}

MCOrArgs == {<<>>, <<2 + 32, 2>>, <<0, 64>>, <<4, 0, 1>>, <<0, 0, 128>>}
=============================================================================
