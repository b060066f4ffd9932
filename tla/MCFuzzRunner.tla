---------------------------- MODULE MCFuzzRunner ----------------------------
(* Model-checking instance of FuzzRunner; the constants are set in the cfg. *)
EXTENDS FuzzRunner
=============================================================================
