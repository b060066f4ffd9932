--------------------------- MODULE MCRandomSeeds ---------------------------
(***************************************************************************)
(* The two shared random sources, checked in one model: DefaultRouter's    *)
(* random_seed_bytes (lightning-invoice/src/utils.rs) and the fuzztarget   *)
(* RNG_ITER counter (src/util/rng.rs).  They share no state; a step of the *)
(* composition is a step of one of them, the other standing still.  The   *)
(* same threads call into both.                                            *)
(***************************************************************************)
EXTENDS Naturals

CONSTANTS Threads, MaxCalls, MaxDraws, None

VARIABLES
    lock, seed, routerPc, local, calls, used,
    iter, rngPc, reg, drawn, overlap, draws

DR == INSTANCE DefaultRouter WITH pc <- routerPc
FR == INSTANCE FuzzyRng WITH pc <- rngPc

drVars == <<lock, seed, routerPc, local, calls, used>>
frVars == <<iter, rngPc, reg, drawn, overlap, draws>>
allVars == <<drVars, frVars>>

MCInit == DR!Init /\ FR!Init

MCNext ==
    \/ DR!Next /\ UNCHANGED frVars
    \/ FR!Next /\ UNCHANGED drVars

MCSpec == MCInit /\ [][MCNext]_allVars

\* The types of both sources' state.
TypeOK == DR!TypeOK /\ FR!TypeOK

\* (DefaultRouter::find_route) No two routes, from any threads, are
\* randomised with the same seed.
UniqueSeeds == DR!UniqueSeeds

\* (DefaultRouter::find_route) The locked hash-store-copy block behaves as
\* one atomic draw from SeedSource.
SeedRefinement == DR!SeedRefinement

\* (fuzzy_rng) Draws that do not overlap return 0, 1, 2, ... after a reset.
SequentialDeterminism == FR!SequentialDeterminism
=============================================================================
