------------------------------ MODULE FuzzyRng ------------------------------
(***************************************************************************)
(* The fuzztarget random source (src/util/rng.rs, mod fuzzy_rng).  Every   *)
(* draw (fill_bytes, rand_u832, rand_f32) takes its value from            *)
(*     unsafe { RNG_ITER += 1; RNG_ITER - 1 }                              *)
(* on a `static mut u64`, and reset_rng_state stores 0.  The byte layout  *)
(* each function builds from the value (be64 copies, le64 copies, an f32) *)
(* is a function of the value only and is left out.                       *)
(*                                                                         *)
(* The fuzz runners call targets from several threads of one process, so *)
(* draws can overlap.  The unsynchronised read-modify-write is a data     *)
(* race; what the build can do is load, add and store as separate steps,  *)
(* and for `RNG_ITER - 1` either reuse the stored register or reload the  *)
(* global.  Both outcomes are left open.                                   *)
(***************************************************************************)
EXTENDS Naturals, Sequences

CONSTANTS
    Threads,    \* threads drawing concurrently
    MaxDraws    \* bound on the draws in a behaviour

VARIABLES
    iter,       \* RNG_ITER
    pc,         \* per thread: "idle", "loaded", "stored"
    reg,        \* per thread: the value loaded from RNG_ITER
    drawn,      \* history: values returned since the last reset, in order
    overlap,    \* history: some draw since the last reset overlapped another
    draws       \* draws started in the behaviour (bounded)

vars == <<iter, pc, reg, drawn, overlap, draws>>

-----------------------------------------------------------------------------
Init ==
    /\ iter = 0
    /\ pc = [t \in Threads |-> "idle"]
    /\ reg = [t \in Threads |-> 0]
    /\ drawn = <<>>
    /\ overlap = FALSE
    /\ draws = 0

\* RNG_ITER += 1 begins: the current value is loaded.
LoadIter(t) ==
    /\ pc[t] = "idle"
    /\ draws < MaxDraws
    /\ reg' = [reg EXCEPT ![t] = iter]
    /\ pc' = [pc EXCEPT ![t] = "loaded"]
    /\ overlap' = (overlap \/ \E u \in Threads \ {t} : pc[u] # "idle")
    /\ draws' = draws + 1
    /\ UNCHANGED <<iter, drawn>>

\* Mutant: the counter advances by two.
MutStoreIter(t) ==
    /\ pc[t] = "loaded"
    /\ iter' = reg[t] + 2
    /\ pc' = [pc EXCEPT ![t] = "stored"]
    /\ UNCHANGED <<reg, drawn, overlap, draws>>

\* ... and the incremented value is stored back.
StoreIter(t) ==
    /\ pc[t] = "loaded"
    /\ iter' = reg[t] + 1
    /\ pc' = [pc EXCEPT ![t] = "stored"]
    /\ UNCHANGED <<reg, drawn, overlap, draws>>

\* Mutant: the draw returns RNG_ITER, not RNG_ITER - 1.
MutReturnDraw(t) ==
    /\ pc[t] = "stored"
    /\ drawn' = Append(drawn, iter)
    /\ pc' = [pc EXCEPT ![t] = "idle"]
    /\ UNCHANGED <<iter, reg, overlap, draws>>

\* RNG_ITER - 1: from the register just stored, or from a reload.
ReturnDraw(t) ==
    /\ pc[t] = "stored"
    /\ \E v \in {reg[t], iter - 1} : drawn' = Append(drawn, v)
    /\ pc' = [pc EXCEPT ![t] = "idle"]
    /\ UNCHANGED <<iter, reg, overlap, draws>>

\* reset_rng_state, called by a target before it starts drawing.
ResetRngState ==
    /\ \A t \in Threads : pc[t] = "idle"
    /\ iter' = 0
    /\ drawn' = <<>>
    /\ overlap' = FALSE
    /\ UNCHANGED <<pc, reg, draws>>

Next ==
    \/ \E t \in Threads : LoadIter(t) \/ StoreIter(t) \/ ReturnDraw(t)
    \/ ResetRngState

Spec == Init /\ [][Next]_vars

-----------------------------------------------------------------------------
(* Properties                                                              *)

TypeOK ==
    /\ iter \in 0..MaxDraws
    /\ pc \in [Threads -> {"idle", "loaded", "stored"}]
    /\ reg \in [Threads -> 0..MaxDraws]
    /\ drawn \in Seq(0..MaxDraws)
    /\ overlap \in BOOLEAN
    /\ draws \in 0..MaxDraws

\* When no two draws overlap, the fuzz run is reproducible: after a reset
\* the draws return 0, 1, 2, ... in order, whatever the thread that draws.
SequentialDeterminism ==
    ~overlap => drawn = [i \in 1..Len(drawn) |-> i - 1]

=============================================================================
