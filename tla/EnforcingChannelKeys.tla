------------------------ MODULE EnforcingChannelKeys ------------------------
(***************************************************************************)
(* EnforcingChannelKeys (lightning/src/util/enforcing_trait_impls.rs): a   *)
(* ChannelKeys wrapper that, on every sign_remote_commitment call, reads   *)
(* the obscured commitment number out of the transaction's lock_time and   *)
(* first input's sequence, learns the XOR obscuring factor on the first    *)
(* call, and asserts the de-obscured number is the last one signed or one *)
(* more, before delegating to the inner signer.                            *)
(*                                                                         *)
(* Several threads call the wrapper concurrently.  The check runs under   *)
(* commitment_number_obscure_and_last's Mutex; the inner signing runs     *)
(* after the guard is dropped.  A failed assert panics while the guard is *)
(* held, which poisons the Mutex: every later lock().unwrap() panics.     *)
(*                                                                         *)
(* The pair is written out with the ChannelMonitor (impl_writeable) at    *)
(* any time, and the process may crash at any point and read the latest   *)
(* copy back into a fresh Mutex.                                           *)
(*                                                                         *)
(* The caller is arbitrary (the wrapper exists to distrust it): it may    *)
(* ask for any commitment number in Nums, with any transaction body.      *)
(***************************************************************************)
EXTENDS Naturals, Sequences, Bitwise

CONSTANTS
    Threads,      \* threads calling sign_remote_commitment
    Bodies,       \* transaction contents other than the number (model values)
    H,            \* width of each half of the obscured number (24 in the code)
    ChannelMask,  \* the channel's obscuring factor, fixed at channel open
    Nums,         \* commitment numbers a caller may present
    MaxCalls,     \* bound on the number of calls in a behaviour
    MaxRestarts,  \* bound on crashes and reloads in a behaviour
    None          \* model value for Option::None

W == 2 * H                       \* width of the obscured number (48 in the code)
Half == 2^H                      \* 0xffffff + 1
LockTimeTag == 2                 \* the 0x20 put above the low half by the channel
SequenceTag == 8                 \* the 0x80 put above the high half by the channel

ASSUME /\ H \in Nat \ {0}
       /\ ChannelMask \in 0..(2^W - 1)
       /\ Nums \subseteq 0..(2^W - 1)
       /\ MaxCalls \in Nat

VARIABLES
    cdata,       \* commitment_number_obscure_and_last: [obscure, last]
    poisoned,    \* the Mutex guarding cdata is poisoned
    pc,          \* per-thread program counter
    req,         \* per-thread commitment_tx under signature
    calls,       \* number of calls made so far (bounded by MaxCalls)
    checked,     \* history: real numbers accepted, in lock order
    signed,      \* history: [num, body] signed by the inner signer, in order
    saved,       \* the (obscure, last) pair of the latest written copy
    restarts,    \* crashes so far (bounded by MaxRestarts)
    staleRestore \* history: some reload was from a copy older than the state

vars == <<cdata, poisoned, pc, req, calls, checked, signed, saved, restarts, staleRestore>>

-----------------------------------------------------------------------------
(* The transaction a caller hands in.  Channel code (not in this           *)
(* repository) puts the low half of the obscured number under a 0x20 tag  *)
(* in lock_time and the high half under a 0x80 tag in the sequence.       *)
MakeTx(n, body, nInputs) ==
    LET obs == n ^^ ChannelMask
    IN  [lock_time |-> LockTimeTag * Half + (obs % Half),
         sequence  |-> SequenceTag * Half + (obs \div Half),
         inputs    |-> nInputs,
         num       |-> n,
         body      |-> body]

Txs == {MakeTx(n, b, k) : n \in Nums, b \in Bodies, k \in {1, 2}}

\* Mutant: the 0xffffff mask on the sequence is dropped.
MutObscuredNumber(tx) == (tx.lock_time % Half) + tx.sequence * Half

\* (lock_time & 0xffffff) | ((sequence & 0xffffff) << 24)
ObscuredNumber(tx) == (tx.lock_time % Half) + (tx.sequence % Half) * Half

\* On the first call the factor is learned as obscured ^ last.
Learned(cd, obs) == IF cd.obscure = None THEN obs ^^ cd.last ELSE cd.obscure

CommitmentNumber(cd, obs) == obs ^^ Learned(cd, obs)

\* Mutant: the assert only bounds the number from above.
MutPermitted(cd, n) == n <= cd.last + 1

\* assert!(commitment_number == last || commitment_number == last + 1)
Permitted(cd, n) == n = cd.last \/ n = cd.last + 1

MaxOf(a, b) == IF a >= b THEN a ELSE b

-----------------------------------------------------------------------------
Init ==
    /\ cdata = [obscure |-> None, last |-> 0]
    /\ poisoned = FALSE
    /\ pc = [t \in Threads |-> "idle"]
    /\ req = [t \in Threads |-> None]
    /\ calls = 0
    /\ checked = <<>>
    /\ signed = <<>>
    /\ saved = cdata
    /\ restarts = 0
    /\ staleRestore = FALSE

\* A thread enters sign_remote_commitment with some commitment transaction.
Call(t, tx) ==
    /\ pc[t] = "idle"
    /\ calls < MaxCalls
    /\ pc' = [pc EXCEPT ![t] = "called"]
    /\ req' = [req EXCEPT ![t] = tx]
    /\ calls' = calls + 1
    /\ UNCHANGED <<cdata, poisoned, checked, signed, saved, restarts, staleRestore>>

\* if commitment_tx.input.len() != 1 { panic!(); }  (before the lock)
RejectInputs(t) ==
    /\ pc[t] = "called"
    /\ req[t].inputs # 1
    /\ pc' = [pc EXCEPT ![t] = "panicked"]
    /\ UNCHANGED <<cdata, poisoned, req, calls, checked, signed, saved, restarts, staleRestore>>

\* lock().unwrap() on a poisoned Mutex panics.
LockPoisoned(t) ==
    /\ pc[t] = "called"
    /\ req[t].inputs = 1
    /\ poisoned
    /\ pc' = [pc EXCEPT ![t] = "panicked"]
    /\ UNCHANGED <<cdata, poisoned, req, calls, checked, signed, saved, restarts, staleRestore>>

\* The critical section: learn the factor, de-obscure, assert, advance.
\* A failing assert panics with the guard held and poisons the Mutex; the
\* factor written before the assert stays written.
CheckCommitment(t) ==
    /\ pc[t] = "called"
    /\ req[t].inputs = 1
    /\ ~poisoned
    /\ LET obs == ObscuredNumber(req[t])
           n   == CommitmentNumber(cdata, obs)
       IN  IF Permitted(cdata, n)
           THEN /\ cdata' = [obscure |-> Learned(cdata, obs),
                             last    |-> MaxOf(n, cdata.last)]
                /\ checked' = Append(checked, req[t].num)
                /\ pc' = [pc EXCEPT ![t] = "signing"]
                /\ UNCHANGED poisoned
           ELSE /\ cdata' = [cdata EXCEPT !.obscure = Learned(cdata, obs)]
                /\ poisoned' = TRUE
                /\ pc' = [pc EXCEPT ![t] = "panicked"]
                /\ UNCHANGED checked
    /\ UNCHANGED <<req, calls, signed, saved, restarts, staleRestore>>

\* The guard is dropped; the inner signer produces the signature.
InnerSign(t) ==
    /\ pc[t] = "signing"
    /\ signed' = Append(signed, [num |-> req[t].num, body |-> req[t].body])
    /\ pc' = [pc EXCEPT ![t] = "idle"]
    /\ req' = [req EXCEPT ![t] = None]
    /\ UNCHANGED <<cdata, poisoned, calls, checked, saved, restarts, staleRestore>>

\* impl_writeable!(EnforcingChannelKeys, 0, { inner, commitment_number_obscure_and_last }):
\* a ChannelMonitor write (another thread, at any time) copies the pair out
\* of the Mutex, so the copy is taken under the lock, between two critical
\* sections.  A poisoned lock yields no copy.
Persist ==
    /\ ~poisoned
    /\ saved' = cdata
    /\ UNCHANGED <<cdata, poisoned, pc, req, calls, checked, signed, restarts, staleRestore>>

\* Mutant: the reload keeps the height but loses the learned factor.
MutRestart ==
    /\ restarts < MaxRestarts
    /\ restarts' = restarts + 1
    /\ cdata' = [saved EXCEPT !.obscure = None]
    /\ poisoned' = FALSE
    /\ pc' = [t \in Threads |-> "idle"]
    /\ req' = [t \in Threads |-> None]
    /\ staleRestore' = (staleRestore \/ saved # cdata)
    /\ UNCHANGED <<calls, checked, signed, saved>>

\* The process crashes, at any point of any call, and the signer is read
\* back from the latest copy: the same two fields, in a fresh Mutex (not
\* poisoned).  Calls in flight are lost; a signature not yet produced is
\* never produced, and the caller may ask again.
Restart ==
    /\ restarts < MaxRestarts
    /\ restarts' = restarts + 1
    /\ cdata' = saved
    /\ poisoned' = FALSE
    /\ pc' = [t \in Threads |-> "idle"]
    /\ req' = [t \in Threads |-> None]
    /\ staleRestore' = (staleRestore \/ saved # cdata)
    /\ UNCHANGED <<calls, checked, signed, saved>>

Step(t) == RejectInputs(t) \/ LockPoisoned(t) \/ CheckCommitment(t) \/ InnerSign(t)

Next ==
    \/ \E t \in Threads, tx \in Txs : Call(t, tx)
    \/ \E t \in Threads : Step(t)
    \/ Persist
    \/ Restart

Spec == Init /\ [][Next]_vars

-----------------------------------------------------------------------------
(* Properties                                                              *)

TypeOK ==
    /\ cdata.obscure \in (0..(2^W - 1)) \cup {None}
    /\ cdata.last \in Nat
    /\ poisoned \in BOOLEAN
    /\ pc \in [Threads -> {"idle", "called", "signing", "panicked"}]
    /\ req \in [Threads -> Txs \cup {None}]
    /\ calls \in 0..MaxCalls
    /\ checked \in Seq(Nums)
    /\ signed \in Seq([num : Nums, body : Bodies])
    /\ saved \in [obscure : (0..(2^W - 1)) \cup {None}, last : Nat]
    /\ restarts \in 0..MaxRestarts
    /\ staleRestore \in BOOLEAN

\* When the wrapper's first accepted call was commitment 0 (the channel's
\* first state, so the learned factor is the channel's), the real numbers it
\* accepts under the lock never go backwards and never skip one: each is the
\* previous one or its successor.  This is what the learn-then-assert logic
\* of sign_remote_commitment is for.  It survives crashes at any point,
\* between the check and the signature included, as long as every reload
\* is from a copy written after the last change to the pair: the lost
\* signature is asked for again at the same number, which the assert lets
\* through.
AcceptedContiguous ==
    (~staleRestore /\ Len(checked) > 0 /\ checked[1] = 0) =>
        \A i \in 2..Len(checked) :
            checked[i] \in {checked[i-1], checked[i-1] + 1}

\* (spec 4.4) The wrapper enforces commitment-number monotonicity: the
\* numbers it accepts under the lock never move backwards, whatever the
\* caller hands in first.
CommitmentMonotonic ==
    \A i, j \in 1..Len(checked) : i < j => checked[i] <= checked[j]

\* (spec 4.4) The wrapper never signs two different commitment
\* transactions at the same commitment number: a counterparty holding both
\* could broadcast either.
OneCommitmentPerNumber ==
    \A i, j \in 1..Len(signed) :
        signed[i].num = signed[j].num => signed[i].body = signed[j].body

\* (spec 5) Check, sign and advance are one critical section per channel,
\* so, for a wrapper that learned the channel's factor from commitment 0,
\* signatures come out in commitment-number order.
SignedInOrder ==
    (Len(checked) > 0 /\ checked[1] = 0) =>
    \A i, j \in 1..Len(signed) : i < j => signed[i].num <= signed[j].num

=============================================================================
