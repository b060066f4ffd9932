---------------------------- MODULE FfiOwnership ----------------------------
(***************************************************************************)
(* The C bindings of chan_utils (lightning-c-bindings/src/ln/chan_utils.rs)*)
(* hand every native object to C as a struct { inner, is_owned }.  Drop    *)
(* frees inner when is_owned and inner is not null; an argument taken by  *)
(* value is consumed with take_ptr (assert is_owned, null out inner) and  *)
(* Box::from_raw; read returns an owned struct with a null inner on a     *)
(* decode failure; trust_key_derivation returns a TxCreationKeys whose    *)
(* inner points into its parent's allocation, with is_owned false.        *)
(*                                                                         *)
(* The C side is a client that keeps the calling convention: a struct     *)
(* passed by value is never used again, a null inner is only ever freed,  *)
(* and a borrowed struct is only used while the struct it came from is    *)
(* still held.  Within that convention the client is arbitrary.  Memory   *)
(* is a map from allocations to their state; a fault records what the     *)
(* Rust side would do wrong (undefined behaviour) or an abort (a panic    *)
(* across extern "C").                                                     *)
(***************************************************************************)
EXTENDS Naturals, FiniteSets

CONSTANTS
    Addrs,      \* heap allocations
    Handles,    \* struct values the C side can hold
    Null        \* the null pointer

\* TxCreationKeys, ChannelPublicKeys, PreCalculatedTxCreationKeys,
\* LocalCommitmentTransaction and HTLCOutputInCommitment.
Kinds == {"TK", "CPK", "PK", "LC", "HTLC"}
Faults == {"double_free", "bad_free", "use_after_free", "null_deref", "abort"}

NoHandle == [kind |-> "none", base |-> Null, interior |-> FALSE, owned |-> FALSE, parent |-> Null]

VARIABLES
    heap,       \* allocation -> "unused", "live", "freed"
    held,       \* struct -> "none", "held", "moved"
    hd,         \* struct -> its fields (inner as base + interior, is_owned)
    faults      \* what went wrong on the Rust side

vars == <<heap, held, hd, faults>>

-----------------------------------------------------------------------------
\* impl Drop: `if self.is_owned && !self.inner.is_null() { Box::from_raw }`
DropOn(h, hp) ==
    IF h.owned /\ h.base # Null
    THEN IF h.interior THEN [heap |-> hp, faults |-> {"bad_free"}]
         ELSE IF hp[h.base] = "live"
              THEN [heap |-> [hp EXCEPT ![h.base] = "freed"], faults |-> {}]
              ELSE [heap |-> hp, faults |-> {"double_free"}]
    ELSE [heap |-> hp, faults |-> {}]

\* `unsafe { &*this_ptr.inner }` in every getter, setter, write and method.
DerefFaults(h, hp) ==
    IF h.base = Null THEN {"null_deref"}
    ELSE IF hp[h.base] # "live" THEN {"use_after_free"} ELSE {}

\* Mutant: take_ptr leaves inner in place.
MutTakePtr(h) == h

\* take_ptr: `assert!(self.is_owned); let ret = self.inner; self.inner = null`
TakePtr(h) == [h EXCEPT !.base = Null]

\* Mutant: the value is read out of the box without freeing it.
MutTakeKeys(hp, a) == hp

\* `*unsafe { Box::from_raw(keys.take_ptr()) }`: moved out, box freed.
TakeKeys(hp, a) == [hp EXCEPT ![a] = "freed"]

\* Mutant: the HTLCs are copied out of their boxes, which are not freed.
MutTakeHtlcs(hp, hs) == hp

\* `*unsafe { Box::from_raw(orig_val_0_0.take_ptr()) }` for every tuple of a
\* CVec_C2Tuple_HTLCOutputInCommitmentSignatureZZ: each HTLC is moved out of
\* its box, which is freed.
TakeHtlcs(hp, hs) ==
    [a \in DOMAIN hp |-> IF \E h \in hs : hd[h].base = a THEN "freed" ELSE hp[a]]

Owned(k, a) == [kind |-> k, base |-> a, interior |-> FALSE, owned |-> TRUE, parent |-> Null]

\* The C side may use a struct: held, non-null, and its parent still held.
Usable(h) ==
    /\ held[h] = "held"
    /\ hd[h].base # Null
    /\ hd[h].parent # Null => held[hd[h].parent] = "held"

\* The HTLCs a C client can put in such a vector: held, owned, non-null.
HtlcArgs == {h \in Handles : Usable(h) /\ hd[h].kind = "HTLC" /\ hd[h].owned}

HtlcFaults(hs) == UNION {DerefFaults(hd[h], heap) : h \in hs}

-----------------------------------------------------------------------------
Init ==
    /\ heap = [a \in Addrs |-> "unused"]
    /\ held = [h \in Handles |-> "none"]
    /\ hd = [h \in Handles |-> NoHandle]
    /\ faults = {}

\* TxCreationKeys_new, TxCreationKeys_derive_new (Ok), ChannelPublicKeys_new:
\* Box::into_raw(Box::new(..)), is_owned: true.
NewObject(h, a, k) ==
    /\ held[h] = "none" /\ heap[a] = "unused"
    /\ heap' = [heap EXCEPT ![a] = "live"]
    /\ held' = [held EXCEPT ![h] = "held"]
    /\ hd' = [hd EXCEPT ![h] = Owned(k, a)]
    /\ UNCHANGED faults

\* X_read: an owned struct, with a null inner when decoding fails.  An
\* HTLCOutputInCommitment has no constructor: C gets one only from _read.
ReadObject(h, a, k) ==
    /\ held[h] = "none" /\ heap[a] = "unused"
    /\ held' = [held EXCEPT ![h] = "held"]
    /\ \/ /\ heap' = [heap EXCEPT ![a] = "live"]
          /\ hd' = [hd EXCEPT ![h] = Owned(k, a)]
       \/ /\ hd' = [hd EXCEPT ![h] = Owned(k, Null)]
          /\ UNCHANGED heap
    /\ UNCHANGED faults

\* Getters, setters, X_write, txid, get_local_sig, get_htlc_sigs, and the
\* functions that borrow an HTLC (get_htlc_redeemscript, build_htlc_transaction).
UseObject(h) ==
    /\ Usable(h)
    /\ faults' = faults \cup DerefFaults(hd[h], heap)
    /\ UNCHANGED <<heap, held, hd>>

\* X_free(this_ptr) takes the struct by value; it is dropped on return.
FreeObject(h) ==
    /\ held[h] = "held"
    /\ LET d == DropOn(hd[h], heap)
       IN  /\ heap' = d.heap
           /\ faults' = faults \cup d.faults
    /\ held' = [held EXCEPT ![h] = "moved"]
    /\ UNCHANGED hd

\* PreCalculatedTxCreationKeys_new(keys) and
\* LocalCommitmentTransaction_new_missing_local_sig(.., local_keys, .., htlc_data):
\* take the TxCreationKeys by value and move it into a new boxed object;
\* take_ptr(self) drops the emptied struct on return.  new_missing_local_sig
\* first moves every HTLC out of htlc_data, then unwraps the decoded
\* unsigned_tx, then takes local_keys.  A borrowed struct fails take_ptr's
\* assert and a bad transaction fails the unwrap: either panic unwinds
\* across extern "C" (an abort), dropping the arguments on the way.
ConsumeKeys(k, h, a, kind, hs) ==
    /\ Usable(k) /\ hd[k].kind = "TK"
    /\ held[h] = "none" /\ heap[a] = "unused"
    /\ kind = "PK" => hs = {}
    /\ \/ /\ ~hd[k].owned \/ kind = "LC"
          /\ LET d == DropOn(hd[k], TakeHtlcs(heap, hs))
             IN  /\ heap' = d.heap
                 /\ faults' = faults \cup {"abort"} \cup HtlcFaults(hs) \cup d.faults
          /\ held' = [g \in Handles |-> IF g \in hs \cup {k} THEN "moved" ELSE held[g]]
          /\ UNCHANGED hd
       \/ /\ hd[k].owned
          /\ LET moved == TakeKeys(TakeHtlcs(heap, hs), hd[k].base)
                 d     == DropOn(TakePtr(hd[k]), [moved EXCEPT ![a] = "live"])
             IN  /\ heap' = d.heap
                 /\ faults' = faults \cup HtlcFaults(hs) \cup DerefFaults(hd[k], heap) \cup d.faults
          /\ held' = [g \in Handles |-> IF g \in hs \cup {k} THEN "moved"
                                         ELSE IF g = h THEN "held" ELSE held[g]]
          /\ hd' = [hd EXCEPT ![h] = Owned(kind, a)]

\* LocalCommitmentTransaction_set_per_htlc(this_ptr, val): every HTLC of val
\* is moved out of its box, then the vector replaces per_htlc inside the
\* object behind this_ptr (the old vector is dropped with it).
SetPerHtlc(l, hs) ==
    /\ Usable(l) /\ hd[l].kind = "LC"
    /\ heap' = TakeHtlcs(heap, hs)
    /\ faults' = faults \cup HtlcFaults(hs) \cup DerefFaults(hd[l], heap)
    /\ held' = [g \in Handles |-> IF g \in hs THEN "moved" ELSE held[g]]
    /\ UNCHANGED hd

\* Mutant: the borrowed TxCreationKeys is marked as owned.
MutTrustKeyDerivation(p, h) ==
    /\ Usable(p) /\ hd[p].kind \in {"PK", "LC"}
    /\ held[h] = "none"
    /\ held' = [held EXCEPT ![h] = "held"]
    /\ hd' = [hd EXCEPT ![h] = [kind |-> "TK", base |-> hd[p].base, interior |-> TRUE,
                                owned |-> TRUE, parent |-> p]]
    /\ faults' = faults \cup DerefFaults(hd[p], heap)
    /\ UNCHANGED heap

\* PreCalculatedTxCreationKeys_trust_key_derivation and
\* LocalCommitmentTransaction_trust_key_derivation: a pointer into the
\* parent object, is_owned: false.
TrustKeyDerivation(p, h) ==
    /\ Usable(p) /\ hd[p].kind \in {"PK", "LC"}
    /\ held[h] = "none"
    /\ held' = [held EXCEPT ![h] = "held"]
    /\ hd' = [hd EXCEPT ![h] = [kind |-> "TK", base |-> hd[p].base, interior |-> TRUE,
                                owned |-> FALSE, parent |-> p]]
    /\ faults' = faults \cup DerefFaults(hd[p], heap)
    /\ UNCHANGED heap

\* A panic across extern "C" ends the process.
Running == "abort" \notin faults

Next ==
    /\ Running
    /\ \/ \E h \in Handles, a \in Addrs :
             \/ \E k \in {"TK", "CPK"} : NewObject(h, a, k)
             \/ \E k \in {"TK", "CPK", "LC", "HTLC"} : ReadObject(h, a, k)
             \/ \E k \in Handles, kind \in {"PK", "LC"}, hs \in SUBSET HtlcArgs :
                   ConsumeKeys(k, h, a, kind, hs)
       \/ \E h \in Handles : UseObject(h) \/ FreeObject(h)
       \/ \E p, h \in Handles : TrustKeyDerivation(p, h)
       \/ \E l \in Handles, hs \in SUBSET HtlcArgs : SetPerHtlc(l, hs)

Spec == Init /\ [][Next]_vars

-----------------------------------------------------------------------------
(* Properties                                                              *)

\* The struct shapes the bindings hand out: a pointer into another object
\* (trust_key_derivation) is never marked as owned.
TypeOK ==
    /\ heap \in [Addrs -> {"unused", "live", "freed"}]
    /\ held \in [Handles -> {"none", "held", "moved"}]
    /\ \A h \in Handles :
          /\ hd[h].kind \in Kinds \cup {"none"}
          /\ hd[h].base \in Addrs \cup {Null}
          /\ hd[h].interior => ~hd[h].owned
    /\ faults \subseteq Faults

\* Whatever a conforming C client does, the Rust side never frees an
\* allocation twice, frees a pointer it did not allocate, or dereferences
\* freed or null memory: Drop, take_ptr and the by-value constructors
\* together hand every allocation back exactly once.
NoMemoryFault ==
    faults \subseteq {"abort"}

\* Every live allocation is owned by exactly one struct the C side holds
\* (none leaks, none is shared by two owners), and every owned struct the C
\* side holds points at a live allocation.
OwnershipExact ==
    /\ \A a \in Addrs :
          heap[a] = "live" =>
              Cardinality({h \in Handles : held[h] = "held" /\ hd[h].owned
                                            /\ ~hd[h].interior /\ hd[h].base = a}) = 1
    /\ \A h \in Handles :
          (held[h] = "held" /\ hd[h].owned /\ hd[h].base # Null) =>
              heap[hd[h].base] = "live"

=============================================================================
