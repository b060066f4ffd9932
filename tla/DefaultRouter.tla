---------------------------- MODULE DefaultRouter ----------------------------
(***************************************************************************)
(* DefaultRouter (lightning-invoice/src/utils.rs).  Every find_route call  *)
(* locks random_seed_bytes, replaces it by its SHA-256, copies the new    *)
(* value out, drops the guard, and routes with the copy outside the lock. *)
(* Several payer threads may call find_route on one router.  The seed is  *)
(* abstracted to the number of hashes applied to the initial seed, which  *)
(* is injective for a hash function without collisions.                   *)
(***************************************************************************)
EXTENDS Naturals, Sequences

CONSTANTS
    Threads,    \* threads calling find_route
    MaxCalls,   \* bound on calls in a behaviour
    None

VARIABLES
    lock,       \* holder of the random_seed_bytes Mutex, or None
    seed,       \* *random_seed_bytes: hashes applied to the initial seed
    pc,         \* per thread: "idle", "waiting", "locked", "hashed", "stored", "routing"
    local,      \* per thread: the hash being computed, then the copy
    calls,      \* calls started (bounded)
    used        \* history: seeds handed to the route finder, in order

vars == <<lock, seed, pc, local, calls, used>>

-----------------------------------------------------------------------------
Init ==
    /\ lock = None
    /\ seed = 0
    /\ pc = [t \in Threads |-> "idle"]
    /\ local = [t \in Threads |-> 0]
    /\ calls = 0
    /\ used = <<>>

\* A payer thread enters find_route.
Call(t) ==
    /\ pc[t] = "idle"
    /\ calls < MaxCalls
    /\ pc' = [pc EXCEPT ![t] = "waiting"]
    /\ calls' = calls + 1
    /\ UNCHANGED <<lock, seed, local, used>>

\* Mutant: the seed is read and written without taking the lock.
MutLockSeed(t) ==
    /\ pc[t] = "waiting"
    /\ pc' = [pc EXCEPT ![t] = "locked"]
    /\ UNCHANGED <<lock, seed, local, calls, used>>

\* self.random_seed_bytes.lock().unwrap(): blocks while another holds it.
LockSeed(t) ==
    /\ pc[t] = "waiting"
    /\ lock = None
    /\ lock' = t
    /\ pc' = [pc EXCEPT ![t] = "locked"]
    /\ UNCHANGED <<seed, local, calls, used>>

\* Mutant: the stored seed is copied out without being hashed.
MutHashSeed(t) ==
    /\ pc[t] = "locked"
    /\ local' = [local EXCEPT ![t] = seed]
    /\ pc' = [pc EXCEPT ![t] = "hashed"]
    /\ UNCHANGED <<lock, seed, calls, used>>

\* sha256::Hash::hash(&*locked_random_seed_bytes)
HashSeed(t) ==
    /\ pc[t] = "locked"
    /\ local' = [local EXCEPT ![t] = seed + 1]
    /\ pc' = [pc EXCEPT ![t] = "hashed"]
    /\ UNCHANGED <<lock, seed, calls, used>>

\* Mutant: the seed is copied out before the new value is stored.
MutStoreSeed(t) ==
    /\ pc[t] = "hashed"
    /\ seed' = local[t]
    /\ local' = [local EXCEPT ![t] = seed]
    /\ pc' = [pc EXCEPT ![t] = "stored"]
    /\ UNCHANGED <<lock, calls, used>>

\* *locked_random_seed_bytes = ...; the new value is copied out.
StoreSeed(t) ==
    /\ pc[t] = "hashed"
    /\ seed' = local[t]
    /\ pc' = [pc EXCEPT ![t] = "stored"]
    /\ UNCHANGED <<lock, local, calls, used>>

\* End of the block: the guard is dropped.
UnlockSeed(t) ==
    /\ pc[t] = "stored"
    /\ lock' = None
    /\ pc' = [pc EXCEPT ![t] = "routing"]
    /\ UNCHANGED <<seed, local, calls, used>>

\* find_route(..., &random_seed_bytes) outside the lock.
FindRoute(t) ==
    /\ pc[t] = "routing"
    /\ used' = Append(used, local[t])
    /\ pc' = [pc EXCEPT ![t] = "idle"]
    /\ UNCHANGED <<lock, seed, local, calls>>

Step(t) == LockSeed(t) \/ HashSeed(t) \/ StoreSeed(t) \/ UnlockSeed(t) \/ FindRoute(t)

Next == \E t \in Threads : Call(t) \/ Step(t)

Spec == Init /\ [][Next]_vars

-----------------------------------------------------------------------------
(* Properties                                                              *)

TypeOK ==
    /\ lock \in Threads \cup {None}
    /\ seed \in 0..MaxCalls
    /\ pc \in [Threads -> {"idle", "waiting", "locked", "hashed", "stored", "routing"}]
    /\ local \in [Threads -> 0..MaxCalls]
    /\ calls \in 0..MaxCalls
    /\ used \in Seq(1..MaxCalls)

\* No two find_route calls, from any threads, route with the same seed, and
\* none reuses the seed the router was created with: the randomisation of
\* each route is fresh.
UniqueSeeds ==
    \A i, j \in 1..Len(used) : i # j => used[i] # used[j]

\* The seeds taken by calls that have not routed yet.
Drawn == {local[t] : t \in {u \in Threads : pc[u] \in {"stored", "routing"}}}

Abstract == INSTANCE SeedSource WITH seed <- seed, drawn <- Drawn, used <- used

\* find_route behaves as if the locked block were one atomic step: each call
\* routes with the seed it stored, the seed a call stores is the hash of
\* the one before it, and every seed taken is routed with once.  A call
\* that copied the value out before storing, or two calls hashing the same
\* seed, are steps SeedSource does not allow.
SeedRefinement == Abstract!Spec

=============================================================================
