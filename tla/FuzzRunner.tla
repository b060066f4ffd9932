----------------------------- MODULE FuzzRunner -----------------------------
(***************************************************************************)
(* run_test_cases (fuzz/src/bin/msg_closing_signed_target.rs): the main   *)
(* thread spawns one worker per test case, counting running workers in an *)
(* AtomicUsize.  After each spawn it parks while more than 32 are running. *)
(* A worker runs its case under catch_unwind, decrements the counter and  *)
(* unparks the main thread.  Finally the main thread joins the workers in *)
(* spawn order and panics on the first one whose case panicked.           *)
(*                                                                         *)
(* std::thread::park blocks until a token set by unpark is available and  *)
(* consumes it; unpark before park leaves the token set, so a wakeup is   *)
(* never lost.  park may also return spuriously.                          *)
(***************************************************************************)
EXTENDS Naturals, FiniteSets

CONSTANTS
    NumTests,   \* files in test_cases/msg_closing_signed
    Limit,      \* the 32 in `while threads_running.load() > 32`
    None

Workers == 1..NumTests

VARIABLES
    mpc,        \* main thread: "spawn", "check", "park", "join", "done", "panicked"
    next,       \* index of the next test case to spawn, then to join
    running,    \* threads_running
    token,      \* the main thread's park token
    wpc,        \* per worker: "none", "running", "counted", "exited"
    res         \* per worker: None, or whether its case panicked ("ok" / "fail")

vars == <<mpc, next, running, token, wpc, res>>

-----------------------------------------------------------------------------
Init ==
    /\ mpc = IF NumTests > 0 THEN "spawn" ELSE "join"
    /\ next = 1
    /\ running = 0
    /\ token = FALSE
    /\ wpc = [w \in Workers |-> "none"]
    /\ res = [w \in Workers |-> None]

\* Mutant: the counter is incremented by the worker, not before the spawn,
\* so a fast worker decrements it first.
MutSpawn ==
    /\ mpc = "spawn"
    /\ wpc' = [wpc EXCEPT ![next] = "running"]
    /\ mpc' = "check"
    /\ UNCHANGED <<next, running, token, res>>

\* threads_running.fetch_add(1); std::thread::spawn(...)
Spawn ==
    /\ mpc = "spawn"
    /\ running' = running + 1
    /\ wpc' = [wpc EXCEPT ![next] = "running"]
    /\ mpc' = "check"
    /\ UNCHANGED <<next, token, res>>

\* Mutant: the wait loop is dropped; the next case is spawned at once.
MutCheck ==
    /\ mpc = "check"
    /\ next' = IF next < NumTests THEN next + 1 ELSE 1
    /\ mpc' = IF next < NumTests THEN "spawn" ELSE "join"
    /\ UNCHANGED <<running, token, wpc, res>>

\* while threads_running.load() > 32 { park() }; otherwise the for loop
\* goes on to the next test case, or to the join loop after the last one.
Check ==
    /\ mpc = "check"
    /\ \/ /\ running > Limit
          /\ mpc' = "park"
          /\ UNCHANGED next
       \/ /\ running <= Limit
          /\ next' = IF next < NumTests THEN next + 1 ELSE 1
          /\ mpc' = IF next < NumTests THEN "spawn" ELSE "join"
    /\ UNCHANGED <<running, token, wpc, res>>

\* park() returns once the token is available, consuming it.
Park ==
    /\ mpc = "park"
    /\ token
    /\ token' = FALSE
    /\ mpc' = "check"
    /\ UNCHANGED <<next, running, wpc, res>>

\* park() may return without a token.
SpuriousWakeup ==
    /\ mpc = "park"
    /\ mpc' = "check"
    /\ UNCHANGED <<next, running, token, wpc, res>>

\* The worker runs its case under catch_unwind, then fetch_sub(1).
RunCase(w) ==
    /\ wpc[w] = "running"
    /\ \E r \in {"ok", "fail"} : res' = [res EXCEPT ![w] = r]
    /\ running' = running - 1
    /\ wpc' = [wpc EXCEPT ![w] = "counted"]
    /\ UNCHANGED <<mpc, next, token>>

\* Mutant: the worker exits without unparking the main thread.
MutUnparkMain(w) ==
    /\ wpc[w] = "counted"
    /\ wpc' = [wpc EXCEPT ![w] = "exited"]
    /\ UNCHANGED <<mpc, next, running, token, res>>

\* main_thread_ref.unpark(); the closure returns its result.
UnparkMain(w) ==
    /\ wpc[w] = "counted"
    /\ token' = TRUE
    /\ wpc' = [wpc EXCEPT ![w] = "exited"]
    /\ UNCHANGED <<mpc, next, running, res>>

\* Mutant: the output of a panicked case is not checked.
MutJoin ==
    /\ mpc = "join"
    /\ next <= NumTests
    /\ wpc[next] = "exited"
    /\ next' = next + 1
    /\ UNCHANGED <<mpc, running, token, wpc, res>>

\* thread.join().unwrap(); panic!() if the case produced output.
Join ==
    /\ mpc = "join"
    /\ next <= NumTests
    /\ wpc[next] = "exited"
    /\ IF res[next] = "fail"
       THEN mpc' = "panicked" /\ UNCHANGED next
       ELSE next' = next + 1 /\ UNCHANGED mpc
    /\ UNCHANGED <<running, token, wpc, res>>

\* The join loop is over: run_test_cases returns.
Finish ==
    /\ mpc = "join"
    /\ next > NumTests
    /\ mpc' = "done"
    /\ UNCHANGED <<next, running, token, wpc, res>>

Main == Spawn \/ Check \/ Park \/ Join \/ Finish

Next ==
    \/ Main
    \/ SpuriousWakeup
    \/ \E w \in Workers : RunCase(w) \/ UnparkMain(w)

Spec == Init /\ [][Next]_vars

\* Every thread is an OS thread that keeps running once runnable; a spurious
\* wakeup is never relied on.
FairSpec ==
    /\ Spec
    /\ WF_vars(Main)
    /\ \A w \in Workers : WF_vars(RunCase(w)) /\ WF_vars(UnparkMain(w))

-----------------------------------------------------------------------------
(* Properties                                                              *)

TypeOK ==
    /\ mpc \in {"spawn", "check", "park", "join", "done", "panicked"}
    /\ next \in 1..(NumTests + 1)
    /\ running \in 0..NumTests
    /\ token \in BOOLEAN
    /\ wpc \in [Workers -> {"none", "running", "counted", "exited"}]
    /\ res \in [Workers -> {None, "ok", "fail"}]

\* The pool bound: the main thread never has more than Limit + 1 cases
\* running at once (the one just spawned before the counter is checked),
\* whatever order the park token, spurious wakeups and workers take.
RunningBounded ==
    Cardinality({w \in Workers : wpc[w] = "running"}) <= Limit + 1

\* run_test_cases only returns normally when no case panicked.
FailureReported ==
    mpc = "done" => \A w \in Workers : res[w] = "ok"

\* run_test_cases always ends: a parked main thread is always woken.
Terminates == <>(mpc \in {"done", "panicked"})

=============================================================================
