--------------------------- MODULE RoutingHandler ---------------------------
(***************************************************************************)
(* TestRoutingMessageHandler (lightning/src/util/test_utils.rs): a gossip *)
(* source that serves TOTAL_UPDS dummy channel announcements in total.    *)
(* get_next_channel_announcements(starting_point, batch_amount) loads     *)
(* chan_anns_sent, builds announcements starting_point .. end with        *)
(*     end = min(starting_point + batch_amount, TOTAL_UPDS - sent)        *)
(* and only then adds their number to chan_anns_sent.  The handler is     *)
(* shared (&self, atomics), so calls for several peers may overlap between *)
(* the load and the fetch_add.  TOTAL_UPDS - sent is a u64 subtraction:  *)
(* with sent > TOTAL_UPDS it panics in a build with overflow checks and   *)
(* wraps in one without; both builds are left open.                       *)
(***************************************************************************)
EXTENDS Naturals, FiniteSets

CONSTANTS
    Callers,        \* peers' sync tasks calling the handler
    TotalUpds,      \* TOTAL_UPDS (100 in the code)
    StartPoints,    \* starting_point values a caller may pass
    Batches,        \* batch_amount values a caller may pass
    MaxCalls,       \* bound on calls in a behaviour
    None

VARIABLES
    sent,           \* chan_anns_sent
    anns,           \* chan_anns_recvd
    upds,           \* chan_upds_recvd
    pc,             \* per caller: "idle", "built", "panicked"
    got,            \* per caller: indices of the announcements built
    calls,          \* calls started (bounded)
    overlap,        \* history: two calls were ever in progress at once
    served          \* history: every index returned, across all calls

vars == <<sent, anns, upds, pc, got, calls, overlap, served>>

MinOf(a, b) == IF a <= b THEN a ELSE b

-----------------------------------------------------------------------------
Init ==
    /\ sent = 0
    /\ anns = 0
    /\ upds = 0
    /\ pc = [c \in Callers |-> "idle"]
    /\ got = [c \in Callers |-> {}]
    /\ calls = 0
    /\ overlap = FALSE
    /\ served = {}

\* Mutant: end is not capped by the announcements left.
MutAnnEnd(sp, b, s) == sp + b

\* end = min(starting_point + batch_amount, TOTAL_UPDS - sent), for a
\* sent that does not exceed TOTAL_UPDS.
AnnEnd(sp, b, s) == MinOf(sp + b, TotalUpds - s)

\* The load of chan_anns_sent and the loop building the batch.  With
\* sent > TOTAL_UPDS the subtraction panics, or wraps to a huge bound.
BuildBatch(c, sp, b) ==
    /\ pc[c] = "idle"
    /\ calls < MaxCalls
    /\ calls' = calls + 1
    /\ overlap' = (overlap \/ \E d \in Callers \ {c} : pc[d] = "built")
    /\ IF sent <= TotalUpds
       THEN /\ got' = [got EXCEPT ![c] = sp..(AnnEnd(sp, b, sent) - 1)]
            /\ pc' = [pc EXCEPT ![c] = "built"]
       ELSE \/ /\ pc' = [pc EXCEPT ![c] = "panicked"]
               /\ UNCHANGED got
            \/ /\ got' = [got EXCEPT ![c] = sp..(sp + b - 1)]
               /\ pc' = [pc EXCEPT ![c] = "built"]
    /\ UNCHANGED <<sent, anns, upds, served>>

\* Mutant: fetch_sub in place of fetch_add.
MutReturnBatch(c) ==
    /\ pc[c] = "built"
    /\ sent' = sent - Cardinality(got[c])
    /\ served' = served \cup got[c]
    /\ pc' = [pc EXCEPT ![c] = "idle"]
    /\ got' = [got EXCEPT ![c] = {}]
    /\ UNCHANGED <<anns, upds, calls, overlap>>

\* chan_anns_sent.fetch_add(chan_anns.len()); the batch is returned.
ReturnBatch(c) ==
    /\ pc[c] = "built"
    /\ sent' = sent + Cardinality(got[c])
    /\ served' = served \cup got[c]
    /\ pc' = [pc EXCEPT ![c] = "idle"]
    /\ got' = [got EXCEPT ![c] = {}]
    /\ UNCHANGED <<anns, upds, calls, overlap>>

\* handle_channel_announcement: count it, answer IgnoreError.
HandleChannelAnnouncement ==
    /\ calls < MaxCalls
    /\ anns' = anns + 1
    /\ calls' = calls + 1
    /\ UNCHANGED <<sent, upds, pc, got, overlap, served>>

\* handle_channel_update: count it, answer IgnoreError.
HandleChannelUpdate ==
    /\ calls < MaxCalls
    /\ upds' = upds + 1
    /\ calls' = calls + 1
    /\ UNCHANGED <<sent, anns, pc, got, overlap, served>>

Next ==
    \/ \E c \in Callers, sp \in StartPoints, b \in Batches : BuildBatch(c, sp, b)
    \/ \E c \in Callers : ReturnBatch(c)
    \/ HandleChannelAnnouncement
    \/ HandleChannelUpdate

Spec == Init /\ [][Next]_vars

-----------------------------------------------------------------------------
(* Properties                                                              *)

TypeOK ==
    /\ sent \in Nat
    /\ anns \in 0..MaxCalls
    /\ upds \in 0..MaxCalls
    /\ pc \in [Callers -> {"idle", "built", "panicked"}]
    /\ got \in [Callers -> SUBSET Nat]
    /\ calls \in 0..MaxCalls
    /\ overlap \in BOOLEAN
    /\ served \subseteq Nat

\* The handler is a finite gossip source: while no two calls overlap, the
\* announcements handed out never exceed TOTAL_UPDS, every index served is
\* below it, and no call panics on the TOTAL_UPDS - sent subtraction.
WithinTotalSequential ==
    ~overlap =>
        /\ sent <= TotalUpds
        /\ served \subseteq 0..(TotalUpds - 1)
        /\ \A c \in Callers : pc[c] # "panicked"

=============================================================================
