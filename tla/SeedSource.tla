----------------------------- MODULE SeedSource -----------------------------
(***************************************************************************)
(* What DefaultRouter::find_route (lightning-invoice/src/utils.rs) promises *)
(* its callers about randomisation, with the lock abstracted away: a call  *)
(* replaces the router's seed by its hash and takes the new value in one  *)
(* atomic step (the block at lines 291-295), then routes with that value  *)
(* once (line 296).  Seeds are counted in hashes applied to the initial   *)
(* seed, as in DefaultRouter.                                             *)
(***************************************************************************)
EXTENDS Naturals, Sequences

VARIABLES
    seed,       \* the router's current seed
    drawn,      \* seeds taken by calls that have not routed yet
    used        \* seeds routed with, in order

Init ==
    /\ seed = 0
    /\ drawn = {}
    /\ used = <<>>

\* The locked block: hash the seed, store it, and take a copy.
Draw ==
    /\ seed' = seed + 1
    /\ drawn' = drawn \cup {seed + 1}
    /\ UNCHANGED used

\* find_route with the copy taken by this call.
Route(s) ==
    /\ s \in drawn
    /\ drawn' = drawn \ {s}
    /\ used' = Append(used, s)
    /\ UNCHANGED seed

Next == Draw \/ \E s \in drawn : Route(s)

Spec == Init /\ [][Next]_<<seed, drawn, used>>

=============================================================================
