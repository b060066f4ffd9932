\* Two threads; four find_route calls, so that two calls contend for the
\* seed lock twice; four RNG draws, enough for two overlapping draws after a
\* reset and for sequential draws before and after it.  Calls are
\* bounded; reset_rng_state stays callable, so the model never deadlocks.
CONSTANTS
    Threads = {t1, t2}
    MaxCalls = 4
    MaxDraws = 4
    None = None
SPECIFICATION MCSpec
INVARIANT
    TypeOK
    UniqueSeeds
    SequentialDeterminism
PROPERTY
    SeedRefinement
