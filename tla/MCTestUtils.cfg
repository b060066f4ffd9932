\* Gossip double: two peers syncing from a source of three announcements in
\* batches of two, three calls, so that two overlapping calls overshoot the
\* total and a third underflows.  Monitor double: two callers, one funding
\* outpoint, one update id, Ok and one error value, four calls or test
\* writes: enough to arm next_update_ret between two returns and for an add
\* to wait on the monitors lock an update holds.  Calls are bounded, so the
\* model stops when they run out.
CONSTANTS
    Callers = {p1, p2}
    TotalUpds = 3
    StartPoints = {0, 1, 2}
    Batches = {2}
    MaxCalls = 3
    MonCallers = {m1, m2}
    Channels = {f1}
    UpdateIds = {1}
    Rets = {"ok", "temp"}
    MaxMonCalls = 4
    None = None
SPECIFICATION MCSpec
CHECK_DEADLOCK FALSE
INVARIANT
    TypeOK
    WithinTotalSequential
PROPERTY
    NextRetAsDocumented
