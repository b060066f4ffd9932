CONSTANTS
    Threads = {t1, t2}
    Bodies = {ba}
    None = None
    H <- MCH
    ChannelMask <- MCChannelMask
    Nums <- MCNums
    MaxCalls = 4
    MaxRestarts = 1

SPECIFICATION Spec

\* Bounded calls: once every call has returned or panicked the model stops.
CHECK_DEADLOCK FALSE

INVARIANT TypeOK
INVARIANT AcceptedContiguous
