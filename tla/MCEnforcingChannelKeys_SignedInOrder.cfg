CONSTANTS
    Threads = {t1, t2}
    Bodies = {ba, bb}
    None = None
    H <- MCH
    ChannelMask <- MCChannelMask
    Nums <- MCNums
    MaxCalls = 4
    MaxRestarts = 1

SPECIFICATION Spec
CHECK_DEADLOCK FALSE

INVARIANT SignedInOrder
