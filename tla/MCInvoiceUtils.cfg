\* Up to three usable channels to two counterparties with two capacities;
\* no minimum, a minimum two channels can meet, and one over the amount
\* limit.  Each behaviour makes one invoice call, then the node stops.
CONSTANTS
    Nodes = {n1, n2}
    Caps = {1, 2}
    MaxChannels = 3
    Amounts = {None, 2, 5}
    MaxValueMsat = 4
    None = None
SPECIFICATION Spec
CHECK_DEADLOCK FALSE
INVARIANT
    TypeOK
    HighestCapacity
    HintCoverage
