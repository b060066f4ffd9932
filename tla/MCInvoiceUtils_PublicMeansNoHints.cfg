\* A usable public channel whose counterparty has not sent forwarding info
\* is skipped before the public test, so private hints are still returned.
CONSTANTS
    Nodes = {n1, n2}
    Caps = {1, 2}
    MaxChannels = 3
    Amounts = {None, 2, 5}
    MaxValueMsat = 4
    None = None
SPECIFICATION Spec
CHECK_DEADLOCK FALSE
INVARIANT
    PublicMeansNoHints
