\* Three allocations and four structs: enough for a PreCalculatedTxCreationKeys
\* built from keys, a borrowed TxCreationKeys taken from it, and a failed read.
CONSTANTS
    Addrs = {a1, a2, a3}
    Handles = {h1, h2, h3, h4}
    Null = Null
SYMMETRY Symm
SPECIFICATION Spec
INVARIANTS
    TypeOK
    NoMemoryFault
    OwnershipExact
CHECK_DEADLOCK FALSE
