\* Features: the flags vector under the mutating operations of features.rs.
CONSTANTS
    Bytes <- MCBytes
    MaxLen = 2
    OrArgs <- MCOrArgs
SPECIFICATION Spec
INVARIANT
    TypeOK
    RoundTrip
    UpTo13
    NodeProjection
    UnknownBitsMatchReference
    OrIsUnion
