CONSTANTS
    AmtBits = 2
    MaxValueMsat = 3
    Slack = 1
    RandomIvs = {r1, r2}
    UserHashes = {uh}
    MinValues <- MCMinValues
    ExpiryDeltas = {0}
    Totals = {0, 3}
    WordFlips <- MCWordFlips
    ExpiryFlips <- MCExpiryFlips
    MaxTime = 2
    MaxIssued = 2
    None = None

SPECIFICATION Spec

INVARIANT TypeOK
INVARIANT VerifySound
INVARIANT VerifyComplete
INVARIANT AuthBeforeLimits
INVARIANT PreimageSound
