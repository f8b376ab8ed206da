\* Two requests of one address at a time behind one limiter of two hits,
\* challenged from the first failure on.
CONSTANTS
    Requests = {r1, r2}
    Max <- OneLimiter
    Window = 2
    Threshold = 1
    HighThreshold = 2
    CountWindow = 1
    NonceTtl = 0
    MaxRecorded = 2
SPECIFICATION FairSpec
INVARIANT TypeOK
INVARIANT StuckOnlyByLostExpire
INVARIANT FreeBounded
PROPERTY LimitLifts
PROPERTY TablesAreRetried
