\* One connection, slow and failing credential checks.
CONSTANTS
    Conns = {c1}
    Agents = {a1}
    NoAgent = NoAgent
    Wishes <- AnyWish
    MaxSubs = 1
    MaxFailures = 3
    MsgRateMax = 2
    IdleBeats = 4
    MaxChecks = 2
SPECIFICATION FairSpec
PROPERTY CutForCause
PROPERTY RevokedIsCut
PROPERTY HandshakeEnds
PROPERTY SilentIsClosed
