\* Two connections and one subscription slot.
CONSTANTS
    Conns = {c1, c2}
    Agents = {a1}
    NoAgent = NoAgent
    Wishes <- ListenAndRevoke
    MaxSubs = 1
    MaxFailures = 1
    MsgRateMax = 1
    IdleBeats = 1
    MaxChecks = 1
SPECIFICATION Spec
SYMMETRY Symmetry
INVARIANT TypeOK
INVARIANT SlotsCounted
INVARIANT GoneIsQuiet
INVARIANT ActedWithinTrust
PROPERTY KeepsPromise
