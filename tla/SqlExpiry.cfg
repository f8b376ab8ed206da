\* extendSession's comment about expired sessions.
CONSTANTS
    Users = {u1}
    Sids = {s1}
    Requests = {r1, r2}
    NoUser = NoUser
    NoSid = NoSid
    MaxSessions = 1
    SessionDuration = 2
    AccessTtl = 1
    RefreshTtl = 2
    DayLength = 2
    MaxTime = 3
    MaxPassword = 0
SPECIFICATION Spec
SYMMETRY Symmetry
INVARIANT LiveOnlyBeforeExpiry
