\* ADR-004's claim about password changes.
CONSTANTS
    Users = {u1}
    Sids = {s1, s2}
    Requests = {r1, r2}
    NoUser = NoUser
    NoSid = NoSid
    MaxSessions = 1
    SessionDuration = 1
    AccessTtl = 1
    RefreshTtl = 2
    DayLength = 1
    MaxTime = 0
    MaxPassword = 1
SPECIFICATION Spec
SYMMETRY Symmetry
INVARIANT NoSessionOutlivesCredential
