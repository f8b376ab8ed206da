\* One session allowed, two logins, a password change, lapsing sessions.
CONSTANTS
    Users = {u1}
    Sids = {s1, s2}
    Requests = {r1, r2}
    NoUser = NoUser
    NoSid = NoSid
    MaxSessions = 1
    SessionDuration = 1
    AccessTtl = 1
    RefreshTtl = 2
    DayLength = 1
    MaxTime = 2
    MaxPassword = 1
SPECIFICATION Spec
SYMMETRY Symmetry
INVARIANT TypeOK
INVARIANT HeldWithinLimit
INVARIANT DeadNeverAdmitted
INVARIANT LiveBornAfterRevokeAll
INVARIANT OverstaysOnlyUnused
PROPERTY RevocationIsFinal
PROPERTY ImplementsRegistry
