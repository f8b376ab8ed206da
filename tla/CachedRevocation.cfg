\* Two requests at a time, revocations among them, keys that lapse.
CONSTANTS
    Users = {u1}
    Sids = {s1, s2}
    Requests = {r1, r2}
    NoUser = NoUser
    NoSid = NoSid
    Routes = {"me", "logout", "revokeall"}
    MaxSessions = 1
    SessionDuration = 1
    AccessTtl = 1
    RefreshTtl = 2
    MaxTime = 1
SPECIFICATION Spec
SYMMETRY Symmetry
INVARIANT TypeOK
INVARIANT UnlistedOnlyForCause
INVARIANT RevivedOnlyByRace
PROPERTY KeepsPromise
