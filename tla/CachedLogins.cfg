\* Three concurrent logins, any of them cut short, and the use of their sessions:
\* one session allowed.
CONSTANTS
    Users = {u1}
    Sids = {s1, s2, s3}
    Requests = {r1, r2, r3}
    NoUser = NoUser
    NoSid = NoSid
    Routes = {"me"}
    MaxSessions = 1
    SessionDuration = 3
    AccessTtl = 2
    RefreshTtl = 3
    MaxTime = 0
SPECIFICATION Spec
SYMMETRY Symmetry
INVARIANT HeldWithinLimit
INVARIANT UnlistedOnlyForCause
