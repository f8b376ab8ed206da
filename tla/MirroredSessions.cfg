\* One user with two sessions, one of them allowed, two requests at a time, and keys
\* and rows that lapse under requests that come one by one.
CONSTANTS
    Users = {u1}
    Sids = {s1, s2}
    Requests = {r1, r2}
    NoUser = NoUser
    NoSid = NoSid
    Routes = {"logout", "revokeall"}
    Cookies <- AccessOnly
    MaxSessions = 1
    SessionDuration = 2
    AccessTtl = 3
    RefreshTtl = 3
    MaxTime = 2
SPECIFICATION MirrorSpec
SYMMETRY Symmetry
VIEW View
CONSTRAINT Bounded
INVARIANT MirrorTypeOK
INVARIANT HiddenOnlyForCause
INVARIANT EndedRowsGone
INVARIANT ScopeAllReaches
