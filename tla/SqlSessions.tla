---------------------------- MODULE SqlSessions ----------------------------
(***************************************************************************)
(* Sessions kept in the SQL table (the default deployment: app.ts leaves   *)
(* createCacheClient null), with the request handlers that use them.       *)
(*                                                                         *)
(* A Worker serves requests concurrently and holds no lock across an       *)
(* await, so each SQL statement is one action and everything else may      *)
(* happen between two statements of the same request.  A statement is      *)
(* atomic (libSQL serialises writes).  Any await may throw and a request   *)
(* may be cut short anywhere: DbError and Abort.                           *)
(*                                                                         *)
(* Requests that are refused before their first statement (no cookie, bad  *)
(* signature, expired tokens, rate limit) change nothing and are left out. *)
(* Cookies the server deletes on logout may have been copied, so a request *)
(* may present any token ever issued.                                      *)
(***************************************************************************)
EXTENDS Naturals, FiniteSets

CONSTANTS
    Users,            \* account.id
    Sids,             \* session ids nanoid() can produce
    Requests,         \* request slots of the Worker
    NoUser, NoSid,    \* "no row", "no session"
    MaxSessions,      \* SessionConfig.maxSessions
    SessionDuration,  \* SessionConfig.sessionDuration, in ticks
    AccessTtl,        \* TokenConfig.accessTokenExpiry, in ticks
    RefreshTtl,       \* TokenConfig.refreshTokenExpiry, in ticks
    DayLength,        \* ticks in a UTC day
    MaxTime,          \* bound: the clock stops here
    MaxPassword       \* bound: password changes per account

ASSUME SqlAssumption ==
    /\ NoUser \notin Users /\ NoSid \notin Sids
    /\ IsFiniteSet(Sids)
    /\ MaxSessions \in Nat \ {0} /\ DayLength \in Nat \ {0}
    /\ SessionDuration \in Nat \ {0}
    /\ AccessTtl \in Nat \ {0} /\ RefreshTtl \in Nat \ {0}
    /\ MaxTime \in Nat /\ MaxPassword \in Nat

VARIABLES
    now,        \* the clock of the Worker and of the database, in ticks
    session,    \* the session table: [Sids -> Row]
    known,      \* ids a row was ever inserted for
    tokens,     \* the latest token pair issued for each session id
    password,   \* account.password_data, as the number of changes so far
    req,        \* where each request stands and its local variables
    origin      \* history: what was true when a row was inserted, and revoked

vars == <<now, session, known, tokens, password, req, origin>>

-----------------------------------------------------------------------------
(* The session table.                                                      *)

Row == [user : Users \cup {NoUser}, created : 0..MaxTime,
        expires : 0..(MaxTime + SessionDuration), iso : BOOLEAN]

NoRow == [user |-> NoUser, created |-> 0, expires |-> 0, iso |-> FALSE]

(* expires_at is TEXT compared as text with datetime('now').  createSession*)
(* stores toISOString() ("2025-01-31T08:00..."), the UPDATEs datetime()    *)
(* ("2025-01-31 08:00...").  'T' sorts after ' ', so an ISO value exceeds  *)
(* every datetime() of its own day: it lapses when that UTC day ends.      *)
Lapse(row) ==
    IF row.iso THEN (row.expires \div DayLength + 1) * DayLength
               ELSE row.expires

LiveRow(row) == row.user # NoUser /\ now < Lapse(row)

Live(s) == LiveRow(session[s])

LiveOf(u) == {s \in Sids : Live(s) /\ session[s].user = u}

(* Mutant: rn > maxSessions + 1.                                           *)
Keeps_OffByOne(u, kept) ==
    /\ kept \subseteq LiveOf(u)
    /\ \/ kept = LiveOf(u) /\ Cardinality(kept) <= MaxSessions + 1
       \/ Cardinality(kept) = MaxSessions + 1
    /\ \A k \in kept, e \in LiveOf(u) \ kept :
           session[k].created >= session[e].created

(* The rows a user keeps: the MaxSessions most recent unexpired ones.      *)
Keeps(u, kept) ==
    /\ kept \subseteq LiveOf(u)
    /\ \/ kept = LiveOf(u) /\ Cardinality(kept) <= MaxSessions
       \/ Cardinality(kept) = MaxSessions
    /\ \A k \in kept, e \in LiveOf(u) \ kept :
           session[k].created >= session[e].created

DropRows(dropped) ==
    session' = [s \in Sids |-> IF s \in dropped THEN NoRow ELSE session[s]]

(* Mutant: the expiry written with toISOString() like createSession does.  *)
Expire_Iso(sids) ==
    session' = [s \in Sids |->
                  IF s \in sids /\ session[s].user # NoUser
                  THEN [session[s] EXCEPT !.expires = now, !.iso = TRUE]
                  ELSE session[s]]

(* UPDATE session SET expires_at = datetime('now') over the given ids.     *)
Expire(sids) ==
    session' = [s \in Sids |->
                  IF s \in sids /\ session[s].user # NoUser
                  THEN [session[s] EXCEPT !.expires = now, !.iso = FALSE]
                  ELSE session[s]]

-----------------------------------------------------------------------------
(* Tokens.  A JWT is never stored; what matters is which one verifies when.*)

NoToken == [user |-> NoUser, access |-> 0, refresh |-> 0]

Token == [user : Users \cup {NoUser},
          access : 0..(MaxTime + AccessTtl), refresh : 0..(MaxTime + RefreshTtl)]

Verifies(exp) == now < exp

Issued(s) == tokens[s].user # NoUser

-----------------------------------------------------------------------------
(* Requests.                                                               *)

LoginSteps   == {"login.cleanup", "login.insert", "login.enforce", "login.tokens"}
AccessSteps  == {"access.extend", "access.select"}
RefreshSteps == {"refresh.extend", "refresh.select"}
ExtendSteps  == {"access.extend", "refresh.extend"}
SelectSteps  == {"access.select", "refresh.select"}
HandlerSteps == {"me", "logout", "password.select", "password.update",
                 "password.revoke"}
EntrySteps == {"me", "logout", "password.select"}

Idle == [at |-> "idle", user |-> NoUser, sid |-> NoSid,
         created |-> 0, refresh |-> FALSE, dead |-> FALSE, version |-> 0]

Steps == {"idle"} \cup LoginSteps \cup AccessSteps \cup RefreshSteps \cup HandlerSteps

Request ==
    [at : Steps,
     user : Users \cup {NoUser},
     sid : Sids \cup {NoSid},
     created : 0..MaxTime,      \* createSession's now
     refresh : BOOLEAN,         \* the request carries a refresh cookie
     dead : BOOLEAN,            \* history: the session was dead on arrival
     version : 0..MaxPassword]  \* the password version verified or written

Goto(r, step) == req' = [req EXCEPT ![r].at = step]

Finish(r) == req' = [req EXCEPT ![r] = Idle]

Init ==
    /\ now = 0
    /\ session = [s \in Sids |-> NoRow]
    /\ known = {}
    /\ tokens = [s \in Sids |-> NoToken]
    /\ password = [u \in Users |-> 0]
    /\ req = [r \in Requests |-> Idle]
    /\ origin = [owner |-> [s \in Sids |-> NoUser],
                 credential |-> [s \in Sids |-> 0],
                 epoch |-> [s \in Sids |-> 0],
                 revoked |-> [u \in Users |-> 0]]

-----------------------------------------------------------------------------
(* POST /auth/login                                                        *)

(* authenticate: SELECT the hash, verify the typed password against it.    *)
(* Only the outcome "valid" goes on; verification works on the value read. *)
Authenticate(r, u) ==
    /\ req[r].at = "idle"
    /\ req' = [req EXCEPT ![r] = [Idle EXCEPT !.at = "login.cleanup",
                                              !.user = u,
                                              !.version = password[u]]]
    /\ UNCHANGED <<now, session, known, tokens, password, origin>>

(* createSession: DELETE every expired row, then read the Worker's clock.  *)
CleanupExpired(r) ==
    /\ req[r].at = "login.cleanup"
    /\ DropRows({s \in Sids : ~Live(s)})
    /\ req' = [req EXCEPT ![r].at = "login.insert", ![r].created = now]
    /\ UNCHANGED <<now, known, tokens, password, origin>>

(* Mutant: the limit is enforced by no one after the insert.               *)
InsertSession_Unlimited(r, s) ==
    LET u == req[r].user IN
    /\ req[r].at = "login.insert"
    /\ s \notin known
    /\ known' = known \cup {s}
    /\ session' = [session EXCEPT ![s] =
                     [user |-> u, created |-> req[r].created,
                      expires |-> req[r].created + SessionDuration, iso |-> TRUE]]
    /\ req' = [req EXCEPT ![r].at = "login.tokens", ![r].sid = s]
    /\ origin' = [origin EXCEPT !.owner[s] = u,
                                !.credential[s] = req[r].version,
                                !.epoch[s] = origin.revoked[u]]
    /\ UNCHANGED <<now, tokens, password>>

(* createSession: INSERT under a fresh id, timestamps taken earlier.       *)
InsertSession(r, s) ==
    LET u == req[r].user IN
    /\ req[r].at = "login.insert"
    /\ s \notin known
    /\ known' = known \cup {s}
    /\ session' = [session EXCEPT ![s] =
                     [user |-> u, created |-> req[r].created,
                      expires |-> req[r].created + SessionDuration, iso |-> TRUE]]
    /\ req' = [req EXCEPT ![r].at = "login.enforce", ![r].sid = s]
    /\ origin' = [origin EXCEPT !.owner[s] = u,
                                !.credential[s] = req[r].version,
                                !.epoch[s] = origin.revoked[u]]
    /\ UNCHANGED <<now, tokens, password>>

(* enforceSessionLimit: one DELETE of the user's unexpired rows that rank  *)
(* below the MaxSessions most recently created; ties fall either way.      *)
EnforceLimit(r, kept) ==
    /\ req[r].at = "login.enforce"
    /\ Keeps(req[r].user, kept)
    /\ DropRows(LiveOf(req[r].user) \ kept)
    /\ Goto(r, "login.tokens")
    /\ UNCHANGED <<now, known, tokens, password, origin>>

(* generateTokens: sign both tokens, set the cookies, answer 200.          *)
GenerateTokens(r) ==
    /\ req[r].at = "login.tokens"
    /\ tokens' = [tokens EXCEPT ![req[r].sid] =
                    [user |-> req[r].user, access |-> now + AccessTtl,
                     refresh |-> now + RefreshTtl]]
    /\ Finish(r)
    /\ UNCHANGED <<now, session, known, password, origin>>

-----------------------------------------------------------------------------
(* requireAuth                                                             *)

(* A request of session s arrives with an access cookie, a refresh cookie  *)
(* or both, at least one of which verifies.                                *)
Arrive(r, s, access, refresh) ==
    LET useAccess == access /\ Verifies(tokens[s].access) IN
    /\ req[r].at = "idle"
    /\ Issued(s)
    /\ useAccess \/ (refresh /\ Verifies(tokens[s].refresh))
    /\ req' = [req EXCEPT ![r] =
                 [Idle EXCEPT !.at = IF useAccess THEN "access.extend"
                                                  ELSE "refresh.extend",
                              !.user = tokens[s].user, !.sid = s,
                              !.refresh = refresh, !.dead = ~Live(s)]]
    /\ UNCHANGED <<now, session, known, tokens, password, origin>>

(* Mutant: the extension is added to the old expiry instead of the clock.  *)
Extend_Accumulates(r) ==
    LET s == req[r].sid IN
    /\ req[r].at \in ExtendSteps
    /\ Live(s)
    /\ session' = [session EXCEPT ![s].expires = @ + SessionDuration,
                                  ![s].iso = FALSE]
    /\ Goto(r, IF req[r].at = "access.extend" THEN "access.select"
                                              ELSE "refresh.select")
    /\ UNCHANGED <<now, known, tokens, password, origin>>

(* Mutant: the UPDATE lost its expires_at > datetime('now').               *)
Extend_Unguarded(r) ==
    LET s == req[r].sid IN
    /\ req[r].at \in ExtendSteps
    /\ session[s].user # NoUser
    /\ session' = [session EXCEPT ![s].expires = now + SessionDuration,
                                  ![s].iso = FALSE]
    /\ Goto(r, IF req[r].at = "access.extend" THEN "access.select"
                                              ELSE "refresh.select")
    /\ UNCHANGED <<now, known, tokens, password, origin>>

(* Mutant: getSession selects the row without looking at rowsAffected.     *)
Extend_ResultIgnored(r) ==
    LET s == req[r].sid IN
    /\ req[r].at \in ExtendSteps
    /\ session' = IF Live(s)
                  THEN [session EXCEPT ![s].expires = now + SessionDuration,
                                       ![s].iso = FALSE]
                  ELSE session
    /\ Goto(r, IF req[r].at = "access.extend" THEN "access.select"
                                              ELSE "refresh.select")
    /\ UNCHANGED <<now, known, tokens, password, origin>>

(* extendSession: UPDATE ... WHERE id = ? AND expires_at > datetime('now').*)
Extend(r) ==
    LET s == req[r].sid IN
    /\ req[r].at \in ExtendSteps
    /\ Live(s)
    /\ session' = [session EXCEPT ![s].expires = now + SessionDuration,
                                  ![s].iso = FALSE]
    /\ Goto(r, IF req[r].at = "access.extend" THEN "access.select"
                                              ELSE "refresh.select")
    /\ UNCHANGED <<now, known, tokens, password, origin>>

(* The access token got nowhere (dead session, vanished row or an error    *)
(* that the inner catch swallows): try the refresh cookie, else answer 401.*)
(* The refresh token got nowhere: answer 403, or 500 for an error.         *)
Reject(r) ==
    IF /\ req[r].at \in AccessSteps
       /\ req[r].refresh
       /\ Verifies(tokens[req[r].sid].refresh)
    THEN Goto(r, "refresh.extend")
    ELSE Finish(r)

(* getSession returns null: nothing extended, or the row is gone by now.   *)
SessionMissing(r) ==
    LET s == req[r].sid IN
    /\ \/ req[r].at \in ExtendSteps /\ ~Live(s)
       \/ req[r].at \in SelectSteps /\ session[s].user = NoUser
    /\ Reject(r)
    /\ UNCHANGED <<now, session, known, tokens, password, origin>>

(* getSession's SELECT finds the row, live or not: the request is let in,  *)
(* with a new access token if it came in on the refresh token.  The route   *)
(* it asked for matters only from here on.                                 *)
Admit(r, entry) ==
    LET s == req[r].sid IN
    /\ req[r].at \in SelectSteps
    /\ session[s].user # NoUser
    /\ tokens' = IF req[r].at = "refresh.select"
                 THEN [tokens EXCEPT ![s].access = now + AccessTtl]
                 ELSE tokens
    /\ Goto(r, entry)
    /\ UNCHANGED <<now, session, known, password, origin>>

-----------------------------------------------------------------------------
(* The protected handlers                                                  *)

(* GET /account/me                                                         *)
Me(r) ==
    /\ req[r].at = "me"
    /\ Finish(r)
    /\ UNCHANGED <<now, session, known, tokens, password, origin>>

(* POST /auth/logout: endSession's UPDATE has no expiry guard.             *)
EndSession(r) ==
    /\ req[r].at = "logout"
    /\ Expire({req[r].sid})
    /\ Finish(r)
    /\ UNCHANGED <<now, known, tokens, password, origin>>

(* POST /account/password: SELECT the hash and verify currentPassword.     *)
ChangeSelect(r) ==
    /\ req[r].at = "password.select"
    /\ Goto(r, "password.update")
    /\ UNCHANGED <<now, session, known, tokens, password, origin>>

(* changePassword: UPDATE by id alone, whatever the hash is by now.        *)
ChangeUpdate(r) ==
    LET u == req[r].user IN
    /\ req[r].at = "password.update"
    /\ password[u] < MaxPassword
    /\ password' = [password EXCEPT ![u] = password[u] + 1]
    /\ req' = [req EXCEPT ![r].at = "password.revoke",
                          ![r].version = password[u] + 1]
    /\ UNCHANGED <<now, session, known, tokens, origin>>

(* endAllSessionsForUser: one UPDATE over the user's unexpired rows.       *)
EndAllSessionsForUser(r) ==
    LET u == req[r].user IN
    /\ req[r].at = "password.revoke"
    /\ Expire(LiveOf(u))
    /\ origin' = [origin EXCEPT !.revoked[u] =
                    IF req[r].version > @ THEN req[r].version ELSE @]
    /\ Finish(r)
    /\ UNCHANGED <<now, known, tokens, password>>

-----------------------------------------------------------------------------
(* Faults, operators and time                                              *)

(* A statement of requireAuth throws: the inner catch falls through to the *)
(* refresh cookie, the outer one answers 500.                              *)
DbError(r) ==
    /\ req[r].at \in AccessSteps \cup RefreshSteps
    /\ Reject(r)
    /\ UNCHANGED <<now, session, known, tokens, password, origin>>

(* A login or a handler throws (its catch only answers), a rate limiter    *)
(* answers 429, or the isolate goes away: what was written stays written.  *)
Abort(r) ==
    /\ req[r].at # "idle"
    /\ Finish(r)
    /\ UNCHANGED <<now, session, known, tokens, password, origin>>

(* POST /ops/sessions/revoke without a cache: scope all, user or session.  *)
OpsRevoke(sids) ==
    /\ Expire({s \in sids : Live(s)})
    /\ UNCHANGED <<now, known, tokens, password, req, origin>>

OpsScopes ==
    {Sids} \cup {{s \in Sids : session[s].user = u} : u \in Users}
           \cup {{s} : s \in Sids}

Tick ==
    /\ now < MaxTime
    /\ now' = now + 1
    /\ UNCHANGED <<session, known, tokens, password, req, origin>>

Next ==
    \/ \E r \in Requests, u \in Users : Authenticate(r, u)
    \/ \E r \in Requests : CleanupExpired(r)
    \/ \E r \in Requests, s \in Sids : InsertSession(r, s)
    \/ \E r \in Requests, kept \in SUBSET Sids : EnforceLimit(r, kept)
    \/ \E r \in Requests : GenerateTokens(r)
    \/ \E r \in Requests, s \in Sids, access \in BOOLEAN, refresh \in BOOLEAN :
           Arrive(r, s, access, refresh)
    \/ \E r \in Requests : Extend(r)
    \/ \E r \in Requests : SessionMissing(r)
    \/ \E r \in Requests, entry \in EntrySteps : Admit(r, entry)
    \/ \E r \in Requests : Me(r)
    \/ \E r \in Requests : EndSession(r)
    \/ \E r \in Requests : ChangeSelect(r)
    \/ \E r \in Requests : ChangeUpdate(r)
    \/ \E r \in Requests : EndAllSessionsForUser(r)
    \/ \E r \in Requests : DbError(r)
    \/ \E r \in Requests : Abort(r)
    \/ \E sids \in OpsScopes : OpsRevoke(sids)
    \/ Tick

Spec == Init /\ [][Next]_vars

-----------------------------------------------------------------------------
(* Properties                                                              *)

(* Types, with the tightest bounds a timestamp can reach: sliding          *)
(* expiration never pushes a session past one duration from the clock.     *)
TypeOK ==
    /\ now \in 0..MaxTime
    /\ session \in [Sids -> Row]
    /\ known \subseteq Sids
    /\ tokens \in [Sids -> Token]
    /\ password \in [Users -> 0..MaxPassword]
    /\ req \in [Requests -> Request]
    /\ origin \in [owner : [Sids -> Users \cup {NoUser}],
                   credential : [Sids -> 0..MaxPassword],
                   epoch : [Sids -> 0..MaxPassword],
                   revoked : [Users -> 0..MaxPassword]]

(* Sessions somebody holds tokens for, or is about to be handed them.      *)
Held == {s \in Sids : \/ Issued(s)
                      \/ \E r \in Requests : req[r].at = "login.tokens" /\ req[r].sid = s}

(* However logins interleave or fail half-way, the live sessions of a user *)
(* that a client holds tokens for never exceed the limit (threat model row *)
(* 14: "can only hold 3 sessions").  Rows of logins still on their way to  *)
(* enforceSessionLimit, or that failed before it, may exceed it.           *)
HeldWithinLimit ==
    \A u \in Users : Cardinality(LiveOf(u) \cap Held) <= MaxSessions

(* A session that lapsed, was logged out, revoked or evicted never works   *)
(* again: no late extension, sliding expiry or clock step revives it.      *)
RevocationIsFinal ==
    [][\A s \in known : ~Live(s) => ~Live(s)']_vars

(* A request whose session was already dead when it arrived never reaches  *)
(* a handler, on the access token or on the refresh token.                 *)
DeadNeverAdmitted ==
    \A r \in Requests : req[r].at \in HandlerSteps => ~req[r].dead

(* After a completed password change every live session is one inserted    *)
(* since: revocation misses no row that existed, whatever was in flight.   *)
LiveBornAfterRevokeAll ==
    \A s \in Sids : Live(s) => origin.epoch[s] = origin.revoked[session[s].user]

(* ADR-004's stronger wording: once the change is complete no live session *)
(* rests on a credential older than it, "regardless of timing".            *)
NoSessionOutlivesCredential ==
    \A s \in Sids :
        Live(s) => origin.credential[s] >= origin.revoked[session[s].user]

(* extendSession's comment: it "only extends sessions that haven't already *)
(* expired", expires_at being the instant a session expires at.  The text  *)
(* comparison lets a session that was never used outlive that instant.     *)
LiveOnlyBeforeExpiry ==
    \A s \in Sids : Live(s) => now < session[s].expires

(* How far that goes: only a row nobody wrote since its INSERT (no use, no *)
(* logout, no revocation) outlives its expires_at, by less than a day.     *)
OverstaysOnlyUnused ==
    \A s \in Sids :
        Live(s) /\ now >= session[s].expires =>
            /\ session[s].expires = session[s].created + SessionDuration
            /\ now < session[s].expires + DayLength

-----------------------------------------------------------------------------
(* What the table implements: a session lives while its row is live.       *)

life == [s \in Sids |-> IF s \notin known THEN "unopened"
                        ELSE IF Live(s) THEN "live" ELSE "dead"]

Registry == INSTANCE SessionRegistry
                WITH life <- life, owner <- origin.owner, held <- Held

(* Every step of the handlers is a step of the session registry, or none:  *)
(* the SQL sessions keep every promise SessionRegistry makes.              *)
ImplementsRegistry == Registry!RegistrySpec

Promise == INSTANCE SessionPromise
               WITH stage <- life, owner <- origin.owner, held <- Held, hidden <- {}

(* Hence they keep the promise that every deployment keeps, and need none  *)
(* of the exceptions it allows.                                            *)
KeepsPromise == Promise!PromiseSpec
=============================================================================
