--------------------------- MODULE CachedSessions ---------------------------
(***************************************************************************)
(* Sessions kept in the cache (createCachedSessionService), with the       *)
(* handlers that use them.  Two kinds of key: session:{id} holds one       *)
(* session with a time to live; user_sessions:{uid} is the index, the set  *)
(* of a user's session ids, that the limit and revoke-all work from.       *)
(* Each cache command is atomic and is one action; a service call is a     *)
(* sequence of commands that other requests interleave with.               *)
(***************************************************************************)
EXTENDS Naturals, FiniteSets

CONSTANTS
    Users, Sids, Requests, NoUser, NoSid,
    Routes,           \* protected handlers in use: \subseteq {"me", "logout", "revokeall"}
    MaxSessions,      \* SessionConfig.maxSessions
    SessionDuration,  \* SessionConfig.sessionDuration, in ticks
    AccessTtl,        \* TokenConfig.accessTokenExpiry, in ticks
    RefreshTtl,       \* TokenConfig.refreshTokenExpiry, in ticks
    MaxTime           \* bound: the clock stops here

ASSUME CacheAssumption ==
    /\ NoUser \notin Users /\ NoSid \notin Sids /\ IsFiniteSet(Sids)
    /\ Routes \subseteq {"me", "logout", "revokeall"}
    /\ MaxSessions \in Nat \ {0} /\ SessionDuration \in Nat \ {0}
    /\ AccessTtl \in Nat \ {0} /\ RefreshTtl \in Nat \ {0} /\ MaxTime \in Nat

VARIABLES
    now,      \* the clock of the Worker and of the cache
    entry,    \* session:{id} keys
    index,    \* user_sessions:{uid} keys
    tokens,   \* the latest token pair issued for each session id
    req,      \* where each request stands and its local variables
    history   \* whom an id was created for; ids a finished revocation covered;
              \* ids removed while a getSession was between its GET and its SET;
              \* ids that an index lost though their sessions were live

vars == <<now, entry, index, tokens, req, history>>

-----------------------------------------------------------------------------
(* The cache (external: Valkey's TTL and set semantics).                   *)

NoEntry == [user |-> NoUser, created |-> 0, lapse |-> 0]

Live(s) == entry[s].user # NoUser /\ now < entry[s].lapse

Never == MaxTime + SessionDuration + 1   \* lapse of a key without a TTL

NoIndex == [members |-> {}, lapse |-> 0]

(* SMEMBERS                                                                *)
Members(u) == IF now < index[u].lapse THEN index[u].members ELSE {}

(* SADD: a set that does not exist is created without a TTL.               *)
Sadd(u, s) ==
    index' = [index EXCEPT ![u] =
                IF Members(u) = {} THEN [members |-> {s}, lapse |-> Never]
                ELSE [@ EXCEPT !.members = Members(u) \cup {s}]]

(* EXPIRE: no effect on a key that does not exist.                         *)
ExpireIndex(u) ==
    index' = IF Members(u) = {} THEN index
             ELSE [index EXCEPT ![u].lapse = now + SessionDuration]

(* SREM: a set that loses its last member is gone.                         *)
Srem(u, s) ==
    index' = [index EXCEPT ![u] =
                IF Members(u) \subseteq {s} THEN NoIndex
                ELSE [@ EXCEPT !.members = Members(u) \ {s}]]

Del(s) == entry' = [entry EXCEPT ![s] = NoEntry]

(* History: s is being removed under a request that is about to SET it.    *)
Racing(s) ==
    {s} \cap {req[q].sid : q \in {q \in Requests : req[q].at \in {"access.set", "refresh.set"}}}

NoteRace(s) == history' = [history EXCEPT !.raced = @ \cup Racing(s)]

(* History: an index forgets sids on its own account.                      *)
Unlisted(sids) == history.unlisted \cup {s \in sids : Live(s)}

DelIndex(u) == index' = [index EXCEPT ![u] = NoIndex]

-----------------------------------------------------------------------------
(* Requests.                                                               *)

Verifies(exp) == now < exp

Issued(s) == tokens[s].refresh > 0

Owner(s) == history.owner[s]

Steps ==
    {"idle",
     "login.set", "login.sadd", "login.expire", "login.members", "login.get",
     "login.srem", "login.del", "login.evict", "login.tokens",
     "access.get", "access.set", "refresh.get", "refresh.set",
     "me", "logout", "logout.del", "logout.srem",
     "revokeall", "all.del", "all.delindex", "ops.members", "ops.get", "ops.srem", "ops.del"}

Idle == [at |-> "idle", user |-> NoUser, sid |-> NoSid, created |-> 0,
         refresh |-> FALSE, todo |-> {}, found |-> {}, pick |-> NoSid]

Request ==
    [at : Steps, user : Users \cup {NoUser}, sid : Sids \cup {NoSid},
     created : 0..MaxTime,      \* createdAt of the session being written
     refresh : BOOLEAN,         \* there is a refresh cookie to fall back on
     todo : SUBSET Sids,        \* ids a loop has still to visit
     found : SUBSET Sids,       \* ids whose GET answered; ids being revoked
     pick : Sids \cup {NoSid}]  \* the id the loop is at

Goto(r, step) == req' = [req EXCEPT ![r].at = step]

Finish(r) == req' = [req EXCEPT ![r] = Idle]

Init ==
    /\ now = 0
    /\ entry = [s \in Sids |-> NoEntry]
    /\ index = [u \in Users |-> NoIndex]
    /\ tokens = [s \in Sids |-> [access |-> 0, refresh |-> 0]]
    /\ req = [r \in Requests |-> Idle]
    /\ history = [owner |-> [s \in Sids |-> NoUser], revoked |-> {},
                  raced |-> {}, unlisted |-> {}]

-----------------------------------------------------------------------------
(* POST /auth/login once the password was verified.                        *)

Login(r, u) ==
    /\ req[r].at = "idle"
    /\ req' = [req EXCEPT ![r] = [Idle EXCEPT !.at = "login.set", !.user = u,
                                              !.created = now]]
    /\ UNCHANGED <<now, entry, index, tokens, history>>

(* SET session:{id} with the session's duration as its TTL.                *)
CreateSet(r, s) ==
    /\ req[r].at = "login.set"
    /\ Owner(s) = NoUser
    /\ entry' = [entry EXCEPT ![s] = [user |-> req[r].user, created |-> req[r].created,
                                      lapse |-> now + SessionDuration]]
    /\ history' = [history EXCEPT !.owner[s] = req[r].user]
    /\ req' = [req EXCEPT ![r].at = "login.sadd", ![r].sid = s, ![r].created = 0]
    /\ UNCHANGED <<now, index, tokens>>

CreateSadd(r) ==
    /\ req[r].at = "login.sadd"
    /\ Sadd(req[r].user, req[r].sid)
    /\ Goto(r, "login.expire")
    /\ UNCHANGED <<now, entry, tokens, history>>

CreateExpire(r) ==
    /\ req[r].at = "login.expire"
    /\ ExpireIndex(req[r].user)
    /\ Goto(r, "login.members")
    /\ UNCHANGED <<now, entry, tokens, history>>

(* enforceSessionLimit: SMEMBERS; within the limit there is nothing to do. *)
LimitMembers(r) ==
    LET members == Members(req[r].user) IN
    /\ req[r].at = "login.members"
    /\ req' = IF Cardinality(members) <= MaxSessions
              THEN [req EXCEPT ![r].at = "login.tokens"]
              ELSE [req EXCEPT ![r].at = "login.get", ![r].todo = members]
    /\ UNCHANGED <<now, entry, index, tokens, history>>

(* GET the sessions one by one; one that is gone is SREMed at once.        *)
LimitGet(r, s) ==
    /\ req[r].at = "login.get"
    /\ s \in req[r].todo
    /\ req' = IF Live(s)
              THEN [req EXCEPT ![r].todo = @ \ {s}, ![r].found = @ \cup {s}]
              ELSE [req EXCEPT ![r].todo = @ \ {s}, ![r].at = "login.srem", ![r].pick = s]
    /\ UNCHANGED <<now, entry, index, tokens, history>>

LimitSrem(r) ==
    /\ req[r].at = "login.srem"
    /\ Srem(req[r].user, req[r].pick)
    /\ req' = [req EXCEPT ![r].at = "login.get", ![r].pick = NoSid]
    /\ UNCHANGED <<now, entry, tokens, history>>

CreatedAt(s) == entry[s].created

(* Mutant: the sorted list is cut one late.                                *)
Surplus_OffByOne(found, evicted) ==
    /\ evicted \subseteq found
    /\ Cardinality(found \ evicted) = MaxSessions + 1
    /\ \A k \in found \ evicted, e \in evicted : CreatedAt(k) >= CreatedAt(e)

(* The tail of the sessions found, sorted newest first, past the limit.    *)
Surplus(found, evicted) ==
    /\ evicted \subseteq found
    /\ Cardinality(found \ evicted) = MaxSessions
    /\ \A k \in found \ evicted, e \in evicted : CreatedAt(k) >= CreatedAt(e)

(* All read: stop if the limit holds after all, else pick the ones to go.  *)
LimitDecide(r, evicted) ==
    /\ req[r].at = "login.get"
    /\ req[r].todo = {}
    /\ IF Cardinality(req[r].found) <= MaxSessions
       THEN /\ evicted = {}
            /\ req' = [req EXCEPT ![r].at = "login.tokens", ![r].found = {}]
       ELSE /\ Surplus(req[r].found, evicted)
            /\ req' = [req EXCEPT ![r].at = "login.del", ![r].todo = evicted,
                                  ![r].found = {}]
    /\ UNCHANGED <<now, entry, index, tokens, history>>

(* Mutant: eviction takes the id out of the index and leaves the key.      *)
LimitDel_IndexOnly(r, s) ==
    /\ req[r].at = "login.del"
    /\ s \in req[r].todo
    /\ req' = [req EXCEPT ![r].at = "login.evict", ![r].todo = @ \ {s}, ![r].pick = s]
    /\ UNCHANGED <<now, entry, index, tokens, history>>

LimitDel(r, s) ==
    /\ req[r].at = "login.del"
    /\ s \in req[r].todo
    /\ Del(s)
    /\ req' = [req EXCEPT ![r].at = "login.evict", ![r].todo = @ \ {s}, ![r].pick = s]
    /\ NoteRace(s)
    /\ UNCHANGED <<now, index, tokens>>

LimitEvict(r) ==
    /\ req[r].at = "login.evict"
    /\ Srem(req[r].user, req[r].pick)
    /\ req' = [req EXCEPT ![r].at = IF req[r].todo = {} THEN "login.tokens" ELSE "login.del",
                          ![r].pick = NoSid]
    /\ UNCHANGED <<now, entry, tokens, history>>

GenerateTokens(r) ==
    /\ req[r].at = "login.tokens"
    /\ tokens' = [tokens EXCEPT ![req[r].sid] =
                    [access |-> now + AccessTtl, refresh |-> now + RefreshTtl]]
    /\ Finish(r)
    /\ UNCHANGED <<now, entry, index, history>>

-----------------------------------------------------------------------------
(* requireAuth                                                             *)

Arrive(r, s, access, refresh) ==
    LET useAccess == access /\ Verifies(tokens[s].access) IN
    /\ req[r].at = "idle"
    /\ Issued(s)
    /\ useAccess \/ (refresh /\ Verifies(tokens[s].refresh))
    /\ req' = [req EXCEPT ![r] = [Idle EXCEPT
                 !.at = IF useAccess THEN "access.get" ELSE "refresh.get",
                 !.user = Owner(s), !.sid = s, !.refresh = useAccess /\ refresh]]
    /\ UNCHANGED <<now, entry, index, tokens, history>>

(* getSession: GET the session; the state read is what SET will write back.*)
GetSession(r) ==
    /\ req[r].at \in {"access.get", "refresh.get"}
    /\ Live(req[r].sid)
    /\ req' = [req EXCEPT ![r].at = IF @ = "access.get" THEN "access.set" ELSE "refresh.set",
                          ![r].created = CreatedAt(req[r].sid)]
    /\ UNCHANGED <<now, entry, index, tokens, history>>

Reject(r) ==
    IF /\ req[r].at \in {"access.get", "access.set"}
       /\ req[r].refresh
       /\ Verifies(tokens[req[r].sid].refresh)
    THEN req' = [req EXCEPT ![r].at = "refresh.get", ![r].refresh = FALSE,
                            ![r].created = 0]
    ELSE Finish(r)

GetMissing(r) ==
    /\ req[r].at \in {"access.get", "refresh.get"}
    /\ ~Live(req[r].sid)
    /\ Reject(r)
    /\ UNCHANGED <<now, entry, index, tokens, history>>

(* Mutant: the TTL is added to what was left of it.                        *)
SlideSession_Accumulates(r, route) ==
    LET s == req[r].sid IN
    /\ req[r].at \in {"access.set", "refresh.set"}
    /\ entry' = [entry EXCEPT ![s] = [user |-> Owner(s), created |-> req[r].created,
                                      lapse |-> entry[s].lapse + SessionDuration]]
    /\ tokens' = IF req[r].at = "refresh.set"
                 THEN [tokens EXCEPT ![s].access = now + AccessTtl]
                 ELSE tokens
    /\ req' = [req EXCEPT ![r] = [Idle EXCEPT !.at = route, !.user = Owner(s),
                                              !.sid = IF route = "logout" THEN s ELSE NoSid]]
    /\ UNCHANGED <<now, index, history>>

(* getSession: SET with a fresh TTL, whether the key still exists or not;  *)
(* the request is let in, on a new access token if it used the refresh one.*)
SlideSession(r, route) ==
    LET s == req[r].sid IN
    /\ req[r].at \in {"access.set", "refresh.set"}
    /\ entry' = [entry EXCEPT ![s] = [user |-> Owner(s), created |-> req[r].created,
                                      lapse |-> now + SessionDuration]]
    /\ tokens' = IF req[r].at = "refresh.set"
                 THEN [tokens EXCEPT ![s].access = now + AccessTtl]
                 ELSE tokens
    /\ req' = [req EXCEPT ![r] = [Idle EXCEPT !.at = route, !.user = Owner(s),
                                              !.sid = IF route = "logout" THEN s ELSE NoSid]]
    /\ UNCHANGED <<now, index, history>>

-----------------------------------------------------------------------------
(* The protected handlers and the operator's revocations.                  *)

Me(r) ==
    /\ req[r].at = "me"
    /\ Finish(r)
    /\ UNCHANGED <<now, entry, index, tokens, history>>

(* Recording a finished revocation whose last command touches s itself.    *)
RevokedAtOnce(s) ==
    history' = [history EXCEPT !.revoked = @ \cup {s}, !.raced = @ \cup Racing(s)]

(* endSession: GET, then DEL and SREM if it was there.                     *)
EndGet(r) ==
    /\ req[r].at = "logout"
    /\ IF Live(req[r].sid)
       THEN Goto(r, "logout.del") /\ UNCHANGED history
       ELSE Finish(r) /\ RevokedAtOnce(req[r].sid)
    /\ UNCHANGED <<now, entry, index, tokens>>

(* Mutant: logout takes the id out of the index and leaves the key.        *)
EndDel_IndexOnly(r) ==
    /\ req[r].at = "logout.del"
    /\ Goto(r, "logout.srem")
    /\ UNCHANGED <<now, entry, index, tokens, history>>

EndDel(r) ==
    /\ req[r].at = "logout.del"
    /\ Del(req[r].sid)
    /\ Goto(r, "logout.srem")
    /\ NoteRace(req[r].sid)
    /\ UNCHANGED <<now, index, tokens>>

(* Mutant: logout deletes the index with every session of the user in it.  *)
EndSrem_DelIndex(r) ==
    /\ req[r].at = "logout.srem"
    /\ DelIndex(req[r].user)
    /\ history' = [history EXCEPT !.revoked = @ \cup {req[r].sid}]
    /\ Finish(r)
    /\ UNCHANGED <<now, entry, tokens>>

EndSrem(r) ==
    /\ req[r].at = "logout.srem"
    /\ Srem(req[r].user, req[r].sid)
    /\ history' = [history EXCEPT !.revoked = @ \cup {req[r].sid}]
    /\ Finish(r)
    /\ UNCHANGED <<now, entry, tokens>>

(* endAllSessionsForUser: SMEMBERS, DEL each session, DEL the index.       *)
EndAllMembers(r) ==
    LET members == Members(req[r].user) IN
    /\ req[r].at \in {"revokeall", "ops.members"}
    /\ IF members = {} /\ req[r].at = "revokeall" THEN Finish(r)
       ELSE req' = [req EXCEPT ![r].at = IF members = {} THEN "all.delindex" ELSE "all.del",
                               ![r].todo = members, ![r].found = members]
    /\ UNCHANGED <<now, entry, index, tokens, history>>

EndAllDel(r, s) ==
    /\ req[r].at = "all.del"
    /\ s \in req[r].todo
    /\ Del(s)
    /\ req' = [req EXCEPT ![r].todo = @ \ {s},
                          ![r].at = IF req[r].todo = {s} THEN "all.delindex" ELSE @]
    /\ NoteRace(s)
    /\ UNCHANGED <<now, index, tokens>>

EndAllDelIndex(r) ==
    /\ req[r].at = "all.delindex"
    /\ DelIndex(req[r].user)
    /\ history' = [history EXCEPT !.revoked = @ \cup req[r].found,
                                  !.unlisted = Unlisted(Members(req[r].user) \ req[r].found)]
    /\ Finish(r)
    /\ UNCHANGED <<now, entry, tokens>>

(* POST /ops/sessions/revoke, scope user: the same commands, but the index *)
(* is deleted even if it was found empty.                                  *)
OpsRevokeUser(r, u) ==
    /\ req[r].at = "idle"
    /\ "revokeall" \in Routes
    /\ req' = [req EXCEPT ![r] = [Idle EXCEPT !.at = "ops.members", !.user = u]]
    /\ UNCHANGED <<now, entry, index, tokens, history>>

(* Scope session: GET for the owner, SREM from its index, DEL the key.     *)
OpsRevokeSession(r, s) ==
    /\ req[r].at = "idle"
    /\ "logout" \in Routes
    /\ Owner(s) # NoUser
    /\ req' = [req EXCEPT ![r] = [Idle EXCEPT !.at = "ops.get", !.sid = s]]
    /\ UNCHANGED <<now, entry, index, tokens, history>>

OpsGet(r) ==
    /\ req[r].at = "ops.get"
    /\ Goto(r, IF Live(req[r].sid) THEN "ops.srem" ELSE "ops.del")
    /\ UNCHANGED <<now, entry, index, tokens, history>>

OpsSrem(r) ==
    /\ req[r].at = "ops.srem"
    /\ Srem(Owner(req[r].sid), req[r].sid)
    /\ Goto(r, "ops.del")
    /\ history' = [history EXCEPT !.unlisted = Unlisted({req[r].sid})]
    /\ UNCHANGED <<now, entry, tokens>>

OpsDel(r) ==
    /\ req[r].at = "ops.del"
    /\ Del(req[r].sid)
    /\ RevokedAtOnce(req[r].sid)
    /\ Finish(r)
    /\ UNCHANGED <<now, index, tokens>>

-----------------------------------------------------------------------------
(* Faults and time.                                                        *)

(* A command of requireAuth throws: fall through to the refresh cookie.    *)
CacheError(r) ==
    /\ req[r].at \in {"access.get", "access.set"}
    /\ Reject(r)
    /\ UNCHANGED <<now, entry, index, tokens, history>>

(* Any other command throws, or the isolate goes away, at any point.       *)
Abort(r) ==
    /\ req[r].at # "idle"
    /\ Finish(r)
    /\ UNCHANGED <<now, entry, index, tokens, history>>

(* Keys whose time to live is over are gone, an index with all its members.*)
Tick ==
    LET lapsed == {s \in Sids : entry[s].user # NoUser /\ entry[s].lapse = now + 1}
        cut == {u \in Users : index[u].lapse = now + 1}
    IN
    /\ now < MaxTime
    /\ now' = now + 1
    /\ history' = [history EXCEPT
                     !.raced = @ \cup UNION {Racing(s) : s \in lapsed},
                     !.unlisted = Unlisted((UNION {index[u].members : u \in cut}) \ lapsed)]
    /\ UNCHANGED <<entry, index, tokens, req>>

Next ==
    \/ \E r \in Requests, u \in Users : Login(r, u)
    \/ \E r \in Requests, s \in Sids : CreateSet(r, s)
    \/ \E r \in Requests : CreateSadd(r)
    \/ \E r \in Requests : CreateExpire(r)
    \/ \E r \in Requests : LimitMembers(r)
    \/ \E r \in Requests, s \in Sids : LimitGet(r, s)
    \/ \E r \in Requests : LimitSrem(r)
    \/ \E r \in Requests, evicted \in SUBSET Sids : LimitDecide(r, evicted)
    \/ \E r \in Requests, s \in Sids : LimitDel(r, s)
    \/ \E r \in Requests : LimitEvict(r)
    \/ \E r \in Requests : GenerateTokens(r)
    \/ \E r \in Requests, s \in Sids, access \in BOOLEAN, refresh \in BOOLEAN :
           Arrive(r, s, access, refresh)
    \/ \E r \in Requests : GetSession(r)
    \/ \E r \in Requests : GetMissing(r)
    \/ \E r \in Requests, route \in Routes : SlideSession(r, route)
    \/ \E r \in Requests : Me(r)
    \/ \E r \in Requests : EndGet(r)
    \/ \E r \in Requests : EndDel(r)
    \/ \E r \in Requests : EndSrem(r)
    \/ \E r \in Requests : EndAllMembers(r)
    \/ \E r \in Requests, s \in Sids : EndAllDel(r, s)
    \/ \E r \in Requests : EndAllDelIndex(r)
    \/ \E r \in Requests, u \in Users : OpsRevokeUser(r, u)
    \/ \E r \in Requests, s \in Sids : OpsRevokeSession(r, s)
    \/ \E r \in Requests : OpsGet(r)
    \/ \E r \in Requests : OpsSrem(r)
    \/ \E r \in Requests : OpsDel(r)
    \/ \E r \in Requests : CacheError(r)
    \/ \E r \in Requests : Abort(r)
    \/ Tick

Spec == Init /\ [][Next]_vars

-----------------------------------------------------------------------------
(* Properties                                                              *)

TypeOK ==
    /\ now \in 0..MaxTime
    /\ entry \in [Sids -> [user : Users \cup {NoUser}, created : 0..MaxTime,
                           lapse : 0..(MaxTime + SessionDuration)]]
    /\ index \in [Users -> [members : SUBSET Sids, lapse : 0..Never]]
    /\ tokens \in [Sids -> [access : 0..(MaxTime + AccessTtl),
                            refresh : 0..(MaxTime + RefreshTtl)]]
    /\ req \in [Requests -> Request]
    /\ history \in [owner : [Sids -> Users \cup {NoUser}], revoked : SUBSET Sids,
                    raced : SUBSET Sids, unlisted : SUBSET Sids]
    /\ \A u \in Users : \A s \in index[u].members : Owner(s) = u

Held == {s \in Sids : \/ Issued(s)
                      \/ \E r \in Requests : req[r].at = "login.tokens" /\ req[r].sid = s}

(* The limit again (README: "max-3-per-user enforcement"): the live        *)
(* sessions of a user that somebody holds tokens for.  Enforcement is not  *)
(* atomic here; concurrent logins each work from their own SMEMBERS.  Only *)
(* a session that a race brought back, or that no index lists, is beyond it.*)
HeldWithinLimit ==
    \A u \in Users :
        Cardinality({s \in Held \ (history.raced \cup history.unlisted) :
                        Live(s) /\ Owner(s) = u}) <= MaxSessions

Usable(s) == Live(s) /\ (Verifies(tokens[s].access) \/ Verifies(tokens[s].refresh))

(* Revoke-all and the limit find sessions through the index alone (ADR-004:*)
(* "SMEMBERS - retrieve all session IDs for the user").  A live session    *)
(* with a token that still verifies is in its owner's index, unless its    *)
(* key was written back after it was removed, or its index lapsed first    *)
(* (only the session's own key slides), or a revoke-all deleted the index  *)
(* it was added to since the SMEMBERS, or an operator's revocation was cut *)
(* short after its SREM.  No login loses another's.                        *)
UnlistedOnlyForCause ==
    \A s \in Sids :
        Usable(s) /\ s \notin Members(Owner(s)) => s \in history.raced \cup history.unlisted

(* ADR-004: after the explicit DEL a concurrent TTL refresh "is irrelevant *)
(* because the key is removed, not expired".  Not so: but only a request   *)
(* that read the session before its key was removed and writes it back     *)
(* afterwards can revive one that a completed logout, revoke-all or        *)
(* operator's revocation covered.                                          *)
RevivedOnlyByRace ==
    \A s \in history.revoked : Live(s) => s \in history.raced
-----------------------------------------------------------------------------
(* What the cache implements.                                              *)

stage == [s \in Sids |-> IF Owner(s) = NoUser THEN "unopened"
                         ELSE IF s \in history.raced THEN "raced"
                         ELSE IF Live(s) THEN "live" ELSE "dead"]

Promise == INSTANCE SessionPromise
               WITH stage <- stage, owner <- history.owner, held <- Held,
                    hidden <- history.unlisted

(* Every cache command is a step of the session promise, or none: what is  *)
(* dead and did not race stays dead, and tokens are handed out within the  *)
(* limit, whatever logins, revocations, lapses and faults interleave.      *)
KeepsPromise == Promise!PromiseSpec
=============================================================================
