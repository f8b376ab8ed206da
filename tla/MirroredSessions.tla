--------------------------- MODULE MirroredSessions ---------------------------
(***************************************************************************)
(* The deployment with a cache (ADR-007): createMirroredSessionService     *)
(* around the cached session service, and the operator's revocation that   *)
(* works on both stores.  The cache decides who is let in; the SQL rows    *)
(* are what the operator sees, written after the cache and best effort.    *)
(*                                                                         *)
(* The inner service is CachedSessions, command by command.  What a        *)
(* request does in SQL comes before or after its inner call: a request is  *)
(* at a step of CachedSessions (req) and at one of its statements (sql).   *)
(***************************************************************************)
EXTENDS CachedSessions

CONSTANT
    Cookies           \* the token cookies clients come with: <<access, refresh>>

ASSUME MirrorAssumption == Cookies \subseteq BOOLEAN \X BOOLEAN

VARIABLES
    row,      \* the session table
    sql,      \* where each request stands among its SQL statements
    marks     \* what became of rows and revocations, for the properties

mirrorVars == <<now, entry, index, tokens, req, history, row, sql, marks>>

NoRow == [created |-> 0, expires |-> 0]

(* The row is in the operator's list: expires_at > datetime('now').        *)
Visible(s) == now < row[s].expires

VisibleOf(u) == {s \in Sids : Visible(s) /\ Owner(s) = u}

(* UPDATE session SET expires_at = datetime('now') WHERE ...               *)
ExpireRows(sids) ==
    row' = [s \in Sids |-> IF s \in sids THEN [row[s] EXCEPT !.expires = now]
                                         ELSE row[s]]

Statements == {"none", "create.limit", "create.done", "end.update", "all.update",
               "ops.select", "ops.update", "ops.cache"}

Silent == [at |-> "none", user |-> NoUser, sid |-> NoSid, todo |-> {}, sids |-> {}]

Mirror ==
    [at : Statements,
     user : Users \cup {NoUser},
     sid : Sids \cup {NoSid},
     todo : SUBSET Users,       \* affectedUserIds still to be invalidated
     sids : SUBSET Sids]        \* what the revocation is to end, or has ended

Turn(r, statement) == sql' = [sql EXCEPT ![r].at = statement]

Rest(r) == sql' = [sql EXCEPT ![r] = Silent]

MirrorInit ==
    /\ Init
    /\ row = [s \in Sids |-> NoRow]
    /\ sql = [r \in Requests |-> Silent]
    /\ marks = [excused |-> {}, ended |-> {}]

(* History: what leaves s without a row in the list for good.              *)
Excuse(sids) == marks.excused \cup {s \in sids : Live(s)}

-----------------------------------------------------------------------------
(* createSession                                                           *)

(* inner.createSession, up to the point where it returns.                  *)
InnerCreate(r) ==
    /\ sql[r].at = "none"
    /\ \/ \E u \in Users : Login(r, u)
       \/ \E s \in Sids : CreateSet(r, s) \/ LimitGet(r, s) \/ LimitDel(r, s)
       \/ CreateSadd(r) \/ CreateExpire(r) \/ LimitMembers(r)
       \/ LimitSrem(r) \/ LimitEvict(r)
       \/ \E evicted \in SUBSET Sids : LimitDecide(r, evicted)
    /\ UNCHANGED <<row, sql, marks>>

(* Mutant: the duration is added to the cache's expiry, not to now.        *)
MirrorInsert_Adds(r) ==
    LET s == req[r].sid IN
    /\ req[r].at = "login.tokens" /\ sql[r].at = "none"
    /\ row' = [row EXCEPT ![s] = [created |-> now,
                                  expires |-> entry[s].lapse + SessionDuration]]
    /\ Turn(r, "create.limit")
    /\ marks' = [marks EXCEPT !.ended = @ \ {s}]
    /\ UNCHANGED vars

(* INSERT INTO session: the row's times start now, not with the cache's.   *)
(* History: a session that was ended before this is listed all the same.   *)
MirrorInsert(r) ==
    LET s == req[r].sid IN
    /\ req[r].at = "login.tokens" /\ sql[r].at = "none"
    /\ row' = [row EXCEPT ![s] = [created |-> now, expires |-> now + SessionDuration]]
    /\ Turn(r, "create.limit")
    /\ marks' = [marks EXCEPT !.ended = @ \ {s}]
    /\ UNCHANGED vars

(* Mutant: rn >= maxSessions.                                              *)
Ranked_OffByOne(u, evicted) ==
    /\ evicted \subseteq VisibleOf(u)
    /\ Cardinality(VisibleOf(u) \ evicted) <= MaxSessions - 1
    /\ \A k \in VisibleOf(u) \ evicted, e \in evicted : row[k].created >= row[e].created

(* The rows ranked past the limit, newest first; ties fall either way.     *)
Ranked(u, evicted) ==
    /\ evicted \subseteq VisibleOf(u)
    /\ Cardinality(VisibleOf(u) \ evicted) =
         IF Cardinality(VisibleOf(u)) <= MaxSessions THEN Cardinality(VisibleOf(u))
                                                     ELSE MaxSessions
    /\ \A k \in VisibleOf(u) \ evicted, e \in evicted : row[k].created >= row[e].created

(* Rows that MaxSessions others are at least as young as.                  *)
Outrankable(u) ==
    {s \in VisibleOf(u) :
        Cardinality({t \in VisibleOf(u) \ {s} : row[t].created >= row[s].created})
            >= MaxSessions}

(* The limit again, on the rows.                                           *)
MirrorLimit(r, evicted) ==
    LET u == req[r].user IN
    /\ sql[r].at = "create.limit"
    /\ Ranked(u, evicted)
    /\ ExpireRows(evicted)
    /\ marks' = [marks EXCEPT !.excused = Excuse(evicted \cap Outrankable(u))]
    /\ Turn(r, "create.done")
    /\ UNCHANGED vars

(* One of the two throws: logged, and the login goes on all the same.      *)
CreateFails(r) ==
    /\ req[r].at = "login.tokens" /\ sql[r].at \in {"none", "create.limit"}
    /\ marks' = [marks EXCEPT !.excused =
                    IF sql[r].at = "none" THEN Excuse({req[r].sid}) ELSE @]
    /\ Turn(r, "create.done")
    /\ UNCHANGED <<vars, row>>

LoginReturns(r) ==
    /\ sql[r].at = "create.done"
    /\ GenerateTokens(r)
    /\ Rest(r)
    /\ UNCHANGED <<row, marks>>

-----------------------------------------------------------------------------
(* getSession, endSession, endAllSessionsForUser                           *)

(* getSession is the inner one: the cache's TTL slides, the row's does not.*)
InnerGet(r) ==
    /\ sql[r].at = "none"
    /\ \/ \E s \in Sids, cookies \in Cookies :
              Arrive(r, s, cookies[1], cookies[2])
       \/ GetSession(r) \/ GetMissing(r) \/ CacheError(r) \/ Me(r)
       \/ \E route \in Routes : SlideSession(r, route)
    /\ UNCHANGED <<row, sql, marks>>

(* The statement that follows an inner call that has just returned.        *)
Then(r, statement) ==
    sql' = IF req'[r].at = "idle"
           THEN [sql EXCEPT ![r] = [Silent EXCEPT !.at = statement, !.user = req[r].user,
                                                 !.sid = req[r].sid, !.sids = req[r].found]]
           ELSE sql

InnerEnd(r) ==
    /\ sql[r].at = "none"
    /\ EndGet(r) \/ EndDel(r) \/ EndSrem(r)
    /\ Then(r, "end.update")
    /\ UNCHANGED <<row, marks>>

MirrorEnd(r) ==
    /\ sql[r].at = "end.update"
    /\ ExpireRows({sql[r].sid})
    /\ marks' = [marks EXCEPT !.ended = @ \cup {sql[r].sid}]
    /\ Rest(r)
    /\ UNCHANGED vars

InnerEndAll(r) ==
    /\ sql[r].at = "none"
    /\ EndAllMembers(r) \/ EndAllDelIndex(r) \/ \E s \in Sids : EndAllDel(r, s)
    /\ Then(r, "all.update")
    /\ UNCHANGED <<row, marks>>

(* Mutant: only rows of sessions the cache still knows are expired.        *)
EndAllRows_Live(u) == {s \in VisibleOf(u) : Live(s)}

EndAllRows(u) == VisibleOf(u)

(* The rows of sessions that the inner call did not find go with the rest. *)
MirrorEndAll(r) ==
    LET rows == EndAllRows(sql[r].user) IN
    /\ sql[r].at = "all.update"
    /\ ExpireRows(rows)
    /\ marks' = [marks EXCEPT !.ended = @ \cup sql[r].sids,
                              !.excused = Excuse(rows \ sql[r].sids)]
    /\ Rest(r)
    /\ UNCHANGED vars

-----------------------------------------------------------------------------
(* POST /ops/sessions/revoke                                               *)

OpsBegin(r) ==
    /\ req[r].at = "idle" /\ sql[r].at = "none"
    /\ \/ /\ "revokeall" \in Routes
          /\ sql' = [sql EXCEPT ![r] = [Silent EXCEPT !.at = "ops.select"]]
       \/ \E u \in Users :
            /\ "revokeall" \in Routes
            /\ sql' = [sql EXCEPT ![r] = [Silent EXCEPT !.at = "ops.update", !.user = u,
                                                       !.todo = {u}]]
       \/ \E s \in Sids :
            /\ "logout" \in Routes /\ Owner(s) # NoUser
            /\ sql' = [sql EXCEPT ![r] = [Silent EXCEPT !.at = "ops.update", !.sid = s]]
    /\ UNCHANGED <<vars, row, marks>>

Affected == {u \in Users : VisibleOf(u) # {}}

(* Mutant: the UPDATE has been there first, and no user has a row left.    *)
OpsSelect_Late(r) ==
    /\ sql[r].at = "ops.select"
    /\ sql' = [sql EXCEPT ![r].at = "ops.update",
                          ![r].sids = {s \in Sids : /\ Issued(s) /\ Live(s)
                                                    /\ Owner(s) \in Affected}]
    /\ UNCHANGED <<vars, row, marks>>

(* Scope all: SELECT DISTINCT user_id, before the UPDATE makes it empty.   *)
OpsSelect(r) ==
    /\ sql[r].at = "ops.select"
    /\ sql' = [sql EXCEPT ![r].at = "ops.update", ![r].todo = Affected,
                          ![r].sids = {s \in Sids : /\ Issued(s) /\ Live(s)
                                                    /\ Owner(s) \in Affected}]
    /\ UNCHANGED <<vars, row, marks>>

(* It throws: "Best-effort - proceed with SQL revocation regardless".      *)
OpsSelectFails(r) ==
    /\ sql[r].at = "ops.select"
    /\ Turn(r, "ops.update")
    /\ UNCHANGED <<vars, row, marks>>

InScope(r, s) ==
    /\ Visible(s)
    /\ sql[r].sid \in {s, NoSid}
    /\ sql[r].user \in {Owner(s), NoUser}

OpsUpdate(r) ==
    LET rows == {s \in Sids : InScope(r, s)} IN
    /\ sql[r].at = "ops.update"
    /\ ExpireRows(rows)
    /\ Turn(r, "ops.cache")
    /\ marks' = [marks EXCEPT !.excused = Excuse(
                     {s \in rows : sql[r].sid = NoSid /\ Owner(s) \notin sql[r].todo})]
    /\ UNCHANGED vars

(* On to the next user: SMEMBERS, DEL each session, DEL the index.         *)
OpsUser(r, u) ==
    /\ sql[r].at = "ops.cache" /\ u \in sql[r].todo
    /\ OpsRevokeUser(r, u)
    /\ sql' = [sql EXCEPT ![r].todo = @ \ {u}]
    /\ UNCHANGED <<row, marks>>

OpsInvalidate(r) ==
    /\ sql[r].at = "ops.cache"
    /\ EndAllMembers(r) \/ EndAllDelIndex(r) \/ \E s \in Sids : EndAllDel(r, s)
    /\ UNCHANGED <<row, sql, marks>>

(* Every command of a revocation of scope all or user succeeded.           *)
Reached(r) ==
    /\ sql[r].at = "ops.cache" /\ req[r].at = "idle"
    /\ sql[r].sid = NoSid /\ sql[r].todo = {}

(* The answer 200 { success, revoked }.                                    *)
OpsAnswer(r) ==
    /\ Reached(r)
    /\ Rest(r)
    /\ UNCHANGED <<vars, row, marks>>

(* Scope session: GET, SREM and DEL of the one key.                        *)
OpsOne(r) ==
    \/ /\ sql[r].at = "ops.cache"
       /\ \E s \in {sql[r].sid} \ {NoSid} : OpsRevokeSession(r, s)
       /\ Rest(r)
       /\ UNCHANGED <<row, marks>>
    \/ /\ OpsGet(r) \/ OpsSrem(r) \/ OpsDel(r)
       /\ UNCHANGED <<row, sql, marks>>

-----------------------------------------------------------------------------
(* Faults and time                                                         *)

(* The sessions that wait for the operator's request r, their rows expired.*)
AwaitedBy(r) ==
    {s \in Sids :
        \/ req[r].at \in {"ops.get", "ops.srem", "ops.del"} /\ req[r].sid = s
        \/ /\ sql[r].at = "ops.cache"
           /\ \/ sql[r].sid = s
              \/ Owner(s) \in sql[r].todo
              \/ req[r].at = "ops.members" /\ req[r].user = Owner(s)
              \/ req[r].at = "all.del" /\ s \in req[r].todo}

(* An inner call throws and its caller with it; a cache command of the     *)
(* operator's throws, which is logged, the rest skipped and the answer 200;*)
(* the UPDATE of a logout or revoke-all throws, which is logged, or the    *)
(* operator's, answered 500; the isolate goes away.                        *)
MirrorAbort(r) ==
    /\ IF req[r].at = "idle" THEN sql[r].at # "none" /\ UNCHANGED vars ELSE Abort(r)
    /\ Rest(r)
    /\ marks' = [marks EXCEPT !.excused = Excuse(AwaitedBy(r))]
    /\ UNCHANGED row

MirrorNext ==
    \/ \E r \in Requests : InnerCreate(r)
    \/ \E r \in Requests : MirrorInsert(r)
    \/ \E r \in Requests, evicted \in SUBSET Sids : MirrorLimit(r, evicted)
    \/ \E r \in Requests : CreateFails(r)
    \/ \E r \in Requests : LoginReturns(r)
    \/ \E r \in Requests : InnerGet(r)
    \/ \E r \in Requests : InnerEnd(r)
    \/ \E r \in Requests : MirrorEnd(r)
    \/ \E r \in Requests : InnerEndAll(r)
    \/ \E r \in Requests : MirrorEndAll(r)
    \/ \E r \in Requests : OpsBegin(r)
    \/ \E r \in Requests : OpsSelect(r)
    \/ \E r \in Requests : OpsSelectFails(r)
    \/ \E r \in Requests : OpsUpdate(r)
    \/ \E r \in Requests, u \in Users : OpsUser(r, u)
    \/ \E r \in Requests : OpsInvalidate(r)
    \/ \E r \in Requests : OpsAnswer(r)
    \/ \E r \in Requests : OpsOne(r)
    \/ \E r \in Requests : MirrorAbort(r)
    \/ Tick /\ UNCHANGED <<row, sql, marks>>

MirrorSpec == MirrorInit /\ [][MirrorNext]_mirrorVars

-----------------------------------------------------------------------------
(* Properties                                                              *)

MirrorTypeOK ==
    /\ row \in [Sids -> [created : 0..MaxTime, expires : 0..(MaxTime + SessionDuration)]]
    /\ sql \in [Requests -> Mirror]
    /\ marks \in [excused : SUBSET Sids, ended : SUBSET Sids]

(* ADR-007: "If the SQL write fails, the session is still valid [...] but  *)
(* invisible to SQL-based queries".  The other ways for a session that is  *)
(* let in to be missing from the operator's list: it slid past the expiry  *)
(* its row was born with; MaxSessions rows as young outranked it; an older *)
(* revoke-all's UPDATE came late; the operator's revocation expired the    *)
(* row and has not reached the cache yet, was cut short, or never learned  *)
(* of the user; or the key was deleted with the row and written back by a  *)
(* getSession, or missed because no index led to it.                       *)
HiddenOnlyForCause ==
    \A s \in Sids :
        Issued(s) /\ Live(s) /\ ~Visible(s) =>
            \/ s \in marks.excused \cup history.raced \cup history.unlisted
            \/ \E r \in Requests : s \in AwaitedBy(r)
            \/ now >= row[s].created + SessionDuration

(* A session that a completed logout or revoke-all ended is listed no      *)
(* more, unless its own INSERT was overtaken by that call.                 *)
EndedRowsGone == \A s \in marks.ended : ~Visible(s)

(* A revocation of scope all that answers without a fault has ended every  *)
(* session in use of every user who had at least one row in the list when  *)
(* it looked, those without a row of their own included; all but those     *)
(* that a getSession wrote back or that no index led to.                   *)
ScopeAllReaches ==
    \A r \in Requests : Reached(r) =>
        \A s \in sql[r].sids : Live(s) => s \in history.raced \cup history.unlisted
=============================================================================
