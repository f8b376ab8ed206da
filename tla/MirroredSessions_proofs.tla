----------------------- MODULE MirroredSessions_proofs -----------------------
(***************************************************************************)
(* Theorems about MirroredSessions, for any users and requests, any finite *)
(* set of session ids, any limit, durations and routes.  The mirror takes  *)
(* steps of CachedSessions and stutters, so what is proved of the cache    *)
(* (IInv, PromiseKept) holds here; the rest is about the rows.             *)
(***************************************************************************)
EXTENDS MirroredSessions, CachedSessions_proofs

Creating == {"create.limit", "create.done"}

(* Sessions with tokens, or a login that is past its INSERT.               *)
Known(s) ==
    \/ Issued(s)
    \/ \E r \in Requests : sql[r].at \in Creating /\ req[r].sid = s

(* Why a session that is let in may be missing from the list.              *)
Cause(s) ==
    \/ s \in marks.excused \cup history.raced \cup history.unlisted
    \/ \E r \in Requests : s \in AwaitedBy(r)
    \/ now >= row[s].created + SessionDuration

Shown(s) == Live(s) /\ ~Visible(s) => Cause(s)

KnownShown == \A s \in Sids : Known(s) => Shown(s)

(* A row keeps the expiry it was born with until an UPDATE expires it.     *)
RowsOK == \A s \in Sids : Visible(s) => row[s].expires = row[s].created + SessionDuration

(* What a request knows at each of its statements.                         *)
SqlOK(r) ==
    /\ req[r].at = "revokeall" => req[r].found = {}
    /\ sql[r].at \in Creating => req[r].at = "login.tokens"
    /\ sql[r].at \in {"end.update", "all.update", "ops.select", "ops.update"} =>
         req[r].at = "idle"
    /\ sql[r].at = "end.update" => sql[r].sid \in Sids /\ Over(sql[r].sid)
    /\ sql[r].at = "all.update" => \A s \in sql[r].sids : Owner(s) = sql[r].user /\ Over(s)
    /\ sql[r].at = "ops.select" =>
         sql[r].sid = NoSid /\ sql[r].todo = {} /\ sql[r].sids = {}
    /\ sql[r].at \in {"ops.update", "ops.cache"} /\ sql[r].sid # NoSid =>
         sql[r].todo = {} /\ sql[r].sids = {}
    /\ sql[r].at = "ops.update" =>
         \A s \in sql[r].sids : Issued(s) /\ (Over(s) \/ Owner(s) \in sql[r].todo)
    /\ sql[r].at = "ops.cache" =>
         /\ req[r].at \in {"idle", "ops.members", "all.del", "all.delindex"}
         /\ \A s \in sql[r].sids :
                Issued(s) /\ (Over(s) \/ s \in history.unlisted \/ s \in AwaitedBy(r))

MInv ==
    /\ MirrorTypeOK /\ Opened /\ RowsOK /\ KnownShown /\ EndedRowsGone
    /\ \A r \in Requests : SqlOK(r)

Row == [created : 0..MaxTime, expires : 0..(MaxTime + SessionDuration)]

Marks == [excused : SUBSET Sids, ended : SUBSET Sids]

-----------------------------------------------------------------------------
(* What no step of the cache undoes                                        *)

Lasting ==
    /\ now \in Nat /\ now' \in Nat /\ now <= now'
    /\ history.raced \subseteq history'.raced
    /\ history.unlisted \subseteq history'.unlisted
    /\ \A s \in Sids :
         /\ Issued(s) => Issued(s)'
         /\ Owner(s) # NoUser => Owner(s)' = Owner(s)
         /\ Over(s) => Over(s)'
         /\ Owner(s) # NoUser /\ Live(s)' => Live(s) \/ s \in history'.raced

LEMMA Staged ==
    ASSUME NEW s \in Sids
    PROVE  /\ Over(s) <=> stage[s] \in {"dead", "raced"}
           /\ Owner(s) # NoUser => (s \in history.raced <=> stage[s] = "raced")
           /\ Owner(s) = NoUser <=> stage[s] = "unopened"
BY DEF stage, Over

LEMMA StagedNext ==
    ASSUME NEW s \in Sids
    PROVE  /\ Over(s)' <=> stage'[s] \in {"dead", "raced"}
           /\ Owner(s)' # NoUser => (s \in history'.raced <=> stage'[s] = "raced")
           /\ Owner(s)' = NoUser <=> stage'[s] = "unopened"
BY DEF stage, Over, Owner, Live

(* Tokens and the clock only gain.                                         *)
LEMMA Gains ==
    ASSUME IInv, [Next]_vars
    PROVE  /\ now \in Nat /\ now' \in Nat /\ now <= now'
           /\ \A s \in Sids : Issued(s) => Issued(s)'
<1>1. now \in Nat /\ tokens \in [Sids -> Pair]
  BY Typed, Clocks DEF IInv
<1>2. CASE UNCHANGED tokens
  <2>1. now' = now \/ Tick
    BY <1>2 DEF Next, vars, Login, CreateSet, CreateSadd, CreateExpire, LimitMembers, LimitGet,
       LimitSrem, LimitDecide, LimitDel, LimitEvict, GenerateTokens, Arrive, GetSession,
       GetMissing, SlideSession, Me, EndGet, EndDel, EndSrem, EndAllMembers, EndAllDel,
       EndAllDelIndex, OpsRevokeUser, OpsRevokeSession, OpsGet, OpsSrem, OpsDel, CacheError, Abort
  <2> QED BY <1>1, <1>2, <2>1 DEF Tick, Issued
<1>3. CASE ~UNCHANGED tokens
  <2>1. \E r \in Requests : GenerateTokens(r) \/ \E route \in Routes : SlideSession(r, route)
    BY <1>3 DEF Next, vars, Login, CreateSet, CreateSadd, CreateExpire, LimitMembers, LimitGet,
       LimitSrem, LimitDecide, LimitDel, LimitEvict, Arrive, GetSession,
       GetMissing, Me, EndGet, EndDel, EndSrem, EndAllMembers, EndAllDel, Tick,
       EndAllDelIndex, OpsRevokeUser, OpsRevokeSession, OpsGet, OpsSrem, OpsDel, CacheError, Abort
  <2>2. ASSUME NEW r \in Requests, GenerateTokens(r)
        PROVE  now' = now /\ \A s \in Sids : Issued(s) => Issued(s)'
    <3>1. now + RefreshTtl > 0
      BY Clocks DEF IInv
    <3> QED BY <1>1, <2>2, <3>1 DEF GenerateTokens, Issued
  <2>3. ASSUME NEW r \in Requests, NEW route \in Routes, SlideSession(r, route)
        PROVE  now' = now /\ \A s \in Sids : Issued(s) => Issued(s)'
    BY <1>1, <2>3 DEF SlideSession, Issued, Pair
  <2> QED BY <1>1, <2>1, <2>2, <2>3
<1> QED BY <1>2, <1>3

(* The promise says so of owners and stages, hence of what is over.        *)
LEMMA Lasts ==
    ASSUME IInv, Opened, [Next]_vars
    PROVE  IInv' /\ Opened' /\ Lasting
<1>1. IInv'
  BY StepInv
<1>2. Opened' /\ PromiseStep
  BY <1>1, PromiseKept
<1>3. ASSUME NEW s \in Sids
      PROVE  /\ stage[s] \in {"dead", "raced"} => stage'[s] = stage[s]
             /\ stage[s] # "unopened" => history'.owner[s] = history.owner[s]
  <2>1. CASE UNCHANGED Promise!promiseVars
    BY <2>1 DEF Promise!promiseVars
  <2>2. CASE Promise!PromiseNext
    <3>1. CASE Promise!End
      BY <3>1 DEF Promise!End, Promise!Ages
    <3>2. ASSUME NEW t \in Sids, NEW u \in Users, Promise!Open(t, u)
          PROVE  /\ stage[s] \in {"dead", "raced"} => stage'[s] = stage[s]
                 /\ stage[s] # "unopened" => history'.owner[s] = history.owner[s]
      <4>1. stage[t] = "unopened" /\ (s # t => Promise!Ages(s))
        BY <3>2 DEF Promise!Open
      <4>2. history'.owner = [history.owner EXCEPT ![t] = u]
        BY <3>2 DEF Promise!Open
      <4>3. history.owner \in [Sids -> Users \cup {NoUser}]
        BY Typed DEF IInv, History
      <4> QED BY <4>1, <4>2, <4>3 DEF Promise!Ages
    <3>3. ASSUME NEW t \in Sids, NEW u \in Users, Promise!HandOut(t, u)
          PROVE  /\ stage[s] \in {"dead", "raced"} => stage'[s] = stage[s]
                 /\ history'.owner[s] = history.owner[s]
      BY <3>3 DEF Promise!HandOut, Promise!Ages
    <3>4. ASSUME NEW t \in Sids, Promise!Withdraw(t)
          PROVE  stage'[s] = stage[s] /\ history'.owner[s] = history.owner[s]
      BY <3>4 DEF Promise!Withdraw
    <3> QED BY <2>2, <3>1, <3>2, <3>3, <3>4 DEF Promise!PromiseNext
  <2> QED BY <1>2, <2>1, <2>2 DEF PromiseStep
<1>4. history.unlisted \subseteq history'.unlisted
  BY <1>2 DEF PromiseStep, Promise!PromiseNext, Promise!promiseVars, Promise!End,
              Promise!Open, Promise!HandOut, Promise!Withdraw
<1>5. ASSUME NEW s \in Sids
      PROVE  /\ Owner(s) # NoUser => Owner(s)' = Owner(s)
             /\ Over(s) => Over(s)'
             /\ s \in history.raced => s \in history'.raced
  <2>1. Owner(s) # NoUser => Owner(s)' = Owner(s)
    BY <1>3, Staged DEF Owner
  <2>2. Over(s) => Over(s)'
    BY <1>3, Staged, StagedNext
  <2>3. s \in history.raced => Owner(s) # NoUser
    BY DEF Opened
  <2> QED BY <1>3, <2>1, <2>2, <2>3, Staged, StagedNext
<1>6. history.raced \subseteq history'.raced
  <2>1. history.raced \subseteq Sids
    BY Typed DEF IInv, History
  <2> QED BY <1>5, <2>1
<1>7. \A s \in Sids : Owner(s) # NoUser /\ Live(s)' => Live(s) \/ s \in history'.raced
  <2> SUFFICES ASSUME NEW s \in Sids, Owner(s) # NoUser, Live(s)', ~Live(s)
               PROVE  s \in history'.raced
    OBVIOUS
  <2>1. Over(s)
    BY DEF Over
  <2>2. Over(s)'
    BY <1>5, <2>1
  <2> QED BY <2>2 DEF Over
<1> QED BY <1>1, <1>2, <1>4, <1>5, <1>6, <1>7, Gains DEF Lasting

-----------------------------------------------------------------------------
(* The steps in general                                                    *)

LEMMA SilentType ==
    /\ Silent \in Mirror /\ Silent.at = "none" /\ Silent.user = NoUser
    /\ Silent.sid = NoSid /\ Silent.todo = {} /\ Silent.sids = {}
BY DEF Silent, Mirror, Statements

LEMMA RestType ==
    ASSUME sql \in [Requests -> Mirror], NEW r \in Requests, Rest(r)
    PROVE  /\ sql' \in [Requests -> Mirror] /\ sql'[r] = Silent /\ sql'[r].at = "none"
           /\ \A q \in Requests : q # r => sql'[q] = sql[q]
BY SilentType DEF Rest

LEMMA TurnType ==
    ASSUME sql \in [Requests -> Mirror], NEW r \in Requests, NEW st \in Statements, Turn(r, st)
    PROVE  /\ sql' \in [Requests -> Mirror] /\ sql'[r].at = st
           /\ sql'[r].user = sql[r].user /\ sql'[r].sid = sql[r].sid
           /\ sql'[r].todo = sql[r].todo /\ sql'[r].sids = sql[r].sids
           /\ \A q \in Requests : q # r => sql'[q] = sql[q]
<1> DEFINE n == [sql[r] EXCEPT !.at = st]
<1>1. sql' = [sql EXCEPT ![r] = n] /\ sql[r] \in Mirror
  BY DEF Turn
<1>2. /\ n \in Mirror /\ n.at = st /\ n.user = sql[r].user /\ n.sid = sql[r].sid
      /\ n.todo = sql[r].todo /\ n.sids = sql[r].sids
  BY <1>1 DEF Mirror
<1> HIDE DEF n
<1> QED BY <1>1, <1>2

(* A record set in one go.                                                 *)
LEMMA SetType ==
    ASSUME sql \in [Requests -> Mirror], NEW r \in Requests, NEW n \in Mirror,
           sql' = [sql EXCEPT ![r] = n]
    PROVE  /\ sql' \in [Requests -> Mirror] /\ sql'[r] = n
           /\ \A q \in Requests : q # r => sql'[q] = sql[q]
OBVIOUS

(* Rows that are left alone may only lapse.                                *)
LEMMA RowsStay ==
    ASSUME RowsOK, EndedRowsGone, marks \in Marks, UNCHANGED row, marks'.ended = marks.ended,
           row \in [Sids -> Row], now \in Nat, now' \in Nat, now <= now', IInv
    PROVE  /\ RowsOK' /\ EndedRowsGone' /\ \A s \in Sids : Visible(s)' => Visible(s)
<1>1. \A s \in Sids : row[s].expires \in Nat
  BY Clocks DEF Row, IInv
<1>2. \A s \in Sids : Visible(s)' => Visible(s)
  BY <1>1 DEF Visible
<1>3. marks.ended \subseteq Sids
  BY DEF Marks
<1> QED BY <1>2, <1>3 DEF RowsOK, EndedRowsGone

(* ExpireRows ends the rows it is given and no other.                      *)
LEMMA Expired ==
    ASSUME IInv, RowsOK, row \in [Sids -> Row], UNCHANGED now, NEW X, ExpireRows(X)
    PROVE  /\ row' \in [Sids -> Row] /\ RowsOK'
           /\ \A s \in Sids : /\ s \in X => ~Visible(s)'
                              /\ s \notin X => row'[s] = row[s]
                              /\ Visible(s)' => Visible(s)
<1>1. /\ now \in Nat /\ MaxTime \in Nat /\ now <= MaxTime /\ SessionDuration \in Nat
  BY Clocks DEF IInv
<1>2. now \in 0..(MaxTime + SessionDuration)
  BY <1>1
<1>3. ASSUME NEW s \in Sids
      PROVE  /\ row'[s] \in Row /\ row'[s].created = row[s].created
             /\ s \in X => row'[s].expires = now
             /\ s \notin X => row'[s] = row[s]
  <2>1. row'[s] = IF s \in X THEN [row[s] EXCEPT !.expires = now] ELSE row[s]
    BY DEF ExpireRows
  <2>2. row[s] \in Row
    OBVIOUS
  <2> QED BY <1>2, <2>1, <2>2 DEF Row
<1>4. row' \in [Sids -> Row]
  <2>1. row' = [s \in Sids |-> row'[s]]
    BY DEF ExpireRows
  <2> QED BY <1>3, <2>1
<1>5. \A s \in Sids : (s \in X => ~Visible(s)') /\ (Visible(s)' => Visible(s))
  BY <1>1, <1>3 DEF Visible
<1>6. RowsOK'
  <2> SUFFICES ASSUME NEW s \in Sids, Visible(s)'
               PROVE  row'[s].expires = row'[s].created + SessionDuration
    BY DEF RowsOK
  <2> QED BY <1>3, <1>5 DEF RowsOK
<1> QED BY <1>3, <1>4, <1>5, <1>6

LEMMA KnownOK ==
    ASSUME IInv, MInv, NEW s \in Sids, Known(s)
    PROVE  Owner(s) # NoUser /\ Listed(s)
<1>1. CASE Issued(s)
  BY <1>1 DEF IInv, TokensOK
<1>2. ASSUME NEW r \in Requests, sql[r].at \in Creating, req[r].sid = s
      PROVE  Owner(s) # NoUser /\ Listed(s)
  <2>1. req[r].at = "login.tokens" /\ ReqOK(r)
    BY <1>2 DEF MInv, SqlOK, IInv, RequestsOK
  <2> QED BY <1>2, <2>1, CacheAssumption DEF ReqOK, Opening, Added, Passing
<1> QED BY <1>1, <1>2 DEF Known

(* A request that takes no step knows what it knew.                        *)
LEMMA Untouched ==
    ASSUME IInv, MInv, Lasting, NEW q \in Requests, req'[q] = req[q], sql'[q] = sql[q]
    PROVE  /\ SqlOK(q)'
           /\ \A s \in Sids : Owner(s) # NoUser /\ s \in AwaitedBy(q) => s \in AwaitedBy(q)'
<1>1. \A s \in Sids : Owner(s) # NoUser /\ s \in AwaitedBy(q) => s \in AwaitedBy(q)'
  <2> SUFFICES ASSUME NEW s \in Sids, Owner(s) # NoUser, s \in AwaitedBy(q)
               PROVE  s \in AwaitedBy(q)'
    OBVIOUS
  <2>1. Owner(s)' = Owner(s)
    BY DEF Lasting
  <2> QED BY <2>1 DEF AwaitedBy
<1>2. SqlOK(q) /\ sql[q] \in Mirror
  BY DEF MInv, MirrorTypeOK
<1>3. \A s \in Sids : /\ Issued(s) => Issued(s)' /\ Owner(s)' = Owner(s) /\ Owner(s) # NoUser
                      /\ Over(s) => Over(s)' /\ Owner(s)' = Owner(s)
                      /\ s \in history.unlisted => s \in history'.unlisted
  BY DEF Lasting, IInv, TokensOK, Over
<1>4. sql[q].sids \subseteq Sids
  BY <1>2 DEF Mirror
<1>5. (sql[q].at = "end.update" => sql[q].sid \in Sids /\ Over(sql[q].sid))'
  <2> SUFFICES ASSUME sql[q].at = "end.update", NEW s \in Sids, s = sql[q].sid
               PROVE  Over(s)'
    BY <1>2 DEF SqlOK, Over, Owner, Live
  <2> QED BY <1>2, <1>3 DEF SqlOK
<1>6. (sql[q].at = "all.update" => \A s \in sql[q].sids : Owner(s) = sql[q].user /\ Over(s))'
  <2> SUFFICES ASSUME sql[q].at = "all.update", NEW s \in sql[q].sids
               PROVE  Owner(s)' = sql[q].user /\ Over(s)'
    OBVIOUS
  <2> QED BY <1>2, <1>3, <1>4 DEF SqlOK
<1>7. (sql[q].at = "ops.update" =>
         \A s \in sql[q].sids : Issued(s) /\ (Over(s) \/ Owner(s) \in sql[q].todo))'
  <2> SUFFICES ASSUME sql[q].at = "ops.update", NEW s \in sql[q].sids
               PROVE  Issued(s)' /\ (Over(s)' \/ Owner(s)' \in sql[q].todo)
    OBVIOUS
  <2> QED BY <1>2, <1>3, <1>4 DEF SqlOK
<1>8. (sql[q].at = "ops.cache" =>
         /\ req[q].at \in {"idle", "ops.members", "all.del", "all.delindex"}
         /\ \A s \in sql[q].sids :
                Issued(s) /\ (Over(s) \/ s \in history.unlisted \/ s \in AwaitedBy(q)))'
  <2> SUFFICES ASSUME sql[q].at = "ops.cache"
               PROVE  /\ req[q].at \in {"idle", "ops.members", "all.del", "all.delindex"}
                      /\ \A s \in sql[q].sids :
                            /\ Issued(s)'
                            /\ Over(s)' \/ s \in history'.unlisted \/ s \in AwaitedBy(q)'
    OBVIOUS
  <2> QED BY <1>1, <1>2, <1>3, <1>4 DEF SqlOK
<1>9. SqlOK(q)'
  BY <1>2, <1>5, <1>6, <1>7, <1>8 DEF SqlOK
<1> QED BY <1>1, <1>9

(* A session whose row is left alone, and that whoever is to end it still  *)
(* ends, is not hidden without a cause: it slid past what its row says.    *)
LEMMA Shows ==
    ASSUME IInv, MInv, Lasting, NEW s \in Sids, Known(s), row'[s] = row[s],
           marks.excused \subseteq marks'.excused,
           \A q \in Requests : s \in AwaitedBy(q) => s \in AwaitedBy(q)'
    PROVE  Shown(s)'
<1> SUFFICES ASSUME Live(s)', ~Visible(s)' PROVE Cause(s)'
  BY DEF Shown
<1>1. Owner(s) # NoUser
  BY KnownOK
<1>2. CASE s \in history'.raced
  BY <1>2 DEF Cause
<1>3. CASE Live(s) /\ ~Visible(s)
  <2>1. Cause(s)
    BY <1>3 DEF MInv, KnownShown, Shown
  <2>2. row[s].created \in Nat /\ SessionDuration \in Nat
    BY Clocks DEF MInv, MirrorTypeOK, IInv
  <2> QED BY <2>1, <2>2 DEF Cause, Lasting
<1>4. CASE Visible(s)
  <2>1. row[s].expires = row[s].created + SessionDuration
    BY <1>4 DEF MInv, RowsOK
  <2>2. row[s].expires \in Nat
    BY Clocks DEF MInv, MirrorTypeOK, IInv
  <2>3. now' >= row[s].expires
    BY <2>2 DEF Visible, Lasting
  <2> QED BY <2>1, <2>3 DEF Cause
<1> QED BY <1>1, <1>2, <1>3, <1>4 DEF Lasting

(* What is not the matter of r's step: s is known and its row left alone,  *)
(* and if r is to end it, r still is.                                      *)
Aside(r, s) ==
    /\ Known(s) /\ row'[s] = row[s]
    /\ s \in AwaitedBy(r) => s \in AwaitedBy(r)'

LEMMA MStep ==
    ASSUME IInv, MInv, Lasting, Opened', NEW r \in Requests, Beside(r),
           \A q \in Requests : q # r => sql'[q] = sql[q],
           row' \in [Sids -> Row], sql' \in [Requests -> Mirror], marks' \in Marks,
           RowsOK', EndedRowsGone', SqlOK(r)', marks.excused \subseteq marks'.excused,
           \A s \in Sids : Known(s)' => Shown(s)' \/ Aside(r, s)
    PROVE  MInv'
<1>1. MirrorTypeOK'
  BY DEF MirrorTypeOK, Row, Marks, Mirror, Statements
<1>2. \A q \in Requests : SqlOK(q)'
  BY Untouched DEF Beside
<1>3. KnownShown'
  <2> SUFFICES ASSUME NEW s \in Sids, Known(s)', Aside(r, s)
               PROVE  Shown(s)'
    BY DEF KnownShown
  <2>1. \A q \in Requests : s \in AwaitedBy(q) => s \in AwaitedBy(q)'
    BY KnownOK, Untouched DEF Aside, Beside
  <2> QED BY <2>1, Shows DEF Aside
<1> QED BY <1>1, <1>2, <1>3 DEF MInv

(* Known sessions are known again unless r's INSERT is just done.          *)
LEMMA KnownBefore ==
    ASSUME NEW r \in Requests, Beside(r), \A q \in Requests : q # r => sql'[q] = sql[q],
           UNCHANGED tokens \/ \A s \in Sids : Issued(s)' => Issued(s),
           sql'[r].at \in Creating => sql[r].at \in Creating /\ req'[r].sid = req[r].sid
    PROVE  \A s \in Sids : Known(s)' => Known(s)
<1> SUFFICES ASSUME NEW s \in Sids, Known(s)' PROVE Known(s)
  OBVIOUS
<1>1. CASE Issued(s)'
  BY <1>1 DEF Known, Issued
<1>2. ASSUME NEW q \in Requests, sql'[q].at \in Creating, req'[q].sid = s
      PROVE  Known(s)
  BY <1>2 DEF Known, Beside
<1> QED BY <1>1, <1>2 DEF Known

(* A step that leaves the rows alone, and awaits what it awaited unless    *)
(* there is nothing left to await or a reason on record.                   *)
LEMMA Unwritten ==
    ASSUME IInv, MInv, [Next]_vars, NEW r \in Requests, Beside(r), UNCHANGED row,
           sql' \in [Requests -> Mirror], \A q \in Requests : q # r => sql'[q] = sql[q],
           marks' \in Marks, marks'.ended = marks.ended,
           marks.excused \subseteq marks'.excused,
           SqlOK(r)', \A s \in Sids : Known(s)' => Known(s),
           \A s \in Sids : Known(s) /\ s \in AwaitedBy(r) =>
               s \in AwaitedBy(r)' \/ Over(s)' \/ s \in history'.unlisted \cup marks'.excused
    PROVE  MInv'
<1>1. IInv' /\ Opened' /\ Lasting
  BY Lasts DEF MInv
<1>2. row \in [Sids -> Row] /\ marks \in Marks
  BY DEF MInv, MirrorTypeOK, Row, Marks
<1>3. RowsOK' /\ EndedRowsGone'
  BY <1>1, <1>2, RowsStay DEF MInv, Lasting
<1>4. ASSUME NEW s \in Sids, Known(s)'
      PROVE  Shown(s)' \/ Aside(r, s)
  <2>1. Known(s) /\ row'[s] = row[s]
    BY <1>4
  <2>2. CASE Over(s)' \/ s \in history'.unlisted \cup marks'.excused
    BY <2>2 DEF Over, Shown, Cause
  <2>3. CASE s \in AwaitedBy(r) => s \in AwaitedBy(r)'
    BY <2>1, <2>3 DEF Aside
  <2> QED BY <2>1, <2>2, <2>3
<1> QED BY <1>1, <1>2, <1>3, <1>4, MStep

LEMMA Kinds ==
    ASSUME MInv
    PROVE  /\ row \in [Sids -> Row] /\ sql \in [Requests -> Mirror] /\ marks \in Marks
           /\ \A r \in Requests : sql[r] \in Mirror /\ SqlOK(r)
BY DEF MInv, MirrorTypeOK, Row, Marks

(* The inner call of a request that is at none of its statements.          *)
LEMMA InnerInv ==
    ASSUME IInv, MInv, [Next]_vars, NEW r \in Requests, Beside(r), UNCHANGED <<row, marks>>,
           sql[r].at = "none", req[r].at \notin {"ops.get", "ops.srem", "ops.del"},
           \A s \in Sids : Issued(s)' => Issued(s),
           UNCHANGED sql, req'[r].at = "revokeall" => req'[r].found = {}
    PROVE  MInv'
<1>1. SqlOK(r)'
  BY DEF SqlOK, Creating
<1>2. \A s \in Sids : Known(s)' => Known(s)
  BY KnownBefore DEF Creating
<1>3. AwaitedBy(r) = {}
  BY DEF AwaitedBy
<1> QED BY <1>1, <1>2, <1>3, Kinds, Unwritten

LEMMA InnerCreateInv ==
    ASSUME IInv, MInv, NEW r \in Requests, InnerCreate(r)
    PROVE  [Next]_vars /\ MInv'
<1>1. [Next]_vars
  BY DEF InnerCreate, Next
<1>2. req \in [Requests -> Request] /\ req[r] \in Request
  BY DEF IInv, TypeOK
<1>3. /\ Beside(r) /\ UNCHANGED tokens /\ req'[r].at # "revokeall"
      /\ req[r].at \notin {"ops.get", "ops.srem", "ops.del"}
  <2> USE <1>2 DEF Beside, Request
  <2>1. ASSUME NEW u \in Users, Login(r, u)
        PROVE  /\ Beside(r) /\ UNCHANGED tokens /\ req'[r].at # "revokeall"
               /\ req[r].at \notin {"ops.get", "ops.srem", "ops.del"}
    <3> DEFINE n == [Idle EXCEPT !.at = "login.set", !.user = u, !.created = now]
    <3>1. req' = [req EXCEPT ![r] = n] /\ UNCHANGED tokens /\ req[r].at = "idle"
      BY <2>1 DEF Login
    <3>2. n.at = "login.set"
      BY IdleType
    <3> HIDE DEF n
    <3> QED BY <3>1, <3>2
  <2>2. ASSUME NEW s \in Sids, CreateSet(r, s) \/ LimitGet(r, s) \/ LimitDel(r, s)
        PROVE  /\ Beside(r) /\ UNCHANGED tokens /\ req'[r].at # "revokeall"
               /\ req[r].at \notin {"ops.get", "ops.srem", "ops.del"}
    BY <2>2 DEF CreateSet, LimitGet, LimitDel
  <2>3. CASE CreateSadd(r) \/ CreateExpire(r)
    BY <2>3 DEF CreateSadd, CreateExpire, Goto
  <2>4. CASE LimitMembers(r)
    BY <2>4 DEF LimitMembers
  <2>5. CASE LimitSrem(r) \/ LimitEvict(r)
    BY <2>5 DEF LimitSrem, LimitEvict
  <2>6. ASSUME NEW evicted \in SUBSET Sids, LimitDecide(r, evicted)
        PROVE  /\ Beside(r) /\ UNCHANGED tokens /\ req'[r].at # "revokeall"
               /\ req[r].at \notin {"ops.get", "ops.srem", "ops.del"}
    <3>1. /\ req[r].at = "login.get" /\ UNCHANGED tokens
          /\ \/ req' = [req EXCEPT ![r].at = "login.tokens", ![r].found = {}]
             \/ req' = [req EXCEPT ![r].at = "login.del", ![r].todo = evicted,
                                   ![r].found = {}]
      BY <2>6 DEF LimitDecide
    <3> QED BY <3>1
  <2> QED BY <2>1, <2>2, <2>3, <2>4, <2>5, <2>6 DEF InnerCreate
<1>4. \A s \in Sids : Issued(s)' => Issued(s)
  BY <1>3 DEF Issued
<1> QED BY <1>1, <1>3, <1>4, InnerInv DEF InnerCreate

LEMMA RejectMoves ==
    ASSUME TypeOK, NEW r \in Requests, Reject(r)
    PROVE  Beside(r) /\ req'[r].at \in {"refresh.get", "idle"}
<1>1. req \in [Requests -> Request] /\ req[r] \in Request
  BY DEF TypeOK
<1>2. CASE req' = [req EXCEPT ![r].at = "refresh.get", ![r].refresh = FALSE, ![r].created = 0]
  BY <1>1, <1>2 DEF Beside, Request
<1>3. CASE Finish(r)
  BY <1>3, FinishType, IdleType
<1> QED BY <1>2, <1>3 DEF Reject

LEMMA InnerGetInv ==
    ASSUME IInv, MInv, NEW r \in Requests, InnerGet(r)
    PROVE  [Next]_vars /\ MInv'
<1>1. [Next]_vars
  BY MirrorAssumption DEF InnerGet, Next
<1>2. req \in [Requests -> Request] /\ req[r] \in Request
  BY DEF IInv, TypeOK
<1>3. /\ Beside(r) /\ (req'[r].at = "revokeall" => req'[r].found = {})
      /\ req[r].at \notin {"ops.get", "ops.srem", "ops.del"}
      /\ \A s \in Sids : Issued(s)' => Issued(s)
  <2>1. ASSUME NEW s \in Sids, NEW access \in BOOLEAN, NEW refresh \in BOOLEAN,
               Arrive(r, s, access, refresh)
        PROVE  /\ Beside(r) /\ req'[r].at # "revokeall" /\ UNCHANGED tokens
               /\ req[r].at = "idle"
    <3> DEFINE useAccess == access /\ Verifies(tokens[s].access)
               at == IF useAccess THEN "access.get" ELSE "refresh.get"
               n == [Idle EXCEPT !.at = at, !.user = Owner(s), !.sid = s,
                                 !.refresh = useAccess /\ refresh]
    <3>1. req' = [req EXCEPT ![r] = n] /\ UNCHANGED tokens /\ req[r].at = "idle"
      BY <2>1 DEF Arrive
    <3>2. at # "revokeall"
      OBVIOUS
    <3> HIDE DEF at, useAccess
    <3>3. n.at = at
      BY IdleType
    <3> HIDE DEF n
    <3> QED BY <1>2, <3>1, <3>2, <3>3 DEF Beside
  <2>2. CASE GetSession(r)
    <3> DEFINE at == IF req[r].at = "access.get" THEN "access.set" ELSE "refresh.set"
    <3>1. /\ req' = [req EXCEPT ![r].at = at, ![r].created = CreatedAt(req[r].sid)]
          /\ UNCHANGED tokens /\ req[r].at \in {"access.get", "refresh.get"}
      BY <2>2 DEF GetSession
    <3>2. at # "revokeall"
      OBVIOUS
    <3> HIDE DEF at
    <3> QED BY <1>2, <3>1, <3>2 DEF Beside, Request, Issued
  <2>3. CASE GetMissing(r) \/ CacheError(r)
    <3>1. Reject(r) /\ UNCHANGED tokens /\ req[r].at \in {"access.get", "access.set", "refresh.get"}
      BY <2>3 DEF GetMissing, CacheError
    <3> QED BY <3>1, RejectMoves DEF IInv, Issued
  <2>4. CASE Me(r)
    BY <2>4, FinishType, IdleType DEF Me, IInv, Issued
  <2>5. ASSUME NEW route \in Routes, SlideSession(r, route)
        PROVE  /\ Beside(r) /\ req'[r].found = {} /\ req[r].at \in Sliding
               /\ \A s \in Sids : Issued(s)' => Issued(s)
    <3> DEFINE s == req[r].sid
               n == [Idle EXCEPT !.at = route, !.user = Owner(s),
                                 !.sid = IF route = "logout" THEN s ELSE NoSid]
    <3>1. req' = [req EXCEPT ![r] = n] /\ n.found = {} /\ req[r].at \in Sliding
      BY <2>5, IdleType DEF SlideSession, Sliding
    <3>2. tokens \in [Sids -> Pair]
      BY Typed DEF IInv
    <3> HIDE DEF n
    <3>3. Beside(r) /\ req'[r].found = {}
      BY <1>2, <3>1 DEF Beside
    <3>4. \A t \in Sids : tokens'[t].refresh = tokens[t].refresh
      BY <2>5, <3>2 DEF SlideSession, Pair
    <3> QED BY <3>1, <3>3, <3>4 DEF Issued
  <2>6. \A cookies \in Cookies : cookies[1] \in BOOLEAN /\ cookies[2] \in BOOLEAN
    BY MirrorAssumption
  <2> QED BY <2>1, <2>2, <2>3, <2>4, <2>5, <2>6 DEF InnerGet, Issued, Sliding
<1> QED BY <1>1, <1>3, InnerInv DEF InnerGet

-----------------------------------------------------------------------------
(* createSession                                                           *)

(* r has no row to write and no part in any end.                           *)
LEMMA Creates ==
    ASSUME IInv, MInv, NEW r \in Requests, req[r].at = "login.tokens"
    PROVE  /\ req[r].sid \in Sids /\ AwaitedBy(r) = {}
           /\ sql[r].at \notin {"end.update", "all.update", "ops.select", "ops.update",
                                "ops.cache"}
<1>1. ReqOK(r) /\ SqlOK(r)
  BY Kinds DEF IInv, RequestsOK
<1>2. req[r].sid \in Sids
  BY <1>1 DEF ReqOK, Opening, Added, Passing
<1>3. sql[r].at \notin {"end.update", "all.update", "ops.select", "ops.update", "ops.cache"}
  BY <1>1 DEF SqlOK
<1> QED BY <1>2, <1>3 DEF AwaitedBy

LEMMA MirrorInsertInv ==
    ASSUME IInv, MInv, NEW r \in Requests, MirrorInsert(r)
    PROVE  [Next]_vars /\ MInv'
<1>1. PICK s \in Sids : s = req[r].sid
  BY Creates DEF MirrorInsert
<1>2. /\ req[r].at = "login.tokens" /\ UNCHANGED <<now, entry, index, tokens, req, history>>
      /\ row' = [row EXCEPT ![s] = [created |-> now, expires |-> now + SessionDuration]]
      /\ marks' = [marks EXCEPT !.ended = @ \ {s}]
      /\ Turn(r, "create.limit")
  BY <1>1 DEF MirrorInsert, vars
<1>3. UNCHANGED vars /\ Beside(r)
  BY <1>2 DEF vars, Beside
<1>4. IInv' /\ Opened' /\ Lasting
  BY <1>3, Lasts DEF MInv
<1>5. now \in 0..MaxTime /\ now \in Nat /\ SessionDuration \in Nat /\ SessionDuration > 0
  BY Clocks DEF IInv, TypeOK
<1>6. /\ sql' \in [Requests -> Mirror] /\ sql'[r].at = "create.limit"
      /\ \A q \in Requests : q # r => sql'[q] = sql[q]
  BY <1>2, Kinds, TurnType DEF Statements
<1>7. /\ row' \in [Sids -> Row] /\ marks' \in Marks /\ marks'.excused = marks.excused
      /\ row'[s].created = now /\ row'[s].expires = now + SessionDuration
      /\ \A t \in Sids \ {s} : row'[t] = row[t]
  <2>1. [created |-> now, expires |-> now + SessionDuration] \in Row
    BY <1>5, CacheAssumption DEF Row
  <2> QED BY <1>2, <2>1, Kinds DEF Marks
<1>8. Visible(s)' /\ \A t \in Sids \ {s} : Visible(t)' <=> Visible(t)
  BY <1>2, <1>5, <1>7 DEF Visible
<1>9. RowsOK'
  BY <1>7, <1>8 DEF MInv, RowsOK
<1>10. EndedRowsGone'
  <2>1. marks'.ended = marks.ended \ {s} /\ marks.ended \subseteq Sids
    BY <1>2, Kinds DEF Marks
  <2> QED BY <1>8, <2>1 DEF MInv, EndedRowsGone
<1>11. SqlOK(r)'
  BY <1>2, <1>6, Kinds DEF SqlOK, Creating
<1>12. ASSUME NEW t \in Sids, Known(t)'
       PROVE  Shown(t)' \/ Aside(r, t)
  <2>1. CASE t = s
    BY <1>8, <2>1 DEF Shown
  <2>2. CASE t # s
    <3>1. Known(t)
      <4>1. CASE Issued(t)'
        BY <1>2, <4>1 DEF Known, Issued
      <4>2. ASSUME NEW q \in Requests, sql'[q].at \in Creating, req'[q].sid = t
            PROVE  Known(t)
        BY <1>1, <1>2, <1>6, <2>2, <4>2 DEF Known
      <4> QED BY <1>12, <4>1, <4>2 DEF Known
    <3>2. AwaitedBy(r) = {}
      BY <1>2, Creates
    <3> QED BY <1>7, <2>2, <3>1, <3>2 DEF Aside
  <2> QED BY <2>1, <2>2
<1> QED BY <1>3, <1>4, <1>6, <1>7, <1>9, <1>10, <1>11, <1>12, MStep

(* What the limit evicts is outranked.                                     *)
LEMMA Evicted ==
    ASSUME NEW u, NEW evicted, Ranked(u, evicted)
    PROVE  evicted \subseteq Outrankable(u)
<1> DEFINE V == VisibleOf(u)
           K == V \ evicted
<1>1. /\ evicted \subseteq V
      /\ Cardinality(K) = IF Cardinality(V) <= MaxSessions THEN Cardinality(V) ELSE MaxSessions
      /\ \A k \in K, e \in evicted : row[k].created >= row[e].created
  BY DEF Ranked
<1>2. IsFiniteSet(V) /\ Cardinality(V) \in Nat /\ MaxSessions \in Nat
  <2>1. V \subseteq Sids
    BY DEF VisibleOf
  <2> QED BY <2>1, FS_Subset, FS_CardinalityType, CacheAssumption
<1>3. ASSUME NEW e \in evicted
      PROVE  e \in Outrankable(u)
  <2> DEFINE O == {t \in V \ {e} : row[t].created >= row[e].created}
  <2>1. K \subseteq O /\ K \subseteq V /\ O \subseteq V /\ e \in V /\ e \notin K
    BY <1>1
  <2> HIDE DEF K, O, V
  <2>2. Cardinality(K) # Cardinality(V)
    BY <1>2, <2>1, FS_Subset
  <2>3. Cardinality(K) = MaxSessions
    BY <1>1, <2>2
  <2>4. Cardinality(O) >= MaxSessions
    <3>1. IsFiniteSet(O) /\ Cardinality(O) \in Nat
      BY <1>2, <2>1, FS_Subset, FS_CardinalityType
    <3>2. Cardinality(K) <= Cardinality(O)
      BY <2>1, <3>1, FS_Subset
    <3> QED BY <1>2, <2>3, <3>1, <3>2
  <2> QED BY <2>1, <2>4 DEF Outrankable, O, V
<1> QED BY <1>3

(* Rows are expired, each for a cause; the cache stands still.             *)
LEMMA Written ==
    ASSUME IInv, MInv, NEW r \in Requests, UNCHANGED vars, NEW X, ExpireRows(X),
           sql' \in [Requests -> Mirror], \A q \in Requests : q # r => sql'[q] = sql[q],
           sql'[r].at \in Creating => sql[r].at \in Creating,
           marks' \in Marks, marks.excused \subseteq marks'.excused,
           \A s \in Sids : s \in marks'.ended => s \in marks.ended \/ s \in X \/ ~Visible(s),
           SqlOK(r)', AwaitedBy(r) = {},
           \A s \in Sids : s \in X /\ Known(s) /\ Live(s)' =>
               \/ Over(s) \/ s \in marks'.excused \/ s \in AwaitedBy(r)'
    PROVE  MInv'
<1>1. IInv' /\ Opened' /\ Lasting
  BY Lasts DEF MInv
<1>2. UNCHANGED <<now, entry, index, tokens, req, history>> /\ Beside(r)
  BY DEF vars, Beside
<1>3. row \in [Sids -> Row] /\ RowsOK
  BY Kinds DEF MInv
<1>4. /\ row' \in [Sids -> Row] /\ RowsOK'
      /\ \A s \in Sids : /\ s \in X => ~Visible(s)'
                         /\ s \notin X => row'[s] = row[s]
                         /\ Visible(s)' => Visible(s)
  BY <1>2, <1>3, Expired
<1>5. EndedRowsGone'
  <2>1. marks'.ended \subseteq Sids
    BY DEF Marks
  <2> QED BY <1>4, <2>1 DEF MInv, EndedRowsGone
<1>6. \A s \in Sids : Known(s)' => Known(s)
  BY <1>2, KnownBefore
<1>7. ASSUME NEW s \in Sids, Known(s)'
      PROVE  Shown(s)' \/ Aside(r, s)
  <2>1. CASE s \in X
    <3> SUFFICES ASSUME Live(s)' PROVE Cause(s)'
      BY DEF Shown
    <3>1. CASE Over(s)
      BY <1>1, <3>1 DEF Lasting, Over, Cause
    <3>2. CASE s \in marks'.excused \/ s \in AwaitedBy(r)'
      BY <3>2 DEF Cause
    <3> QED BY <1>6, <1>7, <2>1, <3>1, <3>2
  <2>2. CASE s \notin X
    BY <1>4, <1>6, <1>7, <2>2 DEF Aside
  <2> QED BY <2>1, <2>2
<1> QED BY <1>1, <1>2, <1>4, <1>5, <1>7, MStep

LEMMA ExcuseType ==
    ASSUME MInv, NEW X, X \subseteq Sids
    PROVE  /\ Excuse(X) \subseteq Sids /\ marks.excused \subseteq Excuse(X)
           /\ \A s \in X : Live(s) => s \in Excuse(X)
BY Kinds DEF Excuse, Marks

LEMMA MirrorLimitInv ==
    ASSUME IInv, MInv, NEW r \in Requests, NEW evicted \in SUBSET Sids, MirrorLimit(r, evicted)
    PROVE  [Next]_vars /\ MInv'
<1> DEFINE gone == evicted \cap Outrankable(req[r].user)
<1>1. /\ sql[r].at = "create.limit" /\ ExpireRows(evicted) /\ UNCHANGED vars
      /\ Turn(r, "create.done") /\ evicted \subseteq gone
      /\ marks' = [marks EXCEPT !.excused = Excuse(gone)]
  BY Evicted DEF MirrorLimit
<1>2. /\ gone \subseteq Sids
  OBVIOUS
<1> HIDE DEF gone
<1>3. /\ marks' \in Marks /\ marks'.ended = marks.ended /\ marks'.excused = Excuse(gone)
      /\ marks.excused \subseteq Excuse(gone)
      /\ \A s \in gone : Live(s) => s \in Excuse(gone)
  BY <1>1, <1>2, Kinds, ExcuseType DEF Marks
<1>4. /\ sql' \in [Requests -> Mirror] /\ sql'[r].at = "create.done"
      /\ \A q \in Requests : q # r => sql'[q] = sql[q]
  BY <1>1, Kinds, TurnType DEF Statements
<1>5. req[r].at = "login.tokens" /\ req' = req
  BY <1>1, Kinds DEF SqlOK, Creating, vars
<1>6. SqlOK(r)' /\ AwaitedBy(r) = {}
  BY <1>4, <1>5, Creates DEF SqlOK, Creating
<1>7. \A s \in Sids : Live(s)' <=> Live(s)
  BY <1>1 DEF vars, Live
<1> QED BY <1>1, <1>3, <1>4, <1>6, <1>7, Written DEF Creating

LEMMA CreateFailsInv ==
    ASSUME IInv, MInv, NEW r \in Requests, CreateFails(r)
    PROVE  [Next]_vars /\ MInv'
<1>1. PICK s \in Sids : s = req[r].sid
  BY Creates DEF CreateFails
<1>2. /\ req[r].at = "login.tokens" /\ sql[r].at \in {"none", "create.limit"}
      /\ UNCHANGED <<now, entry, index, tokens, req, history, row>>
      /\ marks' = [marks EXCEPT !.excused = IF sql[r].at = "none" THEN Excuse({s}) ELSE @]
      /\ Turn(r, "create.done")
  BY <1>1 DEF CreateFails, vars
<1>3. UNCHANGED vars /\ Beside(r)
  BY <1>2 DEF vars, Beside
<1>4. IInv' /\ Opened' /\ Lasting
  BY <1>3, Lasts DEF MInv
<1>5. /\ marks' \in Marks /\ marks'.ended = marks.ended
      /\ marks.excused \subseteq marks'.excused
      /\ sql[r].at = "none" /\ Live(s) => s \in marks'.excused
  BY <1>2, Kinds, ExcuseType DEF Marks
<1>6. /\ sql' \in [Requests -> Mirror] /\ sql'[r].at = "create.done"
      /\ \A q \in Requests : q # r => sql'[q] = sql[q]
  BY <1>2, Kinds, TurnType DEF Statements
<1>7. SqlOK(r)' /\ AwaitedBy(r) = {}
  BY <1>2, <1>6, Creates DEF SqlOK, Creating
<1>8. RowsOK' /\ EndedRowsGone'
  BY <1>2, <1>4, <1>5, Kinds, RowsStay DEF MInv, Lasting
<1>9. ASSUME NEW t \in Sids, Known(t)'
      PROVE  Shown(t)' \/ Aside(r, t)
  <2>1. CASE t = s /\ sql[r].at = "none"
    BY <1>2, <1>5, <2>1 DEF Shown, Cause, Live
  <2>2. CASE ~(t = s /\ sql[r].at = "none")
    <3>1. Known(t)
      <4>1. CASE Issued(t)'
        BY <1>2, <4>1 DEF Known, Issued
      <4>2. ASSUME NEW q \in Requests, sql'[q].at \in Creating, req'[q].sid = t
            PROVE  Known(t)
        BY <1>1, <1>2, <1>6, <2>2, <4>2 DEF Known, Creating
      <4> QED BY <1>9, <4>1, <4>2 DEF Known
    <3> QED BY <1>2, <1>7, <3>1 DEF Aside
  <2> QED BY <2>1, <2>2
<1> QED BY <1>2, <1>3, <1>4, <1>5, <1>6, <1>7, <1>8, <1>9, Kinds, MStep

LEMMA LoginReturnsInv ==
    ASSUME IInv, MInv, NEW r \in Requests, LoginReturns(r)
    PROVE  [Next]_vars /\ MInv'
<1>1. /\ sql[r].at = "create.done" /\ GenerateTokens(r) /\ Rest(r)
      /\ UNCHANGED <<row, marks>>
  BY DEF LoginReturns
<1>2. [Next]_vars
  BY <1>1 DEF Next
<1>3. req'[r] = Idle /\ Beside(r)
  BY <1>1, FinishType DEF GenerateTokens, IInv
<1>4. req[r].at = "login.tokens" /\ AwaitedBy(r) = {}
  BY <1>1, Creates DEF GenerateTokens
<1>5. /\ sql' \in [Requests -> Mirror] /\ sql'[r].at = "none"
      /\ \A q \in Requests : q # r => sql'[q] = sql[q]
  BY <1>1, Kinds, RestType
<1>6. SqlOK(r)'
  BY <1>3, <1>5, IdleType DEF SqlOK, Creating
<1>7. ASSUME NEW s \in Sids, Known(s)'
      PROVE  Known(s)
  <2>1. CASE s = req[r].sid
    BY <1>1, <2>1 DEF Known, Creating
  <2>2. CASE s # req[r].sid
    <3>1. Issued(s)' => Issued(s)
      <4>1. tokens'[s] = tokens[s]
        BY <1>1, <2>2, Typed DEF GenerateTokens, IInv
      <4> QED BY <4>1 DEF Issued
    <3>2. ASSUME NEW q \in Requests, sql'[q].at \in Creating, req'[q].sid = s
          PROVE  Known(s)
      BY <1>3, <1>5, <3>2 DEF Known, Beside, Creating
    <3> QED BY <1>7, <3>1, <3>2 DEF Known
  <2> QED BY <2>1, <2>2
<1> QED BY <1>1, <1>2, <1>3, <1>4, <1>5, <1>6, <1>7, Kinds, Unwritten

-----------------------------------------------------------------------------
(* endSession and endAllSessionsForUser                                    *)

(* What stands at an UPDATE that is about to be made.                      *)
LEMMA UpdateType ==
    ASSUME IInv, MInv, NEW r \in Requests,
           sql[r].at \in {"end.update", "all.update", "ops.select", "ops.update"}
    PROVE  req[r].at = "idle" /\ AwaitedBy(r) = {} /\ SqlOK(r) /\ sql[r] \in Mirror
BY Kinds DEF SqlOK, AwaitedBy

LEMMA ThenType ==
    ASSUME MInv, NEW r \in Requests, NEW st \in Statements, req[r] \in Request, Then(r, st)
    PROVE  /\ sql' \in [Requests -> Mirror]
           /\ \A q \in Requests : q # r => sql'[q] = sql[q]
           /\ req'[r].at = "idle" => /\ sql'[r].at = st /\ sql'[r].user = req[r].user
                                     /\ sql'[r].sid = req[r].sid /\ sql'[r].sids = req[r].found
           /\ req'[r].at # "idle" => sql' = sql
<1> DEFINE n == [Silent EXCEPT !.at = st, !.user = req[r].user, !.sid = req[r].sid,
                               !.sids = req[r].found]
<1>1. /\ n \in Mirror /\ n.at = st /\ n.user = req[r].user /\ n.sid = req[r].sid
      /\ n.sids = req[r].found
  BY DEF Silent, Mirror, Request
<1>2. sql' = IF req'[r].at = "idle" THEN [sql EXCEPT ![r] = n] ELSE sql
  BY DEF Then
<1> HIDE DEF n
<1> QED BY <1>1, <1>2, Kinds

LEMMA InnerEndInv ==
    ASSUME IInv, MInv, NEW r \in Requests, InnerEnd(r)
    PROVE  [Next]_vars /\ MInv'
<1>1. /\ sql[r].at = "none" /\ Then(r, "end.update") /\ UNCHANGED <<row, marks>>
      /\ EndGet(r) \/ EndDel(r) \/ EndSrem(r)
  BY DEF InnerEnd
<1>2. [Next]_vars
  BY <1>1 DEF Next
<1>3. IInv' /\ Opened' /\ Lasting
  BY <1>2, Lasts DEF MInv
<1>4. req \in [Requests -> Request] /\ req[r] \in Request
  BY DEF IInv, TypeOK
<1>5. /\ Beside(r) /\ UNCHANGED tokens
      /\ req[r].at \in Leaving /\ req'[r].at # "revokeall"
  <2>1. CASE EndGet(r)
    <3>1. req[r].at = "logout" /\ UNCHANGED tokens /\ (Finish(r) \/ Goto(r, "logout.del"))
      BY <2>1 DEF EndGet
    <3> QED BY <1>4, <3>1, IdleType DEF Goto, Finish, Beside, Leaving, Request
  <2>2. CASE EndDel(r)
    BY <1>4, <2>2 DEF EndDel, Goto, Beside, Leaving, Request
  <2>3. CASE EndSrem(r)
    BY <1>4, <2>3, IdleType DEF EndSrem, Finish, Beside, Leaving
  <2> QED BY <1>1, <2>1, <2>2, <2>3
<1>6. PICK s \in Sids : s = req[r].sid /\ Owner(s) # NoUser
  BY <1>5 DEF IInv, RequestsOK, ReqOK, Ending
<1>7. req'[r].at = "idle" => Over(s)
  <2>1. CASE EndGet(r)
    <3>1. CASE Live(s)
      BY <1>4, <1>6, <2>1, <3>1 DEF EndGet, Goto, Request
    <3>2. CASE ~Live(s)
      BY <1>6, <3>2 DEF Over
    <3> QED BY <3>1, <3>2
  <2>2. CASE EndDel(r)
    BY <1>4, <2>2 DEF EndDel, Goto, Request
  <2>3. CASE EndSrem(r)
    BY <1>6, <2>3 DEF EndSrem, IInv, RequestsOK, ReqOK
  <2> QED BY <1>1, <2>1, <2>2, <2>3
<1>8. /\ sql' \in [Requests -> Mirror] /\ \A q \in Requests : q # r => sql'[q] = sql[q]
      /\ req'[r].at = "idle" => sql'[r].at = "end.update" /\ sql'[r].sid = s
      /\ req'[r].at # "idle" => sql' = sql
  BY <1>1, <1>4, <1>6, ThenType DEF Statements
<1>9. SqlOK(r)'
  <2>1. CASE req'[r].at = "idle"
    <3>1. (sql[r].at = "end.update" => sql[r].sid \in Sids /\ Over(sql[r].sid))'
      <4>1. Over(s)'
        BY <1>3, <1>7, <2>1 DEF Lasting
      <4> QED BY <1>8, <2>1, <4>1 DEF Over, Owner, Live
    <3> QED BY <1>8, <2>1, <3>1 DEF SqlOK, Creating
  <2>2. CASE req'[r].at # "idle"
    BY <1>1, <1>5, <1>8, <2>2 DEF SqlOK, Creating
  <2> QED BY <2>1, <2>2
<1>10. \A t \in Sids : Known(t)' => Known(t)
  BY <1>1, <1>5, <1>8, KnownBefore DEF Creating
<1>11. AwaitedBy(r) = {}
  BY <1>1, <1>5 DEF AwaitedBy, Leaving
<1> QED BY <1>1, <1>2, <1>5, <1>8, <1>9, <1>10, <1>11, Kinds, Unwritten

LEMMA MirrorEndInv ==
    ASSUME IInv, MInv, NEW r \in Requests, MirrorEnd(r)
    PROVE  [Next]_vars /\ MInv'
<1>1. /\ sql[r].at = "end.update" /\ ExpireRows({sql[r].sid}) /\ Rest(r) /\ UNCHANGED vars
      /\ marks' = [marks EXCEPT !.ended = @ \cup {sql[r].sid}]
  BY DEF MirrorEnd
<1>2. req[r].at = "idle" /\ AwaitedBy(r) = {} /\ sql[r].sid \in Sids /\ Over(sql[r].sid)
  BY <1>1, UpdateType DEF SqlOK
<1>3. /\ sql' \in [Requests -> Mirror] /\ sql'[r].at = "none"
      /\ \A q \in Requests : q # r => sql'[q] = sql[q]
  BY <1>1, Kinds, RestType
<1>4. SqlOK(r)'
  BY <1>1, <1>2, <1>3 DEF SqlOK, Creating, vars
<1>5. /\ marks' \in Marks /\ marks'.excused = marks.excused
      /\ marks'.ended = marks.ended \cup {sql[r].sid}
  BY <1>1, <1>2, Kinds DEF Marks
<1> QED BY <1>1, <1>2, <1>3, <1>4, <1>5, Written DEF Creating

(* SMEMBERS, DEL each session, DEL the index: where r gets to.             *)
LEMMA EndAllMoves ==
    ASSUME IInv, NEW r \in Requests,
           EndAllMembers(r) \/ EndAllDelIndex(r) \/ \E s \in Sids : EndAllDel(r, s)
    PROVE  /\ [Next]_vars /\ Beside(r) /\ UNCHANGED tokens
           /\ req[r].at \in Clearing /\ req'[r].at \in {"idle", "all.del", "all.delindex"}
<1>1. [Next]_vars
  BY DEF Next
<1>2. req \in [Requests -> Request] /\ req[r] \in Request
  BY DEF IInv, TypeOK
<1>3. CASE EndAllMembers(r)
  <2> DEFINE at == IF Members(req[r].user) = {} THEN "all.delindex" ELSE "all.del"
  <2>1. /\ UNCHANGED tokens /\ req[r].at \in Clearing
        /\ \/ Finish(r)
           \/ \E m : req' = [req EXCEPT ![r].at = at, ![r].todo = m, ![r].found = m]
    BY <1>3 DEF EndAllMembers, Clearing
  <2>2. at \in {"all.del", "all.delindex"}
    OBVIOUS
  <2> HIDE DEF at
  <2>3. CASE Finish(r)
    BY <1>2, <2>1, <2>3, <1>1, IdleType DEF Finish, Beside
  <2>4. ASSUME NEW m, req' = [req EXCEPT ![r].at = at, ![r].todo = m, ![r].found = m]
        PROVE  Beside(r) /\ req'[r].at \in {"all.del", "all.delindex"}
    BY <1>2, <2>2, <2>4 DEF Beside, Request
  <2> QED BY <1>1, <2>1, <2>3, <2>4
<1>4. ASSUME NEW s \in Sids, EndAllDel(r, s)
      PROVE  /\ Beside(r) /\ UNCHANGED tokens /\ req[r].at \in Clearing
             /\ req'[r].at \in {"idle", "all.del", "all.delindex"}
  BY <1>2, <1>4 DEF EndAllDel, Beside, Request, Clearing
<1>5. CASE EndAllDelIndex(r)
  BY <1>1, <1>2, <1>5, IdleType DEF EndAllDelIndex, Finish, Beside, Clearing
<1> QED BY <1>1, <1>3, <1>4, <1>5

LEMMA InnerEndAllInv ==
    ASSUME IInv, MInv, NEW r \in Requests, InnerEndAll(r)
    PROVE  [Next]_vars /\ MInv'
<1>1. /\ sql[r].at = "none" /\ Then(r, "all.update") /\ UNCHANGED <<row, marks>>
      /\ EndAllMembers(r) \/ EndAllDelIndex(r) \/ \E s \in Sids : EndAllDel(r, s)
  BY DEF InnerEndAll
<1>2. /\ [Next]_vars /\ Beside(r) /\ UNCHANGED tokens
      /\ req[r].at \in Clearing /\ req'[r].at \in {"idle", "all.del", "all.delindex"}
  BY <1>1, EndAllMoves
<1>3. IInv' /\ Opened' /\ Lasting
  BY <1>2, Lasts DEF MInv
<1>4. req \in [Requests -> Request] /\ req[r] \in Request /\ ReqOK(r) /\ SqlOK(r)
  BY Kinds DEF IInv, TypeOK, RequestsOK
<1>5. /\ sql' \in [Requests -> Mirror] /\ \A q \in Requests : q # r => sql'[q] = sql[q]
      /\ req'[r].at = "idle" => /\ sql'[r].at = "all.update" /\ sql'[r].user = req[r].user
                                /\ sql'[r].sids = req[r].found
      /\ req'[r].at # "idle" => sql' = sql
  BY <1>1, <1>4, ThenType DEF Statements
<1>6. req'[r].at = "idle" =>
        \A s \in req[r].found : Owner(s) = req[r].user /\ Over(s) /\ s \in Sids
  <2>1. CASE EndAllMembers(r)
    <3>1. CASE req[r].at = "revokeall"
      BY <1>4, <3>1 DEF SqlOK
    <3>2. CASE req[r].at # "revokeall"
      <4> DEFINE at == IF Members(req[r].user) = {} THEN "all.delindex" ELSE "all.del"
      <4>1. \E m : req' = [req EXCEPT ![r].at = at, ![r].todo = m, ![r].found = m]
        BY <2>1, <3>2 DEF EndAllMembers
      <4>2. at # "idle"
        OBVIOUS
      <4> HIDE DEF at
      <4> QED BY <1>4, <4>1, <4>2 DEF Request
    <3> QED BY <3>1, <3>2
  <2>2. ASSUME NEW s \in Sids, EndAllDel(r, s)
        PROVE  req'[r].at # "idle"
    BY <1>4, <2>2 DEF EndAllDel, Request
  <2>3. CASE EndAllDelIndex(r)
    BY <1>4, <2>3 DEF EndAllDelIndex, ReqOK, Request
  <2> QED BY <1>1, <2>1, <2>2, <2>3
<1>7. SqlOK(r)'
  <2>1. CASE req'[r].at = "idle"
    <3>1. \A s \in sql'[r].sids : Owner(s)' = sql'[r].user /\ Over(s)'
      <4> SUFFICES ASSUME NEW s \in req[r].found
                   PROVE  Owner(s)' = req[r].user /\ Over(s)'
        BY <1>5, <2>1
      <4> QED BY <1>3, <1>6, <2>1 DEF Lasting, Over
    <3> QED BY <1>5, <2>1, <3>1 DEF SqlOK, Creating
  <2>2. CASE req'[r].at # "idle"
    BY <1>1, <1>2, <1>5, <2>2 DEF SqlOK, Creating
  <2> QED BY <2>1, <2>2
<1>8. \A t \in Sids : Known(t)' => Known(t)
  BY <1>1, <1>2, <1>5, KnownBefore DEF Creating
<1>9. AwaitedBy(r) = {}
  BY <1>1, <1>2 DEF AwaitedBy, Clearing
<1> QED BY <1>1, <1>2, <1>5, <1>7, <1>8, <1>9, Kinds, Unwritten

LEMMA MirrorEndAllInv ==
    ASSUME IInv, MInv, NEW r \in Requests, MirrorEndAll(r)
    PROVE  [Next]_vars /\ MInv'
<1> DEFINE rows == VisibleOf(sql[r].user)
           others == rows \ sql[r].sids
<1>1. /\ sql[r].at = "all.update" /\ ExpireRows(rows) /\ Rest(r) /\ UNCHANGED vars
      /\ marks' = [marks EXCEPT !.ended = @ \cup sql[r].sids, !.excused = Excuse(others)]
  BY DEF MirrorEndAll, EndAllRows
<1>2. /\ req[r].at = "idle" /\ AwaitedBy(r) = {} /\ sql[r].sids \subseteq Sids
      /\ \A s \in sql[r].sids : Owner(s) = sql[r].user /\ Over(s)
  BY <1>1, UpdateType DEF SqlOK, Mirror
<1>3. /\ sql' \in [Requests -> Mirror] /\ sql'[r].at = "none"
      /\ \A q \in Requests : q # r => sql'[q] = sql[q]
  BY <1>1, Kinds, RestType
<1>4. SqlOK(r)'
  BY <1>1, <1>2, <1>3 DEF SqlOK, Creating, vars
<1>5. rows \subseteq Sids /\ others \subseteq Sids
  BY DEF VisibleOf
<1>6. \A s \in Sids : Owner(s) = sql[r].user => s \in rows \/ ~Visible(s)
  BY DEF VisibleOf
<1>7. \A s \in rows : s \in others \/ s \in sql[r].sids
  OBVIOUS
<1> HIDE DEF rows, others
<1>8. /\ marks' \in Marks /\ marks'.excused = Excuse(others)
      /\ marks.excused \subseteq Excuse(others)
      /\ marks'.ended = marks.ended \cup sql[r].sids
      /\ \A s \in others : Live(s) => s \in Excuse(others)
  BY <1>1, <1>2, <1>5, Kinds, ExcuseType DEF Marks
<1>9. \A s \in Sids : Live(s)' <=> Live(s)
  BY <1>1 DEF vars, Live
<1> QED BY <1>1, <1>2, <1>3, <1>4, <1>6, <1>7, <1>8, <1>9, Written DEF Creating

-----------------------------------------------------------------------------
(* The operator's revocation                                               *)

LEMMA OpsBeginSqlInv ==
    ASSUME IInv, MInv, NEW r \in Requests, OpsBegin(r)
    PROVE  [Next]_vars /\ MInv'
<1>1. /\ req[r].at = "idle" /\ sql[r].at = "none" /\ UNCHANGED <<vars, row, marks>>
  BY DEF OpsBegin
<1>2. Beside(r) /\ UNCHANGED <<req, tokens>> /\ AwaitedBy(r) = {}
  BY <1>1 DEF vars, Beside, AwaitedBy
<1>3. /\ sql' \in [Requests -> Mirror] /\ \A q \in Requests : q # r => sql'[q] = sql[q]
      /\ sql'[r].at \in {"ops.select", "ops.update"}
      /\ sql'[r].at = "ops.select" =>
           sql'[r].sid = NoSid /\ sql'[r].todo = {} /\ sql'[r].sids = {}
      /\ sql'[r].sid # NoSid => sql'[r].todo = {}
      /\ sql'[r].sids = {}
  <2>1. CASE sql' = [sql EXCEPT ![r] = [Silent EXCEPT !.at = "ops.select"]]
    <3> DEFINE n == [Silent EXCEPT !.at = "ops.select"]
    <3>1. /\ n \in Mirror /\ n.at = "ops.select" /\ n.sid = NoSid /\ n.todo = {} /\ n.sids = {}
          /\ sql' = [sql EXCEPT ![r] = n]
      BY <2>1 DEF Silent, Mirror, Statements
    <3> HIDE DEF n
    <3> QED BY <2>1, <3>1, Kinds, SetType
  <2>2. ASSUME NEW u \in Users,
               sql' = [sql EXCEPT ![r] = [Silent EXCEPT !.at = "ops.update", !.user = u,
                                                       !.todo = {u}]]
        PROVE  <1>3
    <3> DEFINE n == [Silent EXCEPT !.at = "ops.update", !.user = u, !.todo = {u}]
    <3>1. /\ n \in Mirror /\ n.at = "ops.update" /\ n.sid = NoSid /\ n.sids = {}
          /\ sql' = [sql EXCEPT ![r] = n]
      BY <2>2 DEF Silent, Mirror, Statements
    <3> HIDE DEF n
    <3> QED BY <2>2, <3>1, Kinds, SetType
  <2>3. ASSUME NEW s \in Sids,
               sql' = [sql EXCEPT ![r] = [Silent EXCEPT !.at = "ops.update", !.sid = s]]
        PROVE  <1>3
    <3> DEFINE n == [Silent EXCEPT !.at = "ops.update", !.sid = s]
    <3>1. /\ n \in Mirror /\ n.at = "ops.update" /\ n.todo = {} /\ n.sids = {}
          /\ sql' = [sql EXCEPT ![r] = n]
      BY <2>3 DEF Silent, Mirror, Statements
    <3> HIDE DEF n
    <3> QED BY <2>3, <3>1, Kinds, SetType
  <2> QED BY <2>1, <2>2, <2>3 DEF OpsBegin
<1>4. SqlOK(r)'
  BY <1>1, <1>2, <1>3 DEF SqlOK, Creating
<1>5. \A s \in Sids : Known(s)' => Known(s)
  BY <1>2, <1>3, KnownBefore DEF Creating
<1> QED BY <1>1, <1>2, <1>3, <1>4, <1>5, Kinds, Unwritten

(* The look at the users, or the lack of one.                              *)
LEMMA OpsSelectInv ==
    ASSUME IInv, MInv, NEW r \in Requests, OpsSelect(r) \/ OpsSelectFails(r)
    PROVE  [Next]_vars /\ MInv'
<1>1. sql[r].at = "ops.select" /\ UNCHANGED <<vars, row, marks>>
  BY DEF OpsSelect, OpsSelectFails
<1>2. /\ req[r].at = "idle" /\ AwaitedBy(r) = {} /\ sql[r] \in Mirror
      /\ sql[r].sid = NoSid /\ sql[r].todo = {} /\ sql[r].sids = {}
  BY <1>1, UpdateType DEF SqlOK
<1>3. Beside(r) /\ UNCHANGED <<req, tokens, history>>
  BY <1>1 DEF vars, Beside
<1>4. /\ sql' \in [Requests -> Mirror] /\ \A q \in Requests : q # r => sql'[q] = sql[q]
      /\ sql'[r].at = "ops.update" /\ sql'[r].sid = NoSid
      /\ \A s \in sql'[r].sids : Issued(s) /\ Owner(s) \in sql'[r].todo
  <2>1. CASE OpsSelect(r)
    <3> DEFINE sids == {s \in Sids : Issued(s) /\ Live(s) /\ Owner(s) \in Affected}
               n == [sql[r] EXCEPT !.at = "ops.update", !.todo = Affected, !.sids = sids]
    <3>1. sql' = [sql EXCEPT ![r] = n]
      BY <2>1, Kinds DEF OpsSelect
    <3>2. /\ n \in Mirror /\ n.at = "ops.update" /\ n.sid = NoSid
          /\ n.todo = Affected /\ n.sids = sids
      BY <1>2 DEF Mirror, Statements, Affected
    <3> HIDE DEF n
    <3> QED BY <3>1, <3>2, Kinds, SetType
  <2>2. CASE OpsSelectFails(r)
    BY <1>2, <2>2, Kinds, TurnType DEF OpsSelectFails, Statements
  <2> QED BY <2>1, <2>2
<1>5. SqlOK(r)'
  <2>1. \A s \in sql'[r].sids : Issued(s)' /\ Owner(s)' \in sql'[r].todo
    BY <1>3, <1>4 DEF Issued, Owner
  <2> QED BY <1>2, <1>3, <1>4, <2>1 DEF SqlOK, Creating
<1>6. \A s \in Sids : Known(s)' => Known(s)
  BY <1>3, <1>4, KnownBefore DEF Creating
<1> QED BY <1>1, <1>2, <1>3, <1>4, <1>5, <1>6, Kinds, Unwritten

(* Whoever's row is expired here is to be ended by r, but for the users    *)
(* that r never learned of.                                                *)
LEMMA OpsUpdateInv ==
    ASSUME IInv, MInv, NEW r \in Requests, OpsUpdate(r)
    PROVE  [Next]_vars /\ MInv'
<1> DEFINE rows == {s \in Sids : InScope(r, s)}
           missed == {s \in rows : sql[r].sid = NoSid /\ Owner(s) \notin sql[r].todo}
<1>1. /\ sql[r].at = "ops.update" /\ ExpireRows(rows) /\ Turn(r, "ops.cache")
      /\ UNCHANGED vars /\ marks' = [marks EXCEPT !.excused = Excuse(missed)]
  BY DEF OpsUpdate
<1>2. /\ req[r].at = "idle" /\ AwaitedBy(r) = {} /\ sql[r] \in Mirror /\ SqlOK(r)
  BY <1>1, UpdateType
<1>3. /\ sql' \in [Requests -> Mirror] /\ \A q \in Requests : q # r => sql'[q] = sql[q]
      /\ sql'[r].at = "ops.cache" /\ sql'[r].sid = sql[r].sid
      /\ sql'[r].todo = sql[r].todo /\ sql'[r].sids = sql[r].sids
  BY <1>1, Kinds, TurnType DEF Statements
<1>4. UNCHANGED <<now, entry, tokens, req, history>>
  BY <1>1 DEF vars
<1>5. \A s \in Sids : sql[r].sid = s \/ Owner(s) \in sql[r].todo => s \in AwaitedBy(r)'
  BY <1>3, <1>4 DEF AwaitedBy, Owner
<1>6. SqlOK(r)'
  <2>1. \A s \in sql[r].sids : /\ s \in Sids /\ Issued(s)'
                               /\ Over(s)' \/ s \in AwaitedBy(r)'
    BY <1>1, <1>2, <1>4, <1>5 DEF SqlOK, Issued, Over, Owner, Live, Mirror
  <2> QED BY <1>1, <1>2, <1>3, <1>4, <2>1 DEF SqlOK, Creating
<1>7. \A s \in rows : s \in missed \/ sql[r].sid = s \/ Owner(s) \in sql[r].todo
  BY DEF InScope
<1>8. missed \subseteq Sids
  OBVIOUS
<1> HIDE DEF rows, missed
<1>9. /\ marks' \in Marks /\ marks'.excused = Excuse(missed) /\ marks'.ended = marks.ended
      /\ marks.excused \subseteq Excuse(missed)
      /\ \A s \in missed : Live(s) => s \in Excuse(missed)
  BY <1>1, <1>8, Kinds, ExcuseType DEF Marks
<1>10. \A s \in Sids : Live(s)' <=> Live(s)
  BY <1>4 DEF Live
<1> QED BY <1>1, <1>2, <1>3, <1>5, <1>6, <1>7, <1>9, <1>10, Written DEF Creating

(* A request at its commands of the cache: what it is to end it still is,  *)
(* or it is over, or the index had lost it.                                *)
LEMMA CacheSqlOK ==
    ASSUME IInv, MInv, [Next]_vars, NEW r \in Requests, sql[r].at = "ops.cache",
           sql'[r].at = "ops.cache", sql'[r].sids = sql[r].sids,
           sql'[r].sid = sql[r].sid, sql'[r].todo \subseteq sql[r].todo,
           req'[r].at \in {"idle", "ops.members", "all.del", "all.delindex"},
           \A s \in Sids : Owner(s) # NoUser /\ Listed(s) /\ s \in AwaitedBy(r) =>
               s \in AwaitedBy(r)' \/ Over(s)' \/ s \in history'.unlisted
    PROVE  SqlOK(r)'
<1>1. Lasting
  BY Lasts DEF MInv
<1>2. SqlOK(r) /\ sql[r].sids \subseteq Sids
  BY Kinds DEF Mirror
<1>3. ASSUME NEW s \in sql[r].sids
      PROVE  Issued(s)' /\ (Over(s)' \/ s \in history'.unlisted \/ s \in AwaitedBy(r)')
  <2>1. /\ s \in Sids /\ Issued(s)
        /\ Over(s) \/ s \in history.unlisted \/ s \in AwaitedBy(r)
    BY <1>2 DEF SqlOK
  <2>2. Owner(s) # NoUser /\ Listed(s)
    BY <2>1 DEF IInv, TokensOK
  <2> QED BY <1>1, <2>1, <2>2 DEF Lasting
<1> QED BY <1>2, <1>3 DEF SqlOK, Creating

LEMMA OpsUserInv ==
    ASSUME IInv, MInv, NEW r \in Requests, NEW u \in Users, OpsUser(r, u)
    PROVE  [Next]_vars /\ MInv'
<1>1. /\ sql[r].at = "ops.cache" /\ u \in sql[r].todo /\ OpsRevokeUser(r, u)
      /\ sql' = [sql EXCEPT ![r].todo = @ \ {u}] /\ UNCHANGED <<row, marks>>
  BY DEF OpsUser
<1>2. [Next]_vars
  BY <1>1 DEF Next
<1>3. /\ Beside(r) /\ UNCHANGED <<tokens, history>>
      /\ req[r].at = "idle" /\ req'[r].at = "ops.members" /\ req'[r].user = u
  <2> DEFINE n == [Idle EXCEPT !.at = "ops.members", !.user = u]
  <2>1. /\ req' = [req EXCEPT ![r] = n] /\ UNCHANGED <<tokens, history>>
        /\ req[r].at = "idle" /\ req \in [Requests -> Request]
    BY <1>1 DEF OpsRevokeUser, IInv, TypeOK
  <2>2. n.at = "ops.members" /\ n.user = u
    BY DEF Idle
  <2> HIDE DEF n
  <2> QED BY <2>1, <2>2 DEF Beside
<1>4. /\ sql' \in [Requests -> Mirror] /\ \A q \in Requests : q # r => sql'[q] = sql[q]
      /\ sql'[r].at = "ops.cache" /\ sql'[r].sid = sql[r].sid
      /\ sql'[r].sids = sql[r].sids /\ sql'[r].todo = sql[r].todo \ {u}
  <2> DEFINE n == [sql[r] EXCEPT !.todo = @ \ {u}]
  <2>1. sql' = [sql EXCEPT ![r] = n]
    BY <1>1, Kinds
  <2>2. /\ n \in Mirror /\ n.at = sql[r].at /\ n.sid = sql[r].sid
        /\ n.sids = sql[r].sids /\ n.todo = sql[r].todo \ {u}
    BY Kinds DEF Mirror
  <2> HIDE DEF n
  <2> QED BY <1>1, <2>1, <2>2, Kinds, SetType
<1>5. ASSUME NEW s \in Sids, s \in AwaitedBy(r)
      PROVE  s \in AwaitedBy(r)'
  <2>1. sql[r].sid # s
    BY <1>1, Kinds, CacheAssumption DEF SqlOK
  <2>2. Owner(s) \in sql[r].todo
    BY <1>3, <1>5, <2>1 DEF AwaitedBy
  <2> QED BY <1>3, <1>4, <2>2 DEF AwaitedBy, Owner
<1>6. SqlOK(r)'
  BY <1>1, <1>2, <1>3, <1>4, <1>5, CacheSqlOK
<1>7. \A s \in Sids : Known(s)' => Known(s)
  BY <1>3, <1>4, KnownBefore DEF Creating
<1> QED BY <1>1, <1>2, <1>3, <1>4, <1>5, <1>6, <1>7, Kinds, Unwritten

LEMMA OpsInvalidateInv ==
    ASSUME IInv, MInv, NEW r \in Requests, OpsInvalidate(r)
    PROVE  [Next]_vars /\ MInv'
<1>1. /\ sql[r].at = "ops.cache" /\ UNCHANGED <<row, sql, marks>>
      /\ EndAllMembers(r) \/ EndAllDelIndex(r) \/ \E s \in Sids : EndAllDel(r, s)
  BY DEF OpsInvalidate
<1>2. /\ [Next]_vars /\ Beside(r) /\ UNCHANGED tokens
      /\ req[r].at \in Clearing /\ req'[r].at \in {"idle", "all.del", "all.delindex"}
  BY <1>1, EndAllMoves
<1>3. IInv' /\ Opened' /\ Lasting
  BY <1>2, Lasts DEF MInv
<1>4. /\ req \in [Requests -> Request] /\ req[r] \in Request /\ SqlOK(r)
      /\ req[r].at \in {"ops.members", "all.del", "all.delindex"}
  BY <1>1, <1>2, Kinds DEF IInv, TypeOK, SqlOK, Clearing
<1>5. ASSUME NEW s \in Sids, Owner(s) # NoUser, Listed(s), s \in AwaitedBy(r)
      PROVE  s \in AwaitedBy(r)' \/ Over(s)' \/ s \in history'.unlisted
  <2>1. Owner(s)' = Owner(s)
    BY <1>3, <1>5 DEF Lasting
  <2>2. CASE sql[r].sid = s \/ Owner(s) \in sql[r].todo
    BY <1>1, <2>1, <2>2 DEF AwaitedBy
  <2>3. CASE req[r].at = "ops.members" /\ req[r].user = Owner(s)
    <3>1. EndAllMembers(r)
      BY <1>1, <2>3 DEF EndAllDelIndex, EndAllDel
    <3>2. CASE s \in Members(Owner(s))
      <4> DEFINE m == Members(req[r].user)
      <4>1. req' = [req EXCEPT ![r].at = "all.del", ![r].todo = m, ![r].found = m]
        BY <2>3, <3>1, <3>2 DEF EndAllMembers
      <4>2. s \in m
        BY <2>3, <3>2
      <4> HIDE DEF m
      <4>3. req'[r].at = "all.del" /\ s \in req'[r].todo
        BY <1>4, <4>1, <4>2 DEF Request
      <4> QED BY <1>1, <4>3 DEF AwaitedBy
    <3>3. CASE ~Live(s) \/ s \in history.raced
      BY <1>3, <1>5, <3>3 DEF Over, Lasting
    <3>4. CASE s \in history.unlisted
      BY <1>3, <3>4 DEF Lasting
    <3> QED BY <1>5, <3>2, <3>3, <3>4 DEF Listed
  <2>4. CASE req[r].at = "all.del" /\ s \in req[r].todo
    <3>1. PICK t \in Sids : EndAllDel(r, t)
      BY <1>1, <2>4 DEF EndAllDelIndex, EndAllMembers
    <3>2. CASE t = s
      <4>1. ~Live(s)'
        <5>1. entry' = [entry EXCEPT ![s] = NoEntry] /\ entry \in [Sids -> Entry]
          BY <3>1, <3>2, Typed DEF EndAllDel, Del, IInv
        <5> QED BY <5>1 DEF Live, NoEntry
      <4> QED BY <1>5, <2>1, <4>1 DEF Over
    <3>3. CASE t # s
      <4>1. req'[r].at = "all.del" /\ s \in req'[r].todo
        <5>1. req' = [req EXCEPT ![r].todo = @ \ {t}, ![r].at = "all.del"]
          BY <1>4, <2>4, <3>1, <3>3 DEF EndAllDel, Request
        <5> QED BY <1>4, <2>4, <3>3, <5>1 DEF Request
      <4> QED BY <1>1, <4>1 DEF AwaitedBy
    <3> QED BY <3>2, <3>3
  <2> QED BY <1>4, <1>5, <2>2, <2>3, <2>4 DEF AwaitedBy
<1>6. SqlOK(r)'
  BY <1>1, <1>2, <1>5, CacheSqlOK
<1>7. \A s \in Sids : Known(s)' => Known(s)
  BY <1>1, <1>2, KnownBefore DEF Creating
<1>8. \A s \in Sids : Known(s) => Owner(s) # NoUser /\ Listed(s)
  BY KnownOK
<1> QED BY <1>1, <1>2, <1>5, <1>6, <1>7, <1>8, Kinds, Unwritten

(* Scope session: GET, SREM and DEL; an SREM that is not followed by its   *)
(* DEL leaves the session unlisted.                                        *)
LEMMA OpsOneInv ==
    ASSUME IInv, MInv, NEW r \in Requests, OpsOne(r)
    PROVE  [Next]_vars /\ MInv'
<1>1. req \in [Requests -> Request] /\ req[r] \in Request /\ sql[r] \in Mirror /\ SqlOK(r)
  BY Kinds DEF IInv, TypeOK
<1>2. ASSUME NEW s \in Sids, sql[r].at = "ops.cache", sql[r].sid = s, OpsRevokeSession(r, s),
             Rest(r), UNCHANGED <<row, marks>>
      PROVE  [Next]_vars /\ MInv'
  <2>1. [Next]_vars
    BY <1>2 DEF Next
  <2>2. /\ Beside(r) /\ UNCHANGED tokens /\ req[r].at = "idle"
        /\ req'[r].at = "ops.get" /\ req'[r].sid = s
    <3> DEFINE n == [Idle EXCEPT !.at = "ops.get", !.sid = s]
    <3>1. req' = [req EXCEPT ![r] = n] /\ UNCHANGED tokens /\ req[r].at = "idle"
      BY <1>2 DEF OpsRevokeSession
    <3>2. n.at = "ops.get" /\ n.sid = s
      BY DEF Idle
    <3> HIDE DEF n
    <3> QED BY <1>1, <3>1, <3>2 DEF Beside
  <2>3. /\ sql' \in [Requests -> Mirror] /\ sql'[r].at = "none"
        /\ \A q \in Requests : q # r => sql'[q] = sql[q]
    BY <1>2, Kinds, RestType
  <2>4. SqlOK(r)'
    BY <2>2, <2>3 DEF SqlOK, Creating
  <2>5. \A t \in Sids : t \in AwaitedBy(r) => t \in AwaitedBy(r)'
    <3>1. sql[r].todo = {}
      BY <1>1, <1>2, CacheAssumption DEF SqlOK
    <3> QED BY <1>2, <2>2, <3>1 DEF AwaitedBy
  <2>6. \A t \in Sids : Known(t)' => Known(t)
    BY <2>2, <2>3, KnownBefore DEF Creating
  <2> QED BY <1>2, <2>1, <2>2, <2>3, <2>4, <2>5, <2>6, Kinds, Unwritten
<1>3. ASSUME OpsGet(r) \/ OpsSrem(r) \/ OpsDel(r), UNCHANGED <<row, sql, marks>>
      PROVE  [Next]_vars /\ MInv'
  <2>1. [Next]_vars
    BY <1>3 DEF Next
  <2>2. IInv' /\ Opened' /\ Lasting
    BY <2>1, Lasts DEF MInv
  <2>3. req[r].at \in {"ops.get", "ops.srem", "ops.del"} /\ UNCHANGED tokens
    BY <1>3 DEF OpsGet, OpsSrem, OpsDel
  <2>4. PICK s \in Sids : s = req[r].sid /\ Owner(s) # NoUser
    BY <2>3 DEF IInv, RequestsOK, ReqOK, Ending
  <2>5. sql[r].at = "none"
    BY <1>1, <2>3 DEF SqlOK, Creating, Mirror, Statements
  <2>6. /\ Beside(r)
        /\ \/ req'[r].at \in {"ops.srem", "ops.del"} /\ req'[r].sid = s
           \/ req'[r].at = "idle" /\ ~Live(s)'
    <3>1. CASE OpsGet(r)
      <4> DEFINE at == IF Live(req[r].sid) THEN "ops.srem" ELSE "ops.del"
      <4>1. req' = [req EXCEPT ![r].at = at]
        BY <3>1 DEF OpsGet, Goto
      <4>2. at \in {"ops.srem", "ops.del"}
        OBVIOUS
      <4> HIDE DEF at
      <4> QED BY <1>1, <2>4, <4>1, <4>2 DEF Beside, Request
    <3>2. CASE OpsSrem(r)
      BY <1>1, <2>4, <3>2 DEF OpsSrem, Goto, Beside, Request
    <3>3. CASE OpsDel(r)
      <4>1. req' = [req EXCEPT ![r] = Idle] /\ entry' = [entry EXCEPT ![s] = NoEntry]
        BY <2>4, <3>3 DEF OpsDel, Finish, Del
      <4>2. ~Live(s)'
        BY <4>1, Typed DEF IInv, Live, NoEntry
      <4> QED BY <1>1, <4>1, <4>2, IdleType DEF Beside
    <3> QED BY <1>3, <3>1, <3>2, <3>3
  <2>7. SqlOK(r)'
    BY <1>3, <2>5, <2>6 DEF SqlOK, Creating
  <2>8. \A t \in Sids : t \in AwaitedBy(r) => t \in AwaitedBy(r)' \/ Over(t)'
    <3> SUFFICES ASSUME NEW t \in Sids, t \in AwaitedBy(r)
                 PROVE  t \in AwaitedBy(r)' \/ Over(t)'
      OBVIOUS
    <3>1. t = s
      BY <2>4, <2>5 DEF AwaitedBy
    <3>2. CASE req'[r].at \in {"ops.srem", "ops.del"} /\ req'[r].sid = s
      BY <3>1, <3>2 DEF AwaitedBy
    <3>3. CASE ~Live(s)'
      BY <2>2, <2>4, <3>1, <3>3 DEF Over, Lasting
    <3> QED BY <2>6, <3>2, <3>3
  <2>9. \A t \in Sids : Known(t)' => Known(t)
    BY <1>3, <2>3, <2>5, <2>6, KnownBefore DEF Creating
  <2> QED BY <1>3, <2>1, <2>6, <2>7, <2>8, <2>9, Kinds, Unwritten
<1> QED BY <1>2, <1>3, CacheAssumption, Kinds DEF OpsOne, Mirror

(* The answer: nothing is awaited any more.                                *)
LEMMA OpsAnswerInv ==
    ASSUME IInv, MInv, NEW r \in Requests, OpsAnswer(r)
    PROVE  [Next]_vars /\ MInv'
<1>1. Reached(r) /\ Rest(r) /\ UNCHANGED <<vars, row, marks>>
  BY DEF OpsAnswer
<1>2. Beside(r) /\ UNCHANGED <<req, tokens>>
  BY <1>1 DEF vars, Beside
<1>3. /\ sql' \in [Requests -> Mirror] /\ sql'[r].at = "none"
      /\ \A q \in Requests : q # r => sql'[q] = sql[q]
  BY <1>1, Kinds, RestType
<1>4. SqlOK(r)'
  BY <1>1, <1>2, <1>3 DEF SqlOK, Creating, Reached
<1>5. AwaitedBy(r) = {}
  BY <1>1, CacheAssumption DEF Reached, AwaitedBy
<1>6. \A s \in Sids : Known(s)' => Known(s)
  BY <1>2, <1>3, KnownBefore DEF Creating
<1> QED BY <1>1, <1>2, <1>3, <1>4, <1>5, <1>6, Kinds, Unwritten

-----------------------------------------------------------------------------
(* Faults and time                                                         *)

LEMMA MirrorAbortInv ==
    ASSUME IInv, MInv, NEW r \in Requests, MirrorAbort(r)
    PROVE  [Next]_vars /\ MInv'
<1>1. /\ UNCHANGED vars \/ Abort(r)
      /\ Rest(r) /\ marks' = [marks EXCEPT !.excused = Excuse(AwaitedBy(r))] /\ UNCHANGED row
  BY DEF MirrorAbort
<1>2. [Next]_vars
  BY <1>1 DEF Next
<1>3. IInv' /\ Opened' /\ Lasting
  BY <1>2, Lasts DEF MInv
<1>4. /\ Beside(r) /\ UNCHANGED tokens /\ req'[r].at = "idle"
  <2>1. CASE req[r].at = "idle"
    BY <2>1 DEF MirrorAbort, vars, Beside
  <2>2. CASE req[r].at # "idle"
    BY <2>2, FinishType, IdleType DEF MirrorAbort, Abort, IInv
  <2> QED BY <2>1, <2>2
<1>5. /\ sql' \in [Requests -> Mirror] /\ sql'[r].at = "none"
      /\ \A q \in Requests : q # r => sql'[q] = sql[q]
  BY <1>1, Kinds, RestType
<1>6. SqlOK(r)'
  BY <1>4, <1>5 DEF SqlOK, Creating
<1>7. AwaitedBy(r) \subseteq Sids
  BY DEF AwaitedBy
<1>8. /\ marks' \in Marks /\ marks'.ended = marks.ended
      /\ marks'.excused = Excuse(AwaitedBy(r)) /\ marks.excused \subseteq marks'.excused
      /\ \A s \in AwaitedBy(r) : Live(s) => s \in marks'.excused
  BY <1>1, <1>7, Kinds, ExcuseType DEF Marks
<1>9. ASSUME NEW s \in Sids, Known(s), s \in AwaitedBy(r)
      PROVE  Over(s)' \/ s \in marks'.excused
  <2>1. CASE Live(s)
    BY <1>8, <1>9, <2>1
  <2>2. CASE ~Live(s)
    BY <1>3, <1>9, <2>2, KnownOK DEF Over, Lasting
  <2> QED BY <2>1, <2>2
<1>10. \A s \in Sids : Known(s)' => Known(s)
  BY <1>4, <1>5, KnownBefore DEF Creating
<1> QED BY <1>1, <1>2, <1>4, <1>5, <1>6, <1>8, <1>9, <1>10, Unwritten

(* No request takes a step.                                                *)
LEMMA MirrorRests ==
    ASSUME IInv, MInv, [Next]_vars, UNCHANGED <<row, sql, marks, req, tokens>>
    PROVE  MInv'
<1>1. IInv' /\ Opened' /\ Lasting
  BY Lasts DEF MInv
<1>2. \A q \in Requests :
        /\ SqlOK(q)'
        /\ \A s \in Sids : Owner(s) # NoUser /\ s \in AwaitedBy(q) => s \in AwaitedBy(q)'
  BY <1>1, Untouched
<1>3. RowsOK' /\ EndedRowsGone'
  BY <1>1, Kinds, RowsStay DEF MInv, Lasting
<1>4. KnownShown'
  <2> SUFFICES ASSUME NEW s \in Sids, Known(s) PROVE Shown(s)'
    BY DEF KnownShown, Known, Issued
  <2> QED BY <1>1, <1>2, KnownOK, Shows
<1>5. MirrorTypeOK'
  BY DEF MInv, MirrorTypeOK, Mirror, Statements
<1> QED BY <1>1, <1>2, <1>3, <1>4, <1>5 DEF MInv

LEMMA MirrorInitInv == MirrorInit => IInv /\ MInv
<1> SUFFICES ASSUME MirrorInit PROVE IInv /\ MInv
  OBVIOUS
<1>1. IInv
  BY InitInv DEF MirrorInit
<1>2. /\ now = 0 /\ entry = [s \in Sids |-> NoEntry] /\ req = [r \in Requests |-> Idle]
      /\ tokens = [s \in Sids |-> [access |-> 0, refresh |-> 0]] /\ history.raced = {}
      /\ row = [s \in Sids |-> NoRow] /\ sql = [r \in Requests |-> Silent]
      /\ marks = [excused |-> {}, ended |-> {}]
  BY DEF MirrorInit, Init
<1>3. MirrorTypeOK
  <2>1. NoRow \in Row
    BY CacheAssumption DEF NoRow, Row
  <2>2. Silent \in Mirror
    BY SilentType
  <2> QED BY <1>2, <2>1, <2>2 DEF MirrorTypeOK, Row
<1>4. \A s \in Sids : ~Live(s) /\ ~Visible(s) /\ ~Issued(s)
  BY <1>2 DEF Live, NoEntry, Visible, NoRow, Issued
<1>5. \A r \in Requests : SqlOK(r)
  BY <1>2, SilentType, IdleType DEF SqlOK, Creating
<1> QED BY <1>1, <1>2, <1>3, <1>4, <1>5
       DEF MInv, Opened, RowsOK, KnownShown, Shown, EndedRowsGone

LEMMA MirrorStepInv ==
    ASSUME IInv, MInv, [MirrorNext]_mirrorVars
    PROVE  IInv' /\ MInv'
<1>1. [Next]_vars /\ MInv'
  <2>1. ASSUME NEW r \in Requests,
               \/ InnerCreate(r) \/ MirrorInsert(r) \/ CreateFails(r) \/ LoginReturns(r)
               \/ InnerGet(r) \/ InnerEnd(r) \/ MirrorEnd(r) \/ InnerEndAll(r)
               \/ MirrorEndAll(r) \/ \E evicted \in SUBSET Sids : MirrorLimit(r, evicted)
        PROVE  [Next]_vars /\ MInv'
    BY <2>1, InnerCreateInv, MirrorInsertInv, CreateFailsInv, LoginReturnsInv, InnerGetInv,
       InnerEndInv, MirrorEndInv, InnerEndAllInv, MirrorEndAllInv, MirrorLimitInv
  <2>2. ASSUME NEW r \in Requests,
               \/ OpsBegin(r) \/ OpsSelect(r) \/ OpsSelectFails(r) \/ OpsUpdate(r)
               \/ OpsInvalidate(r) \/ OpsAnswer(r) \/ OpsOne(r) \/ MirrorAbort(r)
               \/ \E u \in Users : OpsUser(r, u)
        PROVE  [Next]_vars /\ MInv'
    BY <2>2, OpsBeginSqlInv, OpsSelectInv, OpsUpdateInv, OpsInvalidateInv, OpsAnswerInv,
       OpsOneInv, MirrorAbortInv, OpsUserInv
  <2>3. CASE Tick /\ UNCHANGED <<row, sql, marks>>
    <3>1. [Next]_vars /\ UNCHANGED <<row, sql, marks, req, tokens>>
      BY <2>3 DEF Next, Tick
    <3> QED BY <3>1, MirrorRests
  <2>4. CASE UNCHANGED mirrorVars
    <3>1. [Next]_vars /\ UNCHANGED <<row, sql, marks, req, tokens>>
      BY <2>4 DEF mirrorVars, vars
    <3> QED BY <3>1, MirrorRests
  <2> QED BY <2>1, <2>2, <2>3, <2>4 DEF MirrorNext
<1> QED BY <1>1, StepInv

LEMMA MirrorInvariance == MirrorSpec => [](IInv /\ MInv)
BY MirrorInitInv, MirrorStepInv, PTL DEF MirrorSpec

-----------------------------------------------------------------------------
(* The rows, the statements and the marks hold values of their kind.       *)
THEOREM MirrorTypes == MirrorSpec => []MirrorTypeOK
<1>1. MInv => MirrorTypeOK
  BY DEF MInv
<1> QED BY <1>1, MirrorInvariance, PTL

(* A session that is let in is in the operator's list, but for the reasons *)
(* that HiddenOnlyForCause names.                                          *)
THEOREM Hidden == MirrorSpec => []HiddenOnlyForCause
<1>1. MInv => HiddenOnlyForCause
  BY DEF MInv, KnownShown, Known, Shown, Cause, HiddenOnlyForCause
<1> QED BY <1>1, MirrorInvariance, PTL

(* A row whose session a completed logout or revoke-all ended stays out of *)
(* the list, unless it was inserted after that.                            *)
THEOREM EndedRows == MirrorSpec => []EndedRowsGone
<1>1. MInv => EndedRowsGone
  BY DEF MInv
<1> QED BY <1>1, MirrorInvariance, PTL

(* When every command of a scope all revocation has succeeded, none of the *)
(* sessions it is about is let in, but for those that a getSession wrote   *)
(* back or that no index led to.                                           *)
THEOREM ScopeAll == MirrorSpec => []ScopeAllReaches
<1>1. ASSUME IInv, MInv, NEW r \in Requests, Reached(r), NEW s \in sql[r].sids, Live(s)
      PROVE  s \in history.raced \cup history.unlisted
  <2>1. /\ s \in Sids
        /\ Over(s) \/ s \in history.unlisted \/ s \in AwaitedBy(r)
    BY <1>1, Kinds DEF SqlOK, Reached, Mirror
  <2>2. AwaitedBy(r) = {}
    BY <1>1, CacheAssumption DEF Reached, AwaitedBy
  <2> QED BY <1>1, <2>1, <2>2 DEF Over
<1>2. IInv /\ MInv => ScopeAllReaches
  BY <1>1 DEF ScopeAllReaches
<1> QED BY <1>2, MirrorInvariance, PTL
=============================================================================
