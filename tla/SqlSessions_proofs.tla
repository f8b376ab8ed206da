------------------------- MODULE SqlSessions_proofs -------------------------
(***************************************************************************)
(* Proofs about SqlSessions, for every number of users, sessions and       *)
(* requests and every value of the limit and of the durations.             *)
(***************************************************************************)
EXTENDS SqlSessions, FiniteSetTheorems, TLAPS

(* What a request's position says of its local variables, and what it      *)
(* takes to have a row or a token: an id that was inserted, by its owner.  *)
Ownership ==
    /\ \A r \in Requests : req[r].at # "idle" => req[r].user \in Users
    /\ \A r \in Requests :
          req[r].at \notin {"idle", "login.cleanup", "login.insert"}
          => req[r].sid \in known
    /\ \A r \in Requests :
          req[r].at \in {"login.enforce", "login.tokens"}
          => origin.owner[req[r].sid] = req[r].user
    /\ \A s \in Sids : Issued(s) => s \in known
    /\ \A s \in Sids : session[s].user # NoUser
                       => s \in known /\ session[s].user = origin.owner[s]

(* A request with a dead session never gets past the extension.            *)
DeadIsStopped ==
    \A r \in Requests :
        /\ req[r].dead
        /\ req[r].at \notin {"idle"} \cup LoginSteps
        => req[r].at \in ExtendSteps /\ ~Live(req[r].sid)

(* Every row lapses at a natural number of ticks.                          *)
LEMMA LapseNat == \A row \in Row : Lapse(row) \in Nat
<1> SUFFICES ASSUME NEW row \in Row PROVE Lapse(row) \in Nat
  OBVIOUS
<1>1. row.expires \in Nat /\ DayLength \in Nat \ {0}
  BY SqlAssumption DEF Row
<1>2. row.expires \div DayLength \in Nat
  BY <1>1
<1>3. (row.expires \div DayLength + 1) * DayLength \in Nat
  BY <1>1, <1>2
<1> QED BY <1>1, <1>3 DEF Lapse

(* The tables of an empty database and idle slots are well typed.          *)
LEMMA InitInv == Init => TypeOK /\ Ownership
<1> SUFFICES ASSUME Init PROVE TypeOK /\ Ownership
  OBVIOUS
<1>1. TypeOK
  BY SqlAssumption DEF Init, TypeOK, Row, NoRow, Token, NoToken, Request, Idle, Steps
<1>2. Ownership
  BY SqlAssumption DEF Init, Ownership, NoRow, NoToken, Idle, Issued
<1> QED BY <1>1, <1>2

(* Every named step of a handler is a step a request can be at.            *)
LEMMA StepNames ==
    /\ "idle" \in Steps
    /\ \A step \in LoginSteps \cup AccessSteps \cup RefreshSteps \cup HandlerSteps :
          step \in Steps
BY DEF Steps

(* The idle request slot is well typed.                                    *)
LEMMA IdleType == Idle \in Request
BY StepNames, SqlAssumption DEF Idle, Request

(* The three shapes of an update of req keep its type.                     *)
LEMMA FinishType ==
    ASSUME TypeOK, NEW r \in Requests, Finish(r)
    PROVE  req' \in [Requests -> Request]
BY IdleType DEF Finish, TypeOK

(* Moving a request to another of its steps keeps the slots well typed.    *)
LEMMA GotoType ==
    ASSUME TypeOK, NEW r \in Requests, NEW step \in Steps, Goto(r, step)
    PROVE  req' \in [Requests -> Request]
<1>1. [req[r] EXCEPT !.at = step] \in Request
  BY DEF TypeOK, Request
<1>2. req' = [req EXCEPT ![r] = [req[r] EXCEPT !.at = step]]
  BY DEF Goto
<1> QED BY <1>1, <1>2 DEF TypeOK

(* So does replacing a slot by any well-typed request.                     *)
LEMMA ReplaceType ==
    ASSUME TypeOK, NEW r \in Requests, NEW q \in Request,
           req' = [req EXCEPT ![r] = q]
    PROVE  req' \in [Requests -> Request]
BY DEF TypeOK

(* And so does the fall-through of requireAuth after a refusal.            *)
LEMMA RejectType ==
    ASSUME TypeOK, NEW r \in Requests, Reject(r)
    PROVE  req' \in [Requests -> Request]
<1>1. "refresh.extend" \in Steps
  BY StepNames DEF RefreshSteps
<1> QED BY <1>1, FinishType, GotoType DEF Reject

(* The UPDATE that sets expires_at to the clock keeps rows well typed.     *)
LEMMA ExpireType ==
    ASSUME TypeOK, NEW sids \in SUBSET Sids, Expire(sids)
    PROVE  session' \in [Sids -> Row]
<1>1. ASSUME NEW s \in Sids
      PROVE  [session[s] EXCEPT !.expires = now, !.iso = FALSE] \in Row
  <2>1. session[s] \in Row /\ now \in 0..(MaxTime + SessionDuration)
    BY SqlAssumption DEF TypeOK
  <2> QED BY <2>1 DEF Row
<1> QED BY <1>1 DEF Expire, TypeOK

(* Deleting rows keeps the table well typed.                               *)
LEMMA DropRowsType ==
    ASSUME TypeOK, NEW dropped, DropRows(dropped)
    PROVE  session' \in [Sids -> Row]
<1>1. NoRow \in Row
  BY SqlAssumption DEF NoRow, Row
<1> QED BY <1>1 DEF DropRows, TypeOK

(* No statement of any handler breaks a type.                              *)
LEMMA TypeStep == TypeOK /\ Ownership /\ [Next]_vars => TypeOK'
<1> SUFFICES ASSUME TypeOK, Ownership, [Next]_vars PROVE TypeOK'
  OBVIOUS
<1> USE SqlAssumption
<1>2. ASSUME NEW r \in Requests, NEW u \in Users, Authenticate(r, u) PROVE TypeOK'
  <2> DEFINE q == [Idle EXCEPT !.at = "login.cleanup", !.user = u,
                              !.version = password[u]]
  <2>1. q \in Request
    BY IdleType, StepNames DEF Idle, Request, LoginSteps, TypeOK
  <2>2. req' = [req EXCEPT ![r] = q]
    BY <1>2 DEF Authenticate
  <2> HIDE DEF q
  <2>3. req' \in [Requests -> Request]
    BY <2>1, <2>2, ReplaceType
  <2> QED BY <2>3, <1>2 DEF Authenticate, TypeOK
<1>3. ASSUME NEW r \in Requests, CleanupExpired(r) PROVE TypeOK'
  <2> DEFINE q == [req[r] EXCEPT !.at = "login.insert", !.created = now]
  <2>0. req[r] \in Request /\ now \in 0..MaxTime /\ "login.insert" \in Steps
    BY StepNames DEF TypeOK, LoginSteps
  <2>1. q \in Request
    BY <2>0 DEF Request
  <2>2. req' = [req EXCEPT ![r] = q]
    BY <1>3 DEF CleanupExpired
  <2> HIDE DEF q
  <2>3. req' \in [Requests -> Request]
    BY <2>1, <2>2, ReplaceType
  <2>4. session' \in [Sids -> Row]
    BY <1>3, DropRowsType DEF CleanupExpired
  <2> QED BY <2>3, <2>4, <1>3 DEF CleanupExpired, TypeOK
<1>4. ASSUME NEW r \in Requests, NEW s \in Sids, InsertSession(r, s) PROVE TypeOK'
  <2> DEFINE q == [req[r] EXCEPT !.at = "login.enforce", !.sid = s]
             row == [user |-> req[r].user, created |-> req[r].created,
                     expires |-> req[r].created + SessionDuration, iso |-> TRUE]
  <2>0. req[r] \in Request /\ "login.enforce" \in Steps
    BY StepNames DEF TypeOK, LoginSteps
  <2>1. q \in Request
    BY <2>0 DEF Request
  <2>2. req' = [req EXCEPT ![r] = q]
    BY <1>4 DEF InsertSession
  <2>3. row \in Row
    BY DEF TypeOK, Request, Row
  <2>4. session' = [session EXCEPT ![s] = row]
    BY <1>4 DEF InsertSession
  <2>5. req[r].user \in Users
    BY <1>4 DEF InsertSession, Ownership
  <2> HIDE DEF q, row
  <2>6. req' \in [Requests -> Request]
    BY <2>1, <2>2, ReplaceType
  <2>7. session' \in [Sids -> Row]
    BY <2>3, <2>4 DEF TypeOK
  <2>8. /\ req[r].version \in 0..MaxPassword
        /\ origin.revoked[req[r].user] \in 0..MaxPassword
    BY <2>5 DEF TypeOK, Request
  <2>9. origin' \in [owner : [Sids -> Users \cup {NoUser}],
                     credential : [Sids -> 0..MaxPassword],
                     epoch : [Sids -> 0..MaxPassword],
                     revoked : [Users -> 0..MaxPassword]]
    BY <1>4, <2>5, <2>8 DEF InsertSession, TypeOK
  <2> QED BY <2>6, <2>7, <2>9, <1>4 DEF InsertSession, TypeOK
<1>5. ASSUME NEW r \in Requests, NEW kept \in SUBSET Sids, EnforceLimit(r, kept)
      PROVE TypeOK'
  <2>1. "login.tokens" \in Steps
    BY StepNames DEF LoginSteps
  <2> QED BY <2>1, <1>5, GotoType, DropRowsType DEF EnforceLimit, TypeOK
<1>6. ASSUME NEW r \in Requests, GenerateTokens(r) PROVE TypeOK'
  <2>1. [user |-> req[r].user, access |-> now + AccessTtl,
         refresh |-> now + RefreshTtl] \in Token
    BY DEF TypeOK, Request, Token
  <2> QED BY <2>1, <1>6, FinishType DEF GenerateTokens, TypeOK
<1>7. ASSUME NEW r \in Requests, NEW s \in Sids, NEW access \in BOOLEAN,
             NEW refresh \in BOOLEAN, Arrive(r, s, access, refresh)
      PROVE TypeOK'
  <2> DEFINE step == IF access /\ Verifies(tokens[s].access)
                     THEN "access.extend" ELSE "refresh.extend"
             dead == ~Live(s)
             q == [Idle EXCEPT !.at = step, !.user = tokens[s].user, !.sid = s,
                              !.refresh = refresh, !.dead = dead]
  <2>1. step \in Steps
    BY StepNames DEF AccessSteps, RefreshSteps
  <2>2. req' = [req EXCEPT ![r] = q]
    BY <1>7 DEF Arrive
  <2>3. tokens[s].user \in Users \cup {NoUser}
    BY DEF TypeOK, Token
  <2>4. dead \in BOOLEAN
    BY DEF Live, LiveRow
  <2> HIDE DEF step, dead
  <2>5. q \in Request
    BY IdleType, <2>1, <2>3, <2>4 DEF Request
  <2> HIDE DEF q
  <2>6. req' \in [Requests -> Request]
    BY <2>5, <2>2, ReplaceType
  <2> QED BY <2>6, <1>7 DEF Arrive, TypeOK
<1>8. ASSUME NEW r \in Requests, Extend(r) PROVE TypeOK'
  <2>1. req[r].sid \in Sids
    BY <1>8 DEF Extend, ExtendSteps, Ownership, TypeOK
  <2>2. [session[req[r].sid] EXCEPT !.expires = now + SessionDuration,
                                    !.iso = FALSE] \in Row
    <3>1. /\ session[req[r].sid] \in Row
          /\ now + SessionDuration \in 0..(MaxTime + SessionDuration)
      BY <2>1 DEF TypeOK
    <3> QED BY <3>1 DEF Row
  <2>3. session' = [session EXCEPT ![req[r].sid] =
                      [session[req[r].sid] EXCEPT !.expires = now + SessionDuration,
                                                  !.iso = FALSE]]
    BY <1>8 DEF Extend
  <2>4. session' \in [Sids -> Row]
    BY <2>2, <2>3 DEF TypeOK
  <2>5. "access.select" \in Steps /\ "refresh.select" \in Steps
    BY StepNames DEF AccessSteps, RefreshSteps
  <2>6. req' \in [Requests -> Request]
    BY <2>5, <1>8, GotoType DEF Extend
  <2> QED BY <2>4, <2>6, <1>8 DEF Extend, TypeOK
<1>10. ASSUME NEW r \in Requests, SessionMissing(r) PROVE TypeOK'
  BY <1>10, RejectType DEF SessionMissing, TypeOK
<1>11. ASSUME NEW r \in Requests, NEW entry \in EntrySteps, Admit(r, entry) PROVE TypeOK'
  <2>1. entry \in Steps
    BY StepNames DEF EntrySteps, HandlerSteps
  <2>2. req' \in [Requests -> Request]
    BY <2>1, <1>11, GotoType DEF Admit
  <2>3. ASSUME NEW s \in Sids
        PROVE  [tokens[s] EXCEPT !.access = now + AccessTtl] \in Token
    BY DEF TypeOK, Token
  <2>4. tokens' \in [Sids -> Token]
    BY <2>3, <1>11 DEF Admit, TypeOK
  <2> QED BY <2>2, <2>4, <1>11 DEF Admit, TypeOK
<1>12. ASSUME NEW r \in Requests, Me(r) PROVE TypeOK'
  BY <1>12, FinishType DEF Me, TypeOK
<1>14. ASSUME NEW r \in Requests, EndSession(r) PROVE TypeOK'
  <2>1. req[r].sid \in Sids
    BY <1>14 DEF EndSession, Ownership, TypeOK
  <2> QED BY <1>14, <2>1, FinishType, ExpireType DEF EndSession, TypeOK
<1>15. ASSUME NEW r \in Requests, ChangeSelect(r) PROVE TypeOK'
  <2>1. "password.update" \in Steps
    BY StepNames DEF HandlerSteps
  <2> QED BY <1>15, <2>1, GotoType DEF ChangeSelect, TypeOK
<1>16. ASSUME NEW r \in Requests, ChangeUpdate(r) PROVE TypeOK'
  <2> DEFINE q == [req[r] EXCEPT !.at = "password.revoke",
                                !.version = password[req[r].user] + 1]
  <2>1. req[r].user \in Users
    BY <1>16 DEF ChangeUpdate, Ownership
  <2>2. password[req[r].user] + 1 \in 0..MaxPassword
    BY <1>16, <2>1 DEF ChangeUpdate, TypeOK
  <2>3. q \in Request
    <3>1. req[r] \in Request /\ "password.revoke" \in Steps
      BY StepNames DEF TypeOK, HandlerSteps
    <3> QED BY <2>2, <3>1 DEF Request
  <2>4. req' = [req EXCEPT ![r] = q]
    BY <1>16 DEF ChangeUpdate
  <2> HIDE DEF q
  <2>5. req' \in [Requests -> Request]
    BY <2>3, <2>4, ReplaceType
  <2> QED BY <1>16, <2>2, <2>5 DEF ChangeUpdate, TypeOK
<1>17. ASSUME NEW r \in Requests, EndAllSessionsForUser(r) PROVE TypeOK'
  <2>1. LiveOf(req[r].user) \in SUBSET Sids
    BY DEF LiveOf
  <2>2. req[r].version \in 0..MaxPassword
    BY DEF TypeOK, Request
  <2>3. origin' \in [owner : [Sids -> Users \cup {NoUser}],
                     credential : [Sids -> 0..MaxPassword],
                     epoch : [Sids -> 0..MaxPassword],
                     revoked : [Users -> 0..MaxPassword]]
    BY <1>17, <2>2 DEF EndAllSessionsForUser, TypeOK
  <2>4. session' \in [Sids -> Row] /\ req' \in [Requests -> Request]
    BY <1>17, <2>1, FinishType, ExpireType DEF EndAllSessionsForUser
  <2> QED BY <1>17, <2>3, <2>4 DEF EndAllSessionsForUser, TypeOK
<1>18. ASSUME NEW r \in Requests, DbError(r) PROVE TypeOK'
  BY <1>18, RejectType DEF DbError, TypeOK
<1>19. ASSUME NEW r \in Requests, Abort(r) PROVE TypeOK'
  BY <1>19, FinishType DEF Abort, TypeOK
<1>20. ASSUME NEW sids \in OpsScopes, OpsRevoke(sids) PROVE TypeOK'
  <2>1. {s \in sids : Live(s)} \in SUBSET Sids
    BY DEF OpsScopes
  <2>2. session' \in [Sids -> Row]
    BY <1>20, <2>1, ExpireType DEF OpsRevoke
  <2> QED BY <1>20, <2>2 DEF OpsRevoke, TypeOK
<1>21. CASE Tick
  BY <1>21 DEF Tick, TypeOK
<1>22. CASE UNCHANGED vars
  BY <1>22 DEF vars, TypeOK
<1> QED
  BY <1>2, <1>3, <1>4, <1>5, <1>6, <1>7, <1>8, <1>10, <1>11, <1>12, <1>14, <1>15,
     <1>16, <1>17, <1>18, <1>19, <1>20, <1>21, <1>22 DEF Next

(* The only facts about Ownership that a step can disturb are those of the *)
(* request that moves, and of the row or token it writes.                  *)
LEMMA OwnershipStep == TypeOK /\ Ownership /\ [Next]_vars => Ownership'
<1> SUFFICES ASSUME TypeOK, Ownership, [Next]_vars PROVE Ownership'
  OBVIOUS
<1> USE SqlAssumption
<1>1. \A r, q \in Requests : Finish(r) =>
        req'[q] = IF q = r THEN Idle ELSE req[q]
  BY DEF Finish, TypeOK
<1>2. \A r, q \in Requests, step \in Steps : Goto(r, step) =>
        /\ req'[q].at = IF q = r THEN step ELSE req[q].at
        /\ req'[q].user = req[q].user /\ req'[q].sid = req[q].sid
        /\ req'[q].dead = req[q].dead
  BY DEF Goto, TypeOK, Request
<1>3. ASSUME NEW r \in Requests, NEW u \in Users, Authenticate(r, u) PROVE Ownership'
  <2>1. \A q \in Requests : q # r => req'[q] = req[q]
    BY <1>3 DEF Authenticate, TypeOK
  <2>2. req'[r].at = "login.cleanup" /\ req'[r].user = u
    BY <1>3 DEF Authenticate, TypeOK, Idle
  <2> QED BY <1>3, <2>1, <2>2 DEF Authenticate, Ownership, Issued
<1>4. ASSUME NEW r \in Requests, CleanupExpired(r) PROVE Ownership'
  <2>1. \A q \in Requests : q # r => req'[q] = req[q]
    BY <1>4 DEF CleanupExpired, TypeOK
  <2>2. req'[r].at = "login.insert" /\ req'[r].user = req[r].user
    BY <1>4 DEF CleanupExpired, TypeOK, Request
  <2>3. req[r].at = "login.cleanup" /\ UNCHANGED <<known, tokens, origin>>
    BY <1>4 DEF CleanupExpired
  <2>4. \A t \in Sids : session'[t].user \in {NoUser, session[t].user}
    BY <1>4 DEF CleanupExpired, DropRows, NoRow
  <2> QED BY <2>1, <2>2, <2>3, <2>4 DEF Ownership, Issued
<1>5. ASSUME NEW r \in Requests, NEW s \in Sids, InsertSession(r, s) PROVE Ownership'
  <2>1. \A q \in Requests : q # r => req'[q] = req[q]
    BY <1>5 DEF InsertSession, TypeOK
  <2>2. /\ req'[r].at = "login.enforce"
        /\ req'[r].user = req[r].user /\ req'[r].sid = s
    BY <1>5 DEF InsertSession, TypeOK, Request
  <2>3. \A t \in Sids : origin'.owner[t] = IF t = s THEN req[r].user ELSE origin.owner[t]
    BY <1>5 DEF InsertSession, TypeOK
  <2>4. \A t \in Sids : session'[t].user = IF t = s THEN req[r].user ELSE session[t].user
    BY <1>5 DEF InsertSession, TypeOK
  <2>5. s \notin known /\ known' = known \cup {s} /\ tokens' = tokens
    BY <1>5 DEF InsertSession
  <2>6. req[r].at # "idle"
    BY <1>5 DEF InsertSession
  <2> QED BY <2>1, <2>2, <2>3, <2>4, <2>5, <2>6 DEF Ownership, Issued, TypeOK
<1>6. ASSUME NEW r \in Requests, NEW kept \in SUBSET Sids, EnforceLimit(r, kept)
      PROVE Ownership'
  <2>1. "login.tokens" \in Steps
    BY StepNames DEF LoginSteps
  <2> QED BY <2>1, <1>2, <1>6 DEF EnforceLimit, DropRows, NoRow, Ownership, Issued
<1>7. ASSUME NEW r \in Requests, GenerateTokens(r) PROVE Ownership'
  <2>1. \A t \in Sids : tokens'[t].user # tokens[t].user => t = req[r].sid
    BY <1>7 DEF GenerateTokens, TypeOK
  <2>2. req[r].sid \in known
    BY <1>7 DEF GenerateTokens, Ownership
  <2>3. \A t \in Sids : Issued(t)' => t \in known
    BY <2>1, <2>2 DEF Issued, Ownership
  <2> QED BY <1>1, <1>7, <2>3 DEF GenerateTokens, Idle, Ownership
<1>8. ASSUME NEW r \in Requests, NEW s \in Sids, NEW access \in BOOLEAN,
             NEW refresh \in BOOLEAN, Arrive(r, s, access, refresh)
      PROVE Ownership'
  <2>1. \A q \in Requests : q # r => req'[q] = req[q]
    BY <1>8 DEF Arrive, TypeOK
  <2>2. /\ req'[r].at \in {"access.extend", "refresh.extend"}
        /\ req'[r].user = tokens[s].user /\ req'[r].sid = s
    BY <1>8 DEF Arrive, Idle, TypeOK
  <2>3. s \in known /\ tokens[s].user \in Users
    BY <1>8 DEF Arrive, Ownership, Issued, TypeOK, Token
  <2> QED BY <1>8, <2>1, <2>2, <2>3 DEF Arrive, Ownership, Issued
<1>9. ASSUME NEW r \in Requests, Reject(r), UNCHANGED <<session, known, tokens, origin>>,
             req[r].at \in AccessSteps \cup RefreshSteps
      PROVE  Ownership'
  <2>1. "refresh.extend" \in Steps
    BY StepNames DEF RefreshSteps
  <2>2. \/ Goto(r, "refresh.extend")
        \/ Finish(r)
    BY <1>9 DEF Reject
  <2>3. CASE Goto(r, "refresh.extend")
    BY <1>2, <1>9, <2>1, <2>3 DEF Ownership, Issued, AccessSteps, RefreshSteps
  <2>4. CASE Finish(r)
    BY <1>1, <1>9, <2>4 DEF Ownership, Issued, Idle
  <2> QED BY <2>2, <2>3, <2>4
<1>10. ASSUME NEW r \in Requests, Extend(r) PROVE Ownership'
  <2>1. "access.select" \in Steps /\ "refresh.select" \in Steps
    BY StepNames DEF AccessSteps, RefreshSteps
  <2>2. \A t \in Sids : session'[t].user = session[t].user
    BY <1>10 DEF Extend, TypeOK, Row
  <2>3. /\ req[r].at \notin {"idle", "login.cleanup", "login.insert"}
        /\ UNCHANGED <<known, tokens, origin>>
    BY <1>10 DEF Extend, ExtendSteps
  <2>4. PICK step \in {"access.select", "refresh.select"} : Goto(r, step)
    BY <1>10 DEF Extend
  <2>5. \A q \in Requests :
           /\ req'[q].at = IF q = r THEN step ELSE req[q].at
           /\ req'[q].user = req[q].user /\ req'[q].sid = req[q].sid
    BY <1>2, <2>1, <2>4
  <2> QED BY <2>2, <2>3, <2>5 DEF Ownership, Issued
<1>11. ASSUME NEW r \in Requests, SessionMissing(r) PROVE Ownership'
  BY <1>9, <1>11 DEF SessionMissing, ExtendSteps, SelectSteps, AccessSteps, RefreshSteps
<1>12. ASSUME NEW r \in Requests, NEW entry \in EntrySteps, Admit(r, entry)
       PROVE Ownership'
  <2>1. entry \in Steps
    BY StepNames DEF EntrySteps, HandlerSteps
  <2>2. \A t \in Sids : tokens'[t].user = tokens[t].user
    BY <1>12 DEF Admit, TypeOK, Token
  <2>3. req[r].at \notin {"idle", "login.cleanup", "login.insert"}
    BY <1>12 DEF Admit, SelectSteps
  <2>4. entry \notin {"login.enforce", "login.tokens"}
    BY DEF EntrySteps
  <2> QED BY <1>2, <1>12, <2>1, <2>2, <2>3, <2>4 DEF Admit, Ownership, Issued
<1>13. ASSUME NEW r \in Requests, Me(r) PROVE Ownership'
  BY <1>1, <1>13 DEF Me, Ownership, Issued, Idle
<1>14. ASSUME NEW sids \in SUBSET Sids, Expire(sids)
       PROVE  \A t \in Sids : session'[t].user = session[t].user
  <2>1. \A t \in Sids : session[t] \in Row
    BY DEF TypeOK
  <2>2. \A t \in Sids :
           [session[t] EXCEPT !.expires = now, !.iso = FALSE].user = session[t].user
    BY <2>1 DEF Row
  <2> QED BY <1>14, <2>2 DEF Expire
<1>15. ASSUME NEW r \in Requests, EndSession(r) PROVE Ownership'
  <2>1. {req[r].sid} \in SUBSET Sids
    BY <1>15 DEF EndSession, Ownership, TypeOK
  <2> QED BY <1>1, <1>14, <1>15, <2>1 DEF EndSession, Ownership, Issued, Idle
<1>16. ASSUME NEW r \in Requests, ChangeSelect(r) PROVE Ownership'
  <2>1. "password.update" \in Steps
    BY StepNames DEF HandlerSteps
  <2> QED BY <1>2, <1>16, <2>1 DEF ChangeSelect, Ownership, Issued
<1>17. ASSUME NEW r \in Requests, ChangeUpdate(r) PROVE Ownership'
  <2>1. \A q \in Requests : q # r => req'[q] = req[q]
    BY <1>17 DEF ChangeUpdate, TypeOK
  <2>2. /\ req'[r].at = "password.revoke" /\ req[r].at = "password.update"
        /\ req'[r].user = req[r].user /\ req'[r].sid = req[r].sid
    BY <1>17 DEF ChangeUpdate, TypeOK, Request
  <2>3. UNCHANGED <<session, known, tokens, origin>>
    BY <1>17 DEF ChangeUpdate
  <2> QED BY <2>1, <2>2, <2>3 DEF Ownership, Issued
<1>18. ASSUME NEW r \in Requests, EndAllSessionsForUser(r) PROVE Ownership'
  <2>1. LiveOf(req[r].user) \in SUBSET Sids
    BY DEF LiveOf
  <2>2. origin'.owner = origin.owner
    BY <1>18 DEF EndAllSessionsForUser, TypeOK
  <2> QED BY <1>1, <1>14, <1>18, <2>1, <2>2 DEF EndAllSessionsForUser, Ownership, Issued, Idle
<1>19. ASSUME NEW r \in Requests, DbError(r) PROVE Ownership'
  BY <1>9, <1>19 DEF DbError
<1>20. ASSUME NEW r \in Requests, Abort(r) PROVE Ownership'
  BY <1>1, <1>20 DEF Abort, Ownership, Issued, Idle
<1>21. ASSUME NEW sids \in OpsScopes, OpsRevoke(sids) PROVE Ownership'
  <2>1. {s \in sids : Live(s)} \in SUBSET Sids
    BY DEF OpsScopes
  <2> QED BY <1>14, <1>21, <2>1 DEF OpsRevoke, Ownership, Issued
<1>22. CASE Tick
  BY <1>22 DEF Tick, Ownership, Issued
<1>23. CASE UNCHANGED vars
  BY <1>23 DEF vars, Ownership, Issued
<1> QED
  BY <1>3, <1>4, <1>5, <1>6, <1>7, <1>8, <1>10, <1>11, <1>12, <1>13, <1>15, <1>16,
     <1>17, <1>18, <1>19, <1>20, <1>21, <1>22, <1>23 DEF Next

(* Type correctness: what each variable may hold, timestamps included.     *)
THEOREM TypeCorrect == Spec => [](TypeOK /\ Ownership)
<1>1. Init => TypeOK /\ Ownership
  BY InitInv
<1>2. TypeOK /\ Ownership /\ [Next]_vars => (TypeOK /\ Ownership)'
  BY TypeStep, OwnershipStep
<1> QED BY <1>1, <1>2, PTL DEF Spec

-----------------------------------------------------------------------------
(* The heart of the matter: a row that is live after a step was live       *)
(* before it, for the same user, unless the step has just inserted it.     *)
LiveShrinks ==
    \A s \in known : Live(s)' => Live(s) /\ session'[s].user = session[s].user

(* Deleting rows takes sessions away and gives none back.                  *)
LEMMA DropRowsShrinks ==
    ASSUME NEW dropped, DropRows(dropped), now' = now
    PROVE  \A s \in Sids : Live(s)' =>
             Live(s) /\ session'[s].user = session[s].user /\ s \notin dropped
BY DEF DropRows, NoRow, Live, LiveRow, Lapse

(* Nor does expiring rows.                                                 *)
LEMMA ExpireShrinks ==
    ASSUME TypeOK, NEW sids \in SUBSET Sids, Expire(sids), now' = now
    PROVE  \A s \in Sids : Live(s)' =>
             Live(s) /\ session'[s].user = session[s].user /\ s \notin sids
<1> SUFFICES ASSUME NEW s \in Sids, Live(s)'
             PROVE  Live(s) /\ session'[s].user = session[s].user /\ s \notin sids
  OBVIOUS
<1>1. CASE s \in sids /\ session[s].user # NoUser
  <2>1. session'[s] = [session[s] EXCEPT !.expires = now, !.iso = FALSE]
    BY <1>1 DEF Expire
  <2>2. ~session'[s].iso /\ session'[s].expires = now
    BY <2>1 DEF TypeOK, Row
  <2>3. Lapse(session'[s]) = now
    BY <2>2 DEF Lapse
  <2>4. ~(now < now)
    BY SqlAssumption DEF TypeOK
  <2> QED BY <2>3, <2>4 DEF Live, LiveRow
<1>2. CASE ~(s \in sids /\ session[s].user # NoUser)
  <2>1. session'[s] = session[s]
    BY <1>2 DEF Expire
  <2> QED BY <1>2, <2>1 DEF Live, LiveRow, Lapse
<1> QED BY <1>1, <1>2

(* Nor does a step that leaves the table and the clock alone.              *)
LEMMA SameRowsShrink ==
    ASSUME UNCHANGED <<now, session>>
    PROVE  LiveShrinks
BY DEF LiveShrinks, Live, LiveRow, Lapse

(* The heart of finality: no step makes a known session live again.        *)
LEMMA Shrinking == TypeOK /\ Ownership /\ [Next]_vars => LiveShrinks
<1> SUFFICES ASSUME TypeOK, Ownership, [Next]_vars PROVE LiveShrinks
  OBVIOUS
<1> USE SqlAssumption
<1>0. known \subseteq Sids
  BY DEF TypeOK
<1>1. ASSUME NEW r \in Requests, NEW u \in Users, Authenticate(r, u) PROVE LiveShrinks
  BY <1>1, SameRowsShrink DEF Authenticate
<1>2. ASSUME NEW r \in Requests, CleanupExpired(r) PROVE LiveShrinks
  BY <1>0, <1>2, DropRowsShrinks DEF CleanupExpired, LiveShrinks
<1>3. ASSUME NEW r \in Requests, NEW s \in Sids, InsertSession(r, s) PROVE LiveShrinks
  <2>1. \A t \in known : session'[t] = session[t]
    BY <1>0, <1>3 DEF InsertSession, TypeOK
  <2>2. now' = now
    BY <1>3 DEF InsertSession
  <2> QED BY <2>1, <2>2 DEF LiveShrinks, Live, LiveRow, Lapse
<1>4. ASSUME NEW r \in Requests, NEW kept \in SUBSET Sids, EnforceLimit(r, kept)
      PROVE LiveShrinks
  BY <1>0, <1>4, DropRowsShrinks DEF EnforceLimit, LiveShrinks
<1>5. ASSUME NEW r \in Requests, GenerateTokens(r) PROVE LiveShrinks
  BY <1>5, SameRowsShrink DEF GenerateTokens
<1>6. ASSUME NEW r \in Requests, NEW s \in Sids, NEW access \in BOOLEAN,
             NEW refresh \in BOOLEAN, Arrive(r, s, access, refresh)
      PROVE LiveShrinks
  BY <1>6, SameRowsShrink DEF Arrive
<1>7. ASSUME NEW r \in Requests, Extend(r) PROVE LiveShrinks
  <2>1. /\ Live(req[r].sid) /\ now' = now
        /\ session' = [session EXCEPT ![req[r].sid].expires = now + SessionDuration,
                                      ![req[r].sid].iso = FALSE]
    BY <1>7 DEF Extend
  <2>2. \A t \in Sids : t # req[r].sid => session'[t] = session[t]
    BY <2>1 DEF TypeOK
  <2>3. \A t \in Sids : session'[t].user = session[t].user
    BY <2>1 DEF TypeOK, Row
  <2> QED BY <1>0, <2>1, <2>2, <2>3 DEF LiveShrinks, Live, LiveRow, Lapse
<1>8. ASSUME NEW r \in Requests, SessionMissing(r) PROVE LiveShrinks
  BY <1>8, SameRowsShrink DEF SessionMissing
<1>9. ASSUME NEW r \in Requests, NEW entry \in EntrySteps, Admit(r, entry)
      PROVE LiveShrinks
  BY <1>9, SameRowsShrink DEF Admit
<1>10. ASSUME NEW r \in Requests,
              Me(r) \/ ChangeSelect(r) \/ ChangeUpdate(r) \/ DbError(r) \/ Abort(r)
       PROVE LiveShrinks
  BY <1>10, SameRowsShrink DEF Me, ChangeSelect, ChangeUpdate, DbError, Abort
<1>11. ASSUME NEW r \in Requests, EndSession(r) PROVE LiveShrinks
  <2>1. {req[r].sid} \in SUBSET Sids
    BY <1>11 DEF EndSession, Ownership, TypeOK
  <2> QED BY <1>0, <1>11, <2>1, ExpireShrinks DEF EndSession, LiveShrinks
<1>12. ASSUME NEW r \in Requests, EndAllSessionsForUser(r) PROVE LiveShrinks
  <2>1. LiveOf(req[r].user) \in SUBSET Sids
    BY DEF LiveOf
  <2> QED BY <1>0, <1>12, <2>1, ExpireShrinks DEF EndAllSessionsForUser, LiveShrinks
<1>13. ASSUME NEW sids \in OpsScopes, OpsRevoke(sids) PROVE LiveShrinks
  <2>1. {s \in sids : Live(s)} \in SUBSET Sids
    BY DEF OpsScopes
  <2> QED BY <1>0, <1>13, <2>1, ExpireShrinks DEF OpsRevoke, LiveShrinks
<1>14. CASE Tick
  <2>1. \A s \in Sids : Lapse(session[s]) \in Nat
    BY LapseNat DEF TypeOK
  <2>2. now' = now + 1 /\ session' = session /\ now \in Nat
    BY <1>14 DEF Tick, TypeOK
  <2>3. \A s \in Sids : now' < Lapse(session[s]) => now < Lapse(session[s])
    BY <2>1, <2>2
  <2>4. \A s \in Sids : Lapse(session[s])' = Lapse(session[s])
    BY <2>2 DEF Lapse
  <2> QED BY <1>0, <2>2, <2>3, <2>4 DEF LiveShrinks, Live, LiveRow
<1>15. CASE UNCHANGED vars
  BY <1>15, SameRowsShrink DEF vars
<1> QED
  BY <1>1, <1>2, <1>3, <1>4, <1>5, <1>6, <1>7, <1>8, <1>9, <1>10, <1>11, <1>12,
     <1>13, <1>14, <1>15 DEF Next

(* A session that lapsed, was logged out, revoked or evicted stays dead,   *)
(* through every later step of every request: RevocationIsFinal.           *)
THEOREM Finality == Spec => RevocationIsFinal
<1>1. TypeOK /\ Ownership /\ [Next]_vars
        => [\A s \in known : ~Live(s) => ~Live(s)']_vars
  BY Shrinking DEF LiveShrinks
<1> QED BY <1>1, TypeCorrect, PTL DEF Spec, RevocationIsFinal

-----------------------------------------------------------------------------
(* The limit.                                                              *)

HeldOf(u) == LiveOf(u) \cap Held

(* A session somebody holds tokens for was inserted once.                  *)
LEMMA HeldKnown == Ownership => Held \cap Sids \subseteq known
BY DEF Ownership, Held, Issued

(* Only passing enforceSessionLimit makes a session held.                  *)
LEMMA HeldGrows ==
    ASSUME TypeOK, Ownership, [Next]_vars,
           \A r \in Requests, kept \in SUBSET Sids : ~EnforceLimit(r, kept)
    PROVE  Held' \subseteq Held
<1> USE SqlAssumption
<1>1. ASSUME NEW r \in Requests, tokens' = tokens,
             \A q \in Requests : q # r => req'[q] = req[q],
             req'[r].at # "login.tokens"
      PROVE  Held' \subseteq Held
  BY <1>1 DEF Held, Issued
<1>2. ASSUME NEW r \in Requests, NEW step \in Steps, Goto(r, step), tokens' = tokens,
             step # "login.tokens"
      PROVE  Held' \subseteq Held
  <2>1. (\A q \in Requests : q # r => req'[q] = req[q]) /\ req'[r].at = step
    BY <1>2 DEF Goto, TypeOK, Request
  <2> QED BY <1>1, <1>2, <2>1
<1>3. ASSUME NEW r \in Requests, Finish(r), tokens' = tokens PROVE Held' \subseteq Held
  <2>1. (\A q \in Requests : q # r => req'[q] = req[q]) /\ req'[r] = Idle
    BY <1>3 DEF Finish, TypeOK
  <2>2. Idle.at # "login.tokens"
    BY DEF Idle
  <2> QED BY <1>1, <1>3, <2>1, <2>2
<1>4. ASSUME NEW r \in Requests, NEW u \in Users, Authenticate(r, u)
      PROVE  Held' \subseteq Held
  <2>1. (\A q \in Requests : q # r => req'[q] = req[q]) /\ req'[r].at = "login.cleanup"
    BY <1>4 DEF Authenticate, TypeOK, Idle
  <2> QED BY <1>1, <1>4, <2>1 DEF Authenticate
<1>5. ASSUME NEW r \in Requests, CleanupExpired(r) PROVE Held' \subseteq Held
  <2>1. (\A q \in Requests : q # r => req'[q] = req[q]) /\ req'[r].at = "login.insert"
    BY <1>5 DEF CleanupExpired, TypeOK, Request
  <2> QED BY <1>1, <1>5, <2>1 DEF CleanupExpired
<1>6. ASSUME NEW r \in Requests, NEW s \in Sids, InsertSession(r, s)
      PROVE  Held' \subseteq Held
  <2>1. (\A q \in Requests : q # r => req'[q] = req[q]) /\ req'[r].at = "login.enforce"
    BY <1>6 DEF InsertSession, TypeOK, Request
  <2> QED BY <1>1, <1>6, <2>1 DEF InsertSession
<1>7. ASSUME NEW r \in Requests, GenerateTokens(r) PROVE Held' \subseteq Held
  <2>1. (\A q \in Requests : q # r => req'[q] = req[q]) /\ req'[r] = Idle
    BY <1>7 DEF GenerateTokens, Finish, TypeOK
  <2>2. \A t \in Sids : tokens'[t] # tokens[t] => t = req[r].sid
    BY <1>7 DEF GenerateTokens, TypeOK
  <2>3. req[r].at = "login.tokens"
    BY <1>7 DEF GenerateTokens
  <2>4. Idle.at # "login.tokens"
    BY DEF Idle
  <2> QED BY <2>1, <2>2, <2>3, <2>4 DEF Held, Issued
<1>8. ASSUME NEW r \in Requests, NEW s \in Sids, NEW access \in BOOLEAN,
             NEW refresh \in BOOLEAN, Arrive(r, s, access, refresh)
      PROVE  Held' \subseteq Held
  <2>1. /\ \A q \in Requests : q # r => req'[q] = req[q]
        /\ req'[r].at \in {"access.extend", "refresh.extend"}
    BY <1>8 DEF Arrive, Idle, TypeOK
  <2> QED BY <1>1, <1>8, <2>1 DEF Arrive
<1>9. ASSUME NEW r \in Requests, Extend(r) PROVE Held' \subseteq Held
  <2>1. PICK step \in {"access.select", "refresh.select"} : Goto(r, step)
    BY <1>9 DEF Extend
  <2>2. step \in Steps /\ step # "login.tokens"
    BY StepNames DEF AccessSteps, RefreshSteps
  <2> QED BY <1>2, <1>9, <2>1, <2>2 DEF Extend
<1>10. ASSUME NEW r \in Requests, Reject(r), tokens' = tokens PROVE Held' \subseteq Held
  <2>1. "refresh.extend" \in Steps
    BY StepNames DEF RefreshSteps
  <2> QED BY <1>2, <1>3, <1>10, <2>1 DEF Reject
<1>11. ASSUME NEW r \in Requests, SessionMissing(r) \/ DbError(r) PROVE Held' \subseteq Held
  BY <1>10, <1>11 DEF SessionMissing, DbError
<1>12. ASSUME NEW r \in Requests, NEW entry \in EntrySteps, Admit(r, entry)
       PROVE  Held' \subseteq Held
  <2>1. (\A q \in Requests : q # r => req'[q] = req[q]) /\ req'[r].at = entry
    BY <1>12 DEF Admit, Goto, TypeOK, Request
  <2>2. \A t \in Sids : tokens'[t].user = tokens[t].user
    BY <1>12 DEF Admit, TypeOK, Token
  <2>3. entry # "login.tokens"
    BY DEF EntrySteps
  <2> QED BY <2>1, <2>2, <2>3 DEF Held, Issued
<1>13. ASSUME NEW r \in Requests,
              Me(r) \/ EndSession(r) \/ EndAllSessionsForUser(r) \/ Abort(r)
       PROVE  Held' \subseteq Held
  BY <1>3, <1>13 DEF Me, EndSession, EndAllSessionsForUser, Abort
<1>14. ASSUME NEW r \in Requests, ChangeSelect(r) PROVE Held' \subseteq Held
  <2>1. "password.update" \in Steps
    BY StepNames DEF HandlerSteps
  <2> QED BY <1>2, <1>14, <2>1 DEF ChangeSelect
<1>15. ASSUME NEW r \in Requests, ChangeUpdate(r) PROVE Held' \subseteq Held
  <2>1. (\A q \in Requests : q # r => req'[q] = req[q]) /\ req'[r].at = "password.revoke"
    BY <1>15 DEF ChangeUpdate, TypeOK, Request
  <2> QED BY <1>1, <1>15, <2>1 DEF ChangeUpdate
<1>16. ASSUME NEW sids \in OpsScopes, OpsRevoke(sids) PROVE Held' \subseteq Held
  BY <1>16 DEF OpsRevoke, Held, Issued
<1>17. CASE Tick
  BY <1>17 DEF Tick, Held, Issued
<1>18. CASE UNCHANGED vars
  BY <1>18 DEF vars, Held, Issued
<1> QED
  BY <1>4, <1>5, <1>6, <1>7, <1>8, <1>9, <1>11, <1>12, <1>13, <1>14, <1>15, <1>16,
     <1>17, <1>18 DEF Next

(* No step takes a user past the limit on held, live sessions.             *)
LEMMA LimitStep ==
    TypeOK /\ Ownership /\ HeldWithinLimit /\ [Next]_vars => HeldWithinLimit'
<1> SUFFICES ASSUME TypeOK, Ownership, HeldWithinLimit, [Next]_vars, NEW v \in Users
             PROVE  Cardinality(HeldOf(v)') <= MaxSessions
  BY DEF HeldWithinLimit, HeldOf
<1> USE SqlAssumption
<1>1. Ownership' /\ LiveShrinks
  BY OwnershipStep, Shrinking
<1>2. \A u \in Users : IsFiniteSet(HeldOf(u)) /\ Cardinality(HeldOf(u)) \in Nat
  <2>1. \A u \in Users : HeldOf(u) \subseteq Sids
    BY DEF HeldOf, LiveOf
  <2> QED BY <2>1, FS_Subset, FS_CardinalityType
<1>3. ASSUME HeldOf(v)' \subseteq HeldOf(v)
      PROVE  Cardinality(HeldOf(v)') <= MaxSessions
  <2>1. Cardinality(HeldOf(v)') <= Cardinality(HeldOf(v)) /\ Cardinality(HeldOf(v)') \in Nat
    BY <1>2, <1>3, FS_Subset, FS_CardinalityType
  <2>2. Cardinality(HeldOf(v)) <= MaxSessions
    BY DEF HeldWithinLimit, HeldOf
  <2> QED BY <1>2, <2>1, <2>2
<1>4. CASE \A r \in Requests, kept \in SUBSET Sids : ~EnforceLimit(r, kept)
  <2>1. Held' \subseteq Held
    BY <1>4, HeldGrows
  <2>2. HeldOf(v)' \subseteq HeldOf(v)
    BY <1>1, <2>1, HeldKnown DEF HeldOf, LiveOf, LiveShrinks
  <2> QED BY <1>3, <2>2
<1>5. CASE \E r \in Requests, kept \in SUBSET Sids : EnforceLimit(r, kept)
  <2>1. PICK r \in Requests, kept \in SUBSET Sids : EnforceLimit(r, kept)
    BY <1>5
  <2> DEFINE u == req[r].user
  <2>2. \A s \in Sids : Live(s)' =>
          Live(s) /\ session'[s].user = session[s].user /\ s \notin LiveOf(u) \ kept
    BY <2>1, DropRowsShrinks DEF EnforceLimit
  <2>3. CASE v = u
    <3>1. HeldOf(v)' \subseteq kept
      BY <2>2, <2>3 DEF HeldOf, LiveOf
    <3>2. IsFiniteSet(kept) /\ Cardinality(kept) \in Nat
      BY FS_Subset, FS_CardinalityType
    <3>3. Cardinality(kept) <= MaxSessions
      BY <2>1, <3>2 DEF EnforceLimit, Keeps
    <3>4. Cardinality(HeldOf(v)') <= Cardinality(kept) /\ Cardinality(HeldOf(v)') \in Nat
      BY <3>1, <3>2, FS_Subset, FS_CardinalityType
    <3> QED BY <3>2, <3>3, <3>4
  <2>4. CASE v # u
    <3>1. \A q \in Requests : q # r => req'[q] = req[q]
      BY <2>1 DEF EnforceLimit, Goto, TypeOK
    <3>2. req'[r].sid = req[r].sid /\ tokens' = tokens
      BY <2>1 DEF EnforceLimit, Goto, TypeOK, Request
    <3>3. Held' \subseteq Held \cup {req[r].sid}
      BY <3>1, <3>2 DEF Held, Issued
    <3>4. session[req[r].sid].user \in {u, NoUser}
      BY <2>1 DEF EnforceLimit, Ownership, TypeOK
    <3>5. req[r].sid \notin HeldOf(v)'
      BY <2>2, <2>4, <3>4 DEF HeldOf, LiveOf
    <3>6. HeldOf(v)' \subseteq HeldOf(v)
      BY <2>2, <3>3, <3>5 DEF HeldOf, LiveOf
    <3> QED BY <1>3, <3>6
  <2> QED BY <2>3, <2>4
<1> QED BY <1>4, <1>5

(* No interleaving of logins, and no failure between the INSERT and the    *)
(* enforcement, leaves a user more than MaxSessions usable sessions.       *)
THEOREM Limit == Spec => []HeldWithinLimit
<1>1. Init => HeldWithinLimit
  <2> SUFFICES ASSUME Init, NEW u \in Users
               PROVE  Cardinality(LiveOf(u) \cap Held) <= MaxSessions
    BY DEF HeldWithinLimit
  <2>1. LiveOf(u) \cap Held = {}
    BY DEF Init, LiveOf, Live, LiveRow, NoRow
  <2> QED BY <2>1, FS_EmptySet, SqlAssumption
<1> QED BY <1>1, LimitStep, TypeCorrect, PTL DEF Spec

-----------------------------------------------------------------------------
(* Admission.                                                              *)

(* No step takes a request whose session is dead past extendSession.       *)
LEMMA DeadStep ==
    TypeOK /\ Ownership /\ DeadIsStopped /\ [Next]_vars => DeadIsStopped'
<1> SUFFICES ASSUME TypeOK, Ownership, DeadIsStopped, [Next]_vars PROVE DeadIsStopped'
  OBVIOUS
<1> USE SqlAssumption
<1> DEFINE Ok(q) == q.dead /\ q.at \notin {"idle"} \cup LoginSteps
                    => q.at \in ExtendSteps /\ ~Live(q.sid)
           Stays(r) == /\ req'[r].dead = req[r].dead /\ req'[r].sid = req[r].sid
                       /\ req[r].at \notin {"idle"} \cup LoginSteps
(* A request that stays put stays stopped, for its session stays dead.     *)
<1>1. ASSUME NEW r \in Requests, req'[r] = req[r]
      PROVE  Ok(req[r])'
  <2>1. req[r].at \in ExtendSteps => req[r].sid \in known
    BY DEF Ownership, ExtendSteps
  <2>2. Ok(req[r])
    BY DEF DeadIsStopped
  <2> QED BY <1>1, <2>1, <2>2, Shrinking DEF LiveShrinks
<1>2. ASSUME NEW r \in Requests,
             \A q \in Requests : q # r => req'[q] = req[q],
             Ok(req[r])'
      PROVE  DeadIsStopped'
  BY <1>1, <1>2 DEF DeadIsStopped
<1>3. ASSUME NEW r \in Requests, Finish(r) PROVE DeadIsStopped'
  <2>1. (\A q \in Requests : q # r => req'[q] = req[q]) /\ req'[r].at = "idle"
    BY <1>3 DEF Finish, TypeOK, Idle
  <2> QED BY <1>2, <2>1
<1>4. ASSUME NEW r \in Requests, NEW step \in Steps, Goto(r, step),
             step \in LoginSteps
      PROVE  DeadIsStopped'
  <2>1. (\A q \in Requests : q # r => req'[q] = req[q]) /\ req'[r].at = step
    BY <1>4 DEF Goto, TypeOK, Request
  <2> QED BY <1>2, <1>4, <2>1
(* Wherever the code goes on, the request was not a dead session's.        *)
<1>5. ASSUME NEW r \in Requests, NEW step \in Steps, Goto(r, step), ~req[r].dead
      PROVE  DeadIsStopped'
  <2>1. (\A q \in Requests : q # r => req'[q] = req[q]) /\ ~req'[r].dead
    BY <1>5 DEF Goto, TypeOK, Request
  <2> QED BY <1>2, <2>1
<1>6. ASSUME NEW r \in Requests, NEW u \in Users, Authenticate(r, u) PROVE DeadIsStopped'
  <2>1. (\A q \in Requests : q # r => req'[q] = req[q]) /\ req'[r].at = "login.cleanup"
    BY <1>6 DEF Authenticate, TypeOK, Idle
  <2> QED BY <1>2, <2>1 DEF LoginSteps
<1>7. ASSUME NEW r \in Requests, CleanupExpired(r) PROVE DeadIsStopped'
  <2>1. (\A q \in Requests : q # r => req'[q] = req[q]) /\ req'[r].at = "login.insert"
    BY <1>7 DEF CleanupExpired, TypeOK, Request
  <2> QED BY <1>2, <2>1 DEF LoginSteps
<1>8. ASSUME NEW r \in Requests, NEW s \in Sids, InsertSession(r, s) PROVE DeadIsStopped'
  <2>1. (\A q \in Requests : q # r => req'[q] = req[q]) /\ req'[r].at = "login.enforce"
    BY <1>8 DEF InsertSession, TypeOK, Request
  <2> QED BY <1>2, <2>1 DEF LoginSteps
<1>9. ASSUME NEW r \in Requests, NEW kept \in SUBSET Sids, EnforceLimit(r, kept)
      PROVE DeadIsStopped'
  BY <1>4, <1>9, StepNames DEF EnforceLimit, LoginSteps
<1>10. ASSUME NEW r \in Requests, GenerateTokens(r) PROVE DeadIsStopped'
  BY <1>3, <1>10 DEF GenerateTokens
<1>11. ASSUME NEW r \in Requests, NEW s \in Sids, NEW access \in BOOLEAN,
              NEW refresh \in BOOLEAN, Arrive(r, s, access, refresh)
       PROVE DeadIsStopped'
  <2>1. /\ \A q \in Requests : q # r => req'[q] = req[q]
        /\ req'[r].at \in ExtendSteps
        /\ req'[r].dead = ~Live(s) /\ req'[r].sid = s
    BY <1>11 DEF Arrive, Idle, TypeOK, ExtendSteps
  <2>2. UNCHANGED <<now, session>>
    BY <1>11 DEF Arrive
  <2>3. Live(s)' = Live(s)
    BY <2>2 DEF Live, LiveRow, Lapse
  <2>4. Ok(req[r])'
    BY <2>1, <2>3
  <2> QED BY <1>2, <2>1, <2>4
<1>12. ASSUME NEW r \in Requests, Extend(r) PROVE DeadIsStopped'
  <2>1. ~req[r].dead
    BY <1>12 DEF Extend, DeadIsStopped, ExtendSteps, LoginSteps
  <2>2. PICK step \in {"access.select", "refresh.select"} : Goto(r, step)
    BY <1>12 DEF Extend
  <2>3. step \in Steps
    BY StepNames DEF AccessSteps, RefreshSteps
  <2> QED BY <1>5, <2>1, <2>2, <2>3
<1>13. ASSUME NEW r \in Requests, Reject(r), UNCHANGED <<now, session>>
       PROVE DeadIsStopped'
  <2>1. CASE Finish(r)
    BY <1>3, <2>1
  <2>2. CASE req[r].at \in AccessSteps /\ Goto(r, "refresh.extend")
    <3>1. /\ \A q \in Requests : q # r => req'[q] = req[q]
          /\ req'[r].at = "refresh.extend"
          /\ req'[r].dead = req[r].dead /\ req'[r].sid = req[r].sid
      BY <2>2 DEF Goto, TypeOK, Request
    <3>2. Live(req[r].sid)' = Live(req[r].sid)
      BY <1>13, <3>1 DEF Live, LiveRow, Lapse
    <3>3. req[r].dead => ~Live(req[r].sid)
      BY <2>2 DEF DeadIsStopped, AccessSteps, LoginSteps
    <3>4. Ok(req[r])'
      BY <3>1, <3>2, <3>3 DEF ExtendSteps
    <3> QED BY <1>2, <3>1, <3>4
  <2> QED BY <1>13, <2>1, <2>2 DEF Reject
<1>14. ASSUME NEW r \in Requests, SessionMissing(r) \/ DbError(r) PROVE DeadIsStopped'
  BY <1>13, <1>14 DEF SessionMissing, DbError
<1>15. ASSUME NEW r \in Requests, NEW entry \in EntrySteps, Admit(r, entry)
       PROVE DeadIsStopped'
  <2>1. ~req[r].dead
    BY <1>15 DEF Admit, DeadIsStopped, SelectSteps, ExtendSteps, LoginSteps
  <2>2. entry \in Steps
    BY StepNames DEF EntrySteps, HandlerSteps
  <2> QED BY <1>5, <1>15, <2>1, <2>2 DEF Admit
<1>16. ASSUME NEW r \in Requests,
              Me(r) \/ EndSession(r) \/ EndAllSessionsForUser(r) \/ Abort(r)
       PROVE DeadIsStopped'
  BY <1>3, <1>16 DEF Me, EndSession, EndAllSessionsForUser, Abort
<1>17. ASSUME NEW r \in Requests, ChangeSelect(r) PROVE DeadIsStopped'
  <2>1. ~req[r].dead
    BY <1>17 DEF ChangeSelect, DeadIsStopped, ExtendSteps, LoginSteps
  <2>2. "password.update" \in Steps
    BY StepNames DEF HandlerSteps
  <2> QED BY <1>5, <1>17, <2>1, <2>2 DEF ChangeSelect
<1>18. ASSUME NEW r \in Requests, ChangeUpdate(r) PROVE DeadIsStopped'
  <2>1. ~req[r].dead
    BY <1>18 DEF ChangeUpdate, DeadIsStopped, ExtendSteps, LoginSteps
  <2>2. (\A q \in Requests : q # r => req'[q] = req[q]) /\ req'[r].dead = req[r].dead
    BY <1>18 DEF ChangeUpdate, TypeOK, Request
  <2> QED BY <1>2, <2>1, <2>2
<1>19. ASSUME NEW sids \in OpsScopes, OpsRevoke(sids) PROVE DeadIsStopped'
  BY <1>1, <1>19 DEF OpsRevoke, DeadIsStopped
<1>20. CASE Tick
  BY <1>1, <1>20 DEF Tick, DeadIsStopped
<1>21. CASE UNCHANGED vars
  BY <1>1, <1>21 DEF vars, DeadIsStopped
<1> QED
  BY <1>6, <1>7, <1>8, <1>9, <1>10, <1>11, <1>12, <1>14, <1>15, <1>16, <1>17, <1>18,
     <1>19, <1>20, <1>21 DEF Next

(* A session dead on arrival reaches no handler, whatever happens between  *)
(* the statements of requireAuth.                                          *)
THEOREM Admission == Spec => []DeadNeverAdmitted
<1>1. Init => DeadIsStopped
  BY DEF Init, DeadIsStopped, Idle
<1>2. TypeOK /\ DeadIsStopped => DeadNeverAdmitted
  BY DEF DeadIsStopped, DeadNeverAdmitted, HandlerSteps, ExtendSteps, LoginSteps
<1> QED BY <1>1, <1>2, DeadStep, TypeCorrect, PTL DEF Spec

-----------------------------------------------------------------------------
(* Revoke-all.                                                             *)

(* No step leaves a session live that a completed revoke-all preceded.     *)
LEMMA RevokeAllStep ==
    TypeOK /\ Ownership /\ LiveBornAfterRevokeAll /\ [Next]_vars
      => LiveBornAfterRevokeAll'
<1> SUFFICES ASSUME TypeOK, Ownership, LiveBornAfterRevokeAll, [Next]_vars,
                    NEW s \in Sids, Live(s)'
             PROVE  origin'.epoch[s] = origin'.revoked[session'[s].user]
  BY DEF LiveBornAfterRevokeAll
<1> USE SqlAssumption
<1>1. LiveShrinks /\ Ownership'
  BY Shrinking, OwnershipStep
<1>2. s \in known'
  BY <1>1 DEF Ownership, Live, LiveRow
<1>3. CASE UNCHANGED <<known, origin>>
  BY <1>1, <1>2, <1>3 DEF LiveShrinks, LiveBornAfterRevokeAll
<1>4. ASSUME NEW r \in Requests, NEW t \in Sids, InsertSession(r, t)
      PROVE  origin'.epoch[s] = origin'.revoked[session'[s].user]
  <2>1. /\ origin'.revoked = origin.revoked
        /\ origin'.epoch = [origin.epoch EXCEPT ![t] = origin.revoked[req[r].user]]
    BY <1>4 DEF InsertSession, TypeOK
  <2>2. CASE s = t
    <3>1. session'[t].user = req[r].user
      BY <1>4 DEF InsertSession, TypeOK
    <3> QED BY <2>1, <2>2, <3>1 DEF TypeOK
  <2>3. CASE s # t
    <3>1. s \in known
      BY <1>2, <1>4, <2>3 DEF InsertSession
    <3> QED BY <1>1, <2>1, <2>3, <3>1 DEF LiveShrinks, LiveBornAfterRevokeAll, TypeOK
  <2> QED BY <2>2, <2>3
<1>5. ASSUME NEW r \in Requests, EndAllSessionsForUser(r)
      PROVE  origin'.epoch[s] = origin'.revoked[session'[s].user]
  <2>1. /\ origin'.epoch = origin.epoch
        /\ \A v \in Users : v # req[r].user => origin'.revoked[v] = origin.revoked[v]
    BY <1>5 DEF EndAllSessionsForUser, TypeOK
  <2>2. LiveOf(req[r].user) \in SUBSET Sids
    BY DEF LiveOf
  <2>3. /\ Live(s) /\ session'[s].user = session[s].user
        /\ s \notin LiveOf(req[r].user)
    BY <1>5, <2>2, ExpireShrinks DEF EndAllSessionsForUser
  <2>4. session[s].user \in Users /\ session[s].user # req[r].user
    BY <2>3 DEF LiveOf, Live, LiveRow, TypeOK, Row
  <2> QED BY <2>1, <2>3, <2>4 DEF LiveBornAfterRevokeAll
<1> QED
  BY <1>3, <1>4, <1>5
  DEF Next, vars, Authenticate, CleanupExpired, EnforceLimit, GenerateTokens, Arrive,
      Extend, SessionMissing, Admit, Me, EndSession, ChangeSelect, ChangeUpdate,
      DbError, Abort, OpsRevoke, Tick

(* A completed password change leaves no session that existed when its     *)
(* revoke-all statement ran, on any interleaving.                          *)
THEOREM RevokeAll == Spec => []LiveBornAfterRevokeAll
<1>1. Init => LiveBornAfterRevokeAll
  BY DEF Init, LiveBornAfterRevokeAll, Live, LiveRow, NoRow
<1> QED BY <1>1, RevokeAllStep, TypeCorrect, PTL DEF Spec

-----------------------------------------------------------------------------
(* How long a row can outlive its expires_at.                              *)

(* Only createSession writes the ISO form, with the expiry it computes.    *)
IsoUntouched ==
    \A s \in Sids :
        session[s].iso => session[s].expires = session[s].created + SessionDuration

(* The end of the UTC day an instant falls in is at most a day away.       *)
LEMMA DayEnd ==
    ASSUME NEW e \in Nat
    PROVE  (e \div DayLength + 1) * DayLength <= e + DayLength
<1> DEFINE q == e \div DayLength
<1>1. q \in Nat /\ q * DayLength <= e /\ DayLength \in Nat
  BY SqlAssumption
<1> HIDE DEF q
<1>2. (q + 1) * DayLength = q * DayLength + DayLength
  BY <1>1
<1> QED BY <1>1, <1>2 DEF q

LEMMA IsoStep == TypeOK /\ IsoUntouched /\ [Next]_vars => IsoUntouched'
<1> SUFFICES ASSUME TypeOK, IsoUntouched, [Next]_vars PROVE IsoUntouched'
  OBVIOUS
<1>1. ASSUME UNCHANGED session PROVE IsoUntouched'
  BY <1>1 DEF IsoUntouched
<1>2. ASSUME NEW dropped, DropRows(dropped) PROVE IsoUntouched'
  <2>1. \A s \in Sids : session'[s] = NoRow \/ session'[s] = session[s]
    BY <1>2 DEF DropRows
  <2>2. ~NoRow.iso
    BY DEF NoRow
  <2> QED BY <2>1, <2>2 DEF IsoUntouched
<1>3. ASSUME NEW sids, Expire(sids) PROVE IsoUntouched'
  <2>1. \A s \in Sids : ~session'[s].iso \/ session'[s] = session[s]
    BY <1>3 DEF Expire, TypeOK, Row
  <2> QED BY <2>1 DEF IsoUntouched
<1>4. ASSUME NEW r \in Requests, NEW s \in Sids, InsertSession(r, s) PROVE IsoUntouched'
  <2> DEFINE row == [user |-> req[r].user, created |-> req[r].created,
                     expires |-> req[r].created + SessionDuration, iso |-> TRUE]
  <2>1. session' = [session EXCEPT ![s] = row] /\ row.expires = row.created + SessionDuration
    BY <1>4 DEF InsertSession
  <2> HIDE DEF row
  <2> QED BY <2>1 DEF IsoUntouched, TypeOK
<1>5. ASSUME NEW r \in Requests, Extend(r) PROVE IsoUntouched'
  <2>1. \A t \in Sids : ~session'[t].iso \/ session'[t] = session[t]
    BY <1>5 DEF Extend, TypeOK, Row
  <2> QED BY <2>1 DEF IsoUntouched
<1>6. CASE \E r \in Requests :
             CleanupExpired(r) \/ \E kept \in SUBSET Sids : EnforceLimit(r, kept)
  BY <1>2, <1>6 DEF CleanupExpired, EnforceLimit
<1>7. CASE \/ \E r \in Requests : EndSession(r) \/ EndAllSessionsForUser(r)
           \/ \E sids \in OpsScopes : OpsRevoke(sids)
  BY <1>3, <1>7 DEF EndSession, EndAllSessionsForUser, OpsRevoke
<1>8. CASE UNCHANGED session
  BY <1>1, <1>8
<1> QED
  BY <1>4, <1>5, <1>6, <1>7, <1>8
  DEF Next, vars, Authenticate, GenerateTokens, Arrive, SessionMissing, Admit, Me,
      ChangeSelect, ChangeUpdate, DbError, Abort, Tick

(* The text comparison never lets a session that was used, ended or revoked*)
(* live on, and one that never was by less than a day: OverstaysOnlyUnused.*)
THEOREM Overstays == Spec => []OverstaysOnlyUnused
<1>1. Init => IsoUntouched
  BY DEF Init, IsoUntouched, NoRow
<1>2. TypeOK /\ IsoUntouched => OverstaysOnlyUnused
  <2> SUFFICES ASSUME TypeOK, IsoUntouched, NEW s \in Sids,
                      Live(s), now >= session[s].expires
               PROVE  /\ session[s].expires = session[s].created + SessionDuration
                      /\ now < session[s].expires + DayLength
    BY DEF OverstaysOnlyUnused
  <2>1. session[s] \in Row /\ session[s].expires \in Nat /\ now \in Nat
    BY SqlAssumption DEF TypeOK, Row
  <2>2. now < Lapse(session[s]) /\ Lapse(session[s]) \in Nat
    BY <2>1, LapseNat DEF Live, LiveRow
  <2>3. session[s].iso
    BY <2>1, <2>2 DEF Lapse
  <2>4. Lapse(session[s]) <= session[s].expires + DayLength
    BY <2>1, <2>3, DayEnd DEF Lapse
  <2> QED BY <2>1, <2>2, <2>3, <2>4, SqlAssumption DEF IsoUntouched
<1> QED BY <1>1, <1>2, IsoStep, TypeCorrect, PTL DEF Spec

-----------------------------------------------------------------------------
(* SqlSessions implements SessionRegistry: a step of a handler opens a     *)
(* session (InsertSession), settles it (EnforceLimit), forfeits it (Abort),*)
(* ends sessions, or is invisible to the registry.                         *)

RegistryStep == [Registry!RegistryNext]_(Registry!registryVars)

(* Every step but InsertSession leaves the opened sessions as they are.    *)
LEMMA OpenedKept ==
    ASSUME TypeOK, [Next]_vars,
           \A r \in Requests, s \in Sids : ~InsertSession(r, s)
    PROVE  known' = known /\ origin'.owner = origin.owner
<1>1. ASSUME NEW r \in Requests, EndAllSessionsForUser(r)
      PROVE  known' = known /\ origin'.owner = origin.owner
  BY <1>1 DEF EndAllSessionsForUser, TypeOK
<1> QED
  BY <1>1 DEF Next, vars, Authenticate, CleanupExpired, EnforceLimit, GenerateTokens,
     Arrive, Extend, SessionMissing, Admit, Me, EndSession, ChangeSelect, ChangeUpdate,
     DbError, Abort, OpsRevoke, Tick

(* Without an insertion the registry sees sessions die, or nothing.        *)
LEMMA SessionsOnlyDie ==
    ASSUME TypeOK, LiveShrinks, known' = known
    PROVE  Registry!OnlyDie(Sids)
<1>1. life' \in [Sids -> {"unopened", "live", "dead"}]
  BY DEF life
<1>2. ASSUME NEW t \in Sids
      PROVE  \/ life'[t] = life[t]
             \/ t \in Sids /\ life[t] = "live" /\ life'[t] = "dead"
  <2>1. life[t] = (IF t \notin known THEN "unopened" ELSE IF Live(t) THEN "live" ELSE "dead")
    BY DEF life
  <2>2. life'[t] = (IF t \notin known THEN "unopened"
                    ELSE IF Live(t)' THEN "live" ELSE "dead")
    BY DEF life
  <2> QED BY <2>1, <2>2 DEF LiveShrinks
<1> QED BY <1>1, <1>2 DEF Registry!OnlyDie, Registry!LifeStage

(* Only a login that fails at its last step gives up a held session.       *)
LEMMA HeldStays ==
    ASSUME TypeOK, Ownership, [Next]_vars,
           \A r \in Requests : ~Abort(r)
    PROVE  Held \subseteq Held'
<1> USE SqlAssumption
<1>1. ASSUME NEW r \in Requests, req[r].at # "login.tokens",
             \A q \in Requests : q # r => req'[q] = req[q],
             \A s \in Sids : tokens'[s].user = tokens[s].user
      PROVE  Held \subseteq Held'
  BY <1>1 DEF Held, Issued
<1>2. ASSUME NEW r \in Requests, NEW step, Goto(r, step)
      PROVE  \A q \in Requests : q # r => req'[q] = req[q]
  BY <1>2 DEF Goto, TypeOK
<1>3. ASSUME NEW r \in Requests, Finish(r)
      PROVE  \A q \in Requests : q # r => req'[q] = req[q]
  BY <1>3 DEF Finish, TypeOK
<1>4. ASSUME NEW r \in Requests, Reject(r)
      PROVE  \A q \in Requests : q # r => req'[q] = req[q]
  BY <1>2, <1>3, <1>4 DEF Reject
<1>5. ASSUME NEW r \in Requests, NEW u \in Users, Authenticate(r, u)
      PROVE  Held \subseteq Held'
  BY <1>1, <1>5 DEF Authenticate, TypeOK
<1>6. ASSUME NEW r \in Requests, CleanupExpired(r) PROVE Held \subseteq Held'
  BY <1>1, <1>6 DEF CleanupExpired, TypeOK
<1>7. ASSUME NEW r \in Requests, NEW s \in Sids, InsertSession(r, s)
      PROVE  Held \subseteq Held'
  BY <1>1, <1>7 DEF InsertSession, TypeOK
<1>8. ASSUME NEW r \in Requests, NEW kept \in SUBSET Sids, EnforceLimit(r, kept)
      PROVE  Held \subseteq Held'
  BY <1>1, <1>2, <1>8 DEF EnforceLimit
<1>9. ASSUME NEW r \in Requests, GenerateTokens(r) PROVE Held \subseteq Held'
  <2>1. \A q \in Requests : q # r => req'[q] = req[q]
    BY <1>3, <1>9 DEF GenerateTokens
  <2>2. req[r].user \in Users /\ req[r].at = "login.tokens" /\ req[r].sid \in Sids
    BY <1>9 DEF GenerateTokens, Ownership, TypeOK
  <2>3. tokens'[req[r].sid].user = req[r].user
    BY <1>9, <2>2 DEF GenerateTokens, TypeOK
  <2>4. \A t \in Sids : t # req[r].sid => tokens'[t] = tokens[t]
    BY <1>9 DEF GenerateTokens, TypeOK
  <2> QED BY <2>1, <2>2, <2>3, <2>4 DEF Held, Issued
<1>10. ASSUME NEW r \in Requests, NEW s \in Sids, NEW access \in BOOLEAN,
              NEW refresh \in BOOLEAN, Arrive(r, s, access, refresh)
       PROVE  Held \subseteq Held'
  BY <1>1, <1>10 DEF Arrive, TypeOK
<1>11. ASSUME NEW r \in Requests, Extend(r) PROVE Held \subseteq Held'
  BY <1>1, <1>2, <1>11 DEF Extend, ExtendSteps
<1>12. ASSUME NEW r \in Requests, SessionMissing(r) PROVE Held \subseteq Held'
  BY <1>1, <1>4, <1>12 DEF SessionMissing, ExtendSteps, SelectSteps
<1>13. ASSUME NEW r \in Requests, NEW entry \in EntrySteps, Admit(r, entry)
       PROVE  Held \subseteq Held'
  <2>1. \A s \in Sids : tokens'[s].user = tokens[s].user
    BY <1>13 DEF Admit, TypeOK, Token
  <2> QED BY <1>1, <1>2, <1>13, <2>1 DEF Admit, SelectSteps
<1>14. ASSUME NEW r \in Requests, Me(r) \/ EndSession(r) \/ EndAllSessionsForUser(r)
       PROVE  Held \subseteq Held'
  BY <1>1, <1>3, <1>14 DEF Me, EndSession, EndAllSessionsForUser
<1>15. ASSUME NEW r \in Requests, ChangeSelect(r) PROVE Held \subseteq Held'
  BY <1>1, <1>2, <1>15 DEF ChangeSelect
<1>16. ASSUME NEW r \in Requests, ChangeUpdate(r) PROVE Held \subseteq Held'
  BY <1>1, <1>16 DEF ChangeUpdate, TypeOK
<1>17. ASSUME NEW r \in Requests, DbError(r) PROVE Held \subseteq Held'
  BY <1>1, <1>4, <1>17 DEF DbError, AccessSteps, RefreshSteps
<1>18. ASSUME NEW sids \in OpsScopes, OpsRevoke(sids) PROVE Held \subseteq Held'
  BY <1>18 DEF OpsRevoke, Held, Issued
<1>19. CASE Tick
  BY <1>19 DEF Tick, Held, Issued
<1>20. CASE UNCHANGED vars
  BY <1>20 DEF vars, Held, Issued
<1> QED
  BY <1>5, <1>6, <1>7, <1>8, <1>9, <1>10, <1>11, <1>12, <1>13, <1>14, <1>15, <1>16,
     <1>17, <1>18, <1>19, <1>20 DEF Next

(* InsertSession opens a session.                                          *)
LEMMA InsertOpens ==
    ASSUME TypeOK, Ownership, NEW r \in Requests, NEW s \in Sids,
           InsertSession(r, s), Held' = Held
    PROVE  RegistryStep
<1> DEFINE u == req[r].user
<1>1. u \in Users
  BY DEF InsertSession, Ownership
<1>2. life[s] = "unopened"
  BY DEF InsertSession, life
<1>3. PICK stage \in {"live", "dead"} : life' = [life EXCEPT ![s] = stage]
  <2> DEFINE stage == IF Live(s)' THEN "live" ELSE "dead"
  <2>1. \A t \in Sids : t # s => (Live(t)' <=> Live(t)) /\ (t \in known' <=> t \in known)
    BY DEF InsertSession, Live, LiveRow, Lapse, TypeOK
  <2>2. s \in known'
    BY DEF InsertSession
  <2>3. life' = [life EXCEPT ![s] = stage]
    BY <2>1, <2>2 DEF life
  <2> QED BY <2>3
<1>4. origin'.owner = [origin.owner EXCEPT ![s] = u]
  BY DEF InsertSession, TypeOK
<1>5. Registry!Open(s, u, stage)
  BY <1>2, <1>3, <1>4 DEF Registry!Open
<1> QED BY <1>1, <1>5 DEF RegistryStep, Registry!RegistryNext

(* EnforceLimit settles the session that was opened.                       *)
LEMMA EnforceSettles ==
    ASSUME TypeOK, Ownership, LiveShrinks, known' = known,
           origin'.owner = origin.owner, Ownership',
           NEW r \in Requests, NEW kept \in SUBSET Sids, EnforceLimit(r, kept),
           Held \subseteq Held'
    PROVE  RegistryStep
<1> USE SqlAssumption
<1>a. PICK u \in Users : req[r].user = u
  BY DEF EnforceLimit, Ownership
<1>b. PICK s \in Sids : req[r].sid = s
  BY DEF EnforceLimit, Ownership, TypeOK
<1>1. s \in known /\ origin.owner[s] = u
  BY <1>a, <1>b DEF EnforceLimit, Ownership
<1>2. life[s] # "unopened"
  BY <1>1 DEF life
<1>3. \A t \in Sids : Live(t)' =>
        Live(t) /\ session'[t].user = session[t].user /\ t \notin LiveOf(u) \ kept
  BY <1>a, DropRowsShrinks DEF EnforceLimit
<1>4. \A t \in Sids : Live(t) /\ t \notin LiveOf(u) => Live(t)'
  BY <1>a DEF EnforceLimit, DropRows, Live, LiveRow, Lapse
<1>5. \A t \in Sids : Live(t) => t \in known /\ session[t].user = origin.owner[t]
  BY DEF Live, LiveRow, Ownership
<1>6. \A t \in Sids : Registry!OnlyDie(Sids) /\ life'[t] # life[t]
        => t \in LiveOf(u) /\ life[t] = "live" /\ life'[t] = "dead"
  BY <1>3, <1>4 DEF life
<1>7. LiveOf(u) \subseteq Registry!LiveOf(u)
  BY <1>5 DEF LiveOf, Registry!LiveOf, life
<1>8. Registry!OnlyDie(Registry!LiveOf(u))
  BY SessionsOnlyDie, <1>6, <1>7 DEF Registry!OnlyDie
<1>9. Registry!LiveOf(u)' \subseteq kept
  <2>1. ASSUME NEW t \in Sids, life'[t] = "live", origin'.owner[t] = u PROVE t \in kept
    <3>1. Live(t)'
      BY <2>1 DEF life
    <3>2. Live(t) /\ session[t].user = u
      BY <1>3, <1>5, <2>1, <3>1
    <3> QED BY <1>3, <3>1, <3>2 DEF LiveOf
  <2> QED BY <2>1 DEF Registry!LiveOf
<1>10. Cardinality(Registry!LiveOf(u)') <= MaxSessions
  <2>1. IsFiniteSet(kept) /\ Cardinality(kept) \in Nat
    BY FS_Subset, FS_CardinalityType
  <2>2. Cardinality(kept) <= MaxSessions
    BY <1>a, <2>1 DEF EnforceLimit, Keeps
  <2>3. /\ Cardinality(Registry!LiveOf(u)') <= Cardinality(kept)
        /\ Cardinality(Registry!LiveOf(u)') \in Nat
    BY <1>9, <2>1, FS_Subset, FS_CardinalityType
  <2> QED BY <2>1, <2>2, <2>3
<1>11. Held' = Held \cup {s}
  <2>1. \A q \in Requests : q # r => req'[q] = req[q]
    BY DEF EnforceLimit, Goto, TypeOK
  <2>2. req'[r].sid = s /\ req'[r].at = "login.tokens" /\ tokens' = tokens
    BY <1>b DEF EnforceLimit, Goto, TypeOK, Request
  <2> QED BY <1>1, <2>1, <2>2 DEF Held, Issued
<1>12. Registry!Settle(s, u)
  <2>1. Registry!Cardinality(Registry!LiveOf(u)') <= MaxSessions
    BY <1>10 DEF Cardinality, Registry!Cardinality
  <2>2. UNCHANGED origin.owner
    OBVIOUS
  <2> QED BY <1>1, <1>2, <1>8, <2>1, <2>2, <1>11 DEF Registry!Settle
<1> QED BY <1>1, <1>12 DEF RegistryStep, Registry!RegistryNext

(* Abort forfeits the session of a login at its last step, if nobody else  *)
(* holds it, and is otherwise invisible.                                   *)
LEMMA AbortForfeits ==
    ASSUME TypeOK, Ownership, NEW r \in Requests, Abort(r)
    PROVE  RegistryStep
<1>1. life' = life /\ origin' = origin /\ tokens' = tokens
  BY DEF Abort, life, Live, LiveRow, Lapse
<1>2. (\A q \in Requests : q # r => req'[q] = req[q]) /\ req'[r].at = "idle"
  BY DEF Abort, Finish, TypeOK, Idle
<1>3. Held' = Held \/ (req[r].sid \in Held /\ Held' = Held \ {req[r].sid})
  BY <1>1, <1>2 DEF Held, Issued
<1>4. CASE Held' = Held
  BY <1>1, <1>4 DEF RegistryStep, Registry!registryVars
<1>5. CASE req[r].sid \in Held /\ Held' = Held \ {req[r].sid}
  <2>1. Registry!Forfeit(req[r].sid) /\ req[r].sid \in Sids
    BY <1>1, <1>5 DEF Registry!Forfeit, Held
  <2> QED BY <2>1 DEF RegistryStep, Registry!RegistryNext
<1> QED BY <1>3, <1>4, <1>5

(* Every step of the handlers is a step of the registry, or none.          *)
LEMMA RefinementStep == TypeOK /\ Ownership /\ [Next]_vars => RegistryStep
<1> SUFFICES ASSUME TypeOK, Ownership, [Next]_vars PROVE RegistryStep
  OBVIOUS
<1>1. Ownership' /\ LiveShrinks
  BY OwnershipStep, Shrinking
<1>2. ASSUME NEW r \in Requests, NEW s \in Sids, InsertSession(r, s) PROVE RegistryStep
  <2>1. req[r].at = "login.insert"
    BY <1>2 DEF InsertSession
  <2>2. /\ \A q \in Requests : ~Abort(q)
        /\ \A q \in Requests, kept \in SUBSET Sids : ~EnforceLimit(q, kept)
    BY <1>2 DEF InsertSession, Abort, EnforceLimit
  <2>3. Held' = Held
    BY <2>2, HeldGrows, HeldStays
  <2> QED BY <1>2, <2>3, InsertOpens
<1>3. ASSUME NEW r \in Requests, Abort(r) PROVE RegistryStep
  BY <1>3, AbortForfeits
<1>4. ASSUME \A r \in Requests, s \in Sids : ~InsertSession(r, s),
             \A r \in Requests : ~Abort(r)
      PROVE  RegistryStep
  <2>1. known' = known /\ origin'.owner = origin.owner
    BY <1>4, OpenedKept
  <2>2. Held \subseteq Held'
    BY <1>4, HeldStays
  <2>3. ASSUME NEW r \in Requests, NEW kept \in SUBSET Sids, EnforceLimit(r, kept)
        PROVE  RegistryStep
    BY <1>1, <2>1, <2>2, <2>3, EnforceSettles
  <2>4. CASE \A r \in Requests, kept \in SUBSET Sids : ~EnforceLimit(r, kept)
    <3>1. Held' = Held
      BY <2>2, <2>4, HeldGrows
    <3>2. Registry!End
      BY <1>1, <2>1, <3>1, SessionsOnlyDie DEF Registry!End
    <3> QED BY <3>2 DEF RegistryStep, Registry!RegistryNext
  <2> QED BY <2>3, <2>4
<1> QED BY <1>2, <1>3, <1>4

(* An empty database is an empty registry, and every step refines: the SQL *)
(* sessions implement SessionRegistry, ImplementsRegistry.                 *)
THEOREM Refinement == Spec => ImplementsRegistry
<1>1. Init => Registry!RegistryInit
  <2> SUFFICES ASSUME Init PROVE Registry!RegistryInit
    OBVIOUS
  <2>1. life = [s \in Sids |-> "unopened"]
    BY DEF Init, life
  <2>2. Held = {}
    BY DEF Init, Held, Issued, NoToken, Idle
  <2> QED BY <2>1, <2>2 DEF Init, Registry!RegistryInit
<1> QED
  BY <1>1, RefinementStep, TypeCorrect, PTL
  DEF Spec, RegistryStep, ImplementsRegistry, Registry!RegistrySpec

-----------------------------------------------------------------------------
(* The promise of every deployment                                         *)

PromiseStep == [Promise!PromiseNext]_(Promise!promiseVars)

(* The registry is one way to keep the promise: its Settle enforces the    *)
(* limit on all live sessions of the user, and nothing is raced or hidden. *)
LEMMA RegistryKeeps == RegistryStep => PromiseStep
<1> SUFFICES ASSUME RegistryStep PROVE PromiseStep
  OBVIOUS
<1> USE DEF Registry!registryVars, Promise!promiseVars
<1>0. life' \in [Sids -> {"unopened", "live", "dead"}]
  BY DEF life
<1>1. life' \in [Sids -> Promise!Stage]
  BY <1>0 DEF Promise!Stage
<1>2. ASSUME NEW s \in Sids, NEW u \in Users, NEW stage \in {"live", "dead"},
             Registry!Open(s, u, stage)
      PROVE  PromiseStep
  <2>1. life' = [life EXCEPT ![s] = stage] /\ life[s] = "unopened"
    BY <1>2 DEF Registry!Open
  <2>2. life'[s] = stage /\ \A t \in Sids \ {s} : life'[t] = life[t]
    BY <2>1 DEF life
  <2>3. Promise!Open(s, u)
    BY <1>1, <1>2, <2>1, <2>2 DEF Registry!Open, Promise!Open, Promise!Ages
  <2> QED BY <2>3 DEF PromiseStep, Promise!PromiseNext
<1>3. ASSUME NEW doomed, Registry!OnlyDie(doomed)
      PROVE  \A t \in Sids : Promise!Ages(t)
  BY <1>3 DEF Registry!OnlyDie, Promise!Ages
<1>4. ASSUME NEW s \in Sids, NEW u \in Users, Registry!Settle(s, u) PROVE PromiseStep
  <2>1. Promise!Counted(u)' \subseteq Registry!LiveOf(u)'
    BY DEF Promise!Counted, Registry!LiveOf, Held
  <2>2. IsFiniteSet(Registry!LiveOf(u)')
    BY SqlAssumption, FS_Subset DEF Registry!LiveOf
  <2>3. /\ Cardinality(Promise!Counted(u)') <= Cardinality(Registry!LiveOf(u)')
        /\ Cardinality(Promise!Counted(u)') \in Nat
        /\ Cardinality(Registry!LiveOf(u)') \in Nat
    BY <2>1, <2>2, FS_Subset, FS_CardinalityType
  <2>4. Cardinality(Registry!LiveOf(u)') <= MaxSessions
    BY <1>4 DEF Registry!Settle, Cardinality, Registry!Cardinality
  <2>5. Promise!Cardinality(Promise!Counted(u)') <= MaxSessions
    BY <2>3, <2>4, SqlAssumption DEF Cardinality, Promise!Cardinality
  <2>6. Promise!HandOut(s, u)
    BY <1>1, <1>3, <1>4, <2>5 DEF Registry!Settle, Promise!HandOut
  <2> QED BY <2>6 DEF PromiseStep, Promise!PromiseNext
<1>5. ASSUME NEW s \in Sids, Registry!Forfeit(s) PROVE PromiseStep
  <2>1. Promise!Withdraw(s)
    BY <1>5 DEF Registry!Forfeit, Promise!Withdraw
  <2> QED BY <2>1 DEF PromiseStep, Promise!PromiseNext
<1>6. CASE Registry!End
  <2>1. Promise!End
    BY <1>1, <1>3, <1>6 DEF Registry!End, Promise!End
  <2> QED BY <2>1 DEF PromiseStep, Promise!PromiseNext
<1>7. CASE UNCHANGED Registry!registryVars
  BY <1>7 DEF PromiseStep
<1> QED
  BY <1>2, <1>4, <1>5, <1>6, <1>7 DEF RegistryStep, Registry!RegistryNext

(* The SQL sessions keep the promise, by way of the registry: KeepsPromise.*)
THEOREM SqlPromise == Spec => KeepsPromise
<1>1. Registry!RegistryInit => Promise!PromiseInit
  BY DEF Registry!RegistryInit, Promise!PromiseInit
<1> QED
  BY <1>1, RegistryKeeps, Refinement, PTL
  DEF ImplementsRegistry, Registry!RegistrySpec, KeepsPromise, Promise!PromiseSpec,
      RegistryStep, PromiseStep
=============================================================================
