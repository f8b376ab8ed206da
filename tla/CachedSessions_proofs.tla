----------------------- MODULE CachedSessions_proofs -----------------------
(***************************************************************************)
(* Theorems about CachedSessions, for any users and requests, any finite   *)
(* set of session ids, any limit, durations and routes.                    *)
(***************************************************************************)
EXTENDS CachedSessions, FiniteSetTheorems, TLAPS

(* s was created, and if its key is live it was written back by a race.    *)
Over(s) == Owner(s) # NoUser /\ (Live(s) => s \in history.raced)

(* The index leads to s, unless there is a recorded reason.                *)
Listed(s) ==
    \/ ~Live(s)
    \/ s \in Members(Owner(s))
    \/ s \in history.raced \cup history.unlisted

Early    == {"login.set", "login.sadd", "login.expire", "login.members"}
Getting  == {"login.get", "login.srem"}
Evicting == {"login.del", "login.evict"}
Passing  == Getting \cup Evicting \cup {"login.tokens"}
Added    == {"login.expire", "login.members"} \cup Passing
Opening  == {"login.sadd"} \cup Added
Asking   == {"access.get", "access.set", "refresh.get", "refresh.set"}
Sliding  == {"access.set", "refresh.set"}
Leaving  == {"logout", "logout.del", "logout.srem"}
Ending   == Leaving \cup {"ops.get", "ops.srem", "ops.del"}
Clearing == {"revokeall", "ops.members", "all.del", "all.delindex"}

(* What a request knows of the sessions it is about.                       *)
ReqOK(r) ==
    /\ req[r].at \in Opening \cup Clearing \cup Leaving \cup {"login.set"} => req[r].user \in Users
    /\ req[r].at \in Opening =>
         req[r].sid \in Sids /\ Owner(req[r].sid) = req[r].user /\ ~Issued(req[r].sid)
    /\ req[r].at \in Added => Listed(req[r].sid)
    /\ req[r].at \in {"login.srem", "login.evict"} => req[r].pick \in Sids /\ Over(req[r].pick)
    /\ req[r].at \in Asking => req[r].sid \in Sids /\ Issued(req[r].sid)
    /\ req[r].at \in Sliding => Live(req[r].sid) \/ req[r].sid \in history.raced
    /\ req[r].at \in Ending => req[r].sid \in Sids /\ Owner(req[r].sid) # NoUser
    /\ req[r].at = "logout.srem" => Over(req[r].sid)
    /\ req[r].at \in {"all.del", "all.delindex"} =>
         \A s \in req[r].found : Owner(s) = req[r].user /\ (s \in req[r].todo \/ Over(s))
    /\ req[r].at = "all.delindex" => req[r].todo = {}
    /\ req[r].at \in Evicting \cup Getting =>
         \A s \in req[r].todo \cup req[r].found : Owner(s) # NoUser
    /\ req[r].at \in Early => req[r].todo = {} /\ req[r].found = {}

RequestsOK == \A r \in Requests : ReqOK(r)

(* No two logins are about the same session.                               *)
Apart ==
    \A q, r \in Requests :
        q # r /\ req[q].at \in Opening /\ req[r].at \in Opening => req[q].sid # req[r].sid

TokensOK ==
    \A s \in Sids : /\ Issued(s) => Owner(s) # NoUser /\ Listed(s)
                    /\ tokens[s].access > 0 => Issued(s)

RevokedOK == \A s \in history.revoked : Over(s)

(* Live, and no race nor lost index to blame.                              *)
Good(s) == Live(s) /\ s \notin history.raced \cup history.unlisted

(* s is past its login's look at the index.                                *)
PassedBy(r, s) == req[r].at \in Passing /\ req[r].sid = s

Passed(s) == Issued(s) \/ \E r \in Requests : PassedBy(r, s)

(* r has still to evict one of X.                                          *)
Enforces(r, X) ==
    /\ req[r].sid \in X
    /\ \/ req[r].at \in Getting /\ X \subseteq req[r].todo \cup req[r].found
       \/ req[r].at \in Evicting /\ X \cap req[r].todo # {}

(* Any surplus of a user's sessions is about to be seen to by a login that *)
(* opened one of them: the last to read the index read them all.           *)
LimitOK ==
    \A u \in Users, X \in SUBSET Sids :
        (\A s \in X : Owner(s) = u /\ Good(s) /\ Passed(s)) /\ ~(Cardinality(X) <= MaxSessions)
        => \E r \in Requests : Enforces(r, X)

IInv == TypeOK /\ RequestsOK /\ Apart /\ TokensOK /\ RevokedOK /\ LimitOK

Entry == [user : Users \cup {NoUser}, created : 0..MaxTime,
          lapse : 0..(MaxTime + SessionDuration)]

Index == [members : SUBSET Sids, lapse : 0..Never]

Pair == [access : 0..(MaxTime + AccessTtl), refresh : 0..(MaxTime + RefreshTtl)]

History == [owner : [Sids -> Users \cup {NoUser}], revoked : SUBSET Sids,
            raced : SUBSET Sids, unlisted : SUBSET Sids]

IndexOwned == \A u \in Users : \A s \in index[u].members : Owner(s) = u

-----------------------------------------------------------------------------
(* Types                                                                   *)

LEMMA Typed ==
    TypeOK <=> /\ now \in 0..MaxTime /\ entry \in [Sids -> Entry] /\ index \in [Users -> Index]
               /\ tokens \in [Sids -> Pair] /\ req \in [Requests -> Request]
               /\ history \in History /\ IndexOwned
BY DEF TypeOK, Entry, Index, Pair, History, IndexOwned

LEMMA TypedNext ==
    TypeOK' <=> /\ now' \in 0..MaxTime /\ entry' \in [Sids -> Entry]
                /\ index' \in [Users -> Index] /\ tokens' \in [Sids -> Pair]
                /\ req' \in [Requests -> Request] /\ history' \in History /\ IndexOwned'
BY DEF TypeOK, Entry, Index, Pair, History, IndexOwned, Never, Request, Steps

LEMMA Clocks ==
    ASSUME TypeOK
    PROVE  /\ now \in Nat /\ now <= MaxTime /\ MaxTime \in Nat
           /\ MaxSessions \in Nat /\ SessionDuration \in Nat /\ SessionDuration > 0
           /\ AccessTtl \in Nat /\ RefreshTtl \in Nat /\ RefreshTtl > 0
           /\ Never = MaxTime + SessionDuration + 1
           /\ \A s \in Sids : /\ entry[s].lapse \in Nat
                              /\ tokens[s].access \in Nat /\ tokens[s].refresh \in Nat
           /\ \A u \in Users : index[u].lapse \in Nat /\ index[u].members \subseteq Sids
BY Typed, CacheAssumption DEF Entry, Index, Pair, Never

LEMMA IdleType ==
    /\ Idle \in Request /\ Idle.at = "idle" /\ Idle.user = NoUser /\ Idle.sid = NoSid
    /\ Idle.todo = {} /\ Idle.found = {} /\ Idle.pick = NoSid
BY CacheAssumption DEF Idle, Request, Steps

(* Another request takes no notice.                                        *)
Beside(r) == \A q \in Requests : q # r => req'[q] = req[q]

LEMMA FinishType ==
    ASSUME TypeOK, NEW r \in Requests, Finish(r)
    PROVE  req' \in [Requests -> Request] /\ req'[r] = Idle /\ Beside(r)
BY IdleType DEF Finish, TypeOK, Beside

LEMMA GotoType ==
    ASSUME TypeOK, NEW r \in Requests, NEW step \in Steps, Goto(r, step)
    PROVE  /\ req' \in [Requests -> Request] /\ Beside(r)
           /\ req'[r].at = step /\ req'[r].user = req[r].user /\ req'[r].sid = req[r].sid
           /\ req'[r].todo = req[r].todo /\ req'[r].found = req[r].found
<1> DEFINE n == [req[r] EXCEPT !.at = step]
<1>1. req[r] \in Request
  BY DEF TypeOK
<1>2. /\ n \in Request /\ n.at = step /\ n.user = req[r].user /\ n.sid = req[r].sid
      /\ n.todo = req[r].todo /\ n.found = req[r].found
  BY <1>1 DEF Request
<1>3. req' = [req EXCEPT ![r] = n]
  BY DEF Goto, TypeOK
<1> HIDE DEF n
<1> QED BY <1>2, <1>3 DEF TypeOK, Beside

-----------------------------------------------------------------------------
(* What no step undoes                                                     *)

Born(s) == Owner(s) = NoUser /\ Owner(s)' # NoUser

(* Some request is to write s back.                                        *)
Slides(s) == \E q \in Requests : req[q].at \in Sliding /\ req[q].sid = s

Aging ==
    /\ history.raced \subseteq history'.raced /\ history.unlisted \subseteq history'.unlisted
    /\ \A s \in Sids : Owner(s) # NoUser => Owner(s)' = Owner(s)
    /\ \A s \in Sids : Live(s)' => Live(s) \/ Born(s) \/ s \in history'.raced
    /\ \A s \in Sids : Owner(s) # NoUser /\ Listed(s) => Listed(s)'
    /\ \A s \in Sids : Slides(s) /\ Live(s) => Live(s)' \/ s \in history'.raced

(* Only a login that ends issues tokens to a session that had none.        *)
Issuing(r) ==
    \A s \in Sids :
        /\ Issued(s) => Issued(s)'
        /\ Issued(s)' => Issued(s) \/ (req[r].at = "login.tokens" /\ req[r].sid = s)
        /\ tokens'[s].access > 0 => Issued(s)'

LEMMA OverStays ==
    ASSUME Aging, NEW s \in Sids, Over(s)
    PROVE  Over(s)' /\ Owner(s)' = Owner(s)
BY DEF Aging, Over, Born

(* A request that takes no step knows what it knew.                        *)
LEMMA Others ==
    ASSUME IInv, Aging, NEW q \in Requests, req'[q] = req[q],
           \A s \in Sids : /\ Issued(s) => Issued(s)'
                           /\ req[q].at \in Opening /\ req[q].sid = s /\ ~Issued(s) => ~Issued(s)'
    PROVE  ReqOK(q)'
<1>1. ReqOK(q) /\ req[q] \in Request
  BY DEF IInv, RequestsOK, TypeOK
<1>2. /\ \A s \in Sids : Over(s) => Over(s)' /\ Owner(s)' = Owner(s)
      /\ \A s \in Sids : Owner(s) # NoUser => Owner(s)' = Owner(s)
      /\ \A s \in Sids : Owner(s) # NoUser /\ Listed(s) => Listed(s)'
      /\ \A s \in Sids : Slides(s) /\ Live(s) => Live(s)' \/ s \in history'.raced
      /\ history.raced \subseteq history'.raced
  BY OverStays DEF Aging
<1>3. \A s \in Sids : /\ Issued(s) => Issued(s)'
                      /\ req[q].at \in Opening /\ req[q].sid = s /\ ~Issued(s) => ~Issued(s)'
  OBVIOUS
<1>4. /\ req[q].at \in Opening \cup Clearing => req[q].user # NoUser
      /\ req[q].todo \subseteq Sids /\ req[q].found \subseteq Sids
      /\ req[q].at \in Added => req[q].at \in Opening
  BY <1>1, CacheAssumption DEF ReqOK, Request, Opening
<1>5. req[q].at \in Sliding => (Live(req[q].sid) => Slides(req[q].sid))
  BY DEF Slides
<1>6. req'[q] = req[q]
  OBVIOUS
<1>7. (req[q].at \in Sliding => Live(req[q].sid) \/ req[q].sid \in history.raced)'
  <2> SUFFICES ASSUME req[q].at \in Sliding, NEW s \in Sids, s = req[q].sid
               PROVE  Live(s)' \/ s \in history'.raced
    BY <1>1, <1>6 DEF ReqOK, Asking, Sliding, Live
  <2>1. Slides(s) /\ (Live(s) \/ s \in history.raced)
    BY <1>1 DEF Slides, ReqOK
  <2> QED BY <1>2, <2>1
<1>8. (req[q].at \in Opening =>
         req[q].sid \in Sids /\ Owner(req[q].sid) = req[q].user /\ ~Issued(req[q].sid))'
  <2> SUFFICES ASSUME req[q].at \in Opening, NEW s \in Sids, s = req[q].sid
               PROVE  Owner(s)' = req[q].user /\ ~Issued(s)'
    BY <1>1, <1>6 DEF ReqOK, Owner, Issued
  <2> QED BY <1>1, <1>2, <1>3, <1>4 DEF ReqOK, Issued
<1>9. (req[q].at \in Added => Listed(req[q].sid))'
  <2> SUFFICES ASSUME req[q].at \in Added, NEW s \in Sids, s = req[q].sid
               PROVE  Listed(s)'
    BY <1>1, <1>4, <1>6 DEF ReqOK, Listed, Live, Members, Owner
  <2>1. Owner(s) # NoUser /\ Listed(s)
    BY <1>1, <1>4 DEF ReqOK
  <2> QED BY <1>2, <2>1
<1>10. (req[q].at \in {"login.srem", "login.evict"} =>
          req[q].pick \in Sids /\ Over(req[q].pick))'
  <2> SUFFICES ASSUME req[q].at \in {"login.srem", "login.evict"}, NEW s \in Sids, s = req[q].pick
               PROVE  Over(s)'
    BY <1>1, <1>6 DEF ReqOK, Over, Live, Owner
  <2> QED BY <1>1, <1>2 DEF ReqOK
<1>11. (req[q].at \in Asking => req[q].sid \in Sids /\ Issued(req[q].sid))'
  BY <1>1, <1>3, <1>6 DEF ReqOK, Issued
<1>12. (req[q].at \in Ending => req[q].sid \in Sids /\ Owner(req[q].sid) # NoUser)'
  BY <1>1, <1>2, <1>6 DEF ReqOK, Owner
<1>13. (req[q].at = "logout.srem" => Over(req[q].sid))'
  <2> SUFFICES ASSUME req[q].at = "logout.srem", NEW s \in Sids, s = req[q].sid
               PROVE  Over(s)'
    BY <1>1, <1>6 DEF ReqOK, Over, Live, Owner, Ending, Leaving
  <2> QED BY <1>1, <1>2 DEF ReqOK
<1>14. (req[q].at \in {"all.del", "all.delindex"} =>
          \A s \in req[q].found : Owner(s) = req[q].user /\ (s \in req[q].todo \/ Over(s)))'
  <2> SUFFICES ASSUME req[q].at \in {"all.del", "all.delindex"}, NEW s \in req[q].found
               PROVE  Owner(s)' = req[q].user /\ (s \in req[q].todo \/ Over(s)')
    BY <1>6
  <2>1. /\ Owner(s) = req[q].user /\ (s \in req[q].todo \/ Over(s))
        /\ req[q].user # NoUser /\ s \in Sids
    BY <1>1, <1>4 DEF ReqOK, Clearing
  <2> QED BY <1>2, <2>1
<1>15. (req[q].at \in Evicting \cup Getting =>
          \A s \in req[q].todo \cup req[q].found : Owner(s) # NoUser)'
  <2> SUFFICES ASSUME req[q].at \in Evicting \cup Getting, NEW s \in req[q].todo \cup req[q].found
               PROVE  Owner(s)' # NoUser
    BY <1>6
  <2> QED BY <1>1, <1>2, <1>4 DEF ReqOK
<1>16. (req[q].at \in Early => req[q].todo = {} /\ req[q].found = {})'
  BY <1>1, <1>6 DEF ReqOK
<1> QED BY <1>1, <1>6, <1>7, <1>8, <1>9, <1>10, <1>11, <1>12, <1>13, <1>14, <1>15, <1>16 DEF ReqOK

(* The sessions r is about: another login is about others.                 *)
Keeps(r) ==
    req'[r].at \in Opening =>
        \/ Owner(req'[r].sid) = NoUser
        \/ req[r].at \in Opening /\ req'[r].sid = req[r].sid

(* r's part in the limit is kept, or it is out of it.                      *)
KeepsLimit(r) ==
    /\ req'[r].at \in Passing => req[r].at \in Passing /\ req'[r].sid = req[r].sid
    /\ \A X \in SUBSET Sids :
         (\A s \in X : Good(s) /\ Good(s)') /\ ~(Cardinality(X) <= MaxSessions) /\ Enforces(r, X)
         => Enforces(r, X)' \/ req'[r].at \notin Passing

LEMMA GoodBefore ==
    ASSUME Aging, NEW s \in Sids, Good(s)', Owner(s) # NoUser
    PROVE  Good(s)
BY DEF Good, Aging, Born

LEMMA PassedOwner ==
    ASSUME IInv, NEW s \in Sids, Passed(s)
    PROVE  Owner(s) \in Users /\ Owner(s) # NoUser /\ Listed(s)
<1>1. Owner(s) # NoUser /\ Listed(s)
  <2>1. CASE Issued(s)
    BY <2>1 DEF IInv, TokensOK
  <2>2. CASE \E r \in Requests : PassedBy(r, s)
    <3>1. PICK r \in Requests : PassedBy(r, s)
      BY <2>2
    <3>2. ReqOK(r) /\ req[r].at \in Opening /\ req[r].at \in Added /\ req[r].sid = s
      BY <3>1 DEF PassedBy, IInv, RequestsOK, Opening, Added
    <3>3. Owner(s) = req[r].user /\ req[r].user \in Users /\ Listed(s)
      BY <3>2 DEF ReqOK
    <3> QED BY <3>3, CacheAssumption
  <2> QED BY <2>1, <2>2 DEF Passed
<1>2. Owner(s) \in Users \cup {NoUser}
  BY Typed DEF IInv, History, Owner
<1> QED BY <1>1, <1>2

LEMMA LimitStep ==
    ASSUME IInv, NEW r \in Requests, Aging, Beside(r), Issuing(r), KeepsLimit(r)
    PROVE  LimitOK'
<1> SUFFICES ASSUME NEW u \in Users, NEW X \in SUBSET Sids,
                    \A s \in X : Owner(s)' = u /\ Good(s)' /\ Passed(s)',
                    ~(Cardinality(X) <= MaxSessions)
             PROVE  \E q \in Requests : Enforces(q, X)'
  BY DEF LimitOK
<1>1. ASSUME NEW s \in X
      PROVE  Passed(s)
  <2>1. CASE Issued(s)'
    <3>1. CASE Issued(s)
      BY <3>1 DEF Passed
    <3>2. CASE req[r].at = "login.tokens" /\ req[r].sid = s
      BY <3>2 DEF Passed, PassedBy, Passing
    <3> QED BY <2>1, <3>1, <3>2 DEF Issuing
  <2>2. CASE \E q \in Requests : PassedBy(q, s)'
    <3>1. PICK q \in Requests : req'[q].at \in Passing /\ req'[q].sid = s
      BY <2>2 DEF PassedBy
    <3>2. req[q].at \in Passing /\ req[q].sid = s
      BY <3>1 DEF Beside, KeepsLimit
    <3> QED BY <3>2 DEF Passed, PassedBy
  <2> QED BY <2>1, <2>2 DEF Passed
<1>2. \A s \in X : Owner(s) # NoUser /\ Owner(s) = u /\ Good(s)
  BY <1>1, PassedOwner, GoodBefore DEF Aging
<1>3. PICK q \in Requests : Enforces(q, X)
  BY <1>1, <1>2 DEF IInv, LimitOK
<1>4. CASE q # r
  <2>1. Enforces(q, X)'
    BY <1>3, <1>4 DEF Beside, Enforces
  <2> QED BY <2>1
<1>5. CASE q = r /\ req'[r].at \in Passing
  <2>1. Enforces(r, X)'
    BY <1>2, <1>3, <1>5 DEF KeepsLimit
  <2> QED BY <2>1
<1>6. CASE q = r /\ req'[r].at \notin Passing
  <2>1. PICK s \in X : s = req[r].sid /\ s \in Sids
    BY <1>3, <1>6 DEF Enforces
  <2>2. req[r].at \in Getting \cup Evicting /\ req[r].at # "login.tokens" /\ req[r].at \in Opening
    BY <1>3, <1>6 DEF Enforces, Getting, Evicting, Opening, Added, Passing
  <2>3. ~Issued(s)
    BY <2>1, <2>2 DEF IInv, RequestsOK, ReqOK, Issued
  <2>4. ~Issued(s)'
    BY <2>2, <2>3 DEF Issuing
  <2>5. ASSUME NEW p \in Requests PROVE ~PassedBy(p, s)'
    <3>1. CASE p = r
      BY <1>6, <3>1 DEF PassedBy
    <3>2. CASE p # r
      <4>1. req'[p] = req[p]
        BY <3>2 DEF Beside
      <4>2. req[p].at \in Passing => req[p].at \in Opening /\ req[p].sid # req[r].sid
        BY <2>2, <3>2 DEF IInv, Apart, Opening, Added
      <4> QED BY <2>1, <4>1, <4>2 DEF PassedBy
    <3> QED BY <3>1, <3>2
  <2> QED BY <2>4, <2>5 DEF Passed
<1> QED BY <1>4, <1>5, <1>6

LEMMA Step ==
    ASSUME IInv, TypeOK', NEW r \in Requests, Aging, Beside(r), Issuing(r), ReqOK(r)', Keeps(r),
           req[r].at = "login.tokens" => Owner(req[r].sid) # NoUser,
           \A s \in history'.revoked : s \in history.revoked \/ Over(s)',
           LimitOK'
    PROVE  IInv'
<1>1. RequestsOK'
  <2> SUFFICES ASSUME NEW q \in Requests PROVE ReqOK(q)'
    BY DEF RequestsOK
  <2>1. CASE q = r
    BY <2>1
  <2>2. CASE q # r
    <3>1. req[r].at = "login.tokens" => req[r].at \in Opening
      BY DEF Opening, Added, Passing
    <3>2. req[q].at \in Opening /\ req[r].at = "login.tokens" => req[q].sid # req[r].sid
      BY <2>2, <3>1 DEF IInv, Apart
    <3>3. \A s \in Sids :
             /\ Issued(s) => Issued(s)'
             /\ req[q].at \in Opening /\ req[q].sid = s /\ ~Issued(s) => ~Issued(s)'
      BY <3>2 DEF Issuing
    <3> QED BY <2>2, <3>3, Others DEF Beside
  <2> QED BY <2>1, <2>2
<1>2. Apart'
  <2>1. ASSUME NEW q \in Requests, q # r, req'[q].at \in Opening, req'[r].at \in Opening
        PROVE  req'[q].sid # req'[r].sid
    <3>1. req'[q] = req[q]
      BY <2>1 DEF Beside
    <3>2. Owner(req[q].sid) = req[q].user /\ req[q].user \in Users
      BY <2>1, <3>1 DEF IInv, RequestsOK, ReqOK
    <3>3. CASE req[r].at \in Opening /\ req'[r].sid = req[r].sid
      BY <2>1, <3>1, <3>3 DEF IInv, Apart
    <3>4. CASE Owner(req'[r].sid) = NoUser
      BY <3>1, <3>2, <3>4, CacheAssumption
    <3> QED BY <2>1, <3>3, <3>4 DEF Keeps
  <2>2. ASSUME NEW q \in Requests, NEW p \in Requests, q # r, p # r, q # p,
               req'[q].at \in Opening, req'[p].at \in Opening
        PROVE  req'[q].sid # req'[p].sid
    BY <2>2 DEF Beside, IInv, Apart
  <2> SUFFICES ASSUME NEW q \in Requests, NEW p \in Requests, q # p,
                      req'[q].at \in Opening, req'[p].at \in Opening
               PROVE  req'[q].sid # req'[p].sid
    BY DEF Apart
  <2> QED BY <2>1, <2>2
<1>3. TokensOK'
  <2> SUFFICES ASSUME NEW s \in Sids
               PROVE  /\ Issued(s)' => Owner(s)' # NoUser /\ Listed(s)'
                      /\ tokens'[s].access > 0 => Issued(s)'
    BY DEF TokensOK
  <2>1. Issued(s)' => Owner(s) # NoUser /\ Listed(s)
    <3>1. CASE Issued(s)
      BY <3>1 DEF IInv, TokensOK
    <3>2. CASE req[r].at = "login.tokens" /\ req[r].sid = s
      <4>1. PassedBy(r, s)
        BY <3>2 DEF PassedBy, Passing
      <4> QED BY <4>1, PassedOwner DEF Passed
    <3> QED BY <3>1, <3>2 DEF Issuing
  <2> QED BY <2>1 DEF Aging, Issuing
<1>4. RevokedOK'
  BY OverStays DEF IInv, RevokedOK, TypeOK
<1> QED BY <1>1, <1>2, <1>3, <1>4 DEF IInv

(* A step that is no login's, or not in the limit's part of it.            *)
LEMMA StepOutside ==
    ASSUME IInv, TypeOK', NEW r \in Requests, Aging, Beside(r), Issuing(r), ReqOK(r)', Keeps(r),
           req'[r].at \notin Passing,
           \A s \in history'.revoked : s \in history.revoked \/ Over(s)'
    PROVE  IInv'
<1>1. KeepsLimit(r)
  BY DEF KeepsLimit
<1>2. LimitOK'
  BY <1>1, LimitStep
<1>3. req[r].at = "login.tokens" => Owner(req[r].sid) # NoUser
  BY CacheAssumption DEF IInv, RequestsOK, ReqOK, Opening, Added, Passing
<1> QED BY <1>2, <1>3, Step

-----------------------------------------------------------------------------
(* Steps that only move the request                                        *)

LEMMA Quiet ==
    ASSUME IInv, UNCHANGED <<now, entry, index, tokens, history>>, NEW r \in Requests
    PROVE  /\ Aging /\ Issuing(r)
           /\ \A s \in Sids : /\ Owner(s)' = Owner(s) /\ (Live(s)' <=> Live(s))
                              /\ (Listed(s)' <=> Listed(s)) /\ (Over(s)' <=> Over(s))
                              /\ (Issued(s)' <=> Issued(s)) /\ (Good(s)' <=> Good(s))
           /\ \A u \in Users : Members(u)' = Members(u)
<1>1. /\ \A s \in Sids : /\ Owner(s)' = Owner(s) /\ (Live(s)' <=> Live(s))
                         /\ (Issued(s)' <=> Issued(s))
      /\ \A u \in Users : Members(u)' = Members(u)
  BY DEF Owner, Live, Issued, Members
<1>2. \A s \in Sids : /\ (Listed(s)' <=> Listed(s)) /\ (Over(s)' <=> Over(s))
                      /\ (Good(s)' <=> Good(s))
  BY <1>1 DEF Listed, Over, Good, Live, Members, Owner
<1>3. \A s \in Sids : tokens[s].access > 0 => Issued(s)
  BY DEF IInv, TokensOK
<1> QED BY <1>1, <1>2, <1>3 DEF Aging, Issuing

LEMMA QuietStep ==
    ASSUME IInv, NEW r \in Requests, UNCHANGED <<now, entry, index, tokens, history>>,
           req' \in [Requests -> Request], Beside(r), ReqOK(r)', Keeps(r), KeepsLimit(r)
    PROVE  IInv'
<1>1. Aging /\ Issuing(r)
  BY Quiet
<1>2. TypeOK'
  <2>1. IndexOwned'
    BY Typed DEF IInv, IndexOwned, Owner
  <2> QED BY <2>1, Typed, TypedNext DEF IInv
<1>3. LimitOK'
  BY <1>1, LimitStep
<1>4. req[r].at = "login.tokens" => Owner(req[r].sid) # NoUser
  BY CacheAssumption DEF IInv, RequestsOK, ReqOK, Opening, Added, Passing
<1> QED BY <1>1, <1>2, <1>3, <1>4, Step

LEMMA Idled ==
    ASSUME NEW r \in Requests, req'[r] = Idle
    PROVE  ReqOK(r)' /\ Keeps(r) /\ KeepsLimit(r) /\ req'[r].at \notin Passing
<1>1. req'[r].at = "idle"
  BY IdleType
<1>2. ReqOK(r)'
  BY <1>1 DEF ReqOK, Early, Opening, Added, Passing, Getting, Evicting, Asking, Sliding, Leaving, Ending, Clearing
<1> QED BY <1>1, <1>2 DEF Keeps, KeepsLimit, Opening, Added, Passing, Getting, Evicting

LEMMA QuietFinish ==
    ASSUME IInv, NEW r \in Requests, UNCHANGED <<now, entry, index, tokens, history>>, Finish(r)
    PROVE  IInv'
<1>1. req' \in [Requests -> Request] /\ req'[r] = Idle /\ Beside(r)
  BY FinishType DEF IInv
<1> QED BY <1>1, Idled, QuietStep

(* Steps outside the logins that only move the request.                    *)
LEMMA QuietOutside ==
    ASSUME IInv, NEW r \in Requests, UNCHANGED <<now, entry, index, tokens, history>>,
           req' \in [Requests -> Request], Beside(r), ReqOK(r)', req'[r].at \notin Opening
    PROVE  IInv'
<1>1. Keeps(r) /\ KeepsLimit(r)
  BY DEF Keeps, KeepsLimit, Opening, Added
<1> QED BY <1>1, QuietStep

LEMMA LoginInv ==
    ASSUME IInv, NEW r \in Requests, NEW u \in Users, Login(r, u)
    PROVE  IInv'
<1> DEFINE n == [Idle EXCEPT !.at = "login.set", !.user = u, !.created = now]
<1>1. /\ req' = [req EXCEPT ![r] = n] /\ UNCHANGED <<now, entry, index, tokens, history>>
      /\ now \in 0..MaxTime
  BY DEF Login, IInv, TypeOK
<1>2. /\ n \in Request /\ n.at = "login.set" /\ n.user = u
      /\ n.todo = {} /\ n.found = {}
  BY <1>1, IdleType DEF Request, Steps
<1> HIDE DEF n
<1>3. req' \in [Requests -> Request] /\ req'[r] = n /\ Beside(r)
  BY <1>1, <1>2 DEF IInv, TypeOK, Beside
<1>4. ReqOK(r)' /\ req'[r].at \notin Opening
  BY <1>2, <1>3 DEF ReqOK, Early, Opening, Added, Passing, Getting, Evicting, Asking, Sliding, Leaving, Ending, Clearing
<1> QED BY <1>1, <1>3, <1>4, QuietOutside

LEMMA ArriveInv ==
    ASSUME IInv, NEW r \in Requests, NEW s \in Sids, NEW access \in BOOLEAN,
           NEW refresh \in BOOLEAN, Arrive(r, s, access, refresh)
    PROVE  IInv'
<1> DEFINE useAccess == access /\ Verifies(tokens[s].access)
           at == IF useAccess THEN "access.get" ELSE "refresh.get"
           back == useAccess /\ refresh
           u == Owner(s)
           n == [Idle EXCEPT !.at = at, !.user = u, !.sid = s, !.refresh = back]
<1>1. /\ req' = [req EXCEPT ![r] = n] /\ UNCHANGED <<now, entry, index, tokens, history>>
      /\ Issued(s)
  BY DEF Arrive
<1>2. /\ at \in {"access.get", "refresh.get"} /\ back \in BOOLEAN
      /\ u \in Users \cup {NoUser}
  BY Typed DEF IInv, History, Owner, Verifies
<1> HIDE DEF at, back, u
<1>3. n \in Request /\ n.at = at /\ n.sid = s
  BY <1>2, IdleType DEF Request, Steps
<1> HIDE DEF n
<1>4. req' \in [Requests -> Request] /\ req'[r] = n /\ Beside(r)
  BY <1>1, <1>3 DEF IInv, TypeOK, Beside
<1>5. Issued(req[r].sid)' <=> Issued(s)
  BY <1>1, <1>3, <1>4 DEF Issued
<1>6. ReqOK(r)' /\ req'[r].at \notin Opening
  BY <1>1, <1>2, <1>3, <1>4, <1>5
     DEF ReqOK, Early, Opening, Added, Passing, Getting, Evicting, Asking, Sliding, Leaving, Ending, Clearing
<1> QED BY <1>1, <1>4, <1>6, QuietOutside

LEMMA GetSessionInv ==
    ASSUME IInv, NEW r \in Requests, GetSession(r)
    PROVE  IInv'
<1> DEFINE at == IF req[r].at = "access.get" THEN "access.set" ELSE "refresh.set"
           c == CreatedAt(req[r].sid)
           n == [req[r] EXCEPT !.at = at, !.created = c]
<1>1. /\ UNCHANGED <<now, entry, index, tokens, history>>
      /\ req[r].at \in {"access.get", "refresh.get"} /\ Live(req[r].sid)
      /\ req' = [req EXCEPT ![r] = n] /\ req[r] \in Request
  BY DEF GetSession, IInv, TypeOK
<1>2. at \in Sliding /\ req[r].sid \in Sids /\ Issued(req[r].sid)
  BY <1>1 DEF Sliding, IInv, RequestsOK, ReqOK, Asking
<1>3. c \in 0..MaxTime
  BY <1>2, Typed DEF IInv, Entry, CreatedAt
<1> HIDE DEF at, c
<1>4. n \in Request /\ n.at = at /\ n.sid = req[r].sid
  BY <1>1, <1>2, <1>3 DEF Request, Steps, Sliding
<1> HIDE DEF n
<1>5. req' \in [Requests -> Request] /\ req'[r] = n /\ Beside(r)
  BY <1>1, <1>4 DEF IInv, TypeOK, Beside
<1>6. Issued(req[r].sid)' /\ Live(req[r].sid)'
  BY <1>1, <1>2, <1>4, <1>5 DEF Issued, Live
<1>7. ReqOK(r)' /\ req'[r].at \notin Opening
  BY <1>2, <1>4, <1>5, <1>6
     DEF ReqOK, Early, Opening, Added, Passing, Getting, Evicting, Asking, Sliding, Leaving, Ending, Clearing
<1> QED BY <1>1, <1>5, <1>7, QuietOutside

(* A rejected request is over or goes on with its refresh cookie.          *)
LEMMA RejectInv ==
    ASSUME IInv, NEW r \in Requests, UNCHANGED <<now, entry, index, tokens, history>>,
           req[r].at \in Asking, Reject(r)
    PROVE  IInv'
<1> DEFINE n == [req[r] EXCEPT !.at = "refresh.get", !.refresh = FALSE, !.created = 0]
<1>1. CASE Finish(r)
  BY <1>1, QuietFinish
<1>2. CASE req' = [req EXCEPT ![r] = n]
  <2>1. req[r] \in Request /\ 0 \in 0..MaxTime
    BY CacheAssumption DEF IInv, TypeOK
  <2>2. n \in Request /\ n.at = "refresh.get" /\ n.sid = req[r].sid
    BY <2>1 DEF Request, Steps
  <2> HIDE DEF n
  <2>3. req' \in [Requests -> Request] /\ req'[r] = n /\ Beside(r)
    BY <1>2, <2>2 DEF IInv, TypeOK, Beside
  <2>4. req[r].sid \in Sids /\ Issued(req[r].sid)
    BY DEF IInv, RequestsOK, ReqOK
  <2>5. Issued(req[r].sid)'
    BY <2>2, <2>3, <2>4 DEF Issued
  <2>6. ReqOK(r)' /\ req'[r].at \notin Opening
    BY <2>2, <2>3, <2>4, <2>5
       DEF ReqOK, Early, Opening, Added, Passing, Getting, Evicting, Asking, Sliding, Leaving, Ending, Clearing
  <2> QED BY <2>3, <2>6, QuietOutside
<1>3. Finish(r) \/ req' = [req EXCEPT ![r] = n]
  <2>1. req' = [req EXCEPT ![r] = n] <=>
          req' = [req EXCEPT ![r].at = "refresh.get", ![r].refresh = FALSE, ![r].created = 0]
    BY DEF IInv, TypeOK
  <2> QED BY <2>1 DEF Reject
<1> QED BY <1>1, <1>2, <1>3

LEMMA RejectedInv ==
    ASSUME IInv, NEW r \in Requests, GetMissing(r) \/ CacheError(r)
    PROVE  IInv'
<1>1. req[r].at \in Asking /\ Reject(r) /\ UNCHANGED <<now, entry, index, tokens, history>>
  BY DEF GetMissing, CacheError, Asking
<1> QED BY <1>1, RejectInv

LEMMA OverInv ==
    ASSUME IInv, NEW r \in Requests, Me(r) \/ Abort(r)
    PROVE  IInv'
<1>1. Finish(r) /\ UNCHANGED <<now, entry, index, tokens, history>>
  BY DEF Me, Abort
<1> QED BY <1>1, QuietFinish

LEMMA OpsBeginInv ==
    ASSUME IInv, NEW r \in Requests,
           (\E u \in Users : OpsRevokeUser(r, u)) \/ (\E s \in Sids : OpsRevokeSession(r, s))
    PROVE  IInv'
<1>1. ASSUME NEW u \in Users, OpsRevokeUser(r, u)
      PROVE  IInv'
  <2> DEFINE n == [Idle EXCEPT !.at = "ops.members", !.user = u]
  <2>1. req' = [req EXCEPT ![r] = n] /\ UNCHANGED <<now, entry, index, tokens, history>>
    BY <1>1 DEF OpsRevokeUser
  <2>2. n \in Request /\ n.at = "ops.members" /\ n.user = u
    BY IdleType DEF Request, Steps
  <2> HIDE DEF n
  <2>3. req' \in [Requests -> Request] /\ req'[r] = n /\ Beside(r)
    BY <2>1, <2>2 DEF IInv, TypeOK, Beside
  <2>4. ReqOK(r)' /\ req'[r].at \notin Opening
    BY <2>2, <2>3
       DEF ReqOK, Early, Opening, Added, Passing, Getting, Evicting, Asking, Sliding, Leaving, Ending, Clearing
  <2> QED BY <2>1, <2>3, <2>4, QuietOutside
<1>2. ASSUME NEW s \in Sids, OpsRevokeSession(r, s)
      PROVE  IInv'
  <2> DEFINE n == [Idle EXCEPT !.at = "ops.get", !.sid = s]
  <2>1. /\ req' = [req EXCEPT ![r] = n] /\ UNCHANGED <<now, entry, index, tokens, history>>
        /\ Owner(s) # NoUser
    BY <1>2 DEF OpsRevokeSession
  <2>2. n \in Request /\ n.at = "ops.get" /\ n.sid = s
    BY IdleType DEF Request, Steps
  <2> HIDE DEF n
  <2>3. req' \in [Requests -> Request] /\ req'[r] = n /\ Beside(r)
    BY <2>1, <2>2 DEF IInv, TypeOK, Beside
  <2>4. Owner(req[r].sid)' # NoUser
    BY <2>1, <2>2, <2>3 DEF Owner
  <2>5. ReqOK(r)' /\ req'[r].at \notin Opening
    BY <2>2, <2>3, <2>4
       DEF ReqOK, Early, Opening, Added, Passing, Getting, Evicting, Asking, Sliding, Leaving, Ending, Clearing
  <2> QED BY <2>1, <2>3, <2>5, QuietOutside
<1> QED BY <1>1, <1>2

LEMMA OpsGetInv ==
    ASSUME IInv, NEW r \in Requests, OpsGet(r)
    PROVE  IInv'
<1> DEFINE step == IF Live(req[r].sid) THEN "ops.srem" ELSE "ops.del"
<1>1. /\ req[r].at = "ops.get" /\ UNCHANGED <<now, entry, index, tokens, history>>
      /\ Goto(r, step)
  BY DEF OpsGet
<1>2. step \in {"ops.srem", "ops.del"} /\ step \in Steps
  BY DEF Steps
<1> HIDE DEF step
<1>3. /\ req' \in [Requests -> Request] /\ Beside(r) /\ req'[r].at = step
      /\ req'[r].sid = req[r].sid
  BY <1>1, <1>2, GotoType DEF IInv
<1>4. req[r].sid \in Sids /\ Owner(req[r].sid) # NoUser
  BY <1>1 DEF IInv, RequestsOK, ReqOK, Ending
<1>5. Owner(req[r].sid)' # NoUser
  BY <1>1, <1>3, <1>4 DEF Owner
<1>6. ReqOK(r)' /\ req'[r].at \notin Opening
  BY <1>2, <1>3, <1>4, <1>5
     DEF ReqOK, Early, Opening, Added, Passing, Getting, Evicting, Asking, Sliding, Leaving, Ending, Clearing
<1> QED BY <1>1, <1>3, <1>6, QuietOutside

LEMMA MembersType ==
    ASSUME TypeOK, NEW u \in Users
    PROVE  Members(u) \subseteq Sids /\ \A s \in Members(u) : Owner(s) = u /\ u # NoUser
BY Typed, CacheAssumption DEF Members, IndexOwned, Index

LEMMA EndAllMembersInv ==
    ASSUME IInv, NEW r \in Requests, EndAllMembers(r)
    PROVE  IInv'
<1> DEFINE members == Members(req[r].user)
           at == IF members = {} THEN "all.delindex" ELSE "all.del"
           n == [req[r] EXCEPT !.at = at, !.todo = members, !.found = members]
<1>1. /\ UNCHANGED <<now, entry, index, tokens, history>>
      /\ req[r].at \in {"revokeall", "ops.members"} /\ req[r].user \in Users
      /\ req[r] \in Request
  BY DEF EndAllMembers, IInv, TypeOK, RequestsOK, ReqOK, Clearing
<1>2. CASE Finish(r)
  BY <1>1, <1>2, QuietFinish
<1>3. CASE req' = [req EXCEPT ![r] = n]
  <2>1. /\ members \in SUBSET Sids /\ \A s \in members : Owner(s) = req[r].user
        /\ at \in {"all.delindex", "all.del"}
        /\ at = "all.delindex" => members = {}
    BY <1>1, MembersType DEF IInv
  <2> HIDE DEF members, at
  <2>2. /\ n \in Request /\ n.at = at /\ n.todo = members /\ n.found = members
        /\ n.user = req[r].user
    BY <1>1, <2>1 DEF Request, Steps
  <2> HIDE DEF n
  <2>3. req' \in [Requests -> Request] /\ req'[r] = n /\ Beside(r)
    BY <1>3, <2>2 DEF IInv, TypeOK, Beside
  <2>4. \A s \in members : Owner(s)' = req[r].user
    BY <1>1, <2>1 DEF Owner
  <2>5. ReqOK(r)' /\ req'[r].at \notin Opening
    BY <1>1, <2>1, <2>2, <2>3, <2>4
       DEF ReqOK, Early, Opening, Added, Passing, Getting, Evicting, Asking, Sliding, Leaving, Ending, Clearing
  <2> QED BY <1>1, <2>3, <2>5, QuietOutside
<1>4. Finish(r) \/ req' = [req EXCEPT ![r] = n]
  <2>1. req' = [req EXCEPT ![r] = n] <=>
          req' = [req EXCEPT ![r].at = at, ![r].todo = members, ![r].found = members]
    BY DEF IInv, TypeOK
  <2> QED BY <2>1 DEF EndAllMembers
<1> QED BY <1>2, <1>3, <1>4

-----------------------------------------------------------------------------
(* The limit's own steps                                                   *)

LEMMA CardTypes ==
    ASSUME NEW X \in SUBSET Sids, NEW Y \in SUBSET Sids, X \subseteq Y
    PROVE  Cardinality(X) \in Nat /\ Cardinality(Y) \in Nat /\ Cardinality(X) <= Cardinality(Y)
<1>1. IsFiniteSet(X) /\ IsFiniteSet(Y)
  BY FS_Subset, CacheAssumption
<1> QED BY <1>1, FS_Subset, FS_CardinalityType

(* What a login past its SADD knows of its own session.                    *)
LEMMA Adding ==
    ASSUME IInv, NEW r \in Requests, req[r].at \in Added
    PROVE  /\ req[r] \in Request /\ req[r].user \in Users /\ req[r].sid \in Sids
           /\ Owner(req[r].sid) = req[r].user /\ ~Issued(req[r].sid) /\ Listed(req[r].sid)
BY DEF IInv, TypeOK, RequestsOK, ReqOK, Opening

(* ... and still knows after a quiet step.                                 *)
LEMMA QuietAdding ==
    ASSUME IInv, NEW r \in Requests, req[r].at \in Added,
           UNCHANGED <<now, entry, index, tokens, history>>,
           req'[r].at \in Added, req'[r].sid = req[r].sid, req'[r].user = req[r].user,
           req'[r].at \in {"login.srem", "login.evict"} =>
               \E s \in Sids : s = req'[r].pick /\ Over(s),
           req'[r].at \in Evicting \cup Getting =>
               \A s \in req'[r].todo \cup req'[r].found : Owner(s) # NoUser,
           req'[r].at \notin Early
    PROVE  ReqOK(r)' /\ Keeps(r)
<1>1. /\ req[r].user \in Users /\ req[r].sid \in Sids
      /\ Owner(req[r].sid) = req[r].user /\ ~Issued(req[r].sid) /\ Listed(req[r].sid)
  BY Adding
<1>2. PICK s \in Sids : s = req[r].sid
  BY <1>1
<1>3. Owner(s)' = req[r].user /\ ~Issued(s)' /\ Listed(s)'
  BY <1>1, <1>2, Quiet
<1>4. Owner(req[r].sid)' = req[r].user /\ ~Issued(req[r].sid)' /\ Listed(req[r].sid)'
  BY <1>2, <1>3 DEF Owner, Issued, Listed, Live, Members
<1>5. req'[r].at \in {"login.srem", "login.evict"} => req'[r].pick \in Sids /\ Over(req[r].pick)'
  <2> SUFFICES ASSUME NEW t \in Sids, t = req'[r].pick, Over(t)
               PROVE  Over(req[r].pick)'
    OBVIOUS
  <2>1. Over(t)'
    BY Quiet
  <2> QED BY <2>1 DEF Over, Live, Owner
<1>6. (req[r].at \in Evicting \cup Getting =>
         \A t \in req[r].todo \cup req[r].found : Owner(t) # NoUser)'
  BY DEF Owner
<1>7. ReqOK(r)'
  BY <1>1, <1>4, <1>5, <1>6
     DEF ReqOK, Early, Opening, Added, Passing, Getting, Evicting, Asking, Sliding, Leaving, Ending, Clearing
<1> QED BY <1>7 DEF Keeps, Opening

(* The login has now seen every session the index leads to.                *)
LEMMA LimitMembersInv ==
    ASSUME IInv, NEW r \in Requests, LimitMembers(r)
    PROVE  IInv'
<1> DEFINE members == Members(req[r].user)
           within == Cardinality(members) <= MaxSessions
           n == IF within THEN [req[r] EXCEPT !.at = "login.tokens"]
                ELSE [req[r] EXCEPT !.at = "login.get", !.todo = members]
<1>1. /\ req[r].at = "login.members" /\ UNCHANGED <<now, entry, index, tokens, history>>
      /\ req' = [req EXCEPT ![r] = n]
  BY DEF LimitMembers, IInv, TypeOK
<1>2. /\ req[r] \in Request /\ req[r].user \in Users /\ req[r].sid \in Sids
      /\ Owner(req[r].sid) = req[r].user /\ Listed(req[r].sid)
      /\ req[r].at \in Added /\ req[r].found = {}
  BY <1>1, Adding DEF Added, Early, IInv, RequestsOK, ReqOK
<1>3. /\ members \in SUBSET Sids /\ \A s \in members : Owner(s) = req[r].user
      /\ req[r].user # NoUser
  BY <1>2, MembersType, CacheAssumption DEF IInv
<1>m. members = Members(req[r].user) /\ (within <=> Cardinality(members) <= MaxSessions)
  OBVIOUS
<1> HIDE DEF members, within
<1>4. /\ n \in Request /\ n.sid = req[r].sid /\ n.user = req[r].user
      /\ n.found = req[r].found
      /\ n.at = IF within THEN "login.tokens" ELSE "login.get"
      /\ n.todo = IF within THEN req[r].todo ELSE members
  BY <1>2, <1>3 DEF Request, Steps
<1> HIDE DEF n
<1>5. req' \in [Requests -> Request] /\ req'[r] = n /\ Beside(r)
  BY <1>1, <1>4 DEF IInv, TypeOK, Beside
<1>6. ReqOK(r)' /\ Keeps(r)
  <2>1. /\ req'[r].at \in {"login.tokens", "login.get"}
        /\ req'[r].at = "login.get" => req'[r].todo \cup req'[r].found = members
    BY <1>2, <1>4, <1>5
  <2>2. /\ req'[r].at \in Added /\ req'[r].at \notin Early
        /\ req'[r].at \in Evicting \cup Getting => req'[r].at = "login.get"
    BY <2>1 DEF Added, Passing, Getting, Evicting, Early
  <2> QED BY <1>1, <1>2, <1>3, <1>4, <1>5, <2>1, <2>2, QuietAdding
<1>7. Aging /\ Issuing(r)
  BY <1>1, Quiet
<1>8. LimitOK'
  <2> SUFFICES ASSUME NEW u \in Users, NEW X \in SUBSET Sids,
                      \A s \in X : Owner(s)' = u /\ Good(s)' /\ Passed(s)',
                      ~(Cardinality(X) <= MaxSessions)
               PROVE  \E q \in Requests : Enforces(q, X)'
    BY DEF LimitOK
  <2>1. \A s \in X : Owner(s) = u /\ Good(s)
    BY <1>1, Quiet
  <2>2. \A s \in X : Passed(s) \/ s = req[r].sid
    <3> SUFFICES ASSUME NEW s \in X, s # req[r].sid, ~Issued(s)
                 PROVE  \E q \in Requests : PassedBy(q, s)
      BY DEF Passed
    <3>1. ~Issued(s)'
      BY <1>1, Quiet
    <3>2. PICK q \in Requests : req'[q].at \in Passing /\ req'[q].sid = s
      BY <3>1 DEF Passed, PassedBy
    <3>3. req'[q] = req[q]
      BY <1>4, <1>5, <3>2 DEF Beside
    <3> QED BY <3>2, <3>3 DEF PassedBy
  <2>3. CASE req[r].sid \notin X
    <3>1. PICK q \in Requests : Enforces(q, X)
      BY <2>1, <2>2, <2>3 DEF IInv, LimitOK
    <3>2. req'[q] = req[q]
      BY <1>1, <1>5, <3>1 DEF Enforces, Getting, Evicting, Beside
    <3>3. Enforces(q, X)'
      BY <3>1, <3>2 DEF Enforces
    <3> QED BY <3>3
  <2>4. CASE req[r].sid \in X
    <3>1. u = req[r].user
      BY <1>2, <2>1, <2>4
    <3>2. X \subseteq members
      BY <1>2, <1>m, <2>1, <2>2, <3>1, PassedOwner DEF Listed, Good
    <3>3. ~within
      BY <1>3, <1>m, <3>2, CardTypes, CacheAssumption
    <3>4. Enforces(r, X)'
      BY <1>4, <1>5, <2>4, <3>2, <3>3 DEF Enforces, Getting
    <3> QED BY <3>4
  <2> QED BY <2>3, <2>4
<1>9. TypeOK'
  <2>1. IndexOwned'
    BY <1>1, Typed DEF IInv, IndexOwned, Owner
  <2> QED BY <1>1, <1>5, <2>1, Typed, TypedNext DEF IInv
<1> QED BY <1>1, <1>5, <1>6, <1>7, <1>8, <1>9, Step

(* A quiet step past the look at the index, the limit's part kept.         *)
LEMMA QuietLimit ==
    ASSUME IInv, NEW r \in Requests, UNCHANGED <<now, entry, index, tokens, history>>,
           req' \in [Requests -> Request], Beside(r),
           req[r].at \in Passing, req'[r].at \in Passing,
           req'[r].sid = req[r].sid, req'[r].user = req[r].user,
           req'[r].at \in {"login.srem", "login.evict"} =>
               \E s \in Sids : s = req'[r].pick /\ Over(s),
           req'[r].at \in Evicting \cup Getting =>
               \A s \in req'[r].todo \cup req'[r].found : Owner(s) # NoUser,
           \A X \in SUBSET Sids :
               (\A s \in X : Good(s)) /\ ~(Cardinality(X) <= MaxSessions) /\ Enforces(r, X)
               => Enforces(r, X)'
    PROVE  IInv'
<1>1. req[r].at \in Added /\ req'[r].at \in Added /\ req'[r].at \notin Early
  BY DEF Added, Early, Passing, Getting, Evicting
<1>2. ReqOK(r)' /\ Keeps(r)
  BY <1>1, QuietAdding
<1>3. KeepsLimit(r)
  BY DEF KeepsLimit
<1> QED BY <1>2, <1>3, QuietStep

LEMMA LimitGetInv ==
    ASSUME IInv, NEW r \in Requests, NEW s \in Sids, LimitGet(r, s)
    PROVE  IInv'
<1> DEFINE todo == req[r].todo \ {s}
           found == req[r].found \cup {s}
           n == IF Live(s) THEN [req[r] EXCEPT !.todo = todo, !.found = found]
                ELSE [req[r] EXCEPT !.todo = todo, !.at = "login.srem", !.pick = s]
<1>1. /\ req[r].at = "login.get" /\ UNCHANGED <<now, entry, index, tokens, history>>
      /\ req' = [req EXCEPT ![r] = n] /\ s \in req[r].todo
  BY DEF LimitGet, IInv, TypeOK
<1>2. /\ req[r] \in Request /\ req[r].at \in Passing
      /\ todo \in SUBSET Sids /\ found \in SUBSET Sids
  BY <1>1 DEF IInv, TypeOK, Request, Passing, Getting
<1>3. \A t : t \in req[r].todo \cup req[r].found => Owner(t) # NoUser
  BY <1>1 DEF IInv, RequestsOK, ReqOK, Getting
<1>4. /\ \A t : t \in todo \cup found <=> t \in req[r].todo \cup req[r].found
      /\ \A t : t \in req[r].todo => t \in todo \/ t = s
      /\ \A t : t \in todo => t \in req[r].todo
  BY <1>1
<1> HIDE DEF todo, found
<1>5. /\ n \in Request /\ n.sid = req[r].sid /\ n.user = req[r].user /\ n.todo = todo
      /\ Live(s) => n.at = "login.get" /\ n.found = found
      /\ ~Live(s) => n.at = "login.srem" /\ n.found = req[r].found /\ n.pick = s
  BY <1>1, <1>2 DEF Request, Steps
<1> HIDE DEF n
<1>6. /\ req' \in [Requests -> Request] /\ req'[r] = n /\ Beside(r)
      /\ req'[r].at \in Getting /\ req'[r].at \in Passing
      /\ req'[r].sid = req[r].sid /\ req'[r].user = req[r].user
  BY <1>1, <1>5 DEF IInv, TypeOK, Beside, Getting, Passing
<1>7. req'[r].at \in {"login.srem", "login.evict"} => \E t \in Sids : t = req'[r].pick /\ Over(t)
  BY <1>1, <1>3, <1>5, <1>6 DEF Over
<1>8. \A t \in req'[r].todo \cup req'[r].found : Owner(t) # NoUser
  BY <1>3, <1>4, <1>5, <1>6
<1>9. ASSUME NEW X \in SUBSET Sids, \A t \in X : Good(t), Enforces(r, X)
      PROVE  Enforces(r, X)'
  <2>1. req[r].sid \in X /\ X \subseteq req[r].todo \cup req[r].found
    BY <1>1, <1>9 DEF Enforces, Evicting
  <2>2. ~Live(s) => s \notin X
    BY <1>9 DEF Good
  <2>3. X \subseteq req'[r].todo \cup req'[r].found
    BY <1>4, <1>5, <1>6, <2>1, <2>2
  <2> QED BY <1>6, <2>1, <2>3 DEF Enforces
<1> QED BY <1>1, <1>2, <1>6, <1>7, <1>8, <1>9, QuietLimit

LEMMA LimitDecideInv ==
    ASSUME IInv, NEW r \in Requests, NEW evicted \in SUBSET Sids, LimitDecide(r, evicted)
    PROVE  IInv'
<1> DEFINE within == Cardinality(req[r].found) <= MaxSessions
           n == IF within THEN [req[r] EXCEPT !.at = "login.tokens", !.found = {}]
                ELSE [req[r] EXCEPT !.at = "login.del", !.todo = evicted, !.found = {}]
<1>1. /\ req[r].at = "login.get" /\ UNCHANGED <<now, entry, index, tokens, history>>
      /\ req' = [req EXCEPT ![r] = n] /\ req[r].todo = {}
  BY DEF LimitDecide, IInv, TypeOK
<1>2. /\ req[r] \in Request /\ req[r].at \in Passing /\ req[r].found \in SUBSET Sids
      /\ {} \in SUBSET Sids
  BY <1>1 DEF IInv, TypeOK, Request, Passing, Getting
<1>3. \A t \in req[r].found : Owner(t) # NoUser
  BY <1>1 DEF IInv, RequestsOK, ReqOK, Getting
<1>4. /\ within <=> Cardinality(req[r].found) <= MaxSessions
      /\ ~within => evicted \subseteq req[r].found
                    /\ Cardinality(req[r].found \ evicted) = MaxSessions
  BY DEF LimitDecide, Surplus
<1> HIDE DEF within
<1>5. /\ n \in Request /\ n.sid = req[r].sid /\ n.user = req[r].user
      /\ within => n.at = "login.tokens"
      /\ ~within => n.at = "login.del" /\ n.todo = evicted /\ n.found = {}
  BY <1>2 DEF Request, Steps
<1> HIDE DEF n
<1>6. /\ req' \in [Requests -> Request] /\ req'[r] = n /\ Beside(r)
      /\ req'[r].at \in Passing
      /\ req'[r].sid = req[r].sid /\ req'[r].user = req[r].user
  BY <1>1, <1>5 DEF IInv, TypeOK, Beside, Evicting, Passing
<1>7. req'[r].at \notin {"login.srem", "login.evict"}
  BY <1>5, <1>6
<1>8. req'[r].at \in Evicting \cup Getting =>
        \A t \in req'[r].todo \cup req'[r].found : Owner(t) # NoUser
  BY <1>3, <1>4, <1>5, <1>6 DEF Evicting, Getting
<1>9. ASSUME NEW X \in SUBSET Sids, ~(Cardinality(X) <= MaxSessions), Enforces(r, X)
      PROVE  Enforces(r, X)'
  <2>1. req[r].sid \in X /\ X \subseteq req[r].found
    BY <1>1, <1>9 DEF Enforces, Evicting
  <2>2. ~within
    BY <1>2, <1>4, <1>9, <2>1, CardTypes, CacheAssumption
  <2>3. ~(X \subseteq req[r].found \ evicted)
    <3> SUFFICES ASSUME X \subseteq req[r].found \ evicted PROVE FALSE
      OBVIOUS
    <3>1. req[r].found \ evicted \in SUBSET Sids
      BY <1>2
    <3>2. Cardinality(X) <= Cardinality(req[r].found \ evicted)
      BY <3>1, CardTypes
    <3> QED BY <1>4, <1>9, <2>2, <3>2
  <2>4. X \cap req'[r].todo # {}
    BY <1>5, <1>6, <2>1, <2>2, <2>3
  <2> QED BY <1>5, <1>6, <2>1, <2>2, <2>4 DEF Enforces, Evicting
<1> QED BY <1>1, <1>2, <1>6, <1>7, <1>8, <1>9, QuietLimit

-----------------------------------------------------------------------------
(* Keys removed                                                            *)

(* The history is added to, and knows of every session removed under a     *)
(* request that is to write it back.                                       *)
LEMMA RacingType ==
    ASSUME TypeOK, NEW s \in Sids
    PROVE  Racing(s) \subseteq {s} /\ (Slides(s) => s \in Racing(s))
BY DEF Racing, Slides, Sliding

LEMMA DelType ==
    ASSUME IInv, UNCHANGED <<now, index, tokens>>, NEW s \in Sids, Del(s),
           history' \in History, history'.owner = history.owner,
           history'.raced = history.raced \cup Racing(s), history'.unlisted = history.unlisted
    PROVE  /\ entry' \in [Sids -> Entry] /\ Aging /\ ~Live(s)' /\ IndexOwned'
           /\ \A t \in Sids : Owner(t)' = Owner(t) /\ (Live(t)' => Live(t))
           /\ \A r \in Requests : Issuing(r)
<1>1. entry \in [Sids -> Entry] /\ NoEntry \in Entry /\ NoEntry.user = NoUser
  BY Typed, Clocks, CacheAssumption DEF IInv, NoEntry, Entry
<1>2. /\ entry' \in [Sids -> Entry] /\ entry'[s] = NoEntry
      /\ \A t \in Sids : t # s => entry'[t] = entry[t]
  BY <1>1 DEF Del
<1>3. ~Live(s)' /\ \A t \in Sids : t # s => (Live(t)' <=> Live(t))
  BY <1>1, <1>2 DEF Live
<1>4. \A t \in Sids : Owner(t)' = Owner(t)
  BY DEF Owner
<1>5. \A u \in Users : Members(u)' = Members(u)
  BY DEF Members
<1>6. \A t \in Sids : Owner(t) # NoUser /\ Listed(t) => Listed(t)'
  <2> SUFFICES ASSUME NEW t \in Sids, Owner(t) # NoUser, Listed(t), t # s
               PROVE  Listed(t)'
    BY <1>3 DEF Listed
  <2> QED BY <1>3, <1>4 DEF Listed, Members, Owner
<1>7. Aging
  <2>1. \A t \in Sids : Slides(t) /\ Live(t) => Live(t)' \/ t \in history'.raced
    BY <1>3, RacingType DEF IInv
  <2> QED BY <1>3, <1>4, <1>6, <2>1 DEF Aging
<1>8. \A r \in Requests : Issuing(r)
  BY DEF Issuing, Issued, IInv, TokensOK
<1>9. IndexOwned'
  BY Typed DEF IInv, IndexOwned, Owner
<1> QED BY <1>2, <1>3, <1>4, <1>7, <1>8, <1>9

LEMMA NoteRaceType ==
    ASSUME IInv, NEW s \in Sids, NoteRace(s)
    PROVE  /\ history' \in History /\ history'.owner = history.owner
           /\ history'.raced = history.raced \cup Racing(s)
           /\ history'.unlisted = history.unlisted /\ history'.revoked = history.revoked
<1>1. history \in History /\ history.raced \cup Racing(s) \in SUBSET Sids
  BY Typed, RacingType DEF IInv, History
<1> QED BY <1>1 DEF NoteRace, History

LEMMA RevokedAtOnceType ==
    ASSUME IInv, NEW s \in Sids, RevokedAtOnce(s)
    PROVE  /\ history' \in History /\ history'.owner = history.owner
           /\ history'.raced = history.raced \cup Racing(s)
           /\ history'.unlisted = history.unlisted
           /\ history'.revoked = history.revoked \cup {s}
<1>1. /\ history \in History /\ history.raced \cup Racing(s) \in SUBSET Sids
      /\ history.revoked \cup {s} \in SUBSET Sids
  BY Typed, RacingType DEF IInv, History
<1> QED BY <1>1 DEF RevokedAtOnce, History

(* A login goes on past its SADD.                                          *)
LEMMA AddingOn ==
    ASSUME IInv, NEW r \in Requests, req[r].at \in Added, req[r].at # "login.tokens",
           Aging, Issuing(r), req' \in [Requests -> Request],
           req'[r].at \in Added, req'[r].sid = req[r].sid, req'[r].user = req[r].user,
           req'[r].at \in {"login.srem", "login.evict"} =>
               \E s \in Sids : s = req'[r].pick /\ Over(s)',
           req'[r].at \in Evicting \cup Getting =>
               \A s \in req'[r].todo \cup req'[r].found : Owner(s) # NoUser,
           req'[r].at \in Early => req'[r].todo = {} /\ req'[r].found = {}
    PROVE  ReqOK(r)' /\ Keeps(r)
<1>1. /\ req[r].user \in Users /\ req[r].sid \in Sids /\ req[r].user # NoUser
      /\ Owner(req[r].sid) = req[r].user /\ ~Issued(req[r].sid) /\ Listed(req[r].sid)
  BY Adding, CacheAssumption
<1>2. PICK s \in Sids : s = req[r].sid
  BY <1>1
<1>3. Owner(s)' = req[r].user /\ ~Issued(s)' /\ Listed(s)'
  BY <1>1, <1>2 DEF Aging, Issuing
<1>4. Owner(req[r].sid)' = req[r].user /\ ~Issued(req[r].sid)' /\ Listed(req[r].sid)'
  BY <1>2, <1>3 DEF Owner, Issued, Listed, Live, Members
<1>5. req'[r].at \in {"login.srem", "login.evict"} => req'[r].pick \in Sids /\ Over(req[r].pick)'
  <2> SUFFICES ASSUME NEW t \in Sids, t = req'[r].pick, Over(t)'
               PROVE  Over(req[r].pick)'
    OBVIOUS
  <2> QED BY DEF Over, Live, Owner
<1>6. (req[r].at \in Evicting \cup Getting =>
         \A t \in req[r].todo \cup req[r].found : Owner(t) # NoUser)'
  <2> SUFFICES ASSUME req'[r].at \in Evicting \cup Getting,
                      NEW t \in req'[r].todo \cup req'[r].found
               PROVE  Owner(t)' # NoUser
    OBVIOUS
  <2>1. t \in Sids
    BY DEF Request
  <2> QED BY <2>1 DEF Aging
<1>7. ReqOK(r)'
  BY <1>1, <1>4, <1>5, <1>6
     DEF ReqOK, Early, Opening, Added, Passing, Getting, Evicting, Asking, Sliding, Leaving, Ending, Clearing
<1> QED BY <1>7 DEF Keeps, Opening

LEMMA LimitDelInv ==
    ASSUME IInv, NEW r \in Requests, NEW s \in Sids, LimitDel(r, s)
    PROVE  IInv'
<1> DEFINE todo == req[r].todo \ {s}
           n == [req[r] EXCEPT !.at = "login.evict", !.todo = todo, !.pick = s]
<1>1. /\ req[r].at = "login.del" /\ UNCHANGED <<now, index, tokens>>
      /\ req' = [req EXCEPT ![r] = n] /\ s \in req[r].todo /\ Del(s) /\ NoteRace(s)
  BY DEF LimitDel, IInv, TypeOK
<1>2. /\ req[r] \in Request /\ req[r].at \in Added /\ req[r].at \in Passing
      /\ todo \in SUBSET Sids
  BY <1>1 DEF IInv, TypeOK, Request, Added, Passing, Evicting
<1>3. \A t \in req[r].todo \cup req[r].found : Owner(t) # NoUser
  BY <1>1 DEF IInv, RequestsOK, ReqOK, Evicting
<1>4. /\ \A t : t \in req[r].todo => t \in todo \/ t = s
      /\ \A t : t \in todo => t \in req[r].todo
  BY <1>1
<1> HIDE DEF todo
<1>5. /\ n \in Request /\ n.sid = req[r].sid /\ n.user = req[r].user /\ n.todo = todo
      /\ n.at = "login.evict" /\ n.found = req[r].found /\ n.pick = s
  BY <1>2 DEF Request, Steps
<1> HIDE DEF n
<1>6. /\ req' \in [Requests -> Request] /\ req'[r] = n /\ Beside(r)
      /\ req'[r].at \in Added /\ req'[r].at \notin Early
  BY <1>1, <1>5 DEF IInv, TypeOK, Beside, Evicting, Passing, Added, Early
<1>7. /\ history' \in History /\ history'.owner = history.owner
      /\ history'.raced = history.raced \cup Racing(s)
      /\ history'.unlisted = history.unlisted /\ history'.revoked = history.revoked
  BY <1>1, NoteRaceType
<1>8. /\ entry' \in [Sids -> Entry] /\ Aging /\ ~Live(s)' /\ IndexOwned'
      /\ \A t \in Sids : Owner(t)' = Owner(t) /\ (Live(t)' => Live(t))
      /\ Issuing(r)
  BY <1>1, <1>7, DelType
<1>9. TypeOK'
  BY <1>1, <1>6, <1>7, <1>8, Typed, TypedNext DEF IInv
<1>10. Over(s)'
  BY <1>1, <1>3, <1>8 DEF Over
<1>11. ReqOK(r)' /\ Keeps(r)
  BY <1>1, <1>2, <1>3, <1>4, <1>5, <1>6, <1>8, <1>10, AddingOn
<1>12. KeepsLimit(r)
  <2> SUFFICES ASSUME NEW X \in SUBSET Sids, \A t \in X : Good(t)', Enforces(r, X)
               PROVE  Enforces(r, X)'
    BY <1>2, <1>5, <1>6 DEF KeepsLimit
  <2>1. s \notin X
    BY <1>8 DEF Good
  <2>2. PICK t \in X : t \in req[r].todo
    BY <1>1 DEF Enforces, Getting
  <2>3. X \cap req'[r].todo # {}
    BY <1>4, <1>5, <1>6, <2>1, <2>2
  <2> QED BY <1>5, <1>6, <2>3 DEF Enforces, Evicting
<1>13. LimitOK'
  BY <1>6, <1>8, <1>12, LimitStep
<1> QED BY <1>1, <1>6, <1>7, <1>8, <1>9, <1>11, <1>13, Step

LEMMA EndDelInv ==
    ASSUME IInv, NEW r \in Requests, EndDel(r)
    PROVE  IInv'
<1>1. /\ req[r].at = "logout.del" /\ UNCHANGED <<now, index, tokens>>
      /\ Goto(r, "logout.srem") /\ Del(req[r].sid) /\ NoteRace(req[r].sid)
      /\ "logout.srem" \in Steps
  BY DEF EndDel, Steps
<1>2. /\ req[r].sid \in Sids /\ Owner(req[r].sid) # NoUser /\ req[r].user \in Users
  BY <1>1 DEF IInv, RequestsOK, ReqOK, Ending, Leaving
<1>3. PICK s \in Sids : s = req[r].sid
  BY <1>2
<1>4. /\ req' \in [Requests -> Request] /\ Beside(r)
      /\ req'[r].at = "logout.srem" /\ req'[r].user = req[r].user /\ req'[r].sid = s
  BY <1>1, <1>3, GotoType DEF IInv
<1>5. /\ history' \in History /\ history'.owner = history.owner
      /\ history'.raced = history.raced \cup Racing(s)
      /\ history'.unlisted = history.unlisted /\ history'.revoked = history.revoked
  BY <1>1, <1>3, NoteRaceType
<1>6. /\ entry' \in [Sids -> Entry] /\ Aging /\ ~Live(s)' /\ IndexOwned'
      /\ \A t \in Sids : Owner(t)' = Owner(t) /\ (Live(t)' => Live(t))
      /\ Issuing(r)
  BY <1>1, <1>3, <1>5, DelType
<1>7. TypeOK'
  BY <1>1, <1>4, <1>5, <1>6, Typed, TypedNext DEF IInv
<1>8. Over(req[r].sid)' /\ Owner(req[r].sid)' # NoUser
  BY <1>2, <1>3, <1>4, <1>6 DEF Over, Live, Owner
<1>9. ReqOK(r)' /\ req'[r].at \notin Opening /\ req'[r].at \notin Passing
  BY <1>2, <1>3, <1>4, <1>8
     DEF ReqOK, Early, Opening, Added, Passing, Getting, Evicting, Asking, Sliding, Leaving, Ending, Clearing
<1>10. Keeps(r)
  BY <1>9 DEF Keeps
<1> QED BY <1>4, <1>5, <1>6, <1>7, <1>9, <1>10, StepOutside

LEMMA EndAllDelInv ==
    ASSUME IInv, NEW r \in Requests, NEW s \in Sids, EndAllDel(r, s)
    PROVE  IInv'
<1> DEFINE todo == req[r].todo \ {s}
           at == IF req[r].todo = {s} THEN "all.delindex" ELSE "all.del"
           n == [req[r] EXCEPT !.todo = todo, !.at = at]
<1>1. /\ req[r].at = "all.del" /\ UNCHANGED <<now, index, tokens>>
      /\ req' = [req EXCEPT ![r] = n] /\ s \in req[r].todo /\ Del(s) /\ NoteRace(s)
  BY DEF EndAllDel, IInv, TypeOK
<1>2. /\ req[r] \in Request /\ req[r].user \in Users /\ req[r].user # NoUser
      /\ todo \in SUBSET Sids /\ req[r].found \subseteq Sids
      /\ \A t \in req[r].found : Owner(t) = req[r].user /\ (t \in req[r].todo \/ Over(t))
  BY <1>1, CacheAssumption DEF IInv, TypeOK, Request, RequestsOK, ReqOK, Clearing
<1>3. /\ \A t : t \in req[r].todo => t \in todo \/ t = s
      /\ at \in {"all.delindex", "all.del"}
      /\ at = "all.delindex" => todo = {}
  BY <1>1
<1> HIDE DEF todo, at
<1>4. /\ n \in Request /\ n.user = req[r].user /\ n.todo = todo
      /\ n.at = at /\ n.found = req[r].found
  BY <1>2, <1>3 DEF Request, Steps
<1> HIDE DEF n
<1>5. req' \in [Requests -> Request] /\ req'[r] = n /\ Beside(r)
  BY <1>1, <1>4 DEF IInv, TypeOK, Beside
<1>6. /\ history' \in History /\ history'.owner = history.owner
      /\ history'.raced = history.raced \cup Racing(s)
      /\ history'.unlisted = history.unlisted /\ history'.revoked = history.revoked
  BY <1>1, NoteRaceType
<1>7. /\ entry' \in [Sids -> Entry] /\ Aging /\ ~Live(s)' /\ IndexOwned'
      /\ \A t \in Sids : Owner(t)' = Owner(t) /\ (Live(t)' => Live(t))
      /\ Issuing(r)
  BY <1>1, <1>6, DelType
<1>8. TypeOK'
  BY <1>1, <1>5, <1>6, <1>7, Typed, TypedNext DEF IInv
<1>9. \A t \in req[r].found : Owner(t)' = req[r].user /\ (t \in todo \/ Over(t)')
  <2> SUFFICES ASSUME NEW t \in req[r].found, t \notin todo
               PROVE  Over(t)'
    BY <1>2, <1>7
  <2>1. CASE t = s
    BY <1>2, <1>7, <2>1 DEF Over
  <2>2. CASE t # s
    BY <1>2, <1>3, <1>7, <2>2, OverStays
  <2> QED BY <2>1, <2>2
<1>10. ReqOK(r)' /\ req'[r].at \notin Opening /\ req'[r].at \notin Passing
  BY <1>2, <1>3, <1>4, <1>5, <1>9
     DEF ReqOK, Early, Opening, Added, Passing, Getting, Evicting, Asking, Sliding, Leaving, Ending, Clearing
<1>11. Keeps(r)
  BY <1>10 DEF Keeps
<1> QED BY <1>5, <1>6, <1>7, <1>8, <1>10, <1>11, StepOutside

LEMMA OpsDelInv ==
    ASSUME IInv, NEW r \in Requests, OpsDel(r)
    PROVE  IInv'
<1>1. /\ req[r].at = "ops.del" /\ UNCHANGED <<now, index, tokens>>
      /\ Finish(r) /\ Del(req[r].sid) /\ RevokedAtOnce(req[r].sid)
  BY DEF OpsDel
<1>2. /\ req[r].sid \in Sids /\ Owner(req[r].sid) # NoUser
  BY <1>1 DEF IInv, RequestsOK, ReqOK, Ending
<1>3. PICK s \in Sids : s = req[r].sid
  BY <1>2
<1>4. /\ req' \in [Requests -> Request] /\ req'[r] = Idle /\ Beside(r)
  BY <1>1, FinishType DEF IInv
<1>5. /\ history' \in History /\ history'.owner = history.owner
      /\ history'.raced = history.raced \cup Racing(s)
      /\ history'.unlisted = history.unlisted
      /\ history'.revoked = history.revoked \cup {s}
  BY <1>1, <1>3, RevokedAtOnceType
<1>6. /\ entry' \in [Sids -> Entry] /\ Aging /\ ~Live(s)' /\ IndexOwned'
      /\ \A t \in Sids : Owner(t)' = Owner(t) /\ (Live(t)' => Live(t))
      /\ Issuing(r)
  BY <1>1, <1>3, <1>5, DelType
<1>7. TypeOK'
  BY <1>1, <1>4, <1>5, <1>6, Typed, TypedNext DEF IInv
<1>8. Over(s)'
  BY <1>2, <1>3, <1>6 DEF Over
<1> QED BY <1>4, <1>5, <1>6, <1>7, <1>8, Idled, StepOutside

(* endSession finds its session gone: nothing is left to do.               *)
LEMMA EndGetInv ==
    ASSUME IInv, NEW r \in Requests, EndGet(r)
    PROVE  IInv'
<1>1. req[r].at = "logout" /\ UNCHANGED <<now, entry, index, tokens>>
  BY DEF EndGet
<1>2. /\ req[r].sid \in Sids /\ Owner(req[r].sid) # NoUser /\ req[r].user \in Users
  BY <1>1 DEF IInv, RequestsOK, ReqOK, Ending, Leaving
<1>3. PICK s \in Sids : s = req[r].sid
  BY <1>2
<1>4. CASE Goto(r, "logout.del") /\ UNCHANGED history
  <2>1. "logout.del" \in Steps
    BY DEF Steps
  <2>2. /\ req' \in [Requests -> Request] /\ Beside(r)
        /\ req'[r].at = "logout.del" /\ req'[r].user = req[r].user /\ req'[r].sid = req[r].sid
    BY <1>4, <2>1, GotoType DEF IInv
  <2>3. Owner(req[r].sid)' # NoUser
    BY <1>2, <1>4, <2>2 DEF Owner
  <2>4. ReqOK(r)' /\ req'[r].at \notin Opening
    BY <1>2, <2>2, <2>3
       DEF ReqOK, Early, Opening, Added, Passing, Getting, Evicting, Asking, Sliding, Leaving, Ending, Clearing
  <2> QED BY <1>1, <1>4, <2>2, <2>4, QuietOutside
<1>5. CASE ~Live(s) /\ Finish(r) /\ RevokedAtOnce(s)
  <2>1. /\ req' \in [Requests -> Request] /\ req'[r] = Idle /\ Beside(r)
    BY <1>5, FinishType DEF IInv
  <2>2. /\ history' \in History /\ history'.owner = history.owner
        /\ history'.raced = history.raced \cup Racing(s)
        /\ history'.unlisted = history.unlisted
        /\ history'.revoked = history.revoked \cup {s}
    BY <1>5, RevokedAtOnceType
  <2>3. \A t \in Sids : Owner(t)' = Owner(t) /\ (Live(t)' <=> Live(t))
    BY <1>1, <2>2 DEF Owner, Live
  <2>4. \A t \in Sids : Listed(t) => Listed(t)'
    BY <1>1, <2>2, <2>3 DEF Listed, Members, Owner
  <2>5. Aging /\ Issuing(r)
    BY <1>1, <2>2, <2>3, <2>4 DEF Aging, Issuing, Issued, IInv, TokensOK
  <2>6. IndexOwned'
    BY <1>1, <2>2, Typed DEF IInv, IndexOwned, Owner
  <2>7. TypeOK'
    BY <1>1, <2>1, <2>2, <2>6, Typed, TypedNext DEF IInv
  <2>8. Over(s)'
    BY <1>2, <1>3, <1>5, <2>3 DEF Over
  <2> QED BY <2>1, <2>2, <2>5, <2>7, <2>8, Idled, StepOutside
<1> QED BY <1>3, <1>4, <1>5 DEF EndGet

-----------------------------------------------------------------------------
(* Indexes written                                                         *)

(* An index may forget what is over, and what the history notes.           *)
LEMMA Reindexed ==
    ASSUME IInv, UNCHANGED <<now, entry, tokens>>, history' \in History,
           history'.owner = history.owner, history'.raced = history.raced,
           history.unlisted \subseteq history'.unlisted,
           \A u \in Users : \A t \in Members(u) :
               \/ t \in Members(u)'
               \/ ~Live(t)
               \/ t \in history.raced \cup history'.unlisted
    PROVE  /\ Aging /\ \A r \in Requests : Issuing(r)
           /\ \A t \in Sids : /\ Owner(t)' = Owner(t) /\ (Live(t)' <=> Live(t))
                              /\ Over(t)' <=> Over(t)
<1>1. \A t \in Sids : Owner(t)' = Owner(t) /\ (Live(t)' <=> Live(t))
  BY DEF Owner, Live
<1>2. \A t \in Sids : Owner(t) \in Users \cup {NoUser}
  BY Typed DEF IInv, History, Owner
<1>3. ASSUME NEW t \in Sids, Owner(t) # NoUser, Listed(t)
      PROVE  Listed(t)'
  <2>1. PICK u \in Users : u = Owner(t) /\ Owner(t)' = u
    BY <1>1, <1>2, <1>3
  <2>2. \/ ~Live(t)' \/ t \in Members(u)' \/ t \in history'.raced \cup history'.unlisted
    BY <1>1, <1>3, <2>1 DEF Listed
  <2>3. Members(u)' = Members(Owner(t))'
    BY <2>1 DEF Members, Owner
  <2> QED BY <2>2, <2>3 DEF Listed
<1>4. \A r \in Requests : Issuing(r)
  BY DEF Issuing, Issued, IInv, TokensOK
<1>5. \A t \in Sids : Over(t)' <=> Over(t)
  BY <1>1 DEF Over
<1> QED BY <1>1, <1>3, <1>4, <1>5 DEF Aging

LEMMA IndexTypes ==
    ASSUME TypeOK
    PROVE  /\ NoIndex \in Index /\ NoIndex.members = {}
           /\ \A u \in Users : /\ index[u] \in Index /\ index[u].members \subseteq Sids
                               /\ index[u].lapse \in 0..Never
           /\ \A X \in SUBSET Sids : /\ [members |-> X, lapse |-> Never] \in Index
                                     /\ [members |-> X, lapse |-> Never].members = X
                                     /\ [members |-> X, lapse |-> Never].lapse = Never
           /\ now + SessionDuration \in 0..Never /\ now < now + SessionDuration /\ now < Never
<1>1. Never \in Nat /\ 0 \in 0..Never /\ Never \in 0..Never
  BY Clocks
<1>2. index \in [Users -> Index]
  BY Typed
<1> QED BY <1>1, <1>2, Clocks DEF NoIndex, Index

LEMMA SremType ==
    ASSUME IInv, UNCHANGED <<now, entry, tokens>>, NEW u \in Users, NEW s \in Sids, Srem(u, s)
    PROVE  /\ index' \in [Users -> Index]
           /\ \A v \in Users : /\ index'[v].members \subseteq index[v].members
                               /\ \A t \in Members(v) : t \in Members(v)' \/ (v = u /\ t = s)
<1> DEFINE n == IF Members(u) \subseteq {s} THEN NoIndex
                ELSE [index[u] EXCEPT !.members = Members(u) \ {s}]
<1>0. index \in [Users -> Index]
  BY Typed DEF IInv
<1>1. index' = [index EXCEPT ![u] = n]
  BY <1>0 DEF Srem
<1>2. /\ n \in Index /\ n.members \subseteq index[u].members
      /\ ~(Members(u) \subseteq {s}) => n.members = index[u].members \ {s} /\ n.lapse = index[u].lapse
  <2>1. n \in Index /\ n.members \subseteq index[u].members
    <3>1. index[u] \in Index /\ NoIndex \in Index /\ NoIndex.members = {}
      BY IndexTypes DEF IInv
    <3> QED BY <3>1 DEF Index, Members
  <2>2. ~(Members(u) \subseteq {s}) => n.members = index[u].members \ {s} /\ n.lapse = index[u].lapse
    BY IndexTypes DEF IInv, Index, Members
  <2> QED BY <2>1, <2>2
<1> HIDE DEF n
<1>3. /\ index' \in [Users -> Index] /\ index'[u] = n
      /\ \A v \in Users : v # u => index'[v] = index[v]
  BY <1>0, <1>1, <1>2
<1>4. ASSUME NEW v \in Users, NEW t \in Members(v)
      PROVE  t \in Members(v)' \/ (v = u /\ t = s)
  <2>1. CASE v # u
    BY <1>3, <1>4, <2>1 DEF Members
  <2>2. CASE v = u /\ t # s
    BY <1>2, <1>3, <1>4, <2>2 DEF Members
  <2> QED BY <2>1, <2>2
<1>5. \A v \in Users : index'[v].members \subseteq index[v].members
  BY <1>2, <1>3
<1> QED BY <1>3, <1>4, <1>5

LEMMA Shrunk ==
    ASSUME TypeOK, history'.owner = history.owner,
           \A v \in Users : index'[v].members \subseteq index[v].members
    PROVE  IndexOwned'
BY Typed DEF IndexOwned, Owner

(* SREM of a session that is over.                                         *)
LEMMA SremOver ==
    ASSUME IInv, UNCHANGED <<now, entry, tokens, history>>, NEW u \in Users, NEW s \in Sids,
           Srem(u, s), Over(s), req' \in [Requests -> Request]
    PROVE  /\ TypeOK' /\ Aging /\ \A r \in Requests : Issuing(r)
           /\ \A t \in Sids : /\ Owner(t)' = Owner(t) /\ (Live(t)' <=> Live(t))
                              /\ Over(t)' <=> Over(t)
<1>1. /\ index' \in [Users -> Index]
      /\ \A v \in Users : /\ index'[v].members \subseteq index[v].members
                          /\ \A t \in Members(v) : t \in Members(v)' \/ (v = u /\ t = s)
  BY SremType
<1>2. IndexOwned'
  BY <1>1, Shrunk DEF IInv
<1>3. TypeOK'
  BY <1>1, <1>2, Typed, TypedNext DEF IInv
<1>4. \A v \in Users : \A t \in Members(v) :
         \/ t \in Members(v)' \/ ~Live(t) \/ t \in history.raced \cup history'.unlisted
  BY <1>1 DEF Over
<1>5. history' \in History
  BY Typed DEF IInv
<1> QED BY <1>3, <1>4, <1>5, Reindexed

LEMMA CreateSaddInv ==
    ASSUME IInv, NEW r \in Requests, CreateSadd(r)
    PROVE  IInv'
<1>1. /\ req[r].at = "login.sadd" /\ UNCHANGED <<now, entry, tokens, history>>
      /\ Goto(r, "login.expire") /\ Sadd(req[r].user, req[r].sid) /\ "login.expire" \in Steps
  BY DEF CreateSadd, Steps
<1>2. /\ req[r].user \in Users /\ req[r].sid \in Sids /\ Owner(req[r].sid) = req[r].user
      /\ ~Issued(req[r].sid) /\ req[r].todo = {} /\ req[r].found = {}
  BY <1>1 DEF IInv, RequestsOK, ReqOK, Opening, Early
<1>3. PICK s \in Sids : s = req[r].sid
  BY <1>2
<1>4. PICK u \in Users : u = req[r].user
  BY <1>2
<1> DEFINE n == IF Members(u) = {} THEN [members |-> {s}, lapse |-> Never]
                ELSE [index[u] EXCEPT !.members = Members(u) \cup {s}]
<1>0. index \in [Users -> Index]
  BY Typed DEF IInv
<1>5. index' = [index EXCEPT ![u] = n]
  BY <1>0, <1>1, <1>3, <1>4 DEF Sadd
<1>6. /\ n \in Index /\ n.members \subseteq index[u].members \cup {s} /\ s \in n.members
      /\ now < n.lapse /\ Members(u) \subseteq n.members
  <2>1. CASE Members(u) = {}
    BY <2>1, IndexTypes DEF IInv
  <2>2. CASE Members(u) # {}
    <3>1. n = [index[u] EXCEPT !.members = index[u].members \cup {s}] /\ now < index[u].lapse
          /\ Members(u) = index[u].members
      BY <2>2 DEF Members
    <3>2. index[u] \in Index
      BY IndexTypes DEF IInv
    <3> QED BY <3>1, <3>2 DEF Index
  <2> QED BY <2>1, <2>2
<1> HIDE DEF n
<1>7. /\ index' \in [Users -> Index] /\ index'[u] = n
      /\ \A v \in Users : v # u => index'[v] = index[v]
  BY <1>0, <1>5, <1>6
<1>8. \A v \in Users : \A t \in Members(v) : t \in Members(v)'
  BY <1>1, <1>6, <1>7 DEF Members
<1>9. history' \in History
  BY <1>1, Typed DEF IInv
<1>10. /\ Aging /\ Issuing(r) /\ \A t \in Sids : Owner(t)' = Owner(t)
  BY <1>1, <1>8, <1>9, Reindexed
<1>11. IndexOwned'
  <2> SUFFICES ASSUME NEW v \in Users, NEW t \in index'[v].members PROVE Owner(t)' = v
    BY DEF IndexOwned
  <2>1. CASE v = u /\ t = s
    BY <1>2, <1>3, <1>4, <1>10, <2>1
  <2>2. CASE ~(v = u /\ t = s)
    <3>1. t \in index[v].members
      BY <1>6, <1>7, <2>2
    <3>2. Owner(t) = v /\ t \in Sids
      BY <3>1, Typed, IndexTypes DEF IInv, IndexOwned
    <3> QED BY <1>10, <3>2
  <2> QED BY <2>1, <2>2
<1>12. /\ req' \in [Requests -> Request] /\ Beside(r)
       /\ req'[r].at = "login.expire" /\ req'[r].user = u /\ req'[r].sid = s
       /\ req'[r].todo = {} /\ req'[r].found = {}
  BY <1>1, <1>2, <1>3, <1>4, GotoType DEF IInv
<1>13. TypeOK'
  BY <1>1, <1>7, <1>11, <1>12, Typed, TypedNext DEF IInv
<1>14. s \in Members(u)'
  BY <1>1, <1>6, <1>7 DEF Members
<1>15. Owner(req[r].sid)' = u /\ ~Issued(req[r].sid)' /\ Listed(req[r].sid)'
  <2>1. Owner(s)' = u /\ ~Issued(s)'
    BY <1>1, <1>2, <1>3, <1>4, <1>10 DEF Issued
  <2>2. Owner(req[r].sid)' = u /\ ~Issued(req[r].sid)'
    BY <1>12, <2>1 DEF Owner, Issued
  <2>3. (req[r].sid \in Members(Owner(req[r].sid)))'
    BY <1>12, <1>14, <2>2 DEF Members
  <2> QED BY <2>2, <2>3 DEF Listed
<1>16. ReqOK(r)' /\ Keeps(r) /\ req'[r].at \notin Passing
  <2>1. ReqOK(r)'
    BY <1>12, <1>15
       DEF ReqOK, Early, Opening, Added, Passing, Getting, Evicting, Asking, Sliding, Leaving, Ending, Clearing
  <2> QED BY <1>1, <1>3, <1>12, <2>1 DEF Keeps, Opening, Passing, Getting, Evicting
<1>17. history'.revoked = history.revoked
  BY <1>1
<1> QED BY <1>10, <1>12, <1>13, <1>16, <1>17, StepOutside

LEMMA CreateExpireInv ==
    ASSUME IInv, NEW r \in Requests, CreateExpire(r)
    PROVE  IInv'
<1>1. /\ req[r].at = "login.expire" /\ UNCHANGED <<now, entry, tokens, history>>
      /\ Goto(r, "login.members") /\ ExpireIndex(req[r].user) /\ "login.members" \in Steps
  BY DEF CreateExpire, Steps
<1>2. req[r].at \in Added /\ req[r].user \in Users /\ req[r].todo = {} /\ req[r].found = {}
  BY <1>1 DEF Added, IInv, RequestsOK, ReqOK, Opening, Early
<1>3. PICK u \in Users : u = req[r].user
  BY <1>2
<1>4. /\ index' \in [Users -> Index]
      /\ \A v \in Users : /\ index'[v].members = index[v].members
                          /\ Members(v) \subseteq Members(v)'
  <2>1. CASE Members(u) = {}
    BY <1>1, <1>3, <2>1, Typed DEF ExpireIndex, IInv, Members
  <2>2. CASE Members(u) # {}
    <3> DEFINE l == now + SessionDuration
               n == [index[u] EXCEPT !.lapse = l]
    <3>1. index' = [index EXCEPT ![u] = n] /\ index \in [Users -> Index]
      BY <1>1, <1>3, <2>2, Typed DEF ExpireIndex, IInv
    <3>2. l \in 0..Never /\ now < l /\ index[u] \in Index
      BY IndexTypes DEF IInv
    <3> HIDE DEF l
    <3>3. n \in Index /\ n.members = index[u].members /\ n.lapse = l
      BY <3>2 DEF Index
    <3> HIDE DEF n
    <3>4. /\ index' \in [Users -> Index] /\ index'[u] = n
          /\ \A v \in Users : v # u => index'[v] = index[v]
      BY <3>1, <3>3
    <3> QED BY <1>1, <3>2, <3>3, <3>4 DEF Members
  <2> QED BY <2>1, <2>2
<1>5. history' \in History
  BY <1>1, Typed DEF IInv
<1>6. /\ Aging /\ Issuing(r)
  BY <1>1, <1>4, <1>5, Reindexed
<1>7. IndexOwned'
  BY <1>1, <1>4, Shrunk DEF IInv
<1>8. /\ req' \in [Requests -> Request] /\ Beside(r)
      /\ req'[r].at = "login.members" /\ req'[r].user = req[r].user /\ req'[r].sid = req[r].sid
      /\ req'[r].todo = {} /\ req'[r].found = {}
  BY <1>1, <1>2, GotoType DEF IInv
<1>9. TypeOK'
  BY <1>1, <1>4, <1>7, <1>8, Typed, TypedNext DEF IInv
<1>10. ReqOK(r)' /\ Keeps(r)
  BY <1>1, <1>2, <1>6, <1>8, AddingOn DEF Added
<1>11. req'[r].at \notin Passing /\ history'.revoked = history.revoked
  BY <1>1, <1>8 DEF Passing, Getting, Evicting
<1> QED BY <1>6, <1>8, <1>9, <1>10, <1>11, StepOutside

LEMMA LimitSremInv ==
    ASSUME IInv, NEW r \in Requests, LimitSrem(r)
    PROVE  IInv'
<1> DEFINE n == [req[r] EXCEPT !.at = "login.get", !.pick = NoSid]
<1>1. /\ req[r].at = "login.srem" /\ UNCHANGED <<now, entry, tokens, history>>
      /\ req' = [req EXCEPT ![r] = n] /\ Srem(req[r].user, req[r].pick)
  BY DEF LimitSrem, IInv, TypeOK
<1>2. /\ req[r] \in Request /\ req[r].at \in Added /\ req[r].at \in Passing
      /\ req[r].user \in Users /\ req[r].pick \in Sids /\ Over(req[r].pick)
      /\ \A t \in req[r].todo \cup req[r].found : Owner(t) # NoUser
  BY <1>1 DEF IInv, TypeOK, Added, Passing, Opening, Getting, RequestsOK, ReqOK
<1>3. /\ n \in Request /\ n.sid = req[r].sid /\ n.user = req[r].user /\ n.at = "login.get"
      /\ n.todo = req[r].todo /\ n.found = req[r].found
  BY <1>2 DEF Request, Steps
<1> HIDE DEF n
<1>4. /\ req' \in [Requests -> Request] /\ req'[r] = n /\ Beside(r)
  BY <1>1, <1>3 DEF IInv, TypeOK, Beside
<1>5. TypeOK' /\ Aging /\ Issuing(r)
  BY <1>1, <1>2, <1>4, SremOver
<1>6. /\ req'[r].at \in Added /\ req'[r].at \notin Early /\ req'[r].at \in Getting
  BY <1>3, <1>4 DEF Added, Passing, Getting, Early
<1>7. ReqOK(r)' /\ Keeps(r)
  BY <1>1, <1>2, <1>3, <1>4, <1>5, <1>6, AddingOn
<1>8. KeepsLimit(r)
  <2> SUFFICES ASSUME NEW X \in SUBSET Sids, Enforces(r, X)
               PROVE  Enforces(r, X)'
    BY <1>2, <1>3, <1>4 DEF KeepsLimit
  <2>1. req[r].sid \in X /\ X \subseteq req[r].todo \cup req[r].found
    BY <1>1 DEF Enforces, Evicting
  <2> QED BY <1>3, <1>4, <1>6, <2>1 DEF Enforces
<1>9. LimitOK'
  BY <1>4, <1>5, <1>8, LimitStep
<1>10. history'.revoked = history.revoked
  BY <1>1
<1> QED BY <1>1, <1>4, <1>5, <1>7, <1>9, <1>10, Step

LEMMA LimitEvictInv ==
    ASSUME IInv, NEW r \in Requests, LimitEvict(r)
    PROVE  IInv'
<1> DEFINE at == IF req[r].todo = {} THEN "login.tokens" ELSE "login.del"
           n == [req[r] EXCEPT !.at = at, !.pick = NoSid]
<1>1. /\ req[r].at = "login.evict" /\ UNCHANGED <<now, entry, tokens, history>>
      /\ req' = [req EXCEPT ![r] = n] /\ Srem(req[r].user, req[r].pick)
  BY DEF LimitEvict, IInv, TypeOK
<1>2. /\ req[r] \in Request /\ req[r].at \in Added /\ req[r].at \in Passing
      /\ req[r].user \in Users /\ req[r].pick \in Sids /\ Over(req[r].pick)
      /\ \A t \in req[r].todo \cup req[r].found : Owner(t) # NoUser
  BY <1>1 DEF IInv, TypeOK, Added, Passing, Opening, Evicting, RequestsOK, ReqOK
<1>a. /\ at \in {"login.tokens", "login.del"}
      /\ req[r].todo # {} => at = "login.del"
  OBVIOUS
<1> HIDE DEF at
<1>3. /\ n \in Request /\ n.sid = req[r].sid /\ n.user = req[r].user /\ n.at = at
      /\ n.todo = req[r].todo /\ n.found = req[r].found
  BY <1>2, <1>a DEF Request, Steps
<1> HIDE DEF n
<1>4. /\ req' \in [Requests -> Request] /\ req'[r] = n /\ Beside(r)
  BY <1>1, <1>3 DEF IInv, TypeOK, Beside
<1>5. TypeOK' /\ Aging /\ Issuing(r)
  BY <1>1, <1>2, <1>4, SremOver
<1>6. /\ req'[r].at \in Added /\ req'[r].at \notin Early
      /\ req'[r].at \notin {"login.srem", "login.evict"}
  BY <1>a, <1>3, <1>4 DEF Added, Passing, Evicting, Early
<1>7. ReqOK(r)' /\ Keeps(r)
  BY <1>1, <1>2, <1>3, <1>4, <1>5, <1>6, AddingOn
<1>8. KeepsLimit(r)
  <2> SUFFICES ASSUME NEW X \in SUBSET Sids, Enforces(r, X)
               PROVE  Enforces(r, X)'
    BY <1>2, <1>3, <1>4 DEF KeepsLimit
  <2>1. req[r].sid \in X /\ X \cap req[r].todo # {}
    BY <1>1 DEF Enforces, Getting
  <2>2. req'[r].at \in Evicting /\ req'[r].todo = req[r].todo
    BY <1>a, <1>3, <1>4, <2>1 DEF Evicting
  <2> QED BY <1>3, <1>4, <2>1, <2>2 DEF Enforces
<1>9. LimitOK'
  BY <1>4, <1>5, <1>8, LimitStep
<1>10. history'.revoked = history.revoked
  BY <1>1
<1> QED BY <1>1, <1>4, <1>5, <1>7, <1>9, <1>10, Step

LEMMA EndSremInv ==
    ASSUME IInv, NEW r \in Requests, EndSrem(r)
    PROVE  IInv'
<1>1. /\ req[r].at = "logout.srem" /\ UNCHANGED <<now, entry, tokens>>
      /\ Srem(req[r].user, req[r].sid) /\ Finish(r)
      /\ history' = [history EXCEPT !.revoked = @ \cup {req[r].sid}]
  BY DEF EndSrem
<1>2. /\ req[r].user \in Users /\ req[r].sid \in Sids /\ Over(req[r].sid)
  BY <1>1 DEF IInv, RequestsOK, ReqOK, Ending, Leaving
<1>3. PICK s \in Sids : s = req[r].sid
  BY <1>2
<1>4. /\ history' \in History /\ history'.owner = history.owner
      /\ history'.raced = history.raced /\ history'.unlisted = history.unlisted
      /\ history'.revoked = history.revoked \cup {s}
  <2>1. history \in History /\ history.revoked \cup {s} \in SUBSET Sids
    BY Typed DEF IInv, History
  <2> QED BY <1>1, <1>3, <2>1 DEF History
<1>5. /\ index' \in [Users -> Index]
      /\ \A v \in Users : /\ index'[v].members \subseteq index[v].members
                          /\ \A t \in Members(v) : t \in Members(v)' \/ t = s
  BY <1>1, <1>2, <1>3, SremType
<1>6. IndexOwned'
  BY <1>4, <1>5, Shrunk DEF IInv
<1>7. /\ req' \in [Requests -> Request] /\ req'[r] = Idle /\ Beside(r)
  BY <1>1, FinishType DEF IInv
<1>8. TypeOK'
  BY <1>1, <1>4, <1>5, <1>6, <1>7, Typed, TypedNext DEF IInv
<1>9. \A v \in Users : \A t \in Members(v) :
         \/ t \in Members(v)' \/ ~Live(t) \/ t \in history.raced \cup history'.unlisted
  BY <1>2, <1>3, <1>5 DEF Over
<1>10. Aging /\ Issuing(r) /\ (Over(s)' <=> Over(s))
  BY <1>1, <1>4, <1>9, Reindexed
<1>11. \A t \in history'.revoked : t \in history.revoked \/ Over(t)'
  BY <1>2, <1>3, <1>4, <1>10
<1> QED BY <1>7, <1>8, <1>10, <1>11, Idled, StepOutside

(* The history notes what an index loses on its own account.               *)
LEMMA UnlistedType ==
    ASSUME IInv, NEW X \in SUBSET Sids
    PROVE  /\ Unlisted(X) \in SUBSET Sids /\ history.unlisted \subseteq Unlisted(X)
           /\ \A t \in X : Live(t) => t \in Unlisted(X)
BY Typed DEF IInv, History, Unlisted

LEMMA OpsSremInv ==
    ASSUME IInv, NEW r \in Requests, OpsSrem(r)
    PROVE  IInv'
<1>1. /\ req[r].at = "ops.srem" /\ UNCHANGED <<now, entry, tokens>>
      /\ Srem(Owner(req[r].sid), req[r].sid) /\ Goto(r, "ops.del") /\ "ops.del" \in Steps
      /\ history' = [history EXCEPT !.unlisted = Unlisted({req[r].sid})]
  BY DEF OpsSrem, Steps
<1>2. /\ req[r].sid \in Sids /\ Owner(req[r].sid) # NoUser
  BY <1>1 DEF IInv, RequestsOK, ReqOK, Ending
<1>3. PICK s \in Sids : s = req[r].sid
  BY <1>2
<1>4. Owner(s) \in Users
  BY <1>2, <1>3, Typed DEF IInv, History, Owner
<1> DEFINE X == Unlisted({s})
<1>5. X \in SUBSET Sids /\ history.unlisted \subseteq X /\ (Live(s) => s \in X)
  BY UnlistedType
<1>x. history' = [history EXCEPT !.unlisted = X]
  BY <1>1, <1>3
<1> HIDE DEF X
<1>6. /\ history' \in History /\ history'.owner = history.owner
      /\ history'.raced = history.raced /\ history'.unlisted = X
      /\ history'.revoked = history.revoked
  <2>1. history \in History
    BY Typed DEF IInv
  <2> QED BY <1>5, <1>x, <2>1 DEF History
<1>7. /\ index' \in [Users -> Index]
      /\ \A v \in Users : /\ index'[v].members \subseteq index[v].members
                          /\ \A t \in Members(v) : t \in Members(v)' \/ t = s
  BY <1>1, <1>3, <1>4, SremType
<1>8. IndexOwned'
  BY <1>6, <1>7, Shrunk DEF IInv
<1>9. /\ req' \in [Requests -> Request] /\ Beside(r)
      /\ req'[r].at = "ops.del" /\ req'[r].sid = s
  BY <1>1, <1>3, GotoType DEF IInv
<1>10. TypeOK'
  BY <1>1, <1>6, <1>7, <1>8, <1>9, Typed, TypedNext DEF IInv
<1>11. \A v \in Users : \A t \in Members(v) :
         \/ t \in Members(v)' \/ ~Live(t) \/ t \in history.raced \cup history'.unlisted
  BY <1>5, <1>6, <1>7
<1>12. Aging /\ Issuing(r) /\ Owner(s)' = Owner(s)
  BY <1>1, <1>5, <1>6, <1>11, Reindexed
<1>13. Owner(req[r].sid)' # NoUser
  BY <1>2, <1>3, <1>9, <1>12 DEF Owner
<1>14. ReqOK(r)' /\ req'[r].at \notin Opening /\ req'[r].at \notin Passing
  BY <1>9, <1>13
     DEF ReqOK, Early, Opening, Added, Passing, Getting, Evicting, Asking, Sliding, Leaving, Ending, Clearing
<1>15. Keeps(r)
  BY <1>14 DEF Keeps
<1> QED BY <1>6, <1>9, <1>10, <1>12, <1>14, <1>15, StepOutside

LEMMA EndAllDelIndexInv ==
    ASSUME IInv, NEW r \in Requests, EndAllDelIndex(r)
    PROVE  IInv'
<1> DEFINE lost == Members(req[r].user) \ req[r].found
           X == Unlisted(lost)
           Y == history.revoked \cup req[r].found
<1>1. /\ req[r].at = "all.delindex" /\ UNCHANGED <<now, entry, tokens>>
      /\ DelIndex(req[r].user) /\ Finish(r)
      /\ history' = [history EXCEPT !.revoked = Y, !.unlisted = X]
  BY DEF EndAllDelIndex
<1>2. /\ req[r].user \in Users /\ req[r].found \subseteq Sids
      /\ \A s \in req[r].found : Over(s)
  BY <1>1 DEF IInv, TypeOK, Request, RequestsOK, ReqOK, Clearing
<1>3. PICK u \in Users : u = req[r].user
  BY <1>2
<1>4. lost \in SUBSET Sids /\ \A t \in Members(u) : t \in lost \/ t \in req[r].found
  BY <1>3, MembersType DEF IInv
<1>5. /\ X \in SUBSET Sids /\ history.unlisted \subseteq X
      /\ \A t \in lost : Live(t) => t \in X
  BY <1>4, UnlistedType
<1>6. Y \in SUBSET Sids /\ \A t \in Y : t \in history.revoked \/ t \in req[r].found
  BY <1>2, Typed DEF IInv, History
<1> HIDE DEF lost, X, Y
<1>7. /\ history' \in History /\ history'.owner = history.owner
      /\ history'.raced = history.raced /\ history'.unlisted = X
      /\ history'.revoked = Y
  <2>1. history \in History
    BY Typed DEF IInv
  <2> QED BY <1>1, <1>5, <1>6, <2>1 DEF History
<1>8. /\ index' \in [Users -> Index]
      /\ \A v \in Users : /\ index'[v].members \subseteq index[v].members
                          /\ v # u => Members(v)' = Members(v)
  <2>1. index \in [Users -> Index] /\ NoIndex \in Index /\ NoIndex.members = {}
    BY Typed, IndexTypes DEF IInv
  <2>2. /\ index' \in [Users -> Index] /\ index'[u] = NoIndex
        /\ \A v \in Users : v # u => index'[v] = index[v]
    BY <1>1, <1>3, <2>1 DEF DelIndex
  <2> QED BY <1>1, <2>1, <2>2 DEF Members
<1>9. IndexOwned'
  BY <1>7, <1>8, Shrunk DEF IInv
<1>10. /\ req' \in [Requests -> Request] /\ req'[r] = Idle /\ Beside(r)
  BY <1>1, FinishType DEF IInv
<1>11. TypeOK'
  BY <1>1, <1>7, <1>8, <1>9, <1>10, Typed, TypedNext DEF IInv
<1>12. \A v \in Users : \A t \in Members(v) :
         \/ t \in Members(v)' \/ ~Live(t) \/ t \in history.raced \cup history'.unlisted
  BY <1>2, <1>4, <1>5, <1>7, <1>8 DEF Over
<1>13. /\ Aging /\ Issuing(r) /\ \A t \in Sids : Over(t)' <=> Over(t)
  BY <1>1, <1>5, <1>7, <1>12, Reindexed
<1>14. \A t \in history'.revoked : t \in history.revoked \/ Over(t)'
  BY <1>2, <1>6, <1>7, <1>13
<1> QED BY <1>10, <1>11, <1>13, <1>14, Idled, StepOutside

-----------------------------------------------------------------------------
(* Sessions written                                                        *)

LEMMA WrittenType ==
    ASSUME TypeOK, NEW s \in Sids, NEW u \in Users, NEW c \in 0..MaxTime,
           entry' = [entry EXCEPT ![s] = [user |-> u, created |-> c,
                                          lapse |-> now + SessionDuration]],
           now' = now
    PROVE  /\ entry' \in [Sids -> Entry] /\ Live(s)'
           /\ \A t \in Sids : t # s => entry'[t] = entry[t]
<1> DEFINE l == now + SessionDuration
           n == [user |-> u, created |-> c, lapse |-> l]
<1>1. l \in 0..(MaxTime + SessionDuration) /\ now < l /\ u # NoUser
  BY Clocks, CacheAssumption DEF TypeOK
<1>2. entry' = [entry EXCEPT ![s] = n] /\ entry \in [Sids -> Entry]
  BY Typed
<1> HIDE DEF l
<1>3. n \in Entry /\ n.user = u /\ n.lapse = l
  BY <1>1 DEF Entry
<1> HIDE DEF n
<1>4. /\ entry' \in [Sids -> Entry] /\ entry'[s] = n
      /\ \A t \in Sids : t # s => entry'[t] = entry[t]
  BY <1>2, <1>3
<1> QED BY <1>1, <1>3, <1>4 DEF Live

LEMMA CreateSetInv ==
    ASSUME IInv, NEW r \in Requests, NEW s \in Sids, CreateSet(r, s)
    PROVE  IInv'
<1> DEFINE o == [history.owner EXCEPT ![s] = req[r].user]
           n == [req[r] EXCEPT !.at = "login.sadd", !.sid = s, !.created = 0]
<1>1. /\ req[r].at = "login.set" /\ Owner(s) = NoUser /\ UNCHANGED <<now, index, tokens>>
      /\ entry' = [entry EXCEPT ![s] = [user |-> req[r].user, created |-> req[r].created,
                                        lapse |-> now + SessionDuration]]
      /\ history' = [history EXCEPT !.owner = o]
      /\ req' = [req EXCEPT ![r] = n]
  BY DEF CreateSet, IInv, TypeOK
<1>2. /\ req[r] \in Request /\ req[r].user \in Users /\ req[r].todo = {} /\ req[r].found = {}
      /\ 0 \in 0..MaxTime
  BY <1>1, CacheAssumption DEF IInv, TypeOK, RequestsOK, ReqOK, Early
<1>3. PICK u \in Users : u = req[r].user /\ u # NoUser
  BY <1>2, CacheAssumption
<1>4. /\ entry' \in [Sids -> Entry] /\ Live(s)'
      /\ \A t \in Sids : t # s => entry'[t] = entry[t]
  BY <1>1, <1>2, WrittenType DEF IInv, Request
<1>5. history \in History /\ history.owner \in [Sids -> Users \cup {NoUser}]
  BY Typed DEF IInv, History
<1>6. /\ o \in [Sids -> Users \cup {NoUser}] /\ o[s] = u
      /\ \A t \in Sids : t # s => o[t] = history.owner[t]
  BY <1>3, <1>5
<1> HIDE DEF o
<1>7. /\ history' \in History /\ history'.owner = o
      /\ history'.raced = history.raced /\ history'.unlisted = history.unlisted
      /\ history'.revoked = history.revoked
  BY <1>1, <1>5, <1>6 DEF History
<1>8. /\ Owner(s)' = u
      /\ \A t \in Sids : t # s => Owner(t)' = Owner(t) /\ (Live(t)' <=> Live(t))
  BY <1>1, <1>4, <1>6, <1>7 DEF Owner, Live
<1>9. \A t \in Sids : Owner(t) # NoUser /\ Listed(t) => Listed(t)'
  <2> SUFFICES ASSUME NEW t \in Sids, t # s, Listed(t) PROVE Listed(t)'
    BY <1>1
  <2> QED BY <1>1, <1>7, <1>8 DEF Listed, Members, Owner
<1>10. Aging
  <2>1. \A t \in Sids : Owner(t) # NoUser => Owner(t)' = Owner(t)
    BY <1>1, <1>8
  <2>2. \A t \in Sids : Live(t)' => Live(t) \/ Born(t)
    BY <1>1, <1>3, <1>8 DEF Born
  <2>3. \A t \in Sids : Live(t) => Live(t)'
    BY <1>4, <1>8
  <2> QED BY <1>7, <1>9, <2>1, <2>2, <2>3 DEF Aging
<1>11. Issuing(r) /\ ~Issued(s)
  BY <1>1 DEF Issuing, Issued, IInv, TokensOK
<1>12. IndexOwned'
  <2> SUFFICES ASSUME NEW v \in Users, NEW t \in index[v].members PROVE Owner(t)' = v
    BY <1>1 DEF IndexOwned
  <2>1. Owner(t) = v /\ v # NoUser /\ t \in Sids
    BY Typed, IndexTypes, CacheAssumption DEF IInv, IndexOwned
  <2> QED BY <1>1, <1>8, <2>1
<1>13. /\ n \in Request /\ n.at = "login.sadd" /\ n.sid = s /\ n.user = u
       /\ n.todo = {} /\ n.found = {}
  BY <1>2, <1>3 DEF Request, Steps
<1> HIDE DEF n
<1>14. req' \in [Requests -> Request] /\ req'[r] = n /\ Beside(r)
  BY <1>1, <1>13 DEF IInv, TypeOK, Beside
<1>15. TypeOK'
  BY <1>1, <1>4, <1>7, <1>12, <1>14, Typed, TypedNext DEF IInv
<1>16. Owner(req[r].sid)' = u /\ ~Issued(req[r].sid)'
  BY <1>1, <1>8, <1>11, <1>13, <1>14 DEF Owner, Issued
<1>17. ReqOK(r)' /\ req'[r].at \notin Passing
  BY <1>13, <1>14, <1>16
     DEF ReqOK, Early, Opening, Added, Passing, Getting, Evicting, Asking, Sliding, Leaving, Ending, Clearing
<1>18. Keeps(r)
  BY <1>1, <1>13, <1>14 DEF Keeps
<1> QED BY <1>7, <1>10, <1>11, <1>14, <1>15, <1>17, <1>18, StepOutside

LEMMA SlideSessionInv ==
    ASSUME IInv, NEW r \in Requests, NEW route \in Routes, SlideSession(r, route)
    PROVE  IInv'
<1>1. /\ req[r].at \in Sliding /\ UNCHANGED <<now, index, history>>
  BY DEF SlideSession, Sliding
<1>2. /\ req[r] \in Request /\ req[r].sid \in Sids /\ Issued(req[r].sid)
      /\ Live(req[r].sid) \/ req[r].sid \in history.raced
  BY <1>1 DEF IInv, TypeOK, RequestsOK, ReqOK, Asking, Sliding
<1>3. PICK s \in Sids : s = req[r].sid
  BY <1>2
<1>4. Owner(s) # NoUser
  BY <1>2, <1>3 DEF IInv, TokensOK
<1>5. PICK u \in Users : u = Owner(s) /\ u # NoUser
  BY <1>4, Typed DEF IInv, History, Owner
<1> DEFINE a == now + AccessTtl
           sid == IF route = "logout" THEN s ELSE NoSid
           n == [Idle EXCEPT !.at = route, !.user = u, !.sid = sid]
<1>6. /\ entry' = [entry EXCEPT ![s] = [user |-> u, created |-> req[r].created,
                                        lapse |-> now + SessionDuration]]
      /\ tokens' = [tokens EXCEPT ![s].access = a] \/ tokens' = tokens
      /\ req' = [req EXCEPT ![r] = n]
  BY <1>3, <1>5 DEF SlideSession
<1>7. /\ entry' \in [Sids -> Entry] /\ Live(s)'
      /\ \A t \in Sids : t # s => entry'[t] = entry[t]
  BY <1>1, <1>2, <1>6, WrittenType DEF IInv, Request
<1>8. /\ tokens' \in [Sids -> Pair]
      /\ \A t \in Sids : /\ tokens'[t].refresh = tokens[t].refresh
                         /\ t # s => tokens'[t] = tokens[t]
  <2>1. a \in 0..(MaxTime + AccessTtl) /\ tokens \in [Sids -> Pair]
    BY Clocks, Typed DEF IInv
  <2> HIDE DEF a
  <2> DEFINE p == [tokens[s] EXCEPT !.access = a]
  <2>2. p \in Pair /\ p.refresh = tokens[s].refresh
    BY <2>1 DEF Pair
  <2>3. tokens' = [tokens EXCEPT ![s] = p] \/ tokens' = tokens
    BY <1>6, <2>1
  <2> HIDE DEF p
  <2> QED BY <2>1, <2>2, <2>3
<1>9. \A t \in Sids : /\ Owner(t)' = Owner(t) /\ (Issued(t)' <=> Issued(t))
                      /\ t # s => (Live(t)' <=> Live(t))
  BY <1>1, <1>7, <1>8 DEF Owner, Issued, Live
<1>10. Issuing(r)
  <2>1. \A t \in Sids : tokens[t].access > 0 => Issued(t)
    BY DEF IInv, TokensOK
  <2>2. Issued(s)
    BY <1>2, <1>3 DEF Issued
  <2> QED BY <1>8, <1>9, <2>1, <2>2 DEF Issuing
<1>11. \A t \in Sids : Listed(t) => Listed(t)'
  <2> SUFFICES ASSUME NEW t \in Sids, Listed(t) PROVE Listed(t)'
    OBVIOUS
  <2>1. /\ Live(t)' => Live(t) \/ t \in history.raced
        /\ (t \in Members(Owner(t)))' <=> t \in Members(Owner(t))
    <3>1. Live(s) \/ s \in history.raced
      BY <1>2, <1>3 DEF Live
    <3> QED BY <1>1, <1>9, <3>1 DEF Members, Owner
  <2> QED BY <1>1, <2>1 DEF Listed
<1>12. Aging
  <2>1. Live(s) \/ s \in history.raced
    BY <1>2, <1>3 DEF Live
  <2> QED BY <1>1, <1>7, <1>9, <1>11, <2>1 DEF Aging
<1>13. IndexOwned'
  BY <1>1, Typed DEF IInv, IndexOwned, Owner
<1>14. route \in {"me", "logout", "revokeall"} /\ sid \in Sids \cup {NoSid}
       /\ (route = "logout" => sid = s)
  BY CacheAssumption
<1> HIDE DEF sid
<1>15. n \in Request /\ n.at = route /\ n.user = u /\ n.sid = sid
  BY <1>14, IdleType DEF Request, Steps
<1> HIDE DEF n
<1>16. req' \in [Requests -> Request] /\ req'[r] = n /\ Beside(r)
  BY <1>6, <1>15 DEF IInv, TypeOK, Beside
<1>17. TypeOK'
  BY <1>1, <1>7, <1>8, <1>13, <1>16, Typed, TypedNext DEF IInv
<1>18. route = "logout" => Owner(req[r].sid)' # NoUser
  BY <1>1, <1>5, <1>14, <1>15, <1>16 DEF Owner
<1>19. ReqOK(r)' /\ req'[r].at \notin Opening /\ req'[r].at \notin Passing
  BY <1>14, <1>15, <1>16, <1>18
     DEF ReqOK, Early, Opening, Added, Passing, Getting, Evicting, Asking, Sliding, Leaving, Ending, Clearing
<1>20. Keeps(r) /\ history'.revoked = history.revoked
  BY <1>1, <1>19 DEF Keeps
<1> QED BY <1>10, <1>12, <1>16, <1>17, <1>19, <1>20, StepOutside

LEMMA GenerateTokensInv ==
    ASSUME IInv, NEW r \in Requests, GenerateTokens(r)
    PROVE  IInv'
<1>1. /\ req[r].at = "login.tokens" /\ UNCHANGED <<now, entry, index, history>> /\ Finish(r)
      /\ tokens' = [tokens EXCEPT ![req[r].sid] =
                       [access |-> now + AccessTtl, refresh |-> now + RefreshTtl]]
  BY DEF GenerateTokens
<1>2. req[r].sid \in Sids
  BY <1>1 DEF IInv, RequestsOK, ReqOK, Opening, Added, Passing
<1>3. PICK s \in Sids : s = req[r].sid
  BY <1>2
<1> DEFINE a == now + AccessTtl
           f == now + RefreshTtl
           p == [access |-> a, refresh |-> f]
<1>4. /\ a \in 0..(MaxTime + AccessTtl) /\ f \in 0..(MaxTime + RefreshTtl) /\ f > 0
      /\ tokens \in [Sids -> Pair] /\ tokens' = [tokens EXCEPT ![s] = p]
  BY <1>1, <1>3, Clocks, Typed DEF IInv
<1> HIDE DEF a, f
<1>5. p \in Pair /\ p.refresh = f
  BY <1>4 DEF Pair
<1> HIDE DEF p
<1>6. /\ tokens' \in [Sids -> Pair] /\ tokens'[s] = p
      /\ \A t \in Sids : t # s => tokens'[t] = tokens[t]
  BY <1>4, <1>5
<1>7. Issuing(r)
  <2>1. \A t \in Sids : tokens[t].access > 0 => Issued(t)
    BY DEF IInv, TokensOK
  <2> QED BY <1>1, <1>3, <1>4, <1>5, <1>6, <2>1 DEF Issuing, Issued
<1>8. \A t \in Sids : Owner(t)' = Owner(t) /\ (Live(t)' <=> Live(t)) /\ (Listed(t)' <=> Listed(t))
  BY <1>1 DEF Owner, Live, Listed, Members
<1>9. Aging
  BY <1>1, <1>8 DEF Aging
<1>10. IndexOwned'
  BY <1>1, Typed DEF IInv, IndexOwned, Owner
<1>11. /\ req' \in [Requests -> Request] /\ req'[r] = Idle /\ Beside(r)
  BY <1>1, FinishType DEF IInv
<1>12. TypeOK' /\ history'.revoked = history.revoked
  BY <1>1, <1>6, <1>10, <1>11, Typed, TypedNext DEF IInv
<1> QED BY <1>7, <1>9, <1>11, <1>12, Idled, StepOutside

-----------------------------------------------------------------------------
(* Time, and all together                                                  *)

(* No request takes a step.                                                *)
LEMMA Still ==
    ASSUME IInv, TypeOK', Aging, \A s \in Sids : Owner(s)' = Owner(s),
           UNCHANGED <<tokens, req>>, history'.revoked = history.revoked
    PROVE  IInv'
<1>1. \A s \in Sids : Issued(s)' <=> Issued(s)
  BY DEF Issued
<1>2. RequestsOK'
  <2> SUFFICES ASSUME NEW q \in Requests PROVE ReqOK(q)'
    BY DEF RequestsOK
  <2> QED BY <1>1, Others
<1>3. Apart'
  BY DEF IInv, Apart
<1>4. TokensOK'
  BY <1>1 DEF IInv, TokensOK, Aging
<1>5. RevokedOK'
  BY OverStays DEF IInv, RevokedOK, TypeOK
<1>6. LimitOK'
  <2> SUFFICES ASSUME NEW u \in Users, NEW X \in SUBSET Sids,
                      \A s \in X : Owner(s)' = u /\ Good(s)' /\ Passed(s)',
                      ~(Cardinality(X) <= MaxSessions)
               PROVE  \E q \in Requests : Enforces(q, X)'
    BY DEF LimitOK
  <2>1. \A s \in X : Passed(s)
    BY <1>1 DEF Passed, PassedBy
  <2>2. \A s \in X : Owner(s) = u /\ Good(s)
    BY <2>1, PassedOwner, GoodBefore
  <2>3. PICK q \in Requests : Enforces(q, X)
    BY <2>1, <2>2 DEF IInv, LimitOK
  <2>4. Enforces(q, X)'
    BY <2>3 DEF Enforces
  <2> QED BY <2>4
<1> QED BY <1>2, <1>3, <1>4, <1>5, <1>6 DEF IInv

LEMMA TickInv ==
    ASSUME IInv, Tick
    PROVE  IInv'
<1> DEFINE lapsed == {s \in Sids : entry[s].user # NoUser /\ entry[s].lapse = now + 1}
           cut == {u \in Users : index[u].lapse = now + 1}
           X == history.raced \cup UNION {Racing(s) : s \in lapsed}
           lost == (UNION {index[u].members : u \in cut}) \ lapsed
           Y == Unlisted(lost)
<1>1. /\ now \in Nat /\ now' = now + 1 /\ now' \in 0..MaxTime
      /\ UNCHANGED <<entry, index, tokens, req>>
      /\ history' = [history EXCEPT !.raced = X, !.unlisted = Y]
  BY Clocks DEF Tick, IInv
<1>2. /\ \A s \in Sids : entry[s].lapse \in Nat
      /\ \A u \in Users : index[u].lapse \in Nat /\ index[u].members \subseteq Sids
  BY Clocks DEF IInv
<1>3. /\ X \in SUBSET Sids /\ history.raced \subseteq X
      /\ \A s \in lapsed : Slides(s) => s \in X
  <2>1. history.raced \subseteq Sids /\ \A s \in lapsed : Racing(s) \subseteq {s}
    BY Typed, RacingType DEF IInv, History
  <2>2. \A s \in lapsed : Slides(s) => s \in Racing(s)
    BY RacingType DEF IInv
  <2> QED BY <2>1, <2>2
<1>4. lost \in SUBSET Sids /\ \A u \in cut : \A s \in index[u].members : s \in lost \/ s \in lapsed
  <2>1. \A u \in cut : u \in Users /\ index[u].members \subseteq Sids
    BY <1>2
  <2> HIDE DEF cut, lapsed
  <2>2. lost \subseteq Sids
    BY <2>1
  <2>3. ASSUME NEW u \in cut, NEW s \in index[u].members, s \notin lapsed
        PROVE  s \in lost
    <3>1. index[u].members \in {index[v].members : v \in cut}
      OBVIOUS
    <3>2. s \in UNION {index[v].members : v \in cut}
      BY <3>1
    <3> QED BY <2>3, <3>2
  <2> HIDE DEF lost
  <2> QED BY <2>2, <2>3
<1>5. /\ Y \in SUBSET Sids /\ history.unlisted \subseteq Y
      /\ \A s \in lost : Live(s) => s \in Y
  BY <1>4, UnlistedType
<1>6. /\ \A s \in Sids : s \in lapsed <=> entry[s].user # NoUser /\ entry[s].lapse = now + 1
      /\ \A u \in Users : u \in cut <=> index[u].lapse = now + 1
  OBVIOUS
<1> HIDE DEF lapsed, cut, X, lost, Y
<1>7. /\ history' \in History /\ history'.owner = history.owner
      /\ history'.raced = X /\ history'.unlisted = Y /\ history'.revoked = history.revoked
  <2>1. history \in History
    BY Typed DEF IInv
  <2> QED BY <1>1, <1>3, <1>5, <2>1 DEF History
<1>8. \A s \in Sids : /\ Owner(s)' = Owner(s) /\ Owner(s) \in Users \cup {NoUser}
                      /\ Live(s)' => Live(s) /\ s \notin lapsed
                      /\ Live(s) => Live(s)' \/ s \in lapsed
  <2>1. \A s \in Sids : Owner(s)' = Owner(s) /\ Owner(s) \in Users \cup {NoUser}
    BY <1>7, Typed DEF IInv, History, Owner
  <2>2. \A s \in Sids : /\ Live(s)' => Live(s) /\ s \notin lapsed
                        /\ Live(s) => Live(s)' \/ s \in lapsed
    BY <1>1, <1>2, <1>6 DEF Live
  <2> QED BY <2>1, <2>2
<1>9. ASSUME NEW s \in Sids, Owner(s) # NoUser, Listed(s)
      PROVE  Listed(s)'
  <2> SUFFICES ASSUME Live(s)', s \notin X, s \notin Y
               PROVE  (s \in Members(Owner(s)))'
    BY <1>7 DEF Listed
  <2>1. PICK u \in Users : u = Owner(s) /\ Owner(s)' = u
    BY <1>8, <1>9
  <2>2. s \in Members(u)
    BY <1>3, <1>5, <1>8, <1>9, <2>1 DEF Listed
  <2>3. s \in index[u].members /\ now < index[u].lapse
    BY <2>2 DEF Members
  <2>4. u \notin cut
    BY <1>4, <1>5, <1>8, <2>3
  <2>5. s \in Members(u)'
    BY <1>1, <1>2, <1>6, <2>3, <2>4 DEF Members
  <2> QED BY <2>1, <2>5 DEF Members, Owner
<1>10. Aging
  BY <1>3, <1>5, <1>7, <1>8, <1>9 DEF Aging
<1>11. IndexOwned'
  BY <1>1, <1>7, Shrunk DEF IInv
<1>12. TypeOK'
  BY <1>1, <1>7, <1>11, Typed, TypedNext DEF IInv
<1> QED BY <1>1, <1>7, <1>8, <1>10, <1>12, Still

LEMMA InitInv == Init => IInv
<1> SUFFICES ASSUME Init PROVE IInv
  OBVIOUS
<1>1. /\ now = 0 /\ 0 \in 0..MaxTime /\ 0 \in 0..(MaxTime + SessionDuration) /\ 0 \in 0..Never
      /\ 0 \in 0..(MaxTime + AccessTtl) /\ 0 \in 0..(MaxTime + RefreshTtl)
      /\ entry = [s \in Sids |-> NoEntry] /\ index = [u \in Users |-> NoIndex]
      /\ tokens = [s \in Sids |-> [access |-> 0, refresh |-> 0]]
      /\ req = [r \in Requests |-> Idle]
  BY CacheAssumption DEF Init, Never
<1>2. /\ history \in History /\ history.revoked = {} /\ \A s \in Sids : Owner(s) = NoUser
  BY DEF Init, History, Owner
<1>3. /\ NoEntry \in Entry /\ NoEntry.user = NoUser /\ NoIndex \in Index /\ NoIndex.members = {}
      /\ [access |-> 0, refresh |-> 0] \in Pair
  BY <1>1 DEF NoEntry, NoIndex, Entry, Index, Pair
<1>4. IndexOwned
  BY <1>1, <1>3 DEF IndexOwned
<1>5. TypeOK
  BY <1>1, <1>2, <1>3, <1>4, IdleType, Typed
<1>6. \A s \in Sids : ~Live(s) /\ ~Issued(s) /\ ~(tokens[s].access > 0)
  BY <1>1, <1>3 DEF Live, Issued
<1>7. \A r \in Requests : req[r].at = "idle"
  BY <1>1, IdleType
<1>8. RequestsOK /\ Apart
  BY <1>7 DEF RequestsOK, Apart,
     ReqOK, Early, Opening, Added, Passing, Getting, Evicting, Asking, Sliding, Leaving, Ending, Clearing
<1>9. TokensOK /\ RevokedOK
  BY <1>2, <1>6 DEF TokensOK, RevokedOK
<1>10. LimitOK
  <2> SUFFICES ASSUME NEW u \in Users, NEW X \in SUBSET Sids, \A s \in X : Good(s),
                      ~(Cardinality(X) <= MaxSessions)
               PROVE  FALSE
    BY DEF LimitOK
  <2>1. X = {}
    BY <1>6 DEF Good
  <2> QED BY <2>1, FS_EmptySet, CacheAssumption
<1> QED BY <1>5, <1>8, <1>9, <1>10 DEF IInv

LEMMA StepInv == IInv /\ [Next]_vars => IInv'
<1> SUFFICES ASSUME IInv, [Next]_vars PROVE IInv'
  OBVIOUS
<1>1. CASE \/ \E r \in Requests, u \in Users : Login(r, u)
           \/ \E r \in Requests, s \in Sids : CreateSet(r, s)
           \/ \E r \in Requests : CreateSadd(r)
           \/ \E r \in Requests : CreateExpire(r)
  BY <1>1, LoginInv, CreateSetInv, CreateSaddInv, CreateExpireInv
<1>2. CASE \/ \E r \in Requests : LimitMembers(r)
           \/ \E r \in Requests, s \in Sids : LimitGet(r, s)
           \/ \E r \in Requests : LimitSrem(r)
           \/ \E r \in Requests, evicted \in SUBSET Sids : LimitDecide(r, evicted)
  BY <1>2, LimitMembersInv, LimitGetInv, LimitSremInv, LimitDecideInv
<1>3. CASE \/ \E r \in Requests, s \in Sids : LimitDel(r, s)
           \/ \E r \in Requests : LimitEvict(r)
           \/ \E r \in Requests : GenerateTokens(r)
  BY <1>3, LimitDelInv, LimitEvictInv, GenerateTokensInv
<1>4. CASE \E r \in Requests, s \in Sids, access \in BOOLEAN, refresh \in BOOLEAN :
               Arrive(r, s, access, refresh)
  BY <1>4, ArriveInv
<1>5. CASE \/ \E r \in Requests : GetSession(r)
           \/ \E r \in Requests : GetMissing(r)
           \/ \E r \in Requests, route \in Routes : SlideSession(r, route)
           \/ \E r \in Requests : Me(r)
  BY <1>5, GetSessionInv, RejectedInv, SlideSessionInv, OverInv
<1>6. CASE \/ \E r \in Requests : EndGet(r)
           \/ \E r \in Requests : EndDel(r)
           \/ \E r \in Requests : EndSrem(r)
  BY <1>6, EndGetInv, EndDelInv, EndSremInv
<1>7. CASE \/ \E r \in Requests : EndAllMembers(r)
           \/ \E r \in Requests, s \in Sids : EndAllDel(r, s)
           \/ \E r \in Requests : EndAllDelIndex(r)
  BY <1>7, EndAllMembersInv, EndAllDelInv, EndAllDelIndexInv
<1>8. CASE \/ \E r \in Requests, u \in Users : OpsRevokeUser(r, u)
           \/ \E r \in Requests, s \in Sids : OpsRevokeSession(r, s)
           \/ \E r \in Requests : OpsGet(r)
           \/ \E r \in Requests : OpsSrem(r)
           \/ \E r \in Requests : OpsDel(r)
  BY <1>8, OpsBeginInv, OpsGetInv, OpsSremInv, OpsDelInv
<1>9. CASE \/ \E r \in Requests : CacheError(r)
           \/ \E r \in Requests : Abort(r)
  BY <1>9, RejectedInv, OverInv
<1>10. CASE Tick
  BY <1>10, TickInv
<1>11. CASE UNCHANGED vars
  <2>1. \A s \in Sids : /\ Owner(s)' = Owner(s) /\ (Live(s)' <=> Live(s))
                        /\ Listed(s)' <=> Listed(s)
    BY <1>11 DEF vars, Owner, Live, Listed, Members
  <2>2. Aging
    BY <1>11, <2>1 DEF vars, Aging
  <2>3. IndexOwned'
    BY <1>11, Shrunk DEF vars, IInv
  <2>4. TypeOK'
    BY <1>11, <2>3, Typed, TypedNext DEF vars, IInv
  <2> QED BY <1>11, <2>1, <2>2, <2>4, Still DEF vars
<1> QED BY <1>1, <1>2, <1>3, <1>4, <1>5, <1>6, <1>7, <1>8, <1>9, <1>10, <1>11 DEF Next

LEMMA Invariance == Spec => []IInv
BY InitInv, StepInv, PTL DEF Spec

-----------------------------------------------------------------------------
(* The cache and every request hold values of their kind, and each index   *)
(* only sessions of its own user.                                          *)
THEOREM CacheTypes == Spec => []TypeOK
<1>1. IInv => TypeOK
  BY DEF IInv
<1> QED BY <1>1, Invariance, PTL

(* Whatever a completed revocation covered stays dead, unless a request    *)
(* that had read the session before wrote it back.                         *)
THEOREM Revoked == Spec => []RevivedOnlyByRace
<1>1. IInv => RevivedOnlyByRace
  BY DEF IInv, RevokedOK, Over, RevivedOnlyByRace
<1> QED BY <1>1, Invariance, PTL

(* A session that can be used is in its owner's index, however logins,     *)
(* revocations, slides and lapsing keys overlap, but for what the history  *)
(* notes: no login's SADD, EXPIRE or eviction loses another's session.     *)
THEOREM Indexed == Spec => []UnlistedOnlyForCause
<1>1. IInv => UnlistedOnlyForCause
  <2> SUFFICES ASSUME IInv, NEW s \in Sids, Usable(s), s \notin Members(Owner(s))
               PROVE  s \in history.raced \cup history.unlisted
    BY DEF UnlistedOnlyForCause
  <2>1. now < tokens[s].access \/ now < tokens[s].refresh
    BY DEF Usable, Verifies
  <2>2. now \in Nat /\ tokens[s].access \in Nat /\ tokens[s].refresh \in Nat
    BY Clocks DEF IInv
  <2>3. tokens[s].access > 0 \/ tokens[s].refresh > 0
    BY <2>1, <2>2
  <2>4. Issued(s)
    BY <2>3 DEF Issued, IInv, TokensOK
  <2> QED BY <2>4 DEF IInv, TokensOK, Listed, Usable
<1> QED BY <1>1, Invariance, PTL

(* What the invariant says of the limit.                                   *)
LEMMA IInvLimit == IInv => HeldWithinLimit
<1> SUFFICES ASSUME IInv, NEW u \in Users PROVE
      Cardinality({s \in Held \ (history.raced \cup history.unlisted) :
                      Live(s) /\ Owner(s) = u}) <= MaxSessions
  BY DEF HeldWithinLimit
<1> DEFINE X == {s \in Held \ (history.raced \cup history.unlisted) : Live(s) /\ Owner(s) = u}
<1>1. /\ X \in SUBSET Sids
      /\ \A s \in X : /\ Owner(s) = u /\ Good(s)
                      /\ \/ Issued(s)
                         \/ \E q \in Requests : req[q].at = "login.tokens" /\ req[q].sid = s
  BY DEF Held, Good
<1> HIDE DEF X
<1>2. \A s \in X : Passed(s)
  BY <1>1 DEF Passed, PassedBy, Passing
<1>3. SUFFICES ASSUME ~(Cardinality(X) <= MaxSessions) PROVE FALSE
  BY DEF X
<1>4. PICK r \in Requests : Enforces(r, X)
  BY <1>1, <1>2, <1>3 DEF IInv, LimitOK
<1>5. PICK s \in X : s = req[r].sid
  BY <1>4 DEF Enforces
<1>6. req[r].at \in Opening /\ req[r].at # "login.tokens"
  BY <1>4 DEF Enforces, Opening, Added, Passing, Getting, Evicting
<1>7. ~Issued(s)
  BY <1>5, <1>6 DEF IInv, RequestsOK, ReqOK, Issued
<1>8. PICK q \in Requests : req[q].at = "login.tokens" /\ req[q].sid = s
  BY <1>1, <1>7
<1>9. req[q].at \in Opening /\ q # r
  BY <1>6, <1>8 DEF Opening, Added, Passing
<1> QED BY <1>5, <1>6, <1>8, <1>9 DEF IInv, Apart

(* However many logins overlap and whichever of them die half way, the     *)
(* tokens a user holds open no more sessions than the limit: of the logins *)
(* that opened them, the last to read the index saw all the others.        *)
THEOREM Limit == Spec => []HeldWithinLimit
BY IInvLimit, Invariance, PTL

-----------------------------------------------------------------------------
(* The promise of every deployment                                         *)

PromiseStep == [Promise!PromiseNext]_(Promise!promiseVars)

(* What is live, or was written back by a race, was opened.                *)
Opened == \A s \in Sids : Live(s) \/ s \in history.raced => Owner(s) # NoUser

(* s is to be written back: it is live still, or a race is on record.      *)
LEMMA Slider ==
    ASSUME IInv, NEW s \in Sids, Slides(s)
    PROVE  Live(s) \/ s \in history.raced
<1>1. PICK q \in Requests : req[q].at \in Sliding /\ req[q].sid = s
  BY DEF Slides
<1> QED BY <1>1 DEF IInv, RequestsOK, ReqOK

(* Nothing is opened; what races is about to be written back, what comes   *)
(* to life is, and only live sessions drop out of sight.                   *)
Fading ==
    /\ history'.owner = history.owner
    /\ history.raced \subseteq history'.raced
    /\ \A s \in history'.raced \ history.raced : Slides(s)
    /\ \A s \in Sids : Live(s)' => Live(s) \/ Slides(s)
    /\ history.unlisted \subseteq history'.unlisted
    /\ \A s \in history'.unlisted \ history.unlisted : Live(s)

LEMMA FadingAges ==
    ASSUME IInv, TypeOK', Opened, Fading
    PROVE  /\ Opened' /\ stage' \in [Sids -> Promise!Stage]
           /\ \A s \in Sids : Promise!Ages(s)
           /\ \A s \in history'.unlisted \ history.unlisted : stage[s] \in {"live", "raced"}
<1>1. /\ history'.raced \subseteq Sids /\ history'.unlisted \subseteq Sids
      /\ history.raced \subseteq history'.raced
  BY TypedNext DEF Fading, History
<1>2. stage' \in [Sids -> Promise!Stage]
  BY DEF stage, Promise!Stage
<1>3. ASSUME NEW s \in Sids
      PROVE  /\ Owner(s)' = Owner(s)
             /\ Live(s) \/ s \in history.raced => Owner(s) # NoUser
             /\ Live(s)' => Live(s) \/ s \in history.raced
             /\ s \in history'.raced => Live(s) \/ s \in history.raced
  BY Slider DEF Fading, Owner, Opened
<1>4. Opened'
  BY <1>3 DEF Opened, Owner
<1>5. \A s \in Sids :
        /\ stage[s] = IF Owner(s) = NoUser THEN "unopened"
                      ELSE IF s \in history.raced THEN "raced"
                      ELSE IF Live(s) THEN "live" ELSE "dead"
        /\ stage'[s] = IF Owner(s)' = NoUser THEN "unopened"
                       ELSE IF s \in history'.raced THEN "raced"
                       ELSE IF Live(s)' THEN "live" ELSE "dead"
  BY DEF stage
<1>6. \A s \in Sids : Promise!Ages(s)
  BY <1>1, <1>3, <1>5 DEF Promise!Ages
<1>7. \A s \in history'.unlisted \ history.unlisted : stage[s] \in {"live", "raced"}
  BY <1>1, <1>3, <1>5 DEF Fading
<1> QED BY <1>2, <1>4, <1>6, <1>7

LEMMA Ends ==
    ASSUME IInv, TypeOK', Opened, Fading, Held' = Held
    PROVE  Opened' /\ PromiseStep
<1>1. Promise!End
  BY FadingAges DEF Fading, Promise!End
<1> QED BY <1>1, FadingAges DEF PromiseStep, Promise!PromiseNext

(* Sessions as they were: only requests, tokens and indexes change.        *)
LEMMA Unaged ==
    ASSUME UNCHANGED <<now, entry, history>>
    PROVE  Fading
BY DEF Fading, Live

LEMMA HeldStays ==
    ASSUME NEW r \in Requests, Beside(r), UNCHANGED tokens,
           req[r].at # "login.tokens", req'[r].at # "login.tokens"
    PROVE  Held' = Held
BY DEF Held, Issued, Beside

LEMMA HeldGrows ==
    ASSUME NEW r \in Requests, NEW s \in Sids, Beside(r), UNCHANGED tokens,
           req[r].at # "login.tokens", req'[r].at = "login.tokens", req'[r].sid = s
    PROVE  Held' = Held \cup {s}
BY DEF Held, Issued, Beside

(* A login past the limit is handed its session within it.                 *)
LEMMA HandsOut ==
    ASSUME IInv, IInv', Opened, NEW r \in Requests, req[r].at \in Opening,
           req[r].at # "login.tokens", UNCHANGED <<now, entry, tokens, history>>,
           Beside(r), req'[r].at = "login.tokens", req'[r].sid = req[r].sid
    PROVE  Opened' /\ PromiseStep
<1>1. PICK u \in Users : u = req[r].user
  BY DEF IInv, RequestsOK, ReqOK
<1>2. PICK s \in Sids : s = req[r].sid /\ Owner(s) = u /\ u # NoUser
  BY <1>1, CacheAssumption DEF IInv, RequestsOK, ReqOK
<1>3. Held' = Held \cup {s}
  BY <1>2, HeldGrows
<1>4. Fading /\ TypeOK'
  BY Unaged DEF IInv
<1>5. /\ Opened' /\ stage' \in [Sids -> Promise!Stage]
      /\ \A t \in Sids : Promise!Ages(t)
  BY <1>4, FadingAges
<1>6. stage[s] # "unopened"
  BY <1>2 DEF stage
<1>7. Promise!Cardinality(Promise!Counted(u)') <= MaxSessions
  <2>1. Promise!Counted(u)' =
          {t \in Held \ (history.raced \cup history.unlisted) : Live(t) /\ Owner(t) = u}'
    <3>1. \A t \in Held' : t \in Sids
      BY DEF Held
    <3>2. \A t \in Sids : stage'[t] = "live" /\ history'.owner[t] = u
                          <=> t \notin history'.raced /\ Live(t)' /\ Owner(t)' = u
      BY <1>2 DEF stage, Owner
    <3> QED BY <3>1, <3>2 DEF Promise!Counted, Owner
  <2>2. HeldWithinLimit'
    BY IInvLimit, PTL
  <2>3. Cardinality(Promise!Counted(u)') <= MaxSessions
    BY <2>1, <2>2 DEF HeldWithinLimit
  <2> QED BY <2>3 DEF Cardinality, Promise!Cardinality
<1>8. Promise!HandOut(s, u)
  BY <1>2, <1>3, <1>5, <1>6, <1>7 DEF Promise!HandOut, Owner
<1> QED BY <1>5, <1>8 DEF PromiseStep, Promise!PromiseNext

(* A request that is not at a login's end stutters.                        *)
LEMMA Rests ==
    ASSUME IInv, IInv', Opened, NEW r \in Requests, Beside(r),
           UNCHANGED <<now, entry, tokens, history>>,
           req[r].at # "login.tokens", req'[r].at # "login.tokens"
    PROVE  Opened' /\ PromiseStep
BY HeldStays, Unaged, Ends DEF IInv

(* One request's step, the rest and the keys as they were.                 *)
LEMMA Resting ==
    ASSUME IInv, NEW r \in Requests,
           \/ \E u \in Users : Login(r, u) \/ OpsRevokeUser(r, u)
           \/ CreateSadd(r) \/ CreateExpire(r) \/ LimitSrem(r)
           \/ \E s \in Sids : LimitGet(r, s) \/ OpsRevokeSession(r, s)
           \/ \E s \in Sids, access \in BOOLEAN, refresh \in BOOLEAN :
                  Arrive(r, s, access, refresh)
           \/ GetSession(r) \/ GetMissing(r) \/ CacheError(r) \/ Me(r)
           \/ EndAllMembers(r) \/ OpsGet(r)
    PROVE  /\ Beside(r) /\ UNCHANGED <<now, entry, tokens, history>>
           /\ req[r].at # "login.tokens" /\ req'[r].at # "login.tokens"
<1> USE IdleType DEF Beside
<1>1. req \in [Requests -> Request] /\ req[r] \in Request
  BY DEF IInv, TypeOK
<1>2. ASSUME NEW u \in Users, Login(r, u) \/ OpsRevokeUser(r, u)
      PROVE  /\ Beside(r) /\ UNCHANGED <<now, entry, tokens, history>>
             /\ req[r].at # "login.tokens" /\ req'[r].at # "login.tokens"
  <2>1. CASE Login(r, u)
    <3> DEFINE n == [Idle EXCEPT !.at = "login.set", !.user = u, !.created = now]
    <3>1. req' = [req EXCEPT ![r] = n] /\ n.at = "login.set"
      BY <2>1 DEF Login, Request
    <3> HIDE DEF n
    <3> QED BY <1>1, <2>1, <3>1 DEF Login
  <2>2. CASE OpsRevokeUser(r, u)
    <3> DEFINE n == [Idle EXCEPT !.at = "ops.members", !.user = u]
    <3>1. req' = [req EXCEPT ![r] = n] /\ n.at = "ops.members"
      BY <2>2 DEF OpsRevokeUser, Request
    <3> HIDE DEF n
    <3> QED BY <1>1, <2>2, <3>1 DEF OpsRevokeUser
  <2> QED BY <1>2, <2>1, <2>2
<1>3. CASE CreateSadd(r) \/ CreateExpire(r)
  BY <1>1, <1>3 DEF CreateSadd, CreateExpire, Goto, Request
<1>4. CASE LimitSrem(r)
  BY <1>1, <1>4 DEF LimitSrem, Request
<1>5. ASSUME NEW s \in Sids, LimitGet(r, s)
      PROVE  /\ Beside(r) /\ UNCHANGED <<now, entry, tokens, history>>
             /\ req[r].at # "login.tokens" /\ req'[r].at # "login.tokens"
  BY <1>1, <1>5 DEF LimitGet, Request
<1>6. ASSUME NEW s \in Sids, OpsRevokeSession(r, s)
      PROVE  /\ Beside(r) /\ UNCHANGED <<now, entry, tokens, history>>
             /\ req[r].at # "login.tokens" /\ req'[r].at # "login.tokens"
  BY <1>1, <1>6 DEF OpsRevokeSession, Request
<1>7. ASSUME NEW s \in Sids, NEW access \in BOOLEAN, NEW refresh \in BOOLEAN,
             Arrive(r, s, access, refresh)
      PROVE  /\ Beside(r) /\ UNCHANGED <<now, entry, tokens, history>>
             /\ req[r].at # "login.tokens" /\ req'[r].at # "login.tokens"
  BY <1>1, <1>7 DEF Arrive, Request
<1>8. CASE GetSession(r)
  BY <1>1, <1>8 DEF GetSession, Request
<1>9. CASE GetMissing(r) \/ CacheError(r)
  BY <1>1, <1>9 DEF GetMissing, CacheError, Reject, Finish, Request
<1>10. CASE Me(r)
  BY <1>1, <1>10 DEF Me, Finish
<1>11. CASE EndAllMembers(r)
  <2>1. /\ req[r].at \in {"revokeall", "ops.members"}
        /\ UNCHANGED <<now, entry, tokens, history>>
    BY <1>11 DEF EndAllMembers
  <2>2. CASE Finish(r)
    BY <1>1, <2>1, <2>2 DEF Finish
  <2>3. CASE ~Finish(r)
    <3> DEFINE members == Members(req[r].user)
               at == IF members = {} THEN "all.delindex" ELSE "all.del"
    <3>1. req' = [req EXCEPT ![r].at = at, ![r].todo = members, ![r].found = members]
      BY <1>11, <2>3 DEF EndAllMembers
    <3>2. at \in {"all.delindex", "all.del"}
      OBVIOUS
    <3> HIDE DEF members, at
    <3> QED BY <1>1, <2>1, <3>1, <3>2 DEF Request
  <2> QED BY <2>2, <2>3
<1>12. CASE OpsGet(r)
  BY <1>1, <1>12 DEF OpsGet, Goto, Request
<1> QED
  BY <1>2, <1>3, <1>4, <1>5, <1>6, <1>7, <1>8, <1>9, <1>10, <1>11, <1>12

(* The login's look at the index, its decision and its last eviction.      *)
LEMMA LimitPromise ==
    ASSUME IInv, IInv', Opened, NEW r \in Requests,
           \/ LimitMembers(r) \/ LimitEvict(r)
           \/ \E evicted \in SUBSET Sids : LimitDecide(r, evicted)
    PROVE  Opened' /\ PromiseStep
<1>1. req \in [Requests -> Request] /\ req[r] \in Request
  BY DEF IInv, TypeOK
<1>2. /\ Beside(r) /\ UNCHANGED <<now, entry, tokens, history>>
      /\ req[r].at \in Opening /\ req[r].at # "login.tokens"
      /\ req'[r].sid = req[r].sid
  <2> USE <1>1 DEF Beside, Opening, Added, Passing, Getting, Evicting, Request
  <2>1. CASE LimitMembers(r)
    BY <2>1 DEF LimitMembers
  <2>2. CASE LimitEvict(r)
    BY <2>2 DEF LimitEvict
  <2>3. ASSUME NEW evicted \in SUBSET Sids, LimitDecide(r, evicted)
        PROVE  /\ Beside(r) /\ UNCHANGED <<now, entry, tokens, history>>
               /\ req[r].at \in Opening /\ req[r].at # "login.tokens"
               /\ req'[r].sid = req[r].sid
    <3>1. /\ req[r].at = "login.get" /\ UNCHANGED <<now, entry, tokens, history>>
          /\ \/ req' = [req EXCEPT ![r].at = "login.tokens", ![r].found = {}]
             \/ req' = [req EXCEPT ![r].at = "login.del", ![r].todo = evicted,
                                   ![r].found = {}]
      BY <2>3 DEF LimitDecide
    <3> QED BY <3>1
  <2> QED BY <2>1, <2>2, <2>3
<1>3. CASE req'[r].at = "login.tokens"
  BY <1>2, <1>3, HandsOut
<1>4. CASE req'[r].at # "login.tokens"
  BY <1>2, <1>4, Rests
<1> QED BY <1>3, <1>4

(* The token pair is made for a session that was on its way out already.   *)
LEMMA TokensPromise ==
    ASSUME IInv, IInv', Opened, NEW r \in Requests, GenerateTokens(r)
    PROVE  Opened' /\ PromiseStep
<1>1. /\ req[r].at = "login.tokens" /\ UNCHANGED <<now, entry, history>>
      /\ req'[r].at = "idle" /\ Beside(r)
  BY IdleType, FinishType DEF GenerateTokens, IInv
<1>2. PICK s \in Sids : s = req[r].sid
  BY <1>1 DEF IInv, RequestsOK, ReqOK, Opening, Added, Passing
<1>3. \A t \in Sids : Issued(t)' <=> Issued(t) \/ t = s
  <2>1. tokens \in [Sids -> Pair] /\ now + RefreshTtl > 0
    BY Typed, Clocks DEF IInv
  <2> QED BY <1>2, <2>1 DEF GenerateTokens, Issued
<1>4. Held' = Held
  BY <1>1, <1>2, <1>3 DEF Held, Beside
<1> QED BY <1>1, <1>4, Unaged, Ends DEF IInv

(* A login that dies with its tokens on the way hands out nothing.         *)
LEMMA AbortPromise ==
    ASSUME IInv, IInv', Opened, NEW r \in Requests, Abort(r)
    PROVE  Opened' /\ PromiseStep
<1>1. /\ UNCHANGED <<now, entry, tokens, history>>
      /\ req'[r].at = "idle" /\ Beside(r)
  BY IdleType, FinishType DEF Abort, IInv
<1>2. CASE req[r].at # "login.tokens"
  BY <1>1, <1>2, Rests
<1>3. CASE req[r].at = "login.tokens"
  <2>1. req[r].at \in Opening
    BY <1>3 DEF Opening, Added, Passing
  <2>2. PICK s \in Sids : s = req[r].sid /\ ~Issued(s)
    BY <2>1 DEF IInv, RequestsOK, ReqOK, Issued
  <2>3. \A q \in Requests \ {r} : ~(req[q].at = "login.tokens" /\ req[q].sid = s)
    BY <2>1, <2>2 DEF IInv, Apart, Opening, Added, Passing
  <2>4. Held' = Held \ {s}
    BY <1>1, <2>2, <2>3 DEF Held, Issued, Beside
  <2>5. Opened' /\ stage' = stage
    BY <1>1 DEF Opened, Owner, Live, stage
  <2>6. Promise!Withdraw(s)
    BY <1>1, <2>4, <2>5 DEF Promise!Withdraw
  <2> QED BY <2>5, <2>6 DEF PromiseStep, Promise!PromiseNext
<1> QED BY <1>2, <1>3

(* A key goes: what raced then is about to be written back.                *)
LEMMA Removed ==
    ASSUME IInv, NEW s \in Sids, UNCHANGED now, Del(s) \/ UNCHANGED entry,
           history'.owner = history.owner, history'.unlisted = history.unlisted,
           history'.raced = history.raced \cup Racing(s)
    PROVE  Fading
<1>1. \A t \in Racing(s) : Slides(t)
  BY DEF Racing, Slides, Sliding
<1>2. \A t \in Sids : Live(t)' => Live(t)
  <2>1. entry \in [Sids -> Entry] /\ NoEntry.user = NoUser
    BY Typed DEF IInv, NoEntry
  <2> QED BY <2>1 DEF Del, Live
<1> QED BY <1>1, <1>2 DEF Fading

(* Logouts, evictions, revocations.                                        *)
LEMMA EndPromise ==
    ASSUME IInv, IInv', Opened, NEW r \in Requests,
           \/ EndGet(r) \/ EndDel(r) \/ EndSrem(r) \/ EndAllDelIndex(r)
           \/ OpsSrem(r) \/ OpsDel(r)
           \/ \E s \in Sids : LimitDel(r, s) \/ EndAllDel(r, s)
    PROVE  Opened' /\ PromiseStep
<1>1. req \in [Requests -> Request] /\ req[r] \in Request /\ history \in History
  BY Typed DEF IInv
<1>2. /\ Beside(r) /\ UNCHANGED <<now, tokens>>
      /\ req[r].at # "login.tokens" /\ req'[r].at # "login.tokens"
  <2> USE <1>1, IdleType DEF Beside, Request
  <2>1. CASE EndGet(r)
    BY <2>1 DEF EndGet, Goto, Finish
  <2>2. CASE EndDel(r)
    BY <2>2 DEF EndDel, Goto
  <2>3. CASE EndSrem(r) \/ EndAllDelIndex(r)
    BY <2>3 DEF EndSrem, EndAllDelIndex, Finish
  <2>4. CASE OpsSrem(r)
    BY <2>4 DEF OpsSrem, Goto
  <2>5. CASE OpsDel(r)
    BY <2>5 DEF OpsDel, Finish
  <2>6. ASSUME NEW s \in Sids, LimitDel(r, s)
        PROVE  /\ Beside(r) /\ UNCHANGED <<now, tokens>>
               /\ req[r].at # "login.tokens" /\ req'[r].at # "login.tokens"
    BY <2>6 DEF LimitDel
  <2>7. ASSUME NEW s \in Sids, EndAllDel(r, s)
        PROVE  /\ Beside(r) /\ UNCHANGED <<now, tokens>>
               /\ req[r].at # "login.tokens" /\ req'[r].at # "login.tokens"
    BY <2>7 DEF EndAllDel
  <2> QED BY <2>1, <2>2, <2>3, <2>4, <2>5, <2>6, <2>7
<1>3. req[r].at \in Ending => req[r].sid \in Sids
  BY DEF IInv, RequestsOK, ReqOK
<1>4. CASE EndGet(r) /\ Live(req[r].sid)
  <2>1. UNCHANGED <<now, entry, history>>
    BY <1>4 DEF EndGet
  <2> QED BY <1>2, <2>1, Rests
<1>5. ASSUME NEW s \in Sids, Del(s) \/ UNCHANGED entry, NoteRace(s) \/ RevokedAtOnce(s)
      PROVE  Fading
  BY <1>2, <1>5, NoteRaceType, RevokedAtOnceType, Removed
<1>6. CASE (EndGet(r) /\ ~Live(req[r].sid)) \/ EndDel(r) \/ OpsDel(r)
  <2>1. PICK s \in Sids : s = req[r].sid
    BY <1>3, <1>6 DEF EndGet, EndDel, OpsDel, Ending, Leaving
  <2>2. (Del(s) \/ UNCHANGED entry) /\ (NoteRace(s) \/ RevokedAtOnce(s))
    BY <1>6, <2>1 DEF EndGet, EndDel, OpsDel
  <2> QED BY <1>2, <1>5, <2>2, HeldStays, Ends DEF IInv
<1>7. ASSUME NEW s \in Sids, LimitDel(r, s) \/ EndAllDel(r, s)
      PROVE  Opened' /\ PromiseStep
  <2>1. Del(s) /\ NoteRace(s)
    BY <1>7 DEF LimitDel, EndAllDel
  <2> QED BY <1>2, <1>5, <2>1, HeldStays, Ends DEF IInv
<1>8. CASE EndSrem(r) \/ EndAllDelIndex(r) \/ OpsSrem(r)
  <2>1. /\ UNCHANGED entry /\ history'.owner = history.owner
        /\ history'.raced = history.raced
        /\ \/ history'.unlisted = history.unlisted
           \/ \E X \in SUBSET Sids : history'.unlisted = Unlisted(X)
    <3>1. CASE EndSrem(r)
      BY <1>1, <3>1 DEF EndSrem, History
    <3>2. CASE EndAllDelIndex(r)
      <4>1. req[r].user \in Users
        BY <3>2 DEF EndAllDelIndex, IInv, RequestsOK, ReqOK, Clearing
      <4>2. Members(req[r].user) \ req[r].found \in SUBSET Sids
        BY <4>1, Clocks DEF IInv, Members
      <4> QED BY <1>1, <3>2, <4>2 DEF EndAllDelIndex, History
    <3>3. CASE OpsSrem(r)
      <4>1. {req[r].sid} \in SUBSET Sids
        BY <1>3, <3>3 DEF OpsSrem, Ending
      <4> QED BY <1>1, <3>3, <4>1 DEF OpsSrem, History
    <3> QED BY <1>8, <3>1, <3>2, <3>3
  <2>2. Fading
    BY <1>2, <2>1 DEF Fading, Live, Unlisted
  <2> QED BY <1>2, <2>2, HeldStays, Ends DEF IInv
<1> QED BY <1>4, <1>6, <1>7, <1>8

(* Whoever is to write the session back finds it live, or races.           *)
LEMMA SlidePromise ==
    ASSUME IInv, IInv', Opened, NEW r \in Requests, NEW route \in Routes,
           SlideSession(r, route)
    PROVE  Opened' /\ PromiseStep
<1>1. /\ req[r].at \in Sliding /\ UNCHANGED <<now, history>>
  BY DEF SlideSession, Sliding
<1>2. PICK s \in Sids : s = req[r].sid /\ Issued(s)
  BY <1>1 DEF IInv, RequestsOK, ReqOK, Sliding, Asking
<1>3. \A t \in Sids \ {s} : Live(t)' <=> Live(t)
  BY <1>1, <1>2, Typed DEF IInv, SlideSession, Live
<1>4. Slides(s)
  BY <1>1, <1>2 DEF Slides
<1>5. Fading
  BY <1>1, <1>3, <1>4 DEF Fading
<1>6. \A t \in Sids : Issued(t)' <=> Issued(t)
  <2>1. tokens \in [Sids -> Pair]
    BY Typed DEF IInv
  <2> QED BY <1>2, <2>1 DEF SlideSession, Issued, Pair
<1>7. Beside(r) /\ req[r].at # "login.tokens" /\ req'[r].at # "login.tokens"
  <2> DEFINE n == [Idle EXCEPT !.at = route, !.user = Owner(s),
                               !.sid = IF route = "logout" THEN s ELSE NoSid]
  <2>1. req' = [req EXCEPT ![r] = n] /\ n.at = route
    BY <1>2, IdleType DEF SlideSession, Request
  <2>2. req \in [Requests -> Request] /\ route # "login.tokens"
    BY CacheAssumption DEF IInv, TypeOK
  <2> HIDE DEF n
  <2> QED BY <1>1, <2>1, <2>2 DEF Sliding, Beside
<1>8. Held' = Held
  BY <1>6, <1>7 DEF Held, Beside
<1> QED BY <1>5, <1>8, Ends DEF IInv

(* What lapses dies, or is about to be written back; an index that lapses  *)
(* hides what is live.                                                     *)
LEMMA TickPromise ==
    ASSUME IInv, IInv', Opened, Tick
    PROVE  Opened' /\ PromiseStep
<1> DEFINE lapsed == {s \in Sids : entry[s].user # NoUser /\ entry[s].lapse = now + 1}
           cut == {u \in Users : index[u].lapse = now + 1}
           X == UNION {Racing(s) : s \in lapsed}
           lost == (UNION {index[u].members : u \in cut}) \ lapsed
<1>1. /\ now \in Nat /\ now' = now + 1 /\ UNCHANGED <<entry, tokens, req>>
      /\ history' = [history EXCEPT !.raced = @ \cup X, !.unlisted = Unlisted(lost)]
  BY Clocks DEF Tick, IInv
<1>2. \A s \in X : Slides(s)
  BY DEF Racing, Slides, Sliding
<1>3. history \in History
  BY Typed DEF IInv
<1>4. \A s \in Sids : Live(s)' => Live(s)
  BY <1>1, Clocks DEF IInv, Live
<1> HIDE DEF lapsed, cut, X, lost
<1>5. /\ history'.owner = history.owner /\ history'.raced = history.raced \cup X
      /\ history'.unlisted = Unlisted(lost)
  BY <1>1, <1>3 DEF History
<1>6. Fading
  BY <1>2, <1>4, <1>5 DEF Fading, Unlisted
<1>7. Held' = Held
  BY <1>1 DEF Held, Issued
<1> QED BY <1>6, <1>7, Ends DEF IInv

(* An identifier nobody had is opened, live.                               *)
LEMMA OpenPromise ==
    ASSUME IInv, IInv', Opened, NEW r \in Requests, NEW s \in Sids, CreateSet(r, s)
    PROVE  Opened' /\ PromiseStep
<1>1. /\ req[r].at = "login.set" /\ Owner(s) = NoUser /\ UNCHANGED <<now, tokens>>
      /\ req[r].user \in Users
  BY DEF CreateSet, IInv, RequestsOK, ReqOK
<1>2. PICK u \in Users : u = req[r].user /\ u # NoUser
  BY <1>1, CacheAssumption
<1>3. /\ history'.owner = [history.owner EXCEPT ![s] = u]
      /\ history.owner \in [Sids -> Users \cup {NoUser}]
      /\ history'.raced = history.raced /\ history'.unlisted = history.unlisted
  <2>1. history \in History
    BY Typed DEF IInv
  <2> QED BY <1>2, <2>1 DEF CreateSet, History
<1>4. \A t \in Sids \ {s} : Owner(t)' = Owner(t) /\ (Live(t)' <=> Live(t))
  BY <1>1, <1>3, Typed DEF IInv, CreateSet, Owner, Live
<1>5. Owner(s)' = u
  BY <1>3 DEF Owner
<1>6. s \notin history.raced /\ ~Live(s)
  BY <1>1 DEF Opened
<1>7. Opened'
  <2> SUFFICES ASSUME NEW t \in Sids, (Live(t) \/ t \in history.raced)'
               PROVE  Owner(t)' # NoUser
    BY DEF Opened
  <2>1. CASE t = s
    BY <1>2, <1>5, <2>1
  <2>2. CASE t # s
    BY <1>3, <1>4, <2>2 DEF Opened
  <2> QED BY <2>1, <2>2
<1>8. Live(s)'
  <2>1. now < now + SessionDuration
    BY Clocks DEF IInv
  <2> QED BY <1>1, <1>2, <2>1, Typed DEF IInv, CreateSet, Live
<1>9. /\ stage' \in [Sids -> Promise!Stage] /\ stage[s] = "unopened"
      /\ stage'[s] \in {"live", "dead"}
  BY <1>1, <1>2, <1>3, <1>5, <1>6, <1>8 DEF stage, Promise!Stage
<1>10. \A t \in Sids \ {s} : stage'[t] = stage[t]
  <2> SUFFICES ASSUME NEW t \in Sids \ {s} PROVE stage'[t] = stage[t]
    OBVIOUS
  <2>1. /\ Owner(t)' = Owner(t) /\ (Live(t)' <=> Live(t))
        /\ t \in history'.raced <=> t \in history.raced
    BY <1>3, <1>4
  <2> QED BY <2>1 DEF stage
<1>11. Held' = Held
  <2>1. req[r].at # "login.tokens" /\ req'[r].at # "login.tokens" /\ Beside(r)
    BY <1>1 DEF CreateSet, IInv, TypeOK, Request, Beside
  <2> QED BY <1>1, <2>1, HeldStays
<1>12. Promise!Open(s, u)
  BY <1>3, <1>9, <1>10, <1>11 DEF Promise!Open, Promise!Ages
<1> QED BY <1>7, <1>12 DEF PromiseStep, Promise!PromiseNext

LEMMA PromiseKept ==
    ASSUME IInv, IInv', Opened, [Next]_vars
    PROVE  Opened' /\ PromiseStep
<1>1. ASSUME NEW r \in Requests,
           \/ \E u \in Users : Login(r, u) \/ OpsRevokeUser(r, u)
           \/ CreateSadd(r) \/ CreateExpire(r) \/ LimitSrem(r)
           \/ \E s \in Sids : LimitGet(r, s) \/ OpsRevokeSession(r, s)
           \/ \E s \in Sids, access \in BOOLEAN, refresh \in BOOLEAN :
                  Arrive(r, s, access, refresh)
           \/ GetSession(r) \/ GetMissing(r) \/ CacheError(r) \/ Me(r)
           \/ EndAllMembers(r) \/ OpsGet(r)
      PROVE  Opened' /\ PromiseStep
  BY <1>1, Resting, Rests
<1>2. ASSUME NEW r \in Requests,
             \/ \E s \in Sids : CreateSet(r, s)
             \/ GenerateTokens(r) \/ Abort(r)
             \/ \E route \in Routes : SlideSession(r, route)
      PROVE  Opened' /\ PromiseStep
  BY <1>2, OpenPromise, TokensPromise, AbortPromise, SlidePromise
<1>3. ASSUME NEW r \in Requests,
             \/ LimitMembers(r) \/ LimitEvict(r)
             \/ \E evicted \in SUBSET Sids : LimitDecide(r, evicted)
      PROVE  Opened' /\ PromiseStep
  BY <1>3, LimitPromise
<1>4. ASSUME NEW r \in Requests,
             \/ EndGet(r) \/ EndDel(r) \/ EndSrem(r) \/ EndAllDelIndex(r)
             \/ OpsSrem(r) \/ OpsDel(r)
             \/ \E s \in Sids : LimitDel(r, s) \/ EndAllDel(r, s)
      PROVE  Opened' /\ PromiseStep
  BY <1>4, EndPromise
<1>5. CASE Tick
  BY <1>5, TickPromise
<1>6. CASE UNCHANGED vars
  <2>1. UNCHANGED <<now, entry, history, tokens, req>>
    BY <1>6 DEF vars
  <2>2. Held' = Held
    BY <2>1 DEF Held, Issued
  <2> QED BY <2>1, <2>2, Unaged, Ends DEF IInv
<1> QED BY <1>1, <1>2, <1>3, <1>4, <1>5, <1>6 DEF Next

(* The cache keeps the promise, command by command: KeepsPromise.          *)
THEOREM CachePromise == Spec => KeepsPromise
<1>1. Init => Opened /\ Promise!PromiseInit
  <2> SUFFICES ASSUME Init PROVE Opened /\ Promise!PromiseInit
    OBVIOUS
  <2>1. /\ history.owner = [s \in Sids |-> NoUser] /\ history.raced = {}
        /\ history.unlisted = {}
    BY DEF Init
  <2>2. \A s \in Sids : ~Live(s)
    BY DEF Init, Live, NoEntry
  <2>3. stage = [s \in Sids |-> "unopened"]
    BY <2>1 DEF stage, Owner
  <2>4. Held = {}
    BY IdleType DEF Init, Held, Issued
  <2> QED BY <2>1, <2>2, <2>3, <2>4 DEF Opened, Promise!PromiseInit
<1>2. IInv /\ IInv' /\ Opened /\ [Next]_vars => Opened' /\ PromiseStep
  BY PromiseKept
<1> QED
  BY <1>1, <1>2, Invariance, PTL
  DEF Spec, KeepsPromise, Promise!PromiseSpec, PromiseStep
=============================================================================
