--------------------------- MODULE Promises_proofs ---------------------------
(***************************************************************************)
(* What SessionPromise and GatewayPromise are worth by themselves: theorems*)
(* about any behaviour that keeps them, over variables of this module that *)
(* stand for whoever does.  Raced and hidden sessions are among them.      *)
(***************************************************************************)
EXTENDS Naturals, FiniteSetTheorems, TLAPS

CONSTANTS Users, Sids, NoUser, MaxSessions

VARIABLES stage, owner, held, hidden

Session == INSTANCE SessionPromise

CONSTANTS Conns, Ceilings, Codes, MaxSubs

VARIABLES link, slots

Gateway == INSTANCE GatewayPromise

-----------------------------------------------------------------------------
(* The session promise                                                     *)

SessionStep == [Session!PromiseNext]_(Session!promiseVars)

(* A session is held only once it is opened, and only HandOut makes one    *)
(* more count, at a moment when the limit holds; what races or drops out   *)
(* of sight counts no longer and never again.                              *)
SessionInv ==
    /\ stage \in [Sids -> Session!Stage]
    /\ owner \in [Sids -> Users \cup {NoUser}]
    /\ held \subseteq Sids /\ \A s \in held : stage[s] # "unopened"
    /\ Session!LimitKept

LEMMA SessionInvStep ==
    ASSUME IsFiniteSet(Sids), MaxSessions \in Nat, SessionInv, SessionStep
    PROVE  SessionInv'
<1> USE DEF Session!promiseVars
<1>1. ASSUME NEW v \in Users, Session!Counted(v)' \subseteq Session!Counted(v)
      PROVE  Session!Cardinality(Session!Counted(v)') <= MaxSessions
  <2>1. IsFiniteSet(Session!Counted(v))
    <3>1. Session!Counted(v) \subseteq Sids
      BY DEF Session!Counted, SessionInv
    <3> QED BY <3>1, FS_Subset
  <2>2. /\ Cardinality(Session!Counted(v)') <= Cardinality(Session!Counted(v))
        /\ Cardinality(Session!Counted(v)') \in Nat /\ Cardinality(Session!Counted(v)) \in Nat
    BY <1>1, <2>1, FS_Subset, FS_CardinalityType
  <2>3. Cardinality(Session!Counted(v)) <= MaxSessions
    BY DEF SessionInv, Session!LimitKept, Cardinality, Session!Cardinality
  <2> QED BY <2>2, <2>3 DEF Cardinality, Session!Cardinality
<1>2. ASSUME NEW t \in Sids, Session!Ages(t)
      PROVE  /\ stage'[t] = "live" => stage[t] = "live"
             /\ stage[t] # "unopened" => stage'[t] # "unopened"
  BY <1>2 DEF Session!Ages
<1>3. ASSUME NEW s \in Sids, NEW u \in Users, Session!Open(s, u) PROVE SessionInv'
  <2>1. \A t \in held : t # s /\ Session!Ages(t) /\ owner'[t] = owner[t]
    BY <1>3 DEF Session!Open, SessionInv
  <2>2. \A v \in Users : Session!Counted(v)' \subseteq Session!Counted(v)
    BY <1>2, <1>3, <2>1 DEF Session!Open, Session!Counted, SessionInv
  <2>3. owner' \in [Sids -> Users \cup {NoUser}]
    BY <1>3 DEF Session!Open, SessionInv
  <2>4. held' \subseteq Sids /\ \A t \in held' : stage'[t] # "unopened"
    BY <1>2, <1>3, <2>1 DEF Session!Open, SessionInv
  <2>5. stage' \in [Sids -> Session!Stage]
    BY <1>3 DEF Session!Open
  <2> QED BY <1>1, <2>2, <2>3, <2>4, <2>5 DEF SessionInv, Session!LimitKept
<1>4. ASSUME NEW s \in Sids, NEW u \in Users, Session!HandOut(s, u) PROVE SessionInv'
  <2>1. \A v \in Users \ {u} : Session!Counted(v)' \subseteq Session!Counted(v)
    BY <1>2, <1>4 DEF Session!HandOut, Session!Counted, SessionInv
  <2>2. \A v \in Users : Session!Cardinality(Session!Counted(v)') <= MaxSessions
    BY <1>1, <1>4, <2>1 DEF Session!HandOut
  <2>3. held' \subseteq Sids /\ \A t \in held' : stage'[t] # "unopened"
    BY <1>2, <1>4 DEF Session!HandOut, SessionInv
  <2> QED BY <1>4, <2>2, <2>3 DEF SessionInv, Session!HandOut, Session!LimitKept
<1>5. ASSUME NEW s \in Sids, Session!Withdraw(s) PROVE SessionInv'
  <2>1. \A v \in Users : Session!Counted(v)' \subseteq Session!Counted(v)
    BY <1>5 DEF Session!Withdraw, Session!Counted
  <2> QED BY <1>1, <1>5, <2>1 DEF SessionInv, Session!Withdraw, Session!LimitKept
<1>6. CASE Session!End
  <2>1. \A v \in Users : Session!Counted(v)' \subseteq Session!Counted(v)
    BY <1>2, <1>6 DEF Session!End, Session!Counted, SessionInv
  <2>2. \A t \in held : stage'[t] # "unopened"
    BY <1>2, <1>6 DEF Session!End, SessionInv
  <2> QED BY <1>1, <1>6, <2>1, <2>2 DEF SessionInv, Session!End, Session!LimitKept
<1>7. CASE UNCHANGED Session!promiseVars
  <2>1. \A v \in Users : Session!Counted(v)' \subseteq Session!Counted(v)
    BY <1>7 DEF Session!Counted
  <2> QED BY <1>1, <1>7, <2>1 DEF SessionInv, Session!LimitKept
<1> QED
  BY <1>3, <1>4, <1>5, <1>6, <1>7 DEF SessionStep, Session!PromiseNext

(* Whoever keeps the promise keeps the limit, LimitKept of SessionPromise, *)
(* though sessions race and drop out of sight.                             *)
THEOREM PromiseLimit ==
    ASSUME IsFiniteSet(Sids), MaxSessions \in Nat
    PROVE  Session!PromiseSpec => []Session!LimitKept
<1>1. Session!PromiseInit => SessionInv
  <2> SUFFICES ASSUME Session!PromiseInit PROVE SessionInv
    OBVIOUS
  <2>1. \A u \in Users : Session!Counted(u) = {}
    BY DEF Session!PromiseInit, Session!Counted
  <2>2. \A u \in Users : Session!Cardinality(Session!Counted(u)) <= MaxSessions
    <3>1. \A u \in Users : Cardinality(Session!Counted(u)) = 0
      BY <2>1, FS_EmptySet
    <3>2. \A S : Session!Cardinality(S) = Cardinality(S)
      BY DEF Cardinality, Session!Cardinality
    <3> QED BY <3>1, <3>2
  <2> QED BY <2>2 DEF Session!PromiseInit, SessionInv, Session!LimitKept, Session!Stage
<1>2. SessionInv => Session!LimitKept
  BY DEF SessionInv
<1>3. SessionInv /\ SessionStep => SessionInv'
  BY SessionInvStep
<1> QED
  BY <1>1, <1>2, <1>3, PTL DEF Session!PromiseSpec, SessionStep

-----------------------------------------------------------------------------
(* The gateway's promise                                                   *)

(* What makes Entitled inductive: who has not agreed has no grant yet.     *)
Fresh(l) == ~l.agreed => l.grant = {} /\ l.done = {}

(* The fields of a link, whatever their values.                            *)
Typed(l) ==
    l = [i \in {"stage", "ceiling", "agreed", "grant", "code", "done"} |-> l[i]]

Links ==
    /\ link = [c \in Conns |-> link[c]]
    /\ \A c \in Conns : /\ Typed(link[c])
                        /\ link[c].stage = "gone" => link[c] = Gateway!Gone

Sound ==
    /\ Links
    /\ slots \subseteq Conns
    /\ Gateway!Entitled
    /\ \A c \in Conns : Fresh(link[c])

(* A step of the promise leaves a link alone, or does one of these.        *)
LinkMoves(l, m, listens) ==
    \/ m = l
    \/ /\ l.stage = "none" /\ m.stage = "keyed" /\ m.agreed = l.agreed /\ m.grant = l.grant
       /\ m.code = l.code /\ m.done = l.done
       /\ l.grant = {} /\ l.done = {} /\ ~l.agreed /\ l.code = "none"
    \/ /\ l.stage = "keyed" /\ m.stage = "open" /\ m.ceiling = l.ceiling
       /\ m.agreed = l.agreed /\ m.grant = l.grant /\ m.code = l.code /\ m.done = l.done
    \/ /\ l.stage = "open" /\ m.stage = "open" /\ m.ceiling = l.ceiling
       /\ ~l.agreed /\ m.agreed = TRUE /\ m.grant \subseteq l.ceiling
       /\ m.code = l.code /\ m.done = l.done
    \/ /\ l.stage = "open" /\ m.stage = "open" /\ m.ceiling = l.ceiling
       /\ m.agreed = l.agreed /\ m.grant = l.grant
       /\ m.code = l.code /\ m.done \subseteq l.done \cup l.grant
    \/ /\ l.stage = "open" /\ m.stage = "open" /\ m.ceiling = l.ceiling
       /\ m.agreed = l.agreed /\ m.grant = l.grant
       /\ l.code = "none" /\ m.done = l.done
    \/ l.stage # "none" /\ m = Gateway!Gone /\ ~listens

Moved(c) == LinkMoves(link[c], link'[c], c \in slots') /\ Typed(link'[c])

LEMMA BlankTyped == Typed(Gateway!New) /\ Typed(Gateway!Gone)
BY DEF Typed, Gateway!New, Gateway!Gone, Gateway!Blank

(* A step of the promise moves one link or, when connections part, several.*)
LEMMA LinkSteps ==
    ASSUME Links, Gateway!PromiseNext, NEW c \in Conns
    PROVE  Moved(c)
<1>1. \A d \in Conns : Typed(link[d])
  BY DEF Links
<1>2. link = [d \in Conns |-> link[d]]
  BY DEF Links
<1>3. Gateway!New = [stage |-> "none", ceiling |-> {}, agreed |-> FALSE, grant |-> {},
                     code |-> "none", done |-> {}]
  BY DEF Gateway!New, Gateway!Blank
<1>4. ASSUME NEW d \in Conns, link' = [link EXCEPT ![d] = link'[d]],
             LinkMoves(link[d], link'[d], d \in slots'), Typed(link'[d])
      PROVE  Moved(c)
  BY <1>1, <1>2, <1>4 DEF LinkMoves, Moved
<1>5. ASSUME NEW d \in Conns, NEW ceiling, Gateway!Admit(d, ceiling)
      PROVE  Moved(c)
  <2> DEFINE l == link[d]
             m == [l EXCEPT !.stage = "keyed", !.ceiling = ceiling]
  <2>1. link' = [link EXCEPT ![d] = m] /\ l = Gateway!New
    BY <1>2, <1>5 DEF Gateway!Admit
  <2>2. Typed(l)
    BY <1>1
  <2>3. Typed(m) /\ m.stage = "keyed" /\ m.agreed = l.agreed /\ m.grant = l.grant
        /\ m.code = l.code /\ m.done = l.done
    BY <2>2 DEF Typed
  <2>4. l.grant = {} /\ l.done = {} /\ ~l.agreed /\ l.code = "none" /\ l.stage = "none"
    BY <1>3, <2>1
  <2> HIDE DEF m
  <2>5. link'[d] = m
    BY <1>2, <2>1
  <2> QED BY <1>4, <2>1, <2>3, <2>4, <2>5 DEF LinkMoves
<1>6. ASSUME NEW d \in Conns, Gateway!Begin(d)
      PROVE  Moved(c)
  <2> DEFINE l == link[d]
             m == [l EXCEPT !.stage = "open"]
  <2>1. link' = [link EXCEPT ![d] = m] /\ l.stage = "keyed"
    BY <1>2, <1>6 DEF Gateway!Begin
  <2>2. Typed(l)
    BY <1>1
  <2>3. Typed(m) /\ m.stage = "open" /\ m.ceiling = l.ceiling /\ m.agreed = l.agreed
        /\ m.grant = l.grant /\ m.code = l.code /\ m.done = l.done
    BY <2>2 DEF Typed
  <2> HIDE DEF m
  <2>4. link'[d] = m
    BY <1>2, <2>1
  <2> QED BY <1>4, <2>1, <2>3, <2>4 DEF LinkMoves
<1>7. ASSUME NEW d \in Conns, Gateway!Agree(d)
      PROVE  Moved(c)
  <2> DEFINE l == link[d]
  <2>1. PICK grant \in SUBSET l.ceiling :
           link' = [link EXCEPT ![d] = [l EXCEPT !.agreed = TRUE, !.grant = grant]]
    BY <1>2, <1>7 DEF Gateway!Agree
  <2> DEFINE m == [l EXCEPT !.agreed = TRUE, !.grant = grant]
  <2>2. Typed(l) /\ l.stage = "open" /\ ~l.agreed
    BY <1>1, <1>7 DEF Gateway!Agree
  <2>3. Typed(m) /\ m.stage = "open" /\ m.ceiling = l.ceiling /\ m.agreed = TRUE
        /\ m.grant = grant /\ m.code = l.code /\ m.done = l.done
    BY <2>2 DEF Typed
  <2> HIDE DEF m
  <2>4. link'[d] = m
    BY <1>2, <2>1 DEF m
  <2> QED BY <1>4, <2>1, <2>2, <2>3, <2>4 DEF LinkMoves, m
<1>8. ASSUME NEW d \in Conns, NEW cap, Gateway!Act(d, cap)
      PROVE  Moved(c)
  <2> DEFINE l == link[d]
             m == [l EXCEPT !.done = l.done \cup {cap}]
  <2>1. link' = [link EXCEPT ![d] = m] /\ l.stage = "open" /\ cap \in l.grant
    BY <1>2, <1>8 DEF Gateway!Act
  <2>2. Typed(l)
    BY <1>1
  <2>3. Typed(m) /\ m.stage = "open" /\ m.ceiling = l.ceiling /\ m.agreed = l.agreed
        /\ m.grant = l.grant /\ m.code = l.code /\ m.done = l.done \cup {cap}
    BY <2>1, <2>2 DEF Typed
  <2> HIDE DEF m
  <2>4. link'[d] = m
    BY <1>2, <2>1
  <2> QED BY <1>4, <2>1, <2>3, <2>4 DEF LinkMoves
<1>9. ASSUME NEW d \in Conns, NEW code, Gateway!Close(d, code)
      PROVE  Moved(c)
  <2> DEFINE l == link[d]
             m == [l EXCEPT !.code = code]
  <2>1. link' = [link EXCEPT ![d] = m] /\ l.stage = "open" /\ l.code = "none"
    BY <1>2, <1>9 DEF Gateway!Close
  <2>2. Typed(l)
    BY <1>1
  <2>3. Typed(m) /\ m.stage = "open" /\ m.ceiling = l.ceiling /\ m.agreed = l.agreed
        /\ m.grant = l.grant /\ m.done = l.done
    BY <2>1, <2>2 DEF Typed
  <2> HIDE DEF m
  <2>4. link'[d] = m
    BY <1>2, <2>1
  <2> QED BY <1>4, <2>1, <2>3, <2>4 DEF LinkMoves
<1>10. ASSUME NEW leaving \in SUBSET Conns, Gateway!Part(leaving)
       PROVE  Moved(c)
  BY <1>1, <1>10, BlankTyped DEF Gateway!Part, LinkMoves, Moved
<1>11. ASSUME NEW d \in Conns, Gateway!Unsubscribe(d)
       PROVE  Moved(c)
  BY <1>1, <1>11 DEF Gateway!Unsubscribe, LinkMoves, Moved
<1>12. ASSUME NEW d \in Conns, Gateway!Subscribe(d) \/ \E cap \in link[d].grant : Gateway!Operate(d, cap)
       PROVE  Moved(c)
  BY <1>8, <1>12 DEF Gateway!Subscribe, Gateway!Operate
<1> QED BY <1>5, <1>6, <1>7, <1>9, <1>10, <1>11, <1>12 DEF Gateway!PromiseNext

LEMMA LinksStep ==
    ASSUME Links, Gateway!PromiseNext
    PROVE  Links'
<1>1. ASSUME NEW c \in Conns
      PROVE  /\ Typed(link'[c])
             /\ link'[c].stage = "gone" => link'[c] = Gateway!Gone
  <2>1. Moved(c)
    BY LinkSteps
  <2> QED BY <2>1 DEF Moved, LinkMoves, Links
<1>2. link' = [c \in Conns |-> link'[c]]
  BY DEF Links, Gateway!PromiseNext, Gateway!Admit, Gateway!Begin, Gateway!Agree, Gateway!Act,
         Gateway!Operate, Gateway!Subscribe, Gateway!Close, Gateway!Part, Gateway!Unsubscribe
<1> QED BY <1>1, <1>2 DEF Links

(* Whoever listens after a step may do so.                                 *)
LEMMA ListensByRight ==
    ASSUME Sound, Gateway!PromiseNext, NEW c \in Conns, c \in slots'
    PROVE  link'[c].stage = "open" /\ "subscribe_events" \in link'[c].grant
<1>1. LinkMoves(link[c], link'[c], TRUE)
  BY LinkSteps DEF Sound, Moved
<1>2. ASSUME c \in slots PROVE link'[c].stage = "open"
                                     /\ "subscribe_events" \in link'[c].grant
  <2>1. link[c].stage = "open" /\ "subscribe_events" \in link[c].grant
    BY <1>2 DEF Sound, Gateway!Entitled
  <2>2. link[c].agreed
    BY <2>1 DEF Sound, Fresh
  <2> QED BY <1>1, <2>1, <2>2 DEF LinkMoves
<1>3. ASSUME Gateway!Subscribe(c) PROVE link'[c].stage = "open"
                                        /\ "subscribe_events" \in link'[c].grant
  <2>1. link[c].stage = "open" /\ "subscribe_events" \in link[c].grant
    BY <1>3 DEF Gateway!Subscribe, Gateway!Act
  <2>2. link[c].agreed
    BY <2>1 DEF Sound, Fresh
  <2> QED BY <1>1, <2>1, <2>2 DEF LinkMoves
<1>4. c \in slots \/ Gateway!Subscribe(c)
  BY DEF Gateway!PromiseNext, Gateway!Admit, Gateway!Begin, Gateway!Agree, Gateway!Operate,
         Gateway!Close, Gateway!Part, Gateway!Unsubscribe, Gateway!Subscribe
<1> QED BY <1>2, <1>3, <1>4

(* The slots stay within the cap: none is added but by Subscribe.          *)
LEMMA SlotsStep ==
    ASSUME IsFiniteSet(Conns), MaxSubs \in Nat, Sound, Gateway!PromiseNext
    PROVE  Cardinality(slots') <= MaxSubs
<1>1. Cardinality(slots) <= MaxSubs /\ IsFiniteSet(slots)
  BY FS_Subset DEF Sound, Gateway!Entitled, Cardinality, Gateway!Cardinality
<1>2. CASE \E c \in Conns : Gateway!Subscribe(c)
  BY <1>2 DEF Gateway!Subscribe, Cardinality, Gateway!Cardinality
<1>3. CASE slots' \subseteq slots
  <2>1. Cardinality(slots') <= Cardinality(slots)
    BY <1>1, <1>3, FS_Subset
  <2>2. Cardinality(slots) \in Nat /\ Cardinality(slots') \in Nat
    BY <1>1, <1>3, FS_Subset, FS_CardinalityType
  <2> QED BY <1>1, <2>1, <2>2
<1>4. (\E c \in Conns : Gateway!Subscribe(c)) \/ slots' \subseteq slots
  BY DEF Gateway!PromiseNext, Gateway!Admit, Gateway!Begin, Gateway!Agree, Gateway!Operate,
         Gateway!Close, Gateway!Part, Gateway!Unsubscribe, Gateway!Subscribe
<1> QED BY <1>2, <1>3, <1>4

(* The promise alone keeps the slots within MaxSubs, the listeners open    *)
(* and entitled, and everybody within the ceiling of the key.              *)
THEOREM PromisedRights ==
    ASSUME IsFiniteSet(Conns), MaxSubs \in Nat
    PROVE  Gateway!PromiseSpec => []Gateway!Entitled
<1>1. Gateway!PromiseInit => Sound
  <2> SUFFICES ASSUME Gateway!PromiseInit PROVE Sound
    OBVIOUS
  <2>1. \A c \in Conns : link[c] = Gateway!New
    BY DEF Gateway!PromiseInit
  <2>2. Gateway!New.done = {} /\ Gateway!New.grant = {} /\ Gateway!New.ceiling = {}
    BY DEF Gateway!New, Gateway!Blank
  <2>3. Cardinality(slots) <= MaxSubs
    BY FS_EmptySet DEF Gateway!PromiseInit
  <2>4. Gateway!Entitled
    BY <2>1, <2>2, <2>3
       DEF Gateway!Entitled, Gateway!PromiseInit, Cardinality, Gateway!Cardinality
  <2>5. Links
    BY <2>1, BlankTyped DEF Links, Gateway!PromiseInit, Gateway!New, Gateway!Blank
  <2>6. slots \subseteq Conns
    BY DEF Gateway!PromiseInit
  <2> QED BY <2>1, <2>2, <2>4, <2>5, <2>6 DEF Sound, Fresh
<1>2. ASSUME Sound, [Gateway!PromiseNext]_Gateway!promiseVars PROVE Sound'
  <2>1. CASE Gateway!PromiseNext
    <3>0. Links' /\ slots' \subseteq Conns
      BY <1>2, <2>1, LinksStep
         DEF Sound, Gateway!PromiseNext, Gateway!Admit, Gateway!Begin, Gateway!Agree,
             Gateway!Operate, Gateway!Subscribe, Gateway!Close, Gateway!Part,
             Gateway!Unsubscribe
    <3>1. Cardinality(slots') <= MaxSubs
      BY <1>2, <2>1, SlotsStep
    <3>2. \A c \in slots' : link'[c].stage = "open"
                                  /\ "subscribe_events" \in link'[c].grant
      BY <1>2, <2>1, <3>0, ListensByRight
    <3>3. ASSUME NEW c \in Conns
          PROVE  /\ link'[c].done \subseteq link'[c].grant
                 /\ link'[c].grant \subseteq link'[c].ceiling
                 /\ Fresh(link[c])'
      <4>1. /\ link[c].done \subseteq link[c].grant
            /\ link[c].grant \subseteq link[c].ceiling /\ Fresh(link[c])
        BY <1>2 DEF Sound, Gateway!Entitled
      <4>2. LinkMoves(link[c], link'[c], c \in slots')
        BY <1>2, <2>1, LinkSteps DEF Sound, Moved
      <4>3. Gateway!Gone.done = {} /\ Gateway!Gone.grant = {}
        BY DEF Gateway!Gone, Gateway!Blank
      <4> QED BY <4>1, <4>2, <4>3 DEF LinkMoves, Fresh
    <3>4. Gateway!Entitled'
      BY <3>1, <3>2, <3>3 DEF Gateway!Entitled, Cardinality, Gateway!Cardinality
    <3> QED BY <3>0, <3>3, <3>4 DEF Sound
  <2>2. CASE UNCHANGED Gateway!promiseVars
    <3>1. link' = link /\ slots' = slots
      BY <2>2 DEF Gateway!promiseVars
    <3> QED BY <1>2, <3>1 DEF Sound, Links, Gateway!Entitled
  <2> QED BY <1>2, <2>1, <2>2
<1>3. Sound => Gateway!Entitled
  BY DEF Sound
<1> QED BY <1>1, <1>2, <1>3, PTL DEF Gateway!PromiseSpec

(* The promise alone makes an end final, and key, grant and code stand     *)
(* until it.                                                               *)
THEOREM PromisedStanding == Gateway!PromiseSpec => Gateway!Standing
<1> DEFINE Stands(c) ==
      link'[c] # Gateway!Gone =>
        /\ link[c].stage # "none" => link'[c].ceiling = link[c].ceiling
        /\ link[c].agreed => link'[c].agreed /\ link'[c].grant = link[c].grant
        /\ link[c].code # "none" => link'[c].code = link[c].code
        /\ link[c].stage # "gone"
<1>1. Gateway!PromiseInit => Links
  <2>1. Gateway!PromiseInit => \A c \in Conns : link[c] = Gateway!New
    BY DEF Gateway!PromiseInit
  <2> QED BY <2>1, BlankTyped DEF Links, Gateway!PromiseInit, Gateway!New, Gateway!Blank
<1>2. ASSUME Links, [Gateway!PromiseNext]_Gateway!promiseVars
      PROVE  Links' /\ \A c \in Conns : Stands(c)
  <2>1. \A c \in Conns : link[c].stage = "gone" => link[c] = Gateway!Gone
    BY <1>2 DEF Links
  <2>2. CASE Gateway!PromiseNext
    <3>1. \A c \in Conns : LinkMoves(link[c], link'[c], c \in slots')
      BY <1>2, <2>2, LinkSteps DEF Moved
    <3>2. \A c \in Conns : Stands(c)
      BY <2>1, <3>1 DEF LinkMoves
    <3> QED BY <1>2, <2>2, <3>2, LinksStep
  <2>3. CASE UNCHANGED Gateway!promiseVars
    <3>1. link' = link
      BY <2>3 DEF Gateway!promiseVars
    <3> QED BY <1>2, <2>1, <3>1 DEF Links
  <2> QED BY <1>2, <2>2, <2>3
<1>3. Links /\ [Gateway!PromiseNext]_Gateway!promiseVars
        => Links' /\ [\A c \in Conns : Stands(c)]_Gateway!promiseVars
  BY <1>2
<1> QED BY <1>1, <1>3, PTL DEF Gateway!PromiseSpec, Gateway!Standing
=============================================================================
