-------------------------- MODULE WsGateway_proofs --------------------------
(***************************************************************************)
(* Theorems about WsGateway, for any number of connections and agents, any *)
(* limits and any wishes.                                                  *)
(***************************************************************************)
EXTENDS WsGateway, FiniteSetTheorems, TLAPS

(* What every reachable closure satisfies by itself.                       *)
ConnOK(k) ==
    /\ k \in Connection
    /\ k.phase # "open" =>
          ~k.handshakeTimer /\ k.heartbeats = 0 /\ ~k.subscription
    /\ k.phase \in {"none", "keyed"} => ~k.negotiated /\ k.early = 0 /\ k.late = 0
    /\ ~k.negotiated => k.heartbeats = 0 /\ k.granted = {}
    /\ k.heartbeats <= 1
    /\ k.acted \subseteq k.granted
    /\ k.granted \subseteq Allowed(k.trust)
    /\ k.phase \in {"keyed", "open"} \/ k.acted # {} => k.agent \in Agents
    /\ k.errors = k.failures

(* A closure and the key it was opened with.                               *)
KeyOK(k) == k.agent \in Agents => credential[k.agent] \in {k.trust, "revoked"}

(* The inductive invariant: sound closures, sound keys, counted slots.     *)
IInv ==
    /\ TypeOK
    /\ \A c \in Conns : ConnOK(conn[c]) /\ KeyOK(conn[c])
    /\ SlotsCounted

-----------------------------------------------------------------------------
(* What the helpers do to one closure.                                     *)

(* closeWith changes nothing but the code.                                 *)
LEMMA CloseWithOK ==
    ASSUME NEW k, ConnOK(k), KeyOK(k), NEW code \in Codes
    PROVE  /\ ConnOK(CloseWith(k, code)) /\ KeyOK(CloseWith(k, code))
           /\ CloseWith(k, code).subscription = k.subscription
           /\ CloseWith(k, code).phase = k.phase
<1> DEFINE n == CloseWith(k, code)
<1>1. k \in Connection
  BY DEF ConnOK
<1>2. n \in Connection
  BY <1>1 DEF CloseWith, Connection
<1>3. /\ n.phase = k.phase /\ n.agent = k.agent /\ n.trust = k.trust
      /\ n.negotiated = k.negotiated /\ n.granted = k.granted
      /\ n.handshakeTimer = k.handshakeTimer /\ n.heartbeats = k.heartbeats
      /\ n.subscription = k.subscription /\ n.early = k.early /\ n.late = k.late
      /\ n.acted = k.acted /\ n.errors = k.errors /\ n.failures = k.failures
  BY <1>1 DEF CloseWith, Connection
<1> HIDE DEF n
<1> QED BY <1>2, <1>3 DEF ConnOK, KeyOK, n

(* A message that arrives leaves an open closure sound.                    *)
LEMMA ArriveOK ==
    ASSUME NEW c \in Conns, ConnOK(conn[c]), KeyOK(conn[c])
    PROVE  /\ ConnOK(Arrive(c)) /\ KeyOK(Arrive(c))
           /\ Arrive(c).phase = conn[c].phase
           /\ Arrive(c).subscription = conn[c].subscription
           /\ Arrive(c).negotiated = conn[c].negotiated
           /\ Arrive(c).granted = conn[c].granted
           /\ Arrive(c).trust = conn[c].trust
           /\ Arrive(c).heartbeats = conn[c].heartbeats
<1> DEFINE k == conn[c]
           n == Arrive(c)
<1>1. k \in Connection
  BY DEF ConnOK
<1>2. Capped(k.recent + 1, MsgRateMax) \in 0..MsgRateMax /\ 0 \in 0..IdleBeats
  BY <1>1, GatewayAssumption DEF Capped, Connection
<1>3. n \in Connection
  BY <1>1, <1>2 DEF Arrive, Connection
<1>4. /\ n.phase = k.phase /\ n.agent = k.agent /\ n.trust = k.trust
      /\ n.negotiated = k.negotiated /\ n.granted = k.granted /\ n.code = k.code
      /\ n.handshakeTimer = k.handshakeTimer /\ n.heartbeats = k.heartbeats
      /\ n.subscription = k.subscription /\ n.early = k.early /\ n.late = k.late
      /\ n.acted = k.acted /\ n.errors = k.errors /\ n.failures = k.failures
  BY <1>1 DEF Arrive, Connection
<1> QED BY <1>3, <1>4 DEF ConnOK, KeyOK

(* Clearing the handshake timer leaves a closure sound.                    *)
LEMMA ClearTimerOK ==
    ASSUME NEW k, ConnOK(k), KeyOK(k)
    PROVE  LET n == [k EXCEPT !.handshakeTimer = FALSE]
           IN  /\ ConnOK(n) /\ KeyOK(n)
               /\ n.phase = k.phase /\ n.subscription = k.subscription
<1> DEFINE n == [k EXCEPT !.handshakeTimer = FALSE]
<1>1. k \in Connection
  BY DEF ConnOK
<1>2. n \in Connection
  BY <1>1 DEF Connection
<1>3. /\ n.phase = k.phase /\ n.agent = k.agent /\ n.trust = k.trust
      /\ n.negotiated = k.negotiated /\ n.granted = k.granted /\ n.code = k.code
      /\ n.handshakeTimer = FALSE /\ n.heartbeats = k.heartbeats
      /\ n.subscription = k.subscription /\ n.early = k.early /\ n.late = k.late
      /\ n.acted = k.acted /\ n.errors = k.errors /\ n.failures = k.failures
  BY <1>1 DEF Connection
<1> HIDE DEF n
<1>4. ConnOK(n) /\ KeyOK(n)
  BY <1>2, <1>3 DEF ConnOK, KeyOK
<1> QED BY <1>3, <1>4 DEF n

-----------------------------------------------------------------------------
(* Steps of one connection that leave the counter alone, and steps that    *)
(* take or release a slot.                                                 *)

(* Replacing one sound closure by another with the same subscription.      *)
LEMMA SameSlots ==
    ASSUME IInv, NEW c \in Conns, NEW n, ConnOK(n), KeyOK(n),
           n.subscription = conn[c].subscription,
           conn' = [conn EXCEPT ![c] = n],
           UNCHANGED <<credential, activeSubscriptionCount>>
    PROVE  IInv'
<1>1. TypeOK'
  BY DEF IInv, TypeOK, ConnOK
<1>2. \A d \in Conns : conn'[d] = IF d = c THEN n ELSE conn[d]
  BY DEF IInv, TypeOK
<1>3. \A d \in Conns : ConnOK(conn'[d]) /\ KeyOK(conn[d])'
  BY <1>2 DEF IInv, KeyOK
<1>4. Subscribers' = Subscribers
  BY <1>2 DEF Subscribers
<1>5. SlotsCounted'
  BY <1>4 DEF IInv, SlotsCounted
<1> QED BY <1>1, <1>3, <1>5 DEF IInv

(* The subscribers are finitely many.                                      *)
LEMMA SubscribersFinite == IsFiniteSet(Subscribers)
<1>1. Subscribers \subseteq Conns
  BY DEF Subscribers
<1> QED BY <1>1, GatewayAssumption, FS_Subset

(* Taking a free slot for a connection that had none.                      *)
LEMMA TakeSlot ==
    ASSUME IInv, NEW c \in Conns, NEW n, ConnOK(n), KeyOK(n),
           n.subscription, ~conn[c].subscription,
           activeSubscriptionCount < MaxSubs,
           activeSubscriptionCount' = activeSubscriptionCount + 1,
           conn' = [conn EXCEPT ![c] = n], UNCHANGED credential
    PROVE  IInv'
<1>1. TypeOK'
  BY DEF IInv, TypeOK, ConnOK
<1>2. \A d \in Conns : conn'[d] = IF d = c THEN n ELSE conn[d]
  BY DEF IInv, TypeOK
<1>3. \A d \in Conns : ConnOK(conn'[d]) /\ KeyOK(conn[d])'
  BY <1>2 DEF IInv, KeyOK
<1>4. Subscribers' = Subscribers \cup {c} /\ c \notin Subscribers
  BY <1>2 DEF Subscribers
<1>5. Cardinality(Subscribers') = Cardinality(Subscribers) + 1
  BY <1>4, SubscribersFinite, FS_AddElement
<1>6. SlotsCounted'
  BY <1>5, GatewayAssumption DEF IInv, SlotsCounted, TypeOK
<1> QED BY <1>1, <1>3, <1>6 DEF IInv

(* Releasing whatever slot a connection has.                               *)
LEMMA GiveSlot ==
    ASSUME IInv, NEW c \in Conns, NEW n, ConnOK(n), KeyOK(n),
           ~n.subscription, ReleaseSlot(c),
           conn' = [conn EXCEPT ![c] = n], UNCHANGED credential
    PROVE  IInv'
<1>1. activeSubscriptionCount' \in Nat
  BY DEF IInv, TypeOK, ReleaseSlot
<1>2. TypeOK'
  BY <1>1 DEF IInv, TypeOK, ConnOK
<1>3. \A d \in Conns : conn'[d] = IF d = c THEN n ELSE conn[d]
  BY DEF IInv, TypeOK
<1>4. \A d \in Conns : ConnOK(conn'[d]) /\ KeyOK(conn[d])'
  BY <1>3 DEF IInv, KeyOK
<1>5. Subscribers' = Subscribers \ {c}
  BY <1>3 DEF Subscribers
<1>6. SlotsCounted'
  <2>1. CASE conn[c].subscription
    <3>1. c \in Subscribers
      BY <2>1 DEF Subscribers
    <3>2. Cardinality(Subscribers') = Cardinality(Subscribers) - 1
      BY <1>5, <3>1, SubscribersFinite, FS_RemoveElement
    <3>3. Cardinality(Subscribers) \in Nat /\ Cardinality(Subscribers) # 0
      BY <3>1, SubscribersFinite, FS_CardinalityType, FS_EmptySet
    <3> QED BY <2>1, <3>2, <3>3, GatewayAssumption DEF IInv, SlotsCounted, ReleaseSlot
  <2>2. CASE ~conn[c].subscription
    <3>1. Subscribers' = Subscribers
      BY <1>5, <2>2 DEF Subscribers
    <3> QED BY <2>2, <3>1 DEF IInv, SlotsCounted, ReleaseSlot
  <2> QED BY <2>1, <2>2
<1> QED BY <1>2, <1>4, <1>6 DEF IInv

-----------------------------------------------------------------------------
(* The invariant.                                                          *)

(* Every connection starts closed, no key exists and no slot is taken.     *)
LEMMA InitInv == Init => IInv
<1> SUFFICES ASSUME Init PROVE IInv
  OBVIOUS
<1>1. Closed \in Connection
  BY GatewayAssumption DEF Closed, Connection, Codes, TrustLevels
<1>2. ConnOK(Closed) /\ KeyOK(Closed) /\ ~Closed.subscription
  BY <1>1, GatewayAssumption DEF ConnOK, KeyOK, Closed
<1>3. \A c \in Conns : conn[c] = Closed
  BY DEF Init
<1>4. TypeOK
  BY <1>1 DEF Init, TypeOK
<1>5. Subscribers = {}
  BY <1>2, <1>3 DEF Subscribers
<1>6. SlotsCounted
  BY <1>5, FS_EmptySet, GatewayAssumption DEF Init, SlotsCounted
<1> QED BY <1>2, <1>3, <1>4, <1>6 DEF IInv

(* Keys: a key in use was provisioned once and is only ever revoked.       *)
LEMMA CredentialInv ==
    ASSUME IInv, NEW a \in Agents,
           AgentRevoke(a) \/ \E trust \in TrustLevels : Provision(a, trust)
    PROVE  IInv'
<1>1. TypeOK'
  BY DEF IInv, TypeOK, AgentRevoke, Provision
<1>2. ASSUME NEW c \in Conns PROVE ConnOK(conn'[c]) /\ KeyOK(conn[c])'
  <2>1. ConnOK(conn[c]) /\ KeyOK(conn[c]) /\ conn' = conn
    BY DEF IInv, AgentRevoke, Provision
  <2>2. conn[c].trust \in TrustLevels
    BY <2>1 DEF ConnOK, Connection
  <2>3. KeyOK(conn[c])'
    BY <2>1, <2>2 DEF IInv, TypeOK, KeyOK, AgentRevoke, Provision, TrustLevels
  <2> QED BY <2>1, <2>3
<1>3. SlotsCounted'
  BY DEF IInv, SlotsCounted, Subscribers, AgentRevoke, Provision
<1> QED BY <1>1, <1>2, <1>3 DEF IInv

(* A key is looked up, the request upgraded, the deadline passes.          *)
LEMMA OpeningInv ==
    ASSUME IInv, NEW c \in Conns,
           \/ \E a \in Agents : RequireAgentKey(c, a)
           \/ Upgrade(c) \/ HandshakeTimeout(c)
    PROVE  IInv'
<1> DEFINE k == conn[c]
<1>1. ConnOK(k) /\ KeyOK(k) /\ k \in Connection
  BY DEF IInv, ConnOK
<1>2. CASE \E a \in Agents : RequireAgentKey(c, a)
  <2>1. PICK a \in Agents : RequireAgentKey(c, a)
    BY <1>2
  <2> DEFINE n == [k EXCEPT !.phase = "keyed", !.agent = a, !.trust = credential[a]]
  <2>2. credential[a] \in TrustLevels
    BY <2>1 DEF RequireAgentKey
  <2>3. n \in Connection
    BY <1>1, <2>2 DEF Connection
  <2>4. /\ n.negotiated = k.negotiated /\ n.granted = k.granted
        /\ n.code = k.code /\ n.handshakeTimer = k.handshakeTimer
        /\ n.heartbeats = k.heartbeats /\ n.subscription = k.subscription
        /\ n.failures = k.failures /\ n.early = k.early /\ n.late = k.late
        /\ n.acted = k.acted /\ n.errors = k.errors /\ n.phase = "keyed"
        /\ n.agent = a /\ n.trust = credential[a]
    BY <1>1 DEF Connection
  <2>5. k.phase = "none" /\ conn' = [conn EXCEPT ![c] = n]
        /\ UNCHANGED <<credential, activeSubscriptionCount>>
    BY <2>1 DEF RequireAgentKey
  <2> HIDE DEF n
  <2>6. n.granted = {}
    BY <1>1, <2>4, <2>5 DEF ConnOK
  <2>7. ConnOK(n) /\ KeyOK(n)
    BY <1>1, <2>3, <2>4, <2>5, <2>6 DEF ConnOK, KeyOK
  <2> QED BY <2>4, <2>5, <2>7, SameSlots
<1>3. CASE Upgrade(c)
  <2> DEFINE n == [k EXCEPT !.phase = "open", !.handshakeTimer = TRUE]
  <2>1. n \in Connection
    BY <1>1 DEF Connection
  <2>2. /\ n.agent = k.agent /\ n.trust = k.trust
        /\ n.negotiated = k.negotiated /\ n.granted = k.granted
        /\ n.code = k.code /\ n.heartbeats = k.heartbeats
        /\ n.subscription = k.subscription /\ n.failures = k.failures
        /\ n.early = k.early /\ n.late = k.late /\ n.acted = k.acted
        /\ n.errors = k.errors /\ n.phase = "open" /\ n.handshakeTimer = TRUE
    BY <1>1 DEF Connection
  <2>3. k.phase = "keyed" /\ conn' = [conn EXCEPT ![c] = n]
        /\ UNCHANGED <<credential, activeSubscriptionCount>>
    BY <1>3 DEF Upgrade
  <2> HIDE DEF n
  <2>4. ConnOK(n) /\ KeyOK(n)
    BY <1>1, <2>1, <2>2, <2>3 DEF ConnOK, KeyOK
  <2> QED BY <2>2, <2>3, <2>4, SameSlots
<1>4. CASE HandshakeTimeout(c)
  <2> DEFINE n == [k EXCEPT !.handshakeTimer = FALSE]
             closing == IF n.negotiated THEN n ELSE CloseWith(n, "handshake")
  <2>1. ConnOK(n) /\ KeyOK(n) /\ n.subscription = k.subscription
    BY <1>1, ClearTimerOK
  <2>2. conn' = [conn EXCEPT ![c] = closing]
        /\ UNCHANGED <<credential, activeSubscriptionCount>>
    BY <1>4 DEF HandshakeTimeout
  <2> HIDE DEF n
  <2>3. ConnOK(closing) /\ KeyOK(closing) /\ closing.subscription = k.subscription
    BY <2>1, CloseWithOK DEF Codes
  <2> HIDE DEF closing
  <2> QED BY <2>2, <2>3, SameSlots
<1> QED BY <1>2, <1>3, <1>4

(* A message that closes, that is only answered, or that leaves the window.*)
LEMMA RefusalInv ==
    ASSUME IInv, NEW c \in Conns,
           MsgOverRate(c) \/ MsgOutOfProtocol(c) \/ MsgAnswered(c) \/ WindowSlides(c)
    PROVE  IInv'
<1> DEFINE k == conn[c]
           n == [Arrive(c) EXCEPT !.handshakeTimer = FALSE]
<1>1. ConnOK(k) /\ KeyOK(k) /\ k \in Connection
  BY DEF IInv, ConnOK
<1>2. /\ ConnOK(Arrive(c)) /\ KeyOK(Arrive(c))
      /\ Arrive(c).subscription = k.subscription
  BY <1>1, ArriveOK
<1>3. ConnOK(n) /\ KeyOK(n) /\ n.subscription = k.subscription
  BY <1>2, ClearTimerOK
<1>4. ASSUME NEW code \in {"rate", "protocol"},
             conn' = [conn EXCEPT ![c] = CloseWith(n, code)],
             UNCHANGED <<credential, activeSubscriptionCount>>
      PROVE  IInv'
  <2> HIDE DEF n
  <2>1. /\ ConnOK(CloseWith(n, code)) /\ KeyOK(CloseWith(n, code))
        /\ CloseWith(n, code).subscription = k.subscription
    BY <1>3, CloseWithOK DEF Codes
  <2> QED BY <1>4, <2>1, SameSlots
<1>5. CASE MsgOverRate(c)
  BY <1>4, <1>5 DEF MsgOverRate
<1>6. CASE MsgOutOfProtocol(c)
  BY <1>4, <1>6 DEF MsgOutOfProtocol
<1>7. CASE MsgAnswered(c)
  BY <1>2, <1>7, SameSlots DEF MsgAnswered
<1>8. CASE WindowSlides(c)
  <2> DEFINE m == [k EXCEPT !.recent = @ - 1]
  <2>1. k.recent - 1 \in 0..MsgRateMax
    BY <1>1, <1>8, GatewayAssumption DEF WindowSlides, Connection
  <2>2. m \in Connection
    BY <1>1, <2>1 DEF Connection
  <2>3. /\ m.phase = k.phase /\ m.agent = k.agent /\ m.trust = k.trust
        /\ m.negotiated = k.negotiated /\ m.granted = k.granted
        /\ m.code = k.code /\ m.handshakeTimer = k.handshakeTimer
        /\ m.heartbeats = k.heartbeats /\ m.subscription = k.subscription
        /\ m.failures = k.failures /\ m.early = k.early /\ m.late = k.late
        /\ m.acted = k.acted /\ m.errors = k.errors
    BY <1>1 DEF Connection
  <2>4. conn' = [conn EXCEPT ![c] = m]
        /\ UNCHANGED <<credential, activeSubscriptionCount>>
    BY <1>8 DEF WindowSlides
  <2> HIDE DEF m
  <2>5. ConnOK(m) /\ KeyOK(m)
    BY <1>1, <2>2, <2>3 DEF ConnOK, KeyOK
  <2> QED BY <2>3, <2>4, <2>5, SameSlots
<1> QED BY <1>5, <1>6, <1>7, <1>8

(* Negotiation grants within the trust level and starts one heartbeat.     *)
LEMMA CapabilitiesInv ==
    ASSUME IInv, NEW c \in Conns, NEW wish \in Wishes, CapabilitiesRequest(c, wish)
    PROVE  IInv'
<1> DEFINE k == Arrive(c)
           grant == k.granted \cup (wish \cap Allowed(conn[c].trust))
           beats == Capped(k.heartbeats + 1, 2)
           n == [k EXCEPT !.granted = grant, !.negotiated = TRUE,
                          !.handshakeTimer = FALSE, !.heartbeats = beats]
<1>1. /\ ConnOK(conn[c]) /\ KeyOK(conn[c]) /\ Open(c) /\ ~conn[c].negotiated
  BY DEF IInv, CapabilitiesRequest, WithinRate
<1>2. /\ ConnOK(k) /\ KeyOK(k) /\ k.phase = "open" /\ ~k.negotiated
      /\ k.subscription = conn[c].subscription /\ k.trust = conn[c].trust
  BY <1>1, ArriveOK DEF Open
<1>3. k \in Connection /\ k.granted = {} /\ k.heartbeats = 0
  BY <1>2 DEF ConnOK
<1>4. beats = 1 /\ beats \in 0..2
  BY <1>3 DEF Capped
<1>5. conn' = [conn EXCEPT ![c] = n]
      /\ UNCHANGED <<credential, activeSubscriptionCount>>
  BY DEF CapabilitiesRequest
<1> HIDE DEF k
<1>6. grant \subseteq Allowed(k.trust) /\ grant \in SUBSET Capabilities
  BY <1>2, <1>3, GatewayAssumption DEF Allowed
<1> HIDE DEF grant, beats
<1>7. n \in Connection
  BY <1>3, <1>4, <1>6 DEF Connection
<1>8. /\ n.phase = k.phase /\ n.agent = k.agent /\ n.trust = k.trust
      /\ n.code = k.code /\ n.subscription = k.subscription
      /\ n.failures = k.failures /\ n.early = k.early /\ n.late = k.late
      /\ n.acted = k.acted /\ n.errors = k.errors /\ n.granted = grant
      /\ n.negotiated = TRUE /\ n.handshakeTimer = FALSE
      /\ n.heartbeats = beats
  BY <1>3 DEF Connection
<1> HIDE DEF n
<1>9. k.acted = {}
  BY <1>2, <1>3 DEF ConnOK
<1>10. ConnOK(n) /\ KeyOK(n)
  BY <1>2, <1>4, <1>6, <1>7, <1>8, <1>9 DEF ConnOK, KeyOK
<1> QED BY <1>2, <1>5, <1>8, <1>10, SameSlots

(* Carrying out a granted operation.                                       *)
LEMMA OperationInv ==
    ASSUME IInv, NEW c \in Conns,
           \/ \E cap \in {"query_events", "query_sessions", "revoke_session"} :
                 MsgQueryOrRevoke(c, cap)
           \/ SubscribeEvents(c) \/ UnsubscribeEvents(c)
    PROVE  IInv'
<1> DEFINE k == Arrive(c)
<1>1. ConnOK(conn[c]) /\ KeyOK(conn[c])
  BY DEF IInv
<1>2. /\ ConnOK(k) /\ KeyOK(k) /\ k.phase = conn[c].phase
      /\ k.subscription = conn[c].subscription /\ k.granted = conn[c].granted
  BY <1>1, ArriveOK
<1>3. k \in Connection /\ k.agent = conn[c].agent
  BY <1>1, <1>2 DEF ConnOK, Arrive, Connection
<1> HIDE DEF k
<1>4. ASSUME NEW cap \in conn[c].granted, NEW sub \in BOOLEAN, k.phase = "open"
      PROVE  LET n == [k EXCEPT !.subscription = sub, !.acted = @ \cup {cap}]
             IN  ConnOK(n) /\ KeyOK(n) /\ n.subscription = sub
  <2> DEFINE n == [k EXCEPT !.subscription = sub, !.acted = @ \cup {cap}]
  <2>1. k.acted \cup {cap} \in SUBSET Capabilities
    BY <1>2, <1>3 DEF Connection
  <2>2. n \in Connection
    BY <1>3, <2>1 DEF Connection
  <2>3. /\ n.phase = k.phase /\ n.agent = k.agent /\ n.trust = k.trust
        /\ n.negotiated = k.negotiated /\ n.granted = k.granted
        /\ n.code = k.code /\ n.handshakeTimer = k.handshakeTimer
        /\ n.heartbeats = k.heartbeats /\ n.failures = k.failures
        /\ n.early = k.early /\ n.late = k.late /\ n.errors = k.errors
        /\ n.subscription = sub /\ n.acted = k.acted \cup {cap}
    BY <1>3 DEF Connection
  <2> HIDE DEF n
  <2>4. ConnOK(n) /\ KeyOK(n)
    BY <1>2, <1>4, <2>2, <2>3 DEF ConnOK, KeyOK
  <2> QED BY <2>3, <2>4 DEF n
<1>5. CASE \E cap \in {"query_events", "query_sessions", "revoke_session"} :
             MsgQueryOrRevoke(c, cap)
  <2>1. PICK cap \in {"query_events", "query_sessions", "revoke_session"} :
               MsgQueryOrRevoke(c, cap)
    BY <1>5
  <2> DEFINE n == [k EXCEPT !.acted = @ \cup {cap}]
             m == [k EXCEPT !.subscription = k.subscription, !.acted = @ \cup {cap}]
  <2>2. cap \in conn[c].granted /\ k.phase = "open" /\ k.subscription \in BOOLEAN
    BY <1>2, <1>3, <2>1 DEF MsgQueryOrRevoke, WithinRate, Open, Granted, Connection
  <2>3. n = m
    BY <1>3 DEF Connection
  <2>4. ConnOK(m) /\ KeyOK(m) /\ m.subscription = k.subscription
    BY <1>4, <2>2
  <2>5. conn' = [conn EXCEPT ![c] = n]
        /\ UNCHANGED <<credential, activeSubscriptionCount>>
    BY <2>1 DEF MsgQueryOrRevoke, k
  <2> HIDE DEF n, m
  <2> QED BY <1>2, <2>3, <2>4, <2>5, SameSlots
<1>6. CASE SubscribeEvents(c)
  <2> DEFINE cap == "subscribe_events"
             n == [k EXCEPT !.subscription = TRUE, !.acted = @ \cup {cap}]
  <2>1. cap \in conn[c].granted /\ k.phase = "open" /\ ~conn[c].subscription
    BY <1>2, <1>6 DEF SubscribeEvents, WithinRate, Open, Granted
  <2>2. ConnOK(n) /\ KeyOK(n) /\ n.subscription = TRUE
    BY <1>4, <2>1
  <2>3. /\ activeSubscriptionCount < MaxSubs
        /\ activeSubscriptionCount' = activeSubscriptionCount + 1
        /\ conn' = [conn EXCEPT ![c] = n] /\ UNCHANGED credential
    BY <1>6 DEF SubscribeEvents, k
  <2> HIDE DEF n
  <2> QED BY <2>1, <2>2, <2>3, TakeSlot
<1>7. CASE UnsubscribeEvents(c)
  <2> DEFINE n == [k EXCEPT !.subscription = FALSE]
  <2>1. n \in Connection
    BY <1>3 DEF Connection
  <2>2. /\ n.phase = k.phase /\ n.agent = k.agent /\ n.trust = k.trust
        /\ n.negotiated = k.negotiated /\ n.granted = k.granted
        /\ n.code = k.code /\ n.handshakeTimer = k.handshakeTimer
        /\ n.heartbeats = k.heartbeats /\ n.failures = k.failures
        /\ n.early = k.early /\ n.late = k.late /\ n.acted = k.acted
        /\ n.errors = k.errors /\ n.subscription = FALSE
    BY <1>3 DEF Connection
  <2>3. ReleaseSlot(c) /\ conn' = [conn EXCEPT ![c] = n] /\ UNCHANGED credential
    BY <1>7 DEF UnsubscribeEvents, k
  <2> HIDE DEF n
  <2>4. ConnOK(n) /\ KeyOK(n)
    BY <1>2, <2>1, <2>2 DEF ConnOK, KeyOK
  <2> QED BY <2>2, <2>3, <2>4, GiveSlot
<1> QED BY <1>5, <1>6, <1>7

(* The heartbeat and the checks it begins.                                 *)
LEMMA HeartbeatInv ==
    ASSUME IInv, NEW c \in Conns, HeartbeatIdle(c) \/ HeartbeatCheck(c) \/ Checks(c)
    PROVE  IInv'
<1> DEFINE k == conn[c]
           With(quiet, early, late, failures) ==
              [k EXCEPT !.quiet = quiet, !.early = early, !.late = late,
                        !.failures = failures, !.errors = failures]
<1>0. ConnOK(k) /\ KeyOK(k) /\ k \in Connection
  BY DEF IInv, ConnOK
<1>1. ConnOK(k) /\ KeyOK(k) /\ k \in Connection /\ k.phase \in {"open", "gone"}
  <2>1. CASE HeartbeatIdle(c) \/ HeartbeatCheck(c)
    BY <1>0, <2>1 DEF HeartbeatIdle, HeartbeatCheck, Beats, Open
  <2>2. CASE Checks(c)
    <3>1. k.early > 0 \/ k.late > 0
      BY <2>2 DEF Checks, CheckValid, CheckRevoked, CheckFailed, Resumes
    <3> QED BY <1>0, <3>1 DEF ConnOK, Connection
  <2> QED BY <2>1, <2>2
<1>2. ASSUME NEW quiet \in 0..IdleBeats, NEW early \in 0..MaxChecks,
             NEW late \in 0..MaxChecks, NEW failures \in 0..MaxFailures
      PROVE  /\ ConnOK(With(quiet, early, late, failures))
             /\ KeyOK(With(quiet, early, late, failures))
             /\ With(quiet, early, late, failures).subscription = k.subscription
  <2> DEFINE n == With(quiet, early, late, failures)
  <2>1. n \in Connection
    BY <1>1 DEF Connection
  <2>2. /\ n.phase = k.phase /\ n.agent = k.agent /\ n.trust = k.trust
        /\ n.negotiated = k.negotiated /\ n.granted = k.granted
        /\ n.code = k.code /\ n.handshakeTimer = k.handshakeTimer
        /\ n.heartbeats = k.heartbeats /\ n.subscription = k.subscription
        /\ n.acted = k.acted /\ n.early = early /\ n.late = late
        /\ n.failures = failures /\ n.errors = failures
    BY <1>1 DEF Connection
  <2> HIDE DEF With
  <2>3. ConnOK(n) /\ KeyOK(n)
    BY <1>1, <2>1, <2>2 DEF ConnOK, KeyOK
  <2> QED BY <2>2, <2>3
<1> HIDE DEF With
<1>3. /\ k.quiet \in 0..IdleBeats /\ k.early \in 0..MaxChecks
      /\ k.late \in 0..MaxChecks /\ k.failures \in 0..MaxFailures
      /\ k.errors = k.failures
  BY <1>1 DEF Connection, ConnOK
<1>4. CASE HeartbeatIdle(c)
  <2> DEFINE quiet == Capped(k.quiet + 1, IdleBeats)
             n == [k EXCEPT !.quiet = quiet]
             m == With(quiet, k.early, k.late, k.failures)
  <2>1. quiet \in 0..IdleBeats
    BY <1>3, GatewayAssumption DEF Capped
  <2> HIDE DEF quiet
  <2>2. ConnOK(m) /\ KeyOK(m) /\ m.subscription = k.subscription
    BY <1>2, <1>3, <2>1
  <2>3. n = m
    BY <1>1, <1>3 DEF Connection, With
  <2>4. conn' = [conn EXCEPT ![c] = CloseWith(n, "idle")]
        /\ UNCHANGED <<credential, activeSubscriptionCount>>
    BY <1>4 DEF HeartbeatIdle, quiet
  <2> HIDE DEF n, m
  <2>5. /\ ConnOK(CloseWith(n, "idle")) /\ KeyOK(CloseWith(n, "idle"))
        /\ CloseWith(n, "idle").subscription = k.subscription
    BY <2>2, <2>3, CloseWithOK DEF Codes
  <2> QED BY <2>4, <2>5, SameSlots
<1>5. CASE HeartbeatCheck(c)
  <2> DEFINE early == IF Revoked(k.agent) THEN k.early ELSE k.early + 1
             late == IF Revoked(k.agent) THEN k.late + 1 ELSE k.late
             n == [k EXCEPT !.quiet = @ + 1, !.early = early, !.late = late]
             m == With(k.quiet + 1, early, late, k.failures)
  <2>1. k.quiet + 1 \in 0..IdleBeats
    BY <1>3, <1>5, GatewayAssumption DEF HeartbeatCheck
  <2>2. early \in 0..MaxChecks /\ late \in 0..MaxChecks
    BY <1>3, <1>5, GatewayAssumption DEF HeartbeatCheck
  <2>3. conn' = [conn EXCEPT ![c] = n]
        /\ UNCHANGED <<credential, activeSubscriptionCount>>
    BY <1>5 DEF HeartbeatCheck, IInv, TypeOK
  <2> HIDE DEF early, late
  <2>4. ConnOK(m) /\ KeyOK(m) /\ m.subscription = k.subscription
    BY <1>2, <1>3, <2>1, <2>2
  <2>5. n = m
    BY <1>1, <1>3 DEF Connection, With
  <2> HIDE DEF n, m
  <2> QED BY <2>3, <2>4, <2>5, SameSlots
<1>6. CASE Checks(c)
  <2>1. ASSUME CheckValid(c) PROVE IInv'
    <3> DEFINE n == [k EXCEPT !.early = @ - 1, !.failures = 0, !.errors = 0]
               m == With(k.quiet, k.early - 1, k.late, 0)
    <3>1. k.early - 1 \in 0..MaxChecks /\ 0 \in 0..MaxFailures
      BY <1>3, <2>1, GatewayAssumption DEF CheckValid, Resumes
    <3>2. conn' = [conn EXCEPT ![c] = n]
          /\ UNCHANGED <<credential, activeSubscriptionCount>>
      BY <2>1 DEF CheckValid, IInv, TypeOK
    <3>3. ConnOK(m) /\ KeyOK(m) /\ m.subscription = k.subscription
      BY <1>2, <1>3, <3>1
    <3>4. n = m
      BY <1>1, <1>3 DEF Connection, With
    <3> HIDE DEF n, m
    <3> QED BY <3>2, <3>3, <3>4, SameSlots
  <2>2. ASSUME NEW field \in {"early", "late"}, Resumes(c, field),
               NEW failures \in 0..MaxFailures
        PROVE  LET n == [k EXCEPT ![field] = @ - 1, !.failures = failures,
                                  !.errors = failures]
               IN  ConnOK(n) /\ KeyOK(n) /\ n.subscription = k.subscription
    <3>1. CASE field = "early"
      <4> DEFINE n == [k EXCEPT !["early"] = @ - 1, !.failures = failures,
                                !.errors = failures]
                 m == With(k.quiet, k.early - 1, k.late, failures)
      <4>1. k.early - 1 \in 0..MaxChecks
        BY <1>3, <2>2, <3>1, GatewayAssumption DEF Resumes
      <4>2. ConnOK(m) /\ KeyOK(m) /\ m.subscription = k.subscription
        BY <1>2, <1>3, <4>1
      <4>3. n = m
        BY <1>1, <1>3 DEF Connection, With
      <4> QED BY <3>1, <4>2, <4>3
    <3>2. CASE field = "late"
      <4> DEFINE n == [k EXCEPT !["late"] = @ - 1, !.failures = failures,
                                !.errors = failures]
                 m == With(k.quiet, k.early, k.late - 1, failures)
      <4>1. k.late - 1 \in 0..MaxChecks
        BY <1>3, <2>2, <3>2, GatewayAssumption DEF Resumes
      <4>2. ConnOK(m) /\ KeyOK(m) /\ m.subscription = k.subscription
        BY <1>2, <1>3, <4>1
      <4>3. n = m
        BY <1>1, <1>3 DEF Connection, With
      <4> QED BY <3>2, <4>2, <4>3
    <3> QED BY <2>2, <3>1, <3>2
  <2>3. ASSUME NEW field \in {"early", "late"}, CheckRevoked(c, field) PROVE IInv'
    <3> DEFINE n == [k EXCEPT ![field] = @ - 1]
               m == [k EXCEPT ![field] = @ - 1, !.failures = k.failures,
                              !.errors = k.failures]
    <3>1. ConnOK(m) /\ KeyOK(m) /\ m.subscription = k.subscription
      BY <1>3, <2>2, <2>3 DEF CheckRevoked
    <3>2. n = m
      BY <1>1, <1>3 DEF Connection
    <3>3. conn' = [conn EXCEPT ![c] = CloseWith(n, "credential")]
          /\ UNCHANGED <<credential, activeSubscriptionCount>>
      BY <2>3 DEF CheckRevoked
    <3> HIDE DEF n, m
    <3>4. /\ ConnOK(CloseWith(n, "credential")) /\ KeyOK(CloseWith(n, "credential"))
          /\ CloseWith(n, "credential").subscription = k.subscription
      BY <3>1, <3>2, CloseWithOK DEF Codes
    <3> QED BY <3>3, <3>4, SameSlots
  <2>4. ASSUME NEW field \in {"early", "late"}, CheckFailed(c, field) PROVE IInv'
    <3> DEFINE failures == Capped(k.failures + 1, MaxFailures)
               n == [k EXCEPT ![field] = @ - 1, !.failures = failures,
                              !.errors = failures]
               closing == IF n.failures >= MaxFailures
                          THEN CloseWith(n, "credential") ELSE n
    <3>1. failures \in 0..MaxFailures
      BY <1>3, GatewayAssumption DEF Capped
    <3>2. n = [k EXCEPT ![field] = @ - 1,
                        !.failures = Capped(@ + 1, MaxFailures),
                        !.errors = Capped(@ + 1, MaxFailures)]
      BY <1>1, <1>3 DEF Connection
    <3> HIDE DEF failures
    <3>3. ConnOK(n) /\ KeyOK(n) /\ n.subscription = k.subscription
      BY <2>2, <2>4, <3>1 DEF CheckFailed
    <3>4. conn' = [conn EXCEPT ![c] = closing]
          /\ UNCHANGED <<credential, activeSubscriptionCount>>
      BY <2>4, <3>2 DEF CheckFailed
    <3> HIDE DEF n
    <3>5. ConnOK(closing) /\ KeyOK(closing) /\ closing.subscription = k.subscription
      BY <3>3, CloseWithOK DEF Codes
    <3> HIDE DEF closing
    <3> QED BY <3>4, <3>5, SameSlots
  <2> QED BY <1>6, <2>1, <2>3, <2>4 DEF Checks
<1> QED BY <1>4, <1>5, <1>6

(* The close event takes the timers and the slot with it.                  *)
LEMMA OnCloseInv ==
    ASSUME IInv, NEW c \in Conns, OnClose(c)
    PROVE  IInv'
<1> DEFINE k == conn[c]
           beats == IF k.heartbeats > 0 THEN k.heartbeats - 1 ELSE 0
           n == [k EXCEPT !.phase = "gone", !.handshakeTimer = FALSE,
                          !.heartbeats = beats, !.subscription = FALSE,
                          !.recent = 0, !.quiet = 0]
<1>1. ConnOK(k) /\ KeyOK(k) /\ k \in Connection /\ k.phase = "open"
  BY DEF IInv, ConnOK, OnClose, Open
<1>2. beats = 0 /\ beats \in 0..2 /\ 0 \in 0..MsgRateMax /\ 0 \in 0..IdleBeats
  BY <1>1, GatewayAssumption DEF ConnOK, Connection
<1>3. ReleaseSlot(c) /\ conn' = [conn EXCEPT ![c] = n] /\ UNCHANGED credential
  BY DEF OnClose, IInv, TypeOK
<1> HIDE DEF beats
<1>4. n \in Connection
  BY <1>1, <1>2 DEF Connection
<1>5. /\ n.agent = k.agent /\ n.trust = k.trust
      /\ n.negotiated = k.negotiated /\ n.granted = k.granted
      /\ n.code = k.code /\ n.failures = k.failures /\ n.acted = k.acted
      /\ n.errors = k.errors /\ n.phase = "gone" /\ n.handshakeTimer = FALSE
      /\ n.heartbeats = beats /\ n.subscription = FALSE
      /\ n.early = k.early /\ n.late = k.late
  BY <1>1 DEF Connection
<1> HIDE DEF n
<1>6. ConnOK(n) /\ KeyOK(n)
  BY <1>1, <1>2, <1>4, <1>5 DEF ConnOK, KeyOK
<1> QED BY <1>3, <1>5, <1>6, GiveSlot

(* An isolate that goes takes every connection and the counter with it.    *)
LEMMA EvictInv ==
    ASSUME IInv, Evict
    PROVE  IInv'
<1> DEFINE n == [Closed EXCEPT !.phase = "gone"]
<1>1. Closed \in Connection
  BY GatewayAssumption DEF Closed, Connection, Codes, TrustLevels
<1>2. n \in Connection
  BY <1>1 DEF Connection
<1>3. ConnOK(n) /\ ~n.subscription /\ n.agent = NoAgent
  BY <1>2, GatewayAssumption DEF ConnOK, Closed
<1> HIDE DEF n
<1>4. \A c \in Conns : conn'[c] = IF conn[c].phase = "none" THEN conn[c] ELSE n
  BY DEF Evict, n
<1>5. \A c \in Conns : ConnOK(conn'[c]) /\ KeyOK(conn[c])'
  BY <1>3, <1>4, GatewayAssumption DEF IInv, KeyOK, Evict
<1>6. TypeOK'
  BY <1>4, <1>5 DEF IInv, TypeOK, Evict, ConnOK
<1>7. Subscribers' = {}
  BY <1>3, <1>4 DEF IInv, ConnOK, Subscribers
<1>8. SlotsCounted'
  BY <1>7, FS_EmptySet, GatewayAssumption DEF SlotsCounted, Evict
<1> QED BY <1>5, <1>6, <1>8 DEF IInv

(* Every step of the gateway keeps the invariant.                          *)
LEMMA NextInv == IInv /\ [Next]_vars => IInv'
<1> SUFFICES ASSUME IInv, [Next]_vars PROVE IInv'
  OBVIOUS
<1>1. CASE UNCHANGED vars
  BY <1>1 DEF vars, IInv, TypeOK, KeyOK, SlotsCounted, Subscribers
<1>2. CASE \E a \in Agents : AgentRevoke(a) \/ \E t \in TrustLevels : Provision(a, t)
  BY <1>2, CredentialInv
<1>3. ASSUME NEW c \in Conns,
             \/ \E a \in Agents : RequireAgentKey(c, a)
             \/ Upgrade(c) \/ HandshakeTimeout(c)
      PROVE  IInv'
  BY <1>3, OpeningInv
<1>4. ASSUME NEW c \in Conns,
             MsgOverRate(c) \/ MsgOutOfProtocol(c) \/ MsgAnswered(c) \/ WindowSlides(c)
      PROVE  IInv'
  BY <1>4, RefusalInv
<1>5. ASSUME NEW c \in Conns, NEW wish \in Wishes, CapabilitiesRequest(c, wish)
      PROVE  IInv'
  BY <1>5, CapabilitiesInv
<1>6. ASSUME NEW c \in Conns,
             \/ \E cap \in {"query_events", "query_sessions", "revoke_session"} :
                   MsgQueryOrRevoke(c, cap)
             \/ SubscribeEvents(c) \/ UnsubscribeEvents(c)
      PROVE  IInv'
  BY <1>6, OperationInv
<1>7. ASSUME NEW c \in Conns, HeartbeatIdle(c) \/ HeartbeatCheck(c) \/ Checks(c)
      PROVE  IInv'
  BY <1>7, HeartbeatInv
<1>8. ASSUME NEW c \in Conns, OnClose(c) PROVE IInv'
  BY <1>8, OnCloseInv
<1>9. CASE Evict
  BY <1>9, EvictInv
<1> QED BY <1>1, <1>2, <1>3, <1>4, <1>5, <1>6, <1>7, <1>8, <1>9 DEF Next

(* Every reachable state of the gateway satisfies the invariant.           *)
LEMMA Invariance == Spec => []IInv
  BY InitInv, NextInv, PTL DEF Spec

-----------------------------------------------------------------------------
(* Theorems.                                                               *)

(* createWsHandler's variables and the shared counter keep their types.    *)
THEOREM GatewayTypes == Spec => []TypeOK
<1>1. IInv => TypeOK
  BY DEF IInv
<1> QED BY <1>1, Invariance, PTL

(* The counter of subscriptions is exact and within the cap, for any       *)
(* number of connections that subscribe, unsubscribe, close and are cut.   *)
THEOREM Slots == Spec => []SlotsCounted
<1>1. IInv => SlotsCounted
  BY DEF IInv
<1> QED BY <1>1, Invariance, PTL

(* onClose leaves no timer, interval or subscription of a connection, and  *)
(* no check that outlives it starts one again.                             *)
THEOREM Quiet == Spec => []GoneIsQuiet
<1>1. IInv => GoneIsQuiet
  BY DEF IInv, ConnOK, GoneIsQuiet
<1> QED BY <1>1, Invariance, PTL

(* No operation of a connection exceeds what its agent was provisioned for.*)
THEOREM Trust == Spec => []ActedWithinTrust
<1>1. IInv => ActedWithinTrust
  <2> SUFFICES ASSUME IInv, NEW c \in Conns, conn[c].acted # {}
               PROVE  /\ conn[c].negotiated
                      /\ conn[c].acted \subseteq conn[c].granted
                      /\ \E trust \in TrustLevels :
                            /\ conn[c].granted \subseteq Allowed(trust)
                            /\ credential[conn[c].agent] \in {trust, "revoked"}
    BY DEF ActedWithinTrust
  <2>1. ConnOK(conn[c]) /\ KeyOK(conn[c])
    BY DEF IInv
  <2>2. conn[c].trust \in TrustLevels /\ conn[c].agent \in Agents
    BY <2>1 DEF ConnOK, Connection
  <2>3. conn[c].granted \subseteq Allowed(conn[c].trust)
        /\ credential[conn[c].agent] \in {conn[c].trust, "revoked"}
    BY <2>1, <2>2 DEF ConnOK, KeyOK
  <2>4. conn[c].negotiated /\ conn[c].acted \subseteq conn[c].granted
    BY <2>1 DEF ConnOK, Connection
  <2> QED BY <2>2, <2>3, <2>4
<1> QED BY <1>1, Invariance, PTL

(* A step of one connection leaves the others alone; if it does not close  *)
(* the connection for its credential or for idleness, it needs no cause.   *)
LEMMA NoCause ==
    ASSUME IInv, NEW c \in Conns, NEW d \in Conns, NEW n,
           conn' = [conn EXCEPT ![d] = n], conn[c].code = "none",
           n.code \in {"none", "handshake", "protocol", "rate"} \cup {conn[d].code}
    PROVE  conn'[c].code \notin {"credential", "idle"}
<1>1. conn'[c] = IF c = d THEN n ELSE conn[c]
  BY DEF IInv, TypeOK
<1> QED BY <1>1

(* closeWith keeps the first code.                                         *)
LEMMA CloseWithCode ==
    ASSUME NEW k \in Connection, NEW code \in Codes
    PROVE  CloseWith(k, code).code = IF k.code = "none" THEN code ELSE k.code
  BY DEF CloseWith, Connection

(* Nobody is closed for a revoked key, or for idleness, without a cause.   *)
THEOREM Cause == Spec => CutForCause
<1> DEFINE Caused(c) ==
      conn[c].code = "none" =>
        /\ conn'[c].code = "credential" =>
              Revoked(conn[c].agent) \/ conn'[c].errors >= MaxFailures
        /\ conn'[c].code = "idle" => conn'[c].quiet >= IdleBeats
<1>1. ASSUME IInv, [Next]_vars, NEW c \in Conns, conn[c].code = "none" PROVE Caused(c)
  <2>1. \A d \in Conns : conn[d] \in Connection /\ ConnOK(conn[d])
    BY <1>1 DEF IInv, ConnOK
  <2>2. CASE conn' = conn
    BY <1>1, <2>2
  <2>3. ASSUME NEW d \in Conns, NEW n, conn' = [conn EXCEPT ![d] = n],
               n.code \in {"none", "handshake", "protocol", "rate"} \cup {conn[d].code}
        PROVE  Caused(c)
    BY <1>1, <2>3, NoCause
  <2>4. ASSUME NEW d \in Conns,
               \/ \E a \in Agents : RequireAgentKey(d, a)
               \/ Upgrade(d) \/ HandshakeTimeout(d)
        PROVE  Caused(c)
    <3>1. ASSUME NEW a \in Agents, RequireAgentKey(d, a) PROVE Caused(c)
      <4> DEFINE n == [conn[d] EXCEPT !.phase = "keyed", !.agent = a,
                                      !.trust = credential[a]]
      <4>1. n.code = conn[d].code
        BY <2>1 DEF Connection
      <4>2. conn' = [conn EXCEPT ![d] = n]
        BY <3>1 DEF RequireAgentKey
      <4> HIDE DEF n
      <4> QED BY <2>3, <4>1, <4>2
    <3>2. CASE Upgrade(d)
      <4> DEFINE n == [conn[d] EXCEPT !.phase = "open", !.handshakeTimer = TRUE]
      <4>1. n.code = conn[d].code
        BY <2>1 DEF Connection
      <4>2. conn' = [conn EXCEPT ![d] = n]
        BY <3>2 DEF Upgrade
      <4> HIDE DEF n
      <4> QED BY <2>3, <4>1, <4>2
    <3>3. CASE HandshakeTimeout(d)
      <4> DEFINE k == [conn[d] EXCEPT !.handshakeTimer = FALSE]
                 n == IF k.negotiated THEN k ELSE CloseWith(k, "handshake")
      <4>1. k \in Connection /\ k.code = conn[d].code
        BY <2>1 DEF Connection
      <4>2. conn' = [conn EXCEPT ![d] = n]
        BY <3>3 DEF HandshakeTimeout
      <4> HIDE DEF k
      <4>3. n.code \in {"handshake", conn[d].code}
        BY <4>1, CloseWithCode DEF Codes
      <4> HIDE DEF n
      <4> QED BY <2>3, <4>2, <4>3
    <3> QED BY <2>4, <3>1, <3>2, <3>3
  <2>5. ASSUME NEW d \in Conns PROVE Arrive(d) \in Connection /\ Arrive(d).code = conn[d].code
    <3>1. KeyOK(conn[d])
      BY <1>1 DEF IInv
    <3>2. Arrive(d) \in Connection
      BY <2>1, <3>1, ArriveOK DEF ConnOK
    <3>3. Arrive(d).code = conn[d].code
      BY <2>1 DEF Arrive, Connection
    <3> QED BY <3>2, <3>3
  <2>6. ASSUME NEW d \in Conns,
               MsgOverRate(d) \/ MsgOutOfProtocol(d) \/ MsgAnswered(d) \/ WindowSlides(d)
        PROVE  Caused(c)
    <3> DEFINE k == [Arrive(d) EXCEPT !.handshakeTimer = FALSE]
    <3>1. k \in Connection /\ k.code = conn[d].code
      BY <2>5 DEF Connection
    <3>2. CASE MsgOverRate(d)
      <4>1. conn' = [conn EXCEPT ![d] = CloseWith(k, "rate")]
        BY <3>2 DEF MsgOverRate
      <4>2. CloseWith(k, "rate").code \in {"rate", conn[d].code}
        BY <3>1, CloseWithCode DEF Codes
      <4> QED BY <2>3, <4>1, <4>2
    <3>3. CASE MsgOutOfProtocol(d)
      <4>1. conn' = [conn EXCEPT ![d] = CloseWith(k, "protocol")]
        BY <3>3 DEF MsgOutOfProtocol
      <4>2. CloseWith(k, "protocol").code \in {"protocol", conn[d].code}
        BY <3>1, CloseWithCode DEF Codes
      <4> QED BY <2>3, <4>1, <4>2
    <3>4. CASE MsgAnswered(d)
      BY <2>3, <2>5, <3>4 DEF MsgAnswered
    <3>5. CASE WindowSlides(d)
      BY <2>1, <2>3, <3>5 DEF WindowSlides, Connection
    <3> QED BY <2>6, <3>2, <3>3, <3>4, <3>5
  <2>7. ASSUME NEW d \in Conns, NEW wish \in Wishes, CapabilitiesRequest(d, wish)
        PROVE  Caused(c)
    BY <2>3, <2>5, <2>7 DEF CapabilitiesRequest, Connection
  <2>8. ASSUME NEW d \in Conns,
               \/ \E cap \in {"query_events", "query_sessions", "revoke_session"} :
                     MsgQueryOrRevoke(d, cap)
               \/ SubscribeEvents(d) \/ UnsubscribeEvents(d)
        PROVE  Caused(c)
    BY <2>3, <2>5, <2>8
       DEF MsgQueryOrRevoke, SubscribeEvents, UnsubscribeEvents, Connection
  <2>9. ASSUME NEW d \in Conns, HeartbeatIdle(d) PROVE Caused(c)
    <3> DEFINE k == [conn[d] EXCEPT !.quiet = Capped(@ + 1, IdleBeats)]
    <3>1. k.code = conn[d].code /\ k.quiet = Capped(conn[d].quiet + 1, IdleBeats)
      BY <2>1 DEF Connection
    <3>2. conn[d].quiet + 1 >= IdleBeats /\ conn[d].quiet \in Nat
      BY <2>1, <2>9 DEF HeartbeatIdle, Connection
    <3>3. k.quiet >= IdleBeats
      BY <3>1, <3>2, GatewayAssumption DEF Capped
    <3>4. conn' = [conn EXCEPT ![d] = CloseWith(k, "idle")]
      BY <2>9 DEF HeartbeatIdle
    <3>5. k \in Connection
      BY <2>1, <3>2, GatewayAssumption DEF Connection, Capped
    <3> HIDE DEF k
    <3>6. conn[d].code = "none" =>
            /\ CloseWith(k, "idle").quiet >= IdleBeats
            /\ CloseWith(k, "idle").code # "credential"
      BY <3>1, <3>3, <3>5 DEF CloseWith, Connection
    <3>7. conn'[c] = IF c = d THEN CloseWith(k, "idle") ELSE conn[c]
      BY <1>1, <3>4 DEF IInv, TypeOK
    <3> QED BY <1>1, <3>6, <3>7
  <2>10. ASSUME NEW d \in Conns, HeartbeatCheck(d) \/ CheckValid(d) \/ OnClose(d)
         PROVE  Caused(c)
    BY <2>1, <2>3, <2>10 DEF HeartbeatCheck, CheckValid, OnClose, Connection
  <2>11. ASSUME NEW d \in Conns, NEW field \in {"early", "late"}, CheckRevoked(d, field)
         PROVE  Caused(c)
    <3> DEFINE k == [conn[d] EXCEPT ![field] = @ - 1]
    <3>1. conn' = [conn EXCEPT ![d] = CloseWith(k, "credential")] /\ Revoked(conn[d].agent)
      BY <2>11 DEF CheckRevoked
    <3>2. DOMAIN k = DOMAIN conn[d] /\ k.code = conn[d].code
      BY <2>1 DEF Connection
    <3> HIDE DEF k
    <3>3. c = d => CloseWith(k, "credential").code = "credential"
      BY <1>1, <2>1, <3>2 DEF CloseWith, Connection
    <3>4. conn'[c] = IF c = d THEN CloseWith(k, "credential") ELSE conn[c]
      BY <1>1, <3>1 DEF IInv, TypeOK
    <3> QED BY <1>1, <3>1, <3>3, <3>4
  <2>12. ASSUME NEW d \in Conns, NEW field \in {"early", "late"}, CheckFailed(d, field)
         PROVE  Caused(c)
    <3> DEFINE k == [conn[d] EXCEPT ![field] = @ - 1,
                                    !.failures = Capped(@ + 1, MaxFailures),
                                    !.errors = Capped(@ + 1, MaxFailures)]
               n == IF k.failures >= MaxFailures THEN CloseWith(k, "credential") ELSE k
    <3>1. conn' = [conn EXCEPT ![d] = n]
      BY <2>12 DEF CheckFailed
    <3>2. /\ DOMAIN k = DOMAIN conn[d] /\ k.code = conn[d].code
          /\ k.errors = Capped(conn[d].errors + 1, MaxFailures)
          /\ k.failures = Capped(conn[d].failures + 1, MaxFailures)
      BY <2>1 DEF Connection
    <3>3. k.errors = k.failures
      BY <2>1, <3>2 DEF ConnOK
    <3> HIDE DEF k
    <3>4. c = d /\ k.failures < MaxFailures => n.code = "none"
      <4>1. k.failures \in Int
        BY <2>1, <3>2, GatewayAssumption DEF Capped, Connection
      <4> QED BY <1>1, <3>2, <4>1, GatewayAssumption
    <3>5. n.code # "idle" \/ c # d
      BY <1>1, <2>1, <3>2 DEF CloseWith, Connection
    <3>6. n.errors = k.errors
      BY <2>1, <3>2 DEF CloseWith, Connection
    <3>7. k.failures \in Int
      BY <2>1, <3>2, GatewayAssumption DEF Capped, Connection
    <3> HIDE DEF n
    <3>8. conn'[c] = IF c = d THEN n ELSE conn[c]
      BY <1>1, <3>1 DEF IInv, TypeOK
    <3> QED BY <1>1, <3>3, <3>4, <3>5, <3>6, <3>7, <3>8, GatewayAssumption
  <2>13. CASE Evict
    <3>1. conn'[c] = conn[c] \/ conn'[c] = [Closed EXCEPT !.phase = "gone"]
      BY <2>13 DEF Evict
    <3>2. [Closed EXCEPT !.phase = "gone"].code = "none"
      BY DEF Closed
    <3> QED BY <1>1, <3>1, <3>2
  <2>14. CASE UNCHANGED vars
    BY <2>2, <2>14 DEF vars
  <2>15. ASSUME NEW a \in Agents,
                AgentRevoke(a) \/ \E t \in TrustLevels : Provision(a, t)
         PROVE  Caused(c)
    BY <2>2, <2>15 DEF AgentRevoke, Provision
  <2> HIDE DEF Caused
  <2> QED BY <1>1, <2>4, <2>6, <2>7, <2>8, <2>9, <2>10, <2>11, <2>12, <2>13, <2>14, <2>15
          DEF Next, Checks
<1>2. IInv /\ [Next]_vars =>
        [\A c \in Conns : Caused(c)]_vars
  BY <1>1
<1> QED BY <1>2, Invariance, PTL DEF Spec, CutForCause
-----------------------------------------------------------------------------
(* The gateway keeps GatewayPromise.                                       *)

(* Nobody is closed before the connection is open: what runs into a        *)
(* closure, a message, a timer or a check, begins while it is open.        *)
Unjudged == \A c \in Conns : conn[c].phase \in {"none", "keyed"} => conn[c].code = "none"

(* Closures that a client cannot tell apart, but for phase, grant, code,   *)
(* operations and subscription.                                            *)
Alike(k, n, fields) == \A f \in {"phase", "trust", "negotiated", "granted", "code",
                                 "acted", "subscription"} \ fields : n[f] = k[f]

(* What a client may see of a step of its connection.                      *)
Moves(k, n) ==
    \/ k.phase = "none" /\ n.phase = "keyed" /\ n.trust \in TrustLevels
       /\ Alike(k, n, {"phase", "trust"})
    \/ k.phase = "keyed" /\ n.phase = "open" /\ Alike(k, n, {"phase"})
    \/ Alike(k, n, {})
    \/ k.phase = "open" /\ k.code = "none" /\ n.code \in Codes /\ Alike(k, n, {"code"})
    \/ k.phase = "gone" /\ Alike(k, n, {"code"})
    \/ k.phase = "open" /\ ~k.negotiated /\ n.negotiated = TRUE
       /\ n.granted \in SUBSET Allowed(k.trust) /\ Alike(k, n, {"negotiated", "granted"})
    \/ k.phase = "open" /\ Alike(k, n, {"acted"})
       /\ \E cap \in k.granted : n.acted = k.acted \cup {cap}
    \/ k.phase = "open" /\ Alike(k, n, {"acted", "subscription"})
       /\ "subscribe_events" \in k.granted /\ n.acted = k.acted \cup {"subscribe_events"}
       /\ ~k.subscription /\ n.subscription = TRUE
    \/ n.subscription = FALSE /\ Alike(k, n, {"subscription"})
    \/ k.phase = "open" /\ n.phase = "gone" /\ n.subscription = FALSE

(* A step of one closure, as a step of the promise sees it.                *)
LEMMA OneLink ==
    ASSUME IInv, NEW c \in Conns, NEW n, conn' = [conn EXCEPT ![c] = n]
    PROVE  /\ Promise!promiseVars = <<[d \in Conns |-> View(conn[d])], Subscribers>>
           /\ \A d \in Conns : conn'[d] = IF d = c THEN n ELSE conn[d]
           /\ conn'[c] = n
           /\ [d \in Conns |-> View(conn[d])]'
                = [[d \in Conns |-> View(conn[d])] EXCEPT ![c] = View(n)]
           /\ Subscribers' = IF n.subscription = TRUE THEN Subscribers \cup {c}
                             ELSE Subscribers \ {c}
<1>1. \A d \in Conns : conn'[d] = IF d = c THEN n ELSE conn[d]
  BY DEF IInv, TypeOK
<1>2. \A d \in Conns : conn[d].subscription \in BOOLEAN
  BY DEF IInv, TypeOK, Connection
<1> QED BY <1>1, <1>2 DEF Promise!promiseVars, Subscribers, View

(* closeWith changes the code, once.                                       *)
LEMMA CloseWithMoves ==
    ASSUME NEW k \in Connection, NEW n \in Connection, NEW code \in Codes,
           Alike(k, n, {}), k.phase \in {"open", "gone"}
    PROVE  Moves(k, CloseWith(n, code))
<1>1. CASE n.code = "none"
  <2> DEFINE m == [n EXCEPT !.code = code]
  <2>1. m.code = code /\ Alike(n, m, {"code"})
    BY DEF Alike, Connection
  <2>2. CloseWith(n, code) = m
    BY <1>1 DEF CloseWith
  <2> HIDE DEF m
  <2>3. Alike(k, m, {"code"}) /\ k.code = "none"
    BY <1>1, <2>1 DEF Alike
  <2> QED BY <2>1, <2>2, <2>3 DEF Moves
<1>2. CASE n.code # "none"
  BY <1>2 DEF CloseWith, Moves
<1> QED BY <1>1, <1>2

(* Every step of the gateway is one a client may see, of one connection,   *)
(* or the end of them all.                                                 *)
LEMMA Seen ==
    ASSUME IInv, [Next]_vars
    PROVE  \/ conn' = conn
           \/ Evict
           \/ \E c \in Conns, n \in Connection :
                 conn' = [conn EXCEPT ![c] = n] /\ Moves(conn[c], n)
<1> DEFINE Moved(c) == \E n \in Connection :
                          conn' = [conn EXCEPT ![c] = n] /\ Moves(conn[c], n)
<1>1. IInv'
  BY NextInv
<1>2. \A c \in Conns : conn[c] \in Connection /\ conn'[c] \in Connection
  BY <1>1 DEF IInv, TypeOK
<1>3. ASSUME NEW c \in Conns, NEW n, conn' = [conn EXCEPT ![c] = n], Moves(conn[c], n)
      PROVE  Moved(c)
  <2>1. conn'[c] = n
    BY <1>3 DEF IInv, TypeOK
  <2> QED BY <1>2, <1>3, <2>1
<1>4. ASSUME NEW c \in Conns
      PROVE  Arrive(c) \in Connection /\ Alike(conn[c], Arrive(c), {})
  <2>1. ConnOK(conn[c]) /\ KeyOK(conn[c])
    BY DEF IInv
  <2>2. ConnOK(Arrive(c))
    BY <2>1, ArriveOK
  <2> QED BY <1>2, <2>2 DEF ConnOK, Alike, Arrive, Connection
<1> HIDE DEF Moved
<1>5. ASSUME NEW c \in Conns, NEW a \in Agents, RequireAgentKey(c, a) PROVE Moved(c)
  <2> DEFINE n == [conn[c] EXCEPT !.phase = "keyed", !.agent = a, !.trust = credential[a]]
  <2>1. conn' = [conn EXCEPT ![c] = n] /\ conn[c].phase = "none"
        /\ credential[a] \in TrustLevels
    BY <1>5 DEF RequireAgentKey
  <2>2. n.phase = "keyed" /\ n.trust = credential[a] /\ Alike(conn[c], n, {"phase", "trust"})
    BY <1>2 DEF Alike, Connection
  <2> HIDE DEF n
  <2> QED BY <1>3, <2>1, <2>2 DEF Moves
<1>6. ASSUME NEW c \in Conns, Upgrade(c) PROVE Moved(c)
  <2> DEFINE n == [conn[c] EXCEPT !.phase = "open", !.handshakeTimer = TRUE]
  <2>1. conn' = [conn EXCEPT ![c] = n] /\ conn[c].phase = "keyed"
    BY <1>6 DEF Upgrade
  <2>2. n.phase = "open" /\ Alike(conn[c], n, {"phase"})
    BY <1>2 DEF Alike, Connection
  <2> HIDE DEF n
  <2> QED BY <1>3, <2>1, <2>2 DEF Moves
<1>7. ASSUME NEW c \in Conns, HandshakeTimeout(c) PROVE Moved(c)
  <2> DEFINE k == [conn[c] EXCEPT !.handshakeTimer = FALSE]
  <2>1. conn' = [conn EXCEPT ![c] = IF k.negotiated THEN k ELSE CloseWith(k, "handshake")]
        /\ conn[c].phase = "open"
    BY <1>7 DEF HandshakeTimeout, Open
  <2>2. k \in Connection /\ Alike(conn[c], k, {})
    <3>1. k \in Connection
      <4>1. ConnOK(conn[c]) /\ KeyOK(conn[c])
        BY DEF IInv
      <4>2. ConnOK(k)
        BY <4>1, ClearTimerOK
      <4> QED BY <4>2 DEF ConnOK
    <3>2. Alike(conn[c], k, {})
      BY <1>2 DEF Alike, Connection
    <3> QED BY <3>1, <3>2
  <2> HIDE DEF k
  <2>3. Moves(conn[c], CloseWith(k, "handshake")) /\ Moves(conn[c], k)
    BY <1>2, <2>1, <2>2, CloseWithMoves DEF Codes, Moves
  <2> QED BY <1>3, <2>1, <2>3
<1>8. ASSUME NEW c \in Conns,
             MsgOverRate(c) \/ MsgOutOfProtocol(c) \/ MsgAnswered(c) \/ WindowSlides(c)
      PROVE  Moved(c)
  <2> DEFINE k == [Arrive(c) EXCEPT !.handshakeTimer = FALSE]
  <2>1. k \in Connection /\ Alike(conn[c], k, {})
    BY <1>4 DEF Alike, Connection
  <2>2. conn[c].phase = "open"
    BY <1>8 DEF MsgOverRate, MsgOutOfProtocol, MsgAnswered, WindowSlides, WithinRate, Open
  <2>3. CASE MsgOverRate(c) \/ MsgOutOfProtocol(c)
    <3>1. \E code \in {"rate", "protocol"} : conn' = [conn EXCEPT ![c] = CloseWith(k, code)]
      BY <2>3 DEF MsgOverRate, MsgOutOfProtocol
    <3> HIDE DEF k
    <3>2. \A code \in {"rate", "protocol"} : Moves(conn[c], CloseWith(k, code))
      BY <1>2, <2>1, <2>2, CloseWithMoves DEF Codes
    <3> QED BY <1>3, <3>1, <3>2
  <2>4. CASE MsgAnswered(c)
    BY <1>3, <1>4, <2>4 DEF MsgAnswered, Moves
  <2>5. CASE WindowSlides(c)
    <3> DEFINE n == [conn[c] EXCEPT !.recent = @ - 1]
    <3>1. conn' = [conn EXCEPT ![c] = n]
      BY <2>5 DEF WindowSlides
    <3>2. Alike(conn[c], n, {})
      BY <1>2 DEF Alike, Connection
    <3> HIDE DEF n
    <3> QED BY <1>3, <3>1, <3>2 DEF Moves
  <2> QED BY <1>8, <2>3, <2>4, <2>5
<1>9. ASSUME NEW c \in Conns, NEW wish \in Wishes, CapabilitiesRequest(c, wish) PROVE Moved(c)
  <2> DEFINE k == Arrive(c)
             grant == k.granted \cup (wish \cap Allowed(conn[c].trust))
             beats == Capped(k.heartbeats + 1, 2)
             n == [k EXCEPT !.granted = grant, !.negotiated = TRUE,
                            !.handshakeTimer = FALSE, !.heartbeats = beats]
  <2>1. conn' = [conn EXCEPT ![c] = n] /\ conn[c].phase = "open" /\ ~conn[c].negotiated
    BY <1>9 DEF CapabilitiesRequest, WithinRate, Open
  <2> HIDE DEF k
  <2>2. k.granted = {}
    BY <1>4, <2>1 DEF IInv, ConnOK, Alike, k
  <2>3. grant \in SUBSET Allowed(conn[c].trust)
    BY <2>2
  <2> HIDE DEF grant, beats
  <2>4. n.negotiated = TRUE /\ n.granted = grant /\ Alike(k, n, {"negotiated", "granted"})
    BY <1>4 DEF Alike, Connection, k
  <2> HIDE DEF n
  <2>5. Alike(conn[c], n, {"negotiated", "granted"})
    BY <1>4, <2>4 DEF Alike, k
  <2> QED BY <1>3, <2>1, <2>3, <2>4, <2>5 DEF Moves
<1>10. ASSUME NEW c \in Conns,
              \/ \E cap \in {"query_events", "query_sessions", "revoke_session"} :
                    MsgQueryOrRevoke(c, cap)
              \/ SubscribeEvents(c) \/ UnsubscribeEvents(c)
       PROVE  Moved(c)
  <2> DEFINE k == Arrive(c)
  <2>1. k \in Connection /\ Alike(conn[c], k, {})
    BY <1>4
  <2>2. conn[c].phase = "open"
    BY <1>10 DEF MsgQueryOrRevoke, SubscribeEvents, UnsubscribeEvents, WithinRate, Open
  <2>3. ASSUME NEW cap \in {"query_events", "query_sessions", "revoke_session"},
               MsgQueryOrRevoke(c, cap)
        PROVE  Moved(c)
    <3> DEFINE n == [k EXCEPT !.acted = @ \cup {cap}]
    <3>1. conn' = [conn EXCEPT ![c] = n] /\ cap \in conn[c].granted
      BY <2>3 DEF MsgQueryOrRevoke, Granted
    <3> HIDE DEF k
    <3>2. n.acted = k.acted \cup {cap} /\ Alike(k, n, {"acted"})
      BY <2>1 DEF Alike, Connection
    <3> HIDE DEF n
    <3>3. n.acted = conn[c].acted \cup {cap} /\ Alike(conn[c], n, {"acted"})
      BY <2>1, <3>2 DEF Alike
    <3> QED BY <1>3, <2>2, <3>1, <3>3 DEF Moves
  <2>4. CASE SubscribeEvents(c)
    <3> DEFINE n == [k EXCEPT !.subscription = TRUE, !.acted = @ \cup {"subscribe_events"}]
    <3>1. /\ conn' = [conn EXCEPT ![c] = n] /\ "subscribe_events" \in conn[c].granted
          /\ ~conn[c].subscription
      BY <2>4 DEF SubscribeEvents, Granted
    <3> HIDE DEF k
    <3>2. /\ n.acted = k.acted \cup {"subscribe_events"} /\ n.subscription = TRUE
          /\ Alike(k, n, {"acted", "subscription"})
      BY <2>1 DEF Alike, Connection
    <3> HIDE DEF n
    <3>3. /\ n.acted = conn[c].acted \cup {"subscribe_events"}
          /\ Alike(conn[c], n, {"acted", "subscription"})
      BY <2>1, <3>2 DEF Alike
    <3> QED BY <1>3, <2>2, <3>1, <3>2, <3>3 DEF Moves
  <2>5. CASE UnsubscribeEvents(c)
    <3> DEFINE n == [k EXCEPT !.subscription = FALSE]
    <3>1. conn' = [conn EXCEPT ![c] = n]
      BY <2>5 DEF UnsubscribeEvents
    <3> HIDE DEF k
    <3>2. n.subscription = FALSE /\ Alike(k, n, {"subscription"})
      BY <2>1 DEF Alike, Connection
    <3> HIDE DEF n
    <3>3. Alike(conn[c], n, {"subscription"})
      BY <2>1, <3>2 DEF Alike
    <3> QED BY <1>3, <3>1, <3>2, <3>3 DEF Moves
  <2> QED BY <1>10, <2>3, <2>4, <2>5
<1>11. ASSUME NEW c \in Conns, HeartbeatIdle(c) \/ HeartbeatCheck(c) \/ CheckValid(c)
       PROVE  Moved(c)
  <2>1. CASE HeartbeatIdle(c)
    <3> DEFINE k == [conn[c] EXCEPT !.quiet = Capped(@ + 1, IdleBeats)]
    <3>1. conn' = [conn EXCEPT ![c] = CloseWith(k, "idle")] /\ conn[c].phase = "open"
      BY <2>1 DEF HeartbeatIdle, Beats, Open
    <3>2. Capped(conn[c].quiet + 1, IdleBeats) \in 0..IdleBeats
      BY <1>2, GatewayAssumption DEF Connection, Capped
    <3>3. k \in Connection /\ Alike(conn[c], k, {})
      BY <1>2, <3>2 DEF Alike, Connection
    <3> HIDE DEF k
    <3> QED BY <1>2, <1>3, <3>1, <3>3, CloseWithMoves DEF Codes
  <2>2. CASE HeartbeatCheck(c)
    <3> DEFINE early == IF Revoked(conn[c].agent) THEN conn[c].early ELSE conn[c].early + 1
               late == IF Revoked(conn[c].agent) THEN conn[c].late + 1 ELSE conn[c].late
               n == [conn[c] EXCEPT !.quiet = @ + 1, !.early = early, !.late = late]
    <3>1. conn' = [conn EXCEPT ![c] = n]
      BY <2>2 DEF HeartbeatCheck, IInv, TypeOK
    <3> HIDE DEF early, late
    <3>2. Alike(conn[c], n, {})
      BY <1>2 DEF Alike, Connection
    <3> HIDE DEF n
    <3> QED BY <1>3, <3>1, <3>2 DEF Moves
  <2>3. CASE CheckValid(c)
    <3> DEFINE n == [conn[c] EXCEPT !.early = @ - 1, !.failures = 0, !.errors = 0]
    <3>1. conn' = [conn EXCEPT ![c] = n]
      BY <2>3 DEF CheckValid, IInv, TypeOK
    <3>2. Alike(conn[c], n, {})
      BY <1>2 DEF Alike, Connection
    <3> HIDE DEF n
    <3> QED BY <1>3, <3>1, <3>2 DEF Moves
  <2> QED BY <1>11, <2>1, <2>2, <2>3
<1>12. ASSUME NEW c \in Conns, NEW field \in {"early", "late"},
              CheckRevoked(c, field) \/ CheckFailed(c, field)
       PROVE  Moved(c)
  <2> DEFINE failures == Capped(conn[c].failures + 1, MaxFailures)
             errors == Capped(conn[c].errors + 1, MaxFailures)
             k == [conn[c] EXCEPT ![field] = @ - 1]
             n == [conn[c] EXCEPT ![field] = @ - 1, !.failures = failures,
                                  !.errors = errors]
  <2>1. conn[c].phase \in {"open", "gone"} /\ conn[c][field] - 1 \in 0..MaxChecks
    <3>1. conn[c][field] > 0
      BY <1>12 DEF CheckRevoked, CheckFailed, Resumes
    <3>2. conn[c].early \in 0..MaxChecks /\ conn[c].late \in 0..MaxChecks
      BY <1>2 DEF Connection
    <3>3. conn[c][field] \in 0..MaxChecks
      BY <3>2
    <3>4. ConnOK(conn[c]) /\ (conn[c].early > 0 \/ conn[c].late > 0)
      BY <3>1 DEF IInv
    <3>5. conn[c].phase \in {"open", "gone"}
      BY <1>2, <3>4 DEF ConnOK, Connection
    <3> QED BY <3>1, <3>3, <3>5, GatewayAssumption
  <2>2. failures \in 0..MaxFailures /\ errors \in 0..MaxFailures
    BY <1>2, GatewayAssumption DEF Connection, Capped
  <2>3. k \in Connection /\ Alike(conn[c], k, {})
    BY <1>2, <2>1 DEF Alike, Connection
  <2>4. \/ conn' = [conn EXCEPT ![c] = CloseWith(k, "credential")]
        \/ conn' = [conn EXCEPT ![c] = CloseWith(n, "credential")]
        \/ conn' = [conn EXCEPT ![c] = n]
    <3>1. n = [conn[c] EXCEPT ![field] = @ - 1,
                              !.failures = Capped(@ + 1, MaxFailures),
                              !.errors = Capped(@ + 1, MaxFailures)]
      BY <1>2 DEF Connection
    <3> HIDE DEF n
    <3> QED BY <1>12, <3>1 DEF CheckRevoked, CheckFailed
  <2> HIDE DEF failures, errors
  <2>5. n \in Connection /\ Alike(conn[c], n, {})
    <3> DEFINE left == conn[c][field] - 1
    <3>1. n = IF field = "early"
              THEN [conn[c] EXCEPT !.early = left, !.failures = failures, !.errors = errors]
              ELSE [conn[c] EXCEPT !.late = left, !.failures = failures, !.errors = errors]
      BY <1>2 DEF Connection
    <3> HIDE DEF n, left
    <3>2. left \in 0..MaxChecks
      BY <2>1 DEF left
    <3>3. CASE field = "early"
      <4> DEFINE m == [conn[c] EXCEPT !.early = left, !.failures = failures,
                                      !.errors = errors]
      <4>1. m \in Connection
        <5>1. [conn[c] EXCEPT !.early = left] \in Connection
          BY <1>2, <3>2 DEF Connection
        <5> DEFINE o == [conn[c] EXCEPT !.early = left]
        <5>2. m = [o EXCEPT !.failures = failures, !.errors = errors]
          BY <1>2 DEF Connection
        <5> HIDE DEF o, m
        <5>3. [o EXCEPT !.failures = failures, !.errors = errors] \in Connection
          BY <2>2, <5>1 DEF Connection, o
        <5> QED BY <5>2, <5>3
      <4>2. Alike(conn[c], m, {})
        BY <1>2 DEF Alike, Connection
      <4> HIDE DEF m
      <4> QED BY <3>1, <3>3, <4>1, <4>2 DEF m
    <3>4. CASE field = "late"
      <4> DEFINE m == [conn[c] EXCEPT !.late = left, !.failures = failures,
                                      !.errors = errors]
      <4>1. m \in Connection
        <5>1. [conn[c] EXCEPT !.late = left] \in Connection
          BY <1>2, <3>2 DEF Connection
        <5> DEFINE o == [conn[c] EXCEPT !.late = left]
        <5>2. m = [o EXCEPT !.failures = failures, !.errors = errors]
          BY <1>2 DEF Connection
        <5> HIDE DEF o, m
        <5>3. [o EXCEPT !.failures = failures, !.errors = errors] \in Connection
          BY <2>2, <5>1 DEF Connection, o
        <5> QED BY <5>2, <5>3
      <4>2. Alike(conn[c], m, {})
        BY <1>2 DEF Alike, Connection
      <4> HIDE DEF m
      <4> QED BY <3>1, <3>4, <4>1, <4>2 DEF m
    <3> QED BY <3>3, <3>4
  <2> HIDE DEF k, n
  <2>6. /\ Moves(conn[c], CloseWith(k, "credential"))
        /\ Moves(conn[c], CloseWith(n, "credential")) /\ Moves(conn[c], n)
    BY <1>2, <2>1, <2>3, <2>5, CloseWithMoves DEF Codes, Moves
  <2> QED BY <1>3, <2>4, <2>6
<1>13. ASSUME NEW c \in Conns, OnClose(c) PROVE Moved(c)
  <2> DEFINE beats == IF conn[c].heartbeats > 0 THEN conn[c].heartbeats - 1 ELSE 0
             n == [conn[c] EXCEPT !.phase = "gone", !.handshakeTimer = FALSE,
                                  !.heartbeats = beats, !.subscription = FALSE,
                                  !.recent = 0, !.quiet = 0]
  <2>1. conn' = [conn EXCEPT ![c] = n] /\ conn[c].phase = "open"
    BY <1>13 DEF OnClose, Open, IInv, TypeOK
  <2> HIDE DEF beats
  <2>2. n.phase = "gone" /\ n.subscription = FALSE
    BY <1>2 DEF Connection
  <2> HIDE DEF n
  <2> QED BY <1>3, <2>1, <2>2 DEF Moves
<1> DEFINE Result == conn' = conn \/ Evict \/ \E c \in Conns : Moved(c)
<1>14. ASSUME UNCHANGED vars PROVE Result
  BY <1>14 DEF vars
<1>15. ASSUME \E a \in Agents : AgentRevoke(a) \/ \E t \in TrustLevels : Provision(a, t)
       PROVE  Result
  BY <1>15 DEF AgentRevoke, Provision
<1>16. ASSUME NEW c \in Conns,
              \/ \E a \in Agents : RequireAgentKey(c, a)
              \/ Upgrade(c) \/ HandshakeTimeout(c) \/ OnClose(c)
              \/ MsgOverRate(c) \/ MsgOutOfProtocol(c) \/ MsgAnswered(c) \/ WindowSlides(c)
              \/ \E wish \in Wishes : CapabilitiesRequest(c, wish)
              \/ \E cap \in {"query_events", "query_sessions", "revoke_session"} :
                   MsgQueryOrRevoke(c, cap)
              \/ SubscribeEvents(c) \/ UnsubscribeEvents(c)
              \/ HeartbeatIdle(c) \/ HeartbeatCheck(c) \/ Checks(c)
       PROVE  Result
  BY <1>5, <1>6, <1>7, <1>8, <1>9, <1>10, <1>11, <1>12, <1>13, <1>16 DEF Checks
<1>17. Result
  <2>1. (UNCHANGED vars => Result) /\ (Evict => Result)
    BY <1>14
  <2>2. (\E a \in Agents : AgentRevoke(a) \/ \E t \in TrustLevels : Provision(a, t)) => Result
    BY <1>15
  <2> HIDE DEF Result
  <2> QED BY <1>16, <2>1, <2>2 DEF Next
<1> QED BY <1>17 DEF Moved

(* A code is there only once the connection is open.                       *)
LEMMA UnjudgedInv == Spec => []Unjudged
<1>1. Init => Unjudged
  BY DEF Init, Unjudged, Closed
<1>2. ASSUME IInv, Unjudged, [Next]_vars PROVE Unjudged'
  <2>1. CASE conn' = conn
    BY <1>2, <2>1 DEF Unjudged
  <2>2. CASE Evict
    BY <1>2, <2>2 DEF Evict, Unjudged, Closed
  <2>3. ASSUME NEW c \in Conns, NEW n \in Connection,
               conn' = [conn EXCEPT ![c] = n], Moves(conn[c], n)
        PROVE  Unjudged'
    <3>1. \A d \in Conns : conn'[d] = IF d = c THEN n ELSE conn[d]
      BY <1>2, <2>3 DEF IInv, TypeOK
    <3>2. n.phase \in {"none", "keyed"} =>
            conn[c].phase \in {"none", "keyed"} /\ n.code = conn[c].code
      BY <2>3 DEF Moves, Alike
    <3> QED BY <1>2, <3>1, <3>2 DEF Unjudged
  <2> QED BY <1>2, <2>1, <2>2, <2>3, Seen
<1> QED BY <1>1, <1>2, Invariance, PTL DEF Spec

(* What a client knows of a connection before it came and after it went.   *)
LEMMA ViewGone == ASSUME NEW k, k.phase = "gone" PROVE View(k) = Promise!Gone
  BY DEF View, Promise!Gone, Promise!Blank

(* What a client knows of a connection that is there.                      *)
LEMMA ViewHere ==
    ASSUME NEW k, k.phase \in {"keyed", "open"}
    PROVE  View(k) = [stage |-> k.phase, ceiling |-> Allowed(k.trust),
                      agreed |-> k.negotiated, grant |-> k.granted, code |-> k.code,
                      done |-> k.acted]
  BY DEF View

(* An evicted isolate is the parting of all who had come.                  *)
LEMMA EvictParts ==
    ASSUME IInv, Evict
    PROVE  Promise!PromiseNext
<1> DEFINE leaving == {c \in Conns : conn[c].phase # "none"}
           gone == [Closed EXCEPT !.phase = "gone"]
<1>1. \A c \in Conns : conn'[c] = IF c \in leaving THEN gone ELSE conn[c]
  BY DEF Evict
<1>2. View(gone) = Promise!Gone
  <2>1. gone.phase = "gone"
    BY DEF Closed
  <2> HIDE DEF gone
  <2> QED BY <2>1, ViewGone
<1>3. \A c \in leaving : View(conn[c]).stage # "none"
  BY DEF View
<1>4. Subscribers' = Subscribers \ leaving
  <2>1. \A c \in Conns : conn[c].subscription => c \in leaving
    BY DEF IInv, ConnOK
  <2>2. gone.subscription = FALSE
    BY DEF Closed
  <2> HIDE DEF leaving, gone
  <2> QED BY <1>1, <2>1, <2>2 DEF Subscribers
<1>5. \A c \in Conns : View(conn'[c]) = IF c \in leaving THEN Promise!Gone ELSE View(conn[c])
  BY <1>1, <1>2
<1> HIDE DEF gone
<1>6. leaving \in SUBSET Conns
  OBVIOUS
<1> HIDE DEF leaving
<1>7. Promise!Part(leaving)
  BY <1>3, <1>4, <1>5, <1>6 DEF Promise!Part
<1> QED BY <1>6, <1>7 DEF Promise!PromiseNext

(* A step of one connection is a step of the promise or none at all.       *)
LEMMA MovesKept ==
    ASSUME IInv, IInv', Unjudged, NEW c \in Conns, NEW n \in Connection,
           conn' = [conn EXCEPT ![c] = n], Moves(conn[c], n)
    PROVE  [Promise!PromiseNext]_Promise!promiseVars
<1> DEFINE k == conn[c]
           L == [d \in Conns |-> View(conn[d])]
<1>1. /\ Promise!promiseVars = <<L, Subscribers>>
      /\ L' = [L EXCEPT ![c] = View(n)]
      /\ Subscribers' = IF n.subscription = TRUE THEN Subscribers \cup {c}
                        ELSE Subscribers \ {c}
      /\ conn'[c] = n
  BY OneLink
<1>2. L[c] = View(k) /\ L = [d \in Conns |-> L[d]]
  OBVIOUS
<1>3. c \in Subscribers <=> k.subscription = TRUE
  BY DEF Subscribers, IInv, TypeOK, Connection
<1>4. k \in Connection /\ ConnOK(k)
  BY DEF IInv, ConnOK
<1>5. n.subscription = k.subscription => Subscribers' = Subscribers
  BY <1>1, <1>3
<1> HIDE DEF k, L
<1>6. CASE k.phase = "none" /\ n.phase = "keyed" /\ n.trust \in TrustLevels
           /\ Alike(k, n, {"phase", "trust"})
  <2>1. View(k) = Promise!New
    BY <1>6 DEF View, Promise!New, Promise!Blank
  <2>2. /\ n.negotiated = FALSE /\ n.granted = {} /\ n.acted = {} /\ n.code = "none"
        /\ n.subscription = k.subscription
    BY <1>4, <1>6 DEF ConnOK, Alike, Connection, Unjudged, k
  <2>3. View(n) = [View(k) EXCEPT !.stage = "keyed", !.ceiling = Allowed(n.trust)]
    <3> DEFINE no == FALSE
               nothing == {}
    <3>1. View(n) = [stage |-> "keyed", ceiling |-> Allowed(n.trust), agreed |-> no,
                     grant |-> nothing, code |-> "none", done |-> nothing]
      BY <1>6, <2>2, ViewHere
    <3>2. View(k) = [stage |-> "none", ceiling |-> nothing, agreed |-> no,
                     grant |-> nothing, code |-> "none", done |-> nothing]
      BY <2>1 DEF Promise!New, Promise!Blank
    <3> DEFINE v == View(k)
               m == [v EXCEPT !.stage = "keyed", !.ceiling = Allowed(n.trust)]
    <3> HIDE DEF no, nothing, v
    <3>3. m = [i \in {"stage", "ceiling", "agreed", "grant", "code", "done"} |-> m[i]]
      BY <3>2 DEF v
    <3>4. m.stage = "keyed" /\ m.ceiling = Allowed(n.trust) /\ m.agreed = no
      BY <3>2 DEF v
    <3>5. m.grant = nothing /\ m.code = "none" /\ m.done = nothing
      BY <3>2 DEF v
    <3> HIDE DEF m
    <3>6. View(n) = m
      BY <3>1, <3>3, <3>4, <3>5
    <3> QED BY <3>6 DEF m, v
  <2>4. L' = [L EXCEPT ![c].stage = "keyed", ![c].ceiling = Allowed(n.trust)]
    BY <1>1, <1>2, <2>3
  <2>5. Promise!Admit(c, Allowed(n.trust))
    BY <1>2, <1>5, <2>1, <2>2, <2>4 DEF Promise!Admit, L
  <2> QED BY <1>6, <2>5 DEF Promise!PromiseNext
<1>7. CASE k.phase = "keyed" /\ n.phase = "open" /\ Alike(k, n, {"phase"})
  <2>1. View(n) = [View(k) EXCEPT !.stage = "open"] /\ View(k).stage = "keyed"
        /\ n.subscription = k.subscription
    BY <1>7 DEF View, Alike
  <2>2. L' = [L EXCEPT ![c].stage = "open"]
    BY <1>1, <1>2, <2>1
  <2>3. Promise!Begin(c)
    BY <1>2, <1>5, <2>1, <2>2 DEF Promise!Begin, L
  <2> QED BY <2>3 DEF Promise!PromiseNext
<1>8. CASE Alike(k, n, {})
  <2>1. /\ n.phase = k.phase /\ n.trust = k.trust /\ n.negotiated = k.negotiated
        /\ n.granted = k.granted /\ n.code = k.code /\ n.acted = k.acted
        /\ n.subscription = k.subscription
    BY <1>8 DEF Alike
  <2>2. View(n) = View(k)
    BY <2>1 DEF View
  <2>3. L' = L
    BY <1>1, <1>2, <2>2
  <2>4. Promise!promiseVars' = Promise!promiseVars
    BY <1>5, <2>1, <2>3 DEF Promise!promiseVars, L
  <2> QED BY <2>4
<1>9. CASE k.phase = "open" /\ k.code = "none" /\ n.code \in Codes /\ Alike(k, n, {"code"})
  <2>1. View(n) = [View(k) EXCEPT !.code = n.code] /\ n.subscription = k.subscription
        /\ View(k).stage = "open" /\ View(k).code = "none"
    BY <1>9 DEF View, Alike
  <2>2. L' = [L EXCEPT ![c].code = n.code]
    BY <1>1, <1>2, <2>1
  <2>3. Promise!Close(c, n.code)
    BY <1>2, <1>5, <2>1, <2>2 DEF Promise!Close, L
  <2> QED BY <1>9, <2>3 DEF Promise!PromiseNext
<1>g. CASE k.phase = "gone" /\ Alike(k, n, {"code"})
  <2>1. n.phase = "gone" /\ n.subscription = k.subscription
    BY <1>g DEF Alike
  <2>2. View(n) = View(k)
    BY <1>g, <2>1, ViewGone
  <2>3. L' = L
    BY <1>1, <1>2, <2>2
  <2>4. Promise!promiseVars' = Promise!promiseVars
    BY <1>5, <2>1, <2>3 DEF Promise!promiseVars, L
  <2> QED BY <2>4
<1>10. CASE k.phase = "open" /\ ~k.negotiated /\ n.negotiated = TRUE
            /\ n.granted \in SUBSET Allowed(k.trust)
            /\ Alike(k, n, {"negotiated", "granted"})
  <2>1. /\ n.phase = k.phase /\ n.trust = k.trust /\ n.code = k.code
        /\ n.acted = k.acted /\ n.subscription = k.subscription
    BY <1>10 DEF Alike
  <2>2. View(n) = [View(k) EXCEPT !.agreed = TRUE, !.grant = n.granted]
        /\ View(k).stage = "open" /\ ~View(k).agreed /\ View(k).ceiling = Allowed(k.trust)
    <3>1. View(k) = [stage |-> "open", ceiling |-> Allowed(k.trust),
                     agreed |-> k.negotiated, grant |-> k.granted, code |-> k.code,
                     done |-> k.acted]
      BY <1>10, ViewHere
    <3> DEFINE yes == TRUE
    <3>2. View(n) = [stage |-> "open", ceiling |-> Allowed(k.trust), agreed |-> yes,
                     grant |-> n.granted, code |-> k.code, done |-> k.acted]
      BY <1>10, <2>1, ViewHere
    <3> DEFINE v == View(k)
               m == [v EXCEPT !.agreed = yes, !.grant = n.granted]
    <3> HIDE DEF yes, v
    <3>3. m = [i \in {"stage", "ceiling", "agreed", "grant", "code", "done"} |-> m[i]]
      BY <3>1 DEF v
    <3>4. m.stage = "open" /\ m.ceiling = Allowed(k.trust) /\ m.agreed = yes
      BY <3>1 DEF v
    <3>5. m.grant = n.granted /\ m.code = k.code /\ m.done = k.acted
      BY <3>1 DEF v
    <3> HIDE DEF m
    <3>6. View(n) = m
      BY <3>2, <3>3, <3>4, <3>5
    <3> QED BY <1>10, <3>1, <3>6 DEF yes, m, v
  <2>3. L' = [L EXCEPT ![c].agreed = TRUE, ![c].grant = n.granted]
    BY <1>1, <1>2, <2>2
  <2>4. Promise!Agree(c)
    BY <1>2, <1>5, <1>10, <2>1, <2>2, <2>3 DEF Promise!Agree, L
  <2> QED BY <2>4 DEF Promise!PromiseNext
<1>11. ASSUME NEW cap \in k.granted, k.phase = "open", n.acted = k.acted \cup {cap},
              Alike(k, n, {"acted", "subscription"})
       PROVE  cap \in L[c].grant /\ Promise!Act(c, cap)
  <2>1. View(n) = [View(k) EXCEPT !.done = View(k).done \cup {cap}]
        /\ View(k).stage = "open" /\ View(k).grant = k.granted
    BY <1>11 DEF View, Alike
  <2>2. L' = [L EXCEPT ![c].done = @ \cup {cap}]
    BY <1>1, <1>2, <2>1
  <2> QED BY <1>2, <2>1, <2>2 DEF Promise!Act, L
<1>12. CASE k.phase = "open" /\ Alike(k, n, {"acted"})
            /\ \E cap \in k.granted : n.acted = k.acted \cup {cap}
  <2>1. PICK cap \in k.granted : n.acted = k.acted \cup {cap}
    BY <1>12
  <2>2. Alike(k, n, {"acted", "subscription"}) /\ n.subscription = k.subscription
    BY <1>12 DEF Alike
  <2>3. cap \in L[c].grant /\ Promise!Operate(c, cap)
    BY <1>5, <1>11, <1>12, <2>1, <2>2 DEF Promise!Operate
  <2> QED BY <2>3 DEF Promise!PromiseNext, L
<1>13. CASE k.phase = "open" /\ Alike(k, n, {"acted", "subscription"})
            /\ "subscribe_events" \in k.granted
            /\ n.acted = k.acted \cup {"subscribe_events"}
            /\ ~k.subscription /\ n.subscription = TRUE
  <2>1. Promise!Act(c, "subscribe_events")
    BY <1>11, <1>13
  <2>2. c \notin Subscribers /\ Subscribers' = Subscribers \cup {c}
    BY <1>1, <1>3, <1>13
  <2>3. Cardinality(Subscribers') <= MaxSubs
    BY DEF IInv, SlotsCounted
  <2>4. Promise!Subscribe(c)
    BY <2>1, <2>2, <2>3 DEF Promise!Subscribe, Cardinality, Promise!Cardinality
  <2> QED BY <2>4 DEF Promise!PromiseNext
<1>14. CASE n.subscription = FALSE /\ Alike(k, n, {"subscription"})
  <2>1. View(n) = View(k) /\ Subscribers' = Subscribers \ {c}
    BY <1>1, <1>14 DEF View, Alike
  <2>2. L' = L
    BY <1>1, <1>2, <2>1
  <2>3. Promise!Unsubscribe(c)
    BY <2>1, <2>2 DEF Promise!Unsubscribe, L
  <2> QED BY <2>3 DEF Promise!PromiseNext
<1>15. CASE k.phase = "open" /\ n.phase = "gone" /\ n.subscription = FALSE
  <2>1. View(n) = Promise!Gone /\ View(k).stage = "open" /\ Subscribers' = Subscribers \ {c}
    BY <1>1, <1>15, ViewGone, ViewHere
  <2>2. L' = [d \in Conns |-> IF d \in {c} THEN Promise!Gone ELSE L[d]]
    BY <1>1, <1>2, <2>1
  <2>3. Promise!Part({c})
    BY <1>2, <2>1, <2>2 DEF Promise!Part, L
  <2> QED BY <2>3 DEF Promise!PromiseNext
<1> QED BY <1>6, <1>7, <1>8, <1>9, <1>g, <1>10, <1>12, <1>13, <1>14, <1>15 DEF Moves, k

(* The gateway implements the promise: for any number of connections, its  *)
(* closures, timers, slow checks and shared counter look to a client like  *)
(* one grant, one code, one end and a set of slots (createWsHandler).      *)
THEOREM GatewayKeeps == Spec => KeepsPromise
<1>1. Init => Promise!PromiseInit
  BY DEF Init, Promise!PromiseInit, Promise!New, Promise!Blank, View, Closed, Subscribers
<1>2. ASSUME IInv, IInv', Unjudged, [Next]_vars
      PROVE  [Promise!PromiseNext]_Promise!promiseVars
  <2>1. CASE conn' = conn
    BY <2>1 DEF Promise!promiseVars, Subscribers
  <2>2. CASE Evict
    BY <1>2, <2>2, EvictParts
  <2>3. ASSUME NEW c \in Conns, NEW n \in Connection,
               conn' = [conn EXCEPT ![c] = n], Moves(conn[c], n)
        PROVE  [Promise!PromiseNext]_Promise!promiseVars
    BY <1>2, <2>3, MovesKept
  <2> QED BY <1>2, <2>1, <2>2, <2>3, Seen
<1> QED BY <1>1, <1>2, Invariance, UnjudgedInv, PTL DEF Spec, KeepsPromise, Promise!PromiseSpec
=============================================================================
