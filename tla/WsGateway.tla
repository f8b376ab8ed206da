------------------------------ MODULE WsGateway ------------------------------
(***************************************************************************)
(* The operator's WebSocket gateway (createWsHandler) in one isolate, and  *)
(* the agent credentials it checks.  A connection is a closure of          *)
(* variables driven by four kinds of callback: messages, the handshake     *)
(* timer, the heartbeat interval whose credential check awaits the         *)
(* database, and the close event.  Callbacks run to their next await and   *)
(* interleave in any order; one counter is shared by all connections.      *)
(***************************************************************************)
EXTENDS Naturals, FiniteSets

CONSTANTS
    Conns,         \* upgrade requests; a connection is never reused
    Agents, NoAgent,
    Wishes,        \* capability sets that clients ask for
    MaxSubs,       \* MAX_CONCURRENT_SUBSCRIPTIONS
    MaxFailures,   \* MAX_CREDENTIAL_CHECK_FAILURES
    MsgRateMax,    \* MSG_RATE_MAX
    IdleBeats,     \* heartbeats that fit into PING_TIMEOUT_MS, rounded up
    MaxChecks      \* bound: credential checks of a connection in flight

Capabilities == {"query_events", "query_sessions", "subscribe_events", "revoke_session"}

ASSUME GatewayAssumption ==
    /\ IsFiniteSet(Conns) /\ NoAgent \notin Agents
    /\ Wishes \subseteq SUBSET Capabilities
    /\ MaxSubs \in Nat /\ MaxFailures \in Nat \ {0} /\ MsgRateMax \in Nat \ {0}
    /\ IdleBeats \in Nat \ {0} /\ MaxChecks \in Nat \ {0}

VARIABLES
    credential,               \* agent_credential rows: trust level, or revoked
    conn,                     \* each connection's closure
    activeSubscriptionCount   \* shared by the connections of the isolate

vars == <<credential, conn, activeSubscriptionCount>>

TrustLevels == {"read", "write"}

Codes == {"none", "handshake", "protocol", "rate", "credential", "idle"}

Closed ==
    [phase |-> "none", agent |-> NoAgent, trust |-> "read", negotiated |-> FALSE,
     granted |-> {}, code |-> "none", handshakeTimer |-> FALSE, heartbeats |-> 0,
     subscription |-> FALSE, failures |-> 0, recent |-> 0, quiet |-> 0,
     early |-> 0, late |-> 0, acted |-> {}, errors |-> 0]

Connection ==
    [phase : {"none", "keyed", "open", "gone"},
     agent : Agents \cup {NoAgent}, trust : TrustLevels,   \* principal
     negotiated : BOOLEAN, granted : SUBSET Capabilities,
     code : Codes,                      \* what it was closed with; "none": not closing
     handshakeTimer : BOOLEAN,
     heartbeats : 0..2,                 \* heartbeat intervals running (2: or more)
     subscription : BOOLEAN,
     failures : 0..MaxFailures,         \* credentialCheckFailures, saturated
     recent : 0..MsgRateMax,            \* msgTimestamps within the window, saturated
     quiet : 0..IdleBeats,              \* heartbeats since the last message, saturated
     early : 0..MaxChecks,              \* checks in flight, begun before a revocation
     late : 0..MaxChecks,               \* checks in flight, begun after it
     acted : SUBSET Capabilities,       \* history: gated operations carried out
     errors : 0..MaxFailures]           \* history: checks failed since one succeeded

Init ==
    /\ credential = [a \in Agents |-> "none"]
    /\ conn = [c \in Conns |-> Closed]
    /\ activeSubscriptionCount = 0

Open(c) == conn[c].phase = "open"

Revoked(a) == credential[a] = "revoked"

Capped(n, max) == IF n < max THEN n ELSE max

(* allowedCapabilities                                                     *)
Allowed(trust) ==
    IF trust = "write" THEN Capabilities ELSE Capabilities \ {"revoke_session"}

(* closeWith: the first code is the one the peer sees.                     *)
CloseWith(k, code) == IF k.code = "none" THEN [k EXCEPT !.code = code] ELSE k

-----------------------------------------------------------------------------
(* Agent credentials.                                                      *)

Provision(a, trust) ==
    /\ credential[a] = "none"
    /\ credential' = [credential EXCEPT ![a] = trust]
    /\ UNCHANGED <<conn, activeSubscriptionCount>>

(* DELETE /agents/:name.  Checks in flight may have read the row already.  *)
AgentRevoke(a) ==
    /\ credential[a] \in TrustLevels
    /\ credential' = [credential EXCEPT ![a] = "revoked"]
    /\ UNCHANGED <<conn, activeSubscriptionCount>>

-----------------------------------------------------------------------------
(* Opening a connection: the key is looked up, then the request upgraded.  *)

RequireAgentKey(c, a) ==
    /\ conn[c].phase = "none"
    /\ credential[a] \in TrustLevels
    /\ conn' = [conn EXCEPT ![c].phase = "keyed", ![c].agent = a,
                            ![c].trust = credential[a]]
    /\ UNCHANGED <<credential, activeSubscriptionCount>>

(* Mutant: the deadline of the handshake is never set.                     *)
Upgrade_NoTimer(c) ==
    /\ conn[c].phase = "keyed"
    /\ conn' = [conn EXCEPT ![c].phase = "open"]
    /\ UNCHANGED <<credential, activeSubscriptionCount>>

Upgrade(c) ==
    /\ conn[c].phase = "keyed"
    /\ conn' = [conn EXCEPT ![c].phase = "open", ![c].handshakeTimer = TRUE]
    /\ UNCHANGED <<credential, activeSubscriptionCount>>

HandshakeTimeout(c) ==
    /\ Open(c) /\ conn[c].handshakeTimer
    /\ LET k == [conn[c] EXCEPT !.handshakeTimer = FALSE]
       IN  conn' = [conn EXCEPT ![c] =
                      IF k.negotiated THEN k ELSE CloseWith(k, "handshake")]
    /\ UNCHANGED <<credential, activeSubscriptionCount>>

-----------------------------------------------------------------------------
(* Messages.  None of the handlers asks whether the connection is closing. *)

(* What every message does first.                                          *)
Arrive(c) ==
    [conn[c] EXCEPT !.quiet = 0, !.recent = Capped(@ + 1, MsgRateMax)]

WithinRate(c) == Open(c) /\ conn[c].recent < MsgRateMax

MsgOverRate(c) ==
    /\ Open(c) /\ conn[c].recent >= MsgRateMax
    /\ conn' = [conn EXCEPT ![c] =
                  CloseWith([Arrive(c) EXCEPT !.handshakeTimer = FALSE], "rate")]
    /\ UNCHANGED <<credential, activeSubscriptionCount>>

(* Not JSON; or, before negotiation, anything but capability.request.      *)
MsgOutOfProtocol(c) ==
    /\ WithinRate(c)
    /\ conn' = [conn EXCEPT ![c] =
                  CloseWith([Arrive(c) EXCEPT !.handshakeTimer = FALSE], "protocol")]
    /\ UNCHANGED <<credential, activeSubscriptionCount>>

(* Mutant: a second capability.request negotiates again.                   *)
CapabilitiesRequest_Again(c, wish) ==
    /\ WithinRate(c)
    /\ conn' = [conn EXCEPT ![c] =
                  [Arrive(c) EXCEPT !.granted = @ \cup (wish \cap Allowed(conn[c].trust)),
                                    !.negotiated = TRUE, !.handshakeTimer = FALSE,
                                    !.heartbeats = Capped(@ + 1, 2)]]
    /\ UNCHANGED <<credential, activeSubscriptionCount>>

(* Mutant: the trust level is not consulted.                               *)
CapabilitiesRequest_AnyTrust(c, wish) ==
    /\ WithinRate(c) /\ ~conn[c].negotiated
    /\ conn' = [conn EXCEPT ![c] =
                  [Arrive(c) EXCEPT !.granted = @ \cup wish,
                                    !.negotiated = TRUE, !.handshakeTimer = FALSE,
                                    !.heartbeats = Capped(@ + 1, 2)]]
    /\ UNCHANGED <<credential, activeSubscriptionCount>>

CapabilitiesRequest(c, wish) ==
    /\ WithinRate(c) /\ ~conn[c].negotiated
    /\ conn' = [conn EXCEPT ![c] =
                  [Arrive(c) EXCEPT !.granted = @ \cup (wish \cap Allowed(conn[c].trust)),
                                    !.negotiated = TRUE, !.handshakeTimer = FALSE,
                                    !.heartbeats = Capped(@ + 1, 2)]]
    /\ UNCHANGED <<credential, activeSubscriptionCount>>

(* Messages that are only answered: pings, refusals, second negotiations,  *)
(* messages of a valid type with an invalid payload.                       *)
MsgAnswered(c) ==
    /\ WithinRate(c) /\ conn[c].negotiated
    /\ conn' = [conn EXCEPT ![c] = Arrive(c)]
    /\ UNCHANGED <<credential, activeSubscriptionCount>>

Granted(c, cap) == conn[c].negotiated /\ cap \in conn[c].granted

(* Reads, and revoke_session, whose effect on sessions SqlSessions models. *)
MsgQueryOrRevoke(c, cap) ==
    /\ WithinRate(c) /\ Granted(c, cap)
    /\ conn' = [conn EXCEPT ![c] = [Arrive(c) EXCEPT !.acted = @ \cup {cap}]]
    /\ UNCHANGED <<credential, activeSubscriptionCount>>

SubscribeEvents(c) ==
    /\ WithinRate(c) /\ Granted(c, "subscribe_events")
    /\ ~conn[c].subscription                    \* else SUBSCRIPTION_ACTIVE
    /\ activeSubscriptionCount < MaxSubs        \* else SUBSCRIPTION_LIMIT
    /\ activeSubscriptionCount' = activeSubscriptionCount + 1
    /\ conn' = [conn EXCEPT ![c] =
                  [Arrive(c) EXCEPT !.subscription = TRUE,
                                    !.acted = @ \cup {"subscribe_events"}]]
    /\ UNCHANGED credential

(* Mutant: a slot is given back whether or not one was held.               *)
ReleaseSlot_Always(c) == activeSubscriptionCount' = activeSubscriptionCount - 1

(* Give the slot back, never below zero.                                   *)
ReleaseSlot(c) ==
    activeSubscriptionCount' =
        IF conn[c].subscription /\ activeSubscriptionCount > 0
        THEN activeSubscriptionCount - 1 ELSE activeSubscriptionCount

UnsubscribeEvents(c) ==
    /\ WithinRate(c) /\ Granted(c, "subscribe_events")
    /\ ReleaseSlot(c)
    /\ conn' = [conn EXCEPT ![c] = [Arrive(c) EXCEPT !.subscription = FALSE]]
    /\ UNCHANGED credential

(* A message leaves the rate window.                                       *)
WindowSlides(c) ==
    /\ Open(c) /\ conn[c].recent > 0
    /\ conn' = [conn EXCEPT ![c].recent = @ - 1]
    /\ UNCHANGED <<credential, activeSubscriptionCount>>

-----------------------------------------------------------------------------
(* The heartbeat.  It beats until the close event, closing or not.         *)

(* The n-th beat after a message comes between n - 1 and n intervals after *)
(* it: the timeout has certainly passed once n > IdleBeats, and may have   *)
(* when n = IdleBeats.                                                     *)
Beats(c) == Open(c) /\ conn[c].heartbeats > 0

(* Mutant: an idle connection is logged and kept.                          *)
HeartbeatIdle_OnlyLogs(c) ==
    /\ Beats(c) /\ conn[c].quiet + 1 >= IdleBeats
    /\ conn' = [conn EXCEPT ![c].quiet = Capped(@ + 1, IdleBeats)]
    /\ UNCHANGED <<credential, activeSubscriptionCount>>

HeartbeatIdle(c) ==
    /\ Beats(c) /\ conn[c].quiet + 1 >= IdleBeats
    /\ conn' = [conn EXCEPT ![c] =
                  CloseWith([conn[c] EXCEPT !.quiet = Capped(@ + 1, IdleBeats)], "idle")]
    /\ UNCHANGED <<credential, activeSubscriptionCount>>

HeartbeatCheck(c) ==
    /\ Beats(c) /\ conn[c].quiet + 1 <= IdleBeats
    /\ conn[c].early + conn[c].late < MaxChecks
    /\ conn' = [conn EXCEPT ![c].quiet = @ + 1,
                            ![c].early = IF Revoked(conn[c].agent) THEN @ ELSE @ + 1,
                            ![c].late = IF Revoked(conn[c].agent) THEN @ + 1 ELSE @]
    /\ UNCHANGED <<credential, activeSubscriptionCount>>

(* checkCredentialValidity resumes.  The row was read somewhere between    *)
(* the beat and now: a check begun before a revocation may have either     *)
(* answer, and any check may have failed.  Nothing cancels a check: it may *)
(* resume after the close event, and close what is closed already.         *)
Resumes(c, field) == conn[c][field] > 0

(* Mutant: a check that succeeds does not reset the failures.              *)
CheckValid_KeepsFailures(c) ==
    /\ Resumes(c, "early")
    /\ conn' = [conn EXCEPT ![c].early = @ - 1, ![c].errors = 0]
    /\ UNCHANGED <<credential, activeSubscriptionCount>>

CheckValid(c) ==
    /\ Resumes(c, "early")
    /\ conn' = [conn EXCEPT ![c].early = @ - 1, ![c].failures = 0, ![c].errors = 0]
    /\ UNCHANGED <<credential, activeSubscriptionCount>>

CheckRevoked(c, field) ==
    /\ Resumes(c, field) /\ Revoked(conn[c].agent)
    /\ conn' = [conn EXCEPT ![c] = CloseWith([conn[c] EXCEPT ![field] = @ - 1], "credential")]
    /\ UNCHANGED <<credential, activeSubscriptionCount>>

(* Mutant: a check that fails counts for nothing.                          *)
CheckFailed_FailsOpen(c, field) ==
    /\ Resumes(c, field)
    /\ conn' = [conn EXCEPT ![c][field] = @ - 1]
    /\ UNCHANGED <<credential, activeSubscriptionCount>>

(* Fail open, but not for ever.                                            *)
CheckFailed(c, field) ==
    /\ Resumes(c, field)
    /\ LET k == [conn[c] EXCEPT ![field] = @ - 1,
                                !.failures = Capped(@ + 1, MaxFailures),
                                !.errors = Capped(@ + 1, MaxFailures)]
       IN  conn' = [conn EXCEPT ![c] =
                      IF k.failures >= MaxFailures THEN CloseWith(k, "credential") ELSE k]
    /\ UNCHANGED <<credential, activeSubscriptionCount>>

-----------------------------------------------------------------------------
(* The end of a connection.                                                *)

(* Mutant: a connection that is lost takes its slot with it.               *)
OnClose_KeepsSlot(c) ==
    /\ Open(c)
    /\ conn' = [conn EXCEPT ![c].phase = "gone", ![c].handshakeTimer = FALSE,
                            ![c].heartbeats = IF @ > 0 THEN @ - 1 ELSE 0,
                            ![c].subscription = FALSE, ![c].recent = 0, ![c].quiet = 0]
    /\ UNCHANGED <<credential, activeSubscriptionCount>>

(* The close event, asked for or not.  It clears timers, interval and      *)
(* subscription; checks in flight stay in flight.  What only a message or  *)
(* a beat would read again (recent, quiet) is forgotten.                   *)
OnClose(c) ==
    /\ Open(c)
    /\ ReleaseSlot(c)
    /\ conn' = [conn EXCEPT ![c].phase = "gone", ![c].handshakeTimer = FALSE,
                            ![c].heartbeats = IF @ > 0 THEN @ - 1 ELSE 0,
                            ![c].subscription = FALSE, ![c].recent = 0, ![c].quiet = 0]
    /\ UNCHANGED credential

(* External: the isolate is evicted; connections and counter go with it.   *)
Evict ==
    /\ conn' = [c \in Conns |->
                  IF conn[c].phase = "none" THEN conn[c]
                  ELSE [Closed EXCEPT !.phase = "gone"]]
    /\ activeSubscriptionCount' = 0
    /\ UNCHANGED credential

-----------------------------------------------------------------------------

Checks(c) ==
    \/ CheckValid(c)
    \/ \E field \in {"early", "late"} : CheckRevoked(c, field) \/ CheckFailed(c, field)

Next ==
    \/ \E a \in Agents : AgentRevoke(a) \/ \E t \in TrustLevels : Provision(a, t)
    \/ \E c \in Conns :
         \/ \E a \in Agents : RequireAgentKey(c, a)
         \/ Upgrade(c) \/ HandshakeTimeout(c) \/ OnClose(c)
         \/ MsgOverRate(c) \/ MsgOutOfProtocol(c) \/ MsgAnswered(c) \/ WindowSlides(c)
         \/ \E wish \in Wishes : CapabilitiesRequest(c, wish)
         \/ \E cap \in {"query_events", "query_sessions", "revoke_session"} :
              MsgQueryOrRevoke(c, cap)
         \/ SubscribeEvents(c) \/ UnsubscribeEvents(c)
         \/ HeartbeatIdle(c) \/ HeartbeatCheck(c) \/ Checks(c)
    \/ Evict

Spec == Init /\ [][Next]_vars

(* Timers fire, database calls end with an answer or an error, and the     *)
(* runtime reports the end of a connection that was closed.  Nothing is    *)
(* expected of clients, operators or the time between two messages.        *)
Fairness ==
    \A c \in Conns :
      /\ WF_vars(HandshakeTimeout(c))
      /\ WF_vars(HeartbeatIdle(c) \/ HeartbeatCheck(c))
      /\ WF_vars(Checks(c))
      /\ WF_vars(conn[c].code # "none" /\ OnClose(c))

FairSpec == Spec /\ Fairness

-----------------------------------------------------------------------------
(* Properties.                                                             *)

(* The gateway's variables keep their types: createWsHandler's closure and *)
(* the module-level counter.                                               *)
TypeOK ==
    /\ credential \in [Agents -> TrustLevels \cup {"none", "revoked"}]
    /\ conn \in [Conns -> Connection]
    /\ activeSubscriptionCount \in Nat

Subscribers == {c \in Conns : conn[c].subscription}

(* The shared counter is the number of live subscriptions and never passes *)
(* the cap, whatever subscribes, unsubscribes, closes or is refused when:  *)
(* a slot that leaked would be lost until the isolate is.                  *)
SlotsCounted ==
    /\ activeSubscriptionCount = Cardinality(Subscribers)
    /\ activeSubscriptionCount <= MaxSubs

(* A connection that is gone keeps nothing running: no timer, no interval, *)
(* no subscription, and none is started by a check that outlives it.       *)
(* onClose clears one heartbeat interval, so this also says that no        *)
(* message sequence ever starts two.                                       *)
GoneIsQuiet ==
    \A c \in Conns : conn[c].phase = "gone" =>
        ~conn[c].handshakeTimer /\ conn[c].heartbeats = 0 /\ ~conn[c].subscription

(* Whatever a connection carried out it had been granted, and the grant is *)
(* within the trust level its agent was provisioned with, even though the  *)
(* handlers go on working while the connection closes and the key may be   *)
(* revoked under them (ADR-009: the capability boundary is write trust).   *)
ActedWithinTrust ==
    \A c \in Conns : conn[c].acted # {} =>
        /\ conn[c].negotiated
        /\ conn[c].acted \subseteq conn[c].granted
        /\ \E trust \in TrustLevels :
              /\ conn[c].granted \subseteq Allowed(trust)
              /\ credential[conn[c].agent] \in {trust, "revoked"}

(* A connection is closed for its credential only once the key is revoked  *)
(* or MaxFailures checks in a row have failed, and for idleness only after *)
(* IdleBeats heartbeats without a message: slow checks that resume out of  *)
(* order cut nobody off early.                                             *)
CutForCause ==
    [][\A c \in Conns : conn[c].code = "none" =>
        /\ conn'[c].code = "credential" =>
              Revoked(conn[c].agent) \/ conn'[c].errors >= MaxFailures
        /\ conn'[c].code = "idle" => conn'[c].quiet >= IdleBeats]_vars

(* A connection as its client knows it.                                    *)
View(k) ==
    IF k.phase \in {"none", "gone"}
    THEN [stage |-> k.phase, ceiling |-> {}, agreed |-> FALSE, grant |-> {},
          code |-> "none", done |-> {}]
    ELSE [stage |-> k.phase, ceiling |-> Allowed(k.trust), agreed |-> k.negotiated,
          grant |-> k.granted, code |-> k.code, done |-> k.acted]

Promise == INSTANCE GatewayPromise WITH
    Ceilings <- {Allowed(trust) : trust \in TrustLevels},
    link <- [c \in Conns |-> View(conn[c])],
    slots <- Subscribers

(* The gateway keeps GatewayPromise: with closures, timers, checks and one *)
(* counter, and messages handled while a connection closes, a client still *)
(* sees one grant, one code, one end, and slots that are taken and given   *)
(* back as sets are.                                                       *)
KeepsPromise == Promise!PromiseSpec

(* A connection whose key is revoked ends, even while the database fails:  *)
(* by the heartbeat's check, by its failures, or by the handshake timer if *)
(* it never negotiated.                                                    *)
RevokedIsCut ==
    \A c \in Conns :
        (Open(c) /\ Revoked(conn[c].agent)) ~> conn[c].phase = "gone"

(* A connection negotiates or is closed: none waits for ever in between.   *)
HandshakeEnds ==
    \A c \in Conns :
        Open(c) ~> (conn[c].negotiated \/ conn[c].code # "none" \/ ~Open(c))

(* A connection from which no message comes is closed, though its key      *)
(* remains good and its checks may be slow.                                *)
SilentIsClosed ==
    \A c \in Conns :
        (Open(c) /\ conn[c].quiet > 0) ~> (conn[c].quiet = 0 \/ ~Open(c))

=============================================================================
