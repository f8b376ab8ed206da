--------------------------- MODULE SessionPromise ---------------------------
(***************************************************************************)
(* What every deployment's session service keeps (ADR-001, -003, -004),    *)
(* with what the cache makes it give up:                                   *)
(*   - an identifier is opened once, lives, and dies for good, unless its  *)
(*     end raced a request that may write it back: nothing more is said of *)
(*     it then;                                                            *)
(*   - a client is handed tokens at a moment when the live sessions of its *)
(*     user that are held, its own among them, are within the limit, but   *)
(*     for those that the service lost sight of;                           *)
(*   - opening and handing out race nothing and hide nothing: only the end *)
(*     of sessions and the passing of time do.                             *)
(* SqlSessions, by SessionRegistry, never races and hides nothing;         *)
(* CachedSessions implements it directly, and MirroredSessions is built on *)
(* its actions.                                                            *)
(***************************************************************************)
EXTENDS Naturals, FiniteSets

CONSTANTS
    Users,        \* account ids
    Sids,         \* session identifiers
    NoUser,       \* owner of an identifier nobody opened yet
    MaxSessions   \* SessionConfig.maxSessions

VARIABLES
    stage,   \* where the life of each identifier stands
    owner,   \* the account of an opened session
    held,    \* sessions somebody holds tokens for, or is about to be handed
    hidden   \* sessions the service lost sight of

promiseVars == <<stage, owner, held, hidden>>

Stage == {"unopened", "live", "dead", "raced"}

(* The sessions of u the limit is about.                                   *)
Counted(u) == {s \in held \ hidden : stage[s] = "live" /\ owner[s] = u}

PromiseInit ==
    /\ stage = [s \in Sids |-> "unopened"]
    /\ owner = [s \in Sids |-> NoUser]
    /\ held = {}
    /\ hidden = {}

(* s goes on as it was, or ends.                                           *)
Ages(s) ==
    \/ stage'[s] = stage[s]
    \/ stage[s] = "live" /\ stage'[s] \in {"dead", "raced"}

(* A new session, for which others may have to go at once.                 *)
Open(s, u) ==
    /\ stage[s] = "unopened"
    /\ stage' \in [Sids -> Stage]
    /\ stage'[s] \in {"live", "dead"}
    /\ \A t \in Sids \ {s} : Ages(t)
    /\ owner' = [owner EXCEPT ![s] = u]
    /\ UNCHANGED <<held, hidden>>

(* The login of s is past the limit.                                       *)
HandOut(s, u) ==
    /\ stage[s] # "unopened" /\ owner[s] = u
    /\ stage' \in [Sids -> Stage]
    /\ \A t \in Sids : Ages(t)
    /\ held' = held \cup {s}
    /\ Cardinality(Counted(u)') <= MaxSessions
    /\ UNCHANGED <<owner, hidden>>

(* The login fails after all.                                              *)
Withdraw(s) ==
    /\ held' = held \ {s}
    /\ UNCHANGED <<stage, owner, hidden>>

(* Logout, revoke-all, an operator's revocation, the passing of time.      *)
End ==
    /\ UNCHANGED <<owner, held>>
    /\ stage' \in [Sids -> Stage]
    /\ \A s \in Sids : Ages(s)
    /\ hidden \subseteq hidden'
    /\ \A s \in hidden' \ hidden : stage[s] \in {"live", "raced"}

PromiseNext ==
    \/ End
    \/ \E s \in Sids, u \in Users : Open(s, u) \/ HandOut(s, u)
    \/ \E s \in Sids : Withdraw(s)

PromiseSpec == PromiseInit /\ [][PromiseNext]_promiseVars

(* What follows from the promise alone.                                    *)
LimitKept == \A u \in Users : Cardinality(Counted(u)) <= MaxSessions
=============================================================================
