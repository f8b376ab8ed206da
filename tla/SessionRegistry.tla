-------------------------- MODULE SessionRegistry --------------------------
(***************************************************************************)
(* What a session service promises the rest of the application, whatever   *)
(* store it keeps its sessions in (ADR-001, ADR-003, ADR-004, ADR-008):    *)
(*   - a session identifier is opened once, lives, and dies for good;      *)
(*   - a client is handed tokens only after the per-user limit has been    *)
(*     enforced with its own session counted, so the live sessions that    *)
(*     somebody holds tokens for never exceed the limit.                   *)
(* SqlSessions implements it.  With the cache a session may outlive its    *)
(* revocation or its index: what that service keeps is SessionPromise.     *)
(***************************************************************************)
EXTENDS Naturals, FiniteSets

CONSTANTS
    Users,        \* account ids
    Sids,         \* nanoid session identifiers
    NoUser,       \* owner of an identifier nobody opened yet
    MaxSessions   \* SessionConfig.maxSessions

VARIABLES
    life,    \* [Sids -> {"unopened", "live", "dead"}]
    owner,   \* the account of an opened session
    held     \* sessions whose creation got past the limit

registryVars == <<life, owner, held>>

LifeStage == {"unopened", "live", "dead"}

LiveOf(u) == {s \in Sids : life[s] = "live" /\ owner[s] = u}

RegistryInit ==
    /\ life = [s \in Sids |-> "unopened"]
    /\ owner = [s \in Sids |-> NoUser]
    /\ held = {}

(* A new session: live at once (or dead on arrival, if it was written past *)
(* its own expiry), and not yet counted as somebody's.                     *)
Open(s, u, stage) ==
    /\ life[s] = "unopened"
    /\ life' = [life EXCEPT ![s] = stage]
    /\ owner' = [owner EXCEPT ![s] = u]
    /\ UNCHANGED held

(* Sessions die and none comes to life; those that die are among doomed.   *)
OnlyDie(doomed) ==
    /\ life' \in [Sids -> LifeStage]
    /\ \A t \in Sids : \/ life'[t] = life[t]
                       \/ t \in doomed /\ life[t] = "live" /\ life'[t] = "dead"

(* Enforcing the limit on behalf of session s of user u: of the user's     *)
(* sessions enough die that at most MaxSessions stay alive.                *)
Settle(s, u) ==
    /\ life[s] # "unopened"
    /\ owner[s] = u
    /\ OnlyDie(LiveOf(u))
    /\ Cardinality(LiveOf(u)') <= MaxSessions
    /\ held' = held \cup {s}
    /\ UNCHANGED owner

(* The login fails after the limit was enforced: nobody gets the tokens.   *)
Forfeit(s) ==
    /\ s \in held
    /\ held' = held \ {s}
    /\ UNCHANGED <<life, owner>>

(* Logout, revoke-all, an operator's revocation, or the passing of time.   *)
End ==
    /\ OnlyDie(Sids)
    /\ UNCHANGED <<owner, held>>

RegistryNext ==
    \/ \E s \in Sids, u \in Users, stage \in {"live", "dead"} : Open(s, u, stage)
    \/ \E s \in Sids, u \in Users : Settle(s, u)
    \/ \E s \in Sids : Forfeit(s)
    \/ End

RegistrySpec == RegistryInit /\ [][RegistryNext]_registryVars
=============================================================================
