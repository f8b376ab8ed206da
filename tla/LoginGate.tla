------------------------------ MODULE LoginGate ------------------------------
(***************************************************************************)
(* What stands between one client address and the password check of       *)
(* POST /auth/login: the rate limiters of the route, the proof-of-work     *)
(* challenge that follows recent failures, the failure events it counts,   *)
(* and the shared promise that creates the event table.                    *)
(*                                                                         *)
(* Each cache command and each SQL statement is one action; requests of    *)
(* the same address interleave between them.  Time is kept as ages and     *)
(* times left, so it never runs out: Tick moves them all.  Counters that   *)
(* are only compared saturate where the comparison stops changing.         *)
(***************************************************************************)
EXTENDS Integers, Sequences, FiniteSets

CONSTANTS
    Requests,       \* request slots of the isolate
    Max,            \* RateLimitConfig.max of each limiter of the route, in order
    Window,         \* RateLimitConfig.windowSeconds, in ticks
    Threshold,      \* adaptiveDefaults.failureThreshold
    HighThreshold,  \* adaptiveDefaults.highThreshold
    CountWindow,    \* adaptiveDefaults.windowMinutes, in ticks
    NonceTtl,       \* NONCE_TTL_MS, in ticks
    MaxRecorded     \* bound: events on record of one age

ASSUME GateAssumption ==
    /\ IsFiniteSet(Requests)
    /\ Max \in Seq(Nat \ {0})
    /\ Window \in Nat \ {0}
    /\ Threshold \in Nat \ {0} /\ HighThreshold \in Nat
    /\ Threshold <= HighThreshold
    /\ CountWindow \in Nat /\ NonceTtl \in Nat /\ MaxRecorded \in Nat

VARIABLES
    counter,   \* the limiters' keys of this address
    client,    \* createDbClient finds the URL and token it needs
    init,      \* initPromise of schema.ts
    table,     \* the tables exist
    recorded,  \* rows of this address's counted events, by the age of created_at
    nonces,    \* ages of the nonces issued to this address, those still good
    req,       \* where each request stands
    lost       \* history: keys that were left without a TTL by a fault

vars == <<counter, client, init, table, recorded, nonces, req, lost>>

Limiters == 1..Len(Max)
Ages     == 0..CountWindow

(* Rows of one age are told apart by a number.                             *)
Row == [age : Ages, free : BOOLEAN, n : 1..MaxRecorded]

NoKey == [count |-> 0, ttl |-> 0]      \* ttl 0: the key has no TTL

Steps == {"idle", "incr", "expire", "del",
          "count.wait", "count.select", "authenticate", "emit.wait", "emit.insert"}

Idle == [at |-> "idle", limiter |-> 0, nonce |-> -1, work |-> 0,
         free |-> FALSE, age |-> 0]

Request ==
    [at : Steps,
     limiter : 0..Len(Max),     \* the limiter the request is at
     nonce : -1..NonceTtl,      \* age of the nonce it answers; -1: no good one
     work : 0..2,               \* its solution: none, lowDifficulty, highDifficulty
     free : BOOLEAN,            \* history: the count was below the threshold
     age : 0..(CountWindow + 1)] \* age of the event being emitted

Goto(r, step) == req' = [req EXCEPT ![r].at = step]

Finish(r) == req' = [req EXCEPT ![r] = Idle]

Init ==
    /\ counter = [l \in Limiters |-> NoKey]
    /\ client \in BOOLEAN
    /\ init = "none"
    /\ table \in BOOLEAN
    /\ recorded = {}
    /\ nonces = {}
    /\ req = [r \in Requests |-> Idle]
    /\ lost = {}

-----------------------------------------------------------------------------
(* createRateLimiter                                                       *)

(* ensureSchema: a caller starts the promise if there is none, and waits   *)
(* for it unless it has settled.  Where createDbClient throws, doInit's    *)
(* catch resets initPromise before doInit returns and ensureSchema assigns *)
(* the promise that is already resolved: it stays, with no table made.     *)
EnsureSchema ==
    init' = IF init # "none" THEN init ELSE IF client THEN "creating" ELSE "settled"

Settled(wait, on) == IF init = "settled" \/ ~client THEN on ELSE wait

(* The request's next station: another limiter or the challenge.           *)
Onwards(r) ==
    IF req[r].limiter < Len(Max)
    THEN /\ req' = [req EXCEPT ![r].at = "incr", ![r].limiter = @ + 1]
         /\ UNCHANGED init
    ELSE /\ req' = [req EXCEPT ![r].at = Settled("count.wait", "count.select"),
                               ![r].limiter = 0]
         /\ EnsureSchema

(* A request arrives, with a nonce its address was issued and a solution,  *)
(* or without (a wrong solution or an old nonce is as good as none).       *)
(* Nonces are not consumed.                                                *)
Arrive(r, nonce, work) ==
    /\ req[r].at = "idle"
    /\ nonce \in nonces \cup {-1}
    /\ nonce < 0 <=> work = 0
    /\ req' = [req EXCEPT ![r] = [Idle EXCEPT
                 !.at = IF Max = <<>> THEN Settled("count.wait", "count.select")
                                      ELSE "incr",
                 !.limiter = IF Max = <<>> THEN 0 ELSE 1,
                 !.nonce = nonce, !.work = work]]
    /\ IF Max = <<>> THEN EnsureSchema ELSE UNCHANGED init
    /\ UNCHANGED <<counter, client, table, recorded, nonces, lost>>

Bump(l) == counter' = [counter EXCEPT ![l].count = IF @ > Max[l] THEN @ ELSE @ + 1]

(* Mutant: every hit renews the TTL, so that the window slides.            *)
Incr_Sliding(r) ==
    LET l == req[r].limiter IN
    /\ req[r].at = "incr"
    /\ counter' = [counter EXCEPT ![l] =
                     [count |-> IF @.count > Max[l] THEN @.count ELSE @.count + 1,
                      ttl |-> IF @.count = 0 THEN 0 ELSE Window]]
    /\ IF counter[l].count = 0 THEN Goto(r, "expire") /\ UNCHANGED init
       ELSE IF counter[l].count >= Max[l] THEN Finish(r) /\ EnsureSchema
       ELSE Onwards(r)
    /\ UNCHANGED <<client, table, recorded, nonces, lost>>

(* INCR: past the maximum answer 429 and emit rate_limit.reject, which does *)
(* not count; the first hit goes on to EXPIRE.                             *)
Incr(r) ==
    LET l == req[r].limiter IN
    /\ req[r].at = "incr"
    /\ Bump(l)
    /\ IF counter[l].count = 0 THEN Goto(r, "expire") /\ UNCHANGED init
       ELSE IF counter[l].count >= Max[l] THEN Finish(r) /\ EnsureSchema
       ELSE Onwards(r)
    /\ UNCHANGED <<client, table, recorded, nonces, lost>>

(* INCR throws: fail open.  The command may have been applied all the same.*)
IncrFails(r) ==
    LET l == req[r].limiter IN
    /\ req[r].at = "incr"
    /\ \/ counter' = counter /\ lost' = lost
       \/ Bump(l) /\ lost' = IF counter[l].count = 0 THEN lost \cup {l} ELSE lost
    /\ Onwards(r)
    /\ UNCHANGED <<client, table, recorded, nonces>>

(* Mutant: the window is added to the time the key has left.               *)
SetTtl_Adds(l) ==
    counter' = IF counter[l].count = 0 THEN counter
               ELSE [counter EXCEPT ![l].ttl = @ + Window]

(* EXPIRE: no effect on a key that is gone.                                *)
SetTtl(l) ==
    counter' = IF counter[l].count = 0 THEN counter
               ELSE [counter EXCEPT ![l].ttl = Window]

Expire(r) ==
    /\ req[r].at = "expire"
    /\ SetTtl(req[r].limiter)
    /\ lost' = lost \ {req[r].limiter}
    /\ Onwards(r)
    /\ UNCHANGED <<client, table, recorded, nonces>>

(* Mutant: EXPIRE's failure is logged and the key stays.                   *)
ExpireFails_KeepsKey(r) ==
    /\ req[r].at = "expire"
    /\ Onwards(r)
    /\ UNCHANGED <<counter, client, table, recorded, nonces, lost>>

(* EXPIRE throws, applied or not: DEL the key.                             *)
ExpireFails(r) ==
    /\ req[r].at = "expire"
    /\ \/ SetTtl(req[r].limiter) /\ lost' = lost \ {req[r].limiter}
       \/ UNCHANGED <<counter, lost>>
    /\ Goto(r, "del")
    /\ UNCHANGED <<client, init, table, recorded, nonces>>

Del(r) ==
    LET l == req[r].limiter IN
    /\ req[r].at = "del"
    /\ counter' = [counter EXCEPT ![l] = NoKey]
    /\ lost' = lost \ {l}
    /\ Onwards(r)
    /\ UNCHANGED <<client, table, recorded, nonces>>

(* History: r leaves the key it created without a TTL.                     *)
Leave(r) ==
    LET l == req[r].limiter IN
    lost' = IF /\ req[r].at \in {"expire", "del"}
               /\ counter[l].count > 0 /\ counter[l].ttl = 0
            THEN lost \cup {l} ELSE lost

(* DEL throws: "best-effort; key will be evicted by maxmemory policy".     *)
DelFails(r) ==
    /\ req[r].at = "del"
    /\ Leave(r)
    /\ Onwards(r)
    /\ UNCHANGED <<counter, client, table, recorded, nonces>>

-----------------------------------------------------------------------------
(* doInit                                                                  *)

(* The promise resolves, whatever became of doInit: its callers go on.     *)
Wake ==
    req' = [r \in Requests |->
              CASE req[r].at = "count.wait" -> [req[r] EXCEPT !.at = "count.select"]
                [] req[r].at = "emit.wait"  -> [req[r] EXCEPT !.at = "emit.insert"]
                [] OTHER -> req[r]]

CreateTables ==
    /\ init = "creating"
    /\ table' = TRUE
    /\ init' = "settled"
    /\ Wake
    /\ UNCHANGED <<counter, client, recorded, nonces, lost>>

(* Mutant: the catch logs and leaves initPromise as it is.                 *)
CreateFails_Kept ==
    /\ init = "creating"
    /\ init' = "settled"
    /\ Wake
    /\ UNCHANGED <<counter, client, table, recorded, nonces, lost>>

(* A statement of doInit throws: initPromise is reset, callers go on.      *)
CreateFails ==
    /\ init = "creating"
    /\ init' = "none"
    /\ Wake
    /\ UNCHANGED <<counter, client, table, recorded, nonces, lost>>

-----------------------------------------------------------------------------
(* createAdaptiveChallenge and the login handler                           *)

(* Mutant: the window is one of milliseconds taken for minutes.            *)
Failures_Now == Cardinality({e \in recorded : e.age = 0})

(* computeChallenge's COUNT over the last windowMinutes.  (The code takes   *)
(* the start of the window before it waits for the schema: a wait counts   *)
(* older events besides, and can only ask for more.)                       *)
Failures == Cardinality(recorded)

Required == IF Failures >= HighThreshold THEN 2 ELSE 1

(* r leaves the challenge; what it answered matters no longer.             *)
Past(r, step, free) ==
    req' = [req EXCEPT ![r] = [Idle EXCEPT !.at = step, !.free = free]]

(* processEvent, fire and forget: created_at is taken, ensureSchema asked. *)
Emit(r, free) ==
    /\ Past(r, Settled("emit.wait", "emit.insert"), free)
    /\ EnsureSchema

(* computeChallenge has its count.                                         *)
HasCount(r) == req[r].at = "count.select" /\ client /\ table

(* Below the threshold the login goes on for free.                         *)
Unchallenged(r) ==
    /\ HasCount(r)
    /\ Failures < Threshold
    /\ Past(r, "authenticate", TRUE)
    /\ UNCHANGED <<counter, client, init, table, recorded, nonces, lost>>

(* At or above it: a nonce of this address that is still good and a        *)
(* solution as hard as asked of now, whatever was asked when it was issued.*)
Answered(r) ==
    /\ HasCount(r)
    /\ Failures >= Threshold
    /\ req[r].nonce >= 0 /\ req[r].work >= Required
    /\ Past(r, "authenticate", FALSE)
    /\ UNCHANGED <<counter, client, init, table, recorded, nonces, lost>>

(* Without either: 403 with a new challenge, recorded as challenge.issued  *)
(* (no answer) or challenge.failed.                                        *)
Challenge(r) ==
    /\ HasCount(r)
    /\ Failures >= Threshold
    /\ req[r].nonce < 0 \/ req[r].work < Required
    /\ nonces' = nonces \cup {0}
    /\ Emit(r, FALSE)
    /\ UNCHANGED <<counter, client, table, recorded, lost>>

(* Past the count, what throws fails open too, whatever the request        *)
(* brought: making the nonce, reading the body, taking apart a nonce that  *)
(* is no string, hashing.                                                  *)
ChallengeThrows(r) ==
    /\ HasCount(r)
    /\ Failures >= Threshold
    /\ Past(r, "authenticate", FALSE)
    /\ UNCHANGED <<counter, client, init, table, recorded, nonces, lost>>

(* The count fails, for want of a client, a table or otherwise: fail open. *)
CountFails(r) ==
    /\ req[r].at = "count.select"
    /\ Past(r, "authenticate", FALSE)
    /\ UNCHANGED <<counter, client, init, table, recorded, nonces, lost>>

(* The right password: login.success, an event that does not count.        *)
Authenticated(r) ==
    /\ req[r].at = "authenticate"
    /\ Finish(r)
    /\ EnsureSchema
    /\ UNCHANGED <<counter, client, table, recorded, nonces, lost>>

(* An error, answered 500 and not emitted.                                 *)
LoginError(r) ==
    /\ req[r].at = "authenticate"
    /\ Finish(r)
    /\ UNCHANGED <<counter, client, init, table, recorded, nonces, lost>>

(* The wrong one: 401, and login.failure is emitted.                       *)
LoginFailure(r) ==
    /\ req[r].at = "authenticate"
    /\ Emit(r, req[r].free)
    /\ UNCHANGED <<counter, client, table, recorded, nonces, lost>>

(* processEvent's INSERT, some time after the response.  An event too old  *)
(* to count is as good as none.                                            *)
InsertEvent(r) ==
    LET a == req[r].age IN
    /\ req[r].at = "emit.insert"
    /\ client /\ table
    /\ \/ a \notin Ages /\ UNCHANGED recorded
       \/ \E n \in 1..MaxRecorded :
            /\ a \in Ages
            /\ {e.n : e \in {e \in recorded : e.age = a}} = 1..(n - 1)
            /\ recorded' = recorded \cup {[age |-> a, free |-> req[r].free, n |-> n]}
    /\ Finish(r)
    /\ UNCHANGED <<counter, client, init, table, nonces, lost>>

(* It fails: the event is lost.                                            *)
InsertFails(r) ==
    /\ req[r].at = "emit.insert"
    /\ Finish(r)
    /\ UNCHANGED <<counter, client, init, table, recorded, nonces, lost>>

-----------------------------------------------------------------------------
(* Faults and time                                                         *)

(* The isolate goes away with every request in it and with initPromise.    *)
Evict ==
    /\ lost' = lost \cup {l \in Limiters : /\ counter[l].count > 0
                                           /\ counter[l].ttl = 0}
    /\ init' = "none"
    /\ req' = [r \in Requests |-> Idle]
    /\ UNCHANGED <<counter, client, table, recorded, nonces>>

Older(e) == [e EXCEPT !.age = @ + 1]

(* A key whose time is up is gone; an event too old no longer counts.      *)
Tick ==
    /\ counter' = [l \in Limiters |->
                     IF counter[l].ttl = 1 THEN NoKey
                     ELSE IF counter[l].ttl > 1 THEN [counter[l] EXCEPT !.ttl = @ - 1]
                     ELSE counter[l]]
    /\ recorded' = {Older(e) : e \in {e \in recorded : e.age < CountWindow}}
    /\ nonces' = {n + 1 : n \in nonces} \cap (0..NonceTtl)
    /\ req' = [r \in Requests |->
                 [req[r] EXCEPT
                    !.nonce = IF @ < 0 \/ @ = NonceTtl THEN -1 ELSE @ + 1,
                    !.age = IF req[r].at \in {"emit.wait", "emit.insert"}
                               /\ @ <= CountWindow
                            THEN @ + 1 ELSE @]]
    /\ UNCHANGED <<client, init, table, lost>>

Next ==
    \/ \E r \in Requests, nonce \in -1..NonceTtl, work \in 0..2 : Arrive(r, nonce, work)
    \/ \E r \in Requests : Incr(r)
    \/ \E r \in Requests : IncrFails(r)
    \/ \E r \in Requests : Expire(r)
    \/ \E r \in Requests : ExpireFails(r)
    \/ \E r \in Requests : Del(r)
    \/ \E r \in Requests : DelFails(r)
    \/ CreateTables
    \/ CreateFails
    \/ \E r \in Requests : Unchallenged(r)
    \/ \E r \in Requests : Answered(r)
    \/ \E r \in Requests : Challenge(r)
    \/ \E r \in Requests : ChallengeThrows(r)
    \/ \E r \in Requests : CountFails(r)
    \/ \E r \in Requests : Authenticated(r)
    \/ \E r \in Requests : LoginError(r)
    \/ \E r \in Requests : LoginFailure(r)
    \/ \E r \in Requests : InsertEvent(r)
    \/ \E r \in Requests : InsertFails(r)
    \/ Evict
    \/ Tick

Spec == Init /\ [][Next]_vars

(* Time passes, a cache command ends with an answer or an error, and of    *)
(* ever so many attempts to create the tables one succeeds.                *)
FairSpec ==
    /\ Spec
    /\ WF_vars(Tick)
    /\ \A r \in Requests : WF_vars(Expire(r) \/ ExpireFails(r))
    /\ \A r \in Requests : WF_vars(Del(r) \/ DelFails(r))
    /\ SF_vars(CreateTables)

-----------------------------------------------------------------------------
(* Properties                                                              *)

TypeOK ==
    /\ counter \in [Limiters -> [count : Nat, ttl : 0..Window]]
    /\ \A l \in Limiters : counter[l].count <= Max[l] + 1
    /\ client \in BOOLEAN
    /\ init \in {"none", "creating", "settled"}
    /\ table \in BOOLEAN
    /\ recorded \subseteq Row
    /\ nonces \subseteq 0..NonceTtl
    /\ req \in [Requests -> Request]
    /\ lost \subseteq Limiters

(* README: "no hard lockouts".  A counter that will never lapse belongs to *)
(* a first hit still on its way to EXPIRE or to the DEL that undoes it, or *)
(* was left by a fault of that hit: no interleaving of hits, late EXPIREs  *)
(* and late DELs leaves one behind.                                        *)
StuckOnlyByLostExpire ==
    \A l \in Limiters :
        counter[l].count > 0 /\ counter[l].ttl = 0 =>
            \/ l \in lost
            \/ \E r \in Requests : req[r].at \in {"expire", "del"} /\ req[r].limiter = l

Free == {e \in recorded : e.free}

(* The point of the challenge (ADR-008: 0-2 failures, no challenge): of the *)
(* wrong guesses of an address on record in one window, those the count    *)
(* let past for free are fewer than the threshold, but for those in flight *)
(* together, which all counted before any of them was recorded.  A guess   *)
(* that failed open (CountFails, ChallengeThrows) cost no work either, and *)
(* nothing in the code bounds how many do.                                 *)
FreeBounded == Cardinality(Free) <= Threshold - 1 + Cardinality(Requests)

(* A request comes to wait for its count, having asked for the schema.     *)
AsksSchema ==
    \E r \in Requests : /\ req[r].at \notin {"count.wait", "count.select"}
                       /\ req'[r].at \in {"count.wait", "count.select"}

(* A failure to create the tables costs a retry and no more, however many  *)
(* callers shared it and whichever isolates go away: as long as requests   *)
(* keep coming, and an attempt succeeds now and then, there are tables in  *)
(* the end.  Without a client there is no retry (EnsureSchema).            *)
TablesAreRetried == client /\ []<><<AsksSchema>>_vars => <>table

(* The fixed window: an address that is over the limit gets below it again *)
(* however often it retries meanwhile, unless its key lost its TTL.        *)
LimitLifts ==
    \A l \in Limiters :
        counter[l].count > Max[l] ~> (counter[l].count <= Max[l] \/ l \in lost)
=============================================================================
