-------------------------- MODULE LoginGate_proofs --------------------------
(***************************************************************************)
(* Theorems about LoginGate, for any number of requests and limiters, any  *)
(* limits, thresholds and windows.                                         *)
(***************************************************************************)
EXTENDS LoginGate, FiniteSetTheorems, TLAPS

AtLimiter(r) == req[r].at \in {"incr", "expire", "del"}

(* r has counted a first hit and not yet given the counter its TTL.        *)
Settling(r) == req[r].at \in {"expire", "del"}

(* A request that stands at a limiter stands at one of the route's.        *)
LimitersOK == \A r \in Requests : AtLimiter(r) => req[r].limiter \in Limiters

IInv == TypeOK /\ LimitersOK /\ StuckOnlyByLostExpire

Counter == [count : Nat, ttl : 0..Window]

-----------------------------------------------------------------------------
(* Requests                                                                *)

LEMMA Lens == Len(Max) \in Nat /\ Limiters = 1..Len(Max) /\ \A l \in Limiters : Max[l] \in Nat \ {0}
BY GateAssumption DEF Limiters

LEMMA IdleType ==
    /\ Idle \in Request /\ Idle.at = "idle"
    /\ \A step \in Steps, p \in BOOLEAN :
         LET n == [Idle EXCEPT !.at = step, !.free = p]
         IN  n \in Request /\ n.at = step /\ n.limiter = 0
<1>1. /\ 0 \in 0..Len(Max) /\ -1 \in -1..NonceTtl /\ 0 \in 0..2
      /\ 0 \in 0..(CountWindow + 1)
  BY Lens, GateAssumption
<1>2. Idle \in Request /\ Idle.at = "idle" /\ Idle.limiter = 0
  BY <1>1 DEF Idle, Request, Steps
<1>3. ASSUME NEW step \in Steps, NEW p \in BOOLEAN
      PROVE  LET n == [Idle EXCEPT !.at = step, !.free = p]
             IN  n \in Request /\ n.at = step /\ n.limiter = 0
  BY <1>2, <1>3 DEF Request
<1> QED BY <1>2, <1>3

(* A request that goes on to a step of the same limiter.                   *)
LEMMA GotoType ==
    ASSUME TypeOK, NEW r \in Requests, NEW step \in Steps, Goto(r, step)
    PROVE  /\ req' \in [Requests -> Request]
           /\ req'[r].at = step /\ req'[r].limiter = req[r].limiter
           /\ \A s \in Requests : s # r => req'[s] = req[s]
<1> DEFINE n == [req[r] EXCEPT !.at = step]
<1>1. req[r] \in Request
  BY DEF TypeOK
<1>2. n \in Request /\ n.at = step /\ n.limiter = req[r].limiter
  BY <1>1 DEF Request
<1>3. req' = [req EXCEPT ![r] = n]
  BY DEF Goto, TypeOK
<1> HIDE DEF n
<1> QED BY <1>2, <1>3 DEF TypeOK

LEMMA FinishType ==
    ASSUME TypeOK, NEW r \in Requests, Finish(r)
    PROVE  /\ req' \in [Requests -> Request]
           /\ req'[r].at = "idle"
           /\ \A s \in Requests : s # r => req'[s] = req[s]
BY IdleType DEF Finish, TypeOK

LEMMA PastType ==
    ASSUME TypeOK, NEW r \in Requests, NEW step \in Steps, NEW p \in BOOLEAN,
           Past(r, step, p)
    PROVE  /\ req' \in [Requests -> Request]
           /\ req'[r].at = step
           /\ \A s \in Requests : s # r => req'[s] = req[s]
<1> DEFINE n == [Idle EXCEPT !.at = step, !.free = p]
<1>1. n \in Request /\ n.at = step
  BY IdleType
<1>2. req' = [req EXCEPT ![r] = n]
  BY DEF Past
<1> HIDE DEF n
<1> QED BY <1>1, <1>2 DEF TypeOK

(* Asking for the schema starts the promise at most.                       *)
LEMMA Asking ==
    ASSUME TypeOK, EnsureSchema
    PROVE  /\ init' \in {"none", "creating", "settled"}
BY DEF EnsureSchema, TypeOK

(* A request that leaves a limiter: for the next one, or for the challenge.*)
LEMMA OnwardsType ==
    ASSUME TypeOK, NEW r \in Requests, req[r].limiter \in Limiters, Onwards(r)
    PROVE  /\ req' \in [Requests -> Request]
           /\ req'[r].at \in {"incr", "count.wait", "count.select"}
           /\ req'[r].at = "incr" => req'[r].limiter \in Limiters
           /\ \A s \in Requests : s # r => req'[s] = req[s]
           /\ init' \in {"none", "creating", "settled"}
<1>1. req[r] \in Request
  BY DEF TypeOK
<1>2. CASE req[r].limiter < Len(Max)
  <2> DEFINE n == [req[r] EXCEPT !.at = "incr", !.limiter = req[r].limiter + 1]
  <2>1. req[r].limiter + 1 \in Limiters /\ req[r].limiter + 1 \in 0..Len(Max)
    BY <1>2, Lens
  <2>2. n \in Request /\ n.at = "incr" /\ n.limiter \in Limiters
    BY <1>1, <2>1 DEF Request, Steps
  <2>3. req' = [req EXCEPT ![r] = n] /\ init' = init
    BY <1>2 DEF Onwards, TypeOK
  <2> HIDE DEF n
  <2> QED BY <2>2, <2>3 DEF TypeOK
<1>3. CASE ~(req[r].limiter < Len(Max))
  <2> DEFINE step == Settled("count.wait", "count.select")
             n == [req[r] EXCEPT !.at = step, !.limiter = 0]
  <2>1. step \in {"count.wait", "count.select"}
    BY DEF Settled
  <2>2. req' = [req EXCEPT ![r] = n] /\ EnsureSchema
    BY <1>3 DEF Onwards, TypeOK
  <2> HIDE DEF step
  <2>3. step \in Steps /\ 0 \in 0..Len(Max)
    BY <2>1, Lens DEF Steps
  <2>4. n \in Request /\ n.at = step
    BY <1>1, <2>3 DEF Request
  <2> HIDE DEF n
  <2> QED BY <2>1, <2>2, <2>4, Asking DEF TypeOK
<1> QED BY <1>2, <1>3

-----------------------------------------------------------------------------
(* Counters                                                                *)

LEMMA BumpType ==
    ASSUME TypeOK, NEW l \in Limiters, Bump(l)
    PROVE  /\ counter' \in [Limiters -> Counter]
           /\ \A k \in Limiters : /\ counter'[k].count <= Max[k] + 1
                                  /\ counter'[k].ttl = counter[k].ttl
                                  /\ k # l => counter'[k] = counter[k]
           /\ counter'[l].count > 0
<1> DEFINE c == counter[l].count
           x == IF c > Max[l] THEN c ELSE c + 1
           n == [counter[l] EXCEPT !.count = x]
<1>1. counter[l] \in Counter /\ c \in Nat /\ c <= Max[l] + 1
  BY DEF TypeOK, Counter
<1>2. x \in Nat /\ x <= Max[l] + 1 /\ x > 0
  BY <1>1, Lens
<1>3. counter' = [counter EXCEPT ![l] = n]
  BY DEF Bump, TypeOK
<1> HIDE DEF x
<1>4. n \in Counter /\ n.count = x /\ n.ttl = counter[l].ttl
  BY <1>1, <1>2 DEF Counter
<1> HIDE DEF n
<1> QED BY <1>2, <1>3, <1>4 DEF TypeOK, Counter

LEMMA SetTtlType ==
    ASSUME TypeOK, NEW l \in Limiters, SetTtl(l)
    PROVE  /\ counter' \in [Limiters -> Counter]
           /\ \A k \in Limiters : /\ counter'[k].count = counter[k].count
                                  /\ k # l => counter'[k] = counter[k]
           /\ counter'[l].count > 0 => counter'[l].ttl # 0
<1>1. counter \in [Limiters -> Counter]
  BY DEF TypeOK, Counter
<1>2. CASE counter[l].count = 0
  BY <1>1, <1>2 DEF SetTtl
<1>3. CASE counter[l].count # 0
  <2> DEFINE n == [counter[l] EXCEPT !.ttl = Window]
  <2>1. n \in Counter /\ n.count = counter[l].count /\ n.ttl # 0
    BY <1>1, GateAssumption DEF Counter
  <2>2. counter' = [counter EXCEPT ![l] = n]
    BY <1>3, <1>1 DEF SetTtl
  <2> HIDE DEF n
  <2> QED BY <1>1, <2>1, <2>2
<1> QED BY <1>2, <1>3

LEMMA NoKeyType == NoKey \in Counter /\ NoKey.count = 0
BY GateAssumption DEF NoKey, Counter

-----------------------------------------------------------------------------
(* Steps beyond the limiters                                               *)

(* Steps that leave counters and faults alone and bring nobody to EXPIRE.  *)
LEMMA Apart ==
    ASSUME IInv, TypeOK', UNCHANGED <<counter, client, lost, table>>,
           \A s \in Requests : /\ AtLimiter(s)' => /\ AtLimiter(s) \/ req'[s].at = "incr"
                                                   /\ req'[s].limiter \in Limiters
                               /\ Settling(s) => /\ Settling(s)'
                                                 /\ req'[s].limiter = req[s].limiter
    PROVE  IInv'
<1>1. LimitersOK'
  BY DEF LimitersOK, Limiters
<1>2. StuckOnlyByLostExpire'
  BY DEF IInv, StuckOnlyByLostExpire, Limiters, Settling
<1> QED BY <1>1, <1>2 DEF IInv

(* A request other than r keeps its place; r is at no limiter.             *)
LEMMA ApartOne ==
    ASSUME IInv, NEW r \in Requests, ~Settling(r),
           req' \in [Requests -> Request], ~AtLimiter(r)',
           \A s \in Requests : s # r => req'[s] = req[s],
           UNCHANGED <<counter, client, lost, table>>,
           init' \in {"none", "creating", "settled"},
           recorded' \subseteq Row, nonces' \subseteq 0..NonceTtl
    PROVE  IInv'
<1>1. TypeOK'
  BY DEF IInv, TypeOK, Limiters, Ages
<1>2. \A s \in Requests : /\ AtLimiter(s)' => /\ AtLimiter(s) \/ req'[s].at = "incr"
                                              /\ req'[s].limiter \in Limiters
                          /\ Settling(s) => /\ Settling(s)'
                                            /\ req'[s].limiter = req[s].limiter
  BY DEF IInv, LimitersOK, AtLimiter, Settling
<1> QED BY <1>1, <1>2, Apart

(* A guess in flight is the same guess a step later, and was one before.   *)
SameKind(s) ==
    /\ req'[s].free = req[s].free
    /\ req'[s].at = "authenticate" => req[s].at = "authenticate"
    /\ req'[s].at \in {"emit.wait", "emit.insert"} => req[s].at \in {"emit.wait", "emit.insert"}

(* Waking the callers of the promise moves nobody at a limiter.            *)
LEMMA Waking ==
    ASSUME IInv, Wake
    PROVE  /\ req' \in [Requests -> Request]
           /\ \A s \in Requests : /\ req'[s].limiter = req[s].limiter
                                  /\ SameKind(s)
                                  /\ AtLimiter(s)' <=> AtLimiter(s)
                                  /\ Settling(s)' <=> Settling(s)
<1>1. ASSUME NEW s \in Requests
      PROVE  /\ req'[s] \in Request /\ req'[s].limiter = req[s].limiter
             /\ SameKind(s)
             /\ AtLimiter(s)' <=> AtLimiter(s)
             /\ Settling(s)' <=> Settling(s)
  <2>0. req[s] \in Request /\ "count.select" \in Steps /\ "emit.insert" \in Steps
    BY DEF IInv, TypeOK, Steps
  <2>1. CASE req[s].at = "count.wait"
    <3>1. req'[s] = [req[s] EXCEPT !.at = "count.select"]
      BY <2>1 DEF Wake
    <3> QED BY <2>0, <2>1, <3>1 DEF Request, AtLimiter, Settling, SameKind
  <2>2. CASE req[s].at = "emit.wait"
    <3>1. req'[s] = [req[s] EXCEPT !.at = "emit.insert"]
      BY <2>2 DEF Wake
    <3> QED BY <2>0, <2>2, <3>1 DEF Request, AtLimiter, Settling, SameKind
  <2>3. CASE req[s].at \notin {"count.wait", "emit.wait"}
    <3>1. req'[s] = req[s]
      BY <2>3 DEF Wake
    <3> QED BY <2>0, <3>1 DEF AtLimiter, Settling, SameKind
  <2> QED BY <2>1, <2>2, <2>3
<1>2. DOMAIN req' = Requests /\ req' = [s \in Requests |-> req'[s]]
  BY DEF Wake
<1> QED BY <1>1, <1>2

(* Time moves a request's ages and nothing else of it.                     *)
LEMMA Aging ==
    ASSUME IInv, Tick
    PROVE  /\ req' \in [Requests -> Request]
           /\ \A s \in Requests : /\ req'[s].at = req[s].at /\ req'[s].limiter = req[s].limiter
                                  /\ req'[s].free = req[s].free
<1>1. ASSUME NEW s \in Requests
      PROVE  /\ req'[s] \in Request
             /\ req'[s].at = req[s].at /\ req'[s].limiter = req[s].limiter
             /\ req'[s].free = req[s].free
  <2> DEFINE q == req[s]
             n == IF q.nonce < 0 \/ q.nonce = NonceTtl THEN -1 ELSE q.nonce + 1
             a == IF q.at \in {"emit.wait", "emit.insert"} /\ q.age <= CountWindow
                  THEN q.age + 1 ELSE q.age
  <2>1. q \in Request
    BY DEF IInv, TypeOK
  <2>2. req'[s] = [q EXCEPT !.nonce = n, !.age = a]
    BY DEF Tick
  <2>3. n \in -1..NonceTtl
    BY <2>1, GateAssumption DEF Request
  <2>4. a \in 0..(CountWindow + 1)
    BY <2>1, GateAssumption DEF Request
  <2> HIDE DEF n, a
  <2> QED BY <2>1, <2>2, <2>3, <2>4 DEF Request
<1>2. req' = [s \in Requests |-> req'[s]]
  BY DEF Tick
<1> QED BY <1>1, <1>2

(* An event that still counts a tick later is a row a tick older.          *)
LEMMA OlderType ==
    ASSUME NEW e \in Row, e.age < CountWindow
    PROVE  Older(e) \in Row /\ Older(e).free = e.free
<1>1. e.age + 1 \in Ages
  BY GateAssumption DEF Row, Ages
<1>2. Older(e) = [e EXCEPT !.age = e.age + 1]
  BY DEF Older, Row
<1> QED BY <1>1, <1>2 DEF Row

-----------------------------------------------------------------------------
(* Steps at a limiter                                                      *)

(* Types, when one request takes a step at its limiter.                    *)
LEMMA GateTypes ==
    ASSUME IInv, NEW r \in Requests,
           req' \in [Requests -> Request],
           AtLimiter(r)' => req'[r].limiter \in Limiters,
           \A s \in Requests : s # r => req'[s] = req[s],
           init' \in {"none", "creating", "settled"},
           counter' \in [Limiters -> Counter],
           \A l \in Limiters : counter'[l].count <= Max[l] + 1,
           lost' \subseteq Limiters,
           UNCHANGED <<client, table, recorded, nonces>>
    PROVE  TypeOK' /\ LimitersOK'
<1>1. TypeOK'
  BY DEF IInv, TypeOK, Limiters, Ages, Counter
<1>2. LimitersOK'
  BY DEF IInv, LimitersOK, AtLimiter, Limiters
<1> QED BY <1>1, <1>2

(* A counter that cannot lapse is on somebody's mind, or was lost.         *)
Excused(l) == \/ l \in lost
              \/ \E s \in Requests : Settling(s) /\ req[s].limiter = l

LEMMA StuckIff ==
    /\ StuckOnlyByLostExpire <=>
          \A l \in Limiters : counter[l].count > 0 /\ counter[l].ttl = 0 => Excused(l)
    /\ StuckOnlyByLostExpire' <=>
          \A l \in Limiters : counter'[l].count > 0 /\ counter'[l].ttl = 0 => Excused(l)'
BY DEF StuckOnlyByLostExpire, Excused, Settling, Limiters

(* r's step takes away no excuse but r's own.                              *)
LEMMA OthersExcuse ==
    ASSUME NEW r \in Requests, NEW l,
           lost \subseteq lost' \cup {req[r].limiter},
           \A s \in Requests : s # r => req'[s] = req[s],
           Excused(l), l # req[r].limiter \/ ~Settling(r),
           l \in lost => l \in lost'
    PROVE  Excused(l)'
BY DEF Excused, Settling

LEMMA LimiterSteps ==
    ASSUME IInv, NEW r \in Requests,
           \/ Incr(r) \/ IncrFails(r) \/ Expire(r) \/ ExpireFails(r) \/ Del(r) \/ DelFails(r)
    PROVE  IInv'
<1> DEFINE l == req[r].limiter
<1>0. /\ AtLimiter(r) /\ l \in Limiters /\ TypeOK /\ lost \subseteq Limiters
      /\ counter \in [Limiters -> Counter]
      /\ \A k \in Limiters : counter[k].count <= Max[k] + 1 /\ counter[k].count \in Nat
      /\ init \in {"none", "creating", "settled"}
  <2>1. AtLimiter(r)
    BY DEF Incr, IncrFails, Expire, ExpireFails, Del, DelFails, AtLimiter
  <2> QED BY <2>1 DEF IInv, LimitersOK, TypeOK, Counter
<1>s. \A k \in Limiters : counter[k].count > 0 /\ counter[k].ttl = 0 => Excused(k)
  BY StuckIff DEF IInv
<1> SUFFICES /\ TypeOK' /\ LimitersOK'
             /\ \A k \in Limiters : counter'[k].count > 0 /\ counter'[k].ttl = 0 => Excused(k)'
  BY StuckIff DEF IInv
<1>1. CASE Incr(r)
  <2>1. /\ req[r].at = "incr" /\ Bump(l) /\ UNCHANGED <<client, table, recorded, nonces, lost>>
    BY <1>1 DEF Incr
  <2>2. /\ req' \in [Requests -> Request]
        /\ AtLimiter(r)' => req'[r].limiter \in Limiters
        /\ \A s \in Requests : s # r => req'[s] = req[s]
        /\ init' \in {"none", "creating", "settled"}
        /\ counter[l].count = 0 => Settling(r)' /\ req'[r].limiter = l
    <3>1. CASE counter[l].count = 0
      <4>1. Goto(r, "expire") /\ init' = init
        BY <1>1, <3>1 DEF Incr
      <4> QED BY <1>0, <4>1, GotoType DEF Steps, Settling
    <3>2. CASE counter[l].count # 0 /\ counter[l].count >= Max[l]
      <4>1. Finish(r) /\ EnsureSchema
        BY <1>1, <3>2 DEF Incr
      <4> QED BY <1>0, <3>2, <4>1, FinishType, Asking DEF AtLimiter
    <3>3. CASE counter[l].count # 0 /\ ~(counter[l].count >= Max[l])
      <4>1. Onwards(r)
        BY <1>1, <3>3 DEF Incr
      <4> QED BY <1>0, <3>3, <4>1, OnwardsType DEF AtLimiter
    <3> QED BY <3>1, <3>2, <3>3
  <2>3. TypeOK' /\ LimitersOK'
    BY <1>0, <2>1, <2>2, BumpType, GateTypes
  <2>4. ASSUME NEW k \in Limiters, counter'[k].count > 0, counter'[k].ttl = 0
        PROVE  Excused(k)'
    <3>1. CASE k = l /\ counter[l].count = 0
      BY <2>2, <3>1 DEF Excused
    <3>2. CASE ~(k = l /\ counter[l].count = 0)
      <4>1. Excused(k)
        BY <1>0, <1>s, <2>1, <2>4, <3>2, BumpType
      <4>2. ~Settling(r)
        BY <2>1 DEF Settling
      <4> QED BY <2>1, <2>2, <4>1, <4>2, OthersExcuse
    <3> QED BY <3>1, <3>2
  <2> QED BY <2>3, <2>4
<1>2. CASE IncrFails(r)
  <2>1. /\ req[r].at = "incr" /\ Onwards(r) /\ UNCHANGED <<client, table, recorded, nonces>>
        /\ \/ counter' = counter /\ lost' = lost
           \/ Bump(l) /\ lost' = IF counter[l].count = 0 THEN lost \cup {l} ELSE lost
    BY <1>2 DEF IncrFails
  <2>2. /\ req' \in [Requests -> Request]
        /\ AtLimiter(r)' => req'[r].limiter \in Limiters
        /\ \A s \in Requests : s # r => req'[s] = req[s]
        /\ init' \in {"none", "creating", "settled"}
    BY <1>0, <2>1, OnwardsType DEF AtLimiter
  <2>3. ~Settling(r) /\ lost \subseteq lost'
    BY <2>1 DEF Settling
  <2>4. /\ counter' \in [Limiters -> Counter] /\ lost' \subseteq Limiters
        /\ \A k \in Limiters : counter'[k].count <= Max[k] + 1
    BY <1>0, <2>1, BumpType
  <2>5. TypeOK' /\ LimitersOK'
    BY <2>1, <2>2, <2>4, GateTypes
  <2>6. ASSUME NEW k \in Limiters, counter'[k].count > 0, counter'[k].ttl = 0
        PROVE  Excused(k)'
    <3>1. k \in lost' \/ Excused(k)
      BY <1>0, <1>s, <2>1, <2>6, BumpType
    <3> QED BY <2>2, <2>3, <3>1, OthersExcuse DEF Excused
  <2> QED BY <2>5, <2>6
<1>3. CASE Expire(r)
  <2>1. /\ SetTtl(l) /\ lost' = lost \ {l} /\ Onwards(r)
        /\ UNCHANGED <<client, table, recorded, nonces>>
    BY <1>3 DEF Expire
  <2>2. /\ req' \in [Requests -> Request]
        /\ AtLimiter(r)' => req'[r].limiter \in Limiters
        /\ \A s \in Requests : s # r => req'[s] = req[s]
        /\ init' \in {"none", "creating", "settled"}
    BY <1>0, <2>1, OnwardsType DEF AtLimiter
  <2>3. /\ counter' \in [Limiters -> Counter]
        /\ \A k \in Limiters : /\ counter'[k].count = counter[k].count
                               /\ k # l => counter'[k] = counter[k]
        /\ counter'[l].count > 0 => counter'[l].ttl # 0
    BY <1>0, <2>1, SetTtlType
  <2>4. TypeOK' /\ LimitersOK'
    BY <1>0, <2>1, <2>2, <2>3, GateTypes
  <2>5. ASSUME NEW k \in Limiters, counter'[k].count > 0, counter'[k].ttl = 0
        PROVE  Excused(k)'
    <3>1. k # l /\ Excused(k)
      BY <1>s, <2>3, <2>5
    <3> QED BY <2>1, <2>2, <3>1, OthersExcuse
  <2> QED BY <2>4, <2>5
<1>4. CASE ExpireFails(r)
  <2>1. /\ \/ SetTtl(l) /\ lost' = lost \ {l}
           \/ counter' = counter /\ lost' = lost
        /\ Goto(r, "del") /\ UNCHANGED <<client, init, table, recorded, nonces>>
    BY <1>4 DEF ExpireFails
  <2>2. /\ req' \in [Requests -> Request]
        /\ Settling(r)' /\ req'[r].limiter = l
        /\ \A s \in Requests : s # r => req'[s] = req[s]
    BY <1>0, <2>1, GotoType DEF Steps, Settling
  <2>3. /\ counter' \in [Limiters -> Counter]
        /\ \A k \in Limiters : /\ counter'[k].count = counter[k].count
                               /\ k # l => counter'[k] = counter[k]
    BY <1>0, <2>1, SetTtlType
  <2>4. TypeOK' /\ LimitersOK'
    BY <1>0, <2>1, <2>2, <2>3, GateTypes
  <2>5. ASSUME NEW k \in Limiters, counter'[k].count > 0, counter'[k].ttl = 0
        PROVE  Excused(k)'
    <3>1. CASE k = l
      BY <2>2, <3>1 DEF Excused
    <3>2. CASE k # l
      BY <1>s, <2>1, <2>2, <2>3, <2>5, <3>2, OthersExcuse
    <3> QED BY <3>1, <3>2
  <2> QED BY <2>4, <2>5
<1>5. CASE Del(r)
  <2>1. /\ counter' = [counter EXCEPT ![l] = NoKey] /\ lost' = lost \ {l}
        /\ Onwards(r) /\ UNCHANGED <<client, table, recorded, nonces>>
    BY <1>5 DEF Del
  <2>2. /\ req' \in [Requests -> Request]
        /\ AtLimiter(r)' => req'[r].limiter \in Limiters
        /\ \A s \in Requests : s # r => req'[s] = req[s]
        /\ init' \in {"none", "creating", "settled"}
    BY <1>0, <2>1, OnwardsType DEF AtLimiter
  <2>3. /\ counter' \in [Limiters -> Counter] /\ counter'[l].count = 0
        /\ \A k \in Limiters : k # l => counter'[k] = counter[k]
    BY <1>0, <2>1, NoKeyType
  <2>4. \A k \in Limiters : counter'[k].count <= Max[k] + 1
    BY <1>0, <2>3, Lens
  <2>5. TypeOK' /\ LimitersOK'
    BY <1>0, <2>1, <2>2, <2>3, <2>4, GateTypes
  <2>6. ASSUME NEW k \in Limiters, counter'[k].count > 0, counter'[k].ttl = 0
        PROVE  Excused(k)'
    <3>1. k # l /\ Excused(k)
      BY <1>s, <2>3, <2>6
    <3> QED BY <2>1, <2>2, <3>1, OthersExcuse
  <2> QED BY <2>5, <2>6
<1>6. CASE DelFails(r)
  <2>1. /\ Settling(r) /\ Leave(r) /\ counter' = counter
        /\ Onwards(r) /\ UNCHANGED <<client, table, recorded, nonces>>
    BY <1>6 DEF DelFails, Settling
  <2>2. /\ req' \in [Requests -> Request]
        /\ AtLimiter(r)' => req'[r].limiter \in Limiters
        /\ \A s \in Requests : s # r => req'[s] = req[s]
        /\ init' \in {"none", "creating", "settled"}
    BY <1>0, <2>1, OnwardsType DEF AtLimiter
  <2>3. lost' = IF counter[l].count > 0 /\ counter[l].ttl = 0 THEN lost \cup {l} ELSE lost
    BY <2>1 DEF Leave, Settling
  <2>4. TypeOK' /\ LimitersOK'
    BY <1>0, <2>1, <2>2, <2>3, GateTypes
  <2>5. ASSUME NEW k \in Limiters, counter'[k].count > 0, counter'[k].ttl = 0
        PROVE  Excused(k)'
    <3>1. CASE k = l
      BY <2>1, <2>3, <2>5, <3>1 DEF Excused
    <3>2. CASE k # l
      BY <1>s, <2>1, <2>2, <2>3, <2>5, <3>2, OthersExcuse
    <3> QED BY <3>1, <3>2
  <2> QED BY <2>4, <2>5
<1> QED BY <1>1, <1>2, <1>3, <1>4, <1>5, <1>6

-----------------------------------------------------------------------------
(* The invariant                                                           *)

LEMMA InitInv == Init => IInv
<1> SUFFICES ASSUME Init PROVE IInv
  OBVIOUS
<1>1. counter \in [Limiters -> Counter] /\ \A l \in Limiters : counter[l].count = 0
  BY NoKeyType DEF Init
<1>2. \A l \in Limiters : counter[l].count <= Max[l] + 1
  BY <1>1, Lens
<1>3. req \in [Requests -> Request] /\ \A r \in Requests : req[r].at = "idle"
  BY IdleType DEF Init
<1>4. /\ recorded \subseteq Row
      /\ nonces \subseteq 0..NonceTtl /\ lost \subseteq Limiters
      /\ client \in BOOLEAN /\ init = "none" /\ table \in BOOLEAN
  BY GateAssumption DEF Init
<1>5. TypeOK
  BY <1>1, <1>2, <1>3, <1>4 DEF TypeOK, Counter
<1>6. LimitersOK
  BY <1>3 DEF LimitersOK, AtLimiter
<1>7. StuckOnlyByLostExpire
  BY <1>1 DEF StuckOnlyByLostExpire
<1> QED BY <1>5, <1>6, <1>7 DEF IInv

LEMMA ArriveInv ==
    ASSUME IInv, NEW r \in Requests, NEW nonce \in -1..NonceTtl, NEW work \in 0..2,
           Arrive(r, nonce, work)
    PROVE  IInv'
<1> DEFINE step == IF Max = <<>> THEN Settled("count.wait", "count.select") ELSE "incr"
           m == IF Max = <<>> THEN 0 ELSE 1
           n == [Idle EXCEPT !.at = step, !.limiter = m, !.nonce = nonce, !.work = work]
<1>1. /\ req[r].at = "idle" /\ req' = [req EXCEPT ![r] = n]
      /\ IF Max = <<>> THEN EnsureSchema ELSE UNCHANGED init
      /\ UNCHANGED <<counter, client, table, recorded, nonces, lost>>
  BY DEF Arrive
<1>2. step \in {"incr", "count.wait", "count.select"}
  BY DEF Settled
<1>3. m \in 0..Len(Max) /\ (step = "incr" => m \in Limiters)
  <2>1. CASE Max = <<>>
    <3>1. step # "incr"
      BY <2>1 DEF Settled
    <3> HIDE DEF step
    <3> QED BY <2>1, <3>1, Lens
  <2>2. CASE Max # <<>>
    <3>1. Len(Max) \in Nat /\ Len(Max) # 0
      BY <2>2, GateAssumption
    <3> QED BY <2>2, <3>1 DEF Limiters
  <2> QED BY <2>1, <2>2
<1> HIDE DEF step, m
<1>4. n \in Request /\ n.at = step /\ n.limiter = m
  <2>1. step \in Steps /\ Idle \in Request
    BY <1>2, IdleType DEF Steps
  <2> DEFINE n1 == [Idle EXCEPT !.at = step]
             n2 == [n1 EXCEPT !.limiter = m]
             n3 == [n2 EXCEPT !.nonce = nonce]
             n4 == [n3 EXCEPT !.work = work]
  <2>2. n = n4
    OBVIOUS
  <2>3. n1 \in Request /\ n1.at = step
    BY <2>1 DEF Request
  <2> HIDE DEF n1
  <2>4. n2 \in Request /\ n2.at = step /\ n2.limiter = m
    BY <1>3, <2>3 DEF Request
  <2> HIDE DEF n2
  <2>5. n3 \in Request /\ n3.at = step /\ n3.limiter = m
    BY <2>4 DEF Request
  <2> HIDE DEF n3
  <2>6. n4 \in Request /\ n4.at = step /\ n4.limiter = m
    BY <2>5 DEF Request
  <2> HIDE DEF n4
  <2> QED BY <2>2, <2>6
<1> HIDE DEF n
<1>5. /\ req' \in [Requests -> Request] /\ req'[r] = n
      /\ \A s \in Requests : s # r => req'[s] = req[s]
  BY <1>1, <1>4 DEF IInv, TypeOK
<1>6. /\ init' \in {"none", "creating", "settled"}
  BY <1>1, Asking DEF IInv, TypeOK
<1>7. TypeOK'
  BY <1>1, <1>5, <1>6 DEF IInv, TypeOK, Limiters, Ages
<1>8. \A s \in Requests : /\ AtLimiter(s)' => /\ AtLimiter(s) \/ req'[s].at = "incr"
                                              /\ req'[s].limiter \in Limiters
                          /\ Settling(s) => /\ Settling(s)'
                                            /\ req'[s].limiter = req[s].limiter
  BY <1>1, <1>2, <1>3, <1>4, <1>5 DEF IInv, LimitersOK, AtLimiter, Settling
<1> QED BY <1>1, <1>6, <1>7, <1>8, Apart

(* doInit ends, one way or the other.                                      *)
LEMMA SchemaSteps ==
    ASSUME IInv, CreateTables \/ CreateFails
    PROVE  IInv'
<1>1. Wake /\ UNCHANGED <<counter, client, recorded, nonces, lost>>
  BY DEF CreateTables, CreateFails
<1>2. init' \in {"none", "settled"} /\ table' \in BOOLEAN
  BY DEF CreateTables, CreateFails, IInv, TypeOK
<1>3. TypeOK'
  BY <1>1, <1>2, Waking DEF IInv, TypeOK, Limiters, Ages
<1>4. LimitersOK'
  BY <1>1, Waking DEF IInv, LimitersOK, Limiters
<1>5. StuckOnlyByLostExpire'
  BY <1>1, Waking DEF IInv, StuckOnlyByLostExpire, Limiters, Settling
<1> QED BY <1>3, <1>4, <1>5 DEF IInv

(* A request emits its event and its response.                             *)
LEMMA EmitType ==
    ASSUME TypeOK, NEW r \in Requests, NEW p \in BOOLEAN, Emit(r, p)
    PROVE  /\ req' \in [Requests -> Request]
           /\ ~AtLimiter(r)'
           /\ \A s \in Requests : s # r => req'[s] = req[s]
           /\ init' \in {"none", "creating", "settled"}
<1> DEFINE step == Settled("emit.wait", "emit.insert")
<1>1. step \in {"emit.wait", "emit.insert"} /\ step \in Steps
  BY DEF Settled, Steps
<1>2. Past(r, step, p) /\ EnsureSchema
  BY DEF Emit
<1> HIDE DEF step
<1> QED BY <1>1, <1>2, PastType, Asking DEF AtLimiter

LEMMA ChallengeSteps ==
    ASSUME IInv, NEW r \in Requests,
           \/ Unchallenged(r) \/ Answered(r) \/ Challenge(r) \/ ChallengeThrows(r)
           \/ CountFails(r) \/ Authenticated(r) \/ LoginError(r) \/ LoginFailure(r)
    PROVE  IInv'
<1>1. /\ req[r].at \in {"count.select", "authenticate"} /\ ~Settling(r)
      /\ UNCHANGED <<counter, client, table, recorded, lost>>
  BY DEF Unchallenged, Answered, Challenge, ChallengeThrows, CountFails, HasCount,
         Authenticated, LoginError, LoginFailure, Settling
<1>2. /\ recorded' \subseteq Row
      /\ init \in {"none", "creating", "settled"} /\ nonces \subseteq 0..NonceTtl
      /\ TypeOK
  BY <1>1 DEF IInv, TypeOK
<1>3. CASE Unchallenged(r) \/ Answered(r) \/ ChallengeThrows(r) \/ CountFails(r)
  <2>1. PICK p \in BOOLEAN : Past(r, "authenticate", p)
    BY <1>3 DEF Unchallenged, Answered, ChallengeThrows, CountFails
  <2>2. UNCHANGED <<init, nonces>>
    BY <1>3 DEF Unchallenged, Answered, ChallengeThrows, CountFails
  <2>3. "authenticate" \in Steps
    BY DEF Steps
  <2> QED BY <1>1, <1>2, <2>1, <2>2, <2>3, PastType, ApartOne DEF AtLimiter
<1>4. CASE Challenge(r)
  <2>1. Emit(r, FALSE) /\ nonces' = nonces \cup {0}
    BY <1>4 DEF Challenge
  <2>2. nonces' \subseteq 0..NonceTtl
    BY <1>2, <2>1, GateAssumption
  <2> QED BY <1>1, <1>2, <2>1, <2>2, EmitType, ApartOne
<1>5. CASE Authenticated(r) \/ LoginError(r)
  <2>1. Finish(r) /\ nonces' = nonces /\ (EnsureSchema \/ init' = init)
    BY <1>5 DEF Authenticated, LoginError
  <2>2. /\ init' \in {"none", "creating", "settled"}
    BY <1>2, <2>1, Asking
  <2> QED BY <1>1, <1>2, <2>1, <2>2, FinishType, ApartOne DEF AtLimiter
<1>6. CASE LoginFailure(r)
  <2>1. Emit(r, req[r].free) /\ nonces' = nonces
    BY <1>6 DEF LoginFailure
  <2>2. req[r].free \in BOOLEAN
    BY DEF IInv, TypeOK, Request
  <2> QED BY <1>1, <1>2, <2>1, <2>2, EmitType, ApartOne
<1> QED BY <1>3, <1>4, <1>5, <1>6

LEMMA InsertSteps ==
    ASSUME IInv, NEW r \in Requests, InsertEvent(r) \/ InsertFails(r)
    PROVE  IInv'
<1>1. /\ req[r].at = "emit.insert" /\ ~Settling(r) /\ Finish(r)
      /\ UNCHANGED <<counter, client, init, table, lost, nonces>>
  BY DEF InsertEvent, InsertFails, Settling
<1>2. /\ recorded \subseteq Row /\ req[r] \in Request
      /\ init \in {"none", "creating", "settled"} /\ nonces \subseteq 0..NonceTtl
      /\ TypeOK
  BY DEF IInv, TypeOK
<1>3. recorded' \subseteq Row
  <2>1. CASE InsertFails(r)
    BY <1>2, <2>1 DEF InsertFails
  <2>2. CASE InsertEvent(r)
    BY <1>2, <2>2 DEF InsertEvent, Row, Request
  <2> QED BY <2>1, <2>2
<1> QED BY <1>1, <1>2, <1>3, FinishType, ApartOne DEF AtLimiter

LEMMA EvictInv ==
    ASSUME IInv, Evict
    PROVE  IInv'
<1>1. req' \in [Requests -> Request] /\ \A s \in Requests : ~AtLimiter(s)'
  BY IdleType DEF Evict, AtLimiter
<1>2. TypeOK'
  BY <1>1 DEF Evict, IInv, TypeOK, Limiters, Ages
<1>3. LimitersOK'
  BY <1>1 DEF LimitersOK
<1>4. StuckOnlyByLostExpire'
  BY DEF Evict, StuckOnlyByLostExpire, Limiters
<1> QED BY <1>2, <1>3, <1>4 DEF Evict, IInv

LEMMA TickInv ==
    ASSUME IInv, Tick
    PROVE  IInv'
<1>1. counter \in [Limiters -> Counter]
      /\ \A l \in Limiters : counter[l].count <= Max[l] + 1
  BY DEF IInv, TypeOK, Counter
<1>2. ASSUME NEW l \in Limiters
      PROVE  /\ counter'[l] \in Counter /\ counter'[l].count <= Max[l] + 1
             /\ counter'[l].count > 0 /\ counter'[l].ttl = 0 => counter'[l] = counter[l]
  <2>0. counter[l] \in Counter /\ counter[l].ttl \in Nat
    BY <1>1, GateAssumption DEF Counter
  <2>t. counter'[l] = IF counter[l].ttl = 1 THEN NoKey
                      ELSE IF counter[l].ttl > 1
                           THEN [counter[l] EXCEPT !.ttl = counter[l].ttl - 1]
                           ELSE counter[l]
    BY Zenon DEF Tick
  <2>1. CASE counter[l].ttl = 1
    <3>1. counter'[l] = NoKey
      BY <2>1 DEF Tick
    <3> QED BY <3>1, NoKeyType, Lens
  <2>2. CASE counter[l].ttl > 1
    <3> DEFINE t == counter[l].ttl - 1
               n == [counter[l] EXCEPT !.ttl = t]
    <3>1. counter'[l] = n
      BY <2>0, <2>2, <2>t DEF Counter
    <3>2. t \in 0..Window /\ t # 0
      BY <2>0, <2>2, GateAssumption DEF Counter
    <3> HIDE DEF t
    <3>3. n \in Counter /\ n.count = counter[l].count /\ n.ttl = t
      BY <2>0, <3>2 DEF Counter
    <3> HIDE DEF n
    <3> QED BY <1>1, <3>1, <3>2, <3>3
  <2>3. CASE counter[l].ttl = 0
    <3>1. counter'[l] = counter[l]
      BY <2>0, <2>3, <2>t DEF Counter
    <3> QED BY <1>1, <3>1
  <2> QED BY <2>0, <2>1, <2>2, <2>3
<1>3. counter' \in [Limiters -> Counter]
  <2>1. counter' = [l \in Limiters |-> counter'[l]]
    BY DEF Tick
  <2> QED BY <1>2, <2>1
<1>4. recorded' \subseteq Row
  BY OlderType DEF Tick, IInv, TypeOK
<1>5. nonces' \subseteq 0..NonceTtl /\ UNCHANGED <<client, init, table, lost>>
  BY DEF Tick
<1>6. TypeOK'
  BY <1>2, <1>3, <1>4, <1>5, Aging DEF IInv, TypeOK, Limiters, Ages, Counter
<1>7. LimitersOK'
  BY Aging DEF IInv, LimitersOK, AtLimiter, Limiters
<1>8. StuckOnlyByLostExpire'
  BY <1>2, <1>5, Aging DEF IInv, StuckOnlyByLostExpire, Limiters
<1> QED BY <1>6, <1>7, <1>8 DEF IInv

LEMMA StepInv == IInv /\ [Next]_vars => IInv'
<1> SUFFICES ASSUME IInv, [Next]_vars PROVE IInv'
  OBVIOUS
<1>1. CASE \E r \in Requests, nonce \in -1..NonceTtl, work \in 0..2 : Arrive(r, nonce, work)
  BY <1>1, ArriveInv
<1>2. CASE \E r \in Requests : \/ Incr(r) \/ IncrFails(r) \/ Expire(r)
                               \/ ExpireFails(r) \/ Del(r) \/ DelFails(r)
  BY <1>2, LimiterSteps
<1>3. CASE CreateTables \/ CreateFails
  BY <1>3, SchemaSteps
<1>4. CASE \E r \in Requests : \/ Unchallenged(r) \/ Answered(r) \/ Challenge(r)
                               \/ ChallengeThrows(r) \/ CountFails(r)
                               \/ Authenticated(r) \/ LoginError(r) \/ LoginFailure(r)
  BY <1>4, ChallengeSteps
<1>5. CASE \E r \in Requests : InsertEvent(r) \/ InsertFails(r)
  BY <1>5, InsertSteps
<1>6. CASE Evict
  BY <1>6, EvictInv
<1>7. CASE Tick
  BY <1>7, TickInv
<1>8. CASE UNCHANGED vars
  <2>1. TypeOK'
    BY <1>8 DEF vars, IInv, TypeOK, Limiters, Ages
  <2>2. LimitersOK'
    BY <1>8 DEF vars, IInv, LimitersOK, AtLimiter, Limiters
  <2>3. StuckOnlyByLostExpire'
    BY <1>8 DEF vars, IInv, StuckOnlyByLostExpire, Limiters
  <2> QED BY <2>1, <2>2, <2>3 DEF IInv
<1> QED BY <1>1, <1>2, <1>3, <1>4, <1>5, <1>6, <1>7, <1>8 DEF Next

LEMMA Invariance == Spec => []IInv
BY InitInv, StepInv, PTL DEF Spec

-----------------------------------------------------------------------------
(* Free guesses                                                            *)

(* r got past the count for free, and its guess is not on record yet.      *)
Guessing(r) ==
    req[r].at \in {"authenticate", "emit.wait", "emit.insert"} /\ req[r].free

Guessers == {r \in Requests : Guessing(r)}

(* Whoever gets past for free sees fewer failures than the threshold, the  *)
(* free ones among them; from then on a guess only goes on record.         *)
GuessInv ==
    /\ IsFiniteSet(recorded)
    /\ Cardinality(Free) + Cardinality(Guessers) <= Threshold - 1 + Cardinality(Requests)

LEMMA Counted ==
    ASSUME IsFiniteSet(recorded)
    PROVE  /\ IsFiniteSet(Free) /\ Cardinality(Free) \in Nat
           /\ Cardinality(recorded) \in Nat
           /\ Cardinality(Free) <= Cardinality(recorded)
BY FS_Subset, FS_CardinalityType DEF Free

LEMMA GuessersCounted ==
    /\ IsFiniteSet(Guessers) /\ Cardinality(Guessers) \in Nat
    /\ Cardinality(Requests) \in Nat
    /\ Cardinality(Guessers) <= Cardinality(Requests)
BY GateAssumption, FS_Subset, FS_CardinalityType DEF Guessers

LEMMA GuessInit == Init => GuessInv
<1> SUFFICES ASSUME Init PROVE GuessInv
  OBVIOUS
<1>1. recorded = {} /\ Free = {}
  BY DEF Init, Free
<1>2. Guessers = {}
  <2>1. \A r \in Requests : req[r].at = "idle"
    BY IdleType DEF Init
  <2> QED BY <2>1 DEF Guessers, Guessing
<1> QED BY <1>1, <1>2, FS_EmptySet, GuessersCounted, GateAssumption DEF GuessInv

(* Nobody new gets past for free.                                          *)
LEMMA NoNewGuess ==
    ASSUME GuessInv, IsFiniteSet(recorded'), Cardinality(Free') <= Cardinality(Free),
           \A s \in Requests : Guessing(s)' => Guessing(s)
    PROVE  GuessInv'
<1>1. IsFiniteSet(Guessers') /\ Cardinality(Guessers') <= Cardinality(Guessers)
  <2>1. Guessers' \subseteq Guessers
    BY DEF Guessers
  <2> QED BY <2>1, GuessersCounted, FS_Subset
<1>2. Cardinality(Guessers') \in Nat
  BY <1>1, FS_CardinalityType
<1>3. Cardinality(Free') \in Nat
  <2>1. IsFiniteSet(Free')
    BY FS_Subset DEF Free
  <2> QED BY <2>1, FS_CardinalityType
<1>4. Cardinality(Free) \in Nat
  BY Counted DEF GuessInv
<1> QED BY <1>1, <1>2, <1>3, <1>4, GuessersCounted, GateAssumption DEF GuessInv

(* The same, when the record does not change.                              *)
LEMMA SameRecord ==
    ASSUME GuessInv, recorded' = recorded,
           \A s \in Requests : Guessing(s)' => Guessing(s)
    PROVE  GuessInv'
<1>1. Free' = Free
  BY DEF Free
<1>2. Cardinality(Free) \in Nat /\ IsFiniteSet(recorded)
  BY Counted DEF GuessInv
<1>3. Cardinality(Free') <= Cardinality(Free)
  BY <1>1, <1>2
<1> QED BY <1>2, <1>3, NoNewGuess

(* r moves to where it guesses nothing.                                    *)
LEMMA Elsewhere ==
    ASSUME TypeOK, GuessInv, NEW r \in Requests, recorded' = recorded,
           req'[r].at \notin {"authenticate", "emit.wait", "emit.insert"},
           \A s \in Requests : s # r => req'[s] = req[s]
    PROVE  GuessInv'
<1>1. \A s \in Requests : Guessing(s)' => Guessing(s)
  BY DEF Guessing
<1> QED BY <1>1, SameRecord

LEMMA GuessUnchallenged ==
    ASSUME TypeOK, GuessInv, NEW r \in Requests, Unchallenged(r)
    PROVE  GuessInv'
<1>1. Cardinality(recorded) < Threshold /\ recorded' = recorded
  BY DEF Unchallenged, Failures
<1>2. Free' = Free
  BY <1>1 DEF Free
<1>3. /\ IsFiniteSet(recorded) /\ Cardinality(Free) <= Threshold - 1
      /\ Cardinality(Free) \in Nat
  BY <1>1, Counted, GateAssumption DEF GuessInv
<1>4. Cardinality(Guessers') \in Nat /\ Cardinality(Guessers') <= Cardinality(Requests)
  <2>1. Guessers' \subseteq Requests
    BY DEF Guessers
  <2> QED BY <2>1, GateAssumption, FS_Subset, FS_CardinalityType
<1>5. Cardinality(Free') = Cardinality(Free)
  BY <1>2
<1> QED BY <1>1, <1>3, <1>4, <1>5, GuessersCounted, GateAssumption DEF GuessInv

(* The request keeps its kind while its failure is emitted.                *)
LEMMA GuessFails ==
    ASSUME TypeOK, GuessInv, NEW r \in Requests, LoginFailure(r)
    PROVE  GuessInv'
<1> DEFINE step == Settled("emit.wait", "emit.insert")
           n == [Idle EXCEPT !.at = step, !.free = req[r].free]
<1>1. n.free = req[r].free
  BY DEF Idle
<1>2. req' = [req EXCEPT ![r] = n] /\ recorded' = recorded /\ req[r].at = "authenticate"
  BY DEF LoginFailure, Emit, Past
<1> HIDE DEF n
<1>3. req'[r] = n /\ \A s \in Requests : s # r => req'[s] = req[s]
  BY <1>2 DEF TypeOK
<1>4. \A s \in Requests : Guessing(s)' => Guessing(s)
  BY <1>1, <1>2, <1>3 DEF Guessing
<1> QED BY <1>2, <1>4, SameRecord

(* A request that answered, or failed open, did not get past for free.     *)
LEMMA GuessAnswered ==
    ASSUME TypeOK, GuessInv, NEW r \in Requests,
           Answered(r) \/ CountFails(r) \/ Challenge(r) \/ ChallengeThrows(r)
    PROVE  GuessInv'
<1>1. PICK step \in {"authenticate", "emit.wait", "emit.insert"} : Past(r, step, FALSE)
  BY DEF Answered, CountFails, Challenge, ChallengeThrows, Emit, Settled
<1> DEFINE n == [Idle EXCEPT !.at = step, !.free = FALSE]
<1>2. ~n.free
  BY DEF Idle
<1>3. req' = [req EXCEPT ![r] = n] /\ recorded' = recorded
  BY <1>1 DEF Answered, CountFails, Challenge, ChallengeThrows, Past
<1> HIDE DEF n
<1>4. req'[r] = n /\ \A s \in Requests : s # r => req'[s] = req[s]
  BY <1>3 DEF TypeOK
<1>5. \A s \in Requests : Guessing(s)' => Guessing(s)
  BY <1>2, <1>4 DEF Guessing
<1> QED BY <1>3, <1>5, SameRecord

(* A guess goes on record, and is in flight no more.                       *)
LEMMA GuessRecorded ==
    ASSUME TypeOK, GuessInv, NEW r \in Requests, InsertEvent(r)
    PROVE  GuessInv'
<1>1. /\ req[r].at = "emit.insert" /\ req'[r].at = "idle"
      /\ \A s \in Requests : s # r => req'[s] = req[s]
  BY FinishType DEF InsertEvent
<1>2. CASE recorded' = recorded
  BY <1>1, <1>2, Elsewhere
<1>3. CASE recorded' # recorded
  <2>1. PICK n \in 1..MaxRecorded :
          recorded' = recorded \cup {[age |-> req[r].age, free |-> req[r].free, n |-> n]}
    BY <1>3 DEF InsertEvent
  <2> DEFINE e == [age |-> req[r].age, free |-> req[r].free, n |-> n]
  <2>2. recorded' = recorded \cup {e} /\ e.free = req[r].free
    BY <2>1
  <2> HIDE DEF e
  <2>3. IsFiniteSet(recorded) /\ IsFiniteSet(Free) /\ Cardinality(Free) \in Nat
    BY Counted DEF GuessInv
  <2>4. IsFiniteSet(recorded')
    BY <2>2, <2>3, FS_AddElement
  <2>5. CASE ~req[r].free
    <3>1. Free' = Free
      BY <2>2, <2>5 DEF Free
    <3>2. \A s \in Requests : Guessing(s)' => Guessing(s)
      BY <1>1 DEF Guessing
    <3>3. Cardinality(Free') <= Cardinality(Free)
      BY <3>1, <2>3
    <3> QED BY <2>4, <3>2, <3>3, NoNewGuess
  <2>6. CASE req[r].free
    <3>1. Free' = Free \cup {e}
      BY <2>2, <2>6 DEF Free
    <3>2. /\ Cardinality(Free') <= Cardinality(Free) + 1
          /\ Cardinality(Free') \in Nat
      <4>1. ASSUME NEW S, NEW x, IsFiniteSet(S)
            PROVE  Cardinality(S \cup {x}) <= Cardinality(S) + 1 /\ Cardinality(S \cup {x}) \in Nat
        <5>1. Cardinality(S) \in Nat /\ Cardinality(S \cup {x}) \in Nat
          BY <4>1, FS_AddElement, FS_CardinalityType
        <5>2. Cardinality(S \cup {x}) = IF x \in S THEN Cardinality(S) ELSE Cardinality(S) + 1
          BY <4>1, FS_AddElement
        <5> QED BY <5>1, <5>2
      <4> QED BY <2>3, <3>1, <4>1
    <3>3. Guessers' = Guessers \ {r} /\ r \in Guessers
      BY <1>1, <2>6 DEF Guessers, Guessing
    <3>4. Cardinality(Guessers') = Cardinality(Guessers) - 1
      BY <3>3, GuessersCounted, FS_RemoveElement
    <3> QED BY <2>3, <2>4, <3>2, <3>4, GuessersCounted, GateAssumption DEF GuessInv
  <2> QED BY <2>5, <2>6
<1> QED BY <1>2, <1>3

(* Time takes rows from the record and adds none.                          *)
LEMMA GuessTick ==
    ASSUME IInv, GuessInv, Tick
    PROVE  GuessInv'
<1> DEFINE Old(S) == {e \in S : e.age < CountWindow}
           New(S) == {Older(e) : e \in Old(S)}
           f(S)   == [e \in Old(S) |-> Older(e)]
<1>1. recorded' = New(recorded) /\ recorded \subseteq Row
  BY DEF Tick, IInv, TypeOK
<1>2. ASSUME NEW S, IsFiniteSet(S)
      PROVE  IsFiniteSet(New(S)) /\ Cardinality(New(S)) <= Cardinality(S)
  <2>1. IsFiniteSet(Old(S)) /\ Cardinality(Old(S)) <= Cardinality(S)
    BY <1>2, FS_Subset
  <2>2. f(S) \in Surjection(Old(S), New(S))
    BY DEF Surjection
  <2>3. IsFiniteSet(New(S)) /\ Cardinality(New(S)) <= Cardinality(Old(S))
    BY <2>1, <2>2, FS_Surjection
  <2> QED BY <1>2, <2>1, <2>3, FS_CardinalityType
<1>3. IsFiniteSet(recorded) /\ IsFiniteSet(Free)
  BY Counted DEF GuessInv
<1>4. IsFiniteSet(recorded')
  BY <1>1, <1>2, <1>3
<1>5. Free' = New(Free)
  <2>1. Free' = {e \in New(recorded) : e.free}
    BY <1>1 DEF Free
  <2>2. \A e \in Old(recorded) : Older(e).free = e.free
    BY <1>1, OlderType
  <2> QED BY <2>1, <2>2 DEF Free
<1>6. Cardinality(Free') <= Cardinality(Free)
  BY <1>2, <1>3, <1>5
<1>7. \A s \in Requests : Guessing(s)' => Guessing(s)
  BY Aging DEF Guessing
<1> QED BY <1>4, <1>6, <1>7, NoNewGuess

LEMMA GuessStep == IInv /\ GuessInv /\ [Next]_vars => GuessInv'
<1> SUFFICES ASSUME IInv, GuessInv, [Next]_vars PROVE GuessInv'
  OBVIOUS
<1>0. TypeOK /\ LimitersOK
  BY DEF IInv
<1>1. ASSUME NEW r \in Requests, NEW nonce \in -1..NonceTtl, NEW work \in 0..2,
             Arrive(r, nonce, work)
      PROVE  GuessInv'
  <2> DEFINE step == IF Max = <<>> THEN Settled("count.wait", "count.select") ELSE "incr"
             n == [Idle EXCEPT !.at = step, !.limiter = IF Max = <<>> THEN 0 ELSE 1,
                               !.nonce = nonce, !.work = work]
  <2>1. req' = [req EXCEPT ![r] = n] /\ recorded' = recorded
    BY <1>1 DEF Arrive
  <2>2. n.at = step
    BY DEF Idle
  <2>3. step \notin {"authenticate", "emit.wait", "emit.insert"}
    BY DEF Settled
  <2> HIDE DEF n, step
  <2> QED BY <1>0, <2>1, <2>2, <2>3, Elsewhere DEF TypeOK
<1>2. ASSUME NEW r \in Requests,
             \/ Incr(r) \/ IncrFails(r) \/ Expire(r) \/ ExpireFails(r) \/ Del(r) \/ DelFails(r)
      PROVE  GuessInv'
  <2>1. req[r].limiter \in Limiters /\ recorded' = recorded
    BY <1>0, <1>2 DEF LimitersOK, AtLimiter, Incr, IncrFails, Expire, ExpireFails, Del, DelFails
  <2>2. Onwards(r) \/ Finish(r) \/ Goto(r, "expire") \/ Goto(r, "del")
    BY <1>2 DEF Incr, IncrFails, Expire, ExpireFails, Del, DelFails
  <2>3. "expire" \in Steps /\ "del" \in Steps
    BY DEF Steps
  <2>4. /\ req'[r].at \notin {"authenticate", "emit.wait", "emit.insert"}
        /\ \A s \in Requests : s # r => req'[s] = req[s]
    BY <1>0, <2>1, <2>2, <2>3, OnwardsType, FinishType, GotoType
  <2> QED BY <1>0, <2>1, <2>4, Elsewhere
<1>3. ASSUME CreateTables \/ CreateFails
      PROVE  GuessInv'
  <2>1. Wake /\ recorded' = recorded
    BY <1>3 DEF CreateTables, CreateFails
  <2>2. \A s \in Requests : Guessing(s)' => Guessing(s)
    BY <2>1, Waking DEF Guessing, SameKind
  <2> QED BY <2>1, <2>2, SameRecord
<1>4. ASSUME NEW r \in Requests,
             \/ Unchallenged(r) \/ Answered(r) \/ Challenge(r) \/ ChallengeThrows(r)
             \/ CountFails(r) \/ LoginFailure(r) \/ InsertEvent(r)
      PROVE  GuessInv'
  BY <1>0, <1>4, GuessUnchallenged, GuessAnswered, GuessFails, GuessRecorded
<1>5. ASSUME NEW r \in Requests, Authenticated(r) \/ LoginError(r) \/ InsertFails(r)
      PROVE  GuessInv'
  <2>1. Finish(r) /\ recorded' = recorded
    BY <1>5 DEF Authenticated, LoginError, InsertFails
  <2> QED BY <1>0, <2>1, FinishType, Elsewhere
<1>6. CASE Evict
  <2>1. \A s \in Requests : req'[s].at = "idle"
    BY <1>6, IdleType DEF Evict
  <2> QED BY <1>6, <2>1, SameRecord DEF Evict, Guessing
<1>7. CASE Tick
  BY <1>7, GuessTick
<1>8. CASE UNCHANGED vars
  BY <1>8, SameRecord DEF vars, Guessing
<1> QED BY <1>1, <1>2, <1>3, <1>4, <1>5, <1>6, <1>7, <1>8 DEF Next

-----------------------------------------------------------------------------
(* Every state of the gate is one the code's values can take.              *)
THEOREM LoginGateTypes == Spec => []TypeOK
<1>1. IInv => TypeOK
  BY DEF IInv
<1> QED BY <1>1, Invariance, PTL

(* "No hard lockouts": a counter that never lapses is still being settled  *)
(* by its first hit, or a fault of that hit's EXPIRE, DEL or reply left it;*)
(* no interleaving of any number of requests leaves one behind by itself.  *)
THEOREM NoStuckCounter == Spec => []StuckOnlyByLostExpire
<1>1. IInv => StuckOnlyByLostExpire
  BY DEF IInv
<1> QED BY <1>1, Invariance, PTL

(* Of the wrong guesses on record in one window those the count let past   *)
(* for free are fewer than the threshold but for as many as there are      *)
(* requests at a time, whatever they interleave with.  It bounds neither   *)
(* the guesses that answered a challenge nor those that failed open.       *)
THEOREM FreeGuesses == Spec => []FreeBounded
<1>1. GuessInv => FreeBounded
  BY Counted, GuessersCounted, GateAssumption DEF GuessInv, FreeBounded
<1> QED BY <1>1, GuessInit, GuessStep, Invariance, PTL DEF Spec
=============================================================================
