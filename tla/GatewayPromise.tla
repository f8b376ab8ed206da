--------------------------- MODULE GatewayPromise ---------------------------
(***************************************************************************)
(* What an operator's client may rely on (ADR-009), without the counter,   *)
(* timers and checks by which the gateway keeps it:                        *)
(*   - a connection is admitted, opens and goes, and never comes back;     *)
(*   - it is granted capabilities once, within the ceiling of the key it   *)
(*     was admitted with, and carries out nothing else;                    *)
(*   - it is closed with one code, the first;                              *)
(*   - a subscription holds one of MaxSubs slots from the moment it is     *)
(*     taken until it is given up or the connection goes.                  *)
(***************************************************************************)
EXTENDS Naturals, FiniteSets

CONSTANTS
    Conns,     \* upgrade requests
    Ceilings,  \* what keys may permit: sets of capabilities
    Codes,     \* close codes, and "none"
    MaxSubs    \* MAX_CONCURRENT_SUBSCRIPTIONS

VARIABLES
    link,      \* what a client knows of each connection
    slots      \* connections with a subscription

promiseVars == <<link, slots>>

Blank(stage) ==
    [stage |-> stage, ceiling |-> {}, agreed |-> FALSE, grant |-> {},
     code |-> "none", done |-> {}]

New == Blank("none")
Gone == Blank("gone")

PromiseInit ==
    /\ link = [c \in Conns |-> New]
    /\ slots = {}

Admit(c, ceiling) ==
    /\ link[c] = New
    /\ link' = [link EXCEPT ![c].stage = "keyed", ![c].ceiling = ceiling]
    /\ UNCHANGED slots

Begin(c) ==
    /\ link[c].stage = "keyed"
    /\ link' = [link EXCEPT ![c].stage = "open"]
    /\ UNCHANGED slots

Agree(c) ==
    /\ link[c].stage = "open" /\ ~link[c].agreed
    /\ \E grant \in SUBSET link[c].ceiling :
         link' = [link EXCEPT ![c].agreed = TRUE, ![c].grant = grant]
    /\ UNCHANGED slots

Act(c, cap) ==
    /\ link[c].stage = "open" /\ cap \in link[c].grant
    /\ link' = [link EXCEPT ![c].done = @ \cup {cap}]

Operate(c, cap) == Act(c, cap) /\ UNCHANGED slots

Subscribe(c) ==
    /\ Act(c, "subscribe_events")
    /\ c \notin slots
    /\ slots' = slots \cup {c}
    /\ Cardinality(slots') <= MaxSubs

Unsubscribe(c) ==
    /\ slots' = slots \ {c}
    /\ UNCHANGED link

Close(c, code) ==
    /\ link[c].stage = "open" /\ link[c].code = "none"
    /\ link' = [link EXCEPT ![c].code = code]
    /\ UNCHANGED slots

(* Connections go, one by one or with their isolate.                       *)
Part(leaving) ==
    /\ \A c \in leaving : link[c].stage # "none"
    /\ link' = [c \in Conns |-> IF c \in leaving THEN Gone ELSE link[c]]
    /\ slots' = slots \ leaving

PromiseNext ==
    \/ \E c \in Conns :
         \/ Unsubscribe(c) \/ Subscribe(c) \/ Begin(c) \/ Agree(c)
         \/ \E cap \in link[c].grant : Operate(c, cap)
         \/ \E code \in Codes : Close(c, code)
         \/ \E ceiling \in Ceilings : Admit(c, ceiling)
    \/ \E leaving \in SUBSET Conns : Part(leaving)

PromiseSpec == PromiseInit /\ [][PromiseNext]_promiseVars

-----------------------------------------------------------------------------
(* What follows from the promise alone.                                    *)

(* No more than MaxSubs connections listen, each of them open and entitled *)
(* to by the key it came with; nobody did what it was not entitled to.     *)
Entitled ==
    /\ Cardinality(slots) <= MaxSubs
    /\ \A c \in slots : link[c].stage = "open" /\ "subscribe_events" \in link[c].grant
    /\ \A c \in Conns : /\ link[c].done \subseteq link[c].grant
                        /\ link[c].grant \subseteq link[c].ceiling

(* Who is gone stays so; until then a key, a grant and a code stand.       *)
Standing ==
    [][\A c \in Conns : link'[c] # Gone =>
         /\ link[c].stage # "none" => link'[c].ceiling = link[c].ceiling
         /\ link[c].agreed => link'[c].agreed /\ link'[c].grant = link[c].grant
         /\ link[c].code # "none" => link'[c].code = link[c].code
         /\ link[c].stage # "gone"]_promiseVars
=============================================================================
