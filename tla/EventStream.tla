----------------------------- MODULE EventStream -----------------------------
(***************************************************************************)
(* The event stream of one operator connection.  Request handlers stamp    *)
(* security events and insert them without waiting (processEvent); the     *)
(* connection's subscription asks every SUBSCRIPTION_INTERVAL_MS for the   *)
(* rows after its high-water mark, at most SUBSCRIPTION_POLL_LIMIT of      *)
(* them, and moves the mark to the last row it got.  A poll awaits the     *)
(* database: polls slower than the interval overlap, and a poll may end    *)
(* after its subscription was replaced by another.  The connection stays   *)
(* open here; what a closing one does is WsGateway's.                      *)
(***************************************************************************)
EXTENDS Naturals, FiniteSets

CONSTANTS
    Events,      \* emissions; one is stamped at most once
    Filters,     \* payload.types, each as the set of events that it matches
    Polls,       \* bound: polls of the connection in flight
    PageLimit,   \* SUBSCRIPTION_POLL_LIMIT
    MaxTime      \* bound: milliseconds that pass

ASSUME StreamAssumption ==
    /\ IsFiniteSet(Events) /\ Filters \subseteq SUBSET Events
    /\ PageLimit \in Nat \ {0} /\ MaxTime \in Nat

VARIABLES
    now,          \* the clock that stamps created_at
    event,        \* each emission: its stamp, and how far it got
    subscription, \* the connection's subscription
    poll          \* the polls in flight

vars == <<now, event, subscription, poll>>

Time == 0..MaxTime

NoSubscription ==
    [active |-> FALSE, types |-> {}, start |-> 0, mark |-> 0,
     got |-> [e \in Events |-> 0], raced |-> FALSE, late |-> {}, cut |-> {},
     crossed |-> FALSE]

Subscription ==
    [active : BOOLEAN, types : SUBSET Events,
     start : Time, mark : Time,         \* highWaterMark, and its first value
     got : [Events -> 0..2],            \* history: times sent, saturated
     raced : BOOLEAN,                   \* history: two polls were in flight together
     late : SUBSET Events,              \* history: inserted behind a mark in use
     cut : SUBSET Events,               \* history: cut off a page that ends in their millisecond
     crossed : BOOLEAN]                 \* history: an earlier subscription's poll set the mark

Idle ==
    [phase |-> "idle", mark |-> 0, types |-> {}, page |-> {}, last |-> 0, own |-> FALSE]

Poll ==
    [phase : {"idle", "sent", "answered"}, mark : Time, types : SUBSET Events,
     page : SUBSET Events,
     last : Time,                       \* created_at of the page's last row, or mark
     own : BOOLEAN]                     \* history: its subscription is still the active one

Init ==
    /\ now = 0
    /\ event = [e \in Events |-> [phase |-> "none", at |-> 0]]
    /\ subscription = NoSubscription
    /\ poll = [p \in Polls |-> Idle]

Stored == {e \in Events : event[e].phase = "stored"}

At(e) == event[e].at

InFlight == {p \in Polls : poll[p].phase # "idle"}

-----------------------------------------------------------------------------
(* Emission: the caller stamps the event, the INSERT lands later or never. *)

Tick ==
    /\ now < MaxTime
    /\ now' = now + 1
    /\ UNCHANGED <<event, subscription, poll>>

Stamp(e) ==
    /\ event[e].phase = "none"
    /\ event' = [event EXCEPT ![e] = [phase |-> "stamped", at |-> now]]
    /\ UNCHANGED <<now, subscription, poll>>

(* Behind the mark, or behind what a poll has already asked for or read.   *)
Behind(e) ==
    /\ subscription.active
    /\ At(e) <= subscription.mark \/ \E p \in InFlight : At(e) <= poll[p].last

ProcessEvent(e) ==
    /\ event[e].phase = "stamped"
    /\ event' = [event EXCEPT ![e].phase = "stored"]
    /\ subscription' = IF Behind(e) THEN [subscription EXCEPT !.late = @ \cup {e}]
                                    ELSE subscription
    /\ UNCHANGED <<now, poll>>

(* processEvent swallows the error.                                        *)
ProcessEventFails(e) ==
    /\ event[e].phase = "stamped"
    /\ event' = [event EXCEPT ![e] = [phase |-> "dropped", at |-> 0]]
    /\ UNCHANGED <<now, subscription, poll>>

-----------------------------------------------------------------------------
(* The client's messages.                                                  *)

SubscribeEvents(types) ==
    /\ ~subscription.active
    /\ subscription' = [NoSubscription EXCEPT !.active = TRUE, !.types = types,
                                              !.start = now, !.mark = now,
                                              !.raced = \E p, q \in InFlight : p # q]
    /\ UNCHANGED <<now, event, poll>>

(* unsubscribe_events, or the close event: the interval is cleared, polls  *)
(* in flight are not.                                                      *)
UnsubscribeEvents ==
    /\ subscription.active
    /\ subscription' = NoSubscription
    /\ poll' = [p \in Polls |-> [poll[p] EXCEPT !.own = FALSE]]
    /\ UNCHANGED <<now, event>>

-----------------------------------------------------------------------------
(* A poll: the interval fires and fixes mark and types, the SELECT runs,   *)
(* its answer is handled.                                                  *)

BeginPoll(p) ==
    /\ subscription.active
    /\ poll[p].phase = "idle"
    /\ poll' = [poll EXCEPT ![p] =
                  [phase |-> "sent", mark |-> subscription.mark,
                   types |-> subscription.types, page |-> {},
                   last |-> subscription.mark, own |-> TRUE]]
    /\ subscription' = [subscription EXCEPT !.raced = @ \/ InFlight # {}]
    /\ UNCHANGED <<now, event>>

(* Mutant: at or after the mark.                                           *)
Rows_Inclusive(p) == {e \in Stored \cap poll[p].types : At(e) >= poll[p].mark}

Rows(p) == {e \in Stored \cap poll[p].types : At(e) > poll[p].mark}

(* Mutant: LIMIT without ORDER BY.                                         *)
Pages_Unordered(p) ==
    {page \in SUBSET Rows(p) :
       Cardinality(page) = (IF Cardinality(Rows(p)) < PageLimit
                            THEN Cardinality(Rows(p)) ELSE PageLimit)}

(* Mutant: the limit is one row short.                                     *)
Pages_Short(p) ==
    {page \in SUBSET Rows(p) :
       /\ Cardinality(page) = (IF Cardinality(Rows(p)) < PageLimit
                               THEN Cardinality(Rows(p)) ELSE PageLimit - 1)
       /\ \A e \in page, f \in Rows(p) \ page : At(e) <= At(f)}

(* ORDER BY created_at ASC LIMIT: which of several rows of one millisecond *)
(* come first is the database's choice.                                    *)
Pages(p) ==
    {page \in SUBSET Rows(p) :
       /\ Cardinality(page) = (IF Cardinality(Rows(p)) < PageLimit
                               THEN Cardinality(Rows(p)) ELSE PageLimit)
       /\ \A e \in page, f \in Rows(p) \ page : At(e) <= At(f)}

(* The created_at of the page's last row.                                  *)
IsLast(p, page, t) ==
    IF page = {} THEN t = poll[p].mark
    ELSE /\ \E e \in page : At(e) = t
         /\ \A e \in page : At(e) <= t

Select(p) ==
    /\ poll[p].phase = "sent"
    /\ \E page \in Pages(p), t \in Time :
         /\ IsLast(p, page, t)
         /\ poll' = [poll EXCEPT ![p].phase = "answered", ![p].page = page, ![p].last = t]
         /\ subscription' = [subscription EXCEPT !.cut =
              @ \cup {e \in Rows(p) \ page : page # {} /\ At(e) = t}]
    /\ UNCHANGED <<now, event>>

SelectFails(p) ==
    /\ poll[p].phase = "sent"
    /\ poll' = [poll EXCEPT ![p] = Idle]
    /\ UNCHANGED <<now, event, subscription>>

(* What send does to the count of each event of a page.                    *)
Sent(page) ==
    [e \in Events |->
       IF e \in page /\ subscription.got[e] < 2
       THEN subscription.got[e] + 1 ELSE subscription.got[e]]

(* Mutant: the mark is put past the last row's millisecond.                *)
NewMark_Past(p) == IF poll[p].page = {} THEN subscription.mark ELSE poll[p].last + 1

NewMark(p) == IF poll[p].page = {} THEN subscription.mark ELSE poll[p].last

(* The mark that moves is that of whatever subscription is active now.     *)
Deliver(p) ==
    /\ poll[p].phase = "answered"
    /\ poll' = [poll EXCEPT ![p] = Idle]
    /\ subscription' =
         IF subscription.active
         THEN [subscription EXCEPT
                 !.got = Sent(poll[p].page),
                 !.mark = NewMark(p),
                 !.crossed = @ \/ (~poll[p].own /\ poll[p].page # {})]
         ELSE subscription
    /\ UNCHANGED <<now, event>>

-----------------------------------------------------------------------------
Next ==
    \/ Tick
    \/ \E e \in Events : Stamp(e) \/ ProcessEvent(e) \/ ProcessEventFails(e)
    \/ \E types \in Filters : SubscribeEvents(types)
    \/ UnsubscribeEvents
    \/ \E p \in Polls : BeginPoll(p) \/ Select(p) \/ SelectFails(p) \/ Deliver(p)

Spec == Init /\ [][Next]_vars

(* The interval keeps firing while it is set, every request to the         *)
(* database is answered, and not always with an error.  Nothing obliges    *)
(* anybody to emit, subscribe, unsubscribe or close.                       *)
Fairness ==
    /\ WF_vars(\E p \in Polls : BeginPoll(p))
    /\ \A p \in Polls : /\ WF_vars(Select(p) \/ SelectFails(p))
                        /\ WF_vars(Deliver(p))
    /\ SF_vars(\E p \in Polls : Select(p))

FairSpec == Spec /\ Fairness

-----------------------------------------------------------------------------
(* Every variable has its type.                                            *)
TypeOK ==
    /\ now \in Time
    /\ event \in [Events -> [phase : {"none", "stamped", "stored", "dropped"}, at : Time]]
    /\ subscription \in Subscription
    /\ poll \in [Polls -> Poll]

(* What the subscription asked for, stamped since it began, inserted,      *)
(* passed by the mark and never sent.                                      *)
Missed ==
    {e \in Stored \cap subscription.types :
       /\ subscription.start < At(e) /\ At(e) <= subscription.mark
       /\ subscription.got[e] = 0}

(* The mark (handler.ts:606) passes an event without sending it only if    *)
(* the event was inserted behind the mark, or behind what a poll in flight *)
(* had asked for or read, or shares the millisecond in which a full page   *)
(* ended, or a poll of an earlier subscription set the mark.               *)
MissedOnlyForCause ==
    subscription.active /\ ~subscription.crossed =>
        Missed \subseteq subscription.late \cup subscription.cut

(* A subscription sends an event twice only if two polls of the connection *)
(* were in flight together (handler.ts:537).                               *)
SentTwiceOnlyByOverlap ==
    \A e \in Events : subscription.got[e] = 2 => subscription.raced

(* docs/adr/009-ops-websocket-gateway.md: when a page is full "the         *)
(* high-water mark still advances, so no events are lost".                 *)
NoEventLostToFullPage ==
    subscription.active /\ ~subscription.crossed /\ ~subscription.raced =>
        Missed \subseteq subscription.late

(* An event that a subscription has asked for and not reached is reached,  *)
(* though polls fail, overlap and move the mark back, unless the           *)
(* subscription ends.                                                      *)
EventIsReached ==
    \A e \in Events :
        (/\ subscription.active /\ e \in Stored \cap subscription.types
         /\ subscription.mark < At(e))
          ~> (~subscription.active \/ At(e) <= subscription.mark)
==============================================================================
