-------------------------- MODULE EventStream_proofs --------------------------
(***************************************************************************)
(* What every subscription may count on, for every set of emissions,       *)
(* filters and polls, every page limit and clock.                          *)
(***************************************************************************)
EXTENDS EventStream, TLAPS

(* A page's rows are inserted, after the poll's mark and up to its last.   *)
PagesOK ==
    \A p \in Polls :
        /\ poll[p].page \subseteq Stored
        /\ \A e \in poll[p].page : At(e) > poll[p].mark /\ At(e) <= poll[p].last
        /\ poll[p].page = {} => poll[p].last = poll[p].mark
        /\ poll[p].phase # "answered" => poll[p].page = {}

(* Up to instant t every event that the subscription asked for was sent,   *)
(* or has an excuse.                                                       *)
Excused(e) == e \in subscription.late \cup subscription.cut

Settled(t) ==
    \A e \in Stored \cap subscription.types :
        subscription.start < At(e) /\ At(e) <= t
            => subscription.got[e] > 0 \/ Excused(e)

(* Between its mark and its last row a poll holds every such event.        *)
Complete(p) ==
    \A e \in Stored \cap subscription.types :
        poll[p].mark < At(e) /\ At(e) <= poll[p].last
            => e \in poll[p].page \/ Excused(e)

OwnPoll(p) == poll[p].phase # "idle" /\ poll[p].own

Accounted ==
    subscription.active /\ ~subscription.crossed =>
        /\ Settled(subscription.mark)
        /\ \A p \in Polls : OwnPoll(p) =>
             poll[p].types = subscription.types /\ Settled(poll[p].mark) /\ Complete(p)

(* While no two polls have met, at most one is in flight: the              *)
(* subscription's own, with its mark, or one that was left behind before   *)
(* anything was sent.                                                      *)
Alone ==
    ~subscription.raced /\ subscription.active =>
        /\ \A e \in Events : subscription.got[e] < 2
        /\ \A e \in Events : subscription.got[e] = 1 => At(e) <= subscription.mark /\ e \in Stored
        /\ \A p \in InFlight :
             /\ \A q \in InFlight : p = q
             /\ IF poll[p].own THEN poll[p].mark = subscription.mark
                ELSE \A e \in Events : subscription.got[e] = 0

Rested ==
    ~subscription.active =>
        /\ ~subscription.raced
        /\ \A e \in Events : subscription.got[e] = 0
        /\ \A p \in Polls : ~poll[p].own

Inv == PagesOK /\ Accounted /\ Alone /\ Rested

-----------------------------------------------------------------------------
(* Types.                                                                  *)

LEMMA TypeInit == ASSUME StreamAssumption, Init PROVE TypeOK
  BY DEF Init, TypeOK, StreamAssumption, Time, NoSubscription, Subscription, Idle, Poll

LEMMA TypeTick == ASSUME StreamAssumption, TypeOK, Tick PROVE TypeOK'
  BY DEF TypeOK, Tick, Time, StreamAssumption

LEMMA TypeEmit ==
  ASSUME StreamAssumption, TypeOK, NEW e \in Events,
         Stamp(e) \/ ProcessEvent(e) \/ ProcessEventFails(e)
  PROVE  TypeOK'
  <1>1. CASE Stamp(e)
    BY <1>1 DEF TypeOK, Stamp
  <1>2. CASE ProcessEvent(e)
    <2>1. event' \in [Events -> [phase : {"none", "stamped", "stored", "dropped"}, at : Time]]
      BY <1>2 DEF TypeOK, ProcessEvent
    <2>2. subscription' \in Subscription
      BY <1>2 DEF TypeOK, ProcessEvent, Subscription
    <2>. QED  BY <1>2, <2>1, <2>2 DEF TypeOK, ProcessEvent
  <1>3. CASE ProcessEventFails(e)
    BY <1>3 DEF TypeOK, ProcessEventFails, Time, StreamAssumption
  <1>. QED  BY <1>1, <1>2, <1>3

LEMMA TypeClient ==
  ASSUME StreamAssumption, TypeOK,
         UnsubscribeEvents \/ \E types \in Filters : SubscribeEvents(types)
  PROVE  TypeOK'
  <1>1. CASE UnsubscribeEvents
    <2>1. subscription' \in Subscription
      BY <1>1 DEF UnsubscribeEvents, NoSubscription, Subscription, Time, StreamAssumption
    <2>2. ASSUME NEW p \in Polls PROVE [poll[p] EXCEPT !.own = FALSE] \in Poll
      <3>1. poll[p] \in Poll
        BY DEF TypeOK
      <3>. QED  BY <3>1 DEF Poll
    <2>. QED  BY <1>1, <2>1, <2>2 DEF TypeOK, UnsubscribeEvents
  <1>2. ASSUME NEW types \in Filters, SubscribeEvents(types) PROVE TypeOK'
    <2>. DEFINE met == \E p, q \in InFlight : p # q
    <2>1. met \in BOOLEAN /\ types \in SUBSET Events /\ now \in Time
      BY DEF TypeOK, StreamAssumption
    <2>2. subscription' = [NoSubscription EXCEPT !.active = TRUE, !.types = types,
                             !.start = now, !.mark = now, !.raced = met]
      BY <1>2 DEF SubscribeEvents
    <2>. HIDE DEF met
    <2>3. NoSubscription \in Subscription
      BY DEF NoSubscription, Subscription, Time, StreamAssumption
    <2>4. subscription' \in Subscription
      BY <2>1, <2>2, <2>3 DEF Subscription
    <2>. QED  BY <1>2, <2>4 DEF TypeOK, SubscribeEvents
  <1>. QED  BY <1>1, <1>2

LEMMA TypePoll ==
  ASSUME StreamAssumption, TypeOK, NEW p \in Polls,
         BeginPoll(p) \/ Select(p) \/ SelectFails(p)
  PROVE  TypeOK'
  <1>1. CASE BeginPoll(p)
    <2>1. subscription' \in Subscription
      BY <1>1 DEF TypeOK, BeginPoll, Subscription
    <2>. DEFINE k == [phase |-> "sent", mark |-> subscription.mark,
                      types |-> subscription.types, page |-> {},
                      last |-> subscription.mark, own |-> TRUE]
    <2>3. subscription.mark \in Time /\ subscription.types \in SUBSET Events
      BY DEF TypeOK, Subscription
    <2>4. k \in Poll
      BY <2>3 DEF Poll
    <2>5. poll' = [poll EXCEPT ![p] = k]
      BY <1>1 DEF BeginPoll
    <2>. HIDE DEF k
    <2>2. poll' \in [Polls -> Poll]
      BY <2>4, <2>5 DEF TypeOK
    <2>. QED  BY <1>1, <2>1, <2>2 DEF TypeOK, BeginPoll
  <1>2. CASE Select(p)
    <2>1. PICK page \in Pages(p), t \in Time :
            /\ poll' = [poll EXCEPT ![p].phase = "answered", ![p].page = page, ![p].last = t]
            /\ subscription' = [subscription EXCEPT !.cut =
                 @ \cup {e \in Rows(p) \ page : page # {} /\ At(e) = t}]
      BY <1>2 DEF Select
    <2>2. page \subseteq Events /\ Rows(p) \subseteq Events
      BY DEF Pages, Rows, Stored
    <2>3. subscription' \in Subscription
      BY <2>1, <2>2 DEF TypeOK, Subscription
    <2>4. poll' \in [Polls -> Poll]
      <3>1. poll[p] \in Poll
        BY DEF TypeOK
      <3>2. [poll[p] EXCEPT !.phase = "answered", !.page = page, !.last = t] \in Poll
        BY <2>2, <3>1 DEF Poll
      <3>3. poll' = [poll EXCEPT ![p] =
                       [poll[p] EXCEPT !.phase = "answered", !.page = page, !.last = t]]
        BY <2>1, <3>1 DEF TypeOK
      <3>. QED  BY <3>2, <3>3 DEF TypeOK
    <2>. QED  BY <1>2, <2>3, <2>4 DEF TypeOK, Select
  <1>3. CASE SelectFails(p)
    BY <1>3 DEF TypeOK, SelectFails, Idle, Poll, Time, StreamAssumption
  <1>. QED  BY <1>1, <1>2, <1>3

LEMMA SentType ==
  ASSUME TypeOK, NEW page PROVE Sent(page) \in [Events -> 0..2]
  BY DEF TypeOK, Sent, Subscription

LEMMA TypeDeliver ==
  ASSUME StreamAssumption, TypeOK, NEW p \in Polls, Deliver(p) PROVE TypeOK'
  <1>1. NewMark(p) \in Time
    BY DEF TypeOK, NewMark, Subscription, Poll
  <1>2. subscription' \in Subscription
    BY <1>1, SentType DEF TypeOK, Deliver, Subscription
  <1>3. poll' \in [Polls -> Poll]
    BY DEF TypeOK, Deliver, Idle, Poll, Time, StreamAssumption
  <1>. QED  BY <1>2, <1>3 DEF TypeOK, Deliver

LEMMA TypeNext == ASSUME StreamAssumption, TypeOK, [Next]_vars PROVE TypeOK'
  <1>1. CASE UNCHANGED vars
    BY <1>1 DEF TypeOK, vars
  <1>. QED  BY <1>1, TypeTick, TypeEmit, TypeClient, TypePoll, TypeDeliver DEF Next

(* Every variable has its type.                                            *)
THEOREM StreamTypes == ASSUME StreamAssumption PROVE Spec => []TypeOK
  BY TypeInit, TypeNext, PTL DEF Spec

-----------------------------------------------------------------------------
(* The rest of the invariant.                                              *)

LEMMA InvInit == ASSUME Init PROVE Inv
  BY DEF Init, Inv, PagesOK, Accounted, Alone, Rested, NoSubscription, Idle, InFlight

(* A step that inserts nothing and leaves the stamps of rows alone.        *)
LEMMA InvFrame ==
  ASSUME TypeOK, Inv, Stored' = Stored,
         \A e \in Stored : event'[e].at = event[e].at,
         UNCHANGED <<subscription, poll>>
  PROVE  Inv'
  <1>1. PagesOK'
    BY DEF Inv, PagesOK, At
  <1>2. Accounted'
    BY DEF Inv, Accounted, Settled, Complete, OwnPoll, Excused, At
  <1>3. Alone'
    BY DEF Inv, Alone, InFlight, At
  <1>4. Rested'
    BY DEF Inv, Rested
  <1>. QED  BY <1>1, <1>2, <1>3, <1>4 DEF Inv

LEMMA InvStill ==
  ASSUME TypeOK, Inv,
         \/ Tick \/ UNCHANGED vars
         \/ \E e \in Events : Stamp(e) \/ ProcessEventFails(e)
  PROVE  Inv'
  <1>1. UNCHANGED <<subscription, poll>>
    BY DEF Tick, vars, Stamp, ProcessEventFails
  <1>2. Stored' = Stored /\ \A e \in Stored : event'[e].at = event[e].at
    BY DEF TypeOK, Tick, vars, Stamp, ProcessEventFails, Stored
  <1>. QED  BY <1>1, <1>2, InvFrame

(* An insertion behind a mark in use is recorded as late.                  *)
LEMMA InvInsert ==
  ASSUME StreamAssumption, TypeOK, Inv, NEW e \in Events, ProcessEvent(e) PROVE Inv'
  <1>1. /\ Stored' = Stored \cup {e}
        /\ \A f \in Events : event'[f].at = event[f].at
        /\ UNCHANGED poll
    BY DEF TypeOK, ProcessEvent, Stored
  <1>2. /\ subscription'.active = subscription.active
        /\ subscription'.types = subscription.types
        /\ subscription'.start = subscription.start
        /\ subscription'.mark = subscription.mark
        /\ subscription'.got = subscription.got
        /\ subscription'.raced = subscription.raced
        /\ subscription'.crossed = subscription.crossed
        /\ subscription'.cut = subscription.cut
        /\ subscription.late \subseteq subscription'.late
    BY DEF TypeOK, Subscription, ProcessEvent
  <1>3. Behind(e) => e \in subscription'.late
    BY DEF TypeOK, Subscription, ProcessEvent
  <1>4. PagesOK'
    BY <1>1 DEF Inv, PagesOK, At, TypeOK, Poll
  <1>5. Accounted'
    <2>. SUFFICES ASSUME subscription.active, ~subscription.crossed
                  PROVE  Accounted'
      BY <1>2 DEF Accounted
    <2>1. \A p \in Polls : OwnPoll(p) => poll[p].mark <= poll[p].last
      BY DEF TypeOK, Poll, Inv, PagesOK, OwnPoll, Time, StreamAssumption, At
    <2>2. Settled(subscription.mark)'
      BY <1>1, <1>2, <1>3 DEF Inv, Accounted, Settled, Excused, Behind, At, Stored
    <2>3. ASSUME NEW p \in Polls, OwnPoll(p)
          PROVE  poll[p].types = subscription.types /\ Settled(poll[p].mark)' /\ Complete(p)'
      <3>1. p \in InFlight
        BY <2>3 DEF OwnPoll, InFlight
      <3>2. At(e) <= poll[p].mark => At(e) <= poll[p].last
        BY <2>1, <2>3 DEF TypeOK, Poll, At, Time, StreamAssumption
      <3>3. At(e) <= poll[p].last => e \in subscription'.late
        BY <1>3, <3>1 DEF Behind
      <3>4. Settled(poll[p].mark)'
        BY <1>1, <1>2, <2>3, <3>2, <3>3 DEF Inv, Accounted, Settled, Excused, At, Stored
      <3>5. Complete(p)'
        BY <1>1, <1>2, <2>3, <3>3 DEF Inv, Accounted, Complete, Excused, At, Stored
      <3>. QED  BY <2>3, <3>4, <3>5 DEF Inv, Accounted
    <2>. QED  BY <1>1, <1>2, <2>2, <2>3 DEF Accounted, OwnPoll
  <1>6. Alone'
    BY <1>1, <1>2 DEF Inv, Alone, InFlight, At
  <1>7. Rested'
    BY <1>1, <1>2 DEF Inv, Rested
  <1>. QED  BY <1>4, <1>5, <1>6, <1>7 DEF Inv

LEMMA InvSubscribe ==
  ASSUME StreamAssumption, TypeOK, Inv, NEW types \in Filters, SubscribeEvents(types)
  PROVE  Inv'
  <1>. DEFINE met == \E p, q \in InFlight : p # q
  <1>1. /\ subscription' = [NoSubscription EXCEPT !.active = TRUE, !.types = types,
                              !.start = now, !.mark = now, !.raced = met]
        /\ UNCHANGED <<event, poll>> /\ ~subscription.active
    BY DEF SubscribeEvents
  <1>2. met \in BOOLEAN
    OBVIOUS
  <1>. HIDE DEF met
  <1>3. /\ subscription'.active /\ subscription'.start = now /\ subscription'.mark = now
        /\ subscription'.raced = met
        /\ \A e \in Events : subscription'.got[e] = 0
    BY <1>1, <1>2 DEF NoSubscription
  <1>4. PagesOK'
    BY <1>1 DEF Inv, PagesOK, Stored, At
  <1>5. Accounted'
    <2>1. \A p \in Polls : ~poll[p].own
      BY <1>1 DEF Inv, Rested
    <2>2. Settled(subscription.mark)'
      BY <1>1, <1>3 DEF Settled, TypeOK, Stored, At, Time, StreamAssumption
    <2>. QED  BY <1>1, <2>1, <2>2 DEF Accounted, OwnPoll
  <1>6. Alone'
    <2>1. \A p \in Polls : ~poll[p].own
      BY <1>1 DEF Inv, Rested
    <2>2. ~met => \A p, q \in InFlight : p = q
      BY DEF met
    <2>. QED  BY <1>1, <1>3, <2>1, <2>2 DEF Alone, InFlight
  <1>7. Rested'
    BY <1>3 DEF Rested
  <1>. QED  BY <1>4, <1>5, <1>6, <1>7 DEF Inv

LEMMA InvUnsubscribe ==
  ASSUME StreamAssumption, TypeOK, Inv, UnsubscribeEvents PROVE Inv'
  <1>1. /\ ~subscription'.active /\ ~subscription'.raced
        /\ \A e \in Events : subscription'.got[e] = 0
        /\ UNCHANGED event
    BY DEF UnsubscribeEvents, NoSubscription
  <1>2. \A p \in Polls :
          /\ ~poll'[p].own /\ poll'[p].phase = poll[p].phase
          /\ poll'[p].page = poll[p].page
          /\ poll'[p].mark = poll[p].mark /\ poll'[p].last = poll[p].last
    BY DEF UnsubscribeEvents, TypeOK, Poll
  <1>3. PagesOK'
    BY <1>1, <1>2 DEF Inv, PagesOK, Stored, At
  <1>4. Accounted' /\ Alone' /\ Rested'
    BY <1>1, <1>2 DEF Accounted, Alone, Rested
  <1>. QED  BY <1>3, <1>4 DEF Inv

LEMMA InvBegin ==
  ASSUME StreamAssumption, TypeOK, Inv, NEW p \in Polls, BeginPoll(p) PROVE Inv'
  <1>1. /\ UNCHANGED event /\ subscription.active /\ poll[p].phase = "idle"
        /\ poll'[p].phase = "sent" /\ poll'[p].page = {} /\ poll'[p].own
        /\ poll'[p].types = subscription.types
        /\ poll'[p].mark = subscription.mark /\ poll'[p].last = subscription.mark
        /\ \A q \in Polls \ {p} : poll'[q] = poll[q]
    BY DEF BeginPoll, TypeOK
  <1>2. /\ subscription'.active
        /\ subscription'.types = subscription.types
        /\ subscription'.start = subscription.start
        /\ subscription'.mark = subscription.mark
        /\ subscription'.got = subscription.got
        /\ subscription'.crossed = subscription.crossed
        /\ subscription'.late = subscription.late
        /\ subscription'.cut = subscription.cut
        /\ ~subscription'.raced => ~subscription.raced /\ InFlight = {}
    BY <1>1 DEF BeginPoll, TypeOK, Subscription
  <1>3. PagesOK'
    <2>1. ASSUME NEW q \in Polls
          PROVE  /\ poll'[q].page \subseteq Stored
                 /\ \A e \in poll'[q].page : At(e) > poll'[q].mark /\ At(e) <= poll'[q].last
                 /\ poll'[q].page = {} => poll'[q].last = poll'[q].mark
                 /\ poll'[q].phase # "answered" => poll'[q].page = {}
      <3>1. CASE q = p
        BY <1>1, <3>1
      <3>2. CASE q # p
        BY <1>1, <3>2 DEF Inv, PagesOK
      <3>. QED  BY <3>1, <3>2
    <2>. QED  BY <1>1, <2>1 DEF PagesOK, Stored, At
  <1>4. Accounted'
    <2>. SUFFICES ASSUME ~subscription.crossed PROVE Accounted'
      BY <1>2 DEF Accounted
    <2>1. Settled(subscription.mark)'
      BY <1>1, <1>2 DEF Inv, Accounted, Settled, Excused, Stored, At
    <2>2. ASSUME NEW q \in Polls, OwnPoll(q)'
          PROVE  /\ poll'[q].types = subscription'.types
                 /\ Settled(poll[q].mark)' /\ Complete(q)'
      <3>1. CASE q = p
        <4>1. Settled(poll[q].mark)'
          BY <1>1, <1>2, <2>1, <3>1 DEF Settled, Excused, Stored, At
        <4>2. Complete(q)'
          BY <1>1, <3>1 DEF Complete, Stored, At, TypeOK, Subscription, Time, StreamAssumption
        <4>. QED  BY <1>1, <1>2, <3>1, <4>1, <4>2
      <3>2. CASE q # p
        BY <1>1, <1>2, <2>2, <3>2
           DEF Inv, Accounted, OwnPoll, Settled, Complete, Excused, Stored, At
      <3>. QED  BY <3>1, <3>2
    <2>. QED  BY <2>1, <2>2 DEF Accounted
  <1>5. Alone'
    <2>. SUFFICES ASSUME ~subscription'.raced PROVE Alone'
      BY DEF Alone
    <2>1. ~subscription.raced /\ \A q \in Polls : poll[q].phase = "idle"
      BY <1>2 DEF InFlight
    <2>2. \A q \in Polls : q \in InFlight' => q = p
      BY <1>1, <2>1 DEF InFlight
    <2>. QED  BY <1>1, <1>2, <2>1, <2>2 DEF Inv, Alone, InFlight, Stored, At
  <1>6. Rested'
    BY <1>2 DEF Rested
  <1>. QED  BY <1>3, <1>4, <1>5, <1>6 DEF Inv

(* What a page leaves behind its last row shares that row's millisecond.   *)
LEMMA InvSelect ==
  ASSUME StreamAssumption, TypeOK, Inv, NEW p \in Polls, Select(p) PROVE Inv'
  <1>1. PICK page \in Pages(p), t \in Time :
          /\ IsLast(p, page, t)
          /\ poll' = [poll EXCEPT ![p].phase = "answered", ![p].page = page, ![p].last = t]
          /\ subscription' = [subscription EXCEPT !.cut =
               @ \cup {e \in Rows(p) \ page : page # {} /\ At(e) = t}]
    BY DEF Select
  <1>2. /\ UNCHANGED event /\ poll[p].phase = "sent"
        /\ poll'[p].phase = "answered" /\ poll'[p].page = page /\ poll'[p].last = t
        /\ poll'[p].own = poll[p].own /\ poll'[p].types = poll[p].types
        /\ poll'[p].mark = poll[p].mark
        /\ \A q \in Polls \ {p} : poll'[q] = poll[q]
    BY <1>1 DEF Select, TypeOK, Poll
  <1>3. /\ subscription'.active = subscription.active
        /\ subscription'.types = subscription.types
        /\ subscription'.start = subscription.start
        /\ subscription'.mark = subscription.mark
        /\ subscription'.got = subscription.got
        /\ subscription'.raced = subscription.raced
        /\ subscription'.crossed = subscription.crossed
        /\ subscription'.late = subscription.late
        /\ subscription'.cut =
             subscription.cut \cup {e \in Rows(p) \ page : page # {} /\ At(e) = t}
    BY <1>1 DEF TypeOK, Subscription
  <1>4. /\ page \subseteq Rows(p) /\ Rows(p) \subseteq Stored
        /\ \A e \in page, f \in Rows(p) \ page : At(e) <= At(f)
    BY DEF Pages, Rows
  <1>5. PagesOK'
    <2>1. ASSUME NEW q \in Polls
          PROVE  /\ poll'[q].page \subseteq Stored
                 /\ \A e \in poll'[q].page : At(e) > poll'[q].mark /\ At(e) <= poll'[q].last
                 /\ poll'[q].page = {} => poll'[q].last = poll'[q].mark
                 /\ poll'[q].phase # "answered" => poll'[q].page = {}
      <3>1. CASE q = p
        BY <1>1, <1>2, <1>4, <3>1 DEF IsLast, Rows
      <3>2. CASE q # p
        BY <1>2, <3>2 DEF Inv, PagesOK
      <3>. QED  BY <3>1, <3>2
    <2>. QED  BY <1>2, <2>1 DEF PagesOK, Stored, At
  <1>6. Accounted'
    <2>. SUFFICES ASSUME subscription.active, ~subscription.crossed PROVE Accounted'
      BY <1>3 DEF Accounted
    <2>1. Settled(subscription.mark)'
      BY <1>2, <1>3 DEF Inv, Accounted, Settled, Excused, Stored, At
    <2>2. ASSUME NEW q \in Polls, OwnPoll(q)'
          PROVE  /\ poll'[q].types = subscription'.types
                 /\ Settled(poll[q].mark)' /\ Complete(q)'
      <3>1. OwnPoll(q) /\ poll'[q].types = poll[q].types /\ poll'[q].mark = poll[q].mark
        BY <1>2, <2>2 DEF OwnPoll
      <3>2. poll[q].types = subscription.types /\ Settled(poll[q].mark) /\ Complete(q)
        BY <3>1 DEF Inv, Accounted
      <3>3. Settled(poll[q].mark)'
        BY <1>2, <1>3, <3>1, <3>2 DEF Settled, Excused, Stored, At
      <3>4. CASE q = p
        <4>1. ASSUME NEW e \in Stored \cap subscription.types,
                     poll[p].mark < At(e), At(e) <= t, e \notin page
              PROVE  e \in subscription'.cut
          <5>1. e \in Rows(p) \ page
            BY <3>2, <3>4, <4>1 DEF Rows
          <5>2. At(e) \in Time /\ poll[p].mark \in Time
            BY DEF TypeOK, Poll, Stored, At
          <5>3. page # {}
            BY <1>1, <4>1, <5>2 DEF IsLast, Time, StreamAssumption
          <5>4. PICK f \in page : At(f) = t
            BY <1>1, <5>3 DEF IsLast
          <5>5. At(e) = t
            BY <1>4, <4>1, <5>1, <5>2, <5>4 DEF Time, StreamAssumption
          <5>. QED  BY <1>3, <5>1, <5>3, <5>5
        <4>2. Complete(q)'
          BY <1>2, <1>3, <3>4, <4>1 DEF Complete, Excused, Stored, At
        <4>. QED  BY <1>3, <3>1, <3>2, <3>3, <4>2
      <3>5. CASE q # p
        <4>1. Complete(q)'
          BY <1>2, <1>3, <3>2, <3>5 DEF Complete, Excused, Stored, At
        <4>. QED  BY <1>3, <3>1, <3>2, <3>3, <4>1
      <3>. QED  BY <3>4, <3>5
    <2>. QED  BY <2>1, <2>2 DEF Accounted
  <1>7. InFlight' = InFlight
    BY <1>2 DEF InFlight
  <1>8. Alone'
    BY <1>2, <1>3, <1>7 DEF Inv, Alone, InFlight, Stored, At
  <1>9. Rested'
    BY <1>2, <1>3 DEF Inv, Rested
  <1>. QED  BY <1>5, <1>6, <1>8, <1>9 DEF Inv

LEMMA InvFails ==
  ASSUME StreamAssumption, TypeOK, Inv, NEW p \in Polls, SelectFails(p) PROVE Inv'
  <1>1. /\ UNCHANGED <<event, subscription>>
        /\ poll'[p] = Idle /\ \A q \in Polls \ {p} : poll'[q] = poll[q]
    BY DEF SelectFails, TypeOK
  <1>2. PagesOK'
    BY <1>1 DEF Inv, PagesOK, Idle, Stored, At
  <1>3. Accounted'
    BY <1>1 DEF Inv, Accounted, OwnPoll, Settled, Complete, Excused, Idle, Stored, At
  <1>4. InFlight' \subseteq InFlight /\ \A q \in InFlight' : poll'[q] = poll[q]
    BY <1>1 DEF InFlight, Idle
  <1>5. Alone'
    BY <1>1, <1>4 DEF Inv, Alone, Stored, At
  <1>6. Rested'
    BY <1>1 DEF Inv, Rested, Idle
  <1>. QED  BY <1>2, <1>3, <1>5, <1>6 DEF Inv

(* Everything up to the poll's mark was accounted for when it began, and   *)
(* its page accounts for what lies between its mark and its last row.      *)
LEMMA InvDeliver ==
  ASSUME StreamAssumption, TypeOK, Inv, NEW p \in Polls, Deliver(p) PROVE Inv'
  <1>1. /\ UNCHANGED event /\ poll[p].phase = "answered" /\ p \in InFlight
        /\ poll'[p] = Idle /\ \A q \in Polls \ {p} : poll'[q] = poll[q]
    BY DEF Deliver, TypeOK, InFlight
  <1>2. InFlight' = InFlight \ {p} /\ \A q \in InFlight' : poll'[q] = poll[q]
    BY <1>1 DEF InFlight, Idle
  <1>3. PagesOK'
    BY <1>1 DEF Inv, PagesOK, Idle, Stored, At
  <1>4. CASE ~subscription.active
    <2>1. UNCHANGED subscription
      BY <1>4 DEF Deliver
    <2>. QED  BY <1>1, <1>3, <1>4, <2>1 DEF Inv, Accounted, Alone, Rested, Idle
  <1>5. CASE subscription.active
    <2>1. /\ subscription'.active
          /\ subscription'.types = subscription.types
          /\ subscription'.start = subscription.start
          /\ subscription'.mark = NewMark(p)
          /\ subscription'.got = Sent(poll[p].page)
          /\ subscription'.raced = subscription.raced
          /\ subscription'.late = subscription.late
          /\ subscription'.cut = subscription.cut
          /\ ~subscription'.crossed =>
               ~subscription.crossed /\ (poll[p].own \/ poll[p].page = {})
      BY <1>5 DEF Deliver, TypeOK, Subscription
    <2>2. \A e \in Events :
            /\ subscription.got[e] > 0 => Sent(poll[p].page)[e] > 0
            /\ e \in poll[p].page => Sent(poll[p].page)[e] > 0
            /\ e \notin poll[p].page => Sent(poll[p].page)[e] = subscription.got[e]
            /\ e \in poll[p].page /\ subscription.got[e] = 0 => Sent(poll[p].page)[e] = 1
      BY DEF Sent, TypeOK, Subscription
    <2>3. Accounted'
      <3>. SUFFICES ASSUME ~subscription'.crossed PROVE Accounted'
        BY DEF Accounted
      <3>1. ASSUME NEW t, Settled(t)
            PROVE  \A e \in Stored \cap subscription.types :
                     subscription.start < At(e) /\ At(e) <= t
                       => Sent(poll[p].page)[e] > 0 \/ Excused(e)
        BY <2>2, <3>1 DEF Settled, Stored
      <3>2. Settled(subscription.mark)'
        <4>1. CASE poll[p].page = {}
          <5>1. Settled(subscription.mark)
            BY <1>5, <2>1 DEF Inv, Accounted
          <5>. QED  BY <1>1, <2>1, <3>1, <4>1, <5>1
                    DEF NewMark, Settled, Excused, Stored, At
        <4>2. CASE poll[p].page # {}
          <5>1. OwnPoll(p)
            BY <1>1, <2>1, <4>2 DEF OwnPoll
          <5>2. poll[p].types = subscription.types /\ Settled(poll[p].mark) /\ Complete(p)
            BY <1>5, <2>1, <5>1 DEF Inv, Accounted
          <5>3. ASSUME NEW e \in Stored \cap subscription.types,
                       subscription.start < At(e), At(e) <= poll[p].last
                PROVE  Sent(poll[p].page)[e] > 0 \/ Excused(e)
            <6>1. At(e) \in Time /\ poll[p].mark \in Time /\ e \in Events
              BY DEF TypeOK, Poll, Stored, At
            <6>2. CASE At(e) <= poll[p].mark
              BY <3>1, <5>2, <5>3, <6>2
            <6>3. CASE poll[p].mark < At(e)
              BY <2>2, <5>2, <5>3, <6>1, <6>3 DEF Complete
            <6>. QED  BY <6>1, <6>2, <6>3 DEF Time, StreamAssumption
          <5>. QED  BY <1>1, <2>1, <4>2, <5>3 DEF NewMark, Settled, Excused, Stored, At
        <4>. QED  BY <4>1, <4>2
      <3>3. ASSUME NEW q \in Polls, OwnPoll(q)'
            PROVE  /\ poll'[q].types = subscription'.types
                   /\ Settled(poll[q].mark)' /\ Complete(q)'
        <4>1. q # p /\ poll'[q] = poll[q] /\ OwnPoll(q)
          BY <1>1, <3>3 DEF OwnPoll, Idle
        <4>2. poll[q].types = subscription.types /\ Settled(poll[q].mark) /\ Complete(q)
          BY <1>5, <2>1, <4>1 DEF Inv, Accounted
        <4>3. Settled(poll[q].mark)'
          BY <1>1, <2>1, <3>1, <4>1, <4>2 DEF Settled, Excused, Stored, At
        <4>4. Complete(q)'
          BY <1>1, <2>1, <4>1, <4>2 DEF Complete, Excused, Stored, At
        <4>. QED  BY <2>1, <4>1, <4>2, <4>3, <4>4
      <3>. QED  BY <3>2, <3>3 DEF Accounted
    <2>4. Alone'
      <3>. SUFFICES ASSUME ~subscription.raced PROVE Alone'
        BY <2>1 DEF Alone
      <3>1. InFlight' = {}
        BY <1>1, <1>2, <1>5 DEF Inv, Alone
      <3>2. /\ poll[p].page \subseteq Stored
            /\ \A e \in poll[p].page : At(e) > poll[p].mark /\ At(e) <= poll[p].last
        BY DEF Inv, PagesOK
      <3>3. \A e \in Events : subscription.got[e] \in 0..1
        BY <1>5 DEF Inv, Alone, TypeOK, Subscription
      <3>4. \A e \in Events : subscription.got[e] = 1 => At(e) <= subscription.mark /\ e \in Stored
        BY <1>5 DEF Inv, Alone
      <3>5. IF poll[p].own THEN poll[p].mark = subscription.mark
            ELSE \A e \in Events : subscription.got[e] = 0
        BY <1>1, <1>5 DEF Inv, Alone
      <3>6. /\ subscription.mark \in Time /\ poll[p].last \in Time
            /\ \A e \in Events : At(e) \in Time
        BY DEF TypeOK, Subscription, Poll, At
      <3>7. \A e \in poll[p].page : subscription.got[e] = 0
        BY <3>2, <3>3, <3>4, <3>5, <3>6 DEF Time, StreamAssumption, Stored
      <3>8. \A e \in Events : Sent(poll[p].page)[e] < 2
        BY <2>2, <3>3, <3>7
      <3>9. ASSUME NEW e \in Events, Sent(poll[p].page)[e] = 1
            PROVE  At(e) <= NewMark(p) /\ e \in Stored
        <4>1. CASE e \in poll[p].page
          BY <3>2, <4>1 DEF NewMark
        <4>2. CASE e \notin poll[p].page
          <5>1. At(e) <= subscription.mark /\ e \in Stored /\ subscription.got[e] = 1
            BY <2>2, <3>4, <3>9, <4>2
          <5>2. ASSUME poll[p].page # {} PROVE At(e) <= poll[p].last
            <6>1. poll[p].mark = subscription.mark
              BY <3>5, <5>1
            <6>2. PICK f \in poll[p].page : At(f) > subscription.mark /\ At(f) <= poll[p].last
              BY <3>2, <5>2, <6>1
            <6>3. At(f) \in Time
              BY <3>2, <3>6, <6>2 DEF Stored
            <6>. QED  BY <3>6, <5>1, <6>2, <6>3 DEF Time, StreamAssumption
          <5>. QED  BY <5>1, <5>2 DEF NewMark
        <4>. QED  BY <4>1, <4>2
      <3>. QED  BY <1>1, <2>1, <3>1, <3>8, <3>9 DEF Alone, Stored, At
    <2>5. Rested'
      BY <2>1 DEF Rested
    <2>. QED  BY <1>3, <2>3, <2>4, <2>5 DEF Inv
  <1>. QED  BY <1>4, <1>5 DEF Inv, TypeOK, Subscription

LEMMA InvNext == ASSUME StreamAssumption, TypeOK, Inv, [Next]_vars PROVE Inv'
  BY InvStill, InvInsert, InvSubscribe, InvUnsubscribe, InvBegin, InvSelect, InvFails,
     InvDeliver DEF Next

LEMMA StreamInv == ASSUME StreamAssumption PROVE Spec => [](TypeOK /\ Inv)
  BY TypeInit, TypeNext, InvInit, InvNext, PTL DEF Spec

-----------------------------------------------------------------------------
(* The mark passes no event without sending it, but for the causes named.  *)
THEOREM Misses == ASSUME StreamAssumption PROVE Spec => []MissedOnlyForCause
  <1>1. TypeOK /\ Inv => MissedOnlyForCause
    BY DEF Inv, Accounted, Settled, Excused, MissedOnlyForCause, Missed, TypeOK, Subscription
  <1>. QED  BY <1>1, StreamInv, PTL

(* Nothing is sent twice to a subscription unless two polls met.           *)
THEOREM Duplicates == ASSUME StreamAssumption PROVE Spec => []SentTwiceOnlyByOverlap
  <1>1. TypeOK /\ Inv => SentTwiceOnlyByOverlap
    BY DEF Inv, Alone, Rested, SentTwiceOnlyByOverlap, TypeOK, Subscription
  <1>. QED  BY <1>1, StreamInv, PTL
===============================================================================
