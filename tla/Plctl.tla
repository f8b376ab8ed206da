-------------------------------- MODULE Plctl --------------------------------
(***************************************************************************)
(* The operator's terminal program (tools/cli/cmd/plctl): one model that   *)
(* Update changes a message at a time, commands that run beside it and     *)
(* answer with a message, and the WebSocket of the live tail.  No message  *)
(* says which view it was asked for: whatever the user does meanwhile,     *)
(* Update takes it as it comes.                                            *)
(*                                                                         *)
(* A key press is one action.  A command that touches nothing of the       *)
(* program's until Update handles its message is one action with that; a   *)
(* dial and a read, which own a connection, end in a step of their own.    *)
(***************************************************************************)
EXTENDS Naturals, FiniteSets

CONSTANTS
    Tasks,    \* bound: commands and messages under way at a time
    Conns,    \* bound: connections opened by one run of the program
    NoConn    \* nil

ASSUME PlctlAssumption == NoConn \notin Conns

VARIABLES
    view,     \* model.state
    action,   \* model.action
    conn,     \* model.tailConn
    stop,     \* the connection whose keepAlive model.tailKeepaliveStop ends
    err,      \* model.tailErr is set
    link,     \* the connections
    pinging,  \* connections with a keepAlive goroutine
    task,     \* commands running and messages not yet handled
    history   \* connections that late messages have got at

vars == <<view, action, conn, stop, err, link, pinging, task, history>>

(* Sessions, event statistics and agents are fetched and left alike.       *)
DataViews == {"data", "events"}

Views == DataViews \cup {"menu", "input", "confirm", "result", "detail", "tail"}

Actions == DataViews \cup {"none", "write", "tail"}

NoTask == [is |-> "none", conn |-> NoConn, left |-> FALSE]

Task == [is : DataViews \cup {"none", "write", "probe", "dial", "connected",
                              "read", "event", "error"},
         conn : Conns \cup {NoConn},
         left : BOOLEAN]    \* history: the user has moved on since

Init ==
    /\ view = "menu"
    /\ action = "none"
    /\ conn = NoConn
    /\ stop = NoConn
    /\ err = FALSE
    /\ link = [c \in Conns |-> "unused"]
    /\ pinging = {}
    /\ task = [t \in Tasks |-> NoTask]
    /\ history = [late |-> {}, crossed |-> {}]

Left == [t \in Tasks |-> [task[t] EXCEPT !.left = @ \/ task[t].is # "none"]]

(* A key that takes the user elsewhere.                                    *)
MoveTo(v) == view' = v /\ task' = Left

(* ... and starts a command.                                               *)
MoveAndRun(v, t, command) ==
    /\ task[t].is = "none"
    /\ view' = v
    /\ task' = [Left EXCEPT ![t] = [NoTask EXCEPT !.is = command]]

tailVars == <<conn, stop, err, link, pinging, history>>

-----------------------------------------------------------------------------
(* Keys                                                                    *)

(* dispatchAction: a fetch that needs no input; the menu stays until the   *)
(* answer comes.                                                           *)
MenuFetch(t, what) ==
    /\ view = "menu"
    /\ action' = what
    /\ MoveAndRun("menu", t, what)
    /\ UNCHANGED tailVars

MenuInput(what) ==
    /\ view = "menu"
    /\ what \in DataViews \cup {"write"}
    /\ action' = what
    /\ MoveTo("input")
    /\ UNCHANGED tailVars

(* The tail's fields are reset; the connection is forgotten, not closed,   *)
(* and tailKeepaliveStop stays.                                            *)
MenuTail ==
    /\ view = "menu"
    /\ action' = "tail"
    /\ conn' = NoConn
    /\ err' = FALSE
    /\ MoveTo("input")
    /\ UNCHANGED <<stop, link, pinging, history>>

(* Revoke all asks for confirmation at once.                               *)
MenuConfirm ==
    /\ view = "menu"
    /\ action' = "write"
    /\ MoveTo("confirm")
    /\ UNCHANGED tailVars

(* afterInputComplete                                                      *)
InputFetch(t) ==
    /\ view = "input"
    /\ action \in DataViews
    /\ MoveAndRun(action, t, action)
    /\ UNCHANGED <<action, tailVars>>

InputTail(t) ==
    /\ view = "input"
    /\ action = "tail"
    /\ MoveAndRun("tail", t, "probe")
    /\ UNCHANGED <<action, tailVars>>

InputWrite ==
    /\ view = "input"
    /\ action = "write"
    /\ MoveTo("confirm")
    /\ UNCHANGED <<action, tailVars>>

(* "y" runs the action; the question stays on the screen till the answer.  *)
ConfirmYes(t) ==
    /\ view = "confirm"
    /\ task[t].is = "none"
    /\ task' = [task EXCEPT ![t] = [NoTask EXCEPT !.is = "write"]]
    /\ UNCHANGED <<view, action, tailVars>>

(* esc, "n", or enter in a view that has been read.                        *)
Back ==
    /\ view \in DataViews \cup {"input", "confirm", "result"}
    /\ MoveTo("menu")
    /\ UNCHANGED <<action, tailVars>>

Detail ==
    /\ view \in {"events", "detail"}
    /\ MoveTo(IF view = "events" THEN "detail" ELSE "events")
    /\ UNCHANGED <<action, tailVars>>

(* Mutant: the tail is left with its connection open.                      *)
CloseTail_KeepsOpen ==
    /\ pinging' = pinging \ {stop}
    /\ link' = link
    /\ stop' = NoConn
    /\ conn' = NoConn

(* closeTail: end keepAlive, unsubscribe, close.                           *)
CloseTail ==
    /\ pinging' = pinging \ {stop}
    /\ link' = [c \in Conns |-> IF c = conn THEN "closed" ELSE link[c]]
    /\ stop' = NoConn
    /\ conn' = NoConn

TailEsc ==
    /\ view = "tail"
    /\ CloseTail
    /\ err' = FALSE
    /\ MoveTo("menu")
    /\ UNCHANGED <<action, history>>

(* Ctrl-C, or q where it is a command: the process ends, and everything     *)
(* of it; the operator starts it again.                                    *)
Quit ==
    /\ view' = "menu" /\ action' = "none"
    /\ conn' = NoConn /\ stop' = NoConn /\ err' = FALSE
    /\ link' = [c \in Conns |-> "unused"] /\ pinging' = {}
    /\ task' = [t \in Tasks |-> NoTask]
    /\ history' = [late |-> {}, crossed |-> {}]

-----------------------------------------------------------------------------
(* Answers to fetches and to actions                                       *)

(* History: the answer takes the screen from a tail it was not asked in.   *)
TakesScreen ==
    history' = [history EXCEPT !.late = IF view = "tail" THEN @ \cup ({conn} \ {NoConn})
                                                         ELSE @]

(* Mutant: the answer is shown in the view of the action chosen last.      *)
DataMsg_ByAction(t) ==
    /\ task[t].is \in DataViews
    /\ view' = action
    /\ task' = [task EXCEPT ![t] = NoTask]
    /\ TakesScreen
    /\ UNCHANGED <<action, conn, stop, err, link, pinging>>

(* sessionsMsg, eventsMsg, eventStatsMsg, agentsMsg: show it.              *)
DataMsg(t) ==
    /\ task[t].is \in DataViews
    /\ view' = task[t].is
    /\ task' = [task EXCEPT ![t] = NoTask]
    /\ TakesScreen
    /\ UNCHANGED <<action, conn, stop, err, link, pinging>>

ResultMsg(t) ==
    /\ task[t].is = "write"
    /\ view' = "result"
    /\ task' = [task EXCEPT ![t] = NoTask]
    /\ TakesScreen
    /\ UNCHANGED <<action, conn, stop, err, link, pinging>>

-----------------------------------------------------------------------------
(* The live tail                                                           *)

Become(t, is) == task' = [task EXCEPT ![t].is = is]

(* tailChallengeMsg: ProbeChallenge has (solved or not been asked) it.     *)
ChallengeMsg(t) ==
    /\ task[t].is = "probe"
    /\ Become(t, "dial")
    /\ UNCHANGED <<view, action, tailVars>>

(* The probe or the dial fails; the dial has closed what it opened.        *)
TailFails(t) ==
    /\ task[t].is \in {"probe", "dial"}
    /\ err' = TRUE
    /\ view' = "tail"
    /\ task' = [task EXCEPT ![t] = NoTask]
    /\ UNCHANGED <<action, conn, stop, link, pinging, history>>

(* dialAndSubscribe: connected, granted and subscribed.                    *)
DialAndSubscribe(t, c) ==
    /\ task[t].is = "dial"
    /\ link[c] = "unused"
    /\ link' = [link EXCEPT ![c] = "open"]
    /\ task' = [task EXCEPT ![t].is = "connected", ![t].conn = c]
    /\ UNCHANGED <<view, action, conn, stop, err, pinging, history>>

(* tailConnectedMsg: keep the connection in place of whatever was there,   *)
(* start its keepAlive and its first read, and show the tail.              *)
TailConnectedMsg(t) ==
    LET c == task[t].conn IN
    /\ task[t].is = "connected"
    /\ conn' = c
    /\ stop' = c
    /\ pinging' = pinging \cup {c}
    /\ view' = "tail"
    /\ task' = [task EXCEPT ![t].is = "read", ![t].left = FALSE]
    /\ history' = [history EXCEPT !.late =
                     IF task[t].left THEN @ \cup ({c, conn} \ {NoConn}) ELSE @]
    /\ UNCHANGED <<action, err, link>>

(* The read ends with a message of the server's ...                        *)
ReadEvent(t) ==
    /\ task[t].is = "read"
    /\ task[t].conn # NoConn
    /\ link[task[t].conn] = "open"
    /\ Become(t, "event")
    /\ UNCHANGED <<view, action, tailVars>>

(* ... or with an error: no connection, a connection that is closed, a     *)
(* message that does not decode, or the agent's credential revoked.        *)
ReadFails(t) ==
    /\ task[t].is = "read"
    /\ Become(t, "error")
    /\ UNCHANGED <<view, action, tailVars>>

(* Mutant: the read after an event takes a slot besides the one that ended.*)
TailEventMsg_ReadsTwice(t) ==
    /\ task[t].is = "event"
    /\ task' = [u \in Tasks |-> IF u = t \/ task[u].is = "none"
                                THEN [is |-> "read", conn |-> conn, left |-> FALSE]
                                ELSE task[u]]
    /\ UNCHANGED <<view, action, tailVars>>

(* tailEventMsg: read on, from the connection the model now has.           *)
TailEventMsg(t) ==
    /\ task[t].is = "event"
    /\ task' = [task EXCEPT ![t] = [is |-> "read", conn |-> conn, left |-> FALSE]]
    /\ history' = [history EXCEPT !.crossed =
                     IF task[t].conn # conn THEN @ \cup ({conn} \ {NoConn}) ELSE @]
    /\ UNCHANGED <<view, action, conn, stop, err, link, pinging>>

(* Mutant: an error that comes while another view is up is dropped.        *)
TailErrorMsg_Dropped(t) ==
    /\ task[t].is = "error"
    /\ err' = (err \/ view = "tail")
    /\ task' = [task EXCEPT ![t] = NoTask]
    /\ UNCHANGED <<view, action, conn, stop, link, pinging, history>>

(* tailErrorMsg: nothing is closed and no read follows.                    *)
TailErrorMsg(t) ==
    /\ task[t].is = "error"
    /\ err' = TRUE
    /\ task' = [task EXCEPT ![t] = NoTask]
    /\ UNCHANGED <<view, action, conn, stop, link, pinging, history>>

(* The gateway closes a connection, or the network loses it.               *)
PeerCloses(c) ==
    /\ link[c] = "open"
    /\ link' = [link EXCEPT ![c] = "closed"]
    /\ UNCHANGED <<view, action, conn, stop, err, pinging, task, history>>

Next ==
    \/ \E t \in Tasks, what \in DataViews : MenuFetch(t, what)
    \/ \E what \in Actions : MenuInput(what)
    \/ MenuTail
    \/ MenuConfirm
    \/ \E t \in Tasks : InputFetch(t)
    \/ \E t \in Tasks : InputTail(t)
    \/ InputWrite
    \/ \E t \in Tasks : ConfirmYes(t)
    \/ Back
    \/ Detail
    \/ TailEsc
    \/ Quit
    \/ \E t \in Tasks : DataMsg(t)
    \/ \E t \in Tasks : ResultMsg(t)
    \/ \E t \in Tasks : ChallengeMsg(t)
    \/ \E t \in Tasks : TailFails(t)
    \/ \E t \in Tasks, c \in Conns : DialAndSubscribe(t, c)
    \/ \E t \in Tasks : TailConnectedMsg(t)
    \/ \E t \in Tasks : ReadEvent(t)
    \/ \E t \in Tasks : ReadFails(t)
    \/ \E t \in Tasks : TailEventMsg(t)
    \/ \E t \in Tasks : TailErrorMsg(t)
    \/ \E c \in Conns : PeerCloses(c)

Spec == Init /\ [][Next]_vars

-----------------------------------------------------------------------------
(* Properties                                                              *)

TypeOK ==
    /\ view \in Views
    /\ action \in Actions
    /\ conn \in Conns \cup {NoConn}
    /\ stop \in Conns \cup {NoConn}
    /\ err \in BOOLEAN
    /\ link \in [Conns -> {"unused", "open", "closed"}]
    /\ pinging \subseteq Conns
    /\ task \in [Tasks -> Task]
    /\ history \in [late : SUBSET Conns, crossed : SUBSET Conns]

Reachable(c) ==
    \/ c = conn
    \/ \E t \in Tasks : task[t].is = "connected" /\ task[t].conn = c

(* ConnectWS: "The caller is responsible for closing the returned          *)
(* connection."  A connection that is open, or that a keepAlive writes to, *)
(* is one the program can still close, unless a message came late: its own *)
(* or a rival's tailConnectedMsg after the user had left the tail it was   *)
(* dialled for, or an answer that took the screen from the tail.           *)
OrphanOnlyByLateMessage ==
    \A c \in Conns :
        link[c] = "open" \/ c \in pinging => Reachable(c) \/ c \in history.late

Readers(c) == {t \in Tasks : task[t].is = "read" /\ task[t].conn = c}

(* keepAlive's comment: "one concurrent reader + one concurrent writer".   *)
(* A connection has a second reader only once an event of an earlier tail  *)
(* was handled after it had become the model's.                            *)
SecondReaderOnlyByStaleEvent ==
    \A c \in Conns : Cardinality(Readers(c)) > 1 => c \in history.crossed

(* The user never looks at a tail that has silently stopped: while the     *)
(* model has a connection, one of its reads or their messages is under     *)
(* way, or the view shows an error.                                        *)
TailIsReadOrSaysSo ==
    conn # NoConn =>
        \/ err
        \/ \E t \in Tasks : task[t].is \in {"read", "event", "error"} /\ task[t].conn = conn
=============================================================================
