---------------------------- MODULE Plctl_proofs ----------------------------
(***************************************************************************)
(* Theorems about Plctl, for any number of commands under way and of       *)
(* connections opened.                                                     *)
(***************************************************************************)
EXTENDS Plctl, FiniteSetTheorems, TLAPS

(* A tail that is being set up, in the view it was asked for.              *)
Fresh(t) == task[t].is \in {"probe", "dial", "connected"} /\ ~task[t].left

(* What connections the commands and the model refer to.                   *)
ConnsOK ==
    /\ \A t \in Tasks : task[t].is = "connected" => task[t].conn \in Conns
    /\ \A t \in Tasks : task[t].conn \in Conns => link[task[t].conn] # "unused"
    /\ conn \in Conns => link[conn] # "unused"
    /\ conn \in Conns => stop = conn
    /\ \A c \in pinging : link[c] # "unused"

(* The model has forgotten its connection only if a message came late:     *)
(* nothing is dialled beside a connection in use, and no view but the tail *)
(* has one.                                                                *)
TailOK ==
    /\ view # "tail" => conn = NoConn \/ conn \in history.late
    /\ \A t \in Tasks : Fresh(t) => conn = NoConn \/ conn \in history.late
    /\ \A t, u \in Tasks : Fresh(t) /\ Fresh(u) => t = u

(* The tail's reads and their messages; a connection that was just opened  *)
(* has none.                                                               *)
Reading(t) == task[t].is \in {"read", "event", "error"}

OneReader ==
    /\ \A t, u \in Tasks :
         Reading(t) /\ Reading(u) /\ t # u /\ task[t].conn = task[u].conn =>
             task[t].conn \in history.crossed \cup {NoConn}
    /\ \A t, u \in Tasks :
         task[t].is = "connected" /\ t # u => task[u].conn # task[t].conn
    /\ \A t \in Tasks : task[t].is = "connected" => task[t].conn # conn

IInv ==
    /\ TypeOK /\ ConnsOK /\ TailOK /\ OneReader
    /\ OrphanOnlyByLateMessage /\ TailIsReadOrSaysSo

-----------------------------------------------------------------------------
(* Types                                                                   *)

LEMMA NoTaskType == NoTask \in Task
BY DEF NoTask, Task

(* A key marks what is under way as left behind and changes nothing else.  *)
LEMMA LeftTasks ==
    ASSUME TypeOK
    PROVE  /\ Left \in [Tasks -> Task]
           /\ \A t \in Tasks : /\ Left[t].is = task[t].is
                               /\ Left[t].conn = task[t].conn
                               /\ Left[t].left <=> task[t].left \/ task[t].is # "none"
<1>1. ASSUME NEW t \in Tasks
      PROVE  /\ Left[t] \in Task
             /\ Left[t].is = task[t].is
             /\ Left[t].conn = task[t].conn
             /\ Left[t].left <=> task[t].left \/ task[t].is # "none"
  <2> DEFINE b == task[t].left \/ task[t].is # "none"
  <2>1. task[t] \in Task /\ b \in BOOLEAN
    BY DEF TypeOK, Task
  <2>2. Left[t] = [task[t] EXCEPT !.left = b]
    BY DEF Left
  <2> HIDE DEF b
  <2>3. Left[t] \in Task /\ Left[t].is = task[t].is /\ Left[t].conn = task[t].conn
        /\ Left[t].left = b
    BY <2>1, <2>2 DEF Task
  <2> QED BY <2>3 DEF b
<1>2. Left \in [Tasks -> Task]
  BY <1>1 DEF Left
<1> QED BY <1>1, <1>2

(* A command that starts.                                                  *)
LEMMA CommandType ==
    ASSUME NEW what \in DataViews \cup {"write", "probe"}
    PROVE  LET n == [NoTask EXCEPT !.is = what]
           IN  n \in Task /\ n.is = what /\ n.conn = NoConn /\ n.left = FALSE
BY DEF NoTask, Task, DataViews

(* A task that moves on to its next step.                                  *)
LEMMA BecomeTask ==
    ASSUME TypeOK, NEW t \in Tasks,
           NEW what \in {"dial", "event", "error"}, Become(t, what)
    PROVE  /\ task' \in [Tasks -> Task]
           /\ \A u \in Tasks : /\ task'[u].conn = task[u].conn
                               /\ task'[u].left = task[u].left
                               /\ task'[u].is = IF u = t THEN what ELSE task[u].is
<1> DEFINE n == [task[t] EXCEPT !.is = what]
<1>1. task[t] \in Task
  BY DEF TypeOK
<1>2. n \in Task /\ n.is = what /\ n.conn = task[t].conn /\ n.left = task[t].left
  BY <1>1 DEF Task
<1>3. task' = [task EXCEPT ![t] = n]
  BY DEF Become, TypeOK
<1> HIDE DEF n
<1> QED BY <1>2, <1>3 DEF TypeOK

LEMMA InitTypes == Init => TypeOK
<1> SUFFICES ASSUME Init PROVE TypeOK
  OBVIOUS
<1>1. /\ link \in [Conns -> {"unused", "open", "closed"}]
      /\ task \in [Tasks -> Task]
  BY NoTaskType DEF Init
<1>2. view \in Views /\ action \in Actions
  BY DEF Init, Views, Actions
<1>3. history \in [late : SUBSET Conns, crossed : SUBSET Conns]
  BY DEF Init
<1> QED BY <1>1, <1>2, <1>3 DEF Init, TypeOK

LEMMA StepTypes == TypeOK /\ ConnsOK /\ [Next]_vars => TypeOK'
<1> SUFFICES ASSUME TypeOK, ConnsOK, [Next]_vars PROVE TypeOK'
  OBVIOUS
<1>1. ASSUME NEW t \in Tasks, NEW what \in DataViews, MenuFetch(t, what) PROVE TypeOK'
  BY <1>1, LeftTasks, CommandType DEF TypeOK, MenuFetch, MoveAndRun, tailVars, Actions, Views
<1>2. ASSUME NEW what \in Actions, MenuInput(what) PROVE TypeOK'
  BY <1>2, LeftTasks DEF TypeOK, MenuInput, MoveTo, tailVars, Views
<1>3. CASE MenuTail
  BY <1>3, LeftTasks DEF TypeOK, MenuTail, MoveTo, Actions, Views
<1>4. CASE MenuConfirm
  BY <1>4, LeftTasks DEF TypeOK, MenuConfirm, MoveTo, tailVars, Actions, Views
<1>5. ASSUME NEW t \in Tasks, InputFetch(t) PROVE TypeOK'
  BY <1>5, LeftTasks, CommandType DEF TypeOK, InputFetch, MoveAndRun, tailVars, Views
<1>6. ASSUME NEW t \in Tasks, InputTail(t) PROVE TypeOK'
  BY <1>6, LeftTasks, CommandType DEF TypeOK, InputTail, MoveAndRun, tailVars, Views
<1>7. CASE InputWrite
  BY <1>7, LeftTasks DEF TypeOK, InputWrite, MoveTo, tailVars, Views
<1>8. ASSUME NEW t \in Tasks, ConfirmYes(t) PROVE TypeOK'
  BY <1>8, CommandType DEF TypeOK, ConfirmYes, tailVars
<1>9. CASE Back
  BY <1>9, LeftTasks DEF TypeOK, Back, MoveTo, tailVars, Views
<1>10. CASE Detail
  BY <1>10, LeftTasks DEF TypeOK, Detail, MoveTo, tailVars, Views, DataViews
<1>11. CASE TailEsc
  BY <1>11, LeftTasks DEF TypeOK, TailEsc, CloseTail, MoveTo, Views
<1>12. CASE Quit
  BY <1>12, NoTaskType DEF TypeOK, Quit, Views, Actions
<1>13. ASSUME NEW t \in Tasks, DataMsg(t) PROVE TypeOK'
  BY <1>13, NoTaskType DEF TypeOK, DataMsg, TakesScreen, Views
<1>14. ASSUME NEW t \in Tasks, ResultMsg(t) PROVE TypeOK'
  BY <1>14, NoTaskType DEF TypeOK, ResultMsg, TakesScreen, Views
<1>15. ASSUME NEW t \in Tasks, ChallengeMsg(t) PROVE TypeOK'
  BY <1>15, BecomeTask DEF TypeOK, ChallengeMsg, tailVars
<1>16. ASSUME NEW t \in Tasks, TailFails(t) PROVE TypeOK'
  BY <1>16, NoTaskType DEF TypeOK, TailFails, Views
<1>17. ASSUME NEW t \in Tasks, NEW c \in Conns, DialAndSubscribe(t, c) PROVE TypeOK'
  <2> DEFINE n == [task[t] EXCEPT !.is = "connected", !.conn = c]
  <2>1. n \in Task
    BY DEF TypeOK, Task
  <2>2. task' = [task EXCEPT ![t] = n]
    BY <1>17 DEF DialAndSubscribe, TypeOK
  <2> HIDE DEF n
  <2> QED BY <1>17, <2>1, <2>2 DEF TypeOK, DialAndSubscribe
<1>18. ASSUME NEW t \in Tasks, TailConnectedMsg(t) PROVE TypeOK'
  <2> DEFINE c == task[t].conn
             n == [task[t] EXCEPT !.is = "read", !.left = FALSE]
  <2>1. n \in Task
    BY DEF TypeOK, Task
  <2>2. task' = [task EXCEPT ![t] = n]
    BY <1>18 DEF TailConnectedMsg, TypeOK
  <2>3. c \in Conns
    BY <1>18 DEF TailConnectedMsg, ConnsOK
  <2>4. history' \in [late : SUBSET Conns, crossed : SUBSET Conns]
    BY <1>18, <2>3 DEF TailConnectedMsg, TypeOK
  <2> HIDE DEF n
  <2> QED BY <1>18, <2>1, <2>2, <2>3, <2>4 DEF TypeOK, TailConnectedMsg, Views
<1>19. ASSUME NEW t \in Tasks, ReadEvent(t) PROVE TypeOK'
  BY <1>19, BecomeTask DEF TypeOK, ReadEvent, tailVars
<1>20. ASSUME NEW t \in Tasks, ReadFails(t) PROVE TypeOK'
  BY <1>20, BecomeTask DEF TypeOK, ReadFails, tailVars
<1>21. ASSUME NEW t \in Tasks, TailEventMsg(t) PROVE TypeOK'
  BY <1>21 DEF TypeOK, TailEventMsg, Task
<1>22. ASSUME NEW t \in Tasks, TailErrorMsg(t) PROVE TypeOK'
  BY <1>22, NoTaskType DEF TypeOK, TailErrorMsg
<1>23. ASSUME NEW c \in Conns, PeerCloses(c) PROVE TypeOK'
  BY <1>23 DEF TypeOK, PeerCloses
<1>24. CASE UNCHANGED vars
  BY <1>24 DEF TypeOK, vars
<1> QED
  BY <1>1, <1>2, <1>3, <1>4, <1>5, <1>6, <1>7, <1>8, <1>9, <1>10, <1>11, <1>12, <1>13,
     <1>14, <1>15, <1>16, <1>17, <1>18, <1>19, <1>20, <1>21, <1>22, <1>23, <1>24 DEF Next

-----------------------------------------------------------------------------
(* Steps that leave the model's connection and the goroutines alone        *)

(* A task that makes no connection and forgets none.                       *)
Calm(t) ==
    /\ task'[t].conn \in {task[t].conn, conn, NoConn}
    /\ task'[t].is = "connected" <=> task[t].is = "connected"
    /\ task[t].is = "connected" => task'[t].conn = task[t].conn
    /\ Fresh(t)' => Fresh(t)
    /\ Reading(t)' => /\ Reading(t)
                      /\ \/ task'[t].conn = task[t].conn
                         \/ task'[t].conn = conn /\ conn \in history'.crossed \cup {NoConn}
    /\ Reading(t) /\ task[t].conn = conn => err' \/ (Reading(t)' /\ task'[t].conn = conn)

(* Connections are where they were, or have been lost.                     *)
LinksCalm ==
    \A c \in Conns : /\ link'[c] = "open" => link[c] = "open"
                     /\ link'[c] = "unused" <=> link[c] = "unused"

LEMMA CalmStep ==
    ASSUME IInv, TypeOK', UNCHANGED <<conn, stop, pinging>>, LinksCalm,
           history.late \subseteq history'.late, history.crossed \subseteq history'.crossed,
           err => err',
           \A t \in Tasks : Calm(t),
           view' # "tail" => view # "tail" \/ conn = NoConn \/ conn \in history'.late
    PROVE  IInv'
<1>1. ConnsOK'
  <2>1. \A t \in Tasks : task'[t].is = "connected" => task'[t].conn \in Conns
    BY DEF IInv, ConnsOK, Calm
  <2>2. \A t \in Tasks : task'[t].conn \in Conns => link'[task'[t].conn] # "unused"
    BY PlctlAssumption DEF IInv, ConnsOK, Calm, LinksCalm
  <2>3. conn' \in Conns => link'[conn'] # "unused" /\ stop' = conn'
    BY DEF IInv, ConnsOK, LinksCalm
  <2>4. \A c \in pinging' : link'[c] # "unused"
    BY DEF IInv, ConnsOK, LinksCalm, TypeOK
  <2> QED BY <2>1, <2>2, <2>3, <2>4 DEF ConnsOK
<1>2. TailOK'
  <2>1. view' # "tail" => conn' = NoConn \/ conn' \in history'.late
    BY DEF IInv, TailOK
  <2>2. \A t \in Tasks : Fresh(t)' => conn' = NoConn \/ conn' \in history'.late
    BY DEF IInv, TailOK, Calm
  <2>3. \A t, u \in Tasks : Fresh(t)' /\ Fresh(u)' => t = u
    BY DEF IInv, TailOK, Calm
  <2> QED BY <2>1, <2>2, <2>3 DEF TailOK, Fresh
<1>3. OrphanOnlyByLateMessage'
  <2>1. \A c \in Conns : Reachable(c) => Reachable(c)'
    BY DEF Reachable, Calm
  <2> QED BY <2>1 DEF IInv, OrphanOnlyByLateMessage, LinksCalm
<1>4. OneReader'
  <2>1. \A t, u \in Tasks :
          Reading(t)' /\ Reading(u)' /\ t # u /\ task'[t].conn = task'[u].conn =>
              task'[t].conn \in history'.crossed \cup {NoConn}
    BY DEF IInv, OneReader, Calm
  <2>2. \A t, u \in Tasks :
          task'[t].is = "connected" /\ t # u => task'[u].conn # task'[t].conn
    BY PlctlAssumption DEF IInv, OneReader, Calm, ConnsOK
  <2>3. \A t \in Tasks : task'[t].is = "connected" => task'[t].conn # conn'
    BY DEF IInv, OneReader, Calm
  <2> QED BY <2>1, <2>2, <2>3 DEF OneReader, Reading
<1>5. TailIsReadOrSaysSo'
  BY DEF IInv, TailIsReadOrSaysSo, Calm, Reading
<1> QED BY <1>1, <1>2, <1>3, <1>4, <1>5 DEF IInv

(* A key, and the commands it leaves behind.                               *)
LEMMA LeftCalm ==
    ASSUME TypeOK, UNCHANGED <<conn, err, history>>,
           NEW t \in Tasks,
           \/ task'[t] = Left[t]
           \/ task[t].is = "none" /\ \E what \in DataViews \cup {"write"} :
                                       task'[t] = [NoTask EXCEPT !.is = what]
    PROVE  Calm(t)
<1>1. CASE task'[t] = Left[t]
  BY <1>1, LeftTasks DEF Calm, Fresh, Reading
<1>2. CASE task[t].is = "none" /\ \E what \in DataViews \cup {"write"} :
                                       task'[t] = [NoTask EXCEPT !.is = what]
  <2> PICK what \in DataViews \cup {"write"} : task'[t] = [NoTask EXCEPT !.is = what]
    BY <1>2
  <2>1. task'[t].is = what /\ task'[t].conn = NoConn
    BY CommandType
  <2> QED BY <1>2, <2>1 DEF Calm, Fresh, Reading, DataViews
<1> QED BY <1>1, <1>2

(* A message that has been handled and leaves nothing to do.               *)
LEMMA DoneCalm ==
    ASSUME TypeOK, TypeOK', UNCHANGED conn, err => err',
           NEW t \in Tasks, task[t].is \notin {"connected", "read", "event"},
           task[t].is = "error" => err',
           task' = [task EXCEPT ![t] = NoTask]
    PROVE  \A u \in Tasks : Calm(u)
<1>1. task'[t] = NoTask /\ \A u \in Tasks : u # t => task'[u] = task[u]
  BY DEF TypeOK
<1>2. ASSUME NEW u \in Tasks, u # t PROVE Calm(u)
  BY <1>1, <1>2 DEF Calm, Fresh, Reading
<1>3. /\ ~Reading(t)' /\ ~Fresh(t)' /\ task'[t].conn = NoConn
      /\ task'[t].is # "connected"
  BY <1>1 DEF Fresh, Reading, NoTask
<1>4. err' = TRUE \/ ~Reading(t)
  BY DEF Reading, TypeOK
<1>5. Calm(t)
  <2>1. task[t].is # "connected"
    OBVIOUS
  <2>2. CASE err' = TRUE
    BY <1>3, <2>1, <2>2 DEF Calm
  <2>3. CASE ~Reading(t)
    BY <1>3, <2>1, <2>3 DEF Calm
  <2> QED BY <1>4, <2>2, <2>3
<1> QED BY <1>2, <1>5

(* A task that moves on, other than to a connection.                       *)
LEMMA BecomeCalm ==
    ASSUME TypeOK, UNCHANGED <<conn, err>>, NEW t \in Tasks, NEW what,
           \/ task[t].is = "probe" /\ what = "dial"
           \/ task[t].is = "read" /\ what \in {"event", "error"},
           Become(t, what)
    PROVE  \A u \in Tasks : Calm(u)
<1>1. \A u \in Tasks : /\ task'[u].conn = task[u].conn
                       /\ task'[u].left = task[u].left
                       /\ task'[u].is = IF u = t THEN what ELSE task[u].is
  BY BecomeTask
<1> QED BY <1>1 DEF Calm, Fresh, Reading

-----------------------------------------------------------------------------
(* The invariant                                                           *)

LEMMA InitInv == Init => IInv
<1> SUFFICES ASSUME Init PROVE IInv
  OBVIOUS
<1>1. TypeOK
  BY InitTypes
<1>2. \A t \in Tasks : task[t].is = "none" /\ task[t].conn = NoConn
  BY DEF Init, NoTask
<1>3. conn = NoConn /\ view = "menu" /\ pinging = {} /\ \A c \in Conns : link[c] = "unused"
  BY DEF Init
<1>4. ConnsOK /\ TailOK
  BY <1>2, <1>3, PlctlAssumption DEF ConnsOK, TailOK, Fresh
<1>5. OneReader
  BY <1>2 DEF OneReader, Reading
<1>6. OrphanOnlyByLateMessage /\ TailIsReadOrSaysSo
  BY <1>3 DEF OrphanOnlyByLateMessage, TailIsReadOrSaysSo
<1> QED BY <1>1, <1>4, <1>5, <1>6 DEF IInv

(* History: TakesScreen keeps what it has, and notes a tail it takes over. *)
LEMMA ScreenTaken ==
    ASSUME IInv, TakesScreen
    PROVE  /\ history.late \subseteq history'.late
           /\ history.crossed \subseteq history'.crossed
           /\ conn = NoConn \/ conn \in history'.late
<1>1. history' = [history EXCEPT !.late = IF view = "tail" THEN history.late \cup ({conn} \ {NoConn})
                                                           ELSE history.late]
  BY DEF TakesScreen
<1>2. history \in [late : SUBSET Conns, crossed : SUBSET Conns]
  BY DEF IInv, TypeOK
<1>3. /\ history'.crossed = history.crossed
      /\ history'.late = IF view = "tail" THEN history.late \cup ({conn} \ {NoConn})
                                          ELSE history.late
  BY <1>1, <1>2
<1> QED BY <1>3 DEF IInv, TailOK

(* The live tail is chosen: whatever connection there was is forgotten.    *)
LEMMA Forgotten ==
    ASSUME IInv, TypeOK', conn' = NoConn, view = "menu",
           UNCHANGED <<stop, link, pinging, history>>,
           \A u \in Tasks : /\ task'[u].is = task[u].is /\ task'[u].conn = task[u].conn
                            /\ ~Fresh(u)'
    PROVE  IInv'
<1>1. ConnsOK'
  BY PlctlAssumption DEF IInv, ConnsOK
<1>2. TailOK'
  BY DEF TailOK, Fresh
<1>3. OneReader'
  BY PlctlAssumption DEF IInv, OneReader, Reading, ConnsOK
<1>4. OrphanOnlyByLateMessage'
  <2>1. \A c \in Conns : c = conn => c \in history.late
    BY PlctlAssumption DEF IInv, TailOK
  <2> QED BY <2>1 DEF IInv, OrphanOnlyByLateMessage, Reachable
<1>5. TailIsReadOrSaysSo'
  BY DEF TailIsReadOrSaysSo
<1> QED BY <1>1, <1>2, <1>3, <1>4, <1>5 DEF IInv

LEMMA StepInv == IInv /\ [Next]_vars => IInv'
<1> SUFFICES ASSUME IInv, [Next]_vars PROVE IInv'
  OBVIOUS
<1> USE DEF LinksCalm
<1>t. TypeOK /\ TypeOK'
  BY StepTypes DEF IInv
<1>0. /\ conn \in Conns \cup {NoConn} /\ task \in [Tasks -> Task]
      /\ link \in [Conns -> {"unused", "open", "closed"}]
  BY <1>t DEF TypeOK
<1>1. ASSUME NEW t \in Tasks, NEW what \in DataViews, MenuFetch(t, what) PROVE IInv'
  <2>1. \A u \in Tasks : Calm(u)
    BY <1>1, <1>t, LeftTasks, LeftCalm DEF MenuFetch, MoveAndRun, tailVars
  <2> QED BY <1>1, <1>t, <2>1, CalmStep DEF MenuFetch, MoveAndRun, tailVars
<1>2. ASSUME NEW what \in Actions, MenuInput(what) PROVE IInv'
  <2>1. \A u \in Tasks : Calm(u)
    BY <1>2, <1>t, LeftCalm DEF MenuInput, MoveTo, tailVars
  <2> QED BY <1>2, <1>t, <2>1, CalmStep DEF MenuInput, MoveTo, tailVars
<1>3. CASE MenuTail
  <2>1. conn' = NoConn /\ task' = Left /\ view' = "input" /\ view = "menu"
        /\ UNCHANGED <<stop, link, pinging, history>>
    BY <1>3 DEF MenuTail, MoveTo
  <2>2. \A u \in Tasks : /\ task'[u].is = task[u].is /\ task'[u].conn = task[u].conn
                         /\ ~Fresh(u)'
    BY <1>t, <2>1, LeftTasks DEF Fresh
  <2> QED BY <1>t, <2>1, <2>2, Forgotten
<1>4. CASE MenuConfirm
  <2>1. \A u \in Tasks : Calm(u)
    BY <1>4, <1>t, LeftCalm DEF MenuConfirm, MoveTo, tailVars
  <2> QED BY <1>4, <1>t, <2>1, CalmStep DEF MenuConfirm, MoveTo, tailVars
<1>5. ASSUME NEW t \in Tasks, InputFetch(t) PROVE IInv'
  <2>1. \A u \in Tasks : Calm(u)
    BY <1>5, <1>t, LeftTasks, LeftCalm DEF InputFetch, MoveAndRun, tailVars
  <2> QED BY <1>5, <1>t, <2>1, CalmStep DEF InputFetch, MoveAndRun, tailVars
<1>6. ASSUME NEW t \in Tasks, InputTail(t) PROVE IInv'
  <2>1. /\ task' = [Left EXCEPT ![t] = [NoTask EXCEPT !.is = "probe"]]
        /\ view = "input" /\ task[t].is = "none"
        /\ UNCHANGED <<conn, stop, link, pinging, history, err>>
    BY <1>6 DEF InputTail, MoveAndRun, tailVars
  <2>2. task'[t].is = "probe" /\ task'[t].conn = NoConn
    BY <1>t, <2>1, LeftTasks, CommandType
  <2>3. \A u \in Tasks \ {t} : /\ task'[u].is = task[u].is /\ task'[u].conn = task[u].conn
                                /\ ~Fresh(u)'
    BY <1>t, <2>1, LeftTasks DEF Fresh
  <2>4. conn = NoConn \/ conn \in history.late
    BY <2>1 DEF IInv, TailOK
  <2>5. ConnsOK'
    BY <2>1, <2>2, <2>3, PlctlAssumption DEF IInv, ConnsOK
  <2>6. TailOK'
    BY <2>1, <2>3, <2>4 DEF TailOK, Fresh
  <2>7. OneReader'
    BY <2>1, <2>2, <2>3, PlctlAssumption DEF IInv, OneReader, Reading, ConnsOK
  <2>8. OrphanOnlyByLateMessage'
    BY <2>1, <2>3 DEF IInv, OrphanOnlyByLateMessage, Reachable
  <2>9. TailIsReadOrSaysSo'
    BY <2>1, <2>3 DEF IInv, TailIsReadOrSaysSo
  <2> QED BY <1>t, <2>5, <2>6, <2>7, <2>8, <2>9 DEF IInv
<1>7. CASE InputWrite
  <2>1. \A u \in Tasks : Calm(u)
    BY <1>7, <1>t, LeftCalm DEF InputWrite, MoveTo, tailVars
  <2> QED BY <1>7, <1>t, <2>1, CalmStep DEF InputWrite, MoveTo, tailVars
<1>8. ASSUME NEW t \in Tasks, ConfirmYes(t) PROVE IInv'
  <2>1. \A u \in Tasks : u # t => task'[u] = task[u]
    BY <1>8, <1>0 DEF ConfirmYes
  <2>2. task'[t] = [NoTask EXCEPT !.is = "write"] /\ task[t].is = "none"
    BY <1>8, <1>0 DEF ConfirmYes
  <2>3. \A u \in Tasks : Calm(u)
    BY <1>8, <1>t, <2>1, <2>2, LeftCalm DEF ConfirmYes, tailVars, Calm, Fresh, Reading
  <2> QED BY <1>8, <1>t, <2>3, CalmStep DEF ConfirmYes, tailVars
<1>9. CASE Back
  <2>1. \A u \in Tasks : Calm(u)
    BY <1>9, <1>t, LeftCalm DEF Back, MoveTo, tailVars
  <2> QED BY <1>9, <1>t, <2>1, CalmStep DEF Back, MoveTo, tailVars, DataViews
<1>10. CASE Detail
  <2>1. \A u \in Tasks : Calm(u)
    BY <1>10, <1>t, LeftCalm DEF Detail, MoveTo, tailVars
  <2> QED BY <1>10, <1>t, <2>1, CalmStep DEF Detail, MoveTo, tailVars
<1>11. CASE TailEsc
  <2>1. conn' = NoConn /\ task' = Left /\ UNCHANGED history
        /\ pinging' = pinging \ {stop}
        /\ link' = [c \in Conns |-> IF c = conn THEN "closed" ELSE link[c]]
    BY <1>11 DEF TailEsc, CloseTail, MoveTo
  <2>2. \A u \in Tasks : /\ task'[u].is = task[u].is /\ task'[u].conn = task[u].conn
                         /\ ~Fresh(u)'
    BY <1>t, <2>1, LeftTasks DEF Fresh
  <2>3. \A c \in Conns : link'[c] = IF c = conn THEN "closed" ELSE link[c]
    BY <2>1
  <2>4. ConnsOK'
    BY <1>t, <2>1, <2>2, <2>3, PlctlAssumption DEF IInv, ConnsOK, TypeOK
  <2>5. TailOK'
    BY <2>1, <2>2 DEF TailOK, Fresh
  <2>6. OneReader'
    BY <2>1, <2>2, <2>4, PlctlAssumption DEF IInv, OneReader, Reading, ConnsOK
  <2>7. OrphanOnlyByLateMessage'
    <3> SUFFICES ASSUME NEW c \in Conns, link'[c] = "open" \/ c \in pinging'
                 PROVE  Reachable(c)' \/ c \in history'.late
      BY DEF OrphanOnlyByLateMessage
    <3>1. c # conn
      BY <2>1, <2>3 DEF IInv, ConnsOK
    <3>2. Reachable(c) \/ c \in history.late
      BY <2>1, <2>3, <3>1 DEF IInv, OrphanOnlyByLateMessage
    <3> QED BY <2>1, <2>2, <3>1, <3>2 DEF Reachable
  <2>8. TailIsReadOrSaysSo'
    BY <2>1 DEF TailIsReadOrSaysSo
  <2> QED BY <1>t, <2>4, <2>5, <2>6, <2>7, <2>8 DEF IInv
<1>12. CASE Quit
  <2>1. conn' = NoConn /\ view' = "menu" /\ pinging' = {}
        /\ \A c \in Conns : link'[c] = "unused"
    BY <1>12 DEF Quit
  <2>2. \A u \in Tasks : task'[u].is = "none" /\ task'[u].conn = NoConn
    BY <1>12 DEF Quit, NoTask
  <2>3. ConnsOK' /\ TailOK'
    BY <2>1, <2>2, PlctlAssumption DEF ConnsOK, TailOK, Fresh
  <2>4. OneReader'
    BY <2>2 DEF OneReader, Reading
  <2>5. OrphanOnlyByLateMessage' /\ TailIsReadOrSaysSo'
    BY <2>1 DEF OrphanOnlyByLateMessage, TailIsReadOrSaysSo
  <2> QED BY <1>t, <2>3, <2>4, <2>5 DEF IInv
<1>13. ASSUME NEW t \in Tasks, DataMsg(t) PROVE IInv'
  <2>1. \A u \in Tasks : Calm(u)
    BY <1>13, <1>t, DoneCalm DEF DataMsg, DataViews
  <2> QED BY <1>13, <1>t, <2>1, CalmStep, ScreenTaken DEF DataMsg
<1>14. ASSUME NEW t \in Tasks, ResultMsg(t) PROVE IInv'
  <2>1. \A u \in Tasks : Calm(u)
    BY <1>14, <1>t, DoneCalm DEF ResultMsg
  <2> QED BY <1>14, <1>t, <2>1, CalmStep, ScreenTaken DEF ResultMsg
<1>15. ASSUME NEW t \in Tasks, ChallengeMsg(t) PROVE IInv'
  <2>1. \A u \in Tasks : Calm(u)
    BY <1>15, <1>t, BecomeCalm DEF ChallengeMsg, tailVars
  <2> QED BY <1>15, <1>t, <2>1, CalmStep DEF ChallengeMsg, tailVars
<1>16. ASSUME NEW t \in Tasks, TailFails(t) PROVE IInv'
  <2>1. \A u \in Tasks : Calm(u)
    BY <1>16, <1>t, DoneCalm DEF TailFails
  <2> QED BY <1>16, <1>t, <2>1, CalmStep DEF TailFails
<1>17. ASSUME NEW t \in Tasks, NEW c \in Conns, DialAndSubscribe(t, c) PROVE IInv'
  <2> DEFINE n == [task[t] EXCEPT !.is = "connected", !.conn = c]
  <2>1. task' = [task EXCEPT ![t] = n] /\ task[t] \in Task
    BY <1>17, <1>0 DEF DialAndSubscribe
  <2>2. n.is = "connected" /\ n.conn = c /\ n.left = task[t].left
    BY <2>1 DEF Task
  <2> HIDE DEF n
  <2>3. /\ task'[t].is = "connected" /\ task'[t].conn = c
        /\ task'[t].left = task[t].left
        /\ task[t].is = "dial"
        /\ \A u \in Tasks \ {t} : task'[u] = task[u]
    BY <1>17, <1>0, <2>1, <2>2 DEF DialAndSubscribe
  <2>4. /\ link[c] = "unused"
        /\ \A d \in Conns : link'[d] = IF d = c THEN "open" ELSE link[d]
        /\ UNCHANGED <<view, conn, stop, err, pinging, history>>
    BY <1>17, <1>0 DEF DialAndSubscribe
  <2>5. \A u \in Tasks : task[u].conn # c
    BY <2>4 DEF IInv, ConnsOK
  <2>6. conn # c
    BY <2>4 DEF IInv, ConnsOK
  <2>7. ConnsOK'
    BY <1>t, <2>3, <2>4 DEF IInv, ConnsOK, TypeOK
  <2>8. TailOK'
    BY <2>3, <2>4 DEF IInv, TailOK, Fresh
  <2>9. OneReader'
    BY <2>3, <2>4, <2>5, <2>6 DEF IInv, OneReader, Reading
  <2>10. OrphanOnlyByLateMessage'
    BY <2>3, <2>4 DEF IInv, OrphanOnlyByLateMessage, Reachable
  <2>11. TailIsReadOrSaysSo'
    BY <2>3, <2>4 DEF IInv, TailIsReadOrSaysSo
  <2> QED BY <1>t, <2>7, <2>8, <2>9, <2>10, <2>11 DEF IInv
<1>18. ASSUME NEW t \in Tasks, TailConnectedMsg(t) PROVE IInv'
  <2> DEFINE c == task[t].conn
             n == [task[t] EXCEPT !.is = "read", !.left = FALSE]
  <2>1. task' = [task EXCEPT ![t] = n] /\ task[t] \in Task
    BY <1>18, <1>0 DEF TailConnectedMsg
  <2>2. n.is = "read" /\ n.conn = c /\ n.left = FALSE
    BY <2>1 DEF Task
  <2> HIDE DEF n
  <2>3. /\ task'[t].is = "read" /\ task'[t].conn = c
        /\ task[t].is = "connected"
        /\ \A u \in Tasks \ {t} : task'[u] = task[u]
    BY <1>18, <1>0, <2>1, <2>2 DEF TailConnectedMsg
  <2>4. c \in Conns /\ link[c] # "unused"
    BY <2>3 DEF IInv, ConnsOK
  <2>5. /\ conn' = c /\ stop' = c /\ pinging' = pinging \cup {c} /\ view' = "tail"
        /\ link' = link
    BY <1>18 DEF TailConnectedMsg
  <2>6. /\ history'.crossed = history.crossed
        /\ history'.late = IF task[t].left THEN history.late \cup ({c, conn} \ {NoConn})
                                           ELSE history.late
    BY <1>18, <1>t DEF TailConnectedMsg, TypeOK
  <2>7. conn \in history'.late \cup {NoConn}
    BY <2>3, <2>6 DEF IInv, TailOK, Fresh
  <2>8. ConnsOK'
    BY <1>t, <2>3, <2>4, <2>5 DEF IInv, ConnsOK, TypeOK
  <2>9. TailOK'
    <3>1. ASSUME NEW u \in Tasks, Fresh(u)' PROVE conn' \in history'.late
      <4>1. u # t /\ Fresh(u)
        BY <2>3, <3>1 DEF Fresh
      <4>2. task[t].left
        BY <2>3, <4>1 DEF IInv, TailOK, Fresh, TypeOK, Task
      <4> QED BY <2>4, <2>5, <2>6, <4>2, PlctlAssumption
    <3>2. \A u, v \in Tasks : Fresh(u)' /\ Fresh(v)' => u = v
      BY <2>3 DEF IInv, TailOK, Fresh
    <3> QED BY <2>5, <3>1, <3>2 DEF TailOK, Fresh
  <2>10. OneReader'
    BY <2>3, <2>5, <2>6 DEF IInv, OneReader, Reading
  <2>11. OrphanOnlyByLateMessage'
    <3> SUFFICES ASSUME NEW d \in Conns, link'[d] = "open" \/ d \in pinging', d # c
                 PROVE  Reachable(d)' \/ d \in history'.late
      BY <2>5 DEF OrphanOnlyByLateMessage, Reachable
    <3>1. Reachable(d) \/ d \in history'.late
      BY <2>5, <2>6 DEF IInv, OrphanOnlyByLateMessage
    <3> QED BY <2>3, <2>7, <3>1, PlctlAssumption DEF Reachable
  <2>12. TailIsReadOrSaysSo'
    BY <2>3, <2>5 DEF TailIsReadOrSaysSo
  <2> QED BY <1>t, <2>8, <2>9, <2>10, <2>11, <2>12 DEF IInv
<1>19. ASSUME NEW t \in Tasks, ReadEvent(t) PROVE IInv'
  <2>1. \A u \in Tasks : Calm(u)
    BY <1>19, <1>t, BecomeCalm DEF ReadEvent, tailVars
  <2> QED BY <1>19, <1>t, <2>1, CalmStep DEF ReadEvent, tailVars
<1>20. ASSUME NEW t \in Tasks, ReadFails(t) PROVE IInv'
  <2>1. \A u \in Tasks : Calm(u)
    BY <1>20, <1>t, BecomeCalm DEF ReadFails, tailVars
  <2> QED BY <1>20, <1>t, <2>1, CalmStep DEF ReadFails, tailVars
<1>21. ASSUME NEW t \in Tasks, TailEventMsg(t) PROVE IInv'
  <2>1. /\ task'[t].is = "read" /\ task'[t].conn = conn /\ task[t].is = "event"
        /\ \A u \in Tasks \ {t} : task'[u] = task[u]
    BY <1>21, <1>0 DEF TailEventMsg
  <2>2. /\ history'.late = history.late
        /\ history'.crossed = IF task[t].conn # conn THEN history.crossed \cup ({conn} \ {NoConn})
                                                     ELSE history.crossed
    BY <1>21, <1>t DEF TailEventMsg, TypeOK
  <2>3. \A u \in Tasks : Calm(u)
    BY <1>21, <2>1, <2>2 DEF Calm, Fresh, Reading, TailEventMsg
  <2>4. UNCHANGED <<view, conn, stop, err, link, pinging>>
    BY <1>21 DEF TailEventMsg
  <2> QED BY <1>t, <2>2, <2>3, <2>4, CalmStep
<1>22. ASSUME NEW t \in Tasks, TailErrorMsg(t) PROVE IInv'
  <2>1. \A u \in Tasks : Calm(u)
    BY <1>22, <1>t, DoneCalm DEF TailErrorMsg
  <2> QED BY <1>22, <1>t, <2>1, CalmStep DEF TailErrorMsg
<1>23. ASSUME NEW c \in Conns, PeerCloses(c) PROVE IInv'
  <2>1. \A u \in Tasks : Calm(u)
    BY <1>23 DEF PeerCloses, Calm, Fresh, Reading
  <2>2. LinksCalm
    BY <1>23, <1>0 DEF PeerCloses
  <2> QED BY <1>23, <1>t, <2>1, <2>2, CalmStep DEF PeerCloses
<1>24. CASE UNCHANGED vars
  <2>1. \A u \in Tasks : Calm(u)
    BY <1>24 DEF vars, Calm, Fresh, Reading
  <2> QED BY <1>24, <1>t, <2>1, CalmStep DEF vars
<1> QED
  BY <1>1, <1>2, <1>3, <1>4, <1>5, <1>6, <1>7, <1>8, <1>9, <1>10, <1>11, <1>12, <1>13,
     <1>14, <1>15, <1>16, <1>17, <1>18, <1>19, <1>20, <1>21, <1>22, <1>23, <1>24 DEF Next

-----------------------------------------------------------------------------
(* Theorems                                                                *)

LEMMA Invariance == Spec => []IInv
BY InitInv, StepInv, PTL DEF Spec

(* Every variable keeps its type: the program never shows a view, keeps a  *)
(* task or refers to a connection that its code does not have.             *)
THEOREM PlctlTypes == Spec => []TypeOK
<1>1. IInv => TypeOK
  BY DEF IInv
<1> QED BY Invariance, <1>1, PTL

(* A connection that is open, or still written to by keepAlive, can be     *)
(* closed by closeTail, or a message that came late cut it off.            *)
THEOREM Orphans == Spec => []OrphanOnlyByLateMessage
<1>1. IInv => OrphanOnlyByLateMessage
  BY DEF IInv
<1> QED BY Invariance, <1>1, PTL

(* While tailConn is set, it is being read, a message of a read is on its  *)
(* way to Update, or tailErr says that reading has stopped.                *)
THEOREM TailSpeaks == Spec => []TailIsReadOrSaysSo
<1>1. IInv => TailIsReadOrSaysSo
  BY DEF IInv
<1> QED BY Invariance, <1>1, PTL

(* No connection is read by two commands at once, unless an event of an    *)
(* earlier tail made readNextEvent read it.                                *)
THEOREM OneReaderEach == Spec => []SecondReaderOnlyByStaleEvent
<1>1. IInv => SecondReaderOnlyByStaleEvent
  <2> SUFFICES ASSUME IInv, NEW c \in Conns, c \notin history.crossed
               PROVE  ~(Cardinality(Readers(c)) > 1)
    BY DEF SecondReaderOnlyByStaleEvent
  <2>1. \A t, u \in Readers(c) : t = u
    BY PlctlAssumption DEF IInv, OneReader, Reading, Readers
  <2>2. CASE Readers(c) = {}
    BY <2>2, FS_EmptySet
  <2>3. CASE Readers(c) # {}
    <3>1. PICK t : t \in Readers(c)
      BY <2>3
    <3>2. Readers(c) = {t}
      BY <2>1, <3>1
    <3> QED BY <3>2, FS_Singleton
  <2> QED BY <2>2, <2>3
<1> QED BY Invariance, <1>1, PTL
=============================================================================
