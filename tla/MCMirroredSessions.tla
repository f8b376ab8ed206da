------------------------ MODULE MCMirroredSessions ------------------------
(* A small instance of MirroredSessions.                                   *)
EXTENDS MirroredSessions, TLC

(* Clients come with their access token alone.                             *)
AccessOnly == {<<TRUE, FALSE>>}

Symmetry == Permutations(Sids) \cup Permutations(Requests)

(* No action and no property of this run reads history.revoked.            *)
View == <<now, entry, index, tokens, req, [history EXCEPT !.revoked = {}],
          row, sql, marks>>

Busy == {r \in Requests : req[r].at # "idle" \/ sql[r].at # "none"}

(* Bounds: requests overlap at the first instant only; at the last nobody  *)
(* logs in, and no step is taken once a session was excused; none is taken *)
(* anywhere once there is a reason to miss two.                            *)
Bounded ==
    /\ now > 0 => Cardinality(Busy) <= 1
    /\ now = MaxTime => \A r \in Requests : req[r].at # "login.set"
    /\ now = MaxTime => marks.excused = {}
    /\ Cardinality(marks.excused \cup history.raced \cup history.unlisted) <= 1
=============================================================================
