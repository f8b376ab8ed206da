--------------------------- MODULE MCSqlSessions ---------------------------
(* SqlSessions on small sets of users, session ids and requests.           *)
EXTENDS SqlSessions, TLC

Symmetry == Permutations(Sids) \cup Permutations(Requests)
=============================================================================
