-------------------------- MODULE MCCachedSessions --------------------------
(* CachedSessions on small sets of users, session ids and requests.        *)
EXTENDS CachedSessions, TLC

Symmetry == Permutations(Sids) \cup Permutations(Requests)
=============================================================================
