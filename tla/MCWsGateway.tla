---------------------------- MODULE MCWsGateway ----------------------------
(* WsGateway on small sets of connections and agents.                      *)
EXTENDS WsGateway, TLC

Symmetry == Permutations(Conns) \cup Permutations(Agents)

(* Every client asks to listen and to revoke.                              *)
ListenAndRevoke == {{"subscribe_events", "revoke_session"}}

(* A client asks for reads, for everything, or for nothing that is known.  *)
AnyWish == {{"query_events", "query_sessions"}, Capabilities, {}}
=============================================================================
