---------------------------- MODULE MCLoginGate ----------------------------
(* The limiters of POST /auth/login, cut down: /auth/* and login.          *)
EXTENDS LoginGate, TLC

OneLimiter == <<2>>
=============================================================================
