-------------------------- MODULE MCSessionClient --------------------------
(* SessionClient for TLC: the bounds are in client_session.cfg.            *)
EXTENDS SessionClient
=============================================================================
