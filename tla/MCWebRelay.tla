----------------------------- MODULE MCWebRelay -----------------------------
(* A local and two remote web sockets and a remote event source.            *)
EXTENDS WebRelay
============================================================================
