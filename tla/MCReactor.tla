----------------------------- MODULE MCReactor -----------------------------
(* One routine of the proxy, and two that come and go.                      *)
EXTENDS Reactor
=============================================================================
