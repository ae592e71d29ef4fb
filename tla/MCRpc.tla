------------------------------- MODULE MCRpc -------------------------------
(* One client object used again and again, and clients made anew for each  *)
(* call as exec_remote makes them, one of them by the command the server   *)
(* itself is running.                                                      *)
EXTENDS Rpc

CONSTANTS c1, c2, n

TheClients == {c1, c2, n}
TheFresh == {c2, n}
=============================================================================
