-------------------------- MODULE MCSessionSockets --------------------------
(***************************************************************************)
(* A small instance of SessionSockets: transport k1 carries the sockets x1 *)
(* and x2 of a page, k2 the socket x3 of another page of the same session. *)
(***************************************************************************)
EXTENDS SessionSockets

CONSTANTS s1, k1, k2, x1, x2, x3

PageConnOf   == [x \in Sockets |-> IF x = x3 THEN k2 ELSE k1]
SameCookieOf == [k \in Conns |-> s1]
=============================================================================
