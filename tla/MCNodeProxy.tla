----------------------------- MODULE MCNodeProxy -----------------------------
(***************************************************************************)
(* Small instances of NodeProxy.                                           *)
(*   One*:   every socket belongs to node n1 and user u1.                  *)
(*   Pages*: a browser of u1 with a page on n1 and one on n2, and another  *)
(*           with a page on n1; n1 comes back on a second control socket.  *)
(***************************************************************************)
EXTENDS NodeProxy

CONSTANTS n1, n2, u1, ns1, ns2, ns3, c1, c2, c3

OneNodeOf   == [ns \in NodeSockets |-> n1]
OneTargetOf == [c \in Clients |-> n1]
OneUserOf   == [c \in Clients |-> u1]
OwnConn     == [c \in Clients |-> c]

PagesNodeOf   == [ns \in NodeSockets |-> IF ns = ns3 THEN n2 ELSE n1]
PagesTargetOf == [c \in Clients |-> IF c = c2 THEN n2 ELSE n1]
PagesConn     == [c \in Clients |-> IF c = c3 THEN c3 ELSE c1]
=============================================================================
