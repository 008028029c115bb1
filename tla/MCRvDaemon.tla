----------------------------- MODULE MCRvDaemon -----------------------------
(* Instances of RvDaemon: on service s1 two clients of the daemon's session, *)
(* one of which may ask for another network, and one with a session of its   *)
(* own; on s2 one that may ask for a network there is not.                   *)
EXTENDS RvDaemon

CONSTANTS s1, s2, n1, n2, a1, a2, c1, b1, x, y, xs, inb, p1, p2, Conns, Subs, Losses

MCService  == [c \in Clients |-> IF c = b1 THEN s2 ELSE s1]
MCNetworks == [c \in Clients |-> CASE c = a2 -> {n1, n2} [] c = b1 -> {n1, BadNet} [] OTHER -> {n1}]
MCMatched  == [t \in Topics |-> IF t = x THEN {x, xs} ELSE {xs}]
MCBudget   == [conn |-> Conns, sub |-> Subs, loss |-> Losses]
=============================================================================
