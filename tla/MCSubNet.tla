------------------------------ MODULE MCSubNet ------------------------------
(***************************************************************************)
(* Small networks for TLC: the process of the database on host 1, the      *)
(* clients of other hosts.  The intervals of submgr.h keep their order.    *)
(***************************************************************************)
EXTENDS SubNet

CONSTANTS Ops, Faults

MCHostOf == [s \in Sessions |-> CASE s = "own" -> "h1" [] s = "t3" -> "h3" [] OTHER -> "h2"]

MCBudget == [op |-> Ops, fault |-> Faults]
====
