--------------------------- MODULE MCRvTransport ---------------------------
(* Instances of RvTransport.                                               *)
EXTENDS RvTransport, TLC

CONSTANTS a, b, l1, l2, x, y, inbox, none, Calls_, Faults

MCBudget   == [k \in Kind |-> IF k = "call" THEN Calls_ ELSE Faults]
Distinct   == l1 :> x @@ l2 :> y
SameTopic  == l1 :> x @@ l2 :> x
=============================================================================
