------------------------------- MODULE MCTrdp -------------------------------
(***************************************************************************)
(* A sender for TLC: message m has Frags[m] fragments, of two units except *)
(* the last.  Its sequence numbers pass the modulus.                       *)
(***************************************************************************)
EXTENDS TrdpNet

CONSTANTS First, Lose_, Repeat_, Nak_

Frags == <<1, 1, 1, 2, 1>>

MCPkts ==
    LET of(m)    == [f \in 1 .. Frags[m] |->
                       [idx |-> 0, seqno |-> 0, msg |-> m, frag_num |-> f - 1,
                        data_len |-> IF f < Frags[m] THEN 2 ELSE 1, total_len |-> 2 * Frags[m] - 1]]
        all      == FoldLeft(LAMBDA acc, m : acc \o of(m), << >>, [m \in DOMAIN Frags |-> m])
    IN  [i \in 1 .. MaxPkts |-> [all[i] EXCEPT !.idx = i, !.seqno = (First + i) % Modulus]]

MCBudget == [lose |-> Lose_, repeat |-> Repeat_, nak |-> Nak_]
====
