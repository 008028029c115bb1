------------------------------- MODULE Stream -------------------------------
(***************************************************************************)
(* What a receiver of multicast messages is promised: it gets messages     *)
(* that were sent, each once and in the order of sending, perhaps not all  *)
(* of them.  The promise is off once the network has repeated a datagram.  *)
(***************************************************************************)
EXTENDS Naturals, Sequences

VARIABLES
    sent,       \* the messages 1 .. sent have been sent
    repeated,   \* the network has repeated a datagram
    got         \* the messages received

vars == <<sent, repeated, got>>

Init == sent = 0 /\ repeated = FALSE /\ got = << >>

Send   == sent' = sent + 1 /\ UNCHANGED <<repeated, got>>
Repeat == repeated' = TRUE /\ UNCHANGED <<sent, got>>

\* One step may hand over several messages.
Receive ==
    /\ Len(got') >= Len(got) /\ SubSeq(got', 1, Len(got)) = got
    /\ \A i \in Len(got) + 1 .. Len(got') : got'[i] \in 1 .. sent
    /\ repeated \/ \A i \in Len(got) + 1 .. Len(got') : i > 1 => got'[i] > got'[i - 1]
    /\ UNCHANGED <<sent, repeated>>

Next == Send \/ Repeat \/ Receive

Spec == Init /\ [][Next]_vars
====
