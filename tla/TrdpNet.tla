------------------------------ MODULE TrdpNet -------------------------------
(***************************************************************************)
(* A sender of datagrams, a network that loses, repeats and reorders them, *)
(* and the window of TrdpWindow that receives them.                        *)
(***************************************************************************)
EXTENDS TrdpWindow

CONSTANTS
    Pkts,      \* the sender's datagrams, in order
    Budget     \* how many datagrams may be lost, repeated and asked for again

VARIABLES
    w,         \* the window
    sent,      \* datagrams sent
    net,       \* copies of each datagram on their way
    repeated,  \* a datagram has been sent again
    left       \* what remains of the budget

vars == <<w, sent, net, repeated, left>>

ASSUME NetAssumption ==
    /\ Pkts \in Seq(Pkt) /\ Len(Pkts) = MaxPkts
    /\ \A i \in DOMAIN Pkts : Pkts[i].idx = i
    /\ Budget \in [{"lose", "repeat", "nak"} -> Nat]

Spend(k) == left[k] > 0 /\ left' = [left EXCEPT ![k] = @ - 1]

Send ==
    /\ sent < MaxPkts
    /\ sent' = sent + 1
    /\ net' = [net EXCEPT ![sent'] = 1]
    /\ UNCHANGED <<w, repeated, left>>

Repeat(i) ==
    /\ i <= sent /\ Spend("repeat")
    /\ net' = [net EXCEPT ![i] = @ + 1]
    /\ repeated' = TRUE
    /\ UNCHANGED <<w, sent>>

Lose(i) ==
    /\ net[i] > 0 /\ Spend("lose")
    /\ net' = [net EXCEPT ![i] = @ - 1]
    /\ UNCHANGED <<w, sent, repeated>>

\* UdpSvc::process: datagrams in the order in which they arrive.
Receive(i) ==
    /\ net[i] > 0 /\ w.fault = "none"
    /\ net' = [net EXCEPT ![i] = @ - 1]
    /\ w' = process_msg(w, Pkts[i])
    /\ UNCHANGED <<sent, repeated, left>>

Nak ==
    /\ w.fault = "none" /\ Spend("nak")
    /\ w' = process_nak(w)
    /\ UNCHANGED <<sent, net, repeated>>

Tick == w' = Aged(w) /\ w' # w /\ UNCHANGED <<sent, net, repeated, left>>

Init ==
    /\ w = NewWindow /\ sent = 0 /\ repeated = FALSE
    /\ net = [i \in 1 .. MaxPkts |-> 0]
    /\ left = Budget

Next ==
    \/ Send \/ Nak \/ Tick
    \/ \E i \in 1 .. MaxPkts : Repeat(i) \/ Lose(i) \/ Receive(i)

Spec == Init /\ [][Next]_vars

-----------------------------------------------------------------------------
(* Properties.                                                             *)

\* Type correctness: numbers stay below the modulus, ages and counts in range.
TypeOK ==
    /\ w \in Window /\ sent \in 0 .. MaxPkts /\ repeated \in BOOLEAN
    /\ net \in [1 .. MaxPkts -> Nat] /\ left \in [{"lose", "repeat", "nak"} -> Nat]

\* What recv_msg is given is one whole message: its fragments, all of them, in
\* their order, whatever was lost, repeated or reordered, and wherever in a
\* message the window began to listen (output, merge).
Intact ==
    \A k \in DOMAIN w.recv :
        LET m == w.recv[k]
        IN  /\ m[1].frag_num = 0 /\ Length([i \in DOMAIN m |-> [p |-> m[i]]], 1, Len(m)) = m[1].total_len
            /\ \A i \in DOMAIN m : m[i].msg = m[1].msg /\ m[i].frag_num = i - 1

\* No two saved datagrams are the same one, and none saved was handed over, as
\* long as the network repeats nothing.
SavedOnce ==
    /\ \A j, k \in DOMAIN w.list : j < k => w.list[j].p.seqno < w.list[k].p.seqno
    /\ ~ repeated => \A j \in DOMAIN w.list, k \in DOMAIN w.recv :
                        w.list[j].p \notin {w.recv[k][i] : i \in DOMAIN w.recv[k]}

\* The loops of merge and output end as long as no fragment has arrived: whole
\* messages alone, whatever becomes of them, never hang the receiver.
SpinsOnFragments ==
    w.fault = "spin" =>
        \E i \in 1 .. sent : Pkts[i].total_len # Pkts[i].data_len /\ (net[i] = 0 \/ repeated)

\* The window keeps the promise of Stream: what it hands over (recv_msg) is sent
\* messages, in order and at most once, across the wrap of the sequence numbers.
MsgsSent == IF sent = 0 THEN 0 ELSE Pkts[sent].msg
Promise  == INSTANCE Stream WITH sent <- MsgsSent, got <- [k \in DOMAIN w.recv |-> w.recv[k][1].msg]
KeepsPromise == Promise!Spec
====
