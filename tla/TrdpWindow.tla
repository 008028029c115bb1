----------------------------- MODULE TrdpWindow -----------------------------
(***************************************************************************)
(* A window of src/mc.cpp: puts the datagrams of one sender back in order  *)
(* and passes the messages in them to the connection.  Each function is an *)
(* operator from the window before to the window after.                    *)
(*                                                                         *)
(* A datagram carries a message, or a fragment of one.  Lengths count      *)
(* units of data; the first unit of a message is its header, which names   *)
(* its size.  Times are kept as ages, up to Reliability.                   *)
(***************************************************************************)
EXTENDS Integers, Sequences, FiniteSetsExt, SequencesExt

CONSTANTS
    Modulus,       \* sequence numbers are modulo this (2^32), which is even
    Reliability,   \* reliability_ns
    MaxPkts        \* datagrams of the sender

ASSUME WindowAssumption ==
    /\ Modulus \in Nat \ {0} /\ Modulus % 2 = 0
    /\ Reliability \in Nat \ {0} /\ MaxPkts \in Nat

NotSet == -1

\* idx tells datagrams apart in the properties; nothing below looks at it.
Pkt == [idx : 0 .. MaxPkts, seqno : 0 .. Modulus - 1, msg : Nat, frag_num : Nat,
        data_len : Nat \ {0}, total_len : Nat \ {0}]

\* list: the saved datagrams with their ages; out: output_buf, as the datagrams
\* copied to it, len and off the output_len and output_off; mono: the age of
\* last_mono_time, NotSet before the first datagram; recv: what recv_msg was given
Window == [last_seqno : 0 .. Modulus - 1, last_recv_seqno : 0 .. Modulus - 1,
           mono : 0 .. Reliability \cup {NotSet},
           list : Seq([p : Pkt, age : 0 .. Reliability]),
           out  : Seq(Pkt), len : Nat, off : Nat, recv : Seq(Seq(Pkt)),
           lost : Nat, repeat : Nat, reorder : Nat, nak : Nat,
           fault : {"none", "spin"}]

NewWindow ==
    [last_seqno |-> 0, last_recv_seqno |-> 0, mono |-> NotSet, list |-> << >>,
     out |-> << >>, len |-> 0, off |-> 0, recv |-> << >>,
     lost |-> 0, repeat |-> 0, reorder |-> 0, nak |-> 0, fault |-> "none"]

\* Mutant: sequence numbers do not wrap.
Plus1_unbounded(n) == n + 1

Plus1(n) == (n + 1) % Modulus

seqno_diff(a, b) == ((a - b + Modulus \div 2) % Modulus) - Modulus \div 2

Abs(n) == IF n < 0 THEN -n ELSE n

-----------------------------------------------------------------------------
(* Without the start of a message to go by, the search for its magic       *)
(* number does not move: it never ends.                                    *)
output(w, p) ==
    CASE w.fault # "none" -> w
      [] w.fault = "none" /\ w.len # 0 /\ w.off + p.data_len < w.len ->
           [w EXCEPT !.out = Append(@, p), !.off = @ + p.data_len]
      [] w.fault = "none" /\ w.len # 0 /\ w.off + p.data_len = w.len ->
           [w EXCEPT !.recv = Append(@, Append(w.out, p)), !.out = << >>, !.off = 0, !.len = 0]
      [] w.fault = "none" /\ w.len # 0 /\ w.off + p.data_len > w.len -> w
      [] w.fault = "none" /\ w.len = 0 /\ p.frag_num # 0 -> [w EXCEPT !.fault = "spin"]
      [] w.fault = "none" /\ w.len = 0 /\ p.frag_num = 0 /\ p.total_len <= p.data_len ->
           [w EXCEPT !.recv = Append(@, <<p>>)]
      [] OTHER -> [w EXCEPT !.out = <<p>>, !.off = p.data_len, !.len = p.total_len]

OutputAll(w, ps) == FoldLeft(LAMBDA acc, e : output(acc, e.p), w, ps)

\* Mutant: a saved datagram is saved again when it is repeated.
insert_repeats(list, p) ==
    LET i == Cardinality({k \in DOMAIN list : list[k].p.seqno <= p.seqno})
    IN  SubSeq(list, 1, i) \o <<[p |-> p, age |-> 0]>> \o SubSeq(list, i + 1, Len(list))

\* The place of a datagram is found by its number as it stands, modulo 2^32.
insert(list, p) ==
    LET i == Cardinality({k \in DOMAIN list : list[k].p.seqno < p.seqno})
    IN  IF \E k \in DOMAIN list : list[k].p.seqno = p.seqno THEN list
        ELSE SubSeq(list, 1, i) \o <<[p |-> p, age |-> 0]>> \o SubSeq(list, i + 1, Len(list))

\* Mutant: fragments are joined across a gap.
Contiguous_never_checked(list, i, j) == TRUE

Contiguous(list, i, j) == \A k \in i .. j - 1 : list[k + 1].p.seqno = Plus1(list[k].p.seqno)

Length(list, i, j) == FoldLeft(LAMBDA n, e : n + e.p.data_len, 0, SubSeq(list, i, j))

\* Mutant: a message of one datagram is not seen to be complete.
Ends_of_fragments(list, i) ==
    {j \in i + 1 .. Len(list) : Contiguous(list, i, j) /\ Length(list, i, j) = list[i].p.total_len}

\* The message that starts at i of the list is complete at j.
Ends(list, i) ==
    {j \in i .. Len(list) : Contiguous(list, i, j) /\ Length(list, i, j) = list[i].p.total_len}

\* How many datagrams at the head of the list make complete messages.  When a
\* message is not, the loop ends only if it went on to another of its fragments.
Scan(list) ==
    LET n == Len(list)
        scan[i \in 1 .. n + 1] ==
            CASE i = n + 1 \/ (i \in 2 .. n /\ ~ Contiguous(list, i - 1, i)) -> [pop |-> i - 1, spin |-> FALSE]
              [] i \in 1 .. n /\ (i > 1 => Contiguous(list, i - 1, i)) /\ Ends(list, i) # {} ->
                   scan[Min(Ends(list, i)) + 1]
              [] OTHER -> [pop |-> i - 1, spin |-> ~ (i < n /\ Contiguous(list, i, i + 1))]
    IN  scan[1]

merge(w, p) ==
    LET d    == [w EXCEPT !.list = insert(@, p)]
        is   == d.list = w.list
        head == d.list[1].p.seqno
        gap  == seqno_diff(head, Plus1(w.last_seqno))
        skip == IF gap = 0 THEN d
                ELSE [d EXCEPT !.lost = @ + Abs(gap), !.last_seqno = (head - 1) % Modulus, !.len = 0]
        s    == Scan(d.list)
        ps   == SubSeq(d.list, 1, s.pop)
    IN  CASE is -> [w EXCEPT !.repeat = @ + 1]
          [] ~ is /\ (Len(d.list) = 1 \/ (gap # 0 /\ w.mono < Reliability)) -> d
          [] ~ is /\ Len(d.list) > 1 /\ (gap = 0 \/ w.mono >= Reliability) /\ s.spin ->
               [skip EXCEPT !.fault = "spin"]
          [] ~ is /\ Len(d.list) > 1 /\ (gap = 0 \/ w.mono >= Reliability) /\ ~ s.spin /\ s.pop = 0 -> skip
          [] OTHER ->
               OutputAll([skip EXCEPT !.list = SubSeq(@, s.pop + 1, Len(@)),
                                      !.last_seqno = ps[s.pop].p.seqno,
                                      !.mono = ps[s.pop].age], ps)

\* Mutant: a datagram that comes too late is handed over.
process_msg_takes_late(w, p) ==
    LET d    == [w EXCEPT !.last_recv_seqno = p.seqno]
        diff == seqno_diff(p.seqno, w.last_seqno)
    IN  CASE w.mono = NotSet -> output([d EXCEPT !.last_seqno = p.seqno, !.mono = 0], p)
          [] w.mono # NotSet /\ diff > 1 -> merge(d, p)
          [] OTHER -> [output(d, p) EXCEPT !.last_seqno = p.seqno, !.mono = 0]

process_msg(w, p) ==
    LET d    == [w EXCEPT !.last_recv_seqno = p.seqno,
                          !.reorder = IF seqno_diff(p.seqno, w.last_recv_seqno) > 1 THEN @ + 1 ELSE @]
        diff == seqno_diff(p.seqno, w.last_seqno)
    IN  CASE w.mono = NotSet /\ p.frag_num # 0 -> w
          [] w.mono = NotSet /\ p.frag_num = 0 ->
               output([w EXCEPT !.last_seqno = p.seqno, !.last_recv_seqno = p.seqno, !.mono = 0], p)
          [] w.mono # NotSet /\ diff <= 0 -> [d EXCEPT !.repeat = @ + 1]
          [] w.mono # NotSet /\ (diff > 1 \/ (diff = 1 /\ p.total_len # p.data_len)) -> merge(d, p)
          [] OTHER -> [output(d, p) EXCEPT !.last_seqno = Plus1(@), !.mono = 0]

\* A NAK is counted, whoever it is for.
process_nak(w) == [w EXCEPT !.nak = @ + 1]

\* Time passes.
Aged(w) ==
    LET older(n) == IF n < Reliability THEN n + 1 ELSE n
    IN  [w EXCEPT !.mono = IF @ = NotSet THEN @ ELSE older(@),
                  !.list = [k \in DOMAIN @ |-> [@[k] EXCEPT !.age = older(@)]]]
====
