------------------------------ MODULE FtQueue ------------------------------
(***************************************************************************)
(* The ranked list of group members that every RvFt instance keeps         *)
(* (src/ft.cpp, FtQueue and FtPeer::is_greater): rank 1 is the primary.    *)
(*                                                                         *)
(* A peer is named by its start_ns, the key of peer_ht: an incarnation of  *)
(* a process has one, and no two have the same.  The queue is the C++      *)
(* array of pointers, ptr, together with the field every peer carries that *)
(* caches its own rank, pos (0: not in the queue).  seqno, which only ever *)
(* tells "changed since the listener was last told", is the flag news.     *)
(*                                                                         *)
(* What a rank depends on besides the constants is the state a peer last   *)
(* advertised: every operator takes it as the function v.                  *)
(***************************************************************************)
EXTENDS Integers, Sequences, FiniteSets

CONSTANTS
    Node,       \* the incarnations, by start_ns
    Weight      \* FtParameters.weight of each

ASSUME NodeAssumption ==
    /\ Node \subseteq Nat \ {0}
    /\ IsFiniteSet(Node)
    /\ Weight \in [Node -> Nat]

STATE_LISTEN    == 0
STATE_JOIN      == 1
STATE_PRIMARY   == 2
STATE_SECONDARY == 3
STATE_FINISH    == 4
FtState == 0 .. 4

Queue == [ptr : Seq(Node), pos : [Node -> Nat], news : BOOLEAN]

EmptyQueue == [ptr |-> << >>, pos |-> [p \in Node |-> 0], news |-> FALSE]

----------------------------------------------------------------------------
(* The rank order. *)

is_greater_weight(p1, p2) ==
    \/ Weight[p1] > Weight[p2]
    \/ Weight[p1] = Weight[p2] /\ p1 < p2

is_greater(v, p1, p2) ==
    \/ v[p1] > STATE_JOIN /\ ~ (v[p2] > STATE_JOIN)
    \/ /\ (v[p1] > STATE_JOIN) <=> (v[p2] > STATE_JOIN)
       /\ is_greater_weight(p1, p2)

----------------------------------------------------------------------------
(* Operations on the array. *)

Elements(ptr) == {ptr[i] : i \in 1 .. Len(ptr)}

Members(q) == Elements(q.ptr)

InQueue(q, p) == q.pos[p] # 0 /\ p \in Members(q)

\* The index of p: the cached one when it is right, else found by search.
get_pos(q, p) ==
    LET j == q.pos[p]
    IN  IF j \in 1 .. Len(q.ptr) /\ q.ptr[j] = p
        THEN j
        ELSE CHOOSE i \in 1 .. Len(q.ptr) : q.ptr[i] = p

\* pos, after the elements from index j on have been given their index.
Renumbered(pos, ptr, j) ==
    [p \in Node |->
        IF \E i \in j .. Len(ptr) : ptr[i] = p
        THEN CHOOSE i \in j .. Len(ptr) : ptr[i] = p
        ELSE pos[p]]

\* Mutant: the last element moves all the way to the front.
StopAt_front(v, ptr) == 0

\* Where the last element stops moving forward: behind the last one that
\* outranks it.
StopAt(v, ptr) ==
    CHOOSE j \in 0 .. Len(ptr) - 1 :
        /\ j = 0 \/ is_greater(v, ptr[j], ptr[Len(ptr)])
        /\ \A i \in j + 1 .. Len(ptr) - 1 : ~ is_greater(v, ptr[i], ptr[Len(ptr)])

reorder(v, q) ==
    LET n   == Len(q.ptr)
        j   == StopAt(v, q.ptr)
        ptr == [i \in 1 .. n |-> IF i <= j THEN q.ptr[i]
                                 ELSE IF i = j + 1 THEN q.ptr[n]
                                 ELSE q.ptr[i - 1]]
    IN  [ptr |-> ptr, pos |-> Renumbered(q.pos, ptr, j + 1), news |-> q.news]

insert(v, q, p) ==
    reorder(v, [ptr |-> Append(q.ptr, p), pos |-> q.pos, news |-> TRUE])

\* ptr with the element at index j taken out and the later ones moved up.
Without(ptr, j) ==
    [i \in 1 .. Len(ptr) - 1 |-> IF i < j THEN ptr[i] ELSE ptr[i + 1]]

remove(q, p) ==
    IF ~ InQueue(q, p) THEN q
    ELSE LET j   == get_pos(q, p)
             ptr == Without(q.ptr, j)
         IN  [ptr  |-> ptr,
              pos  |-> [Renumbered(q.pos, ptr, j) EXCEPT ![p] = 0],
              news |-> TRUE]

in_order2(v, q, p) ==
    LET j == q.pos[p]
    IN  /\ q.ptr[j] = p
        /\ j = 1 \/ is_greater(v, q.ptr[j - 1], p)
        /\ j = Len(q.ptr) \/ is_greater(v, p, q.ptr[j + 1])

update(v, q, p) ==
    IF ~ InQueue(q, p) THEN insert(v, q, p)
    ELSE IF in_order2(v, q, p) THEN q
    ELSE LET j   == get_pos(q, p)
             ptr == Without(q.ptr, j)
         IN  reorder(v, [ptr  |-> Append(ptr, p),
                         pos  |-> Renumbered(q.pos, ptr, j),
                         news |-> TRUE])

\* The net effect of removing every member of the set gone, one by one, as
\* trim_ft_queue's loop does: the ones kept close ranks.
remove_all(q, gone) ==
    LET kept    == Members(q) \ gone
        rank(p) == Cardinality({x \in kept : q.pos[x] <= q.pos[p]})
    IN  IF gone \cap Members(q) = {} THEN q
        ELSE [ptr  |-> [i \in 1 .. Cardinality(kept) |->
                            CHOOSE p \in kept : rank(p) = i],
              pos  |-> [p \in Node |-> IF p \in kept THEN rank(p) ELSE 0],
              news |-> TRUE]

----------------------------------------------------------------------------
(* What the rest of RvFt relies on. *)

\* Every member's cached rank is its index, and nobody is listed twice.
PosAgrees(q) ==
    /\ \A i \in 1 .. Len(q.ptr) : q.pos[q.ptr[i]] = i
    /\ \A p \in Node : q.pos[p] # 0 => p \in Members(q)

\* A member outranks every member behind it, given the states v.
Ranked(v, q) ==
    \A i, j \in 1 .. Len(q.ptr) : i < j => is_greater(v, q.ptr[i], q.ptr[j])

============================================================================
