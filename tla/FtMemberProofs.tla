--------------------------- MODULE FtMemberProofs ---------------------------
(***************************************************************************)
(* What every handler of FtMember preserves, whatever the intervals, the   *)
(* weights and the number of members: the queue is ranked and its cached   *)
(* positions are right, it holds exactly the known peers and the member,   *)
(* and the counts are the numbers of members in each state.                *)
(***************************************************************************)
EXTENDS FtMember, FtQueueProofs

\* The positions are right and, until the member has left, so is the order.
OrderOK(n, s) ==
    /\ PosAgrees(s.q)
    /\ s.view[n] # STATE_FINISH => InOrder(s.view, s.q.ptr)

\* The queue holds the peers of ht and, unless it is listening, the member.
GroupOK(n, s) ==
    /\ Members(s.q) \ {n} = s.ht
    /\ n \notin s.ht
    /\ n \in Members(s.q) => s.view[n] # STATE_LISTEN
    /\ s.view[n] \notin {STATE_LISTEN, STATE_FINISH} => n \in Members(s.q)
    /\ \A p \in Node \ {n} : p \in s.ht <=> s.view[p] # STATE_LISTEN

InState(view, k) == {p \in Node : view[p] = k}

CountOK(s) == \A k \in Counted : s.cnt[k] = Cardinality(InState(s.view, k))

\* What is about to be sent says who sent it, and no ACK goes to oneself.
SentOK(n, s) ==
    /\ \A i \in 1 .. Len(s.out) : s.out[i].from = n
    /\ s.ack # n

\* A member that has left has no timer running and has said so; the join
\* timer runs only while the member is listening.
TimersOK(n, s) ==
    /\ s.view[n] = STATE_FINISH => s.told = "FINISH" /\ \A t \in Timer : s.tm[t] = NotSet
    /\ s.tm["join"] # NotSet => s.view[n] = STATE_LISTEN

Sound(n, s) ==
    /\ s \in Member
    /\ OrderOK(n, s)
    /\ GroupOK(n, s)
    /\ CountOK(s)
    /\ SentOK(n, s)
    /\ TimersOK(n, s)

\* s and t have the same group.
SameGroup(s, t) ==
    /\ t.view = s.view
    /\ t.ht = s.ht
    /\ t.cnt = s.cnt
    /\ t.q.ptr = s.q.ptr
    /\ t.q.pos = s.q.pos

----------------------------------------------------------------------------

\* The fields of a member and their types.
LEMMA MemberFields ==
    ASSUME NEW s \in Member
    PROVE  /\ s.up \in {"idle", "run", "gone"} /\ s.view \in View /\ s.ht \in SUBSET Node
           /\ s.rcv \in [Node -> Age] /\ s.age \in Age /\ s.q \in Queue
           /\ s.cnt \in [Counted -> Int] /\ s.iv \in Interval
           /\ s.oldest \in Node \cup {NoPeer} /\ s.tm \in [Timer -> Age \cup {NotSet}]
           /\ s.told \in Told \cup {"NONE"} /\ s.sub \in BOOLEAN
           /\ s.out \in Seq(Msg) /\ s.ack \in Node \cup {NoPeer}
  BY DEF Member, View

\* Zero is an age.
LEMMA ZeroAge == 0 \in Age
  BY ParamAssumption DEF Age

\* What depends on the group only carries over.
LEMMA SameGroupOK ==
    ASSUME NEW n \in Node, NEW s \in Member, NEW t \in Member, SameGroup(s, t)
    PROVE  /\ OrderOK(n, s) => OrderOK(n, t)
           /\ GroupOK(n, s) => GroupOK(n, t)
           /\ CountOK(s) => CountOK(t)
  BY DEF SameGroup, OrderOK, GroupOK, CountOK, PosAgrees, Members

----------------------------------------------------------------------------
(* Operations that leave the group alone. *)

\* Telling the listener changes nothing else.
LEMMA NotifySame ==
    ASSUME NEW s \in Member, NEW action
    PROVE  LET t == notify_change(s, action) IN
           /\ t \in Member /\ SameGroup(s, t)
           /\ t.out = s.out /\ t.tm = s.tm /\ t.ack = s.ack /\ t.iv = s.iv /\ t.up = s.up
           /\ t.told = IF action \in Told THEN action ELSE s.told
           /\ ~ t.q.news
<1>1. [s.q EXCEPT !.news = FALSE] \in Queue
  BY DEF Member, Queue
<1> QED  BY <1>1 DEF notify_change, Member, SameGroup, Queue

\* Telling a member that has not left anything, or one that leaves FINISH.
LEMMA NotifySound ==
    ASSUME NEW n \in Node, NEW s, Sound(n, s), NEW action,
           s.view[n] = STATE_FINISH => action = "FINISH" \/ action \notin Told
    PROVE  Sound(n, notify_change(s, action))
<1>1. PICK t : t = notify_change(s, action)
  OBVIOUS
<1>2. /\ s \in Member /\ t \in Member /\ SameGroup(s, t) /\ t.out = s.out /\ t.ack = s.ack /\ t.tm = s.tm
      /\ t.told = IF action \in Told THEN action ELSE s.told
  BY <1>1, NotifySame DEF Sound
<1>3. OrderOK(n, t) /\ GroupOK(n, t) /\ CountOK(t)
  BY <1>2, SameGroupOK DEF Sound
<1>4. SentOK(n, t) /\ TimersOK(n, t)
  BY <1>2 DEF Sound, SentOK, TimersOK, SameGroup
<1> QED  BY <1>1, <1>2, <1>3, <1>4 DEF Sound

\* What a member sends is a message of its own.
LEMMA SendSame ==
    ASSUME NEW n \in Node, NEW s \in Member, SentOK(n, s), NEW type \in MsgType
    PROVE  LET t == send_msg(s, n, type) IN
           /\ t \in Member /\ SameGroup(s, t) /\ SentOK(n, t)
           /\ t.tm = s.tm /\ t.ack = s.ack /\ t.iv = s.iv /\ t.up = s.up
           /\ t.told = s.told /\ t.q = s.q
<1>1. PICK m : m = message(s, n, type)
  OBVIOUS
<1>2. m \in Msg /\ m.from = n
  BY <1>1 DEF message, Msg, Member
<1>3. s.out \in Seq(Msg)
  BY DEF Member
<1>4. PICK out : out = Append(s.out, m)
  OBVIOUS
<1>5. out \in Seq(Msg) /\ \A i \in 1 .. Len(out) : out[i].from = n
  BY <1>2, <1>3, <1>4 DEF SentOK
<1>6. send_msg(s, n, type) = [s EXCEPT !.out = out]
  BY <1>1, <1>4 DEF send_msg, Member
<1> QED  BY <1>5, <1>6 DEF Member, SentOK, SameGroup

\* Publishing keeps a member sound.
LEMMA SendSound ==
    ASSUME NEW n \in Node, NEW s, Sound(n, s), NEW type \in MsgType
    PROVE  Sound(n, send_msg(s, n, type)) /\ send_msg(s, n, type).view = s.view
<1>1. PICK t : t = send_msg(s, n, type)
  OBVIOUS
<1>2. /\ s \in Member /\ t \in Member /\ SameGroup(s, t) /\ SentOK(n, t) /\ t.tm = s.tm
      /\ t.told = s.told
  BY <1>1, SendSame DEF Sound
<1>3. OrderOK(n, t) /\ GroupOK(n, t) /\ CountOK(t)
  BY <1>2, SameGroupOK DEF Sound
<1>4. TimersOK(n, t) /\ t.view = s.view
  BY <1>2 DEF Sound, TimersOK, SameGroup
<1> QED  BY <1>1, <1>2, <1>3, <1>4 DEF Sound

\* Setting and clearing timers of a member that has not left.
LEMMA TimerSound ==
    ASSUME NEW n \in Node, NEW s, Sound(n, s), NEW tm \in [Timer -> Age \cup {NotSet}],
           s.view[n] = STATE_FINISH => \A t \in Timer : tm[t] = NotSet,
           tm["join"] # NotSet => s.view[n] = STATE_LISTEN
    PROVE  /\ Sound(n, [s EXCEPT !.tm = tm])
           /\ [s EXCEPT !.tm = tm].view = s.view /\ [s EXCEPT !.tm = tm].q = s.q
<1>1. PICK t : t = [s EXCEPT !.tm = tm]
  OBVIOUS
<1>2. /\ s \in Member /\ t \in Member /\ SameGroup(s, t) /\ t.out = s.out /\ t.ack = s.ack /\ t.tm = tm
      /\ t.told = s.told /\ t.q = s.q
  BY <1>1 DEF Sound, Member, SameGroup
<1>3. OrderOK(n, t) /\ GroupOK(n, t) /\ CountOK(t)
  BY <1>2, SameGroupOK DEF Sound
<1>4. SentOK(n, t) /\ TimersOK(n, t)
  BY <1>2 DEF Sound, SentOK, TimersOK, SameGroup
<1> QED  BY <1>1, <1>2, <1>3, <1>4 DEF Sound, SameGroup

----------------------------------------------------------------------------
(* Counting. *)

\* Moving one member from its state to another moves one in the counts.
LEMMA CountMoves ==
    ASSUME NEW view \in View, NEW p \in Node, NEW state \in FtState, NEW k
    PROVE  Cardinality(InState([view EXCEPT ![p] = state], k))
             = Cardinality(InState(view, k))
                 - (IF view[p] = k THEN 1 ELSE 0) + (IF state = k THEN 1 ELSE 0)
<1>1. PICK new : new = [view EXCEPT ![p] = state]
  OBVIOUS
<1>2. \A x \in Node : new[x] = IF x = p THEN state ELSE view[x]
  BY <1>1 DEF View
<1>3. PICK A, B : A = InState(view, k) /\ B = InState(new, k)
  OBVIOUS
<1>4. IsFiniteSet(A) /\ Cardinality(A) \in Nat
  <2>1. A \in SUBSET Node
    BY <1>3 DEF InState
  <2>2. IsFiniteSet(A)
    BY <2>1, NodeAssumption, FS_Subset
  <2> QED  BY <2>2, FS_CardinalityType
<1>5. Cardinality(B) = Cardinality(A) - (IF view[p] = k THEN 1 ELSE 0)
                                      + (IF state = k THEN 1 ELSE 0)
  <2>1. CASE view[p] = k /\ state = k
    <3>1. A = B
      BY <1>2, <1>3, <2>1 DEF InState
    <3> QED  BY <1>4, <2>1, <3>1
  <2>2. CASE view[p] # k /\ state # k
    <3>1. A = B
      BY <1>2, <1>3, <2>2 DEF InState
    <3> QED  BY <1>4, <2>2, <3>1
  <2>3. CASE view[p] = k /\ state # k
    <3>1. B = A \ {p} /\ p \in A
      BY <1>2, <1>3, <2>3 DEF InState
    <3>2. Cardinality(B) = Cardinality(A) - 1
      BY <1>4, <3>1, FS_RemoveElement
    <3> QED  BY <1>4, <2>3, <3>2
  <2>4. CASE view[p] # k /\ state = k
    <3>1. B = A \cup {p} /\ p \notin A
      BY <1>2, <1>3, <2>4 DEF InState
    <3>2. Cardinality(B) = Cardinality(A) + 1
      BY <1>4, <3>1, FS_AddElement
    <3> QED  BY <1>4, <2>4, <3>2
  <2> QED  BY <2>1, <2>2, <2>3, <2>4
<1> QED  BY <1>1, <1>3, <1>5

\* update_state changes one state and keeps the counts right.
LEMMA UpdateState ==
    ASSUME NEW s \in Member, NEW p \in Node, NEW state \in FtState
    PROVE  LET t == update_state(s, p, state) IN
           /\ t \in Member /\ t.view = [s.view EXCEPT ![p] = state]
           /\ CountOK(s) => CountOK(t)
           /\ t.q = s.q /\ t.ht = s.ht /\ t.tm = s.tm /\ t.out = s.out /\ t.told = s.told
           /\ t.ack = s.ack /\ t.iv = s.iv /\ t.up = s.up /\ t.rcv = s.rcv
<1>1. PICK cnt : cnt = CountUpdate(s.cnt, s.view[p], state)
  OBVIOUS
<1>2. s.view \in View /\ s.cnt \in [Counted -> Int]
  BY MemberFields
<1>3. cnt \in [Counted -> Int]
  BY <1>1, <1>2 DEF CountUpdate
<1>4. PICK view : view = [s.view EXCEPT ![p] = state]
  OBVIOUS
<1>5. view \in [Node -> FtState]
  BY <1>2, <1>4 DEF View
<1>6. PICK t : t = update_state(s, p, state)
  OBVIOUS
<1>7. t = [s EXCEPT !.cnt = cnt, !.view = view]
  BY <1>1, <1>4, <1>6 DEF update_state, Member
<1>8. /\ t \in Member /\ t.view = view /\ t.cnt = cnt
      /\ t.q = s.q /\ t.ht = s.ht /\ t.tm = s.tm /\ t.out = s.out /\ t.told = s.told
      /\ t.ack = s.ack /\ t.iv = s.iv /\ t.up = s.up /\ t.rcv = s.rcv
  BY <1>3, <1>5, <1>7 DEF Member
<1>9. ASSUME CountOK(s), NEW k \in Counted
      PROVE  t.cnt[k] = Cardinality(InState(t.view, k))
  <2>1. cnt[k] = s.cnt[k] - (IF s.view[p] = k THEN 1 ELSE 0) + (IF state = k THEN 1 ELSE 0)
    BY <1>1 DEF CountUpdate
  <2>2. s.cnt[k] = Cardinality(InState(s.view, k))
    BY <1>9 DEF CountOK
  <2>3. Cardinality(InState(view, k))
             = Cardinality(InState(s.view, k))
                 - (IF s.view[p] = k THEN 1 ELSE 0) + (IF state = k THEN 1 ELSE 0)
    BY <1>2, <1>4, CountMoves
  <2> QED  BY <1>8, <2>1, <2>2, <2>3
<1> QED  BY <1>4, <1>6, <1>8, <1>9 DEF CountOK

----------------------------------------------------------------------------
(* Operations that change the group. *)

\* A change of one member's state puts at most that member out of order.
LEMMA OneMoves ==
    ASSUME NEW view \in View, NEW ptr \in Seq(Node), NEW p \in Node, NEW state \in FtState,
           InOrder(view, ptr)
    PROVE  LET new == [view EXCEPT ![p] = state] IN
           /\ new \in View
           /\ InOrderBut(new, ptr, p)
           /\ (view[p] > STATE_JOIN <=> state > STATE_JOIN) => InOrder(new, ptr)
           /\ p \notin Elements(ptr) => InOrder(new, ptr)
<1>1. PICK new : new = [view EXCEPT ![p] = state]
  OBVIOUS
<1>2. new \in View /\ \A x \in Node : new[x] = IF x = p THEN state ELSE view[x]
  BY <1>1 DEF View
<1>3. Elements(ptr) \subseteq Node
  BY DEF Elements
<1>4. InOrderBut(new, ptr, p)
  <2>1. \A x \in Elements(ptr) : x \notin {p} => (view[x] > STATE_JOIN <=> new[x] > STATE_JOIN)
    BY <1>2, <1>3
  <2>2. InOrderButAll(new, ptr, {p})
    BY <2>1, InOrderSameView
  <2> QED  BY <2>2, InOrderCases
<1>5. ASSUME view[p] > STATE_JOIN <=> state > STATE_JOIN PROVE InOrder(new, ptr)
  <2>1. \A x \in Elements(ptr) : x \notin {} => (view[x] > STATE_JOIN <=> new[x] > STATE_JOIN)
    BY <1>2, <1>3, <1>5
  <2>2. InOrderButAll(new, ptr, {})
    BY <2>1, InOrderSameView
  <2> QED  BY <2>2, InOrderCases
<1>6. ASSUME p \notin Elements(ptr) PROVE InOrder(new, ptr)
  BY <1>2, <1>4, <1>6, InOrderButNobody
<1> QED  BY <1>1, <1>2, <1>4, <1>5, <1>6

\* Replacing the queue of a member.
LEMMA SetQueue ==
    ASSUME NEW t \in Member, NEW q \in Queue
    PROVE  LET r == [t EXCEPT !.q = q] IN
           /\ r \in Member /\ r.q = q /\ r.view = t.view /\ r.ht = t.ht /\ r.cnt = t.cnt
           /\ r.tm = t.tm /\ r.out = t.out /\ r.told = t.told /\ r.ack = t.ack
           /\ r.iv = t.iv /\ r.up = t.up /\ r.rcv = t.rcv
  BY DEF Member

\* A joining or joined member becomes primary or secondary.
LEMMA EnterSound ==
    ASSUME NEW n \in Node, NEW s, Sound(n, s), NEW state \in {STATE_PRIMARY, STATE_SECONDARY},
           s.view[n] \in {STATE_JOIN, STATE_PRIMARY, STATE_SECONDARY}
    PROVE  LET r == enter(s, n, state) IN
           /\ Sound(n, r) /\ r.view[n] = state /\ r.told = s.told /\ r.tm = s.tm
           /\ r.iv = s.iv /\ r.up = s.up
<1> USE DEF STATE_LISTEN, STATE_JOIN, STATE_PRIMARY, STATE_SECONDARY, STATE_FINISH
<1>1. s \in Member /\ OrderOK(n, s) /\ GroupOK(n, s) /\ CountOK(s) /\ SentOK(n, s) /\ TimersOK(n, s)
  BY DEF Sound
<1>2. s.view \in View /\ s.q \in Queue /\ state \in FtState /\ PosAgrees(s.q)
        /\ InOrder(s.view, s.q.ptr)
  BY <1>1, MemberFields DEF FtState, OrderOK
<1>3. PICK t : t = update_state(s, n, state)
  OBVIOUS
<1>4. /\ t \in Member /\ t.view = [s.view EXCEPT ![n] = state] /\ CountOK(t)
      /\ t.q = s.q /\ t.ht = s.ht /\ t.tm = s.tm /\ t.out = s.out /\ t.ack = s.ack /\ t.told = s.told
      /\ t.iv = s.iv /\ t.up = s.up
  BY <1>1, <1>2, <1>3, UpdateState
<1>5. /\ t.view \in View /\ t.view[n] = state
      /\ \A p \in Node \ {n} : t.view[p] = s.view[p]
  BY <1>2, <1>4 DEF View
<1>6. n \in Members(s.q) /\ s.q.ptr \in Seq(Node)
  BY <1>1, <1>2, QueueParts DEF GroupOK
<1>7. PICK r : r = enter(s, n, state)
  OBVIOUS
<1>8. /\ r \in Member /\ r.view = t.view /\ r.ht = s.ht /\ r.tm = s.tm /\ r.out = s.out /\ r.ack = s.ack
      /\ r.told = s.told /\ r.cnt = t.cnt /\ r.iv = s.iv /\ r.up = s.up
      /\ PosAgrees(r.q) /\ Members(r.q) = Members(s.q) /\ InOrder(r.view, r.q.ptr)
  <2>1. CASE s.view[n] = STATE_JOIN
    <3>1. PICK q : q = update(t.view, s.q, n)
      OBVIOUS
    <3>2. r = [t EXCEPT !.q = q]
      BY <1>3, <1>4, <1>7, <2>1, <3>1 DEF enter, Member
    <3>3. InOrderBut(t.view, s.q.ptr, n)
      BY <1>2, <1>4, <1>6, OneMoves
    <3>4. /\ q \in Queue /\ PosAgrees(q) /\ Members(q) = Members(s.q) \cup {n}
          /\ InOrder(t.view, q.ptr)
      BY <1>2, <1>5, <3>1, <3>3, UpdateCorrect
    <3>5. Members(q) = Members(s.q)
      BY <1>6, <3>4
    <3> QED  BY <1>4, <3>2, <3>4, <3>5, SetQueue
  <2>2. CASE s.view[n] # STATE_JOIN
    <3>1. r = t
      BY <1>3, <1>7, <2>2 DEF enter
    <3>2. s.view[n] > STATE_JOIN <=> state > STATE_JOIN
      BY <2>2
    <3>3. InOrder(t.view, s.q.ptr)
      BY <1>2, <1>4, <1>6, <3>2, OneMoves
    <3> QED  BY <1>2, <1>4, <3>1, <3>3
  <2> QED  BY <2>1, <2>2
<1>9. OrderOK(n, r)
  BY <1>8 DEF OrderOK
<1>10. GroupOK(n, r)
  BY <1>1, <1>5, <1>6, <1>8 DEF GroupOK
<1>11. CountOK(r) /\ SentOK(n, r) /\ TimersOK(n, r)
  BY <1>1, <1>4, <1>5, <1>8 DEF CountOK, SentOK, TimersOK
<1> QED  BY <1>5, <1>7, <1>8, <1>9, <1>10, <1>11 DEF Sound

\* A listening member joins.
LEMMA JoinEnters ==
    ASSUME NEW n \in Node, NEW s, Sound(n, s), s.view[n] = STATE_LISTEN,
           s.tm["join"] = NotSet
    PROVE  LET t == enter(s, n, STATE_JOIN)
               r == [t EXCEPT !.q = insert(t.view, @, n)]
           IN  /\ Sound(n, r) /\ r.view[n] = STATE_JOIN /\ r.told = s.told /\ r.tm = s.tm
               /\ r.iv = s.iv /\ r.up = s.up
<1> USE DEF STATE_LISTEN, STATE_JOIN, STATE_PRIMARY, STATE_SECONDARY, STATE_FINISH
<1>1. s \in Member /\ OrderOK(n, s) /\ GroupOK(n, s) /\ CountOK(s) /\ SentOK(n, s) /\ TimersOK(n, s)
  BY DEF Sound
<1>2. s.view \in View /\ s.q \in Queue /\ STATE_JOIN \in FtState /\ PosAgrees(s.q)
        /\ InOrder(s.view, s.q.ptr)
  BY <1>1, MemberFields DEF FtState, OrderOK
<1>3. PICK t : t = enter(s, n, STATE_JOIN)
  OBVIOUS
<1>4. /\ t \in Member /\ t.view = [s.view EXCEPT ![n] = STATE_JOIN] /\ CountOK(t)
      /\ t.q = s.q /\ t.ht = s.ht /\ t.tm = s.tm /\ t.out = s.out /\ t.ack = s.ack /\ t.told = s.told
      /\ t.iv = s.iv /\ t.up = s.up
  <2>1. t = update_state(s, n, STATE_JOIN)
    BY <1>3 DEF enter
  <2> QED  BY <1>1, <1>2, <2>1, UpdateState
<1>5. /\ t.view \in View /\ t.view[n] = STATE_JOIN
      /\ \A p \in Node \ {n} : t.view[p] = s.view[p]
  BY <1>2, <1>4 DEF View
<1>6. n \notin Members(s.q) /\ s.q.ptr \in Seq(Node) /\ Members(s.q) = Elements(s.q.ptr)
  BY <1>1, <1>2, QueueParts DEF GroupOK
<1>7. PICK q : q = insert(t.view, s.q, n)
  OBVIOUS
<1>8. InOrder(t.view, s.q.ptr)
  BY <1>2, <1>4, <1>6, OneMoves
<1>9. /\ q \in Queue /\ PosAgrees(q) /\ Members(q) = Members(s.q) \cup {n}
      /\ InOrder(t.view, q.ptr)
  BY <1>2, <1>5, <1>6, <1>7, <1>8, InsertCorrect
<1>10. PICK r : r = [t EXCEPT !.q = q]
  OBVIOUS
<1>11. r = [t EXCEPT !.q = insert(t.view, @, n)]
  BY <1>4, <1>7, <1>10 DEF Member
<1>12. /\ r \in Member /\ r.view = t.view /\ r.ht = s.ht /\ r.tm = s.tm /\ r.out = s.out /\ r.ack = s.ack
       /\ r.told = s.told /\ r.cnt = t.cnt /\ r.q = q /\ r.iv = s.iv /\ r.up = s.up
  BY <1>4, <1>9, <1>10, SetQueue
<1>13. OrderOK(n, r)
  BY <1>9, <1>12 DEF OrderOK
<1>14. GroupOK(n, r)
  BY <1>1, <1>5, <1>6, <1>9, <1>12 DEF GroupOK
<1>15. CountOK(r) /\ SentOK(n, r) /\ TimersOK(n, r)
  BY <1>1, <1>4, <1>5, <1>12 DEF CountOK, SentOK, TimersOK
<1>16. Sound(n, r)
  BY <1>12, <1>13, <1>14, <1>15 DEF Sound
<1> QED  BY <1>3, <1>5, <1>11, <1>12, <1>16

\* stop_timers touches timers only.
LEMMA StopTimers ==
    ASSUME NEW s \in Member
    PROVE  LET t == stop_timers(s) IN
           /\ t \in Member /\ t.view = s.view /\ t.ht = s.ht /\ t.cnt = s.cnt /\ t.q = s.q
           /\ t.out = s.out /\ t.told = s.told /\ t.iv = s.iv /\ t.up = s.up
           /\ t.ack = s.ack
           /\ \A x \in Timer \ {"hb"} : t.tm[x] = NotSet
<1>1. PICK tm : tm = [t \in Timer |-> IF t = "hb" THEN s.tm[t] ELSE NotSet]
  OBVIOUS
<1>2. tm \in [Timer -> Age \cup {NotSet}] /\ \A x \in Timer \ {"hb"} : tm[x] = NotSet
  BY <1>1 DEF Member
<1>3. stop_timers(s) = [s EXCEPT !.tm = tm]
  BY <1>1 DEF stop_timers, Member
<1> QED  BY <1>2, <1>3 DEF Member

\* A member goes back to listening.
LEMMA LeaveSound ==
    ASSUME NEW n \in Node, NEW s, Sound(n, s),
           s.view[n] \notin {STATE_LISTEN, STATE_FINISH}
    PROVE  LET r == set_state_LISTEN(stop_timers([s EXCEPT !.q = remove(@, n)]), n) IN
           Sound(n, r) /\ r.view[n] = STATE_LISTEN /\ r.iv = s.iv /\ r.up = s.up
<1> USE DEF STATE_LISTEN, STATE_JOIN, STATE_PRIMARY, STATE_SECONDARY, STATE_FINISH
<1>1. s \in Member /\ OrderOK(n, s) /\ GroupOK(n, s) /\ CountOK(s) /\ SentOK(n, s) /\ TimersOK(n, s)
  BY DEF Sound
<1>2. s.view \in View /\ s.q \in Queue /\ STATE_LISTEN \in FtState /\ PosAgrees(s.q)
        /\ InOrder(s.view, s.q.ptr) /\ s.q.ptr \in Seq(Node)
  BY <1>1, MemberFields, QueueParts DEF FtState, OrderOK
<1>3. PICK q : q = remove(s.q, n)
  OBVIOUS
<1>4. PICK v : v = [s.view EXCEPT ![n] = STATE_LISTEN]
  OBVIOUS
<1>5. v \in View /\ InOrderBut(v, s.q.ptr, n) /\ v[n] = STATE_LISTEN
        /\ \A p \in Node \ {n} : v[p] = s.view[p]
  BY <1>2, <1>4, OneMoves DEF View
<1>6. /\ q \in Queue /\ PosAgrees(q) /\ Members(q) = Members(s.q) \ {n}
      /\ InOrder(v, q.ptr)
  BY <1>2, <1>3, <1>5, RemoveCorrect
<1>7. PICK a : a = [s EXCEPT !.q = q]
  OBVIOUS
<1>8. /\ a \in Member /\ a.q = q /\ a.view = s.view /\ a.ht = s.ht /\ a.cnt = s.cnt
      /\ a.out = s.out /\ a.ack = s.ack /\ a.iv = s.iv /\ a.up = s.up
      /\ a = [s EXCEPT !.q = remove(@, n)]
  BY <1>1, <1>3, <1>6, <1>7 DEF Member
<1>9. PICK b : b = stop_timers(a)
  OBVIOUS
<1>10. /\ b \in Member /\ b.view = s.view /\ b.ht = s.ht /\ b.cnt = s.cnt /\ b.q = q
       /\ b.out = s.out /\ b.ack = s.ack /\ b.iv = s.iv /\ b.up = s.up
  BY <1>8, <1>9, StopTimers
<1>11. PICK c : c = update_state(b, n, STATE_LISTEN)
  OBVIOUS
<1>12. /\ c \in Member /\ c.view = v /\ CountOK(c) /\ c.q = q /\ c.ht = s.ht
       /\ c.out = s.out /\ c.ack = s.ack /\ c.iv = s.iv /\ c.up = s.up
  <2>1. CountOK(b)
    BY <1>1, <1>10 DEF CountOK
  <2> QED  BY <1>2, <1>4, <1>10, <1>11, <2>1, UpdateState
<1>13. c = enter(b, n, STATE_LISTEN)
  BY <1>11 DEF enter
<1>14. OrderOK(n, c) /\ SentOK(n, c) /\ TimersOK(n, c)
  BY <1>1, <1>5, <1>6, <1>12 DEF OrderOK, SentOK, TimersOK
<1>15. GroupOK(n, c)
  BY <1>1, <1>5, <1>6, <1>12 DEF GroupOK
<1>16. Sound(n, c)
  BY <1>12, <1>14, <1>15 DEF Sound
<1>17. "ANNOUNCE" \in MsgType
  BY DEF MsgType
<1>18. PICK r : r = send_msg(c, n, "ANNOUNCE")
  OBVIOUS
<1>19. Sound(n, r) /\ r.view = c.view /\ r.iv = c.iv /\ r.up = c.up
  BY <1>12, <1>14, <1>16, <1>17, <1>18, SendSound, SendSame
<1>20. r = set_state_LISTEN(b, n)
  BY <1>13, <1>18 DEF set_state_LISTEN
<1> QED  BY <1>5, <1>8, <1>9, <1>12, <1>19, <1>20

\* A member leaves for good.
LEMMA FinishSound ==
    ASSUME NEW n \in Node, NEW s, Sound(n, s), s.view[n] # STATE_FINISH
    PROVE  LET r == set_state_FINISH(s, n) IN
           /\ Sound(n, r) /\ r.view[n] = STATE_FINISH /\ r.told = "FINISH" /\ ~ r.q.news
           /\ r.iv = s.iv /\ r.up = s.up
<1> USE DEF STATE_LISTEN, STATE_JOIN, STATE_PRIMARY, STATE_SECONDARY, STATE_FINISH
<1>1. s \in Member /\ OrderOK(n, s) /\ GroupOK(n, s) /\ CountOK(s) /\ SentOK(n, s) /\ TimersOK(n, s)
  BY DEF Sound
<1>2. s.view \in View /\ STATE_FINISH \in FtState
  BY <1>1, MemberFields DEF FtState
<1>3. PICK a : a = enter(s, n, STATE_FINISH)
  OBVIOUS
<1>4. /\ a \in Member /\ a.view = [s.view EXCEPT ![n] = STATE_FINISH] /\ CountOK(a)
      /\ a.q = s.q /\ a.ht = s.ht /\ a.out = s.out /\ a.ack = s.ack /\ a.iv = s.iv /\ a.up = s.up
  <2>1. a = update_state(s, n, STATE_FINISH)
    BY <1>3 DEF enter
  <2> QED  BY <1>1, <1>2, <2>1, UpdateState
<1>5. a.view[n] = STATE_FINISH /\ \A p \in Node \ {n} : a.view[p] = s.view[p]
  BY <1>2, <1>4 DEF View
<1>6. OrderOK(n, a) /\ GroupOK(n, a) /\ SentOK(n, a)
  BY <1>1, <1>4, <1>5 DEF OrderOK, GroupOK, SentOK
<1>7. PICK b : b = send_msg(a, n, "EXITING")
  OBVIOUS
<1>8. b \in Member /\ SameGroup(a, b) /\ SentOK(n, b) /\ b.iv = s.iv /\ b.up = s.up
  <2>1. "EXITING" \in MsgType
    BY DEF MsgType
  <2> QED  BY <1>4, <1>6, <1>7, <2>1, SendSame
<1>9. PICK c : c = stop_timers(b)
  OBVIOUS
<1>10. /\ c \in Member /\ SameGroup(a, c) /\ SentOK(n, c) /\ c.iv = s.iv /\ c.up = s.up
       /\ \A x \in Timer \ {"hb"} : c.tm[x] = NotSet
  BY <1>8, <1>9, StopTimers DEF SameGroup, SentOK
<1>11. PICK d : d = [c EXCEPT !.tm["hb"] = NotSet, !.sub = FALSE]
  OBVIOUS
<1>12. /\ d \in Member /\ SameGroup(a, d) /\ SentOK(n, d) /\ d.iv = s.iv /\ d.up = s.up
       /\ \A x \in Timer : d.tm[x] = NotSet
  <2>1. c.tm \in [Timer -> Age \cup {NotSet}] /\ "hb" \in Timer
    BY <1>10 DEF Member, Timer
  <2>2. PICK tm : tm = [c.tm EXCEPT !["hb"] = NotSet]
    OBVIOUS
  <2>3. tm \in [Timer -> Age \cup {NotSet}] /\ \A x \in Timer : tm[x] = NotSet
    BY <2>1, <2>2, <1>10
  <2>4. d = [c EXCEPT !.tm = tm, !.sub = FALSE]
    BY <1>10, <1>11, <2>2 DEF Member
  <2> QED  BY <1>10, <2>3, <2>4 DEF SameGroup, SentOK, Member
<1>13. PICK r : r = notify_change(d, "FINISH")
  OBVIOUS
<1>14. /\ r \in Member /\ SameGroup(d, r) /\ r.out = d.out /\ r.ack = d.ack /\ r.tm = d.tm
       /\ r.told = "FINISH" /\ ~ r.q.news /\ r.iv = s.iv /\ r.up = s.up
  <2>1. "FINISH" \in Told
    BY DEF Told
  <2> QED  BY <1>12, <1>13, <2>1, NotifySame
<1>15. SameGroup(a, r)
  BY <1>12, <1>14 DEF SameGroup
<1>16. OrderOK(n, r) /\ GroupOK(n, r) /\ CountOK(r)
  BY <1>4, <1>6, <1>14, <1>15, SameGroupOK
<1>17. r.view[n] = STATE_FINISH /\ SentOK(n, r) /\ TimersOK(n, r)
  BY <1>5, <1>12, <1>14, <1>15 DEF SameGroup, SentOK, TimersOK, Timer
<1>18. r = set_state_FINISH(s, n)
  BY <1>3, <1>7, <1>9, <1>11, <1>13 DEF set_state_FINISH
<1> QED  BY <1>14, <1>16, <1>17, <1>18 DEF Sound

\* A peer is forgotten.
LEMMA DropSound ==
    ASSUME NEW n \in Node, NEW s, Sound(n, s), NEW p \in Node \ {n}
    PROVE  LET r == drop_peer(s, p) IN
           /\ Sound(n, r) /\ r.view[n] = s.view[n] /\ r.told = s.told /\ r.tm = s.tm
           /\ r.iv = s.iv /\ r.up = s.up
<1> USE DEF STATE_LISTEN, STATE_FINISH
<1>1. s \in Member /\ OrderOK(n, s) /\ GroupOK(n, s) /\ CountOK(s) /\ SentOK(n, s) /\ TimersOK(n, s)
  BY DEF Sound
<1>2. s.view \in View /\ s.q \in Queue /\ STATE_LISTEN \in FtState /\ PosAgrees(s.q)
        /\ s.q.ptr \in Seq(Node) /\ s.rcv \in [Node -> Age] /\ 0 \in Age /\ s.ht \in SUBSET Node
  <2>1. s.q \in Queue /\ PosAgrees(s.q) /\ STATE_LISTEN \in FtState
    BY <1>1, MemberFields DEF FtState, OrderOK
  <2>2. s.view \in View /\ s.rcv \in [Node -> Age] /\ s.ht \in SUBSET Node
    BY <1>1, MemberFields
  <2> QED  BY <2>1, <2>2, QueueParts, ZeroAge
<1>3. PICK t : t = update_state(s, p, STATE_LISTEN)
  OBVIOUS
<1>4. /\ t \in Member /\ t.view = [s.view EXCEPT ![p] = STATE_LISTEN] /\ CountOK(t)
      /\ t.q = s.q /\ t.ht = s.ht /\ t.tm = s.tm /\ t.out = s.out /\ t.ack = s.ack /\ t.told = s.told
      /\ t.rcv = s.rcv /\ t.iv = s.iv /\ t.up = s.up
  BY <1>1, <1>2, <1>3, UpdateState
<1>5. /\ t.view \in View /\ t.view[p] = STATE_LISTEN
      /\ \A x \in Node \ {p} : t.view[x] = s.view[x]
  BY <1>2, <1>4 DEF View
<1>6. PICK q, ht, rcv : q = remove(s.q, p) /\ ht = s.ht \ {p} /\ rcv = [s.rcv EXCEPT ![p] = 0]
  OBVIOUS
<1>7. /\ q \in Queue /\ PosAgrees(q) /\ Members(q) = Members(s.q) \ {p}
      /\ InOrderBut(t.view, s.q.ptr, p) => InOrder(t.view, q.ptr)
  BY <1>2, <1>5, <1>6, RemoveCorrect
<1>8. ht \in SUBSET Node /\ rcv \in [Node -> Age]
  BY <1>2, <1>6
<1>9. PICK r : r = [t EXCEPT !.q = q, !.ht = ht, !.rcv = rcv]
  OBVIOUS
<1>10. r = drop_peer(s, p)
  BY <1>3, <1>4, <1>6, <1>9 DEF drop_peer, Member
<1>11. /\ r \in Member /\ r.view = t.view /\ r.ht = ht /\ r.tm = s.tm /\ r.out = s.out /\ r.ack = s.ack
       /\ r.told = s.told /\ r.cnt = t.cnt /\ r.q = q /\ r.iv = s.iv /\ r.up = s.up
  BY <1>4, <1>7, <1>8, <1>9 DEF Member
<1>12. OrderOK(n, r)
  <2>1. ASSUME r.view[n] # STATE_FINISH PROVE InOrder(r.view, r.q.ptr)
    <3>1. InOrder(s.view, s.q.ptr)
      BY <1>1, <1>5, <1>11, <2>1 DEF OrderOK
    <3>2. InOrderBut(t.view, s.q.ptr, p)
      BY <1>2, <1>4, <3>1, OneMoves
    <3> QED  BY <1>7, <1>11, <3>2
  <2> QED  BY <2>1, <1>7, <1>11 DEF OrderOK
<1>13. GroupOK(n, r)
  BY <1>1, <1>5, <1>6, <1>7, <1>11 DEF GroupOK
<1>14. CountOK(r) /\ SentOK(n, r) /\ TimersOK(n, r)
  BY <1>1, <1>4, <1>5, <1>11 DEF CountOK, SentOK, TimersOK
<1> QED  BY <1>5, <1>10, <1>11, <1>12, <1>13, <1>14 DEF Sound

\* A peer that advertises a state other than listening is ranked by it.
LEMMA LearnSound ==
    ASSUME NEW n \in Node, NEW s, Sound(n, s), NEW m \in Msg, m.from # n,
           m.state # STATE_LISTEN
    PROVE  LET a == learn(s, m)
               r == [a EXCEPT !.q = update(a.view, @, m.from)]
           IN  /\ Sound(n, r) /\ r.view[n] = s.view[n] /\ r.told = s.told /\ r.tm = s.tm
               /\ r.iv = s.iv /\ r.up = s.up
<1> USE DEF STATE_LISTEN, STATE_FINISH
<1>1. s \in Member /\ OrderOK(n, s) /\ GroupOK(n, s) /\ CountOK(s) /\ SentOK(n, s) /\ TimersOK(n, s)
  BY DEF Sound
<1>2. PICK p, state : p = m.from /\ state = m.state
  OBVIOUS
<1>3. p \in Node \ {n} /\ state \in FtState /\ state # STATE_LISTEN
  BY <1>2 DEF Msg
<1>4. s.view \in View /\ s.q \in Queue /\ PosAgrees(s.q)
        /\ s.q.ptr \in Seq(Node) /\ s.rcv \in [Node -> Age] /\ 0 \in Age /\ s.ht \in SUBSET Node
  <2>1. s.q \in Queue /\ PosAgrees(s.q)
    BY <1>1, MemberFields DEF OrderOK
  <2>2. s.view \in View /\ s.rcv \in [Node -> Age] /\ s.ht \in SUBSET Node
    BY <1>1, MemberFields
  <2> QED  BY <2>1, <2>2, QueueParts, ZeroAge
<1>5. PICK t : t = update_state(s, p, state)
  OBVIOUS
<1>6. /\ t \in Member /\ t.view = [s.view EXCEPT ![p] = state] /\ CountOK(t)
      /\ t.q = s.q /\ t.ht = s.ht /\ t.tm = s.tm /\ t.out = s.out /\ t.ack = s.ack /\ t.told = s.told
      /\ t.rcv = s.rcv /\ t.iv = s.iv /\ t.up = s.up
  BY <1>1, <1>3, <1>5, UpdateState
<1>7. /\ t.view \in View /\ t.view[p] = state
      /\ \A x \in Node \ {p} : t.view[x] = s.view[x]
  BY <1>3, <1>4, <1>6 DEF View
<1>8. PICK q, ht, rcv : /\ q = update(t.view, s.q, p) /\ ht = s.ht \cup {p}
                        /\ rcv = [s.rcv EXCEPT ![p] = 0]
  OBVIOUS
<1>9. /\ q \in Queue /\ PosAgrees(q) /\ Members(q) = Members(s.q) \cup {p}
      /\ InOrderBut(t.view, s.q.ptr, p) => InOrder(t.view, q.ptr)
  <2>1. p \in Node /\ t.view \in View /\ s.q \in Queue /\ PosAgrees(s.q)
          /\ q = update(t.view, s.q, p)
    BY <1>3, <1>4, <1>7, <1>8
  <2> QED  BY <2>1, UpdateCorrect
<1>10. ht \in SUBSET Node /\ rcv \in [Node -> Age]
  BY <1>3, <1>4, <1>8
<1>11. PICK a : a = learn(s, m)
  OBVIOUS
<1>12. a = [t EXCEPT !.ht = ht, !.rcv = rcv]
  BY <1>2, <1>5, <1>6, <1>8, <1>11 DEF learn, Member
<1>13. PICK r : r = [a EXCEPT !.q = update(a.view, @, m.from)]
  OBVIOUS
<1>14. r = [t EXCEPT !.ht = ht, !.rcv = rcv, !.q = q]
  BY <1>2, <1>6, <1>8, <1>12, <1>13 DEF Member
<1>15. /\ r \in Member /\ r.view = t.view /\ r.ht = ht /\ r.tm = s.tm /\ r.out = s.out /\ r.ack = s.ack
       /\ r.told = s.told /\ r.cnt = t.cnt /\ r.q = q /\ r.iv = s.iv /\ r.up = s.up
  BY <1>6, <1>9, <1>10, <1>14 DEF Member
<1>16. OrderOK(n, r)
  <2>1. ASSUME r.view[n] # STATE_FINISH PROVE InOrder(r.view, r.q.ptr)
    <3>1. InOrder(s.view, s.q.ptr)
      BY <1>1, <1>3, <1>7, <1>15, <2>1 DEF OrderOK
    <3>2. InOrderBut(t.view, s.q.ptr, p)
      BY <1>3, <1>4, <1>6, <3>1, OneMoves
    <3> QED  BY <1>9, <1>15, <3>2
  <2> QED  BY <2>1, <1>9, <1>15 DEF OrderOK
<1>17. GroupOK(n, r)
  BY <1>1, <1>3, <1>7, <1>8, <1>9, <1>15 DEF GroupOK
<1>18. CountOK(r) /\ SentOK(n, r) /\ TimersOK(n, r)
  BY <1>1, <1>3, <1>6, <1>7, <1>15 DEF CountOK, SentOK, TimersOK
<1> QED  BY <1>3, <1>7, <1>11, <1>13, <1>15, <1>16, <1>17, <1>18 DEF Sound

\* Taking a set of members out of their states takes as many from the counts.
LEMMA CountLeaves ==
    ASSUME NEW view \in View, NEW gone \in SUBSET Node, NEW k \in Counted, NEW new,
           new = [p \in Node |-> IF p \in gone THEN STATE_LISTEN ELSE view[p]]
    PROVE  Cardinality(InState(new, k))
             = Cardinality(InState(view, k)) - Cardinality({p \in gone : view[p] = k})
<1>1. PICK A, B, C : /\ A = InState(view, k) /\ B = InState(new, k)
                     /\ C = {p \in gone : view[p] = k}
  OBVIOUS
<1>2. k # STATE_LISTEN
  BY DEF Counted, STATE_LISTEN, STATE_JOIN, STATE_PRIMARY, STATE_SECONDARY
<1>3. B = A \ C /\ A \cap C = C
  BY <1>1, <1>2 DEF InState
<1>4. IsFiniteSet(A)
  <2>1. A \in SUBSET Node
    BY <1>1 DEF InState
  <2> QED  BY <2>1, NodeAssumption, FS_Subset
<1>5. Cardinality(A \ C) = Cardinality(A) - Cardinality(A \cap C)
  BY <1>4, FS_Difference
<1> QED  BY <1>1, <1>3, <1>5

\* Every peer that has been silent too long is forgotten.
LEMMA TrimSound ==
    ASSUME NEW n \in Node, NEW s, Sound(n, s)
    PROVE  LET r == trim_ft_queue(s, n) IN
           /\ Sound(n, r) /\ r.view[n] = s.view[n] /\ r.told = s.told /\ r.tm = s.tm
           /\ r.iv = s.iv /\ r.up = s.up
<1>1. s \in Member /\ OrderOK(n, s) /\ GroupOK(n, s) /\ CountOK(s) /\ SentOK(n, s) /\ TimersOK(n, s)
  BY DEF Sound
<1>2. s.q \in Queue /\ PosAgrees(s.q) /\ STATE_LISTEN \in FtState
  BY <1>1, MemberFields DEF FtState, OrderOK, STATE_LISTEN
<1>3. /\ s.view \in View /\ s.rcv \in [Node -> Age] /\ s.ht \in SUBSET Node
      /\ s.cnt \in [Counted -> Int]
  BY <1>1, MemberFields
<1>4. s.q.ptr \in Seq(Node) /\ Members(s.q) = Elements(s.q.ptr) /\ Members(s.q) \subseteq Node
  BY <1>2, QueueParts, GetPos
<1>5. PICK gone : gone = {p \in Members(s.q) \ {n} : s.rcv[p] >= s.iv.act}
  OBVIOUS
<1>6. gone \in SUBSET Node /\ n \notin gone /\ gone \subseteq Members(s.q)
  BY <1>4, <1>5
<1>7. PICK view : view = [p \in Node |-> IF p \in gone THEN STATE_LISTEN ELSE s.view[p]]
  OBVIOUS
<1>8. view \in View
  BY <1>2, <1>3, <1>7 DEF View
<1>9. PICK cnt : cnt = [k \in Counted |->
                          s.cnt[k] - Cardinality({p \in gone : s.view[p] = k})]
  OBVIOUS
<1>10. /\ cnt \in [Counted -> Int]
       /\ \A k \in Counted : cnt[k] = Cardinality(InState(view, k))
  <2>1. ASSUME NEW k \in Counted
        PROVE  cnt[k] = Cardinality(InState(view, k)) /\ cnt[k] \in Int
    <3>1. PICK C : C = {p \in gone : s.view[p] = k}
      OBVIOUS
    <3>2. C \in SUBSET Node
      BY <1>6, <3>1
    <3>3. Cardinality(C) \in Nat
      BY <3>2, NodeAssumption, FS_Subset, FS_CardinalityType
    <3>4. cnt[k] = s.cnt[k] - Cardinality(C)
      BY <1>9, <3>1
    <3>5. s.cnt[k] = Cardinality(InState(s.view, k))
      BY <1>1 DEF CountOK
    <3>6. Cardinality(InState(view, k)) = Cardinality(InState(s.view, k)) - Cardinality(C)
      BY <1>3, <1>6, <1>7, <3>1, CountLeaves
    <3> QED  BY <1>3, <3>3, <3>4, <3>5, <3>6
  <2>2. cnt = [k \in Counted |-> cnt[k]]
    BY <1>9
  <2> QED  BY <2>1, <2>2
<1>11. PICK rcv : rcv = [p \in Node |-> IF p \in gone THEN 0 ELSE s.rcv[p]]
  OBVIOUS
<1>12. rcv \in [Node -> Age]
  BY <1>3, <1>11, ZeroAge
<1>13. PICK q, ht : q = remove_all(s.q, gone) /\ ht = s.ht \ gone
  OBVIOUS
<1>14. /\ q \in Queue /\ PosAgrees(q) /\ Members(q) = Members(s.q) \ gone
       /\ InOrderButAll(view, s.q.ptr, gone) => InOrder(view, q.ptr)
  BY <1>2, <1>8, <1>13, RemoveAllCorrect
<1>15. ht \in SUBSET Node
  BY <1>3, <1>13
<1>16. PICK r : r = [s EXCEPT !.cnt = cnt, !.view = view, !.rcv = rcv, !.q = q, !.ht = ht]
  OBVIOUS
<1>17. r = trim_ft_queue(s, n)
  BY <1>1, <1>5, <1>7, <1>9, <1>11, <1>13, <1>16 DEF trim_ft_queue, Member
<1>18. /\ r \in Member /\ r.view = view /\ r.ht = ht /\ r.tm = s.tm /\ r.out = s.out /\ r.ack = s.ack
       /\ r.told = s.told /\ r.cnt = cnt /\ r.q = q /\ r.iv = s.iv /\ r.up = s.up
  BY <1>1, <1>8, <1>10, <1>12, <1>14, <1>15, <1>16 DEF Member, View
<1>19. view[n] = s.view[n] /\ \A p \in Node \ gone : view[p] = s.view[p]
  BY <1>6, <1>7
<1>20. OrderOK(n, r)
  <2>1. ASSUME r.view[n] # STATE_FINISH PROVE InOrder(r.view, r.q.ptr)
    <3>1. InOrder(s.view, s.q.ptr)
      BY <1>1, <1>18, <1>19, <2>1 DEF OrderOK
    <3>2. \A p \in Elements(s.q.ptr) : p \notin gone =>
                (s.view[p] > STATE_JOIN <=> view[p] > STATE_JOIN)
      BY <1>4, <1>19
    <3>3. InOrderButAll(view, s.q.ptr, gone)
      BY <1>4, <3>1, <3>2, InOrderSameView
    <3> QED  BY <1>14, <1>18, <3>3
  <2> QED  BY <2>1, <1>14, <1>18 DEF OrderOK
<1>21. GroupOK(n, r)
  <2>1. \A p \in gone : view[p] = STATE_LISTEN
    BY <1>6, <1>7
  <2> QED  BY <1>1, <1>6, <1>13, <1>14, <1>18, <1>19, <2>1 DEF GroupOK
<1>22. CountOK(r) /\ SentOK(n, r) /\ TimersOK(n, r)
  BY <1>1, <1>10, <1>18, <1>19 DEF CountOK, SentOK, TimersOK
<1> QED  BY <1>17, <1>18, <1>19, <1>20, <1>21, <1>22 DEF Sound

----------------------------------------------------------------------------
(* set_state and prepare_takeover. *)

\* The application knows whether the member is primary, secondary or gone.
Informed(n, s) ==
    /\ s.told = "ACTIVATE"   <=> s.view[n] = STATE_PRIMARY
    /\ s.told = "DEACTIVATE" <=> s.view[n] = STATE_SECONDARY
    /\ s.told = "FINISH"     <=> s.view[n] = STATE_FINISH

\* r, which s has become, is sound, and the listener knows what it did.
Keeps(n, s, r) ==
    /\ Sound(n, r)
    /\ Informed(n, s) => Informed(n, r)
    /\ r.iv = s.iv
    /\ r.up = s.up

\* The states of a member that is in the queue.
Ranking == {STATE_JOIN, STATE_PRIMARY, STATE_SECONDARY}

\* A member that ranks is in its queue, so the queue has a first.
LEMMA FirstIsNode ==
    ASSUME NEW n \in Node, NEW s, Sound(n, s), s.view[n] \in Ranking
    PROVE  First(s) \in Node /\ Len(s.q.ptr) > 0
<1>1. s \in Member /\ GroupOK(n, s) /\ s.q \in Queue /\ PosAgrees(s.q)
  BY MemberFields DEF Sound, OrderOK
<1>2. n \in Members(s.q)
  BY <1>1 DEF GroupOK, Ranking, STATE_LISTEN, STATE_FINISH, STATE_JOIN, STATE_PRIMARY, STATE_SECONDARY
<1>3. s.q.ptr \in Seq(Node) /\ n \in Elements(s.q.ptr)
  BY <1>1, <1>2, QueueParts
<1>4. Len(s.q.ptr) > 0
  BY <1>3 DEF Elements
<1> QED  BY <1>3, <1>4 DEF First

\* Keeping composes.
LEMMA KeepsTransitive ==
    ASSUME NEW n, NEW s, NEW t, NEW r, Keeps(n, s, t), Keeps(n, t, r)
    PROVE  Keeps(n, s, r)
  BY DEF Keeps

\* Telling what changes no state, sending and timers keep everything.
LEMMA PrepareKeeps ==
    ASSUME NEW n \in Node, NEW s, Sound(n, s), NEW action, action \notin Told
    PROVE  LET r == notify_change(s, action) IN
           /\ Keeps(n, s, r) /\ r.view = s.view /\ r.q.ptr = s.q.ptr
           /\ r.told = s.told /\ r.tm = s.tm
<1>1. PICK r : r = notify_change(s, action)
  OBVIOUS
<1>2. /\ r.view = s.view /\ r.told = s.told /\ r.q.ptr = s.q.ptr /\ r.tm = s.tm
      /\ r.iv = s.iv /\ r.up = s.up
  BY <1>1, NotifySame DEF Sound, SameGroup
<1>3. Sound(n, r)
  BY <1>1, NotifySound
<1> QED  BY <1>1, <1>2, <1>3 DEF Keeps, Informed

\* notify_update announces the queue, and changes nothing else.
LEMMA UpdateKeeps ==
    ASSUME NEW n \in Node, NEW s, Sound(n, s)
    PROVE  LET r == notify_update(s) IN
           Keeps(n, s, r) /\ r.view = s.view /\ r.q.ptr = s.q.ptr /\ ~ r.q.news
<1>1. s \in Member
  BY DEF Sound
<1>2. notify_update(s) = notify_change(s, "UPDATE")
  BY <1>1 DEF notify_update, notify_change, Told, Member
<1>3. "UPDATE" \notin Told
  BY DEF Told
<1>4. ~ notify_change(s, "UPDATE").q.news
  BY <1>1, NotifySame
<1> QED  BY <1>2, <1>3, <1>4, PrepareKeeps

\* Publishing changes nothing the listener knows.
LEMMA SendKeeps ==
    ASSUME NEW n \in Node, NEW s, Sound(n, s), NEW type \in MsgType
    PROVE  LET r == send_msg(s, n, type) IN
           Keeps(n, s, r) /\ r.view = s.view /\ r.q = s.q /\ r.told = s.told /\ r.tm = s.tm
<1>1. PICK r : r = send_msg(s, n, type)
  OBVIOUS
<1>2. /\ r.view = s.view /\ r.told = s.told /\ r.q = s.q /\ r.tm = s.tm
      /\ r.iv = s.iv /\ r.up = s.up
  BY <1>1, SendSame DEF Sound, SameGroup
<1>3. Sound(n, r)
  BY <1>1, SendSound
<1> QED  BY <1>1, <1>2, <1>3 DEF Keeps, Informed

\* Nor does setting or clearing timers.
LEMMA TimerKeeps ==
    ASSUME NEW n \in Node, NEW s, Sound(n, s), NEW tm \in [Timer -> Age \cup {NotSet}],
           s.view[n] = STATE_FINISH => \A t \in Timer : tm[t] = NotSet,
           tm["join"] # NotSet => s.view[n] = STATE_LISTEN
    PROVE  LET r == [s EXCEPT !.tm = tm] IN
           Keeps(n, s, r) /\ r.view = s.view /\ r.q = s.q /\ r.told = s.told /\ r.tm = tm
<1>1. PICK r : r = [s EXCEPT !.tm = tm]
  OBVIOUS
<1>2. Sound(n, r) /\ r.view = s.view /\ r.q = s.q
  BY <1>1, TimerSound
<1>3. r.told = s.told /\ r.iv = s.iv /\ r.up = s.up /\ r.tm = tm
  BY <1>1 DEF Sound, Member
<1> QED  BY <1>1, <1>2, <1>3 DEF Keeps, Informed

\* A member becomes primary, and says so.
LEMMA PrimaryKeeps ==
    ASSUME NEW n \in Node, NEW s, Sound(n, s), s.view[n] \in Ranking
    PROVE  LET r == set_state_PRIMARY(s, n) IN
           Keeps(n, s, r) /\ r.view[n] = STATE_PRIMARY
<1> USE DEF STATE_LISTEN, STATE_JOIN, STATE_PRIMARY, STATE_SECONDARY, STATE_FINISH
<1>1. PICK a : a = enter(s, n, STATE_PRIMARY)
  OBVIOUS
<1>2. /\ Sound(n, a) /\ a.view[n] = STATE_PRIMARY /\ a.iv = s.iv /\ a.up = s.up
  BY <1>1, EnterSound DEF Ranking
<1>3. PICK b : b = notify_change(a, "ACTIVATE")
  OBVIOUS
<1>4. "ACTIVATE" \in Told /\ "ACTIVATE" \in MsgType
  BY DEF Told, MsgType
<1>5. Sound(n, b)
  BY <1>2, <1>3, NotifySound
<1>6. b.view = a.view /\ b.told = "ACTIVATE" /\ b.iv = s.iv /\ b.up = s.up
  BY <1>2, <1>3, <1>4, NotifySame DEF Sound, SameGroup
<1>7. PICK r : r = send_msg(b, n, "ACTIVATE")
  OBVIOUS
<1>8. Keeps(n, b, r) /\ r.view = b.view /\ r.told = b.told
  BY <1>4, <1>5, <1>7, SendKeeps
<1>9. r = set_state_PRIMARY(s, n)
  BY <1>1, <1>3, <1>7 DEF set_state_PRIMARY
<1>10. Informed(n, r)
  BY <1>2, <1>6, <1>8 DEF Informed
<1> QED  BY <1>2, <1>6, <1>8, <1>9, <1>10 DEF Keeps

\* A takeover timer is set.
LEMMA SetTakeoverTimer ==
    ASSUME NEW n \in Node, NEW s, Sound(n, s), s.view[n] \in Ranking,
           NEW x, x = "prep" \/ x = "act", NEW age \in Age \cup {NotSet},
           NEW r, r = [s EXCEPT !.tm[x] = age]
    PROVE  Keeps(n, s, r) /\ r.view = s.view /\ r.q = s.q
<1>1. /\ s \in Member /\ s.tm \in [Timer -> Age \cup {NotSet}] /\ s.tm["join"] = NotSet
      /\ s.view[n] # STATE_FINISH /\ s.view[n] # STATE_LISTEN
  BY MemberFields
     DEF Sound, TimersOK, Ranking, STATE_LISTEN, STATE_JOIN, STATE_PRIMARY, STATE_SECONDARY,
         STATE_FINISH
<1>2. PICK tm : tm = [s.tm EXCEPT ![x] = age]
  OBVIOUS
<1>3. tm \in [Timer -> Age \cup {NotSet}] /\ tm["join"] = NotSet
  BY <1>1, <1>2 DEF Timer
<1>4. r = [s EXCEPT !.tm = tm]
  BY <1>1, <1>2 DEF Member
<1> QED  BY <1>1, <1>3, <1>4, TimerKeeps

\* Arming a takeover timer.
LEMMA ArmKeeps ==
    ASSUME NEW n \in Node, NEW s, Sound(n, s), s.view[n] \in Ranking, NEW action,
           NEW origin \in Age
    PROVE  LET r == arm_takeover(s, n, action, origin) IN
           Keeps(n, s, r) /\ r.view = s.view /\ r.q.ptr = s.q.ptr
<1>1. PICK r : r = arm_takeover(s, n, action, origin)
  OBVIOUS
<1>2. PICK u, x : /\ u = s \/ u = notify_change(s, "PREPARE")
                  /\ x = "prep" \/ x = "act"
                  /\ r = [u EXCEPT !.tm[x] = origin]
  BY <1>1 DEF arm_takeover
<1>3. Keeps(n, s, u) /\ u.view = s.view /\ u.q.ptr = s.q.ptr
  <2>1. "PREPARE" \notin Told
    BY DEF Told
  <2>2. CASE u = notify_change(s, "PREPARE")
    BY <2>1, <2>2, PrepareKeeps
  <2>3. CASE u = s
    BY <2>3 DEF Keeps
  <2> QED  BY <1>2, <2>2, <2>3
<1>4. Sound(n, u) /\ u.view[n] \in Ranking /\ origin \in Age \cup {NotSet}
  BY <1>3 DEF Keeps
<1>5. Keeps(n, u, r) /\ r.view = u.view /\ r.q = u.q
  BY <1>2, <1>4, SetTakeoverTimer
<1> QED  BY <1>1, <1>3, <1>5, KeepsTransitive

\* prepare_takeover of a member that has joined: it may become primary.
LEMMA TakeoverKeeps ==
    ASSUME NEW n \in Node, NEW s, Sound(n, s), NEW action, NEW deadline \in BOOLEAN,
           s.view[n] \in Ranking \/ (s.view[n] = STATE_FINISH /\ deadline /\ First(s) # n)
    PROVE  LET r == takeover_joined(s, n, action, deadline) IN
           /\ Keeps(n, s, r)
           /\ r.view[n] = s.view[n] \/ r.view[n] = STATE_PRIMARY
           /\ First(s) # n => r.view = s.view /\ r.q.ptr = s.q.ptr
<1>1. PICK r : r = takeover_joined(s, n, action, deadline)
  OBVIOUS
<1>2. s \in Member /\ s.age \in Age /\ s.rcv \in [Node -> Age]
        /\ s.tm \in [Timer -> Age \cup {NotSet}]
  BY MemberFields DEF Sound
<1>3. s.view[n] = STATE_FINISH => s.view[n] \notin Ranking
  BY DEF Ranking, STATE_FINISH, STATE_JOIN, STATE_PRIMARY, STATE_SECONDARY
<1>4. CASE First(s) = n /\ s.age >= s.iv.act
  <2>1. s.view[n] \in Ranking
    BY <1>4
  <2>2. PICK a : a = set_state_PRIMARY(s, n)
    OBVIOUS
  <2>3. Keeps(n, s, a) /\ a.view[n] = STATE_PRIMARY
    BY <2>1, <2>2, PrimaryKeeps
  <2>4. r = notify_update(a)
    BY <1>1, <1>4, <2>2 DEF takeover_joined
  <2>5. Keeps(n, a, r) /\ r.view = a.view
    BY <2>3, <2>4, UpdateKeeps DEF Keeps
  <2> QED  BY <1>1, <1>4, <2>3, <2>5, KeepsTransitive
<1>5. CASE First(s) = n /\ ~ (s.age >= s.iv.act)
  <2>1. s.view[n] \in Ranking
    BY <1>5
  <2>2. r = arm_takeover(s, n, action, s.age)
    BY <1>1, <1>5 DEF takeover_joined
  <2> QED  BY <1>1, <1>2, <2>1, <2>2, ArmKeeps
<1>6. CASE First(s) # n /\ ~ IsSecond(s, n)
  <2>1. r = s
    BY <1>1, <1>6 DEF takeover_joined
  <2> QED  BY <1>1, <2>1 DEF Keeps
<1>7. CASE First(s) # n /\ IsSecond(s, n) /\ deadline
  <2>1. PICK tm : tm = [s.tm EXCEPT !["prep"] = NotSet, !["act"] = NotSet]
    OBVIOUS
  <2>2. /\ tm \in [Timer -> Age \cup {NotSet}] /\ tm["join"] = s.tm["join"]
        /\ (\A t \in Timer : s.tm[t] = NotSet) => \A t \in Timer : tm[t] = NotSet
    BY <1>2, <2>1 DEF Timer
  <2>3. PICK t : t = [s EXCEPT !.tm = tm]
    OBVIOUS
  <2>4. t = [s EXCEPT !.tm["prep"] = NotSet, !.tm["act"] = NotSet]
    BY <1>2, <2>1, <2>3 DEF Member
  <2>5. Keeps(n, s, t) /\ t.view = s.view /\ t.q = s.q
    <3>1. /\ s.view[n] = STATE_FINISH => \A x \in Timer : tm[x] = NotSet
          /\ tm["join"] # NotSet => s.view[n] = STATE_LISTEN
      BY <2>2 DEF Sound, TimersOK
    <3> QED  BY <2>2, <2>3, <3>1, TimerKeeps
  <2>6. r = t \/ r = notify_change(t, "PREPARE")
    BY <1>1, <1>7, <2>4 DEF takeover_joined
  <2>7. Keeps(n, t, r) /\ r.view = t.view /\ r.q.ptr = t.q.ptr
    <3>1. "PREPARE" \notin Told /\ Sound(n, t)
      BY <2>5 DEF Told, Keeps
    <3>2. CASE r = t
      BY <3>1, <3>2 DEF Keeps
    <3>3. CASE r = notify_change(t, "PREPARE")
      BY <3>1, <3>3, PrepareKeeps
    <3> QED  BY <2>6, <3>2, <3>3
  <2> QED  BY <1>1, <2>5, <2>7, KeepsTransitive
<1>8. CASE First(s) # n /\ IsSecond(s, n) /\ ~ deadline
  <2>1. s.view[n] \in Ranking
    BY <1>8
  <2>2. r = arm_takeover(s, n, action, s.rcv[First(s)])
    BY <1>1, <1>8 DEF takeover_joined
  <2>3. s.rcv[First(s)] \in Age
    BY <1>2, <2>1, FirstIsNode
  <2> QED  BY <1>1, <2>1, <2>2, <2>3, ArmKeeps
<1> QED  BY <1>4, <1>5, <1>6, <1>7, <1>8

============================================================================
