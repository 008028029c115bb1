----------------------------- MODULE FtGroupProofs -----------------------------
(***************************************************************************)
(* What holds of a group of any number of members, with any weights,       *)
(* parameters and faults.  The inductive invariant Inv says that every     *)
(* member is as its handlers leave it (Done, of FtHandlerProofs), and that *)
(* a channel carries only messages of the member it comes from, none of    *)
(* them to itself: a member never learns of itself as a peer.              *)
(***************************************************************************)
EXTENDS FtGroup, FtHandlerProofs

Good(n, s) ==
    /\ Sound(n, s)
    /\ s.out = << >> /\ s.ack = NoPeer
    /\ s.up = "run" => Done(n, s)
    /\ s.up # "run" => s.view[n] = STATE_LISTEN

SentBy(a, c) == \A i \in 1 .. Len(c) : c[i].from = a

MembersOK(m) == m \in [Node -> Member] /\ \A n \in Node : Good(n, m[n])

ChannelsOK(c) ==
    /\ c \in [Node -> [Node -> Seq(Msg)]]
    /\ \A a, b \in Node : SentBy(a, c[a][b]) /\ (a = b => c[a][b] = << >>)

Left == [lose : Nat, crash : Nat, stall : Nat, stop : Nat, rejoin : Nat]

Inv ==
    /\ MembersOK(mem)
    /\ ChannelsOK(chan)
    /\ left \in Left

\* Nobody steps down but for somebody who is now first.
Down(m, new) == \A n \in Node : StepsDown(n, m[n], new[n])

----------------------------------------------------------------------------
(* Channels. *)

\* Taking the first message of a channel.
LEMMA TakeFirst ==
    ASSUME NEW a \in Node, NEW c \in Seq(Msg), SentBy(a, c), c # << >>
    PROVE  Head(c) \in Msg /\ Head(c).from = a /\ Tail(c) \in Seq(Msg) /\ SentBy(a, Tail(c))
<1>1. Len(c) > 0 /\ Head(c) = c[1] /\ Head(c) \in Msg /\ Tail(c) \in Seq(Msg)
  OBVIOUS
<1>2. Len(Tail(c)) = Len(c) - 1 /\ \A i \in 1 .. Len(c) - 1 : Tail(c)[i] = c[i + 1]
  BY <1>1
<1>3. SentBy(a, Tail(c))
  BY <1>1, <1>2 DEF SentBy
<1> QED  BY <1>1, <1>3 DEF SentBy

\* Adding messages to a channel.
LEMMA AddMessages ==
    ASSUME NEW a \in Node, NEW c \in Seq(Msg), NEW d \in Seq(Msg), SentBy(a, c), SentBy(a, d)
    PROVE  c \o d \in Seq(Msg) /\ SentBy(a, c \o d)
<1>1. c \o d \in Seq(Msg) /\ Len(c \o d) = Len(c) + Len(d)
  OBVIOUS
<1>2. \A i \in 1 .. Len(c) + Len(d) :
        (c \o d)[i] = IF i <= Len(c) THEN c[i] ELSE d[i - Len(c)]
  OBVIOUS
<1>3. ASSUME NEW i \in 1 .. Len(c \o d) PROVE (c \o d)[i].from = a
  <2>1. CASE i <= Len(c)
    BY <1>1, <1>2, <2>1 DEF SentBy
  <2>2. CASE i > Len(c)
    <3>1. i - Len(c) \in 1 .. Len(d) /\ (c \o d)[i] = d[i - Len(c)]
      BY <1>1, <1>2, <2>2
    <3> QED  BY <3>1 DEF SentBy
  <2> QED  BY <2>1, <2>2
<1> QED  BY <1>1, <1>3 DEF SentBy

\* What a member publishes comes from it, and none of it reaches itself.
LEMMA ReceivedFrom ==
    ASSUME NEW n \in Node, NEW s, Sound(n, s), NEW d \in Node
    PROVE  /\ Received(s, n, d) \in Seq(Msg) /\ SentBy(n, Received(s, n, d))
           /\ d = n => Received(s, n, d) = << >>
<1>1. PICK x, y : /\ x = (IF mem[d].sub /\ d # n THEN s.out ELSE << >>)
                  /\ y = (IF s.ack = d /\ Running(d) THEN << message(s, n, "ACK") >> ELSE << >>)
  OBVIOUS
<1>2. Received(s, n, d) = x \o y
  BY <1>1 DEF Received
<1>3. s.out \in Seq(Msg) /\ SentBy(n, s.out) /\ s.ack # n
  BY MemberFields DEF Sound, SentOK, SentBy
<1>4. x \in Seq(Msg) /\ SentBy(n, x) /\ (d = n => x = << >>)
  BY <1>1, <1>3 DEF SentBy
<1>5. message(s, n, "ACK") \in Msg /\ message(s, n, "ACK").from = n
  <2>1. s.view[n] \in FtState /\ s.iv \in Interval
    BY MemberFields DEF Sound, View
  <2> QED  BY <2>1 DEF message, Msg, MsgType
<1>6. y \in Seq(Msg) /\ SentBy(n, y) /\ (d = n => y = << >>)
  BY <1>1, <1>3, <1>5 DEF SentBy
<1>7. x \o y \in Seq(Msg) /\ SentBy(n, x \o y)
  BY <1>4, <1>6, AddMessages
<1>8. d = n => x \o y = << >>
  BY <1>4, <1>6
<1> QED  BY <1>2, <1>7, <1>8

----------------------------------------------------------------------------
(* The steps. *)

\* A handler has returned and what it published goes out.
LEMMA BecomeGood ==
    ASSUME Inv, NEW n \in Node, NEW s, Done(n, s), StepsDown(n, mem[n], s), NEW src,
           src \in Node => chan[src][n] # << >>, Become(n, s, src)
    PROVE  MembersOK(mem') /\ ChannelsOK(chan') /\ Down(mem, mem')
<1>1. PICK r : r = [s EXCEPT !.out = << >>, !.ack = NoPeer]
  OBVIOUS
<1>2. mem' = [mem EXCEPT ![n] = r]
  BY <1>1 DEF Become
<1>3. s \in Member /\ NoPeer # n
  BY NodeAssumption DEF Done, Sound, NoPeer
<1>4. /\ r \in Member /\ SameGroup(s, r) /\ r.out = << >> /\ r.ack = NoPeer
      /\ r.tm = s.tm /\ r.told = s.told /\ r.up = s.up /\ r.q = s.q /\ r.iv = s.iv
  <2>1. << >> \in Seq(Msg) /\ NoPeer \in Node \cup {NoPeer}
    OBVIOUS
  <2> QED  BY <1>1, <1>3, <2>1 DEF Member, SameGroup
<1>5. OrderOK(n, r) /\ GroupOK(n, r) /\ CountOK(r)
  BY <1>3, <1>4, SameGroupOK DEF Done, Sound
<1>6. SentOK(n, r) /\ TimersOK(n, r)
  BY <1>3, <1>4 DEF Done, Sound, SentOK, TimersOK, SameGroup
<1>7. Sound(n, r)
  BY <1>4, <1>5, <1>6 DEF Sound
<1>8. Done(n, r) /\ Good(n, r) /\ StepsDown(n, mem[n], r)
  BY <1>4, <1>7 DEF Done, Informed, SameGroup, Good, StepsDown, First
<1>9. MembersOK(mem')
  BY <1>2, <1>4, <1>8 DEF Inv, MembersOK
<1>10. Down(mem, mem')
  <2>1. ASSUME NEW p \in Node PROVE StepsDown(p, mem[p], mem'[p])
    <3>1. CASE p = n
      BY <1>2, <1>8, <3>1 DEF Inv, MembersOK
    <3>2. CASE p # n
      <4>1. mem'[p] = mem[p]
        BY <1>2, <3>2 DEF Inv, MembersOK
      <4> QED  BY <4>1 DEF StepsDown, STATE_PRIMARY, STATE_SECONDARY
    <3> QED  BY <3>1, <3>2
  <2> QED  BY <2>1 DEF Down
<1>11. ChannelsOK(chan')
  <2>1. ASSUME NEW a \in Node, NEW b \in Node
        PROVE  /\ chan'[a][b] \in Seq(Msg) /\ SentBy(a, chan'[a][b])
               /\ a = b => chan'[a][b] = << >>
    <3>1. chan'[a][b] = IF a = n THEN chan[a][b] \o Received(s, n, b)
                        ELSE IF a = src /\ b = n THEN Tail(chan[a][b])
                        ELSE chan[a][b]
      BY DEF Become
    <3>2. /\ chan[a][b] \in Seq(Msg) /\ SentBy(a, chan[a][b])
          /\ a = b => chan[a][b] = << >>
      BY DEF Inv, ChannelsOK
    <3>3. CASE a = n
      <4>1. /\ Received(s, n, b) \in Seq(Msg) /\ SentBy(n, Received(s, n, b))
            /\ b = n => Received(s, n, b) = << >>
        BY ReceivedFrom DEF Done
      <4>2. chan'[a][b] = chan[a][b] \o Received(s, n, b)
        BY <3>1, <3>3
      <4>3. chan'[a][b] \in Seq(Msg) /\ SentBy(a, chan'[a][b])
        BY <3>2, <3>3, <4>1, <4>2, AddMessages
      <4>4. a = b => chan'[a][b] = << >>
        BY <3>2, <3>3, <4>1, <4>2
      <4> QED  BY <4>3, <4>4
    <3>4. CASE a # n /\ a = src /\ b = n
      <4>1. chan[a][b] # << >> /\ chan'[a][b] = Tail(chan[a][b])
        BY <3>1, <3>4
      <4> QED  BY <3>2, <3>4, <4>1, TakeFirst
    <3>5. CASE a # n /\ ~ (a = src /\ b = n)
      BY <3>1, <3>2, <3>5
    <3> QED  BY <3>3, <3>4, <3>5
  <2>2. chan' = [a \in Node |-> [b \in Node |-> chan'[a][b]]]
    BY DEF Become
  <2> QED  BY <2>1, <2>2 DEF ChannelsOK
<1> QED  BY <1>9, <1>10, <1>11

\* A member that has not started, or whose process is gone.
LEMMA IdleGood ==
    ASSUME NEW n \in Node, NEW s, s = Idle(n) \/ s = [Idle(n) EXCEPT !.up = "gone"]
    PROVE  s \in Member /\ Good(n, s)
<1> USE DEF STATE_LISTEN, STATE_JOIN, STATE_PRIMARY, STATE_SECONDARY, STATE_FINISH
<1>1. /\ s.up # "run" /\ s.view = [p \in Node |-> STATE_LISTEN] /\ s.ht = {}
      /\ s.q = EmptyQueue /\ s.cnt = [k \in Counted |-> 0] /\ s.out = << >>
      /\ s.tm = [t \in Timer |-> NotSet] /\ s.ack = NoPeer /\ s.told = "NONE"
  BY DEF Idle
<1>2. EmptyQueue \in Queue /\ Members(EmptyQueue) = {}
  BY DEF EmptyQueue, Queue, Members, Elements
<1>3. s \in Member
  <2>1. [hb |-> Param[n].hb, act |-> Param[n].act, prep |-> Param[n].prep] \in Interval
    BY ParamAssumption DEF Interval
  <2>2. << >> \in Seq(Msg) /\ [p \in Node |-> STATE_LISTEN] \in [Node -> FtState]
    BY DEF FtState
  <2>3. [p \in Node |-> 0] \in [Node -> Age] /\ 0 \in Age
    BY ZeroAge
  <2>4. [k \in Counted |-> 0] \in [Counted -> Int]
    OBVIOUS
  <2>5. [t \in Timer |-> NotSet] \in [Timer -> Age \cup {NotSet}]
    OBVIOUS
  <2>6. CASE s = Idle(n)
    BY <1>2, <2>1, <2>2, <2>3, <2>4, <2>5, <2>6 DEF Idle, Member
  <2>7. CASE s = [Idle(n) EXCEPT !.up = "gone"]
    BY <1>2, <2>1, <2>2, <2>3, <2>4, <2>5, <2>7 DEF Idle, Member
  <2> QED  BY <2>6, <2>7
<1>4. OrderOK(n, s)
  <2>1. PosAgrees(EmptyQueue)
    BY <1>2 DEF PosAgrees, EmptyQueue
  <2>2. InOrder(s.view, << >>)
    BY DEF InOrder
  <2> QED  BY <1>1, <2>1, <2>2 DEF OrderOK, EmptyQueue
<1>5. GroupOK(n, s)
  BY <1>1, <1>2 DEF GroupOK
<1>6. CountOK(s)
  <2>1. ASSUME NEW k \in Counted PROVE s.cnt[k] = Cardinality(InState(s.view, k))
    <3>1. InState(s.view, k) = {}
      BY <1>1 DEF InState, Counted
    <3>2. Cardinality({}) = 0
      BY FS_EmptySet
    <3> QED  BY <1>1, <3>1, <3>2
  <2> QED  BY <2>1 DEF CountOK
<1>7. SentOK(n, s) /\ TimersOK(n, s)
  <2>1. NoPeer # n
    BY NodeAssumption DEF NoPeer
  <2> QED  BY <1>1, <2>1 DEF SentOK, TimersOK, Timer
<1>8. Sound(n, s)
  BY <1>3, <1>4, <1>5, <1>6, <1>7 DEF Sound
<1> QED  BY <1>1, <1>3, <1>8 DEF Good

\* The process of a member ends.
LEMMA GoneGood ==
    ASSUME Inv, NEW n \in Node, Gone(n)
    PROVE  MembersOK(mem') /\ ChannelsOK(chan') /\ Down(mem, mem')
<1>1. PICK s : s = [Idle(n) EXCEPT !.up = "gone"]
  OBVIOUS
<1>2. s \in Member /\ Good(n, s) /\ s.up = "gone"
  <2>1. s \in Member /\ Good(n, s)
    BY <1>1, IdleGood
  <2> QED  BY <1>1, <2>1 DEF Idle
<1>3. mem' = [mem EXCEPT ![n] = s]
  BY <1>1 DEF Gone
<1>4. MembersOK(mem')
  BY <1>2, <1>3 DEF Inv, MembersOK
<1>5. Down(mem, mem')
  <2>1. s.view[n] = STATE_LISTEN
    BY <1>2 DEF Good
  <2>2. ASSUME NEW p \in Node PROVE StepsDown(p, mem[p], mem'[p])
    <3>1. mem'[p] = IF p = n THEN s ELSE mem[p]
      BY <1>3 DEF Inv, MembersOK
    <3> QED  BY <2>1, <3>1 DEF StepsDown, STATE_PRIMARY, STATE_SECONDARY, STATE_LISTEN
  <2> QED  BY <2>2 DEF Down
<1>6. ChannelsOK(chan')
  <2>1. ASSUME NEW a \in Node, NEW b \in Node
        PROVE  chan'[a][b] = IF b = n THEN << >> ELSE chan[a][b]
    BY DEF Gone, Inv, ChannelsOK
  <2>2. ASSUME NEW a \in Node, NEW b \in Node
        PROVE  /\ chan'[a][b] \in Seq(Msg) /\ SentBy(a, chan'[a][b])
               /\ a = b => chan'[a][b] = << >>
    <3>1. << >> \in Seq(Msg) /\ SentBy(a, << >>)
      BY DEF SentBy
    <3>2. /\ chan[a][b] \in Seq(Msg) /\ SentBy(a, chan[a][b])
          /\ a = b => chan[a][b] = << >>
      BY DEF Inv, ChannelsOK
    <3> QED  BY <2>1, <3>1, <3>2
  <2>3. chan' \in [Node -> [Node -> Seq(Msg)]]
    <3>1. << >> \in Seq(Msg)
      OBVIOUS
    <3> QED  BY <3>1 DEF Gone, Inv, ChannelsOK
  <2> QED  BY <2>2, <2>3 DEF ChannelsOK
<1> QED  BY <1>4, <1>5, <1>6

\* A message is lost.
LEMMA LoseGood ==
    ASSUME Inv, NEW a \in Node, NEW n \in Node, Lose(a, n)
    PROVE  MembersOK(mem') /\ ChannelsOK(chan') /\ Down(mem, mem')
<1>1. mem' = mem /\ chan' = [chan EXCEPT ![a][n] = Tail(@)] /\ chan[a][n] # << >>
  BY DEF Lose
<1>2. MembersOK(mem') /\ Down(mem, mem')
  BY <1>1 DEF Inv, Down, StepsDown, STATE_PRIMARY, STATE_SECONDARY
<1>3. ASSUME NEW p \in Node, NEW b \in Node
      PROVE  chan'[p][b] = IF p = a /\ b = n THEN Tail(chan[p][b]) ELSE chan[p][b]
  BY <1>1 DEF Inv, ChannelsOK
<1>4. ASSUME NEW p \in Node, NEW b \in Node
      PROVE  /\ chan'[p][b] \in Seq(Msg) /\ SentBy(p, chan'[p][b])
             /\ p = b => chan'[p][b] = << >>
  <2>1. /\ chan[p][b] \in Seq(Msg) /\ SentBy(p, chan[p][b])
        /\ p = b => chan[p][b] = << >>
    BY DEF Inv, ChannelsOK
  <2>2. CASE p = a /\ b = n
    <3>1. chan[p][b] # << >> /\ chan'[p][b] = Tail(chan[p][b])
      BY <1>1, <1>3, <2>2
    <3> QED  BY <2>1, <3>1, TakeFirst
  <2>3. CASE ~ (p = a /\ b = n)
    BY <1>3, <2>1, <2>3
  <2> QED  BY <2>2, <2>3
<1>5. chan' \in [Node -> [Node -> Seq(Msg)]]
  <2>1. Tail(chan[a][n]) \in Seq(Msg)
    BY <1>1 DEF Inv, ChannelsOK
  <2> QED  BY <1>1, <2>1 DEF Inv, ChannelsOK
<1>6. ChannelsOK(chan')
  BY <1>4, <1>5 DEF ChannelsOK
<1> QED  BY <1>2, <1>6


\* A tick passes for a member.
LEMMA AgedGood ==
    ASSUME NEW n \in Node, NEW s, Good(n, s), s.up = "run"
    PROVE  Aged(s) \in Member /\ Good(n, Aged(s)) /\ Aged(s).view = s.view
<1>1. ASSUME NEW x \in Age \cup {NotSet}
      PROVE  /\ Older(x) \in Age \cup {NotSet} /\ (x = NotSet => Older(x) = NotSet)
             /\ x \in Age => Older(x) \in Age /\ (Older(x) = NotSet => x = NotSet)
  BY ParamAssumption DEF Older, Age, NotSet
<1>2. s \in Member
  BY DEF Good, Sound
<1>3. s.rcv \in [Node -> Age] /\ s.age \in Age /\ s.tm \in [Timer -> Age \cup {NotSet}]
  BY <1>2, MemberFields
<1>4. PICK rcv, age, tm : /\ rcv = [p \in Node |-> IF p \in s.ht THEN Older(s.rcv[p]) ELSE 0]
                          /\ age = Older(s.age)
                          /\ tm = [t \in Timer |-> Older(s.tm[t])]
  OBVIOUS
<1>5. PICK r : r = [s EXCEPT !.rcv = rcv, !.age = age, !.tm = tm]
  OBVIOUS
<1>6. r = Aged(s)
  BY <1>4, <1>5 DEF Aged
<1>7. rcv \in [Node -> Age] /\ age \in Age /\ tm \in [Timer -> Age \cup {NotSet}]
  <2>1. ASSUME NEW p \in Node PROVE (IF p \in s.ht THEN Older(s.rcv[p]) ELSE 0) \in Age
    BY <1>1, <1>3, ZeroAge
  <2>2. ASSUME NEW t \in Timer PROVE Older(s.tm[t]) \in Age \cup {NotSet}
    BY <1>1, <1>3
  <2> QED  BY <1>1, <1>3, <1>4, <2>1, <2>2
<1>8. \A t \in Timer : s.tm[t] = NotSet => tm[t] = NotSet
  BY <1>1, <1>3, <1>4
<1>9. /\ r \in Member /\ SameGroup(s, r) /\ r.out = s.out /\ r.ack = s.ack /\ r.tm = tm
      /\ r.told = s.told /\ r.up = s.up /\ r.q = s.q /\ r.iv = s.iv
  BY <1>2, <1>5, <1>7 DEF Member, SameGroup
<1>10. OrderOK(n, r) /\ GroupOK(n, r) /\ CountOK(r)
  BY <1>2, <1>9, SameGroupOK DEF Good, Sound
<1>11. SentOK(n, r)
  BY <1>9 DEF Good, Sound, SentOK
<1>12. TimersOK(n, r)
  BY <1>8, <1>9 DEF Good, Sound, TimersOK, SameGroup, Timer
<1>13. Sound(n, r)
  BY <1>9, <1>10, <1>11, <1>12 DEF Sound
<1>14. Done(n, r)
  BY <1>9, <1>13 DEF Good, Done, Informed, SameGroup
<1> QED  BY <1>6, <1>9, <1>13, <1>14 DEF Good, SameGroup

\* A tick passes.
LEMMA PassGood ==
    ASSUME Inv, Pass
    PROVE  MembersOK(mem') /\ ChannelsOK(chan') /\ Down(mem, mem')
<1>1. ASSUME NEW n \in Node
      PROVE  mem'[n] \in Member /\ Good(n, mem'[n]) /\ mem'[n].view = mem[n].view
  <2>1. mem[n] \in Member /\ Good(n, mem[n])
    BY DEF Inv, MembersOK
  <2>2. CASE Running(n)
    <3>1. mem'[n] = Aged(mem[n]) /\ mem[n].up = "run"
      BY <2>2 DEF Pass, Running
    <3> QED  BY <2>1, <3>1, AgedGood
  <2>3. CASE ~ Running(n)
    BY <2>1, <2>3 DEF Pass
  <2> QED  BY <2>2, <2>3
<1>2. MembersOK(mem')
  <2>1. mem' = [n \in Node |-> mem'[n]]
    BY DEF Pass
  <2> QED  BY <1>1, <2>1 DEF MembersOK
<1>3. Down(mem, mem')
  BY <1>1 DEF Down, StepsDown, STATE_PRIMARY, STATE_SECONDARY
<1>4. ChannelsOK(chan')
  BY DEF Pass, Inv
<1> QED  BY <1>2, <1>3, <1>4

\* The budget.
LEMMA SpendLeft ==
    ASSUME left \in Left, NEW what \in {"lose", "crash", "stall", "stop", "rejoin"}, Spend(what)
    PROVE  left' \in Left
  BY DEF Left, Spend

\* What is known of a running member.
LEMMA RunningDone ==
    ASSUME Inv, NEW n \in Node
    PROVE  /\ Good(n, mem[n]) /\ Sound(n, mem[n])
           /\ Running(n) => Done(n, mem[n])
  BY DEF Inv, MembersOK, Good, Running

\* Every step of the system keeps the invariant, and no member steps down
\* from primary to secondary while it is itself first in its queue.
LEMMA NextInv ==
    ASSUME Inv, Next
    PROVE  Inv' /\ Down(mem, mem')
<1>1. SUFFICES (MembersOK(mem') /\ ChannelsOK(chan') /\ Down(mem, mem')) /\ left' \in Left
  BY DEF Inv
<1>2. left \in Left /\ NoPeer \notin Node
  BY NodeAssumption DEF Inv, NoPeer
<1>3. ASSUME NEW n \in Node, Start(n)
      PROVE  (MembersOK(mem') /\ ChannelsOK(chan') /\ Down(mem, mem')) /\ left' \in Left
  <2>1. PICK s : s = start(mem[n], n)
    OBVIOUS
  <2>2. mem[n].view[n] = STATE_LISTEN
    BY <1>3, RunningDone DEF Start, Good
  <2>3. Done(n, s)
    BY <2>1, <2>2, RunningDone, StartDone
  <2>4. StepsDown(n, mem[n], s)
    BY <2>2 DEF StepsDown, STATE_LISTEN, STATE_PRIMARY
  <2>5. Become(n, s, NoPeer) /\ left' = left
    BY <1>3, <2>1 DEF Start
  <2> QED  BY <1>2, <2>3, <2>4, <2>5, BecomeGood
<1>4. ASSUME NEW n \in Node, Deactivate(n)
      PROVE  (MembersOK(mem') /\ ChannelsOK(chan') /\ Down(mem, mem')) /\ left' \in Left
  <2>1. PICK s : s = deactivate(mem[n], n)
    OBVIOUS
  <2>2. Done(n, s) /\ StepsDown(n, mem[n], s)
    BY <1>4, <2>1, RunningDone, DeactivateDone DEF Deactivate
  <2>3. Become(n, s, NoPeer) /\ Spend("rejoin")
    BY <1>4, <2>1 DEF Deactivate
  <2> QED  BY <1>2, <2>2, <2>3, BecomeGood, SpendLeft
<1>5. ASSUME NEW n \in Node, Activate(n)
      PROVE  (MembersOK(mem') /\ ChannelsOK(chan') /\ Down(mem, mem')) /\ left' \in Left
  <2>1. PICK s : s = activate(mem[n], n)
    OBVIOUS
  <2>2. Done(n, s) /\ StepsDown(n, mem[n], s)
    BY <1>5, <2>1, RunningDone, ActivateDone DEF Activate
  <2>3. Become(n, s, NoPeer) /\ left' = left
    BY <1>5, <2>1 DEF Activate
  <2> QED  BY <1>2, <2>2, <2>3, BecomeGood
<1>6. ASSUME NEW n \in Node, Stop(n)
      PROVE  (MembersOK(mem') /\ ChannelsOK(chan') /\ Down(mem, mem')) /\ left' \in Left
  <2>1. PICK s : s = stop(mem[n], n)
    OBVIOUS
  <2>2. Done(n, s) /\ StepsDown(n, mem[n], s)
    BY <1>6, <2>1, RunningDone, StopDone DEF Stop
  <2>3. Become(n, s, NoPeer) /\ Spend("stop")
    BY <1>6, <2>1 DEF Stop
  <2> QED  BY <1>2, <2>2, <2>3, BecomeGood, SpendLeft
<1>7. ASSUME NEW n \in Node, NEW t \in {"prep", "act"}, TakeoverTimer(n, t)
      PROVE  (MembersOK(mem') /\ ChannelsOK(chan') /\ Down(mem, mem')) /\ left' \in Left
  <2>1. PICK s : s = takeover_timer(mem[n], n, t)
    OBVIOUS
  <2>2. Done(n, mem[n]) /\ mem[n].tm[t] # NotSet
    BY <1>7, RunningDone DEF TakeoverTimer, Due
  <2>3. Done(n, s) /\ StepsDown(n, mem[n], s)
    BY <2>1, <2>2, TakeoverTimerDone
  <2>4. Become(n, s, NoPeer) /\ left' = left
    BY <1>7, <2>1 DEF TakeoverTimer
  <2> QED  BY <1>2, <2>3, <2>4, BecomeGood
<1>8. ASSUME NEW n \in Node, HeartbeatTimer(n)
      PROVE  (MembersOK(mem') /\ ChannelsOK(chan') /\ Down(mem, mem')) /\ left' \in Left
  <2>1. PICK s : s = hb_timer(mem[n], n)
    OBVIOUS
  <2>2. Done(n, mem[n]) /\ mem[n].tm["hb"] # NotSet
    BY <1>8, RunningDone DEF HeartbeatTimer, Due
  <2>3. Done(n, s) /\ StepsDown(n, mem[n], s)
    BY <2>1, <2>2, HeartbeatTimerDone
  <2>4. Become(n, s, NoPeer) /\ left' = left
    BY <1>8, <2>1 DEF HeartbeatTimer
  <2> QED  BY <1>2, <2>3, <2>4, BecomeGood
<1>9. ASSUME NEW n \in Node, JoinTimer(n)
      PROVE  (MembersOK(mem') /\ ChannelsOK(chan') /\ Down(mem, mem')) /\ left' \in Left
  <2>1. PICK s : s = join_timer(mem[n], n)
    OBVIOUS
  <2>2. Done(n, mem[n]) /\ mem[n].tm["join"] # NotSet
    BY <1>9, RunningDone DEF JoinTimer, Due
  <2>3. Done(n, s) /\ StepsDown(n, mem[n], s)
    BY <2>1, <2>2, JoinTimerDone
  <2>4. Become(n, s, NoPeer) /\ left' = left
    BY <1>9, <2>1 DEF JoinTimer
  <2> QED  BY <1>2, <2>3, <2>4, BecomeGood
<1>10. ASSUME NEW n \in Node, FinishTimer(n)
       PROVE  (MembersOK(mem') /\ ChannelsOK(chan') /\ Down(mem, mem')) /\ left' \in Left
  <2>1. PICK s : s = finish_timer(mem[n], n)
    OBVIOUS
  <2>2. Done(n, mem[n]) /\ mem[n].tm["fin"] # NotSet
    BY <1>10, RunningDone DEF FinishTimer, Due
  <2>3. Done(n, s) /\ StepsDown(n, mem[n], s)
    BY <2>1, <2>2, FinishTimerDone
  <2>4. Become(n, s, NoPeer) /\ left' = left
    BY <1>10, <2>1 DEF FinishTimer
  <2> QED  BY <1>2, <2>3, <2>4, BecomeGood
<1>11. ASSUME NEW n \in Node, NEW a \in Node, Receive(a, n)
       PROVE  (MembersOK(mem') /\ ChannelsOK(chan') /\ Down(mem, mem')) /\ left' \in Left
  <2>1. PICK m : m = Head(chan[a][n])
    OBVIOUS
  <2>2. PICK s : s = on_peer_msg(mem[n], n, m)
    OBVIOUS
  <2>3. /\ chan[a][n] \in Seq(Msg) /\ SentBy(a, chan[a][n]) /\ chan[a][n] # << >>
        /\ a # n
    BY <1>11 DEF Receive, Inv, ChannelsOK
  <2>4. m \in Msg /\ m.from # n
    BY <2>1, <2>3, TakeFirst
  <2>5. Done(n, s) /\ StepsDown(n, mem[n], s)
    BY <1>11, <2>2, <2>4, RunningDone, PeerMsgDone DEF Receive
  <2>6. Become(n, s, a) /\ left' = left
    BY <1>11, <2>1, <2>2 DEF Receive
  <2> QED  BY <1>2, <2>3, <2>5, <2>6, BecomeGood
<1>12. ASSUME NEW n \in Node, Exit(n) \/ Crash(n)
       PROVE  (MembersOK(mem') /\ ChannelsOK(chan') /\ Down(mem, mem')) /\ left' \in Left
  <2>1. Gone(n) /\ (left' = left \/ Spend("crash"))
    BY <1>12 DEF Exit, Crash
  <2> QED  BY <1>2, <2>1, GoneGood, SpendLeft
<1>13. ASSUME NEW n \in Node, NEW a \in Node, Lose(a, n)
       PROVE  (MembersOK(mem') /\ ChannelsOK(chan') /\ Down(mem, mem')) /\ left' \in Left
  BY <1>2, <1>13, LoseGood, SpendLeft DEF Lose
<1>14. ASSUME NEW n \in Node, NEW a \in Node, Discard(a, n)
       PROVE  (MembersOK(mem') /\ ChannelsOK(chan') /\ Down(mem, mem')) /\ left' \in Left
  <2>1. PICK m : m = Head(chan[a][n])
    OBVIOUS
  <2>2. PICK s : s = adopt(mem[n], n, m)
    OBVIOUS
  <2>3. chan[a][n] \in Seq(Msg) /\ SentBy(a, chan[a][n]) /\ chan[a][n] # << >>
    BY <1>14 DEF Discard, Inv, ChannelsOK
  <2>4. m \in Msg
    BY <2>1, <2>3, TakeFirst
  <2>5. Done(n, s) /\ s.view = mem[n].view
    BY <1>14, <2>2, <2>4, RunningDone, AdoptDone DEF Discard
  <2>6. StepsDown(n, mem[n], s)
    BY <2>5 DEF StepsDown, STATE_PRIMARY, STATE_SECONDARY
  <2>7. Become(n, s, a) /\ Spend("lose")
    BY <1>14, <2>1, <2>2 DEF Discard
  <2> QED  BY <1>2, <2>3, <2>5, <2>6, <2>7, BecomeGood, SpendLeft
<1>15. ASSUME Tick \/ \E n \in Node : Stall(n)
       PROVE  (MembersOK(mem') /\ ChannelsOK(chan') /\ Down(mem, mem')) /\ left' \in Left
  <2>1. Pass /\ (left' = left \/ Spend("stall"))
    BY <1>15 DEF Tick, Stall
  <2> QED  BY <1>2, <2>1, PassGood, SpendLeft
<1> QED
  BY <1>3, <1>4, <1>5, <1>6, <1>7, <1>8, <1>9, <1>10, <1>11, <1>12, <1>13, <1>14,
     <1>15 DEF Next, Step


----------------------------------------------------------------------------

\* The initial states satisfy the invariant.
LEMMA InitInv == Init => Inv
<1> SUFFICES ASSUME Init PROVE Inv
  OBVIOUS
<1>1. ASSUME NEW n \in Node PROVE mem[n] \in Member /\ Good(n, mem[n])
  <2>1. mem[n] = Idle(n)
    BY DEF Init
  <2> QED  BY <2>1, IdleGood
<1>2. MembersOK(mem)
  BY <1>1 DEF Init, MembersOK
<1>3. ChannelsOK(chan)
  <2>1. chan = [a \in Node |-> [b \in Node |-> << >>]] /\ << >> \in Seq(Msg)
    BY DEF Init
  <2>2. \A a \in Node : SentBy(a, << >>)
    BY DEF SentBy
  <2> QED  BY <2>1, <2>2 DEF ChannelsOK
<1>4. left \in Left
  BY BudgetAssumption DEF Init, Left
<1> QED  BY <1>2, <1>3, <1>4 DEF Inv

\* The invariant holds throughout, whatever the application calls and
\* whatever is lost, held up or crashes.
THEOREM Invariance == Spec => []Inv
<1>1. Init => Inv
  BY InitInv
<1>2. Inv /\ [Next]_vars => Inv'
  <2>1. ASSUME Inv, Next PROVE Inv'
    BY <2>1, NextInv
  <2>2. ASSUME Inv, UNCHANGED vars PROVE Inv'
    BY <2>2 DEF Inv, vars
  <2> QED  BY <2>1, <2>2
<1> QED  BY <1>1, <1>2, PTL DEF Spec

\* Every variable keeps its type: no index, count or age leaves its range,
\* and every message sent is well formed.
THEOREM TypeCorrect == Spec => []TypeOK
<1>1. Inv => TypeOK
  BY DEF Inv, MembersOK, ChannelsOK, Left, TypeOK
<1> QED  BY <1>1, Invariance, PTL

\* Every queue is ranked and every cached position right (get_pos of
\* src/ft.cpp never has to print its complaint), although insert, update,
\* remove and trim_ft_queue move one member at a time.
THEOREM QueuesRanked == Spec => []QueueRanked
<1>1. Inv => QueueRanked
  <2> SUFFICES ASSUME Inv, NEW n \in Node
               PROVE  /\ PosAgrees(mem[n].q)
                      /\ mem[n].view[n] # STATE_FINISH => Ranked(mem[n].view, mem[n].q)
    BY DEF QueueRanked
  <2>1. OrderOK(n, mem[n])
    BY RunningDone DEF Sound
  <2> QED  BY <2>1, InOrderCases DEF OrderOK
<1> QED  BY <1>1, Invariance, PTL

\* Every queue holds the known peers and, if it has joined, the member
\* itself: ft_queue and peer_ht never disagree.
THEOREM QueuesHoldGroup == Spec => []QueueIsGroup
<1>1. Inv => QueueIsGroup
  <2>1. ASSUME Inv PROVE \A n \in Node : GroupOK(n, mem[n])
    BY <2>1, RunningDone DEF Sound
  <2> QED  BY <2>1 DEF QueueIsGroup, GroupOK
<1> QED  BY <1>1, Invariance, PTL

\* state_count is right, through every increment and decrement.
THEOREM CountsCorrect == Spec => []CountsMatch
<1>1. Inv => CountsMatch
  <2>1. ASSUME Inv PROVE \A n \in Node : CountOK(mem[n])
    BY <2>1, RunningDone DEF Sound
  <2> QED  BY <2>1 DEF CountsMatch, CountOK, InState
<1> QED  BY <1>1, Invariance, PTL

\* The application has been told what its member is, and of every change of
\* the queue, whenever a handler has returned.
THEOREM ListenersInformed == Spec => []ListenerInformed
<1>1. Inv => ListenerInformed
  BY RunningDone DEF ListenerInformed, Done, Informed, Running
<1> QED  BY <1>1, Invariance, PTL

\* The intervals are in order in every running member, whatever it was
\* configured with and whatever it adopted.
THEOREM IntervalsOrdered == Spec => []IntervalsSane
<1>1. Inv => IntervalsSane
  BY RunningDone DEF IntervalsSane, Done, IntervalsOK, Running
<1> QED  BY <1>1, Invariance, PTL

\* A primary becomes secondary only for a member that outranks it.
THEOREM StepsDownOnlyForHigherRank == Spec => StepsDownForHigherRank
<1> DEFINE Yields(n) ==
      mem[n].view[n] = STATE_PRIMARY /\ mem'[n].view[n] = STATE_SECONDARY
        => is_greater(mem'[n].view, First(mem'[n]), n)
<1>1. ASSUME Inv, Inv', Down(mem, mem'), NEW n \in Node PROVE Yields(n)
  <2> SUFFICES ASSUME mem[n].view[n] = STATE_PRIMARY, mem'[n].view[n] = STATE_SECONDARY
               PROVE  is_greater(mem'[n].view, First(mem'[n]), n)
    OBVIOUS
  <2>1. PICK s : s = mem'[n]
    OBVIOUS
  <2>2. s.q.ptr[1] # n
    BY <1>1, <2>1 DEF Down, StepsDown, First
  <2>3. s \in Member /\ OrderOK(n, s) /\ GroupOK(n, s)
    BY <1>1, <2>1 DEF Inv, MembersOK, Good, Sound
  <2>4. n \in Members(s.q) /\ InOrder(s.view, s.q.ptr)
    BY <2>1, <2>3
       DEF OrderOK, GroupOK, STATE_SECONDARY, STATE_FINISH, STATE_LISTEN
  <2>5. PICK i \in 1 .. Len(s.q.ptr) : s.q.ptr[i] = n
    BY <2>4 DEF Members, Elements
  <2>6. s.q.ptr \in Seq(Node)
    BY <2>3, MemberFields DEF Queue
  <2>7. i > 1 /\ 1 \in 1 .. Len(s.q.ptr)
    BY <2>2, <2>5, <2>6
  <2>8. is_greater(s.view, s.q.ptr[1], n)
    BY <2>4, <2>5, <2>7 DEF InOrder
  <2> QED  BY <2>1, <2>8 DEF First
<1>2. Inv /\ Inv' /\ [Next]_vars => [\A n \in Node : Yields(n)]_vars
  <2>1. ASSUME Inv, Inv', Next PROVE \A n \in Node : Yields(n)
    BY <1>1, <2>1, NextInv
  <2> QED  BY <2>1
<1> QED  BY <1>2, Invariance, PTL DEF Spec, StepsDownForHigherRank

============================================================================
