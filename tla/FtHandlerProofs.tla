--------------------------- MODULE FtHandlerProofs ---------------------------
(***************************************************************************)
(* The same for whole handlers: what the application calls, what a timer   *)
(* does and what a message does leave a sound member sound, and its        *)
(* listener informed.                                                      *)
(***************************************************************************)
EXTENDS FtMemberProofs

\* A member becomes, or stays, secondary, or takes over at once.
LEMMA SecondaryKeeps ==
    ASSUME NEW n \in Node, NEW s, Sound(n, s), s.view[n] \in Ranking
    PROVE  LET r == set_state_SECONDARY(s, n) IN
           /\ Keeps(n, s, r)
           /\ r.view[n] \in {STATE_PRIMARY, STATE_SECONDARY}
           /\ (s.view[n] # STATE_JOIN /\ First(s) # n) => First(r) # n
<1> USE DEF STATE_LISTEN, STATE_JOIN, STATE_PRIMARY, STATE_SECONDARY, STATE_FINISH
<1>1. PICK a : a = enter(s, n, STATE_SECONDARY)
  OBVIOUS
<1>2. /\ Sound(n, a) /\ a.view[n] = STATE_SECONDARY /\ a.told = s.told
      /\ a.iv = s.iv /\ a.up = s.up
  BY <1>1, EnterSound DEF Ranking
<1>3. s.view[n] # STATE_JOIN => First(a) = First(s)
  <2>1. ASSUME s.view[n] # STATE_JOIN PROVE First(a) = First(s)
    <3>1. a = update_state(s, n, STATE_SECONDARY)
      BY <1>1, <2>1 DEF enter
    <3>2. s \in Member /\ STATE_SECONDARY \in FtState
      BY DEF Sound, FtState
    <3>3. a.q = s.q
      BY <3>1, <3>2, UpdateState
    <3> QED  BY <3>3 DEF First
  <2> QED  BY <2>1
<1>4. PICK c : c = IF s.view[n] = STATE_SECONDARY THEN a
                   ELSE notify_change(send_msg(a, n, "DEACTIVATE"), "DEACTIVATE")
  OBVIOUS
<1>5. /\ Sound(n, c) /\ c.view[n] = STATE_SECONDARY /\ First(c) = First(a)
      /\ c.iv = s.iv /\ c.up = s.up /\ (Informed(n, s) => Informed(n, c))
  <2>1. CASE s.view[n] = STATE_SECONDARY
    <3>1. c = a
      BY <1>4, <2>1
    <3> QED  BY <1>2, <2>1, <3>1 DEF Informed
  <2>2. CASE s.view[n] # STATE_SECONDARY
    <3>1. "DEACTIVATE" \in Told /\ "DEACTIVATE" \in MsgType
      BY DEF Told, MsgType
    <3>2. PICK b : b = send_msg(a, n, "DEACTIVATE")
      OBVIOUS
    <3>3. Keeps(n, a, b) /\ b.view = a.view /\ b.q = a.q
      BY <1>2, <3>1, <3>2, SendKeeps
    <3>4. Sound(n, b) /\ b.view[n] = STATE_SECONDARY /\ b.iv = s.iv /\ b.up = s.up
      BY <1>2, <3>3 DEF Keeps
    <3>5. c = notify_change(b, "DEACTIVATE")
      BY <1>4, <2>2, <3>2
    <3>6. Sound(n, c)
      BY <3>4, <3>5, NotifySound
    <3>7. /\ c.view = b.view /\ c.q.ptr = b.q.ptr /\ c.told = "DEACTIVATE"
          /\ c.iv = b.iv /\ c.up = b.up
      BY <3>1, <3>4, <3>5, NotifySame DEF Sound, SameGroup
    <3>8. Informed(n, c)
      BY <3>4, <3>7 DEF Informed
    <3> QED  BY <3>3, <3>4, <3>6, <3>7, <3>8 DEF First
  <2> QED  BY <2>1, <2>2
<1>6. PICK r : r = takeover_joined(c, n, "DEACTIVATE", FALSE)
  OBVIOUS
<1>7. r = set_state_SECONDARY(s, n)
  BY <1>1, <1>4, <1>6 DEF set_state_SECONDARY
<1>8. c.view[n] \in Ranking
  BY <1>5 DEF Ranking
<1>9. /\ Keeps(n, c, r) /\ (r.view[n] = c.view[n] \/ r.view[n] = STATE_PRIMARY)
      /\ First(c) # n => r.q.ptr = c.q.ptr
  <2>0. PICK ac : ac = "DEACTIVATE"
    OBVIOUS
  <2>1. PICK dl \in BOOLEAN : dl = FALSE
    OBVIOUS
  <2>2. PICK v : v = takeover_joined(c, n, ac, dl)
    OBVIOUS
  <2>3. Sound(n, c)
    BY <1>5
  <2>4. Keeps(n, c, v) /\ (v.view[n] = c.view[n] \/ v.view[n] = STATE_PRIMARY)
        /\ (First(c) # n => v.view = c.view /\ v.q.ptr = c.q.ptr)
    BY <1>8, <2>2, <2>3, TakeoverKeeps
  <2> QED BY <1>6, <2>0, <2>1, <2>2, <2>4
<1>10. Keeps(n, s, r)
  BY <1>5, <1>9 DEF Keeps
<1>11. First(c) # n => First(r) # n
  BY <1>9 DEF First
<1> QED  BY <1>3, <1>5, <1>7, <1>9, <1>10, <1>11

\* prepare_takeover.
LEMMA PrepareTakeoverKeeps ==
    ASSUME NEW n \in Node, NEW s, Sound(n, s), NEW action, NEW deadline \in BOOLEAN,
           s.view[n] \in Ranking \/ (s.view[n] = STATE_FINISH /\ deadline /\ First(s) # n)
    PROVE  LET r == prepare_takeover(s, n, action, deadline) IN
           /\ Keeps(n, s, r)
           /\ s.view[n] \in Ranking => r.view[n] \in Ranking
           /\ s.view[n] = STATE_FINISH => r.view[n] = STATE_FINISH
           /\ s.view[n] = STATE_PRIMARY => r.view[n] = STATE_PRIMARY
<1> USE DEF STATE_LISTEN, STATE_JOIN, STATE_PRIMARY, STATE_SECONDARY, STATE_FINISH
<1>1. PICK r : r = prepare_takeover(s, n, action, deadline)
  OBVIOUS
<1>2. CASE s.view[n] # STATE_JOIN
  <2>1. r = takeover_joined(s, n, action, deadline)
    BY <1>1, <1>2 DEF prepare_takeover
  <2>2. /\ Keeps(n, s, r)
        /\ r.view[n] = s.view[n] \/ r.view[n] = STATE_PRIMARY
        /\ First(s) # n => r.view = s.view
    BY <2>1, TakeoverKeeps
  <2> QED  BY <1>1, <2>2 DEF Ranking
<1>3. CASE s.view[n] = STATE_JOIN /\ s.age < s.iv.act
  <2>1. r = arm_takeover(s, n, action, s.age)
    BY <1>1, <1>3 DEF prepare_takeover
  <2>2. s.age \in Age /\ s.view[n] \in Ranking
    BY <1>3, MemberFields DEF Sound, Ranking
  <2>3. Keeps(n, s, r) /\ r.view = s.view
    BY <2>1, <2>2, ArmKeeps
  <2> QED  BY <1>1, <1>3, <2>2, <2>3
<1>4. CASE s.view[n] = STATE_JOIN /\ ~ (s.age < s.iv.act)
  <2>1. s.view[n] \in Ranking
    BY <1>4 DEF Ranking
  <2>2. PICK a : /\ a = set_state_PRIMARY(s, n) \/ a = set_state_SECONDARY(s, n)
                 /\ r = notify_update(a)
    BY <1>1, <1>4 DEF prepare_takeover
  <2>3. Keeps(n, s, a) /\ a.view[n] \in {STATE_PRIMARY, STATE_SECONDARY}
    BY <2>1, <2>2, PrimaryKeeps, SecondaryKeeps
  <2>4. Keeps(n, a, r) /\ r.view = a.view
    BY <2>2, <2>3, UpdateKeeps DEF Keeps
  <2>5. Keeps(n, s, r)
    BY <2>3, <2>4, KeepsTransitive
  <2> QED  BY <1>1, <1>4, <2>3, <2>4, <2>5 DEF Ranking
<1> QED  BY <1>2, <1>3, <1>4

\* A listening member joins, and what follows at once.
LEMMA JoinKeeps ==
    ASSUME NEW n \in Node, NEW s, Sound(n, s), s.view[n] = STATE_LISTEN,
           s.tm["join"] = NotSet
    PROVE  LET r == set_state_JOIN(s, n) IN
           Keeps(n, s, r) /\ r.view[n] \in Ranking /\ ~ r.q.news
<1> USE DEF STATE_LISTEN, STATE_JOIN, STATE_PRIMARY, STATE_SECONDARY, STATE_FINISH
<1>1. PICK u : u = [enter(s, n, STATE_JOIN)
                       EXCEPT !.q = insert(enter(s, n, STATE_JOIN).view, @, n)]
  OBVIOUS
<1>2. Sound(n, u) /\ u.view[n] = STATE_JOIN /\ u.told = s.told /\ u.iv = s.iv /\ u.up = s.up
  BY <1>1, JoinEnters
<1>3. Keeps(n, s, u)
  BY <1>2 DEF Keeps, Informed
<1>4. PICK a : a = send_msg(u, n, "ANNOUNCE")
  OBVIOUS
<1>5. Keeps(n, u, a) /\ a.view = u.view
  <2>1. "ANNOUNCE" \in MsgType
    BY DEF MsgType
  <2> QED  BY <1>2, <1>4, <2>1, SendKeeps
<1>6. PICK b : b = prepare_takeover(a, n, "JOIN", FALSE)
  OBVIOUS
<1>7. Keeps(n, a, b) /\ b.view[n] \in Ranking
  <2>1. Sound(n, a) /\ a.view[n] \in Ranking
    BY <1>2, <1>5 DEF Keeps, Ranking
  <2> QED  BY <1>6, <2>1, PrepareTakeoverKeeps
<1>8. PICK r : r = notify_change(b, "JOIN")
  OBVIOUS
<1>9. Keeps(n, b, r) /\ r.view = b.view /\ ~ r.q.news
  <2>1. "JOIN" \notin Told /\ Sound(n, b)
    BY <1>7 DEF Told, Keeps
  <2>2. ~ r.q.news
    BY <1>8, <2>1, NotifySame DEF Sound
  <2> QED  BY <1>8, <2>1, <2>2, PrepareKeeps
<1>10. r = set_state_JOIN(s, n)
  BY <1>1, <1>4, <1>6, <1>8 DEF set_state_JOIN
<1>11. Keeps(n, s, r)
  BY <1>3, <1>5, <1>7, <1>9, KeepsTransitive
<1> QED  BY <1>7, <1>9, <1>10, <1>11

----------------------------------------------------------------------------
(* The intervals. *)

IntervalsOK(iv) ==
    iv.hb > 0 => /\ iv.act > iv.hb
                 /\ iv.prep # 0 => iv.prep >= iv.hb /\ iv.prep < iv.act

\* start_hb's adjustment does what it is for.
LEMMA AdjustedSane ==
    ASSUME NEW iv \in Interval
    PROVE  Adjusted(iv) \in Interval /\ IntervalsOK(Adjusted(iv))
<1>1. PICK hb \in Nat, a \in Nat, p \in Nat : hb = iv.hb /\ a = iv.act /\ p = iv.prep
  BY DEF Interval
<1>2. PICK act : act = IF a <= hb THEN hb * 2 + hb \div 10 ELSE a
  OBVIOUS
<1>3. act \in Nat /\ (hb > 0 => act > hb)
  <2>1. hb \div 10 \in Nat
    BY <1>1
  <2> QED  BY <1>2, <2>1
<1>4. PICK prep : prep = IF p # 0 /\ (p < hb \/ p >= act) THEN (hb + act) \div 2 ELSE p
  OBVIOUS
<1>5. prep \in Nat /\ (hb > 0 /\ prep # 0 => prep >= hb /\ prep < act)
  <2>1. (hb + act) \div 2 \in Nat
    BY <1>3
  <2>2. hb > 0 => (hb + act) \div 2 >= hb /\ (hb + act) \div 2 < act
    BY <1>3
  <2> QED  BY <1>3, <1>4, <2>1, <2>2
<1>6. Adjusted(iv) = [hb |-> hb, act |-> act, prep |-> prep]
  BY <1>1, <1>2, <1>4 DEF Adjusted
<1> QED  BY <1>3, <1>5, <1>6 DEF Interval, IntervalsOK

\* start_hb of a member that has not left.
LEMMA StartHbSound ==
    ASSUME NEW n \in Node, NEW s, Sound(n, s), s.view[n] # STATE_FINISH, NEW iv \in Interval
    PROVE  LET r == start_hb(s, iv) IN
           /\ Sound(n, r) /\ r.view = s.view /\ r.told = s.told /\ r.up = s.up /\ r.q = s.q
           /\ r.tm["join"] = s.tm["join"] /\ IntervalsOK(r.iv)
<1>1. s \in Member /\ s.iv \in Interval /\ s.tm \in [Timer -> Age \cup {NotSet}]
  BY MemberFields DEF Sound
<1>2. PICK given : given = [hb   |-> IF iv.hb # 0 THEN iv.hb ELSE s.iv.hb,
                            act  |-> IF iv.act # 0 THEN iv.act ELSE s.iv.act,
                            prep |-> IF iv.prep # 0 THEN iv.prep ELSE s.iv.prep]
  OBVIOUS
<1>3. given \in Interval
  BY <1>1, <1>2 DEF Interval
<1>4. PICK new : new = Adjusted(given)
  OBVIOUS
<1>5. new \in Interval /\ IntervalsOK(new)
  BY <1>3, <1>4, AdjustedSane
<1>6. PICK tm1 : tm1 = IF given # s.iv \/ given.act <= given.hb \/ new # given
                       THEN [s.tm EXCEPT !["act"] = NotSet, !["prep"] = NotSet,
                                         !["hb"] = NotSet]
                       ELSE s.tm
  OBVIOUS
<1>7. tm1 \in [Timer -> Age \cup {NotSet}] /\ tm1["join"] = s.tm["join"]
  BY <1>1, <1>6 DEF Timer
<1>8. PICK tm : tm = IF tm1["hb"] = NotSet THEN [tm1 EXCEPT !["hb"] = 0] ELSE tm1
  OBVIOUS
<1>9. tm \in [Timer -> Age \cup {NotSet}] /\ tm["join"] = s.tm["join"]
  BY <1>7, <1>8, ZeroAge DEF Timer
<1>10. PICK t : t = [s EXCEPT !.tm = tm]
  OBVIOUS
<1>11. Keeps(n, s, t) /\ t.view = s.view /\ t.q = s.q /\ t.told = s.told /\ t.tm = tm
  <2>1. tm["join"] # NotSet => s.view[n] = STATE_LISTEN
    BY <1>9 DEF Sound, TimersOK
  <2> QED  BY <1>9, <1>10, <2>1, TimerKeeps
<1>12. PICK r : r = start_hb(s, iv)
  OBVIOUS
<1>13. r = [t EXCEPT !.iv = new]
  BY <1>1, <1>2, <1>4, <1>6, <1>8, <1>10, <1>12 DEF start_hb, Member
<1>14. /\ t \in Member /\ r \in Member /\ SameGroup(t, r) /\ r.out = t.out /\ r.ack = t.ack
       /\ r.tm = t.tm /\ r.told = t.told /\ r.iv = new /\ r.up = t.up /\ r.q = t.q
  BY <1>5, <1>11, <1>13 DEF Keeps, Sound, Member, SameGroup
<1>15. OrderOK(n, r) /\ GroupOK(n, r) /\ CountOK(r)
  BY <1>11, <1>14, SameGroupOK DEF Keeps, Sound
<1>16. SentOK(n, r) /\ TimersOK(n, r)
  BY <1>11, <1>14 DEF Keeps, Sound, SentOK, TimersOK, SameGroup
<1> QED  BY <1>5, <1>9, <1>11, <1>12, <1>14, <1>15, <1>16 DEF Sound, Keeps, SameGroup

----------------------------------------------------------------------------
(* The calls of the application. *)

\* What a handler leaves behind: a sound member, its listener informed.
Done(n, r) ==
    /\ Sound(n, r)
    /\ Informed(n, r)
    /\ ~ r.q.news
    /\ IntervalsOK(r.iv)
    /\ r.up = "run"

\* It is no longer primary only if somebody else is first.
StepsDown(n, s, r) ==
    s.view[n] = STATE_PRIMARY /\ r.view[n] = STATE_SECONDARY => First(r) # n

\* What keeps a member between two handlers, if its listener is told, is done.
LEMMA KeepsDone ==
    ASSUME NEW n, NEW s, NEW r, Done(n, s), Keeps(n, s, r), ~ r.q.news
    PROVE  Done(n, r)
  BY DEF Done, Keeps

\* A listening member says that it listens.
LEMMA ListenSound ==
    ASSUME NEW n \in Node, NEW s, Sound(n, s), s.view[n] = STATE_LISTEN
    PROVE  LET r == set_state_LISTEN(s, n) IN
           Sound(n, r) /\ r.view[n] = STATE_LISTEN /\ r.iv = s.iv /\ r.up = s.up
<1> USE DEF STATE_LISTEN, STATE_JOIN, STATE_PRIMARY, STATE_SECONDARY, STATE_FINISH
<1>1. s \in Member /\ OrderOK(n, s) /\ GroupOK(n, s) /\ CountOK(s) /\ SentOK(n, s) /\ TimersOK(n, s)
  BY DEF Sound
<1>2. PICK a : a = enter(s, n, STATE_LISTEN)
  OBVIOUS
<1>3. /\ a \in Member /\ a.view = [s.view EXCEPT ![n] = STATE_LISTEN] /\ CountOK(a)
      /\ a.q = s.q /\ a.ht = s.ht /\ a.tm = s.tm /\ a.out = s.out /\ a.told = s.told
      /\ a.ack = s.ack /\ a.iv = s.iv /\ a.up = s.up
  <2>1. a = update_state(s, n, STATE_LISTEN) /\ STATE_LISTEN \in FtState
    BY <1>2 DEF enter, FtState
  <2> QED  BY <1>1, <2>1, UpdateState
<1>4. a.view = s.view
  <2>1. s.view \in View
    BY <1>1, MemberFields
  <2> QED  BY <1>3, <2>1 DEF View
<1>5. Sound(n, a)
  BY <1>1, <1>3, <1>4 DEF Sound, OrderOK, GroupOK, SentOK, TimersOK
<1>6. PICK r : r = send_msg(a, n, "ANNOUNCE")
  OBVIOUS
<1>7. Keeps(n, a, r) /\ r.view = a.view
  <2>1. "ANNOUNCE" \in MsgType
    BY DEF MsgType
  <2> QED  BY <1>5, <1>6, <2>1, SendKeeps
<1>8. r = set_state_LISTEN(s, n)
  BY <1>2, <1>6 DEF set_state_LISTEN
<1> QED  BY <1>3, <1>4, <1>7, <1>8 DEF Keeps

\* Telling LISTEN to a member that listens.
LEMMA ToldListen ==
    ASSUME NEW n \in Node, NEW s, Sound(n, s), s.view[n] = STATE_LISTEN,
           IntervalsOK(s.iv), s.up = "run"
    PROVE  Done(n, notify_change(s, "LISTEN"))
<1> USE DEF STATE_LISTEN, STATE_JOIN, STATE_PRIMARY, STATE_SECONDARY, STATE_FINISH
<1>1. PICK r : r = notify_change(s, "LISTEN")
  OBVIOUS
<1>2. Sound(n, r)
  BY <1>1, NotifySound
<1>3. "LISTEN" \in Told
  BY DEF Told
<1>4. r.view = s.view /\ r.told = "LISTEN" /\ ~ r.q.news /\ r.iv = s.iv /\ r.up = s.up
  BY <1>1, <1>3, NotifySame DEF Sound, SameGroup
<1>5. Informed(n, r)
  BY <1>4 DEF Informed
<1> QED  BY <1>1, <1>2, <1>4, <1>5 DEF Done

\* start() of a member that has not started.
LEMMA StartDone ==
    ASSUME NEW n \in Node, NEW s, Sound(n, s), s.view[n] = STATE_LISTEN
    PROVE  Done(n, start(s, n))
<1>1. s \in Member /\ s.tm \in [Timer -> Age \cup {NotSet}]
  BY MemberFields DEF Sound
<1>2. PICK tm : tm = [s.tm EXCEPT !["join"] = IF Param[n].join # 0 THEN 0 ELSE NotSet]
  OBVIOUS
<1>3. tm \in [Timer -> Age \cup {NotSet}]
  BY <1>1, <1>2, ZeroAge DEF Timer
<1>4. PICK a : a = [s EXCEPT !.tm = tm]
  OBVIOUS
<1>5. Sound(n, a) /\ a.view = s.view /\ a.q = s.q
  <2>1. s.view[n] # STATE_FINISH
    BY DEF STATE_LISTEN, STATE_FINISH
  <2> QED  BY <1>3, <1>4, <2>1, TimerSound
<1>6. PICK t : t = [a EXCEPT !.up = "run", !.sub = TRUE]
  OBVIOUS
<1>7. /\ a \in Member /\ t \in Member /\ SameGroup(a, t) /\ t.out = a.out /\ t.ack = a.ack
      /\ t.tm = a.tm /\ t.told = a.told /\ t.up = "run"
  BY <1>5, <1>6 DEF Sound, Member, SameGroup
<1>8. OrderOK(n, t) /\ GroupOK(n, t) /\ CountOK(t)
  BY <1>5, <1>7, SameGroupOK DEF Sound
<1>9. SentOK(n, t) /\ TimersOK(n, t) /\ t.view[n] = STATE_LISTEN
  BY <1>5, <1>7 DEF Sound, SentOK, TimersOK, SameGroup
<1>10. Sound(n, t)
  BY <1>7, <1>8, <1>9 DEF Sound
<1>11. PICK iv : iv = [hb |-> Param[n].hb, act |-> Param[n].act, prep |-> Param[n].prep]
  OBVIOUS
<1>12. iv \in Interval
  BY <1>11, ParamAssumption DEF Interval
<1>13. PICK u : u = start_hb(t, iv)
  OBVIOUS
<1>14. Sound(n, u) /\ u.view = t.view /\ u.up = t.up /\ IntervalsOK(u.iv)
  <2>1. t.view[n] # STATE_FINISH
    BY <1>9 DEF STATE_LISTEN, STATE_FINISH
  <2> QED  BY <1>10, <1>12, <1>13, <2>1, StartHbSound
<1>15. PICK w : w = set_state_LISTEN(u, n)
  OBVIOUS
<1>16. Sound(n, w) /\ w.view[n] = STATE_LISTEN /\ w.iv = u.iv /\ w.up = u.up
  BY <1>9, <1>14, <1>15, ListenSound
<1>17. t = [s EXCEPT !.up = "run", !.sub = TRUE,
                     !.tm["join"] = IF Param[n].join # 0 THEN 0 ELSE NotSet]
  BY <1>1, <1>2, <1>4, <1>6 DEF Member
<1>18. start(s, n) = notify_change(w, "LISTEN")
  BY <1>11, <1>13, <1>15, <1>17 DEF start
<1> QED  BY <1>7, <1>14, <1>16, <1>18, ToldListen

\* Setting or clearing one timer.
Timed(s, x, age) == [s EXCEPT !.tm[x] = age]

\* One timer changes: the member stays as it was, if it is not the join
\* timer that is set and if the member has not left.
LEMMA TimedKeeps ==
    ASSUME NEW n \in Node, NEW s, Sound(n, s), s.view[n] # STATE_FINISH, NEW x \in Timer,
           NEW age \in Age \cup {NotSet}, x # "join" \/ age = NotSet
    PROVE  LET r == Timed(s, x, age) IN
           Keeps(n, s, r) /\ r.view = s.view /\ r.q = s.q /\ r.told = s.told /\ r.tm[x] = age
<1>1. s \in Member /\ s.tm \in [Timer -> Age \cup {NotSet}]
  BY MemberFields DEF Sound
<1>2. PICK tm : tm = [s.tm EXCEPT ![x] = age]
  OBVIOUS
<1>3. tm \in [Timer -> Age \cup {NotSet}] /\ tm[x] = age
  BY <1>1, <1>2
<1>4. tm["join"] # NotSet => s.view[n] = STATE_LISTEN
  BY <1>1, <1>2 DEF Timer, Sound, TimersOK
<1>5. PICK r : r = [s EXCEPT !.tm = tm]
  OBVIOUS
<1>6. Keeps(n, s, r) /\ r.view = s.view /\ r.q = s.q /\ r.told = s.told /\ r.tm = tm
  BY <1>3, <1>4, <1>5, TimerKeeps
<1>7. r = Timed(s, x, age)
  BY <1>1, <1>2, <1>5 DEF Member, Timed
<1> QED  BY <1>3, <1>6, <1>7

\* activate(): a member that listens joins, any other is left alone.
LEMMA ActivateDone ==
    ASSUME NEW n \in Node, NEW s, Done(n, s)
    PROVE  Done(n, activate(s, n)) /\ StepsDown(n, s, activate(s, n))
<1>1. CASE s.view[n] # STATE_LISTEN
  <2>1. activate(s, n) = s
    BY <1>1 DEF activate
  <2> QED  BY <2>1 DEF StepsDown, STATE_PRIMARY, STATE_SECONDARY
<1>2. CASE s.view[n] = STATE_LISTEN
  <2>1. PICK a : a = Timed(s, "join", NotSet)
    OBVIOUS
  <2>2. "join" \in Timer /\ Sound(n, s) /\ s.view[n] # STATE_FINISH
    BY <1>2 DEF Timer, Done, STATE_LISTEN, STATE_FINISH
  <2>3. Keeps(n, s, a) /\ a.view = s.view /\ a.tm["join"] = NotSet
    BY <2>1, <2>2, TimedKeeps
  <2>4. PICK b : b = [a EXCEPT !.age = 0]
    OBVIOUS
  <2>5. /\ a \in Member /\ b \in Member /\ SameGroup(a, b) /\ b.out = a.out /\ b.ack = a.ack
        /\ b.tm = a.tm /\ b.told = a.told /\ b.iv = a.iv /\ b.up = a.up
    BY <2>3, <2>4, ZeroAge DEF Keeps, Sound, Member, SameGroup
  <2>6. Sound(n, b) /\ b.view = a.view
    <3>1. OrderOK(n, b) /\ GroupOK(n, b) /\ CountOK(b)
      BY <2>3, <2>5, SameGroupOK DEF Keeps, Sound
    <3>2. SentOK(n, b) /\ TimersOK(n, b) /\ b.view = a.view
      BY <2>3, <2>5 DEF Keeps, Sound, SentOK, TimersOK, SameGroup
    <3> QED  BY <2>5, <3>1, <3>2 DEF Sound
  <2>7. Keeps(n, a, b)
    BY <2>5, <2>6 DEF Keeps, Informed
  <2>8. b = [s EXCEPT !.age = 0, !.tm["join"] = NotSet]
    BY <2>1, <2>2, <2>4 DEF Sound, Member, Timed
  <2>9. PICK r : r = set_state_JOIN(b, n)
    OBVIOUS
  <2>10. r = activate(s, n)
    BY <1>2, <2>8, <2>9 DEF activate
  <2>11. Keeps(n, b, r) /\ ~ r.q.news
    BY <1>2, <2>3, <2>5, <2>6, <2>9, JoinKeeps
  <2>12. Keeps(n, s, r)
    BY <2>3, <2>7, <2>11, KeepsTransitive
  <2>13. StepsDown(n, s, r)
    BY <1>2 DEF StepsDown, STATE_LISTEN, STATE_PRIMARY
  <2> QED  BY <2>10, <2>11, <2>12, <2>13, KeepsDone
<1> QED  BY <1>1, <1>2

\* deactivate(): a member that has joined, and has not left, goes back to
\* listening.
LEMMA DeactivateDone ==
    ASSUME NEW n \in Node, NEW s, Done(n, s), s.told # "FINISH"
    PROVE  Done(n, deactivate(s, n)) /\ StepsDown(n, s, deactivate(s, n))
<1>1. CASE s.view[n] = STATE_LISTEN
  <2>1. deactivate(s, n) = s
    BY <1>1 DEF deactivate
  <2> QED  BY <2>1 DEF StepsDown, STATE_PRIMARY, STATE_SECONDARY
<1>2. CASE s.view[n] # STATE_LISTEN
  <2>1. Sound(n, s) /\ s.view[n] \notin {STATE_LISTEN, STATE_FINISH}
    BY <1>2 DEF Done, Informed
  <2>2. PICK a : a = set_state_LISTEN(stop_timers([s EXCEPT !.q = remove(@, n)]), n)
    OBVIOUS
  <2>3. Sound(n, a) /\ a.view[n] = STATE_LISTEN /\ a.iv = s.iv /\ a.up = s.up
    BY <2>1, <2>2, LeaveSound
  <2>4. PICK r : r = notify_change(a, "LISTEN")
    OBVIOUS
  <2>5. r = deactivate(s, n)
    BY <1>2, <2>2, <2>4 DEF deactivate
  <2>6. Done(n, r)
    BY <2>3, <2>4, ToldListen DEF Done
  <2>7. r.view[n] = STATE_LISTEN
    BY <2>3, <2>4, NotifySame DEF Sound, SameGroup
  <2>8. StepsDown(n, s, r)
    BY <2>7 DEF StepsDown, STATE_LISTEN, STATE_SECONDARY
  <2> QED  BY <2>5, <2>6, <2>8
<1> QED  BY <1>1, <1>2


\* stop() of a member that has not left yet.
LEMMA StopDone ==
    ASSUME NEW n \in Node, NEW s, Done(n, s), s.told # "FINISH"
    PROVE  Done(n, stop(s, n)) /\ StepsDown(n, s, stop(s, n))
<1> USE DEF STATE_LISTEN, STATE_JOIN, STATE_PRIMARY, STATE_SECONDARY, STATE_FINISH
<1>1. Sound(n, s) /\ s.view[n] # STATE_FINISH
  BY DEF Done, Informed
<1>2. CASE Param[n].fin = 0
  <2>1. PICK r : r = set_state_FINISH(s, n)
    OBVIOUS
  <2>2. /\ Sound(n, r) /\ r.view[n] = STATE_FINISH /\ r.told = "FINISH" /\ ~ r.q.news
        /\ r.iv = s.iv /\ r.up = s.up
    BY <1>1, <2>1, FinishSound
  <2>3. r = stop(s, n)
    BY <1>2, <2>1 DEF stop
  <2> QED  BY <2>2, <2>3 DEF Done, Informed, StepsDown
<1>3. CASE Param[n].fin # 0 /\ s.tm["fin"] = NotSet
  <2>1. PICK a : a = send_msg(s, n, "FINISH")
    OBVIOUS
  <2>2. "FINISH" \in MsgType /\ "fin" \in Timer /\ 0 \in Age
    BY ZeroAge DEF MsgType, Timer
  <2>3. Keeps(n, s, a) /\ a.view = s.view /\ a.q = s.q
    BY <1>1, <2>1, <2>2, SendKeeps
  <2>4. Sound(n, a)
    BY <2>3 DEF Keeps
  <2>5. PICK r : r = Timed(a, "fin", 0)
    OBVIOUS
  <2>6. Keeps(n, a, r) /\ r.view = a.view /\ r.q = a.q
    <3>1. 0 \in Age \cup {NotSet} /\ "fin" # "join"
      BY <2>2
    <3> QED  BY <1>1, <2>2, <2>3, <2>4, <2>5, <3>1, TimedKeeps
  <2>7. Keeps(n, s, r)
    BY <2>3, <2>6, KeepsTransitive
  <2>8. r = stop(s, n)
    BY <1>3, <2>1, <2>5 DEF stop, Timed
  <2>9. ~ r.q.news /\ r.view = s.view
    BY <2>3, <2>6 DEF Done
  <2>10. Done(n, r)
    BY <2>7, <2>9, KeepsDone
  <2>11. StepsDown(n, s, r)
    BY <2>9 DEF StepsDown
  <2> QED  BY <2>8, <2>10, <2>11
<1>4. CASE Param[n].fin # 0 /\ s.tm["fin"] # NotSet
  <2>1. stop(s, n) = s
    BY <1>4 DEF stop
  <2> QED  BY <2>1 DEF StepsDown
<1> QED  BY <1>2, <1>3, <1>4

\* The join timer: it is set only while the member listens.
LEMMA JoinTimerDone ==
    ASSUME NEW n \in Node, NEW s, Done(n, s), s.tm["join"] # NotSet
    PROVE  Done(n, join_timer(s, n)) /\ StepsDown(n, s, join_timer(s, n))
<1> USE DEF STATE_LISTEN, STATE_JOIN, STATE_PRIMARY, STATE_SECONDARY, STATE_FINISH
<1>1. Sound(n, s) /\ s.view[n] = STATE_LISTEN /\ "join" \in Timer
  BY DEF Done, Sound, TimersOK, Timer
<1>2. PICK a : a = Timed(s, "join", NotSet)
  OBVIOUS
<1>3. Keeps(n, s, a) /\ a.view = s.view /\ a.tm["join"] = NotSet
  BY <1>1, <1>2, TimedKeeps
<1>4. PICK r : r = set_state_JOIN(a, n)
  OBVIOUS
<1>5. Keeps(n, a, r) /\ ~ r.q.news
  BY <1>1, <1>3, <1>4, JoinKeeps DEF Keeps
<1>6. Done(n, r)
  BY <1>3, <1>5, KeepsTransitive, KeepsDone
<1>7. r = join_timer(s, n)
  BY <1>2, <1>4 DEF join_timer, Timed
<1> QED  BY <1>1, <1>6, <1>7 DEF StepsDown

\* The finish timer: it is not set any more once the member has left.
LEMMA FinishTimerDone ==
    ASSUME NEW n \in Node, NEW s, Done(n, s), s.tm["fin"] # NotSet
    PROVE  Done(n, finish_timer(s, n)) /\ StepsDown(n, s, finish_timer(s, n))
<1> USE DEF STATE_LISTEN, STATE_JOIN, STATE_PRIMARY, STATE_SECONDARY, STATE_FINISH
<1>1. Sound(n, s) /\ s.view[n] # STATE_FINISH /\ "fin" \in Timer
  BY DEF Done, Sound, TimersOK, Timer
<1>2. PICK a : a = Timed(s, "fin", NotSet)
  OBVIOUS
<1>3. Keeps(n, s, a) /\ a.view = s.view
  BY <1>1, <1>2, TimedKeeps
<1>4. PICK r : r = set_state_FINISH(a, n)
  OBVIOUS
<1>5. /\ Sound(n, r) /\ r.view[n] = STATE_FINISH /\ r.told = "FINISH" /\ ~ r.q.news
      /\ r.iv = a.iv /\ r.up = a.up
  BY <1>1, <1>3, <1>4, FinishSound DEF Keeps
<1>6. Done(n, r)
  BY <1>3, <1>5 DEF Done, Informed, Keeps
<1>7. r = finish_timer(s, n)
  BY <1>2, <1>4 DEF finish_timer, Timed
<1> QED  BY <1>5, <1>6, <1>7 DEF StepsDown

\* Trimming the queue.
LEMMA TrimKeeps ==
    ASSUME NEW n \in Node, NEW s, Sound(n, s)
    PROVE  LET r == trim_ft_queue(s, n) IN Keeps(n, s, r) /\ r.view[n] = s.view[n]
  BY TrimSound DEF Keeps, Informed


\* The queue is announced: nothing else changes.
LEMMA AnnounceDone ==
    ASSUME NEW n \in Node, NEW s, Done(n, s), NEW t, Keeps(n, s, t), StepsDown(n, s, t)
    PROVE  Done(n, notify_update(t)) /\ StepsDown(n, s, notify_update(t))
<1>1. PICK r : r = notify_update(t)
  OBVIOUS
<1>2. Sound(n, t)
  BY DEF Keeps
<1>3. Keeps(n, t, r) /\ r.view = t.view /\ r.q.ptr = t.q.ptr /\ ~ r.q.news
  BY <1>1, <1>2, UpdateKeeps
<1>4. Done(n, r)
  BY <1>3, KeepsTransitive, KeepsDone
<1>5. StepsDown(n, s, r)
  BY <1>3 DEF StepsDown, First
<1> QED  BY <1>1, <1>4, <1>5

\* A takeover timer.
LEMMA TakeoverTimerDone ==
    ASSUME NEW n \in Node, NEW s, Done(n, s), NEW x \in {"prep", "act"}, s.tm[x] # NotSet
    PROVE  Done(n, takeover_timer(s, n, x)) /\ StepsDown(n, s, takeover_timer(s, n, x))
<1> USE DEF STATE_LISTEN, STATE_JOIN, STATE_PRIMARY, STATE_SECONDARY, STATE_FINISH
<1>1. Sound(n, s) /\ s.view[n] # STATE_FINISH /\ x \in Timer
  BY DEF Done, Sound, TimersOK, Timer
<1>2. PICK c : c = Timed(s, x, NotSet)
  OBVIOUS
<1>3. Keeps(n, s, c) /\ c.view = s.view /\ Sound(n, c)
  BY <1>1, <1>2, TimedKeeps DEF Keeps
<1>4. PICK t : t = IF Accurate(s, x) /\ s.view[n] \in {STATE_SECONDARY, STATE_JOIN}
                   THEN prepare_takeover(trim_ft_queue(c, n), n, x, FALSE) ELSE c
  OBVIOUS
<1>5. takeover_timer(s, n, x) = notify_update(t)
  BY <1>2, <1>4 DEF takeover_timer, Timed
<1>6. Keeps(n, s, t) /\ StepsDown(n, s, t)
  <2>1. CASE t = c
    BY <1>3, <2>1 DEF StepsDown
  <2>2. CASE t # c
    <3>1. PICK a : a = trim_ft_queue(c, n)
      OBVIOUS
    <3>2. s.view[n] \in {STATE_SECONDARY, STATE_JOIN} /\ t = prepare_takeover(a, n, x, FALSE)
      BY <1>4, <2>2, <3>1
    <3>3. Keeps(n, c, a) /\ a.view[n] = c.view[n] /\ Sound(n, a)
      BY <1>3, <3>1, TrimKeeps DEF Keeps
    <3>4. a.view[n] \in Ranking
      BY <1>3, <3>2, <3>3 DEF Ranking
    <3>5. Keeps(n, a, t)
      BY <3>2, <3>3, <3>4, PrepareTakeoverKeeps
    <3>6. StepsDown(n, s, t)
      BY <3>2 DEF StepsDown
    <3> QED  BY <1>3, <3>3, <3>5, <3>6, KeepsTransitive
  <2> QED  BY <2>1, <2>2
<1> QED  BY <1>5, <1>6, AnnounceDone

\* The heartbeat timer.
LEMMA HeartbeatTimerDone ==
    ASSUME NEW n \in Node, NEW s, Done(n, s), s.tm["hb"] # NotSet
    PROVE  Done(n, hb_timer(s, n)) /\ StepsDown(n, s, hb_timer(s, n))
<1> USE DEF STATE_LISTEN, STATE_JOIN, STATE_PRIMARY, STATE_SECONDARY, STATE_FINISH
<1>1. Sound(n, s) /\ s.view[n] # STATE_FINISH /\ "hb" \in Timer
  BY DEF Done, Sound, TimersOK, Timer
<1>2. PICK c : c = IF Accurate(s, "hb") THEN trim_ft_queue(s, n) ELSE s
  OBVIOUS
<1>3. Keeps(n, s, c) /\ c.view[n] = s.view[n] /\ Sound(n, c)
  <2>1. Keeps(n, s, s)
    BY <1>1 DEF Keeps
  <2> QED  BY <1>1, <1>2, <2>1, TrimKeeps DEF Keeps
<1>4. PICK a : a = IF Accurate(s, "hb") THEN prepare_takeover(c, n, "hb", FALSE) ELSE c
  OBVIOUS
<1>5. PICK d : d = IF c.view[n] = STATE_PRIMARY THEN send_msg(c, n, "HEARTBEAT")
                   ELSE IF c.view[n] = STATE_LISTEN THEN c
                   ELSE send_msg(a, n, "KEEPALIVE")
  OBVIOUS
<1>6. PICK t : t = Timed(d, "hb", 0)
  OBVIOUS
<1>7. hb_timer(s, n) = notify_update(t)
  BY <1>2, <1>4, <1>5, <1>6 DEF hb_timer, Timed
<1>8. "HEARTBEAT" \in MsgType /\ "KEEPALIVE" \in MsgType
  BY DEF MsgType
<1>9. /\ Keeps(n, s, d) /\ d.view[n] # STATE_FINISH
      /\ s.view[n] = STATE_PRIMARY => d.view[n] = STATE_PRIMARY
  <2>1. CASE c.view[n] = STATE_PRIMARY
    <3>1. d = send_msg(c, n, "HEARTBEAT")
      BY <1>5, <2>1
    <3>2. Keeps(n, c, d) /\ d.view = c.view
      BY <1>3, <1>8, <3>1, SendKeeps
    <3> QED  BY <1>3, <2>1, <3>2, KeepsTransitive
  <2>2. CASE c.view[n] = STATE_LISTEN
    BY <1>3, <1>5, <2>2
  <2>3. CASE c.view[n] \notin {STATE_PRIMARY, STATE_LISTEN}
    <3>1. c.view[n] \in Ranking
      <4>1. c.view[n] \in FtState
        BY <1>3 DEF Sound, Member
      <4> QED  BY <1>1, <1>3, <2>3, <4>1 DEF Ranking, FtState
    <3>2. d = send_msg(a, n, "KEEPALIVE")
      BY <1>5, <2>3
    <3>3. Keeps(n, c, a) /\ a.view[n] \in Ranking /\ Sound(n, a)
      <4>1. CASE a = c
        BY <1>3, <3>1, <4>1 DEF Keeps
      <4>2. CASE a # c
        <5>1. a = prepare_takeover(c, n, "hb", FALSE)
          BY <1>4, <4>2
        <5> QED  BY <1>3, <3>1, <5>1, PrepareTakeoverKeeps DEF Keeps
      <4> QED  BY <4>1, <4>2
    <3>4. Keeps(n, a, d) /\ d.view = a.view
      BY <1>8, <3>2, <3>3, SendKeeps
    <3>5. Keeps(n, s, d)
      BY <1>3, <3>3, <3>4, KeepsTransitive
    <3> QED  BY <1>3, <2>3, <3>3, <3>4, <3>5 DEF Ranking
  <2> QED  BY <2>1, <2>2, <2>3
<1>10. Keeps(n, d, t) /\ t.view = d.view
  <2>1. 0 \in Age \cup {NotSet} /\ "hb" # "join" /\ Sound(n, d)
    BY <1>9, ZeroAge DEF Keeps
  <2> QED  BY <1>1, <1>6, <1>9, <2>1, TimedKeeps
<1>11. Keeps(n, s, t) /\ StepsDown(n, s, t)
  BY <1>9, <1>10, KeepsTransitive DEF StepsDown
<1> QED  BY <1>7, <1>11, AnnounceDone

\* Settling: PRIMARY and SECONDARY follow the rank.
LEMMA SettleKeeps ==
    ASSUME NEW n \in Node, NEW s, Sound(n, s)
    PROVE  Keeps(n, s, settle(s, n)) /\ StepsDown(n, s, settle(s, n))
<1> USE DEF STATE_LISTEN, STATE_JOIN, STATE_PRIMARY, STATE_SECONDARY, STATE_FINISH
<1>1. PICK r : r = settle(s, n)
  OBVIOUS
<1>2. CASE s.view[n] = STATE_SECONDARY /\ First(s) = n
  <2>1. r = set_state_PRIMARY(s, n) /\ s.view[n] \in Ranking
    BY <1>1, <1>2 DEF settle, Ranking
  <2> QED  BY <1>1, <1>2, <2>1, PrimaryKeeps DEF StepsDown
<1>3. CASE s.view[n] \in {STATE_PRIMARY, STATE_SECONDARY} /\ First(s) # n
  <2>1. r = set_state_SECONDARY(s, n) /\ s.view[n] \in Ranking /\ s.view[n] # STATE_JOIN
    BY <1>1, <1>3 DEF settle, Ranking
  <2>2. Keeps(n, s, r) /\ First(r) # n
    BY <1>3, <2>1, SecondaryKeeps
  <2> QED  BY <1>1, <2>2 DEF StepsDown
<1>4. CASE r = s
  BY <1>1, <1>4 DEF Keeps, StepsDown
<1> QED  BY <1>1, <1>2, <1>3, <1>4 DEF settle


----------------------------------------------------------------------------

\* A member with another group.
Regrouped(s, cnt, view, q, ht, rcv) ==
    [s EXCEPT !.cnt = cnt, !.view = view, !.q = q, !.ht = ht, !.rcv = rcv]

\* The last group given to a member is the one it has.
LEMMA RegroupedTwice ==
    ASSUME NEW s \in Member, NEW cnt, NEW view, NEW q, NEW ht, NEW rcv,
           NEW c, NEW v, NEW k, NEW h, NEW r
    PROVE  Regrouped(Regrouped(s, c, v, k, h, r), cnt, view, q, ht, rcv)
             = Regrouped(s, cnt, view, q, ht, rcv)
  BY DEF Regrouped, Member

\* A peer that is learned only to be dropped might as well not be learned.
LEMMA DropLearned ==
    ASSUME NEW n \in Node, NEW s, Sound(n, s), NEW m \in Msg
    PROVE  drop_peer(learn(s, m), m.from) = drop_peer(s, m.from)
<1>1. PICK p : p = m.from
  OBVIOUS
<1>2. PICK a : a = learn(s, m)
  OBVIOUS
<1>3. s \in Member /\ p \in Node /\ m.state \in FtState
  BY <1>1 DEF Sound, Msg
<1>4. /\ s.view \in [Node -> FtState] /\ s.cnt \in [Counted -> Int] /\ s.rcv \in [Node -> Age]
  BY <1>3, MemberFields DEF View
<1>5. PICK c : c = CountUpdate(s.cnt, s.view[p], m.state)
  OBVIOUS
<1>6. /\ a = [s EXCEPT !.cnt = c, !.view = [s.view EXCEPT ![p] = m.state],
                       !.ht = s.ht \cup {p}, !.rcv = [s.rcv EXCEPT ![p] = 0]]
  BY <1>1, <1>2, <1>3, <1>5 DEF learn, update_state, Member
<1>7. /\ a \in Member /\ a.cnt = c /\ a.view = [s.view EXCEPT ![p] = m.state]
      /\ a.ht = s.ht \cup {p} /\ a.rcv = [s.rcv EXCEPT ![p] = 0] /\ a.q = s.q
  <2>1. c \in [Counted -> Int]
    BY <1>4, <1>5 DEF CountUpdate
  <2>2. [s.rcv EXCEPT ![p] = 0] \in [Node -> Age]
    BY <1>4, ZeroAge
  <2> QED  BY <1>3, <1>4, <1>6, <2>1, <2>2 DEF Member
<1>8. CountUpdate(c, a.view[p], STATE_LISTEN) = CountUpdate(s.cnt, s.view[p], STATE_LISTEN)
  <2>1. a.view[p] = m.state
    BY <1>3, <1>4, <1>7
  <2> QED  BY <1>4, <1>5, <2>1 DEF CountUpdate
<1>9. [a.view EXCEPT ![p] = STATE_LISTEN] = [s.view EXCEPT ![p] = STATE_LISTEN]
  BY <1>3, <1>4, <1>7
<1>10. a.ht \ {p} = s.ht \ {p} /\ [a.rcv EXCEPT ![p] = 0] = [s.rcv EXCEPT ![p] = 0]
  BY <1>3, <1>4, <1>7
<1>11. drop_peer(a, p)
         = [a EXCEPT !.cnt = CountUpdate(c, a.view[p], STATE_LISTEN),
                     !.view = [a.view EXCEPT ![p] = STATE_LISTEN],
                     !.q = remove(a.q, p), !.ht = a.ht \ {p},
                     !.rcv = [a.rcv EXCEPT ![p] = 0]]
  BY <1>7 DEF drop_peer, update_state, Member
<1>12. drop_peer(s, p)
         = [s EXCEPT !.cnt = CountUpdate(s.cnt, s.view[p], STATE_LISTEN),
                     !.view = [s.view EXCEPT ![p] = STATE_LISTEN],
                     !.q = remove(s.q, p), !.ht = s.ht \ {p},
                     !.rcv = [s.rcv EXCEPT ![p] = 0]]
  BY <1>3 DEF drop_peer, update_state, Member
<1>13. PICK cnt, view, q, ht, rcv :
         /\ cnt = CountUpdate(s.cnt, s.view[p], STATE_LISTEN)
         /\ view = [s.view EXCEPT ![p] = STATE_LISTEN]
         /\ q = remove(s.q, p) /\ ht = s.ht \ {p} /\ rcv = [s.rcv EXCEPT ![p] = 0]
  OBVIOUS
<1>14. drop_peer(s, p) = Regrouped(s, cnt, view, q, ht, rcv)
  BY <1>12, <1>13 DEF Regrouped
<1>15. drop_peer(a, p) = Regrouped(a, cnt, view, q, ht, rcv)
  BY <1>7, <1>8, <1>9, <1>10, <1>11, <1>13 DEF Regrouped
<1>16. a = Regrouped(s, a.cnt, a.view, a.q, a.ht, a.rcv)
  <2>1. s.q = a.q
    BY <1>7
  <2> QED  BY <1>3, <1>6, <1>7, <2>1 DEF Regrouped, Member
<1>17. drop_peer(a, p) = drop_peer(s, p)
  BY <1>3, <1>14, <1>15, <1>16, RegroupedTwice
<1> QED  BY <1>1, <1>2, <1>17

\* A message of a member that is in the group.
LEMMA MemberMsgDone ==
    ASSUME NEW n \in Node, NEW s, Done(n, s), NEW m \in Msg, m.from # n,
           m.state # STATE_LISTEN
    PROVE  Done(n, on_member_msg(s, n, m)) /\ StepsDown(n, s, on_member_msg(s, n, m))
<1> USE DEF STATE_LISTEN, STATE_JOIN, STATE_PRIMARY, STATE_SECONDARY, STATE_FINISH
<1>1. Sound(n, s) /\ m.from \in Node \ {n}
  BY DEF Done, Msg
<1>2. PICK a : a = learn(s, m)
  OBVIOUS
<1>3. PICK b : b = [a EXCEPT !.q = update(a.view, @, m.from)]
  OBVIOUS
<1>4. Sound(n, b) /\ b.view[n] = s.view[n] /\ Keeps(n, s, b)
  BY <1>1, <1>2, <1>3, LearnSound DEF Keeps, Informed
<1>5. PICK d : d = drop_peer(s, m.from)
  OBVIOUS
<1>6. Sound(n, d) /\ d.view[n] = s.view[n] /\ Keeps(n, s, d)
  BY <1>1, <1>5, DropSound DEF Keeps, Informed
<1>7. drop_peer(a, m.from) = d
  BY <1>1, <1>2, <1>5, DropLearned
<1>8. PICK t : t = IF m.type = "EXITING" THEN settle(d, n)
                   ELSE IF s.view[n] = STATE_LISTEN THEN b
                   ELSE IF m.type # "FINISH" THEN settle(b, n)
                   ELSE IF First(b) = m.from THEN prepare_takeover(b, n, "FINISH", TRUE)
                   ELSE b
  OBVIOUS
<1>9. on_member_msg(s, n, m) = notify_update(t)
  BY <1>2, <1>3, <1>7, <1>8 DEF on_member_msg
<1>10. Keeps(n, s, t) /\ StepsDown(n, s, t)
  <2>1. CASE t = settle(d, n)
    <3>1. Keeps(n, d, t) /\ StepsDown(n, d, t)
      BY <1>6, <2>1, SettleKeeps
    <3> QED  BY <1>6, <3>1, KeepsTransitive DEF StepsDown
  <2>2. CASE t = settle(b, n)
    <3>1. Keeps(n, b, t) /\ StepsDown(n, b, t)
      BY <1>4, <2>2, SettleKeeps
    <3> QED  BY <1>4, <3>1, KeepsTransitive DEF StepsDown
  <2>3. CASE t = b
    BY <1>4, <2>3 DEF StepsDown
  <2>4. CASE /\ t = prepare_takeover(b, n, "FINISH", TRUE)
             /\ First(b) = m.from /\ s.view[n] # STATE_LISTEN
    <3>1. b.view[n] \in FtState
      BY <1>4 DEF Sound, Member
    <3>2. b.view[n] \in Ranking \/ (b.view[n] = STATE_FINISH /\ First(b) # n)
      BY <1>1, <1>4, <2>4, <3>1 DEF FtState, Ranking
    <3>3. Keeps(n, b, t) /\ (b.view[n] = STATE_PRIMARY => t.view[n] = STATE_PRIMARY)
      BY <1>4, <2>4, <3>2, PrepareTakeoverKeeps
    <3> QED  BY <1>4, <3>3, KeepsTransitive DEF StepsDown
  <2> QED  BY <1>8, <2>1, <2>2, <2>3, <2>4
<1> QED  BY <1>9, <1>10, AnnounceDone

\* Adopting the intervals of an older peer.
LEMMA AdoptDone ==
    ASSUME NEW n \in Node, NEW s, Done(n, s), NEW m \in Msg
    PROVE  Done(n, adopt(s, n, m)) /\ adopt(s, n, m).view = s.view
<1>1. CASE adopt(s, n, m) = s
  BY <1>1
<1>2. CASE adopt(s, n, m) # s
  <2>1. PICK a : a = [s EXCEPT !.oldest = m.from]
    OBVIOUS
  <2>2. s.view[n] = STATE_LISTEN /\ adopt(s, n, m) = start_hb(a, m.iv)
    BY <1>2, <2>1 DEF adopt
  <2>3. m.from \in Node /\ m.iv \in Interval
    BY DEF Msg
  <2>4. /\ s \in Member /\ a \in Member /\ SameGroup(s, a) /\ a.out = s.out /\ a.ack = s.ack
        /\ a.tm = s.tm /\ a.told = s.told /\ a.up = s.up /\ a.q = s.q
    BY <2>1, <2>3 DEF Done, Sound, Member, SameGroup
  <2>5. Sound(n, a)
    <3>1. OrderOK(n, a) /\ GroupOK(n, a) /\ CountOK(a)
      BY <2>4, SameGroupOK DEF Done, Sound
    <3>2. SentOK(n, a) /\ TimersOK(n, a)
      BY <2>4 DEF Done, Sound, SentOK, TimersOK, SameGroup
    <3> QED  BY <2>4, <3>1, <3>2 DEF Sound
  <2>6. PICK r : r = start_hb(a, m.iv)
    OBVIOUS
  <2>7. a.view = s.view /\ a.view[n] # STATE_FINISH
    BY <2>2, <2>4 DEF SameGroup, STATE_LISTEN, STATE_FINISH
  <2>8. /\ Sound(n, r) /\ r.view = a.view /\ r.told = a.told /\ r.up = a.up /\ r.q = a.q
        /\ IntervalsOK(r.iv)
    BY <2>3, <2>5, <2>6, <2>7, StartHbSound
  <2>9. Done(n, r)
    BY <2>4, <2>7, <2>8 DEF Done, Informed
  <2> QED  BY <2>2, <2>6, <2>7, <2>8, <2>9
<1> QED  BY <1>1, <1>2

\* Receiving a message.
LEMMA PeerMsgDone ==
    ASSUME NEW n \in Node, NEW s, Done(n, s), NEW m \in Msg, m.from # n
    PROVE  Done(n, on_peer_msg(s, n, m)) /\ StepsDown(n, s, on_peer_msg(s, n, m))
<1> USE DEF STATE_LISTEN, STATE_JOIN, STATE_PRIMARY, STATE_SECONDARY, STATE_FINISH
<1>1. PICK a : a = adopt(s, n, m)
  OBVIOUS
<1>2. Done(n, a) /\ a.view = s.view
  BY <1>1, AdoptDone
<1>3. PICK t : t = IF m.from \in a.ht THEN drop_peer(a, m.from) ELSE a
  OBVIOUS
<1>4. Keeps(n, a, t) /\ StepsDown(n, a, t)
  <2>1. m.from \in Node \ {n} /\ Sound(n, a)
    BY <1>2 DEF Msg, Done
  <2>2. CASE t = a
    BY <2>1, <2>2 DEF Keeps, StepsDown
  <2>3. CASE t = drop_peer(a, m.from)
    BY <2>1, <2>3, DropSound DEF Keeps, Informed, StepsDown
  <2> QED  BY <1>3, <2>2, <2>3
<1>5. PICK b : b = IF m.state # STATE_LISTEN THEN on_member_msg(a, n, m) ELSE notify_update(t)
  OBVIOUS
<1>6. Done(n, b) /\ StepsDown(n, s, b)
  <2>1. CASE b = on_member_msg(a, n, m) /\ m.state # STATE_LISTEN
    BY <1>2, <2>1, MemberMsgDone DEF StepsDown
  <2>2. CASE b = notify_update(t)
    BY <1>2, <1>4, <2>2, AnnounceDone DEF StepsDown
  <2> QED  BY <1>5, <2>1, <2>2
<1>7. PICK r : r = on_peer_msg(s, n, m)
  OBVIOUS
<1>8. r = b \/ r = [b EXCEPT !.ack = m.from]
  BY <1>1, <1>3, <1>5, <1>7 DEF on_peer_msg
<1>9. CASE r = [b EXCEPT !.ack = m.from]
  <2>1. m.from \in Node
    BY DEF Msg
  <2>2. /\ b \in Member /\ r \in Member /\ SameGroup(b, r) /\ r.out = b.out /\ r.ack = m.from
        /\ r.tm = b.tm /\ r.told = b.told /\ r.up = b.up /\ r.q = b.q /\ r.iv = b.iv
    BY <1>6, <1>9, <2>1 DEF Done, Sound, Member, SameGroup
  <2>3. OrderOK(n, r) /\ GroupOK(n, r) /\ CountOK(r)
    BY <1>6, <2>2, SameGroupOK DEF Done, Sound
  <2>4. SentOK(n, r) /\ TimersOK(n, r)
    BY <1>6, <2>2 DEF Done, Sound, SentOK, TimersOK, SameGroup
  <2>5. Sound(n, r)
    BY <2>2, <2>3, <2>4 DEF Sound
  <2>6. Done(n, r)
    BY <1>6, <2>2, <2>5 DEF Done, Informed, SameGroup
  <2>7. StepsDown(n, s, r)
    BY <1>6, <2>2 DEF StepsDown, First, SameGroup
  <2> QED  BY <1>7, <2>6, <2>7
<1> QED  BY <1>6, <1>7, <1>8, <1>9

==============================================================================
