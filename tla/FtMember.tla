------------------------------ MODULE FtMember ------------------------------
(***************************************************************************)
(* One RvFt instance (src/ft.cpp): the state it keeps and, as operators on *)
(* that state, what each of its functions does.  A handler runs to its end *)
(* on the one thread of the event loop, so it is an operator from the      *)
(* state before to the state after; what it publishes collects in out, in  *)
(* order, and the ACK of an announcement, which goes to one inbox and is   *)
(* always the last thing sent, in ack.                                     *)
(*                                                                         *)
(* Time is kept as ages, in ticks: how long ago a peer was last heard, how *)
(* long ago start_mono was taken, and, for each timer of timer_mask, how   *)
(* long ago the instant it is counted from (NotSet: bit clear).  A timer   *)
(* is due when that age has reached its interval; is_accurate (within 100  *)
(* ms) means it is served in the very tick it falls due.  Ages beyond      *)
(* MaxAge, which exceeds every interval, are not told apart.               *)
(***************************************************************************)
EXTENDS FtQueue

CONSTANTS
    Param,      \* FtParameters of each node: join, hb, act, prep, fin
    MaxAge      \* ages saturate here

ASSUME ParamAssumption ==
    /\ Param \in [Node -> [join : Nat, hb : Nat, act : Nat, prep : Nat, fin : Nat]]
    /\ MaxAge \in Nat

NotSet   == -1
NoPeer   == 0
Timer    == {"join", "hb", "prep", "act", "fin"}
Age      == 0 .. MaxAge
Interval == [hb : Nat, act : Nat, prep : Nat]

MsgType  == {"ANNOUNCE", "HEARTBEAT", "KEEPALIVE", "ACTIVATE", "DEACTIVATE",
             "ACK", "FINISH", "EXITING"}
Msg      == [type : MsgType, from : Node, state : FtState, iv : Interval]

\* The callbacks that tell the application what it is now (test/ftmon.cpp
\* ignores JOIN, PREPARE and UPDATE when it decides whether it is running).
Told == {"LISTEN", "ACTIVATE", "DEACTIVATE", "FINISH"}
Counted == {STATE_JOIN, STATE_PRIMARY, STATE_SECONDARY}

(* view[me] is me.state, view[p] the state of a peer in peer_ht; a peer     *)
(* that is not there has the zeros of a fresh FtPeer.                       *)
Member == [up     : {"idle", "run", "gone"},
           view   : [Node -> FtState],
           ht     : SUBSET Node,
           rcv    : [Node -> Age],
           age    : Age,
           q      : Queue,
           cnt    : [Counted -> Int],
           iv     : Interval,
           oldest : Node \cup {NoPeer},
           tm     : [Timer -> Age \cup {NotSet}],
           told   : Told \cup {"NONE"},
           sub    : BOOLEAN,
           out    : Seq(Msg),
           ack    : Node \cup {NoPeer}]

\* The constructor: nothing started.
Idle(me) ==
    [up |-> "idle", view |-> [p \in Node |-> STATE_LISTEN], ht |-> {},
     rcv |-> [p \in Node |-> 0], age |-> 0, q |-> EmptyQueue,
     cnt |-> [k \in Counted |-> 0],
     iv |-> [hb |-> Param[me].hb, act |-> Param[me].act, prep |-> Param[me].prep],
     oldest |-> NoPeer, tm |-> [t \in Timer |-> NotSet], told |-> "NONE",
     sub |-> FALSE, out |-> << >>, ack |-> NoPeer]

Due(s, me, t) ==
    /\ s.tm[t] # NotSet
    /\ s.tm[t] >= IF t \in {"join", "fin"} THEN Param[me][t] ELSE s.iv[t]

Accurate(s, t) == s.tm[t] = s.iv[t]

----------------------------------------------------------------------------
(* Sending and telling. *)

message(s, me, type) ==
    [type |-> type, from |-> me, state |-> s.view[me], iv |-> s.iv]

send_msg(s, me, type) == [s EXCEPT !.out = Append(@, message(s, me, type))]

notify_change(s, action) ==
    [s EXCEPT !.q.news = FALSE,
              !.told   = IF action \in Told THEN action ELSE @]

notify_update(s) == [s EXCEPT !.q.news = FALSE]

----------------------------------------------------------------------------
(* States, counts and timers. *)

CountUpdate(cnt, old, new) ==
    [k \in Counted |-> cnt[k] - (IF old = k THEN 1 ELSE 0)
                              + (IF new = k THEN 1 ELSE 0)]

update_state(s, p, state) ==
    [s EXCEPT !.cnt = CountUpdate(@, s.view[p], state), !.view[p] = state]

stop_timers(s) ==
    [s EXCEPT !.tm = [t \in Timer |-> IF t = "hb" THEN @[t] ELSE NotSet]]

\* Mutant: an activate interval of exactly one heartbeat interval passes.
Adjusted_off_by_one(iv) ==
    LET act  == IF iv.act < iv.hb THEN iv.hb * 2 + iv.hb \div 10 ELSE iv.act
        prep == IF iv.prep # 0 /\ (iv.prep < iv.hb \/ iv.prep >= act)
                THEN (iv.hb + act) \div 2 ELSE iv.prep
    IN  [hb |-> iv.hb, act |-> act, prep |-> prep]

\* start_hb: adopt the intervals given (0: none given), keep them sane, and
\* (re)start the heartbeat timer.
Adjusted(iv) ==
    LET act  == IF iv.act <= iv.hb THEN iv.hb * 2 + iv.hb \div 10 ELSE iv.act
        prep == IF iv.prep # 0 /\ (iv.prep < iv.hb \/ iv.prep >= act)
                THEN (iv.hb + act) \div 2 ELSE iv.prep
    IN  [hb |-> iv.hb, act |-> act, prep |-> prep]

start_hb(s, iv) ==
    LET given(x, y) == IF x # 0 THEN x ELSE y
        new == [hb   |-> given(iv.hb, s.iv.hb),
                act  |-> given(iv.act, s.iv.act),
                prep |-> given(iv.prep, s.iv.prep)]
        changed == new # s.iv \/ new.act <= new.hb \/ Adjusted(new) # new
        tm  == IF changed
               THEN [s.tm EXCEPT !["act"] = NotSet, !["prep"] = NotSet,
                                 !["hb"] = NotSet]
               ELSE s.tm
    IN  [s EXCEPT !.iv = Adjusted(new),
                  !.tm = IF tm["hb"] = NotSet THEN [tm EXCEPT !["hb"] = 0]
                         ELSE tm]

\* Mutant: the peer stays in peer_ht.
drop_peer_keeps_ht(s, p) ==
    [update_state(s, p, STATE_LISTEN) EXCEPT !.q = remove(@, p), !.rcv[p] = 0]

\* Forget a peer: it left, fell silent or went back to listening.
drop_peer(s, p) ==
    [update_state(s, p, STATE_LISTEN)
        EXCEPT !.q = remove(@, p), !.ht = @ \ {p}, !.rcv[p] = 0]

\* Mutant: state_count still counts the silent peers.
trim_ft_queue_uncounted(s, me) ==
    LET gone == {p \in Members(s.q) \ {me} : s.rcv[p] >= s.iv.act}
    IN  [s EXCEPT
            !.view = [p \in Node |-> IF p \in gone THEN STATE_LISTEN ELSE @[p]],
            !.rcv  = [p \in Node |-> IF p \in gone THEN 0 ELSE @[p]],
            !.q    = remove_all(@, gone),
            !.ht   = @ \ gone]

trim_ft_queue(s, me) ==
    LET gone == {p \in Members(s.q) \ {me} : s.rcv[p] >= s.iv.act}
    IN  [s EXCEPT
            !.cnt  = [k \in Counted |->
                        @[k] - Cardinality({p \in gone : s.view[p] = k})],
            !.view = [p \in Node |-> IF p \in gone THEN STATE_LISTEN ELSE @[p]],
            !.rcv  = [p \in Node |-> IF p \in gone THEN 0 ELSE @[p]],
            !.q    = remove_all(@, gone),
            !.ht   = @ \ gone]

----------------------------------------------------------------------------
(* set_state and prepare_takeover call each other; unrolled from the       *)
(* innermost call out, they end after JOIN -> SECONDARY -> PRIMARY.        *)

First(s)      == s.q.ptr[1]
IsSecond(s, me) == Len(s.q.ptr) > 1 /\ s.q.ptr[2] = me

\* Mutant: a joining member that becomes a full one keeps its rank.
enter_keeps_rank(s, me, state) == update_state(s, me, state)

\* The head of set_state: the state changes and, if a joining member became
\* a full one, so does its rank.
enter(s, me, state) ==
    LET t == update_state(s, me, state)
    IN  IF /\ s.view[me] = STATE_JOIN
           /\ state \in {STATE_PRIMARY, STATE_SECONDARY}
        THEN [t EXCEPT !.q = update(t.view, @, me)]
        ELSE t

set_state_PRIMARY(s, me) ==
    send_msg(notify_change(enter(s, me, STATE_PRIMARY), "ACTIVATE"), me, "ACTIVATE")

\* Mutant: the time left is computed the wrong way round.
arm_takeover_backwards(s, me, action, origin) ==
    IF s.iv.prep > 0 /\ origin < s.iv.prep
    THEN [s EXCEPT !.tm["prep"] = origin - s.iv.prep]
    ELSE [s EXCEPT !.tm["act"] = origin - s.iv.act]

\* The tail of prepare_takeover: nothing has expired yet, so arm the timer
\* that is next, counted from origin.
arm_takeover(s, me, action, origin) ==
    IF s.iv.prep > 0 /\ origin < s.iv.prep
    THEN [s EXCEPT !.tm["prep"] = origin]
    ELSE LET notify == /\ action = "prep"
                       /\ \/ s.view[me] # STATE_JOIN
                          \/ First(s) = me
                          \/ ~ is_greater_weight(First(s), me)
             t      == IF notify THEN notify_change(s, "PREPARE") ELSE s
         IN  [t EXCEPT !.tm["act"] = origin]

\* prepare_takeover of a member that is no longer joining.
takeover_joined(s, me, action, deadline) ==
    IF First(s) = me
    THEN IF s.age >= s.iv.act
         THEN notify_update(set_state_PRIMARY(s, me))
         ELSE arm_takeover(s, me, action, s.age)
    ELSE IF ~ IsSecond(s, me) THEN s
    ELSE IF deadline
    THEN LET t == [s EXCEPT !.tm["prep"] = NotSet, !.tm["act"] = NotSet]
         IN  IF s.iv.prep > 0 THEN notify_change(t, "PREPARE") ELSE t
    ELSE arm_takeover(s, me, action, s.rcv[First(s)])

\* Mutant: the listener is not told.
set_state_SECONDARY_untold(s, me) ==
    LET t == enter(s, me, STATE_SECONDARY)
    IN  takeover_joined(
            IF s.view[me] = STATE_SECONDARY THEN t
            ELSE send_msg(t, me, "DEACTIVATE"),
            me, "DEACTIVATE", FALSE)

\* Mutant: every timer is stopped on the way, the finish timer too.
set_state_SECONDARY_stops_timers(s, me) ==
    LET t == stop_timers(enter(s, me, STATE_SECONDARY))
    IN  takeover_joined(
            IF s.view[me] = STATE_SECONDARY THEN t
            ELSE notify_change(send_msg(t, me, "DEACTIVATE"), "DEACTIVATE"),
            me, "DEACTIVATE", FALSE)

set_state_SECONDARY(s, me) ==
    LET t == enter(s, me, STATE_SECONDARY)
    IN  takeover_joined(
            IF s.view[me] = STATE_SECONDARY THEN t
            ELSE notify_change(send_msg(t, me, "DEACTIVATE"), "DEACTIVATE"),
            me, "DEACTIVATE", FALSE)

prepare_takeover(s, me, action, deadline) ==
    IF s.view[me] # STATE_JOIN THEN takeover_joined(s, me, action, deadline)
    ELSE IF s.age < s.iv.act THEN arm_takeover(s, me, action, s.age)
    ELSE notify_update(IF First(s) = me \/ is_greater_weight(me, First(s))
                       THEN set_state_PRIMARY(s, me)
                       ELSE set_state_SECONDARY(s, me))

set_state_JOIN(s, me) ==
    LET t == enter(s, me, STATE_JOIN)
        u == [t EXCEPT !.q = insert(t.view, @, me)]
    IN  notify_change(
            prepare_takeover(send_msg(u, me, "ANNOUNCE"), me, "JOIN", FALSE),
            "JOIN")

set_state_LISTEN(s, me) == send_msg(enter(s, me, STATE_LISTEN), me, "ANNOUNCE")

\* set_state(STATE_FINISH), with finish().  A member already in FINISH is
\* never finished again by the operations below.
set_state_FINISH(s, me) ==
    LET t == send_msg(enter(s, me, STATE_FINISH), me, "EXITING")
    IN  notify_change([stop_timers(t) EXCEPT !.tm["hb"] = NotSet, !.sub = FALSE],
                      "FINISH")

----------------------------------------------------------------------------
(* The calls of the application. *)

start(s, me) ==
    LET p == Param[me]
        t == [s EXCEPT !.up = "run", !.sub = TRUE,
                       !.tm["join"] = IF p.join # 0 THEN 0 ELSE NotSet]
        u == start_hb(t, [hb |-> p.hb, act |-> p.act, prep |-> p.prep])
    IN  notify_change(set_state_LISTEN(u, me), "LISTEN")

activate(s, me) ==
    IF s.view[me] = STATE_LISTEN
    THEN set_state_JOIN([s EXCEPT !.age = 0, !.tm["join"] = NotSet], me)
    ELSE s

deactivate(s, me) ==
    IF s.view[me] # STATE_LISTEN
    THEN notify_change(
            set_state_LISTEN(stop_timers([s EXCEPT !.q = remove(@, me)]), me),
            "LISTEN")
    ELSE s

stop(s, me) ==
    IF Param[me].fin = 0 THEN set_state_FINISH(s, me)
    ELSE IF s.tm["fin"] = NotSet
    THEN [send_msg(s, me, "FINISH") EXCEPT !.tm["fin"] = 0]
    ELSE s

----------------------------------------------------------------------------
(* timer_cb, one operator per timer. *)

takeover_timer(s, me, t) ==
    LET c == [s EXCEPT !.tm[t] = NotSet]
    IN  notify_update(
            IF /\ Accurate(s, t)
               /\ s.view[me] \in {STATE_SECONDARY, STATE_JOIN}
            THEN prepare_takeover(trim_ft_queue(c, me), me, t, FALSE)
            ELSE c)

\* Mutant: a secondary only reports itself alive.
hb_timer_never_takes_over(s, me) ==
    LET c == IF Accurate(s, "hb") THEN trim_ft_queue(s, me) ELSE s
        d == IF c.view[me] = STATE_PRIMARY THEN send_msg(c, me, "HEARTBEAT")
             ELSE IF c.view[me] = STATE_LISTEN THEN c
             ELSE send_msg(c, me, "KEEPALIVE")
    IN  notify_update([d EXCEPT !.tm["hb"] = 0])

hb_timer(s, me) ==
    LET c == IF Accurate(s, "hb") THEN trim_ft_queue(s, me) ELSE s
        d == IF c.view[me] = STATE_PRIMARY THEN send_msg(c, me, "HEARTBEAT")
             ELSE IF c.view[me] = STATE_LISTEN THEN c
             ELSE send_msg(IF Accurate(s, "hb")
                           THEN prepare_takeover(c, me, "hb", FALSE) ELSE c,
                           me, "KEEPALIVE")
    IN  notify_update([d EXCEPT !.tm["hb"] = 0])

join_timer(s, me) == set_state_JOIN([s EXCEPT !.tm["join"] = NotSet], me)

finish_timer(s, me) == set_state_FINISH([s EXCEPT !.tm["fin"] = NotSet], me)

----------------------------------------------------------------------------
(* on_peer_msg, of a message that check_latency accepts. *)

\* While listening, take the intervals of the oldest peer heard.
adopt(s, me, m) ==
    IF /\ s.view[me] = STATE_LISTEN
       /\ m.from < me
       /\ s.oldest = NoPeer \/ m.from < s.oldest
    THEN start_hb([s EXCEPT !.oldest = m.from], m.iv)
    ELSE s

\* Find the peer or make it, and take over what it advertises.
learn(s, m) ==
    [update_state(s, m.from, m.state)
        EXCEPT !.ht = @ \cup {m.from}, !.rcv[m.from] = 0]

\* Mutant: a primary that has been outranked stays primary.
settle_never_demotes(s, me) ==
    IF s.view[me] = STATE_SECONDARY /\ First(s) = me THEN set_state_PRIMARY(s, me)
    ELSE s

\* Am I primary or secondary, now that the ranks may have changed?
settle(s, me) ==
    IF s.view[me] = STATE_SECONDARY /\ First(s) = me THEN set_state_PRIMARY(s, me)
    ELSE IF s.view[me] \in {STATE_PRIMARY, STATE_SECONDARY} /\ First(s) # me
    THEN set_state_SECONDARY(s, me)
    ELSE s

on_member_msg(s, me, m) ==
    LET a == learn(s, m)
        b == [a EXCEPT !.q = update(a.view, @, m.from)]
    IN  notify_update(
            IF m.type = "EXITING" THEN settle(drop_peer(a, m.from), me)
            ELSE IF s.view[me] = STATE_LISTEN THEN b
            ELSE IF m.type # "FINISH" THEN settle(b, me)
            ELSE IF First(b) = m.from
            THEN prepare_takeover(b, me, "FINISH", TRUE)
            ELSE b)

on_peer_msg(s, me, m) ==
    LET a == adopt(s, me, m)
        b == IF m.state # STATE_LISTEN THEN on_member_msg(a, me, m)
             ELSE notify_update(IF m.from \in a.ht THEN drop_peer(a, m.from) ELSE a)
    IN  IF m.type = "ANNOUNCE" /\ b.view[me] # STATE_LISTEN
        THEN [b EXCEPT !.ack = m.from]
        ELSE b

============================================================================
