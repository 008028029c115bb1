---------------------------- MODULE RvftMember -----------------------------
(***************************************************************************)
(* One member of a fault tolerant group of the tibrv API (api_FtMember,    *)
(* src/rv7_ft.cpp), and one monitor of such a group (api_FtMonitor).       *)
(*                                                                         *)
(* A member ranks its peers and itself; the first Goal of the ranking      *)
(* should be active.  Handlers hold the member's mutex, except while they  *)
(* call the application: a handler that does is cut there, and `cont' says *)
(* where it goes on, for every dispatcher of the member's queue.           *)
(*                                                                         *)
(* Time is counted in ticks, and stamps are ages, up to Old.               *)
(***************************************************************************)
EXTENDS Integers, FiniteSetsExt, SequencesExt

CONSTANTS
    Members,      \* the members, named by the order of their inboxes
    Weights,      \* the weights a member may have
    Goal,         \* active_goal
    Hb,           \* hb_ival
    Prepare,      \* prepare_ival: 0, or between Hb and Activate
    Activate,     \* activate_ival
    Lost,         \* lost_ival of the monitor
    Dispatchers   \* threads that dispatch a member's queue

ASSUME RvftAssumption ==
    /\ Members \subseteq Nat /\ IsFiniteSet(Members) /\ Weights \subseteq Nat
    /\ {Goal, Hb, Activate, Lost} \subseteq Nat \ {0} /\ Prepare \in Nat
    /\ Hb < Activate /\ (Prepare # 0 => Hb < Prepare /\ Prepare < Activate)

Off  == -1
Old  == Max({Activate, Lost}) + 1
Ages == 0..Old
Then == {"none", "prepare_now", "activate_now", "deactivate", "prepare_timer", "activate_timer"}
Timer == {"prepare", "activate", "hb"}

\* TibrvFtPeer
NewPeer(w) == [weight |-> w, running |-> FALSE, stopped |-> FALSE, unresponsive |-> FALSE,
               seen |-> 0, sync |-> Off, last_sync |-> Old]

\* api_FtMember
NewMember(n, w) ==
    [id |-> n, destroyed |-> FALSE, list |-> <<n>>, peer |-> [x \in Members |-> NewPeer(w)],
     tm |-> [k \in Timer |-> Off], age |-> 0, prepared |-> Old, told |-> "inactive",
     cont |-> [x \in Dispatchers |-> "none"], out |-> << >>]

Knows(m, n) == \E i \in DOMAIN m.list : m.list[i] = n
Me(m)       == m.peer[m.id]
rank(m)     == SelectInSeq(m.list, LAMBDA n : n = m.id) - 1
Wanted(m)   == rank(m) < Goal
publish(m, k, to) == [m EXCEPT !.out = Append(@, [k |-> k, from |-> m.id, to |-> to, w |-> Me(m).weight])]

\* Whether a goes before b: stopped ones last, then those that do not respond;
\* the heavier first, the running one first, the later inbox first.
compare_peer(m, a, b) ==
    LET p == m.peer[a]
        q == m.peer[b]
    IN  IF p.stopped # q.stopped THEN q.stopped
        ELSE IF p.unresponsive # q.unresponsive THEN q.unresponsive
        ELSE IF p.weight # q.weight THEN p.weight > q.weight
        ELSE IF p.running # q.running THEN p.running
        ELSE a > b

sort(m) == [m EXCEPT !.list = SetToSortSeq(ToSet(m.list), LAMBDA a, b : compare_peer(m, a, b))]

-----------------------------------------------------------------------------
(* Timers.                                                                 *)

Interval(k) ==
    CASE k = "hb"       -> Hb
      [] k = "prepare"  -> Prepare
      [] k = "activate" -> Activate - Prepare

CreateTimer(m, k) == [m EXCEPT !.tm[k] = 0]
stop_timers(m)    == [m EXCEPT !.tm = [k \in Timer |-> Off]]

prepare(m) ==
    LET u == CreateTimer(stop_timers(m), IF Prepare # 0 THEN "prepare" ELSE "activate")
        h == Head(m.list)
        p == m.peer[h]
    IN  IF h # m.id /\ ~p.running /\ p.sync = Off /\ p.last_sync > Activate
        THEN publish([u EXCEPT !.peer[h].sync = 0, !.peer[h].last_sync = 0], "SYNC", 0)
        ELSE u

\* Mutant: a first peer that does not answer a SYNC stays first.
update_time_patient(m) ==
    LET gone(x) == m.peer[x].running /\ m.peer[x].seen > Activate /\ x # m.id
        u == [m EXCEPT !.peer = [x \in Members |->
                 IF x = m.id THEN [@[x] EXCEPT !.seen = 0]
                 ELSE IF Knows(m, x) /\ gone(x) THEN [@[x] EXCEPT !.running = FALSE]
                 ELSE @[x]]]
    IN  sort(u)

\* Those that were running and are silent do not run; the first, if it was
\* asked and has not answered, does not respond.
update_time(m) ==
    LET gone(x) == m.peer[x].running /\ m.peer[x].seen > Activate /\ x # m.id
        dumb(x) == /\ ~m.peer[x].running \/ gone(x)
                   /\ x = Head(m.list) /\ m.peer[x].sync > Activate
        u == [m EXCEPT !.peer = [x \in Members |->
                 IF x = m.id THEN [@[x] EXCEPT !.seen = 0]
                 ELSE IF ~Knows(m, x) THEN @[x]
                 ELSE [@[x] EXCEPT !.running = @ /\ ~gone(x),
                                   !.unresponsive = @ \/ dumb(x)]]]
    IN  IF \E x \in ToSet(m.list) : gone(x) \/ dumb(x) THEN sort(u) ELSE u

\* do_callback: the mutex is released, and dispatcher x goes on at k after it.
do_callback(m, x, told, k) == [m EXCEPT !.told = told, !.cont[x] = k]
resumed(m, x)              == [m EXCEPT !.cont[x] = "none"]

-----------------------------------------------------------------------------
(* Activation.                                                             *)

is_active(m) == m.tm["hb"] # Off
PrepareDue(m) == Prepare # 0 /\ m.prepared > Prepare

OrPrepare(m) == IF is_active(m) THEN m ELSE prepare(m)

\* From activate_now and activate_timer_cb: ACTIVE_START, then the callback.
Activates(m, x, k) ==
    do_callback(publish([m EXCEPT !.peer[m.id].running = TRUE], "ACTIVE", 0), x, "active", k)

\* Mutant: a member that is not wanted any more falls silent without a word
\* to its application.
Rest_untold(m, x) ==
    IF Wanted(m) /\ Me(m).running THEN m
    ELSE IF ~Wanted(m) /\ is_active(m)
    THEN prepare(publish([m EXCEPT !.peer[m.id].running = FALSE], "ACTIVE_STOP", 0))
    ELSE prepare(m)

\* The end of update_peer, which knows its rank.
Rest(m, x) ==
    IF Wanted(m) /\ Me(m).running THEN m
    ELSE IF ~Wanted(m) /\ is_active(m) THEN do_callback(m, x, "inactive", "deactivate")
    ELSE prepare(m)

\* After DEACTIVATE.
deactivated(m) ==
    IF m.destroyed \/ Wanted(m) THEN m
    ELSE prepare(publish([m EXCEPT !.peer[m.id].running = FALSE], "ACTIVE_STOP", 0))

\* The end of activate_now, and of the update_peer that called it.
After(m, x) ==
    LET u == OrPrepare(m)
    IN  IF is_active(u) THEN Rest(u, x) ELSE u

activate_now2(m, x) ==
    IF ~m.destroyed /\ Wanted(m) THEN Activates(m, x, "activate_now") ELSE After(m, x)

activated_now(m, x) ==
    After(IF ~m.destroyed /\ Wanted(m) THEN CreateTimer(m, "hb") ELSE m, x)

activate_now(m, x) ==
    LET u == stop_timers(m)
    IN  IF m.age < Activate THEN m
        ELSE IF Wanted(u) /\ PrepareDue(u)
        THEN do_callback([u EXCEPT !.prepared = 0], x, u.told, "prepare_now")
        ELSE activate_now2(u, x)

\* What update_peer does with its new rank.
Decide(m, x) ==
    IF Wanted(m) /\ ~is_active(m) THEN activate_now(update_time(m), x) ELSE Rest(m, x)

activate_timer_cb(m, x) ==
    IF m.destroyed \/ is_active(m) THEN m
    ELSE LET u == update_time(stop_timers(m))
         IN  IF Wanted(u) THEN Activates(u, x, "activate_timer") ELSE prepare(u)

activated(m) == OrPrepare(IF m.destroyed THEN m ELSE CreateTimer(m, "hb"))

\* Mutant: a member that is not wanted any more is left without a timer.
prepared_forgets(m) ==
    IF ~m.destroyed /\ Wanted(m) THEN CreateTimer(m, "activate") ELSE m

prepared(m) ==
    IF ~m.destroyed /\ Wanted(m) THEN CreateTimer(m, "activate")
    ELSE IF m.tm["activate"] = Off THEN prepare(m) ELSE m

prepare_timer_cb(m, x) ==
    IF m.destroyed \/ is_active(m) THEN m
    ELSE LET u == update_time(stop_timers(m))
         IN  IF Wanted(u) /\ PrepareDue(u)
             THEN do_callback([u EXCEPT !.prepared = 0], x, u.told, "prepare_timer")
             ELSE prepared(u)

hb_timer_cb(m) ==
    IF m.destroyed THEN m
    ELSE IF Wanted(m)
    THEN publish([m EXCEPT !.peer[m.id].seen = 0, !.peer[m.id].running = TRUE], "ACTIVE", 0)
    ELSE prepare(m)

timer_cb(m, x, k) ==
    LET u == [m EXCEPT !.tm[k] = 0]
    IN  CASE k = "hb"       -> hb_timer_cb(u)
          [] k = "prepare"  -> prepare_timer_cb(u, x)
          [] k = "activate" -> activate_timer_cb(u, x)

\* The callback returns.
resume(m, x) ==
    LET k == m.cont[x]
        u == resumed(m, x)
    IN  CASE k = "prepare_now"    -> activate_now2(u, x)
          [] k = "activate_now"   -> activated_now(u, x)
          [] k = "deactivate"     -> deactivated(u)
          [] k = "prepare_timer"  -> prepared(u)
          [] k = "activate_timer" -> activated(u)

-----------------------------------------------------------------------------
(* Messages.                                                               *)

\* stop_events
Stopped(p) == [p EXCEPT !.stopped = TRUE, !.running = FALSE]

Silent(m, x, ns) == m.peer[x].seen > ns

\* Mutant: the last of the ranking is forgotten if it does not run.
Seen_forgets_idle(m, n, k, ns) ==
    LET q == [m.peer[n] EXCEPT !.seen = 0, !.sync = Off, !.unresponsive = FALSE,
                  !.running = IF k = "ACTIVE" THEN TRUE
                              ELSE IF k \in {"ACTIVE_STOP", "STOP", "START"} THEN FALSE ELSE @]
        u == [m EXCEPT !.peer[n] = q]
        s == sort(u).list
    IN  [u EXCEPT !.list = IF u.peer[Last(s)].running THEN s ELSE Front(s)]

\* The peer n is seen in a state: it, and what else is silent, are ranked again.
Seen(m, n, k, ns) ==
    LET q == [m.peer[n] EXCEPT !.seen = 0, !.sync = Off, !.unresponsive = FALSE,
                  !.running = IF k = "ACTIVE" THEN TRUE
                              ELSE IF k \in {"ACTIVE_STOP", "STOP", "START"} THEN FALSE ELSE @]
        u == [m EXCEPT !.peer = [x \in Members |->
                 IF x = n THEN q
                 ELSE IF Knows(m, x) /\ Silent(m, x, ns) THEN [@[x] EXCEPT !.running = FALSE]
                 ELSE @[x]]]
        s == sort(u).list
        l == Last(s)
    IN  [u EXCEPT !.list =
            IF u.peer[l].stopped /\ Silent(u, l, ns) THEN Front(s) ELSE s]

\* What is known of the sender of a message before it is looked at further.
Known(m, c) ==
    LET p == IF Knows(m, c.from) THEN [m.peer[c.from] EXCEPT !.weight = c.w] ELSE NewPeer(c.w)
        q == IF Knows(m, c.from) /\ (p.stopped \/ c.k = "STOP") THEN Stopped(p) ELSE p
    IN  [m EXCEPT !.peer[c.from] = q,
                  !.list = IF Knows(m, c.from) THEN @ ELSE Append(@, c.from)]

\* update_peer, of a message.
update_peer(m, x, c) ==
    LET a == [m EXCEPT !.peer[m.id].seen = 0]
        b == IF ~Knows(m, c.from) \/ c.k = "SYNC" THEN publish(a, "INBOX", c.from) ELSE a
    IN  Decide(Seen(Known(b, c), c.from, c.k, Activate), x)

\* unreachable_cb, session_stop_cb, host_stop_cb: of a peer that is listened for.
stopped_cb(m, x, n) ==
    IF ~Knows(m, n) \/ m.peer[n].stopped THEN m
    ELSE Decide(Seen([m EXCEPT !.peer[n] = Stopped(@)], n, "STOP", Activate), x)

CreateFtMember(n, w) == prepare(publish(NewMember(n, w), "START", 0))

DestroyFtMember(m) == publish(stop_timers([m EXCEPT !.destroyed = TRUE]), "STOP", 0)

SetFtMemberWeight(m, w) ==
    IF w = Me(m).weight THEN m ELSE publish([m EXCEPT !.peer[m.id].weight = w], "STATUS", 0)

-----------------------------------------------------------------------------
(* The monitor.  The messages it listens to carry no intervals, so that    *)
(* the activate_ns of every peer is 0: who was seen before now is silent.  *)

NewMonitor == [list |-> << >>, peer |-> [x \in Members |-> NewPeer(0)], inactive |-> Off, count |-> 0]

active_count(o) == Cardinality({x \in ToSet(o.list) : o.peer[x].running})

\* Everyone but the sender was seen before now, if only by a nanosecond.
MonitorSeen(o, n, k) ==
    LET u == Seen([o EXCEPT !.peer = [x \in Members |-> [@[x] EXCEPT !.seen = Old]]], n, k, 0)
        v == [u EXCEPT !.peer = [x \in Members |-> IF x = n THEN @[x] ELSE [@[x] EXCEPT !.seen = o.peer[x].seen]]]
    IN  [v EXCEPT !.count = active_count(u), !.inactive = 0]

\* api_FtMonitor::update_peer
MonitorUpdate(o, c) == MonitorSeen(Known(o, c), c.from, c.k)

MonitorStopped(o, n) ==
    IF ~Knows(o, n) \/ o.peer[n].stopped THEN o
    ELSE MonitorSeen([o EXCEPT !.peer[n] = Stopped(@)], n, "STOP")

\* Mutant: who is lost still counts.
inactive_cb_counts(o) == [o EXCEPT !.inactive = IF o.count = 0 THEN Off ELSE 0]

inactive_cb(o) ==
    LET u == [o EXCEPT !.peer = [x \in Members |-> [@[x] EXCEPT !.running = @ /\ o.peer[x].seen <= Lost]]]
        n == active_count(u)
    IN  [u EXCEPT !.count = n, !.inactive = IF n = 0 THEN Off ELSE 0]

=============================================================================
