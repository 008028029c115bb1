------------------------------- MODULE SubNet -------------------------------
(***************************************************************************)
(* The database of SubMgr on a network of daemons: what the daemons        *)
(* publish of their clients (src/ev_rv.cpp, src/rv_host.cpp), the queries  *)
(* they answer (RvDaemonRpc), losses, crashes and the passing of time.     *)
(*                                                                         *)
(* A daemon's advisories and answers reach the database in the order they  *)
(* were sent.  Time passes when they have arrived, unless that is one of   *)
(* the rationed faults.  The daemons' status timers run in step.           *)
(***************************************************************************)
EXTENDS SubMgr

CONSTANTS
    StatusIval,   \* RV_STATUS_IVAL
    Budget        \* how many client operations, and how many other events

VARIABLES
    db,      \* RvSubscriptionDB
    on,      \* the sessions of connected clients
    has,     \* the pairs (session, subject) their daemons hold
    loss,    \* idl + odl of each daemon
    chan,    \* what each daemon has sent and the database not received
    ask,     \* queries on their way to a daemon
    phase,   \* age of the status timers
    left,    \* what remains of the budget
    torn     \* a host was started while the database had sessions of it

vars == <<db, on, has, loss, chan, ask, phase, left, torn>>

Kind == {"op", "fault"}

ASSUME NetAssumption == StatusIval \in Nat \ {0} /\ Budget \in [Kind -> Nat]

Up(h)       == \E s \in on : HostOf[s] = h
SubsOf(s)   == {x \in Subjects : <<s, x>> \in has}
PairsOf(h)  == {p \in has : HostOf[p[1]] = h}
On(h)       == {s \in on : HostOf[s] = h}

Msg(k, s, x)   == [k |-> k, host |-> HostOf[s], sess |-> s, sub |-> x]
HostMsg(k, h)  == [k |-> k, host |-> h]
Status(h)      == [k |-> "HOST.STATUS", host |-> h, loss |-> loss[h], pairs |-> PairsOf(h)]
SetSeq(S)      == FoldSet(LAMBDA x, acc : Append(acc, x), << >>, S)

Spend(k) == left[k] > 0 /\ left' = [left EXCEPT ![k] = @ - 1]
Send(h, ms) == chan' = [chan EXCEPT ![h] = @ \o ms]

-----------------------------------------------------------------------------
(* What a message does to the database.                                    *)

process_pub(d, m) ==
    CASE m.k = "HOST.STATUS"   -> on_host_status(d, m.host, m.loss, m.pairs)
      [] m.k = "HOST.START"    -> host_start(d, m.host)
      [] m.k = "HOST.STOP"     -> host_stop(d, m.host)
      [] m.k = "UNREACHABLE"   -> query_rv7_session(d, m.host)
      [] m.k = "SESSION.START" -> session_start(d, m.host, m.sess, FALSE)
      [] m.k = "SESSION.STOP"  -> session_stop(d, m.sess)
      [] m.k = "LISTEN.START"  -> on_listen_start(d, m.sess, m.sub)
      [] m.k = "LISTEN.STOP"   -> on_listen_stop(d, m.sess, m.sub)
      [] m.k = "SNAP"          -> snapshot(d, m.sess, m.sub)
      [] m.k = "TIC"           -> tic(d, m.sess, m.sub)
      [] m.k = "SASS"          -> sass3(d, m.sub, m.flag)
      [] m.k = "sessions"      -> on_sessions(d, m.slot, m.list)
      [] m.k = "subscriptions" -> on_subscriptions(d, m.sess, m.id, m.list)
      [] m.k = "sync"          -> update_sync(d, m.host, m.list, m.pairs)

-----------------------------------------------------------------------------
(* Daemons and their clients.                                              *)

Connect(s) ==
    LET h == HostOf[s]
    IN  /\ s \notin on /\ Spend("op")
        /\ on' = on \cup {s}
        /\ Send(h, (IF Up(h) THEN << >> ELSE <<HostMsg("HOST.START", h)>>)
                   \o (IF s \in Daemons THEN << >> ELSE <<Msg("SESSION.START", s, "")>>))
        /\ UNCHANGED <<db, has, loss, ask, phase, torn>>

\* send_stop, then stop_network: the last client takes the host with it.
Disconnect(s) ==
    LET h == HostOf[s]
    IN  /\ s \in on \ {Own} /\ Spend("op")
        /\ on' = on \ {s}
        /\ has' = has \ ({s} \X Subjects)
        /\ Send(h, [i \in 1 .. Cardinality(SubsOf(s)) |-> Msg("LISTEN.STOP", s, SetSeq(SubsOf(s))[i])]
                   \o <<IF s \in Daemons THEN HostMsg("UNREACHABLE", h) ELSE Msg("SESSION.STOP", s, "")>>
                   \o (IF On(h) = {s} THEN <<HostMsg("HOST.STOP", h)>> ELSE << >>))
        /\ UNCHANGED <<db, loss, ask, phase, torn>>

Listen(s, x) ==
    /\ s \in on \ {Own} /\ <<s, x>> \notin has /\ Spend("op")
    /\ has' = has \cup {<<s, x>>}
    /\ Send(HostOf[s], <<Msg("LISTEN.START", s, x)>>)
    /\ UNCHANGED <<db, on, loss, ask, phase, torn>>

Unlisten(s, x) ==
    /\ <<s, x>> \in has /\ Spend("op")
    /\ has' = has \ {<<s, x>>}
    /\ Send(HostOf[s], <<Msg("LISTEN.STOP", s, x)>>)
    /\ UNCHANGED <<db, on, loss, ask, phase, torn>>

\* A client asks for an initial value, answers one, or subscribes by itself; or
\* an application passes on what another database holds.
Other(h) ==
    /\ Up(h) /\ Spend("fault")
    /\ \/ \E s \in On(h) \ {Own}, x \in Subjects, k \in {"SNAP", "TIC"} : Send(h, <<Msg(k, s, x)>>)
       \/ \E x \in Subjects, f \in {"SUBSCRIBE", "UNSUBSCRIBE"} :
             Send(h, <<[k |-> "SASS", host |-> h, sub |-> x, flag |-> f]>>)
       \/ Send(h, <<[k |-> "sync", host |-> h, list |-> On(h), pairs |-> PairsOf(h)]>>)
    /\ UNCHANGED <<db, on, has, loss, ask, phase, torn>>

\* The daemon loses messages of its clients, and says so in its next status.
DataLoss(h) ==
    /\ Up(h) /\ Spend("fault")
    /\ loss' = [loss EXCEPT ![h] = @ + 1]
    /\ UNCHANGED <<db, on, has, chan, ask, phase, torn>>

\* The daemon dies: nothing is published, its clients are gone.
Crash(h) ==
    /\ Up(h) /\ h # HostOf[Own] /\ Spend("fault")
    /\ on' = on \ On(h)
    /\ has' = has \ PairsOf(h)
    /\ loss' = [loss EXCEPT ![h] = 0]
    /\ UNCHANGED <<db, chan, ask, phase, torn>>

\* RvDaemonRpc::on_msg; without the daemon nobody listens to its inbox.
Answer(q) ==
    /\ q \in ask
    /\ ask' = ask \ {q}
    /\ IF ~ Up(q.host) THEN UNCHANGED chan
       ELSE Send(q.host, <<IF q.sess = NoSession
                           THEN [k |-> "sessions", host |-> q.host, slot |-> q.slot, list |-> On(q.host)]
                           ELSE [k |-> "subscriptions", host |-> q.host, sess |-> q.sess, id |-> q.id,
                                 list |-> SubsOf(q.sess)]>>)
    /\ UNCHANGED <<db, on, has, loss, phase, left, torn>>

-----------------------------------------------------------------------------
(* The database.                                                           *)

Deliver(h) ==
    /\ chan[h] # << >> /\ db.fault = "none"
    /\ LET m == Head(chan[h])
       IN  /\ db' = process_pub(db, m)
           /\ torn' = (torn \/ /\ m.k = "HOST.START" /\ host_exists(db, h)
                               /\ \E s \in Sessions : HostOf[s] = h /\ Live(db, s))
    /\ chan' = [chan EXCEPT ![h] = Tail(@)]
    /\ UNCHANGED <<on, has, loss, ask, phase, left>>

\* An advisory or an answer is lost between daemon and database.
Lose(h) ==
    /\ chan[h] # << >> /\ Spend("fault")
    /\ chan' = [chan EXCEPT ![h] = Tail(@)]
    /\ UNCHANGED <<db, on, has, loss, ask, phase, torn>>

\* The process of the database loses its connection and makes a new one.
Reconnect ==
    /\ db.fault = "none" /\ Spend("fault")
    /\ db' = start_subscriptions(release(db))
    /\ chan' = [h \in Hosts |-> << >>] /\ ask' = {}
    /\ UNCHANGED <<on, has, loss, phase, torn>>

Quiet == ask = {} /\ \A h \in Hosts : chan[h] = << >>

\* A second: the database's timer, and a status of every daemon when it is due.
Tick ==
    /\ db.fault = "none"
    /\ IF Quiet THEN UNCHANGED left ELSE Spend("fault")
    /\ \E early \in SUBSET {s \in Sessions : db.sess[s].state = "QUERY"}, collect \in BOOLEAN :
         LET d == process_events(db, early, collect)
         IN  db' = [d EXCEPT !.ask = {}] /\ ask' = ask \cup d.ask
    /\ phase' = (phase + 1) % StatusIval
    /\ chan' = [h \in Hosts |-> IF phase' = 0 /\ Up(h) THEN Append(chan[h], Status(h)) ELSE chan[h]]
    /\ UNCHANGED <<on, has, loss, torn>>

Init ==
    /\ db = start_subscriptions(released([active |-> 0, removed |-> 0], {}))
    /\ on = {Own} /\ has = {}
    /\ loss = [h \in Hosts |-> 0]
    /\ chan = [h \in Hosts |-> << >>]
    /\ ask = {} /\ phase = 0 /\ left = Budget /\ torn = FALSE

Next ==
    \/ \E s \in Sessions : Connect(s) \/ Disconnect(s)
    \/ \E s \in Sessions, x \in Subjects : Listen(s, x) \/ Unlisten(s, x)
    \/ \E h \in Hosts : Other(h) \/ DataLoss(h) \/ Crash(h) \/ Deliver(h) \/ Lose(h)
    \/ \E q \in ask : Answer(q)
    \/ Tick \/ Reconnect

Spec == Init /\ [][Next]_vars

\* What Deliver (or Lose) does to the channels, what Tick does to the clock, and
\* when: each is what Next does whenever it holds.
Arrive(h) == db.fault = "none" /\ chan[h] # << >> /\ chan' = [chan EXCEPT ![h] = Tail(@)]
Second    == db.fault = "none" /\ Quiet /\ phase' = (phase + 1) % StatusIval

\* What has been sent arrives, what is asked is answered, and the timer runs.
Fairness ==
    /\ \A h \in Hosts : WF_chan(Arrive(h))
    /\ WF_vars(\E q \in ask : Answer(q))
    /\ WF_phase(Second)

FairSpec == Spec /\ Fairness

-----------------------------------------------------------------------------
(* Properties.                                                             *)

\* The handler has not run off; no host was started over its sessions; no slot of
\* the table was given to a second host while host_ht leads the first one to it.
Sound ==
    /\ db.fault = "none" /\ ~ torn
    /\ \A g, h \in Hosts : g # h /\ db.ht[g] = db.ht[h] => db.ht[g] = 0

\* Type correctness; no count of the database leaves its range.
TypeOK ==
    /\ db \in Database
    /\ on \subseteq Sessions /\ has \subseteq Pair /\ torn \in BOOLEAN
    /\ loss \in [Hosts -> Nat] /\ phase \in 0 .. StatusIval - 1 /\ left \in [Kind -> Nat]

\* The references of a subject (refcnt) are the sessions that hold it, and one
\* more for an application that subscribed by itself: what the advisories, the
\* replies, the marks and the removals of sessions and hosts add and take away
\* (listen_ref, deref_subscription, unsub_session, sass3) balances.
RefsAreHolders ==
    db.fault = "none" =>
        \A x \in Subjects :
            db.subs[x].refcnt = Cardinality({s \in Sessions : x \in db.sess[s].subs})
                                + (IF db.sass[x] = NoEntry THEN 0 ELSE 1)

\* The application that follows the database (on_listen_start, on_listen_stop
\* and their kind) was told of exactly what is held, in every way in which a
\* subscription comes and goes.
ListenerInSync == Sound => db.told = Held(db)

\* Digest and count of a host (host_digest) are those of the pairs its sessions
\* hold, in spite of being kept up in passing; otherwise its status never agrees.
DigestIsHeld ==
    Sound =>
        \A h \in Hosts : host_exists(db, h) =>
            LET P == {p \in Held(db) : HostOf[p[1]] = h}
            IN  db.tab[db.ht[h]].digest = P /\ db.tab[db.ht[h]].count = Cardinality(P)

\* first_free_host is a stopped entry of the table, or its end, whenever host_ref
\* needs one: the loop of host_ref does not go round for ever.
FreeSlotFound == db.fault # "spin"

InSync == Held(db) = has

\* Whatever advisories and answers are lost or late, whatever loses its
\* connection or dies, statuses, queries and timeouts bring the database back to
\* what the daemons hold, and it stays there.
Repaired == <>[](Sound => InSync)
====
