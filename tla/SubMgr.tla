------------------------------- MODULE SubMgr -------------------------------
(***************************************************************************)
(* RvSubscriptionDB (src/submgr.cpp): who listens to what on the network,  *)
(* as told by the advisories of the daemons and repaired by queries.  The  *)
(* database is one record; each function of the code is an operator from   *)
(* the database before to the database after.                              *)
(*                                                                         *)
(* Stamps (cur_mono) are kept as ages, which saturate where the code no    *)
(* longer tells them apart.  A digest, the xor of the hashes of the pairs  *)
(* held, is the set of those pairs under symmetric difference.             *)
(***************************************************************************)
EXTENDS Integers, Sequences, FiniteSets, FiniteSetsExt

CONSTANTS
    Hosts,         \* host ids
    Sessions,      \* session names
    Subjects,      \* subjects listened to; none starts with '_'
    HostOf,        \* the host id a session name begins with
    Daemons,       \* sessions whose name holds ".DAEMON."
    Own,           \* client.session, the session of this process
    QueryIval,     \* HOST_QUERY_INTERVAL and SESSION_QUERY_INTERVAL
    SessTimeout,   \* SESSION_TIMEOUT_INTERVAL
    LateSecs,      \* the 100 seconds of check_query_needed
    HostTimeout,   \* HOST_TIMEOUT_INTERVAL
    Sass3Timeout,  \* the 480 seconds of RvSass3Entry::expired
    Wrap           \* counters are modulo this (2^32)

ASSUME SubMgrAssumption ==
    /\ IsFiniteSet(Hosts) /\ IsFiniteSet(Sessions) /\ IsFiniteSet(Subjects)
    /\ HostOf \in [Sessions -> Hosts] /\ Daemons \subseteq Sessions
    /\ Own \in Sessions \ Daemons
    /\ Wrap \in Nat \ {0}
    /\ {QueryIval, SessTimeout, LateSecs, HostTimeout, Sass3Timeout} \subseteq Nat

NoSession == "none"
NoEntry   == -1
QueryCap  == QueryIval + 1        \* query_mono and start_mono
SessCap   == SessTimeout + 1      \* RvSessionEntry::ref_mono
HostCap   == HostTimeout + 1      \* RvHostEntry::ref_mono

HostState == {"START", "STATUS", "QUERY", "STOP"}
SessState == {"NONE", "RV5", "RV7", "QUERY", "SELF", "STOP"}
Pair      == Sessions \X Subjects

HostEntry == [id : Hosts, state : HostState, sess : SUBSET Sessions,
              ref : 0 .. HostCap, query : 0 .. QueryCap, loss : Nat,
              rv7 : Sessions \cup {NoSession}, count : Nat, digest : SUBSET Pair]

\* ht: sub_ht is allocated; id: session_id modulo 2, enough to tell a reply to
\* an earlier start of the session from one to the current start
SessEntry == [state : SessState, ht : BOOLEAN, subs : SUBSET Subjects,
              ref : 0 .. SessCap, query : 0 .. QueryCap, id : 0 .. 1]

\* known: is in sub_tab; mark: ref_mono is 0
Subscription == [known : BOOLEAN, refcnt : Nat, ref7cnt : 0 .. 1,
                 start : 0 .. QueryCap, mark : BOOLEAN]

Counters == [active : 0 .. Wrap - 1, removed : 0 .. Wrap - 1]

(* ht: host_ht; free: first_free_host (of a table that starts at 1); soft: *)
(* soft_host_query; sass: the age of the sass3 entry of a subject; told:   *)
(* the pairs the listener was told of; ask: the queries sent by the        *)
(* running handler; fault: the handler spins, or has followed a null       *)
(* sub_ht.                                                                 *)
Database == [tab   : Seq(HostEntry), ht : [Hosts -> Nat], free : Nat, soft : Nat,
             sess  : [Sessions -> SessEntry], subs : [Subjects -> Subscription],
             sass  : [Subjects -> 0 .. Sass3Timeout + 1 \cup {NoEntry}],
             subscriptions : Counters, sessions : Counters, hosts : Counters,
             told  : SUBSET Pair,
             ask   : SUBSET [host : Hosts, slot : Nat, sess : Sessions \cup {NoSession}, id : 0 .. 1],
             fault : {"none", "spin", "null"}]

Inc(c)      == [c EXCEPT !.active = (@ + 1) % Wrap]
Dec(c, n)   == [active |-> (c.active + Wrap - (n % Wrap)) % Wrap, removed |-> (c.removed + n) % Wrap]
Live(db, s) == db.sess[s].state \notin {"NONE", "STOP"}
Held(db)    == {p \in Pair : p[2] \in db.sess[p[1]].subs}

-----------------------------------------------------------------------------
(* Entries.                                                                *)

HostStarted(h, state) ==
    [id |-> h, state |-> state, sess |-> {}, ref |-> 0, query |-> QueryCap, loss |-> 0,
     rv7 |-> NoSession, count |-> 0, digest |-> {}]

SessStarted(e, state) ==
    [state |-> state, ht |-> TRUE, subs |-> {}, ref |-> 0, query |-> QueryCap, id |-> 1 - e.id]

SessStopped(e) ==
    [state |-> "STOP", ht |-> FALSE, subs |-> {}, ref |-> SessCap, query |-> QueryCap, id |-> e.id]

SubStarted == [known |-> TRUE, refcnt |-> 0, ref7cnt |-> 0, start |-> 0, mark |-> FALSE]
SubUnknown == [SubStarted EXCEPT !.known = FALSE, !.start = QueryCap]

check_query_needed(e) ==
    IF e.state \in {"START", "STATUS"} /\ e.ref > LateSecs THEN [e EXCEPT !.state = "QUERY"] ELSE e

status(e) ==
    LET f == check_query_needed(e)
    IN  [f EXCEPT !.ref = 0, !.state = IF @ = "QUERY" THEN @ ELSE "STATUS"]

-----------------------------------------------------------------------------
(* Hosts.                                                                  *)

\* A host that is not in the table takes first_free_host; the loop that looks
\* for it never moves on, so it ends at once or not at all.
host_ref(db, h, is_status) ==
    LET i == db.ht[h]
        f == db.free
    IN  CASE i = 0 /\ f = Len(db.tab) + 1 ->
               [db EXCEPT !.tab = Append(@, HostStarted(h, "QUERY")), !.ht[h] = f,
                          !.free = f + 1, !.hosts = Inc(@)]
          [] i = 0 /\ f <= Len(db.tab) /\ db.tab[f].state = "STOP" ->
               [db EXCEPT !.tab[f] = HostStarted(h, "QUERY"), !.ht[h] = f,
                          !.free = f + 1, !.hosts = Inc(@)]
          [] i = 0 /\ f <= Len(db.tab) /\ db.tab[f].state # "STOP" ->
               [db EXCEPT !.fault = "spin"]
          [] i # 0 /\ db.tab[i].state = "STOP" ->
               [db EXCEPT !.tab[i] = HostStarted(h, "QUERY"), !.hosts = Inc(@)]
          [] OTHER ->
               [db EXCEPT !.tab[i] = IF is_status THEN status(@) ELSE [@ EXCEPT !.ref = 0]]

\* An unknown host is pushed at the end; first_free_host stays where it is.
host_start(db, h) ==
    LET i == db.ht[h]
    IN  IF i = 0
        THEN [db EXCEPT !.tab = Append(@, HostStarted(h, "START")), !.ht[h] = Len(db.tab) + 1]
        ELSE [db EXCEPT !.tab[i] = HostStarted(h, IF @.state = "STOP" THEN "START" ELSE "QUERY")]

host_exists(db, h) == db.ht[h] # 0 /\ db.tab[db.ht[h]].state # "STOP"

\* The pairs of s with the subjects X enter or leave the digest of its host.
host_digest(db, s, X, is_add) ==
    LET i == db.ht[HostOf[s]]
        n == Cardinality(X)
    IN  IF i = 0 THEN db
        ELSE [db EXCEPT !.tab[i].digest = SymDiff(@, {s} \X X),
                        !.tab[i].count  = IF is_add THEN @ + n ELSE IF @ > n THEN @ - n ELSE 0]

rv7_session(db, h) ==
    LET i == db.ht[h]
    IN  IF i # 0 /\ db.tab[i].rv7 # NoSession
        THEN IF db.sess[db.tab[i].rv7].ht THEN db.tab[i].rv7 ELSE NoSession
        ELSE NoSession

QuerySession(db, s) ==
    IF s = NoSession THEN db
    ELSE [db EXCEPT !.sess[s].state = IF @ = "SELF" THEN @ ELSE "QUERY"]

query_rv7_session(db, h) == QuerySession(db, rv7_session(db, h))

-----------------------------------------------------------------------------
(* Subscriptions.                                                          *)

\* Mutant: a subject the session already holds is counted again.
listen_ref_recounts(db, s, x) ==
    LET e == IF db.subs[x].known THEN db.subs[x] ELSE SubStarted
    IN  [host_digest(db, s, {x}, TRUE) EXCEPT
           !.subs[x] = [e EXCEPT !.refcnt = @ + 1, !.ref7cnt = IF s \in Daemons THEN 1 ELSE @],
           !.sess[s].subs = @ \cup {x}]

listen_ref(db, s, x) ==
    LET known == IF db.subs[x].known THEN [db.subs[x] EXCEPT !.mark = FALSE] ELSE SubStarted
        added == [known EXCEPT !.refcnt = @ + 1, !.ref7cnt = IF s \in Daemons THEN 1 ELSE @]
    IN  CASE ~ db.sess[s].ht -> [db EXCEPT !.fault = "null"]
          [] db.sess[s].ht /\ x \in db.sess[s].subs -> [db EXCEPT !.subs[x] = known]
          [] OTHER ->
               [host_digest(db, s, {x}, TRUE) EXCEPT
                  !.subs[x] = added, !.sess[s].subs = @ \cup {x},
                  !.subscriptions = IF added.refcnt = 1 THEN Inc(@) ELSE @]

\* listen_ref of several subjects; the listener is told of those that are added.
ListenRefs(db, s, X) ==
    LET d == FoldSet(LAMBDA x, acc : listen_ref(acc, s, x), db, X)
    IN  [d EXCEPT !.told = @ \cup ({s} \X (d.sess[s].subs \ db.sess[s].subs))]

\* Mutant: the digest of the host keeps what a session gives up.
Release_keeps_digest(db, s, X) ==
    [db EXCEPT !.subs = [x \in Subjects |-> IF x \in X THEN [@[x] EXCEPT !.refcnt = @ - 1] ELSE @[x]],
               !.sess[s].subs = @ \ X]

\* unsub_session calls it for every subject of the session, then stops it.
Release(db, s, X) ==
    LET left(x) == [db.subs[x] EXCEPT !.refcnt = @ - 1,
                                      !.ref7cnt = IF s \in Daemons THEN 0 ELSE @]
        none    == {x \in X : left(x).refcnt = 0}
        d       == [host_digest(db, s, X, FALSE) EXCEPT
                      !.subs = [x \in Subjects |-> IF x \in X THEN left(x) ELSE @[x]],
                      !.sess[s].subs = @ \ X,
                      !.subscriptions = Dec(@, Cardinality(none))]
    IN  IF \E x \in X : left(x).refcnt = 1 /\ left(x).ref7cnt = 1
        THEN query_rv7_session(d, HostOf[s]) ELSE d

deref_subscription(db, s, x) ==
    IF db.subs[x].refcnt > 0 /\ x \in db.sess[s].subs THEN Release(db, s, {x}) ELSE db

unsub_session(db, s) ==
    LET X == db.sess[s].subs
    IN  [Release(db, s, X) EXCEPT !.told = @ \ ({s} \X X), !.sess[s] = SessStopped(@)]

listen_stop(db, s, x) ==
    LET d == [db EXCEPT !.subs[x] = IF @.known THEN @ ELSE SubStarted]
    IN  CASE d.subs[x].refcnt > 0 /\ ~ d.sess[s].ht -> [d EXCEPT !.fault = "null"]
          [] d.subs[x].refcnt > 0 /\ d.sess[s].ht /\ x \in d.sess[s].subs -> deref_subscription(d, s, x)
          [] OTHER -> QuerySession(d, s)

-----------------------------------------------------------------------------
(* Sessions.                                                               *)

add_session(db, i, s) ==
    [db EXCEPT !.tab[i].sess = @ \cup {s},
               !.tab[i].rv7  = IF s \in Daemons THEN s ELSE @,
               !.sessions    = Inc(@)]

rem_session(db, i, s) ==
    LET d == unsub_session(db, s)
    IN  IF s \notin d.tab[i].sess THEN d
        ELSE [d EXCEPT !.tab[i].sess = @ \ {s},
                       !.tab[i].rv7  = IF s \in Daemons THEN NoSession ELSE @,
                       !.sessions    = Dec(@, 1)]

session_start(db, h, s, is_self) ==
    LET i     == db.ht[h]
        d     == IF Live(db, s) THEN rem_session(db, i, s) ELSE db
        state == IF is_self THEN "SELF" ELSE IF Live(db, s) THEN "QUERY" ELSE "RV5"
    IN  IF host_exists(db, h)
        THEN add_session([d EXCEPT !.sess[s] = SessStarted(@, state)], i, s) ELSE db

session_stop(db, s) ==
    IF db.sess[s].state # "NONE" /\ host_exists(db, HostOf[s])
    THEN rem_session(db, db.ht[HostOf[s]], s) ELSE db

session_ref(db, s) ==
    LET d == host_ref(db, HostOf[s], FALSE)
    IN  CASE Live(db, s) -> [db EXCEPT !.sess[s].ref = 0]
          [] ~ Live(db, s) /\ d.fault # "none" -> d
          [] OTHER -> add_session([d EXCEPT !.sess[s] =
                         SessStarted(@, IF s \in Daemons THEN "RV7" ELSE "QUERY")],
                         d.ht[HostOf[s]], s)

unsub_host(db, i) ==
    LET d == FoldSet(LAMBDA s, acc : unsub_session(acc, s), db, db.tab[i].sess)
    IN  [d EXCEPT !.tab[i].state = "STOP", !.tab[i].sess = {}, !.hosts = Dec(@, 1)]

host_stop(db, h) == IF db.ht[h] = 0 THEN db ELSE unsub_host(db, db.ht[h])

\* Nothing is known; the counters of hosts, alone, are never reset.
released(hosts, told) ==
    [tab |-> << >>, ht |-> [h \in Hosts |-> 0], free |-> 1, soft |-> 0,
     sess |-> [s \in Sessions |-> [SessStopped([id |-> 0]) EXCEPT !.state = "NONE"]],
     subs |-> [x \in Subjects |-> SubUnknown],
     sass |-> [x \in Subjects |-> NoEntry],
     subscriptions |-> [active |-> 0, removed |-> 0],
     sessions |-> [active |-> 0, removed |-> 0],
     hosts |-> hosts, told |-> told, ask |-> {}, fault |-> "none"]

\* A process that starts to follow the network knows its own host and session.
start_subscriptions(db) ==
    session_start(host_ref(db, HostOf[Own], TRUE), HostOf[Own], Own, TRUE)

unsub_all(db) ==
    FoldSet(LAMBDA i, acc : IF acc.tab[i].state = "STOP" THEN acc ELSE unsub_host(acc, i),
            db, 1 .. Len(db.tab))

\* The connection is lost: every host is stopped and everything forgotten.
release(db) == LET d == unsub_all(db) IN released(d.hosts, d.told)

-----------------------------------------------------------------------------
(* Queries and their replies.                                              *)

\* Ask the daemon of the host in slot i for its sessions, or give it up.
send_host_query(db, i) ==
    LET e == db.tab[i]
    IN  CASE e.query < QueryIval -> db
          [] e.query >= QueryIval /\ e.ref > HostTimeout -> unsub_host(db, i)
          [] OTHER -> [db EXCEPT !.tab[i].query = 0,
                                 !.ask = @ \cup {[host |-> e.id, slot |-> i, sess |-> NoSession, id |-> 0]}]

\* Ask for the subscriptions of those of the sessions S that were not asked of
\* late.  The first that has not been heard of for too long ends the loop and
\* makes the host be queried instead; the ones in early were reached before it.
send_session_queries(db, i, S, early) ==
    LET due   == {s \in S : db.sess[s].query >= QueryIval}
        stale == {s \in due : db.sess[s].ref > SessTimeout}
        asked == IF stale = {} THEN due ELSE (due \ stale) \cap early
        d     == [db EXCEPT
                    !.sess = [s \in Sessions |->
                                CASE s \in asked /\ s = Own -> [@[s] EXCEPT !.state = "SELF"]
                                  [] s \in asked /\ s # Own -> [@[s] EXCEPT !.query = 0]
                                  [] OTHER -> @[s]],
                    !.ask = @ \cup {[host |-> db.tab[i].id, slot |-> 0, sess |-> s, id |-> db.sess[s].id] :
                                      s \in asked \ {Own}}]
    IN  IF stale = {} THEN d ELSE send_host_query([d EXCEPT !.tab[i].state = "QUERY"], i)

\* The daemon of the host in slot i lists its sessions L: those it does not
\* list, unless heard of since the query, are removed; the others are queried.
on_sessions(db, i, L) ==
    LET marked == {s \in db.tab[i].sess : db.sess[s].ref > db.tab[i].query}
        refd   == FoldSet(LAMBDA s, acc : session_ref(acc, s), db, L)
        kept   == FoldSet(LAMBDA s, acc : QuerySession(acc, s), refd, refd.tab[i].sess \ (marked \ L))
        d      == FoldSet(LAMBDA s, acc : rem_session(acc, i, s), kept, marked \ L)
    IN  IF i <= Len(db.tab) /\ db.tab[i].state = "QUERY"
        THEN [d EXCEPT !.tab[i].state = "STATUS"] ELSE db

\* Mutant: the listener is not told of what the reply does not list.
on_subscriptions_untold(db, s, id, X) ==
    LET refd == ListenRefs(db, s, X)
        gone == {x \in refd.sess[s].subs \ X : refd.subs[x].start > db.sess[s].query}
    IN  IF db.sess[s].ht /\ db.sess[s].id = id /\ db.sess[s].state = "QUERY"
        THEN FoldSet(LAMBDA x, acc : deref_subscription(acc, s, x),
                     [refd EXCEPT !.sess[s].state = IF s \in Daemons THEN "RV7" ELSE "RV5"], gone)
        ELSE db

\* The subscriptions X of session s: those it does not list are removed, unless
\* the subject is newer than the query.
on_subscriptions(db, s, id, X) ==
    LET old  == {x \in db.sess[s].subs : db.subs[x].start > db.sess[s].query}
        mark == [db EXCEPT !.subs = [x \in Subjects |-> [@[x] EXCEPT !.mark = @ \/ x \in old]]]
        refd == ListenRefs(mark, s, X)
        gone == {x \in refd.sess[s].subs : refd.subs[x].mark}
        done == [refd EXCEPT !.sess[s].state = IF s \in Daemons THEN "RV7" ELSE "RV5"]
        d    == FoldSet(LAMBDA x, acc : deref_subscription(acc, s, x), done, gone)
    IN  IF db.sess[s].ht /\ db.sess[s].id = id /\ db.sess[s].state = "QUERY"
        THEN [d EXCEPT !.told = @ \ ({s} \X gone)] ELSE db

-----------------------------------------------------------------------------
(* Messages.                                                               *)

\* Mutant: only a change of the loss counts makes a host be queried.
on_host_status_no_digest(db, h, loss, pairs) ==
    LET d == host_ref(db, h, TRUE)
    IN  IF d.fault # "none" \/ d.tab[d.ht[h]].loss = loss THEN d
        ELSE [d EXCEPT !.tab[d.ht[h]].state = "QUERY", !.tab[d.ht[h]].loss = loss]

\* The digest of the daemon (sc, sx) is compared with what is held here.
on_host_status(db, h, loss, pairs) ==
    LET d == host_ref(db, h, TRUE)
        i == d.ht[h]
        e == d.tab[i]
        query(f) == [d EXCEPT !.tab[i].state = "QUERY", !.tab[i].loss = f,
                              !.soft = IF e.id = HostOf[Own] THEN Len(d.tab) ELSE @]
    IN  CASE d.fault # "none" -> d
          [] d.fault = "none" /\ e.loss # loss -> query(loss)
          [] d.fault = "none" /\ e.loss = loss /\ e.state # "QUERY"
               /\ (e.count # Cardinality(pairs) \/ e.digest # pairs) -> query(loss)
          [] OTHER -> d

on_listen_start(db, s, x) ==
    LET d == session_ref(db, s)
        f == listen_ref(d, s, x)
    IN  IF d.fault # "none" \/ d.sess[s].state = "SELF" THEN d
        ELSE [f EXCEPT !.told = @ \cup {<<s, x>>}]

on_listen_stop(db, s, x) ==
    LET d == session_ref(db, s)
        f == listen_stop(d, s, x)
    IN  IF d.fault # "none" \/ d.sess[s].state = "SELF" THEN d
        ELSE [f EXCEPT !.told = @ \ {<<s, x>>}]

get_subscription(db, x) == [db EXCEPT !.subs[x] = IF @.known THEN @ ELSE SubStarted]

\* get_session by name finds stopped sessions too; the daemon's session answers
\* for a name that is not in the table.
session_named(db, s) == IF db.sess[s].state = "NONE" THEN rv7_session(db, HostOf[s]) ELSE s

\* A request from a session that is not known: find out about its host.
QueryUnknown(db, s) ==
    LET d == host_ref(db, HostOf[s], FALSE)
    IN  IF d.fault # "none" THEN d ELSE [d EXCEPT !.tab[d.ht[HostOf[s]]].state = "QUERY"]

snapshot(db, s, x) ==
    LET d == get_subscription(db, x)
        t == session_named(d, s)
    IN  CASE t = NoSession -> QueryUnknown(d, s)
          [] t # NoSession /\ d.subs[x].refcnt # 0 /\ d.subs[x].ref7cnt = 0 -> QuerySession(d, t)
          [] OTHER -> d

tic(db, s, x) ==
    LET d == get_subscription(db, x)
    IN  IF session_named(d, s) = NoSession THEN QueryUnknown(d, s) ELSE d

\* Mutant: a reference is given up that was never taken.
sass3_unchecked(db, x, flag) ==
    LET d == get_subscription(db, x)
    IN  IF flag = "SUBSCRIBE" THEN [d EXCEPT !.sass[x] = 0, !.subs[x].refcnt = @ + 1]
        ELSE [d EXCEPT !.sass[x] = NoEntry, !.subs[x].refcnt = @ - 1]

\* An application's own subscription; the entry of an UNSUBSCRIBE or SNAPSHOT
\* that has none is made and freed within the message.
sass3(db, x, flag) ==
    LET d  == get_subscription(db, x)
        is == d.sass[x] # NoEntry
    IN  CASE flag = "SUBSCRIBE" ->
               [d EXCEPT !.sass[x] = 0, !.subs[x].refcnt = IF is THEN @ ELSE @ + 1]
          [] flag = "UNSUBSCRIBE" /\ is ->
               [d EXCEPT !.sass[x] = NoEntry, !.subs[x].refcnt = @ - 1]
          [] OTHER -> d

\* What another database holds of a host, its sessions S and their pairs, is
\* added to this one.
update_sync(db, h, S, pairs) ==
    IF S = {} THEN db
    ELSE FoldSet(LAMBDA s, acc : LET d == session_ref(acc, s)
                                 IN  IF d.fault # "none" \/ d.sess[s].state = "SELF" THEN d
                                     ELSE ListenRefs(d, s, {x \in Subjects : <<s, x>> \in pairs}),
                 host_ref(db, h, TRUE), S)

-----------------------------------------------------------------------------
(* The timer of each second.                                               *)

Older(n, cap) == IF n < cap THEN n + 1 ELSE n

\* A second passes.
Aged(db) ==
    [db EXCEPT !.tab  = [i \in DOMAIN @ |-> [@[i] EXCEPT !.ref = Older(@, HostCap), !.query = Older(@, QueryCap)]],
               !.sess = [s \in Sessions |-> [@[s] EXCEPT !.ref = Older(@, SessCap), !.query = Older(@, QueryCap)]],
               !.subs = [x \in Subjects |-> [@[x] EXCEPT !.start = Older(@, QueryCap)]],
               !.sass = [x \in Subjects |-> IF @[x] = NoEntry THEN @[x] ELSE @[x] + 1]]

expire_sass3(db) ==
    LET X == {x \in Subjects : db.sass[x] > Sass3Timeout}
    IN  [db EXCEPT !.sass = [x \in Subjects |-> IF x \in X THEN NoEntry ELSE @[x]],
                   !.subs = [x \in Subjects |-> IF x \in X THEN [@[x] EXCEPT !.refcnt = @ - 1] ELSE @[x]]]

\* After a loss at the own host every host is queried, one after the other, from
\* the last in the table to the first.
next_soft_query(db) ==
    LET n == db.soft
        J == {j \in 1 .. n : db.tab[j].state # "STOP"}
        waits == n < Len(db.tab) /\ db.tab[n + 1].state = "QUERY"
    IN  CASE waits             -> db
          [] ~ waits /\ J = {} -> [db EXCEPT !.soft = 0]
          [] OTHER             -> [db EXCEPT !.soft = Max(J) - 1, !.tab[Max(J)].state = "QUERY"]

process_host(db, i, early) ==
    LET d == [db EXCEPT !.tab[i] = check_query_needed(@)]
        q == IF d.tab[i].state = "QUERY" THEN send_host_query(d, i) ELSE d
    IN  CASE db.tab[i].state = "STOP" -> db
          [] db.tab[i].state # "STOP" /\ q.tab[i].state \in {"START", "STATUS"} ->
               send_session_queries(q, i, {s \in q.tab[i].sess : q.sess[s].state = "QUERY"}, early)
          [] OTHER -> q

\* What is no longer referred to is removed once it outnumbers the rest.
gc(db) ==
    LET over(c) == c.removed > c.active
        stopped == {i \in 1 .. Len(db.tab) : db.tab[i].state = "STOP"}
        reuse   == over(db.hosts) /\ db.free = Len(db.tab) + 1
    IN  [db EXCEPT
           !.subs = [x \in Subjects |->
                       IF over(db.subscriptions) /\ @[x].refcnt = 0 THEN SubUnknown ELSE @[x]],
           !.subscriptions.removed = IF over(db.subscriptions) THEN 0 ELSE @,
           !.sess = [s \in Sessions |->
                       IF over(db.sessions) /\ @[s].state = "STOP" THEN [@[s] EXCEPT !.state = "NONE"] ELSE @[s]],
           !.sessions.removed = IF over(db.sessions) THEN 0 ELSE @,
           !.hosts.removed = IF reuse THEN 0 ELSE @,
           !.free = IF reuse /\ stopped # {} THEN Min(stopped) ELSE @]

\* gc runs at the first timer after each 131 seconds: collect says whether now.
process_events(db, early, collect) ==
    LET d == next_soft_query(expire_sass3(Aged(db)))
        p == FoldSet(LAMBDA i, acc : process_host(acc, i, early), d, 1 .. Len(d.tab))
    IN  IF collect THEN gc(p) ELSE p
====
