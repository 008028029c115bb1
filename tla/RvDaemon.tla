------------------------------ MODULE RvDaemon ------------------------------
(***************************************************************************)
(* The daemon: a connection per client (EvRvService, src/ev_rv.cpp), a     *)
(* host per service (RvHost, src/rv_host.cpp), the inbox that answers      *)
(* queries (RvDaemonRpc), and what a monitor that hears every advisory     *)
(* makes of them.                                                          *)
(*                                                                         *)
(* w is the daemon while a handler runs: svc, host, rpc and heard as       *)
(* below.  An operator named for a function of the code takes w to what    *)
(* the function makes of it; a loop over connections or subjects is one    *)
(* assignment to all of them, where the order makes no difference.         *)
(***************************************************************************)
EXTENDS Integers, FiniteSets, Functions

CONSTANTS
    Clients,      \* connections, at most one at a time per client
    Service,      \* the service each client asks for
    Networks,     \* the networks it may ask for
    NoNet,        \* not a network; BadNet: one that does not parse
    BadNet,
    Gob,          \* clients that take the daemon's session (rv7 and later)
    Subjects,     \* subjects and patterns
    Topics,       \* subjects that are published, by others
    Matched,      \* the subjects and patterns that match one of them
    Restricted,   \* those that start with _RV. or _INBOX.
    HasPrefix,    \* has_service_prefix
    Delays,       \* whether a listener puts off the start of a host
    Publishers,   \* other hosts, whose messages may be lost
    Budget        \* how many connections, subscriptions and lost messages

VARIABLES
    svc,     \* the EvRvService of each client
    host,    \* the RvHost of each service
    rpc,     \* the RvDaemonRpc of each inbox
    heard,   \* what a monitor knows of each service
    left     \* what remains of the budget

vars == <<svc, host, rpc, heard, left>>

Services == {Service[c] : c \in Clients}
Kind     == {"conn", "sub", "loss"}

ASSUME DaemonAssumption ==
    /\ IsFiniteSet(Clients) /\ IsFiniteSet(Subjects) /\ IsFiniteSet(Publishers)
    /\ DOMAIN Service = Clients /\ DOMAIN Networks = Clients
    /\ Gob \subseteq Clients /\ Restricted \subseteq Subjects
    /\ IsFiniteSet(Topics) /\ Matched \in [Topics -> SUBSET Subjects]
    /\ HasPrefix \in BOOLEAN /\ Delays \subseteq BOOLEAN
    /\ Budget \in [Kind -> Nat]
    /\ \A c \in Clients : NoNet \notin Networks[c] /\ Service[c] \notin Clients \cup {NoNet}

\* Mutant: the inbox's name leaves out the service.
Inbox_no_service(h) == NoNet

\* Services that share an inbox: without the prefix the inbox has no service.
Inbox(h) == IF HasPrefix THEN h ELSE NoNet

Inboxes == {Inbox(h) : h \in Services}

\* RvDataLossElem: lost of them, told of them, from which host.
NoLoss == [x \in Topics |-> [lost |-> 0, told |-> 0, pub |-> NoNet]]

NewSvc == [state |-> "closed", net |-> NoNet, host |-> NoNet, started |-> FALSE, initresp |-> FALSE,
           is |-> "none", start |-> FALSE, subs |-> [x \in Subjects |-> 0],
           loss |-> NoLoss, missed |-> 0, told |-> 0]

NewHost == [net |-> NoNet, network |-> FALSE, starting |-> FALSE, started |-> FALSE,
            daemon |-> FALSE, status |-> FALSE, delay |-> FALSE, loss |-> FALSE,
            events |-> FALSE, active |-> 0, refs |-> [x \in Subjects |-> 0]]

\* The session of a connection: its own, or the daemon's, named by the service.
Session(s, c) == IF s.is = "daemon" THEN s.host ELSE c

-----------------------------------------------------------------------------
(* A monitor that hears every advisory.  It notes one that comes before    *)
(* what it depends on, or after.                                           *)

NewHeard == [up |-> FALSE, sess |-> {}, subs |-> {}, odd |-> FALSE]

Known(o, h, s) == s \in o.sess \/ (s = h /\ o.up)

HearHostStart(o)  == [o EXCEPT !.up = TRUE, !.odd = @ \/ o.up]
HearHostStop(o)   == [o EXCEPT !.up = FALSE, !.odd = @ \/ o.sess # {} \/ o.subs # {}]

\* SESSION.START of each of S
HearStart(o, h, S) ==
    [o EXCEPT !.sess = @ \cup S, !.odd = @ \/ \E s \in S : ~ o.up \/ Known(o, h, s)]

HearStop(o, s) ==
    [o EXCEPT !.sess = @ \ {s}, !.odd = @ \/ \E p \in o.subs : p[1] = s]

\* LISTEN.START and LISTEN.STOP of s, of each of X
HearListen(o, h, s, X) ==
    [o EXCEPT !.subs = @ \cup ({s} \X X), !.odd = @ \/ (X # {} /\ ~ Known(o, h, s))]

HearCancel(o, s, X) ==
    [o EXCEPT !.subs = @ \ ({s} \X X), !.odd = @ \/ ~ ({s} \X X \subseteq o.subs)]

-----------------------------------------------------------------------------
(* Starting a host.                                                        *)

send_host_start(w, h) ==
    IF w.host[h].started THEN w
    ELSE [w EXCEPT !.host[h].started = TRUE, !.heard[h] = HearHostStart(@)]

send_session_start(w, h, S) ==
    [w EXCEPT !.svc = [c \in Clients |-> IF c \in S THEN [@[c] EXCEPT !.start = TRUE] ELSE @[c]],
              !.heard[h] = HearStart(@, h, S)]

\* Of the clients C of the host h; HOST.START goes before any SESSION.START.
send_start(w, h, C) ==
    LET w1 == IF \E c \in C : w.svc[c].is # "none" THEN send_host_start(w, h) ELSE w
    IN  send_session_start(w1, h, {c \in C : w.svc[c].is = "session" /\ ~ w.svc[c].start})

\* Mutant: the connections are marked, not counted.
count_clients_uncounted(w, h, C) ==
    [w EXCEPT !.svc = [c \in Clients |-> IF c \in C THEN [@[c] EXCEPT !.started = TRUE] ELSE @[c]]]

\* The clients C of the host h have started; those that had not are counted.
count_clients(w, h, C) ==
    [w EXCEPT !.svc = [c \in Clients |-> IF c \in C THEN [@[c] EXCEPT !.started = TRUE] ELSE @[c]],
              !.host[h].active = @ + Cardinality({c \in C : ~ w.svc[c].started})]

subscribe_daemon_inbox(w, h) ==
    IF w.host[h].daemon THEN w
    ELSE [w EXCEPT !.host[h].daemon = TRUE, !.rpc[Inbox(h)].refs = @ + 1]

start_host2(w, h) ==
    LET clients == {c \in Clients : w.svc[c].host = h}
        w1      == [subscribe_daemon_inbox(w, h) EXCEPT !.host[h].status = TRUE]
        w2      == send_start(count_clients(w1, h, clients), h, clients)
    IN  [w2 EXCEPT !.host[h].network = TRUE, !.host[h].starting = FALSE]

\* A host whose status timer runs only asserts its subscriptions again.
start_host(w, h, delay) ==
    IF delay THEN [w EXCEPT !.host[h].delay = TRUE]
    ELSE IF w.host[h].status THEN w ELSE start_host2(w, h)

start_daemon(w, h) ==
    IF w.rpc[Inbox(h)].svc = NoNet THEN [w EXCEPT !.rpc[Inbox(h)].svc = h] ELSE w

check_network(w, h, net) ==
    IF w.host[h].net = net \/ net = BadNet THEN [w |-> w, ok |-> w.host[h].net = net]
    ELSE [w |-> start_daemon([w EXCEPT !.host[h].net = net], h), ok |-> TRUE]

start_network(w, h, net, delay) ==
    IF w.host[h].network \/ w.host[h].starting
    THEN [w |-> w, ok |-> w.host[h].net = net]
    ELSE LET r == check_network(w, h, net)
         IN  IF r.ok THEN [w |-> start_host([r.w EXCEPT !.host[h].starting = TRUE], h, delay), ok |-> TRUE]
             ELSE r

\* An I message: the first is answered INITRESP, the second CONNECTED.
respond_info(w, c, delay) ==
    LET h  == Service[c]
        r  == start_network([w EXCEPT !.svc[c].host = h], h, w.svc[c].net, delay)
        w1 == IF r.w.host[h].network THEN count_clients(r.w, h, {c}) ELSE r.w
        w2 == CASE ~ r.ok                        -> [w1 EXCEPT !.svc[c].state = "shutdown"]
                [] r.ok /\ ~ w1.svc[c].initresp -> [w1 EXCEPT !.svc[c].initresp = TRUE]
                [] OTHER -> [w1 EXCEPT !.svc[c].is = IF c \in Gob THEN "daemon" ELSE "session"]
    IN  IF w2.svc[c].started THEN send_start(w2, h, {c}) ELSE w2

-----------------------------------------------------------------------------
(* Subscriptions.  The sessions of rv7 clients are one, the daemon's: the  *)
(* host counts their references together.                                  *)

add_ref(w, h, x) == [w EXCEPT !.host[h].refs[x] = @ + 1]

\* Of each subject as many as give says.
rem_ref(w, h, give) ==
    [w EXCEPT !.host[h].refs = [x \in Subjects |-> IF @[x] <= give[x] THEN 0 ELSE @[x] - give[x]]]

send_listen_start(w, c, X) ==
    LET h == w.svc[c].host
    IN  [w EXCEPT !.heard[h] = HearListen(@, h, Session(w.svc[c], c), X \ Restricted)]

send_listen_stop(w, c, X) ==
    [w EXCEPT !.heard[w.svc[c].host] = HearCancel(@, Session(w.svc[c], c), X \ Restricted)]

add_sub(w, c, x) ==
    LET w1 == [w EXCEPT !.svc[c].subs[x] = @ + 1]
        w2 == IF w.svc[c].is = "daemon" THEN add_ref(w1, w.svc[c].host, x) ELSE w1
    IN  send_listen_start(w2, c, {x})

\* Mutant: the connection's count decides, not the session's.
give_back_own(w, c, give) ==
    LET s == w.svc[c]
        d == IF s.is = "daemon" THEN rem_ref(w, s.host, give) ELSE w
    IN  send_listen_stop(d, c, {x \in Subjects : give[x] # 0 /\ s.subs[x] = give[x]})

\* Give back references of a client, as many of each subject as give says, and
\* tell of those of which the session has none left.
give_back(w, c, give) ==
    LET s    == w.svc[c]
        d    == IF s.is = "daemon" THEN rem_ref(w, s.host, give) ELSE w
        n(x) == IF s.is = "daemon" THEN d.host[s.host].refs[x] ELSE s.subs[x] - give[x]
    IN  send_listen_stop(d, c, {x \in Subjects : give[x] # 0 /\ n(x) = 0})

rem_sub(w, c, x) ==
    IF w.svc[c].subs[x] = 0 THEN w
    ELSE [give_back(w, c, [y \in Subjects |-> IF y = x THEN 1 ELSE 0]) EXCEPT !.svc[c].subs[x] = @ - 1]

\* Mutant: one reference given back for each subject.
rem_all_sub_once(w, c) ==
    give_back(w, c, [x \in Subjects |-> IF w.svc[c].subs[x] = 0 THEN 0 ELSE 1])

rem_all_sub(w, c) == give_back(w, c, w.svc[c].subs)

-----------------------------------------------------------------------------
(* Messages lost on their way to a client.                                 *)

Pending(loss) == {x \in Topics : loss[x].lost # loss[x].told}
LossSum(loss, S) == SumFunctionOnSet([x \in Topics |-> loss[x].lost - loss[x].told], S)

\* Mutant: what is left for the next advisory is marked as told.
send_inbound_data_loss_all(s, p) ==
    LET now == {x \in Pending(s.loss) : s.loss[x].pub = p}
    IN  [s EXCEPT !.told = @ + LossSum(s.loss, now),
                  !.loss = [x \in Topics |-> [@[x] EXCEPT !.told = s.loss[x].lost]]]

\* To the connection s.  One advisory is about one publishing host, p; the others
\* wait for the timer.
send_inbound_data_loss(s, p) ==
    LET now == {x \in Pending(s.loss) : s.loss[x].pub = p}
    IN  [s EXCEPT !.told = @ + LossSum(s.loss, now),
                  !.loss = [x \in Topics |-> IF x \in now THEN [@[x] EXCEPT !.told = s.loss[x].lost]
                                                ELSE @[x]]]

Listed(w, h) == {c \in Clients : w.svc[c].host = h /\ w.svc[c].loss # NoLoss}

\* Of the clients C of the host h; with the last entry the events are forgotten.
remove_loss_entry(w, h, C) ==
    IF C \cap Listed(w, h) = {} THEN w
    ELSE [w EXCEPT !.svc = [c \in Clients |-> IF c \in C THEN [@[c] EXCEPT !.loss = NoLoss] ELSE @[c]],
                   !.host[h].events = @ /\ ~ (Listed(w, h) \subseteq C)]

\* A message on x came, one from p before it did not.
data_loss(s, x, p) == [s EXCEPT !.missed = @ + 1, !.loss[x].lost = @ + 1, !.loss[x].pub = p]

\* Of the clients that the message is for, those of now are the first of their
\* hosts to lose something: they are told at once, others when the timer fires.
inbound_data_loss(w, to, now, x, p) ==
    LET lost(c) == data_loss(w.svc[c], x, p)
    IN  [w EXCEPT !.svc  = [c \in Clients |-> IF c \in now THEN send_inbound_data_loss(lost(c), p)
                                             ELSE IF c \in to THEN lost(c) ELSE @[c]],
                  !.host = [h \in Services |-> IF \E c \in to : w.svc[c].host = h
                                              THEN [@[h] EXCEPT !.events = TRUE, !.loss = TRUE] ELSE @[h]]]

\* The timer: a client with nothing to tell is taken off the list.  pick is the
\* host of the first subject in each client's table.
pub_inbound_data_loss(w, h, pick) ==
    LET some == {c \in Listed(w, h) : Pending(w.svc[c].loss) # {}}
        w1   == remove_loss_entry(w, h, Listed(w, h) \ some)
    IN  [w1 EXCEPT !.svc = [c \in Clients |-> IF c \in some THEN send_inbound_data_loss(@[c], pick[c]) ELSE @[c]],
                   !.host[h].loss = some # {}]

-----------------------------------------------------------------------------
(* The end of a connection, and of the host with the last of them.         *)

send_session_stop(w, c) == [w EXCEPT !.heard[w.svc[c].host] = HearStop(@, c)]

\* A monitor makes nothing of the UNREACHABLE.TRANSPORT of a daemon's client.
send_stop(w, c) ==
    LET s  == w.svc[c]
        w1 == rem_all_sub(w, c)
    IN  CASE s.is = "session" /\ s.start -> remove_loss_entry(send_session_stop(w1, c), s.host, {c})
          [] s.is = "daemon"             -> remove_loss_entry(w1, s.host, {c})
          [] OTHER                       -> w1

send_host_stop(w, h) ==
    IF w.host[h].started THEN [w EXCEPT !.host[h].started = FALSE, !.heard[h] = HearHostStop(@)] ELSE w

\* Mutant: the inbox stays subscribed.
stop_host_keeps_inbox(w, h) ==
    IF w.host[h].status
    THEN send_host_stop([w EXCEPT !.host[h].status = FALSE, !.host[h].delay = FALSE, !.host[h].loss = FALSE], h)
    ELSE w

stop_host(w, h) ==
    LET w1 == [w EXCEPT !.host[h].status = FALSE, !.host[h].delay = FALSE, !.host[h].loss = FALSE]
        w2 == IF w.host[h].daemon
              THEN [w1 EXCEPT !.host[h].daemon = FALSE, !.rpc[Inbox(h)].refs = @ - 1] ELSE w1
    IN  IF w.host[h].status THEN send_host_stop(w2, h) ELSE w

stop_network(w, h) ==
    LET n == w.host[h].active - 1
    IN  CASE ~ w.host[h].network        -> w
          [] w.host[h].network /\ n # 0 -> [w EXCEPT !.host[h].active = n]
          [] OTHER -> stop_host([w EXCEPT !.host[h].active = 0, !.host[h].network = FALSE,
                                          !.host[h].starting = FALSE], h)

process_close(w, c) ==
    LET s  == w.svc[c]
        w1 == IF s.started THEN stop_network([send_stop(w, c) EXCEPT !.svc[c].started = FALSE], s.host)
              ELSE w
    IN  [w1 EXCEPT !.svc[c] = NewSvc]

-----------------------------------------------------------------------------
World == [svc |-> svc, host |-> host, rpc |-> rpc, heard |-> heard]

Becomes(w) == svc' = w.svc /\ host' = w.host /\ rpc' = w.rpc /\ heard' = w.heard

Spend(k) == left[k] > 0 /\ left' = [left EXCEPT ![k] = @ - 1]
Keep     == UNCHANGED left

accept(c) ==
    /\ svc[c].state = "closed" /\ Spend("conn")
    /\ \E net \in Networks[c] : Becomes([World EXCEPT !.svc[c].state = "VERS_RECV", !.svc[c].net = net])

\* The two records of the handshake.
Handshake(c) ==
    /\ svc[c].state \in {"VERS_RECV", "INFO_RECV"} /\ Keep
    /\ Becomes([World EXCEPT !.svc[c].state = IF @ = "VERS_RECV" THEN "INFO_RECV" ELSE "DATA_RECV"])

Info(c) ==
    /\ svc[c].state = "DATA_RECV" /\ svc[c].is = "none" /\ Keep
    /\ \E delay \in Delays : Becomes(respond_info(World, c, delay))

\* Data is read once the host has started.
Reads(c) == svc[c].state = "DATA_RECV" /\ svc[c].is # "none" /\ svc[c].started

Listen(c, x) == Reads(c) /\ Spend("sub") /\ Becomes(add_sub(World, c, x))

Cancel(c, x) == Reads(c) /\ Keep /\ Becomes(rem_sub(World, c, x))

\* A message is forwarded once to each client that has a match for it.
Lose(x, p) ==
    LET to    == {c \in Clients : \E y \in Matched[x] : svc[c].subs[y] # 0}
        fresh == {c \in to : ~ host[svc[c].host].events}
    IN  /\ to # {} /\ Spend("loss")
        /\ \E now \in SUBSET fresh :
              /\ \A b, c \in now : svc[b].host = svc[c].host => b = c
              /\ \A c \in fresh : \E b \in now : svc[b].host = svc[c].host
              /\ Becomes(inbound_data_loss(World, to, now, x, p))

Close(c) == svc[c].state # "closed" /\ Keep /\ Becomes(process_close(World, c))

DelayTimer(h) ==
    /\ host[h].delay /\ Keep
    /\ Becomes(start_host2([World EXCEPT !.host[h].delay = FALSE], h))

LossTimer(h) ==
    /\ host[h].loss /\ Keep
    /\ \E pick \in [Clients -> Publishers] :
          /\ \A c \in Clients : Pending(svc[c].loss) # {} =>
                \E x \in Pending(svc[c].loss) : svc[c].loss[x].pub = pick[c]
          /\ Becomes(pub_inbound_data_loss(World, h, pick))

Init ==
    /\ svc = [c \in Clients |-> NewSvc]
    /\ host = [h \in Services |-> NewHost]
    /\ rpc = [i \in Inboxes |-> [svc |-> NoNet, refs |-> 0]]
    /\ heard = [h \in Services |-> NewHeard]
    /\ left = Budget

Next ==
    \/ \E c \in Clients : accept(c) \/ Handshake(c) \/ Info(c) \/ Close(c)
    \/ \E c \in Clients, x \in Subjects : Listen(c, x) \/ Cancel(c, x)
    \/ \E x \in Topics, p \in Publishers : Lose(x, p)
    \/ \E h \in Services : DelayTimer(h) \/ LossTimer(h)

Spec == Init /\ [][Next]_vars

-----------------------------------------------------------------------------
(* Properties.                                                             *)

\* Types of svc, host, rpc and heard; active_clients is unsigned and stays one.
TypeOK ==
    /\ \A c \in Clients :
          /\ svc[c].state \in {"closed", "VERS_RECV", "INFO_RECV", "DATA_RECV", "shutdown"}
          /\ svc[c].host \in Services \cup {NoNet}
          /\ svc[c].is \in {"none", "daemon", "session"}
          /\ svc[c].subs \in [Subjects -> Nat]
          /\ \A x \in Topics : svc[c].loss[x].told \in 0 .. svc[c].loss[x].lost
    /\ \A h \in Services : host[h].active \in Nat /\ host[h].refs \in [Subjects -> Nat]
    /\ \A i \in Inboxes : rpc[i].svc \in Services \cup {NoNet} /\ rpc[i].refs \in Nat

\* active_clients counts the connections that will decrement it when they close
\* (count_client against stop_network), so the host stops with the last of them:
\* while one is left its network, status timer and inbox are there.
ClientsCounted ==
    \A h \in Services :
       LET mine == {c \in Clients : svc[c].host = h /\ svc[c].started}
       IN  /\ host[h].active = Cardinality(mine)
           /\ mine # {} => host[h].network
           /\ host[h].network = host[h].status /\ host[h].network = host[h].daemon
           /\ rpc[Inbox(h)].refs = Cardinality({g \in Services : Inbox(g) = Inbox(h) /\ host[g].daemon})

\* The pairs a session holds, as a monitor may know of them.
PairsOf(h) ==
    {<<Session(svc[p[1]], p[1]), p[2]>> : p \in
        {q \in Clients \X (Subjects \ Restricted) : svc[q[1]].host = h /\ svc[q[1]].subs[q[2]] # 0}}

\* What add_sub, rem_sub, send_start, send_stop and stop_host publish is the
\* truth: a monitor that loses nothing knows after every handler which sessions
\* there are and what they subscribe, and hears nothing before its host or
\* session has started or after it has stopped.
AdvisoriesTrue ==
    \A h \in Services :
       /\ heard[h].subs = PairsOf(h)
       /\ heard[h].sess = {c \in Clients : svc[c].host = h /\ svc[c].is = "session" /\ svc[c].started}
       /\ heard[h].up = host[h].started
       /\ ~ heard[h].odd

\* The host's count of a subject is the sum over the connections that share the
\* daemon's session (add_ref and rem_ref against the tables of the connections).
RefsAreSum ==
    \A h \in Services, x \in Subjects :
       host[h].refs[x] = SumFunctionOnSet([c \in Clients |-> svc[c].subs[x]],
                                          {c \in Clients : svc[c].host = h /\ svc[c].is = "daemon"})

\* get_sub_digest: the pairs counted in HOST.STATUS.
Digest(h) == PairsOf(h)

\* send_sessions and send_subscriptions: the pairs in the answers to a query.
Reply(h) == IF rpc[Inbox(h)].svc = NoNet THEN {} ELSE PairsOf(rpc[Inbox(h)].svc)

\* "the same view as the host query reply" (rv_host.h:435): a monitor that finds
\* the digest different and asks is told what the digest counts.
DigestIsReply == \A h \in Services : host[h].network => Digest(h) = Reply(h)

\* Every lost message is told, once: what a client was told and what is still to
\* be told are together what it missed, and while something is to be told the
\* timer that tells it runs (inbound_data_loss, pub_inbound_data_loss).
LossTold ==
    \A c \in Clients :
       /\ svc[c].missed = svc[c].told + LossSum(svc[c].loss, Topics)
       /\ Pending(svc[c].loss) # {} => host[svc[c].host].loss
=============================================================================
