---------------------------- MODULE RvTransport ----------------------------
(***************************************************************************)
(* A transport of the tibrv API (api_Transport, src/rv7_api.cpp) over its  *)
(* client connection (EvRvClient, src/ev_rv_client.cpp), as application    *)
(* threads and the one event thread share it.                              *)
(*                                                                         *)
(* Threads call the API; what touches the connection they post to the      *)
(* event thread through a pipe, and wait: while they wait the transport's  *)
(* mutex is free.  The event thread runs what is posted, reads the         *)
(* connection, closes and reconnects it, and serves the timers.  The       *)
(* daemon at the other end reads what is sent, in order.                   *)
(***************************************************************************)
EXTENDS Integers, FiniteSetsExt, SequencesExt

CONSTANTS
    Threads,      \* threads of the application
    Requesters,   \* those of them that send requests
    Listeners,    \* the listeners they create
    NoListener,   \* no listener
    Subject,      \* what each listens to
    Inbox,        \* the inboxes of the session, _INBOX.<session>.>
    Modes,        \* batch modes: "default", "timer", "single"
    BatchSize,    \* batch_size, in messages
    MaxTicks,     \* RECONNECT_MAX_TICKS
    Budget        \* how many calls, how many faults

VARIABLES
    c,      \* EvRvClient
    t,      \* api_Transport
    net,    \* what is under way on the connection
    d,      \* the daemon's end of it
    thr,    \* what each thread is doing
    pipe,   \* EvPipe: what was posted to the event thread
    e,      \* the event thread: idle, or half way through something
    left    \* what remains of the budget

vars == <<c, t, net, d, thr, pipe, e, left>>

Kind     == {"call", "fault"}
Subjects == {Subject[l] : l \in Listeners}
NoSubs   == [s \in Subjects \union {Inbox} |-> 0]
States   == {"closed", "vers", "info", "init", "conn", "data"}

ASSUME TransportAssumption ==
    /\ Requesters \subseteq Threads /\ Inbox \notin Subjects /\ NoListener \notin Listeners
    /\ IsFiniteSet(Listeners) /\ DOMAIN Subject = Listeners
    /\ Modes \subseteq {"default", "timer", "single"}
    /\ BatchSize \in Nat \ {0} /\ MaxTicks \in Nat \ {0}
    /\ Budget \in [Kind -> Nat]

Hello(k)       == [k |-> k]
Sub(k, s)      == [k |-> k, s |-> s]
Data(th, i, n) == [k |-> "D", th |-> th, i |-> i, n |-> n]

-----------------------------------------------------------------------------
(* The client.  w holds c, t and net.                                      *)

append(w, ms) == IF w.net.alive THEN [w EXCEPT !.net.up = @ \o ms] ELSE w

\* Of one message, or of several in a row.
queue_send(w, ms) ==
    CASE w.c.st = "data"   -> append(w, ms)
      [] w.c.st = "closed" -> w
      [] OTHER             -> [w EXCEPT !.c.save = @ \o ms]

subscribe(w, ss)   == queue_send(w, [i \in DOMAIN ss |-> Sub("L", ss[i])])
unsubscribe(w, ss) == queue_send(w, [i \in DOMAIN ss |-> Sub("C", ss[i])])
publish(w, ms)     == queue_send(w, ms)

flush_pending_send(w) == [append(w, w.c.save) EXCEPT !.c.save = << >>]

NewNet == [alive |-> TRUE, stalled |-> FALSE, up |-> << >>, down |-> <<Hello("vers")>>]
NoNet  == [alive |-> FALSE, stalled |-> FALSE, up |-> << >>, down |-> << >>]

rv_connect(w, ok) ==
    IF w.c.fd THEN w
    ELSE [w EXCEPT !.c = [@ EXCEPT !.st = IF ok THEN "vers" ELSE "closed", !.fd = ok,
                                   !.save = << >>, !.sess = FALSE],
                   !.net = IF ok THEN NewNet ELSE @]

-----------------------------------------------------------------------------
(* What the transport does when the connection comes and goes.             *)

push_state(w, s) ==
    [w EXCEPT !.t.told = IF w.t.listening THEN s ELSE @, !.t.misled = FALSE]

\* Mutant: the listeners are left to the sends saved during the handshake.
on_connect_no_resubscribe(w) ==
    IF ~w.t.armed THEN w
    ELSE push_state([w EXCEPT !.t.armed = FALSE, !.t.x = w.c.sess], "up")

\* The first connect is awaited by CreateTransport; a later one subscribes again.
on_connect(w) ==
    IF ~w.t.armed THEN w
    ELSE LET u  == [w EXCEPT !.t.armed = FALSE, !.t.x = w.c.sess]
             ls == SetToSeq(w.t.ht)
         IN  push_state(subscribe(u, [i \in DOMAIN ls |-> Subject[ls[i]]]), "up")

arm_reconnect(w) ==
    IF w.t.destroyed \/ w.t.armed \/ ~w.t.x THEN w
    ELSE [w EXCEPT !.t.armed = TRUE, !.t.ticks = 0]

\* Mutant: rv_state is looked at when it has been reset.
on_shutdown_reset(w) == arm_reconnect(w)

on_shutdown(w) ==
    arm_reconnect(IF w.c.st = "data" THEN push_state(w, "down") ELSE w)

close_tport(w) == [w EXCEPT !.t.armed = FALSE, !.c.closing = w.c.fd]

recv_info(w) ==
    append([w EXCEPT !.c.st = "conn", !.c.sess = TRUE], <<Hello("init2")>>)

recv_conn(w) ==
    LET u == append([w EXCEPT !.c.st = "data"], <<Sub("L", Inbox)>>)
    IN  flush_pending_send(on_connect(u))

\* A status other than 0, of a refused handshake or of a message that cannot be
\* read: process() closes, and forgets that the connection was up.
process_error(w) ==
    [w EXCEPT !.c.st = "closed", !.c.closing = TRUE, !.t.misled = @ \/ w.c.st = "data"]

\* A reply goes to the first request that waits on its inbox, if it has none
\* yet.  What no request waits for goes to the listeners.
on_rv_msg(w, m) ==
    LET k == SelectInSeq(w.t.rpc_list, LAMBDA r : r.n = m.n)
    IN  IF k = 0 \/ w.t.rpc_list[k].reply # 0 THEN w
        ELSE [w EXCEPT !.t.rpc_list[k].reply = m.rq]

process(w, m) ==
    CASE m.k = "vers"  -> append([w EXCEPT !.c.st = "info"], <<Hello("vers")>>)
      [] m.k = "info2" -> append(w, <<Hello("info")>>)
      [] m.k = "info1" -> append([w EXCEPT !.c.st = "init"], <<Hello("init")>>)
      [] m.k = "resp"  -> recv_info(w)
      [] m.k = "conn"  -> recv_conn(w)
      [] m.k = "R"     -> on_rv_msg(w, m)
      [] m.k = "bad"   -> process_error(w)

\* Mutant: one tick more than the limit.
timer_cb_off_by_one(w, ok) ==
    IF w.t.destroyed \/ w.c.st = "data" THEN [w EXCEPT !.t.armed = FALSE]
    ELSE IF ~w.c.fd THEN rv_connect([w EXCEPT !.t.ticks = 0], ok)
    ELSE IF w.t.ticks + 1 > MaxTicks THEN [w EXCEPT !.t.ticks = 0, !.c.closing = TRUE]
    ELSE [w EXCEPT !.t.ticks = @ + 1]

\* Mutant: a handshake that stalls is waited for.
timer_cb_waits(w, ok) ==
    IF w.t.destroyed \/ w.c.st = "data" THEN [w EXCEPT !.t.armed = FALSE]
    ELSE IF ~w.c.fd THEN rv_connect([w EXCEPT !.t.ticks = 0], ok)
    ELSE w

\* The reconnect timer: connect, or give the handshake MaxTicks.
timer_cb(w, ok) ==
    IF w.t.destroyed \/ w.c.st = "data" THEN [w EXCEPT !.t.armed = FALSE]
    ELSE IF ~w.c.fd THEN rv_connect([w EXCEPT !.t.ticks = 0], ok)
    ELSE IF w.t.ticks + 1 >= MaxTicks THEN [w EXCEPT !.t.ticks = 0, !.c.closing = TRUE]
    ELSE [w EXCEPT !.t.ticks = @ + 1]

-----------------------------------------------------------------------------
(* Batches: a buffer per thread (writers), or one for all (sb_fill).       *)

Buffered == t.sb_fill # << >> \/ \E th \in Threads : t.ctx[th] # << >>

\* The writers are drained one by one, each under its own lock,
drain_writer(w, th) == [publish(w, w.t.ctx[th]) EXCEPT !.t.ctx[th] = << >>]

\* Mutant: the flag that a drain is on its way is not taken back.
drain_fill_pending(w) == [publish(w, w.t.sb_fill) EXCEPT !.t.sb_fill = << >>]

\* and the common buffer last.
drain_fill(w) == [publish(w, w.t.sb_fill) EXCEPT !.t.sb_fill = << >>, !.t.sb_pending = FALSE]

\* What was posted, as the event thread runs it.
run(w, r, ok) ==
    CASE r.op = "CREATE_TPORT" -> rv_connect(w, ok)
      [] r.op = "SUBSCRIBE"    -> subscribe(w, <<Subject[r.arg]>>)
      [] r.op = "UNSUBSCRIBE"  -> unsubscribe(w, <<Subject[r.arg]>>)
      [] r.op = "TPORT_SEND"   -> publish(w, <<r.arg>>)
      [] r.op = "CLOSE_TPORT"  -> close_tport(w)

-----------------------------------------------------------------------------
(* The threads.  exec posts a record and waits, the mutex free, until the  *)
(* event thread has run it; the thread then goes on at `then'.             *)

World == [c |-> c, t |-> t, net |-> net]
Becomes(w) == c' = w.c /\ t' = w.t /\ net' = w.net

exec(th, op, arg, then) ==
    /\ pipe' = Append(pipe, [op |-> op, th |-> th, arg |-> arg, then |-> then])
    /\ thr' = [thr EXCEPT ![th].at = "wait"]

Goes(th, at) == thr' = [thr EXCEPT ![th].at = at] /\ UNCHANGED pipe
Spend(k)     == left[k] > 0 /\ left' = [left EXCEPT ![k] = @ - 1]
Calls(th)    == thr[th].at = "idle" /\ t.handed = "ok" /\ ~t.destroyed /\ Spend("call")
Alone        == UNCHANGED <<c, net, d, e>>

CreateTransport(th) ==
    /\ thr[th].at = "idle" /\ t.handed = "no"
    /\ exec(th, "CREATE_TPORT", 0, "await")
    /\ t' = [t EXCEPT !.handed = "soon"]
    /\ Alone /\ UNCHANGED left

\* The creator looks at rv_state; the session is saved whatever it is.
Created(th) ==
    /\ thr[th].at = "await" /\ c.st \in {"data", "closed"}
    /\ t' = [t EXCEPT !.handed = IF c.st = "data" THEN "ok" ELSE "failed", !.x = c.sess,
                      !.late = e.at = "release"]
    /\ Goes(th, "idle") /\ Alone /\ UNCHANGED left

\* ETIMEDOUT: close it, and look again.
CreateTimeout(th) ==
    /\ thr[th].at = "await" /\ c.st \notin {"data", "closed"} /\ Spend("fault")
    /\ exec(th, "CLOSE_TPORT", 0, "await")
    /\ Alone /\ UNCHANGED t

CreateListener(th, l) ==
    /\ Calls(th) /\ l \notin t.ht /\ \A o \in Threads : thr[o].l # l
    /\ t' = [t EXCEPT !.ht = @ \union {l}]
    /\ pipe' = Append(pipe, [op |-> "SUBSCRIBE", th |-> th, arg |-> l, then |-> "idle"])
    /\ thr' = [thr EXCEPT ![th].at = "wait", ![th].l = l]
    /\ Alone

DestroyEvent(th, l) ==
    /\ Calls(th) /\ l \in t.ht /\ \A o \in Threads : thr[o].l # l
    /\ pipe' = Append(pipe, [op |-> "UNSUBSCRIBE", th |-> th, arg |-> l, then |-> "remove"])
    /\ thr' = [thr EXCEPT ![th].at = "wait", ![th].l = l]
    /\ Alone /\ UNCHANGED t

\* The rest of DestroyEvent, when the unsubscribe is done.
Removed(th) ==
    /\ thr[th].at = "remove"
    /\ t' = [t EXCEPT !.ht = @ \ {thr[th].l}]
    /\ thr' = [thr EXCEPT ![th].at = "idle", ![th].l = NoListener]
    /\ Alone /\ UNCHANGED <<pipe, left>>

\* A state listener is set, or its event destroyed.
SetStateListener(th) ==
    /\ Calls(th)
    /\ \E b \in BOOLEAN : t' = [t EXCEPT !.listening = b, !.told = "none"]
    /\ Alone /\ UNCHANGED <<thr, pipe>>

Message(th) == Data(th, thr[th].i + 1, 0)

SendNow(th) ==
    /\ Calls(th) /\ t.mode = "default"
    /\ pipe' = Append(pipe, [op |-> "TPORT_SEND", th |-> th, arg |-> Message(th), then |-> "idle"])
    /\ thr' = [thr EXCEPT ![th].at = "wait", ![th].i = @ + 1]
    /\ Alone /\ UNCHANGED t

SendTimer(th) ==
    /\ Calls(th) /\ t.mode = "timer"
    /\ t' = [t EXCEPT !.ctx[th] = Append(@, Message(th))]
    /\ thr' = [thr EXCEPT ![th].i = @ + 1,
                          ![th].at = IF Len(t'.ctx[th]) >= BatchSize THEN "flush" ELSE "idle"]
    /\ Alone /\ UNCHANGED pipe

SendSingle(th) ==
    /\ Calls(th) /\ t.mode = "single"
    /\ LET fill == Append(t.sb_fill, Message(th))
           do_drain == Len(fill) >= BatchSize /\ ~t.sb_pending
       IN  /\ t' = [t EXCEPT !.sb_fill = fill, !.sb_pending = @ \/ do_drain]
           /\ thr' = [thr EXCEPT ![th].i = @ + 1, ![th].at = IF do_drain THEN "flush" ELSE "idle"]
    /\ Alone /\ UNCHANGED pipe

\* The application's, or that of a dispatch pass that sent.
Flush(th) ==
    /\ Calls(th) /\ Buffered
    /\ Goes(th, "flush") /\ Alone /\ UNCHANGED t

flush_transport(th) ==
    /\ thr[th].at = "flush"
    /\ exec(th, "TPORT_DRAIN", 0, "idle") /\ Alone /\ UNCHANGED <<t, left>>

\* Mutant: what the thread has batched is left where it is.
SendRequest_no_flush(th) ==
    /\ th \in Requesters /\ Calls(th)
    /\ Goes(th, "count") /\ Alone /\ UNCHANGED t

SendRequest(th) ==
    /\ th \in Requesters /\ Calls(th)
    /\ IF t.mode = "default" THEN Goes(th, "count") ELSE exec(th, "TPORT_DRAIN", 0, "count")
    /\ Alone /\ UNCHANGED t

\* inbox_count++, without the mutex: it is read here,
ReadCount(th) ==
    /\ thr[th].at = "count"
    /\ thr' = [thr EXCEPT ![th].at = "request", ![th].n = t.inbox_count]
    /\ Alone /\ UNCHANGED <<t, pipe, left>>

\* Mutant: the number is not taken.
Request_same_inbox(th) ==
    /\ thr[th].at = "request"
    /\ LET i == thr[th].i + 1
       IN  /\ t' = [t EXCEPT !.rpc_list = <<[th |-> th, n |-> thr[th].n, rq |-> i, reply |-> 0]>> \o @]
           /\ thr' = [thr EXCEPT ![th].at = "wait", ![th].i = i]
           /\ pipe' = Append(pipe, [op |-> "TPORT_SEND", th |-> th,
                                    arg |-> Data(th, i, thr[th].n), then |-> "reply"])
    /\ Alone /\ UNCHANGED left

\* and written here, and the request is posted.
Request(th) ==
    /\ thr[th].at = "request"
    /\ LET i == thr[th].i + 1
       IN  /\ t' = [t EXCEPT !.inbox_count = thr[th].n + 1,
                             !.rpc_list = <<[th |-> th, n |-> thr[th].n, rq |-> i, reply |-> 0]>> \o @]
           /\ thr' = [thr EXCEPT ![th].at = "wait", ![th].i = i]
           /\ pipe' = Append(pipe, [op |-> "TPORT_SEND", th |-> th,
                                    arg |-> Data(th, i, thr[th].n), then |-> "reply"])
    /\ Alone /\ UNCHANGED left

\* With the reply, or without at the timeout.
Requested(th) ==
    /\ thr[th].at = "reply"
    /\ t' = [t EXCEPT !.rpc_list = RemoveFirstMatch(@, LAMBDA r : r.th = th)]
    /\ Goes(th, "idle") /\ Alone /\ UNCHANGED left

\* The application lets no other call run; what is buffered goes first.
DestroyTransport(th) ==
    /\ Calls(th) /\ \A o \in Threads : thr[o].at = "idle"
    /\ exec(th, "TPORT_DRAIN", 0, "close") /\ Alone /\ UNCHANGED t

Close(th) ==
    /\ thr[th].at = "close"
    /\ t' = [t EXCEPT !.destroyed = TRUE]
    /\ exec(th, "CLOSE_TPORT", 0, "idle") /\ Alone /\ UNCHANGED left

-----------------------------------------------------------------------------
(* The event thread.                                                       *)

At(at)          == e = [at |-> at, todo |-> {}]
Enter(at, todo) == e' = [at |-> at, todo |-> todo]

\* The record has been run, and its thread goes on.
Done(r) ==
    /\ thr' = [thr EXCEPT ![r.th].at = r.then, ![r.th].l = IF r.then = "remove" THEN @ ELSE NoListener]
    /\ pipe' = Tail(pipe)

RunPipe ==
    /\ At("idle") /\ pipe # << >> /\ Head(pipe).op # "TPORT_DRAIN"
    /\ LET r == Head(pipe) IN
       \E ok \in IF r.op = "CREATE_TPORT" THEN BOOLEAN ELSE {TRUE} :
          /\ IF ok THEN UNCHANGED left ELSE Spend("fault")
          /\ Becomes(run(World, r, ok)) /\ Done(r)
          /\ d' = IF r.op = "CREATE_TPORT" /\ ok THEN [d EXCEPT !.subs = NoSubs] ELSE d
    /\ UNCHANGED e

\* A drain that was posted, or that of the batch timer (api_BatchTimer).
StartDrain ==
    /\ At("idle")
    /\ LET todo == IF t.mode = "timer" THEN Threads ELSE {}
       IN  \/ pipe # << >> /\ Head(pipe).op = "TPORT_DRAIN" /\ Enter("drain", todo)
           \/ ~t.destroyed /\ Buffered /\ Enter("batch", todo)
    /\ UNCHANGED <<c, t, net, d, thr, pipe, left>>

DrainWriter(th) ==
    /\ th \in e.todo
    /\ Becomes(drain_writer(World, th)) /\ Enter(e.at, e.todo \ {th})
    /\ UNCHANGED <<d, thr, pipe, left>>

DrainFill ==
    /\ At("drain") \/ At("batch")
    /\ Becomes(drain_fill(World)) /\ Enter("idle", {})
    /\ IF At("drain") THEN Done(Head(pipe)) ELSE UNCHANGED <<thr, pipe>>
    /\ UNCHANGED <<d, left>>

ClientRead ==
    /\ At("idle") /\ c.fd /\ net.down # << >>
    /\ Becomes(process([World EXCEPT !.net.down = Tail(@)], Head(net.down)))
    /\ UNCHANGED <<d, thr, pipe, e, left>>

\* EvRvClient::release calls on_shutdown first,
Shutdown ==
    /\ At("idle") /\ c.closing
    /\ Becomes(on_shutdown(World))
    /\ Enter("release", {}) /\ UNCHANGED <<d, thr, pipe, left>>

\* and resets the client after it.
Release ==
    /\ At("release")
    /\ c' = [c EXCEPT !.st = "closed", !.fd = FALSE, !.closing = FALSE, !.save = << >>]
    /\ net' = NoNet /\ d' = [d EXCEPT !.subs = NoSubs, !.asked = {}]
    /\ Enter("idle", {}) /\ UNCHANGED <<t, thr, pipe, left>>

\* A second is longer than a round trip, unless there is a fault.
Settled ==
    /\ ~c.closing /\ net.down = << >>
    /\ net.stalled \/ net.up = << >>

ReconnectTimer ==
    /\ At("idle") /\ t.armed
    /\ \E ok \in BOOLEAN :
          /\ IF ok /\ Settled THEN UNCHANGED left ELSE Spend("fault")
          /\ ok \/ ~c.fd
          /\ Becomes(timer_cb(World, ok))
    /\ UNCHANGED <<d, thr, pipe, e>>

-----------------------------------------------------------------------------
(* The daemon, as far as a client sees it, and what can go wrong.          *)

Tells(m) == net' = [net EXCEPT !.up = Tail(@), !.down = Append(@, Hello(m))]

DaemonRead ==
    /\ net.alive /\ ~net.stalled /\ net.up # << >>
    /\ LET m == Head(net.up) IN
       \/ m.k = "vers"  /\ Tells("info2") /\ UNCHANGED <<d, left>>
       \/ m.k = "info"  /\ Tells("info1") /\ UNCHANGED <<d, left>>
       \/ m.k = "init"  /\ Tells("resp") /\ UNCHANGED <<d, left>>
       \/ m.k = "init"  /\ Tells("bad") /\ Spend("fault") /\ UNCHANGED d
       \/ m.k = "init2" /\ Tells("conn") /\ UNCHANGED <<d, left>>
       \/ /\ m.k \in {"L", "C", "D"} /\ UNCHANGED left
          /\ net' = [net EXCEPT !.up = Tail(@)]
          /\ d' = CASE m.k = "L" -> [d EXCEPT !.subs[m.s] = @ + 1]
                    [] m.k = "C" -> [d EXCEPT !.subs[m.s] = IF @ = 0 THEN 0 ELSE @ - 1]
                    [] m.k = "D" -> [d EXCEPT !.got[m.th] = Append(@, m.i),
                                              !.asked = @ \union
                                                  IF m.n = 0 THEN {} ELSE {[n |-> m.n, rq |-> m.i]}]
    /\ UNCHANGED <<c, t, thr, pipe, e>>

\* Whoever has the request answers, at any time, and perhaps twice.
Respond ==
    /\ net.alive /\ ~net.stalled
    /\ \E q \in d.asked :
          /\ net' = [net EXCEPT !.down = Append(@, [k |-> "R", n |-> q.n, rq |-> q.rq])]
          /\ \/ d' = [d EXCEPT !.asked = @ \ {q}] /\ UNCHANGED left
             \/ Spend("fault") /\ UNCHANGED d
    /\ UNCHANGED <<c, t, thr, pipe, e>>

\* The connection breaks.
Drop ==
    /\ net.alive /\ Spend("fault")
    /\ net' = NoNet /\ c' = [c EXCEPT !.closing = TRUE]
    /\ UNCHANGED <<t, d, thr, pipe, e>>

\* The daemon does not answer any more.
Stall ==
    /\ net.alive /\ ~net.stalled /\ c.st # "data" /\ Spend("fault")
    /\ net' = [net EXCEPT !.stalled = TRUE] /\ UNCHANGED <<c, t, d, thr, pipe, e>>

\* A message arrives that cannot be read.
Garble ==
    /\ net.alive /\ c.st = "data" /\ Spend("fault")
    /\ net' = [net EXCEPT !.down = Append(@, Hello("bad"))] /\ UNCHANGED <<c, t, d, thr, pipe, e>>

-----------------------------------------------------------------------------

NoThread == [at |-> "idle", l |-> NoListener, i |-> 0, n |-> 0]

Init ==
    /\ c = [st |-> "closed", fd |-> FALSE, closing |-> FALSE, save |-> << >>, sess |-> FALSE]
    /\ \E m \in Modes :
       t = [mode |-> m, ht |-> {}, destroyed |-> FALSE, x |-> FALSE, armed |-> FALSE, ticks |-> 0,
            listening |-> FALSE, told |-> "none", misled |-> FALSE, handed |-> "no", late |-> FALSE,
            rpc_list |-> << >>, inbox_count |-> 1,
            ctx |-> [th \in Threads |-> << >>], sb_fill |-> << >>, sb_pending |-> FALSE]
    /\ net = NoNet
    /\ d = [subs |-> NoSubs, got |-> [th \in Threads |-> << >>], asked |-> {}]
    /\ thr = [th \in Threads |-> NoThread]
    /\ pipe = << >> /\ e = [at |-> "idle", todo |-> {}] /\ left = Budget

Call(th) ==
    \/ CreateTransport(th) \/ SetStateListener(th) \/ DestroyTransport(th)
    \/ \E l \in Listeners : CreateListener(th, l) \/ DestroyEvent(th, l)
    \/ SendNow(th) \/ SendTimer(th) \/ SendSingle(th) \/ Flush(th) \/ SendRequest(th)

Continue(th) ==
    \/ Created(th) \/ CreateTimeout(th) \/ Removed(th) \/ flush_transport(th)
    \/ ReadCount(th) \/ Request(th) \/ Requested(th) \/ Close(th)

Event ==
    \/ RunPipe \/ StartDrain \/ DrainFill \/ \E th \in Threads : DrainWriter(th)
    \/ ClientRead \/ Shutdown \/ Release \/ ReconnectTimer

Next ==
    \/ \E th \in Threads : Call(th) \/ Continue(th)
    \/ Event \/ DaemonRead \/ Respond
    \/ Drop \/ Stall \/ Garble

Spec == Init /\ [][Next]_vars

\* The event thread and the daemon go on, and no thread stops half way through
\* a call.  That the application calls, and when, is not assumed.
Progress == Event \/ DaemonRead \/ \E th \in Threads : Continue(th)
FairSpec == Spec /\ WF_vars(Progress)

-----------------------------------------------------------------------------

\* Everything has the shape it should, and the ticks stay under their limit.
TypeOK ==
    /\ c.st \in States /\ c.fd \in BOOLEAN /\ c.closing \in BOOLEAN
    /\ t.ht \subseteq Listeners /\ t.ticks \in 0..(MaxTicks - 1)
    /\ t.told \in {"none", "up", "down"} /\ t.handed \in {"no", "soon", "ok", "failed"}
    /\ c.closing => c.fd
    /\ net.alive => c.fd
    /\ e.at \in {"idle", "release", "drain", "batch"} /\ (e.at = "release" => c.closing)

Quiet == pipe = << >> /\ net.up = << >> /\ ~c.closing /\ \A th \in Threads : thr[th].at \notin {"wait", "remove"}

\* When nothing is on its way, the daemon holds what every listener of a
\* connected transport listens to, through any loss and reconnect.
NotDeaf ==
    Quiet /\ e.at # "release" /\ c.st = "data" => \A l \in t.ht : d.subs[Subject[l]] > 0

\* What a thread sends reaches the daemon in the order it was sent, and once,
\* though batches, requests and sends saved during a handshake go different ways.
InOrder ==
    \A th \in Threads : \A i, j \in DOMAIN d.got[th] : i < j => d.got[th][i] < d.got[th][j]

\* A batch that is full is about to be drained: by the drain that is marked as
\* on its way, or by the thread whose batch it is.
NoneStranded ==
    /\ Len(t.sb_fill) >= BatchSize => t.sb_pending
    /\ t.sb_pending =>
         \/ \E th \in Threads : thr[th].at = "flush"
         \/ \E i \in DOMAIN pipe : pipe[i].op = "TPORT_DRAIN"
    /\ \A th \in Threads : Len(t.ctx[th]) >= BatchSize =>
         \/ thr[th].at = "flush"
         \/ \E i \in DOMAIN pipe : pipe[i].op = "TPORT_DRAIN"

\* The state listener of a transport in use was last told what the connection is
\* (on_connect, on_shutdown), except of one that was up and that the client
\* itself closed over a message it could not read.
StateTold ==
    e.at # "release" /\ ~t.destroyed /\ t.told # "none" /\ ~t.misled => (t.told = "up" <=> c.st = "data")

\* The reply a request is given answers that request, not one that timed out.
ReplyIsMine == \A i \in DOMAIN t.rpc_list : t.rpc_list[i].reply \in {0, t.rpc_list[i].rq}

\* A transport that was handed out and not destroyed is connected in the end,
\* unless its connection was lost just as CreateTransport looked at it.
Recovers == <>[](t.handed = "ok" /\ ~t.destroyed /\ ~t.late => c.st = "data")

=============================================================================
