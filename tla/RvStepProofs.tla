--------------------------- MODULE RvStepProofs ----------------------------
(***************************************************************************)
(* What the steps of RvTransport keep: of the pipe and the threads that    *)
(* wait for it, of the world, and of what the daemon was asked.            *)
(***************************************************************************)
EXTENDS RvClientProofs

-----------------------------------------------------------------------------
(* Threads and the pipe.                                                   *)

Ats    == {"idle", "wait", "await", "remove", "flush", "count", "request", "reply", "close"}
Thread == [at : Ats, l : Listeners \union {NoListener}, i : Nat, n : Nat]
Ops    == {"CREATE_TPORT", "SUBSCRIBE", "UNSUBSCRIBE", "TPORT_SEND", "TPORT_DRAIN", "CLOSE_TPORT"}
Posted ==
    {r \in [op : Ops, th : Threads, then : Ats \ {"wait"},
            arg : {0} \union Listeners \union [k : {"D"}, th : Threads, i : Nat, n : Nat]] :
        r.arg \in Arg(r.op) /\ (r.op = "CREATE_TPORT" => r.then = "await")}

\* A thread that has posted something waits, for that alone.
Queue(p, h) ==
    /\ p \in Seq(Posted) /\ h \in [Threads -> Thread]
    /\ \A i \in DOMAIN p : h[p[i].th].at = "wait"
    /\ \A i, j \in DOMAIN p : p[i].th = p[j].th => i = j

\* One thread creates the transport, until it is handed out.
Creates(p, h, th) == h[th].at = "await" \/ \E i \in DOMAIN p : p[i].th = th /\ p[i].then = "await"
Creator(p, h, handed) ==
    /\ \A a, b \in Threads : Creates(p, h, a) /\ Creates(p, h, b) => a = b
    /\ \A a \in Threads : Creates(p, h, a) => handed = "soon"

\* The connection is closed for good, or as the transport could not be created.
Closes(p, destroyed) == \A i \in DOMAIN p : p[i].op = "CLOSE_TPORT" => p[i].then = "await" \/ destroyed

\* A drain is on its way, and one behind the first record.
Draining(p) == \E i \in DOMAIN p : p[i].op = "TPORT_DRAIN"
Another(p)  == \E i \in DOMAIN p : i # 1 /\ p[i].op = "TPORT_DRAIN"

\* A sequence and one more, and one less.
LEMMA AppendFacts ==
    ASSUME NEW p \in Seq(Posted), NEW r \in Posted
    PROVE  LET q == Append(p, r)
           IN  /\ q \in Seq(Posted) /\ Len(p) \in Nat
               /\ DOMAIN p = 1..Len(p) /\ DOMAIN q = 1..(Len(p) + 1)
               /\ q[Len(p) + 1] = r /\ \A i \in 1..Len(p) : q[i] = p[i]
OBVIOUS

\* What is left of the pipe when its first post is taken.
LEMMA TailFacts ==
    ASSUME NEW p \in Seq(Posted), p # << >>
    PROVE  LET q == Tail(p)
           IN  /\ q \in Seq(Posted) /\ Len(p) \in Nat /\ Len(p) >= 1 /\ Head(p) = p[1]
               /\ DOMAIN p = 1..Len(p) /\ DOMAIN q = 1..(Len(p) - 1)
               /\ \A i \in 1..(Len(p) - 1) : q[i] = p[i + 1]
OBVIOUS

\* q and g are pipe and threads after r was posted.
Grown(p, h, r, q, g) ==
    /\ Queue(q, g)
    /\ \A a \in Threads : Creates(q, g, a) => IF a = r.th THEN r.then = "await" ELSE Creates(p, h, a)
    /\ \A b : Closes(p, b) /\ (r.op = "CLOSE_TPORT" => r.then = "await" \/ b) => Closes(q, b)
    /\ Draining(p) \/ r.op = "TPORT_DRAIN" => Draining(q)
    /\ Another(p) \/ (r.op = "TPORT_DRAIN" /\ p # << >>) => Another(q)
    /\ p # << >> => q # << >> /\ q[1] = p[1]

\* A thread posts, and waits.
LEMMA Posts ==
    ASSUME NEW p, NEW h, Queue(p, h), NEW th \in Threads, h[th].at # "wait",
           NEW r \in Posted, r.th = th, NEW x \in Thread, x.at = "wait"
    PROVE  Grown(p, h, r, Append(p, r), [h EXCEPT ![th] = x])
<1> DEFINE q == Append(p, r)
           g == [h EXCEPT ![th] = x]
<1>1. /\ q \in Seq(Posted) /\ Len(p) \in Nat
      /\ DOMAIN p = 1..Len(p) /\ DOMAIN q = 1..(Len(p) + 1)
      /\ q[Len(p) + 1] = r /\ \A i \in 1..Len(p) : q[i] = p[i]
  BY AppendFacts DEF Queue
<1>2. /\ g \in [Threads -> Thread] /\ g[th] = x /\ \A a \in Threads \ {th} : g[a] = h[a]
  BY DEF Queue
<1>3. \A i \in 1..Len(p) : p[i] \in Posted /\ p[i].th \in Threads \ {th}
  BY <1>1 DEF Queue, Posted
<1> HIDE DEF q, g
<1>4. Queue(q, g)
  <2>1. \A i \in DOMAIN q : g[q[i].th].at = "wait"
    BY <1>1, <1>2, <1>3 DEF Queue
  <2>2. \A i, j \in DOMAIN q : q[i].th = q[j].th => i = j
    BY <1>1, <1>3 DEF Queue
  <2> QED BY <1>1, <1>2, <2>1, <2>2 DEF Queue
<1>5. \A a \in Threads : Creates(q, g, a) => IF a = th THEN r.then = "await" ELSE Creates(p, h, a)
  BY <1>1, <1>2, <1>3 DEF Creates
<1>6. \A b : Closes(p, b) /\ (r.op = "CLOSE_TPORT" => r.then = "await" \/ b) => Closes(q, b)
  BY <1>1 DEF Closes
<1>7. Draining(p) \/ r.op = "TPORT_DRAIN" => Draining(q)
  BY <1>1 DEF Draining
<1>8. p # << >> => Len(p) >= 1 /\ q # << >> /\ q[1] = p[1]
  BY <1>1 DEF Queue, q
<1>9. Another(p) \/ (r.op = "TPORT_DRAIN" /\ p # << >>) => Another(q)
  BY <1>1, <1>8 DEF Another
<1>10. Grown(p, h, r, q, g)
  BY <1>4, <1>5, <1>6, <1>7, <1>8, <1>9 DEF Grown
<1> QED BY <1>10 DEF q, g

\* A thread goes on by itself.
LEMMA GoesOn ==
    ASSUME NEW p, NEW h, Queue(p, h), NEW th \in Threads, h[th].at # "wait",
           NEW x \in Thread, x.at \notin {"await"}
    PROVE  LET g == [h EXCEPT ![th] = x]
           IN  /\ Queue(p, g)
               /\ \A a \in Threads : Creates(p, g, a) => a # th /\ Creates(p, h, a)
<1> DEFINE g == [h EXCEPT ![th] = x]
<1>1. /\ g \in [Threads -> Thread] /\ g[th] = x /\ \A a \in Threads \ {th} : g[a] = h[a]
  BY DEF Queue
<1>2. \A i \in DOMAIN p : p[i].th \in Threads \ {th}
  BY DEF Queue, Posted
<1> HIDE DEF g
<1>3. Queue(p, g)
  BY <1>1, <1>2 DEF Queue
<1>4. \A a \in Threads : Creates(p, g, a) => a # th /\ Creates(p, h, a)
  BY <1>1, <1>2 DEF Creates
<1> QED BY <1>3, <1>4 DEF g

\* q and g are pipe and threads after the first record was run.
Shrunk(p, h, q, g) ==
    /\ Queue(q, g) /\ Head(p) = p[1] /\ p[1] \in Posted /\ h[p[1].th].at = "wait"
    /\ \A a \in Threads : Creates(q, g, a) => Creates(p, h, a)
    /\ \A b : Closes(p, b) => Closes(q, b)
    /\ Draining(p) /\ p[1].op # "TPORT_DRAIN" => Draining(q)
    /\ Another(p) => Draining(q)

\* The first record has been run, and its thread goes on where it says.
LEMMA Dones ==
    ASSUME NEW p, NEW h, Queue(p, h), p # << >>, NEW x \in Thread, x.at = Head(p).then
    PROVE  Shrunk(p, h, Tail(p), [h EXCEPT ![Head(p).th] = x])
<1> DEFINE q == Tail(p)
           r == p[1]
           g == [h EXCEPT ![r.th] = x]
<1>1. /\ q \in Seq(Posted) /\ Len(p) \in Nat /\ Len(p) >= 1 /\ Head(p) = r
      /\ DOMAIN p = 1..Len(p) /\ DOMAIN q = 1..(Len(p) - 1)
      /\ \A i \in 1..(Len(p) - 1) : q[i] = p[i + 1]
  BY TailFacts DEF Queue
<1> HIDE DEF q
<1>2. 1 \in DOMAIN p /\ r \in Posted /\ r.th \in Threads /\ h[r.th].at = "wait" /\ r.then # "wait"
  BY <1>1 DEF Queue, Posted
<1>3. \A i \in DOMAIN q : i + 1 \in DOMAIN p /\ q[i] = p[i + 1] /\ q[i].th \in Threads \ {r.th}
  <2> TAKE i \in DOMAIN q
  <2>1. i + 1 \in DOMAIN p /\ q[i] = p[i + 1] /\ i + 1 # 1
    BY <1>1
  <2>2. p[i + 1] \in Posted
    BY <1>1, <2>1 DEF Queue
  <2>3. p[i + 1].th # r.th
    BY <1>2, <2>1 DEF Queue
  <2> QED BY <2>1, <2>2, <2>3 DEF Posted
<1>4. /\ g \in [Threads -> Thread] /\ g[r.th] = x /\ \A a \in Threads \ {r.th} : g[a] = h[a]
  BY <1>2 DEF Queue
<1> HIDE DEF g
<1>5. Queue(q, g)
  <2>1. \A i \in DOMAIN q : g[q[i].th].at = "wait"
    BY <1>3, <1>4 DEF Queue
  <2>2. \A i, j \in DOMAIN q : q[i].th = q[j].th => i = j
    <3> TAKE i, j \in DOMAIN q
    <3> HAVE q[i].th = q[j].th
    <3>1. i + 1 = j + 1
      BY <1>3 DEF Queue
    <3> QED BY <1>1, <3>1
  <2> QED BY <1>1, <1>4, <2>1, <2>2 DEF Queue
<1>6. \A a \in Threads : Creates(q, g, a) => Creates(p, h, a)
  <2> TAKE a \in Threads
  <2>1. CASE \E i \in DOMAIN q : q[i].th = a /\ q[i].then = "await"
    BY <1>3, <2>1 DEF Creates
  <2>2. CASE g[a].at = "await"
    BY <1>1, <1>2, <1>4, <2>2 DEF Creates
  <2> QED BY <2>1, <2>2 DEF Creates
<1>7. \A b : Closes(p, b) => Closes(q, b)
  BY <1>3 DEF Closes
<1>8. Another(p) => Draining(q)
  <2> SUFFICES ASSUME Another(p) PROVE Draining(q)
    OBVIOUS
  <2>1. PICK i \in DOMAIN p : i # 1 /\ p[i].op = "TPORT_DRAIN"
    BY DEF Another
  <2>2. i \in Nat /\ i - 1 \in DOMAIN q /\ q[i - 1] = p[i]
    BY <1>1, <2>1
  <2> QED BY <2>1, <2>2 DEF Draining
<1>9. Draining(p) /\ r.op # "TPORT_DRAIN" => Another(p)
  BY <1>1 DEF Draining, Another
<1>10. Shrunk(p, h, q, g)
  BY <1>1, <1>2, <1>5, <1>6, <1>7, <1>8, <1>9 DEF Shrunk
<1> QED BY <1>1, <1>10 DEF q, g

-----------------------------------------------------------------------------
(* What each action keeps of the world.                                    *)

Released == e.at = "release"

\* The world after the event thread has changed it.
LEMMA BecomesWorld == ASSUME NEW x, Shape(x), Becomes(x) PROVE World' = x
BY DEF Shape, Becomes, World

\* A step that leaves the connection, and what the state listener goes by, alone.
LEMMA AloneKept ==
    ASSUME NEW w, NEW u, NEW rel, Kept(w, rel), Shape(u), u.c = w.c, u.net = w.net, TportOK(u.t),
           Told(w, rel) => Told(u, rel)
    PROVE  Kept(u, rel)
BY DEF Kept, Sound

\* What the state listener was told stays right when nothing it depends on changes.
LEMMA ToldSame ==
    ASSUME NEW w, NEW u, NEW rel, u.c = w.c,
           \A f \in {"told", "listening", "handed", "x", "destroyed", "misled", "armed"} : u.t[f] = w.t[f]
    PROVE  Told(w, rel) => Told(u, rel)
<1>1. /\ u.t.told = w.t.told /\ u.t.listening = w.t.listening /\ u.t.handed = w.t.handed
      /\ u.t.x = w.t.x /\ u.t.destroyed = w.t.destroyed /\ u.t.misled = w.t.misled /\ u.t.armed = w.t.armed
  OBVIOUS
<1> QED BY <1>1 DEF Told, Abandoned

\* What a world is made of.
LEMMA Parts ==
    ASSUME NEW rel, Kept(World, rel)
    PROVE  /\ World.c = c /\ World.t = t /\ World.net = net
           /\ c = [f \in CF |-> c[f]] /\ t = [f \in TF |-> t[f]] /\ net = [f \in NF |-> net[f]]
           /\ ClientOK(c) /\ TportOK(t) /\ (net.alive => c.fd) /\ Stage(c.st, net.up, net.down)
BY DEF Kept, Sound, Shape, World

\* A step of a thread that changes the transport alone.
LEMMA TportStep ==
    ASSUME NEW rel, Kept(World, rel), UNCHANGED <<c, net>>,
           t' = [f \in TF |-> t'[f]], TportOK(t'), Told(World, rel) => Told(World', rel)
    PROVE  Kept(World', rel)
<1> DEFINE w == World
           u == World'
<1>1. w.c = c /\ w.t = t /\ w.net = net /\ Shape(w)
  BY DEF World, Kept, Sound
<1>2. u.c = c' /\ u.t = t' /\ u.net = net' /\ u = [f \in {"c", "t", "net"} |-> u[f]]
  BY DEF World
<1> HIDE DEF w, u
<1>3. Shape(u) /\ u.c = w.c /\ u.net = w.net
  BY <1>1, <1>2 DEF Shape
<1>4. Kept(w, rel) /\ TportOK(u.t) /\ (Told(w, rel) => Told(u, rel))
  BY <1>2 DEF w, u
<1>5. Kept(u, rel)
  BY <1>3, <1>4, AloneKept
<1> QED BY <1>5 DEF u

\* The same, if what the state listener goes by is left alone too.
LEMMA QuietStep ==
    ASSUME NEW rel, Kept(World, rel), UNCHANGED <<c, net>>,
           t' = [f \in TF |-> t'[f]], TportOK(t'),
           \A f \in {"told", "listening", "handed", "x", "destroyed", "misled", "armed"} : t'[f] = t[f]
    PROVE  Kept(World', rel)
<1>1. World.c = c /\ World.t = t /\ (World').c = c' /\ (World').t = t'
  BY DEF World
<1>2. Told(World, rel) => Told(World', rel)
  BY <1>1, ToldSame
<1> QED BY <1>2, TportStep


\* What a thread sends can be sent.
LEMMA MessageOK ==
    ASSUME Queue(pipe, thr), NEW th \in Threads
    PROVE  Message(th) \in Payload /\ Message(th) \in Arg("TPORT_SEND")
<1>1. thr[th].i + 1 \in Nat
  BY DEF Queue, Thread
<1> QED BY <1>1 DEF Message, Data, Payload, Arg

\* A call.
LEMMA CallWorld ==
    ASSUME NEW rel, Kept(World, rel), Queue(pipe, thr), NEW th \in Threads, Call(th)
    PROVE  Kept(World', rel)
<1>1. t = [f \in TF |-> t[f]] /\ TportOK(t) /\ UNCHANGED <<c, net>>
  BY Parts DEF Call, Alone, CreateTransport, SetStateListener, DestroyTransport, CreateListener, DestroyEvent,
     SendNow, SendTimer, SendSingle, Flush, SendRequest
<1>2. ASSUME UNCHANGED t PROVE Kept(World', rel)
  BY <1>1, <1>2 DEF World
<1>3. CASE CreateTransport(th)
  <2>1. /\ t' = [f \in TF |-> t'[f]] /\ t'.handed = "soon" /\ \A f \in TF \ {"handed"} : t'[f] = t[f]
        /\ t.handed = "no"
    BY <1>1, <1>3 DEF CreateTransport, TF
  <2>2. TportOK(t')
    BY <1>1, <2>1 DEF TportOK, TF
  <2>3. Told(World, rel) => Told(World', rel)
    BY <2>1 DEF Told, World, TF
  <2> QED BY <1>1, <2>1, <2>2, <2>3, TportStep
<1>4. CASE SetStateListener(th)
  <2>1. PICK b \in BOOLEAN : t' = [t EXCEPT !.listening = b, !.told = "none"]
    BY <1>4 DEF SetStateListener
  <2>2. /\ t' = [f \in TF |-> t'[f]] /\ t'.listening = b /\ t'.told = "none" /\ t.handed = "ok"
        /\ \A f \in TF \ {"listening", "told"} : t'[f] = t[f]
    BY <1>1, <1>4, <2>1 DEF SetStateListener, Calls, TF
  <2>3. TportOK(t')
    BY <1>1, <2>2 DEF TportOK, TF
  <2>4. Told(World, rel) => Told(World', rel)
    BY <2>2 DEF Told, World, TF
  <2> QED BY <1>1, <2>2, <2>3, <2>4, TportStep
<1>5. CASE \E l \in Listeners : CreateListener(th, l)
  <2>1. PICK l \in Listeners : CreateListener(th, l)
    BY <1>5
  <2>2. /\ t' = [f \in TF |-> t'[f]] /\ t'.ht = t.ht \union {l} /\ \A f \in TF \ {"ht"} : t'[f] = t[f]
    BY <1>1, <2>1 DEF CreateListener, TF
  <2>3. TportOK(t')
    BY <1>1, <2>2 DEF TportOK, TF
  <2> QED BY <1>1, <2>2, <2>3, QuietStep DEF TF
<1>6. CASE SendTimer(th)
  <2>1. /\ t' = [f \in TF |-> t'[f]] /\ t'.ctx = [t.ctx EXCEPT ![th] = Append(@, Message(th))]
        /\ \A f \in TF \ {"ctx"} : t'[f] = t[f]
    BY <1>1, <1>6 DEF SendTimer, TF
  <2>2. t'.ctx \in [Threads -> Seq(Payload)]
    BY <1>1, <2>1, MessageOK DEF TportOK
  <2>3. TportOK(t')
    BY <1>1, <2>1, <2>2 DEF TportOK, TF
  <2> QED BY <1>1, <2>1, <2>3, QuietStep DEF TF
<1>7. CASE SendSingle(th)
  <2> DEFINE fill == Append(t.sb_fill, Message(th))
             do_drain == Len(fill) >= BatchSize /\ ~t.sb_pending
  <2>0. t' = [t EXCEPT !.sb_fill = fill, !.sb_pending = @ \/ do_drain]
    BY <1>7 DEF SendSingle
  <2>1. fill \in Seq(Payload)
    BY <1>1, MessageOK DEF TportOK
  <2> HIDE DEF fill
  <2>2. do_drain \in BOOLEAN
    BY DEF do_drain
  <2> HIDE DEF do_drain
  <2>3. /\ t' = [f \in TF |-> t'[f]] /\ t'.sb_fill = fill /\ t'.sb_pending = (t.sb_pending \/ do_drain)
        /\ \A f \in TF \ {"sb_fill", "sb_pending"} : t'[f] = t[f]
    BY <1>1, <2>0 DEF TF
  <2>4. TportOK(t')
    BY <1>1, <2>1, <2>2, <2>3 DEF TportOK, TF
  <2> QED BY <1>1, <2>3, <2>4, QuietStep DEF TF
<1>8. CASE DestroyTransport(th) \/ SendNow(th) \/ Flush(th) \/ SendRequest(th)
  <2>1. UNCHANGED t
    BY <1>8 DEF DestroyTransport, SendNow, Flush, SendRequest
  <2> QED BY <1>2, <2>1
<1>9. CASE \E l \in Listeners : DestroyEvent(th, l)
  <2>1. UNCHANGED t
    BY <1>9 DEF DestroyEvent
  <2> QED BY <1>2, <2>1
<1> QED BY <1>3, <1>4, <1>5, <1>6, <1>7, <1>8, <1>9 DEF Call

\* The rest of a call.
LEMMA ContinueWorld ==
    ASSUME NEW rel, Kept(World, rel), Queue(pipe, thr), Creator(pipe, thr, t.handed),
           NEW th \in Threads, Continue(th)
    PROVE  Kept(World', rel)
<1>1. t = [f \in TF |-> t[f]] /\ TportOK(t) /\ UNCHANGED <<c, net>>
  BY Parts DEF Continue, Alone, Created, CreateTimeout, Removed, flush_transport, ReadCount, Request, Requested, Close
<1>2. ASSUME UNCHANGED t PROVE Kept(World', rel)
  BY <1>1, <1>2 DEF World
<1>3. CASE Created(th)
  <2>1. /\ t' = [f \in TF |-> t'[f]] /\ t'.handed = (IF c.st = "data" THEN "ok" ELSE "failed") /\ t'.x = c.sess
        /\ \A f \in TF \ {"handed", "x", "late"} : t'[f] = t[f]
    BY <1>1, <1>3 DEF Created, TF
  <2>2. ClientOK(c) /\ t.handed = "soon"
    BY <1>3, Parts DEF Created, Creator, Creates
  <2>3. TportOK(t')
    BY <1>1, <2>1, <2>2 DEF TportOK, ClientOK, TF
  <2>4. Told(World, rel) => Told(World', rel)
    BY <2>1, <2>2 DEF Told, World, ClientOK, TF
  <2> QED BY <1>1, <2>1, <2>3, <2>4, TportStep
<1>4. CASE Removed(th)
  <2>1. /\ t' = [f \in TF |-> t'[f]] /\ t'.ht = t.ht \ {thr[th].l} /\ \A f \in TF \ {"ht"} : t'[f] = t[f]
    BY <1>1, <1>4 DEF Removed, TF
  <2>2. TportOK(t')
    BY <1>1, <2>1 DEF TportOK, TF
  <2> QED BY <1>1, <2>1, <2>2, QuietStep DEF TF
<1>5. CASE Request(th)
  <2>1. /\ t' = [f \in TF |-> t'[f]] /\ t'.inbox_count = thr[th].n + 1
        /\ \A f \in TF \ {"inbox_count", "rpc_list"} : t'[f] = t[f]
    BY <1>1, <1>5 DEF Request, TF
  <2>2. thr[th].n + 1 \in Nat
    BY DEF Queue, Thread
  <2>3. TportOK(t')
    BY <1>1, <2>1, <2>2 DEF TportOK, TF
  <2> QED BY <1>1, <2>1, <2>3, QuietStep DEF TF
<1>6. CASE Requested(th)
  <2>1. t' = [t EXCEPT !.rpc_list = RemoveFirstMatch(@, LAMBDA r : r.th = th)]
    BY <1>6 DEF Requested
  <2>2. /\ t' = [f \in TF |-> t'[f]] /\ \A f \in TF \ {"rpc_list"} : t'[f] = t[f]
    BY <1>1, <2>1 DEF TF
  <2>3. TportOK(t')
    BY <1>1, <2>2 DEF TportOK, TF
  <2> QED BY <1>1, <2>2, <2>3, QuietStep DEF TF
<1>7. CASE Close(th)
  <2>1. /\ t' = [f \in TF |-> t'[f]] /\ t'.destroyed = TRUE /\ \A f \in TF \ {"destroyed"} : t'[f] = t[f]
    BY <1>1, <1>7 DEF Close, TF
  <2>2. TportOK(t')
    BY <1>1, <2>1 DEF TportOK, TF
  <2>3. Told(World, rel) => Told(World', rel)
    BY <2>1 DEF Told, World, TF
  <2> QED BY <1>1, <2>1, <2>2, <2>3, TportStep
<1>8. CASE CreateTimeout(th) \/ flush_transport(th) \/ ReadCount(th)
  <2>1. UNCHANGED t
    BY <1>8 DEF CreateTimeout, flush_transport, ReadCount
  <2> QED BY <1>2, <2>1
<1> QED BY <1>3, <1>4, <1>5, <1>6, <1>7, <1>8 DEF Continue


\* What the daemon was asked, and has not answered yet, it was asked on a
\* connection that is still there.
Asked(q, k) ==
    /\ q = [f \in {"subs", "got", "asked"} |-> q[f]] /\ q.asked \subseteq [n : Nat, rq : Nat]
    /\ q.asked # {} => k.fd /\ k.st \notin Shaking

\* A step of the network: the connection's state is the same.
LEMMA NetStep ==
    ASSUME NEW rel, Kept(World, rel), UNCHANGED <<c, t>>, net' = [f \in NF |-> net'[f]],
           net'.alive = net.alive, Stage(c.st, net'.up, net'.down)
    PROVE  Kept(World', rel)
<1> DEFINE w == World
           u == World'
<1>1. w.c = c /\ w.t = t /\ w.net = net /\ Kept(w, rel)
  BY DEF World
<1>2. u.c = c' /\ u.t = t' /\ u.net = net' /\ u = [f \in {"c", "t", "net"} |-> u[f]]
  BY DEF World
<1> HIDE DEF w, u
<1>3. Sound(u)
  BY <1>1, <1>2 DEF Kept, Sound, Shape
<1>4. Told(u, rel)
  BY <1>1, <1>2 DEF Kept, Told, Abandoned
<1>5. Kept(u, rel)
  BY <1>3, <1>4 DEF Kept
<1> QED BY <1>5 DEF u

\* What the daemon is sent next, and what is left.
LEMMA TakeUp ==
    ASSUME NEW st \in States, NEW up, NEW down, Stage(st, up, down), up # << >>
    PROVE  \/ st \in Shaking /\ Tail(up) = << >> /\ down = << >> /\ \E k \in Ups(st) : Head(up) = Hello(k)
           \/ st \in {"data", "closed"} /\ Head(up) \in Payload /\ Tail(up) \in Seq(Payload) /\ down \in Seq(Answer)
<1>1. CASE st \in {"data", "closed"}
  BY <1>1 DEF Stage
<1>2. CASE st \notin {"data", "closed"}
  <2>1. PICK k \in Ups(st) : up = <<Hello(k)>> /\ down = << >>
    BY <1>2 DEF Stage
  <2>2. Head(up) = Hello(k) /\ Tail(up) = << >>
    BY <2>1
  <2> QED BY <1>2, <2>1, <2>2 DEF States, Shaking
<1> QED BY <1>1, <1>2

\* The daemon reads a message and may answer.
LEMMA DaemonReadKept ==
    ASSUME NEW rel, Kept(World, rel), Asked(d, c), DaemonRead
    PROVE  Kept(World', rel) /\ Asked(d, c)'
<1>1. /\ c = [f \in CF |-> c[f]] /\ net = [f \in NF |-> net[f]]
      /\ ClientOK(c) /\ c.st \in States /\ c.fd /\ Stage(c.st, net.up, net.down) /\ net.up # << >>
      /\ UNCHANGED <<c, t>>
  BY Parts DEF DaemonRead, ClientOK
<1> DEFINE m == Head(net.up)
<1>2. \/ c.st \in Shaking /\ Tail(net.up) = << >> /\ net.down = << >> /\ \E k \in Ups(c.st) : m = Hello(k)
      \/ /\ c.st \in {"data", "closed"} /\ m \in Payload /\ Tail(net.up) \in Seq(Payload)
         /\ net.down \in Seq(Answer)
  BY <1>1, TakeUp
<1>3. CASE c.st \in Shaking
  <2>1. PICK k \in Ups(c.st) : m = Hello(k) /\ Tail(net.up) = << >> /\ net.down = << >>
    BY <1>2, <1>3 DEF Shaking
  <2>2. m.k = k
    BY <2>1 DEF Hello
  <2>3. k \in {"vers", "info", "init", "init2"}
    BY <2>1 DEF Ups
  <2>4. PICK a \in Downs(c.st) : Tells(a) /\ UNCHANGED d
    <3>1. CASE k = "vers"
      BY <2>1, <2>2, <3>1 DEF DaemonRead, Ups, Downs
    <3>2. CASE k = "info"
      BY <2>1, <2>2, <3>2 DEF DaemonRead, Ups, Downs
    <3>3. CASE k = "init"
      BY <2>1, <2>2, <3>3 DEF DaemonRead, Ups, Downs
    <3>4. CASE k = "init2"
      BY <2>1, <2>2, <3>4 DEF DaemonRead, Ups, Downs
    <3> QED BY <2>3, <3>1, <3>2, <3>3, <3>4
  <2>5. /\ net' = [f \in NF |-> net'[f]] /\ net'.alive = net.alive
        /\ net'.up = << >> /\ net'.down = Append(<< >>, Hello(a))
    BY <1>1, <2>1, <2>4 DEF Tells, NF
  <2>6. net'.down = <<Hello(a)>>
    BY <2>5
  <2>7. Stage(c.st, net'.up, net'.down)
    BY <1>3, <2>4, <2>5, <2>6 DEF Stage, Shaking
  <2>8. Kept(World', rel)
    BY <1>1, <2>5, <2>7, NetStep
  <2> QED BY <1>1, <2>4, <2>8
<1>4. CASE c.st \notin Shaking
  <2>1. c.st \in {"data", "closed"} /\ m \in Payload /\ Tail(net.up) \in Seq(Payload) /\ net.down \in Seq(Answer)
    BY <1>2, <1>4
  <2>2. m.k \in {"L", "C", "D"}
    BY <2>1 DEF Payload
  <2>3. /\ net' = [net EXCEPT !.up = Tail(@)]
        /\ d' = CASE m.k = "L" -> [d EXCEPT !.subs[m.s] = @ + 1]
                  [] m.k = "C" -> [d EXCEPT !.subs[m.s] = IF @ = 0 THEN 0 ELSE @ - 1]
                  [] m.k = "D" -> [d EXCEPT !.got[m.th] = Append(@, m.i),
                                            !.asked = @ \union
                                                IF m.n = 0 THEN {} ELSE {[n |-> m.n, rq |-> m.i]}]
    BY <2>2 DEF DaemonRead
  <2>4. /\ net' = [f \in NF |-> net'[f]] /\ net'.alive = net.alive
        /\ net'.up = Tail(net.up) /\ net'.down = net.down
    BY <1>1, <2>3 DEF NF
  <2>5. Stage(c.st, net'.up, net'.down)
    BY <2>1, <2>4 DEF Stage
  <2>6. Kept(World', rel)
    BY <1>1, <2>4, <2>5, NetStep
  <2>7. /\ d' = [f \in {"subs", "got", "asked"} |-> d'[f]]
        /\ d'.asked = d.asked \/ (m.k = "D" /\ d'.asked = d.asked \union IF m.n = 0 THEN {} ELSE {[n |-> m.n, rq |-> m.i]})
    <3>1. d = [f \in {"subs", "got", "asked"} |-> d[f]]
      BY DEF Asked
    <3>2. CASE m.k = "L"
      BY <2>3, <3>1, <3>2
    <3>3. CASE m.k = "C"
      BY <2>3, <3>1, <3>3
    <3>4. CASE m.k = "D"
      BY <2>3, <3>1, <3>4
    <3> QED BY <2>2, <3>2, <3>3, <3>4
  <2>8. m.k = "D" => m.n \in Nat /\ m.i \in Nat
    BY <2>1 DEF Payload
  <2>9. d'.asked \subseteq [n : Nat, rq : Nat]
    BY <2>7, <2>8 DEF Asked
  <2> QED BY <1>1, <1>4, <2>6, <2>7, <2>9 DEF Asked
<1> QED BY <1>3, <1>4

\* A request is answered.
LEMMA RespondKept ==
    ASSUME NEW rel, Kept(World, rel), Asked(d, c), Respond
    PROVE  Kept(World', rel) /\ Asked(d, c)'
<1>1. /\ net = [f \in NF |-> net[f]] /\ c.st \in States /\ Stage(c.st, net.up, net.down) /\ UNCHANGED <<c, t>>
  BY Parts DEF Respond, ClientOK
<1>2. PICK q \in d.asked :
        /\ net' = [net EXCEPT !.down = Append(@, [k |-> "R", n |-> q.n, rq |-> q.rq])]
        /\ d' = [d EXCEPT !.asked = @ \ {q}] \/ d' = d
  BY DEF Respond
<1> DEFINE m == [k |-> "R", n |-> q.n, rq |-> q.rq]
<1>3. m \in Answer
  BY DEF Asked, Answer
<1>4. c.st \in {"data", "closed"}
  BY <1>1 DEF Asked, Shaking, States
<1>5. /\ net' = [f \in NF |-> net'[f]] /\ net'.alive = net.alive
      /\ net'.up = net.up /\ net'.down = Append(net.down, m)
  BY <1>1, <1>2 DEF NF
<1> HIDE DEF m
<1>6. Stage(c.st, net'.up, net'.down)
  BY <1>1, <1>3, <1>4, <1>5 DEF Stage
<1>7. Kept(World', rel)
  BY <1>1, <1>5, <1>6, NetStep
<1>8. d' = [f \in {"subs", "got", "asked"} |-> d'[f]] /\ d'.asked \subseteq d.asked
  BY <1>2 DEF Asked
<1> QED BY <1>1, <1>7, <1>8 DEF Asked


\* Faults of the network.
LEMMA FaultKept ==
    ASSUME NEW rel, Kept(World, rel), Asked(d, c), Drop \/ Stall \/ Garble
    PROVE  Kept(World', rel) /\ Asked(d, c)' /\ (c.closing => c'.closing)
<1>1. /\ c = [f \in CF |-> c[f]] /\ net = [f \in NF |-> net[f]] /\ c.st \in States
      /\ ClientOK(c) /\ Stage(c.st, net.up, net.down) /\ (net.alive => c.fd)
  BY Parts DEF ClientOK
<1>2. CASE Stall
  <2>1. /\ net' = [f \in NF |-> net'[f]] /\ net'.alive = net.alive
        /\ net'.up = net.up /\ net'.down = net.down /\ UNCHANGED <<c, t, d>>
    BY <1>1, <1>2 DEF Stall, NF
  <2>2. Kept(World', rel)
    BY <1>1, <2>1, NetStep
  <2> QED BY <2>1, <2>2
<1>3. CASE Garble
  <2>1. /\ net' = [f \in NF |-> net'[f]] /\ net'.alive = net.alive /\ c.st = "data"
        /\ net'.up = net.up /\ net'.down = Append(net.down, Hello("bad")) /\ UNCHANGED <<c, t, d>>
    BY <1>1, <1>3 DEF Garble, NF
  <2>2. Stage(c.st, net'.up, net'.down)
    <3>1. Hello("bad") \in Answer
      BY DEF Answer
    <3>2. net.up \in Seq(Payload) /\ net.down \in Seq(Answer)
      BY <1>1, <2>1 DEF Stage
    <3>3. net'.down \in Seq(Answer)
      BY <2>1, <3>1, <3>2
    <3> QED BY <2>1, <3>2, <3>3 DEF Stage
  <2>3. Kept(World', rel)
    BY <1>1, <2>1, <2>2, NetStep
  <2> QED BY <2>1, <2>3
<1>4. CASE Drop
  <2> DEFINE w == World
             u == World'
  <2>1. /\ c' = [f \in CF |-> c'[f]] /\ c'.closing = TRUE /\ \A f \in CF \ {"closing"} : c'[f] = c[f]
    BY <1>1, <1>4 DEF Drop, CF
  <2>2. net' = NoNet /\ UNCHANGED <<t, d>> /\ c.fd
    BY <1>1, <1>4 DEF Drop
  <2>3. /\ net' = [f \in NF |-> net'[f]] /\ net'.alive = FALSE /\ net'.up = << >> /\ net'.down = << >>
    BY <2>2 DEF NoNet, NF
  <2>4. w.c = c /\ w.t = t /\ w.net = net /\ Kept(w, rel)
    BY DEF World
  <2>5. u.c = c' /\ u.t = t' /\ u.net = net' /\ u = [f \in {"c", "t", "net"} |-> u[f]]
    BY DEF World
  <2> HIDE DEF w, u
  <2>6. ClientOK(u.c)
    BY <1>1, <2>1, <2>2, <2>5 DEF ClientOK, CF
  <2>7. Stage(u.c.st, u.net.up, u.net.down)
    <3>1. << >> \in Seq(Payload) /\ << >> \in Seq(Answer)
      OBVIOUS
    <3> QED BY <2>3, <2>5, <3>1 DEF Stage
  <2>8. Sound(u)
    BY <2>1, <2>2, <2>3, <2>4, <2>5, <2>6, <2>7 DEF Kept, Sound, Shape
  <2>9. Told(u, rel)
    BY <2>1, <2>2, <2>4, <2>5 DEF Kept, Told, Abandoned, CF
  <2>10. Kept(u, rel)
    BY <2>8, <2>9 DEF Kept
  <2>11. Asked(d, c)'
    BY <2>1, <2>2 DEF Asked, CF
  <2> QED BY <2>1, <2>10, <2>11 DEF u
<1> QED BY <1>2, <1>3, <1>4

\* The client is reset after on_shutdown.
LEMMA ReleaseKept ==
    ASSUME Kept(World, TRUE), Asked(d, c), Release PROVE Kept(World', FALSE) /\ Asked(d, c)'
<1> DEFINE w == World
           u == World'
<1>1. c = [f \in CF |-> c[f]] /\ ClientOK(c)
  BY Parts
<1>2. /\ c' = [f \in CF |-> c'[f]] /\ c'.st = "closed" /\ c'.fd = FALSE /\ c'.closing = FALSE
      /\ c'.save = << >> /\ c'.sess = c.sess
  BY <1>1 DEF Release, CF
<1>3. net' = NoNet /\ UNCHANGED t
  BY DEF Release
<1>4. /\ net' = [f \in NF |-> net'[f]] /\ net'.alive = FALSE /\ net'.up = << >> /\ net'.down = << >>
  BY <1>3 DEF NoNet, NF
<1>5. d' = [f \in {"subs", "got", "asked"} |-> d'[f]] /\ d'.asked = {}
  BY DEF Release, Asked
<1>6. w.c = c /\ w.t = t /\ w.net = net /\ Kept(w, TRUE)
  BY DEF World
<1>7. u.c = c' /\ u.t = t' /\ u.net = net' /\ u = [f \in {"c", "t", "net"} |-> u[f]]
  BY DEF World
<1> HIDE DEF w, u
<1>8. << >> \in Seq(Payload) /\ << >> \in Seq(Answer)
  OBVIOUS
<1>9. ClientOK(u.c)
  BY <1>1, <1>2, <1>7, <1>8 DEF ClientOK, States
<1>10. Sound(u)
  <2>1. Shape(u) /\ TportOK(u.t)
    BY <1>2, <1>3, <1>4, <1>6, <1>7 DEF Kept, Sound, Shape
  <2>2. Stage(u.c.st, u.net.up, u.net.down)
    BY <1>2, <1>4, <1>7, <1>8 DEF Stage
  <2> QED BY <1>4, <1>7, <1>9, <2>1, <2>2 DEF Sound
<1>11. Told(u, FALSE)
  BY <1>2, <1>3, <1>6, <1>7 DEF Kept, Told, Abandoned
<1>12. Kept(u, FALSE)
  BY <1>10, <1>11 DEF Kept
<1> QED BY <1>5, <1>12 DEF u, Asked


\* The event thread: what it runs of the pipe,
LEMMA RunPipeKept ==
    ASSUME Kept(World, FALSE), Asked(d, c), Queue(pipe, thr), Creator(pipe, thr, t.handed),
           Closes(pipe, t.destroyed), RunPipe
    PROVE  /\ Kept(World', FALSE) /\ Asked(d, c)' /\ \A f \in TF \ {"armed"} : t'[f] = t[f]
<1> DEFINE w == World
           r == Head(pipe)
<1>1. /\ pipe \in Seq(Posted) /\ pipe # << >> /\ r = pipe[1] /\ 1 \in DOMAIN pipe /\ r \in Posted
  BY DEF Queue, RunPipe
<1>2. PICK ok \in BOOLEAN : /\ Becomes(run(w, r, ok)) /\ r.op # "TPORT_DRAIN"
                            /\ d' = IF r.op = "CREATE_TPORT" /\ ok THEN [d EXCEPT !.subs = NoSubs] ELSE d
  BY DEF RunPipe
<1>3. w.c = c /\ w.t = t /\ Kept(w, FALSE)
  BY DEF World
<1>4. r.op = "CLOSE_TPORT" => t.destroyed \/ t.told = "none"
  <2> SUFFICES ASSUME r.op = "CLOSE_TPORT", ~t.destroyed PROVE t.told = "none"
    OBVIOUS
  <2>1. r.then = "await" /\ r.th \in Threads
    BY <1>1 DEF Closes, Posted
  <2>2. t.handed = "soon"
    BY <1>1, <2>1 DEF Creator, Creates
  <2> QED BY <1>3, <2>2 DEF Kept, Told
<1>5. /\ r.op \in {"CREATE_TPORT", "SUBSCRIBE", "UNSUBSCRIBE", "TPORT_SEND", "CLOSE_TPORT"}
      /\ r.arg \in Arg(r.op)
  BY <1>1, <1>2 DEF Posted, Ops
<1>6. Runnable(w, r)
  BY <1>3, <1>4, <1>5 DEF Runnable
<1> DEFINE u == run(w, r, ok)
<1> HIDE DEF w, r
<1>7. Ran(w, u)
  BY <1>3, <1>6, RunKept
<1> HIDE DEF u
<1>8. Shape(u) /\ Becomes(u)
  BY <1>2, <1>7 DEF Ran, Kept, Sound, u
<1>9. World' = u /\ c' = u.c /\ t' = u.t
  BY <1>8, BecomesWorld DEF Becomes
<1>10. d' = [f \in {"subs", "got", "asked"} |-> d'[f]] /\ d'.asked = d.asked
  BY <1>2 DEF Asked
<1>11. Asked(d, c)'
  BY <1>3, <1>7, <1>9, <1>10 DEF Asked, Ran
<1> QED BY <1>3, <1>7, <1>9, <1>11 DEF Ran

\* and what it does otherwise.  Of the drain see Batches below.
LEMMA EventKept ==
    ASSUME Kept(World, FALSE), Asked(d, c), ClientRead \/ ReconnectTimer
    PROVE  /\ Kept(World', FALSE) /\ Asked(d, c)' /\ \A f \in Quietly \ {"ticks"} : t'[f] = t[f]
<1> DEFINE w == World
<1>1. w.c = c /\ w.t = t /\ w.net = net /\ Kept(w, FALSE) /\ c.st \in States /\ UNCHANGED d
  BY Parts DEF World, ClientRead, ReconnectTimer, ClientOK
<1>2. CASE ClientRead
  <2> DEFINE u == process([w EXCEPT !.net.down = Tail(@)], Head(w.net.down))
  <2>1. Becomes(u) /\ w.c.fd /\ w.net.down # << >>
    BY <1>1, <1>2 DEF ClientRead
  <2> HIDE DEF w
  <2>2. /\ Kept(u, FALSE) /\ u.c.fd = w.c.fd /\ \A f \in Quietly : u.t[f] = w.t[f]
        /\ w.c.st \in {"data", "closed"} => u.c.st \in {"data", "closed"}
    BY <1>1, <2>1, ReadKept
  <2> HIDE DEF u
  <2>3. World' = u /\ c' = u.c /\ t' = u.t
    BY <2>1, <2>2, BecomesWorld DEF Kept, Sound, Becomes
  <2> QED BY <1>1, <2>2, <2>3 DEF Asked, Shaking, States
<1>3. CASE ReconnectTimer
  <2>1. PICK ok \in BOOLEAN : Becomes(timer_cb(w, ok))
    BY <1>3 DEF ReconnectTimer
  <2> DEFINE u == timer_cb(w, ok)
  <2> HIDE DEF w
  <2>2. /\ Kept(u, FALSE) /\ \A f \in TF \ {"armed", "ticks"} : u.t[f] = w.t[f]
        /\ w.c.fd => u.c.fd = w.c.fd /\ u.c.st = w.c.st
    BY <1>1, TimerKept
  <2> HIDE DEF u
  <2>3. World' = u /\ c' = u.c /\ t' = u.t
    BY <2>1, <2>2, BecomesWorld DEF Kept, Sound, Becomes, u
  <2> QED BY <1>1, <2>2, <2>3 DEF Asked, Quietly, TF
<1> QED BY <1>2, <1>3

\* on_shutdown, up to the release of the connection, keeps the world sound.
LEMMA ShutdownWorld ==
    ASSUME Kept(World, FALSE), Asked(d, c), Shutdown
    PROVE  /\ Kept(World', TRUE) /\ UNCHANGED c /\ Asked(d, c)'
           /\ \A f \in TF \ {"armed", "ticks", "told", "misled"} : t'[f] = t[f]
<1> DEFINE w == World
           u == on_shutdown(w)
<1>1. w.c = c /\ w.t = t /\ Kept(w, FALSE) /\ c.closing /\ UNCHANGED d /\ Becomes(u)
  BY DEF World, Shutdown
<1> HIDE DEF w
<1>2. /\ Kept(u, TRUE) /\ u.c = w.c /\ \A f \in TF \ {"armed", "ticks", "told", "misled"} : u.t[f] = w.t[f]
  BY <1>1, ShutdownKept
<1> HIDE DEF u
<1>3. World' = u /\ c' = u.c /\ t' = u.t
  BY <1>1, <1>2, BecomesWorld DEF Kept, Sound, Becomes
<1> QED BY <1>1, <1>2, <1>3 DEF Asked

\* A step of the drain keeps the world sound: it sends what the batches hold.
LEMMA DrainWorld ==
    ASSUME Kept(World, FALSE), Asked(d, c), DrainFill \/ \E th \in Threads : DrainWriter(th)
    PROVE  Kept(World', FALSE) /\ Asked(d, c)'
<1> DEFINE w == World
<1>1. w.c = c /\ w.t = t /\ Kept(w, FALSE) /\ UNCHANGED d
  BY DEF World, DrainFill, DrainWriter
<1> HIDE DEF w
<1>2. PICK u : Becomes(u) /\ Kept(u, FALSE) /\ u.c.st = w.c.st /\ u.c.fd = w.c.fd
  <2>1. CASE DrainFill
    BY <1>1, <2>1, DrainFillKept DEF DrainFill, w
  <2>2. CASE \E th \in Threads : DrainWriter(th)
    <3>1. PICK th \in Threads : Becomes(drain_writer(w, th))
      BY <2>2 DEF DrainWriter, w
    <3> QED BY <1>1, <3>1, DrainWriterKept
  <2> QED BY <2>1, <2>2
<1>3. World' = u /\ c' = u.c
  BY <1>2, BecomesWorld DEF Kept, Sound, Becomes
<1> QED BY <1>1, <1>2, <1>3 DEF Asked

=============================================================================
