------------------------- MODULE RvTransportProofs -------------------------
(***************************************************************************)
(* Theorems about RvTransport, for any number of threads, listeners, calls *)
(* and faults: the inductive invariant and what follows from it.           *)
(***************************************************************************)
EXTENDS RvStepProofs

\* A batch that is full is about to be drained.  While a drain runs, the batch
\* of a thread it has been at already is left to another.
Batches(tt, h, p, ee) ==
    /\ tt.mode # "timer" => \A th \in Threads : tt.ctx[th] = << >>
    /\ Len(tt.sb_fill) >= BatchSize => tt.sb_pending
    /\ tt.sb_pending => (\E th \in Threads : h[th].at = "flush") \/ Draining(p)
    /\ \A th \in Threads : Len(tt.ctx[th]) >= BatchSize =>
         h[th].at = "flush" \/ IF ee.at = "drain" /\ th \notin ee.todo THEN Another(p) ELSE Draining(p)

\* The event thread: what it is half way through.
Busy(p, k, ee) ==
    /\ ee \in [at : {"idle", "release", "drain", "batch"}, todo : SUBSET Threads]
    /\ ee.at \in {"idle", "release"} => ee.todo = {}
    /\ ee.at = "release" => k.closing
    /\ ee.at = "drain" => p # << >> /\ p[1].op = "TPORT_DRAIN"

\* What the threads and the pipe keep.
Threaded(p, h, tt, ee) ==
    Queue(p, h) /\ Creator(p, h, tt.handed) /\ Closes(p, tt.destroyed) /\ Batches(tt, h, p, ee)

BatchFields   == {"mode", "ctx", "sb_fill", "sb_pending"}
SameBatch(a, b) == \A f \in BatchFields : b[f] = a[f]

\* A thread posts a record: anything, unless its batch waits for a drain.
LEMMA PostThreaded ==
    ASSUME NEW p, NEW h, NEW a, NEW b, NEW k, NEW ee, Threaded(p, h, a, ee), Busy(p, k, ee), SameBatch(a, b),
           NEW th \in Threads, h[th].at # "wait",
           NEW r \in Posted, r.th = th, NEW x \in Thread, x.at = "wait",
           h[th].at = "flush" => r.op = "TPORT_DRAIN",
           r.op = "CLOSE_TPORT" => r.then = "await" \/ b.destroyed,
           a.destroyed => b.destroyed,
           \/ r.then # "await" /\ b.handed = a.handed
           \/ r.then = "await" /\ b.handed = "soon" /\ \A o \in Threads : Creates(p, h, o) => o = th
    PROVE  Threaded(Append(p, r), [h EXCEPT ![th] = x], b, ee) /\ Busy(Append(p, r), k, ee)
<1> DEFINE q == Append(p, r)
           g == [h EXCEPT ![th] = x]
<1>1. Queue(p, h)
  BY DEF Threaded
<1>2. Grown(p, h, r, q, g)
  BY <1>1, Posts
<1>3. g[th] = x /\ \A o \in Threads \ {th} : g[o] = h[o]
  BY <1>1 DEF Queue
<1> HIDE DEF q, g
<1>4. Creator(q, g, b.handed)
  BY <1>2 DEF Threaded, Creator, Grown
<1>5. Closes(q, b.destroyed)
  <2>1. Closes(p, b.destroyed)
    BY DEF Threaded, Closes
  <2> QED BY <1>2, <2>1 DEF Grown
<1>6. Batches(b, g, q, ee)
  <2>1. b.mode = a.mode /\ b.ctx = a.ctx /\ b.sb_fill = a.sb_fill /\ b.sb_pending = a.sb_pending
    BY DEF SameBatch, BatchFields
  <2>2. b.sb_pending => (\E o \in Threads : g[o].at = "flush") \/ Draining(q)
    BY <1>2, <1>3, <2>1 DEF Threaded, Batches, Grown
  <2>3. ASSUME NEW o \in Threads, Len(b.ctx[o]) >= BatchSize
        PROVE  g[o].at = "flush" \/ IF ee.at = "drain" /\ o \notin ee.todo THEN Another(q) ELSE Draining(q)
    <3>1. h[o].at = "flush" \/ IF ee.at = "drain" /\ o \notin ee.todo THEN Another(p) ELSE Draining(p)
      BY <2>1, <2>3 DEF Threaded, Batches
    <3>2. ee.at = "drain" => p # << >>
      BY DEF Busy
    <3> QED BY <1>2, <1>3, <3>1, <3>2 DEF Grown
  <2> QED BY <2>1, <2>2, <2>3 DEF Threaded, Batches
<1>7. Busy(q, k, ee)
  BY <1>2 DEF Busy, Grown
<1> QED BY <1>2, <1>4, <1>5, <1>6, <1>7 DEF Threaded, Grown, q, g

\* A thread goes on by itself; what it batches meanwhile is up to it.
LEMMA GoThreaded ==
    ASSUME NEW p, NEW h, NEW a, NEW b, NEW ee, Threaded(p, h, a, ee), b.destroyed = a.destroyed,
           NEW th \in Threads, h[th].at # "wait", NEW x \in Thread, x.at # "await",
           b.handed = a.handed \/ Creates(p, h, th),
           Batches(b, [h EXCEPT ![th] = x], p, ee)
    PROVE  Threaded(p, [h EXCEPT ![th] = x], b, ee)
<1> DEFINE g == [h EXCEPT ![th] = x]
<1>1. Queue(p, g) /\ \A o \in Threads : Creates(p, g, o) => o # th /\ Creates(p, h, o)
  BY GoesOn DEF Threaded
<1>2. Batches(b, g, p, ee)
  OBVIOUS
<1> HIDE DEF g
<1>3. Creator(p, g, b.handed)
  BY <1>1 DEF Threaded, Creator
<1> QED BY <1>1, <1>2, <1>3 DEF Threaded, g

\* One that batches nothing.
LEMMA GoBatches ==
    ASSUME NEW p, NEW h, NEW a, NEW b, NEW ee, Threaded(p, h, a, ee), SameBatch(a, b),
           NEW th \in Threads, h[th].at # "flush", NEW x
    PROVE  Batches(b, [h EXCEPT ![th] = x], p, ee)
<1> DEFINE g == [h EXCEPT ![th] = x]
<1>1. \A o \in Threads \ {th} : g[o] = h[o]
  BY DEF Threaded, Queue
<1>2. b.mode = a.mode /\ b.ctx = a.ctx /\ b.sb_fill = a.sb_fill /\ b.sb_pending = a.sb_pending
  BY DEF SameBatch, BatchFields
<1> HIDE DEF g
<1>3. Batches(b, g, p, ee)
  BY <1>1, <1>2 DEF Threaded, Batches
<1> QED BY <1>3 DEF g

\* A step of the event thread, of the daemon or of the network that leaves pipe
\* and threads alone, and neither begins nor ends a drain.
LEMMA SameThreaded ==
    ASSUME NEW p, NEW h, NEW a, NEW b, NEW ee, NEW ff, Threaded(p, h, a, ee), SameBatch(a, b),
           b.handed = a.handed, b.destroyed = a.destroyed,
           ff = ee \/ (ee.at # "drain" /\ ff.at # "drain")
    PROVE  Threaded(p, h, b, ff)
<1>1. b.mode = a.mode /\ b.ctx = a.ctx /\ b.sb_fill = a.sb_fill /\ b.sb_pending = a.sb_pending
  BY DEF SameBatch, BatchFields
<1>2. Batches(b, h, p, ff)
  BY <1>1 DEF Threaded, Batches
<1> QED BY <1>2 DEF Threaded


\* The same, of the state: a thread posts,
LEMMA PostStep ==
    ASSUME Threaded(pipe, thr, t, e), Busy(pipe, c, e), UNCHANGED <<c, e>>, SameBatch(t, t'),
           NEW th \in Threads, thr[th].at # "wait",
           NEW r \in Posted, r.th = th, NEW x \in Thread, x.at = "wait",
           pipe' = Append(pipe, r), thr' = [thr EXCEPT ![th] = x],
           thr[th].at = "flush" => r.op = "TPORT_DRAIN",
           r.op = "CLOSE_TPORT" => r.then = "await" \/ t'.destroyed,
           t.destroyed => t'.destroyed,
           \/ r.then # "await" /\ t'.handed = t.handed
           \/ r.then = "await" /\ t'.handed = "soon" /\ \A o \in Threads : Creates(pipe, thr, o) => o = th
    PROVE  Threaded(pipe, thr, t, e)' /\ Busy(pipe, c, e)'
BY PostThreaded

\* or goes on,
LEMMA GoStep ==
    ASSUME Threaded(pipe, thr, t, e), Busy(pipe, c, e), UNCHANGED <<c, e, pipe>>, t'.destroyed = t.destroyed,
           NEW th \in Threads, thr[th].at # "wait", NEW x \in Thread, x.at # "await",
           thr' = [thr EXCEPT ![th] = x],
           t'.handed = t.handed \/ Creates(pipe, thr, th), Batches(t', thr', pipe, e)
    PROVE  Threaded(pipe, thr, t, e)' /\ Busy(pipe, c, e)'
<1>1. Threaded(pipe, thr', t', e)
  BY GoThreaded
<1> QED BY <1>1

\* and batches nothing.
LEMMA GoesStep ==
    ASSUME Threaded(pipe, thr, t, e), Busy(pipe, c, e), UNCHANGED <<c, e, pipe>>, t'.destroyed = t.destroyed,
           NEW th \in Threads, thr[th].at \notin {"wait", "flush"}, NEW x \in Thread, x.at # "await",
           thr' = [thr EXCEPT ![th] = x],
           t'.handed = t.handed \/ Creates(pipe, thr, th), SameBatch(t, t')
    PROVE  Threaded(pipe, thr, t, e)' /\ Busy(pipe, c, e)'
<1>1. Batches(t', thr', pipe, e)
  BY GoBatches
<1> QED BY <1>1, GoStep

\* exec, with a record whose thread does not wait for a drain it has to post.
LEMMA ExecStep ==
    ASSUME Threaded(pipe, thr, t, e), Busy(pipe, c, e), UNCHANGED <<c, e>>, SameBatch(t, t'),
           NEW th \in Threads, thr[th].at # "wait", NEW op \in Ops, NEW arg \in Arg(op),
           NEW then \in Ats \ {"wait"}, exec(th, op, arg, then), op = "CREATE_TPORT" => then = "await",
           op \in {"CREATE_TPORT", "TPORT_DRAIN", "CLOSE_TPORT"},
           thr[th].at = "flush" => op = "TPORT_DRAIN",
           op = "CLOSE_TPORT" => then = "await" \/ t'.destroyed,
           t.destroyed => t'.destroyed,
           \/ then # "await" /\ t'.handed = t.handed
           \/ then = "await" /\ t'.handed = "soon" /\ \A o \in Threads : Creates(pipe, thr, o) => o = th
    PROVE  Threaded(pipe, thr, t, e)' /\ Busy(pipe, c, e)'
<1> DEFINE r == [op |-> op, th |-> th, arg |-> arg, then |-> then]
           x == [thr[th] EXCEPT !.at = "wait"]
<1>1. r \in Posted /\ r.th = th /\ r.op = op /\ r.then = then
  BY DEF Posted, Arg
<1>2. x \in Thread /\ x.at = "wait"
  <2>1. thr[th] \in Thread
    BY DEF Threaded, Queue
  <2> QED BY <2>1 DEF Thread, Ats
<1>3. pipe' = Append(pipe, r) /\ thr' = [thr EXCEPT ![th] = x]
  BY DEF exec
<1> HIDE DEF r, x
<1> QED BY <1>1, <1>2, <1>3, PostStep


\* A call, by what it posts.
LEMMA CallThreaded ==
    ASSUME NEW rel, Kept(World, rel), Threaded(pipe, thr, t, e), Busy(pipe, c, e), NEW th \in Threads, Call(th)
    PROVE  Threaded(pipe, thr, t, e)' /\ Busy(pipe, c, e)'
<1>1. t = [f \in TF |-> t[f]] /\ TportOK(t)
  BY Parts
<1>2. Queue(pipe, thr) /\ Creator(pipe, thr, t.handed) /\ thr[th] \in Thread /\ thr \in [Threads -> Thread]
  BY DEF Threaded, Queue
<1>3. UNCHANGED <<c, e>>
  BY DEF Call, Alone, CreateTransport, SetStateListener, DestroyTransport, CreateListener, DestroyEvent,
     SendNow, SendTimer, SendSingle, Flush, SendRequest
<1>4. CASE CreateTransport(th)
  <2>1. /\ t'.handed = "soon" /\ t.handed = "no" /\ thr[th].at = "idle" /\ exec(th, "CREATE_TPORT", 0, "await")
        /\ \A f \in TF \ {"handed"} : t'[f] = t[f]
    BY <1>1, <1>4 DEF CreateTransport, TF
  <2>2. SameBatch(t, t') /\ t'.destroyed = t.destroyed
    BY <2>1 DEF SameBatch, BatchFields, TF
  <2>3. \A o \in Threads : Creates(pipe, thr, o) => o = th
    BY <1>2, <2>1 DEF Creator
  <2>4. 0 \in Arg("CREATE_TPORT") /\ "CREATE_TPORT" \in Ops /\ "await" \in Ats \ {"wait"}
    BY DEF Arg, Ops, Ats
  <2> QED BY <1>3, <2>1, <2>2, <2>3, <2>4, ExecStep
<1>5. CASE SetStateListener(th)
  <2>1. PICK b \in BOOLEAN : t' = [t EXCEPT !.listening = b, !.told = "none"]
    BY <1>5 DEF SetStateListener
  <2>2. \A f \in TF \ {"listening", "told"} : t'[f] = t[f]
    BY <1>1, <2>1 DEF TF
  <2>3. SameBatch(t, t') /\ t'.destroyed = t.destroyed /\ t'.handed = t.handed /\ UNCHANGED <<thr, pipe>>
    BY <1>5, <2>2 DEF SameBatch, BatchFields, TF, SetStateListener
  <2>4. Threaded(pipe, thr, t', e)
    BY <2>3, SameThreaded
  <2> QED BY <1>3, <2>3, <2>4
<1>6. CASE DestroyTransport(th)
  <2>1. thr[th].at = "idle" /\ exec(th, "TPORT_DRAIN", 0, "close") /\ UNCHANGED t
    BY <1>6 DEF DestroyTransport, Calls
  <2>2. SameBatch(t, t')
    BY <2>1 DEF SameBatch
  <2>3. 0 \in Arg("TPORT_DRAIN") /\ "TPORT_DRAIN" \in Ops /\ "close" \in Ats \ {"wait"}
    BY DEF Arg, Ops, Ats
  <2> QED BY <1>3, <2>1, <2>2, <2>3, ExecStep
<1>7. CASE \E l \in Listeners : CreateListener(th, l)
  <2>1. PICK l \in Listeners : CreateListener(th, l)
    BY <1>7
  <2> DEFINE r == [op |-> "SUBSCRIBE", th |-> th, arg |-> l, then |-> "idle"]
             x == [thr[th] EXCEPT !.at = "wait", !.l = l]
  <2>2. r \in Posted /\ r.th = th /\ r.op = "SUBSCRIBE" /\ r.then = "idle"
    BY DEF Posted, Arg, Ops, Ats
  <2>3. x \in Thread /\ x.at = "wait"
    BY <1>2 DEF Thread, Ats
  <2>4. thr[th].at = "idle" /\ pipe' = Append(pipe, r) /\ thr' = [thr EXCEPT ![th] = x]
    BY <1>2, <2>1 DEF CreateListener, Calls
  <2> HIDE DEF r, x
  <2>5. \A f \in TF \ {"ht"} : t'[f] = t[f]
    BY <1>1, <2>1 DEF CreateListener, TF
  <2>6. SameBatch(t, t') /\ t'.destroyed = t.destroyed /\ t'.handed = t.handed
    BY <2>5 DEF SameBatch, BatchFields, TF
  <2> QED BY <1>3, <2>2, <2>3, <2>4, <2>6, PostStep
<1>8. CASE \E l \in Listeners : DestroyEvent(th, l)
  <2>1. PICK l \in Listeners : DestroyEvent(th, l)
    BY <1>8
  <2> DEFINE r == [op |-> "UNSUBSCRIBE", th |-> th, arg |-> l, then |-> "remove"]
             x == [thr[th] EXCEPT !.at = "wait", !.l = l]
  <2>2. r \in Posted /\ r.th = th /\ r.op = "UNSUBSCRIBE" /\ r.then = "remove"
    BY DEF Posted, Arg, Ops, Ats
  <2>3. x \in Thread /\ x.at = "wait"
    BY <1>2 DEF Thread, Ats
  <2>4. thr[th].at = "idle" /\ pipe' = Append(pipe, r) /\ thr' = [thr EXCEPT ![th] = x] /\ UNCHANGED t
    BY <1>2, <2>1 DEF DestroyEvent, Calls
  <2> HIDE DEF r, x
  <2>5. SameBatch(t, t')
    BY <2>4 DEF SameBatch
  <2> QED BY <1>3, <2>2, <2>3, <2>4, <2>5, PostStep
<1>9. CASE SendNow(th)
  <2> DEFINE r == [op |-> "TPORT_SEND", th |-> th, arg |-> Message(th), then |-> "idle"]
             x == [thr[th] EXCEPT !.at = "wait", !.i = @ + 1]
  <2>1. r \in Posted /\ r.th = th /\ r.op = "TPORT_SEND" /\ r.then = "idle"
    BY <1>2, MessageOK DEF Posted, Arg, Ops, Ats
  <2>2. x \in Thread /\ x.at = "wait"
    <3> DEFINE j == thr[th].i + 1
    <3>1. j \in Nat /\ x = [thr[th] EXCEPT !.at = "wait", !.i = j]
      BY <1>2 DEF Thread
    <3> HIDE DEF j
    <3> QED BY <1>2, <3>1 DEF Thread, Ats
  <2>3. thr[th].at = "idle" /\ pipe' = Append(pipe, r) /\ thr' = [thr EXCEPT ![th] = x] /\ UNCHANGED t
    BY <1>2, <1>9 DEF SendNow, Calls
  <2> HIDE DEF r, x
  <2>4. SameBatch(t, t')
    BY <2>3 DEF SameBatch
  <2> QED BY <1>3, <2>1, <2>2, <2>3, <2>4, PostStep
<1>10. CASE Flush(th)
  <2> DEFINE x == [thr[th] EXCEPT !.at = "flush"]
  <2>1. x \in Thread /\ x.at = "flush"
    BY <1>2 DEF Thread, Ats
  <2>2. thr[th].at = "idle" /\ thr' = [thr EXCEPT ![th] = x] /\ UNCHANGED <<t, pipe>>
    BY <1>2, <1>10 DEF Flush, Calls, Goes
  <2> HIDE DEF x
  <2>3. SameBatch(t, t')
    BY <2>2 DEF SameBatch
  <2> QED BY <1>3, <2>1, <2>2, <2>3, GoesStep
<1>11. CASE SendRequest(th)
  <2>1. thr[th].at = "idle" /\ UNCHANGED t
    BY <1>11 DEF SendRequest, Calls
  <2>2. SameBatch(t, t')
    BY <2>1 DEF SameBatch
  <2>3. CASE Goes(th, "count")
    <3> DEFINE x == [thr[th] EXCEPT !.at = "count"]
    <3>1. x \in Thread /\ x.at = "count"
      BY <1>2 DEF Thread, Ats
    <3>2. thr' = [thr EXCEPT ![th] = x] /\ UNCHANGED pipe
      BY <1>2, <2>3 DEF Goes
    <3> HIDE DEF x
    <3> QED BY <1>3, <2>1, <2>2, <3>1, <3>2, GoesStep
  <2>4. CASE exec(th, "TPORT_DRAIN", 0, "count")
    <3>1. 0 \in Arg("TPORT_DRAIN") /\ "TPORT_DRAIN" \in Ops /\ "count" \in Ats \ {"wait"}
      BY DEF Arg, Ops, Ats
    <3> QED BY <1>3, <2>1, <2>2, <2>4, <3>1, ExecStep
  <2> QED BY <1>11, <2>3, <2>4 DEF SendRequest
<1>12. CASE SendTimer(th)
  <2> DEFINE n == Append(t.ctx[th], Message(th))
             x == [thr[th] EXCEPT !.i = @ + 1, !.at = IF Len(n) >= BatchSize THEN "flush" ELSE "idle"]
  <2>1. x \in Thread /\ x.at = (IF Len(n) >= BatchSize THEN "flush" ELSE "idle")
    <3> DEFINE at == IF Len(n) >= BatchSize THEN "flush" ELSE "idle"
               j  == thr[th].i + 1
    <3>1. at \in Ats /\ j \in Nat /\ x = [thr[th] EXCEPT !.i = j, !.at = at]
      BY <1>2 DEF Thread, Ats
    <3> HIDE DEF at, j, x
    <3>2. x \in Thread /\ x.at = at
      BY <1>2, <3>1 DEF Thread
    <3> QED BY <3>2 DEF at
  <2>2. t' = [t EXCEPT !.ctx[th] = n]
    BY <1>12 DEF SendTimer
  <2>3. t'.ctx = [t.ctx EXCEPT ![th] = n] /\ \A f \in TF \ {"ctx"} : t'[f] = t[f]
    BY <1>1, <2>2 DEF TF
  <2>4. t'.ctx[th] = n /\ \A o \in Threads \ {th} : t'.ctx[o] = t.ctx[o]
    BY <1>1, <2>3 DEF TportOK
  <2>5. thr[th].at = "idle" /\ thr' = [thr EXCEPT ![th] = x] /\ UNCHANGED pipe /\ t.mode = "timer"
    BY <1>2, <1>12, <2>4 DEF SendTimer, Calls
  <2>6. thr'[th] = x /\ \A o \in Threads \ {th} : thr'[o] = thr[o]
    BY <1>2, <2>5
  <2> HIDE DEF n, x
  <2>7. Batches(t', thr', pipe, e)
    <3>1. \A o \in Threads : Len(t'.ctx[o]) >= BatchSize =>
            thr'[o].at = "flush" \/ IF e.at = "drain" /\ o \notin e.todo THEN Another(pipe) ELSE Draining(pipe)
      BY <2>1, <2>4, <2>6 DEF Threaded, Batches
    <3>2. /\ t'.mode = "timer" /\ t'.sb_fill = t.sb_fill /\ t'.sb_pending = t.sb_pending
      BY <2>3, <2>5 DEF TF
    <3>3. t.sb_pending => (\E o \in Threads : thr'[o].at = "flush") \/ Draining(pipe)
      BY <2>5, <2>6 DEF Threaded, Batches
    <3> QED BY <3>1, <3>2, <3>3 DEF Threaded, Batches
  <2>8. t'.destroyed = t.destroyed /\ t'.handed = t.handed /\ x.at # "await"
    BY <2>1, <2>3 DEF TF
  <2> QED BY <1>3, <2>1, <2>5, <2>7, <2>8, GoStep
<1>13. CASE SendSingle(th)
  <2> DEFINE fill == Append(t.sb_fill, Message(th))
             do_drain == Len(fill) >= BatchSize /\ ~t.sb_pending
             x == [thr[th] EXCEPT !.i = @ + 1, !.at = IF do_drain THEN "flush" ELSE "idle"]
  <2>1. x \in Thread /\ x.at = (IF do_drain THEN "flush" ELSE "idle")
    <3> DEFINE at == IF do_drain THEN "flush" ELSE "idle"
               j  == thr[th].i + 1
    <3>1. at \in Ats /\ j \in Nat /\ x = [thr[th] EXCEPT !.i = j, !.at = at]
      BY <1>2 DEF Thread, Ats
    <3> HIDE DEF at, j, x
    <3>2. x \in Thread /\ x.at = at
      BY <1>2, <3>1 DEF Thread
    <3> QED BY <3>2 DEF at
  <2>2. t' = [t EXCEPT !.sb_fill = fill, !.sb_pending = @ \/ do_drain]
    BY <1>13 DEF SendSingle
  <2>3. /\ t'.sb_fill = fill /\ t'.sb_pending = (t.sb_pending \/ do_drain)
        /\ \A f \in TF \ {"sb_fill", "sb_pending"} : t'[f] = t[f]
    BY <1>1, <2>2 DEF TF
  <2>4. thr[th].at = "idle" /\ thr' = [thr EXCEPT ![th] = x] /\ UNCHANGED pipe
    BY <1>2, <1>13 DEF SendSingle, Calls
  <2>5. thr'[th] = x /\ \A o \in Threads \ {th} : thr'[o] = thr[o]
    BY <1>2, <2>4
  <2> HIDE DEF fill, x
  <2>6. Batches(t', thr', pipe, e)
    <3>1. t'.mode = t.mode /\ t'.ctx = t.ctx
      BY <2>3 DEF TF
    <3>2. \A o \in Threads : Len(t'.ctx[o]) >= BatchSize =>
            thr'[o].at = "flush" \/ IF e.at = "drain" /\ o \notin e.todo THEN Another(pipe) ELSE Draining(pipe)
      BY <2>4, <2>5, <3>1 DEF Threaded, Batches
    <3>3. Len(t'.sb_fill) >= BatchSize => t'.sb_pending
      BY <2>3 DEF do_drain
    <3>4. t'.sb_pending => (\E o \in Threads : thr'[o].at = "flush") \/ Draining(pipe)
      BY <2>1, <2>3, <2>4, <2>5 DEF Threaded, Batches
    <3> QED BY <3>1, <3>2, <3>3, <3>4 DEF Threaded, Batches
  <2>7. t'.destroyed = t.destroyed /\ t'.handed = t.handed /\ x.at # "await"
    BY <2>1, <2>3 DEF TF
  <2> QED BY <1>3, <2>1, <2>4, <2>6, <2>7, GoStep
<1> QED BY <1>4, <1>5, <1>6, <1>7, <1>8, <1>9, <1>10, <1>11, <1>12, <1>13 DEF Call


\* The rest of a call.
LEMMA ContinueThreaded ==
    ASSUME NEW rel, Kept(World, rel), Threaded(pipe, thr, t, e), Busy(pipe, c, e), NEW th \in Threads, Continue(th)
    PROVE  Threaded(pipe, thr, t, e)' /\ Busy(pipe, c, e)'
<1>1. t = [f \in TF |-> t[f]] /\ TportOK(t)
  BY Parts
<1>2. Queue(pipe, thr) /\ Creator(pipe, thr, t.handed) /\ thr[th] \in Thread /\ thr \in [Threads -> Thread]
  BY DEF Threaded, Queue
<1>3. UNCHANGED <<c, e>>
  BY DEF Continue, Alone, Created, CreateTimeout, Removed, flush_transport, ReadCount, Request, Requested, Close
<1>4. CASE Created(th)
  <2> DEFINE x == [thr[th] EXCEPT !.at = "idle"]
  <2>1. x \in Thread /\ x.at = "idle"
    BY <1>2 DEF Thread, Ats
  <2>2. thr[th].at = "await" /\ thr' = [thr EXCEPT ![th] = x] /\ UNCHANGED pipe
    BY <1>2, <1>4 DEF Created, Goes
  <2> HIDE DEF x
  <2>3. \A f \in TF \ {"handed", "x", "late"} : t'[f] = t[f]
    BY <1>1, <1>4 DEF Created, TF
  <2>4. SameBatch(t, t') /\ t'.destroyed = t.destroyed
    BY <2>3 DEF SameBatch, BatchFields, TF
  <2>5. Creates(pipe, thr, th)
    BY <2>2 DEF Creates
  <2> QED BY <1>3, <2>1, <2>2, <2>4, <2>5, GoesStep
<1>5. CASE CreateTimeout(th)
  <2>1. thr[th].at = "await" /\ exec(th, "CLOSE_TPORT", 0, "await") /\ UNCHANGED t
    BY <1>5 DEF CreateTimeout
  <2>2. SameBatch(t, t')
    BY <2>1 DEF SameBatch
  <2>3. t.handed = "soon" /\ \A o \in Threads : Creates(pipe, thr, o) => o = th
    BY <1>2, <2>1 DEF Creator, Creates
  <2>4. 0 \in Arg("CLOSE_TPORT") /\ "CLOSE_TPORT" \in Ops /\ "await" \in Ats \ {"wait"}
    BY DEF Arg, Ops, Ats
  <2> QED BY <1>3, <2>1, <2>2, <2>3, <2>4, ExecStep
<1>6. CASE Removed(th)
  <2> DEFINE x == [thr[th] EXCEPT !.at = "idle", !.l = NoListener]
  <2>1. x \in Thread /\ x.at = "idle"
    BY <1>2 DEF Thread, Ats
  <2>2. thr[th].at = "remove" /\ thr' = [thr EXCEPT ![th] = x] /\ UNCHANGED pipe
    BY <1>2, <1>6 DEF Removed
  <2> HIDE DEF x
  <2>3. \A f \in TF \ {"ht"} : t'[f] = t[f]
    BY <1>1, <1>6 DEF Removed, TF
  <2>4. SameBatch(t, t') /\ t'.destroyed = t.destroyed /\ t'.handed = t.handed
    BY <2>3 DEF SameBatch, BatchFields, TF
  <2> QED BY <1>3, <2>1, <2>2, <2>4, GoesStep
<1>7. CASE flush_transport(th)
  <2>1. thr[th].at = "flush" /\ exec(th, "TPORT_DRAIN", 0, "idle") /\ UNCHANGED t
    BY <1>7 DEF flush_transport
  <2>2. SameBatch(t, t')
    BY <2>1 DEF SameBatch
  <2>3. 0 \in Arg("TPORT_DRAIN") /\ "TPORT_DRAIN" \in Ops /\ "idle" \in Ats \ {"wait"}
    BY DEF Arg, Ops, Ats
  <2> QED BY <1>3, <2>1, <2>2, <2>3, ExecStep
<1>8. CASE ReadCount(th)
  <2> DEFINE x == [thr[th] EXCEPT !.at = "request", !.n = t.inbox_count]
  <2>1. x \in Thread /\ x.at = "request"
    BY <1>1, <1>2 DEF Thread, Ats, TportOK
  <2>2. thr[th].at = "count" /\ thr' = [thr EXCEPT ![th] = x] /\ UNCHANGED <<t, pipe>>
    BY <1>2, <1>8 DEF ReadCount
  <2> HIDE DEF x
  <2>3. SameBatch(t, t')
    BY <2>2 DEF SameBatch
  <2> QED BY <1>3, <2>1, <2>2, <2>3, GoesStep
<1>9. CASE Request(th)
  <2> DEFINE j == thr[th].i + 1
             r == [op |-> "TPORT_SEND", th |-> th, arg |-> Data(th, j, thr[th].n), then |-> "reply"]
             x == [thr[th] EXCEPT !.at = "wait", !.i = j]
  <2>1. j \in Nat /\ thr[th].n \in Nat
    BY <1>2 DEF Thread
  <2>2. thr[th].at = "request" /\ pipe' = Append(pipe, r) /\ thr' = [thr EXCEPT ![th] = x]
    BY <1>2, <1>9 DEF Request
  <2> HIDE DEF j
  <2>3. r \in Posted /\ r.th = th /\ r.op = "TPORT_SEND" /\ r.then = "reply"
    BY <2>1 DEF Posted, Arg, Ops, Ats, Data
  <2>4. x \in Thread /\ x.at = "wait"
    BY <1>2, <2>1 DEF Thread, Ats
  <2> HIDE DEF r, x
  <2>5. \A f \in TF \ {"inbox_count", "rpc_list"} : t'[f] = t[f]
    BY <1>1, <1>9 DEF Request, TF
  <2>6. SameBatch(t, t') /\ t'.destroyed = t.destroyed /\ t'.handed = t.handed
    BY <2>5 DEF SameBatch, BatchFields, TF
  <2> QED BY <1>3, <2>2, <2>3, <2>4, <2>6, PostStep
<1>10. CASE Requested(th)
  <2> DEFINE x == [thr[th] EXCEPT !.at = "idle"]
  <2>1. x \in Thread /\ x.at = "idle"
    BY <1>2 DEF Thread, Ats
  <2>2. thr[th].at = "reply" /\ thr' = [thr EXCEPT ![th] = x] /\ UNCHANGED pipe
    BY <1>2, <1>10 DEF Requested, Goes
  <2> HIDE DEF x
  <2>3. t' = [t EXCEPT !.rpc_list = RemoveFirstMatch(@, LAMBDA r : r.th = th)]
    BY <1>10 DEF Requested
  <2>4. \A f \in TF \ {"rpc_list"} : t'[f] = t[f]
    BY <1>1, <2>3 DEF TF
  <2>5. SameBatch(t, t') /\ t'.destroyed = t.destroyed /\ t'.handed = t.handed
    BY <2>4 DEF SameBatch, BatchFields, TF
  <2> QED BY <1>3, <2>1, <2>2, <2>5, GoesStep
<1>11. CASE Close(th)
  <2>1. /\ thr[th].at = "close" /\ exec(th, "CLOSE_TPORT", 0, "idle") /\ t'.destroyed
        /\ \A f \in TF \ {"destroyed"} : t'[f] = t[f]
    BY <1>1, <1>11 DEF Close, TF
  <2>2. SameBatch(t, t') /\ t'.handed = t.handed
    BY <2>1 DEF SameBatch, BatchFields, TF
  <2>3. 0 \in Arg("CLOSE_TPORT") /\ "CLOSE_TPORT" \in Ops /\ "idle" \in Ats \ {"wait"}
    BY DEF Arg, Ops, Ats
  <2> QED BY <1>3, <2>1, <2>2, <2>3, ExecStep
<1> QED BY <1>4, <1>5, <1>6, <1>7, <1>8, <1>9, <1>10, <1>11 DEF Continue

\* Done(r), of the state.
LEMMA DoneStep ==
    ASSUME Queue(pipe, thr), pipe # << >>, Done(Head(pipe))
    PROVE  \E x \in Thread : x.at = Head(pipe).then /\ thr' = [thr EXCEPT ![Head(pipe).th] = x] /\ pipe' = Tail(pipe)
<1> DEFINE r == Head(pipe)
           l == IF r.then = "remove" THEN thr[r.th].l ELSE NoListener
           x == [thr[r.th] EXCEPT !.at = r.then, !.l = l]
<1>1. r \in Posted
  BY DEF Queue
<1>2. thr' = [thr EXCEPT ![r.th].at = r.then, ![r.th].l = l] /\ pipe' = Tail(pipe)
  BY DEF Done
<1> HIDE DEF r
<1>3. r.th \in Threads /\ r.then \in Ats /\ thr \in [Threads -> Thread] /\ thr[r.th] \in Thread
  BY <1>1 DEF Posted, Queue
<1>4. l \in Listeners \union {NoListener}
  BY <1>3 DEF Thread
<1>5. thr' = [thr EXCEPT ![r.th] = x]
  BY <1>2, <1>3
<1> HIDE DEF l
<1>6. x \in Thread /\ x.at = r.then
  BY <1>3, <1>4 DEF Thread
<1> HIDE DEF x
<1> QED BY <1>2, <1>5, <1>6 DEF r

\* The event thread has run the first record.  Another drain behind it is still
\* on its way.
LEMMA DoneThreaded ==
    ASSUME Threaded(pipe, thr, t, e), pipe # << >>, Done(Head(pipe)),
           t'.handed = t.handed, t'.destroyed = t.destroyed
    PROVE  /\ Queue(pipe', thr') /\ Creator(pipe', thr', t'.handed) /\ Closes(pipe', t'.destroyed)
           /\ Draining(pipe) /\ Head(pipe).op # "TPORT_DRAIN" => Draining(pipe')
           /\ Another(pipe) => Draining(pipe')
           /\ \A o \in Threads : thr[o].at = "flush" => thr'[o].at = "flush"
<1>1. Queue(pipe, thr)
  BY DEF Threaded
<1>2. PICK x \in Thread : /\ x.at = Head(pipe).then /\ thr' = [thr EXCEPT ![Head(pipe).th] = x]
                          /\ pipe' = Tail(pipe)
  BY <1>1, DoneStep
<1>3. Shrunk(pipe, thr, pipe', thr')
  BY <1>1, <1>2, Dones
<1>4. Creator(pipe', thr', t'.handed)
  BY <1>3 DEF Threaded, Creator, Shrunk
<1>5. Closes(pipe', t'.destroyed)
  BY <1>3 DEF Threaded, Shrunk
<1>6. \A o \in Threads : thr[o].at = "flush" => thr'[o] = thr[o]
  <2>1. Head(pipe).th \in Threads /\ thr[Head(pipe).th].at = "wait" /\ thr \in [Threads -> Thread]
    BY <1>1, <1>3 DEF Shrunk, Posted, Queue
  <2> QED BY <1>2, <2>1
<1> QED BY <1>3, <1>4, <1>5, <1>6 DEF Shrunk

\* A record that is no drain is run.
LEMMA RunPipeThreaded ==
    ASSUME Kept(World, FALSE), Asked(d, c), Threaded(pipe, thr, t, e), Busy(pipe, c, e), RunPipe
    PROVE  Threaded(pipe, thr, t, e)' /\ Busy(pipe, c, e)'
<1>1. Queue(pipe, thr) /\ Creator(pipe, thr, t.handed) /\ Closes(pipe, t.destroyed)
  BY DEF Threaded
<1>2. /\ pipe # << >> /\ Head(pipe).op # "TPORT_DRAIN" /\ Done(Head(pipe)) /\ UNCHANGED e
      /\ e.at = "idle" /\ e.todo = {}
  BY DEF RunPipe, At
<1>3. \A f \in TF \ {"armed"} : t'[f] = t[f]
  BY <1>1, RunPipeKept
<1>4. /\ t'.handed = t.handed /\ t'.destroyed = t.destroyed /\ t'.mode = t.mode /\ t'.ctx = t.ctx
      /\ t'.sb_fill = t.sb_fill /\ t'.sb_pending = t.sb_pending
  BY <1>3 DEF TF
<1>6. /\ Queue(pipe', thr') /\ Creator(pipe', thr', t'.handed) /\ Closes(pipe', t'.destroyed)
      /\ Draining(pipe) => Draining(pipe')
      /\ \A o \in Threads : thr[o].at = "flush" => thr'[o].at = "flush"
  BY <1>2, <1>4, DoneThreaded
<1>7. Batches(t', thr', pipe', e')
  BY <1>2, <1>4, <1>6 DEF Threaded, Batches
<1>8. Busy(pipe', c', e')
  BY <1>2 DEF Busy
<1> QED BY <1>6, <1>7, <1>8 DEF Threaded

\* What is full has a length.
LEMMA EmptyNotFull == ~(Len(<< >>) >= BatchSize)
BY TransportAssumption

\* A drain begins: at the writers if there are any.
LEMMA StartDrainThreaded ==
    ASSUME NEW rel, Kept(World, rel), Threaded(pipe, thr, t, e), Busy(pipe, c, e), StartDrain
    PROVE  Threaded(pipe, thr, t, e)' /\ Busy(pipe, c, e)'
<1> DEFINE todo == IF t.mode = "timer" THEN Threads ELSE {}
<1>1. /\ UNCHANGED <<c, t, thr, pipe>> /\ e.at = "idle"
      /\ \/ pipe # << >> /\ Head(pipe).op = "TPORT_DRAIN" /\ e' = [at |-> "drain", todo |-> todo]
         \/ e' = [at |-> "batch", todo |-> todo]
  BY DEF StartDrain, At, Enter
<1>2. pipe # << >> => Head(pipe) = pipe[1]
  BY DEF Threaded, Queue
<1>3. Busy(pipe, c, e')
  BY <1>1, <1>2 DEF Busy
<1>4. Batches(t, thr, pipe, e')
  <2>1. ASSUME NEW th \in Threads, Len(t.ctx[th]) >= BatchSize
        PROVE  th \in e'.todo /\ (thr[th].at = "flush" \/ Draining(pipe))
    <3>1. t.mode = "timer"
      BY <2>1, EmptyNotFull DEF Threaded, Batches
    <3>2. th \in e'.todo
      BY <1>1, <3>1
    <3> QED BY <1>1, <2>1, <3>2 DEF Threaded, Batches
  <2> QED BY <2>1 DEF Threaded, Batches
<1> QED BY <1>1, <1>3, <1>4 DEF Threaded

\* The drain comes by a writer,
LEMMA DrainWriterThreaded ==
    ASSUME Kept(World, FALSE), Threaded(pipe, thr, t, e), Busy(pipe, c, e), NEW th \in Threads, DrainWriter(th)
    PROVE  Threaded(pipe, thr, t, e)' /\ Busy(pipe, c, e)'
<1> DEFINE w == World
           u == drain_writer(w, th)
<1>1. /\ w.c = c /\ w.t = t /\ Kept(w, FALSE) /\ Becomes(u) /\ th \in e.todo /\ UNCHANGED <<thr, pipe>>
      /\ e' = [at |-> e.at, todo |-> e.todo \ {th}]
  BY DEF World, DrainWriter, Enter
<1> HIDE DEF w
<1>2. u.t.ctx = [w.t.ctx EXCEPT ![th] = << >>] /\ \A f \in TF \ {"ctx"} : u.t[f] = w.t[f]
  BY <1>1, DrainWriterKept
<1> HIDE DEF u
<1>3. /\ t'.handed = t.handed /\ t'.destroyed = t.destroyed /\ t'.mode = t.mode
      /\ t'.sb_fill = t.sb_fill /\ t'.sb_pending = t.sb_pending /\ t'.ctx = [t.ctx EXCEPT ![th] = << >>]
  BY <1>1, <1>2 DEF TF, Becomes
<1>4. t'.ctx[th] = << >> /\ \A o \in Threads \ {th} : t'.ctx[o] = t.ctx[o]
  BY <1>3, Parts DEF TportOK
<1>5. e'.at = e.at /\ e'.todo = e.todo \ {th}
  BY <1>1
<1>6. Batches(t', thr, pipe, e')
  <2>1. ASSUME NEW o \in Threads, Len(t'.ctx[o]) >= BatchSize
        PROVE  thr[o].at = "flush" \/ IF e'.at = "drain" /\ o \notin e'.todo THEN Another(pipe) ELSE Draining(pipe)
    <3>1. o # th
      BY <1>4, <2>1, EmptyNotFull
    <3>2. t'.ctx[o] = t.ctx[o] /\ (o \in e'.todo <=> o \in e.todo)
      BY <1>4, <1>5, <3>1
    <3> QED BY <1>5, <2>1, <3>2 DEF Threaded, Batches
  <2>2. t'.mode # "timer" => \A o \in Threads : t'.ctx[o] = << >>
    BY <1>3, <1>4 DEF Threaded, Batches
  <2> QED BY <1>3, <2>1, <2>2 DEF Threaded, Batches
<1>7. Busy(pipe, c', e')
  BY <1>1, <1>5 DEF Busy
<1> QED BY <1>1, <1>3, <1>6, <1>7 DEF Threaded

\* and by the common buffer at the end.
LEMMA DrainFillThreaded ==
    ASSUME Kept(World, FALSE), Threaded(pipe, thr, t, e), Busy(pipe, c, e), DrainFill
    PROVE  Threaded(pipe, thr, t, e)' /\ Busy(pipe, c, e)'
<1> DEFINE w == World
           u == drain_fill(w)
<1>1. /\ w.c = c /\ w.t = t /\ Kept(w, FALSE) /\ Becomes(u) /\ e' = [at |-> "idle", todo |-> {}]
      /\ e = [at |-> "drain", todo |-> {}] \/ e = [at |-> "batch", todo |-> {}]
      /\ IF e = [at |-> "drain", todo |-> {}] THEN Done(Head(pipe)) ELSE UNCHANGED <<thr, pipe>>
  BY DEF World, DrainFill, Enter, At
<1> HIDE DEF w
<1>2. u.t.sb_fill = << >> /\ u.t.sb_pending = FALSE /\ \A f \in TF \ {"sb_fill", "sb_pending"} : u.t[f] = w.t[f]
  BY <1>1, DrainFillKept
<1> HIDE DEF u
<1>3. /\ t'.handed = t.handed /\ t'.destroyed = t.destroyed /\ t'.mode = t.mode /\ t'.ctx = t.ctx
      /\ t'.sb_fill = << >> /\ t'.sb_pending = FALSE
  BY <1>1, <1>2 DEF TF, Becomes
<1>4. Busy(pipe', c', e')
  BY <1>1 DEF Busy
<1>5. ~(Len(t'.sb_fill) >= BatchSize)
  BY <1>3, EmptyNotFull
<1>6. CASE e.at = "drain"
  <2>1. Queue(pipe, thr) /\ pipe # << >> /\ Done(Head(pipe)) /\ e.todo = {}
    BY <1>1, <1>6 DEF Busy, Threaded
  <2>3. /\ Queue(pipe', thr') /\ Creator(pipe', thr', t'.handed) /\ Closes(pipe', t'.destroyed)
        /\ Another(pipe) => Draining(pipe')
        /\ \A o \in Threads : thr[o].at = "flush" => thr'[o].at = "flush"
    BY <1>3, <2>1, DoneThreaded
  <2>4. \A o \in Threads : Len(t'.ctx[o]) >= BatchSize => thr'[o].at = "flush" \/ Draining(pipe')
    BY <1>3, <1>6, <2>1, <2>3 DEF Threaded, Batches
  <2>5. Batches(t', thr', pipe', e')
    BY <1>1, <1>3, <1>5, <2>4 DEF Threaded, Batches
  <2> QED BY <1>4, <2>3, <2>5 DEF Threaded
<1>7. CASE e.at # "drain"
  <2>1. UNCHANGED <<thr, pipe>> /\ e'.at = "idle"
    BY <1>1, <1>7
  <2>2. Batches(t', thr, pipe, e')
    BY <1>3, <1>5, <1>7, <2>1 DEF Threaded, Batches
  <2> QED BY <1>3, <1>4, <2>1, <2>2 DEF Threaded
<1> QED BY <1>6, <1>7


-----------------------------------------------------------------------------
(* The inductive invariant, and what follows from it.                      *)

\* The world is kept, the threads and the pipe are, the event thread is where
\* it can be, and the daemon was asked what a connection that is up asked.
Inv ==
    /\ Kept(World, e.at = "release") /\ Threaded(pipe, thr, t, e)
    /\ Busy(pipe, c, e) /\ Asked(d, c)

\* Nothing has happened yet.
LEMMA InitInv == Init => Inv
<1> SUFFICES ASSUME Init PROVE Inv
  OBVIOUS
<1>1. << >> \in Seq(Payload) /\ << >> \in Seq(Answer) /\ << >> \in Seq(Posted) /\ Len(<< >>) = 0 /\ DOMAIN << >> = {}
  OBVIOUS
<1>2. ClientOK(c) /\ c = [f \in CF |-> c[f]] /\ c.st = "closed" /\ c.closing = FALSE
  BY <1>1 DEF Init, ClientOK, CF, States
<1>3. /\ t = [f \in TF |-> t[f]] /\ t.told = "none" /\ t.listening = FALSE /\ t.handed = "no" /\ t.destroyed = FALSE
      /\ t.ctx = [th \in Threads |-> << >>] /\ t.sb_fill = << >> /\ t.sb_pending = FALSE
  <2>1. PICK m \in Modes :
          t = [mode |-> m, ht |-> {}, destroyed |-> FALSE, x |-> FALSE, armed |-> FALSE, ticks |-> 0,
               listening |-> FALSE, told |-> "none", misled |-> FALSE, handed |-> "no", late |-> FALSE,
               rpc_list |-> << >>, inbox_count |-> 1,
               ctx |-> [th \in Threads |-> << >>], sb_fill |-> << >>, sb_pending |-> FALSE]
    BY DEF Init
  <2>2. t = [f \in TF |-> t[f]]
    BY <2>1 DEF TF
  <2> QED BY <2>1, <2>2
<1>4. TportOK(t)
  <2>1. 0 \in 0..(MaxTicks - 1) /\ [th \in Threads |-> << >>] \in [Threads -> Seq(Payload)]
    BY <1>1, TransportAssumption
  <2> QED BY <1>1, <2>1 DEF Init, TportOK
<1>5. net = [f \in NF |-> net[f]] /\ net.alive = FALSE /\ net.up = << >> /\ net.down = << >>
  BY DEF Init, NoNet, NF
<1>6. Kept(World, FALSE)
  <2>1. World.c = c /\ World.t = t /\ World.net = net /\ World = [f \in {"c", "t", "net"} |-> World[f]]
    BY DEF World
  <2>2. Stage(c.st, net.up, net.down)
    BY <1>1, <1>2, <1>5 DEF Stage
  <2>3. Sound(World)
    BY <1>2, <1>3, <1>4, <1>5, <2>1, <2>2 DEF Sound, Shape
  <2>4. Told(World, FALSE)
    BY <1>3, <2>1 DEF Told
  <2> QED BY <2>3, <2>4 DEF Kept
<1>7. e.at = "idle" /\ e = [at |-> "idle", todo |-> {}] /\ pipe = << >> /\ thr = [th \in Threads |-> NoThread]
  BY DEF Init
<1>8. Queue(pipe, thr)
  <2>1. NoThread \in Thread
    BY DEF NoThread, Thread, Ats
  <2> QED BY <1>1, <1>7, <2>1 DEF Queue
<1>9. Creator(pipe, thr, t.handed) /\ Closes(pipe, t.destroyed)
  BY <1>1, <1>7 DEF Creator, Creates, Closes, NoThread
<1>10. Batches(t, thr, pipe, e)
  BY <1>3, <1>7, EmptyNotFull DEF Batches
<1>11. Busy(pipe, c, e)
  BY <1>7 DEF Busy
<1>12. Asked(d, c)
  BY DEF Init, Asked
<1> QED BY <1>6, <1>7, <1>8, <1>9, <1>10, <1>11, <1>12 DEF Inv, Threaded

\* A thread leaves alone what the daemon was asked.
LEMMA ThreadKept ==
    ASSUME Inv, NEW th \in Threads, Call(th) \/ Continue(th) PROVE Inv'
<1>1. /\ Kept(World, e.at = "release") /\ Threaded(pipe, thr, t, e) /\ Busy(pipe, c, e) /\ Asked(d, c)
      /\ Queue(pipe, thr) /\ Creator(pipe, thr, t.handed)
  BY DEF Inv, Threaded
<1>2. UNCHANGED <<c, d, e>>
  BY DEF Call, Alone, CreateTransport, SetStateListener, DestroyTransport, CreateListener, DestroyEvent,
     SendNow, SendTimer, SendSingle, Flush, SendRequest,
     Continue, Created, CreateTimeout, Removed, flush_transport, ReadCount, Request, Requested, Close
<1>3. Threaded(pipe, thr, t, e)' /\ Busy(pipe, c, e)'
  BY <1>1, CallThreaded, ContinueThreaded
<1>4. Kept(World', e.at = "release")
  BY <1>1, CallWorld, ContinueWorld
<1> QED BY <1>1, <1>2, <1>3, <1>4 DEF Inv

\* The event thread,
LEMMA EventInv == ASSUME Inv, Event PROVE Inv'
<1>1. Kept(World, e.at = "release") /\ Threaded(pipe, thr, t, e) /\ Busy(pipe, c, e) /\ Asked(d, c)
  BY DEF Inv
<1>2. Queue(pipe, thr) /\ Creator(pipe, thr, t.handed) /\ Closes(pipe, t.destroyed)
  BY <1>1 DEF Threaded
<1>3. ASSUME e.at # "release" PROVE Kept(World, FALSE)
  <2>1. (e.at = "release") = FALSE
    BY <1>3
  <2> QED BY <1>1, <2>1
<1>4. ASSUME Kept(World', FALSE), e'.at # "release" PROVE Kept(World', e'.at = "release")
  <2>1. (e'.at = "release") = FALSE
    BY <1>4
  <2> QED BY <1>4, <2>1
<1>5. CASE RunPipe
  <2>1. e.at = "idle" /\ UNCHANGED e
    BY <1>5 DEF RunPipe, At
  <2>2. Kept(World', FALSE) /\ Asked(d, c)'
    BY <1>1, <1>2, <1>3, <1>5, <2>1, RunPipeKept
  <2>3. Threaded(pipe, thr, t, e)' /\ Busy(pipe, c, e)'
    BY <1>1, <1>3, <1>5, <2>1, RunPipeThreaded
  <2> QED BY <1>4, <2>1, <2>2, <2>3 DEF Inv
<1>6. CASE StartDrain
  <2>1. e.at = "idle" /\ e'.at # "release" /\ UNCHANGED <<c, t, net, d>>
    BY <1>6 DEF StartDrain, At, Enter
  <2>2. Kept(World', FALSE) /\ Asked(d, c)'
    BY <1>1, <1>3, <2>1 DEF World
  <2>3. Threaded(pipe, thr, t, e)' /\ Busy(pipe, c, e)'
    BY <1>1, <1>6, StartDrainThreaded
  <2> QED BY <1>4, <2>1, <2>2, <2>3 DEF Inv
<1>7. CASE DrainFill \/ \E th \in Threads : DrainWriter(th)
  <2>1. e.at # "release" /\ e'.at # "release"
    <3>1. CASE DrainFill
      BY <3>1 DEF DrainFill, At, Enter
    <3>2. CASE \E th \in Threads : DrainWriter(th)
      BY <1>1, <3>2 DEF DrainWriter, Enter, Busy
    <3> QED BY <1>7, <3>1, <3>2
  <2>2. Kept(World', FALSE) /\ Asked(d, c)'
    BY <1>1, <1>3, <1>7, <2>1, DrainWorld
  <2>3. Threaded(pipe, thr, t, e)' /\ Busy(pipe, c, e)'
    BY <1>1, <1>3, <1>7, <2>1, DrainFillThreaded, DrainWriterThreaded
  <2> QED BY <1>4, <2>1, <2>2, <2>3 DEF Inv
<1>8. CASE ClientRead \/ ReconnectTimer
  <2>1. e.at = "idle" /\ UNCHANGED <<e, thr, pipe>>
    BY <1>8 DEF ClientRead, ReconnectTimer, At
  <2>2. Kept(World', FALSE) /\ Asked(d, c)' /\ \A f \in Quietly \ {"ticks"} : t'[f] = t[f]
    BY <1>1, <1>3, <1>8, <2>1, EventKept
  <2>3. SameBatch(t, t') /\ t'.handed = t.handed /\ t'.destroyed = t.destroyed
    BY <2>2 DEF SameBatch, BatchFields, Quietly, TF
  <2>4. Threaded(pipe, thr, t', e)
    BY <1>1, <2>3, SameThreaded
  <2>5. Busy(pipe, c, e)'
    BY <1>1, <2>1 DEF Busy
  <2> QED BY <1>4, <2>1, <2>2, <2>4, <2>5 DEF Inv
<1>9. CASE Shutdown
  <2>1. e.at = "idle" /\ c.closing /\ e' = [at |-> "release", todo |-> {}] /\ UNCHANGED <<thr, pipe>>
    BY <1>9 DEF Shutdown, At, Enter
  <2>2. /\ Kept(World', TRUE) /\ UNCHANGED c /\ Asked(d, c)'
        /\ \A f \in TF \ {"armed", "ticks", "told", "misled"} : t'[f] = t[f]
    BY <1>1, <1>3, <1>9, <2>1, ShutdownWorld
  <2>3. SameBatch(t, t') /\ t'.handed = t.handed /\ t'.destroyed = t.destroyed
    BY <2>2 DEF SameBatch, BatchFields, TF
  <2>4. Threaded(pipe, thr, t', e')
    BY <1>1, <2>1, <2>3, SameThreaded
  <2>5. Busy(pipe, c, e)'
    BY <1>1, <2>1, <2>2 DEF Busy
  <2>6. (e'.at = "release") = TRUE
    BY <2>1
  <2>7. Kept(World', e'.at = "release")
    BY <2>2, <2>6
  <2> QED BY <2>1, <2>2, <2>4, <2>5, <2>7 DEF Inv
<1>10. CASE Release
  <2>1. e.at = "release" /\ e' = [at |-> "idle", todo |-> {}] /\ UNCHANGED <<t, thr, pipe>>
    BY <1>10 DEF Release, At, Enter
  <2>2. Kept(World, TRUE)
    <3>1. (e.at = "release") = TRUE
      BY <2>1
    <3> QED BY <1>1, <3>1
  <2>3. Kept(World', FALSE) /\ Asked(d, c)'
    BY <1>1, <1>10, <2>2, ReleaseKept
  <2>4. Threaded(pipe, thr, t, e')
    BY <1>1, <2>1, SameThreaded DEF SameBatch
  <2>5. Busy(pipe, c, e)'
    BY <1>1, <2>1 DEF Busy
  <2> QED BY <1>4, <2>1, <2>3, <2>4, <2>5 DEF Inv
<1> QED BY <1>5, <1>6, <1>7, <1>8, <1>9, <1>10 DEF Event

\* the daemon and the network.
LEMMA OthersInv == ASSUME Inv, DaemonRead \/ Respond \/ Drop \/ Stall \/ Garble PROVE Inv'
<1>1. Kept(World, e.at = "release") /\ Threaded(pipe, thr, t, e) /\ Busy(pipe, c, e) /\ Asked(d, c)
  BY DEF Inv
<1>2. UNCHANGED <<t, thr, pipe, e>>
  BY DEF DaemonRead, Respond, Drop, Stall, Garble
<1>3. DaemonRead \/ Respond => UNCHANGED c
  BY DEF DaemonRead, Respond
<1>4. Kept(World', e.at = "release") /\ Asked(d, c)' /\ (c.closing => c'.closing)
  BY <1>1, <1>3, DaemonReadKept, RespondKept, FaultKept
<1>5. Busy(pipe, c, e)'
  BY <1>1, <1>2, <1>4 DEF Busy
<1> QED BY <1>1, <1>2, <1>4, <1>5 DEF Inv

\* Every step keeps the invariant.
LEMMA NextInv == Inv /\ [Next]_vars => Inv'
<1> SUFFICES ASSUME Inv, [Next]_vars PROVE Inv'
  OBVIOUS
<1>1. CASE UNCHANGED vars
  BY <1>1 DEF Inv, vars, World
<1>2. CASE Next
  BY <1>2, ThreadKept, EventInv, OthersInv DEF Next
<1> QED BY <1>1, <1>2

\* So it holds of every state that is reached.
LEMMA AlwaysInv == Spec => []Inv
BY InitInv, NextInv, PTL DEF Spec

\* The client never closes a connection it does not have, the state it tells and
\* the ticks of the timer stay what they can be, and the event thread resets a
\* client only if it was closing: whatever the threads call, and when.
THEOREM TransportTyped == Spec => []TypeOK
<1>1. Inv => TypeOK
  BY DEF Inv, Kept, Sound, World, ClientOK, TportOK, Busy, TypeOK
<1> QED BY <1>1, AlwaysInv, PTL

\* A batch that is full is about to be drained: the flag sb_pending is never left
\* set with no drain on its way, and no thread's batch is full and forgotten.
THEOREM NoBatchStranded == Spec => []NoneStranded
<1>1. Inv => NoneStranded
  <2> SUFFICES ASSUME Inv PROVE NoneStranded
    OBVIOUS
  <2>1. Batches(t, thr, pipe, e)
    BY DEF Inv, Threaded
  <2>2. Another(pipe) => Draining(pipe)
    BY DEF Another, Draining
  <2> QED BY <2>1, <2>2 DEF Batches, Draining, NoneStranded
<1> QED BY <1>1, AlwaysInv, PTL

\* The state listener of a transport in use was last told what the connection is:
\* on_connect and on_shutdown miss no change, but for the one of process().
THEOREM StateListenerTold == Spec => []StateTold
<1>1. Inv => StateTold
  <2> SUFFICES ASSUME Inv, e.at # "release", ~t.destroyed, t.told # "none", ~t.misled
               PROVE  t.told = "up" <=> c.st = "data"
    BY DEF StateTold
  <2>1. (e.at = "release") = FALSE
    OBVIOUS
  <2>2. Kept(World, FALSE)
    BY <2>1 DEF Inv
  <2>3. World.c = c /\ World.t = t
    BY DEF World
  <2> QED BY <2>2, <2>3 DEF Kept, Told
<1> QED BY <1>1, AlwaysInv, PTL

=============================================================================
