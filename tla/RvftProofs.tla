----------------------------- MODULE RvftProofs -----------------------------
(***************************************************************************)
(* The timers of a member of a group of the tibrv API (RvftMember and      *)
(* RvftGroup): with one dispatcher of its queue, a member that is not in a *)
(* callback has one timer, whatever the group, the weights, the intervals  *)
(* and the faults.                                                         *)
(***************************************************************************)
EXTENDS RvftGroup, FiniteSetTheorems, TLAPS

Fields == {"id", "destroyed", "list", "peer", "tm", "age", "prepared", "told", "cont", "out"}

\* What the proofs need to know of the type of a member.
Shape(m) ==
    /\ m = [f \in Fields |-> m[f]]
    /\ m.tm \in [Timer -> Nat \union {Off}]
    /\ m.cont \in [Dispatchers -> Then]

None(tm) == \A k \in Timer : tm[k] = Off
One(tm)  == \E k \in Timer : tm[k] # Off /\ \A j \in Timer \ {k} : tm[j] = Off

\* Where a handler is cut by ACTIVATE or PREPARE no timer runs; elsewhere one.
Timed(m, x) ==
    /\ Shape(m)
    /\ ~m.destroyed => IF m.cont[x] \in {"none", "deactivate"} THEN One(m.tm) ELSE None(m.tm)

\* u differs from m in what has nothing to do with timers and callbacks.
Same(m, u) ==
    /\ Shape(u) /\ u.tm = m.tm /\ u.cont = m.cont /\ u.destroyed = m.destroyed /\ u.id = m.id

-----------------------------------------------------------------------------

\* publish changes out.
LEMMA PublishSame == ASSUME NEW m, Shape(m), NEW k, NEW to PROVE Same(m, publish(m, k, to))
BY DEF publish, Same, Shape, Fields

\* sort changes list.
LEMMA SortSame == ASSUME NEW m, Shape(m) PROVE Same(m, sort(m))
<1>1. PICK l : sort(m) = [m EXCEPT !.list = l]
  BY DEF sort
<1> QED BY <1>1 DEF Same, Shape, Fields

\* update_time changes peer and list.
LEMMA UpdateTimeSame == ASSUME NEW m, Shape(m) PROVE Same(m, update_time(m))
<1>1. PICK p : LET u == [m EXCEPT !.peer = p] IN update_time(m) \in {u, sort(u)}
  BY DEF update_time
<1> DEFINE u == [m EXCEPT !.peer = p]
<1>2. Same(m, u)
  BY DEF Same, Shape, Fields
<1>3. Same(u, sort(u))
  BY <1>2, SortSame DEF Same
<1> QED BY <1>1, <1>2, <1>3 DEF Same

\* Seen and Known change peer and list.
LEMMA SeenSame == ASSUME NEW m, Shape(m), NEW n, NEW k, NEW ns PROVE Same(m, Seen(m, n, k, ns))
<1>1. PICK p, l : Seen(m, n, k, ns) = [[m EXCEPT !.peer = p] EXCEPT !.list = l]
  BY DEF Seen
<1> QED BY <1>1 DEF Same, Shape, Fields

\* Known adds a peer, or changes one.
LEMMA KnownSame == ASSUME NEW m, Shape(m), NEW c PROVE Same(m, Known(m, c))
<1>1. PICK p, l : Known(m, c) = [[m EXCEPT !.peer = p] EXCEPT !.list = l]
  BY DEF Known
<1> QED BY <1>1 DEF Same, Shape, Fields

\* So do the assignments of the handlers to what they know of a peer.
LEMMA AskedSame ==
    ASSUME NEW m, Shape(m), NEW h
    PROVE  Same(m, [m EXCEPT !.peer[h].sync = 0, !.peer[h].last_sync = 0])
BY DEF Same, Shape, Fields

\* The stamps, flags and weights of peers have nothing to do with timers.
LEMMA SeenNowSame == ASSUME NEW m, Shape(m), NEW h PROVE Same(m, [m EXCEPT !.peer[h].seen = 0])
BY DEF Same, Shape, Fields

\* That a peer runs.
LEMMA RunningSame ==
    ASSUME NEW m, Shape(m), NEW h, NEW b PROVE Same(m, [m EXCEPT !.peer[h].running = b])
BY DEF Same, Shape, Fields

\* That a peer was seen, and runs.
LEMMA SeenRunningSame ==
    ASSUME NEW m, Shape(m), NEW h
    PROVE  Same(m, [m EXCEPT !.peer[h].seen = 0, !.peer[h].running = TRUE])
BY DEF Same, Shape, Fields

\* The weight of a peer.
LEMMA WeightSame ==
    ASSUME NEW m, Shape(m), NEW h, NEW w PROVE Same(m, [m EXCEPT !.peer[h].weight = w])
BY DEF Same, Shape, Fields

\* That a peer has stopped.
LEMMA StoppedSame ==
    ASSUME NEW m, Shape(m), NEW h PROVE Same(m, [m EXCEPT !.peer[h] = Stopped(@)])
BY DEF Same, Shape, Fields

\* The stamp of PREPARE.
LEMMA PreparedSame == ASSUME NEW m, Shape(m) PROVE Same(m, [m EXCEPT !.prepared = 0])
BY DEF Same, Shape, Fields

\* What was published is taken away.
LEMMA SentSame == ASSUME NEW m, Shape(m) PROVE Same(m, [m EXCEPT !.out = << >>])
BY DEF Same, Shape, Fields

\* Being the same is kept along a chain of calls.
LEMMA SameTrans == ASSUME NEW m, NEW u, NEW v, Same(m, u), Same(u, v) PROVE Same(m, v)
BY DEF Same

-----------------------------------------------------------------------------

\* stop_timers and CreateTimer, as prepare and the callbacks use them.
LEMMA StopTimers ==
    ASSUME NEW m, Shape(m)
    PROVE  LET u == stop_timers(m)
           IN  Shape(u) /\ None(u.tm) /\ u.cont = m.cont /\ u.destroyed = m.destroyed
BY DEF stop_timers, Shape, Fields, None

\* CreateTimer after stop_timers leaves one timer.
LEMMA CreateOne ==
    ASSUME NEW m, Shape(m), None(m.tm), NEW k \in Timer
    PROVE  LET u == CreateTimer(m, k)
           IN  Shape(u) /\ One(u.tm) /\ u.cont = m.cont /\ u.destroyed = m.destroyed
<1> DEFINE u == CreateTimer(m, k)
<1>1. /\ u = [f \in Fields |-> u[f]] /\ u.cont = m.cont /\ u.destroyed = m.destroyed
      /\ u.tm = [m.tm EXCEPT ![k] = 0]
  BY DEF CreateTimer, Shape, Fields
<1>2. u.tm \in [Timer -> Nat \union {Off}]
  BY <1>1 DEF Shape
<1>3. u.tm[k] = 0 /\ \A j \in Timer \ {k} : u.tm[j] = Off
  BY <1>1 DEF Shape, None
<1>4. One(u.tm)
  BY <1>3 DEF One, Off
<1> HIDE DEF u
<1> QED BY <1>1, <1>2, <1>4 DEF Shape, u

\* prepare leaves one timer.
LEMMA PrepareOne ==
    ASSUME NEW m, Shape(m)
    PROVE  LET u == prepare(m)
           IN  Shape(u) /\ One(u.tm) /\ u.cont = m.cont /\ u.destroyed = m.destroyed
<1> DEFINE k == IF Prepare # 0 THEN "prepare" ELSE "activate"
           u == CreateTimer(stop_timers(m), k)
<1>1. k \in Timer
  BY DEF Timer
<1>2. Shape(u) /\ One(u.tm) /\ u.cont = m.cont /\ u.destroyed = m.destroyed
  BY <1>1, StopTimers, CreateOne
<1> DEFINE h == Head(m.list)
           v == [u EXCEPT !.peer[h].sync = 0, !.peer[h].last_sync = 0]
<1>3. prepare(m) \in {u, publish(v, "SYNC", 0)}
  BY DEF prepare
<1> HIDE DEF u
<1>4. Same(u, v)
  BY <1>2, AskedSame
<1> HIDE DEF v
<1>5. Same(u, publish(v, "SYNC", 0))
  BY <1>4, PublishSame DEF Same
<1>6. CASE prepare(m) = u
  BY <1>2, <1>6
<1>7. CASE prepare(m) = publish(v, "SYNC", 0)
  <2> DEFINE w == publish(v, "SYNC", 0)
  <2>1. Shape(w) /\ w.tm = u.tm /\ w.cont = u.cont /\ w.destroyed = u.destroyed
    BY <1>5 DEF Same
  <2> HIDE DEF w
  <2> QED BY <1>2, <1>7, <2>1 DEF w
<1> QED BY <1>3, <1>6, <1>7

-----------------------------------------------------------------------------

\* Dispatcher x is in no callback, and one timer runs; or none.
Ready(m, x) == Shape(m) /\ m.cont[x] = "none" /\ (m.destroyed \/ One(m.tm))
Bare(m, x)  == Shape(m) /\ m.cont[x] = "none" /\ (m.destroyed \/ None(m.tm))

\* What is ready is as it should be between two handlers.
LEMMA ReadyTimed == ASSUME NEW m, NEW x, Ready(m, x) PROVE Timed(m, x)
BY DEF Ready, Timed

\* A change of anything else leaves it so.
LEMMA ReadySame == ASSUME NEW m, NEW u, NEW x, Same(m, u), Ready(m, x) PROVE Ready(u, x)
BY DEF Same, Ready

\* Bare does not depend on anything else.
LEMMA BareSame == ASSUME NEW m, NEW u, NEW x, Same(m, u), Bare(m, x) PROVE Bare(u, x)
BY DEF Same, Bare

\* Nor does Timed.
LEMMA TimedSame == ASSUME NEW m, NEW u, NEW x, Same(m, u), Timed(m, x) PROVE Timed(u, x)
BY DEF Same, Timed

\* stop_timers, prepare and CreateTimer go from one to the other.
LEMMA StopBare == ASSUME NEW m, NEW x, Shape(m), m.cont[x] = "none" PROVE Bare(stop_timers(m), x)
BY StopTimers DEF Bare

\* prepare ends with one timer.
LEMMA PrepareReady == ASSUME NEW m, NEW x, Shape(m), m.cont[x] = "none" PROVE Ready(prepare(m), x)
BY PrepareOne DEF Ready

\* So does a CreateTimer where there was none.
LEMMA CreateReady ==
    ASSUME NEW m, NEW x, Bare(m, x), ~m.destroyed, NEW k \in Timer PROVE Ready(CreateTimer(m, k), x)
BY CreateOne DEF Ready, Bare

\* do_callback: for PREPARE and ACTIVATE no timer runs, for DEACTIVATE one.
LEMMA CallbackShape ==
    ASSUME NEW m, Shape(m), NEW x \in Dispatchers, NEW t, NEW k \in Then
    PROVE  LET u == do_callback(m, x, t, k)
           IN  Shape(u) /\ u.tm = m.tm /\ u.cont[x] = k /\ u.destroyed = m.destroyed
BY DEF do_callback, Shape, Fields

\* A callback from where no timer runs.
LEMMA CallbackBare ==
    ASSUME NEW m, NEW x \in Dispatchers, Bare(m, x), NEW t, NEW k \in Then \ {"none", "deactivate"}
    PROVE  Timed(do_callback(m, x, t, k), x)
<1> DEFINE u == do_callback(m, x, t, k)
<1>1. Shape(u) /\ u.tm = m.tm /\ u.cont[x] = k /\ u.destroyed = m.destroyed
  BY CallbackShape DEF Bare
<1> HIDE DEF u
<1>2. Timed(u, x)
  BY <1>1 DEF Bare, Timed
<1> QED BY <1>2 DEF u

\* DEACTIVATE is called while a timer runs.
LEMMA CallbackReady ==
    ASSUME NEW m, NEW x \in Dispatchers, Ready(m, x), NEW t
    PROVE  Timed(do_callback(m, x, t, "deactivate"), x)
<1> DEFINE u == do_callback(m, x, t, "deactivate")
<1>1. Shape(u) /\ u.tm = m.tm /\ u.cont[x] = "deactivate" /\ u.destroyed = m.destroyed
  BY CallbackShape DEF Ready, Then
<1> HIDE DEF u
<1>2. Timed(u, x)
  BY <1>1 DEF Ready, Timed
<1> QED BY <1>2 DEF u

\* The end of update_peer.
LEMMA RestTimed == ASSUME NEW m, NEW x \in Dispatchers, Ready(m, x) PROVE Timed(Rest(m, x), x)
<1>1. Rest(m, x) \in {m, do_callback(m, x, "inactive", "deactivate"), prepare(m)}
  BY DEF Rest
<1>2. Timed(prepare(m), x)
  BY PrepareReady, ReadyTimed DEF Ready
<1> QED BY <1>1, <1>2, ReadyTimed, CallbackReady

\* A member that is not active prepares.
LEMMA OrPrepareReady ==
    ASSUME NEW m, NEW x, Ready(m, x) \/ Bare(m, x) PROVE Ready(OrPrepare(m), x)
<1>1. CASE is_active(m)
  <2>1. Ready(m, x)
    BY <1>1 DEF is_active, Ready, Bare, None, Timer
  <2> QED BY <1>1, <2>1 DEF OrPrepare
<1>2. CASE ~is_active(m)
  BY <1>2, PrepareReady DEF OrPrepare, Ready, Bare
<1> QED BY <1>1, <1>2

\* After, the end of Decide: with one timer, or in a callback of DEACTIVATE.
LEMMA AfterTimed ==
    ASSUME NEW m, NEW x \in Dispatchers, Ready(m, x) \/ Bare(m, x) PROVE Timed(After(m, x), x)
<1> DEFINE u == OrPrepare(m)
<1>1. Ready(u, x)
  BY OrPrepareReady
<1>2. After(m, x) \in {u, Rest(u, x)}
  BY DEF After
<1> HIDE DEF u
<1> QED BY <1>1, <1>2, ReadyTimed, RestTimed

-----------------------------------------------------------------------------

\* Activation, from update_peer and from the timer, up to the callback.
LEMMA ActivatesTimed ==
    ASSUME NEW m, NEW x \in Dispatchers, Bare(m, x), NEW k \in Then \ {"none", "deactivate"}
    PROVE  Timed(Activates(m, x, k), x)
<1> DEFINE u == [m EXCEPT !.peer[m.id].running = TRUE]
           v == publish(u, "ACTIVE", 0)
<1>0. Same(m, u)
  BY RunningSame DEF Bare
<1> HIDE DEF u
<1>1. Bare(u, x)
  BY <1>0, BareSame
<1>2. Bare(v, x)
  BY <1>1, PublishSame, BareSame DEF Bare
<1>3. Activates(m, x, k) = do_callback(v, x, "active", k)
  BY DEF Activates, u
<1> HIDE DEF v
<1> QED BY <1>2, <1>3, CallbackBare

\* activate_now from behind PREPARE: to ACTIVATE, or to its end.
LEMMA ActivateNow2Timed ==
    ASSUME NEW m, NEW x \in Dispatchers, Bare(m, x) PROVE Timed(activate_now2(m, x), x)
<1>1. "activate_now" \in Then \ {"none", "deactivate"}
  BY DEF Then
<1>2. activate_now2(m, x) \in {Activates(m, x, "activate_now"), After(m, x)}
  BY DEF activate_now2
<1> QED BY <1>1, <1>2, ActivatesTimed, AfterTimed

\* What follows ACTIVATE in activate_now.
LEMMA ActivatedNowTimed ==
    ASSUME NEW m, NEW x \in Dispatchers, Bare(m, x) PROVE Timed(activated_now(m, x), x)
<1>1. "hb" \in Timer
  BY DEF Timer
<1>2. CASE ~m.destroyed /\ Wanted(m)
  <2>1. activated_now(m, x) = After(CreateTimer(m, "hb"), x)
    BY <1>2 DEF activated_now
  <2>2. Ready(CreateTimer(m, "hb"), x)
    BY <1>1, <1>2, CreateReady
  <2> QED BY <2>1, <2>2, AfterTimed
<1>3. CASE ~(~m.destroyed /\ Wanted(m))
  <2>1. activated_now(m, x) = After(m, x)
    BY <1>3 DEF activated_now
  <2> QED BY <2>1, AfterTimed
<1> QED BY <1>2, <1>3

\* activate_now up to its callback.
LEMMA ActivateNowTimed ==
    ASSUME NEW m, NEW x \in Dispatchers, Ready(m, x) PROVE Timed(activate_now(m, x), x)
<1> DEFINE u == stop_timers(m)
           v == [u EXCEPT !.prepared = 0]
<1>1. Bare(u, x)
  BY StopBare DEF Ready
<1>2. activate_now(m, x) \in {m, do_callback(v, x, u.told, "prepare_now"), activate_now2(u, x)}
  BY DEF activate_now
<1> HIDE DEF u
<1>3. Bare(v, x)
  BY <1>1, PreparedSame, BareSame DEF Bare
<1>4. "prepare_now" \in Then \ {"none", "deactivate"}
  BY DEF Then
<1> HIDE DEF v
<1> QED BY <1>1, <1>2, <1>3, <1>4, ReadyTimed, CallbackBare, ActivateNow2Timed

\* What update_peer does with its new rank.
LEMMA DecideTimed == ASSUME NEW m, NEW x \in Dispatchers, Ready(m, x) PROVE Timed(Decide(m, x), x)
<1>1. Ready(update_time(m), x)
  BY UpdateTimeSame, ReadySame DEF Ready
<1>2. Decide(m, x) \in {activate_now(update_time(m), x), Rest(m, x)}
  BY DEF Decide
<1> QED BY <1>1, <1>2, ActivateNowTimed, RestTimed

\* The timers.
LEMMA ActivateTimerTimed ==
    ASSUME NEW m, NEW x \in Dispatchers, Ready(m, x) PROVE Timed(activate_timer_cb(m, x), x)
<1> DEFINE s == stop_timers(m)
           u == update_time(s)
<1>1. activate_timer_cb(m, x) \in {m, Activates(u, x, "activate_timer"), prepare(u)}
  BY DEF activate_timer_cb
<1>2. Bare(s, x)
  BY StopBare DEF Ready
<1> HIDE DEF s
<1>3. Bare(u, x)
  BY <1>2, UpdateTimeSame, BareSame DEF Bare
<1> HIDE DEF u
<1>4. "activate_timer" \in Then \ {"none", "deactivate"}
  BY DEF Then
<1>5. Timed(prepare(u), x)
  BY <1>3, PrepareReady, ReadyTimed DEF Bare
<1> QED BY <1>1, <1>3, <1>4, <1>5, ReadyTimed, ActivatesTimed

\* What follows ACTIVATE in the activate timer.
LEMMA ActivatedTimed == ASSUME NEW m, NEW x \in Dispatchers, Bare(m, x) PROVE Timed(activated(m), x)
<1>1. "hb" \in Timer
  BY DEF Timer
<1>2. ~m.destroyed => Ready(CreateTimer(m, "hb"), x)
  BY <1>1, CreateReady
<1>3. activated(m) = OrPrepare(IF m.destroyed THEN m ELSE CreateTimer(m, "hb"))
  BY DEF activated
<1> QED BY <1>2, <1>3, OrPrepareReady, ReadyTimed

\* What follows PREPARE in the prepare timer.
LEMMA PreparedTimed == ASSUME NEW m, NEW x \in Dispatchers, Bare(m, x) PROVE Timed(prepared(m), x)
<1>1. "activate" \in Timer
  BY DEF Timer
<1>2. CASE ~m.destroyed /\ Wanted(m)
  BY <1>1, <1>2, CreateReady, ReadyTimed DEF prepared
<1>3. CASE ~(~m.destroyed /\ Wanted(m)) /\ m.tm["activate"] = Off
  BY <1>3, PrepareReady, ReadyTimed DEF prepared, Bare
<1>4. CASE ~(~m.destroyed /\ Wanted(m)) /\ m.tm["activate"] # Off
  <2>1. m.destroyed
    BY <1>1, <1>4 DEF Bare, None
  <2>2. Timed(m, x)
    BY <2>1 DEF Timed, Bare
  <2> QED BY <1>4, <2>2 DEF prepared
<1> QED BY <1>2, <1>3, <1>4

\* The prepare timer fires.
LEMMA PrepareTimerTimed ==
    ASSUME NEW m, NEW x \in Dispatchers, Ready(m, x) PROVE Timed(prepare_timer_cb(m, x), x)
<1> DEFINE s == stop_timers(m)
           u == update_time(s)
           v == [u EXCEPT !.prepared = 0]
<1>1. prepare_timer_cb(m, x) \in {m, do_callback(v, x, u.told, "prepare_timer"), prepared(u)}
  BY DEF prepare_timer_cb
<1>2. Bare(s, x)
  BY StopBare DEF Ready
<1> HIDE DEF s
<1>3. Bare(u, x)
  BY <1>2, UpdateTimeSame, BareSame DEF Bare
<1> HIDE DEF u
<1>4. Bare(v, x)
  BY <1>3, PreparedSame, BareSame DEF Bare
<1>5. "prepare_timer" \in Then \ {"none", "deactivate"}
  BY DEF Then
<1> HIDE DEF v
<1> QED BY <1>1, <1>3, <1>4, <1>5, ReadyTimed, CallbackBare, PreparedTimed

\* The heartbeat timer fires.
LEMMA HbTimerTimed == ASSUME NEW m, NEW x \in Dispatchers, Ready(m, x) PROVE Timed(hb_timer_cb(m), x)
<1> DEFINE u == [m EXCEPT !.peer[m.id].seen = 0, !.peer[m.id].running = TRUE]
<1>1. hb_timer_cb(m) \in {m, publish(u, "ACTIVE", 0), prepare(m)}
  BY DEF hb_timer_cb
<1>2. Same(m, u)
  BY SeenRunningSame DEF Ready
<1> HIDE DEF u
<1>3. Ready(u, x)
  BY <1>2, ReadySame
<1>4. Timed(publish(u, "ACTIVE", 0), x)
  BY <1>3, PublishSame, ReadySame, ReadyTimed DEF Ready
<1>5. Timed(prepare(m), x)
  BY PrepareReady, ReadyTimed DEF Ready
<1> QED BY <1>1, <1>4, <1>5, ReadyTimed

\* A timer of a member fires.
LEMMA TimerTimed ==
    ASSUME NEW m, NEW x \in Dispatchers, Ready(m, x), NEW k \in Timer, m.tm[k] # Off
    PROVE  Timed(timer_cb(m, x, k), x)
<1> DEFINE u == [m EXCEPT !.tm[k] = 0]
<1>1. /\ u = [f \in Fields |-> u[f]] /\ u.cont = m.cont /\ u.destroyed = m.destroyed
      /\ u.tm = [m.tm EXCEPT ![k] = 0]
  BY DEF Ready, Shape, Fields
<1>2. timer_cb(m, x, k) \in {hb_timer_cb(u), prepare_timer_cb(u, x), activate_timer_cb(u, x)}
  BY DEF timer_cb, Timer
<1> HIDE DEF u
<1>3. u.tm \in [Timer -> Nat \union {Off}] /\ m.tm \in [Timer -> Nat \union {Off}]
  BY <1>1 DEF Ready, Shape
<1>4. One(m.tm) => One(u.tm)
  <2>1. u.tm[k] # Off /\ \A j \in Timer \ {k} : u.tm[j] = m.tm[j]
    BY <1>1, <1>3 DEF Off
  <2> QED BY <2>1 DEF One
<1>5. Ready(u, x)
  BY <1>1, <1>3, <1>4 DEF Ready, Shape
<1> QED BY <1>2, <1>5, HbTimerTimed, PrepareTimerTimed, ActivateTimerTimed

\* A callback returns, and its handler goes on.
LEMMA DeactivatedTimed == ASSUME NEW m, NEW x \in Dispatchers, Ready(m, x) PROVE Timed(deactivated(m), x)
<1> DEFINE u == [m EXCEPT !.peer[m.id].running = FALSE]
           v == publish(u, "ACTIVE_STOP", 0)
<1>1. deactivated(m) \in {m, prepare(v)}
  BY DEF deactivated
<1>2. Same(m, u)
  BY RunningSame DEF Ready
<1> HIDE DEF u
<1>3. Ready(v, x)
  BY <1>2, ReadySame, PublishSame DEF Same
<1> HIDE DEF v
<1>4. Timed(prepare(v), x)
  BY <1>3, PrepareReady, ReadyTimed DEF Ready
<1> QED BY <1>1, <1>4, ReadyTimed

\* A callback returns.
LEMMA ResumeTimed ==
    ASSUME NEW m, NEW x \in Dispatchers, Timed(m, x), m.cont[x] # "none"
    PROVE  Timed(resume(m, x), x)
<1> DEFINE u == resumed(m, x)
<1>1. Shape(u) /\ u.tm = m.tm /\ u.destroyed = m.destroyed /\ u.cont[x] = "none"
  BY DEF resumed, Timed, Shape, Fields, Then
<1>2. m.cont[x] \in Then
  BY DEF Timed, Shape
<1>3. CASE m.cont[x] = "deactivate"
  <2>1. Ready(u, x)
    BY <1>1, <1>3 DEF Timed, Ready
  <2>2. resume(m, x) = deactivated(u)
    BY <1>3 DEF resume
  <2> QED BY <2>1, <2>2, DeactivatedTimed
<1>4. CASE m.cont[x] # "deactivate"
  <2>1. Bare(u, x)
    BY <1>1, <1>4 DEF Timed, Bare
  <2>2. resume(m, x) \in {activate_now2(u, x), activated_now(u, x), prepared(u), activated(u)}
    BY <1>2, <1>4 DEF resume, Then
  <2> HIDE DEF u
  <2> QED BY <2>1, <2>2, ActivateNow2Timed, ActivatedNowTimed, PreparedTimed, ActivatedTimed
<1> QED BY <1>3, <1>4

\* Messages and advisories.
LEMMA UpdatePeerTimed ==
    ASSUME NEW m, NEW x \in Dispatchers, Ready(m, x), NEW c PROVE Timed(update_peer(m, x, c), x)
<1> DEFINE a == [m EXCEPT !.peer[m.id].seen = 0]
           b == IF ~Knows(m, c.from) \/ c.k = "SYNC" THEN publish(a, "INBOX", c.from) ELSE a
           d == Known(b, c)
           e == Seen(d, c.from, c.k, Activate)
<1>0. Same(m, a)
  BY SeenNowSame DEF Ready
<1>2. update_peer(m, x, c) = Decide(e, x)
  BY DEF update_peer
<1> HIDE DEF a
<1>1. Ready(a, x)
  BY <1>0, ReadySame
<1>3. Ready(b, x)
  BY <1>1, PublishSame, ReadySame DEF Ready
<1> HIDE DEF b
<1>4. Ready(d, x)
  BY <1>3, KnownSame, ReadySame DEF Ready
<1> HIDE DEF d
<1>5. Ready(e, x)
  BY <1>4, SeenSame, ReadySame DEF Ready
<1> HIDE DEF e
<1> QED BY <1>2, <1>5, DecideTimed

\* A peer's session has stopped.
LEMMA StoppedTimed ==
    ASSUME NEW m, NEW x \in Dispatchers, Ready(m, x), NEW n PROVE Timed(stopped_cb(m, x, n), x)
<1> DEFINE a == [m EXCEPT !.peer[n] = Stopped(@)]
           e == Seen(a, n, "STOP", Activate)
<1>1. Same(m, a)
  BY StoppedSame DEF Ready
<1>2. stopped_cb(m, x, n) \in {m, Decide(e, x)}
  BY DEF stopped_cb
<1> HIDE DEF a
<1>3. Ready(a, x)
  BY <1>1, ReadySame
<1>4. Ready(e, x)
  BY <1>3, SeenSame, ReadySame DEF Ready
<1> HIDE DEF e
<1> QED BY <1>2, <1>4, DecideTimed, ReadyTimed

-----------------------------------------------------------------------------

\* The application's calls.
LEMMA NewShape ==
    ASSUME NEW n, NEW w
    PROVE  LET m == NewMember(n, w)
           IN  Shape(m) /\ \A x \in Dispatchers : m.cont[x] = "none"
BY DEF NewMember, Shape, Fields, Then

\* A member is created.
LEMMA CreateTimed ==
    ASSUME NEW n, NEW w, NEW x \in Dispatchers PROVE Timed(CreateFtMember(n, w), x)
<1> DEFINE m == NewMember(n, w)
           u == publish(m, "START", 0)
<1>1. Shape(m) /\ m.cont[x] = "none"
  BY NewShape
<1> HIDE DEF m
<1>2. Shape(u) /\ u.cont[x] = "none"
  BY <1>1, PublishSame DEF Same
<1> HIDE DEF u
<1>3. Timed(prepare(u), x)
  BY <1>2, PrepareReady, ReadyTimed
<1> QED BY <1>3 DEF CreateFtMember, u, m

\* A member is destroyed.
LEMMA DestroyTimed ==
    ASSUME NEW m, NEW x \in Dispatchers, Shape(m) PROVE Timed(DestroyFtMember(m), x)
<1> DEFINE d == [m EXCEPT !.destroyed = TRUE]
           s == stop_timers(d)
           u == publish(s, "STOP", 0)
<1>1. Shape(d) /\ d.destroyed
  BY DEF Shape, Fields
<1> HIDE DEF d
<1>2. Shape(s) /\ s.destroyed
  BY <1>1, StopTimers
<1> HIDE DEF s
<1>3. Shape(u) /\ u.destroyed
  BY <1>2, PublishSame DEF Same
<1> HIDE DEF u
<1>4. Timed(u, x)
  BY <1>3 DEF Timed
<1> QED BY <1>4 DEF DestroyFtMember, u, s, d

\* A member's weight is set.
LEMMA WeightTimed ==
    ASSUME NEW m, NEW x \in Dispatchers, Timed(m, x), NEW w PROVE Timed(SetFtMemberWeight(m, w), x)
<1> DEFINE u == [m EXCEPT !.peer[m.id].weight = w]
<1>1. Same(m, u)
  BY WeightSame DEF Timed
<1>2. SetFtMemberWeight(m, w) \in {m, publish(u, "STATUS", 0)}
  BY DEF SetFtMemberWeight
<1> HIDE DEF u
<1>3. Timed(publish(u, "STATUS", 0), x)
  BY <1>1, PublishSame, TimedSame DEF Same
<1> QED BY <1>2, <1>3

\* Time: a timer that is off stays off, one that runs goes on.
LEMMA OldNat == Old \in Nat
<1>1. Activate \in Int /\ Lost \in Int /\ Activate >= 0 /\ Lost >= 0
  BY RvftAssumption
<1>2. Max({Activate, Lost}) \in {Activate, Lost}
  <2>1. \E a \in {Activate, Lost} : \A b \in {Activate, Lost} : a >= b
    BY <1>1
  <2> QED BY <2>1 DEF Max
<1> QED BY <1>1, <1>2 DEF Old

\* A tick neither starts nor stops a timer.
LEMMA OlderTimer ==
    ASSUME NEW a \in Nat \union {Off}
    PROVE  Older(a) \in Nat \union {Off} /\ (Older(a) = Off <=> a = Off)
BY OldNat DEF Older, Off

\* So a tick keeps what is said of them.
LEMMA TickTimed ==
    ASSUME NEW m, NEW x \in Dispatchers, Timed(m, x)
    PROVE  Timed([m EXCEPT !.peer = OlderPeers(m), !.age = Older(@), !.prepared = Older(@),
                           !.tm = [k \in Timer |-> Older(@[k])]], x)
<1> DEFINE u == [m EXCEPT !.peer = OlderPeers(m), !.age = Older(@), !.prepared = Older(@),
                          !.tm = [k \in Timer |-> Older(@[k])]]
<1>1. /\ u = [f \in Fields |-> u[f]] /\ u.cont = m.cont /\ u.destroyed = m.destroyed
      /\ u.tm = [k \in Timer |-> Older(m.tm[k])]
  BY DEF Timed, Shape, Fields
<1> HIDE DEF u
<1>2. m.tm \in [Timer -> Nat \union {Off}]
  BY DEF Timed, Shape
<1>3. /\ u.tm \in [Timer -> Nat \union {Off}]
      /\ \A k \in Timer : u.tm[k] = Off <=> m.tm[k] = Off
  BY <1>1, <1>2, OlderTimer
<1>4. (One(m.tm) => One(u.tm)) /\ (None(m.tm) => None(u.tm))
  BY <1>3 DEF One, None
<1>5. Timed(u, x)
  BY <1>1, <1>3, <1>4 DEF Timed, Shape
<1> QED BY <1>5 DEF u

-----------------------------------------------------------------------------
(* The group.                                                              *)

\* The inductive invariant, for the dispatcher x.
TimersKept(x) ==
    /\ mem = [n \in Members |-> mem[n]] /\ up = [n \in Members |-> up[n]]
    /\ \A n \in Members : Shape(mem[n]) /\ (Running(n) => Timed(mem[n], x))

\* No member runs at first.
LEMMA InitKept == ASSUME NEW x, Init PROVE TimersKept(x)
<1>1. /\ mem = [n \in Members |-> NewMember(n, 0)] /\ up = [n \in Members |-> "no"]
  BY DEF Init
<1>2. \A n \in Members : mem[n] = NewMember(n, 0) /\ ~Running(n)
  BY <1>1 DEF Running
<1> QED BY <1>1, <1>2, NewShape DEF TimersKept

\* A step of one member that leaves it in order keeps the invariant.
LEMMA BecomeKept ==
    ASSUME NEW x, TimersKept(x), NEW n \in Members, NEW m, Timed(m, x),
           mem' = [mem EXCEPT ![n] = [m EXCEPT !.out = << >>]],
           up' = up \/ up' = [up EXCEPT ![n] = "yes"]
    PROVE  TimersKept(x)'
<1> DEFINE u == [m EXCEPT !.out = << >>]
<1>1. Timed(u, x)
  <2>1. Same(m, u)
    BY SentSame DEF Timed
  <2> HIDE DEF u
  <2> QED BY <2>1, TimedSame
<1>2. mem' = [mem EXCEPT ![n] = u]
  OBVIOUS
<1> HIDE DEF u
<1>3. mem' = [i \in Members |-> mem'[i]] /\ up' = [i \in Members |-> up'[i]]
  BY <1>2 DEF TimersKept
<1>4. \A i \in Members : mem'[i] = (IF i = n THEN u ELSE mem[i])
  BY <1>2 DEF TimersKept
<1>5. \A i \in Members : i # n => up'[i] = up[i]
  BY DEF TimersKept
<1>6. \A i \in Members : Shape(mem'[i]) /\ (up'[i] = "yes" => Timed(mem'[i], x))
  <2> TAKE i \in Members
  <2>1. CASE i = n
    BY <1>1, <1>4, <2>1 DEF Timed
  <2>2. CASE i # n
    BY <1>4, <1>5, <2>2 DEF TimersKept, Running
  <2> QED BY <2>1, <2>2
<1> QED BY <1>3, <1>6 DEF TimersKept, Running

\* A member whose dispatcher is free is ready.
LEMMA FreeReady ==
    ASSUME NEW x, TimersKept(x), NEW n \in Members, Free(n, x) PROVE Ready(mem[n], x)
BY DEF TimersKept, Free, Timed, Ready

\* A member that crashes is no longer there.
LEMMA CrashKept == ASSUME NEW x, TimersKept(x), NEW n \in Members, Crash(n) PROVE TimersKept(x)'
<1> DEFINE m == NewMember(n, 0)
<1>1. Shape(m)
  BY NewShape
<1>2. mem' = [mem EXCEPT ![n] = m] /\ up' = [up EXCEPT ![n] = "gone"]
  BY DEF Crash
<1> HIDE DEF m
<1>3. mem' = [i \in Members |-> mem'[i]] /\ up' = [i \in Members |-> up'[i]]
  BY <1>2 DEF TimersKept
<1>4. \A i \in Members : /\ mem'[i] = (IF i = n THEN m ELSE mem[i])
                         /\ up'[i] = (IF i = n THEN "gone" ELSE up[i])
  BY <1>2 DEF TimersKept
<1> QED BY <1>1, <1>3, <1>4 DEF TimersKept, Running

\* A tick of the group.
LEMMA TickKept == ASSUME NEW x \in Dispatchers, TimersKept(x), Tick PROVE TimersKept(x)'
<1> DEFINE Aged(m) == [m EXCEPT !.peer = OlderPeers(m), !.age = Older(@), !.prepared = Older(@),
                                !.tm = [k \in Timer |-> Older(@[k])]]
<1>1. \A m : Timed(m, x) => Timed(Aged(m), x)
  BY TickTimed
<1>2. mem' = [n \in Members |-> IF ~Running(n) THEN mem[n] ELSE Aged(mem[n])] /\ up' = up
  BY DEF Tick
<1> HIDE DEF Aged
<1>3. \A n \in Members : mem'[n] = (IF ~Running(n) THEN mem[n] ELSE Aged(mem[n]))
  BY <1>2
<1>4. \A n \in Members : Shape(mem'[n]) /\ (Running(n) => Timed(mem'[n], x))
  BY <1>1, <1>3 DEF TimersKept, Timed
<1> QED BY <1>2, <1>4 DEF TimersKept, Running

\* Every step keeps the timers of every member.
LEMMA NextKept ==
    ASSUME NEW x, Dispatchers = {x}, TimersKept(x), [Next]_vars PROVE TimersKept(x)'
<1>0. x \in Dispatchers
  OBVIOUS
<1>1. ASSUME NEW n \in Members, Create(n) PROVE TimersKept(x)'
  <2>1. PICK w \in Weights : Become(n, CreateFtMember(n, w), n)
    BY <1>1 DEF Create
  <2> QED BY <1>0, <1>1, <2>1, CreateTimed, BecomeKept DEF Create, Become
<1>2. ASSUME NEW n \in Members, Destroy(n) PROVE TimersKept(x)'
  <2>1. Timed(DestroyFtMember(mem[n]), x)
    BY <1>0, DestroyTimed DEF TimersKept
  <2> QED BY <1>2, <2>1, BecomeKept DEF Destroy
<1>3. ASSUME NEW n \in Members, NEW w \in Weights, SetWeight(n, w) PROVE TimersKept(x)'
  <2>1. Timed(mem[n], x)
    BY <1>3 DEF TimersKept, SetWeight
  <2>2. Timed(SetFtMemberWeight(mem[n], w), x)
    BY <1>0, <2>1, WeightTimed
  <2> QED BY <1>3, <2>2, BecomeKept DEF SetWeight, Become
<1>4. ASSUME NEW n \in Members, Return(n, x) PROVE TimersKept(x)'
  <2>1. Timed(mem[n], x) /\ mem[n].cont[x] # "none"
    BY <1>4 DEF TimersKept, Return
  <2>2. Timed(resume(mem[n], x), x)
    BY <1>0, <2>1, ResumeTimed
  <2> QED BY <1>4, <2>2, BecomeKept DEF Return, Become
<1>5. ASSUME NEW n \in Members, NEW a \in Members, Receive(n, x, a) PROVE TimersKept(x)'
  <2> DEFINE c == Head(chan[a][n])
             m == IF c.k = "down" THEN stopped_cb(mem[n], x, a) ELSE update_peer(mem[n], x, c)
  <2>1. Ready(mem[n], x)
    BY <1>5, FreeReady DEF Receive
  <2>2. Timed(m, x)
    BY <1>0, <2>1, StoppedTimed, UpdatePeerTimed
  <2>3. Become(n, m, a) /\ up' = up
    BY <1>5 DEF Receive
  <2> HIDE DEF m
  <2> QED BY <2>2, <2>3, BecomeKept DEF Become
<1>6. ASSUME NEW n \in Members, NEW k \in Timer, ServeTimer(n, x, k) PROVE TimersKept(x)'
  <2>1. Ready(mem[n], x) /\ mem[n].tm[k] # Off
    BY <1>6, FreeReady DEF ServeTimer, Due
  <2>2. Timed(timer_cb(mem[n], x, k), x)
    BY <1>0, <2>1, TimerTimed
  <2> QED BY <1>6, <2>2, BecomeKept DEF ServeTimer, Become
<1>7. ASSUME UNCHANGED <<up, mem>> PROVE TimersKept(x)'
  BY <1>7 DEF TimersKept, Running
<1>8. ASSUME NEW n \in Members, NEW b, Blip(n) \/ MonitorReceive(n) \/ Lose(n, b) \/ MonitorTimer
      PROVE  TimersKept(x)'
  BY <1>7, <1>8 DEF Blip, MonitorReceive, Lose, MonitorTimer
<1>9. MonitorTimer \/ UNCHANGED vars => TimersKept(x)'
  BY <1>7 DEF MonitorTimer, vars
<1> QED BY <1>0, <1>1, <1>2, <1>3, <1>4, <1>5, <1>6, <1>8, <1>9, CrashKept, TickKept DEF Next

-----------------------------------------------------------------------------

\* OneTimer: with one dispatcher of its queue, a member that is in no callback
\* has exactly one of its three timers running, whatever arrives, is lost or
\* late, and whenever it is destroyed or its weight changed.
THEOREM OneTimerRuns ==
    ASSUME NEW CONSTANT x, Dispatchers = {x}
    PROVE  Spec => []OneTimer
<1>1. Init => TimersKept(x)
  BY InitKept
<1>2. TimersKept(x) /\ [Next]_vars => TimersKept(x)'
  BY NextKept
<1>3. TimersKept(x) => OneTimer
  <2> SUFFICES ASSUME TimersKept(x), NEW n \in Members, AtRest(n)
               PROVE  Cardinality({k \in Timer : mem[n].tm[k] # Off}) = 1
    BY DEF OneTimer
  <2>1. One(mem[n].tm)
    BY DEF TimersKept, AtRest, Timed
  <2>2. PICK k \in Timer : mem[n].tm[k] # Off /\ \A j \in Timer \ {k} : mem[n].tm[j] = Off
    BY <2>1 DEF One
  <2>3. {j \in Timer : mem[n].tm[j] # Off} = {k}
    BY <2>2
  <2> QED BY <2>3, FS_Singleton
<1> QED BY <1>1, <1>2, <1>3, PTL DEF Spec

=============================================================================
