--------------------------- MODULE RvClientProofs ---------------------------
(***************************************************************************)
(* What the operators of RvTransport do to a world: the client, the        *)
(* transport and the connection, as they take it.  A world w is Sound when *)
(* it has its shape and the handshake is at one stage; it is Kept when,    *)
(* besides, the state listener was told what the connection is.            *)
(***************************************************************************)
EXTENDS RvTransport, FiniteSetTheorems, TLAPS

CF == {"st", "fd", "closing", "save", "sess"}
TF == {"mode", "ht", "destroyed", "x", "armed", "ticks", "listening", "told", "misled", "handed",
       "late", "rpc_list", "inbox_count", "ctx", "sb_fill", "sb_pending"}
NF == {"alive", "stalled", "up", "down"}

Shape(w) ==
    /\ w = [f \in {"c", "t", "net"} |-> w[f]] /\ w.c = [f \in CF |-> w.c[f]]
    /\ w.t = [f \in TF |-> w.t[f]] /\ w.net = [f \in NF |-> w.net[f]]

\* What is sent on a connection that is up, and what comes back.
Payload ==
    [k : {"L", "C"}, s : Subjects \union {Inbox}]
        \union [k : {"D"}, th : Threads, i : Nat, n : Nat]
Answer == [k : {"R"}, n : Nat, rq : Nat] \union {Hello("bad")}

\* What is sent during the handshake by the client and by the daemon.
Ups(st) ==
    IF st = "info" THEN {"vers", "info"} ELSE IF st = "init" THEN {"init"}
    ELSE IF st = "conn" THEN {"init2"} ELSE {}
Downs(st) ==
    IF st = "vers" THEN {"vers"} ELSE IF st = "info" THEN {"info2", "info1"}
    ELSE IF st = "init" THEN {"resp", "bad"} ELSE IF st = "conn" THEN {"conn"} ELSE {}

\* One message of a handshake is under way at a time, and none after it.
Stage(st, up, down) ==
    /\ st \in {"data", "closed"} => up \in Seq(Payload) /\ down \in Seq(Answer)
    /\ st \notin {"data", "closed"} =>
         \/ up = << >> /\ down = << >>
         \/ down = << >> /\ \E k \in Ups(st) : up = <<Hello(k)>>
         \/ up = << >> /\ \E k \in Downs(st) : down = <<Hello(k)>>

ClientOK(k) ==
    /\ k.st \in States /\ k.fd \in BOOLEAN /\ k.closing \in BOOLEAN /\ k.sess \in BOOLEAN
    /\ k.save \in Seq(Payload)
    /\ k.closing => k.fd
    /\ ~k.fd => k.st = "closed"
    /\ k.st \in {"conn", "data"} => k.sess

TportOK(k) ==
    /\ k.ht \subseteq Listeners /\ k.ticks \in 0..(MaxTicks - 1)
    /\ k.told \in {"none", "up", "down"} /\ k.handed \in {"no", "soon", "ok", "failed"}
    /\ k.ctx \in [Threads -> Seq(Payload)] /\ k.sb_fill \in Seq(Payload)
    /\ k.destroyed \in BOOLEAN /\ k.x \in BOOLEAN /\ k.armed \in BOOLEAN
    /\ k.listening \in BOOLEAN /\ k.misled \in BOOLEAN /\ k.sb_pending \in BOOLEAN
    /\ k.inbox_count \in Nat

\* What every step of the event thread keeps of the world.
Sound(w) ==
    /\ Shape(w) /\ ClientOK(w.c) /\ TportOK(w.t)
    /\ w.net.alive => w.c.fd
    /\ Stage(w.c.st, w.net.up, w.net.down)

-----------------------------------------------------------------------------
(* Sending.                                                                *)

\* u is w with something queued, or saved.
Sends(w, u) ==
    /\ Sound(u) /\ u.t = w.t
    /\ \A f \in CF \ {"save"} : u.c[f] = w.c[f]
    /\ \A f \in NF \ {"up"} : u.net[f] = w.net[f]

\* What is appended in the data state goes behind what is on its way, if anywhere.
LEMMA AppendSends ==
    ASSUME NEW w, Sound(w), w.c.st = "data", NEW ms \in Seq(Payload)
    PROVE  Sends(w, append(w, ms))
<1>1. CASE ~w.net.alive
  BY <1>1 DEF append, Sends
<1>2. CASE w.net.alive
  <2> DEFINE u == [w EXCEPT !.net.up = @ \o ms]
  <2>1. /\ Shape(u) /\ u.t = w.t /\ u.c = w.c /\ u.net.up = w.net.up \o ms
        /\ \A f \in NF \ {"up"} : u.net[f] = w.net[f]
    BY DEF Shape, Sound, NF
  <2>2. append(w, ms) = u
    BY <1>2 DEF append
  <2> HIDE DEF u
  <2>3. u.net.up \in Seq(Payload)
    BY <2>1 DEF Sound, Stage
  <2>4. Sound(u)
    BY <2>1, <2>3 DEF Sound, Stage, NF
  <2> QED BY <2>1, <2>2, <2>4 DEF Sends
<1> QED BY <1>1, <1>2

\* queue_send: sent when the connection is up, saved during a handshake.
LEMMA QueueSends ==
    ASSUME NEW w, Sound(w), NEW ms \in Seq(Payload)
    PROVE  Sends(w, queue_send(w, ms))
<1>1. CASE w.c.st = "data"
  BY <1>1, AppendSends DEF queue_send
<1>2. CASE w.c.st = "closed"
  BY <1>2 DEF queue_send, Sends
<1>3. CASE w.c.st \notin {"data", "closed"}
  <2> DEFINE u == [w EXCEPT !.c.save = @ \o ms]
  <2>1. /\ Shape(u) /\ u.t = w.t /\ u.net = w.net /\ u.c.save = w.c.save \o ms
        /\ \A f \in CF \ {"save"} : u.c[f] = w.c[f]
    BY DEF Shape, Sound, CF
  <2>2. queue_send(w, ms) = u
    BY <1>3 DEF queue_send
  <2> HIDE DEF u
  <2>3. u.c.save \in Seq(Payload)
    BY <2>1 DEF Sound, ClientOK
  <2>4. Sound(u)
    BY <2>1, <2>3 DEF Sound, ClientOK, CF
  <2> QED BY <2>1, <2>2, <2>4 DEF Sends
<1> QED BY <1>1, <1>2, <1>3

-----------------------------------------------------------------------------
(* What the state listener was told.                                       *)

\* The client closed a connection that was up over a message it could not read,
\* and on_shutdown has not been called yet.
Abandoned(w, rel) == w.t.misled /\ w.c.closing /\ w.c.st = "closed" /\ ~rel

\* rel: on_shutdown has been called and the client has not been reset yet.
Told(w, rel) ==
    /\ w.t.told # "none" => w.t.listening
    /\ w.t.listening => w.t.handed = "ok"
    /\ w.t.handed = "ok" => w.t.x
    /\ ~w.t.destroyed /\ w.t.told # "none" =>
         /\ ~w.t.misled => IF rel THEN w.t.told = "down" ELSE (w.t.told = "up" <=> w.c.st = "data")
         /\ w.c.st # "data" \/ rel => w.t.armed \/ Abandoned(w, rel)

Kept(w, rel) == Sound(w) /\ Told(w, rel)

\* Sending tells nothing.
LEMMA SendsKept ==
    ASSUME NEW w, NEW u, NEW rel, Kept(w, rel), Sends(w, u) PROVE Kept(u, rel)
<1>1. u.c.st = w.c.st /\ u.c.closing = w.c.closing /\ u.t = w.t /\ Sound(u)
  BY DEF Sends, CF
<1> QED BY <1>1 DEF Kept, Told, Abandoned

\* push_state, to a listener if there is one.
LEMMA PushState ==
    ASSUME NEW w, Sound(w), NEW s \in {"up", "down"}
    PROVE  LET u == push_state(w, s)
           IN  /\ Sound(u) /\ u.c = w.c /\ u.net = w.net
               /\ u.t.told = (IF w.t.listening THEN s ELSE w.t.told) /\ u.t.misled = FALSE
               /\ \A f \in TF \ {"told", "misled"} : u.t[f] = w.t[f]
<1> DEFINE u == push_state(w, s)
<1>1. /\ Shape(u) /\ u.c = w.c /\ u.net = w.net
      /\ u.t.told = (IF w.t.listening THEN s ELSE w.t.told) /\ u.t.misled = FALSE
      /\ \A f \in TF \ {"told", "misled"} : u.t[f] = w.t[f]
  BY DEF push_state, Shape, Sound, TF
<1> HIDE DEF u
<1>2. TportOK(u.t)
  BY <1>1 DEF Sound, TportOK, TF
<1>3. Sound(u)
  BY <1>1, <1>2 DEF Sound
<1> QED BY <1>1, <1>3 DEF u

\* The count of ticks may start.
LEMMA NoTicks == 0 \in 0..(MaxTicks - 1)
BY TransportAssumption

\* arm_reconnect: of a transport in use that has had a session.
LEMMA ArmReconnect ==
    ASSUME NEW w, Sound(w)
    PROVE  LET u == arm_reconnect(w)
           IN  /\ Sound(u) /\ u.c = w.c /\ u.net = w.net
               /\ \A f \in TF \ {"armed", "ticks"} : u.t[f] = w.t[f]
               /\ ~w.t.destroyed /\ w.t.x => u.t.armed
<1> DEFINE u == [w EXCEPT !.t.armed = TRUE, !.t.ticks = 0]
<1>1. CASE w.t.destroyed \/ w.t.armed \/ ~w.t.x
  BY <1>1 DEF arm_reconnect
<1>2. CASE ~(w.t.destroyed \/ w.t.armed \/ ~w.t.x)
  <2>1. /\ Shape(u) /\ u.c = w.c /\ u.net = w.net /\ u.t.armed = TRUE /\ u.t.ticks = 0
        /\ \A f \in TF \ {"armed", "ticks"} : u.t[f] = w.t[f]
    BY DEF Shape, Sound, TF
  <2>2. arm_reconnect(w) = u
    BY <1>2 DEF arm_reconnect
  <2> HIDE DEF u
  <2>3. TportOK(u.t)
    BY <2>1, NoTicks DEF Sound, TportOK, TF
  <2>4. Sound(u)
    BY <2>1, <2>3 DEF Sound
  <2> QED BY <2>1, <2>2, <2>4
<1> QED BY <1>1, <1>2

\* on_shutdown: DISCONNECTED is told of a connection that was up, and the timer runs.
LEMMA ShutdownKept ==
    ASSUME NEW w, Kept(w, FALSE), w.c.closing
    PROVE  LET u == on_shutdown(w)
           IN  Kept(u, TRUE) /\ u.c = w.c /\ u.net = w.net
               /\ \A f \in TF \ {"armed", "ticks", "told", "misled"} : u.t[f] = w.t[f]
<1> DEFINE v == IF w.c.st = "data" THEN push_state(w, "down") ELSE w
           u == arm_reconnect(v)
<1>1. /\ Sound(v) /\ v.c = w.c /\ v.net = w.net
      /\ \A f \in TF \ {"told", "misled"} : v.t[f] = w.t[f]
      /\ w.c.st = "data" => v.t.told = (IF w.t.listening THEN "down" ELSE w.t.told) /\ ~v.t.misled
      /\ w.c.st # "data" => v.t = w.t
  BY PushState DEF Kept
<1>2. on_shutdown(w) = u
  BY DEF on_shutdown
<1> HIDE DEF v
<1>3. /\ Sound(u) /\ u.c = v.c /\ u.net = v.net
      /\ \A f \in TF \ {"armed", "ticks"} : u.t[f] = v.t[f]
      /\ ~v.t.destroyed /\ v.t.x => u.t.armed
  BY <1>1, ArmReconnect
<1> HIDE DEF u
<1>4. \A f \in TF \ {"armed", "ticks", "told", "misled"} : u.t[f] = w.t[f]
  BY <1>1, <1>3
<1>5. Told(u, TRUE)
  <2>1. /\ u.t.listening = w.t.listening /\ u.t.handed = w.t.handed /\ u.t.x = w.t.x
        /\ u.t.destroyed = w.t.destroyed /\ u.t.told = v.t.told /\ u.t.misled = v.t.misled
        /\ v.t.destroyed = w.t.destroyed /\ v.t.x = w.t.x
    BY <1>1, <1>3 DEF TF
  <2>2. u.t.told \in {"none", "up", "down"} /\ w.t.told \in {"none", "up", "down"}
    BY <1>3 DEF Kept, Sound, TportOK
  <2>3. CASE w.c.st = "data"
    BY <1>1, <1>3, <2>1, <2>2, <2>3 DEF Told, Kept
  <2>4. CASE w.c.st # "data"
    BY <1>1, <1>3, <2>1, <2>2, <2>4 DEF Told, Kept
  <2> QED BY <2>3, <2>4
<1> QED BY <1>1, <1>2, <1>3, <1>4, <1>5 DEF Kept


\* What on_connect subscribes again.
LEMMA Resubscribed ==
    ASSUME NEW w, Sound(w)
    PROVE  LET ls == SetToSeq(w.t.ht)
               ss == [i \in DOMAIN ls |-> Subject[ls[i]]]
           IN  [i \in DOMAIN ss |-> Sub("L", ss[i])] \in Seq(Payload)
<1> DEFINE S == w.t.ht
           ls == SetToSeq(S)
           ss == [i \in DOMAIN ls |-> Subject[ls[i]]]
<1>1. IsFiniteSet(S) /\ S \subseteq Listeners
  BY TransportAssumption, FS_Subset DEF Sound, TportOK
<1>2. PICK f : f \in [1..Cardinality(S) -> S] /\ IsInjective(f)
  <2>1. PICK f : f \in Bijection(1..Cardinality(S), S)
    BY <1>1, FS_CardinalityType DEF ExistsBijection
  <2>2. f \in [1..Cardinality(S) -> S] /\ IsInjective(f)
    BY <2>1 DEF Bijection, Injection, IsInjective
  <2> QED BY <2>2
<1>3. ls \in [1..Cardinality(S) -> S]
  BY <1>2 DEF SetToSeq
<1>4. Cardinality(S) \in Nat
  BY <1>1, FS_CardinalityType
<1> HIDE DEF S, ls
<1>5. ss \in [1..Cardinality(S) -> Subjects]
  BY <1>1, <1>3 DEF Subjects
<1>6. [i \in DOMAIN ss |-> Sub("L", ss[i])] \in [1..Cardinality(S) -> Payload]
  BY <1>5 DEF Sub, Payload
<1>7. [i \in DOMAIN ss |-> Sub("L", ss[i])] \in Seq(Payload)
  BY <1>4, <1>6
<1> QED BY <1>7 DEF ls, S


\* on_connect, when the handshake has just ended: CONNECTED is told, of a
\* connection that had been lost.
LEMMA ConnectKept ==
    ASSUME NEW w, Sound(w), w.c.st = "data",
           w.t.told # "none" => w.t.listening,
           w.t.listening => w.t.handed = "ok",
           w.t.handed = "ok" => w.t.x,
           ~w.t.destroyed /\ w.t.told # "none" => w.t.armed
    PROVE  LET u == on_connect(w)
           IN  /\ Kept(u, FALSE) /\ u.c.st = "data"
               /\ \A f \in CF \ {"save"} : u.c[f] = w.c[f]
               /\ \A f \in NF \ {"up"} : u.net[f] = w.net[f]
               /\ \A f \in TF \ {"armed", "x", "told", "misled"} : u.t[f] = w.t[f]
<1>1. CASE ~w.t.armed
  <2>1. on_connect(w) = w
    BY <1>1 DEF on_connect
  <2>2. Told(w, FALSE)
    BY <1>1 DEF Told
  <2> QED BY <2>1, <2>2 DEF Kept
<1>2. CASE w.t.armed
  <2> DEFINE a  == [w EXCEPT !.t.armed = FALSE, !.t.x = w.c.sess]
             ls == SetToSeq(w.t.ht)
             ss == [i \in DOMAIN ls |-> Subject[ls[i]]]
             ms == [i \in DOMAIN ss |-> Sub("L", ss[i])]
             b  == queue_send(a, ms)
             u  == push_state(b, "up")
  <2>1. on_connect(w) = u
    BY <1>2 DEF on_connect, subscribe
  <2>2. ms \in Seq(Payload)
    BY Resubscribed
  <2>3. /\ Shape(a) /\ a.c = w.c /\ a.net = w.net /\ a.t.x = w.c.sess /\ a.t.armed = FALSE
        /\ \A f \in TF \ {"armed", "x"} : a.t[f] = w.t[f]
    BY DEF Shape, Sound, TF
  <2> HIDE DEF a, ms
  <2>4. w.c.sess = TRUE
    BY DEF Sound, ClientOK
  <2>5. TportOK(a.t)
    BY <2>3, <2>4 DEF Sound, TportOK, TF
  <2>6. Sound(a)
    BY <2>3, <2>5 DEF Sound
  <2>7. Sends(a, b)
    BY <2>2, <2>6, QueueSends
  <2> HIDE DEF b
  <2>8. Sound(b)
    BY <2>7 DEF Sends
  <2>9. /\ Sound(u) /\ u.c = b.c /\ u.net = b.net
        /\ u.t.told = (IF b.t.listening THEN "up" ELSE b.t.told) /\ u.t.misled = FALSE
        /\ \A f \in TF \ {"told", "misled"} : u.t[f] = b.t[f]
    BY <2>8, PushState
  <2> HIDE DEF u
  <2>10. /\ \A f \in CF \ {"save"} : u.c[f] = w.c[f]
         /\ \A f \in NF \ {"up"} : u.net[f] = w.net[f]
         /\ \A f \in TF \ {"armed", "x", "told", "misled"} : u.t[f] = w.t[f]
    BY <2>3, <2>7, <2>9 DEF Sends
  <2>11. /\ u.c.st = "data" /\ u.t.listening = w.t.listening /\ u.t.handed = w.t.handed
         /\ u.t.destroyed = w.t.destroyed /\ u.t.x = TRUE
         /\ u.t.told = (IF w.t.listening THEN "up" ELSE w.t.told)
    BY <2>3, <2>4, <2>7, <2>9, <2>10 DEF Sends, CF, TF
  <2>12. Told(u, FALSE)
    BY <2>11 DEF Told
  <2> QED BY <2>1, <2>9, <2>10, <2>11, <2>12 DEF Kept
<1> QED BY <1>1, <1>2

\* flush_pending_send, of what the handshake held up.
LEMMA FlushSends ==
    ASSUME NEW w, Sound(w), w.c.st = "data" PROVE Sends(w, flush_pending_send(w))
<1> DEFINE a == append(w, w.c.save)
           u == [a EXCEPT !.c.save = << >>]
<1>1. Sends(w, a)
  BY AppendSends DEF Sound, ClientOK
<1> HIDE DEF a
<1>2. /\ Shape(u) /\ u.t = a.t /\ u.net = a.net /\ u.c.save = << >>
      /\ \A f \in CF \ {"save"} : u.c[f] = a.c[f]
  BY <1>1 DEF Sends, Sound, Shape, CF
<1> HIDE DEF u
<1>3. << >> \in Seq(Payload)
  OBVIOUS
<1>4. ClientOK(u.c)
  BY <1>1, <1>2, <1>3 DEF Sends, Sound, ClientOK, CF
<1>5. u.c.fd = a.c.fd /\ u.c.st = a.c.st
  BY <1>2 DEF CF
<1>6. Sound(u)
  BY <1>1, <1>2, <1>4, <1>5 DEF Sends, Sound
<1>7. Sends(w, u)
  BY <1>1, <1>2, <1>6 DEF Sends
<1> QED BY <1>7 DEF flush_pending_send, u, a

-----------------------------------------------------------------------------
(* The client reads a message.                                             *)

Shaking == States \ {"data", "closed"}

\* The client takes a message: in a handshake it is the only one under way.
LEMMA TakeDown ==
    ASSUME NEW w, Sound(w), w.net.down # << >>
    PROVE  LET v == [w EXCEPT !.net.down = Tail(@)]
               m == Head(w.net.down)
           IN  /\ Sound(v) /\ v.c = w.c /\ v.t = w.t
               /\ v.net.alive = w.net.alive /\ v.net.up = w.net.up
               /\ \/ w.c.st \in {"data", "closed"} /\ m \in Answer
                  \/ /\ w.c.st \in Shaking /\ v.net.up = << >> /\ v.net.down = << >>
                     /\ \E k \in Downs(w.c.st) : m = Hello(k)
<1> DEFINE v == [w EXCEPT !.net.down = Tail(@)]
           m == Head(w.net.down)
<1>1. /\ Shape(v) /\ v.c = w.c /\ v.t = w.t /\ v.net.down = Tail(w.net.down)
      /\ v.net.alive = w.net.alive /\ v.net.up = w.net.up
  BY DEF Sound, Shape, NF
<1> HIDE DEF v
<1>2. CASE w.c.st \in {"data", "closed"}
  <2>1. w.net.down \in Seq(Answer) /\ w.net.up \in Seq(Payload)
    BY <1>2 DEF Sound, Stage
  <2>2. m \in Answer /\ Tail(w.net.down) \in Seq(Answer)
    BY <2>1
  <2>3. Sound(v)
    BY <1>1, <1>2, <2>1, <2>2 DEF Sound, Stage
  <2> QED BY <1>1, <1>2, <2>2, <2>3 DEF v
<1>3. CASE w.c.st \notin {"data", "closed"}
  <2>1. w.net.up = << >> /\ \E k \in Downs(w.c.st) : w.net.down = <<Hello(k)>>
    BY <1>3 DEF Sound, Stage
  <2>2. PICK k \in Downs(w.c.st) : w.net.down = <<Hello(k)>>
    BY <2>1
  <2>3. m = Hello(k) /\ Tail(w.net.down) = << >>
    BY <2>2
  <2>4. Sound(v)
    BY <1>1, <1>3, <2>1, <2>3 DEF Sound, Stage
  <2>5. w.c.st \in Shaking
    BY <1>3 DEF Sound, ClientOK, Shaking
  <2> HIDE DEF m
  <2> QED BY <1>1, <2>1, <2>2, <2>3, <2>4, <2>5 DEF v, m
<1> QED BY <1>2, <1>3

\* The client says its part of a handshake when nothing else is under way.
LEMMA Greets ==
    ASSUME NEW w, Shape(w), ClientOK(w.c), TportOK(w.t), w.net.alive => w.c.fd,
           w.c.st \in Shaking, w.net.up = << >>, w.net.down = << >>, NEW k \in Ups(w.c.st)
    PROVE  LET u == append(w, <<Hello(k)>>) IN Sound(u) /\ u.c = w.c /\ u.t = w.t
<1> DEFINE u == [w EXCEPT !.net.up = @ \o <<Hello(k)>>]
<1>1. CASE ~w.net.alive
  <2>1. append(w, <<Hello(k)>>) = w
    BY <1>1 DEF append
  <2>2. Sound(w)
    BY DEF Sound, Stage, Shaking
  <2> QED BY <2>1, <2>2
<1>2. CASE w.net.alive
  <2>1. append(w, <<Hello(k)>>) = u
    BY <1>2 DEF append
  <2>2. << >> \o <<Hello(k)>> = <<Hello(k)>>
    OBVIOUS
  <2>3. /\ Shape(u) /\ u.c = w.c /\ u.t = w.t /\ u.net.up = <<Hello(k)>>
        /\ u.net.alive = w.net.alive /\ u.net.down = w.net.down
    BY <2>2 DEF Shape, NF
  <2> HIDE DEF u
  <2>4. Stage(u.c.st, u.net.up, u.net.down)
    BY <2>3 DEF Stage, Shaking
  <2> QED BY <2>1, <2>3, <2>4 DEF Sound
<1> QED BY <1>1, <1>2

\* And what was told stays true.
LEMMA ShakingTold ==
    ASSUME NEW w, NEW u, Told(w, FALSE), w.c.st \in Shaking, u.c.st \in Shaking, u.t = w.t
    PROVE  Told(u, FALSE)
BY DEF Told, Abandoned, Shaking

\* A greeting of the handshake is the one message under way, to a daemon or to nobody.
LEMMA GreetKept ==
    ASSUME NEW w, Kept(w, FALSE), w.c.st \in Shaking, w.net.up = << >>, w.net.down = << >>,
           NEW v, Shape(v), ClientOK(v.c), v.t = w.t, v.net = w.net, v.c.fd = w.c.fd,
           v.c.st \in Shaking, NEW k \in Ups(v.c.st)
    PROVE  LET u == append(v, <<Hello(k)>>)
           IN  Kept(u, FALSE) /\ u.c.st \in Shaking /\ u.t = w.t /\ u.c.fd = w.c.fd
<1> DEFINE u == append(v, <<Hello(k)>>)
<1>1. TportOK(v.t) /\ (v.net.alive => v.c.fd) /\ v.net.up = << >> /\ v.net.down = << >>
  BY DEF Kept, Sound
<1>2. Sound(u) /\ u.c = v.c /\ u.t = v.t
  BY <1>1, Greets
<1> HIDE DEF u
<1>3. Told(u, FALSE)
  BY <1>2, ShakingTold DEF Kept
<1>4. Kept(u, FALSE) /\ u.c.st \in Shaking /\ u.t = w.t /\ u.c.fd = w.c.fd
  BY <1>2, <1>3 DEF Kept
<1> QED BY <1>4 DEF u

\* The steps of the handshake, but for the last.
LEMMA ShakeKept ==
    ASSUME NEW w, Kept(w, FALSE), w.c.st \in Shaking, w.net.up = << >>, w.net.down = << >>,
           NEW k \in Downs(w.c.st) \ {"bad", "conn"}
    PROVE  LET u == process(w, Hello(k))
           IN  Kept(u, FALSE) /\ u.c.st \in Shaking /\ u.t = w.t /\ u.c.fd = w.c.fd
<1>0. /\ Sound(w) /\ Told(w, FALSE) /\ Shape(w) /\ ClientOK(w.c) /\ TportOK(w.t)
      /\ w.net.alive => w.c.fd
  BY DEF Kept, Sound
<1>1. CASE k = "vers"
  <2> DEFINE v == [w EXCEPT !.c.st = "info"]
  <2>1. process(w, Hello(k)) = append(v, <<Hello("vers")>>)
    BY <1>1 DEF process, Hello
  <2>2. /\ Shape(v) /\ v.t = w.t /\ v.net = w.net /\ v.c.st = "info"
        /\ \A f \in CF \ {"st"} : v.c[f] = w.c[f]
    BY <1>0 DEF Shape, CF
  <2> HIDE DEF v
  <2>3. ClientOK(v.c) /\ v.c.fd = w.c.fd
    BY <1>0, <2>2 DEF ClientOK, CF, States, Shaking
  <2>4. v.c.st \in Shaking /\ "vers" \in Ups(v.c.st)
    BY <2>2 DEF Shaking, States, Ups
  <2>5. Shape(v) /\ v.t = w.t /\ v.net = w.net
    BY <2>2
  <2>6. LET u == append(v, <<Hello("vers")>>)
        IN  Kept(u, FALSE) /\ u.c.st \in Shaking /\ u.t = w.t /\ u.c.fd = w.c.fd
    BY <2>3, <2>4, <2>5, GreetKept
  <2> QED BY <2>1, <2>6
<1>2. CASE k = "info2"
  <2>1. process(w, Hello(k)) = append(w, <<Hello("info")>>)
    BY <1>2 DEF process, Hello
  <2>2. "info" \in Ups(w.c.st)
    BY <1>2 DEF Ups, Downs
  <2>3. LET u == append(w, <<Hello("info")>>)
        IN  Kept(u, FALSE) /\ u.c.st \in Shaking /\ u.t = w.t /\ u.c.fd = w.c.fd
    BY <1>0, <2>2, GreetKept
  <2> QED BY <2>1, <2>3
<1>3. CASE k = "info1"
  <2> DEFINE v == [w EXCEPT !.c.st = "init"]
  <2>1. process(w, Hello(k)) = append(v, <<Hello("init")>>)
    BY <1>3 DEF process, Hello
  <2>2. /\ Shape(v) /\ v.t = w.t /\ v.net = w.net /\ v.c.st = "init"
        /\ \A f \in CF \ {"st"} : v.c[f] = w.c[f]
    BY <1>0 DEF Shape, CF
  <2> HIDE DEF v
  <2>3. ClientOK(v.c) /\ v.c.fd = w.c.fd
    BY <1>0, <2>2 DEF ClientOK, CF, States, Shaking
  <2>4. v.c.st \in Shaking /\ "init" \in Ups(v.c.st)
    BY <2>2 DEF Shaking, States, Ups
  <2>5. Shape(v) /\ v.t = w.t /\ v.net = w.net
    BY <2>2
  <2>6. LET u == append(v, <<Hello("init")>>)
        IN  Kept(u, FALSE) /\ u.c.st \in Shaking /\ u.t = w.t /\ u.c.fd = w.c.fd
    BY <2>3, <2>4, <2>5, GreetKept
  <2> QED BY <2>1, <2>6
<1>4. CASE k = "resp"
  <2> DEFINE v == [w EXCEPT !.c.st = "conn", !.c.sess = TRUE]
  <2>1. process(w, Hello(k)) = append(v, <<Hello("init2")>>)
    BY <1>4 DEF process, Hello, recv_info
  <2>2. /\ Shape(v) /\ v.t = w.t /\ v.net = w.net /\ v.c.st = "conn" /\ v.c.sess = TRUE
        /\ \A f \in CF \ {"st", "sess"} : v.c[f] = w.c[f]
    BY <1>0 DEF Shape, CF
  <2> HIDE DEF v
  <2>3. ClientOK(v.c) /\ v.c.fd = w.c.fd
    BY <1>0, <2>2 DEF ClientOK, CF, States, Shaking
  <2>4. v.c.st \in Shaking /\ "init2" \in Ups(v.c.st)
    BY <2>2 DEF Shaking, States, Ups
  <2>5. Shape(v) /\ v.t = w.t /\ v.net = w.net
    BY <2>2
  <2>6. LET u == append(v, <<Hello("init2")>>)
        IN  Kept(u, FALSE) /\ u.c.st \in Shaking /\ u.t = w.t /\ u.c.fd = w.c.fd
    BY <2>3, <2>4, <2>5, GreetKept
  <2> QED BY <2>1, <2>6
<1>5. k \in {"vers", "info2", "info1", "resp"}
  BY DEF Downs
<1> QED BY <1>1, <1>2, <1>3, <1>4, <1>5


\* recv_conn: the handshake ends.
LEMMA ConnKept ==
    ASSUME NEW w, Kept(w, FALSE), w.c.st = "conn", w.net.up = << >>, w.net.down = << >>
    PROVE  LET u == recv_conn(w)
           IN  /\ Kept(u, FALSE) /\ u.c.st = "data" /\ u.c.fd = w.c.fd
               /\ \A f \in TF \ {"armed", "x", "told", "misled"} : u.t[f] = w.t[f]
<1> DEFINE v == [w EXCEPT !.c.st = "data"]
           a == append(v, <<Sub("L", Inbox)>>)
           b == on_connect(a)
           u == flush_pending_send(b)
<1>1. recv_conn(w) = u
  BY DEF recv_conn
<1>2. /\ Shape(v) /\ v.t = w.t /\ v.net = w.net /\ v.c.st = "data"
      /\ \A f \in CF \ {"st"} : v.c[f] = w.c[f]
  BY DEF Kept, Sound, Shape, CF
<1> HIDE DEF v
<1>3. ClientOK(v.c)
  BY <1>2 DEF Kept, Sound, ClientOK, CF, States
<1>4. << >> \in Seq(Payload) /\ << >> \in Seq(Answer) /\ <<Sub("L", Inbox)>> \in Seq(Payload)
  BY DEF Sub, Payload
<1>5. v.c.fd = w.c.fd
  BY <1>2 DEF CF
<1>6. Sound(v)
  BY <1>2, <1>3, <1>4, <1>5 DEF Kept, Sound, Stage
<1>7. Sends(v, a)
  BY <1>2, <1>4, <1>6, AppendSends
<1> HIDE DEF a
<1>8. Sound(a) /\ a.t = w.t /\ a.c.st = "data" /\ a.c.fd = w.c.fd
  BY <1>2, <1>5, <1>7 DEF Sends, CF
<1>9. /\ a.t.told # "none" => a.t.listening
      /\ a.t.listening => a.t.handed = "ok"
      /\ a.t.handed = "ok" => a.t.x
      /\ ~a.t.destroyed /\ a.t.told # "none" => a.t.armed
  BY <1>8 DEF Kept, Told, Abandoned
<1>10. /\ Kept(b, FALSE) /\ b.c.st = "data" /\ b.c.fd = w.c.fd
       /\ \A f \in TF \ {"armed", "x", "told", "misled"} : b.t[f] = w.t[f]
  <2>1. /\ Kept(b, FALSE) /\ b.c.st = "data"
        /\ \A f \in CF \ {"save"} : b.c[f] = a.c[f]
        /\ \A f \in TF \ {"armed", "x", "told", "misled"} : b.t[f] = a.t[f]
    BY <1>8, <1>9, ConnectKept
  <2> HIDE DEF b
  <2> QED BY <1>8, <2>1 DEF CF
<1> HIDE DEF b
<1>11. Sends(b, u)
  BY <1>10, FlushSends DEF Kept
<1> HIDE DEF u
<1>12. Kept(u, FALSE)
  BY <1>10, <1>11, SendsKept
<1>13. u.c.st = "data" /\ u.c.fd = w.c.fd /\ u.t = b.t
  BY <1>10, <1>11 DEF Sends, CF
<1> QED BY <1>1, <1>10, <1>12, <1>13

\* A message the client cannot read.
LEMMA ErrorKept ==
    ASSUME NEW w, Kept(w, FALSE), w.c.fd,
           w.c.st \in Shaking => w.net.up = << >> /\ w.net.down = << >>
    PROVE  LET u == process_error(w)
           IN  /\ Kept(u, FALSE) /\ u.c.st = "closed" /\ u.c.fd = w.c.fd
               /\ \A f \in TF \ {"misled"} : u.t[f] = w.t[f]
<1> DEFINE u == process_error(w)
<1>1. /\ Shape(u) /\ u.net = w.net /\ u.c.st = "closed" /\ u.c.closing = TRUE
      /\ \A f \in CF \ {"st", "closing"} : u.c[f] = w.c[f]
      /\ u.t.misled = (w.t.misled \/ w.c.st = "data")
      /\ \A f \in TF \ {"misled"} : u.t[f] = w.t[f]
  BY DEF process_error, Kept, Sound, Shape, CF, TF
<1> HIDE DEF u
<1>2. << >> \in Seq(Payload) /\ << >> \in Seq(Answer)
  OBVIOUS
<1>3. Stage(u.c.st, u.net.up, u.net.down)
  <2>1. w.c.st \in States
    BY DEF Kept, Sound, ClientOK
  <2> QED BY <1>1, <1>2, <2>1 DEF Kept, Sound, Stage, Shaking
<1>4. u.c.fd = w.c.fd /\ u.c.save = w.c.save /\ u.c.sess = w.c.sess
  BY <1>1 DEF CF
<1>5. ClientOK(u.c)
  BY <1>1, <1>4 DEF Kept, Sound, ClientOK, States
<1>6. TportOK(u.t)
  BY <1>1 DEF Kept, Sound, TportOK, TF
<1>7. Sound(u)
  BY <1>1, <1>3, <1>4, <1>5, <1>6 DEF Kept, Sound
<1>8. /\ u.t.told = w.t.told /\ u.t.listening = w.t.listening /\ u.t.handed = w.t.handed
      /\ u.t.x = w.t.x /\ u.t.destroyed = w.t.destroyed /\ u.t.armed = w.t.armed
  BY <1>1 DEF TF
<1>9. Told(u, FALSE)
  BY <1>1, <1>8 DEF Kept, Told, Abandoned
<1> QED BY <1>1, <1>4, <1>7, <1>9 DEF Kept, u


\* A reply changes the list of requests.
LEMMA ReplyKept ==
    ASSUME NEW w, NEW rel, Kept(w, rel), NEW m
    PROVE  LET u == on_rv_msg(w, m)
           IN  /\ Kept(u, rel) /\ u.c = w.c /\ u.net = w.net
               /\ \A f \in TF \ {"rpc_list"} : u.t[f] = w.t[f]
<1> DEFINE k == SelectInSeq(w.t.rpc_list, LAMBDA r : r.n = m.n)
           v == [w EXCEPT !.t.rpc_list[k].reply = m.rq]
           u == on_rv_msg(w, m)
<1>1. u \in {w, v}
  BY DEF on_rv_msg
<1>2. /\ Shape(v) /\ v.c = w.c /\ v.net = w.net
      /\ \A f \in TF \ {"rpc_list"} : v.t[f] = w.t[f]
  <2> HIDE DEF k
  <2> QED BY DEF Kept, Sound, Shape, TF
<1> HIDE DEF v, u
<1>3. Kept(v, rel)
  <2>1. TportOK(v.t)
    BY <1>2 DEF Kept, Sound, TportOK, TF
  <2>2. Sound(v)
    BY <1>2, <2>1 DEF Kept, Sound
  <2>3. Told(v, rel)
    BY <1>2 DEF Kept, Told, Abandoned, TF
  <2> QED BY <2>2, <2>3 DEF Kept
<1>4. CASE u = w
  BY <1>4 DEF u
<1>5. CASE u = v
  BY <1>2, <1>3, <1>5 DEF u
<1> QED BY <1>1, <1>4, <1>5

\* What no message that the client reads changes.
Quietly == TF \ {"armed", "x", "told", "misled", "rpc_list"}

\* The client reads a message, whatever it is.
LEMMA ReadKept ==
    ASSUME NEW w, Kept(w, FALSE), w.c.fd, w.net.down # << >>
    PROVE  LET u == process([w EXCEPT !.net.down = Tail(@)], Head(w.net.down))
           IN  /\ Kept(u, FALSE) /\ u.c.fd = w.c.fd
               /\ \A f \in Quietly : u.t[f] = w.t[f]
               /\ w.c.st \in {"data", "closed"} => u.c.st \in {"data", "closed"}
<1> DEFINE v == [w EXCEPT !.net.down = Tail(@)]
           m == Head(w.net.down)
           u == process(v, m)
<1>1. /\ Sound(v) /\ v.c = w.c /\ v.t = w.t
      /\ v.net.alive = w.net.alive /\ v.net.up = w.net.up
      /\ \/ w.c.st \in {"data", "closed"} /\ m \in Answer
         \/ /\ w.c.st \in Shaking /\ v.net.up = << >> /\ v.net.down = << >>
            /\ \E k \in Downs(w.c.st) : m = Hello(k)
  BY TakeDown DEF Kept
<1> HIDE DEF v, m
<1>2. Kept(v, FALSE)
  BY <1>1 DEF Kept, Told, Abandoned
<1>3. CASE w.c.st \in {"data", "closed"} /\ m \in Answer
  <2>1. CASE m.k = "R"
    <3>1. u = on_rv_msg(v, m)
      BY <2>1 DEF process
    <3>2. /\ Kept(on_rv_msg(v, m), FALSE) /\ on_rv_msg(v, m).c = v.c
          /\ \A f \in TF \ {"rpc_list"} : on_rv_msg(v, m).t[f] = v.t[f]
      BY <1>2, ReplyKept
    <3> HIDE DEF u
    <3> QED BY <1>1, <1>3, <3>1, <3>2 DEF Quietly, u, v, m
  <2>2. CASE m = Hello("bad")
    <3>1. u = process_error(v)
      BY <2>2 DEF process, Hello
    <3>2. v.c.st \notin Shaking
      BY <1>1, <1>3 DEF Shaking
    <3>3. /\ Kept(process_error(v), FALSE) /\ process_error(v).c.st = "closed"
          /\ process_error(v).c.fd = v.c.fd
          /\ \A f \in TF \ {"misled"} : process_error(v).t[f] = v.t[f]
      BY <1>1, <1>2, <3>2, ErrorKept
    <3> HIDE DEF u
    <3> QED BY <1>1, <3>1, <3>3 DEF Quietly, u, v, m
  <2> QED BY <1>3, <2>1, <2>2 DEF Answer
<1>4. CASE /\ w.c.st \in Shaking /\ v.net.up = << >> /\ v.net.down = << >>
           /\ \E k \in Downs(w.c.st) : m = Hello(k)
  <2>1. PICK k \in Downs(w.c.st) : m = Hello(k)
    BY <1>4
  <2>2. CASE k = "conn"
    <3>1. u = recv_conn(v)
      BY <2>1, <2>2 DEF process, Hello
    <3>2. v.c.st = "conn"
      BY <1>1, <1>4, <2>2 DEF Downs
    <3>3. /\ Kept(recv_conn(v), FALSE) /\ recv_conn(v).c.st = "data" /\ recv_conn(v).c.fd = v.c.fd
          /\ \A f \in TF \ {"armed", "x", "told", "misled"} : recv_conn(v).t[f] = v.t[f]
      BY <1>2, <1>4, <3>2, ConnKept
    <3> HIDE DEF u
    <3> QED BY <1>1, <3>1, <3>3 DEF Quietly, u, v, m
  <2>3. CASE k = "bad"
    <3>1. u = process_error(v)
      BY <2>1, <2>3 DEF process, Hello
    <3>2. /\ Kept(process_error(v), FALSE) /\ process_error(v).c.st = "closed"
          /\ process_error(v).c.fd = v.c.fd
          /\ \A f \in TF \ {"misled"} : process_error(v).t[f] = v.t[f]
      BY <1>1, <1>2, <1>4, ErrorKept
    <3> HIDE DEF u
    <3> QED BY <1>1, <3>1, <3>2 DEF Quietly, u, v, m
  <2>4. CASE k \notin {"bad", "conn"}
    <3>1. k \in Downs(v.c.st) \ {"bad", "conn"} /\ v.c.st \in Shaking
      BY <1>1, <1>4, <2>1, <2>4
    <3>2. /\ Kept(process(v, Hello(k)), FALSE) /\ process(v, Hello(k)).t = v.t
          /\ process(v, Hello(k)).c.fd = v.c.fd
      BY <1>2, <1>4, <3>1, ShakeKept
    <3>3. u = process(v, Hello(k))
      BY <2>1
    <3>4. w.c.st \notin {"data", "closed"}
      BY <1>4 DEF Shaking
    <3> HIDE DEF u
    <3> QED BY <1>1, <3>2, <3>3, <3>4 DEF u, v, m
  <2> QED BY <2>2, <2>3, <2>4
<1> QED BY <1>1, <1>3, <1>4

-----------------------------------------------------------------------------
(* The other steps of the event thread.                                    *)

\* rv_connect changes nothing on an open connection, and starts a handshake otherwise.
LEMMA ConnectsKept ==
    ASSUME NEW w, Kept(w, FALSE), NEW ok \in BOOLEAN
    PROVE  LET u == rv_connect(w, ok) IN Kept(u, FALSE) /\ u.t = w.t /\ (w.c.fd => u = w)
<1> DEFINE k == [w.c EXCEPT !.st = IF ok THEN "vers" ELSE "closed", !.fd = ok,
                            !.save = << >>, !.sess = FALSE]
           v == [w EXCEPT !.c = k, !.net = IF ok THEN NewNet ELSE @]
<1>1. CASE w.c.fd
  BY <1>1 DEF rv_connect
<1>2. CASE ~w.c.fd
  <2>1. rv_connect(w, ok) = v
    BY <1>2 DEF rv_connect
  <2>2. /\ Shape(v) /\ v.t = w.t /\ v.net = (IF ok THEN NewNet ELSE w.net)
        /\ v.c.st = (IF ok THEN "vers" ELSE "closed") /\ v.c.fd = ok
        /\ v.c.save = << >> /\ v.c.sess = FALSE /\ v.c.closing = w.c.closing
    BY DEF Kept, Sound, Shape, CF, NewNet, NF
  <2> HIDE DEF v
  <2>3. w.c.st = "closed" /\ ~w.c.closing /\ ~w.net.alive
    BY <1>2 DEF Kept, Sound, ClientOK
  <2>4. << >> \in Seq(Payload)
    OBVIOUS
  <2>5. ClientOK(v.c)
    BY <2>2, <2>3, <2>4 DEF ClientOK, States, Kept, Sound
  <2>6. CASE ok
    <3>1. v.net.up = << >> /\ v.net.down = <<Hello("vers")>> /\ v.c.st = "vers" /\ v.c.fd
      BY <2>2, <2>6 DEF NewNet
    <3>2. Stage(v.c.st, v.net.up, v.net.down)
      BY <3>1 DEF Stage, Downs
    <3>3. Sound(v)
      BY <2>2, <2>5, <3>1, <3>2 DEF Kept, Sound
    <3>4. Told(v, FALSE)
      BY <2>2, <2>3, <3>1 DEF Kept, Told, Abandoned
    <3> QED BY <1>2, <2>1, <2>2, <3>3, <3>4 DEF Kept
  <2>7. CASE ~ok
    <3>1. v.net = w.net /\ v.c.st = "closed"
      BY <2>2, <2>7
    <3>2. Sound(v)
      BY <2>2, <2>3, <2>5, <3>1 DEF Kept, Sound
    <3>3. Told(v, FALSE)
      BY <2>2, <2>3, <3>1 DEF Kept, Told, Abandoned
    <3> QED BY <1>2, <2>1, <2>2, <3>2, <3>3 DEF Kept
  <2> QED BY <2>6, <2>7
<1> QED BY <1>1, <1>2

\* A change of the timer's own fields.
LEMMA TicksKept ==
    ASSUME NEW w, Kept(w, FALSE), NEW n \in 0..(MaxTicks - 1)
    PROVE  LET u == [w EXCEPT !.t.ticks = n]
           IN  Kept(u, FALSE) /\ u.c = w.c /\ \A f \in TF \ {"ticks"} : u.t[f] = w.t[f]
<1> DEFINE u == [w EXCEPT !.t.ticks = n]
<1>1. /\ Shape(u) /\ u.c = w.c /\ u.net = w.net /\ u.t.ticks = n
      /\ \A f \in TF \ {"ticks"} : u.t[f] = w.t[f]
  BY DEF Kept, Sound, Shape, TF
<1> HIDE DEF u
<1>2. TportOK(u.t)
  BY <1>1 DEF Kept, Sound, TportOK, TF
<1>3. Sound(u)
  BY <1>1, <1>2 DEF Kept, Sound
<1>4. Told(u, FALSE)
  BY <1>1 DEF Kept, Told, Abandoned, TF
<1> QED BY <1>1, <1>3, <1>4 DEF Kept, u

\* That the connection is to be closed changes nothing else.
LEMMA ClosingKept ==
    ASSUME NEW w, Kept(w, FALSE), w.c.fd
    PROVE  LET u == [w EXCEPT !.c.closing = TRUE]
           IN  Kept(u, FALSE) /\ u.t = w.t /\ u.c.st = w.c.st /\ u.c.fd = w.c.fd
<1> DEFINE u == [w EXCEPT !.c.closing = TRUE]
<1>1. /\ Shape(u) /\ u.t = w.t /\ u.net = w.net /\ u.c.closing = TRUE
      /\ \A f \in CF \ {"closing"} : u.c[f] = w.c[f]
  BY DEF Kept, Sound, Shape, CF
<1> HIDE DEF u
<1>2. ClientOK(u.c)
  BY <1>1 DEF Kept, Sound, ClientOK, CF
<1>3. u.c.st = w.c.st /\ u.c.fd = w.c.fd
  BY <1>1 DEF CF
<1>4. Sound(u)
  BY <1>1, <1>2, <1>3 DEF Kept, Sound
<1>5. Told(u, FALSE)
  BY <1>1, <1>3 DEF Kept, Told, Abandoned
<1> QED BY <1>1, <1>3, <1>4, <1>5 DEF Kept, u

\* The timer stops.
LEMMA DisarmKept ==
    ASSUME NEW w, Kept(w, FALSE), w.t.destroyed \/ w.c.st = "data" \/ w.t.told = "none"
    PROVE  LET u == [w EXCEPT !.t.armed = FALSE]
           IN  Kept(u, FALSE) /\ u.c = w.c /\ u.net = w.net /\ \A f \in TF \ {"armed"} : u.t[f] = w.t[f]
<1> DEFINE u == [w EXCEPT !.t.armed = FALSE]
<1>1. /\ Shape(u) /\ u.c = w.c /\ u.net = w.net /\ u.t.armed = FALSE
      /\ \A f \in TF \ {"armed"} : u.t[f] = w.t[f]
  BY DEF Kept, Sound, Shape, TF
<1> HIDE DEF u
<1>2. TportOK(u.t)
  BY <1>1 DEF Kept, Sound, TportOK, TF
<1>3. Sound(u)
  BY <1>1, <1>2 DEF Kept, Sound
<1>4. Told(u, FALSE)
  BY <1>1 DEF Kept, Told, Abandoned, TF
<1> QED BY <1>1, <1>3, <1>4 DEF Kept, u

\* The reconnect timer.
LEMMA TimerKept ==
    ASSUME NEW w, Kept(w, FALSE), NEW ok \in BOOLEAN
    PROVE  LET u == timer_cb(w, ok)
           IN  /\ Kept(u, FALSE) /\ \A f \in TF \ {"armed", "ticks"} : u.t[f] = w.t[f]
               /\ w.c.fd => u.c.fd = w.c.fd /\ u.c.st = w.c.st
<1>1. CASE w.t.destroyed \/ w.c.st = "data"
  <2> DEFINE u == [w EXCEPT !.t.armed = FALSE]
  <2>1. timer_cb(w, ok) = u
    BY <1>1 DEF timer_cb
  <2>2. Kept(u, FALSE) /\ u.c = w.c /\ \A f \in TF \ {"armed"} : u.t[f] = w.t[f]
    BY <1>1, DisarmKept
  <2> HIDE DEF u
  <2> QED BY <2>1, <2>2
<1>2. CASE ~(w.t.destroyed \/ w.c.st = "data") /\ ~w.c.fd
  <2> DEFINE v == [w EXCEPT !.t.ticks = 0]
  <2>1. timer_cb(w, ok) = rv_connect(v, ok)
    BY <1>2 DEF timer_cb
  <2>2. Kept(v, FALSE) /\ v.c = w.c /\ \A f \in TF \ {"ticks"} : v.t[f] = w.t[f]
    BY NoTicks, TicksKept
  <2> HIDE DEF v
  <2>3. Kept(rv_connect(v, ok), FALSE) /\ rv_connect(v, ok).t = v.t
    BY <2>2, ConnectsKept
  <2> QED BY <1>2, <2>1, <2>2, <2>3
<1>3. CASE ~(w.t.destroyed \/ w.c.st = "data") /\ w.c.fd /\ w.t.ticks + 1 >= MaxTicks
  <2> DEFINE v == [w EXCEPT !.t.ticks = 0]
             u == [v EXCEPT !.c.closing = TRUE]
  <2>1. timer_cb(w, ok) = u
    BY <1>3 DEF timer_cb
  <2>2. Kept(v, FALSE) /\ v.c = w.c /\ \A f \in TF \ {"ticks"} : v.t[f] = w.t[f]
    BY NoTicks, TicksKept
  <2> HIDE DEF v
  <2>3. Kept(u, FALSE) /\ u.t = v.t /\ u.c.st = v.c.st /\ u.c.fd = v.c.fd
    BY <1>3, <2>2, ClosingKept
  <2> HIDE DEF u
  <2> QED BY <2>1, <2>2, <2>3
<1>4. CASE ~(w.t.destroyed \/ w.c.st = "data") /\ w.c.fd /\ ~(w.t.ticks + 1 >= MaxTicks)
  <2> DEFINE v == [w EXCEPT !.t.ticks = w.t.ticks + 1]
  <2>1. timer_cb(w, ok) = v
    BY <1>4 DEF timer_cb
  <2>2. w.t.ticks + 1 \in 0..(MaxTicks - 1)
    BY <1>4, TransportAssumption DEF Kept, Sound, TportOK
  <2>3. Kept(v, FALSE) /\ v.c = w.c /\ \A f \in TF \ {"ticks"} : v.t[f] = w.t[f]
    BY <2>2, TicksKept
  <2> HIDE DEF v
  <2> QED BY <2>1, <2>3
<1> QED BY <1>1, <1>2, <1>3, <1>4


\* close_tport stops the timer, and only when nobody waits for it to reconnect.
LEMMA CloseKept ==
    ASSUME NEW w, Kept(w, FALSE), w.t.destroyed \/ w.t.told = "none"
    PROVE  LET u == close_tport(w)
           IN  /\ Kept(u, FALSE) /\ u.c.st = w.c.st /\ u.c.fd = w.c.fd
               /\ \A f \in TF \ {"armed"} : u.t[f] = w.t[f]
<1> DEFINE v == [w EXCEPT !.t.armed = FALSE]
           u == close_tport(w)
<1>1. Kept(v, FALSE) /\ v.c = w.c /\ v.net = w.net /\ \A f \in TF \ {"armed"} : v.t[f] = w.t[f]
  BY DisarmKept
<1>2. u = [v EXCEPT !.c.closing = w.c.fd]
  BY DEF close_tport
<1> HIDE DEF v, u
<1>3. /\ Shape(u) /\ u.t = v.t /\ u.net = w.net /\ u.c.closing = w.c.fd
      /\ \A f \in CF \ {"closing"} : u.c[f] = w.c[f]
  BY <1>1, <1>2 DEF Kept, Sound, Shape, CF
<1>4. ClientOK(u.c)
  BY <1>3 DEF Kept, Sound, ClientOK, CF
<1>5. u.c.st = w.c.st /\ u.c.fd = w.c.fd
  BY <1>3 DEF CF
<1>6. Sound(u)
  BY <1>1, <1>3, <1>4, <1>5 DEF Kept, Sound
<1>7. Told(u, FALSE)
  <2>1. u.t.destroyed \/ u.t.told = "none"
    BY <1>1, <1>3 DEF TF
  <2> QED BY <1>1, <1>3, <2>1 DEF Kept, Told
<1> QED BY <1>1, <1>3, <1>5, <1>6, <1>7 DEF Kept, u

\* Draining the buffer of a thread, and the common one.
LEMMA DrainWriterKept ==
    ASSUME NEW w, Kept(w, FALSE), NEW th \in Threads
    PROVE  LET u == drain_writer(w, th)
           IN  /\ Kept(u, FALSE) /\ u.c.st = w.c.st /\ u.c.fd = w.c.fd
               /\ u.t.ctx = [w.t.ctx EXCEPT ![th] = << >>]
               /\ \A f \in TF \ {"ctx"} : u.t[f] = w.t[f]
<1> DEFINE v == queue_send(w, w.t.ctx[th])
           u == [v EXCEPT !.t.ctx[th] = << >>]
<1>1. drain_writer(w, th) = u
  BY DEF drain_writer, publish
<1>2. w.t.ctx[th] \in Seq(Payload)
  BY DEF Kept, Sound, TportOK
<1>3. Sends(w, v)
  BY <1>2, QueueSends DEF Kept
<1> HIDE DEF v
<1>4. Kept(v, FALSE) /\ v.t = w.t /\ v.c.st = w.c.st /\ v.c.fd = w.c.fd
  BY <1>3, SendsKept DEF Sends, CF
<1>5. /\ Shape(u) /\ u.c = v.c /\ u.net = v.net /\ u.t.ctx = [w.t.ctx EXCEPT ![th] = << >>]
      /\ \A f \in TF \ {"ctx"} : u.t[f] = w.t[f]
  BY <1>4 DEF Kept, Sound, Shape, TF
<1> HIDE DEF u
<1>6. << >> \in Seq(Payload)
  OBVIOUS
<1>7. u.t.ctx \in [Threads -> Seq(Payload)]
  BY <1>5, <1>6 DEF Kept, Sound, TportOK
<1>8. TportOK(u.t)
  BY <1>5, <1>7 DEF Kept, Sound, TportOK, TF
<1>9. Sound(u)
  BY <1>4, <1>5, <1>8 DEF Kept, Sound
<1>10. Told(u, FALSE)
  BY <1>4, <1>5 DEF Kept, Told, Abandoned, TF
<1> QED BY <1>1, <1>4, <1>5, <1>9, <1>10 DEF Kept

\* drain_fill empties the shared batch; what was in it goes out, or is saved.
LEMMA DrainFillKept ==
    ASSUME NEW w, Kept(w, FALSE)
    PROVE  LET u == drain_fill(w)
           IN  /\ Kept(u, FALSE) /\ u.c.st = w.c.st /\ u.c.fd = w.c.fd
               /\ u.t.sb_fill = << >> /\ u.t.sb_pending = FALSE
               /\ \A f \in TF \ {"sb_fill", "sb_pending"} : u.t[f] = w.t[f]
<1> DEFINE v == queue_send(w, w.t.sb_fill)
           u == [v EXCEPT !.t.sb_fill = << >>, !.t.sb_pending = FALSE]
<1>1. drain_fill(w) = u
  BY DEF drain_fill, publish
<1>2. Sends(w, v)
  BY QueueSends DEF Kept, Sound, TportOK
<1> HIDE DEF v
<1>3. Kept(v, FALSE) /\ v.t = w.t /\ v.c.st = w.c.st /\ v.c.fd = w.c.fd
  BY <1>2, SendsKept DEF Sends, CF
<1>4. /\ Shape(u) /\ u.c = v.c /\ u.net = v.net /\ u.t.sb_fill = << >> /\ u.t.sb_pending = FALSE
      /\ \A f \in TF \ {"sb_fill", "sb_pending"} : u.t[f] = w.t[f]
  BY <1>3 DEF Kept, Sound, Shape, TF
<1> HIDE DEF u
<1>5. << >> \in Seq(Payload)
  OBVIOUS
<1>6. TportOK(u.t)
  BY <1>4, <1>5 DEF Kept, Sound, TportOK, TF
<1>7. Sound(u)
  BY <1>3, <1>4, <1>6 DEF Kept, Sound
<1>8. Told(u, FALSE)
  BY <1>3, <1>4 DEF Kept, Told, Abandoned, TF
<1> QED BY <1>1, <1>3, <1>4, <1>7, <1>8 DEF Kept

\* What is posted to the event thread.
Arg(op) ==
    IF op \in {"SUBSCRIBE", "UNSUBSCRIBE"} THEN Listeners
    ELSE IF op = "TPORT_SEND" THEN [k : {"D"}, th : Threads, i : Nat, n : Nat] ELSE {0}

\* What the pipe may hold, and what running it keeps.
Runnable(w, r) ==
    /\ r.op \in {"CREATE_TPORT", "SUBSCRIBE", "UNSUBSCRIBE", "TPORT_SEND", "CLOSE_TPORT"}
    /\ r.arg \in Arg(r.op)
    /\ r.op = "CLOSE_TPORT" => w.t.destroyed \/ w.t.told = "none"
Ran(w, u) ==
    /\ Kept(u, FALSE) /\ \A f \in TF \ {"armed"} : u.t[f] = w.t[f]
    /\ w.c.fd => u.c.st = w.c.st /\ u.c.fd = w.c.fd

\* What the event thread does for a thread that has posted keeps the world sound.
LEMMA RunKept ==
    ASSUME NEW w, Kept(w, FALSE), NEW ok \in BOOLEAN, NEW r, Runnable(w, r)
    PROVE  Ran(w, run(w, r, ok))
<1> USE DEF Runnable
<1>0. SUFFICES LET u == run(w, r, ok)
               IN  /\ Kept(u, FALSE) /\ \A f \in TF \ {"armed"} : u.t[f] = w.t[f]
                   /\ w.c.fd => u.c.st = w.c.st /\ u.c.fd = w.c.fd
  BY DEF Ran
<1>1. ASSUME NEW ms \in Seq(Payload), run(w, r, ok) = queue_send(w, ms)
      PROVE  LET u == run(w, r, ok)
             IN  Kept(u, FALSE) /\ u.t = w.t /\ u.c.st = w.c.st /\ u.c.fd = w.c.fd
  <2> DEFINE u == queue_send(w, ms)
  <2>1. Sends(w, u)
    BY QueueSends DEF Kept
  <2> HIDE DEF u
  <2>2. Kept(u, FALSE) /\ u.t = w.t /\ u.c.st = w.c.st /\ u.c.fd = w.c.fd
    BY <2>1, SendsKept DEF Sends, CF
  <2> QED BY <1>1, <2>2 DEF u
<1>2. CASE r.op = "CREATE_TPORT"
  <2> DEFINE u == rv_connect(w, ok)
  <2>1. run(w, r, ok) = u
    BY <1>2 DEF run
  <2>2. Kept(u, FALSE) /\ u.t = w.t /\ (w.c.fd => u = w)
    BY ConnectsKept
  <2> HIDE DEF u
  <2> QED BY <1>2, <2>1, <2>2
<1>3. CASE r.op \in {"SUBSCRIBE", "UNSUBSCRIBE"}
  <2> DEFINE k  == IF r.op = "SUBSCRIBE" THEN "L" ELSE "C"
             ss == <<Subject[r.arg]>>
             ms == [i \in DOMAIN ss |-> Sub(k, ss[i])]
  <2>1. run(w, r, ok) = queue_send(w, ms)
    BY <1>3 DEF run, subscribe, unsubscribe
  <2>2. ms \in Seq(Payload)
    <3>1. r.arg \in Listeners /\ Subject[r.arg] \in Subjects
      BY <1>3 DEF Arg, Subjects
    <3>2. ss \in [1..1 -> Subjects]
      BY <3>1
    <3>3. \A i \in 1..1 : Sub(k, ss[i]) \in Payload
      BY <3>2 DEF Sub, Payload
    <3>4. ms \in [1..1 -> Payload]
      BY <3>2, <3>3
    <3> QED BY <3>4
  <2> HIDE DEF ms
  <2> QED BY <1>1, <2>1, <2>2
<1>4. CASE r.op = "TPORT_SEND"
  <2>1. run(w, r, ok) = queue_send(w, <<r.arg>>)
    BY <1>4 DEF run, publish
  <2>2. <<r.arg>> \in Seq(Payload)
    BY <1>4 DEF Arg, Payload
  <2> QED BY <1>1, <2>1, <2>2
<1>5. CASE r.op = "CLOSE_TPORT"
  <2> DEFINE u == close_tport(w)
  <2>1. run(w, r, ok) = u
    BY <1>5 DEF run
  <2>2. /\ Kept(u, FALSE) /\ u.c.st = w.c.st /\ u.c.fd = w.c.fd
        /\ \A f \in TF \ {"armed"} : u.t[f] = w.t[f]
    BY <1>5, CloseKept
  <2> HIDE DEF u
  <2> QED BY <2>1, <2>2
<1> QED BY <1>2, <1>3, <1>4, <1>5

=============================================================================
