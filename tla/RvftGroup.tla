----------------------------- MODULE RvftGroup -----------------------------
(***************************************************************************)
(* A fault tolerant group of the tibrv API: members, a monitor, and the    *)
(* network between them.                                                   *)
(*                                                                         *)
(* chan[a][b] is what a has published, or its daemon of it, and b has not  *)
(* received.  A tick is longer than the latency of the network and than a  *)
(* callback: it passes when all is received and served, except by a member *)
(* that is held up.                                                        *)
(***************************************************************************)
EXTENDS RvftMember

CONSTANTS
    Monitor,      \* the monitor's place in chan
    Budget        \* how many times each kind of fault and call, and any, may happen

Kind == {"any", "lose", "crash", "stall", "destroy", "weight", "blip"}

ASSUME GroupAssumption == Budget \in [Kind -> Nat] /\ Monitor \notin Members

VARIABLES
    up,           \* which members run: "no", "yes", "gone"
    mem,          \* the members
    mon,          \* the monitor
    chan,         \* messages in flight
    left          \* what remains of the budget

vars == <<up, mem, mon, chan, left>>

Running(n) == up[n] = "yes"
Spend(k)   == left[k] > 0 /\ left["any"] > 0 /\ left' = [left EXCEPT ![k] = @ - 1, !["any"] = @ - 1]

\* Who listens to what: an INBOX message goes to one member, the monitor hears
\* of activity and of ends.
Hears(b, c) ==
    IF b = Monitor THEN c.k \in {"ACTIVE", "ACTIVE_STOP", "STOP", "down"}
    ELSE /\ Running(b) /\ ~mem[b].destroyed /\ b # c.from
         /\ c.to \in {0, b}

Sent(cs, a) == [b \in Members \union {Monitor} |-> chan[a][b] \o SelectSeq(cs, LAMBDA c : Hears(b, c))]

\* Member n becomes m; the message at the head of chan[src][n] is taken.
Become(n, m, src) ==
    /\ mem' = [mem EXCEPT ![n] = [m EXCEPT !.out = << >>]]
    /\ chan' = [a \in Members |->
                  IF a = n THEN Sent(m.out, n)
                  ELSE IF a = src THEN [chan[a] EXCEPT ![n] = Tail(@)]
                  ELSE chan[a]]

Alive      == {n \in Members : Running(n) /\ ~mem[n].destroyed}
Free(n, x) == Running(n) /\ mem[n].cont[x] = "none"

-----------------------------------------------------------------------------

Create(n) ==
    /\ up[n] = "no" /\ up' = [up EXCEPT ![n] = "yes"]
    /\ \E w \in Weights : Become(n, CreateFtMember(n, w), n)
    /\ UNCHANGED <<mon, left>>

Receive(n, x, a) ==
    /\ Free(n, x) /\ chan[a][n] # << >> /\ a # n
    /\ LET c == Head(chan[a][n])
       IN  Become(n, IF c.k = "down" THEN stopped_cb(mem[n], x, a) ELSE update_peer(mem[n], x, c), a)
    /\ UNCHANGED <<up, mon, left>>

Due(n, k) == mem[n].tm[k] # Off /\ mem[n].tm[k] >= Interval(k)

ServeTimer(n, x, k) ==
    /\ Free(n, x) /\ Due(n, k)
    /\ Become(n, timer_cb(mem[n], x, k), n)
    /\ UNCHANGED <<up, mon, left>>

Return(n, x) ==
    /\ Running(n) /\ mem[n].cont[x] # "none"
    /\ Become(n, resume(mem[n], x), n)
    /\ UNCHANGED <<up, mon, left>>

\* The application's calls, from any thread: in a callback too.
Destroy(n) ==
    /\ Running(n) /\ ~mem[n].destroyed /\ Spend("destroy")
    /\ LET m == DestroyFtMember(mem[n])
       IN  /\ mem' = [mem EXCEPT ![n] = [m EXCEPT !.out = << >>]]
           /\ chan' = [a \in Members |-> IF a = n THEN Sent(m.out, n) ELSE [chan[a] EXCEPT ![n] = << >>]]
    /\ UNCHANGED <<up, mon>>

SetWeight(n, w) ==
    /\ Running(n) /\ ~mem[n].destroyed /\ w # Me(mem[n]).weight /\ Spend("weight")
    /\ Become(n, SetFtMemberWeight(mem[n], w), n)
    /\ UNCHANGED <<up, mon>>

-----------------------------------------------------------------------------

MonitorReceive(a) ==
    /\ chan[a][Monitor] # << >>
    /\ LET c == Head(chan[a][Monitor])
       IN  mon' = IF c.k = "down" THEN MonitorStopped(mon, a) ELSE MonitorUpdate(mon, c)
    /\ chan' = [chan EXCEPT ![a][Monitor] = Tail(@)]
    /\ UNCHANGED <<up, mem, left>>

MonitorTimer ==
    /\ mon.inactive # Off /\ mon.inactive >= Lost
    /\ mon' = inactive_cb(mon)
    /\ UNCHANGED <<up, mem, chan, left>>

-----------------------------------------------------------------------------

Lose(a, b) ==
    /\ chan[a][b] # << >> /\ Spend("lose")
    /\ chan' = [chan EXCEPT ![a][b] = Tail(@)]
    /\ UNCHANGED <<up, mem, mon>>

\* The daemon says of n's session that it stopped.
Down(n) == Sent(<<[k |-> "down", from |-> n, to |-> 0, w |-> 0]>>, n)

\* A process ends, and its daemon says so; or its machine, and nobody does.
Crash(n) ==
    /\ Running(n) /\ Spend("crash")
    /\ up' = [up EXCEPT ![n] = "gone"] /\ mem' = [mem EXCEPT ![n] = NewMember(n, 0)]
    /\ \E said \in {Down(n), chan[n]} :
          chan' = [a \in Members |-> IF a = n THEN said ELSE [chan[a] EXCEPT ![n] = << >>]]
    /\ UNCHANGED mon

\* The connection of n is lost and made again: it is said to have stopped,
\* and keeps its inbox.
Blip(n) ==
    /\ Running(n) /\ Spend("blip")
    /\ chan' = [chan EXCEPT ![n] = Down(n)]
    /\ UNCHANGED <<up, mem, mon>>

Older(a)  == IF a = Off THEN Off ELSE IF a < Old THEN a + 1 ELSE Old
OlderPeers(m) ==
    [x \in Members |->
        IF Knows(m, x)
        THEN [m.peer[x] EXCEPT !.seen = Older(@), !.sync = Older(@), !.last_sync = Older(@)]
        ELSE NewPeer(0)]

Busy(n) ==
    /\ Running(n)
    /\ \/ \E x \in Dispatchers : mem[n].cont[x] # "none"
       \/ \E k \in Timer : Due(n, k) /\ ~mem[n].destroyed
       \/ \E a \in Members : chan[a][n] # << >>

MonitorBusy == (\E a \in Members : chan[a][Monitor] # << >>) \/ mon.inactive >= Lost

\* Nothing is left to happen.
Idle == Alive = {} /\ mon.inactive = Off /\ ~MonitorBusy

Tick ==
    /\ ~MonitorBusy /\ ~Idle
    /\ LET held == {n \in Members : Busy(n)}
       IN  IF held = {} THEN UNCHANGED left ELSE (\E n \in held : held = {n}) /\ Spend("stall")
    /\ mem' = [n \in Members |->
                 IF ~Running(n) THEN mem[n]
                 ELSE [mem[n] EXCEPT !.peer = OlderPeers(mem[n]), !.age = Older(@), !.prepared = Older(@),
                                     !.tm = [k \in Timer |-> Older(@[k])]]]
    /\ mon' = [mon EXCEPT !.peer = OlderPeers(mon), !.inactive = Older(@)]
    /\ UNCHANGED <<up, chan>>

Init ==
    /\ up = [n \in Members |-> "no"] /\ mem = [n \in Members |-> NewMember(n, 0)]
    /\ mon = NewMonitor /\ left = Budget
    /\ chan = [a \in Members |-> [b \in Members \union {Monitor} |-> << >>]]

Next ==
    \/ \E n \in Members :
          \/ Create(n) \/ Destroy(n) \/ Crash(n) \/ Blip(n) \/ MonitorReceive(n)
          \/ \E w \in Weights : SetWeight(n, w)
          \/ \E b \in Members \union {Monitor} : Lose(n, b)
          \/ \E x \in Dispatchers :
                \/ Return(n, x)
                \/ \E a \in Members : Receive(n, x, a)
                \/ \E k \in Timer : ServeTimer(n, x, k)
    \/ MonitorTimer \/ Tick

Spec     == Init /\ [][Next]_vars

\* While a member lives or the monitor's timer runs, the system does not stand still: queues are dispatched,
\* callbacks return, and time passes.  Faults and calls are rationed.
FairSpec == Spec /\ ([]<><<TRUE>>_vars \/ []<>Idle)

-----------------------------------------------------------------------------

\* Type correctness: a ranking holds nobody twice and always its owner, a timer
\* is off or has an age, a dispatcher waits at one of the callbacks.
TypeOK ==
    \A n \in Members :
        /\ mem[n].list \in Seq(Members) /\ IsInjective(mem[n].list) /\ Knows(mem[n], n)
        /\ mem[n].tm \in [Timer -> Ages \union {Off}]
        /\ mem[n].cont \in [Dispatchers -> Then]

Active(n)    == Running(n) /\ ~mem[n].destroyed /\ is_active(mem[n])
AtRest(n)    == Running(n) /\ ~mem[n].destroyed /\ \A x \in Dispatchers : mem[n].cont[x] = "none"
ActiveCount  == Cardinality({n \in Members : Active(n)})

\* The application was last told ACTIVATE exactly when the member sends
\* heartbeats, whatever arrived, fell due or was called during its callbacks.
ToldTrue == \A n \in Members : AtRest(n) => (mem[n].told = "active" <=> is_active(mem[n]))

\* A member that is not in a callback has exactly one of its three timers
\* running: with none it would never act again, with two it would prepare and
\* send heartbeats at once.  Every path of the handlers ends in prepare or in a
\* CreateTimer of its own.
OneTimer ==
    \A n \in Members : AtRest(n) =>
        Cardinality({k \in Timer : mem[n].tm[k] # Off}) = 1

\* active_goal members are active, or all if there are fewer, and none of them
\* is lighter than one that is not.
Settled ==
    /\ ActiveCount = Min({Goal, Cardinality(Alive)})
    /\ \A a, b \in Alive : Active(a) /\ ~Active(b) => Me(mem[a]).weight >= Me(mem[b]).weight

\* Some member takes another, which lives, for stopped: is_stopped is never
\* reset, so that one is ranked last there for good.
Mistaken == \E a, b \in Alive : Knows(mem[a], b) /\ mem[a].peer[b].stopped

\* Whatever was lost, late, destroyed or changed its weight, the group settles,
\* unless a member is taken for stopped that is not.
Settles == <>[](~Mistaken => Settled)

\* And the monitor's count comes to be the number of active members.  With one
\* active member: the monitor counts one at a time (see activate_ns above).
MonitorSees == <>[](~Mistaken => mon.count = ActiveCount)

=============================================================================
