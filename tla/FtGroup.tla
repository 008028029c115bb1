------------------------------- MODULE FtGroup -------------------------------
(***************************************************************************)
(* A fault tolerant group: RvFt instances that share one subject.          *)
(*                                                                         *)
(* chan[a][b] is what a has published and b has not yet received: the      *)
(* daemons keep the order of one sender's messages and nothing else.  A    *)
(* message may be lost.  A member may crash, or be held up: for one tick   *)
(* its process does not run, its timers are then served late and its       *)
(* messages wait.  Otherwise every message is delivered, and every timer   *)
(* served, within the tick: a tick is longer than the latency of the       *)
(* network.  The faults and the calls of the application are rationed by   *)
(* Budget.                                                                 *)
(***************************************************************************)
EXTENDS FtMember

CONSTANT
    Budget      \* how many times each kind of fault and call may happen

ASSUME BudgetAssumption ==
    Budget \in [lose : Nat, crash : Nat, stall : Nat, stop : Nat, rejoin : Nat]

VARIABLES
    mem,        \* the members
    chan,       \* messages in flight
    left        \* what remains of the budget

vars == <<mem, chan, left>>

Running(n) == mem[n].up = "run"

Init ==
    /\ mem  = [n \in Node |-> Idle(n)]
    /\ chan = [a \in Node |-> [b \in Node |-> << >>]]
    /\ left = Budget

----------------------------------------------------------------------------

\* What of member n's output reaches member d.
Received(s, n, d) ==
    (IF mem[d].sub /\ d # n THEN s.out ELSE << >>)
        \o (IF s.ack = d /\ Running(d) THEN << message(s, n, "ACK") >> ELSE << >>)

\* Member n goes to the state s, and what it has published goes out; the
\* message at the head of chan[src][n] is taken if src is a node.
Become(n, s, src) ==
    /\ mem'  = [mem EXCEPT ![n] = [s EXCEPT !.out = << >>, !.ack = NoPeer]]
    /\ chan' = [a \in Node |-> [b \in Node |->
                    IF a = n THEN chan[a][b] \o Received(s, n, b)
                    ELSE IF a = src /\ b = n THEN Tail(chan[a][b])
                    ELSE chan[a][b]]]

Spend(what) ==
    /\ left[what] > 0
    /\ left' = [left EXCEPT ![what] = @ - 1]

Start(n) ==
    /\ mem[n].up = "idle"
    /\ Become(n, start(mem[n], n), NoPeer)
    /\ UNCHANGED left

\* test/ftmon.cpp takes a running member out and puts it back; it does
\* neither once it has called stop().
Deactivate(n) ==
    /\ Running(n)
    /\ mem[n].told \in {"ACTIVATE", "DEACTIVATE"}
    /\ mem[n].tm["fin"] = NotSet
    /\ Spend("rejoin")
    /\ Become(n, deactivate(mem[n], n), NoPeer)

Activate(n) ==
    /\ Running(n)
    /\ mem[n].told = "LISTEN"
    /\ mem[n].tm["fin"] = NotSet
    /\ Become(n, activate(mem[n], n), NoPeer)
    /\ UNCHANGED left

Stop(n) ==
    /\ Running(n)
    /\ mem[n].told # "FINISH"
    /\ Spend("stop")
    /\ Become(n, stop(mem[n], n), NoPeer)

TakeoverTimer(n, t) ==
    /\ Running(n)
    /\ Due(mem[n], n, t)
    /\ Become(n, takeover_timer(mem[n], n, t), NoPeer)
    /\ UNCHANGED left

HeartbeatTimer(n) ==
    /\ Running(n)
    /\ Due(mem[n], n, "hb")
    /\ Become(n, hb_timer(mem[n], n), NoPeer)
    /\ UNCHANGED left

JoinTimer(n) ==
    /\ Running(n)
    /\ Due(mem[n], n, "join")
    /\ Become(n, join_timer(mem[n], n), NoPeer)
    /\ UNCHANGED left

FinishTimer(n) ==
    /\ Running(n)
    /\ Due(mem[n], n, "fin")
    /\ Become(n, finish_timer(mem[n], n), NoPeer)
    /\ UNCHANGED left

Receive(a, n) ==
    /\ Running(n)
    /\ chan[a][n] # << >>
    /\ Become(n, on_peer_msg(mem[n], n, Head(chan[a][n])), a)
    /\ UNCHANGED left

\* check_latency finds the message of a known peer too old, and on_peer_msg
\* returns; by then a listening member has taken the intervals it carries.
Discard(a, n) ==
    /\ Running(n)
    /\ chan[a][n] # << >>
    /\ Head(chan[a][n]).state # STATE_LISTEN
    /\ a \in mem[n].ht
    /\ Spend("lose")
    /\ Become(n, adopt(mem[n], n, Head(chan[a][n])), a)

Lose(a, n) ==
    /\ chan[a][n] # << >>
    /\ Spend("lose")
    /\ chan' = [chan EXCEPT ![a][n] = Tail(@)]
    /\ UNCHANGED mem

\* The process ends: it was told FINISH, or it crashes.  What it has
\* published stays in flight, what it has not received is gone.
Gone(n) ==
    /\ mem'  = [mem EXCEPT ![n] = [Idle(n) EXCEPT !.up = "gone"]]
    /\ chan' = [a \in Node |-> [chan[a] EXCEPT ![n] = << >>]]

Exit(n) ==
    /\ Running(n)
    /\ mem[n].told = "FINISH"
    /\ Gone(n)
    /\ UNCHANGED left

Crash(n) ==
    /\ Running(n)
    /\ Spend("crash")
    /\ Gone(n)

\* Nothing is left to do for member n in this tick.
Quiet(n) ==
    /\ \A a \in Node : chan[a][n] = << >>
    /\ \A t \in Timer : ~ Due(mem[n], n, t)
    /\ mem[n].told # "FINISH"

Older(a) == IF a \in 0 .. MaxAge - 1 THEN a + 1 ELSE a

Aged(s) ==
    [s EXCEPT !.rcv = [p \in Node |-> IF p \in s.ht THEN Older(@[p]) ELSE 0],
              !.age = Older(@),
              !.tm  = [t \in Timer |-> Older(@[t])]]

Pass ==
    /\ mem' = [n \in Node |-> IF Running(n) THEN Aged(mem[n]) ELSE mem[n]]
    /\ UNCHANGED chan

Tick ==
    /\ \A n \in Node : Running(n) => Quiet(n)
    /\ Pass
    /\ UNCHANGED left

\* A tick during which the process of member n does not run.
Stall(n) ==
    /\ Running(n) /\ ~ Quiet(n)
    /\ \A m \in Node \ {n} : Running(m) => Quiet(m)
    /\ Spend("stall")
    /\ Pass

Step(n) ==
    \/ \E t \in {"prep", "act"} : TakeoverTimer(n, t)
    \/ HeartbeatTimer(n)
    \/ JoinTimer(n)
    \/ FinishTimer(n)
    \/ \E a \in Node : Receive(a, n)
    \/ Exit(n)

Next ==
    \/ \E n \in Node :
        \/ Step(n)
        \/ Start(n)
        \/ Deactivate(n)
        \/ Activate(n)
        \/ Stop(n)
        \/ Crash(n)
        \/ Stall(n)
        \/ \E a \in Node : Discard(a, n) \/ Lose(a, n)
    \/ Tick

Spec == Init /\ [][Next]_vars

\* While a process runs, the system does not stand still: its event loop
\* serves what is due, or time passes.  (This is WF_vars(Next), as some step
\* is always possible; faults are rationed and cannot be all that happens.)
FairSpec ==
    /\ Spec
    /\ []<><<TRUE>>_vars \/ []<>(\A n \in Node : ~ Running(n))

----------------------------------------------------------------------------


\* Every variable keeps its type.
TypeOK ==
    /\ mem \in [Node -> Member]
    /\ chan \in [Node -> [Node -> Seq(Msg)]]
    /\ left \in [lose : Nat, crash : Nat, stall : Nat, stop : Nat, rejoin : Nat]

\* The queue is never searched in vain and never out of order: every cached
\* pos is the index of its peer (get_pos never has to print its complaint),
\* and every member outranks the ones behind it although only the member
\* whose state has just changed is ever moved.  A member that leaves from
\* JOIN is not moved any more.
QueueRanked ==
    \A n \in Node :
        /\ PosAgrees(mem[n].q)
        /\ mem[n].view[n] # STATE_FINISH => Ranked(mem[n].view, mem[n].q)

\* ft_queue holds exactly the peers of peer_ht and, unless it is listening,
\* the member itself; nobody in it is listening.
QueueIsGroup ==
    \A n \in Node : LET s == mem[n] IN
        /\ Members(s.q) \ {n} = s.ht
        /\ n \notin s.ht
        /\ n \in Members(s.q) => s.view[n] # STATE_LISTEN
        /\ s.view[n] \notin {STATE_LISTEN, STATE_FINISH} => n \in Members(s.q)
        /\ \A p \in Node \ {n} : p \in s.ht <=> s.view[p] # STATE_LISTEN

\* state_count, kept by increments and decrements in update_state, set and
\* trim_ft_queue, is the number of members in each state.
CountsMatch ==
    \A n \in Node : \A k \in Counted :
        mem[n].cnt[k] = Cardinality({p \in Node : mem[n].view[p] = k})

\* When a handler has returned, the application knows: it was last told
\* ACTIVATE exactly if the member is primary, DEACTIVATE exactly if it is
\* secondary, FINISH exactly if it has left, and no change of the queue is
\* left unannounced.
ListenerInformed ==
    \A n \in Node : LET s == mem[n] IN
        s.up = "run" =>
            /\ ~ s.q.news
            /\ s.told = "ACTIVATE"   <=> s.view[n] = STATE_PRIMARY
            /\ s.told = "DEACTIVATE" <=> s.view[n] = STATE_SECONDARY
            /\ s.told = "FINISH"     <=> s.view[n] = STATE_FINISH

\* Whatever a member was configured with and whatever it adopted from peers,
\* a peer is given up only after more than one heartbeat interval of
\* silence, and a takeover is prepared, if at all, in between.
IntervalsSane ==
    \A n \in Node : LET iv == mem[n].iv IN
        mem[n].up = "run" /\ iv.hb > 0 =>
            /\ iv.act > iv.hb
            /\ iv.prep # 0 => iv.prep >= iv.hb /\ iv.prep < iv.act

Primaries == {n \in Node : Running(n) /\ mem[n].view[n] = STATE_PRIMARY}

\* Without losses, members that have received everything sent to them agree
\* on the primary: two can be active at once only while a message that will
\* demote one of them is on its way.
OnePrimaryWhenQuiet ==
    (\A n \in Node : Running(n) => Quiet(n)) => Cardinality(Primaries) <= 1

\* A primary steps down to secondary only for a member it knows to outrank
\* it.
StepsDownForHigherRank ==
    [][\A n \in Node :
        mem[n].view[n] = STATE_PRIMARY /\ mem'[n].view[n] = STATE_SECONDARY
            => is_greater(mem'[n].view, First(mem'[n]), n)]_vars

Active ==
    {n \in Node : Running(n) /\ mem[n].view[n] \notin {STATE_LISTEN, STATE_FINISH}}

\* The group has settled: of the members that have joined, the one with the
\* greatest weight, the oldest of equals, is primary and every other one is
\* secondary.
Settled ==
    \A n \in Active :
        mem[n].view[n] = IF \A m \in Active \ {n} : is_greater_weight(n, m)
                         THEN STATE_PRIMARY ELSE STATE_SECONDARY

\* Whatever was lost, held up or crashed: once faults stop, the group
\* settles and stays settled.
EventuallySettled == <>[]Settled

\* A member whose application has called stop() tells it FINISH, and is
\* gone: nothing that happens meanwhile cancels the finish timer.
StopExits == \A n \in Node : mem[n].tm["fin"] # NotSet ~> ~ Running(n)

\* ft.h: "primary has rank 1, secondaries have rankds 2 ... N".
RankMatchesState ==
    \A n \in Node :
        /\ mem[n].view[n] = STATE_PRIMARY   => mem[n].q.pos[n] = 1
        /\ mem[n].view[n] = STATE_SECONDARY => mem[n].q.pos[n] > 1

============================================================================
