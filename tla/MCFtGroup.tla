----------------------------- MODULE MCFtGroup -----------------------------
(***************************************************************************)
(* Small groups for TLC.  A tick is half a heartbeat interval (or one, for *)
(* three members): the default intervals 3000, 6500 and 7000 ms are 2, 4   *)
(* and 5 ticks, and join and finish, 500 ms, one.                          *)
(***************************************************************************)
EXTENDS FtGroup

CONSTANTS
    N,                  \* members
    Hb, Act, Prep,      \* their intervals
    Odd,                \* members configured with intervals that need adjusting
    Lose_, Crash_, Stall_, Stop_, Rejoin_

MCNode == 1 .. N

\* The second incarnation is the heavier one: rank follows weight before age.
MCWeight == [n \in MCNode |-> IF n = 2 THEN 2 ELSE 1]

MCParam ==
    [n \in MCNode |->
        IF n \in Odd THEN [join |-> 1, hb |-> Hb, act |-> Hb, prep |-> 1, fin |-> 1]
        ELSE [join |-> 1, hb |-> Hb, act |-> Act, prep |-> Prep, fin |-> 1]]

MCBudget == [lose |-> Lose_, crash |-> Crash_, stall |-> Stall_,
             stop |-> Stop_, rejoin |-> Rejoin_]

\* For three members: messages in flight are received, or lost, before
\* anything else happens, lower numbered receivers first.
Prompt ==
    LET pending == {n \in Node : \E a \in Node : chan[a][n] # << >>}
    IN  \/ pending = {}
        \/ \E n \in pending, a \in Node :
            /\ \A m \in pending : n <= m
            /\ chan[a][n] # << >>
            /\ chan'[a][n] = Tail(chan[a][n])

============================================================================
