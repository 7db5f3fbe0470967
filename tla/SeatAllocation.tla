---------------------------- MODULE SeatAllocation ----------------------------
(***************************************************************************)
(* What the seats of a shift promise, without counters: a seat is taken    *)
(* only while fewer are taken than there are at that moment, and from then *)
(* on it is somebody's, a row's or a call's, until a call gives it back or *)
(* passes it to a waiter.  SeatLedger implements it with two counters that *)
(* are written apart from the rows.                                        *)
(***************************************************************************)
EXTENDS Integers, FiniteSets

CONSTANTS
    Seekers,  \* those who ask for a seat
    Leavers   \* the calls that empty one

VARIABLES
    limit,    \* how many seats there are now
    holders,  \* seekers who sit
    waiters,  \* seekers who wait
    promised  \* seekers and leavers who have a seat in hand

vars == <<limit, holders, waiters, promised>>

Taken == holders \cup promised

Init ==
    /\ limit \in Nat
    /\ promised = {} /\ holders \cap waiters = {}
    /\ Cardinality(holders) <= limit

Take(s) ==
    /\ s \notin Taken /\ Cardinality(Taken) < limit
    /\ promised' = promised \cup {s}
    /\ UNCHANGED <<limit, holders, waiters>>

Sit(s) ==
    /\ s \in promised /\ s \notin holders
    /\ promised' = promised \ {s} /\ holders' = holders \cup {s}
    /\ UNCHANGED <<limit, waiters>>

GiveBack(c) ==
    /\ c \in promised /\ promised' = promised \ {c}
    /\ UNCHANGED <<limit, holders, waiters>>

Wait(s) ==
    /\ s \notin Taken \cup waiters
    /\ waiters' = waiters \cup {s}
    /\ UNCHANGED <<limit, holders, promised>>

\* The seat is kept for a waiter while the leaver looks for one.
Empty(c, s) ==
    /\ s \in holders /\ c \notin Taken
    /\ holders' = holders \ {s} /\ promised' = promised \cup {c}
    /\ UNCHANGED <<limit, waiters>>

PassOn(c, s) ==
    /\ c \in promised /\ s \in waiters
    /\ promised' = promised \ {c} /\ waiters' = waiters \ {s} /\ holders' = holders \cup {s}
    /\ UNCHANGED limit

Leave(s) ==
    /\ s \in waiters /\ waiters' = waiters \ {s}
    /\ UNCHANGED <<limit, holders, promised>>

\* Those who sit keep their seats if there are fewer now.
Resize ==
    /\ limit' \in Nat
    /\ UNCHANGED <<holders, waiters, promised>>

Next ==
    \/ \E s \in Seekers : Take(s) \/ Sit(s) \/ Wait(s) \/ Leave(s)
    \/ \E c \in Seekers \cup Leavers : GiveBack(c)
    \/ \E c \in Leavers, s \in Seekers : Empty(c, s) \/ PassOn(c, s)
    \/ Resize

Spec == Init /\ [][Next]_vars
=============================================================================
