------------------------------ MODULE MCRoster ------------------------------
(* Small instances of Roster for TLC. *)
EXTENDS Roster, TLC

CONSTANTS w, x, y, z, A, B, C, D, rA, rB, rC, rD, rE, p1, p2, p3, p4,
          a1, s1, k1, k2, q1, q2, c1

\* A wants B's shift, B wants C's and C wants A's: a ring of three; B would
\* also take A's, which closes a ring of two.  D offers B another place on C's
\* shift for B's fourth.
RingShift == [r \in Rows |-> CASE r = rA -> x [] r = rB -> y [] r = rE -> w [] OTHER -> z]
RingHolder == [r \in Rows |-> CASE r = rA -> A [] r \in {rB, rE} -> B [] r = rC -> C [] OTHER -> D]
RingBy == [p \in Proposals |-> CASE p = p1 -> A [] p = p2 -> B [] p = p3 -> C [] OTHER -> D]
RingGive == [p \in Proposals |-> CASE p = p1 -> x [] p = p2 -> y [] OTHER -> z]
RingWant == [p \in Proposals |-> CASE p = p1 -> y [] p = p2 -> z [] p = p3 -> x [] OTHER -> w]
RingDesired == [p \in Proposals |-> IF p = p2 THEN {x, z} ELSE {RingWant[p]}]
RingNamed == [p \in Proposals |-> IF p = p4 THEN B ELSE Anyone]

\* Two openings.  In one the ring trades, with a cancellation; in the other C
\* and D have cancelled, and A and B are scanned, checked out and cancelled
\* while one proposal is open.  A call that is not made is over.
Trading == Proposals \cup Accepts \cup Passes \cup Cancels
AtTheDesk == {p1} \cup Accepts \cup Scans \cup Outs \cup Cancels
Over(S) == [c \in Calls |-> IF c \in S THEN "idle" ELSE "done"]

RosterInit ==
    /\ holder = HolderOf
    /\ \/ status = [r \in Rows |-> "CONFIRMED"] /\ pc = Over(Trading)
       \/ /\ status = [r \in Rows |-> IF r \in {rA, rB} THEN "CONFIRMED" ELSE "CANCELLED"]
          /\ pc = Over(AtTheDesk)
    /\ swap = [p \in Proposals |-> "NONE"]
    /\ attendance = [r \in Rows |-> NoCheckIn]
    /\ paid = [r \in Rows |-> 0]
    /\ deal = [c \in Accepts |-> NoDeal]
    /\ rings = [t \in Passes |-> {}] /\ ring = [t \in Passes |-> <<>>]
    /\ used = [t \in Passes |-> {}]
    /\ mine = [c \in Scans \cup Outs \cup Cancels |-> NoRow]

RosterSpec == RosterInit /\ [][Next]_vars

DeskSymmetry == Permutations(Scans) \cup Permutations(Outs)
=============================================================================
