---------------------------- MODULE MCSeatLedger ----------------------------
(* Small instances of SeatLedger for TLC. *)
EXTENDS SeatLedger, TLC

CONSTANTS r1, r2, r3, r4, r5, r6, c1, c2, o1, v1, v2, v3, v4, v5

\* Two calls are for one volunteer, so the unique index is contended.
SomeShareVolunteer == [r \in Reserves |-> CASE r \in {r1, r2} -> v1
                                            [] OTHER -> v2]
SomeLate == [r \in Reserves |-> CASE r = r1 -> v1 [] r = r2 -> v2 [] r = r3 -> v3
                                  [] r = r4 -> v4 [] OTHER -> v5]

CancelSymmetry == Permutations(Cancels)

\* A shift whose seat is taken and whose queue is served in order: the state
\* Init reaches when r1, r2, r3 (and r4) reserve one after another.
Queued == {r2, r3, r4} \cap Reserves
Place == [r \in Reserves |-> CASE r = r2 -> 1 [] r = r3 -> 2 [] r = r4 -> 3 [] OTHER -> 0]

LoadedInit ==
    /\ capacity = 1 /\ ceiling = 1 /\ isActive = TRUE
    /\ filledSlots = 1 /\ waitlistCount = Cardinality(Queued)
    /\ status = [r \in Reserves |-> IF r = r1 THEN "CONFIRMED"
                                    ELSE IF r \in Queued THEN "WAITLISTED" ELSE "NONE"]
    /\ position = Place
    /\ createdAt = [r \in Reserves |-> IF r \in Queued \cup {r1} THEN Place[r] + 1 ELSE 0]
    /\ pc = [c \in Calls |-> IF c \in Queued \cup {r1} THEN "done" ELSE "idle"]
    /\ seen = [c \in Cancels |-> [row |-> "none", status |-> "NONE", position |-> 0]]
    /\ list = [c \in Cancels |-> {}]
    /\ dto = [o \in Organisers |-> [capacity |-> 0, revive |-> FALSE]]

LoadedSpec == LoadedInit /\ [][Next]_vars
=============================================================================
