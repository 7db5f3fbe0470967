------------------------- MODULE MCReserveProtocol -------------------------
(* Small instances of ReserveProtocol for TLC: of the five attempts, one of  *)
(* the companies below comes.                                              *)
EXTENDS ReserveProtocol, TLC

CONSTANTS a1, a2, a3, a4, a5, k1, k2, v1, s1, s2

VARIABLE coming

\* Under one client key: a request that would not queue and its retry, one for
\* the same shift that would, and a re-use of the key for another shift.
\* Under another key: a request for the first shift.
KeyOfEach == [a \in Attempts |-> IF a = a5 THEN k2 ELSE k1]
OneVolunteer == [a \in Attempts |-> v1]
TwoShifts == [a \in Attempts |-> IF a = a4 THEN s2 ELSE s1]
SomeQueue == [a \in Attempts |-> a \notin {a1, a2}]
Overlap == {<<s1, s2>>, <<s2, s1>>}

\* The companies that contend for the key, whose rows stay as written, and the
\* one that contends for the schedule, whose records do not grow old.
KeyRivals == {{a1, a2, a4}, {a1, a3}, {a2, a3}}
ScheduleRivals == {{a4, a5}}

MCInit == Init /\ coming \in KeyRivals \cup ScheduleRivals

MCNext ==
    /\ UNCHANGED coming
    /\ \/ \E a \in coming : AttemptStep(a)
       \/ \E v \in Volunteers : Expire(v) \/ Sweep(v)
       \/ coming \in KeyRivals /\ \E k \in Keys : Age(k)
       \/ coming \in ScheduleRivals
          /\ \E b \in Attempts : PromoteCheck(b) \/ Promote(b) \/ Cancel(b) \/ Complete(b)
       \/ (\A a \in coming : pc[a] = "done") /\ UNCHANGED vars

MCSpec == MCInit /\ [][MCNext]_<<coming, vars>>

RetrySymmetry == Permutations({a1, a2})
=============================================================================
