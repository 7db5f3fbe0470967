---------------------------- MODULE PresenceCohort ----------------------------
(***************************************************************************)
(* Who is on one viewer's map, and how: a cohort is computed once a tick   *)
(* for all viewers of a cell, people as rows and the rest as counts, and   *)
(* each session corrects the counts for itself.  The sessions are served   *)
(* in slices, so a sample may arrive between the two.                      *)
(*                                                                         *)
(* People are 1..Crowd, the nearest to the middle of the viewer's cell     *)
(* first; the ones further than Reach are in range of the counts only.     *)
(***************************************************************************)
EXTENDS Integers, FiniteSets

CONSTANTS Crowd, Reach, Cells, Caps

People == 1..Crowd

VARIABLES
    cell, offDuty,  \* the store: where each is, and who is off duty
    viewer, lead, cap, \* the session
    cohort,         \* what the tick computed for the viewer's cell
    screen,         \* rows and counts sent
    sampled         \* history: a sample came between the index and the frame

cohortVars == <<cell, offDuty, viewer, lead, cap, cohort, screen, sampled>>

NoCohort == [members |-> {}, detail |-> {}, clusters |-> [c \in Cells |-> 0]]
NoScreen == [sent |-> FALSE, rows |-> {}, counts |-> [c \in Cells |-> 0]]

\* The viewer is somewhere, and looks at its own cell.
Init ==
    /\ cell \in [People -> Cells] /\ offDuty \in SUBSET People
    /\ viewer \in People /\ lead \in BOOLEAN /\ cap \in Caps
    /\ cohort = NoCohort /\ screen = NoScreen /\ sampled = FALSE

Members == People \ (IF lead THEN {} ELSE offDuty)
Nearest(S, n) == {p \in S : Cardinality({q \in S : q < p}) < n}
InCell(S, c) == Cardinality({p \in S : cell[p] = c})

Want == IF cap > 0 THEN cap + 1 ELSE 0

\* buildIndex and cohort
Compute ==
    /\ cohort = NoCohort /\ ~screen.sent
    /\ LET detail == Nearest({p \in Members : p <= Reach}, Want)
       IN cohort' = [members |-> Members, detail |-> detail,
                     clusters |-> [c \in Cells |-> InCell(Members \ detail, c)]]
    /\ UNCHANGED <<cell, offDuty, viewer, lead, cap, screen, sampled>>

\* A sample changes the duty of somebody.
Sample(p) ==
    /\ cohort # NoCohort /\ ~screen.sent /\ ~sampled
    /\ offDuty' = (offDuty \ {p}) \cup ({p} \ offDuty)
    /\ sampled' = TRUE
    /\ UNCHANGED <<cell, viewer, lead, cap, cohort, screen>>

CountsSelf == lead \/ viewer \notin offDuty
\* Mutant: the viewer is taken out of the count of its cell.
AlwaysInCount == cohort.clusters[cell[viewer]] > 0
InOwnCount == viewer \notin cohort.detail /\ CountsSelf /\ cohort.clusters[cell[viewer]] > 0

\* computeInterest and adjustedClusters: a row for each but the viewer, up to
\* the cap; whoever was selected and not sent is counted again.
Send ==
    /\ cohort # NoCohort /\ ~screen.sent
    /\ LET others == cohort.detail \ {viewer}
           rows == Nearest(others, cap)
           back == others \ rows
       IN screen' = [sent |-> TRUE, rows |-> rows,
                     counts |-> [c \in Cells |-> cohort.clusters[c] + InCell(back, c)
                                                 - (IF InOwnCount /\ c = cell[viewer] THEN 1 ELSE 0)]]
    /\ UNCHANGED <<cell, offDuty, viewer, lead, cap, cohort, sampled>>

Next == Compute \/ Send \/ \E p \in People : Sample(p)

-----------------------------------------------------------------------------
(* Properties                                                              *)

\* Everybody the viewer may see is on its map once, as a row or in one count,
\* and the viewer is in neither, whichever rung and rank it is drawn for; a
\* sample in between can only put the viewer's own cell out by one.
EverybodyOnce ==
    screen.sent =>
        LET seen == cohort.members \ (screen.rows \cup {viewer})
        IN  /\ viewer \notin screen.rows /\ screen.rows \subseteq cohort.members
            /\ \A c \in Cells :
                  \/ screen.counts[c] = InCell(seen, c)
                  \/ sampled /\ c = cell[viewer] /\ screen.counts[c] - InCell(seen, c) \in {-1, 1}
=============================================================================
