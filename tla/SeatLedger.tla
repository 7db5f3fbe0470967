----------------------------- MODULE SeatLedger -----------------------------
(***************************************************************************)
(* The seats and the queue of one shift.                                   *)
(*                                                                         *)
(* A Shift document carries two counters, filledSlots and waitlistCount,   *)
(* that cache what the Registration rows say.  Every handler moves the     *)
(* counters and the rows in separate writes, with other handlers running   *)
(* between any two of them.  This module has one action per database       *)
(* round trip of reserveShift, cancelRegistration, reindexWaitlist,        *)
(* updateShift and deleteShift.                                            *)
(*                                                                         *)
(* The reservation lock and the idempotency record are in ReserveProtocol. *)
(* They are not assumed here: calls for one volunteer may overlap, which   *)
(* is what happens once a lock has outlived its thirty seconds.  A refusal *)
(* that writes nothing (missing shift, missing skill, busy volunteer) is   *)
(* a call that does not start.                                             *)
(***************************************************************************)
EXTENDS Integers, FiniteSets

CONSTANTS
    Reserves,     \* reserveShift calls; each names the row it may insert
    Cancels,      \* cancelRegistration calls
    Organisers,   \* updateShift and deleteShift calls
    Volunteers,
    VolunteerOf,  \* the volunteer each reserveShift call is for
    Capacity,     \* capacity the shift is created with
    Capacities,   \* capacities an organiser may ask for
    Faults        \* what may go wrong: a subset of FaultKinds

FaultKinds == {"reject", "lost_reply", "crash"}

Calls == Reserves \cup Cancels \cup Organisers

ASSUME CallsAssumption ==
    /\ IsFiniteSet(Reserves) /\ IsFiniteSet(Cancels)
    /\ Reserves \cap Cancels = {}
    /\ (Reserves \cup Cancels) \cap Organisers = {}
    /\ VolunteerOf \in [Reserves -> Volunteers]

ASSUME ShiftAssumption ==
    /\ Capacity \in Nat \ {0}
    /\ Capacities \subseteq Nat \ {0}
    /\ Faults \subseteq FaultKinds

VARIABLES
    capacity, filledSlots, waitlistCount, isActive,  \* the Shift document
    ceiling,                                         \* history: largest capacity so far
    status, position, createdAt,                     \* the Registration rows
    pc, seen, list, dto                              \* the calls in flight

shiftVars == <<capacity, filledSlots, waitlistCount, isActive, ceiling>>
rowVars == <<status, position, createdAt>>
callVars == <<pc, seen, list, dto>>
vars == <<shiftVars, rowVars, callVars>>

-----------------------------------------------------------------------------
(* Rows.  "NONE" is a row not inserted; position 0 is null.                *)

Seats == {"CONFIRMED", "CHECKED_IN", "COMPLETED"}
IndexActive == Seats \cup {"WAITLISTED"}
Status == IndexActive \cup {"NONE", "CANCELLED"}

Seated == {r \in Reserves : status[r] \in Seats}
Waiting == {r \in Reserves : status[r] = "WAITLISTED"}

\* find(WAITLISTED).sort({waitlistPosition: 1, createdAt: 1}) as row/rank pairs.
Ahead(a, b) ==
    \/ position[a] < position[b]
    \/ position[a] = position[b] /\ createdAt[a] < createdAt[b]
Rank(r) == 1 + Cardinality({w \in Waiting : Ahead(w, r)})
QueueOrder == {<<r, Rank(r)>> : r \in Waiting}

IsHead(e, l) == e \in l /\ \A f \in l : e[2] <= f[2]

\* Mutant: the index filter without COMPLETED rows.
HasOpenRow(v) ==
    \E r \in Reserves : VolunteerOf[r] = v /\ status[r] \in IndexActive \ {"COMPLETED"}

\* The partial unique index over (shiftId, volunteerId).
HasActiveRow(v) == \E r \in Reserves : VolunteerOf[r] = v /\ status[r] \in IndexActive

\* The program counter says what a call owes the counters.  A call at one of
\* SeatSteps has a seat counted in filledSlots that no row occupies; one at
\* QueueSteps has a place counted in waitlistCount that no row occupies.
SeatSteps == {"insert_seat", "undo_seat", "pick", "cascade", "release", "lost_seat"}
QueueSteps == {"insert_queue", "undo_queue", "dequeue", "lost_queue"}
Steps == SeatSteps \cup QueueSteps \cup
    {"idle", "claim", "queue", "cas", "reindex", "renumber", "edit", "deactivate", "done"}
Ended == {"idle", "done", "lost_seat", "lost_queue"}

Goto(c, step) == pc' = [pc EXCEPT ![c] = step]

-----------------------------------------------------------------------------
Init ==
    /\ capacity = Capacity /\ ceiling = Capacity
    /\ filledSlots = 0 /\ waitlistCount = 0
    /\ isActive = TRUE
    /\ status = [r \in Reserves |-> "NONE"]
    /\ position = [r \in Reserves |-> 0]
    /\ createdAt = [r \in Reserves |-> 0]
    /\ pc = [c \in Calls |-> "idle"]
    /\ seen = [c \in Cancels |-> [row |-> "none", status |-> "NONE", position |-> 0]]
    /\ list = [c \in Cancels |-> {}]
    /\ dto = [o \in Organisers |-> [capacity |-> 0, revive |-> FALSE]]

-----------------------------------------------------------------------------
(* reserveShift                                                            *)

\* Steps 2 to 5: the shift is open and the volunteer has no active row.
ReserveCheck(r) ==
    /\ pc[r] = "idle"
    /\ isActive
    /\ ~HasActiveRow(VolunteerOf[r])
    /\ Goto(r, "claim")
    /\ UNCHANGED <<shiftVars, rowVars, seen, list, dto>>

\* Mutant: the increment is not filtered by the capacity.
ClaimSeatUnchecked(r) ==
    /\ pc[r] = "claim"
    /\ filledSlots' = filledSlots + 1
    /\ Goto(r, "insert_seat")
    /\ UNCHANGED <<capacity, waitlistCount, isActive, ceiling, rowVars, seen, list, dto>>

\* Step 6: the filter and the increment are one write.
ClaimSeat(r) ==
    /\ pc[r] = "claim"
    /\ filledSlots < capacity
    /\ filledSlots' = filledSlots + 1
    /\ Goto(r, "insert_seat")
    /\ UNCHANGED <<capacity, waitlistCount, isActive, ceiling, rowVars, seen, list, dto>>

\* Step 6: the claim matched nothing; SHIFT_FULL unless the caller queues.
FindFull(r) ==
    /\ pc[r] = "claim"
    /\ filledSlots >= capacity
    /\ \E next \in {"queue", "done"} : Goto(r, next)
    /\ UNCHANGED <<shiftVars, rowVars, seen, list, dto>>

\* The position is the counter after this increment, wherever the rows stand.
JoinQueue(r) ==
    /\ pc[r] = "queue"
    /\ waitlistCount' = waitlistCount + 1
    /\ position' = [position EXCEPT ![r] = waitlistCount + 1]
    /\ Goto(r, "insert_queue")
    /\ UNCHANGED <<capacity, filledSlots, isActive, ceiling, status, createdAt,
                   seen, list, dto>>

InsertedStatus(r) == IF pc[r] = "insert_seat" THEN "CONFIRMED" ELSE "WAITLISTED"
UndoStep(r) == IF pc[r] = "insert_seat" THEN "undo_seat" ELSE "undo_queue"
Inserting(r) == pc[r] \in {"insert_seat", "insert_queue"}

\* Registration.create reaches the store.
AddRow(r) ==
    /\ Inserting(r)
    /\ ~HasActiveRow(VolunteerOf[r])
    /\ status' = [status EXCEPT ![r] = InsertedStatus(r)]
    /\ createdAt' = [createdAt EXCEPT
                        ![r] = Cardinality({s \in Reserves : status[s] # "NONE"}) + 1]
    /\ UNCHANGED <<shiftVars, position, seen, list, dto>>

\* Step 7.
InsertRow(r) == AddRow(r) /\ Goto(r, "done")

\* Step 7 fails: a duplicate key, or the store refused the write.
InsertFails(r) ==
    /\ Inserting(r)
    /\ HasActiveRow(VolunteerOf[r]) \/ "reject" \in Faults
    /\ Goto(r, UndoStep(r))
    /\ UNCHANGED <<shiftVars, rowVars, seen, list, dto>>

\* Step 7 lands and its reply does not: the client sees a rejected promise.
InsertReplyLost(r) ==
    /\ "lost_reply" \in Faults
    /\ AddRow(r)
    /\ Goto(r, UndoStep(r))

\* The compensation of step 7, and its swallowed failure.
UndoClaim(r) ==
    /\ pc[r] \in {"undo_seat", "undo_queue"}
    /\ IF pc[r] = "undo_seat"
       THEN filledSlots' = filledSlots - 1 /\ UNCHANGED waitlistCount
       ELSE waitlistCount' = waitlistCount - 1 /\ UNCHANGED filledSlots
    /\ Goto(r, "done")
    /\ UNCHANGED <<capacity, isActive, ceiling, rowVars, seen, list, dto>>

UndoFails(r) ==
    /\ "reject" \in Faults
    /\ pc[r] \in {"undo_seat", "undo_queue"}
    /\ Goto(r, IF pc[r] = "undo_seat" THEN "lost_seat" ELSE "lost_queue")
    /\ UNCHANGED <<shiftVars, rowVars, seen, list, dto>>

-----------------------------------------------------------------------------
(* cancelRegistration                                                      *)

CancelRead(c) ==
    /\ pc[c] = "idle"
    /\ \E r \in Reserves :
        /\ status[r] \in {"CONFIRMED", "CHECKED_IN", "WAITLISTED"}
        /\ seen' = [seen EXCEPT ![c] =
                    [row |-> r, status |-> status[r], position |-> position[r]]]
    /\ Goto(c, "cas")
    /\ UNCHANGED <<shiftVars, rowVars, list, dto>>

RowAsRead(c) ==
    /\ status[seen[c].row] = seen[c].status
    /\ seen[c].position # 0 => position[seen[c].row] = seen[c].position

HeldSeat(c) == seen[c].status \in {"CONFIRMED", "CHECKED_IN"}

\* The CAS.  A seat is held over the cascade; a queue place is given up.
CancelClaim(c) ==
    /\ pc[c] = "cas"
    /\ RowAsRead(c)
    /\ status' = [status EXCEPT ![seen[c].row] = "CANCELLED"]
    /\ position' = [position EXCEPT ![seen[c].row] = 0]
    /\ Goto(c, IF HeldSeat(c) THEN "pick" ELSE "dequeue")
    /\ UNCHANGED <<shiftVars, createdAt, seen, list, dto>>

CancelLoses(c) ==
    /\ pc[c] = "cas"
    /\ ~RowAsRead(c)
    /\ Goto(c, "done")
    /\ UNCHANGED <<shiftVars, rowVars, seen, list, dto>>

\* The candidates and the shift are read once, before the loop.
LoadCandidates(c) ==
    /\ pc[c] = "pick"
    /\ list' = [list EXCEPT ![c] = QueueOrder]
    /\ Goto(c, "cascade")
    /\ UNCHANGED <<shiftVars, rowVars, seen, dto>>

\* The head is busy elsewhere, or another handler moved it first.
SkipCandidate(c) ==
    /\ pc[c] = "cascade"
    /\ \E e \in list[c] : IsHead(e, list[c]) /\ list' = [list EXCEPT ![c] = @ \ {e}]
    /\ UNCHANGED <<shiftVars, rowVars, pc, seen, dto>>

Promoting(c) ==
    /\ pc[c] = "cascade"
    /\ \E e \in list[c] :
        /\ IsHead(e, list[c])
        /\ status[e[1]] = "WAITLISTED"
        /\ status' = [status EXCEPT ![e[1]] = "CONFIRMED"]
        /\ position' = [position EXCEPT ![e[1]] = 0]
    /\ list' = [list EXCEPT ![c] = {}]
    /\ UNCHANGED <<shiftVars, createdAt, seen, dto>>

\* Mutants: the promoted row leaves the queue without moving waitlistCount;
\* the seat is released although it was handed on.
PromoteOnly(c) == Promoting(c) /\ Goto(c, "done")
PromoteAndRelease(c) == Promoting(c) /\ Goto(c, "release")

\* The seat passes to the candidate; only the queue count is still owed.
Promote(c) == Promoting(c) /\ Goto(c, "dequeue")

\* The promotion lands and rejects: the handler believes nobody was promoted.
PromoteReplyLost(c) ==
    /\ "lost_reply" \in Faults
    /\ Promoting(c)
    /\ Goto(c, "release")

\* Mutant: an empty queue leaves the held seat with the cascade.
CascadeStops(c) ==
    /\ pc[c] = "cascade" /\ list[c] # {} /\ "reject" \in Faults
    /\ list' = [list EXCEPT ![c] = {}]
    /\ Goto(c, "release")
    /\ UNCHANGED <<shiftVars, rowVars, seen, dto>>

\* Nobody left to promote, or a read of the cascade failed.
CascadeEnds(c) ==
    /\ \/ pc[c] = "cascade" /\ list[c] = {}
       \/ pc[c] \in {"pick", "cascade"} /\ "reject" \in Faults
    /\ list' = [list EXCEPT ![c] = {}]
    /\ Goto(c, "release")
    /\ UNCHANGED <<shiftVars, rowVars, seen, dto>>

ReleaseSeat(c) ==
    /\ pc[c] = "release"
    /\ filledSlots' = filledSlots - 1
    /\ Goto(c, "done")
    /\ UNCHANGED <<capacity, waitlistCount, isActive, ceiling, rowVars, seen, list, dto>>

LeaveQueue(c) ==
    /\ pc[c] = "dequeue"
    /\ waitlistCount' = waitlistCount - 1
    /\ Goto(c, "reindex")
    /\ UNCHANGED <<capacity, filledSlots, isActive, ceiling, rowVars, seen, list, dto>>

\* The last write of a cancellation is refused; nothing retries it.
SettleFails(c) ==
    /\ "reject" \in Faults
    /\ \/ pc[c] = "release" /\ Goto(c, "lost_seat")
       \/ pc[c] = "dequeue" /\ Goto(c, "lost_queue")
    /\ UNCHANGED <<shiftVars, rowVars, seen, list, dto>>

\* reindexWaitlist: one read, then a conditional write per row out of place.
LoadQueue(c) ==
    /\ pc[c] = "reindex"
    /\ list' = [list EXCEPT ![c] = {e \in QueueOrder : position[e[1]] # e[2]}]
    /\ Goto(c, "renumber")
    /\ UNCHANGED <<shiftVars, rowVars, seen, dto>>

Renumbered(e) ==
    IF status[e[1]] = "WAITLISTED" THEN [position EXCEPT ![e[1]] = e[2]] ELSE position

Renumber(c) ==
    /\ pc[c] = "renumber"
    /\ \E e \in list[c] :
        /\ IsHead(e, list[c])
        /\ position' = Renumbered(e)
        /\ list' = [list EXCEPT ![c] = @ \ {e}]
    /\ UNCHANGED <<shiftVars, status, createdAt, pc, seen, dto>>

RenumberEnds(c) ==
    /\ pc[c] = "renumber"
    /\ list[c] = {} \/ "reject" \in Faults
    /\ list' = [list EXCEPT ![c] = {}]
    /\ Goto(c, "done")
    /\ UNCHANGED <<shiftVars, rowVars, seen, dto>>

-----------------------------------------------------------------------------
(* Attendance moves a seated row forward and no counter.                   *)

CheckIn(r) ==
    /\ status[r] = "CONFIRMED"
    /\ status' = [status EXCEPT ![r] = "CHECKED_IN"]
    /\ UNCHANGED <<shiftVars, position, createdAt, callVars>>

CheckOut(r) ==
    /\ status[r] = "CHECKED_IN"
    /\ status' = [status EXCEPT ![r] = "COMPLETED"]
    /\ UNCHANGED <<shiftVars, position, createdAt, callVars>>

-----------------------------------------------------------------------------
(* The organiser's edits: a guard on what was read, then a plain write.    *)

EditRead(o) ==
    /\ pc[o] = "idle"
    /\ \E k \in Capacities \cup {0}, revive \in BOOLEAN :
        /\ k # 0 => k >= filledSlots
        /\ dto' = [dto EXCEPT ![o] = [capacity |-> k, revive |-> revive]]
    /\ Goto(o, "edit")
    /\ UNCHANGED <<shiftVars, rowVars, seen, list>>

\* A field the dto does not carry (capacity 0, revive FALSE) is left alone.
EditWrite(o) ==
    /\ pc[o] = "edit"
    /\ capacity' = IF dto[o].capacity = 0 THEN capacity ELSE dto[o].capacity
    /\ ceiling' = IF capacity' > ceiling THEN capacity' ELSE ceiling
    /\ isActive' = (isActive \/ dto[o].revive)
    /\ Goto(o, "done")
    /\ UNCHANGED <<filledSlots, waitlistCount, rowVars, seen, list, dto>>

DeleteCount(o) ==
    /\ pc[o] = "idle"
    /\ \A r \in Reserves : status[r] \notin {"CONFIRMED", "CHECKED_IN", "WAITLISTED"}
    /\ Goto(o, "deactivate")
    /\ UNCHANGED <<shiftVars, rowVars, seen, list, dto>>

Deactivate(o) ==
    /\ pc[o] = "deactivate"
    /\ isActive' = FALSE
    /\ Goto(o, "done")
    /\ UNCHANGED <<capacity, filledSlots, waitlistCount, ceiling, rowVars, seen, list, dto>>

-----------------------------------------------------------------------------
\* The process running a call dies.  What it owed the counters stays owed.
Crash(c) ==
    /\ "crash" \in Faults
    /\ pc[c] \notin Ended
    /\ Goto(c, IF pc[c] \in SeatSteps THEN "lost_seat"
               ELSE IF pc[c] \in QueueSteps THEN "lost_queue" ELSE "done")
    /\ UNCHANGED <<shiftVars, rowVars, seen, list, dto>>

ReserveStep(r) ==
    \/ ReserveCheck(r) \/ ClaimSeat(r) \/ FindFull(r) \/ JoinQueue(r)
    \/ InsertRow(r) \/ InsertFails(r) \/ InsertReplyLost(r)
    \/ UndoClaim(r) \/ UndoFails(r)

\* Every step of a cancellation after its first read.
CancelStep(c) ==
    \/ CancelClaim(c) \/ CancelLoses(c)
    \/ LoadCandidates(c) \/ SkipCandidate(c) \/ Promote(c) \/ PromoteReplyLost(c)
    \/ CascadeEnds(c) \/ ReleaseSeat(c) \/ LeaveQueue(c) \/ SettleFails(c)
    \/ LoadQueue(c) \/ Renumber(c) \/ RenumberEnds(c)

OrganiserStep(o) ==
    EditRead(o) \/ EditWrite(o) \/ DeleteCount(o) \/ Deactivate(o)

\* The requests of the instance are used up: nothing is stuck half way.
Quiet == \A c \in Calls : pc[c] \in Ended

Next ==
    \/ \E r \in Reserves : ReserveStep(r) \/ CheckIn(r) \/ CheckOut(r)
    \/ \E c \in Cancels : CancelRead(c) \/ CancelStep(c)
    \/ \E o \in Organisers : OrganiserStep(o)
    \/ \E c \in Calls : Crash(c)
    \/ Quiet /\ UNCHANGED vars

Spec == Init /\ [][Next]_vars

\* A handler that was not killed runs on: the event loop resumes every await.
FairSpec == Spec /\ \A c \in Cancels : WF_vars(CancelStep(c))

-----------------------------------------------------------------------------
(* Properties                                                              *)

Read == [row : Reserves \cup {"none"}, status : Status, position : Int]
Dto == [capacity : Capacities \cup {0}, revive : BOOLEAN]

\* Every variable keeps its type.
TypeOK ==
    /\ capacity \in Nat /\ ceiling \in Nat /\ isActive \in BOOLEAN
    /\ filledSlots \in Int /\ waitlistCount \in Int
    /\ status \in [Reserves -> Status]
    /\ position \in [Reserves -> Int]
    /\ createdAt \in [Reserves -> Nat]
    /\ pc \in [Calls -> Steps]
    /\ seen \in [Cancels -> Read]
    /\ list \in [Cancels -> SUBSET (Reserves \X Nat)]
    /\ dto \in [Organisers -> Dto]

\* Who accounts for a counted seat, and for a counted queue place: a row, or
\* a call that moved the counter and has not yet moved (or undone) the row.
Promised == {c \in Reserves \cup Cancels : pc[c] \in SeatSteps}
SeatTokens == Seated \cup Promised
QueueTokens == Waiting \cup {c \in Reserves \cup Cancels : pc[c] \in QueueSteps}

\* Conservation of seats: filledSlots counts the seated rows, the seats held
\* over a claim or a cascade, and those lost to a crash or a refused write.
\* A promotion transfers a seat; nothing frees or counts one twice.
SeatsConserved == filledSlots = Cardinality(SeatTokens)

\* Conservation of the queue count, promotions and cancellations included.
QueueConserved == waitlistCount = Cardinality(QueueTokens)

\* No seat is granted while as many are taken as the shift has at that moment,
\* and a freed one is given back or passed to one waiter, never both: the two
\* counters do what a set of holders would.
Allocation == INSTANCE SeatAllocation WITH
                  Seekers <- Reserves, Leavers <- Cancels, limit <- capacity,
                  holders <- Seated, waiters <- Waiting, promised <- Promised
SeatsAreAllocated == Allocation!Spec

\* I1: the rows in a seat never outnumber the largest capacity the shift has
\* had, whatever reservations, cascades and crashes interleave.
NeverOversold == Cardinality(Seated) <= ceiling

\* A row outside the queue carries no queue position, so no cascade can sort
\* by it: reindexWaitlist never stamps a row that has been promoted.
OffQueueHasNoPosition ==
    \A r \in Reserves : status[r] \notin {"NONE", "WAITLISTED"} => position[r] = 0

\* I2: of one volunteer's rows at most one is index-active.
OneActiveRow ==
    \A r, s \in Reserves :
        /\ status[r] \in IndexActive /\ status[s] \in IndexActive
        /\ VolunteerOf[r] = VolunteerOf[s]
        => r = s

\* A seat held over a cascade is given to a waiter, released, or lost with
\* its process; the cascade never keeps it.
HeldSeatSettles ==
    \A c \in Cancels : pc[c] = "pick" ~> pc[c] \in Ended \cup {"dequeue"}

=============================================================================
