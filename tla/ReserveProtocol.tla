--------------------------- MODULE ReserveProtocol ---------------------------
(***************************************************************************)
(* The two fences around reserveShift: the idempotency record of a client  *)
(* key and the lock document of a volunteer.                               *)
(*                                                                         *)
(* An attempt is one execution of reserveShift.  It claims its key, takes  *)
(* the volunteer's lock, reads the volunteer's schedule, writes a row and  *)
(* settles the record.  Both fences live in MongoDB and both can change    *)
(* hands: a record left PENDING for two minutes may be stolen, a lock held *)
(* for thirty seconds may be stolen or swept.  Every settling write        *)
(* therefore names the attempt it belongs to.                              *)
(*                                                                         *)
(* Time is abstract: Age and Expire let the two periods elapse at any      *)
(* moment, since nothing bounds how long an attempt stalls at an await.    *)
(* Nothing forces an attempt to take its next step either, so an attempt   *)
(* whose server crashed is one that takes no further step.                 *)
(* Seats and the queue's order are in SeatLedger; here a write adds a      *)
(* confirmed or a waitlisted row, or fails.  A row goes on without its     *)
(* attempt: it is promoted by a cascade, which takes no volunteer lock,    *)
(* cancelled or completed.  Trades of rows are in Roster.                  *)
(***************************************************************************)
EXTENDS Integers, FiniteSets

CONSTANTS
    Attempts,      \* executions of reserveShift
    Keys, Volunteers, Shifts,
    KeyOf, VolunteerOf, ShiftOf, AllowWaitlist,  \* what each attempt asks for
    Clash,         \* pairs of shifts one volunteer may not both be booked on
    Tries,         \* rounds of acquireVolunteerLock (VOLUNTEER_LOCK_RETRIES)
    Touches,       \* may the claiming upsert refresh updatedAt?  a set of BOOLEANs
    CanAge, CanExpire  \* may the two periods elapse?

NoAttempt == "nobody"

ASSUME RequestAssumption ==
    /\ KeyOf \in [Attempts -> Keys]
    /\ VolunteerOf \in [Attempts -> Volunteers]
    /\ ShiftOf \in [Attempts -> Shifts]
    /\ AllowWaitlist \in [Attempts -> BOOLEAN]
    /\ NoAttempt \notin Attempts

ASSUME TimingAssumption ==
    /\ Tries \in Nat \ {0}
    /\ Touches \in (SUBSET BOOLEAN) \ {{}}
    /\ CanAge \in BOOLEAN /\ CanExpire \in BOOLEAN

\* Clashing is symmetric: two intervals overlap, or fall within the buffer.
ASSUME ClashAssumption ==
    \A s, t \in Shifts : <<s, t>> \in Clash => <<t, s>> \in Clash

VARIABLES
    record,   \* per key: status, ownerToken, requestHash, the row committed
    aged,     \* per key: updatedAt is more than two minutes old
    rev,      \* per key: stands for the value of updatedAt
    lock,     \* per volunteer: the token holding it
    expired,  \* per volunteer: expiresAt has passed
    row,      \* per attempt: the status of its registration row; CONFIRMED stands
              \* for CHECKED_IN and SWAP_PENDING too
    target,   \* per attempt: targetStatus, that its row was written with
    cascade,  \* rows a cascade has checked and is about to promote
    pc, tries,         \* per attempt: step and lock rounds used
    seenRev, seenToken, \* per attempt: the updatedAt and the lock token it read
    answer,   \* per attempt: the attempt whose reservation it reported
    overdue,  \* history: attempts whose own lock ran out
    crossed   \* history: pairs of which the second was booked while the check
              \* of the first stood, in a race with a promotion

recordVars == <<record, aged, rev>>
lockVars == <<lock, expired>>
readVars == <<seenRev, seenToken>>
callVars == <<pc, tries, readVars, answer>>
rowVars == <<row, target, cascade, crossed>>
vars == <<recordVars, lockVars, rowVars, callVars, overdue>>

\* What the request hash covers.  Mutant: the two ids alone.
IdsOnly(a) == <<ShiftOf[a], VolunteerOf[a]>>
Payload(a) == <<ShiftOf[a], VolunteerOf[a], AllowWaitlist[a]>>

NoRecord == [status |-> "NONE", owner |-> NoAttempt, hash |-> <<>>, body |-> NoAttempt]
ClaimedBy(a) == [status |-> "PENDING", owner |-> a, hash |-> Payload(a), body |-> NoAttempt]
CommittedBy(a, hash) == [status |-> "COMMITTED", owner |-> a, hash |-> hash, body |-> a]

Critical == {"check", "write", "commit", "announce", "fail", "release"}
Steps == Critical \cup
    {"idle", "steal", "lock", "look", "takeover", "give_up", "done"}

Goto(a, step) == pc' = [pc EXCEPT ![a] = step]

\* A write to the record moves updatedAt: it is young, and differs from any
\* value read before.
Touch(k) ==
    /\ aged' = [aged EXCEPT ![k] = FALSE]
    /\ rev' = [rev EXCEPT ![k] = @ + 1]

-----------------------------------------------------------------------------
Init ==
    /\ record = [k \in Keys |-> NoRecord]
    /\ aged = [k \in Keys |-> FALSE]
    /\ rev = [k \in Keys |-> 0]
    /\ lock = [v \in Volunteers |-> NoAttempt]
    /\ expired = [v \in Volunteers |-> FALSE]
    /\ row = [a \in Attempts |-> "NONE"]
    /\ target = [a \in Attempts |-> "NONE"]
    /\ cascade = {} /\ crossed = {}
    /\ pc = [a \in Attempts |-> "idle"]
    /\ tries = [a \in Attempts |-> 0]
    /\ seenRev = [a \in Attempts |-> 0]
    /\ seenToken = [a \in Attempts |-> NoAttempt]
    /\ answer = [a \in Attempts |-> NoAttempt]
    /\ overdue = {}

-----------------------------------------------------------------------------
(* Step 1: the idempotency claim, one upsert.                              *)

ClaimNew(a) ==
    LET k == KeyOf[a] IN
    /\ pc[a] = "idle"
    /\ record[k].status = "NONE"
    /\ record' = [record EXCEPT ![k] = ClaimedBy(a)]
    /\ Touch(k)
    /\ Goto(a, "lock")
    /\ UNCHANGED <<lockVars, rowVars, tries, readVars, answer, overdue>>

\* What the attempt does with a record somebody else inserted.
AfterClaim(a, stale) ==
    LET r == record[KeyOf[a]] IN
    CASE r.status = "PENDING" /\ stale -> "steal"
      [] r.status = "FAILED" /\ r.hash = Payload(a) -> "lock"
      [] OTHER -> "done"

\* A settled record answers the same request again.
Replays(a) == record[KeyOf[a]].status = "COMMITTED" /\ record[KeyOf[a]].hash = Payload(a)

ClaimExisting(a) ==
    LET k == KeyOf[a] IN
    /\ pc[a] = "idle"
    /\ record[k].status # "NONE"
    /\ \E touch \in Touches :
        /\ IF touch THEN Touch(k) ELSE UNCHANGED <<aged, rev>>
        /\ Goto(a, AfterClaim(a, aged'[k]))
        /\ seenRev' = [seenRev EXCEPT ![a] = rev'[k]]
    /\ answer' = IF Replays(a) THEN [answer EXCEPT ![a] = record[k].body] ELSE answer
    /\ UNCHANGED <<record, lockVars, rowVars, tries, seenToken, overdue>>

\* The steal names the updatedAt that was read, so one stealer wins.
Steal(a) ==
    LET k == KeyOf[a] IN
    /\ pc[a] = "steal"
    /\ IF record[k].status = "PENDING" /\ rev[k] = seenRev[a]
       THEN /\ record' = [record EXCEPT ![k] = ClaimedBy(a)]
            /\ Touch(k)
            /\ Goto(a, "lock")
       ELSE Goto(a, "done") /\ UNCHANGED recordVars
    /\ UNCHANGED <<lockVars, rowVars, tries, readVars, answer, overdue>>

-----------------------------------------------------------------------------
(* Step 1b: acquireVolunteerLock, one document per volunteer.              *)

Acquire(a) ==
    /\ lock' = [lock EXCEPT ![VolunteerOf[a]] = a]
    /\ expired' = [expired EXCEPT ![VolunteerOf[a]] = FALSE]
    /\ Goto(a, "check")

\* The insert: the unique key decides.
LockCreate(a) ==
    /\ pc[a] = "lock"
    /\ IF lock[VolunteerOf[a]] = NoAttempt
       THEN Acquire(a)
       ELSE Goto(a, "look") /\ UNCHANGED lockVars
    /\ UNCHANGED <<recordVars, rowVars, tries, readVars, answer, overdue>>

NextRound(a) ==
    /\ tries' = [tries EXCEPT ![a] = @ + 1]
    /\ Goto(a, IF tries[a] + 1 < Tries THEN "lock" ELSE "give_up")

\* After the sleep: gone or live means another round, expired means steal it.
LockLook(a) ==
    LET v == VolunteerOf[a] IN
    /\ pc[a] = "look"
    /\ IF lock[v] # NoAttempt /\ expired[v]
       THEN /\ seenToken' = [seenToken EXCEPT ![a] = lock[v]]
            /\ Goto(a, "takeover")
            /\ UNCHANGED tries
       ELSE NextRound(a) /\ UNCHANGED seenToken
    /\ UNCHANGED <<recordVars, lockVars, rowVars, seenRev, answer, overdue>>

\* Mutant: the steal is filtered by the key alone.
LockStealAny(a) ==
    /\ pc[a] = "takeover"
    /\ Acquire(a)
    /\ UNCHANGED <<recordVars, rowVars, tries, readVars, answer, overdue>>

\* The steal names the token that was read.
LockSteal(a) ==
    /\ pc[a] = "takeover"
    /\ IF lock[VolunteerOf[a]] = seenToken[a]
       THEN Acquire(a) /\ UNCHANGED tries
       ELSE NextRound(a) /\ UNCHANGED lockVars
    /\ UNCHANGED <<recordVars, rowVars, readVars, answer, overdue>>

-----------------------------------------------------------------------------
(* Settling the record.  Each write is fenced by ownerToken.               *)

OwnsPending(a) == record[KeyOf[a]].status = "PENDING" /\ record[KeyOf[a]].owner = a

\* Mutants: the catch block names neither status nor token.
MarkFailedUnfenced(a) ==
    record' = [record EXCEPT ![KeyOf[a]] = [@ EXCEPT !.status = "FAILED"]] /\ Touch(KeyOf[a])

MarkFailed(a) ==
    IF OwnsPending(a)
    THEN record' = [record EXCEPT ![KeyOf[a]] = [@ EXCEPT !.status = "FAILED"]] /\ Touch(KeyOf[a])
    ELSE UNCHANGED recordVars

\* No lock after the last round: release the key and answer 409.
GiveUp(a) ==
    /\ pc[a] = "give_up"
    /\ MarkFailed(a)
    /\ Goto(a, "done")
    /\ UNCHANGED <<lockVars, rowVars, tries, readVars, answer, overdue>>

\* The catch block.
Fail(a) ==
    /\ pc[a] = "fail"
    /\ MarkFailed(a)
    /\ Goto(a, "release")
    /\ UNCHANGED <<lockVars, rowVars, tries, readVars, answer, overdue>>

\* Mutant: the commit is filtered by the key alone.
CommitUnfenced(a) ==
    /\ pc[a] = "commit"
    /\ record' = [record EXCEPT ![KeyOf[a]] = [@ EXCEPT !.status = "COMMITTED", !.body = a]]
    /\ Touch(KeyOf[a])
    /\ Goto(a, "announce")
    /\ UNCHANGED <<lockVars, rowVars, tries, readVars, answer, overdue>>

\* Step 8: the write may match nothing, and the attempt does not look.
Commit(a) ==
    LET k == KeyOf[a] IN
    /\ pc[a] = "commit"
    /\ IF record[k].owner = a
       THEN record' = [record EXCEPT ![k] = CommittedBy(a, @.hash)] /\ Touch(k)
       ELSE UNCHANGED recordVars
    /\ Goto(a, "announce")
    /\ UNCHANGED <<lockVars, rowVars, tries, readVars, answer, overdue>>

\* The store rejects the write: the row stays, the attempt fails.
CommitFails(a) ==
    /\ pc[a] = "commit"
    /\ Goto(a, "fail")
    /\ UNCHANGED <<recordVars, lockVars, rowVars, tries, readVars, answer, overdue>>

\* Step 9 and the answer 201; a listener that throws reaches the catch block.
Announce(a) ==
    /\ pc[a] = "announce"
    /\ \/ answer' = [answer EXCEPT ![a] = a] /\ Goto(a, "release")
       \/ UNCHANGED answer /\ Goto(a, "fail")
    /\ UNCHANGED <<recordVars, lockVars, rowVars, tries, readVars, overdue>>

\* Mutant: the finally block deletes whatever lock it finds.
ReleaseAny(a) ==
    /\ pc[a] = "release"
    /\ lock' = [lock EXCEPT ![VolunteerOf[a]] = NoAttempt]
    /\ Goto(a, "done")
    /\ UNCHANGED <<recordVars, expired, rowVars, tries, readVars, answer, overdue>>

\* The finally block deletes the lock only under its own token.
Release(a) ==
    LET v == VolunteerOf[a] IN
    /\ pc[a] = "release"
    /\ lock' = IF lock[v] = a THEN [lock EXCEPT ![v] = NoAttempt] ELSE lock
    /\ Goto(a, "done")
    /\ UNCHANGED <<recordVars, expired, rowVars, tries, readVars, answer, overdue>>

-----------------------------------------------------------------------------
(* Steps 2 to 7: check, then write.                                        *)

SameShift(a, b) == ShiftOf[a] = ShiftOf[b] /\ VolunteerOf[a] = VolunteerOf[b]
Overlaps(a, b) ==
    VolunteerOf[a] = VolunteerOf[b] /\ ShiftOf[a] # ShiftOf[b] /\ <<ShiftOf[a], ShiftOf[b]>> \in Clash

\* The partial index counts every row that was not cancelled; the schedule
\* rules count those that occupy the volunteer, and a queue place does not.
Taken(a) == \E b \in Attempts : row[b] \in {"CONFIRMED", "WAITLISTED", "COMPLETED"} /\ SameShift(a, b)
Clashes(a, b) == row[b] = "CONFIRMED" /\ Overlaps(a, b)

\* The reads of steps 2 to 5.  A row for the shift or a clashing one refuses
\* the attempt, and so may a rule that is not about pairs of rows.
Check(a) ==
    /\ pc[a] = "check"
    /\ IF Taken(a) \/ \E b \in Attempts : Clashes(a, b)
       THEN Goto(a, "fail")
       ELSE \E next \in {"write", "fail"} : Goto(a, next)
    /\ UNCHANGED <<recordVars, lockVars, rowVars, tries, readVars, answer, overdue>>

\* A seat, or a place in the queue of a full shift for who takes one.
Targets(a) == {"CONFIRMED"} \cup (IF AllowWaitlist[a] THEN {"WAITLISTED"} ELSE {})

\* Steps 6 and 7.  The index refuses a second row for the shift; a full shift
\* without a queue, or a store error, fails the attempt as well, and a lost
\* reply fails it although its row is there.
Write(a) ==
    /\ pc[a] = "write"
    /\ \/ /\ ~Taken(a)
          /\ \E s \in Targets(a) :
                /\ row' = [row EXCEPT ![a] = s] /\ target' = [target EXCEPT ![a] = s]
                /\ crossed' = IF s = "CONFIRMED"
                              THEN crossed \cup {<<b, a>> : b \in {c \in cascade : Overlaps(c, a)}}
                              ELSE crossed
          /\ \E next \in {"commit", "fail"} : Goto(a, next)
       \/ /\ Goto(a, "fail")
          /\ UNCHANGED <<row, target, crossed>>
    /\ UNCHANGED <<recordVars, lockVars, cascade, tries, readVars, answer, overdue>>

-----------------------------------------------------------------------------
(* What becomes of a row: cancelRegistration and its cascade, and the desk.*)

\* The cascade reads the schedule of a candidate, and skips one with a clash.
PromoteCheck(b) ==
    /\ row[b] = "WAITLISTED" /\ b \notin cascade
    /\ ~\E c \in Attempts : Clashes(b, c)
    /\ cascade' = cascade \cup {b}
    /\ UNCHANGED <<recordVars, lockVars, row, target, crossed, callVars, overdue>>

\* The checks that a promotion overtakes: of other cascades, and of attempts,
\* whose lock it does not ask for.
Standing == cascade \cup {a \in Attempts : pc[a] = "write"}

\* Promoted if it is still in the queue.
Promote(b) ==
    /\ b \in cascade /\ cascade' = cascade \ {b}
    /\ IF row[b] = "WAITLISTED"
       THEN /\ row' = [row EXCEPT ![b] = "CONFIRMED"]
            /\ crossed' = crossed \cup {<<a, b>> : a \in {c \in Standing : Overlaps(c, b)}}
       ELSE UNCHANGED <<row, crossed>>
    /\ UNCHANGED <<recordVars, lockVars, target, callVars, overdue>>

Cancel(b) ==
    /\ row[b] \in {"CONFIRMED", "WAITLISTED"}
    /\ row' = [row EXCEPT ![b] = "CANCELLED"]
    /\ UNCHANGED <<recordVars, lockVars, target, cascade, crossed, callVars, overdue>>

\* Checked in and out.
Complete(b) ==
    /\ row[b] = "CONFIRMED"
    /\ row' = [row EXCEPT ![b] = "COMPLETED"]
    /\ UNCHANGED <<recordVars, lockVars, target, cascade, crossed, callVars, overdue>>

-----------------------------------------------------------------------------
(* The clock and the TTL sweeper.                                          *)

\* Thirty seconds pass on a lock, whatever its holder is doing.
Expire(v) ==
    /\ CanExpire
    /\ lock[v] # NoAttempt /\ ~expired[v]
    /\ expired' = [expired EXCEPT ![v] = TRUE]
    /\ overdue' = overdue \cup {lock[v]}
    /\ UNCHANGED <<recordVars, lock, rowVars, callVars>>

\* The TTL index deletes an expired lock.
Sweep(v) ==
    /\ lock[v] # NoAttempt /\ expired[v]
    /\ lock' = [lock EXCEPT ![v] = NoAttempt]
    /\ UNCHANGED <<recordVars, expired, rowVars, callVars, overdue>>

\* Two minutes pass on a pending record.
Age(k) ==
    /\ CanAge
    /\ record[k].status = "PENDING" /\ ~aged[k]
    /\ aged' = [aged EXCEPT ![k] = TRUE]
    /\ UNCHANGED <<record, rev, lockVars, rowVars, callVars, overdue>>

AttemptStep(a) ==
    \/ ClaimNew(a) \/ ClaimExisting(a) \/ Steal(a)
    \/ LockCreate(a) \/ LockLook(a) \/ LockSteal(a) \/ GiveUp(a)
    \/ Check(a) \/ Write(a)
    \/ Commit(a) \/ CommitFails(a) \/ Announce(a) \/ Fail(a) \/ Release(a)

Quiet == \A a \in Attempts : pc[a] = "done"

Next ==
    \/ \E a \in Attempts : AttemptStep(a)
    \/ \E v \in Volunteers : Expire(v) \/ Sweep(v)
    \/ \E k \in Keys : Age(k)
    \/ \E b \in Attempts : PromoteCheck(b) \/ Promote(b) \/ Cancel(b) \/ Complete(b)
    \/ Quiet /\ UNCHANGED vars

Spec == Init /\ [][Next]_vars

-----------------------------------------------------------------------------
(* Properties                                                              *)

Tokens == Attempts \cup {NoAttempt}
Payloads == Shifts \X Volunteers \X BOOLEAN
Statuses == {"NONE", "CONFIRMED", "WAITLISTED", "CANCELLED", "COMPLETED"}
Records == [status : {"NONE", "PENDING", "COMMITTED", "FAILED"}, owner : Tokens,
            hash : Payloads \cup {<<>>}, body : Tokens]

\* Every variable keeps its type.
TypeOK ==
    /\ record \in [Keys -> Records]
    /\ aged \in [Keys -> BOOLEAN] /\ rev \in [Keys -> Nat]
    /\ lock \in [Volunteers -> Tokens] /\ expired \in [Volunteers -> BOOLEAN]
    /\ row \in [Attempts -> Statuses]
    /\ target \in [Attempts -> {"NONE", "CONFIRMED", "WAITLISTED"}]
    /\ cascade \subseteq Attempts /\ crossed \subseteq Attempts \X Attempts
    /\ pc \in [Attempts -> Steps]
    /\ tries \in [Attempts -> Nat]
    /\ seenRev \in [Attempts -> Nat] /\ seenToken \in [Attempts -> Tokens]
    /\ answer \in [Attempts -> Tokens]
    /\ overdue \subseteq Attempts

\* The lock excludes: an attempt inside the section still holds its
\* volunteer's lock unless its own thirty seconds ran out.  So no late
\* release and no rival steal ever takes a live lock away.
LiveHolderKeepsLock ==
    \A a \in Attempts : pc[a] \in Critical /\ a \notin overdue => lock[VolunteerOf[a]] = a

\* I3 between reservations: two clashing bookings of one volunteer mean that
\* one of the two attempts had outlived its lock, or that one row was promoted,
\* or was about to be, when the other was booked.  Queue places may overlap.
NoDoubleBooking ==
    \A a, b \in Attempts :
        row[a] = "CONFIRMED" /\ Clashes(a, b) /\ a # b =>
            a \in overdue \/ b \in overdue \/ <<a, b>> \in crossed \/ <<b, a>> \in crossed

\* A COMMITTED record tells the truth: its body is of a row that was written,
\* for the very request the record was claimed for, by the attempt that owns it.
CommittedIsReal ==
    \A k \in Keys : record[k].status = "COMMITTED" =>
        /\ record[k].body \in Attempts /\ target[record[k].body] # "NONE"
        /\ record[k].owner = record[k].body
        /\ record[k].hash = Payload(record[k].body)

SameRequest(a, b) ==
    ShiftOf[a] = ShiftOf[b] /\ VolunteerOf[a] = VolunteerOf[b] /\ AllowWaitlist[a] = AllowWaitlist[b]

\* A caller is told of a reservation only if its row was written, and it is the
\* reservation the caller asked for: a replay never answers another request,
\* and who asked not to queue is never told of a queue place.
AnswersAreTrue ==
    \A a \in Attempts : answer[a] # NoAttempt =>
        /\ answer[a] \in Attempts /\ SameRequest(a, answer[a])
        /\ target[answer[a]] \in Targets(a)

\* The fence: only a PENDING record changes, and under the attempt that owns
\* it only through that attempt's own step or a steal of a record gone stale.
\* A settled record never moves again: COMMITTED is not walked back to FAILED.
OwnerDecides ==
    [][\A k \in Keys :
         record'[k] # record[k] /\ record[k].status # "NONE" =>
             /\ record[k].status = "PENDING"
             /\ \/ record'[k].owner = record[k].owner /\ pc'[record[k].owner] # pc[record[k].owner]
                \/ record'[k].owner # record[k].owner /\ aged[k]]_vars

=============================================================================
