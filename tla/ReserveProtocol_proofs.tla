----------------------- MODULE ReserveProtocol_proofs -----------------------
(***************************************************************************)
(* Theorems about ReserveProtocol for every set of attempts, keys,         *)
(* volunteers and shifts, with crashes, stalls, expiries and steals.       *)
(***************************************************************************)
EXTENDS ReserveProtocol, TLAPS

\* The steps of Next that are no attempt's: the clock, and what becomes of rows.
Clock == (\E v \in Volunteers : Expire(v) \/ Sweep(v)) \/ (\E k \in Keys : Age(k))
Fate(b) == PromoteCheck(b) \/ Promote(b) \/ Cancel(b) \/ Complete(b)
Outside == Clock \/ (\E b \in Attempts : Fate(b)) \/ UNCHANGED vars

LEMMA Steppers == [Next]_vars => (\E a \in Attempts : AttemptStep(a)) \/ Outside
  BY DEF Next, Outside, Clock, Fate

\* Outside leaves the calls alone, and of the records only their age moves.
LEMMA OutsideCalls ==
  ASSUME Outside
  PROVE  /\ UNCHANGED <<record, rev, callVars, target>>
         /\ overdue \subseteq overdue'
         /\ \/ UNCHANGED aged
            \/ \E k \in Keys : aged' = [aged EXCEPT ![k] = TRUE]
  BY DEF Outside, Clock, Fate, Expire, Sweep, Age, PromoteCheck, Promote, Cancel, Complete,
         vars, recordVars, rowVars

-----------------------------------------------------------------------------
(* Type correctness.                                                       *)

LEMMA InitType == Init => TypeOK
  BY TimingAssumption
     DEF Init, TypeOK, NoRecord, Records, Tokens, Statuses, Steps, Critical

\* The record side of the state, for the actions that settle or claim it.
LEMMA TouchType ==
  ASSUME TypeOK, NEW k \in Keys, Touch(k)
  PROVE  aged' \in [Keys -> BOOLEAN] /\ rev' \in [Keys -> Nat]
  BY DEF TypeOK, Touch

LEMMA FailType ==
  ASSUME TypeOK, NEW a \in Attempts, MarkFailed(a)
  PROVE  record' \in [Keys -> Records] /\ aged' \in [Keys -> BOOLEAN] /\ rev' \in [Keys -> Nat]
  <1>1. KeyOf[a] \in Keys /\ record[KeyOf[a]] \in Records
    BY RequestAssumption DEF TypeOK
  <1>2. CASE OwnsPending(a)
    <2>1. [record[KeyOf[a]] EXCEPT !.status = "FAILED"] \in Records
      BY <1>1 DEF Records
    <2>2. record' = [record EXCEPT ![KeyOf[a]] = [@ EXCEPT !.status = "FAILED"]] /\ Touch(KeyOf[a])
      BY <1>2 DEF MarkFailed
    <2>3. record' \in [Keys -> Records]
      BY <2>1, <2>2 DEF TypeOK
    <2>4. QED  BY <1>1, <2>2, <2>3, TouchType
  <1>3. CASE ~OwnsPending(a)
    BY <1>3 DEF MarkFailed, TypeOK, recordVars
  <1>4. QED  BY <1>2, <1>3

LEMMA AcquireType ==
  ASSUME TypeOK, NEW a \in Attempts, Acquire(a)
  PROVE  lock' \in [Volunteers -> Tokens] /\ expired' \in [Volunteers -> BOOLEAN]
  <1>1. a \in Tokens
    BY DEF Tokens
  <1>2. lock' \in [Volunteers -> Tokens]
    BY <1>1 DEF Acquire, TypeOK
  <1>3. QED  BY <1>2 DEF Acquire, TypeOK

LEMMA AttemptType ==
  ASSUME TypeOK, NEW a \in Attempts, AttemptStep(a)
  PROVE  TypeOK'
  <1> USE RequestAssumption DEF recordVars, lockVars, rowVars, readVars, callVars, Goto
  <1>1. CASE ClaimNew(a)
    <2>1. ClaimedBy(a) \in Records
      BY DEF Records, Tokens, Payloads, Payload, ClaimedBy
    <2>2. record' \in [Keys -> Records]
      BY <1>1, <2>1 DEF ClaimNew, TypeOK
    <2>3. aged' \in [Keys -> BOOLEAN] /\ rev' \in [Keys -> Nat]
      BY <1>1, TouchType DEF ClaimNew
    <2>4. QED  BY <1>1, <2>2, <2>3 DEF ClaimNew, TypeOK, Steps
  <1>2. CASE ClaimExisting(a)
    <2>1. aged' \in [Keys -> BOOLEAN] /\ rev' \in [Keys -> Nat]
      BY <1>2, TouchType DEF ClaimExisting, TypeOK
    <2>2. pc' \in [Attempts -> Steps]
      <3>1. ASSUME NEW stale PROVE AfterClaim(a, stale) \in Steps
        BY DEF AfterClaim, Steps
      <3>2. QED  BY <1>2, <3>1 DEF ClaimExisting, TypeOK
    <2>3. seenRev' \in [Attempts -> Nat]
      BY <1>2, <2>1 DEF ClaimExisting, TypeOK
    <2>4. record[KeyOf[a]].body \in Tokens
      BY DEF TypeOK, Records
    <2>5. answer' \in [Attempts -> Tokens]
      BY <1>2, <2>4 DEF ClaimExisting, TypeOK
    <2>6. QED  BY <1>2, <2>1, <2>2, <2>3, <2>5 DEF ClaimExisting, TypeOK
  <1>3. CASE Steal(a)
    <2>1. ClaimedBy(a) \in Records
      BY DEF Records, Tokens, Payloads, Payload, ClaimedBy
    <2>2. record' \in [Keys -> Records]
      BY <1>3, <2>1 DEF Steal, TypeOK
    <2>3. aged' \in [Keys -> BOOLEAN] /\ rev' \in [Keys -> Nat]
      BY <1>3, TouchType DEF Steal, TypeOK
    <2>4. QED  BY <1>3, <2>2, <2>3 DEF Steal, TypeOK, Steps
  <1>4. CASE LockCreate(a) \/ LockSteal(a)
    <2>1. CASE LockCreate(a)
      <3>1. pc' \in [Attempts -> Steps]
        BY <2>1 DEF LockCreate, Acquire, TypeOK, Steps, Critical
      <3>2. lock' \in [Volunteers -> Tokens] /\ expired' \in [Volunteers -> BOOLEAN]
        BY <2>1, AcquireType DEF LockCreate, TypeOK
      <3>3. QED  BY <2>1, <3>1, <3>2 DEF LockCreate, TypeOK
    <2>2. CASE LockSteal(a)
      <3>1. tries' \in [Attempts -> Nat] /\ pc' \in [Attempts -> Steps]
        BY <2>2 DEF LockSteal, Acquire, NextRound, TypeOK, Steps, Critical
      <3>2. lock' \in [Volunteers -> Tokens] /\ expired' \in [Volunteers -> BOOLEAN]
        BY <2>2, AcquireType DEF LockSteal, TypeOK
      <3>3. QED  BY <2>2, <3>1, <3>2 DEF LockSteal, TypeOK
    <2>3. QED  BY <1>4, <2>1, <2>2
  <1>5. CASE LockLook(a)
    BY <1>5, TimingAssumption DEF LockLook, NextRound, TypeOK, Steps
  <1>6. CASE GiveUp(a) \/ Fail(a)
    <2>1. MarkFailed(a)
      BY <1>6 DEF GiveUp, Fail
    <2>2. QED  BY <1>6, <2>1, FailType DEF GiveUp, Fail, TypeOK, Steps, Critical
  <1>7. CASE Commit(a)
    <2>1. record' \in [Keys -> Records]
      <3>1. record[KeyOf[a]].hash \in Payloads \cup {<<>>}
        BY DEF TypeOK, Records
      <3>2. CommittedBy(a, record[KeyOf[a]].hash) \in Records
        BY <3>1 DEF CommittedBy, Records, Tokens
      <3>3. QED  BY <1>7, <3>2 DEF Commit, TypeOK
    <2>2. aged' \in [Keys -> BOOLEAN] /\ rev' \in [Keys -> Nat]
      BY <1>7, TouchType DEF Commit, TypeOK
    <2>3. QED  BY <1>7, <2>1, <2>2 DEF Commit, TypeOK, Tokens, Steps, Critical
  <1>8. CASE Release(a)
    BY <1>8 DEF Release, TypeOK, Tokens, Steps
  <1>9. CASE Check(a) \/ CommitFails(a) \/ Announce(a)
    BY <1>9 DEF Check, CommitFails, Announce, TypeOK, Tokens, Steps, Critical
  <1>10. CASE Write(a)
    <2>1. row' \in [Attempts -> Statuses] /\ target' \in [Attempts -> {"NONE", "CONFIRMED", "WAITLISTED"}]
      BY <1>10 DEF Write, Targets, Statuses, TypeOK
    <2>2. crossed' \subseteq Attempts \X Attempts
      BY <1>10 DEF Write, TypeOK
    <2>3. QED  BY <1>10, <2>1, <2>2 DEF Write, TypeOK, Steps, Critical
  <1>11. QED
    BY <1>1, <1>2, <1>3, <1>4, <1>5, <1>6, <1>7, <1>8, <1>9, <1>10 DEF AttemptStep

LEMMA OutsideType ==
  ASSUME TypeOK, Outside
  PROVE  TypeOK'
  <1> USE DEF TypeOK, recordVars, lockVars, rowVars, readVars, callVars
  <1>1. ASSUME NEW v \in Volunteers, Expire(v) \/ Sweep(v) PROVE TypeOK'
    BY <1>1 DEF Expire, Sweep, Tokens
  <1>2. ASSUME NEW k \in Keys, Age(k) PROVE TypeOK'
    BY <1>2 DEF Age
  <1>3. ASSUME NEW b \in Attempts, PromoteCheck(b) \/ Cancel(b) \/ Complete(b) PROVE TypeOK'
    BY <1>3 DEF PromoteCheck, Cancel, Complete, Statuses
  <1>4. ASSUME NEW b \in Attempts, Promote(b) PROVE TypeOK'
    <2>1. crossed' \subseteq Attempts \X Attempts
      BY <1>4 DEF Promote, Standing
    <2>2. row' \in [Attempts -> Statuses]
      BY <1>4 DEF Promote, Statuses
    <2>3. QED  BY <1>4, <2>1, <2>2 DEF Promote
  <1>5. CASE UNCHANGED vars
    BY <1>5 DEF vars
  <1>6. QED  BY <1>1, <1>2, <1>3, <1>4, <1>5 DEF Outside, Clock, Fate

LEMMA NextType == TypeOK /\ [Next]_vars => TypeOK'
  BY AttemptType, OutsideType, Steppers

\* Every variable keeps its type.
THEOREM TypeCorrect == Spec => []TypeOK
  BY InitType, NextType, PTL DEF Spec

-----------------------------------------------------------------------------
(* The lock.  Its exclusion rests on what the waiters know: a lock marked  *)
(* expired, or a token read for a takeover, is that of an attempt whose    *)
(* time ran out.                                                           *)

ExpiredIsOverdue ==
    \A v \in Volunteers : lock[v] # NoAttempt /\ expired[v] => lock[v] \in overdue

SeenIsOverdue ==
    \A a \in Attempts : pc[a] = "takeover" => seenToken[a] \in overdue

LockInv == TypeOK /\ ExpiredIsOverdue /\ SeenIsOverdue /\ LiveHolderKeepsLock

LEMMA InitLock == Init => LockInv
  BY InitType DEF Init, LockInv, ExpiredIsOverdue, SeenIsOverdue, LiveHolderKeepsLock, Critical

\* An acquisition, by the insert or by a takeover, displaces nobody live.
LEMMA AcquireLock ==
  ASSUME LockInv, TypeOK', NEW a \in Attempts, Acquire(a),
         pc[a] \notin Critical,
         lock[VolunteerOf[a]] = NoAttempt \/ lock[VolunteerOf[a]] \in overdue,
         UNCHANGED <<seenToken, overdue>>
  PROVE  LockInv'
  <1> USE RequestAssumption DEF LockInv
  <1>1. ExpiredIsOverdue'
    BY DEF Acquire, ExpiredIsOverdue, TypeOK
  <1>2. SeenIsOverdue'
    BY DEF Acquire, Goto, SeenIsOverdue, TypeOK
  <1>3. LiveHolderKeepsLock'
    BY DEF Acquire, Goto, LiveHolderKeepsLock, TypeOK, Critical
  <1>4. QED  BY <1>1, <1>2, <1>3

\* A step that leaves the locks alone and enters neither the section nor a
\* takeover.
LEMMA AsideLock ==
  ASSUME LockInv, TypeOK', NEW a \in Attempts, NEW step, Goto(a, step),
         step \in Critical => pc[a] \in Critical,
         step # "takeover",
         UNCHANGED <<lockVars, seenToken, overdue>>
  PROVE  LockInv'
  BY DEF LockInv, Goto, lockVars, ExpiredIsOverdue, SeenIsOverdue, LiveHolderKeepsLock, TypeOK

LEMMA StepLock ==
  ASSUME LockInv, TypeOK', NEW a \in Attempts, AttemptStep(a)
  PROVE  LockInv'
  <1> USE RequestAssumption DEF LockInv, readVars
  <1>1. CASE ClaimNew(a)
    BY <1>1, AsideLock DEF ClaimNew, Critical
  <1>2. CASE ClaimExisting(a)
    <2>1. PICK stale : Goto(a, AfterClaim(a, stale))
      BY <1>2 DEF ClaimExisting
    <2>2. AfterClaim(a, stale) \in {"steal", "lock", "done"}
      BY DEF AfterClaim
    <2>3. QED  BY <1>2, <2>1, <2>2, AsideLock DEF ClaimExisting, Critical
  <1>3. CASE Steal(a)
    BY <1>3, AsideLock DEF Steal, Critical
  <1>4. CASE LockCreate(a)
    <2>1. CASE lock[VolunteerOf[a]] = NoAttempt
      BY <1>4, <2>1, AcquireLock DEF LockCreate, Critical
    <2>2. CASE lock[VolunteerOf[a]] # NoAttempt
      BY <1>4, <2>2, AsideLock DEF LockCreate, Critical
    <2>3. QED  BY <2>1, <2>2
  <1>5. CASE LockLook(a)
    <2>1. CASE lock[VolunteerOf[a]] # NoAttempt /\ expired[VolunteerOf[a]]
      <3>1. lock[VolunteerOf[a]] \in overdue
        BY <2>1 DEF ExpiredIsOverdue
      <3>2. QED
        BY <1>5, <2>1, <3>1
           DEF LockLook, Goto, lockVars, ExpiredIsOverdue, SeenIsOverdue, LiveHolderKeepsLock,
               TypeOK, Critical
    <2>2. CASE ~(lock[VolunteerOf[a]] # NoAttempt /\ expired[VolunteerOf[a]])
      BY <1>5, <2>2, AsideLock DEF LockLook, NextRound, Critical
    <2>3. QED  BY <2>1, <2>2
  <1>6. CASE LockSteal(a)
    <2>1. CASE lock[VolunteerOf[a]] = seenToken[a]
      <3>1. seenToken[a] \in overdue
        BY <1>6 DEF LockSteal, SeenIsOverdue
      <3>2. QED  BY <1>6, <2>1, <3>1, AcquireLock DEF LockSteal, Critical
    <2>2. CASE lock[VolunteerOf[a]] # seenToken[a]
      BY <1>6, <2>2, AsideLock DEF LockSteal, NextRound, Critical
    <2>3. QED  BY <2>1, <2>2
  <1>7. CASE GiveUp(a) \/ Fail(a)
    BY <1>7, AsideLock DEF GiveUp, Fail, Critical
  <1>8. CASE Commit(a) \/ CommitFails(a) \/ Announce(a)
    BY <1>8, AsideLock DEF Commit, CommitFails, Announce, Critical
  <1>9. CASE Check(a) \/ Write(a)
    BY <1>9, AsideLock DEF Check, Write, Critical
  <1>10. CASE Release(a)
    <2>1. ExpiredIsOverdue' /\ SeenIsOverdue'
      BY <1>10 DEF Release, Goto, ExpiredIsOverdue, SeenIsOverdue, TypeOK
    <2>2. LiveHolderKeepsLock'
      BY <1>10 DEF Release, Goto, LiveHolderKeepsLock, TypeOK, Critical
    <2>3. QED  BY <2>1, <2>2
  <1>11. QED
    BY <1>1, <1>2, <1>3, <1>4, <1>5, <1>6, <1>7, <1>8, <1>9, <1>10 DEF AttemptStep

LEMMA NextLock == LockInv /\ [Next]_vars => LockInv'
  <1> SUFFICES ASSUME LockInv, [Next]_vars PROVE LockInv'
    OBVIOUS
  <1>1. TypeOK'
    BY NextType DEF LockInv
  <1>2. ASSUME NEW a \in Attempts, AttemptStep(a) PROVE LockInv'
    BY <1>1, <1>2, StepLock
  <1>3. ASSUME NEW v \in Volunteers, Expire(v) \/ Sweep(v) PROVE LockInv'
    <2>1. ExpiredIsOverdue'
      <3>1. CASE Expire(v)
        BY <3>1 DEF LockInv, Expire, ExpiredIsOverdue, TypeOK
      <3>2. CASE Sweep(v)
        BY <3>2 DEF LockInv, Sweep, ExpiredIsOverdue, TypeOK
      <3>3. QED  BY <1>3, <3>1, <3>2
    <2>2. SeenIsOverdue'
      BY <1>3 DEF LockInv, Expire, Sweep, callVars, readVars, SeenIsOverdue
    <2>3. LiveHolderKeepsLock'
      <3>1. CASE Expire(v)
        BY <3>1 DEF LockInv, Expire, callVars, LiveHolderKeepsLock
      <3>2. CASE Sweep(v)
        BY <3>2 DEF LockInv, Sweep, callVars, ExpiredIsOverdue, LiveHolderKeepsLock, TypeOK
      <3>3. QED  BY <1>3, <3>1, <3>2
    <2>4. QED  BY <1>1, <2>1, <2>2, <2>3 DEF LockInv
  <1>4. CASE (\E k \in Keys : Age(k)) \/ (\E b \in Attempts : Fate(b)) \/ UNCHANGED vars
    <2>1. UNCHANGED <<lockVars, callVars, overdue>>
      BY <1>4 DEF Age, Fate, PromoteCheck, Promote, Cancel, Complete, vars
    <2>2. QED
      BY <1>1, <2>1
         DEF lockVars, callVars, readVars, LockInv, ExpiredIsOverdue, SeenIsOverdue,
             LiveHolderKeepsLock
  <1>5. QED  BY <1>2, <1>3, <1>4, Steppers DEF Outside, Clock

\* Exclusion: an attempt between the acquisition and the release of its
\* volunteer's lock holds that lock unless its own thirty seconds ran out.
THEOREM LockExcludes == Spec => []LiveHolderKeepsLock
  <1>1. LockInv => LiveHolderKeepsLock
    BY DEF LockInv
  <1>2. QED  BY <1>1, InitLock, NextLock, PTL DEF Spec

-----------------------------------------------------------------------------
(* Double booking.  What a check read stays true until the write, as far   *)
(* as attempts within their thirty seconds are concerned: any other writer *)
(* would have held the same lock.  A promotion holds none, so every check  *)
(* it overtakes, and every booking that overtakes its own, is in crossed.  *)

CheckedIsClear ==
    \A a \in Attempts : pc[a] = "write" =>
        \A b \in Attempts : Clashes(a, b) =>
            a \in overdue \/ b \in overdue \/ <<a, b>> \in crossed

CascadeIsClear ==
    \A b \in cascade : \A c \in Attempts : Clashes(b, c) => <<b, c>> \in crossed

BookInv == LockInv /\ CheckedIsClear /\ CascadeIsClear /\ NoDoubleBooking

LEMMA OverlapSymmetry ==
  ASSUME NEW a \in Attempts, NEW b \in Attempts, Overlaps(a, b)
  PROVE  Overlaps(b, a)
  BY RequestAssumption, ClashAssumption DEF Overlaps

\* A step that books nothing and does not come out of a check.
LEMMA AsideBook ==
  ASSUME BookInv, LockInv',
         \A a \in Attempts : row'[a] = "CONFIRMED" => row[a] = "CONFIRMED",
         \A a \in Attempts : pc'[a] = "write" => pc[a] = "write",
         cascade' \subseteq cascade, crossed \subseteq crossed', overdue \subseteq overdue'
  PROVE  BookInv'
  <1> USE DEF BookInv, Clashes
  <1>1. CheckedIsClear'
    BY DEF CheckedIsClear
  <1>2. CascadeIsClear'
    BY DEF CascadeIsClear, LockInv, TypeOK
  <1>3. NoDoubleBooking'
    BY DEF NoDoubleBooking
  <1>4. QED  BY <1>1, <1>2, <1>3

\* A booking of a: every check that stands over it is excused.
LEMMA BookingBook ==
  ASSUME BookInv, LockInv', NEW a \in Attempts,
         row' = [row EXCEPT ![a] = "CONFIRMED"],
         \A b \in Attempts : pc'[b] = "write" => pc[b] = "write",
         cascade' \subseteq cascade, crossed \subseteq crossed', overdue \subseteq overdue',
         \A b \in Attempts : Clashes(a, b) =>
            a \in overdue \/ b \in overdue \/ <<a, b>> \in crossed,
         \A b \in Attempts : pc'[b] = "write" /\ Overlaps(b, a) =>
            a \in overdue \/ b \in overdue \/ <<b, a>> \in crossed',
         \A b \in cascade' : Overlaps(b, a) => <<b, a>> \in crossed'
  PROVE  BookInv'
  <1> USE DEF BookInv, Clashes
  <1>1. row \in [Attempts -> Statuses] /\ cascade' \subseteq Attempts
    BY DEF LockInv, TypeOK
  <1>2. CheckedIsClear'
    <2> SUFFICES ASSUME NEW b \in Attempts, pc'[b] = "write",
                        NEW c \in Attempts, row'[c] = "CONFIRMED", Overlaps(b, c)
                 PROVE  b \in overdue' \/ c \in overdue' \/ <<b, c>> \in crossed'
      BY DEF CheckedIsClear, Overlaps
    <2>1. CASE c = a
      BY <2>1
    <2>2. CASE c # a
      <3>1. row[c] = "CONFIRMED"
        BY <1>1, <2>2
      <3>2. QED  BY <3>1 DEF CheckedIsClear
    <2>3. QED  BY <2>1, <2>2
  <1>3. CascadeIsClear'
    <2> SUFFICES ASSUME NEW b \in cascade',
                        NEW c \in Attempts, row'[c] = "CONFIRMED", Overlaps(b, c)
                 PROVE  <<b, c>> \in crossed'
      BY DEF CascadeIsClear, Overlaps
    <2>1. CASE c = a
      BY <2>1
    <2>2. CASE c # a
      BY <1>1, <2>2 DEF CascadeIsClear
    <2>3. QED  BY <2>1, <2>2
  <1>4. NoDoubleBooking'
    <2> SUFFICES ASSUME NEW b \in Attempts, NEW c \in Attempts, b # c,
                        row'[b] = "CONFIRMED", row'[c] = "CONFIRMED", Overlaps(b, c)
                 PROVE  \/ b \in overdue' \/ c \in overdue'
                        \/ <<b, c>> \in crossed' \/ <<c, b>> \in crossed'
      BY DEF NoDoubleBooking, Overlaps
    <2>1. CASE b = a
      BY <1>1, <2>1
    <2>2. CASE c = a
      BY <1>1, <2>2, OverlapSymmetry
    <2>3. CASE b # a /\ c # a
      BY <1>1, <2>3 DEF NoDoubleBooking
    <2>4. QED  BY <2>1, <2>2, <2>3
  <1>5. QED  BY <1>2, <1>3, <1>4

LEMMA CheckBook ==
  ASSUME BookInv, LockInv', NEW a \in Attempts, Check(a)
  PROVE  BookInv'
  <1> USE DEF BookInv, rowVars
  <1>1. NoDoubleBooking'
    BY DEF Check, NoDoubleBooking, Clashes
  <1>2. CascadeIsClear'
    BY DEF Check, CascadeIsClear, Clashes
  <1>3. ASSUME NEW b \in Attempts, pc'[b] = "write", NEW c \in Attempts, Clashes(b, c)
        PROVE  b \in overdue \/ c \in overdue \/ <<b, c>> \in crossed
    <2>1. pc \in [Attempts -> Steps]
      BY DEF LockInv, TypeOK
    <2>2. CASE a = b
      BY <1>3, <2>1, <2>2 DEF Check, Goto
    <2>3. CASE a # b
      <3>1. pc[b] = "write"
        BY <1>3, <2>1, <2>3 DEF Check, Goto
      <3>2. QED  BY <1>3, <3>1 DEF CheckedIsClear
    <2>4. QED  BY <2>2, <2>3
  <1>4. CheckedIsClear'
    BY <1>3 DEF Check, CheckedIsClear, Clashes
  <1>5. QED  BY <1>1, <1>2, <1>4

LEMMA WriteBook ==
  ASSUME BookInv, LockInv', NEW a \in Attempts, Write(a)
  PROVE  BookInv'
  <1> USE DEF BookInv
  <1>0. pc \in [Attempts -> Steps] /\ row \in [Attempts -> Statuses] /\ cascade \subseteq Attempts
    BY DEF LockInv, TypeOK
  <1>1. pc[a] = "write" /\ pc'[a] # "write" /\ \A b \in Attempts \ {a} : pc'[b] = pc[b]
    BY <1>0 DEF Write, Goto
  <1>2. \A b \in Attempts : pc'[b] = "write" => pc[b] = "write"
    BY <1>1
  <1>3. UNCHANGED <<cascade, overdue>> /\ crossed \subseteq crossed'
    BY DEF Write
  <1>4. CASE /\ row' = [row EXCEPT ![a] = "CONFIRMED"]
             /\ crossed' = crossed \cup {<<b, a>> : b \in {c \in cascade : Overlaps(c, a)}}
    <2>1. \A b \in Attempts : Clashes(a, b) => a \in overdue \/ b \in overdue \/ <<a, b>> \in crossed
      BY <1>1 DEF CheckedIsClear
    \* A second attempt about to write would hold the same lock.
    <2>2. \A b \in Attempts : pc'[b] = "write" /\ Overlaps(b, a) => a \in overdue \/ b \in overdue
      BY <1>1 DEF LockInv, LiveHolderKeepsLock, Critical, Overlaps
    <2>3. \A b \in cascade' : Overlaps(b, a) => <<b, a>> \in crossed'
      BY <1>3, <1>4
    <2>4. QED  BY <1>2, <1>3, <1>4, <2>1, <2>2, <2>3, BookingBook
  <1>5. CASE \A b \in Attempts : row'[b] = "CONFIRMED" => row[b] = "CONFIRMED"
    BY <1>2, <1>3, <1>5, AsideBook
  <1>6. \/ /\ row' = [row EXCEPT ![a] = "CONFIRMED"]
           /\ crossed' = crossed \cup {<<b, a>> : b \in {c \in cascade : Overlaps(c, a)}}
        \/ row' = [row EXCEPT ![a] = "WAITLISTED"]
        \/ row' = row
    BY DEF Write, Targets
  <1>7. QED  BY <1>0, <1>4, <1>5, <1>6

LEMMA FateBook ==
  ASSUME BookInv, LockInv', NEW b \in Attempts, Fate(b)
  PROVE  BookInv'
  <1> USE DEF BookInv
  <1>0. row \in [Attempts -> Statuses] /\ cascade \subseteq Attempts
    BY DEF LockInv, TypeOK
  <1>1. UNCHANGED <<pc, overdue>>
    BY DEF Fate, PromoteCheck, Promote, Cancel, Complete, callVars
  <1>2. CASE Cancel(b) \/ Complete(b)
    BY <1>0, <1>1, <1>2, AsideBook DEF Cancel, Complete
  <1>3. CASE PromoteCheck(b)
    <2>1. CascadeIsClear'
      BY <1>0, <1>3 DEF PromoteCheck, CascadeIsClear, Clashes
    <2>2. CheckedIsClear' /\ NoDoubleBooking'
      BY <1>1, <1>3 DEF PromoteCheck, CheckedIsClear, NoDoubleBooking, Clashes
    <2>3. QED  BY <2>1, <2>2
  <1>4. CASE Promote(b) /\ row[b] = "WAITLISTED"
    <2>1. /\ row' = [row EXCEPT ![b] = "CONFIRMED"] /\ cascade' \subseteq cascade
          /\ crossed' = crossed \cup {<<a, b>> : a \in {c \in Standing : Overlaps(c, b)}}
      BY <1>4 DEF Promote
    <2>2. \A c \in Attempts : Clashes(b, c) => <<b, c>> \in crossed
      BY <1>4 DEF Promote, CascadeIsClear
    <2>3. \A a \in Attempts : a \in cascade' \/ pc'[a] = "write" => a \in Standing
      BY <1>1, <2>1 DEF Standing
    <2>4. \A a \in Attempts : a \in Standing /\ Overlaps(a, b) => <<a, b>> \in crossed'
      BY <2>1
    <2>5. QED  BY <1>0, <1>1, <2>1, <2>2, <2>3, <2>4, BookingBook
  <1>5. CASE Promote(b) /\ row[b] # "WAITLISTED"
    BY <1>1, <1>5, AsideBook DEF Promote
  <1>6. QED  BY <1>2, <1>3, <1>4, <1>5 DEF Fate

LEMMA NextBook == BookInv /\ [Next]_vars => BookInv'
  <1> SUFFICES ASSUME BookInv, [Next]_vars PROVE BookInv'
    OBVIOUS
  <1>1. LockInv'
    BY NextLock DEF BookInv
  <1>2. pc \in [Attempts -> Steps]
    BY DEF BookInv, LockInv, TypeOK
  <1>3. ASSUME NEW a \in Attempts, AttemptStep(a), ~Check(a), ~Write(a) PROVE BookInv'
    <2>1. UNCHANGED <<row, cascade, crossed, overdue>>
      BY <1>3 DEF AttemptStep, ClaimNew, ClaimExisting, Steal, LockCreate, LockLook, LockSteal,
                  GiveUp, Commit, CommitFails, Announce, Fail, Release, rowVars
    <2>2. PICK step : Goto(a, step) /\ step # "write"
      <3>1. CASE ClaimNew(a) \/ Steal(a) \/ GiveUp(a) \/ Commit(a) \/ CommitFails(a)
                 \/ Announce(a) \/ Fail(a) \/ Release(a)
        BY <3>1 DEF ClaimNew, Steal, GiveUp, Commit, CommitFails, Announce, Fail, Release
      <3>2. CASE LockCreate(a) \/ LockLook(a) \/ LockSteal(a)
        BY <3>2 DEF LockCreate, LockLook, LockSteal, Acquire, NextRound
      <3>3. CASE ClaimExisting(a)
        BY <3>3 DEF ClaimExisting, AfterClaim
      <3>4. QED  BY <1>3, <3>1, <3>2, <3>3 DEF AttemptStep
    <2>3. \A b \in Attempts : pc'[b] = "write" => pc[b] = "write"
      BY <1>2, <2>2 DEF Goto
    <2>4. QED  BY <1>1, <2>1, <2>3, AsideBook
  <1>4. ASSUME NEW a \in Attempts, Check(a) \/ Write(a) PROVE BookInv'
    BY <1>1, <1>4, CheckBook, WriteBook
  <1>5. ASSUME NEW b \in Attempts, Fate(b) PROVE BookInv'
    BY <1>1, <1>5, FateBook
  <1>6. CASE Clock \/ UNCHANGED vars
    <2>1. UNCHANGED <<row, cascade, crossed, pc>> /\ overdue \subseteq overdue'
      BY <1>6 DEF Clock, Expire, Sweep, Age, vars, callVars, rowVars
    <2>2. QED  BY <1>1, <2>1, AsideBook
  <1>7. QED  BY <1>3, <1>4, <1>5, <1>6, Steppers DEF Outside

\* Two clashing bookings of one volunteer mean that one of the two attempts had
\* outlived its lock, or that one of the two rows was promoted, or was about to
\* be, when the other was booked.
THEOREM NoDoubleBook == Spec => []NoDoubleBooking
  <1>1. Init => BookInv
    BY InitLock DEF Init, BookInv, CheckedIsClear, CascadeIsClear, NoDoubleBooking
  <1>2. BookInv => NoDoubleBooking
    BY DEF BookInv
  <1>3. QED  BY <1>1, <1>2, NextBook, PTL DEF Spec

-----------------------------------------------------------------------------
(* The record.  The owner named by a record is the attempt whose request   *)
(* it fingerprints, and an attempt commits only a row it wrote.            *)

OwnerAsked ==
    \A k \in Keys : record[k].owner \in Attempts => record[k].hash = Payload(record[k].owner)

WroteBeforeCommit ==
    \A a \in Attempts : pc[a] \in {"commit", "announce"} => target[a] # "NONE"

\* A queue place was written only for an attempt that takes one.
QueuedAreWilling ==
    \A a \in Attempts : target[a] # "NONE" => target[a] \in Targets(a)

RecordInv ==
    TypeOK /\ OwnerAsked /\ WroteBeforeCommit /\ QueuedAreWilling /\ CommittedIsReal /\ AnswersAreTrue

\* A record is claimed, marked or committed; nothing else is ever written.
LEMMA RecordChange ==
  ASSUME TypeOK, [Next]_vars, NEW k \in Keys, record'[k] # record[k]
  PROVE  \E a \in Attempts :
           /\ k = KeyOf[a]
           /\ \/ /\ ClaimNew(a) \/ Steal(a)
                 /\ record'[k] = ClaimedBy(a)
              \/ /\ GiveUp(a) \/ Fail(a)
                 /\ OwnsPending(a)
                 /\ record'[k] = [record[k] EXCEPT !.status = "FAILED"]
              \/ /\ Commit(a)
                 /\ record[k].owner = a
                 /\ record'[k] = CommittedBy(a, record[k].hash)
  <1> USE DEF TypeOK, recordVars
  <1>1. PICK a \in Attempts : AttemptStep(a)
    BY Steppers, OutsideCalls
  <1>2. CASE ClaimNew(a) \/ Steal(a)
    BY <1>2 DEF ClaimNew, Steal
  <1>3. CASE GiveUp(a) \/ Fail(a)
    <2>1. MarkFailed(a)
      BY <1>3 DEF GiveUp, Fail
    <2>2. OwnsPending(a) /\ record' = [record EXCEPT ![KeyOf[a]] = [@ EXCEPT !.status = "FAILED"]]
      BY <2>1 DEF MarkFailed
    <2>3. k = KeyOf[a] /\ record'[k] = [record[k] EXCEPT !.status = "FAILED"]
      BY <2>2
    <2>4. QED  BY <1>3, <2>2, <2>3
  <1>4. CASE Commit(a)
    BY <1>4 DEF Commit
  <1>5. CASE ClaimExisting(a) \/ LockCreate(a) \/ LockLook(a) \/ LockSteal(a) \/ Check(a)
             \/ Write(a) \/ CommitFails(a) \/ Announce(a) \/ Release(a)
    BY <1>5 DEF ClaimExisting, LockCreate, LockLook, LockSteal, Check, Write, CommitFails,
                Announce, Release
  <1>6. QED  BY <1>1, <1>2, <1>3, <1>4, <1>5 DEF AttemptStep

\* A row once written stays written, and only its own attempt writes it.
LEMMA TargetStep ==
  ASSUME [Next]_vars
  PROVE  \/ UNCHANGED target
         \/ \E a \in Attempts : \E t \in Targets(a) : target' = [target EXCEPT ![a] = t]
  <1>1. CASE Outside
    BY <1>1, OutsideCalls
  <1>2. ASSUME NEW a \in Attempts, AttemptStep(a)
        PROVE  UNCHANGED target \/ \E t \in Targets(a) : target' = [target EXCEPT ![a] = t]
    BY <1>2 DEF AttemptStep, ClaimNew, ClaimExisting, Steal, LockCreate, LockLook, LockSteal,
         GiveUp, Check, Write, Commit, CommitFails, Announce, Fail, Release, rowVars
  <1>3. QED  BY <1>1, <1>2, Steppers

LEMMA WrittenStays ==
  ASSUME TypeOK, [Next]_vars, NEW b \in Attempts, target[b] # "NONE"
  PROVE  target'[b] # "NONE"
  BY TargetStep DEF TypeOK, Targets

LEMMA NextWilling ==
  ASSUME TypeOK, QueuedAreWilling, [Next]_vars
  PROVE  QueuedAreWilling'
  BY TargetStep DEF TypeOK, QueuedAreWilling, Targets

LEMMA NextWrote ==
  ASSUME TypeOK, WroteBeforeCommit, [Next]_vars
  PROVE  WroteBeforeCommit'
  <1> USE DEF WroteBeforeCommit, TypeOK
  <1>1. ASSUME NEW a \in Attempts, Write(a) PROVE WroteBeforeCommit'
    BY <1>1, WrittenStays DEF Write, Goto, Targets
  <1>2. ASSUME NEW a \in Attempts, Commit(a) \/ Announce(a) PROVE WroteBeforeCommit'
    BY <1>2, WrittenStays DEF Commit, Announce, Goto
  <1>3. ASSUME NEW a \in Attempts, AttemptStep(a), ~Write(a), ~Commit(a), ~Announce(a)
        PROVE  WroteBeforeCommit'
    <2>1. PICK step : Goto(a, step) /\ step \notin {"commit", "announce"}
      <3>1. CASE ClaimNew(a) \/ Steal(a) \/ GiveUp(a) \/ Check(a) \/ CommitFails(a) \/ Fail(a)
                 \/ Release(a)
        BY <3>1 DEF ClaimNew, Steal, GiveUp, Check, CommitFails, Fail, Release
      <3>2. CASE LockCreate(a) \/ LockLook(a) \/ LockSteal(a)
        BY <3>2 DEF LockCreate, LockLook, LockSteal, Acquire, NextRound
      <3>3. CASE ClaimExisting(a)
        BY <3>3 DEF ClaimExisting, AfterClaim
      <3>4. QED  BY <1>3, <3>1, <3>2, <3>3 DEF AttemptStep
    <2>2. QED  BY <2>1, WrittenStays DEF Goto
  <1>4. CASE Outside
    BY <1>4, OutsideCalls DEF callVars
  <1>5. QED  BY <1>1, <1>2, <1>3, <1>4, Steppers

LEMMA NextOwner ==
  ASSUME TypeOK, OwnerAsked, [Next]_vars
  PROVE  OwnerAsked'
  <1> SUFFICES ASSUME NEW k \in Keys, record'[k].owner \in Attempts
               PROVE  record'[k].hash = Payload(record'[k].owner)
    BY DEF OwnerAsked, Payload
  <1>1. CASE record'[k] = record[k]
    BY <1>1 DEF OwnerAsked
  <1>2. CASE record'[k] # record[k]
    <2>1. record[k] \in Records
      BY DEF TypeOK
    <2>2. PICK a \in Attempts :
            \/ record'[k] = ClaimedBy(a)
            \/ record'[k] = [record[k] EXCEPT !.status = "FAILED"]
            \/ record[k].owner = a /\ record'[k] = CommittedBy(a, record[k].hash)
      BY <1>2, RecordChange
    <2>3. CASE record'[k] = ClaimedBy(a)
      BY <2>3 DEF ClaimedBy
    <2>4. CASE record'[k] = [record[k] EXCEPT !.status = "FAILED"]
      BY <2>1, <2>4 DEF OwnerAsked, Records
    <2>5. CASE record[k].owner = a /\ record'[k] = CommittedBy(a, record[k].hash)
      BY <2>5 DEF OwnerAsked, CommittedBy
    <2>6. QED  BY <2>2, <2>3, <2>4, <2>5
  <1>3. QED  BY <1>1, <1>2

LEMMA NextCommitted ==
  ASSUME RecordInv, [Next]_vars
  PROVE  CommittedIsReal'
  <1> USE DEF RecordInv
  <1> SUFFICES ASSUME NEW k \in Keys, record'[k].status = "COMMITTED"
               PROVE  /\ record'[k].body \in Attempts /\ target'[record'[k].body] # "NONE"
                      /\ record'[k].owner = record'[k].body
                      /\ record'[k].hash = Payload(record'[k].body)
    BY DEF CommittedIsReal, Payload
  <1>1. CASE record'[k] = record[k]
    BY <1>1, WrittenStays DEF CommittedIsReal
  <1>2. CASE record'[k] # record[k]
    <2>1. record[k] \in Records
      BY DEF TypeOK
    <2>2. PICK a \in Attempts :
            \/ record'[k] = ClaimedBy(a)
            \/ record'[k] = [record[k] EXCEPT !.status = "FAILED"]
            \/ Commit(a) /\ record[k].owner = a /\ record'[k] = CommittedBy(a, record[k].hash)
      BY <1>2, RecordChange
    <2>3. record'[k] # ClaimedBy(a)
      BY DEF ClaimedBy
    <2>4. record'[k] # [record[k] EXCEPT !.status = "FAILED"]
      BY <2>1 DEF Records
    <2>5. Commit(a) /\ record[k].owner = a /\ record'[k] = CommittedBy(a, record[k].hash)
      BY <2>2, <2>3, <2>4
    <2>6. target'[a] # "NONE"
      BY <2>5, WrittenStays DEF Commit, WroteBeforeCommit
    <2>7. QED  BY <2>5, <2>6 DEF CommittedBy, OwnerAsked
  <1>3. QED  BY <1>1, <1>2

\* Equal fingerprints are of the same request: the hash covers all of it.
LEMMA PayloadCovers ==
  ASSUME NEW a \in Attempts, NEW b \in Attempts, Payload(a) = Payload(b)
  PROVE  SameRequest(a, b) /\ Targets(b) = Targets(a)
  BY DEF Payload, SameRequest, Targets

\* An answer that was true stays true, whatever becomes of the row.
LEMMA AnswerStays ==
  ASSUME RecordInv, [Next]_vars, NEW a \in Attempts, NEW b \in Attempts,
         SameRequest(a, b), target[b] # "NONE"
  PROVE  target'[b] \in Targets(a)
  <1>1. target'[b] \in Targets(b)
    BY WrittenStays, NextWilling DEF RecordInv, QueuedAreWilling
  <1>2. QED  BY <1>1 DEF SameRequest, Targets

LEMMA NextAnswers ==
  ASSUME RecordInv, [Next]_vars
  PROVE  AnswersAreTrue'
  <1> USE DEF RecordInv
  <1> SUFFICES ASSUME NEW a \in Attempts, answer'[a] # NoAttempt
               PROVE  /\ answer'[a] \in Attempts /\ SameRequest(a, answer'[a])
                      /\ target'[answer'[a]] \in Targets(a)
    BY DEF AnswersAreTrue, SameRequest, Targets
  <1>1. CASE answer'[a] = answer[a]
    BY <1>1, AnswerStays DEF AnswersAreTrue, Targets
  <1>2. CASE Replays(a) /\ answer'[a] = record[KeyOf[a]].body
    <2> DEFINE b == record[KeyOf[a]].body
    <2>1. b \in Attempts /\ target[b] # "NONE" /\ Payload(b) = Payload(a)
      BY <1>2, RequestAssumption DEF Replays, CommittedIsReal
    <2>2. QED  BY <1>2, <2>1, PayloadCovers, AnswerStays
  <1>3. CASE Announce(a) /\ answer'[a] = a
    BY <1>3, AnswerStays DEF Announce, WroteBeforeCommit, SameRequest
  <1>4. \/ answer'[a] = answer[a]
        \/ Replays(a) /\ answer'[a] = record[KeyOf[a]].body
        \/ Announce(a) /\ answer'[a] = a
    <2>1. ASSUME NEW b \in Attempts, ClaimExisting(b) \/ Announce(b)
          PROVE  \/ answer'[a] = answer[a]
                 \/ Replays(a) /\ answer'[a] = record[KeyOf[a]].body
                 \/ Announce(a) /\ answer'[a] = a
      BY <2>1 DEF ClaimExisting, Announce, TypeOK
    <2>2. ASSUME NEW b \in Attempts, AttemptStep(b), ~ClaimExisting(b), ~Announce(b)
          PROVE  UNCHANGED answer
      BY <2>2 DEF AttemptStep, ClaimNew, Steal, LockCreate, LockLook, LockSteal, GiveUp, Check,
                  Write, Commit, CommitFails, Fail, Release
    <2>3. QED  BY <2>1, <2>2, Steppers, OutsideCalls DEF callVars
  <1>5. QED  BY <1>1, <1>2, <1>3, <1>4

LEMMA RecordInvariant == Spec => []RecordInv
  <1>1. Init => RecordInv
    BY InitType, RequestAssumption DEF Init, RecordInv, OwnerAsked, WroteBeforeCommit, QueuedAreWilling,
                    CommittedIsReal, AnswersAreTrue, NoRecord
  <1>2. RecordInv /\ [Next]_vars => RecordInv'
    BY NextType, NextOwner, NextWrote, NextWilling, NextCommitted, NextAnswers DEF RecordInv
  <1>3. QED  BY <1>1, <1>2, PTL DEF Spec

\* A COMMITTED record names a row that was written, and written by its owner for the
\* request it was claimed for.
THEOREM CommitsAreReal == Spec => []CommittedIsReal
  BY RecordInvariant, PTL DEF RecordInv

\* A caller is told only of a row that was written and is the one it asked for:
\* its shift, its volunteer, and a queue place only if it takes one.
THEOREM AnswersHold == Spec => []AnswersAreTrue
  BY RecordInvariant, PTL DEF RecordInv

-----------------------------------------------------------------------------
(* The fence.  An attempt commits only while its record is still PENDING,  *)
(* and a steal that matches the updatedAt it read finds the record aged.   *)

Working == {"lock", "look", "takeover", "give_up", "check", "write", "commit"}

Unclaimed ==
    \A a \in Attempts : pc[a] \in {"idle", "steal"} => record[KeyOf[a]].owner # a

OwnedIsPending ==
    \A a \in Attempts : pc[a] \in Working /\ record[KeyOf[a]].owner = a =>
        record[KeyOf[a]].status = "PENDING"

SeenIsAged ==
    \A a \in Attempts : pc[a] = "steal" =>
        /\ seenRev[a] =< rev[KeyOf[a]]
        /\ seenRev[a] = rev[KeyOf[a]] => aged[KeyOf[a]]

FenceInv == TypeOK /\ Unclaimed /\ OwnedIsPending /\ SeenIsAged

\* Where a step may lead: out of "idle" and "steal" for good, and into the
\* working steps only from them.
LEMMA StepOrder ==
  ASSUME TypeOK, [Next]_vars, NEW a \in Attempts
  PROVE  /\ pc'[a] = "idle" => pc[a] = "idle"
         /\ pc'[a] = "steal" => pc[a] \in {"idle", "steal"}
         /\ pc'[a] \in Working => pc[a] \in Working \cup {"idle", "steal"}
  <1> USE DEF TypeOK, Working
  <1>1. ASSUME NEW b \in Attempts, ClaimNew(b) \/ Steal(b) \/ GiveUp(b) \/ Check(b) \/ Write(b)
        PROVE  /\ pc'[a] = "idle" => pc[a] = "idle"
               /\ pc'[a] = "steal" => pc[a] \in {"idle", "steal"}
               /\ pc'[a] \in Working => pc[a] \in Working \cup {"idle", "steal"}
    BY <1>1 DEF ClaimNew, Steal, GiveUp, Check, Write, Goto
  <1>2. ASSUME NEW b \in Attempts,
               Commit(b) \/ CommitFails(b) \/ Announce(b) \/ Fail(b) \/ Release(b)
        PROVE  /\ pc'[a] = "idle" => pc[a] = "idle"
               /\ pc'[a] = "steal" => pc[a] \in {"idle", "steal"}
               /\ pc'[a] \in Working => pc[a] \in Working \cup {"idle", "steal"}
    BY <1>2 DEF Commit, CommitFails, Announce, Fail, Release, Goto
  <1>3. ASSUME NEW b \in Attempts, LockCreate(b) \/ LockLook(b) \/ LockSteal(b)
        PROVE  /\ pc'[a] = "idle" => pc[a] = "idle"
               /\ pc'[a] = "steal" => pc[a] \in {"idle", "steal"}
               /\ pc'[a] \in Working => pc[a] \in Working \cup {"idle", "steal"}
    BY <1>3 DEF LockCreate, LockLook, LockSteal, Acquire, NextRound, Goto
  <1>4. ASSUME NEW b \in Attempts, ClaimExisting(b)
        PROVE  /\ pc'[a] = "idle" => pc[a] = "idle"
               /\ pc'[a] = "steal" => pc[a] \in {"idle", "steal"}
               /\ pc'[a] \in Working => pc[a] \in Working \cup {"idle", "steal"}
    BY <1>4 DEF ClaimExisting, AfterClaim, Goto
  <1>5. CASE Outside
    BY <1>5, OutsideCalls DEF callVars
  <1>6. QED  BY <1>1, <1>2, <1>3, <1>4, <1>5, Steppers DEF AttemptStep

LEMMA NextUnclaimed ==
  ASSUME TypeOK, Unclaimed, [Next]_vars
  PROVE  Unclaimed'
  <1> SUFFICES ASSUME NEW a \in Attempts, pc'[a] \in {"idle", "steal"},
                      record'[KeyOf[a]].owner = a
               PROVE  FALSE
    BY DEF Unclaimed
  <1>1. KeyOf[a] \in Keys /\ record[KeyOf[a]] \in Records /\ pc \in [Attempts -> Steps]
    BY RequestAssumption DEF TypeOK
  <1>2. record[KeyOf[a]].owner # a
    BY StepOrder DEF Unclaimed
  <1>3. PICK b \in Attempts :
          \/ (ClaimNew(b) \/ Steal(b)) /\ record'[KeyOf[a]] = ClaimedBy(b)
          \/ record'[KeyOf[a]] = [record[KeyOf[a]] EXCEPT !.status = "FAILED"]
          \/ record[KeyOf[a]].owner = b
             /\ record'[KeyOf[a]] = CommittedBy(b, record[KeyOf[a]].hash)
    BY <1>1, <1>2, RecordChange
  <1>4. record'[KeyOf[a]] # [record[KeyOf[a]] EXCEPT !.status = "FAILED"]
    BY <1>1, <1>2 DEF Records
  <1>5. ~(record[KeyOf[a]].owner = b /\ record'[KeyOf[a]] = CommittedBy(b, record[KeyOf[a]].hash))
    BY <1>2 DEF CommittedBy
  <1>6. (ClaimNew(b) \/ Steal(b)) /\ record'[KeyOf[a]] = ClaimedBy(b)
    BY <1>3, <1>4, <1>5
  <1>7. a = b
    BY <1>6 DEF ClaimedBy
  <1>8. pc'[a] \in {"lock", "done"}
    BY <1>1, <1>6, <1>7 DEF ClaimNew, Steal, Goto
  <1>9. QED  BY <1>8

LEMMA NextOwnedPending ==
  ASSUME TypeOK, Unclaimed, OwnedIsPending, [Next]_vars
  PROVE  OwnedIsPending'
  <1> SUFFICES ASSUME NEW a \in Attempts, pc'[a] \in Working, record'[KeyOf[a]].owner = a
               PROVE  record'[KeyOf[a]].status = "PENDING"
    BY DEF OwnedIsPending
  <1>1. KeyOf[a] \in Keys /\ record[KeyOf[a]] \in Records /\ pc \in [Attempts -> Steps]
    BY RequestAssumption DEF TypeOK
  <1>2. CASE record'[KeyOf[a]] = record[KeyOf[a]]
    <2>1. pc[a] \in Working
      BY <1>2, StepOrder DEF Unclaimed
    <2>2. QED  BY <1>2, <2>1 DEF OwnedIsPending
  <1>3. CASE record'[KeyOf[a]] # record[KeyOf[a]]
    <2>1. PICK b \in Attempts :
            \/ record'[KeyOf[a]] = ClaimedBy(b)
            \/ /\ GiveUp(b) \/ Fail(b)
               /\ OwnsPending(b) /\ KeyOf[a] = KeyOf[b]
               /\ record'[KeyOf[a]] = [record[KeyOf[a]] EXCEPT !.status = "FAILED"]
            \/ /\ Commit(b)
               /\ record'[KeyOf[a]] = CommittedBy(b, record[KeyOf[a]].hash)
      BY <1>1, <1>3, RecordChange
    <2>2. CASE record'[KeyOf[a]] = ClaimedBy(b)
      BY <2>2 DEF ClaimedBy
    <2>3. CASE /\ GiveUp(b) \/ Fail(b)
               /\ OwnsPending(b) /\ KeyOf[a] = KeyOf[b]
               /\ record'[KeyOf[a]] = [record[KeyOf[a]] EXCEPT !.status = "FAILED"]
      <3>1. record[KeyOf[a]].owner = b /\ record'[KeyOf[a]].owner = record[KeyOf[a]].owner
        BY <1>1, <2>3 DEF OwnsPending, Records
      <3>2. a = b
        BY <3>1
      <3>3. pc'[a] \in {"done", "release"}
        BY <1>1, <2>3, <3>2 DEF GiveUp, Fail, Goto
      <3>4. QED  BY <3>3 DEF Working
    <2>4. CASE Commit(b) /\ record'[KeyOf[a]] = CommittedBy(b, record[KeyOf[a]].hash)
      <3>1. a = b
        BY <2>4 DEF CommittedBy
      <3>2. pc'[a] = "announce"
        BY <1>1, <2>4, <3>1 DEF Commit, Goto
      <3>3. QED  BY <3>2 DEF Working
    <2>5. QED  BY <2>1, <2>2, <2>3, <2>4
  <1>4. QED  BY <1>2, <1>3

\* updatedAt only moves forward, and a record that moved is young again.
LEMMA RevGrows ==
  ASSUME TypeOK, [Next]_vars, NEW k \in Keys
  PROVE  \/ rev'[k] = rev[k] /\ (aged[k] => aged'[k])
         \/ rev'[k] = rev[k] + 1
  <1> USE RequestAssumption DEF TypeOK, recordVars
  <1>1. ASSUME NEW a \in Attempts, AttemptStep(a)
        PROVE  UNCHANGED <<aged, rev>> \/ Touch(KeyOf[a])
    BY <1>1 DEF AttemptStep, ClaimNew, ClaimExisting, Steal, LockCreate, LockLook, LockSteal,
                GiveUp, Fail, MarkFailed, Check, Write, Commit, CommitFails, Announce, Release
  <1>2. ASSUME NEW a \in Attempts, UNCHANGED <<aged, rev>> \/ Touch(KeyOf[a])
        PROVE  \/ rev'[k] = rev[k] /\ (aged[k] => aged'[k])
               \/ rev'[k] = rev[k] + 1
    BY <1>2 DEF Touch
  <1>3. CASE Outside
    BY <1>3, OutsideCalls
  <1>4. QED  BY <1>1, <1>2, <1>3, Steppers

LEMMA NextSeenAged ==
  ASSUME TypeOK, SeenIsAged, [Next]_vars, TypeOK'
  PROVE  SeenIsAged'
  <1> SUFFICES ASSUME NEW a \in Attempts, pc'[a] = "steal"
               PROVE  /\ seenRev'[a] =< rev'[KeyOf[a]]
                      /\ seenRev'[a] = rev'[KeyOf[a]] => aged'[KeyOf[a]]
    BY DEF SeenIsAged
  <1>0. KeyOf[a] \in Keys /\ pc \in [Attempts -> Steps] /\ seenRev \in [Attempts -> Nat]
        /\ rev \in [Keys -> Nat] /\ rev' \in [Keys -> Nat]
    BY RequestAssumption DEF TypeOK
  <1>1. CASE ClaimExisting(a)
    <2>1. seenRev'[a] = rev'[KeyOf[a]]
      BY <1>0, <1>1 DEF ClaimExisting
    <2>2. pc'[a] = AfterClaim(a, aged'[KeyOf[a]])
      BY <1>0, <1>1 DEF ClaimExisting, Goto
    <2>3. aged'[KeyOf[a]]
      BY <2>2 DEF AfterClaim
    <2>4. QED  BY <1>0, <2>1, <2>3
  <1>2. CASE ~ClaimExisting(a)
    <2>1. seenRev'[a] = seenRev[a]
      <3>1. CASE \E b \in Attempts : AttemptStep(b)
        BY <1>0, <1>2, <3>1
           DEF AttemptStep, ClaimNew, ClaimExisting, Steal, LockCreate, LockLook, LockSteal,
               GiveUp, Check, Write, Commit, CommitFails, Announce, Fail, Release, readVars
      <3>2. CASE ~\E b \in Attempts : AttemptStep(b)
        BY <3>2, Steppers, OutsideCalls DEF callVars, readVars
      <3>3. QED  BY <3>1, <3>2
    <2>2. pc[a] = "steal"
      <3>1. CASE \E b \in Attempts : AttemptStep(b)
        <4>1. PICK b \in Attempts : AttemptStep(b)
          BY <3>1
        <4>2. CASE ClaimExisting(b)
          BY <1>0, <1>2, <4>2 DEF ClaimExisting, Goto
        <4>3. CASE LockCreate(b) \/ LockLook(b) \/ LockSteal(b)
          BY <1>0, <4>3 DEF LockCreate, LockLook, LockSteal, Acquire, NextRound, Goto
        <4>4. CASE ClaimNew(b) \/ Steal(b) \/ GiveUp(b) \/ Check(b) \/ Write(b)
          BY <1>0, <4>4 DEF ClaimNew, Steal, GiveUp, Check, Write, Goto
        <4>5. CASE Commit(b) \/ CommitFails(b) \/ Announce(b) \/ Fail(b) \/ Release(b)
          BY <1>0, <4>5 DEF Commit, CommitFails, Announce, Fail, Release, Goto
        <4>6. QED  BY <4>1, <4>2, <4>3, <4>4, <4>5 DEF AttemptStep
      <3>2. CASE ~\E b \in Attempts : AttemptStep(b)
        BY <3>2, Steppers, OutsideCalls DEF callVars
      <3>3. QED  BY <3>1, <3>2
    <2>3. seenRev[a] =< rev[KeyOf[a]] /\ (seenRev[a] = rev[KeyOf[a]] => aged[KeyOf[a]])
      BY <2>2 DEF SeenIsAged
    <2>4. \/ rev'[KeyOf[a]] = rev[KeyOf[a]] /\ (aged[KeyOf[a]] => aged'[KeyOf[a]])
          \/ rev'[KeyOf[a]] = rev[KeyOf[a]] + 1
      BY <1>0, RevGrows
    <2>5. QED  BY <1>0, <2>1, <2>3, <2>4
  <1>3. QED  BY <1>1, <1>2

LEMMA FenceInvariant == Spec => []FenceInv
  <1>1. Init => FenceInv
    BY InitType, RequestAssumption
       DEF Init, FenceInv, Unclaimed, OwnedIsPending, SeenIsAged, NoRecord, Working
  <1>2. FenceInv /\ [Next]_vars => FenceInv'
    BY NextType, NextUnclaimed, NextOwnedPending, NextSeenAged DEF FenceInv
  <1>3. QED  BY <1>1, <1>2, PTL DEF Spec

LEMMA FenceStep ==
  ASSUME FenceInv, [Next]_vars, NEW k \in Keys,
         record'[k] # record[k], record[k].status # "NONE"
  PROVE  /\ record[k].status = "PENDING"
         /\ \/ record'[k].owner = record[k].owner /\ pc'[record[k].owner] # pc[record[k].owner]
            \/ record'[k].owner # record[k].owner /\ aged[k]
  <1> USE DEF FenceInv
  <1>0. record[k] \in Records /\ pc \in [Attempts -> Steps]
    BY DEF TypeOK
  <1>1. PICK a \in Attempts :
          /\ k = KeyOf[a]
          /\ \/ (ClaimNew(a) \/ Steal(a)) /\ record'[k] = ClaimedBy(a)
             \/ /\ GiveUp(a) \/ Fail(a)
                /\ OwnsPending(a)
                /\ record'[k] = [record[k] EXCEPT !.status = "FAILED"]
             \/ Commit(a) /\ record[k].owner = a /\ record'[k] = CommittedBy(a, record[k].hash)
    BY RecordChange
  <1>2. CASE (ClaimNew(a) \/ Steal(a)) /\ record'[k] = ClaimedBy(a)
    <2>1. Steal(a) /\ record[k].status = "PENDING" /\ rev[k] = seenRev[a]
      BY <1>1, <1>2 DEF ClaimNew, Steal, recordVars
    <2>2. aged[k] /\ record[k].owner # a
      BY <1>1, <2>1 DEF Steal, SeenIsAged, Unclaimed
    <2>3. QED  BY <1>2, <2>1, <2>2 DEF ClaimedBy
  <1>3. CASE (GiveUp(a) \/ Fail(a)) /\ OwnsPending(a)
             /\ record'[k] = [record[k] EXCEPT !.status = "FAILED"]
    <2>1. record[k].owner = a /\ record[k].status = "PENDING" /\ record'[k].owner = a
      BY <1>0, <1>1, <1>3 DEF OwnsPending, Records
    <2>2. pc'[a] # pc[a]
      BY <1>0, <1>3 DEF GiveUp, Fail, Goto
    <2>3. QED  BY <2>1, <2>2
  <1>4. CASE Commit(a) /\ record[k].owner = a /\ record'[k] = CommittedBy(a, record[k].hash)
    <2>1. record[k].status = "PENDING"
      BY <1>1, <1>4 DEF Commit, OwnedIsPending, Working
    <2>2. pc'[a] # pc[a]
      BY <1>0, <1>4 DEF Commit, Goto
    <2>3. QED  BY <1>4, <2>1, <2>2 DEF CommittedBy
  <1>5. QED  BY <1>1, <1>2, <1>3, <1>4

\* Only a PENDING record changes, and under its owner only by the owner's own
\* step or by a steal of a record that had gone stale.
THEOREM FenceHolds == Spec => OwnerDecides
  <1>1. FenceInv /\ [Next]_vars =>
          [\A k \in Keys :
             record'[k] # record[k] /\ record[k].status # "NONE" =>
               /\ record[k].status = "PENDING"
               /\ \/ record'[k].owner = record[k].owner /\ pc'[record[k].owner] # pc[record[k].owner]
                  \/ record'[k].owner # record[k].owner /\ aged[k]]_vars
    BY FenceStep
  <1>2. QED  BY <1>1, FenceInvariant, PTL DEF Spec, OwnerDecides
=============================================================================
