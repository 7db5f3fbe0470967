-------------------------- MODULE SeatLedger_proofs --------------------------
(***************************************************************************)
(* Theorems about SeatLedger for every set of calls, every capacity and    *)
(* every fault but a lost reply.  The argument: a seat counted in          *)
(* filledSlots always has exactly one token, a row or a call, and every    *)
(* action moves, adds or removes one token together with the counter.  So  *)
(* the counters do what the holders of SeatAllocation do.                  *)
(***************************************************************************)
EXTENDS SeatLedger, FiniteSetTheorems, TLAPS

-----------------------------------------------------------------------------
(* Type correctness.                                                       *)

\* The rank of a waiting row is a natural number: the queue is finite.
LEMMA RankType == ASSUME NEW r PROVE Rank(r) \in Nat
  <1>1. IsFiniteSet({w \in Waiting : Ahead(w, r)})
    BY FS_Subset, CallsAssumption DEF Waiting
  <1>2. QED  BY <1>1, FS_CardinalityType DEF Rank

LEMMA QueueOrderType == QueueOrder \in SUBSET (Reserves \X Nat)
  BY RankType DEF QueueOrder, Waiting

\* Registration.create stamps a natural number.
LEMMA StampType == Cardinality({s \in Reserves : status[s] # "NONE"}) + 1 \in Nat
  <1>1. IsFiniteSet({s \in Reserves : status[s] # "NONE"})
    BY FS_Subset, CallsAssumption
  <1>2. QED  BY <1>1, FS_CardinalityType

LEMMA InitType == Init => TypeOK
  BY CallsAssumption, ShiftAssumption
     DEF Init, TypeOK, Status, IndexActive, Seats, Steps, Read, Dto

LEMMA ReserveType ==
  ASSUME TypeOK, NEW r \in Reserves, ReserveStep(r) \/ CheckIn(r) \/ CheckOut(r)
  PROVE  TypeOK'
  <1> USE DEF TypeOK, shiftVars, rowVars, callVars, Goto, Calls
  <1>1. CASE ReserveCheck(r) \/ FindFull(r) \/ InsertFails(r)
    BY <1>1 DEF ReserveCheck, FindFull, InsertFails, UndoStep, Steps, SeatSteps, QueueSteps
  <1>2. CASE ClaimSeat(r)
    BY <1>2 DEF ClaimSeat, Steps, SeatSteps, QueueSteps
  <1>3. CASE JoinQueue(r)
    BY <1>3 DEF JoinQueue, Steps, SeatSteps, QueueSteps
  <1>4. CASE InsertRow(r) \/ InsertReplyLost(r)
    BY <1>4, StampType DEF InsertRow, InsertReplyLost, AddRow, InsertedStatus, UndoStep, Status,
       IndexActive, Seats, Steps, SeatSteps, QueueSteps
  <1>5. CASE UndoClaim(r) \/ UndoFails(r)
    BY <1>5 DEF UndoClaim, UndoFails, Steps, SeatSteps, QueueSteps
  <1>6. CASE CheckIn(r) \/ CheckOut(r)
    BY <1>6 DEF CheckIn, CheckOut, Status, IndexActive, Seats
  <1>7. QED
    BY <1>1, <1>2, <1>3, <1>4, <1>5, <1>6 DEF ReserveStep

LEMMA CancelType ==
  ASSUME TypeOK, NEW c \in Cancels, CancelRead(c) \/ CancelStep(c)
  PROVE  TypeOK'
  <1> USE DEF TypeOK, shiftVars, rowVars, callVars, Goto, Calls
  <1>1. CASE CancelRead(c)
    BY <1>1 DEF CancelRead, Read, Steps
  <1>2. CASE CancelClaim(c) \/ CancelLoses(c)
    BY <1>2 DEF CancelClaim, CancelLoses, Status, Steps, SeatSteps, QueueSteps
  <1>3. CASE LoadCandidates(c) \/ LoadQueue(c)
    BY <1>3, QueueOrderType DEF LoadCandidates, LoadQueue, Steps, SeatSteps, QueueSteps
  <1>4. CASE SkipCandidate(c)
    BY <1>4 DEF SkipCandidate
  <1>5. CASE Promote(c) \/ PromoteReplyLost(c)
    BY <1>5 DEF Promote, PromoteReplyLost, Promoting, Status, IndexActive, Seats, Steps,
       SeatSteps, QueueSteps
  <1>6. CASE CascadeEnds(c) \/ RenumberEnds(c)
    BY <1>6 DEF CascadeEnds, RenumberEnds, Steps, SeatSteps, QueueSteps
  <1>7. CASE ReleaseSeat(c) \/ LeaveQueue(c) \/ SettleFails(c)
    BY <1>7 DEF ReleaseSeat, LeaveQueue, SettleFails, Steps, SeatSteps, QueueSteps
  <1>8. CASE Renumber(c)
    BY <1>8 DEF Renumber, Renumbered
  <1>9. QED
    BY <1>1, <1>2, <1>3, <1>4, <1>5, <1>6, <1>7, <1>8 DEF CancelStep

LEMMA OrganiserType ==
  ASSUME TypeOK, NEW o \in Organisers, OrganiserStep(o)
  PROVE  TypeOK'
  <1> USE DEF TypeOK, shiftVars, rowVars, callVars, Goto, Calls, Steps
  <1>1. CASE EditRead(o)
    <2>1. PICK k \in Capacities \cup {0}, revive \in BOOLEAN :
              dto' = [dto EXCEPT ![o] = [capacity |-> k, revive |-> revive]]
      BY <1>1 DEF EditRead
    <2>2. dto' \in [Organisers -> Dto]
      BY <2>1 DEF Dto
    <2>3. QED  BY <1>1, <2>2 DEF EditRead
  <1>2. CASE EditWrite(o)
    <2>1. dto[o] \in Dto
      OBVIOUS
    <2>2. capacity' \in Nat
      BY <1>2, <2>1, ShiftAssumption DEF EditWrite, Dto
    <2>3. ceiling' \in Nat /\ isActive' \in BOOLEAN
      BY <1>2, <2>1, <2>2 DEF EditWrite, Dto
    <2>4. QED  BY <1>2, <2>2, <2>3 DEF EditWrite
  <1>3. CASE DeleteCount(o) \/ Deactivate(o)
    BY <1>3 DEF DeleteCount, Deactivate
  <1>4. QED  BY <1>1, <1>2, <1>3 DEF OrganiserStep

LEMMA CrashType == ASSUME TypeOK, NEW c \in Calls, Crash(c) PROVE TypeOK'
  BY DEF Crash, TypeOK, shiftVars, rowVars, Goto, Steps, SeatSteps, QueueSteps

LEMMA NextType == TypeOK /\ [Next]_vars => TypeOK'
  <1> SUFFICES ASSUME TypeOK, [Next]_vars PROVE TypeOK'
    OBVIOUS
  <1>1. CASE UNCHANGED vars
    BY <1>1 DEF TypeOK, vars, shiftVars, rowVars, callVars
  <1>2. CASE \E r \in Reserves : ReserveStep(r) \/ CheckIn(r) \/ CheckOut(r)
    BY <1>2, ReserveType
  <1>3. CASE \E c \in Cancels : CancelRead(c) \/ CancelStep(c)
    BY <1>3, CancelType
  <1>4. CASE \E o \in Organisers : OrganiserStep(o)
    BY <1>4, OrganiserType
  <1>5. CASE \E c \in Calls : Crash(c)
    BY <1>5, CrashType
  <1>6. QED
    BY <1>1, <1>2, <1>3, <1>4, <1>5 DEF Next

\* Every variable keeps its type, whatever the faults.
THEOREM TypeCorrect == Spec => []TypeOK
  BY InitType, NextType, PTL DEF Spec

-----------------------------------------------------------------------------
(* The inductive invariant.                                                *)

\* A row exists only once its call is done with it.
RowOutlivesCall == \A r \in Reserves : status[r] # "NONE" => pc[r] = "done"

\* A cancellation about to write has read a row it may cancel.
ReadIsLive ==
    \A c \in Cancels : pc[c] = "cas" =>
        /\ seen[c].row \in Reserves
        /\ seen[c].status \in {"CONFIRMED", "CHECKED_IN", "WAITLISTED"}

WithinCeiling == capacity <= ceiling /\ filledSlots <= ceiling

\* No position is assigned before JoinQueue.
NoEarlyPosition ==
    \A r \in Reserves : pc[r] \in {"idle", "claim", "queue", "insert_seat"} => position[r] = 0

Frame == TypeOK /\ RowOutlivesCall /\ ReadIsLive

IInv ==
    /\ Frame
    /\ SeatsConserved /\ QueueConserved
    /\ WithinCeiling
    /\ NoEarlyPosition /\ OffQueueHasNoPosition

\* Every fault but a lost reply is allowed below.
RepliesArrive == "lost_reply" \notin Faults

LEMMA TokensFinite ==
  /\ IsFiniteSet(SeatTokens) /\ Cardinality(SeatTokens) \in Nat
  /\ IsFiniteSet(QueueTokens) /\ Cardinality(QueueTokens) \in Nat
  <1>1. IsFiniteSet(Reserves \cup Cancels)
    BY CallsAssumption, FS_Union
  <1>2. SeatTokens \in SUBSET (Reserves \cup Cancels) /\ QueueTokens \in SUBSET (Reserves \cup Cancels)
    BY DEF SeatTokens, Promised, QueueTokens, Seated, Waiting
  <1>3. QED  BY <1>1, <1>2, FS_Subset, FS_CardinalityType

\* Moving a token from one holder to another leaves their number.
LEMMA TokenMoves ==
  ASSUME NEW S, IsFiniteSet(S), NEW x \in S, NEW y, y \notin S
  PROVE  Cardinality((S \ {x}) \cup {y}) = Cardinality(S)
  <1>1. IsFiniteSet(S \ {x}) /\ Cardinality(S \ {x}) = Cardinality(S) - 1
    BY FS_RemoveElement
  <1>2. Cardinality((S \ {x}) \cup {y}) = Cardinality(S \ {x}) + 1
    BY <1>1, FS_AddElement
  <1>3. QED  BY <1>1, <1>2, FS_CardinalityType

-----------------------------------------------------------------------------
(* The frame: rows and calls agree on who owns what.                       *)

LEMMA FrameInit == Init => Frame
  BY InitType DEF Init, Frame, RowOutlivesCall, ReadIsLive, Calls

LEMMA FrameStep == RepliesArrive /\ Frame /\ [Next]_vars => Frame'
  <1> SUFFICES ASSUME RepliesArrive, Frame, [Next]_vars
               PROVE  (RowOutlivesCall /\ ReadIsLive)'
    BY NextType DEF Frame
  <1> USE CallsAssumption DEF Frame, TypeOK, RowOutlivesCall, ReadIsLive, shiftVars, rowVars,
          callVars, Goto, Calls
  <1>1. CASE UNCHANGED vars
    BY <1>1 DEF vars
  <1>2. ASSUME NEW r \in Reserves, ReserveStep(r) PROVE (RowOutlivesCall /\ ReadIsLive)'
    BY <1>2 DEF RepliesArrive, ReserveStep, ReserveCheck, ClaimSeat, FindFull, JoinQueue, InsertRow,
       InsertFails, InsertReplyLost, AddRow, Inserting, UndoStep, UndoClaim, UndoFails
  <1>3. ASSUME NEW r \in Reserves, CheckIn(r) \/ CheckOut(r) PROVE (RowOutlivesCall /\ ReadIsLive)'
    BY <1>3 DEF CheckIn, CheckOut
  <1>4. ASSUME NEW c \in Cancels, CancelRead(c) PROVE (RowOutlivesCall /\ ReadIsLive)'
    BY <1>4 DEF CancelRead
  <1>5. ASSUME NEW c \in Cancels, CancelClaim(c) \/ CancelLoses(c)
        PROVE  (RowOutlivesCall /\ ReadIsLive)'
    BY <1>5 DEF CancelClaim, CancelLoses, RowAsRead
  <1>6. ASSUME NEW c \in Cancels, CancelStep(c), ~(CancelClaim(c) \/ CancelLoses(c))
        PROVE  (RowOutlivesCall /\ ReadIsLive)'
    BY <1>6 DEF RepliesArrive, CancelStep, LoadCandidates, SkipCandidate, Promote, PromoteReplyLost,
       Promoting, CascadeEnds, ReleaseSeat, LeaveQueue, SettleFails, LoadQueue, Renumber,
       RenumberEnds
  <1>7. ASSUME NEW o \in Organisers, OrganiserStep(o) PROVE (RowOutlivesCall /\ ReadIsLive)'
    BY <1>7 DEF OrganiserStep, EditRead, EditWrite, DeleteCount, Deactivate
  <1>8. ASSUME NEW c \in Calls, Crash(c) PROVE (RowOutlivesCall /\ ReadIsLive)'
    BY <1>8 DEF Crash, Ended
  <1>9. QED
    BY <1>1, <1>2, <1>3, <1>4, <1>5, <1>6, <1>7, <1>8 DEF Next

-----------------------------------------------------------------------------
(* Conservation.                                                           *)

Conserved == SeatsConserved /\ QueueConserved

LEMMA ConservedInit == Init => Conserved
  <1> SUFFICES ASSUME Init PROVE Conserved
    OBVIOUS
  <1>1. SeatTokens = {} /\ QueueTokens = {}
    BY CallsAssumption DEF Init, SeatTokens, Promised, QueueTokens, Seated, Waiting, Seats, SeatSteps,
       QueueSteps, Calls
  <1>2. QED  BY <1>1, FS_EmptySet DEF Init, Conserved, SeatsConserved, QueueConserved

\* The two counters and the two token sets stand still together.
TokensKept ==
    /\ SeatTokens' = SeatTokens /\ QueueTokens' = QueueTokens
    /\ filledSlots' = filledSlots /\ waitlistCount' = waitlistCount

LEMMA KeptConserves == Conserved /\ TokensKept => Conserved'
  BY DEF Conserved, SeatsConserved, QueueConserved, TokensKept

LEMMA ReserveConserves ==
  ASSUME RepliesArrive, Frame, Conserved, NEW r \in Reserves, ReserveStep(r)
  PROVE  Conserved'
  <1> USE CallsAssumption DEF Frame, TypeOK, RowOutlivesCall, shiftVars, rowVars, callVars, Goto, Calls
  <1>1. CASE ReserveCheck(r) \/ FindFull(r)
    <2>1. TokensKept
      BY <1>1 DEF ReserveCheck, FindFull, TokensKept,
         SeatTokens, Promised, QueueTokens, Seated, Waiting, SeatSteps, QueueSteps, Seats
    <2>2. QED  BY <2>1, KeptConserves
  <1>2. CASE InsertRow(r)
    <2>1. TokensKept
      BY <1>2 DEF InsertRow, AddRow, Inserting, InsertedStatus, TokensKept,
         SeatTokens, Promised, QueueTokens, Seated, Waiting, SeatSteps, QueueSteps, Seats
    <2>2. QED  BY <2>1, KeptConserves
  <1>3. CASE InsertFails(r) \/ UndoFails(r)
    <2>1. TokensKept
      BY <1>3 DEF InsertFails, Inserting, UndoStep, UndoFails, TokensKept,
         SeatTokens, Promised, QueueTokens, Seated, Waiting, SeatSteps, QueueSteps, Seats
    <2>2. QED  BY <2>1, KeptConserves
  <1>4. CASE ClaimSeat(r)
    <2>1. r \notin SeatTokens /\ SeatTokens' = SeatTokens \cup {r}
      BY <1>4 DEF ClaimSeat,
         SeatTokens, Promised, QueueTokens, Seated, Waiting, SeatSteps, QueueSteps, Seats
    <2>2. QueueTokens' = QueueTokens
      BY <1>4 DEF ClaimSeat,
         SeatTokens, Promised, QueueTokens, Seated, Waiting, SeatSteps, QueueSteps, Seats
    <2>3. Cardinality(SeatTokens') = Cardinality(SeatTokens) + 1
      BY <2>1, TokensFinite, FS_AddElement
    <2>4. QED  BY <1>4, <2>2, <2>3 DEF ClaimSeat, Conserved, SeatsConserved, QueueConserved
  <1>5. CASE JoinQueue(r)
    <2>1. r \notin QueueTokens /\ QueueTokens' = QueueTokens \cup {r}
      BY <1>5 DEF JoinQueue,
         SeatTokens, Promised, QueueTokens, Seated, Waiting, SeatSteps, QueueSteps, Seats
    <2>2. SeatTokens' = SeatTokens
      BY <1>5 DEF JoinQueue,
         SeatTokens, Promised, QueueTokens, Seated, Waiting, SeatSteps, QueueSteps, Seats
    <2>3. Cardinality(QueueTokens') = Cardinality(QueueTokens) + 1
      BY <2>1, TokensFinite, FS_AddElement
    <2>4. QED  BY <1>5, <2>2, <2>3 DEF JoinQueue, Conserved, SeatsConserved, QueueConserved
  <1>6. CASE UndoClaim(r) /\ pc[r] = "undo_seat"
    <2>1. r \in SeatTokens /\ SeatTokens' = SeatTokens \ {r}
      BY <1>6 DEF UndoClaim,
         SeatTokens, Promised, QueueTokens, Seated, Waiting, SeatSteps, QueueSteps, Seats
    <2>2. QueueTokens' = QueueTokens
      BY <1>6 DEF UndoClaim,
         SeatTokens, Promised, QueueTokens, Seated, Waiting, SeatSteps, QueueSteps, Seats
    <2>3. Cardinality(SeatTokens') = Cardinality(SeatTokens) - 1
      BY <2>1, TokensFinite, FS_RemoveElement
    <2>4. QED  BY <1>6, <2>2, <2>3 DEF UndoClaim, Conserved, SeatsConserved, QueueConserved
  <1>7. CASE UndoClaim(r) /\ pc[r] = "undo_queue"
    <2>1. r \in QueueTokens /\ QueueTokens' = QueueTokens \ {r}
      BY <1>7 DEF UndoClaim,
         SeatTokens, Promised, QueueTokens, Seated, Waiting, SeatSteps, QueueSteps, Seats
    <2>2. SeatTokens' = SeatTokens
      BY <1>7 DEF UndoClaim,
         SeatTokens, Promised, QueueTokens, Seated, Waiting, SeatSteps, QueueSteps, Seats
    <2>3. Cardinality(QueueTokens') = Cardinality(QueueTokens) - 1
      BY <2>1, TokensFinite, FS_RemoveElement
    <2>4. QED  BY <1>7, <2>2, <2>3 DEF UndoClaim, Conserved, SeatsConserved, QueueConserved
  <1>8. QED
    BY <1>1, <1>2, <1>3, <1>4, <1>5, <1>6, <1>7
       DEF ReserveStep, UndoClaim, InsertReplyLost, RepliesArrive

LEMMA CancelConserves ==
  ASSUME RepliesArrive, Frame, Conserved, NEW c \in Cancels, CancelRead(c) \/ CancelStep(c)
  PROVE  Conserved'
  <1> USE CallsAssumption DEF Frame, TypeOK, RowOutlivesCall, ReadIsLive, shiftVars, rowVars,
          callVars, Goto, Calls
  <1>1. CASE CancelRead(c) \/ CancelLoses(c) \/ LoadCandidates(c) \/ SkipCandidate(c)
    <2>1. TokensKept
      BY <1>1 DEF CancelRead, CancelLoses, LoadCandidates, SkipCandidate, TokensKept,
         SeatTokens, Promised, QueueTokens, Seated, Waiting, SeatSteps, QueueSteps, Seats
    <2>2. QED  BY <2>1, KeptConserves
  <1>2. CASE CascadeEnds(c) \/ SettleFails(c)
    <2>1. TokensKept
      BY <1>2 DEF CascadeEnds, SettleFails, TokensKept,
         SeatTokens, Promised, QueueTokens, Seated, Waiting, SeatSteps, QueueSteps, Seats
    <2>2. QED  BY <2>1, KeptConserves
  <1>3. CASE LoadQueue(c) \/ Renumber(c) \/ RenumberEnds(c)
    <2>1. TokensKept
      BY <1>3 DEF LoadQueue, Renumber, RenumberEnds, TokensKept,
         SeatTokens, Promised, QueueTokens, Seated, Waiting, SeatSteps, QueueSteps, Seats
    <2>2. QED  BY <2>1, KeptConserves
  <1>4. CASE CancelClaim(c) /\ HeldSeat(c)
    <2> DEFINE t == seen[c].row
    <2>1. t \in Reserves /\ status[t] \in {"CONFIRMED", "CHECKED_IN"} /\ pc[t] = "done"
      BY <1>4 DEF CancelClaim, RowAsRead, HeldSeat
    <2>2. t \in SeatTokens /\ c \notin SeatTokens
      BY <1>4, <2>1 DEF CancelClaim,
         SeatTokens, Promised, QueueTokens, Seated, Waiting, SeatSteps, QueueSteps, Seats
    <2>3. status' = [status EXCEPT ![t] = "CANCELLED"] /\ pc' = [pc EXCEPT ![c] = "pick"]
      BY <1>4 DEF CancelClaim
    <2>4. SeatTokens' = (SeatTokens \ {t}) \cup {c}
      BY <2>1, <2>3
         DEF SeatTokens, Promised, QueueTokens, Seated, Waiting, SeatSteps, QueueSteps, Seats
    <2>5. QueueTokens' = QueueTokens
      BY <1>4, <2>1, <2>3 DEF CancelClaim,
         SeatTokens, Promised, QueueTokens, Seated, Waiting, SeatSteps, QueueSteps, Seats
    <2>6. Cardinality(SeatTokens') = Cardinality(SeatTokens)
      BY <2>2, <2>4, TokensFinite, TokenMoves
    <2>7. QED  BY <1>4, <2>5, <2>6 DEF CancelClaim, Conserved, SeatsConserved, QueueConserved
  <1>5. CASE CancelClaim(c) /\ ~HeldSeat(c)
    <2> DEFINE t == seen[c].row
    <2>1. t \in Reserves /\ status[t] = "WAITLISTED" /\ pc[t] = "done"
      BY <1>5 DEF CancelClaim, RowAsRead, HeldSeat
    <2>2. t \in QueueTokens /\ c \notin QueueTokens
      BY <1>5, <2>1 DEF CancelClaim,
         SeatTokens, Promised, QueueTokens, Seated, Waiting, SeatSteps, QueueSteps, Seats
    <2>3. status' = [status EXCEPT ![t] = "CANCELLED"] /\ pc' = [pc EXCEPT ![c] = "dequeue"]
      BY <1>5 DEF CancelClaim
    <2>4. QueueTokens' = (QueueTokens \ {t}) \cup {c}
      BY <2>1, <2>3
         DEF SeatTokens, Promised, QueueTokens, Seated, Waiting, SeatSteps, QueueSteps, Seats
    <2>5. SeatTokens' = SeatTokens
      BY <1>5, <2>1, <2>3 DEF CancelClaim,
         SeatTokens, Promised, QueueTokens, Seated, Waiting, SeatSteps, QueueSteps, Seats
    <2>6. Cardinality(QueueTokens') = Cardinality(QueueTokens)
      BY <2>2, <2>4, TokensFinite, TokenMoves
    <2>7. QED  BY <1>5, <2>5, <2>6 DEF CancelClaim, Conserved, SeatsConserved, QueueConserved
  <1>6. CASE Promote(c)
    <2>1. PICK e \in list[c] :
            /\ status[e[1]] = "WAITLISTED"
            /\ status' = [status EXCEPT ![e[1]] = "CONFIRMED"]
      BY <1>6 DEF Promote, Promoting
    <2>2. e[1] \in Reserves /\ pc[e[1]] = "done"
      BY <2>1
    <2>3. pc[c] = "cascade" /\ pc' = [pc EXCEPT ![c] = "dequeue"]
      BY <1>6 DEF Promote, Promoting
    <2>4. SeatTokens' = (SeatTokens \ {c}) \cup {e[1]} /\ c \in SeatTokens /\ e[1] \notin SeatTokens
      BY <2>1, <2>2, <2>3
         DEF SeatTokens, Promised, QueueTokens, Seated, Waiting, SeatSteps, QueueSteps, Seats
    <2>5. QueueTokens' = (QueueTokens \ {e[1]}) \cup {c} /\ e[1] \in QueueTokens /\ c \notin QueueTokens
      BY <2>1, <2>2, <2>3
         DEF SeatTokens, Promised, QueueTokens, Seated, Waiting, SeatSteps, QueueSteps, Seats
    <2>6. Cardinality(SeatTokens') = Cardinality(SeatTokens)
      BY <2>4, TokensFinite, TokenMoves
    <2>7. Cardinality(QueueTokens') = Cardinality(QueueTokens)
      BY <2>5, TokensFinite, TokenMoves
    <2>8. QED
      BY <1>6, <2>6, <2>7 DEF Promote, Promoting, Conserved, SeatsConserved, QueueConserved
  <1>7. CASE ReleaseSeat(c)
    <2>1. c \in SeatTokens /\ SeatTokens' = SeatTokens \ {c} /\ QueueTokens' = QueueTokens
      BY <1>7 DEF ReleaseSeat,
         SeatTokens, Promised, QueueTokens, Seated, Waiting, SeatSteps, QueueSteps, Seats
    <2>2. Cardinality(SeatTokens') = Cardinality(SeatTokens) - 1
      BY <2>1, TokensFinite, FS_RemoveElement
    <2>3. QED  BY <1>7, <2>1, <2>2 DEF ReleaseSeat, Conserved, SeatsConserved, QueueConserved
  <1>8. CASE LeaveQueue(c)
    <2>1. c \in QueueTokens /\ QueueTokens' = QueueTokens \ {c} /\ SeatTokens' = SeatTokens
      BY <1>8 DEF LeaveQueue,
         SeatTokens, Promised, QueueTokens, Seated, Waiting, SeatSteps, QueueSteps, Seats
    <2>2. Cardinality(QueueTokens') = Cardinality(QueueTokens) - 1
      BY <2>1, TokensFinite, FS_RemoveElement
    <2>3. QED  BY <1>8, <2>1, <2>2 DEF LeaveQueue, Conserved, SeatsConserved, QueueConserved
  <1>9. QED
    BY <1>1, <1>2, <1>3, <1>4, <1>5, <1>6, <1>7, <1>8
       DEF CancelStep, PromoteReplyLost, RepliesArrive

LEMMA ConservedStep == RepliesArrive /\ Frame /\ Conserved /\ [Next]_vars => Conserved'
  <1> SUFFICES ASSUME RepliesArrive, Frame, Conserved, [Next]_vars PROVE Conserved'
    OBVIOUS
  <1> USE CallsAssumption DEF Frame, TypeOK, RowOutlivesCall, shiftVars, rowVars, callVars, Goto, Calls
  <1>1. CASE UNCHANGED vars
    <2>1. TokensKept
      BY <1>1 DEF vars, TokensKept, SeatTokens, Promised, QueueTokens, Seated, Waiting
    <2>2. QED  BY <2>1, KeptConserves
  <1>2. ASSUME NEW r \in Reserves, ReserveStep(r) PROVE Conserved'
    BY <1>2, ReserveConserves
  <1>3. ASSUME NEW r \in Reserves, CheckIn(r) \/ CheckOut(r) PROVE Conserved'
    <2>1. TokensKept
      BY <1>3 DEF CheckIn, CheckOut, TokensKept,
         SeatTokens, Promised, QueueTokens, Seated, Waiting, SeatSteps, QueueSteps, Seats
    <2>2. QED  BY <2>1, KeptConserves
  <1>4. ASSUME NEW c \in Cancels, CancelRead(c) \/ CancelStep(c) PROVE Conserved'
    BY <1>4, CancelConserves
  <1>5. ASSUME NEW o \in Organisers, OrganiserStep(o) PROVE Conserved'
    <2>1. TokensKept
      BY <1>5 DEF OrganiserStep, EditRead, EditWrite, DeleteCount, Deactivate, TokensKept,
         SeatTokens, Promised, QueueTokens, Seated, Waiting, SeatSteps, QueueSteps, Seats
    <2>2. QED  BY <2>1, KeptConserves
  <1>6. ASSUME NEW c \in Calls, Crash(c) PROVE Conserved'
    <2>1. TokensKept
      BY <1>6 DEF Crash, Ended, TokensKept,
         SeatTokens, Promised, QueueTokens, Seated, Waiting, SeatSteps, QueueSteps, Seats
    <2>2. QED  BY <2>1, KeptConserves
  <1>7. QED  BY <1>1, <1>2, <1>3, <1>4, <1>5, <1>6 DEF Next

-----------------------------------------------------------------------------
(* The ceiling, and queue positions.                                       *)

LEMMA CeilingStep == TypeOK /\ WithinCeiling /\ [Next]_vars => WithinCeiling'
  <1> SUFFICES ASSUME TypeOK, WithinCeiling, [Next]_vars PROVE WithinCeiling'
    OBVIOUS
  <1> USE DEF TypeOK, WithinCeiling, shiftVars
  <1>1. CASE UNCHANGED vars
    BY <1>1 DEF vars
  <1>2. ASSUME NEW r \in Reserves, ReserveStep(r) \/ CheckIn(r) \/ CheckOut(r) PROVE WithinCeiling'
    BY <1>2 DEF ReserveStep, ReserveCheck, ClaimSeat, FindFull, JoinQueue, InsertRow, InsertFails,
       InsertReplyLost, AddRow, UndoClaim, UndoFails, CheckIn, CheckOut
  <1>3. ASSUME NEW c \in Cancels, CancelRead(c) \/ CancelStep(c) PROVE WithinCeiling'
    BY <1>3 DEF CancelRead, CancelStep, CancelClaim, CancelLoses, LoadCandidates, SkipCandidate,
       Promote, PromoteReplyLost, Promoting, CascadeEnds, ReleaseSeat, LeaveQueue, SettleFails,
       LoadQueue, Renumber, RenumberEnds
  <1>4. ASSUME NEW o \in Organisers, OrganiserStep(o) PROVE WithinCeiling'
    <2>1. dto[o] \in Dto
      OBVIOUS
    <2>2. CASE EditWrite(o)
      BY <2>1, <2>2, ShiftAssumption DEF EditWrite, Dto
    <2>3. CASE EditRead(o) \/ DeleteCount(o) \/ Deactivate(o)
      BY <2>3 DEF EditRead, DeleteCount, Deactivate
    <2>4. QED  BY <1>4, <2>2, <2>3 DEF OrganiserStep
  <1>5. ASSUME NEW c \in Calls, Crash(c) PROVE WithinCeiling'
    BY <1>5 DEF Crash
  <1>6. QED  BY <1>1, <1>2, <1>3, <1>4, <1>5 DEF Next

Placed == NoEarlyPosition /\ OffQueueHasNoPosition

LEMMA PlacedStep == RepliesArrive /\ Frame /\ Placed /\ [Next]_vars => Placed'
  <1> SUFFICES ASSUME RepliesArrive, Frame, Placed, [Next]_vars PROVE Placed'
    OBVIOUS
  <1> USE CallsAssumption DEF Frame, TypeOK, RowOutlivesCall, ReadIsLive, Placed, NoEarlyPosition,
          OffQueueHasNoPosition, rowVars, callVars, Goto, Calls
  <1>1. CASE UNCHANGED vars
    BY <1>1 DEF vars
  <1>2. ASSUME NEW r \in Reserves, ReserveStep(r) PROVE Placed'
    BY <1>2 DEF RepliesArrive, ReserveStep, ReserveCheck, ClaimSeat, FindFull, JoinQueue, InsertRow,
       InsertFails, InsertReplyLost, AddRow, Inserting, InsertedStatus, UndoStep, UndoClaim, UndoFails
  <1>3. ASSUME NEW r \in Reserves, CheckIn(r) \/ CheckOut(r) PROVE Placed'
    BY <1>3 DEF CheckIn, CheckOut
  <1>4. ASSUME NEW c \in Cancels, CancelRead(c) \/ CancelStep(c) PROVE Placed'
    <2>1. CASE CancelClaim(c)
      BY <2>1 DEF CancelClaim, RowAsRead
    <2>2. CASE Promote(c)
      BY <2>2 DEF Promote, Promoting
    <2>3. CASE Renumber(c)
      BY <2>3 DEF Renumber, Renumbered
    <2>4. CASE \/ CancelRead(c) \/ CancelLoses(c) \/ LoadCandidates(c) \/ SkipCandidate(c)
               \/ CascadeEnds(c) \/ ReleaseSeat(c) \/ LeaveQueue(c) \/ SettleFails(c)
               \/ LoadQueue(c) \/ RenumberEnds(c)
      BY <2>4 DEF CancelRead, CancelLoses, LoadCandidates, SkipCandidate, CascadeEnds, ReleaseSeat,
         LeaveQueue, SettleFails, LoadQueue, RenumberEnds
    <2>5. QED
      BY <1>4, <2>1, <2>2, <2>3, <2>4 DEF CancelStep, PromoteReplyLost, RepliesArrive
  <1>5. ASSUME NEW o \in Organisers, OrganiserStep(o) PROVE Placed'
    BY <1>5 DEF OrganiserStep, EditRead, EditWrite, DeleteCount, Deactivate
  <1>6. ASSUME NEW c \in Calls, Crash(c) PROVE Placed'
    BY <1>6 DEF Crash, Ended
  <1>7. QED  BY <1>1, <1>2, <1>3, <1>4, <1>5, <1>6 DEF Next

-----------------------------------------------------------------------------
(* The theorems.                                                           *)

LEMMA IInvInit == Init => IInv
  <1>1. Init => WithinCeiling
    BY ShiftAssumption DEF Init, WithinCeiling
  <1>2. Init => Placed
    BY DEF Init, Placed, NoEarlyPosition, OffQueueHasNoPosition
  <1>3. QED
    BY <1>1, <1>2, FrameInit, ConservedInit DEF IInv, Conserved, Placed

LEMMA IInvStep == RepliesArrive /\ IInv /\ [Next]_vars => IInv'
  BY FrameStep, ConservedStep, CeilingStep, PlacedStep DEF IInv, Frame, Conserved, Placed

LEMMA Inductive == ASSUME RepliesArrive PROVE Spec => []IInv
  <1>1. IInv /\ [Next]_vars => IInv'
    BY IInvStep
  <1>2. QED  BY IInvInit, <1>1, PTL DEF Spec

\* Conservation of seats: short of a lost reply, filledSlots is the number of
\* rows and calls that account for a seat, in every reachable state.
THEOREM SeatsAreConserved == ASSUME RepliesArrive PROVE Spec => []SeatsConserved
  BY Inductive, PTL DEF IInv

\* Conservation of the queue count, under the same faults.
THEOREM QueueIsConserved == ASSUME RepliesArrive PROVE Spec => []QueueConserved
  BY Inductive, PTL DEF IInv

\* I1, for any number of reservations, cancellations and organiser edits.
THEOREM NoOversell == ASSUME RepliesArrive PROVE Spec => []NeverOversold
  <1>1. IInv => NeverOversold
    <2> SUFFICES ASSUME IInv PROVE NeverOversold
      OBVIOUS
    <2>1. Seated \in SUBSET SeatTokens
      BY DEF SeatTokens, Promised
    <2>2. Cardinality(Seated) <= Cardinality(SeatTokens) /\ Cardinality(Seated) \in Nat
      BY <2>1, TokensFinite, FS_Subset, FS_CardinalityType
    <2>3. QED
      BY <2>2, TokensFinite
         DEF IInv, Frame, TypeOK, SeatsConserved, WithinCeiling, NeverOversold
  <1>2. QED  BY <1>1, Inductive, PTL

\* No row outside the queue ever carries a queue position.
THEOREM PositionsStayInQueue == ASSUME RepliesArrive PROVE Spec => []OffQueueHasNoPosition
  BY Inductive, PTL DEF IInv

-----------------------------------------------------------------------------
(* The unique index.                                                       *)

\* Only an insertion makes a row active that was not, and the index lets it in
\* only when its volunteer has none.
LEMMA ActiveOnlyByInsert ==
  ASSUME TypeOK, [Next]_vars
  PROVE  \/ \A r \in Reserves : status'[r] \in IndexActive => status[r] \in IndexActive
         \/ \E r \in Reserves :
               ~HasActiveRow(VolunteerOf[r]) /\ \A s \in Reserves : s # r => status'[s] = status[s]
  <1> USE DEF TypeOK, IndexActive, Seats, shiftVars, rowVars, callVars
  <1>1. CASE UNCHANGED vars
    BY <1>1 DEF vars
  <1>2. ASSUME NEW r \in Reserves, InsertRow(r) \/ InsertReplyLost(r)
        PROVE  ~HasActiveRow(VolunteerOf[r]) /\ \A s \in Reserves : s # r => status'[s] = status[s]
    BY <1>2 DEF InsertRow, InsertReplyLost, AddRow
  <1>3. ASSUME NEW r \in Reserves, ReserveStep(r), ~(InsertRow(r) \/ InsertReplyLost(r))
        PROVE  status' = status
    BY <1>3 DEF ReserveStep, ReserveCheck, ClaimSeat, FindFull, JoinQueue, InsertFails,
       UndoClaim, UndoFails
  <1>4. ASSUME NEW r \in Reserves, CheckIn(r) \/ CheckOut(r)
        PROVE  \A s \in Reserves : status'[s] \in IndexActive => status[s] \in IndexActive
    BY <1>4 DEF CheckIn, CheckOut
  <1>5. ASSUME NEW c \in Cancels, CancelRead(c) \/ CancelStep(c)
        PROVE  \A s \in Reserves : status'[s] \in IndexActive => status[s] \in IndexActive
    <2>1. CASE CancelClaim(c)
      BY <2>1 DEF CancelClaim
    <2>2. CASE Promote(c) \/ PromoteReplyLost(c)
      BY <2>2 DEF Promote, PromoteReplyLost, Promoting
    <2>3. CASE ~CancelClaim(c) /\ ~Promote(c) /\ ~PromoteReplyLost(c)
      <3>1. status' = status
        BY <1>5, <2>3 DEF CancelRead, CancelStep, CancelLoses, LoadCandidates, SkipCandidate,
           CascadeEnds, ReleaseSeat, LeaveQueue, SettleFails, LoadQueue, Renumber, RenumberEnds
      <3>2. QED  BY <3>1
    <2>4. QED  BY <2>1, <2>2, <2>3
  <1>6. ASSUME NEW o \in Organisers, OrganiserStep(o) PROVE status' = status
    BY <1>6 DEF OrganiserStep, EditRead, EditWrite, DeleteCount, Deactivate
  <1>7. ASSUME NEW c \in Calls, Crash(c) PROVE status' = status
    BY <1>7 DEF Crash
  <1>8. QED  BY <1>1, <1>2, <1>3, <1>4, <1>5, <1>6, <1>7 DEF Next, vars

\* No volunteer has two active rows for the shift, however many reservations
\* overlap and whatever fails (the partial unique index of
\* registration.model, which step 7 of reserveShift runs into).
THEOREM OneActiveEach == Spec => []OneActiveRow
  <1>1. Init => OneActiveRow
    BY DEF Init, OneActiveRow, IndexActive, Seats
  <1>2. TypeOK /\ OneActiveRow /\ [Next]_vars => OneActiveRow'
    <2> SUFFICES ASSUME TypeOK, OneActiveRow, [Next]_vars PROVE OneActiveRow'
      OBVIOUS
    <2>1. CASE \A r \in Reserves : status'[r] \in IndexActive => status[r] \in IndexActive
      BY <2>1 DEF OneActiveRow
    <2>2. CASE \E r \in Reserves :
                 ~HasActiveRow(VolunteerOf[r]) /\ \A s \in Reserves : s # r => status'[s] = status[s]
      BY <2>2 DEF OneActiveRow, HasActiveRow
    <2>3. QED  BY <2>1, <2>2, ActiveOnlyByInsert
  <1>3. QED  BY <1>1, <1>2, TypeCorrect, PTL DEF Spec

-----------------------------------------------------------------------------
(* The ledger implements the allocator.                                    *)

\* What the allocator sees stands still.
Stands ==
    /\ Seated' = Seated /\ Waiting' = Waiting
    /\ Promised' = Promised /\ capacity' = capacity

LEMMA StandsStutters == Stands => UNCHANGED Allocation!vars
  BY DEF Stands, Allocation!vars

\* The allocator's copy of the library counts as the ledger's does.
LEMMA SameCardinality == ASSUME NEW S PROVE Allocation!Cardinality(S) = Cardinality(S)
  BY DEF Allocation!Cardinality, Cardinality

LEMMA AllocationInit == Init => Allocation!Init
  <1> SUFFICES ASSUME Init PROVE Allocation!Init
    OBVIOUS
  <1>1. Seated = {} /\ Waiting = {} /\ Promised = {}
    BY CallsAssumption DEF Init, Seated, Waiting, Promised, Seats, SeatSteps, Calls
  <1>2. QED  BY <1>1, ShiftAssumption, FS_EmptySet, SameCardinality DEF Init, Allocation!Init

\* A reservation takes a seat, sits down, waits, or gives the seat back.
LEMMA ReserveAllocates ==
  ASSUME RepliesArrive, Frame, Conserved, NEW r \in Reserves, ReserveStep(r)
  PROVE  Allocation!Next \/ Stands
  <1> USE CallsAssumption DEF Frame, TypeOK, RowOutlivesCall, shiftVars, rowVars, callVars, Goto, Calls
  <1>1. CASE ReserveCheck(r) \/ FindFull(r) \/ JoinQueue(r) \/ InsertFails(r) \/ UndoFails(r)
    <2>1. Stands
      BY <1>1 DEF ReserveCheck, FindFull, JoinQueue, InsertFails, Inserting, UndoStep, UndoFails, Stands,
         Promised, Seated, Waiting, SeatSteps, QueueSteps, Seats
    <2>2. QED  BY <2>1
  <1>2. CASE ClaimSeat(r)
    <2>1. r \notin Seated \cup Promised /\ Promised' = Promised \cup {r}
      BY <1>2 DEF ClaimSeat, Promised, Seated, SeatSteps, Seats
    <2>2. Seated' = Seated /\ Waiting' = Waiting /\ capacity' = capacity
      BY <1>2 DEF ClaimSeat, Seated, Waiting
    <2>3. Cardinality(Seated \cup Promised) < capacity
      BY <1>2 DEF ClaimSeat, Conserved, SeatsConserved, SeatTokens
    <2>4. Allocation!Take(r)
      BY <2>1, <2>2, <2>3, SameCardinality DEF Allocation!Take, Allocation!Taken
    <2>5. QED  BY <2>4 DEF Allocation!Next
  <1>3. CASE InsertRow(r) /\ pc[r] = "insert_seat"
    <2>1. r \in Promised /\ r \notin Seated /\ Promised' = Promised \ {r} /\ Seated' = Seated \cup {r}
      BY <1>3 DEF InsertRow, AddRow, InsertedStatus, Promised, Seated, SeatSteps, Seats
    <2>2. Waiting' = Waiting /\ capacity' = capacity
      BY <1>3 DEF InsertRow, AddRow, InsertedStatus, Waiting
    <2>3. Allocation!Sit(r)
      BY <2>1, <2>2 DEF Allocation!Sit
    <2>4. QED  BY <2>3 DEF Allocation!Next
  <1>4. CASE InsertRow(r) /\ pc[r] = "insert_queue"
    <2>1. r \notin Seated /\ r \notin Promised /\ r \notin Waiting /\ Waiting' = Waiting \cup {r}
      BY <1>4 DEF InsertRow, AddRow, InsertedStatus, Promised, Seated, Waiting, SeatSteps, Seats
    <2>2. Seated' = Seated /\ Promised' = Promised /\ capacity' = capacity
      BY <1>4 DEF InsertRow, AddRow, InsertedStatus, Promised, Seated, SeatSteps, Seats
    <2>3. Allocation!Wait(r)
      BY <2>1, <2>2 DEF Allocation!Wait, Allocation!Taken
    <2>4. QED  BY <2>3 DEF Allocation!Next
  <1>5. CASE UndoClaim(r) /\ pc[r] = "undo_seat"
    <2>1. r \in Promised /\ Promised' = Promised \ {r}
      BY <1>5 DEF UndoClaim, Promised, SeatSteps
    <2>2. Seated' = Seated /\ Waiting' = Waiting /\ capacity' = capacity
      BY <1>5 DEF UndoClaim, Seated, Waiting
    <2>3. Allocation!GiveBack(r)
      BY <2>1, <2>2 DEF Allocation!GiveBack
    <2>4. QED  BY <2>3 DEF Allocation!Next
  <1>6. CASE UndoClaim(r) /\ pc[r] = "undo_queue"
    <2>1. Stands
      BY <1>6 DEF UndoClaim, Stands, Promised, Seated, Waiting, SeatSteps
    <2>2. QED  BY <2>1
  <1>7. QED
    BY <1>1, <1>2, <1>3, <1>4, <1>5, <1>6
       DEF ReserveStep, UndoClaim, InsertRow, AddRow, Inserting, InsertReplyLost, RepliesArrive

\* A cancellation empties a seat or leaves the queue, and a seat it has in hand
\* it passes on or gives back.
LEMMA CancelAllocates ==
  ASSUME RepliesArrive, Frame, NEW c \in Cancels, CancelRead(c) \/ CancelStep(c)
  PROVE  Allocation!Next \/ Stands
  <1> USE CallsAssumption DEF Frame, TypeOK, RowOutlivesCall, ReadIsLive, shiftVars, rowVars,
          callVars, Goto, Calls
  <1>1. CASE \/ CancelRead(c) \/ CancelLoses(c) \/ LoadCandidates(c) \/ SkipCandidate(c)
             \/ CascadeEnds(c) \/ SettleFails(c) \/ LeaveQueue(c)
    <2>1. Stands
      BY <1>1 DEF CancelRead, CancelLoses, LoadCandidates, SkipCandidate, CascadeEnds, SettleFails,
         LeaveQueue, Stands, Promised, Seated, Waiting, SeatSteps, QueueSteps, Seats
    <2>2. QED  BY <2>1
  <1>2. CASE LoadQueue(c) \/ Renumber(c) \/ RenumberEnds(c)
    <2>1. Stands
      BY <1>2 DEF LoadQueue, Renumber, RenumberEnds, Stands, Promised, Seated, Waiting, SeatSteps
    <2>2. QED  BY <2>1
  <1>3. CASE CancelClaim(c)
    <2> DEFINE t == seen[c].row
    <2>1. t \in Reserves /\ status[t] = seen[c].status
          /\ status' = [status EXCEPT ![t] = "CANCELLED"] /\ capacity' = capacity
          /\ pc[c] = "cas" /\ pc' = [pc EXCEPT ![c] = IF HeldSeat(c) THEN "pick" ELSE "dequeue"]
      BY <1>3 DEF CancelClaim, RowAsRead
    <2>2. CASE HeldSeat(c)
      <3>1. status[t] \in {"CONFIRMED", "CHECKED_IN"}
        BY <2>1, <2>2 DEF HeldSeat
      <3>2. t \in Seated /\ Seated' = Seated \ {t} /\ Waiting' = Waiting
        BY <2>1, <3>1 DEF Seated, Waiting, Seats
      <3>3. c \notin Seated /\ c \notin Promised /\ Promised' = Promised \cup {c}
        BY <2>1, <2>2 DEF Seated, Promised, SeatSteps
      <3>4. Allocation!Empty(c, t)
        BY <2>1, <3>2, <3>3 DEF Allocation!Empty, Allocation!Taken
      <3>5. QED  BY <2>1, <3>4 DEF Allocation!Next
    <2>3. CASE ~HeldSeat(c)
      <3>1. status[t] = "WAITLISTED"
        BY <1>3, <2>1, <2>3 DEF HeldSeat
      <3>2. t \in Waiting /\ Waiting' = Waiting \ {t} /\ Seated' = Seated
        BY <2>1, <3>1 DEF Seated, Waiting, Seats
      <3>3. Promised' = Promised
        BY <2>1, <2>3 DEF Promised, SeatSteps
      <3>4. Allocation!Leave(t)
        BY <2>1, <3>2, <3>3 DEF Allocation!Leave
      <3>5. QED  BY <2>1, <3>4 DEF Allocation!Next
    <2>4. QED  BY <2>2, <2>3
  <1>4. CASE Promote(c)
    <2>1. PICK e \in list[c] :
            /\ status[e[1]] = "WAITLISTED"
            /\ status' = [status EXCEPT ![e[1]] = "CONFIRMED"]
      BY <1>4 DEF Promote, Promoting
    <2>2. e[1] \in Reserves
      BY <2>1
    <2>3. pc[c] = "cascade" /\ pc' = [pc EXCEPT ![c] = "dequeue"] /\ capacity' = capacity
      BY <1>4 DEF Promote, Promoting
    <2> DEFINE w == e[1]
    <2>4. w \in Waiting /\ Waiting' = Waiting \ {w} /\ Seated' = Seated \cup {w}
      BY <2>1, <2>2 DEF Seated, Waiting, Seats
    <2>5. c \in Promised /\ Promised' = Promised \ {c}
      BY <2>3 DEF Promised, SeatSteps
    <2>6. Allocation!PassOn(c, w)
      BY <2>3, <2>4, <2>5 DEF Allocation!PassOn
    <2>7. QED  BY <2>2, <2>6 DEF Allocation!Next
  <1>5. CASE ReleaseSeat(c)
    <2>1. c \in Promised /\ Promised' = Promised \ {c}
      BY <1>5 DEF ReleaseSeat, Promised, SeatSteps
    <2>2. Seated' = Seated /\ Waiting' = Waiting /\ capacity' = capacity
      BY <1>5 DEF ReleaseSeat, Seated, Waiting
    <2>3. Allocation!GiveBack(c)
      BY <2>1, <2>2 DEF Allocation!GiveBack
    <2>4. QED  BY <2>3 DEF Allocation!Next
  <1>6. QED
    BY <1>1, <1>2, <1>3, <1>4, <1>5 DEF CancelStep, PromoteReplyLost, RepliesArrive

LEMMA AllocationStep == RepliesArrive /\ IInv /\ TypeOK' /\ [Next]_vars => [Allocation!Next]_(Allocation!vars)
  <1> SUFFICES ASSUME RepliesArrive, IInv, TypeOK', [Next]_vars
               PROVE  Allocation!Next \/ Stands
    BY StandsStutters
  <1> USE CallsAssumption DEF Frame, TypeOK, RowOutlivesCall, shiftVars, rowVars, callVars, Goto, Calls
  <1>1. CASE UNCHANGED vars
    BY <1>1 DEF vars, Stands, Promised, Seated, Waiting
  <1>2. ASSUME NEW r \in Reserves, ReserveStep(r) PROVE Allocation!Next \/ Stands
    BY <1>2, ReserveAllocates DEF IInv, Conserved
  <1>3. ASSUME NEW r \in Reserves, CheckIn(r) \/ CheckOut(r) PROVE Stands
    BY <1>3 DEF IInv, CheckIn, CheckOut, Stands, Promised, Seated, Waiting, Seats
  <1>4. ASSUME NEW c \in Cancels, CancelRead(c) \/ CancelStep(c) PROVE Allocation!Next \/ Stands
    BY <1>4, CancelAllocates DEF IInv
  <1>5. ASSUME NEW o \in Organisers, EditWrite(o) PROVE Allocation!Next
    <2>1. Seated' = Seated /\ Waiting' = Waiting /\ Promised' = Promised
      BY <1>5 DEF IInv, EditWrite, Promised, Seated, Waiting, SeatSteps
    <2>2. capacity' \in Nat
      OBVIOUS
    <2>3. Allocation!Resize
      BY <2>1, <2>2 DEF Allocation!Resize
    <2>4. QED  BY <2>3 DEF Allocation!Next
  <1>6. ASSUME NEW o \in Organisers, EditRead(o) \/ DeleteCount(o) \/ Deactivate(o) PROVE Stands
    BY <1>6 DEF IInv, EditRead, DeleteCount, Deactivate, Stands, Promised, Seated, Waiting, SeatSteps
  <1>7. ASSUME NEW c \in Calls, Crash(c) PROVE Stands
    BY <1>7 DEF IInv, Crash, Ended, Stands, Promised, Seated, Waiting, SeatSteps, QueueSteps
  <1>8. QED  BY <1>1, <1>2, <1>3, <1>4, <1>5, <1>6, <1>7 DEF Next, OrganiserStep

\* The counters do what a set of holders would: no seat is granted while as many
\* are taken as the shift has then, and one that is freed goes back or to one
\* waiter (steps 6 and 7 of reserveShift, the cascade of cancelRegistration).
THEOREM SeatsGoHandToHand == ASSUME RepliesArrive PROVE Spec => SeatsAreAllocated
  <1>1. IInv => TypeOK
    BY DEF IInv, Frame
  <1>2. IInv /\ IInv' /\ [Next]_vars => [Allocation!Next]_(Allocation!vars)
    BY <1>1, AllocationStep DEF IInv, Frame
  <1>3. QED
    BY <1>2, AllocationInit, Inductive, PTL DEF Spec, SeatsAreAllocated, Allocation!Spec
=============================================================================
