---------------------------- MODULE Roster_proofs ----------------------------
(***************************************************************************)
(* Theorems about Roster for every set of rows, proposals and calls.       *)
(* Nothing is assumed of the order in which the calls run.                 *)
(***************************************************************************)
EXTENDS Roster, FiniteSetTheorems, TLAPS

-----------------------------------------------------------------------------
(* Types.  TypeOK alone is not inductive: what a call writes is what it     *)
(* read, so the reads must be typed at the steps that use them.            *)

DealSteps == {"rows", "check", "trade", "fail"}
RowSteps == {"claim", "record", "close", "complete", "reopen", "pay", "cas"}
RingSteps == {"legs", "refuse", "rotate"}

\* An accept in flight has a proposal and an acceptor, and from its schedule
\* check on the two rows, one on each shift of the proposal.
DealRead ==
    \A c \in Accepts :
        /\ pc[c] \in DealSteps => deal[c].swap \in Proposals /\ deal[c].by \in Volunteers
        /\ pc[c] \in {"check", "trade"} =>
              /\ deal[c].a \in Rows /\ ShiftOf[deal[c].a] = Give[deal[c].swap]
              /\ deal[c].b \in Rows /\ ShiftOf[deal[c].b] = Want[deal[c].swap]

RowRead ==
    \A c \in Scans \cup Outs \cup Cancels : pc[c] \in RowSteps => mine[c].row \in Rows

\* A ring is one cycle of offers, each passed to somebody else, and the one in
\* hand names each volunteer once.
Fits(f) ==
    /\ DOMAIN f \subseteq Offers /\ IsFiniteSet(DOMAIN f)
    /\ f \in [DOMAIN f -> DOMAIN f] /\ OneCycle(f)
    /\ \A o \in DOMAIN f : o[1] # f[o][1]
OncePerVolunteer(f) == \A o, t \in DOMAIN f : o[1] = t[1] => o = t
RingRead ==
    /\ DOMAIN rings = Passes /\ DOMAIN ring = Passes
    /\ \A x \in Passes :
        /\ \A f \in rings[x] : Fits(f)
        /\ pc[x] \in RingSteps => Fits(ring[x]) /\ OncePerVolunteer(ring[x])

Frame == TypeOK /\ DealRead /\ RowRead /\ RingRead

LEMMA FrameInit == Init => Frame
  <1> SUFFICES ASSUME Init PROVE Frame
    OBVIOUS
  <1> USE DEF Init
  <1>1. TypeOK
    BY RosterAssumption DEF TypeOK, Active, Steps, NoCheckIn, NoDeal, NoRow
  <1>2. DealRead /\ RowRead
    BY DEF DealRead, RowRead, DealSteps, RowSteps, Calls
  <1>3. RingRead
    BY DEF RingRead, RingSteps, Calls
  <1>4. QED  BY <1>1, <1>2, <1>3 DEF Frame

\* What a step that writes only pc, and to a step without a read, keeps.
LEMMA ProposeFrame ==
  ASSUME Frame, NEW p \in Proposals, ProposeCheck(p) \/ ProposeCreate(p)
  PROVE  Frame'
  <1> USE DEF ProposeCheck, ProposeCreate, rowVars, payVars, passVars, Goto
  <1>1. TypeOK'
    <2> USE DEF Frame, TypeOK, Steps, Calls
    <2>1. CASE ProposeCheck(p)
      <3>1. pc' \in [Calls -> Steps]
        BY <2>1
      <3>2. QED  BY <2>1, <3>1
    <2>2. CASE ProposeCreate(p)
      <3>1. pc' \in [Calls -> Steps]
        BY <2>2
      <3>2. QED  BY <2>2, <3>1
    <2>3. QED  BY <2>1, <2>2
  <1>2. DealRead' /\ RowRead'
    BY DEF Frame, TypeOK, DealRead, RowRead, DealSteps, RowSteps, Calls
  <1>3. RingRead'
    BY DEF Frame, TypeOK, RingRead, RingSteps, Calls
  <1>4. QED  BY <1>1, <1>2, <1>3 DEF Frame

LEMMA AcceptFrame ==
  ASSUME Frame, NEW c \in Accepts, AcceptStep(c)
  PROVE  Frame'
  <1> USE DEF rowVars, payVars, passVars, Goto
  <1>1. TypeOK'
    <2> USE DEF Frame, TypeOK, Steps, Calls
    <2>1. CASE AcceptRead(c)
      <3>1. pc' \in [Calls -> Steps]
        BY <2>1 DEF AcceptRead
      <3>2. deal' \in [Accepts -> [swap : Proposals \cup {Nothing}, by : Volunteers \cup {Nobody},
                                   a : Rows \cup {Nothing}, b : Rows \cup {Nothing}]]
        BY <2>1 DEF AcceptRead
      <3>3. QED  BY <2>1, <3>1, <3>2 DEF AcceptRead
    <2>2. CASE AcceptRows(c)
      <3>1. pc' \in [Calls -> Steps]
        BY <2>2 DEF AcceptRows
      <3>2. deal' \in [Accepts -> [swap : Proposals \cup {Nothing}, by : Volunteers \cup {Nobody},
                                   a : Rows \cup {Nothing}, b : Rows \cup {Nothing}]]
        BY <2>2 DEF AcceptRows, Holding
      <3>3. QED  BY <2>2, <3>1, <3>2 DEF AcceptRows
    <2>3. CASE AcceptCheck(c) \/ AcceptAborts(c)
      <3>1. pc' \in [Calls -> Steps]
        BY <2>3 DEF AcceptCheck, AcceptAborts
      <3>2. QED  BY <2>3, <3>1 DEF AcceptCheck, AcceptAborts
    <2>4. CASE AcceptTrade(c)
      <3>1. deal[c].swap \in Proposals /\ deal[c].by \in Volunteers /\ By[deal[c].swap] \in Volunteers
        BY <2>4, ProposalAssumption DEF AcceptTrade, DealRead, DealSteps
      <3>2. holder' \in [Rows -> Volunteers]
        BY <2>4, <3>1 DEF AcceptTrade
      <3>3. swap' \in [Proposals -> {"NONE", "PENDING", "EXECUTED", "FAILED"}]
        BY <2>4 DEF AcceptTrade
      <3>4. QED  BY <2>4, <3>2, <3>3 DEF AcceptTrade
    <2>5. CASE AcceptFails(c)
      BY <2>5 DEF AcceptFails, FailedIfPending
    <2>6. QED  BY <2>1, <2>2, <2>3, <2>4, <2>5 DEF AcceptStep
  <1>2. DealRead'
    <2> USE DEF Frame, TypeOK, DealRead, DealSteps, Calls
    <2>1. CASE AcceptRead(c)
      BY <2>1 DEF AcceptRead
    <2>2. CASE AcceptRows(c)
      BY <2>2 DEF AcceptRows, Holding
    <2>3. CASE AcceptCheck(c)
      BY <2>3 DEF AcceptCheck
    <2>4. CASE AcceptTrade(c) \/ AcceptAborts(c) \/ AcceptFails(c)
      BY <2>4 DEF AcceptTrade, AcceptAborts, AcceptFails
    <2>5. QED  BY <2>1, <2>2, <2>3, <2>4 DEF AcceptStep
  <1>3. UNCHANGED <<mine, rings, ring>> /\ \A d \in Calls \ {c} : pc'[d] = pc[d]
    BY DEF Frame, TypeOK, AcceptStep, AcceptRead, AcceptRows, AcceptCheck, AcceptTrade,
           AcceptAborts, AcceptFails
  <1>4. pc'[c] \in DealSteps \cup {"done"}
    BY DEF Frame, TypeOK, AcceptStep, AcceptRead, AcceptRows, AcceptCheck, AcceptTrade,
           AcceptAborts, AcceptFails, DealSteps, Calls
  <1>5. RowRead' /\ RingRead'
    BY <1>3, <1>4 DEF Frame, RowRead, RingRead, RowSteps, DealSteps, RingSteps, Calls
  <1>6. QED  BY <1>1, <1>2, <1>5 DEF Frame

LEMMA DeskFrame ==
  ASSUME Frame, NEW c \in Scans \cup Outs \cup Cancels,
         \/ c \in Scans /\ ScanStep(c)
         \/ c \in Outs /\ OutStep(c)
         \/ c \in Cancels /\ (CancelRead(c) \/ CancelClaim(c))
  PROVE  Frame'
  <1> USE DEF rowVars, payVars, passVars, Goto, ScanStep, OutStep, ScanRead, ScanClaim,
          ScanRecord, ScanRefused, OutRead, OutClose, OutComplete, OutReopen, OutPay,
          CancelRead, CancelClaim
  <1>1. /\ UNCHANGED <<holder, swap, deal, passVars>>
        /\ \E step \in RowSteps \cup {"done"} : Goto(c, step)
    BY DEF OnLostRow, RowSteps
  <1>2. /\ pc' \in [Calls -> Steps]
        /\ pc'[c] \in RowSteps \cup {"done"}
        /\ \A d \in Calls \ {c} : pc'[d] = pc[d]
    BY <1>1 DEF Frame, TypeOK, Calls, RowSteps, Steps
  <1>3. status' \in [Rows -> Active \cup {"CANCELLED"}]
    <2>1. CASE UNCHANGED status
      BY <2>1 DEF Frame, TypeOK
    <2>2. CASE \E r \in Rows, to \in {"CHECKED_IN", "COMPLETED", "CANCELLED"} :
                  status' = [status EXCEPT ![r] = to]
      BY <2>2 DEF Frame, TypeOK, Active
    <2>3. mine[c].row \in Rows \/ UNCHANGED status
      BY DEF Frame, RowRead, RowSteps
    <2>4. QED  BY <2>1, <2>2, <2>3
  <1>4. /\ mine' \in [Scans \cup Outs \cup Cancels ->
                        [row : Rows \cup {Nothing}, by : Volunteers \cup {Nobody},
                         status : Busy \cup {"NONE"}]]
        /\ \/ UNCHANGED mine /\ pc[c] \in RowSteps
           \/ /\ mine'[c].row \in Rows
              /\ \A d \in (Scans \cup Outs \cup Cancels) \ {c} : mine'[d] = mine[d]
    <2>1. CASE UNCHANGED mine /\ pc[c] \in RowSteps
      BY <2>1 DEF Frame, TypeOK
    <2>2. CASE \E r \in Rows, v \in Volunteers \cup {Nobody} :
                  /\ status[r] \in Busy
                  /\ mine' = [mine EXCEPT ![c] = [row |-> r, by |-> v, status |-> status[r]]]
      BY <2>2 DEF Frame, TypeOK
    <2>3. CASE ScanRead(c) \/ CancelRead(c) \/ OutRead(c)
      BY <2>2, <2>3 DEF Frame, TypeOK, Busy
    <2>4. QED  BY <2>1, <2>3 DEF RowSteps
  <1>5. attendance' \in [Rows -> [by : Volunteers \cup {Nobody}, state : {"NONE", "OPEN", "CLOSED"},
                                  closer : Outs \cup {Nothing}]]
    <2>1. CASE UNCHANGED attendance
      BY <2>1 DEF Frame, TypeOK
    <2>2. CASE c \in Scans /\ ScanRecord(c)
      BY <2>2 DEF Frame, TypeOK
    <2>3. CASE c \in Outs /\ (OutClose(c) \/ OutReopen(c))
      BY <2>3 DEF Frame, TypeOK
    <2>4. QED  BY <2>1, <2>2, <2>3
  <1>6. paid' \in [Rows -> Nat]
    BY DEF Frame, TypeOK
  <1>7. TypeOK'
    BY <1>1, <1>2, <1>3, <1>4, <1>5, <1>6 DEF Frame, TypeOK
  <1>8. RowRead'
    BY <1>2, <1>4 DEF Frame, RowRead, Calls
  <1>9. DealRead' /\ RingRead'
    BY <1>1, <1>2 DEF Frame, DealRead, RingRead, DealSteps, RowSteps, RingSteps, Calls
  <1>10. QED  BY <1>7, <1>8, <1>9 DEF Frame

LEMMA OfferType == ASSUME NEW p \in Proposals PROVE Offer(p) \in Offers
  BY ProposalAssumption DEF Offer, Offers

\* A ring found by a pass is about offers of pending proposals, finitely many.
LEMMA RingsFit ==
  ASSUME NEW shown, NEW stated \in Stated, NEW f \in Rings(shown, stated)
  PROVE  Fits(f)
  <1> DEFINE S == {Offer(p) : p \in Pending}
             image == [p \in Pending |-> Offer(p)]
  <1>1. DOMAIN stated = S
    BY DEF Stated
  <1>2. DOMAIN f \subseteq S
    BY <1>1 DEF Rings
  <1>3. IsFiniteSet(Pending)
    BY ProposalAssumption, FS_Subset DEF Pending
  <1>4. image \in Surjection(Pending, S)
    BY DEF Surjection
  <1>5. IsFiniteSet(S)
    BY <1>3, <1>4, FS_Surjection
  <1>6. S \subseteq Offers
    BY OfferType DEF Pending
  <1>7. DOMAIN f \subseteq Offers /\ IsFiniteSet(DOMAIN f)
    BY <1>2, <1>5, <1>6, FS_Subset
  <1>8. f \in [DOMAIN f -> DOMAIN f] /\ OneCycle(f)
    BY DEF Rings
  <1>9. \A o \in DOMAIN f : o[1] # f[o][1]
    BY DEF Rings, Edge
  <1>10. QED  BY <1>7, <1>8, <1>9 DEF Fits

\* Counting the volunteers of a ring shows whether one appears twice.
LEMMA CountedOnce ==
  ASSUME NEW f, Fits(f), Cardinality(Members(f)) = Cardinality(DOMAIN f)
  PROVE  OncePerVolunteer(f)
  <1> DEFINE name == [o \in DOMAIN f |-> o[1]]
  <1>1. name \in Surjection(DOMAIN f, Members(f))
    BY DEF Surjection, Members
  <1>2. name \in Injection(DOMAIN f, Members(f))
    BY <1>1, FS_Surjection DEF Fits
  <1>3. QED  BY <1>2 DEF Injection, IsInjective, OncePerVolunteer

LEMMA PassFrame ==
  ASSUME Frame, NEW x \in Passes, PassStep(x)
  PROVE  Frame'
  <1> USE DEF rowVars, payVars, Goto, PassStep, PassRead, PassNext, PassEnds, PassLegs,
          PassRefuses, PassRotates, PassAborts
  <1>1. /\ UNCHANGED <<status, payVars, deal, mine>>
        /\ pc' \in [Calls -> Steps]
        /\ pc'[x] \in RingSteps \cup {"next", "done"}
        /\ \A d \in Calls \ {x} : pc'[d] = pc[d]
    BY DEF Frame, TypeOK, Calls, Steps, RingSteps
  <1>2. RingRead'
    <2> USE DEF Frame, RingRead, RingSteps
    <2>1. CASE PassRead(x)
      <3>1. PICK shown \in Shown, stated \in Stated :
                rings' = [rings EXCEPT ![x] = Rings(shown, stated)]
        BY <2>1
      <3>2. \A f \in Rings(shown, stated) : Fits(f)
        BY RingsFit
      <3>3. QED  BY <1>1, <2>1, <3>1, <3>2 DEF Calls, passVars, TypeOK
    <2>2. CASE PassNext(x)
      <3>1. PICK f \in rings[x] :
                /\ rings' = [rings EXCEPT ![x] = @ \ {f}]
                /\ IF Members(f) \cap used[x] # {} \/ Cardinality(Members(f)) # Cardinality(DOMAIN f)
                   THEN UNCHANGED <<pc, ring>>
                   ELSE Goto(x, "legs") /\ ring' = [ring EXCEPT ![x] = f]
        BY <2>2
      <3>2. Fits(f)
        BY <3>1
      <3>3. CASE UNCHANGED <<pc, ring>>
        BY <3>1, <3>3
      <3>4. CASE Cardinality(Members(f)) = Cardinality(DOMAIN f) /\ Goto(x, "legs")
                   /\ ring' = [ring EXCEPT ![x] = f]
        <4>1. OncePerVolunteer(f)
          BY <3>2, <3>4, CountedOnce
        <4>2. QED  BY <1>1, <3>1, <3>2, <3>4, <4>1 DEF Calls
      <3>5. QED  BY <3>1, <3>3, <3>4
    <2>3. CASE ~PassRead(x) /\ ~PassNext(x)
      <3>1. UNCHANGED <<rings, ring>> /\ (pc'[x] \in RingSteps => pc[x] \in RingSteps)
        BY <2>3 DEF passVars, TypeOK, Calls
      <3>2. QED  BY <1>1, <3>1 DEF Calls
    <2>4. QED  BY <2>1, <2>2, <2>3
  <1>3. swap' \in [Proposals -> {"NONE", "PENDING", "EXECUTED", "FAILED"}]
    BY DEF Frame, TypeOK
  <1>4. holder' \in [Rows -> Volunteers]
    <2>1. CASE UNCHANGED holder
      BY <2>1 DEF Frame, TypeOK
    <2>2. CASE PassRotates(x)
      <3> DEFINE f == ring[x]
                 Given(o) == Holding(f[o][1], f[o][2])
      <3>1. \A o \in DOMAIN f : o[1] \in Volunteers
        BY <2>2 DEF Frame, RingRead, RingSteps, Fits, Offers
      <3>2. ASSUME NEW r \in Rows, \E o \in DOMAIN f : r \in Given(o)
            PROVE  (CHOOSE o \in DOMAIN f : r \in Given(o))[1] \in Volunteers
        BY <3>1, <3>2
      <3>3. QED  BY <2>2, <3>2 DEF Frame, TypeOK
    <2>3. QED  BY <2>1, <2>2
  <1>5. used' \in [Passes -> SUBSET Volunteers]
    <2>1. CASE UNCHANGED used
      BY <2>1 DEF Frame, TypeOK
    <2>2. CASE PassRefuses(x) \/ PassRotates(x)
      <3>1. Members(ring[x]) \subseteq Volunteers
        BY <2>2 DEF Frame, RingRead, RingSteps, Fits, Offers, Members
      <3>2. QED  BY <2>2, <3>1 DEF Frame, TypeOK
    <2>3. QED  BY <2>1, <2>2 DEF passVars
  <1>6. TypeOK'
    BY <1>1, <1>3, <1>4, <1>5 DEF Frame, TypeOK
  <1>7. DealRead' /\ RowRead'
    BY <1>1 DEF Frame, DealRead, RowRead, DealSteps, RowSteps, RingSteps, Calls
  <1>8. QED  BY <1>2, <1>6, <1>7 DEF Frame

LEMMA NextFrame == Frame /\ [Next]_vars => Frame'
  <1> SUFFICES ASSUME Frame, [Next]_vars PROVE Frame'
    OBVIOUS
  <1>1. CASE UNCHANGED vars
    BY <1>1 DEF Frame, TypeOK, DealRead, RowRead, RingRead, vars, rowVars, payVars, passVars
  <1>2. CASE \E p \in Proposals : ProposeCheck(p) \/ ProposeCreate(p)
    BY <1>2, ProposeFrame
  <1>3. CASE \E c \in Accepts : AcceptStep(c)
    BY <1>3, AcceptFrame
  <1>4. CASE \E x \in Passes : PassStep(x)
    BY <1>4, PassFrame
  <1>5. CASE \/ \E k \in Scans : ScanStep(k)
             \/ \E q \in Outs : OutStep(q)
             \/ \E c \in Cancels : CancelRead(c) \/ CancelClaim(c)
    BY <1>5, DeskFrame
  <1>6. QED  BY <1>1, <1>2, <1>3, <1>4, <1>5 DEF Next

LEMMA FrameInvariant == Spec => []Frame
  BY FrameInit, NextFrame, PTL DEF Spec

\* Every variable keeps its type.
THEOREM TypeCorrect == Spec => []TypeOK
  BY FrameInvariant, PTL DEF Frame

-----------------------------------------------------------------------------
(* Swaps.                                                                  *)

\* A proposal on record has been created, and is not created again.
CreatedOnce == \A p \in Proposals : swap[p] # "NONE" => pc[p] = "done"

LEMMA CreatedInit == Init => CreatedOnce
  BY DEF Init, CreatedOnce

\* No step but its creation moves a proposal that is not PENDING, and a call
\* that is done stays so.
LEMMA SwapSteps ==
  ASSUME Frame, CreatedOnce, [Next]_vars, NEW p \in Proposals
  PROVE  /\ pc[p] = "done" => pc'[p] = "done"
         /\ swap'[p] = swap[p] \/ swap[p] = "PENDING" \/ (swap[p] = "NONE" /\ pc'[p] = "done")
  <1> USE DEF Frame, TypeOK, Goto, Calls, rowVars, payVars, passVars
  <1>1. CASE UNCHANGED vars
    BY <1>1 DEF vars
  <1>2. CASE \E q \in Proposals : ProposeCheck(q) \/ ProposeCreate(q)
    BY <1>2 DEF ProposeCheck, ProposeCreate, CreatedOnce
  <1>3. CASE \E c \in Accepts : AcceptStep(c)
    <2>1. PICK c \in Accepts : AcceptStep(c)
      BY <1>3
    <2>2. pc[p] = "done" => pc'[p] = "done"
      BY <2>1 DEF AcceptStep, AcceptRead, AcceptRows, AcceptCheck, AcceptTrade, AcceptAborts,
                  AcceptFails
    <2>3. swap'[p] = swap[p] \/ swap[p] = "PENDING"
      BY <2>1 DEF AcceptStep, AcceptRead, AcceptRows, AcceptCheck, AcceptTrade, AcceptAborts,
                  AcceptFails, FailedIfPending
    <2>4. QED  BY <2>2, <2>3
  <1>4. CASE \E x \in Passes : PassStep(x)
    <2>1. PICK x \in Passes : PassStep(x)
      BY <1>4
    <2>2. pc[p] = "done" => pc'[p] = "done"
      BY <2>1 DEF PassStep, PassRead, PassNext, PassEnds, PassLegs, PassRefuses, PassRotates,
                  PassAborts
    <2>3. swap'[p] = swap[p] \/ swap[p] = "PENDING"
      <3>1. CASE PassRefuses(x)
        BY <3>1 DEF PassRefuses, Pending
      <3>2. CASE PassRotates(x)
        <4>1. PICK M \in SUBSET Pending :
                  swap' = [q \in Proposals |-> IF q \in M THEN "EXECUTED" ELSE swap[q]]
          BY <3>2 DEF PassRotates
        <4>2. QED  BY <4>1 DEF Pending
      <3>3. CASE ~PassRefuses(x) /\ ~PassRotates(x)
        BY <2>1, <3>3 DEF PassStep, PassRead, PassNext, PassEnds, PassLegs, PassAborts
      <3>4. QED  BY <3>1, <3>2, <3>3
    <2>4. QED  BY <2>2, <2>3
  <1>5. CASE \/ \E k \in Scans : ScanStep(k)
             \/ \E q \in Outs : OutStep(q)
             \/ \E c \in Cancels : CancelRead(c) \/ CancelClaim(c)
    BY <1>5 DEF ScanStep, OutStep, ScanRead, ScanClaim, ScanRecord, ScanRefused, OutRead,
                OutClose, OutComplete, OutReopen, OutPay, CancelRead, CancelClaim
  <1>6. QED  BY <1>1, <1>2, <1>3, <1>4, <1>5 DEF Next

\* A settled proposal is never settled again, whatever accepts and passes race.
THEOREM SettledHold == Spec => SettledSwapsStay
  <1>1. Frame /\ CreatedOnce /\ [Next]_vars => CreatedOnce'
    BY SwapSteps DEF CreatedOnce
  <1>2. Frame /\ CreatedOnce /\ [Next]_vars =>
          [\A p \in Proposals : swap[p] \in {"EXECUTED", "FAILED"} => swap'[p] = swap[p]]_vars
    BY SwapSteps
  <1>3. QED
    BY <1>1, <1>2, CreatedInit, FrameInvariant, PTL DEF Spec, SettledSwapsStay

-----------------------------------------------------------------------------
(* Rows.                                                                   *)

\* What any step does to a row: it hands on a confirmed one, or moves a live
\* one forward, never both.
LEMMA RowMoves ==
  ASSUME Frame, [Next]_vars, NEW r \in Rows
  PROVE  /\ holder'[r] # holder[r] => status[r] = "CONFIRMED" /\ UNCHANGED status
         /\ status'[r] # status[r] => /\ status[r] \in Busy
                                       /\ status'[r] \in {"CHECKED_IN", "COMPLETED", "CANCELLED"}
                                       /\ UNCHANGED holder
  <1> USE DEF Frame, TypeOK, rowVars, payVars, passVars
  <1>1. CASE UNCHANGED vars
    BY <1>1 DEF vars
  <1>2. CASE \E p \in Proposals : ProposeCheck(p) \/ ProposeCreate(p)
    BY <1>2 DEF ProposeCheck, ProposeCreate
  <1>3. CASE \E c \in Accepts : AcceptStep(c)
    BY <1>3 DEF AcceptStep, AcceptRead, AcceptRows, AcceptCheck, AcceptTrade, AcceptAborts,
                AcceptFails, StillHeld
  <1>4. CASE \E x \in Passes : PassStep(x)
    BY <1>4 DEF PassStep, PassRead, PassNext, PassEnds, PassLegs, PassRefuses, PassRotates,
                PassAborts, Holding
  <1>5. CASE \E k \in Scans : ScanStep(k)
    BY <1>5 DEF ScanStep, ScanRead, ScanClaim, ScanRecord, ScanRefused, MayCheckIn
  <1>6. CASE \E q \in Outs : OutStep(q)
    BY <1>6 DEF OutStep, OutRead, OutClose, OutComplete, OutReopen, OutPay, Busy
  <1>7. CASE \E c \in Cancels : CancelRead(c) \/ CancelClaim(c)
    BY <1>7 DEF CancelRead, CancelClaim, Busy, Active
  <1>8. QED  BY <1>1, <1>2, <1>3, <1>4, <1>5, <1>6, <1>7 DEF Next

\* A cancelled or completed row never changes status or hands again.
THEOREM TerminalRowsHold == Spec => TerminalRowsStay
  <1>1. Frame /\ [Next]_vars =>
          [\A r \in Rows : status[r] \in {"CANCELLED", "COMPLETED"} =>
              status'[r] = status[r] /\ holder'[r] = holder[r]]_vars
    BY RowMoves DEF Busy
  <1>2. QED  BY <1>1, FrameInvariant, PTL DEF Spec, TerminalRowsStay

\* Settled proposals and ended rows are final, whatever calls interleave.
THEOREM FinalHolds == Spec => FinalStays
  BY SettledHold, TerminalRowsHold DEF FinalStays

LEMMA OneRowInit == Init => OneRowPerShift
  BY RosterAssumption DEF Init, OneRowPerShift

\* The two rows of a bilateral swap are on different shifts, and the index has
\* seen that neither receiver has another row on the shift received.
LEMMA TradeKeepsOneRow ==
  ASSUME Frame, OneRowPerShift, NEW c \in Accepts, AcceptTrade(c)
  PROVE  OneRowPerShift'
  <1> DEFINE d == deal[c]
  <1> USE DEF AcceptTrade, OneRowPerShift, rowVars
  <1>1. CASE UNCHANGED holder
    BY <1>1
  <1>2. CASE holder' # holder
    <2>1. /\ d.swap \in Proposals /\ d.a \in Rows /\ d.b \in Rows
          /\ ShiftOf[d.a] # ShiftOf[d.b]
      BY ProposalAssumption DEF Frame, DealRead, DealSteps
    <2>2. /\ IndexAllows(d.by, d.a) /\ IndexAllows(By[d.swap], d.b)
          /\ holder' = [holder EXCEPT ![d.a] = d.by, ![d.b] = By[d.swap]]
          /\ UNCHANGED status
      BY <1>2
    <2>3. /\ holder'[d.a] = d.by /\ holder'[d.b] = By[d.swap]
          /\ \A r \in Rows \ {d.a, d.b} : holder'[r] = holder[r]
      BY <2>1, <2>2 DEF Frame, TypeOK
    <2>4. QED  BY <2>1, <2>2, <2>3 DEF IndexAllows
  <1>3. QED  BY <1>1, <1>2

\* A rotation gives each volunteer of the ring rows of one offer only, and the
\* index has seen that the receiver has no other row there.
LEMMA RotationKeepsOneRow ==
  ASSUME Frame, OneRowPerShift, NEW x \in Passes, PassRotates(x)
  PROVE  OneRowPerShift'
  <1> DEFINE f == ring[x]
             Given(o) == Holding(f[o][1], f[o][2])
             to(r) == CHOOSE o \in DOMAIN f : r \in Given(o)
             moved(r) == \E o \in DOMAIN f : r \in Given(o)
  <1>1. OncePerVolunteer(f)
    BY DEF PassRotates, Frame, RingRead, RingSteps
  <1>2. /\ \A o \in DOMAIN f : \A r \in Given(o) : IndexAllows(o[1], r)
        /\ UNCHANGED status
        /\ \A r \in Rows : holder'[r] = IF moved(r) THEN to(r)[1] ELSE holder[r]
    BY DEF PassRotates
  <1>3. \A r \in Rows : moved(r) => to(r) \in DOMAIN f /\ r \in Given(to(r))
    OBVIOUS
  <1> SUFFICES ASSUME NEW r \in Rows, NEW s \in Rows, r # s,
                      status[r] \in Active, status[s] \in Active,
                      holder'[r] = holder'[s], ShiftOf[r] = ShiftOf[s]
               PROVE  FALSE
    BY <1>2 DEF OneRowPerShift
  <1>4. CASE ~moved(r) /\ ~moved(s)
    BY <1>2, <1>4 DEF OneRowPerShift
  <1>5. CASE moved(r) /\ ~moved(s)
    <2>1. IndexAllows(to(r)[1], r) /\ holder[s] = to(r)[1]
      BY <1>2, <1>3, <1>5
    <2>2. QED  BY <2>1 DEF IndexAllows
  <1>6. CASE ~moved(r) /\ moved(s)
    <2>1. IndexAllows(to(s)[1], s) /\ holder[r] = to(s)[1]
      BY <1>2, <1>3, <1>6
    <2>2. QED  BY <2>1 DEF IndexAllows
  <1>7. CASE moved(r) /\ moved(s)
    <2>1. to(r)[1] = to(s)[1]
      BY <1>2, <1>7
    <2>2. to(r) = to(s)
      BY <1>1, <1>3, <1>7, <2>1 DEF OncePerVolunteer
    <2>3. r \in Given(to(r)) /\ s \in Given(to(r))
      BY <1>3, <1>7, <2>2
    <2>4. QED  BY <2>3 DEF Holding, OneRowPerShift
  <1>8. QED  BY <1>4, <1>5, <1>6, <1>7

\* Only a trade and a rotation move a row from hand to hand.
LEMMA HolderMoves ==
  ASSUME [Next]_vars
  PROVE  UNCHANGED holder \/ (\E c \in Accepts : AcceptTrade(c)) \/ (\E x \in Passes : PassRotates(x))
  BY DEF Next, vars, rowVars, ProposeCheck, ProposeCreate, AcceptStep, AcceptRead, AcceptRows,
         AcceptCheck, AcceptAborts, AcceptFails, PassStep, PassRead, PassNext, PassEnds,
         PassLegs, PassRefuses, PassAborts, ScanStep, ScanRead, ScanClaim, ScanRecord,
         ScanRefused, OutStep, OutRead, OutClose, OutComplete, OutReopen, OutPay,
         CancelRead, CancelClaim

LEMMA OneRowStep == Frame /\ OneRowPerShift /\ [Next]_vars => OneRowPerShift'
  <1> SUFFICES ASSUME Frame, OneRowPerShift, [Next]_vars PROVE OneRowPerShift'
    OBVIOUS
  <1>1. CASE UNCHANGED holder
    <2>1. \A r \in Rows : status'[r] \in Active => status[r] \in Active
      BY RowMoves DEF Busy, Active
    <2>2. QED  BY <1>1, <2>1 DEF OneRowPerShift
  <1>2. CASE \E c \in Accepts : AcceptTrade(c)
    BY <1>2, TradeKeepsOneRow
  <1>3. CASE \E x \in Passes : PassRotates(x)
    BY <1>3, RotationKeepsOneRow
  <1>4. QED  BY <1>1, <1>2, <1>3, HolderMoves

\* I2 under swaps, rotations, check-ins and cancellations: a volunteer never
\* holds two active rows of one shift.
THEOREM OneRowHolds == Spec => []OneRowPerShift
  BY OneRowInit, OneRowStep, FrameInvariant, PTL DEF Spec

-----------------------------------------------------------------------------
(* Trades balance.                                                         *)

Confirmed(v) == {r \in Rows : holder[r] = v /\ status[r] = "CONFIRMED"}

\* One thing out and another one in leaves the number of things.
LEMMA ExchangeKeepsCount ==
  ASSUME NEW S, IsFiniteSet(S), NEW x \in S, NEW y, y \notin S
  PROVE  Cardinality((S \ {x}) \cup {y}) = Cardinality(S)
  <1>1. IsFiniteSet(S \ {x}) /\ Cardinality(S \ {x}) = Cardinality(S) - 1
    BY FS_RemoveElement
  <1>2. Cardinality((S \ {x}) \cup {y}) = Cardinality(S \ {x}) + 1
    BY <1>1, FS_AddElement
  <1>3. QED  BY <1>1, <1>2, FS_CardinalityType

LEMMA ConfirmedFinite == ASSUME NEW v PROVE IsFiniteSet(Confirmed(v))
  BY RosterAssumption, FS_Subset DEF Confirmed

\* Both sides of a bilateral swap give the row the other one gets.
LEMMA TradeBalances ==
  ASSUME Frame, NEW c \in Accepts, AcceptTrade(c), holder' # holder, NEW v \in Volunteers
  PROVE  Cardinality(Confirmed(v)') = Cardinality(Confirmed(v))
  <1> DEFINE d == deal[c]
             p == By[d.swap]
  <1>1. /\ d.swap \in Proposals /\ d.a \in Rows /\ d.b \in Rows /\ d.a # d.b
    BY ProposalAssumption DEF AcceptTrade, Frame, DealRead, DealSteps
  <1>2. /\ StillHeld(d.a, p) /\ StillHeld(d.b, d.by)
        /\ holder' = [holder EXCEPT ![d.a] = d.by, ![d.b] = p]
        /\ status' = status
    BY DEF AcceptTrade
  <1>3. /\ holder'[d.a] = d.by /\ holder'[d.b] = p
        /\ \A r \in Rows \ {d.a, d.b} : holder'[r] = holder[r]
    BY <1>1, <1>2 DEF Frame, TypeOK
  <1>4. holder \in [Rows -> Volunteers] /\ holder' \in [Rows -> Volunteers]
    <2>1. d.by \in Volunteers /\ p \in Volunteers
      BY ProposalAssumption DEF AcceptTrade, Frame, DealRead, DealSteps
    <2>2. QED  BY <1>2, <2>1 DEF Frame, TypeOK
  <1>5. d.by # p
    <2>1. ASSUME d.by = p PROVE \A r \in Rows : holder'[r] = holder[r]
      BY <1>2, <1>3, <2>1 DEF StillHeld
    <2>2. QED  BY <1>4, <2>1
  <1>6. CASE v = p
    <2>1. d.a \in Confirmed(v) /\ d.b \notin Confirmed(v)
      BY <1>1, <1>2, <1>5, <1>6 DEF Confirmed, StillHeld
    <2>2. Confirmed(v)' = (Confirmed(v) \ {d.a}) \cup {d.b}
      BY <1>1, <1>2, <1>3, <1>5, <1>6 DEF Confirmed, StillHeld
    <2>3. QED  BY <2>1, <2>2, ConfirmedFinite, ExchangeKeepsCount
  <1>7. CASE v = d.by
    <2>1. d.b \in Confirmed(v) /\ d.a \notin Confirmed(v)
      BY <1>1, <1>2, <1>5, <1>7 DEF Confirmed, StillHeld
    <2>2. Confirmed(v)' = (Confirmed(v) \ {d.b}) \cup {d.a}
      BY <1>1, <1>2, <1>3, <1>5, <1>7 DEF Confirmed, StillHeld
    <2>3. QED  BY <2>1, <2>2, ConfirmedFinite, ExchangeKeepsCount
  <1>8. CASE v # p /\ v # d.by
    <2>1. Confirmed(v)' = Confirmed(v)
      BY <1>1, <1>2, <1>3, <1>8 DEF Confirmed, StillHeld
    <2>2. QED  BY <2>1
  <1>9. QED  BY <1>6, <1>7, <1>8

\* What every offer of a cycle passes on, some offer receives, and only one.
LEMMA CycleIsBijection ==
  ASSUME NEW f, Fits(f)
  PROVE  /\ \A t \in DOMAIN f : \E o \in DOMAIN f : f[o] = t
         /\ \A o, q \in DOMAIN f : f[o] = f[q] => o = q
  <1> DEFINE S == DOMAIN f
             T == {f[o] : o \in S}
  <1>1. f \in [S -> S] /\ IsFiniteSet(S)
    BY DEF Fits
  <1>2. CASE S = {}
    BY <1>2
  <1>3. CASE S # {}
    <2>1. T \in (SUBSET S) \ {{}} /\ \A o \in T : f[o] \in T
      BY <1>1, <1>3
    <2>2. T = S
      BY <2>1 DEF Fits, OneCycle
    <2>3. f \in Surjection(S, S)
      BY <1>1, <2>2 DEF Surjection
    <2>4. f \in Injection(S, S)
      BY <1>1, <2>3, FS_SurjSameCardinalityImpliesInj
    <2>5. QED  BY <2>2, <2>4 DEF Injection, IsInjective
  <1>4. QED  BY <1>2, <1>3

\* Each volunteer of a rotated ring gives one row and gets another.
LEMMA RotationBalances ==
  ASSUME Frame, OneRowPerShift, NEW x \in Passes, PassRotates(x), NEW v \in Volunteers
  PROVE  Cardinality(Confirmed(v)') = Cardinality(Confirmed(v))
  <1> DEFINE f == ring[x]
             Given(o) == Holding(f[o][1], f[o][2])
             to(r) == CHOOSE o \in DOMAIN f : r \in Given(o)
             moved(r) == \E o \in DOMAIN f : r \in Given(o)
             row(o) == CHOOSE r \in Rows : r \in Holding(o[1], o[2])
  <1>1. Fits(f) /\ OncePerVolunteer(f)
    BY DEF PassRotates, Frame, RingRead, RingSteps
  <1>2. \A o \in DOMAIN f : o \in Offers /\ f[o] \in DOMAIN f /\ o[1] # f[o][1]
    BY <1>1 DEF Fits
  <1>3. /\ LegsReady(f) /\ UNCHANGED status
        /\ \A r \in Rows : holder'[r] = IF moved(r) THEN to(r)[1] ELSE holder[r]
    BY DEF PassRotates
  <1>4. ASSUME NEW o \in DOMAIN f
        PROVE  row(o) \in Rows /\ Holding(o[1], o[2]) = {row(o)}
    <2>1. PICK r \in Rows : r \in Holding(o[1], o[2])
      BY <1>3 DEF LegsReady, Holding
    <2>2. \A s \in Holding(o[1], o[2]) : s = r
      BY <2>1 DEF Holding, OneRowPerShift, Active
    <2>3. Holding(o[1], o[2]) = {r}
      BY <2>1, <2>2
    <2>4. row(o) \in Rows /\ row(o) \in Holding(o[1], o[2])
      BY <2>1
    <2>5. QED  BY <2>3, <2>4
  <1>5. \A o \in DOMAIN f : /\ holder[row(o)] = o[1] /\ status[row(o)] = "CONFIRMED"
                            /\ ShiftOf[row(o)] = o[2]
    BY <1>4 DEF Holding
  <1> HIDE DEF row
  <1>6. \A o \in DOMAIN f : Given(o) = {row(f[o])}
    BY <1>2, <1>4
  <1>7. \A o, q \in DOMAIN f : row(o) = row(q) => o = q
    <2>1. \A o, q \in DOMAIN f : row(o) = row(q) => o[1] = q[1]
      BY <1>5
    <2>2. QED  BY <1>1, <2>1 DEF OncePerVolunteer
  <1>8. \A o \in DOMAIN f : holder'[row(f[o])] = o[1]
    <2>1. ASSUME NEW o \in DOMAIN f PROVE holder'[row(f[o])] = o[1]
      <3>1. row(f[o]) \in Rows /\ row(f[o]) \in Given(o)
        BY <1>2, <1>4, <1>6
      <3>2. \A q \in DOMAIN f : row(f[o]) \in Given(q) => q = o
        <4>1. ASSUME NEW q \in DOMAIN f, row(f[o]) \in Given(q) PROVE q = o
          <5>1. row(f[o]) = row(f[q])
            BY <1>6, <4>1
          <5>2. f[o] = f[q]
            BY <1>2, <1>7, <5>1
          <5>3. \A t, u \in DOMAIN f : f[t] = f[u] => t = u
            BY <1>1, CycleIsBijection
          <5>4. QED  BY <5>2, <5>3
        <4>2. QED  BY <4>1
      <3>3. to(row(f[o])) = o
        BY <3>1, <3>2
      <3>4. QED  BY <1>3, <3>1, <3>3
    <2>2. QED  BY <2>1
  <1>9. \A r \in Rows : (\A o \in DOMAIN f : r # row(f[o])) => holder'[r] = holder[r]
    BY <1>3, <1>6
  <1>10. \A t \in DOMAIN f : \E o \in DOMAIN f : f[o] = t
    BY <1>1, CycleIsBijection
  <1>11. CASE \E o \in DOMAIN f : o[1] = v
    <2>1. PICK o \in DOMAIN f : o[1] = v
      BY <1>11
    <2>2. row(o) \in Confirmed(v) /\ row(f[o]) \notin Confirmed(v)
      BY <1>2, <1>4, <1>5, <2>1 DEF Confirmed
    <2>3. ASSUME NEW r \in Rows, r \in Confirmed(v)' PROVE r \in (Confirmed(v) \ {row(o)}) \cup {row(f[o])}
      <3>1. CASE \E q \in DOMAIN f : r = row(f[q])
        <4>1. PICK q \in DOMAIN f : r = row(f[q])
          BY <3>1
        <4>2. q[1] = v
          BY <1>8, <2>3, <4>1 DEF Confirmed
        <4>3. QED  BY <1>1, <2>1, <4>1, <4>2 DEF OncePerVolunteer
      <3>2. CASE \A q \in DOMAIN f : r # row(f[q])
        <4>1. r # row(o)
          BY <1>10, <3>2
        <4>2. QED  BY <1>3, <1>9, <2>3, <3>2, <4>1 DEF Confirmed
      <3>3. QED  BY <3>1, <3>2
    <2>4. ASSUME NEW r \in Confirmed(v) \ {row(o)} PROVE r \in Confirmed(v)'
      <3>1. \A q \in DOMAIN f : r # row(f[q])
        <4>1. ASSUME NEW q \in DOMAIN f, r = row(f[q]) PROVE FALSE
          <5>1. f[q][1] = v
            BY <1>2, <1>5, <4>1 DEF Confirmed
          <5>2. f[q] = o
            BY <1>1, <1>2, <2>1, <5>1 DEF OncePerVolunteer
          <5>3. QED  BY <4>1, <5>2
        <4>2. QED  BY <4>1
      <3>2. QED  BY <1>3, <1>9, <3>1 DEF Confirmed
    <2>5. row(f[o]) \in Confirmed(v)'
      BY <1>2, <1>3, <1>4, <1>5, <1>8, <2>1 DEF Confirmed
    <2>6. Confirmed(v)' \subseteq Rows
      BY DEF Confirmed
    <2>7. Confirmed(v)' = (Confirmed(v) \ {row(o)}) \cup {row(f[o])}
      BY <2>3, <2>4, <2>5, <2>6
    <2>8. QED  BY <2>2, <2>7, ConfirmedFinite, ExchangeKeepsCount
  <1>12. CASE \A o \in DOMAIN f : o[1] # v
    <2>1. ASSUME NEW r \in Rows PROVE holder'[r] = v <=> holder[r] = v
      BY <1>2, <1>5, <1>8, <1>9, <1>12
    <2>2. Confirmed(v)' = Confirmed(v)
      BY <1>3, <2>1 DEF Confirmed
    <2>3. QED  BY <2>2
  <1>13. QED  BY <1>11, <1>12

\* A swap or a rotation is applied whole: no volunteer ends it with more or
\* fewer confirmed rows (the transactions of swap.service).
THEOREM TradesKeepBalance == Spec => TradesBalance
  <1>1. ASSUME Frame, OneRowPerShift, [Next]_vars, holder' # holder, NEW v \in Volunteers
        PROVE  Cardinality(Confirmed(v)') = Cardinality(Confirmed(v))
    BY <1>1, HolderMoves, TradeBalances, RotationBalances
  <1>2. Frame /\ OneRowPerShift /\ [Next]_vars =>
          [holder' # holder =>
             \A v \in Volunteers :
                Cardinality({r \in Rows : holder'[r] = v /\ status'[r] = "CONFIRMED"})
                  = Cardinality({r \in Rows : holder[r] = v /\ status[r] = "CONFIRMED"})]_vars
    BY <1>1 DEF Confirmed
  <1>3. QED  BY <1>2, OneRowHolds, FrameInvariant, PTL DEF Spec, TradesBalance

-----------------------------------------------------------------------------
(* Attendance and pay.                                                     *)

\* The check-out that closed a document is the one it names; until it is done
\* nothing has been paid.  A stranded close or a double payment would need a
\* second closer.
CloserActs ==
    \A q \in Outs : pc[q] \in {"complete", "reopen", "pay"} =>
        /\ attendance[mine[q].row].state = "CLOSED"
        /\ attendance[mine[q].row].closer = q
        /\ paid[mine[q].row] = 0
        /\ pc[q] = "pay" => status[mine[q].row] = "COMPLETED"

CloserKnown ==
    \A r \in Rows : attendance[r].state = "CLOSED" =>
        \/ status[r] = "COMPLETED"
        \/ /\ attendance[r].closer \in Outs
           /\ pc[attendance[r].closer] \in {"complete", "reopen"}
           /\ mine[attendance[r].closer].row = r

DeskInv == CloserActs /\ CloserKnown /\ PaidOnceWorked

LEMMA DeskInit == Init => DeskInv
  BY DEF Init, DeskInv, CloserActs, CloserKnown, PaidOnceWorked, NoCheckIn, Calls

PaySteps == {"complete", "reopen", "pay"}

\* A step that leaves the documents and the check-outs past their close alone.
LEMMA DeskAside ==
  ASSUME Frame, DeskInv, [Next]_vars, UNCHANGED <<attendance, paid>>,
         \A q \in Outs : pc[q] \in PaySteps \/ pc'[q] \in PaySteps =>
             pc'[q] = pc[q] /\ mine'[q] = mine[q]
  PROVE  DeskInv'
  <1>1. \A r \in Rows : status[r] = "COMPLETED" => status'[r] = "COMPLETED"
    BY RowMoves DEF Busy
  <1>2. \A q \in Outs : pc[q] \in PaySteps => mine[q].row \in Rows
    BY DEF Frame, RowRead, RowSteps, PaySteps
  <1>3. CloserActs' /\ CloserKnown' /\ PaidOnceWorked'
    BY <1>1, <1>2 DEF DeskInv, CloserActs, CloserKnown, PaidOnceWorked, PaySteps
  <1>4. QED  BY <1>3 DEF DeskInv

LEMMA OutDesk ==
  ASSUME Frame, DeskInv, NEW q \in Outs, OutStep(q), [Next]_vars
  PROVE  DeskInv'
  <1> DEFINE r == mine[q].row
  <1> USE DEF Frame, TypeOK, Goto, Calls
  <1>1. CASE OutRead(q)
    BY <1>1, DeskAside DEF OutRead, PaySteps, payVars
  <1>2. \A s \in Outs \ {q} : pc'[s] = pc[s] /\ mine'[s] = mine[s]
    BY DEF OutStep, OutRead, OutClose, OutComplete, OutReopen, OutPay
  <1>3. ~OutRead(q) => r \in Rows /\ UNCHANGED mine
    BY DEF OutStep, OutClose, OutComplete, OutReopen, OutPay, RowRead, RowSteps
  <1>4. CASE OutClose(q)
    <2>1. CASE IsOpen(r)
      <3>1. /\ attendance'[r].state = "CLOSED" /\ attendance'[r].closer = q
            /\ \A s \in Rows \ {r} : attendance'[s] = attendance[s]
            /\ pc'[q] = "complete" /\ UNCHANGED <<status, paid, mine>>
        BY <1>3, <1>4, <2>1 DEF OutClose, rowVars, payVars, OutRead
      <3>2. attendance[r].state = "OPEN" /\ paid[r] = 0 /\ pc[q] = "close" /\ r \in Rows
        BY <1>3, <1>4, <2>1 DEF OutClose, OutRead, IsOpen, DeskInv, PaidOnceWorked
      <3>3. \A s \in Outs : pc[s] \in PaySteps => mine[s].row \in Rows \ {r}
        BY <3>2 DEF PaySteps, DeskInv, CloserActs, RowRead, RowSteps
      <3>4. CloserActs'
        BY <1>2, <3>1, <3>2, <3>3 DEF DeskInv, CloserActs, PaySteps
      <3>5. CloserKnown'
        BY <1>2, <3>1, <3>2 DEF DeskInv, CloserKnown
      <3>6. PaidOnceWorked'
        BY <3>1, <3>2 DEF DeskInv, PaidOnceWorked
      <3>7. QED  BY <3>4, <3>5, <3>6 DEF DeskInv
    <2>2. CASE ~IsOpen(r)
      BY <1>2, <1>4, <2>2, DeskAside DEF OutClose, PaySteps, rowVars, payVars
    <2>3. QED  BY <2>1, <2>2
  <1>5. CASE OutComplete(q)
    <2>1. /\ attendance[r].state = "CLOSED" /\ attendance[r].closer = q /\ paid[r] = 0
          /\ UNCHANGED <<attendance, paid, mine>> /\ r \in Rows /\ pc[q] = "complete"
      BY <1>3, <1>5 DEF OutComplete, OutRead, payVars, DeskInv, CloserActs
    <2>2. /\ \A s \in Rows \ {r} : status'[s] = status[s]
          /\ \/ pc'[q] = "pay" /\ status'[r] = "COMPLETED"
             \/ pc'[q] = "reopen" /\ UNCHANGED status
      BY <1>5, <2>1 DEF OutComplete, OnLostRow
    <2>3. CloserActs'
      BY <1>2, <2>1, <2>2 DEF DeskInv, CloserActs, RowRead, RowSteps
    <2>4. CloserKnown'
      BY <1>2, <2>1, <2>2 DEF DeskInv, CloserKnown
    <2>5. PaidOnceWorked'
      BY <2>1, <2>2 DEF DeskInv, PaidOnceWorked
    <2>6. QED  BY <2>3, <2>4, <2>5 DEF DeskInv
  <1>6. CASE OutReopen(q)
    <2>1. /\ attendance[r].state = "CLOSED" /\ attendance[r].closer = q /\ paid[r] = 0
          /\ UNCHANGED <<status, paid, mine>> /\ r \in Rows /\ pc[q] = "reopen" /\ pc'[q] = "done"
      BY <1>3, <1>6 DEF OutReopen, OutRead, rowVars, DeskInv, CloserActs
    <2>2. /\ attendance'[r].state = "OPEN"
          /\ \A s \in Rows \ {r} : attendance'[s] = attendance[s]
      BY <1>6, <2>1 DEF OutReopen
    <2>3. \A s \in Outs \ {q} : pc[s] \in PaySteps => mine[s].row \in Rows \ {r}
      BY <2>1 DEF PaySteps, DeskInv, CloserActs, RowRead, RowSteps
    <2>4. CloserActs'
      BY <1>2, <2>1, <2>2, <2>3 DEF DeskInv, CloserActs, PaySteps
    <2>5. CloserKnown'
      BY <1>2, <2>1, <2>2 DEF DeskInv, CloserKnown
    <2>6. PaidOnceWorked'
      BY <2>1, <2>2 DEF DeskInv, PaidOnceWorked
    <2>7. QED  BY <2>4, <2>5, <2>6 DEF DeskInv
  <1>7. CASE OutPay(q)
    <2>1. /\ attendance[r].state = "CLOSED" /\ attendance[r].closer = q /\ paid[r] = 0
          /\ status[r] = "COMPLETED" /\ UNCHANGED <<status, attendance, mine>> /\ r \in Rows
          /\ pc[q] = "pay" /\ pc'[q] = "done"
      BY <1>3, <1>7 DEF OutPay, OutRead, rowVars, DeskInv, CloserActs
    <2>2. paid'[r] = 1 /\ \A s \in Rows \ {r} : paid'[s] = paid[s]
      BY <1>7, <2>1 DEF OutPay
    <2>3. \A s \in Outs \ {q} : pc[s] \in PaySteps => mine[s].row \in Rows \ {r}
      BY <2>1 DEF PaySteps, DeskInv, CloserActs, RowRead, RowSteps
    <2>4. CloserActs'
      BY <1>2, <2>1, <2>2, <2>3 DEF DeskInv, CloserActs, PaySteps
    <2>5. CloserKnown'
      BY <1>2, <2>1 DEF DeskInv, CloserKnown
    <2>6. PaidOnceWorked'
      BY <2>1, <2>2 DEF DeskInv, PaidOnceWorked
    <2>7. QED  BY <2>4, <2>5, <2>6 DEF DeskInv
  <1>8. QED  BY <1>1, <1>4, <1>5, <1>6, <1>7 DEF OutStep

\* A scan writes a document only where there is none, or touches none.
LEMMA ScanDesk ==
  ASSUME Frame, DeskInv, NEW k \in Scans, ScanStep(k), [Next]_vars
  PROVE  DeskInv'
  <1> DEFINE r == mine[k].row
  <1> USE DEF Frame, TypeOK, Goto, Calls
  <1>1. \A q \in Outs : pc[q] \in PaySteps \/ pc'[q] \in PaySteps =>
            pc'[q] = pc[q] /\ mine'[q] = mine[q]
    BY DEF ScanStep, ScanRead, ScanClaim, ScanRecord, ScanRefused, PaySteps
  <1>2. CASE UNCHANGED attendance
    <2>1. UNCHANGED paid
      BY DEF ScanStep, ScanRead, ScanClaim, ScanRecord, ScanRefused, payVars
    <2>2. QED  BY <1>1, <1>2, <2>1, DeskAside
  <1>3. CASE attendance' # attendance
    <2>1. ScanRecord(k) /\ attendance[r] = NoCheckIn /\ r \in Rows
      BY <1>3 DEF ScanStep, ScanRead, ScanClaim, ScanRecord, ScanRefused, payVars,
                  RowRead, RowSteps
    <2>2. /\ attendance[r].state = "NONE" /\ attendance'[r].state = "OPEN"
          /\ \A s \in Rows \ {r} : attendance'[s] = attendance[s]
          /\ UNCHANGED <<status, paid, mine>>
      BY <2>1 DEF ScanRecord, NoCheckIn
    <2>3. \A q \in Outs : pc[q] \in PaySteps => mine[q].row \in Rows \ {r}
      BY <2>2 DEF PaySteps, DeskInv, CloserActs, RowRead, RowSteps
    <2>4. CloserActs'
      BY <1>1, <2>1, <2>2, <2>3 DEF DeskInv, CloserActs, PaySteps
    <2>5. CloserKnown'
      BY <1>1, <2>1, <2>2 DEF DeskInv, CloserKnown, PaySteps
    <2>6. PaidOnceWorked'
      BY <2>1, <2>2 DEF DeskInv, PaidOnceWorked
    <2>7. QED  BY <2>4, <2>5, <2>6 DEF DeskInv
  <1>4. QED  BY <1>2, <1>3

LEMMA DeskStep == Frame /\ DeskInv /\ [Next]_vars => DeskInv'
  <1> SUFFICES ASSUME Frame, DeskInv, [Next]_vars PROVE DeskInv'
    OBVIOUS
  <1>1. CASE \E q \in Outs : OutStep(q)
    BY <1>1, OutDesk
  <1>2. CASE \E k \in Scans : ScanStep(k)
    BY <1>2, ScanDesk
  <1>3. CASE \/ UNCHANGED vars
             \/ \E p \in Proposals : ProposeCheck(p) \/ ProposeCreate(p)
             \/ \E c \in Accepts : AcceptStep(c)
             \/ \E x \in Passes : PassStep(x)
             \/ \E c \in Cancels : CancelRead(c) \/ CancelClaim(c)
    <2>1. UNCHANGED <<attendance, paid>>
      BY <1>3 DEF vars, payVars, ProposeCheck, ProposeCreate, AcceptStep, AcceptRead, AcceptRows,
             AcceptCheck, AcceptTrade, AcceptAborts, AcceptFails, PassStep, PassRead, PassNext,
             PassEnds, PassLegs, PassRefuses, PassRotates, PassAborts, CancelRead, CancelClaim
    <2>2. ASSUME NEW q \in Outs, pc[q] \in PaySteps \/ pc'[q] \in PaySteps
          PROVE  pc'[q] = pc[q] /\ mine'[q] = mine[q]
      <3> USE <2>2 DEF PaySteps, Frame, TypeOK, Goto, Calls
      <3>1. CASE UNCHANGED vars \/ \E p \in Proposals : ProposeCheck(p) \/ ProposeCreate(p)
        BY <3>1 DEF vars, ProposeCheck, ProposeCreate
      <3>2. CASE \E c \in Accepts : AcceptStep(c)
        BY <3>2 DEF AcceptStep, AcceptRead, AcceptRows, AcceptCheck, AcceptTrade, AcceptAborts,
                    AcceptFails
      <3>3. CASE \E x \in Passes : PassStep(x)
        BY <3>3 DEF PassStep, PassRead, PassNext, PassEnds, PassLegs, PassRefuses, PassRotates,
                    PassAborts
      <3>4. CASE \E c \in Cancels : CancelRead(c) \/ CancelClaim(c)
        BY <3>4 DEF CancelRead, CancelClaim
      <3>5. QED  BY <1>3, <3>1, <3>2, <3>3, <3>4
    <2>3. QED  BY <2>1, <2>2, DeskAside
  <1>4. QED  BY <1>1, <1>2, <1>3 DEF Next

\* A shift is paid at most once, and only with its row completed and its
\* attendance closed.
THEOREM PaidOnce == Spec => []PaidOnceWorked
  BY DeskInit, DeskStep, FrameInvariant, PTL DEF Spec, DeskInv

\* A closed attendance always has a completed row or a check-out still at work.
THEOREM ClosedIsNeverStranded == Spec => []ClosedIsSettled
  <1>1. CloserKnown => ClosedIsSettled
    BY DEF CloserKnown, ClosedIsSettled
  <1>2. QED  BY <1>1, DeskInit, DeskStep, FrameInvariant, PTL DEF Spec, DeskInv
=============================================================================
