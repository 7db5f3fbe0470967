------------------------------- MODULE Roster -------------------------------
(***************************************************************************)
(* Who holds a seated registration, and what may happen to it: it changes  *)
(* hands in a swap or a rotation, is cancelled, checked in, checked out    *)
(* and paid.  swap.service, checkin.service and cancelRegistration write   *)
(* the same rows, each in several round trips, under no common lock.       *)
(*                                                                         *)
(* Only seated rows are here; the counters and the queue their             *)
(* cancellation touches next are in SeatLedger.  A refusal that writes     *)
(* nothing (bad token, outside the geofence) is a call that does not start.*)
(* Nothing forces a next step, so a crash is a call that takes none.       *)
(***************************************************************************)
EXTENDS Integers, FiniteSets

CONSTANTS
    Rows, Shifts, Volunteers,
    ShiftOf, HolderOf,  \* the shift of each row, and who holds it at first
    Clash,              \* pairs of shifts one volunteer may not both work
    Proposals,          \* swap proposals that may be created
    By, Give, Want,     \* proposer, proposerShiftId, targetShiftId
    Desired,            \* desiredShiftIds
    Named,              \* targetVolunteerId, or Anyone
    Accepts, Passes,    \* acceptBilateralSwap and discoverAndResolveCycles calls
    Scans, Outs, Cancels  \* verifyAndCheckIn, checkOut, cancelRegistration calls

Anyone == "anyone"
Nobody == "nobody"
Nothing == "nothing"

Calls == Accepts \cup Passes \cup Scans \cup Outs \cup Cancels \cup Proposals

ASSUME RosterAssumption ==
    /\ IsFiniteSet(Rows)
    /\ ShiftOf \in [Rows -> Shifts] /\ HolderOf \in [Rows -> Volunteers]
    /\ \A r, s \in Rows : ShiftOf[r] = ShiftOf[s] /\ HolderOf[r] = HolderOf[s] => r = s
    /\ Nobody \notin Volunteers /\ Anyone \notin Volunteers
    /\ Nothing \notin Rows \cup Outs

ASSUME ProposalAssumption ==
    /\ IsFiniteSet(Proposals)
    /\ \A p \in Proposals :
        /\ By[p] \in Volunteers /\ Give[p] \in Shifts /\ Want[p] \in Shifts \ {Give[p]}
        /\ Desired[p] \subseteq Shifts
        /\ Named[p] \in (Volunteers \ {By[p]}) \cup {Anyone}

VARIABLES
    holder, status,   \* per row: volunteerId and status
    swap,             \* per proposal: its status
    attendance,       \* per row: the CheckIn document
    paid,             \* per row: check-out payments made
    pc,               \* per call
    deal,             \* per accept: the proposal, the acceptor, the two rows read
    rings, ring, used, \* per pass: rings to try, the ring in hand, consumedVolunteers
    mine              \* per scan, check-out and cancel: the row as read

rowVars == <<holder, status>>
payVars == <<attendance, paid>>
passVars == <<rings, ring, used>>
vars == <<rowVars, swap, payVars, pc, deal, passVars, mine>>

Active == {"CONFIRMED", "CHECKED_IN", "COMPLETED"}
Busy == {"CONFIRMED", "CHECKED_IN"}

Goto(c, step) == pc' = [pc EXCEPT ![c] = step]

NoCheckIn == [by |-> Nobody, state |-> "NONE", closer |-> Nothing]
NoDeal == [swap |-> Nothing, by |-> Nobody, a |-> Nothing, b |-> Nothing]
NoRow == [row |-> Nothing, by |-> Nobody, status |-> "NONE"]

Init ==
    /\ holder = HolderOf
    /\ status = [r \in Rows |-> "CONFIRMED"]
    /\ swap = [p \in Proposals |-> "NONE"]
    /\ attendance = [r \in Rows |-> NoCheckIn]
    /\ paid = [r \in Rows |-> 0]
    /\ pc = [c \in Calls |-> "idle"]
    /\ deal = [c \in Accepts |-> NoDeal]
    /\ rings = [x \in Passes |-> {}] /\ ring = [x \in Passes |-> <<>>]
    /\ used = [x \in Passes |-> {}]
    /\ mine = [c \in Scans \cup Outs \cup Cancels |-> NoRow]

-----------------------------------------------------------------------------
(* What a handler reads.                                                   *)

Holding(v, s) == {r \in Rows : holder[r] = v /\ ShiftOf[r] = s /\ status[r] = "CONFIRMED"}

\* assertNoScheduleConflicts for v taking on s while giving up shift g.
Conflicts(v, s, g) ==
    \E r \in Rows : /\ holder[r] = v /\ status[r] \in Busy /\ ShiftOf[r] # g
                    /\ ShiftOf[r] = s \/ <<ShiftOf[r], s>> \in Clash

\* Mutant: no index.
AlwaysAllows(v, r) == TRUE

\* The partial unique index: v may not get row r if another of v's rows is on
\* its shift.
IndexAllows(v, r) ==
    ~\E o \in Rows \ {r} : holder[o] = v /\ ShiftOf[o] = ShiftOf[r] /\ status[o] \in Active

-----------------------------------------------------------------------------
(* createSwapRequest                                                       *)

ProposeCheck(p) ==
    /\ pc[p] = "idle"
    /\ ~\E q \in Proposals : /\ swap[q] = "PENDING"
                             /\ <<By[q], Give[q], Want[q]>> = <<By[p], Give[p], Want[p]>>
    /\ Holding(By[p], Give[p]) # {}
    /\ Named[p] # Anyone => Holding(Named[p], Want[p]) # {}
    /\ Goto(p, "create")
    /\ UNCHANGED <<rowVars, swap, payVars, deal, passVars, mine>>

ProposeCreate(p) ==
    /\ pc[p] = "create"
    /\ swap' = [swap EXCEPT ![p] = "PENDING"]
    /\ Goto(p, "done")
    /\ UNCHANGED <<rowVars, payVars, deal, passVars, mine>>

-----------------------------------------------------------------------------
(* acceptBilateralSwap                                                     *)

AcceptRead(c) ==
    /\ pc[c] = "idle"
    /\ \E p \in Proposals, v \in Volunteers :
        /\ swap[p] = "PENDING"
        /\ Named[p] \in {v, Anyone} /\ v # By[p]
        /\ deal' = [deal EXCEPT ![c] = [swap |-> p, by |-> v, a |-> Nothing, b |-> Nothing]]
    /\ Goto(c, "rows")
    /\ UNCHANGED <<rowVars, swap, payVars, passVars, mine>>

AcceptRows(c) ==
    LET p == deal[c].swap IN
    /\ pc[c] = "rows"
    /\ \/ \E a \in Holding(By[p], Give[p]), b \in Holding(deal[c].by, Want[p]) :
            /\ deal' = [deal EXCEPT ![c] = [swap |-> p, by |-> deal[c].by, a |-> a, b |-> b]]
            /\ Goto(c, "check")
       \/ /\ Holding(By[p], Give[p]) = {} \/ Holding(deal[c].by, Want[p]) = {}
          /\ Goto(c, "fail")
          /\ UNCHANGED deal
    /\ UNCHANGED <<rowVars, swap, payVars, passVars, mine>>

\* Certifications and both schedules; a refusal leaves the proposal PENDING.
AcceptCheck(c) ==
    LET p == deal[c].swap IN
    /\ pc[c] = "check"
    /\ IF Conflicts(By[p], Want[p], Give[p]) \/ Conflicts(deal[c].by, Give[p], Want[p])
       THEN Goto(c, "done")
       ELSE \E next \in {"trade", "done"} : Goto(c, next)
    /\ UNCHANGED <<rowVars, swap, payVars, deal, passVars, mine>>

StillHeld(r, v) == holder[r] = v /\ status[r] = "CONFIRMED"

\* The transaction: three guarded writes, all or nothing.
AcceptTrade(c) ==
    LET d == deal[c]
        p == d.swap IN
    /\ pc[c] = "trade"
    /\ IF StillHeld(d.a, By[p]) /\ StillHeld(d.b, d.by) /\ swap[p] = "PENDING"
       THEN /\ IndexAllows(d.by, d.a) /\ IndexAllows(By[p], d.b)
            /\ holder' = [holder EXCEPT ![d.a] = d.by, ![d.b] = By[p]]
            /\ swap' = [swap EXCEPT ![p] = "EXECUTED"]
       ELSE UNCHANGED <<holder, swap>>
    /\ Goto(c, "done")
    /\ UNCHANGED <<status, payVars, deal, passVars, mine>>

\* The store aborts it: a duplicate key or a write conflict.
AcceptAborts(c) ==
    /\ pc[c] = "trade"
    /\ Goto(c, "fail")
    /\ UNCHANGED <<rowVars, swap, payVars, deal, passVars, mine>>

\* failIfStillPending.  Mutant: the save of a document read long ago.
FailedAnyway(p) == [swap EXCEPT ![p] = "FAILED"]
FailedIfPending(p) == IF swap[p] = "PENDING" THEN [swap EXCEPT ![p] = "FAILED"] ELSE swap

AcceptFails(c) ==
    /\ pc[c] = "fail"
    /\ swap' = FailedIfPending(deal[c].swap)
    /\ Goto(c, "done")
    /\ UNCHANGED <<rowVars, payVars, deal, passVars, mine>>

-----------------------------------------------------------------------------
(* discoverAndResolveCycles.  A node is an offer <<volunteer, shift>>; a    *)
(* ring maps each of its offers to the offer whose shift it receives.      *)

Offer(p) == <<By[p], Give[p]>>
Pending == {p \in Proposals : swap[p] = "PENDING"}

\* buildAdjacencyList: of several proposals for one shift the last read shows
\* it, and of several for one offer the last read states its wants.
Shown == [{Give[p] : p \in Pending} -> {Offer(p) : p \in Pending}]
Stated == [{Offer(p) : p \in Pending} -> Pending]

Edge(shown, stated, o, t) ==
    /\ t[2] \in Desired[stated[o]]
    /\ shown[t[2]] = t
    /\ o[1] # t[1]

OneCycle(f) ==
    \A T \in (SUBSET DOMAIN f) \ {{}} : (\A o \in T : f[o] \in T) => T = DOMAIN f

\* CyclicTradeFinder.findCycles(adj, 2, 4).
Rings(shown, stated) ==
    {f \in UNION {[S -> S] : S \in {T \in SUBSET DOMAIN stated : Cardinality(T) \in 2..4}} :
        OneCycle(f) /\ \A o \in DOMAIN f : Edge(shown, stated, o, f[o])}

PassRead(x) ==
    /\ pc[x] = "idle"
    /\ Cardinality(Pending) >= 2
    /\ \E shown \in Shown, stated \in Stated :
        /\ \A s \in DOMAIN shown : shown[s][2] = s
        /\ \A o \in DOMAIN stated : Offer(stated[o]) = o
        /\ rings' = [rings EXCEPT ![x] = Rings(shown, stated)]
    /\ Goto(x, "next")
    /\ UNCHANGED <<rowVars, swap, payVars, deal, ring, used, mine>>

Members(f) == {o[1] : o \in DOMAIN f}

\* The shortest ring left; one with a volunteer twice, or with a volunteer
\* already rotated in this pass, is skipped.
PassNext(x) ==
    /\ pc[x] = "next"
    /\ \E f \in rings[x] :
        /\ \A g \in rings[x] : Cardinality(DOMAIN f) <= Cardinality(DOMAIN g)
        /\ rings' = [rings EXCEPT ![x] = @ \ {f}]
        /\ IF Members(f) \cap used[x] # {} \/ Cardinality(Members(f)) # Cardinality(DOMAIN f)
           THEN UNCHANGED <<pc, ring>>
           ELSE Goto(x, "legs") /\ ring' = [ring EXCEPT ![x] = f]
    /\ UNCHANGED <<rowVars, swap, payVars, deal, used, mine>>

PassEnds(x) ==
    /\ pc[x] = "next" /\ rings[x] = {}
    /\ Goto(x, "done")
    /\ UNCHANGED <<rowVars, swap, payVars, deal, passVars, mine>>

\* Each receiver's schedule without the shift it gives up, and certifications.
PassLegs(x) ==
    LET f == ring[x] IN
    /\ pc[x] = "legs"
    /\ IF \E o \in DOMAIN f : Conflicts(o[1], f[o][2], o[2])
       THEN Goto(x, "refuse")
       ELSE \E next \in {"rotate", "refuse"} : Goto(x, next)
    /\ UNCHANGED <<rowVars, swap, payVars, deal, passVars, mine>>

\* One bad leg fails every pending proposal behind the ring.
PassRefuses(x) ==
    /\ pc[x] = "refuse"
    /\ swap' = [p \in Proposals |-> IF p \in Pending /\ Offer(p) \in DOMAIN ring[x]
                                    THEN "FAILED" ELSE swap[p]]
    /\ used' = [used EXCEPT ![x] = @ \cup Members(ring[x])]
    /\ Goto(x, "next")
    /\ UNCHANGED <<rowVars, payVars, deal, rings, ring, mine>>

\* Mutant: a leg whose registration is gone is passed over.
LegsPresent(f) == \E o \in DOMAIN f : Holding(o[1], o[2]) # {}
LegsReady(f) == \A o \in DOMAIN f : Holding(o[1], o[2]) # {}

\* The transaction: every leg moves, and per offer one pending proposal, if
\* there still is one, is marked.
PassRotates(x) ==
    LET f == ring[x]
        Given(o) == Holding(f[o][1], f[o][2])
        Marked(o) == {p \in Pending : Offer(p) = o} IN
    /\ pc[x] = "rotate"
    /\ LegsReady(f)
    /\ \A o \in DOMAIN f : \A r \in Given(o) : IndexAllows(o[1], r)
    /\ holder' = [r \in Rows |-> IF \E o \in DOMAIN f : r \in Given(o)
                                 THEN (CHOOSE o \in DOMAIN f : r \in Given(o))[1]
                                 ELSE holder[r]]
    /\ \E M \in SUBSET Pending :
        /\ \A p \in M : Offer(p) \in DOMAIN f
        /\ \A o \in DOMAIN f : Marked(o) # {} => Cardinality(M \cap Marked(o)) = 1
        /\ swap' = [p \in Proposals |-> IF p \in M THEN "EXECUTED" ELSE swap[p]]
    /\ used' = [used EXCEPT ![x] = @ \cup Members(f)]
    /\ Goto(x, "next")
    /\ UNCHANGED <<status, payVars, deal, rings, ring, mine>>

\* A leg is missing or the store aborts: logged, nobody is consumed.
PassAborts(x) ==
    /\ pc[x] = "rotate"
    /\ Goto(x, "next")
    /\ UNCHANGED <<rowVars, swap, payVars, deal, passVars, mine>>

-----------------------------------------------------------------------------
(* verifyAndCheckIn                                                        *)

\* The token names a volunteer and a shift; the row is the one they hold now.
ScanRead(k) ==
    /\ pc[k] = "idle"
    /\ \E r \in Rows :
        /\ status[r] \in Busy
        /\ mine' = [mine EXCEPT ![k] = [row |-> r, by |-> holder[r], status |-> status[r]]]
        /\ Goto(k, IF status[r] = "CHECKED_IN" /\ attendance[r] # NoCheckIn
                   THEN "done" ELSE "claim")
    /\ UNCHANGED <<rowVars, swap, payVars, deal, passVars>>

\* Mutant: the row read at the top is saved back.
SavedAsCheckedIn(r) == TRUE
MayCheckIn(r) == status[r] \in Busy

\* The row first, by a CAS on its status.
ScanClaim(k) ==
    LET r == mine[k].row IN
    /\ pc[k] = "claim"
    /\ IF MayCheckIn(r)
       THEN status' = [status EXCEPT ![r] = "CHECKED_IN"] /\ Goto(k, "record")
       ELSE UNCHANGED status /\ Goto(k, "done")
    /\ UNCHANGED <<holder, swap, payVars, deal, passVars, mine>>

\* Then the attendance; a second scan of the row repairs its status instead.
ScanRecord(k) ==
    LET r == mine[k].row IN
    /\ pc[k] = "record"
    /\ IF attendance[r] = NoCheckIn
       THEN /\ attendance' = [attendance EXCEPT
                                ![r] = [by |-> mine[k].by, state |-> "OPEN", closer |-> Nothing]]
            /\ UNCHANGED status
       ELSE /\ status' = IF status[r] \in Busy
                         THEN [status EXCEPT ![r] = "CHECKED_IN"] ELSE status
            /\ UNCHANGED attendance
    /\ Goto(k, "done")
    /\ UNCHANGED <<holder, swap, paid, deal, passVars, mine>>

\* The nonce was spent by another scan, or the store refuses the document.
ScanRefused(k) ==
    /\ pc[k] = "record"
    /\ Goto(k, "done")
    /\ UNCHANGED <<rowVars, swap, payVars, deal, passVars, mine>>

-----------------------------------------------------------------------------
(* checkOut.  A closed document is answered as it stands and writes nothing.*)

OutRead(q) ==
    /\ pc[q] = "idle"
    /\ \E r \in Rows :
        /\ attendance[r].state = "OPEN" /\ status[r] = "CHECKED_IN"
        /\ mine' = [mine EXCEPT ![q] = [row |-> r, by |-> attendance[r].by, status |-> status[r]]]
    /\ Goto(q, "close")
    /\ UNCHANGED <<rowVars, swap, payVars, deal, passVars>>

\* Mutant: the close does not ask for an open document.
AnyState(r) == TRUE
IsOpen(r) == attendance[r].state = "OPEN"

OutClose(q) ==
    LET r == mine[q].row IN
    /\ pc[q] = "close"
    /\ IF IsOpen(r)
       THEN /\ attendance' = [attendance EXCEPT ![r] = [by |-> @.by, state |-> "CLOSED", closer |-> q]]
            /\ Goto(q, "complete")
       ELSE UNCHANGED attendance /\ Goto(q, "done")
    /\ UNCHANGED <<rowVars, swap, paid, deal, passVars, mine>>

OnLostRow(q) == "reopen"

\* The registration's own transition decides whether anything is paid.
OutComplete(q) ==
    LET r == mine[q].row IN
    /\ pc[q] = "complete"
    /\ IF status[r] = "CHECKED_IN"
       THEN status' = [status EXCEPT ![r] = "COMPLETED"] /\ Goto(q, "pay")
       ELSE UNCHANGED status /\ Goto(q, OnLostRow(q))
    /\ UNCHANGED <<holder, swap, payVars, deal, passVars, mine>>

OutReopen(q) ==
    LET r == mine[q].row IN
    /\ pc[q] = "reopen"
    /\ attendance' = IF attendance[r].state = "CLOSED" /\ attendance[r].closer = q
                     THEN [attendance EXCEPT ![r] = [by |-> @.by, state |-> "OPEN", closer |-> Nothing]]
                     ELSE attendance
    /\ Goto(q, "done")
    /\ UNCHANGED <<rowVars, swap, paid, deal, passVars, mine>>

\* Hours and karma, once each.
OutPay(q) ==
    /\ pc[q] = "pay"
    /\ paid' = [paid EXCEPT ![mine[q].row] = @ + 1]
    /\ Goto(q, "done")
    /\ UNCHANGED <<rowVars, swap, attendance, deal, passVars, mine>>

-----------------------------------------------------------------------------
(* cancelRegistration: the caller must hold the row when it is read; the    *)
(* CAS names the row and its status.                                       *)

CancelRead(c) ==
    /\ pc[c] = "idle"
    /\ \E r \in Rows :
        /\ status[r] \in Busy
        /\ mine' = [mine EXCEPT ![c] = [row |-> r, by |-> holder[r], status |-> status[r]]]
    /\ Goto(c, "cas")
    /\ UNCHANGED <<rowVars, swap, payVars, deal, passVars>>

CancelClaim(c) ==
    LET r == mine[c].row IN
    /\ pc[c] = "cas"
    /\ status' = IF status[r] = mine[c].status THEN [status EXCEPT ![r] = "CANCELLED"] ELSE status
    /\ Goto(c, "done")
    /\ UNCHANGED <<holder, swap, payVars, deal, passVars, mine>>

-----------------------------------------------------------------------------
AcceptStep(c) ==
    \/ AcceptRead(c) \/ AcceptRows(c) \/ AcceptCheck(c) \/ AcceptTrade(c)
    \/ AcceptAborts(c) \/ AcceptFails(c)
PassStep(x) ==
    \/ PassRead(x) \/ PassNext(x) \/ PassEnds(x) \/ PassLegs(x) \/ PassRefuses(x)
    \/ PassRotates(x) \/ PassAborts(x)
ScanStep(k) == ScanRead(k) \/ ScanClaim(k) \/ ScanRecord(k) \/ ScanRefused(k)
OutStep(q) == OutRead(q) \/ OutClose(q) \/ OutComplete(q) \/ OutReopen(q) \/ OutPay(q)

Quiet == \A c \in Calls : pc[c] \in {"idle", "done"}

Next ==
    \/ \E p \in Proposals : ProposeCheck(p) \/ ProposeCreate(p)
    \/ \E c \in Accepts : AcceptStep(c)
    \/ \E x \in Passes : PassStep(x)
    \/ \E k \in Scans : ScanStep(k)
    \/ \E q \in Outs : OutStep(q)
    \/ \E c \in Cancels : CancelRead(c) \/ CancelClaim(c)
    \/ Quiet /\ UNCHANGED vars

Spec == Init /\ [][Next]_vars

-----------------------------------------------------------------------------
(* Properties                                                              *)

Offers == Volunteers \X Shifts
Steps == {"idle", "create", "rows", "check", "trade", "fail", "next", "legs", "refuse", "rotate",
          "claim", "record", "close", "complete", "reopen", "pay", "cas", "done"}

\* Every variable keeps its type.
TypeOK ==
    /\ holder \in [Rows -> Volunteers]
    /\ status \in [Rows -> Active \cup {"CANCELLED"}]
    /\ swap \in [Proposals -> {"NONE", "PENDING", "EXECUTED", "FAILED"}]
    /\ attendance \in [Rows -> [by : Volunteers \cup {Nobody}, state : {"NONE", "OPEN", "CLOSED"},
                                closer : Outs \cup {Nothing}]]
    /\ paid \in [Rows -> Nat]
    /\ pc \in [Calls -> Steps]
    /\ deal \in [Accepts -> [swap : Proposals \cup {Nothing}, by : Volunteers \cup {Nobody},
                             a : Rows \cup {Nothing}, b : Rows \cup {Nothing}]]
    /\ used \in [Passes -> SUBSET Volunteers]
    /\ mine \in [Scans \cup Outs \cup Cancels ->
                    [row : Rows \cup {Nothing}, by : Volunteers \cup {Nobody},
                     status : Busy \cup {"NONE"}]]

\* I2 under swaps: nobody comes to hold two active rows of one shift.
OneRowPerShift ==
    \A r, s \in Rows :
        /\ status[r] \in Active /\ status[s] \in Active
        /\ holder[r] = holder[s] /\ ShiftOf[r] = ShiftOf[s]
        => r = s

\* No half-applied trade: whoever gives a row away gets one in the same step,
\* so every volunteer keeps as many confirmed rows as before.
TradesBalance ==
    [][holder' # holder =>
         \A v \in Volunteers :
            Cardinality({r \in Rows : holder'[r] = v /\ status'[r] = "CONFIRMED"})
              = Cardinality({r \in Rows : holder[r] = v /\ status[r] = "CONFIRMED"})]_vars

\* A settled proposal stays as it was settled: the accept that lost the race
\* does not write FAILED over the trade that happened.
SettledSwapsStay ==
    [][\A p \in Proposals : swap[p] \in {"EXECUTED", "FAILED"} => swap'[p] = swap[p]]_vars

\* A cancelled or completed row never moves again: no late scan revives a
\* cancelled seat, no swap hands on a worked one, no cancellation undoes it.
TerminalRowsStay ==
    [][\A r \in Rows : status[r] \in {"CANCELLED", "COMPLETED"} =>
          status'[r] = status[r] /\ holder'[r] = holder[r]]_vars

\* What is final stays: the settled proposals and the rows that have ended,
\* whichever late accept, pass, scan or cancellation comes to them.
FinalStays == SettledSwapsStay /\ TerminalRowsStay

\* A shift is paid once, and only once it is worked: a payment needs a closed
\* attendance and a completed row, whatever check-outs and cancels race.
PaidOnceWorked ==
    \A r \in Rows : paid[r] > 0 =>
        paid[r] = 1 /\ status[r] = "COMPLETED" /\ attendance[r].state = "CLOSED"

\* A closed attendance is never stranded: its row is completed, or the
\* check-out that closed it still has the row to complete or the close to undo.
ClosedIsSettled ==
    \A r \in Rows : attendance[r].state = "CLOSED" =>
        \/ status[r] = "COMPLETED"
        \/ pc[attendance[r].closer] \in {"complete", "reopen"}

=============================================================================
