-------------------------- MODULE SosTicket_proofs --------------------------
(***************************************************************************)
(* Theorems about SosTicket for every set of people and calls, however     *)
(* long a call stalls between its read and its write.                      *)
(***************************************************************************)
EXTENDS SosTicket, TLAPS

\* The table of moves: what leads where.
LEMMA Table ==
  /\ \A f, t \in Status : CanTransition(f, t) => f \notin Closed
  /\ \A f \in Status : CanTransition(f, "ACKNOWLEDGED") \/ CanTransition(f, "ON_SCENE") => f \in Working
  /\ \A f \in Status : CanTransition(f, "RESOLVED") <=> f \in {"OPEN"} \cup Working
  BY DEF CanTransition, Edges, Status, Working, Closed

-----------------------------------------------------------------------------
(* Types                                                                   *)

LEMMA TypeInit == Init => TypeOK
  <1> SUFFICES ASSUME Init PROVE TypeOK
    OBVIOUS
  <1>1. status \in Status /\ "OPEN" \in Status
    BY DEF Init, Status
  <1>2. pc \in [Calls -> Steps]
    BY DEF Init, Steps
  <1>3. move \in [Moves -> [from : Status, to : Status]]
    BY <1>1 DEF Init
  <1>4. work \in [Resolves -> [from : Status, earner : Accounts \cup {Nobody}]]
    BY <1>1 DEF Init
  <1>5. paid \in [Accounts -> Nat]
    BY DEF Init
  <1>6. QED  BY <1>1, <1>2, <1>3, <1>4, <1>5 DEF Init, TypeOK

\* A call that moves on is at a step again.
LEMMA GotoType ==
  ASSUME pc \in [Calls -> Steps], NEW c \in Calls, NEW step \in Steps, Goto(c, step)
  PROVE  pc' \in [Calls -> Steps]
  BY DEF Goto

LEMMA TypeStep == TypeOK /\ [Next]_vars => TypeOK'
  <1> SUFFICES ASSUME TypeOK, [Next]_vars PROVE TypeOK'
    OBVIOUS
  <1> USE DEF TypeOK, ticketVars, shoutVars
  <1> DEFINE Types ==
        /\ status \in Status /\ assignee \in Accounts \cup {Nobody}
        /\ stale \in BOOLEAN /\ escalated \in BOOLEAN
        /\ paid \in [Accounts -> Nat]
        /\ shouts \in Nat /\ late \in BOOLEAN
        /\ move \in [Moves -> [from : Status, to : Status]]
        /\ work \in [Resolves -> [from : Status, earner : Accounts \cup {Nobody}]]
  <1>1. CASE UNCHANGED vars
    BY <1>1 DEF vars
  <1>2. ASSUME NEW d \in Dispatches, DispatchRead(d) \/ DispatchClaim(d) \/ DispatchRefused(d)
        PROVE  TypeOK'
    <2>1. pc' \in [Calls -> Steps]
      BY <1>2, GotoType DEF DispatchRead, DispatchClaim, DispatchRefused, Steps, Calls
    <2>2. status' \in Status
      BY <1>2 DEF DispatchRead, DispatchClaim, DispatchRefused, Status, Working
    <2>3. CASE DispatchClaim(d)
      <3>1. assignee' \in Accounts \cup {Nobody}
        BY <2>3, PeopleAssumption DEF DispatchClaim
      <3>2. stale' \in BOOLEAN /\ shouts' \in Nat
        BY <2>3 DEF DispatchClaim
      <3>3. QED  BY <2>1, <2>2, <2>3, <3>1, <3>2 DEF DispatchClaim
    <2>4. CASE DispatchRead(d) \/ DispatchRefused(d)
      BY <2>1, <2>4 DEF DispatchRead, DispatchRefused
    <2>5. QED  BY <1>2, <2>3, <2>4
  <1>3. ASSUME NEW m \in Moves, CancelCheck(m) \/ MoveRead(m) \/ MoveRefused(m)
        PROVE  TypeOK'
    <2>1. pc' \in [Calls -> Steps]
      BY <1>3, GotoType DEF CancelCheck, MoveRead, MoveRefused, Steps, Calls
    <2>2. Types'
      BY <1>3 DEF CancelCheck, MoveRead, MoveRefused
    <2>3. QED  BY <2>1, <2>2
  <1>4. ASSUME NEW m \in Moves, MoveClaim(m)
        PROVE  TypeOK'
    <2>1. pc' \in [Calls -> Steps]
      BY <1>4, GotoType DEF MoveClaim, Steps, Calls
    <2>2. assignee' \in Accounts \cup {Nobody} /\ escalated' \in BOOLEAN
      BY <1>4 DEF MoveClaim, ResponderAfter, EscalatedAfter
    <2>3. status' \in Status
      BY <1>4 DEF MoveClaim
    <2>4. stale' \in BOOLEAN /\ shouts' \in Nat /\ late' \in BOOLEAN
      <3>1. CASE move[m].to = "OPEN"
        <4>1. stale' = FALSE /\ shouts' = 0 /\ late' = FALSE
          BY <1>4, <3>1 DEF MoveClaim
        <4>2. QED  BY <4>1
      <3>2. CASE move[m].to # "OPEN"
        BY <1>4, <3>2 DEF MoveClaim
      <3>3. QED  BY <3>1, <3>2
    <2>5. QED  BY <1>4, <2>1, <2>2, <2>3, <2>4 DEF MoveClaim
  <1>5. ASSUME NEW r \in Resolves, ResolveRead(r) \/ ResolveLoses(r) \/ PaysNothing(r)
        PROVE  TypeOK'
    <2>1. pc' \in [Calls -> Steps]
      BY <1>5, GotoType DEF ResolveRead, ResolveLoses, PaysNothing, Steps, Calls
    <2>2. [from |-> status, earner |-> Nobody] \in [from : Status, earner : Accounts \cup {Nobody}]
      OBVIOUS
    <2>3. Types'
      BY <1>5, <2>2 DEF ResolveRead, ResolveLoses, PaysNothing
    <2>4. QED  BY <2>1, <2>3
  <1>6. ASSUME NEW r \in Resolves, ResolveClaim(r)
        PROVE  TypeOK'
    <2>1. pc' \in [Calls -> Steps]
      BY <1>6, GotoType DEF ResolveClaim, Steps, Calls
    <2>2. ResolvedBy(r) \in Accounts \cup {Nobody} /\ ActorOf[r] \in Accounts
      BY <1>6, CallsAssumption DEF ResolvedBy
    <2>3. status' \in Status
      BY <1>6 DEF ResolveClaim, Status, Closed
    <2>4. work' \in [Resolves -> [from : Status, earner : Accounts \cup {Nobody}]]
      <3>1. work[r].from \in Status
        OBVIOUS
      <3>2. PICK e \in Accounts \cup {Nobody} :
              work' = [work EXCEPT ![r] = [from |-> work[r].from, earner |-> e]]
        BY <1>6, <2>2 DEF ResolveClaim
      <3>3. QED  BY <3>1, <3>2
    <2>5. stale' \in BOOLEAN
      BY <1>6 DEF ResolveClaim
    <2>6. QED  BY <1>6, <2>1, <2>2, <2>3, <2>4, <2>5 DEF ResolveClaim
  <1>7. ASSUME NEW r \in Resolves, Pay(r)
        PROVE  TypeOK'
    <2>1. pc' \in [Calls -> Steps]
      BY <1>7, GotoType DEF Pay, Steps, Calls
    <2>2. paid' \in [Accounts -> Nat]
      <3>1. paid' = [a \in Accounts |-> IF a = work[r].earner THEN paid[a] + 1 ELSE paid[a]]
        BY <1>7 DEF Pay
      <3>2. \A a \in Accounts : paid[a] \in Nat /\ paid[a] + 1 \in Nat
        OBVIOUS
      <3>3. QED  BY <3>1, <3>2
    <2>3. QED  BY <1>7, <2>1, <2>2 DEF Pay
  <1>8. ASSUME NEW s \in Sweepers, SweepStep(s)
        PROVE  TypeOK'
    <2>1. pc' \in [Calls -> Steps]
      BY <1>8, GotoType DEF SweepStep, SweepRead, SweepClaim, SweepLoses, Steps, Calls
    <2>2. CASE SweepClaim(s)
      <3>1. escalated' \in BOOLEAN /\ late' \in BOOLEAN /\ shouts' \in Nat
        BY <2>2 DEF SweepClaim
      <3>2. QED  BY <2>1, <2>2, <3>1 DEF SweepClaim
    <2>3. CASE SweepRead(s) \/ SweepLoses(s)
      BY <2>1, <2>3 DEF SweepRead, SweepLoses
    <2>4. QED  BY <1>8, <2>2, <2>3 DEF SweepStep
  <1>9. CASE Age
    BY <1>9 DEF Age
  <1>10. QED
    BY <1>1, <1>2, <1>3, <1>4, <1>5, <1>6, <1>7, <1>8, <1>9 DEF Next

\* Every variable keeps its type.
THEOREM TypeCorrect == Spec => []TypeOK
  BY TypeInit, TypeStep, PTL DEF Spec

-----------------------------------------------------------------------------
(* Status and responder.  A write is legal for the status it was read for, *)
(* and the filter of the write says that this is the status it finds.      *)

Asked ==
    \A m \in Moves : pc[m] = "move" =>
        /\ CanTransition(move[m].from, move[m].to)
        /\ move[m].to \in {"ACKNOWLEDGED", "ON_SCENE", "OPEN", "CANCELLED"}

Observed ==
    \A r \in Resolves : pc[r] = "resolve" => CanTransition(work[r].from, "RESOLVED")

Legal == Asked /\ Observed /\ SomebodyIsComing

LEMMA LegalInit == Init => Legal
  BY DEF Init, Legal, Asked, Observed, SomebodyIsComing, Working, Calls

LEMMA LegalStep == TypeOK /\ Legal /\ [Next]_vars => Legal'
  <1> SUFFICES ASSUME TypeOK, Legal, [Next]_vars PROVE Legal'
    OBVIOUS
  <1> USE PeopleAssumption, CallsAssumption DEF ticketVars, shoutVars, Goto
  \* A step of a call that reads and moves on, or that only writes elsewhere.
  <1>1. Asked'
    <2> SUFFICES ASSUME NEW m \in Moves, pc'[m] = "move"
                 PROVE  /\ CanTransition(move'[m].from, move'[m].to)
                        /\ move'[m].to \in {"ACKNOWLEDGED", "ON_SCENE", "OPEN", "CANCELLED"}
      BY DEF Asked, CanTransition
    <2>1. CASE MoveRead(m)
      BY <2>1 DEF MoveRead, MayAsk, TypeOK, CanTransition
    <2>2. CASE ~MoveRead(m)
      <3>1. pc[m] = "move" /\ move'[m] = move[m]
        <4>1. ASSUME NEW n \in Moves, CancelCheck(n) \/ MoveRead(n) \/ MoveClaim(n) \/ MoveRefused(n)
              PROVE  pc[m] = "move" /\ move'[m] = move[m]
          BY <2>2, <4>1 DEF TypeOK, Calls, CancelCheck, MoveRead, MoveClaim, MoveRefused
        <4>2. ASSUME NEW d \in Dispatches, DispatchRead(d) \/ DispatchClaim(d) \/ DispatchRefused(d)
              PROVE  pc[m] = "move" /\ move'[m] = move[m]
          BY <4>2 DEF TypeOK, Calls, DispatchRead, DispatchClaim, DispatchRefused
        <4>3. ASSUME NEW r \in Resolves,
                     ResolveRead(r) \/ ResolveClaim(r) \/ ResolveLoses(r) \/ Pay(r) \/ PaysNothing(r)
              PROVE  pc[m] = "move" /\ move'[m] = move[m]
          BY <4>3 DEF TypeOK, Calls, ResolveRead, ResolveClaim, ResolveLoses, Pay, PaysNothing
        <4>4. ASSUME NEW s \in Sweepers, SweepStep(s)
              PROVE  pc[m] = "move" /\ move'[m] = move[m]
          BY <4>4 DEF TypeOK, Calls, SweepStep, SweepRead, SweepClaim, SweepLoses
        <4>5. CASE Age \/ UNCHANGED vars
          BY <4>5 DEF Age, vars
        <4>6. QED  BY <4>1, <4>2, <4>3, <4>4, <4>5 DEF Next
      <3>2. QED  BY <3>1 DEF Legal, Asked
    <2>3. QED  BY <2>1, <2>2
  <1>2. Observed'
    <2> SUFFICES ASSUME NEW r \in Resolves, pc'[r] = "resolve"
                 PROVE  CanTransition(work'[r].from, "RESOLVED")
      BY DEF Observed, CanTransition
    <2>1. CASE ResolveRead(r)
      BY <2>1 DEF ResolveRead, TypeOK, CanTransition
    <2>2. CASE ~ResolveRead(r)
      <3>1. pc[r] = "resolve" /\ work'[r] = work[r]
        BY <2>2 DEF Next, vars, TypeOK, Calls, DispatchRead, DispatchClaim, DispatchRefused,
           CancelCheck, MoveRead, MoveClaim, MoveRefused, ResolveRead, ResolveClaim, ResolveLoses,
           Pay, PaysNothing, SweepStep, SweepRead, SweepClaim, SweepLoses, Age
      <3>2. QED  BY <3>1 DEF Legal, Observed
    <2>3. QED  BY <2>1, <2>2
  <1>3. SomebodyIsComing'
    <2>1. ASSUME NEW d \in Dispatches, DispatchClaim(d)
          PROVE  SomebodyIsComing'
      BY <2>1 DEF DispatchClaim, SomebodyIsComing, Working
    <2>2. ASSUME NEW m \in Moves, MoveClaim(m)
          PROVE  SomebodyIsComing'
      <3>1. CanTransition(status, status') /\ status \in Status
        BY <2>2 DEF Legal, Asked, MoveClaim, StillAsRead, TypeOK
      <3>2. CASE move[m].to \in {"OPEN", "CANCELLED"}
        BY <2>2, <3>2 DEF MoveClaim, ResponderAfter, SomebodyIsComing, Working
      <3>3. CASE move[m].to \in {"ACKNOWLEDGED", "ON_SCENE"}
        <4>1. status \in Working
          BY <2>2, <3>1, <3>3, Table DEF MoveClaim
        <4>2. assignee' = assignee
          BY <2>2, <3>3 DEF MoveClaim, ResponderAfter
        <4>3. QED  BY <2>2, <3>3, <4>1, <4>2 DEF MoveClaim, Legal, SomebodyIsComing, Working
      <3>4. QED  BY <2>2, <3>2, <3>3 DEF Legal, Asked, MoveClaim
    <2>3. ASSUME NEW r \in Resolves, ResolveClaim(r)
          PROVE  SomebodyIsComing'
      <3>1. status \in {"OPEN"} \cup Working
        BY <2>3, Table DEF Legal, Observed, ResolveClaim, AsObserved, TypeOK
      <3>2. assignee' \in Accounts
        BY <2>3, <3>1 DEF ResolveClaim, AsObserved, ResolvedBy, Legal, SomebodyIsComing, TypeOK
      <3>3. QED  BY <2>3, <3>2 DEF ResolveClaim, SomebodyIsComing
    <2>4. CASE UNCHANGED <<status, assignee>>
      BY <2>4 DEF Legal, SomebodyIsComing
    <2>5. QED
      BY <2>1, <2>2, <2>3, <2>4 DEF Next, vars, DispatchRead, DispatchRefused,
         CancelCheck, MoveRead, MoveRefused, ResolveRead, ResolveLoses,
         Pay, PaysNothing, SweepStep, SweepRead, SweepClaim, SweepLoses, Age
  <1>4. QED  BY <1>1, <1>2, <1>3 DEF Legal

LEMMA LegalInvariant == Spec => [](TypeOK /\ Legal)
  BY TypeInit, TypeStep, LegalInit, LegalStep, PTL DEF Spec

\* A ticket has a responder exactly when somebody works on it or has resolved
\* it, although no handler writes the one from a current read of the other.
THEOREM SomebodyComes == Spec => []SomebodyIsComing
  BY LegalInvariant, PTL DEF Legal

\* Which steps write the ticket's status or responder, and from where.
LEMMA TicketWrites ==
  ASSUME TypeOK, Legal, [Next]_vars, status' # status \/ assignee' # assignee
  PROVE  /\ status \notin Closed
         /\ assignee # Nobody /\ assignee' # Nobody => assignee' = assignee
  <1> USE PeopleAssumption DEF ticketVars, shoutVars
  <1>1. ASSUME NEW d \in Dispatches, DispatchClaim(d)
        PROVE  status = "OPEN"
    BY <1>1 DEF DispatchClaim
  <1>2. ASSUME NEW m \in Moves, MoveClaim(m)
        PROVE  status \notin Closed /\ (assignee' = Nobody \/ assignee' = assignee)
    BY <1>2, Table DEF MoveClaim, ResponderAfter, StillAsRead, Legal, Asked, TypeOK
  <1>3. ASSUME NEW r \in Resolves, ResolveClaim(r)
        PROVE  status \notin Closed /\ (status = "OPEN" \/ assignee' = assignee)
    BY <1>3, Table DEF ResolveClaim, AsObserved, ResolvedBy, Legal, Observed, TypeOK, Closed, Working
  <1>4. status = "OPEN" => assignee = Nobody /\ status \notin Closed
    BY DEF Legal, SomebodyIsComing, Working, Closed
  <1>5. QED
    BY <1>1, <1>2, <1>3, <1>4 DEF Next, vars, DispatchRead, DispatchRefused,
       CancelCheck, MoveRead, MoveRefused, ResolveRead, ResolveLoses,
       Pay, PaysNothing, SweepStep, SweepRead, SweepClaim, SweepLoses, Age

\* A responder is replaced only by way of the queue.
THEOREM AssignmentHolds == Spec => AssignmentStands
  <1>1. TypeOK /\ Legal /\ [Next]_vars =>
          [assignee # Nobody /\ assignee' # Nobody => assignee' = assignee]_vars
    BY TicketWrites
  <1>2. QED  BY <1>1, LegalInvariant, PTL DEF Spec, AssignmentStands

\* A closed ticket stays as it was closed.
THEOREM ClosedHolds == Spec => ClosedStays
  <1>1. TypeOK /\ Legal /\ [Next]_vars =>
          [(status \in Closed) => status' = status /\ assignee' = assignee]_vars
    BY TicketWrites
  <1>2. QED  BY <1>1, LegalInvariant, PTL DEF Spec, ClosedStays

-----------------------------------------------------------------------------
(* The bounty.  One resolver at most has won and not yet paid; while it is *)
(* there, nobody was paid.                                                 *)

Owed ==
    \A r \in Resolves : pc[r] = "pay" =>
        /\ status = "RESOLVED" /\ work[r].earner = assignee
        /\ \A a \in Accounts : paid[a] = 0
        /\ \A q \in Resolves : pc[q] = "pay" => q = r

PayInv == Owed /\ PaidOnce

LEMMA PayInit == Init => PayInv
  BY DEF Init, PayInv, Owed, PaidOnce, Calls

LEMMA PayStep == TypeOK /\ Legal /\ PayInv /\ [Next]_vars => PayInv'
  <1> SUFFICES ASSUME TypeOK, Legal, PayInv, [Next]_vars PROVE PayInv'
    OBVIOUS
  <1> USE DEF ticketVars, shoutVars, Goto
  <1>1. ASSUME NEW r \in Resolves, ResolveClaim(r)
        PROVE  PayInv'
    <2>1. status \in {"OPEN"} \cup Working /\ status # "RESOLVED"
      BY <1>1, Table DEF Legal, Observed, ResolveClaim, AsObserved, TypeOK, Working
    <2>2. \A a \in Accounts : paid[a] = 0
      BY <2>1 DEF PayInv, PaidOnce, TypeOK
    <2>3. \A q \in Resolves : pc[q] # "pay"
      BY <2>1 DEF PayInv, Owed
    <2>4. assignee' # Nobody
      BY <1>1, <2>1, PeopleAssumption, CallsAssumption
         DEF ResolveClaim, AsObserved, ResolvedBy, Legal, SomebodyIsComing
    <2>5. work'[r].earner = assignee'
      BY <1>1, <2>4 DEF ResolveClaim, TypeOK
    <2>6. Owed'
      BY <1>1, <2>2, <2>3, <2>5 DEF ResolveClaim, Owed, TypeOK, Calls
    <2>7. PaidOnce'
      BY <1>1, <2>2 DEF ResolveClaim, PaidOnce
    <2>8. QED  BY <2>6, <2>7 DEF PayInv
  <1>2. ASSUME NEW r \in Resolves, Pay(r)
        PROVE  PayInv'
    <2>1. /\ status = "RESOLVED" /\ work[r].earner = assignee
          /\ \A a \in Accounts : paid[a] = 0
      BY <1>2 DEF Pay, PayInv, Owed
    <2>2. PaidOnce'
      BY <1>2, <2>1 DEF Pay, PaidOnce, TypeOK
    <2>3. \A q \in Resolves : pc'[q] # "pay"
      BY <1>2 DEF Pay, PayInv, Owed, TypeOK, Calls
    <2>4. QED  BY <2>2, <2>3 DEF PayInv, Owed
  <1>3. CASE ~(\E r \in Resolves : ResolveClaim(r) \/ Pay(r))
    <2>1. /\ paid' = paid
          /\ \A r \in Resolves : pc'[r] = "pay" => pc[r] = "pay" /\ work'[r] = work[r]
      BY <1>3, CallsAssumption DEF Next, vars, TypeOK, Calls, DispatchRead, DispatchClaim,
         DispatchRefused, CancelCheck, MoveRead, MoveClaim, MoveRefused, ResolveRead,
         ResolveLoses, PaysNothing, SweepStep, SweepRead, SweepClaim, SweepLoses, Age
    <2>2. status = "RESOLVED" => status' = status /\ assignee' = assignee
      BY TicketWrites DEF Closed
    <2>3. QED  BY <2>1, <2>2 DEF PayInv, Owed, PaidOnce
  <1>4. QED  BY <1>1, <1>2, <1>3

\* However many resolvers race, one bounty is paid, to the ticket's responder.
THEOREM OneBounty == Spec => []PaidOnce
  BY PayInit, PayStep, LegalInvariant, PTL DEF Spec, PayInv

-----------------------------------------------------------------------------
(* Escalation.  escalatedAt remembers the shout of this dispatch.          *)

ShoutInv == shouts \in {0, 1} /\ (shouts = 1 => escalated)

LEMMA ShoutStep == TypeOK /\ ShoutInv /\ [Next]_vars => ShoutInv'
  <1> SUFFICES ASSUME TypeOK, ShoutInv, [Next]_vars PROVE ShoutInv'
    OBVIOUS
  <1> USE DEF ShoutInv, ticketVars, shoutVars
  <1>1. ASSUME NEW m \in Moves, MoveClaim(m)
        PROVE  ShoutInv'
    BY <1>1 DEF MoveClaim, EscalatedAfter
  <1>2. ASSUME NEW s \in Sweepers, SweepStep(s)
        PROVE  ShoutInv'
    BY <1>2 DEF SweepStep, SweepRead, SweepClaim, SweepLoses, NotYetEscalated
  <1>3. QED
    BY <1>1, <1>2 DEF Next, vars, DispatchRead, DispatchClaim, DispatchRefused,
       CancelCheck, MoveRead, MoveRefused, ResolveRead, ResolveClaim, ResolveLoses,
       Pay, PaysNothing, Age

\* However many servers sweep, a dispatch is shouted about at most once.
THEOREM OneShout == Spec => []ShoutedOnce
  <1>1. Init => ShoutInv
    BY DEF Init, ShoutInv
  <1>2. ShoutInv => ShoutedOnce
    BY DEF ShoutInv, ShoutedOnce
  <1>3. QED  BY <1>1, <1>2, ShoutStep, TypeCorrect, PTL DEF Spec
=============================================================================
