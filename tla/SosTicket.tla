------------------------------ MODULE SosTicket ------------------------------
(***************************************************************************)
(* One distress ticket, from the moment it is OPEN.                        *)
(*                                                                         *)
(* Coordinators dispatch it, its responder acknowledges and arrives, a     *)
(* lead sends it back to the queue or cancels it, somebody resolves it and *)
(* is paid, and a timer on every server escalates it when nobody answers.  *)
(* Every handler reads the ticket and then writes it by a filter on the    *)
(* status (or on escalatedAt) it read: one action per round trip.          *)
(*                                                                         *)
(* Which volunteer is nearest is data: dispatch picks any responder.  What *)
(* the karma ledger grants of a bounty is not modelled: it is paid or not. *)
(***************************************************************************)
EXTENDS Integers, FiniteSets

CONSTANTS
    Accounts,
    Leads,        \* accounts with a lead's role
    Responders,   \* accounts dispatch may pick: on duty, qualified, no hacker
    Creator,      \* the account that raised the ticket
    Dispatches,   \* dispatchNearestVolunteer calls
    Moves,        \* acknowledge, arrive, cancel and reassign calls
    Resolves,     \* resolveTicket calls
    ActorOf,      \* the account behind each of the last two
    Sweepers      \* servers that run escalateStale on a timer

Nobody == "nobody"

Calls == Dispatches \cup Moves \cup Resolves \cup Sweepers

ASSUME PeopleAssumption ==
    /\ Leads \subseteq Accounts /\ Responders \subseteq Accounts
    /\ Creator \in Accounts
    /\ Nobody \notin Accounts

ASSUME CallsAssumption ==
    /\ ActorOf \in [Moves \cup Resolves -> Accounts]
    /\ Dispatches \cap Moves = {} /\ Dispatches \cap Resolves = {}
    /\ Moves \cap Resolves = {}
    /\ Sweepers \cap (Dispatches \cup Moves \cup Resolves) = {}

VARIABLES
    status, assignee,   \* the ticket
    stale,              \* dispatchedAt lies before the sweep's cutoff
    escalated,          \* escalatedAt is set
    paid,               \* per account: how often it was paid the bounty
    shouts, late,       \* history: escalations of this dispatch, and
                        \* whether the last one fell on a ticket nobody had
    pc, move, work      \* calls: step, a move's status change, a resolver's read

ticketVars == <<status, assignee, stale, escalated>>
shoutVars == <<shouts, late>>
vars == <<ticketVars, paid, shoutVars, pc, move, work>>

Working == {"DISPATCHED", "ACKNOWLEDGED", "ON_SCENE"}
Closed == {"RESOLVED", "CANCELLED"}
Status == {"OPEN"} \cup Working \cup Closed

Edges ==
    [OPEN         |-> {"DISPATCHED", "RESOLVED", "CANCELLED"},
     DISPATCHED   |-> {"ACKNOWLEDGED", "ON_SCENE", "RESOLVED", "OPEN", "CANCELLED"},
     ACKNOWLEDGED |-> {"ON_SCENE", "RESOLVED", "OPEN", "CANCELLED"},
     ON_SCENE     |-> {"RESOLVED", "OPEN", "CANCELLED"},
     RESOLVED     |-> {},
     CANCELLED    |-> {}]

CanTransition(from, to) == to \in Edges[from]

Goto(c, step) == pc' = [pc EXCEPT ![c] = step]

Init ==
    /\ status = "OPEN" /\ assignee = Nobody
    /\ stale = FALSE /\ escalated = FALSE
    /\ paid = [a \in Accounts |-> 0]
    /\ shouts = 0 /\ late = FALSE
    /\ pc = [c \in Calls |-> "idle"]
    /\ move = [m \in Moves |-> [from |-> "OPEN", to |-> "OPEN"]]
    /\ work = [r \in Resolves |-> [from |-> "OPEN", earner |-> Nobody]]

-----------------------------------------------------------------------------
(* dispatchNearestVolunteer                                                *)

DispatchRead(d) ==
    /\ pc[d] = "idle" /\ status = "OPEN"
    /\ Goto(d, "assign")
    /\ UNCHANGED <<ticketVars, paid, shoutVars, move, work>>

\* The compare-and-set on OPEN; the choice was made from older reads.
DispatchClaim(d) ==
    /\ pc[d] = "assign" /\ status = "OPEN"
    /\ status' = "DISPATCHED"
    /\ assignee' \in Responders
    /\ stale' = FALSE
    /\ shouts' = 0
    /\ Goto(d, "done")
    /\ UNCHANGED <<escalated, paid, late, move, work>>

\* No candidate, or somebody else was first.
DispatchRefused(d) ==
    /\ pc[d] = "assign"
    /\ Goto(d, "done")
    /\ UNCHANGED <<ticketVars, paid, shoutVars, move, work>>

-----------------------------------------------------------------------------
(* acknowledge, arrive, cancel, reassign                                   *)

\* cancel reads the ticket once to decide, and transition reads it again.
CancelCheck(m) ==
    /\ pc[m] = "idle"
    /\ ActorOf[m] \in Leads \/ (ActorOf[m] = Creator /\ status = "OPEN")
    /\ Goto(m, "cancel")
    /\ UNCHANGED <<ticketVars, paid, shoutVars, move, work>>

MayAsk(m, to) ==
    \/ /\ pc[m] = "idle" /\ to \in {"ACKNOWLEDGED", "ON_SCENE"}
       /\ ActorOf[m] = assignee \/ ActorOf[m] \in Leads
    \/ pc[m] = "idle" /\ to = "OPEN" /\ ActorOf[m] \in Leads
    \/ pc[m] = "cancel" /\ to = "CANCELLED"

MoveRead(m) ==
    \E to \in Status :
        /\ MayAsk(m, to) /\ CanTransition(status, to)
        /\ move' = [move EXCEPT ![m] = [from |-> status, to |-> to]]
        /\ Goto(m, "move")
        /\ UNCHANGED <<ticketVars, paid, shoutVars, work>>

\* Mutants: a reopened or cancelled ticket keeps its responder, or stays
\* marked as escalated.
ResponderStays(m) == assignee
EscalationStays(m) == escalated

StillAsRead(m) == status = move[m].from
ResponderAfter(m) == IF move[m].to \in {"OPEN", "CANCELLED"} THEN Nobody ELSE assignee
EscalatedAfter(m) == IF move[m].to = "OPEN" THEN FALSE ELSE escalated

MoveClaim(m) ==
    /\ pc[m] = "move" /\ StillAsRead(m)
    /\ status' = move[m].to
    /\ assignee' = ResponderAfter(m)
    /\ escalated' = EscalatedAfter(m)
    /\ IF move[m].to = "OPEN"
       THEN stale' = FALSE /\ shouts' = 0 /\ late' = FALSE
       ELSE UNCHANGED <<stale, shoutVars>>
    /\ Goto(m, "done")
    /\ UNCHANGED <<paid, move, work>>

\* The table refuses the move a cancel asks for, or somebody moved first.
MoveRefused(m) ==
    /\ \/ pc[m] = "cancel" /\ ~CanTransition(status, "CANCELLED")
       \/ pc[m] = "move" /\ ~StillAsRead(m)
    /\ Goto(m, "done")
    /\ UNCHANGED <<ticketVars, paid, shoutVars, move, work>>

-----------------------------------------------------------------------------
(* escalateStale, on a timer                                               *)

SweepRead(s) ==
    /\ pc[s] = "idle"
    /\ status = "DISPATCHED" /\ stale /\ ~escalated
    /\ Goto(s, "shout")
    /\ UNCHANGED <<ticketVars, paid, shoutVars, move, work>>

NotYetEscalated(s) == ~escalated

\* The claim names escalatedAt and not the status.
SweepClaim(s) ==
    /\ pc[s] = "shout" /\ NotYetEscalated(s)
    /\ escalated' = TRUE
    /\ shouts' = shouts + 1
    /\ late' = (status = "OPEN")
    /\ Goto(s, "idle")
    /\ UNCHANGED <<status, assignee, stale, paid, move, work>>

SweepLoses(s) ==
    /\ pc[s] = "shout" /\ ~NotYetEscalated(s)
    /\ Goto(s, "idle")
    /\ UNCHANGED <<ticketVars, paid, shoutVars, move, work>>

-----------------------------------------------------------------------------
(* resolveTicket                                                           *)

\* Nobody resolves a ticket of their own; a ticket that was dispatched is
\* resolved by its responder or by a lead.
ResolveRead(r) ==
    /\ pc[r] = "idle" /\ CanTransition(status, "RESOLVED")
    /\ ActorOf[r] # Creator
    /\ status = "OPEN" \/ ActorOf[r] = assignee \/ ActorOf[r] \in Leads
    /\ work' = [work EXCEPT ![r] = [from |-> status, earner |-> Nobody]]
    /\ Goto(r, "resolve")
    /\ UNCHANGED <<ticketVars, paid, shoutVars, move>>

\* Mutants: the filter names every resolvable status, or none.
StillResolvable(r) == CanTransition(status, "RESOLVED")
ResolvesAnyway(r) == TRUE

AsObserved(r) == status = work[r].from

\* An OPEN ticket is assigned to whoever resolves it.
ResolvedBy(r) == IF work[r].from = "OPEN" THEN ActorOf[r] ELSE assignee

ResolveClaim(r) ==
    /\ pc[r] = "resolve" /\ AsObserved(r)
    /\ status' = "RESOLVED"
    /\ assignee' = ResolvedBy(r)
    /\ stale' = (stale /\ work[r].from # "OPEN")
    /\ work' = [work EXCEPT ![r] =
                   [from |-> work[r].from,
                    earner |-> IF ResolvedBy(r) = Nobody THEN ActorOf[r] ELSE ResolvedBy(r)]]
    /\ Goto(r, "pay")
    /\ UNCHANGED <<escalated, paid, shoutVars, move>>

ResolveLoses(r) ==
    /\ pc[r] = "resolve" /\ ~AsObserved(r)
    /\ Goto(r, "done")
    /\ UNCHANGED <<ticketVars, paid, shoutVars, move, work>>

\* The bounty follows the work, not the click.
Pay(r) ==
    /\ pc[r] = "pay"
    /\ paid' = [paid EXCEPT ![work[r].earner] = @ + 1]
    /\ Goto(r, "done")
    /\ UNCHANGED <<ticketVars, shoutVars, move, work>>

\* There is no bounty, the cap leaves nothing of it, or the award fails.
PaysNothing(r) ==
    /\ pc[r] = "pay"
    /\ Goto(r, "done")
    /\ UNCHANGED <<ticketVars, paid, shoutVars, move, work>>

-----------------------------------------------------------------------------
\* Three minutes go by.
Age ==
    /\ status = "DISPATCHED" /\ ~stale
    /\ stale' = TRUE
    /\ UNCHANGED <<status, assignee, escalated, paid, shoutVars, pc, move, work>>

SweepStep(s) == SweepRead(s) \/ SweepClaim(s) \/ SweepLoses(s)

Quiet == \A c \in Dispatches \cup Moves \cup Resolves : pc[c] \in {"idle", "done"}

Next ==
    \/ \E d \in Dispatches : DispatchRead(d) \/ DispatchClaim(d) \/ DispatchRefused(d)
    \/ \E m \in Moves : CancelCheck(m) \/ MoveRead(m) \/ MoveClaim(m) \/ MoveRefused(m)
    \/ \E r \in Resolves :
          ResolveRead(r) \/ ResolveClaim(r) \/ ResolveLoses(r) \/ Pay(r) \/ PaysNothing(r)
    \/ \E s \in Sweepers : SweepStep(s)
    \/ Age
    \/ Quiet /\ UNCHANGED vars

Spec == Init /\ [][Next]_vars

\* The timer of a server fires again and again, and its sweep is not abandoned.
FairSpec == Spec /\ \A s \in Sweepers : WF_vars(SweepStep(s))

-----------------------------------------------------------------------------
(* Properties                                                              *)

Steps == {"idle", "assign", "cancel", "move", "shout", "resolve", "pay", "done"}

\* Every variable keeps its type.
TypeOK ==
    /\ status \in Status /\ assignee \in Accounts \cup {Nobody}
    /\ stale \in BOOLEAN /\ escalated \in BOOLEAN
    /\ paid \in [Accounts -> Nat]
    /\ shouts \in Nat /\ late \in BOOLEAN
    /\ pc \in [Calls -> Steps]
    /\ move \in [Moves -> [from : Status, to : Status]]
    /\ work \in [Resolves -> [from : Status, earner : Accounts \cup {Nobody}]]

\* Status and responder agree although handlers write one from a read of the
\* other: a ticket being worked on or resolved has a responder, one in the
\* queue or cancelled has none, so dispatch never sends a second person.
SomebodyIsComing == (assignee # Nobody) <=> status \in Working \cup {"RESOLVED"}

\* One payment: however many people resolve at once, the bounty is paid at
\* most once, and to the person the resolved ticket is assigned to.
PaidOnce ==
    \A a \in Accounts : paid[a] > 0 =>
        paid[a] = 1 /\ status = "RESOLVED" /\ assignee = a

\* Nobody takes a call from the person it was dispatched to: a responder is
\* replaced only after the ticket went back to the queue.
AssignmentStands ==
    [][assignee # Nobody /\ assignee' # Nobody => assignee' = assignee]_vars

\* A closed ticket is not reopened or re-assigned by a request that was in
\* flight when it was closed.
ClosedStays ==
    [][(status \in Closed) => status' = status /\ assignee' = assignee]_vars

\* However many servers sweep, a dispatch is shouted about at most once.
ShoutedOnce == shouts <= 1

\* A dispatched ticket that nobody answers is shouted about, also the second
\* time it is dispatched; unless a sweep that had read it before it was sent
\* back spent its escalation in the queue.
UnansweredIsHeard ==
    status = "DISPATCHED" /\ stale /\ ~late ~> shouts > 0 \/ status # "DISPATCHED"

=============================================================================
