---------------------------- MODULE BountyBudget ----------------------------
(***************************************************************************)
(* SOS tickets raised against one account's daily bounty budget: the debit *)
(* and the ticket are one transaction, run by withTransactionRetry, which  *)
(* runs the body again when it conflicted, sends only the commit again     *)
(* when it cannot tell whether that landed, and otherwise gives up.        *)
(*                                                                         *)
(* The database (outside the repository) gives a transaction the snapshot  *)
(* of its first operation, refuses a write to a row that changed since or  *)
(* that an open transaction has written, and may abort a transaction or    *)
(* lose a commit or its reply.                                             *)
(***************************************************************************)
EXTENDS Integers, FiniteSets, FiniteSetsExt

CONSTANTS
    Requests, Bounties,     \* createTicket calls, and what a ticket may promise
    Budget,
    MaxBodyAttempts, MaxCommitAttempts,
    MaxTroubles             \* bounds the failures of the database

NoOne == "noOne"

VARIABLES
    ledger,     \* committed: the row of the day, or absent; how often written
    lock,       \* the open transaction that has written the row
    tickets,    \* committed tickets: which request, which promise
    step,       \* per request
    asked,      \* per request: its bounty
    seen,       \* per request: the ledger as of its snapshot
    open,       \* per request: its transaction at the database
    bodies, commits,  \* per request: attempts so far
    troubles

bountyVars == <<ledger, lock, tickets, step, asked, seen, open, bodies, commits, troubles>>
dataVars == <<ledger, tickets>>

NoRow == [exists |-> FALSE, spent |-> 0, rev |-> 0]

Init ==
    /\ ledger = NoRow /\ lock = NoOne /\ tickets = {}
    /\ step = [r \in Requests |-> "idle"]
    /\ asked \in [Requests -> Bounties]
    /\ seen = [r \in Requests |-> NoRow]
    /\ open = [r \in Requests |-> "none"]
    /\ bodies = [r \in Requests |-> 0] /\ commits = [r \in Requests |-> 0]
    /\ troubles = 0

Goto(r, s) == step' = [step EXCEPT ![r] = s]
Unlocked(r) == IF lock = r THEN NoOne ELSE lock

\* TransientTransactionError, or a duplicate key on the ledger: abort, and run
\* the body again until the attempts are used up.
RunAgain(r) ==
    /\ Goto(r, IF bodies[r] < MaxBodyAttempts THEN "begin" ELSE "contention")
    /\ open' = [open EXCEPT ![r] = "none"]
    /\ lock' = Unlocked(r)
    /\ UNCHANGED commits

-----------------------------------------------------------------------------
(* The body.                                                               *)

Begin(r) ==
    /\ step[r] \in {"idle", "begin"}
    /\ seen' = [seen EXCEPT ![r] = ledger]
    /\ bodies' = [bodies EXCEPT ![r] = @ + 1]
    /\ commits' = [commits EXCEPT ![r] = 0]
    /\ open' = [open EXCEPT ![r] = "open"]
    /\ Goto(r, "open")
    /\ UNCHANGED <<dataVars, lock, asked, troubles>>

Conflict(r) == open[r] = "aborted" \/ lock \notin {NoOne, r} \/ ledger.rev # seen[r].rev

\* The upsert writes only where there is no row; a row that is there is left.
OpenLedger(r) ==
    /\ step[r] = "open"
    /\ IF seen[r].exists
       THEN Goto(r, "charge") /\ UNCHANGED <<lock, open, commits>>
       ELSE IF Conflict(r) THEN RunAgain(r)
       ELSE Goto(r, "charge") /\ lock' = r /\ UNCHANGED <<open, commits>>
    /\ UNCHANGED <<dataVars, asked, seen, bodies, troubles>>

Affords(r) == seen[r].spent <= Budget - asked[r]

Charge(r) ==
    /\ step[r] = "charge"
    /\ IF open[r] # "aborted" /\ ~Affords(r)
       THEN /\ Goto(r, "refused")
            /\ open' = [open EXCEPT ![r] = "none"] /\ lock' = Unlocked(r)
            /\ UNCHANGED commits
       ELSE IF Conflict(r) THEN RunAgain(r)
       ELSE Goto(r, "create") /\ lock' = r /\ UNCHANGED <<open, commits>>
    /\ UNCHANGED <<dataVars, asked, seen, bodies, troubles>>

\* Mutant: the ticket is written outside the session.
TicketAtOnce(r) == tickets \cup {[by |-> r, body |-> bodies[r], bounty |-> asked[r]]}
TicketInSession(r) == tickets

Create(r) ==
    /\ step[r] = "create"
    /\ IF open[r] = "aborted" THEN RunAgain(r) ELSE Goto(r, "commit") /\ UNCHANGED <<lock, open, commits>>
    /\ tickets' = TicketInSession(r)
    /\ UNCHANGED <<ledger, asked, seen, bodies, troubles>>

-----------------------------------------------------------------------------
(* commitWithRetry                                                         *)

Land(r) ==
    /\ ledger' = [exists |-> TRUE, spent |-> seen[r].spent + asked[r], rev |-> ledger.rev + 1]
    /\ tickets' = tickets \cup {[by |-> r, body |-> bodies[r], bounty |-> asked[r]]}
    /\ open' = [open EXCEPT ![r] = "committed"]
    /\ lock' = NoOne

\* The commit is applied, if it was not before, and the reply arrives.
CommitAnswered(r) ==
    /\ step[r] = "commit"
    /\ \/ open[r] = "open" /\ Land(r)
       \/ open[r] = "committed" /\ UNCHANGED <<dataVars, open, lock>>
    /\ Goto(r, "created")
    /\ UNCHANGED <<asked, seen, bodies, commits, troubles>>

\* Mutant: an unknown result is taken for a conflict.
WholeBodyAgain(r) == IF bodies[r] < MaxBodyAttempts THEN "begin" ELSE "contention"
CommitAgain(r) == IF commits[r] + 1 < MaxCommitAttempts THEN "commit" ELSE "unknown"

\* The commit or its reply is lost: UnknownTransactionCommitResult.
CommitUnknown(r) ==
    /\ step[r] = "commit" /\ troubles < MaxTroubles
    /\ \/ open[r] = "open" /\ Land(r)
       \/ UNCHANGED <<dataVars, open, lock>>
    /\ Goto(r, CommitAgain(r))
    /\ commits' = [commits EXCEPT ![r] = @ + 1]
    /\ troubles' = troubles + 1
    /\ UNCHANGED <<asked, seen, bodies>>

\* The database knows that it aborted: transient, so the body runs again.
CommitAborted(r) ==
    /\ step[r] = "commit" /\ open[r] = "aborted"
    /\ RunAgain(r)
    /\ UNCHANGED <<dataVars, asked, seen, bodies, troubles>>

\* A fail-over, or a transaction open for too long.
DatabaseAborts(r) ==
    /\ open[r] = "open" /\ troubles < MaxTroubles
    /\ open' = [open EXCEPT ![r] = "aborted"]
    /\ lock' = Unlocked(r)
    /\ troubles' = troubles + 1
    /\ UNCHANGED <<dataVars, step, asked, seen, bodies, commits>>

Next == \E r \in Requests :
    \/ Begin(r) \/ OpenLedger(r) \/ Charge(r) \/ Create(r)
    \/ CommitAnswered(r) \/ CommitUnknown(r) \/ CommitAborted(r) \/ DatabaseAborts(r)

Spec == Init /\ [][Next]_bountyVars

-----------------------------------------------------------------------------

TicketsOf(r) == {t \in tickets : t.by = r}

\* What the day's tickets promise is what the account was charged, and never
\* more than its budget, through conflicts, aborts and commits that may or may
\* not have landed.
BudgetIsPromised ==
    /\ ledger.spent = MapThenSumSet(LAMBDA t : t.bounty, tickets)
    /\ ledger.spent <= Budget

\* A request raises one ticket at most, one if it is told so, and none if it
\* is refused or told to try again.
OneTicketEach == \A r \in Requests :
    /\ Cardinality(TicketsOf(r)) <= 1
    /\ step[r] = "created" => TicketsOf(r) # {}
    /\ step[r] \in {"refused", "contention"} => TicketsOf(r) = {}
=============================================================================
