------------------------------- MODULE Campus -------------------------------
(***************************************************************************)
(* Four parts of the server that share no state: the event hub, the table  *)
(* of connection slots in front of it, the crowd on a viewer's map and the *)
(* bounty budget.  They move in any order.                                 *)
(***************************************************************************)
EXTENDS EventHub

CONSTANTS
    Conns, Holders, Anonymous, Ips, Trusted,               \* StreamLimits
    TotalSlots, PerAccount, PerIp, AnonSlots, AnonPerIp,
    Crowd, Reach, Cells, Caps,                             \* PresenceCohort
    Requests, Bounties, Budget,                            \* BountyBudget
    MaxBodyAttempts, MaxCommitAttempts, MaxAborts

VARIABLES
    ask, stage, slots, id, nextId, byIp, byIpAnon, anonCount,     \* StreamLimits
    cell, offDuty, viewer, isLead, cap, cohort, screen, sampled,  \* PresenceCohort
    ledger, lock, tickets, step, asked, seen, txn, bodies, commits, aborts  \* BountyBudget

limits == INSTANCE StreamLimits WITH Accounts <- Holders
map == INSTANCE PresenceCohort WITH lead <- isLead
bounty == INSTANCE BountyBudget WITH MaxTroubles <- MaxAborts, open <- txn, troubles <- aborts

ASSUME CampusAssumption ==
    \* No account is the lack of one, and no request is.
    /\ Anonymous \notin Holders /\ bounty!NoOne \notin Requests
    \* An account is not an audience.
    /\ Accounts \cap {"ALL", "STAFF"} = {}
    \* An account may connect; a ceiling may be nought.
    /\ PerAccount \in Nat \ {0} /\ {TotalSlots, PerIp, AnonSlots, AnonPerIp} \subseteq Nat
    /\ Crowd \in Nat /\ Caps \subseteq Nat
    /\ Budget \in Nat /\ Bounties \subseteq Nat

slotVars == <<ask, stage, slots, id, nextId, byIp, byIpAnon, anonCount>>
mapVars == <<cell, offDuty, viewer, isLead, cap, cohort, screen, sampled>>
dayVars == <<ledger, lock, tickets, step, asked, seen, txn, bodies, commits, aborts>>
campusVars == <<vars, slotVars, mapVars, dayVars>>

CampusInit == Init /\ limits!Init /\ map!Init /\ bounty!Init

HubMoves == Next /\ UNCHANGED <<slotVars, mapVars, dayVars>>
LimitsMove == limits!Next /\ UNCHANGED <<vars, mapVars, dayVars>>
MapMoves == map!Next /\ UNCHANGED <<vars, slotVars, dayVars>>
BountyMoves == bounty!Next /\ UNCHANGED <<vars, slotVars, mapVars>>

CampusNext == HubMoves \/ LimitsMove \/ MapMoves \/ BountyMoves

CampusSpec == CampusInit /\ [][CampusNext]_campusVars

-----------------------------------------------------------------------------
(* Properties                                                              *)

\* Every open stream and socket holds a slot, and no slot is held for one
\* that is gone: StreamLimits.
EveryStreamIsCounted == limits!EveryStreamIsCounted

\* No ceiling of the slot table is passed: StreamLimits.
CeilingsHold == limits!CeilingsHold

\* Everybody a viewer may see is on its map once: PresenceCohort.
EverybodyOnce == map!EverybodyOnce

\* What tickets promise is what was charged, within the budget: BountyBudget.
BudgetIsPromised == bounty!BudgetIsPromised

\* One ticket for each request that is told so: BountyBudget.
OneTicketEach == bounty!OneTicketEach
=============================================================================
