------------------------------- MODULE Rewards -------------------------------
(***************************************************************************)
(* How one account is paid: a booth scan or a finished quest claims the    *)
(* row that makes it once only, awards karma under the day's cap, grants a *)
(* sticker (and, at a booth, an item), and hands the row back if nothing   *)
(* was granted.  awardKarma writes the ledger, then the balance, then the  *)
(* tier: one action per round trip.  A finished scan emits the event that  *)
(* a quest listens for.                                                    *)
(*                                                                         *)
(* One account and one day, so a ledger row is a source; a quest row is a  *)
(* quest.  What is paid is a number, what it is called is left out.        *)
(***************************************************************************)
EXTENDS Integers, FiniteSetsExt

CONSTANTS
    Scans,        \* BoothService.scan calls
    Advances,     \* QuestService.advance calls
    Deeds,        \* what is paid once: booths and quests
    DeedOf,       \* the booth or quest of a call
    AdvanceOf,    \* the advance that the event of a finished scan starts
    Target,       \* advances a quest takes
    Price,        \* karma of a booth scan and of a quest
    Multiplier,   \* of an open raid; booths are not multiplied
    Caps,         \* per source: the most it pays in a day
    Earlier,      \* ledgers the account may begin with
    Attempts,     \* CAP_CAS_ATTEMPTS
    Faults,       \* the writes that may be refused, and "crash"
    MaxFaults     \* bound on the faults of a behaviour

Calls == Scans \cup Advances
Sources == {"BOOTH", "QUEST"}
SourceOf(c) == IF c \in Scans THEN "BOOTH" ELSE "QUEST"
Booths == {DeedOf[s] : s \in Scans}
Quests == {DeedOf[a] : a \in Advances}
NoRow == -1

Spent(row) == IF row = NoRow THEN 0 ELSE row

ASSUME RewardsAssumption ==
    /\ Scans \cap Advances = {} /\ Booths \cap Quests = {}
    /\ DeedOf \in [Calls -> Deeds] /\ AdvanceOf \in [Scans -> Advances]
    \* An event is of one booth.
    /\ \A s, t \in Scans : AdvanceOf[s] = AdvanceOf[t] => DeedOf[s] = DeedOf[t]
    /\ Price \in [booth : Nat, quest : Nat] /\ Multiplier \in Nat \ {0}
    /\ Caps \in [Sources -> Nat]
    /\ Earlier \subseteq [Sources -> Nat \cup {NoRow}]
    /\ \A l \in Earlier, s \in Sources : Spent(l[s]) <= Caps[s]
    /\ {Target, Attempts, MaxFaults} \subseteq Nat

VARIABLES
    claimed,            \* booths with a scan row, quests with completedAt set
    count,              \* QuestProgress.count, per quest
    ledger,             \* KarmaLedger amount per source, NoRow before the first
    balance, tier,      \* of the account
    stickers, badges,   \* deeds in the sticker ledger, and on the account
    items,              \* power-ups granted, per booth
    raid,               \* a raid window is open
    pc,
    seen,               \* calls: the progress or the ledger amount last read
    want, grant,        \* calls: karma asked for, and taken from the ledger
    tries,              \* calls: attempts at the ledger
    got,                \* calls: the handler's paid or granted flag
    credited, leaked,   \* history: karma credited per deed; taken and never credited
    faults              \* history: faults so far

accountVars == <<balance, tier, badges, credited>>
grantVars == <<stickers, items>>
callVars == <<seen, want, grant, tries, got>>
vars == <<claimed, count, ledger, accountVars, grantVars, raid, pc, callVars, leaked, faults>>

Goto(c, step) == pc' = [pc EXCEPT ![c] = step]

\* Prestige thresholds, scaled.
TierOf(points) == IF points >= 5 THEN 2 ELSE IF points >= 2 THEN 1 ELSE 0

Recorded == Spent(ledger["BOOTH"]) + Spent(ledger["QUEST"])

Init ==
    /\ claimed = {} /\ count = [q \in Quests |-> 0]
    /\ ledger \in Earlier
    /\ balance = Recorded /\ tier = TierOf(balance)
    /\ stickers = {} /\ badges = {} /\ items = [b \in Booths |-> 0]
    /\ raid = FALSE
    /\ pc = [c \in Calls |->
               IF c \in Advances /\ \E s \in Scans : AdvanceOf[s] = c THEN "waiting" ELSE "idle"]
    /\ seen = [c \in Calls |-> NoRow]
    /\ want = [c \in Calls |-> 0] /\ grant = [c \in Calls |-> 0]
    /\ tries = [c \in Calls |-> 0] /\ got = [c \in Calls |-> FALSE]
    /\ credited = [d \in Deeds |-> 0] /\ leaked = 0 /\ faults = 0

-----------------------------------------------------------------------------
(* What may go wrong                                                       *)

Fault(kind) == kind \in Faults /\ faults < MaxFaults /\ faults' = faults + 1

\* A write of call c is refused; the handler's catch is next, which has none.
Refused(c, step, kind) ==
    /\ pc[c] = step /\ Fault(kind)
    /\ Goto(c, IF step = "undo" THEN "done" ELSE "undo")
    /\ leaked' = leaked + (IF step = "credit" THEN grant[c] ELSE 0)
    /\ UNCHANGED <<claimed, count, ledger, accountVars, grantVars, raid, callVars>>

Crash(c) ==
    /\ pc[c] \notin {"idle", "waiting", "done"} /\ Fault("crash")
    /\ Goto(c, "done")
    /\ leaked' = leaked + (IF pc[c] = "credit" THEN grant[c] ELSE 0)
    /\ UNCHANGED <<claimed, count, ledger, accountVars, grantVars, raid, callVars>>

\* A raid window opens and closes with the clock.
RaidTurns ==
    /\ raid' = ~raid
    /\ UNCHANGED <<claimed, count, ledger, accountVars, grantVars, pc, callVars, leaked, faults>>

-----------------------------------------------------------------------------
(* The claim: a scan row, or completedAt                                   *)

NotYetScanned(c) == DeedOf[c] \notin claimed

ScanInsert(c) ==
    /\ pc[c] = "idle" /\ c \in Scans
    /\ \/ NotYetScanned(c) /\ claimed' = claimed \cup {DeedOf[c]} /\ Goto(c, "spend")
       \/ ~NotYetScanned(c) /\ UNCHANGED claimed /\ Goto(c, "done")
    /\ UNCHANGED <<count, ledger, accountVars, grantVars, raid, callVars, leaked, faults>>

ClaimProgress(c) ==
    /\ pc[c] = "idle" /\ c \in Advances
    /\ count' = [count EXCEPT ![DeedOf[c]] = @ + 1]
    /\ seen' = [seen EXCEPT ![c] = count'[DeedOf[c]]]
    /\ Goto(c, IF count'[DeedOf[c]] < Target THEN "done" ELSE "settle")
    /\ UNCHANGED <<claimed, ledger, accountVars, grantVars, raid, want, grant, tries, got, leaked, faults>>

NotYetSettled(c) == DeedOf[c] \notin claimed

\* count is written back as it was read.
Settle(c) ==
    /\ pc[c] = "settle"
    /\ IF NotYetSettled(c)
       THEN /\ claimed' = claimed \cup {DeedOf[c]}
            /\ count' = [count EXCEPT ![DeedOf[c]] = seen[c]]
            /\ Goto(c, "spend")
       ELSE Goto(c, "done") /\ UNCHANGED <<claimed, count>>
    /\ UNCHANGED <<ledger, accountVars, grantVars, raid, callVars, leaked, faults>>

-----------------------------------------------------------------------------
(* awardKarma                                                              *)

Requested(c) == IF c \in Scans THEN Price.booth
                ELSE IF raid THEN Price.quest * Multiplier ELSE Price.quest

Lesser(a, b) == IF a < b THEN a ELSE b
Room(c, spent) == Caps[SourceOf(c)] - spent

\* One attempt of spendUnderCap: read the row and clamp.  The multiplier is
\* read once, before the first attempt.
SpendRead(c) ==
    LET row  == ledger[SourceOf(c)]
        asks == IF tries[c] = 0 THEN Requested(c) ELSE want[c]
        take == Lesser(asks, IF Room(c, Spent(row)) > 0 THEN Room(c, Spent(row)) ELSE 0)
    IN /\ pc[c] = "spend"
       /\ seen' = [seen EXCEPT ![c] = row]
       /\ want' = [want EXCEPT ![c] = asks]
       /\ grant' = [grant EXCEPT ![c] = take]
       /\ Goto(c, IF take = 0 THEN "sticker" ELSE "take")
       /\ UNCHANGED <<claimed, count, ledger, accountVars, grantVars, raid, tries, got, leaked, faults>>

\* Mutants: an increment without the range; one that names the exact amount.
AlwaysFits(c) == seen[c] # NoRow \/ ledger[SourceOf(c)] = NoRow
AsReadOnly(c) == ledger[SourceOf(c)] = seen[c] /\ tries[c] = 0

\* The insert of a first row, or the increment of a row it still fits under.
StillFits(c) ==
    IF seen[c] = NoRow
    THEN ledger[SourceOf(c)] = NoRow
    ELSE ledger[SourceOf(c)] <= Caps[SourceOf(c)] - grant[c]

\* Mutant: the total is set from what was read and not incremented.
TotalAsRead(c) == Spent(seen[c]) + grant[c]
TotalAfter(c) == Spent(ledger[SourceOf(c)]) + grant[c]

SpendWrite(c) ==
    /\ pc[c] = "take"
    /\ IF StillFits(c)
       THEN /\ ledger' = [ledger EXCEPT ![SourceOf(c)] = TotalAfter(c)]
            /\ Goto(c, "credit")
            /\ UNCHANGED <<tries, grant>>
       ELSE /\ tries' = [tries EXCEPT ![c] = @ + 1]
            /\ IF tries'[c] = Attempts
               THEN Goto(c, "sticker") /\ grant' = [grant EXCEPT ![c] = 0]
               ELSE Goto(c, "spend") /\ UNCHANGED grant
            /\ UNCHANGED ledger
    /\ UNCHANGED <<claimed, count, accountVars, grantVars, raid, seen, want, got, leaked, faults>>

\* The balance, and the tier if this credit crossed a threshold.
Credit(c) ==
    /\ pc[c] = "credit"
    /\ balance' = balance + grant[c]
    /\ credited' = [credited EXCEPT ![DeedOf[c]] = @ + grant[c]]
    /\ seen' = [seen EXCEPT ![c] = balance']
    /\ IF TierOf(balance') # tier
       THEN Goto(c, "tier") /\ UNCHANGED got
       ELSE Goto(c, "sticker") /\ got' = [got EXCEPT ![c] = TRUE]
    /\ UNCHANGED <<claimed, count, ledger, tier, badges, grantVars, raid, want, grant, tries, leaked, faults>>

\* Mutant: the tier is computed from the ledger and not from the balance.
TierOfLedger(c) == TierOf(Recorded)
TierSeen(c) == TierOf(seen[c])

TierWrite(c) ==
    /\ pc[c] = "tier"
    /\ tier' = TierSeen(c)
    /\ got' = [got EXCEPT ![c] = TRUE]
    /\ Goto(c, "sticker")
    /\ UNCHANGED <<claimed, count, ledger, balance, badges, credited, grantVars, raid, seen, want, grant, tries, leaked, faults>>

-----------------------------------------------------------------------------
(* The rest of the reward                                                  *)

Sticker(c) ==
    /\ pc[c] = "sticker"
    /\ stickers' = stickers \cup {DeedOf[c]}
    /\ Goto(c, "badge")
    /\ UNCHANGED <<claimed, count, ledger, accountVars, items, raid, callVars, leaked, faults>>

\* The badge follows on every grant, so that a lost one is repaired.  Only a
\* booth counts a sticker as granted.
Badge(c) ==
    /\ pc[c] = "badge"
    /\ badges' = badges \cup {DeedOf[c]}
    /\ got' = [got EXCEPT ![c] = @ \/ c \in Scans]
    /\ Goto(c, IF c \in Scans THEN "item" ELSE "done")
    /\ UNCHANGED <<claimed, count, ledger, balance, tier, credited, grantVars, raid, seen, want, grant, tries, leaked, faults>>

Item(c) ==
    /\ pc[c] = "item"
    /\ items' = [items EXCEPT ![DeedOf[c]] = @ + 1]
    /\ got' = [got EXCEPT ![c] = TRUE]
    /\ Goto(c, "close")
    /\ UNCHANGED <<claimed, count, ledger, accountVars, stickers, raid, seen, want, grant, tries, leaked, faults>>

\* The scan row is completed and the event is emitted: its listener runs as
\* a call of its own, and its failure is only logged.
Close(c) ==
    /\ pc[c] = "close"
    /\ pc' = [pc EXCEPT ![c] = "done", ![AdvanceOf[c]] = "idle"]
    /\ UNCHANGED <<claimed, count, ledger, accountVars, grantVars, raid, callVars, leaked, faults>>

\* Mutant: the row is handed back whatever was granted.
NothingKept(c) == TRUE
NothingGranted(c) == ~got[c]

\* The catch: the row is handed back only if nothing was granted.
Undo(c) ==
    /\ pc[c] = "undo"
    /\ claimed' = IF NothingGranted(c) THEN claimed \ {DeedOf[c]} ELSE claimed
    /\ Goto(c, "done")
    /\ UNCHANGED <<count, ledger, accountVars, grantVars, raid, callVars, leaked, faults>>

-----------------------------------------------------------------------------
Award(c) == SpendRead(c) \/ SpendWrite(c) \/ Credit(c) \/ TierWrite(c)
Grants(c) == Sticker(c) \/ Badge(c) \/ Item(c) \/ Close(c) \/ Undo(c)

Fails(c) ==
    \/ Refused(c, "take", "ledger") \/ Refused(c, "credit", "balance")
    \/ Refused(c, "tier", "tier")   \/ Refused(c, "sticker", "sticker")
    \/ Refused(c, "badge", "badge") \/ Refused(c, "item", "item")
    \/ Refused(c, "close", "close") \/ Refused(c, "undo", "undo")

Next ==
    \/ \E c \in Calls : ScanInsert(c) \/ ClaimProgress(c) \/ Settle(c) \/ Award(c) \/ Grants(c)
    \/ \E c \in Calls : Fails(c) \/ Crash(c)
    \/ RaidTurns

Spec == Init /\ [][Next]_vars

-----------------------------------------------------------------------------
(* Properties                                                              *)

\* Every variable keeps its type.
TypeOK ==
    /\ claimed \subseteq Deeds /\ count \in [Quests -> Nat]
    /\ ledger \in [Sources -> Nat \cup {NoRow}] /\ balance \in Nat /\ tier \in Nat
    /\ stickers \subseteq Deeds /\ badges \subseteq Deeds /\ items \in [Booths -> Nat]
    /\ raid \in BOOLEAN
    /\ pc \in [Calls -> {"idle", "waiting", "settle", "spend", "take", "credit", "tier",
                         "sticker", "badge", "item", "close", "undo", "done"}]
    /\ seen \in [Calls -> Int] /\ want \in [Calls -> Nat] /\ grant \in [Calls -> Nat]
    /\ tries \in [Calls -> Nat] /\ got \in [Calls -> BOOLEAN]
    /\ credited \in [Deeds -> Nat] /\ leaked \in Nat /\ faults \in Nat

\* However many awards race for what is left of a source's day, they never
\* take more than its cap.
CapHolds == \A s \in Sources : Spent(ledger[s]) <= Caps[s]

\* The ledger explains the balance: what it records is on the balance, on
\* its way there, or was lost with a call that died or was refused between
\* the two writes.
LedgerExplainsBalance ==
    Recorded = balance + leaked
               + MapThenSumSet(LAMBDA c : grant[c], {c \in Calls : pc[c] = "credit"})

\* Once only: however often a booth is scanned and a quest advanced, whatever
\* fails on the way and is tried again, a deed credits the account once, never
\* more than it is worth, and hands out one item.
Worth == [d \in Deeds |-> IF d \in Booths THEN Price.booth ELSE Price.quest * Multiplier]
Owed == INSTANCE Payroll WITH Stalls <- Booths, paid <- credited
PaidOnce == Owed!Spec

\* An award that was given nothing was given nothing because the cap was
\* reached, not because it lost the race for what was left: a round is lost to
\* an award that landed, and each lands once (the "far past what a phone with a
\* stuck retry button produces" of CAP_CAS_ATTEMPTS).
RefusedMeansFull ==
    \A c \in Calls : want[c] > 0 /\ grant[c] = 0 =>
        Spent(ledger[SourceOf(c)]) = Caps[SourceOf(c)]

\* The tier is a label over the balance and is never ahead of it, although it
\* is written after the balance and from an older value of it.
TierNeverAhead == tier <= TierOf(balance)
=============================================================================
