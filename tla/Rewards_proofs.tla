--------------------------- MODULE Rewards_proofs ---------------------------
(***************************************************************************)
(* Type correctness of Rewards, the daily cap, the tier label, what        *)
(* explains the balance, who may be refused and, as the refinement of      *)
(* Payroll, that every deed is paid once.                                  *)
(***************************************************************************)
EXTENDS Rewards, FiniteSetTheorems, WellFoundedInduction, TLAPS

Working == {"spend", "take", "credit", "tier", "sticker", "badge", "item", "close", "undo"}

\* A call that works on a deed holds its claim, alone.
ClaimIsHeld ==
    /\ \A c \in Calls : pc[c] \in Working => DeedOf[c] \in claimed
    /\ \A c, e \in Calls :
          pc[c] \in Working /\ pc[e] \in Working /\ DeedOf[c] = DeedOf[e] => c = e

\* What was given keeps its claim, and the holder's flag says so.
GivenIsClaimed ==
    /\ \A d \in Deeds : credited[d] > 0 => d \in claimed
    /\ \A b \in Booths : items[b] # 0 => b \in claimed

GivenIsFlagged ==
    \A c \in Calls :
       /\ pc[c] \in {"spend", "take", "credit"} => credited[DeedOf[c]] = 0
       /\ pc[c] \in Working \ {"tier"} /\ credited[DeedOf[c]] > 0 => got[c]
       /\ pc[c] \in Working /\ DeedOf[c] \in Booths /\ items[DeedOf[c]] # 0 =>
             pc[c] \in {"close", "undo"} /\ got[c]

\* What is asked and taken is within the deed's worth and the source's cap.
InRange ==
    \A c \in Calls :
       /\ want[c] <= Worth[DeedOf[c]]
       /\ pc[c] \in {"take", "credit"} =>
             /\ 0 < grant[c] /\ grant[c] <= Worth[DeedOf[c]]
             /\ grant[c] <= Caps[SourceOf(c)]

\* The balance a tier is computed from was the balance.
SeenWasBalance == \A c \in Calls : pc[c] = "tier" => seen[c] \in Nat /\ seen[c] <= balance

-----------------------------------------------------------------------------
(* Facts about the operators                                               *)

\* A source and a worth are what the types say.
LEMMA Constants ==
    /\ "BOOTH" \in Sources /\ "QUEST" \in Sources
    /\ \A c \in Calls : SourceOf(c) \in Sources /\ DeedOf[c] \in Deeds
    /\ \A s \in Scans : DeedOf[s] \in Booths /\ s \in Calls
    /\ Booths \subseteq Deeds /\ Quests \subseteq Deeds
    /\ \A a \in Advances : DeedOf[a] \in Quests /\ DeedOf[a] \notin Booths /\ a \in Calls
BY RewardsAssumption DEF RewardsAssumption, Sources, SourceOf, Calls, Booths, Quests

\* A multiplier never lowers a reward.
LEMMA Multiplied == \A p \in Nat, m \in Nat \ {0} : p * m \in Nat /\ p <= p * m
BY Z3

LEMMA WorthType == Worth \in [Deeds -> Nat]
BY RewardsAssumption, Multiplied DEF RewardsAssumption, Worth

LEMMA RequestedInRange ==
    \A c \in Calls : Requested(c) \in Nat /\ Requested(c) <= Worth[DeedOf[c]]
<1> TAKE c \in Calls
<1>1. Price.booth \in Nat /\ Price.quest \in Nat /\ Multiplier \in Nat \ {0}
  BY RewardsAssumption DEF RewardsAssumption
<1>2. Price.quest * Multiplier \in Nat /\ Price.quest <= Price.quest * Multiplier
  BY <1>1, Multiplied
<1>3. CASE c \in Scans
  BY <1>1, <1>3, Constants DEF Requested, Worth
<1>4. CASE c \notin Scans
  <2>1. DeedOf[c] \in Deeds /\ DeedOf[c] \notin Booths
    BY <1>4, Constants DEF Calls
  <2>2. Worth[DeedOf[c]] = Price.quest * Multiplier
    BY <2>1 DEF Worth
  <2> QED BY <1>1, <1>2, <1>4, <2>2 DEF Requested
<1> QED BY <1>3, <1>4

\* An amount read as a number is one.
LEMMA SpentType == \A row \in Nat \cup {NoRow} : Spent(row) \in Nat
BY DEF Spent, NoRow

-----------------------------------------------------------------------------
(* Types                                                                   *)

\* A settling call wrote its count down; only a scan has an item to hand out.
SettleSeen ==
    \A c \in Calls :
       /\ pc[c] = "settle" => seen[c] \in Nat
       /\ pc[c] \in {"item", "close"} => c \in Scans
Typed == TypeOK /\ SettleSeen

LEMMA TypeInit == Init => Typed
<1> SUFFICES ASSUME Init PROVE Typed
  OBVIOUS
<1>1. ledger \in [Sources -> Nat \cup {NoRow}]
  BY RewardsAssumption DEF RewardsAssumption, Init
<1>2. ledger["BOOTH"] \in Nat \cup {NoRow} /\ ledger["QUEST"] \in Nat \cup {NoRow}
  BY <1>1, Constants
<1>3. Spent(ledger["BOOTH"]) \in Nat /\ Spent(ledger["QUEST"]) \in Nat
  BY <1>2, SpentType
<1>4. balance \in Nat /\ tier \in Nat
  BY <1>3 DEF Init, Recorded, TierOf
<1>5. SettleSeen
  BY DEF Init, SettleSeen
<1>6. pc \in [Calls -> {"idle", "waiting"}]
  BY DEF Init
<1>7. /\ count \in [Quests -> Nat] /\ items \in [Booths -> Nat] /\ credited \in [Deeds -> Nat]
      /\ seen \in [Calls -> Int] /\ want \in [Calls -> Nat] /\ grant \in [Calls -> Nat]
      /\ tries \in [Calls -> Nat] /\ got \in [Calls -> BOOLEAN]
  BY DEF Init, NoRow
<1> QED BY <1>1, <1>4, <1>5, <1>6, <1>7 DEF Init, Typed, TypeOK

LEMMA TypeStep == Typed /\ [Next]_vars => Typed'
<1> SUFFICES ASSUME Typed, [Next]_vars PROVE Typed'
  OBVIOUS
<1> USE Constants DEF Working, Typed, TypeOK, SettleSeen, accountVars, grantVars, callVars
<1>1. ASSUME NEW c \in Calls, ScanInsert(c) PROVE Typed'
  BY <1>1 DEF ScanInsert, Goto, Calls
<1>2. ASSUME NEW c \in Calls, ClaimProgress(c) PROVE Typed'
  BY <1>2 DEF ClaimProgress, Goto
<1>3. ASSUME NEW c \in Calls, Settle(c) PROVE Typed'
  BY <1>3 DEF Settle, Goto
<1>4. ASSUME NEW c \in Calls, SpendRead(c) PROVE Typed'
  <2>1. Spent(ledger[SourceOf(c)]) \in Nat
    BY SpentType DEF Spent, NoRow
  <2>2. Caps[SourceOf(c)] \in Nat
    BY RewardsAssumption DEF RewardsAssumption
  <2>3. Room(c, Spent(ledger[SourceOf(c)])) \in Int
    BY <2>1, <2>2 DEF Room
  <2>4. Requested(c) \in Nat
    BY RequestedInRange
  <2> DEFINE row  == ledger[SourceOf(c)]
             asks == IF tries[c] = 0 THEN Requested(c) ELSE want[c]
             take == Lesser(asks, IF Room(c, Spent(row)) > 0 THEN Room(c, Spent(row)) ELSE 0)
  <2>5. row \in Nat \cup {NoRow} /\ row \in Int
    BY DEF NoRow
  <2>6. asks \in Nat
    BY <2>4
  <2>7. take \in Nat
    BY <2>3, <2>6 DEF Lesser
  <2>8. /\ seen' = [seen EXCEPT ![c] = row]
        /\ want' = [want EXCEPT ![c] = asks]
        /\ grant' = [grant EXCEPT ![c] = take]
        /\ \E step \in {"sticker", "take"} : pc' = [pc EXCEPT ![c] = step]
    BY <1>4 DEF SpendRead, Goto
  <2> HIDE DEF row, asks, take
  <2> QED BY <1>4, <2>5, <2>6, <2>7, <2>8 DEF SpendRead
<1>5. ASSUME NEW c \in Calls, SpendWrite(c) PROVE Typed'
  BY <1>5, SpentType, RewardsAssumption DEF SpendWrite, Goto, RewardsAssumption, StillFits, TotalAfter, Spent, NoRow
<1>6. ASSUME NEW c \in Calls, Credit(c) PROVE Typed'
  <2>1. DeedOf[c] \in Deeds /\ grant[c] \in Nat /\ credited[DeedOf[c]] \in Nat
    BY Constants
  <2>2. balance' \in Nat /\ credited' \in [Deeds -> Nat] /\ seen' \in [Calls -> Int]
    BY <1>6, <2>1 DEF Credit
  <2>3. \E step \in {"tier", "sticker"} : pc' = [pc EXCEPT ![c] = step]
    BY <1>6 DEF Credit, Goto
  <2>4. got' \in [Calls -> BOOLEAN]
    BY <1>6 DEF Credit
  <2> QED BY <1>6, <2>2, <2>3, <2>4 DEF Credit
<1>7. ASSUME NEW c \in Calls, TierWrite(c) PROVE Typed'
  BY <1>7 DEF TierWrite, Goto, TierSeen, TierOf
<1>8. ASSUME NEW c \in Calls, Sticker(c) PROVE Typed'
  BY <1>8 DEF Sticker, Goto
<1>9. ASSUME NEW c \in Calls, Badge(c) PROVE Typed'
  BY <1>9 DEF Badge, Goto
<1>10. ASSUME NEW c \in Calls, Item(c) PROVE Typed'
  BY <1>10 DEF Item, Goto
<1>11. ASSUME NEW c \in Calls, Close(c) PROVE Typed'
  BY <1>11 DEF Close, Goto
<1>12. ASSUME NEW c \in Calls, Undo(c) PROVE Typed'
  BY <1>12 DEF Undo, Goto, NothingGranted
<1>13. ASSUME NEW c \in Calls, NEW step \in Working, NEW kind, Refused(c, step, kind) PROVE Typed'
  BY <1>13 DEF Refused, Fault, Goto
<1>14. ASSUME NEW c \in Calls, Crash(c) PROVE Typed'
  BY <1>14 DEF Crash, Fault, Goto
<1>15. CASE RaidTurns
  BY <1>15 DEF RaidTurns
<1>16. CASE UNCHANGED vars
  BY <1>16 DEF vars
<1>17. ASSUME NEW c \in Calls, Fails(c) PROVE Typed'
  BY <1>13, <1>17 DEF Fails
<1> QED BY <1>1, <1>2, <1>3, <1>4, <1>5, <1>6, <1>7, <1>8, <1>9, <1>10, <1>11, <1>12, <1>14, <1>15, <1>16, <1>17 DEF Next, Award, Grants

\* Every variable keeps its type, whatever fails.
THEOREM TypeCorrect == Spec => []TypeOK
<1>1. Init => Typed
  BY TypeInit
<1>2. Typed /\ [Next]_vars => Typed'
  BY TypeStep
<1>3. Typed => TypeOK
  BY DEF Typed
<1> QED BY <1>1, <1>2, <1>3, PTL DEF Spec

LEMMA TypedAlways == Spec => []Typed
<1>1. Init => Typed
  BY TypeInit
<1>2. Typed /\ [Next]_vars => Typed'
  BY TypeStep
<1> QED BY <1>1, <1>2, PTL DEF Spec

-----------------------------------------------------------------------------
(* The cap                                                                 *)

Capped == InRange /\ CapHolds

LEMMA CapInit == Init => Capped
<1> SUFFICES ASSUME Init PROVE Capped
  OBVIOUS
<1>1. CapHolds
  BY RewardsAssumption DEF RewardsAssumption, Init, CapHolds
<1>2. \A c \in Calls : 0 <= Worth[DeedOf[c]]
  BY Constants, WorthType
<1> QED BY <1>1, <1>2 DEF Init, Capped, InRange

LEMMA CapStep == Typed /\ Capped /\ [Next]_vars => Capped'
<1> SUFFICES ASSUME Typed, Capped, [Next]_vars PROVE Capped'
  OBVIOUS
<1> USE Constants DEF Capped, InRange, CapHolds, Working, accountVars, grantVars, callVars
<1>1. ASSUME NEW c \in Calls, ScanInsert(c) PROVE Capped'
  BY <1>1 DEF ScanInsert, Goto, Typed, TypeOK
<1>2. ASSUME NEW c \in Calls, ClaimProgress(c) PROVE Capped'
  BY <1>2 DEF ClaimProgress, Goto, Typed, TypeOK
<1>3. ASSUME NEW c \in Calls, Settle(c) PROVE Capped'
  BY <1>3 DEF Settle, Goto, Typed, TypeOK
<1>4. ASSUME NEW c \in Calls, SpendRead(c) PROVE Capped'
  <2> DEFINE row  == ledger[SourceOf(c)]
             asks == IF tries[c] = 0 THEN Requested(c) ELSE want[c]
             take == Lesser(asks, IF Room(c, Spent(row)) > 0 THEN Room(c, Spent(row)) ELSE 0)
  <2>1. Spent(row) \in Nat
    BY SpentType DEF Typed, TypeOK
  <2>2. Caps[SourceOf(c)] \in Nat
    BY RewardsAssumption DEF RewardsAssumption
  <2>3. Room(c, Spent(row)) \in Int /\ Room(c, Spent(row)) <= Caps[SourceOf(c)]
    BY <2>1, <2>2 DEF Room
  <2>4. asks \in Nat /\ asks <= Worth[DeedOf[c]]
    BY RequestedInRange DEF Typed, TypeOK
  <2>5. /\ take \in Nat /\ take <= Worth[DeedOf[c]] /\ take <= Caps[SourceOf(c)]
    BY <2>2, <2>3, <2>4, WorthType DEF Lesser
  <2>6. /\ want' = [want EXCEPT ![c] = asks]
        /\ grant' = [grant EXCEPT ![c] = take]
        /\ pc' = [pc EXCEPT ![c] = IF take = 0 THEN "sticker" ELSE "take"]
        /\ UNCHANGED ledger
    BY <1>4 DEF SpendRead, Goto
  <2> HIDE DEF row, asks, take
  <2>7. InRange'
    BY <2>4, <2>5, <2>6 DEF Typed, TypeOK
  <2> QED BY <2>6, <2>7
<1>5. ASSUME NEW c \in Calls, SpendWrite(c) PROVE Capped'
  <2>1. /\ 0 < grant[c] /\ grant[c] <= Caps[SourceOf(c)] /\ grant[c] \in Nat
        /\ ledger[SourceOf(c)] \in Nat \cup {NoRow} /\ Caps[SourceOf(c)] \in Nat
    BY <1>5, RewardsAssumption DEF SpendWrite, Typed, TypeOK, RewardsAssumption
  <2>2. CASE StillFits(c)
    <3>1. TotalAfter(c) \in Nat /\ TotalAfter(c) <= Caps[SourceOf(c)]
      BY <2>1, <2>2 DEF StillFits, TotalAfter, Spent, NoRow
    <3>2. /\ ledger' = [ledger EXCEPT ![SourceOf(c)] = TotalAfter(c)]
          /\ pc' = [pc EXCEPT ![c] = "credit"] /\ UNCHANGED <<want, grant>>
      BY <1>5, <2>2 DEF SpendWrite, Goto
    <3>3. CapHolds'
      BY <3>1, <3>2 DEF Spent, NoRow, Typed, TypeOK
    <3>4. InRange'
      BY <1>5, <3>2 DEF SpendWrite, Typed, TypeOK
    <3> QED BY <3>3, <3>4
  <2>3. CASE ~StillFits(c)
    <3>1. /\ \E step \in {"sticker", "spend"} : pc' = [pc EXCEPT ![c] = step]
          /\ UNCHANGED <<ledger, want>> /\ grant' \in {grant, [grant EXCEPT ![c] = 0]}
      BY <1>5, <2>3 DEF SpendWrite, Goto
    <3> QED BY <3>1 DEF Typed, TypeOK
  <2> QED BY <2>2, <2>3
<1>6. ASSUME NEW c \in Calls, Credit(c) PROVE Capped'
  BY <1>6 DEF Credit, Goto, Typed, TypeOK
<1>7. ASSUME NEW c \in Calls, TierWrite(c) PROVE Capped'
  BY <1>7 DEF TierWrite, Goto, Typed, TypeOK
<1>8. ASSUME NEW c \in Calls, Sticker(c) PROVE Capped'
  BY <1>8 DEF Sticker, Goto, Typed, TypeOK
<1>9. ASSUME NEW c \in Calls, Badge(c) PROVE Capped'
  BY <1>9 DEF Badge, Goto, Typed, TypeOK
<1>10. ASSUME NEW c \in Calls, Item(c) PROVE Capped'
  BY <1>10 DEF Item, Goto, Typed, TypeOK
<1>11. ASSUME NEW c \in Calls, Close(c) PROVE Capped'
  BY <1>11 DEF Close, Goto, Typed, TypeOK
<1>12. ASSUME NEW c \in Calls, Undo(c) PROVE Capped'
  BY <1>12 DEF Undo, Goto, Typed, TypeOK
<1>13. ASSUME NEW c \in Calls, NEW step \in Working, NEW kind, Refused(c, step, kind) PROVE Capped'
  BY <1>13 DEF Refused, Fault, Goto, Typed, TypeOK
<1>14. ASSUME NEW c \in Calls, Crash(c) PROVE Capped'
  BY <1>14 DEF Crash, Fault, Goto, Typed, TypeOK
<1>15. CASE RaidTurns
  BY <1>15 DEF RaidTurns
<1>16. CASE UNCHANGED vars
  BY <1>16 DEF vars
<1>17. ASSUME NEW c \in Calls, Fails(c) PROVE Capped'
  BY <1>13, <1>17 DEF Fails
<1> QED BY <1>1, <1>2, <1>3, <1>4, <1>5, <1>6, <1>7, <1>8, <1>9, <1>10, <1>11, <1>12, <1>14, <1>15, <1>16, <1>17 DEF Next, Award, Grants

-----------------------------------------------------------------------------
(* The tier                                                                *)

Labelled == SeenWasBalance /\ TierNeverAhead

LEMMA TierInit == Init => Labelled
BY DEF Init, Labelled, SeenWasBalance, TierNeverAhead, TierOf

LEMMA TierStep == Typed /\ Capped /\ Labelled /\ [Next]_vars => Labelled'
<1> SUFFICES ASSUME Typed, Capped, Labelled, [Next]_vars PROVE Labelled'
  OBVIOUS
<1> USE Constants DEF Labelled, SeenWasBalance, TierNeverAhead, Working, accountVars, grantVars, callVars
<1>1. ASSUME NEW c \in Calls, ScanInsert(c) PROVE Labelled'
  BY <1>1 DEF ScanInsert, Goto, Typed, TypeOK
<1>2. ASSUME NEW c \in Calls, ClaimProgress(c) PROVE Labelled'
  BY <1>2 DEF ClaimProgress, Goto, Typed, TypeOK
<1>3. ASSUME NEW c \in Calls, Settle(c) PROVE Labelled'
  BY <1>3 DEF Settle, Goto, Typed, TypeOK
<1>4. ASSUME NEW c \in Calls, SpendRead(c) PROVE Labelled'
  BY <1>4 DEF SpendRead, Goto, Typed, TypeOK
<1>5. ASSUME NEW c \in Calls, SpendWrite(c) PROVE Labelled'
  BY <1>5 DEF SpendWrite, Goto, Typed, TypeOK
<1>6. ASSUME NEW c \in Calls, Credit(c) PROVE Labelled'
  BY <1>6 DEF Credit, Goto, Typed, TypeOK, Capped, InRange, TierOf
<1>7. ASSUME NEW c \in Calls, TierWrite(c) PROVE Labelled'
  BY <1>7 DEF TierWrite, Goto, Typed, TypeOK, TierSeen, TierOf
<1>8. ASSUME NEW c \in Calls, Sticker(c) PROVE Labelled'
  BY <1>8 DEF Sticker, Goto, Typed, TypeOK
<1>9. ASSUME NEW c \in Calls, Badge(c) PROVE Labelled'
  BY <1>9 DEF Badge, Goto, Typed, TypeOK
<1>10. ASSUME NEW c \in Calls, Item(c) PROVE Labelled'
  BY <1>10 DEF Item, Goto, Typed, TypeOK
<1>11. ASSUME NEW c \in Calls, Close(c) PROVE Labelled'
  BY <1>11 DEF Close, Goto, Typed, TypeOK
<1>12. ASSUME NEW c \in Calls, Undo(c) PROVE Labelled'
  BY <1>12 DEF Undo, Goto, Typed, TypeOK
<1>13. ASSUME NEW c \in Calls, NEW step \in Working, NEW kind, Refused(c, step, kind) PROVE Labelled'
  BY <1>13 DEF Refused, Fault, Goto, Typed, TypeOK
<1>14. ASSUME NEW c \in Calls, Crash(c) PROVE Labelled'
  BY <1>14 DEF Crash, Fault, Goto, Typed, TypeOK
<1>15. CASE RaidTurns
  BY <1>15 DEF RaidTurns
<1>16. CASE UNCHANGED vars
  BY <1>16 DEF vars
<1>17. ASSUME NEW c \in Calls, Fails(c) PROVE Labelled'
  BY <1>13, <1>17 DEF Fails
<1> QED BY <1>1, <1>2, <1>3, <1>4, <1>5, <1>6, <1>7, <1>8, <1>9, <1>10, <1>11, <1>12, <1>14, <1>15, <1>16, <1>17 DEF Next, Award, Grants

-----------------------------------------------------------------------------
(* Paid once                                                               *)

Once == ClaimIsHeld /\ GivenIsClaimed /\ GivenIsFlagged

\* Every write of the handlers may be refused except the tier's.
NoTierFault == "tier" \notin Faults

LEMMA OnceInit == Init => Once
<1> SUFFICES ASSUME Init PROVE Once
  OBVIOUS
<1>1. \A c \in Calls : pc[c] \notin Working
  BY DEF Init, Working
<1>2. GivenIsClaimed
  BY DEF Init, GivenIsClaimed
<1> QED BY <1>1, <1>2 DEF Once, ClaimIsHeld, GivenIsFlagged, Working

LEMMA OnceStep == NoTierFault /\ Typed /\ Capped /\ Once /\ [Next]_vars => Once'
<1> SUFFICES ASSUME NoTierFault, Typed, Capped, Once, [Next]_vars PROVE Once'
  OBVIOUS
<1> USE Constants DEF Once, ClaimIsHeld, GivenIsClaimed, GivenIsFlagged, Working, accountVars, grantVars, callVars
<1>1. ASSUME NEW c \in Calls, ScanInsert(c) PROVE Once'
  BY <1>1 DEF ScanInsert, Goto, Typed, TypeOK, NotYetScanned
<1>2. ASSUME NEW c \in Calls, ClaimProgress(c) PROVE Once'
  BY <1>2 DEF ClaimProgress, Goto, Typed, TypeOK
<1>3. ASSUME NEW c \in Calls, Settle(c) PROVE Once'
  BY <1>3 DEF Settle, Goto, Typed, TypeOK, NotYetSettled
<1>4. ASSUME NEW c \in Calls, SpendRead(c) PROVE Once'
  BY <1>4 DEF SpendRead, Goto, Typed, TypeOK
<1>5. ASSUME NEW c \in Calls, SpendWrite(c) PROVE Once'
  BY <1>5 DEF SpendWrite, Goto, Typed, TypeOK
<1>6. ASSUME NEW c \in Calls, Credit(c) PROVE Once'
  BY <1>6 DEF Credit, Goto, Typed, TypeOK, Capped, InRange
<1>7. ASSUME NEW c \in Calls, TierWrite(c) PROVE Once'
  BY <1>7 DEF TierWrite, Goto, Typed, TypeOK
<1>8. ASSUME NEW c \in Calls, Sticker(c) PROVE Once'
  BY <1>8 DEF Sticker, Goto, Typed, TypeOK
<1>9. ASSUME NEW c \in Calls, Badge(c) PROVE Once'
  BY <1>9 DEF Badge, Goto, Typed, TypeOK, SettleSeen
<1>10. ASSUME NEW c \in Calls, Item(c) PROVE Once'
  BY <1>10 DEF Item, Goto, Typed, TypeOK, SettleSeen
<1>11. ASSUME NEW c \in Calls, Close(c) PROVE Once'
  BY <1>11 DEF Close, Goto, Typed, TypeOK
<1>12. ASSUME NEW c \in Calls, Undo(c) PROVE Once'
  BY <1>12 DEF Undo, Goto, Typed, TypeOK, NothingGranted
<1>13. ASSUME NEW c \in Calls, NEW step \in Working \ {"tier"}, NEW kind, Refused(c, step, kind) PROVE Once'
  BY <1>13 DEF Refused, Fault, Goto, Typed, TypeOK
<1>14. ASSUME NEW c \in Calls, Crash(c) PROVE Once'
  BY <1>14 DEF Crash, Fault, Goto, Typed, TypeOK
<1>15. CASE RaidTurns
  BY <1>15 DEF RaidTurns
<1>16. CASE UNCHANGED vars
  BY <1>16 DEF vars
<1>17. ASSUME NEW c \in Calls, Fails(c) PROVE Once'
  BY <1>13, <1>17 DEF Fails, Refused, Fault, NoTierFault
<1> QED BY <1>1, <1>2, <1>3, <1>4, <1>5, <1>6, <1>7, <1>8, <1>9, <1>10, <1>11, <1>12, <1>14, <1>15, <1>16, <1>17 DEF Next, Award, Grants

\* Every step of the handlers is a payment, a handing out, or nothing to Payroll.
LEMMA PayrollInit == Init => Owed!Init
<1> SUFFICES ASSUME Init PROVE Owed!Init
  OBVIOUS
<1>1. balance \in Nat
  BY TypeInit DEF Typed, TypeOK
<1> QED BY <1>1 DEF Init, Owed!Init

LEMMA PayrollStep == Typed /\ Capped /\ Once /\ [Next]_vars => [Owed!Next]_(Owed!vars)
<1> SUFFICES ASSUME Typed, Capped, Once, [Next]_vars PROVE [Owed!Next]_(Owed!vars)
  OBVIOUS
<1> USE Constants DEF Working, accountVars, grantVars, callVars, Owed!vars
<1>1. ASSUME NEW c \in Calls, ScanInsert(c) PROVE [Owed!Next]_(Owed!vars)
  BY <1>1 DEF ScanInsert, Goto
<1>2. ASSUME NEW c \in Calls, ClaimProgress(c) PROVE [Owed!Next]_(Owed!vars)
  BY <1>2 DEF ClaimProgress, Goto
<1>3. ASSUME NEW c \in Calls, Settle(c) PROVE [Owed!Next]_(Owed!vars)
  BY <1>3 DEF Settle, Goto
<1>4. ASSUME NEW c \in Calls, SpendRead(c) PROVE [Owed!Next]_(Owed!vars)
  BY <1>4 DEF SpendRead, Goto
<1>5. ASSUME NEW c \in Calls, SpendWrite(c) PROVE [Owed!Next]_(Owed!vars)
  BY <1>5 DEF SpendWrite, Goto
<1>6. ASSUME NEW c \in Calls, Credit(c) PROVE [Owed!Next]_(Owed!vars)
  <2>1. DeedOf[c] \in Deeds /\ credited[DeedOf[c]] = 0
    BY <1>6, Constants DEF Credit, Once, GivenIsFlagged
  <2>2. grant[c] \in 1..Worth[DeedOf[c]]
    BY <1>6, Constants, WorthType DEF Credit, Capped, InRange, Typed, TypeOK
  <2>. credited[DeedOf[c]] + grant[c] = grant[c]
    BY <2>1, <2>2, Constants, WorthType
  <2>3. credited' = [credited EXCEPT ![DeedOf[c]] = grant[c]] /\ balance' = balance + grant[c] /\ items' = items
    BY <1>6 DEF Credit
  <2>4. Owed!Pay(DeedOf[c])
    BY <2>1, <2>2, <2>3 DEF Owed!Pay
  <2> QED BY <2>1, <2>4 DEF Owed!Next
<1>7. ASSUME NEW c \in Calls, TierWrite(c) PROVE [Owed!Next]_(Owed!vars)
  BY <1>7 DEF TierWrite, Goto
<1>8. ASSUME NEW c \in Calls, Sticker(c) PROVE [Owed!Next]_(Owed!vars)
  BY <1>8 DEF Sticker, Goto
<1>9. ASSUME NEW c \in Calls, Badge(c) PROVE [Owed!Next]_(Owed!vars)
  BY <1>9 DEF Badge, Goto
<1>10. ASSUME NEW c \in Calls, Item(c) PROVE [Owed!Next]_(Owed!vars)
  <2>1. c \in Scans
    BY <1>10 DEF Item, Typed, SettleSeen
  <2>2. DeedOf[c] \in Booths /\ items[DeedOf[c]] = 0
    BY <1>10, <2>1, Constants DEF Item, Once, GivenIsFlagged, Working
  <2>3. items' = [items EXCEPT ![DeedOf[c]] = 1] /\ UNCHANGED <<balance, credited>>
    BY <1>10, <2>2 DEF Item, Typed, TypeOK
  <2>4. Owed!HandOut(DeedOf[c])
    BY <2>2, <2>3 DEF Owed!HandOut
  <2> QED BY <2>2, <2>4 DEF Owed!Next
<1>11. ASSUME NEW c \in Calls, Close(c) PROVE [Owed!Next]_(Owed!vars)
  BY <1>11 DEF Close, Goto
<1>12. ASSUME NEW c \in Calls, Undo(c) PROVE [Owed!Next]_(Owed!vars)
  BY <1>12 DEF Undo, Goto
<1>13. ASSUME NEW c \in Calls, NEW step \in Working, NEW kind, Refused(c, step, kind) PROVE [Owed!Next]_(Owed!vars)
  BY <1>13 DEF Refused, Fault, Goto
<1>14. ASSUME NEW c \in Calls, Crash(c) PROVE [Owed!Next]_(Owed!vars)
  BY <1>14 DEF Crash, Fault, Goto
<1>15. CASE RaidTurns
  BY <1>15 DEF RaidTurns
<1>16. CASE UNCHANGED vars
  BY <1>16 DEF vars
<1>17. ASSUME NEW c \in Calls, Fails(c) PROVE [Owed!Next]_(Owed!vars)
  BY <1>13, <1>17 DEF Fails
<1> QED BY <1>1, <1>2, <1>3, <1>4, <1>5, <1>6, <1>7, <1>8, <1>9, <1>10, <1>11, <1>12, <1>14, <1>15, <1>16, <1>17 DEF Next, Award, Grants

-----------------------------------------------------------------------------
(* Sums.  The library's sum recurs over a chosen member; that the order of *)
(* the members does not matter is an induction over their number.          *)

\* A set of numbers with zero and the successors of its members has them all.
LEMMA Count ==
  ASSUME NEW T, 0 \in T, \A n \in Nat : n \in T => n + 1 \in T
  PROVE  Nat \subseteq T
<1> DEFINE U == Nat \ T
<1> SUFFICES ASSUME U # {} PROVE FALSE
  OBVIOUS
<1>1. PICK x \in U : \A y \in U : ~(<<y, x>> \in OpToRel(<, Nat))
  BY NatLessThanWellFounded, WFMin, U \subseteq Nat
<1>2. \A y \in U : ~(y < x)
  BY <1>1 DEF OpToRel
<1>3. x # 0 /\ x \in Nat /\ x - 1 \in Nat
  OBVIOUS
<1>4. x - 1 \in T
  BY <1>2, <1>3
<1> QED BY <1>3, <1>4

Total(f, S) == MapThenSumSet(LAMBDA c : f[c], S)

\* What the library's sum unfolds to.
Unfolding(f, S, g) ==
  g = [s \in SUBSET S |->
         IF s = {} THEN 0 ELSE f[CHOOSE x \in s : TRUE] + g[s \ {CHOOSE x \in s : TRUE}]]

LEMMA TotalUnfolds ==
  ASSUME NEW f, NEW S, NEW h, Unfolding(f, S, h)
  PROVE  \E g : Unfolding(f, S, g) /\ Total(f, S) = g[S]
BY DEF Total, MapThenSumSet, MapThenFoldSet, Unfolding

\* h adds up f over the subsets of S, in whatever order.
AddsUp(h, f, S) ==
  /\ h \in [SUBSET S -> Int] /\ h[{}] = 0
  /\ \A s \in SUBSET S, x \in S : x \notin s => h[s \cup {x}] = f[x] + h[s]

LEMMA AddsUpNext ==
  ASSUME NEW f, NEW S, NEW y, y \notin S,
         \A x \in S \cup {y} : f[x] \in Int, NEW h, AddsUp(h, f, S)
  PROVE  \E g : AddsUp(g, f, S \cup {y})
<1> DEFINE g == [s \in SUBSET (S \cup {y}) |-> IF y \in s THEN f[y] + h[s \ {y}] ELSE h[s]]
<1>1. \A s \in SUBSET (S \cup {y}) : s \ {y} \in SUBSET S
  OBVIOUS
<1>2. g \in [SUBSET (S \cup {y}) -> Int] /\ g[{}] = 0
  BY <1>1 DEF AddsUp
<1>3. ASSUME NEW s \in SUBSET (S \cup {y}), NEW x \in S \cup {y}, x \notin s
      PROVE  g[s \cup {x}] = f[x] + g[s]
  <2>1. s \cup {x} \in SUBSET (S \cup {y})
    OBVIOUS
  <2>2. CASE x = y
    <3>1. s \in SUBSET S /\ (s \cup {x}) \ {y} = s
      BY <1>3, <2>2
    <3> QED BY <2>1, <2>2, <3>1
  <2>3. CASE x # y /\ y \in s
    <3>1. /\ s \ {y} \in SUBSET S /\ x \in S /\ x \notin s \ {y}
          /\ (s \cup {x}) \ {y} = (s \ {y}) \cup {x}
      BY <1>3, <2>3
    <3>2. h[(s \ {y}) \cup {x}] = f[x] + h[s \ {y}] /\ h[s \ {y}] \in Int
          /\ h[(s \ {y}) \cup {x}] \in Int
      BY <3>1, (s \ {y}) \cup {x} \in SUBSET S DEF AddsUp
    <3>3. g[s \cup {x}] = f[y] + h[(s \ {y}) \cup {x}] /\ g[s] = f[y] + h[s \ {y}]
      BY <2>1, <2>3, <3>1
    <3> QED BY <1>3, <3>2, <3>3, f[x] \in Int, f[y] \in Int
  <2>4. CASE x # y /\ y \notin s
    BY <1>3, <2>1, <2>4, s \in SUBSET S DEF AddsUp
  <2> QED BY <2>2, <2>3, <2>4
<1>4. AddsUp(g, f, S \cup {y})
  <2> HIDE DEF g
  <2> QED BY <1>2, <1>3 DEF AddsUp
<1> QED BY <1>4

LEMMA AddsUpExists ==
  ASSUME NEW S, IsFiniteSet(S), NEW f, \A x \in S : f[x] \in Int
  PROVE  \E h : AddsUp(h, f, S)
<1> DEFINE T == {n \in Nat : \A s \in SUBSET S : Cardinality(s) = n => \E h : AddsUp(h, f, s)}
<1>1. 0 \in T
  <2>1. AddsUp([s \in {{}} |-> 0], f, {})
    BY DEF AddsUp
  <2>2. \A s \in SUBSET S : Cardinality(s) = 0 => s = {}
    BY FS_Subset, FS_EmptySet
  <2> QED BY <2>1, <2>2
<1>2. ASSUME NEW n \in Nat, n \in T PROVE n + 1 \in T
  <2>1. ASSUME NEW s \in SUBSET S, Cardinality(s) = n + 1 PROVE \E h : AddsUp(h, f, s)
    <3>1. IsFiniteSet(s)
      BY FS_Subset
    <3>2. PICK y \in s : TRUE
      BY <2>1, <3>1, FS_EmptySet
    <3>3. Cardinality(s \ {y}) = Cardinality(s) - 1
      BY <3>1, <3>2, FS_RemoveElement
    <3>7. Cardinality(s \ {y}) = n
      BY <2>1, <3>3
    <3>4. PICK h : AddsUp(h, f, s \ {y})
      BY <1>2, <3>7
    <3>5. (s \ {y}) \cup {y} = s
      BY <3>2
    <3>6. \E g : AddsUp(g, f, (s \ {y}) \cup {y})
      <4>1. \A x \in (s \ {y}) \cup {y} : f[x] \in Int
        BY <3>5
      <4>2. y \notin s \ {y}
        OBVIOUS
      <4> HIDE DEF T
      <4> QED BY <3>4, <4>1, <4>2, AddsUpNext
    <3> QED BY <3>5, <3>6
  <2> QED BY <2>1
<1>3. Nat \subseteq T
  <2> HIDE DEF T
  <2> QED BY <1>1, <1>2, Count
<1>4. Cardinality(S) \in Nat
  BY FS_CardinalityType
<1> QED BY <1>3, <1>4

\* The library's sum is the one function that adds up.
LEMMA TotalAddsUp ==
  ASSUME NEW R, IsFiniteSet(R), NEW S \in SUBSET R, NEW f, NEW h, AddsUp(h, f, R)
  PROVE  Total(f, S) = h[S]
<1> DEFINE any(s) == CHOOSE x \in s : TRUE
           k == [s \in SUBSET S |-> h[s]]
<1>0. SUBSET S \subseteq SUBSET R
  OBVIOUS
<1>1. \A s \in SUBSET S : s # {} => any(s) \in s /\ h[s] = f[any(s)] + h[s \ {any(s)}]
  <2> TAKE s \in SUBSET S
  <2> SUFFICES ASSUME s # {} PROVE any(s) \in s /\ h[s] = f[any(s)] + h[s \ {any(s)}]
    OBVIOUS
  <2>1. any(s) \in s
    OBVIOUS
  <2> HIDE DEF any
  <2>2. s \ {any(s)} \in SUBSET R /\ any(s) \in R /\ (s \ {any(s)}) \cup {any(s)} = s
    BY <2>1
  <2>3. any(s) \notin s \ {any(s)}
    OBVIOUS
  <2>4. h[(s \ {any(s)}) \cup {any(s)}] = f[any(s)] + h[s \ {any(s)}]
    BY <2>2, <2>3 DEF AddsUp
  <2> QED BY <2>1, <2>2, <2>4
<1>2. Unfolding(f, S, k)
  <2>1. \A s \in SUBSET S : k[s] = IF s = {} THEN 0 ELSE f[any(s)] + k[s \ {any(s)}]
    BY <1>1 DEF AddsUp
  <2> QED BY <2>1 DEF Unfolding
<1>3. PICK g : Unfolding(f, S, g) /\ Total(f, S) = g[S]
  BY <1>2, TotalUnfolds
<1>4. \A s \in SUBSET S : g[s] = IF s = {} THEN 0 ELSE f[any(s)] + g[s \ {any(s)}]
  BY <1>3 DEF Unfolding
<1> HIDE DEF any
<1> DEFINE T == {n \in Nat : \A s \in SUBSET S : Cardinality(s) = n => g[s] = h[s]}
<1>5. 0 \in T
  <2>1. \A s \in SUBSET S : Cardinality(s) = 0 => s = {}
    BY FS_Subset, FS_EmptySet
  <2> QED BY <1>4, <2>1 DEF AddsUp
<1>6. ASSUME NEW n \in Nat, n \in T PROVE n + 1 \in T
  <2>1. ASSUME NEW s \in SUBSET S, Cardinality(s) = n + 1 PROVE g[s] = h[s]
    <3>1. IsFiniteSet(s)
      BY FS_Subset
    <3>2. s # {}
      BY <2>1, <3>1, FS_EmptySet
    <3>3. any(s) \in s /\ h[s] = f[any(s)] + h[s \ {any(s)}]
      BY <1>1, <3>2
    <3>4. \A x \in s : Cardinality(s \ {x}) = Cardinality(s) - 1
      BY <3>1, FS_RemoveElement
    <3>7. Cardinality(s \ {any(s)}) = n
      BY <2>1, <3>3, <3>4
    <3>5. g[s \ {any(s)}] = h[s \ {any(s)}]
      BY <1>6, <3>7
    <3>6. g[s] = f[any(s)] + g[s \ {any(s)}]
      BY <1>4, <3>2
    <3> QED BY <3>3, <3>5, <3>6
  <2> QED BY <2>1
<1>7. Nat \subseteq T
  <2> HIDE DEF T
  <2> QED BY <1>5, <1>6, Count
<1>8. IsFiniteSet(S) /\ Cardinality(S) \in Nat
  BY FS_Subset, FS_CardinalityType
<1> QED BY <1>3, <1>7, <1>8

\* One more term.
LEMMA TotalAdd ==
  ASSUME NEW S, IsFiniteSet(S), NEW y, y \notin S, NEW f, \A x \in S \cup {y} : f[x] \in Int
  PROVE  Total(f, S \cup {y}) = f[y] + Total(f, S) /\ Total(f, S) \in Int
<1>1. IsFiniteSet(S \cup {y})
  BY FS_AddElement
<1>2. PICK h : AddsUp(h, f, S \cup {y})
  BY <1>1, AddsUpExists
<1>3. Total(f, S \cup {y}) = h[S \cup {y}] /\ Total(f, S) = h[S]
  BY <1>1, <1>2, TotalAddsUp, S \in SUBSET (S \cup {y}), S \cup {y} \in SUBSET (S \cup {y})
<1> QED BY <1>2, <1>3 DEF AddsUp

\* Only the terms count.
LEMMA TotalSame ==
  ASSUME NEW S, IsFiniteSet(S), NEW f, NEW g, \A x \in S : f[x] \in Int /\ g[x] = f[x]
  PROVE  Total(g, S) = Total(f, S)
<1>1. PICK h : AddsUp(h, f, S)
  BY AddsUpExists
<1>2. AddsUp(h, g, S)
  BY <1>1 DEF AddsUp
<1> QED BY <1>1, <1>2, TotalAddsUp, S \in SUBSET S

\* No terms.
LEMMA TotalNone == ASSUME NEW f PROVE Total(f, {}) = 0
<1>1. AddsUp([s \in {{}} |-> 0], f, {})
  BY DEF AddsUp
<1> QED BY <1>1, TotalAddsUp, FS_EmptySet

-----------------------------------------------------------------------------
(* The ledger and the balance                                              *)

Crediting == {c \in Calls : pc[c] = "credit"}
Explained == IsFiniteSet(Crediting) /\ Recorded = balance + leaked + Total(grant, Crediting)

LEMMA RecordedType == TypeOK => Recorded \in Nat
<1> SUFFICES ASSUME TypeOK PROVE Recorded \in Nat
  OBVIOUS
<1>1. ledger["BOOTH"] \in Nat \cup {NoRow} /\ ledger["QUEST"] \in Nat \cup {NoRow}
  BY Constants DEF TypeOK
<1>2. Spent(ledger["BOOTH"]) \in Nat /\ Spent(ledger["QUEST"]) \in Nat
  BY <1>1, SpentType
<1> QED BY <1>2 DEF Recorded

LEMMA ExplainedInit == Init => Explained
<1> SUFFICES ASSUME Init PROVE Explained
  OBVIOUS
<1>1. Crediting = {}
  BY DEF Init, Crediting
<1>2. balance = Recorded /\ leaked = 0 /\ balance \in Nat
  BY TypeInit DEF Init, Typed, TypeOK
<1> QED BY <1>1, <1>2, TotalNone, FS_EmptySet DEF Explained

\* A step that moves no call into or out of the two writes.
LEMMA NothingCredited ==
  ASSUME Typed, Explained, Crediting' = Crediting,
         \A e \in Crediting : grant'[e] = grant[e],
         ledger' = ledger, balance' = balance, leaked' = leaked
  PROVE  Explained'
<1>1. \A e \in Crediting : grant[e] \in Int /\ grant'[e] = grant[e]
  BY DEF Typed, TypeOK, Crediting
<1>2. Total(grant', Crediting) = Total(grant, Crediting)
  BY <1>1, TotalSame DEF Explained
<1>3. Total(grant, Crediting)' = Total(grant', Crediting')
  OBVIOUS
<1>4. Recorded' = Recorded
  BY DEF Recorded
<1> QED BY <1>2, <1>3, <1>4 DEF Explained

\* A call leaves with its grant, on the balance or lost.
LEMMA GrantLeaves ==
  ASSUME Typed, Explained, NEW c \in Crediting, Crediting' = Crediting \ {c},
         grant' = grant, ledger' = ledger,
         balance' \in Nat, leaked' \in Nat, balance' + leaked' = balance + leaked + grant[c]
  PROVE  Explained'
<1> DEFINE rest == Crediting \ {c}
<1>1. IsFiniteSet(rest) /\ c \notin rest /\ rest \cup {c} = Crediting
  BY FS_RemoveElement DEF Explained
<1>2. grant[c] \in Int /\ \A e \in rest \cup {c} : grant[e] \in Int
  BY <1>1 DEF Typed, TypeOK, Crediting
<1> HIDE DEF rest
<1>3. Total(grant, rest \cup {c}) = grant[c] + Total(grant, rest) /\ Total(grant, rest) \in Int
  BY <1>1, <1>2, TotalAdd
<1>4. Total(grant, Crediting)' = Total(grant, rest)
  BY DEF rest
<1>5. Recorded' = Recorded
  BY DEF Recorded
<1>6. balance \in Nat /\ leaked \in Nat
  BY DEF Typed, TypeOK
<1>7. Recorded = balance + leaked + (grant[c] + Total(grant, rest))
  BY <1>1, <1>3 DEF Explained
<1>8. Recorded' = balance' + leaked' + Total(grant, rest)
  BY <1>2, <1>3, <1>5, <1>6, <1>7
<1>9. IsFiniteSet(Crediting)'
  BY <1>1 DEF rest
<1> QED BY <1>4, <1>8, <1>9 DEF Explained

\* A call's write to the ledger is on its way to the balance.
LEMMA GrantEnters ==
  ASSUME Typed, Explained, NEW c \in Calls, c \notin Crediting, Crediting' = Crediting \cup {c},
         grant' = grant, Recorded' = Recorded + grant[c], balance' = balance, leaked' = leaked
  PROVE  Explained'
<1>1. IsFiniteSet(Crediting) /\ IsFiniteSet(Crediting \cup {c})
  BY FS_AddElement DEF Explained
<1>2. grant[c] \in Int /\ \A e \in Crediting \cup {c} : grant[e] \in Int
  BY DEF Typed, TypeOK, Crediting
<1>3. /\ Total(grant, Crediting \cup {c}) = grant[c] + Total(grant, Crediting)
      /\ Total(grant, Crediting) \in Int
  BY <1>1, <1>2, TotalAdd
<1>4. Total(grant, Crediting)' = Total(grant, Crediting \cup {c})
  OBVIOUS
<1>5. balance \in Nat /\ leaked \in Nat
  BY DEF Typed, TypeOK
<1>6. Recorded = balance + leaked + Total(grant, Crediting)
  BY DEF Explained
<1>7. Recorded' = balance + leaked + (grant[c] + Total(grant, Crediting))
  BY <1>2, <1>3, <1>5, <1>6
<1>8. IsFiniteSet(Crediting)'
  BY <1>1
<1> QED BY <1>3, <1>4, <1>7, <1>8 DEF Explained

\* The write to the ledger records the grant under the call's source.
LEMMA WriteIsRecorded ==
  ASSUME Typed, NEW c \in Calls, ledger' = [ledger EXCEPT ![SourceOf(c)] = TotalAfter(c)]
  PROVE  Recorded' = Recorded + grant[c]
<1>1. ledger["BOOTH"] \in Nat \cup {NoRow} /\ ledger["QUEST"] \in Nat \cup {NoRow}
  BY Constants DEF Typed, TypeOK
<1>2. Spent(ledger["BOOTH"]) \in Nat /\ Spent(ledger["QUEST"]) \in Nat /\ grant[c] \in Nat
  BY <1>1, SpentType DEF Typed, TypeOK
<1>3. Recorded = Spent(ledger["BOOTH"]) + Spent(ledger["QUEST"])
  BY DEF Recorded
<1>4. Recorded' = Spent(ledger'["BOOTH"]) + Spent(ledger'["QUEST"])
  BY DEF Recorded, Spent
<1>5. \A n \in Nat : Spent(n) = n
  BY DEF Spent, NoRow
<1>6. ledger \in [Sources -> Nat \cup {NoRow}] /\ Sources = {"BOOTH", "QUEST"}
  BY DEF Typed, TypeOK, Sources
<1>7. CASE SourceOf(c) = "BOOTH"
  <2>1. ledger'["BOOTH"] = Spent(ledger["BOOTH"]) + grant[c] /\ ledger'["QUEST"] = ledger["QUEST"]
    BY <1>6, <1>7 DEF TotalAfter
  <2>2. Spent(ledger'["BOOTH"]) = Spent(ledger["BOOTH"]) + grant[c]
    BY <1>2, <1>5, <2>1
  <2> QED BY <1>2, <1>3, <1>4, <2>1, <2>2
<1>8. CASE SourceOf(c) = "QUEST"
  <2>1. ledger'["QUEST"] = Spent(ledger["QUEST"]) + grant[c] /\ ledger'["BOOTH"] = ledger["BOOTH"]
    BY <1>6, <1>8 DEF TotalAfter
  <2>2. Spent(ledger'["QUEST"]) = Spent(ledger["QUEST"]) + grant[c]
    BY <1>2, <1>5, <2>1
  <2> QED BY <1>2, <1>3, <1>4, <2>1, <2>2
<1> QED BY <1>7, <1>8 DEF SourceOf

\* A booth's event is emitted once: by then nobody works on the booth, and its
\* row stays.
EmittedOnce ==
    \A s \in Scans : pc[AdvanceOf[s]] # "waiting" =>
       /\ DeedOf[s] \in claimed
       /\ \A t \in Scans : DeedOf[t] = DeedOf[s] => pc[t] \notin Working
Held == ClaimIsHeld /\ EmittedOnce

LEMMA HeldInit == Init => Held
<1> SUFFICES ASSUME Init PROVE Held
  OBVIOUS
<1>1. \A c \in Calls : pc[c] \notin Working
  BY DEF Init, Working
<1>2. \A s \in Scans : AdvanceOf[s] \in Advances /\ AdvanceOf[s] \in Calls
  BY RewardsAssumption DEF RewardsAssumption, Calls
<1>3. \A s \in Scans : pc[AdvanceOf[s]] = "waiting"
  BY <1>2 DEF Init
<1> QED BY <1>1, <1>3 DEF Held, ClaimIsHeld, EmittedOnce

LEMMA HeldStep == Typed /\ Held /\ [Next]_vars => Held'
<1> SUFFICES ASSUME Typed, Held, [Next]_vars PROVE Held'
  OBVIOUS
<1> USE DEF accountVars, grantVars, callVars
<1>0. pc \in [Calls -> {"idle", "waiting", "settle", "spend", "take", "credit", "tier",
                        "sticker", "badge", "item", "close", "undo", "done"}]
  BY DEF Typed, TypeOK
<1>1. /\ \A s \in Scans : AdvanceOf[s] \in Advances /\ AdvanceOf[s] \in Calls /\ AdvanceOf[s] \notin Scans
      /\ \A s, t \in Scans : AdvanceOf[s] = AdvanceOf[t] => DeedOf[s] = DeedOf[t]
      /\ \A s \in Scans, a \in Advances : DeedOf[s] # DeedOf[a]
  BY RewardsAssumption, Constants DEF RewardsAssumption, Calls
\* A call that works on, or is done.
<1>2. ASSUME NEW c \in Calls, NEW step, step # "waiting", pc' = [pc EXCEPT ![c] = step],
             step \in Working => pc[c] \in Working, pc[c] # "waiting", claimed' = claimed
      PROVE  Held'
  <2>1. \A e \in Calls : /\ pc'[e] \in Working => pc[e] \in Working
                         /\ pc'[e] = "waiting" <=> pc[e] = "waiting"
    BY <1>0, <1>2
  <2>2. ClaimIsHeld'
    BY <1>2, <2>1 DEF Held, ClaimIsHeld
  <2>3. EmittedOnce'
    BY <1>1, <1>2, <2>1, Constants DEF Held, EmittedOnce
  <2> QED BY <2>2, <2>3 DEF Held
\* A call that claims its deed.
<1>3. ASSUME NEW c \in Calls, DeedOf[c] \notin claimed, claimed' = claimed \cup {DeedOf[c]},
             pc' = [pc EXCEPT ![c] = "spend"], pc[c] # "waiting"
      PROVE  Held'
  <2>1. \A e \in Calls : e # c => pc'[e] = pc[e]
    BY <1>0, <1>3
  <2>2. ClaimIsHeld'
    BY <1>0, <1>3 DEF Held, ClaimIsHeld, Working
  <2>3. EmittedOnce'
    BY <1>0, <1>1, <1>3, <2>1, Constants DEF Held, EmittedOnce, Calls
  <2> QED BY <2>2, <2>3 DEF Held
<1>4. ASSUME NEW c \in Calls,
             ClaimProgress(c) \/ SpendRead(c) \/ SpendWrite(c) \/ Credit(c) \/ TierWrite(c)
                \/ Sticker(c) \/ Badge(c) \/ Item(c) \/ Crash(c)
      PROVE  Held'
  <2>1. /\ claimed' = claimed /\ pc[c] # "waiting"
        /\ \E step : /\ step # "waiting" /\ pc' = [pc EXCEPT ![c] = step]
                     /\ step \in Working => pc[c] \in Working
    BY <1>4 DEF ClaimProgress, SpendRead, SpendWrite, Credit, TierWrite, Sticker, Badge, Item,
                Crash, Goto, Working
  <2> QED BY <1>2, <2>1
<1>5. ASSUME NEW c \in Calls, ScanInsert(c) PROVE Held'
  BY <1>2, <1>3, <1>5 DEF ScanInsert, NotYetScanned, Goto, Working
<1>6. ASSUME NEW c \in Calls, Settle(c) PROVE Held'
  BY <1>2, <1>3, <1>6 DEF Settle, NotYetSettled, Goto, Working
<1>7. ASSUME NEW c \in Calls, NEW step \in Working, NEW kind, Refused(c, step, kind) PROVE Held'
  BY <1>2, <1>7 DEF Refused, Goto, Working
<1>8. ASSUME NEW c \in Calls, Close(c) PROVE Held'
  <2>1. /\ pc[c] = "close" /\ pc' = [pc EXCEPT ![c] = "done", ![AdvanceOf[c]] = "idle"]
        /\ claimed' = claimed /\ c \in Scans
    BY <1>8 DEF Close, Typed, SettleSeen
  <2>2. \A e \in Calls : /\ pc'[e] \in Working => pc[e] \in Working /\ e # c
                         /\ e # AdvanceOf[c] /\ pc[e] = "waiting" => pc'[e] = "waiting"
    BY <1>0, <2>1 DEF Working
  <2>3. ClaimIsHeld'
    BY <2>1, <2>2 DEF Held, ClaimIsHeld
  <2>4. /\ DeedOf[c] \in claimed
        /\ \A t \in Scans : DeedOf[t] = DeedOf[c] /\ t # c => pc[t] \notin Working
    BY <2>1, Constants DEF Held, ClaimIsHeld, Working
  <2>5. ASSUME NEW s \in Scans, pc'[AdvanceOf[s]] # "waiting"
        PROVE  /\ DeedOf[s] \in claimed'
               /\ \A t \in Scans : DeedOf[t] = DeedOf[s] => pc'[t] \notin Working
    <3>1. CASE AdvanceOf[s] = AdvanceOf[c]
      BY <1>1, <2>1, <2>2, <2>4, <3>1, Constants
    <3>2. CASE AdvanceOf[s] # AdvanceOf[c]
      BY <1>1, <2>1, <2>2, <2>5, <3>2, Constants DEF Held, EmittedOnce
    <3> QED BY <3>1, <3>2
  <2> QED BY <2>3, <2>5 DEF Held, EmittedOnce
<1>9. ASSUME NEW c \in Calls, Undo(c) PROVE Held'
  <2>1. /\ pc[c] = "undo" /\ pc' = [pc EXCEPT ![c] = "done"]
        /\ claimed' \in {claimed, claimed \ {DeedOf[c]}}
    BY <1>9 DEF Undo, Goto
  <2>2. \A e \in Calls : /\ pc'[e] \in Working => pc[e] \in Working /\ e # c
                         /\ pc'[e] = "waiting" <=> pc[e] = "waiting"
    BY <1>0, <2>1 DEF Working
  <2>3. ClaimIsHeld'
    BY <2>1, <2>2 DEF Held, ClaimIsHeld, Working
  <2>4. \A s \in Scans : pc[AdvanceOf[s]] # "waiting" => DeedOf[s] # DeedOf[c]
    BY <1>1, <2>1 DEF Held, EmittedOnce, Working, Calls
  <2>5. EmittedOnce'
    BY <1>1, <2>1, <2>2, <2>4, Constants DEF Held, EmittedOnce
  <2> QED BY <2>3, <2>5 DEF Held
<1>10. CASE RaidTurns \/ UNCHANGED vars
  BY <1>10 DEF RaidTurns, vars, Held, ClaimIsHeld, EmittedOnce
<1>11. ASSUME NEW c \in Calls, Fails(c) PROVE Held'
  BY <1>7, <1>11 DEF Fails, Working
<1> QED BY <1>4, <1>5, <1>6, <1>8, <1>9, <1>10, <1>11 DEF Next, Award, Grants

LEMMA HeldAlways == Spec => []Held
<1>1. Init => Held
  BY HeldInit
<1>2. Typed /\ Held /\ [Next]_vars => Held'
  BY HeldStep
<1> QED BY <1>1, <1>2, TypedAlways, PTL DEF Spec

LEMMA ExplainedStep == Typed /\ Typed' /\ Held /\ Explained /\ [Next]_vars => Explained'
<1> SUFFICES ASSUME Typed, Typed', Held, Explained, [Next]_vars PROVE Explained'
  OBVIOUS
<1> USE DEF accountVars, grantVars, callVars
<1>0. pc \in [Calls -> {"idle", "waiting", "settle", "spend", "take", "credit", "tier",
                        "sticker", "badge", "item", "close", "undo", "done"}]
      /\ grant \in [Calls -> Nat] /\ AdvanceOf \in [Scans -> Advances]
  BY RewardsAssumption DEF RewardsAssumption, Typed, TypeOK
\* The steps that only walk on.
<1>1. ASSUME NEW c \in Calls, pc[c] # "credit", NEW step, step # "credit",
             pc' = [pc EXCEPT ![c] = step],
             grant' \in {grant} \cup {[grant EXCEPT ![c] = n] : n \in Nat},
             ledger' = ledger, balance' = balance, leaked' = leaked
      PROVE  Explained'
  <2>1. Crediting' = Crediting
    BY <1>0, <1>1 DEF Crediting
  <2>2. \A e \in Crediting : grant'[e] = grant[e]
    BY <1>0, <1>1 DEF Crediting
  <2> QED BY <1>1, <2>1, <2>2, NothingCredited
<1>2. ASSUME NEW c \in Calls,
             ScanInsert(c) \/ ClaimProgress(c) \/ Settle(c) \/ TierWrite(c) \/ Sticker(c)
                \/ Badge(c) \/ Item(c) \/ Undo(c)
      PROVE  Explained'
  <2>1. /\ pc[c] # "credit" /\ UNCHANGED <<grant, ledger, balance, leaked>>
        /\ \E step : step # "credit" /\ pc' = [pc EXCEPT ![c] = step]
    BY <1>2 DEF ScanInsert, ClaimProgress, Settle, TierWrite, Sticker, Badge, Item, Undo, Goto
  <2> QED BY <1>1, <2>1
<1>3. ASSUME NEW c \in Calls, SpendRead(c) PROVE Explained'
  <2>1. /\ pc[c] # "credit" /\ UNCHANGED <<ledger, balance, leaked>>
        /\ \E step : step # "credit" /\ pc' = [pc EXCEPT ![c] = step]
    BY <1>3 DEF SpendRead, Goto
  <2>2. \E n : grant' = [grant EXCEPT ![c] = n]
    BY <1>3 DEF SpendRead
  <2>3. \E n \in Nat : grant' = [grant EXCEPT ![c] = n]
    <3>1. grant' \in [Calls -> Nat] /\ grant \in [Calls -> Nat]
      BY DEF Typed, TypeOK
    <3>2. PICK n : grant' = [grant EXCEPT ![c] = n]
      BY <2>2
    <3>3. grant'[c] = n /\ grant'[c] \in Nat
      BY <3>1, <3>2
    <3> QED BY <3>2, <3>3
  <2> QED BY <1>1, <2>1, <2>3
<1>4. ASSUME NEW c \in Calls, SpendWrite(c) PROVE Explained'
  <2>1. CASE StillFits(c)
    <3>1. /\ ledger' = [ledger EXCEPT ![SourceOf(c)] = TotalAfter(c)]
          /\ pc[c] = "take" /\ pc' = [pc EXCEPT ![c] = "credit"]
          /\ UNCHANGED <<grant, balance, leaked>>
      BY <1>4, <2>1 DEF SpendWrite, Goto
    <3>2. c \notin Crediting /\ Crediting' = Crediting \cup {c}
      BY <1>0, <3>1 DEF Crediting
    <3>3. Recorded' = Recorded + grant[c]
      BY <3>1, WriteIsRecorded
    <3> QED BY <3>1, <3>2, <3>3, GrantEnters
  <2>2. CASE ~StillFits(c)
    <3>1. /\ pc[c] # "credit" /\ UNCHANGED <<ledger, balance, leaked>>
          /\ \E step : step # "credit" /\ pc' = [pc EXCEPT ![c] = step]
      BY <1>4, <2>2 DEF SpendWrite, Goto
    <3>2. grant' = grant \/ grant' = [grant EXCEPT ![c] = 0]
      BY <1>4, <2>2 DEF SpendWrite
    <3>3. grant' \in {grant} \cup {[grant EXCEPT ![c] = n] : n \in Nat}
      BY <3>2
    <3> QED BY <1>1, <3>1, <3>3
  <2> QED BY <2>1, <2>2
<1>5. ASSUME NEW c \in Calls, pc[c] = "credit", NEW step, step # "credit",
             pc' = [pc EXCEPT ![c] = step], UNCHANGED <<grant, ledger>>,
             balance' + leaked' = balance + leaked + grant[c]
      PROVE  Explained'
  <2>1. c \in Crediting /\ Crediting' = Crediting \ {c}
    BY <1>0, <1>5 DEF Crediting
  <2>2. balance' \in Nat /\ leaked' \in Nat
    BY DEF Typed, TypeOK
  <2> QED BY <1>5, <2>1, <2>2, GrantLeaves
<1>6. balance \in Nat /\ leaked \in Nat /\ \A c \in Calls : grant[c] \in Nat
  BY DEF Typed, TypeOK
<1>7. ASSUME NEW c \in Calls, Credit(c) PROVE Explained'
  <2>1. /\ pc[c] = "credit" /\ UNCHANGED <<grant, ledger, leaked>>
        /\ balance' = balance + grant[c]
        /\ \E step : step # "credit" /\ pc' = [pc EXCEPT ![c] = step]
    BY <1>7 DEF Credit, Goto
  <2>2. balance' + leaked' = balance + leaked + grant[c]
    BY <1>6, <2>1
  <2> QED BY <1>5, <2>1, <2>2
<1>8. ASSUME NEW c \in Calls, NEW step, step # "credit", pc' = [pc EXCEPT ![c] = step],
             leaked' = leaked + (IF pc[c] = "credit" THEN grant[c] ELSE 0),
             UNCHANGED <<ledger, grant, balance>>
      PROVE  Explained'
  <2>1. CASE pc[c] = "credit"
    <3>1. balance' + leaked' = balance + leaked + grant[c]
      BY <1>6, <1>8, <2>1
    <3> QED BY <1>5, <1>8, <2>1, <3>1
  <2>2. CASE pc[c] # "credit"
    <3>1. leaked' = leaked
      BY <1>6, <1>8, <2>2
    <3> QED BY <1>1, <1>8, <2>2, <3>1
  <2> QED BY <2>1, <2>2
<1>9. ASSUME NEW c \in Calls, NEW step, NEW kind, Refused(c, step, kind) PROVE Explained'
  <2>1. /\ leaked' = leaked + (IF pc[c] = "credit" THEN grant[c] ELSE 0)
        /\ UNCHANGED <<ledger, grant, balance>>
    <3>1. pc[c] = step /\ leaked' = leaked + (IF step = "credit" THEN grant[c] ELSE 0)
      BY <1>9 DEF Refused
    <3>2. UNCHANGED <<ledger, grant, balance>>
      BY <1>9 DEF Refused
    <3> QED BY <3>1, <3>2
  <2>2. pc' = [pc EXCEPT ![c] = "done"] \/ pc' = [pc EXCEPT ![c] = "undo"]
    BY <1>9 DEF Refused, Goto
  <2> QED BY <1>8, <2>1, <2>2
<1>10. ASSUME NEW c \in Calls, Crash(c) PROVE Explained'
  BY <1>8, <1>10 DEF Crash, Goto
<1>11. ASSUME NEW c \in Calls, Close(c) PROVE Explained'
  <2>1. /\ pc[c] = "close" /\ pc' = [pc EXCEPT ![c] = "done", ![AdvanceOf[c]] = "idle"]
        /\ UNCHANGED <<grant, ledger, balance, leaked>> /\ c \in Scans
    BY <1>11 DEF Close, Typed, SettleSeen
  <2>2. pc[AdvanceOf[c]] = "waiting"
    BY <2>1 DEF Held, EmittedOnce, Working
  <2>3. Crediting' = Crediting
    BY <1>0, <2>1, <2>2 DEF Crediting
  <2> QED BY <2>1, <2>3, NothingCredited
<1>12. CASE RaidTurns \/ UNCHANGED vars
  <2>1. UNCHANGED <<pc, grant, ledger, balance, leaked>>
    BY <1>12 DEF RaidTurns, vars
  <2> QED BY <2>1, NothingCredited DEF Crediting
<1>13. ASSUME NEW c \in Calls, Fails(c) PROVE Explained'
  BY <1>9, <1>13 DEF Fails
<1> QED BY <1>2, <1>3, <1>4, <1>7, <1>10, <1>11, <1>12, <1>13 DEF Next, Award, Grants

-----------------------------------------------------------------------------
(* Refusals                                                                *)

\* No more awards of a source than there are attempts at its row.
FewRace ==
    /\ IsFiniteSet(Calls)
    /\ \A s \in Sources : Cardinality({c \in Calls : SourceOf(c) = s}) <= Attempts

\* The other awards of the source that have landed, or will not land any more.
Landed(c) ==
    {e \in Calls \ {c} : /\ SourceOf(e) = SourceOf(c) /\ grant[e] > 0
                         /\ pc[e] \notin {"spend", "take"}}

\* A call that has not claimed has not asked.
NotAsked ==
    \A c \in Calls : pc[c] \in {"idle", "waiting", "settle"} => grant[c] = 0 /\ tries[c] = 0

\* What a call is about to take fitted when it read.
FittedWhenRead ==
    \A c \in Calls : pc[c] = "take" =>
       /\ seen[c] \in Nat \cup {NoRow}
       /\ grant[c] <= Caps[SourceOf(c)] - Spent(seen[c])

\* Every round a call lost, it lost to an award that landed; and so it will be
\* with the round under way if the row has changed since it was read.
LostToOthers ==
    \A c \in Calls :
       /\ pc[c] \in {"spend", "take"} => tries[c] <= Cardinality(Landed(c))
       /\ pc[c] = "take" /\ ledger[SourceOf(c)] # seen[c] => tries[c] < Cardinality(Landed(c))

Rounds == NotAsked /\ FittedWhenRead /\ LostToOthers /\ RefusedMeansFull

\* A call is not one of those it lost to.
LEMMA LandedFewer ==
  ASSUME FewRace, NEW c \in Calls
  PROVE  /\ IsFiniteSet(Landed(c)) /\ Cardinality(Landed(c)) \in Nat
         /\ Cardinality(Landed(c)) < Attempts
<1> DEFINE P == {e \in Calls : SourceOf(e) = SourceOf(c)}
<1>1. IsFiniteSet(P) /\ c \in P /\ Cardinality(P) <= Attempts
  BY Constants, FS_Subset DEF FewRace
<1>2. IsFiniteSet(P \ {c}) /\ Cardinality(P \ {c}) = Cardinality(P) - 1
  BY <1>1, FS_RemoveElement
<1>3. Landed(c) \in SUBSET (P \ {c})
  BY DEF Landed
<1>4. Cardinality(Landed(c)) <= Cardinality(P \ {c}) /\ IsFiniteSet(Landed(c))
  BY <1>2, <1>3, FS_Subset
<1>5. Cardinality(Landed(c)) \in Nat /\ Cardinality(P) \in Nat /\ Attempts \in Nat
  BY <1>1, <1>4, FS_CardinalityType, RewardsAssumption DEF RewardsAssumption
<1> HIDE DEF P
<1> QED BY <1>1, <1>2, <1>4, <1>5

\* What has landed stays, and one more is one more.
LEMMA LandedGrows ==
  ASSUME FewRace, NEW c \in Calls, Landed(c) \subseteq Landed(c)'
  PROVE  /\ Cardinality(Landed(c)) \in Nat /\ Cardinality(Landed(c)') \in Nat
         /\ Cardinality(Landed(c)) <= Cardinality(Landed(c)')
         /\ Landed(c)' # Landed(c) => Cardinality(Landed(c)) < Cardinality(Landed(c)')
<1>1. IsFiniteSet(Landed(c)')
  <2>1. Landed(c)' \in SUBSET Calls
    BY DEF Landed
  <2> QED BY <2>1, FS_Subset DEF FewRace
<1>2. Landed(c) \in SUBSET (Landed(c)')
  OBVIOUS
<1>3. Cardinality(Landed(c)') \in Nat /\ Cardinality(Landed(c)) \in Nat
  BY <1>1, FS_CardinalityType, LandedFewer
<1>4. Cardinality(Landed(c)) <= Cardinality(Landed(c)')
      /\ (Cardinality(Landed(c)) = Cardinality(Landed(c)') => Landed(c) = Landed(c)')
  BY <1>1, <1>2, FS_Subset
<1> QED BY <1>3, <1>4

LEMMA RoundsInit == FewRace /\ Init => Rounds
<1> SUFFICES ASSUME FewRace, Init PROVE Rounds
  OBVIOUS
<1>1. \A c \in Calls : pc[c] \in {"idle", "waiting"} /\ want[c] = 0 /\ grant[c] = 0 /\ tries[c] = 0
  BY DEF Init
<1> QED BY <1>1 DEF Rounds, NotAsked, FittedWhenRead, LostToOthers, RefusedMeansFull

\* After a step of c the other calls are in their rounds as before.
OthersKeep(c) ==
    \A e \in Calls \ {c} :
       /\ pc'[e] \in {"idle", "waiting", "settle"} => grant'[e] = 0 /\ tries'[e] = 0
       /\ pc'[e] = "take" => /\ seen'[e] \in Nat \cup {NoRow}
                             /\ grant'[e] <= Caps[SourceOf(e)] - Spent(seen'[e])
       /\ pc'[e] \in {"spend", "take"} => tries'[e] <= Cardinality(Landed(e)')
       /\ pc'[e] = "take" /\ ledger'[SourceOf(e)] # seen'[e] => tries'[e] < Cardinality(Landed(e)')
       /\ want'[e] > 0 /\ grant'[e] = 0 => Spent(ledger'[SourceOf(e)]) = Caps[SourceOf(e)]

LEMMA OthersRounds ==
  ASSUME FewRace, Typed, Rounds, NEW c \in Calls, NEW step, pc' = [pc EXCEPT ![c] = step],
         \A e \in Calls \ {c} : /\ seen'[e] = seen[e] /\ want'[e] = want[e]
                                /\ grant'[e] = grant[e] /\ tries'[e] = tries[e],
         ledger' = ledger,
         \/ step \notin {"spend", "take"} /\ grant'[c] = grant[c]
         \/ pc[c] \in {"spend", "take"}
         \/ grant[c] = 0
  PROVE  /\ pc'[c] = step
         /\ Landed(c)' = Landed(c)
         /\ OthersKeep(c)
<1>1. /\ pc'[c] = step
      /\ \A e \in Calls \ {c} : pc'[e] = pc[e]
  BY DEF Typed, TypeOK
<1>2. Landed(c)' = Landed(c)
  BY <1>1 DEF Landed
<1>3. \A e \in Calls \ {c} : Landed(e) \subseteq Landed(e)'
  BY <1>1 DEF Landed
<1>4. ASSUME NEW e \in Calls \ {c}
      PROVE  /\ pc'[e] \in {"spend", "take"} => tries'[e] <= Cardinality(Landed(e)')
             /\ pc'[e] = "take" /\ ledger'[SourceOf(e)] # seen'[e] =>
                   tries'[e] < Cardinality(Landed(e)')
  <2>1. /\ Cardinality(Landed(e)) \in Nat /\ Cardinality(Landed(e)') \in Nat
        /\ Cardinality(Landed(e)) <= Cardinality(Landed(e)')
    BY <1>3, LandedGrows
  <2>2. tries[e] \in Nat
    BY DEF Typed, TypeOK
  <2>3. /\ pc[e] \in {"spend", "take"} => tries[e] <= Cardinality(Landed(e))
        /\ pc[e] = "take" /\ ledger[SourceOf(e)] # seen[e] => tries[e] < Cardinality(Landed(e))
    BY DEF Rounds, LostToOthers
  <2> QED BY <1>1, <2>1, <2>2, <2>3
<1>5. \A e \in Calls \ {c} :
         /\ pc'[e] \in {"idle", "waiting", "settle"} => grant'[e] = 0 /\ tries'[e] = 0
         /\ pc'[e] = "take" => /\ seen'[e] \in Nat \cup {NoRow}
                               /\ grant'[e] <= Caps[SourceOf(e)] - Spent(seen'[e])
         /\ want'[e] > 0 /\ grant'[e] = 0 => Spent(ledger'[SourceOf(e)]) = Caps[SourceOf(e)]
  BY <1>1 DEF Rounds, NotAsked, FittedWhenRead, RefusedMeansFull
<1> QED BY <1>1, <1>2, <1>4, <1>5 DEF OthersKeep

\* A call that walks on outside its rounds, or claims and asks for the first time.
LEMMA RoundsElsewhere ==
  ASSUME FewRace, Typed, Rounds, NEW c \in Calls, NEW step, pc' = [pc EXCEPT ![c] = step],
         step \notin {"idle", "waiting", "take"},
         step \in {"settle", "spend"} => pc[c] \in {"idle", "settle"},
         UNCHANGED <<ledger, want, grant, tries>>,
         seen' = seen \/ \E n : seen' = [seen EXCEPT ![c] = n]
  PROVE  Rounds'
<1>1. /\ \A e \in Calls \ {c} : seen'[e] = seen[e]
      /\ step \in {"settle", "spend"} => grant[c] = 0 /\ tries[c] = 0
  BY DEF Typed, TypeOK, Rounds, NotAsked
<1>2. Cardinality(Landed(c)) \in Nat
  BY LandedFewer
<1>3. /\ pc'[c] = step /\ Landed(c)' = Landed(c)
      /\ OthersKeep(c)
  BY <1>1, OthersRounds
<1>4. NotAsked' /\ FittedWhenRead'
  BY <1>1, <1>3 DEF OthersKeep, NotAsked, FittedWhenRead
<1>5. LostToOthers'
  BY <1>1, <1>2, <1>3 DEF OthersKeep, LostToOthers
<1>6. RefusedMeansFull'
  BY DEF Rounds, RefusedMeansFull
<1> QED BY <1>4, <1>5, <1>6 DEF Rounds

\* The read of a round: what is taken fits, and nothing is taken of a full row.
LEMMA RoundsRead ==
  ASSUME FewRace, Typed, Capped, Rounds, NEW c \in Calls, SpendRead(c)
  PROVE  Rounds'
<1> DEFINE row  == ledger[SourceOf(c)]
           asks == IF tries[c] = 0 THEN Requested(c) ELSE want[c]
           take == Lesser(asks, IF Room(c, Spent(row)) > 0 THEN Room(c, Spent(row)) ELSE 0)
<1>1. row \in Nat \cup {NoRow} /\ Spent(row) \in Nat /\ Spent(row) <= Caps[SourceOf(c)]
  BY Constants, SpentType DEF Typed, TypeOK, Capped, CapHolds
<1>2. Caps[SourceOf(c)] \in Nat
  BY Constants, RewardsAssumption DEF RewardsAssumption
<1>3. asks \in Nat
  BY RequestedInRange DEF Typed, TypeOK
<1>4. /\ take \in Nat /\ take <= Caps[SourceOf(c)] - Spent(row)
      /\ asks > 0 /\ take = 0 => Spent(row) = Caps[SourceOf(c)]
  BY <1>1, <1>2, <1>3 DEF Lesser, Room
<1>5. /\ seen' = [seen EXCEPT ![c] = row] /\ want' = [want EXCEPT ![c] = asks]
      /\ grant' = [grant EXCEPT ![c] = take] /\ tries' = tries /\ ledger' = ledger
      /\ pc[c] = "spend" /\ pc' = [pc EXCEPT ![c] = IF take = 0 THEN "sticker" ELSE "take"]
  BY DEF SpendRead, Goto
<1> DEFINE r == ledger[SourceOf(c)]
<1>6. r = row
  OBVIOUS
<1> HIDE DEF row, asks, take
<1>7. /\ seen'[c] = row /\ want'[c] = asks /\ grant'[c] = take
      /\ \A e \in Calls \ {c} : /\ seen'[e] = seen[e] /\ want'[e] = want[e]
                                /\ grant'[e] = grant[e] /\ tries'[e] = tries[e]
  BY <1>5 DEF Typed, TypeOK
<1>8. /\ pc'[c] = IF take = 0 THEN "sticker" ELSE "take"
      /\ Landed(c)' = Landed(c)
      /\ OthersKeep(c)
  <2> DEFINE step == IF take = 0 THEN "sticker" ELSE "take"
  <2>1. pc' = [pc EXCEPT ![c] = step]
    BY <1>5
  <2> HIDE DEF step
  <2>2. pc'[c] = step /\ Landed(c)' = Landed(c) /\ OthersKeep(c)
    BY <1>5, <1>7, <2>1, OthersRounds
  <2> QED BY <2>2 DEF step
<1>9. tries[c] <= Cardinality(Landed(c))
  BY <1>5 DEF Rounds, LostToOthers
<1>10. NotAsked'
  BY <1>8 DEF OthersKeep, NotAsked
<1>11. FittedWhenRead'
  BY <1>1, <1>4, <1>7, <1>8 DEF OthersKeep, FittedWhenRead
<1>12. LostToOthers'
  BY <1>5, <1>6, <1>7, <1>8, <1>9 DEF OthersKeep, LostToOthers
<1>13. RefusedMeansFull'
  BY <1>4, <1>5, <1>6, <1>7, <1>8 DEF OthersKeep, RefusedMeansFull
<1> QED BY <1>10, <1>11, <1>12, <1>13 DEF Rounds

\* An award that lands is one more that the others may have lost to.
LEMMA RoundsLand ==
  ASSUME FewRace, Typed, Capped, Capped', Rounds, NEW c \in Calls, SpendWrite(c), StillFits(c)
  PROVE  Rounds'
<1> DEFINE s == SourceOf(c)
<1>1. /\ s \in Sources /\ Caps[s] \in Nat /\ grant[c] \in Nat /\ grant[c] > 0
      /\ ledger[s] \in Nat \cup {NoRow} /\ pc[c] = "take"
  BY Constants, RewardsAssumption
     DEF RewardsAssumption, SpendWrite, Typed, TypeOK, Capped, InRange
<1>2. /\ ledger' = [ledger EXCEPT ![s] = TotalAfter(c)]
      /\ pc' = [pc EXCEPT ![c] = "credit"] /\ UNCHANGED <<want, grant, tries, seen>>
  BY DEF SpendWrite, Goto
<1>3. /\ pc'[c] = "credit"
      /\ \A e \in Calls \ {c} : pc'[e] = pc[e]
      /\ \A t \in Sources : t # s => ledger'[t] = ledger[t]
      /\ ledger'[s] = TotalAfter(c)
  BY <1>1, <1>2 DEF Typed, TypeOK
<1>4. \A e \in Calls : Landed(e) \subseteq Landed(e)'
  BY <1>1, <1>2, <1>3 DEF Landed
<1>5. \A e \in Calls \ {c} : SourceOf(e) = s => c \in Landed(e)' /\ c \notin Landed(e)
  BY <1>1, <1>2, <1>3 DEF Landed
<1>6. NotAsked' /\ FittedWhenRead'
  BY <1>2, <1>3 DEF Rounds, NotAsked, FittedWhenRead
<1>7. LostToOthers'
  <2> SUFFICES ASSUME NEW e \in Calls \ {c}, pc[e] \in {"spend", "take"}
               PROVE  /\ tries[e] <= Cardinality(Landed(e)')
                      /\ pc[e] = "take" /\ ledger'[SourceOf(e)] # seen[e] =>
                            tries[e] < Cardinality(Landed(e)')
    BY <1>2, <1>3 DEF LostToOthers
  <2>1. /\ Cardinality(Landed(e)) \in Nat /\ Cardinality(Landed(e)') \in Nat
        /\ Cardinality(Landed(e)) <= Cardinality(Landed(e)')
        /\ Landed(e)' # Landed(e) => Cardinality(Landed(e)) < Cardinality(Landed(e)')
    BY <1>4, LandedGrows
  <2>2. /\ tries[e] \in Nat /\ SourceOf(e) \in Sources /\ tries[e] <= Cardinality(Landed(e))
        /\ pc[e] = "take" /\ ledger[SourceOf(e)] # seen[e] => tries[e] < Cardinality(Landed(e))
    BY Constants DEF Typed, TypeOK, Rounds, LostToOthers
  <2>3. CASE SourceOf(e) = s
    <3>1. Landed(e)' # Landed(e)
      BY <1>5, <2>3
    <3> QED BY <2>1, <2>2, <3>1
  <2>4. CASE SourceOf(e) # s
    <3>1. ledger'[SourceOf(e)] = ledger[SourceOf(e)]
      BY <1>3, <2>2, <2>4
    <3> QED BY <2>1, <2>2, <3>1
  <2> QED BY <2>3, <2>4
<1>8. RefusedMeansFull'
  <2> SUFFICES ASSUME NEW e \in Calls, want[e] > 0, grant[e] = 0
               PROVE  Spent(ledger'[SourceOf(e)]) = Caps[SourceOf(e)]
    BY <1>2 DEF RefusedMeansFull
  <2>1. SourceOf(e) \in Sources /\ Spent(ledger[SourceOf(e)]) = Caps[SourceOf(e)]
    BY Constants DEF Rounds, RefusedMeansFull
  <2>2. CASE SourceOf(e) = s
    <3>1. Spent(ledger[s]) \in Nat /\ TotalAfter(c) = Spent(ledger[s]) + grant[c]
      BY <1>1, SpentType DEF TotalAfter
    <3>2. Spent(ledger'[s]) = TotalAfter(c)
      BY <1>1, <1>3, <3>1 DEF Spent, NoRow
    <3>3. Spent(ledger'[s]) <= Caps[s]
      BY <1>1 DEF Capped, CapHolds
    <3> QED BY <1>1, <2>1, <2>2, <3>1, <3>2, <3>3
  <2>3. CASE SourceOf(e) # s
    BY <1>3, <2>1, <2>3
  <2> QED BY <2>2, <2>3
<1> QED BY <1>6, <1>7, <1>8 DEF Rounds

\* A lost round was lost to somebody, so there is another attempt.
LEMMA RoundsLose ==
  ASSUME FewRace, Typed, Capped, Rounds, NEW c \in Calls, SpendWrite(c), ~StillFits(c)
  PROVE  Rounds'
<1> DEFINE s == SourceOf(c)
<1>1. /\ s \in Sources /\ Caps[s] \in Nat /\ grant[c] \in Nat /\ tries[c] \in Nat
      /\ ledger[s] \in Nat \cup {NoRow} /\ pc[c] = "take"
      /\ seen[c] \in Nat \cup {NoRow} /\ grant[c] <= Caps[s] - Spent(seen[c])
  BY Constants, RewardsAssumption
     DEF RewardsAssumption, SpendWrite, Typed, TypeOK, Rounds, FittedWhenRead
<1>2. ledger[s] # seen[c]
  BY <1>1 DEF StillFits, Spent, NoRow
<1>3. tries[c] < Cardinality(Landed(c)) /\ Cardinality(Landed(c)) \in Nat
      /\ Cardinality(Landed(c)) < Attempts
  BY <1>1, <1>2, LandedFewer DEF Rounds, LostToOthers
<1>4. Attempts \in Nat
  BY RewardsAssumption DEF RewardsAssumption
<1>5. tries' = [tries EXCEPT ![c] = @ + 1] /\ tries'[c] = tries[c] + 1
  BY DEF SpendWrite, Typed, TypeOK
<1>6. tries'[c] # Attempts /\ tries'[c] <= Cardinality(Landed(c))
  BY <1>1, <1>3, <1>4, <1>5
<1>7. /\ pc' = [pc EXCEPT ![c] = "spend"] /\ UNCHANGED <<ledger, grant, seen, want>>
  BY <1>6 DEF SpendWrite, Goto
<1>8. \A e \in Calls \ {c} : tries'[e] = tries[e]
  BY <1>5 DEF Typed, TypeOK
<1>9. /\ pc'[c] = "spend" /\ Landed(c)' = Landed(c)
      /\ OthersKeep(c)
  BY <1>1, <1>7, <1>8, OthersRounds
<1>10. NotAsked' /\ FittedWhenRead'
  BY <1>9 DEF OthersKeep, NotAsked, FittedWhenRead
<1>11. LostToOthers'
  BY <1>6, <1>9 DEF OthersKeep, LostToOthers
<1>12. RefusedMeansFull'
  BY <1>7 DEF Rounds, RefusedMeansFull
<1> QED BY <1>10, <1>11, <1>12 DEF Rounds

\* The event of a finished scan starts an advance that has not asked before.
LEMMA RoundsClose ==
  ASSUME FewRace, Typed, Held, Rounds, NEW c \in Calls, Close(c)
  PROVE  Rounds'
<1> DEFINE a == AdvanceOf[c]
<1>1. /\ pc[c] = "close" /\ pc' = [pc EXCEPT ![c] = "done", ![a] = "idle"] /\ c \in Scans
      /\ UNCHANGED <<ledger, grant, seen, want, tries>>
  BY DEF Close, Typed, SettleSeen, callVars
<1>2. a \in Advances /\ a \in Calls /\ a # c
  BY <1>1, RewardsAssumption DEF RewardsAssumption, Calls
<1>3. pc[a] = "waiting"
  BY <1>1 DEF Held, EmittedOnce, Working
<1>4. /\ pc'[c] = "done" /\ pc'[a] = "idle" /\ grant[a] = 0 /\ tries[a] = 0
      /\ \A e \in Calls : e # c /\ e # a => pc'[e] = pc[e]
  BY <1>1, <1>2, <1>3 DEF Typed, TypeOK, Rounds, NotAsked
<1>5. \A e \in Calls : Landed(e)' = Landed(e)
  BY <1>1, <1>2, <1>3, <1>4 DEF Landed
<1>6. NotAsked' /\ FittedWhenRead' /\ RefusedMeansFull'
  BY <1>1, <1>2, <1>4 DEF Rounds, NotAsked, FittedWhenRead, RefusedMeansFull
<1>7. LostToOthers'
  BY <1>1, <1>2, <1>4, <1>5 DEF Rounds, LostToOthers
<1> QED BY <1>6, <1>7 DEF Rounds

LEMMA RoundsStep == FewRace /\ Typed /\ Capped /\ Capped' /\ Held /\ Rounds /\ [Next]_vars => Rounds'
<1> SUFFICES ASSUME FewRace, Typed, Capped, Capped', Held, Rounds, [Next]_vars PROVE Rounds'
  OBVIOUS
<1> USE DEF accountVars, grantVars, callVars
<1>1. ASSUME NEW c \in Calls,
             ScanInsert(c) \/ ClaimProgress(c) \/ Settle(c) \/ Credit(c) \/ TierWrite(c)
                \/ Sticker(c) \/ Badge(c) \/ Item(c) \/ Undo(c) \/ Crash(c)
      PROVE  Rounds'
  <2>1. /\ UNCHANGED <<ledger, want, grant, tries>>
        /\ seen' = seen \/ \E n : seen' = [seen EXCEPT ![c] = n]
    BY <1>1 DEF ScanInsert, ClaimProgress, Settle, Credit, TierWrite, Sticker, Badge, Item, Undo, Crash
  <2>2. \E step : /\ pc' = [pc EXCEPT ![c] = step] /\ step \notin {"idle", "waiting", "take"}
                  /\ step \in {"settle", "spend"} => pc[c] \in {"idle", "settle"}
    BY <1>1 DEF ScanInsert, ClaimProgress, Settle, Credit, TierWrite, Sticker, Badge, Item, Undo,
                Crash, Goto
  <2> QED BY <2>1, <2>2, RoundsElsewhere
<1>2. ASSUME NEW c \in Calls, Fails(c) PROVE Rounds'
  <2>1. UNCHANGED <<ledger, want, grant, tries, seen>>
    BY <1>2 DEF Fails, Refused
  <2>2. \E step \in {"undo", "done"} : pc' = [pc EXCEPT ![c] = step]
    BY <1>2 DEF Fails, Refused, Goto
  <2> QED BY <2>1, <2>2, RoundsElsewhere
<1>3. ASSUME NEW c \in Calls, SpendWrite(c) PROVE Rounds'
  BY <1>3, RoundsLand, RoundsLose
<1>4. CASE RaidTurns \/ UNCHANGED vars
  <2>1. UNCHANGED <<pc, ledger, want, grant, tries, seen>>
    BY <1>4 DEF RaidTurns, vars
  <2>2. \A e \in Calls : Landed(e)' = Landed(e)
    BY <2>1 DEF Landed
  <2> QED BY <2>1, <2>2 DEF Rounds, NotAsked, FittedWhenRead, LostToOthers, RefusedMeansFull
<1> QED BY <1>1, <1>2, <1>3, <1>4, RoundsRead, RoundsClose DEF Next, Award, Grants

-----------------------------------------------------------------------------
(* Theorems                                                                *)

LEMMA CappedAlways == Spec => []Capped
<1>1. Init => Capped
  BY CapInit
<1>2. Typed /\ Capped /\ [Next]_vars => Capped'
  BY CapStep
<1> QED BY <1>1, <1>2, TypedAlways, PTL DEF Spec

\* For any number of racing awards and any faults, no source pays more in a
\* day than its cap.
THEOREM CapIsKept == Spec => []CapHolds
<1>1. Capped => CapHolds
  BY DEF Capped
<1> QED BY <1>1, CappedAlways, PTL

\* The tier label is never ahead of the balance.
THEOREM TierIsEarned == Spec => []TierNeverAhead
<1>1. Init => Labelled
  BY TierInit
<1>2. Typed /\ Capped /\ Labelled /\ [Next]_vars => Labelled'
  BY TierStep
<1>3. Labelled => TierNeverAhead
  BY DEF Labelled
<1> QED BY <1>1, <1>2, <1>3, TypedAlways, CappedAlways, PTL DEF Spec

\* Whatever is refused and whoever dies between the two writes, the ledger
\* records what is on the balance, on its way there, or lost by them.
THEOREM BalanceIsExplained == Spec => []LedgerExplainsBalance
<1>1. Init => Explained
  BY ExplainedInit
<1>2. Typed /\ Typed' /\ Held /\ Explained /\ [Next]_vars => Explained'
  BY ExplainedStep
<1>3. Explained => LedgerExplainsBalance
  BY DEF Explained, LedgerExplainsBalance, Total, Crediting
<1> QED BY <1>1, <1>2, <1>3, TypedAlways, HeldAlways, PTL DEF Spec

\* As long as no more awards of a source race than awardKarma has attempts, any
\* faults and any caps: an award that was given nothing met a reached cap.
THEOREM NobodyLosesTheRace == ASSUME FewRace PROVE Spec => []RefusedMeansFull
<1>1. Init => Rounds
  BY RoundsInit
<1>2. Typed /\ Capped /\ Capped' /\ Held /\ Rounds /\ [Next]_vars => Rounds'
  BY RoundsStep
<1>3. Rounds => RefusedMeansFull
  BY DEF Rounds
<1> QED BY <1>1, <1>2, <1>3, TypedAlways, CappedAlways, HeldAlways, PTL DEF Spec

\* The handlers implement Payroll as long as the write of the tier succeeds:
\* every deed is paid once, at most its worth, and its item handed out once.
THEOREM DeedsPayOnce == ASSUME NoTierFault PROVE Spec => PaidOnce
<1>1. Init => Once /\ Owed!Init
  BY OnceInit, PayrollInit
<1>2. Typed /\ Capped /\ Once /\ [Next]_vars => Once'
  BY OnceStep
<1>3. Typed /\ Capped /\ Once /\ [Next]_vars => [Owed!Next]_(Owed!vars)
  BY PayrollStep
<1> QED BY <1>1, <1>2, <1>3, TypedAlways, CappedAlways, PTL DEF Spec, PaidOnce, Owed!Spec
=============================================================================
