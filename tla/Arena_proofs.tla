----------------------------- MODULE Arena_proofs -----------------------------
(***************************************************************************)
(* Type correctness of Arena, that a shielded gym is not struck, that an   *)
(* account fights for one side, and that captures are paid for with wins.  *)
(***************************************************************************)
EXTENDS Arena, FiniteSetTheorems, TLAPS

\* A judge at work has an attempt, and at its save a verdict.
Ruled ==
    \A c \in Judges :
       /\ at[c] \in {"judge", "save"} => work[c].of \in Attempts
       /\ at[c] = "save" => work[c].verdict \in Verdicts

\* A use under way has been asked for; a battle under way is somebody's.
Asked ==
    /\ \A c \in Uses : at[c] \in {"take", "apply"} =>
          work[c].by \in Players /\ work[c].item \in {"core", "shield"}
    /\ \A c \in Battles : at[c] \in {"burn", "bind", "claim", "read", "write"} =>
          fight[c].by \in Players /\ fight[c].for \in Factions
    /\ \A c \in Spends : at[c] = "burn" => fight[c].via \in Attempts
    /\ \A c \in Strikes : fight[c].via = Undecided

Typed == TypeOK /\ Ruled /\ Asked

\* What a battle read is not ahead of the gym; a gym that is still as it was
\* read has not been shielded since.
ReadBeforeShield ==
    \A c \in Battles :
       /\ fight[c].read.version <= gym.version
       /\ at[c] = "write" /\ fight[c].read.version = gym.version => ~shielded

\* A battle past the binding fights for its player's side.
Bound == \A c \in Battles : at[c] \in {"read", "write"} => side[fight[c].by] = fight[c].for

\* An attempt is read at its first version, and a win moves it: the one
\* judgement whose save names the first version records it.
WinsAreJudged ==
    /\ \A c \in Judges : at[c] \in {"judge", "save"} => work[c].rev = 0
    /\ \A x \in Attempts : attempt[x].status \in {"NONE", "OPEN"} => attempt[x].rev = 0
    /\ \A x \in won : attempt[x].rev > 0

\* Wins not burnt yet, and calls that have burnt one and not yet struck.
Unspent == {x \in Attempts : attempt[x].status = "WON"}
Armed == {c \in Spends : at[c] \in {"bind", "claim", "read", "write"}}

\* Every capture, every armed call and every unspent win is a win of its own.
WinsAreSpentOnce == Required => flips + Cardinality(Armed) + Cardinality(Unspent) <= Cardinality(won)

IInv == Typed /\ ReadBeforeShield /\ Bound /\ OneSide /\ WinsAreJudged /\ WinsAreSpentOnce
-----------------------------------------------------------------------------
(* Types                                                                   *)

LEMMA Numbers ==
    /\ CapturePower \in Nat /\ FullPoints \in Nat /\ FreshPoints \in Nat
    /\ CorePoints \in Nat /\ MaxRetries \in Nat
BY ArenaAssumption DEF ArenaAssumption

LEMMA Disjoint ==
    /\ \A c \in Battles : c \in Calls /\ c \notin Judges /\ c \notin Uses
    /\ \A c \in Judges : c \in Calls /\ c \notin Uses /\ c \notin Battles
    /\ \A c \in Uses : c \in Calls /\ c \notin Judges /\ c \notin Battles
    /\ \A c \in Spends : c \in Battles /\ c \notin Strikes
    /\ \A c \in Strikes : c \in Battles /\ c \notin Spends
BY ArenaAssumption DEF ArenaAssumption, Calls, Battles

LEMMA NoWorkType ==
    /\ \A c \in Judges : NoWork(c) \in Ruling
    /\ \A c \in Uses : NoWork(c) \in Use
BY Disjoint DEF NoWork, Ruling, Use, Undecided

LEMMA BattleType ==
    ASSUME NEW p \in Players \cup {Undecided}, NEW f \in Factions \cup {Neutral}, NEW n \in Nat,
           NEW x \in Attempts \cup {Undecided}
    PROVE  Battle(p, f, n, x) \in Fight
BY DEF Battle, Fight, NoGym, Gym

LEMMA NoFightType == NoFight \in Fight /\ NoFight.via = Undecided
<1>1. NoFight \in Fight
  BY BattleType DEF NoFight
<1> QED BY <1>1 DEF NoFight, Battle

LEMMA LeastMost ==
    \A a, b \in Nat : Least(a, b) \in Nat /\ Most(a, b) \in Nat
BY DEF Least, Most

LEMMA TypeInit == Init => Typed
<1> SUFFICES ASSUME Init PROVE Typed
  OBVIOUS
<1>1. gym \in Gym
  <2>1. gym \in [holder : Factions \cup {Neutral}, points : {FullPoints}, version : {0}]
    BY DEF Init
  <2> QED BY <2>1, Numbers DEF Gym
<1>7. shielded \in BOOLEAN
  BY DEF Init
<1>3. /\ side \in [Players -> Factions \cup {Undecided}]
      /\ attempt \in [Attempts -> Challenge]
      /\ starting \subseteq Attempts /\ bag \in [Players -> [core : Nat, shield : Nat]]
      /\ flips \in Nat /\ won \subseteq Attempts /\ fought \in [Players -> SUBSET Factions]
  BY ArenaAssumption DEF ArenaAssumption, Init, NoAttempt, Challenge
<1>4. /\ at \in [Calls -> {"idle"}]
      /\ fight \in [Battles -> {NoFight}]
  BY DEF Init
<1>5. /\ work \in [Judges \cup Uses -> Ruling \cup Use]
      /\ \A c \in Judges : work[c] \in Ruling
      /\ \A c \in Uses : work[c] \in Use
  BY NoWorkType DEF Init
<1>6. TypeOK
  BY <1>1, <1>3, <1>4, <1>5, <1>7, NoFightType DEF TypeOK
<1>2. Ruled /\ Asked
  BY Disjoint, NoFightType DEF Init, Ruled, Asked
<1> QED BY <1>2, <1>6 DEF Typed

\* What a strike makes of a gym is a gym.
LEMMA StruckType == ASSUME Typed, NEW c \in Battles, fight[c].for \in Factions
                    PROVE  Struck(c) \in Gym /\ Struck(c).version = fight[c].read.version + 1
<1> DEFINE g == fight[c].read
           f == fight[c].for
           n == fight[c].power
<1>1. g \in Gym /\ n \in Nat
  BY DEF Typed, TypeOK, Fight
<1>2. g.points \in Nat /\ g.version \in Nat /\ g.holder \in Factions \cup {Neutral}
  BY <1>1 DEF Gym
<1>4. PointsLeft(c) \in Nat
  BY <1>1, <1>2, Numbers DEF PointsLeft, Falls, Least, Most
<1>5. (IF Ally(c) \/ Taken(c) THEN f ELSE g.holder) \in Factions \cup {Neutral}
  BY <1>2
<1> QED BY <1>2, <1>4, <1>5 DEF Struck, Left, Gym

\* A capture is a rival's gym taken, with the gauntlet on by a call that spends.
LEMMA FlipIsTaken == ASSUME NEW c \in Battles, fight[c].read.holder \notin {Neutral, Struck(c).holder}
                     PROVE  Taken(c)
BY DEF Struck, Left, Ally, Taken, Falls

\* What an answer and a step forward leave of the types of a battle's state.
AtType == at \in [Calls -> {"idle", "burn", "bind", "claim", "read", "write",
                            "judge", "save", "take", "apply", "done"}]

LEMMA Answered == ASSUME Typed, NEW c \in Battles, Answer(c), UNCHANGED work
                  PROVE  fight' \in [Battles -> Fight] /\ AtType' /\ Ruled' /\ Asked'
<1>1. c \in Calls /\ c \notin Judges /\ c \notin Uses
  BY Disjoint
<1>2. fight' \in [Battles -> Fight] /\ AtType'
  BY <1>1, NoFightType DEF Answer, Goto, Typed, TypeOK, AtType
<1>3. /\ \A d \in Calls : at'[d] = IF d = c THEN "done" ELSE at[d]
      /\ \A d \in Battles : fight'[d] = IF d = c THEN NoFight ELSE fight[d]
  BY <1>1 DEF Answer, Goto, Typed, TypeOK
<1> QED BY <1>2, <1>3, Disjoint, NoFightType DEF Typed, Ruled, Asked

LEMMA WentOn == ASSUME Typed, NEW c \in Battles, NEW s \in {"bind", "claim", "read"}, GoOn(c, s),
                       fight[c].by \in Players, fight[c].for \in Factions, UNCHANGED work
                PROVE  fight' \in [Battles -> Fight] /\ AtType' /\ Ruled' /\ Asked'
<1>1. c \in Calls /\ c \notin Judges /\ c \notin Uses
  BY Disjoint
<1>2. fight' \in [Battles -> Fight] /\ AtType'
  BY <1>1 DEF GoOn, Goto, Typed, TypeOK, AtType
<1>3. \A d \in Calls : at'[d] = IF d = c THEN s ELSE at[d]
  BY <1>1 DEF GoOn, Goto, Typed, TypeOK
<1> QED BY <1>2, <1>3, Disjoint DEF GoOn, Typed, Ruled, Asked

LEMMA WorkAnswered == ASSUME Typed, NEW c \in Judges \cup Uses, AnswerWork(c), UNCHANGED fight
                      PROVE  /\ AtType' /\ Ruled' /\ Asked'
                             /\ work' \in [Judges \cup Uses -> Ruling \cup Use]
                             /\ \A d \in Judges : work'[d] \in Ruling
                             /\ \A d \in Uses : work'[d] \in Use
<1>1. c \in Calls /\ c \notin Battles
  BY Disjoint
<1>2. AtType'
  BY <1>1 DEF AnswerWork, Goto, Typed, TypeOK, AtType
<1>3. /\ \A d \in Calls : at'[d] = IF d = c THEN "done" ELSE at[d]
      /\ \A d \in Judges \cup Uses : work'[d] = IF d = c THEN NoWork(c) ELSE work[d]
  BY <1>1 DEF AnswerWork, Goto, Typed, TypeOK
<1>4. /\ work' \in [Judges \cup Uses -> Ruling \cup Use]
      /\ \A d \in Judges : work'[d] \in Ruling
      /\ \A d \in Uses : work'[d] \in Use
  BY <1>1, NoWorkType DEF AnswerWork, Typed, TypeOK
<1> QED BY <1>2, <1>3, <1>4, Disjoint DEF Typed, Ruled, Asked

\* Each action keeps the types.
LEMMA TypeStep == Typed /\ [Next]_arenaVars => Typed'
<1> SUFFICES ASSUME Typed, [Next]_arenaVars PROVE Typed'
  OBVIOUS
<1> USE DEF Typed
<1>1. ASSUME NEW x \in Attempts, Start(x) PROVE Typed'
  <2>1. \A y \in Attempts : attempt'[y] \in Challenge
    BY <1>1 DEF Start, TypeOK, Challenge, Verdicts
  <2>2. attempt' \in [Attempts -> Challenge]
    BY <1>1, <2>1 DEF Start
  <2> QED BY <1>1, <2>2 DEF Start, groundVars, TypeOK, Ruled, Asked
<1>2. ASSUME NEW x \in Attempts, Create(x) PROVE Typed'
  <2>1. attempt' \in [Attempts -> Challenge]
    BY <1>2 DEF Create, TypeOK, Challenge
  <2> QED BY <1>2, <2>1 DEF Create, groundVars, TypeOK, Ruled, Asked
<1>3. ASSUME NEW x \in Attempts, Lapse(x) PROVE Typed'
  <2>1. attempt' \in [Attempts -> Challenge]
    BY <1>3 DEF Lapse, TypeOK, Challenge
  <2> QED BY <1>3, <2>1 DEF Lapse, groundVars, TypeOK, Ruled, Asked
<1>4. ASSUME NEW c \in Judges, SubmitRead(c) PROVE Typed'
  <2>1. PICK x \in Attempts :
           work' = [work EXCEPT ![c] = [of |-> x, verdict |-> Undecided, rev |-> attempt[x].rev]]
    BY <1>4 DEF SubmitRead
  <2>2. [of |-> x, verdict |-> Undecided, rev |-> attempt[x].rev] \in Ruling
    BY DEF TypeOK, Ruling, Challenge
  <2>3. c \in Calls /\ c \notin Uses /\ c \notin Battles
    BY Disjoint
  <2>4. /\ work' \in [Judges \cup Uses -> Ruling \cup Use]
        /\ \A d \in Judges : work'[d] \in Ruling
        /\ \A d \in Uses : work'[d] \in Use
    BY <2>1, <2>2, <2>3 DEF TypeOK
  <2>5. TypeOK'
    BY <1>4, <2>4 DEF SubmitRead, Goto, groundVars, challengeVars, TypeOK
  <2> QED BY <1>4, <2>1, <2>3, <2>5, Disjoint
          DEF SubmitRead, Goto, TypeOK, Ruled, Asked
<1>5. ASSUME NEW c \in Judges, SubmitJudge(c) PROVE Typed'
  <2>1. PICK v \in Verdicts : work' = [work EXCEPT ![c].verdict = v]
    BY <1>5 DEF SubmitJudge, Verdicts
  <2>2. [work[c] EXCEPT !.verdict = v] \in Ruling
    BY DEF TypeOK, Ruling
  <2>3. c \in Calls /\ c \notin Uses /\ c \notin Battles
    BY Disjoint
  <2>4. /\ work' \in [Judges \cup Uses -> Ruling \cup Use]
        /\ \A d \in Judges : work'[d] \in Ruling
        /\ \A d \in Uses : work'[d] \in Use
    BY <2>1, <2>2, <2>3 DEF TypeOK
  <2>5. TypeOK'
    BY <1>5, <2>4 DEF SubmitJudge, Goto, groundVars, challengeVars, TypeOK
  <2>6. work[c].of \in Attempts /\ work'[c].of \in Attempts /\ work'[c].verdict \in Verdicts
    BY <1>5, <2>1 DEF SubmitJudge, Ruled, TypeOK, Ruling
  <2> QED BY <1>5, <2>1, <2>3, <2>5, <2>6, Disjoint
          DEF SubmitJudge, Goto, TypeOK, Ruled, Asked
<1>6. ASSUME NEW c \in Judges, SubmitSave(c) PROVE Typed'
  <2>1. work[c].of \in Attempts /\ work[c].verdict \in Verdicts
    BY <1>6 DEF SubmitSave, Ruled
  <2>2. attempt' \in [Attempts -> Challenge]
    BY <1>6, <2>1 DEF SubmitSave, TypeOK, Challenge
  <2>3. won' \subseteq Attempts
    BY <1>6, <2>1 DEF SubmitSave, TypeOK
  <2>4. AnswerWork(c) /\ UNCHANGED fight
    BY <1>6 DEF SubmitSave
  <2> QED BY <1>6, <2>2, <2>3, <2>4, WorkAnswered DEF SubmitSave, AtType, groundVars, TypeOK
<1>7. ASSUME NEW c \in Spends, SpendCheck(c) PROVE Typed'
  <2>1. PICK x \in Attempts, f \in Factions :
           fight' = [fight EXCEPT ![c] = Battle(OwnerOf[x], f, CapturePower, x)]
    BY <1>7 DEF SpendCheck
  <2> DEFINE b == Battle(OwnerOf[x], f, CapturePower, x)
  <2>2. OwnerOf[x] \in Players
    BY ArenaAssumption DEF ArenaAssumption
  <2>3. b \in Fight /\ b.by \in Players /\ b.for \in Factions /\ b.via \in Attempts
    BY <2>2, BattleType, Numbers DEF Battle
  <2>4. c \in Battles /\ c \in Calls /\ c \notin Judges /\ c \notin Uses /\ c \notin Strikes
    BY Disjoint
  <2> HIDE DEF b
  <2>5. /\ fight' \in [Battles -> Fight]
        /\ \A d \in Battles : fight'[d] = IF d = c THEN b ELSE fight[d]
    BY <2>1, <2>3 DEF TypeOK, b
  <2>6. TypeOK'
    BY <1>7, <2>4, <2>5 DEF SpendCheck, Goto, groundVars, challengeVars, TypeOK
  <2> QED BY <1>7, <2>3, <2>4, <2>5, <2>6, Disjoint DEF SpendCheck, Goto, TypeOK, Ruled, Asked
<1>8. ASSUME NEW c \in Spends, SpendBurn(c) PROVE Typed'
  <2>1. c \in Battles /\ fight[c].by \in Players /\ fight[c].for \in Factions
    BY <1>8, Disjoint DEF SpendBurn, Asked
  <2>4. fight[c].via \in Attempts
    BY <1>8 DEF SpendBurn, Asked
  <2>5. attempt' = [attempt EXCEPT ![fight[c].via].status = "SPENT"] \/ attempt' = attempt
    BY <1>8 DEF SpendBurn
  <2>2. attempt' \in [Attempts -> Challenge]
    BY <2>4, <2>5 DEF TypeOK, Challenge
  <2>3. fight' \in [Battles -> Fight] /\ AtType' /\ Ruled' /\ Asked'
    BY <1>8, <2>1, Answered, WentOn DEF SpendBurn
  <2> QED BY <1>8, <2>2, <2>3 DEF SpendBurn, groundVars, TypeOK, AtType
<1>9. ASSUME NEW c \in Strikes, Strike(c) PROVE Typed'
  <2>1. PICK p \in Players, f \in Factions, n \in Powers :
           fight' = [fight EXCEPT ![c] = Battle(p, f, n, Undecided)]
    BY <1>9 DEF Strike
  <2> DEFINE b == Battle(p, f, n, Undecided)
  <2>2. n \in Nat
    BY ArenaAssumption DEF ArenaAssumption
  <2>3. b \in Fight /\ b.by \in Players /\ b.for \in Factions /\ b.via = Undecided
    BY <2>2, BattleType DEF Battle
  <2>4. c \in Battles /\ c \in Calls /\ c \notin Judges /\ c \notin Uses /\ c \notin Spends
    BY Disjoint
  <2> HIDE DEF b
  <2>5. /\ fight' \in [Battles -> Fight]
        /\ \A d \in Battles : fight'[d] = IF d = c THEN b ELSE fight[d]
    BY <2>1, <2>3 DEF TypeOK, b
  <2>6. TypeOK'
    BY <1>9, <2>4, <2>5 DEF Strike, Goto, groundVars, challengeVars, TypeOK
  <2> QED BY <1>9, <2>3, <2>4, <2>5, <2>6, Disjoint DEF Strike, Goto, TypeOK, Ruled, Asked
<1>10. ASSUME NEW c \in Battles, at[c] \in {"bind", "claim", "write"},
              GoOn(c, "claim") \/ GoOn(c, "read") \/ Answer(c),
              UNCHANGED <<groundVars, challengeVars, bag, work>>,
              side' \in [Players -> Factions \cup {Undecided}]
       PROVE  Typed'
  <2>1. fight[c].by \in Players /\ fight[c].for \in Factions
    BY <1>10 DEF Asked
  <2>2. fight' \in [Battles -> Fight] /\ AtType' /\ Ruled' /\ Asked'
    BY <1>10, <2>1, Answered, WentOn
  <2> QED BY <1>10, <2>2 DEF groundVars, challengeVars, TypeOK, AtType
<1>11. ASSUME NEW c \in Battles, BindRead(c) PROVE Typed'
  BY <1>10, <1>11 DEF BindRead, TypeOK
<1>12. ASSUME NEW c \in Battles, BindClaim(c) PROVE Typed'
  <2>1. fight[c].for \in Factions
    BY <1>12 DEF BindClaim, Asked
  <2>2. side' \in [Players -> Factions \cup {Undecided}]
    BY <1>12, <2>1 DEF BindClaim, TypeOK
  <2> QED BY <1>10, <1>12, <2>2 DEF BindClaim
<1>13. ASSUME NEW c \in Battles, ReadGym(c) PROVE Typed'
  <2>1. c \in Calls /\ c \notin Judges /\ c \notin Uses
    BY Disjoint
  <2>2. CASE shielded
    <3>1. Answer(c) /\ UNCHANGED work
      BY <1>13, <2>2 DEF ReadGym
    <3> QED BY <1>13, <3>1, Answered DEF ReadGym, groundVars, challengeVars, TypeOK, AtType
  <2>3. CASE ~shielded
    BY <1>13, <2>1, <2>3, Disjoint
       DEF ReadGym, Goto, groundVars, challengeVars, TypeOK, Ruled, Asked, Fight
  <2> QED BY <2>2, <2>3
<1>14. ASSUME NEW c \in Battles, WriteGym(c) PROVE Typed'
  <2>1. fight[c].for \in Factions /\ fight[c].by \in Players
    BY <1>14 DEF WriteGym, Asked
  <2>2. Struck(c) \in Gym
    BY <2>1, StruckType
  <2>3. CASE VersionStands(c)
    <3>1. gym' \in Gym /\ flips' \in Nat /\ fought' \in [Players -> SUBSET Factions]
      BY <1>14, <2>1, <2>2, <2>3 DEF WriteGym, TypeOK
    <3>2. Answer(c) /\ UNCHANGED work
      BY <1>14, <2>3 DEF WriteGym
    <3> QED BY <1>14, <3>1, <3>2, Answered DEF WriteGym, challengeVars, TypeOK, AtType
  <2>4. CASE ~VersionStands(c)
    BY <1>10, <1>14, <2>4 DEF WriteGym, groundVars, TypeOK
  <2> QED BY <2>3, <2>4
<1>15. ASSUME NEW c \in Uses, UseCheck(c) PROVE Typed'
  <2>1. PICK p \in Players, item \in {"core", "shield"} :
           work' = [work EXCEPT ![c] = [by |-> p, item |-> item]]
    BY <1>15 DEF UseCheck
  <2>2. [by |-> p, item |-> item] \in Use
    BY DEF Use
  <2>3. c \in Calls /\ c \notin Judges /\ c \notin Battles
    BY Disjoint
  <2>4. /\ work' \in [Judges \cup Uses -> Ruling \cup Use]
        /\ \A d \in Judges : work'[d] \in Ruling
        /\ \A d \in Uses : work'[d] \in Use
    BY <2>1, <2>2, <2>3 DEF TypeOK
  <2>5. TypeOK'
    BY <1>15, <2>3, <2>4 DEF UseCheck, Goto, groundVars, challengeVars, TypeOK
  <2> QED BY <1>15, <2>1, <2>3, <2>5, Disjoint DEF UseCheck, Goto, TypeOK, Ruled, Asked
<1>16. ASSUME NEW c \in Uses, UseTake(c) PROVE Typed'
  <2>1. c \in Calls /\ c \notin Judges /\ c \notin Battles
    BY Disjoint
  <2>2. work[c].by \in Players /\ work[c].item \in {"core", "shield"}
    BY <1>16 DEF UseTake, Asked
  <2>3. bag' \in [Players -> [core : Nat, shield : Nat]]
    BY <1>16, <2>2 DEF UseTake, TypeOK
  <2>4. /\ work' \in [Judges \cup Uses -> Ruling \cup Use]
        /\ (\A d \in Judges : work'[d] \in Ruling) /\ (\A d \in Uses : work'[d] \in Use)
    BY <1>16, <2>1, NoWorkType DEF UseTake, AnswerWork, TypeOK
  <2>5. at' = [at EXCEPT ![c] = "apply"] \/ at' = [at EXCEPT ![c] = "done"]
    BY <1>16 DEF UseTake, AnswerWork, Goto
  <2>6. at'[c] = "apply" => work' = work
    BY <1>16, <2>1 DEF UseTake, AnswerWork, Goto, TypeOK
  <2>7. TypeOK'
    BY <1>16, <2>1, <2>3, <2>4, <2>5 DEF UseTake, groundVars, challengeVars, TypeOK
  <2>8. \A d \in Judges \cup Uses : d # c => work'[d] = work[d]
    BY <1>16 DEF UseTake, AnswerWork, TypeOK
  <2> QED BY <1>16, <2>1, <2>2, <2>5, <2>6, <2>7, <2>8, Disjoint DEF UseTake, TypeOK, Ruled, Asked
<1>17. ASSUME NEW c \in Uses, AnswerWork(c), gym' \in Gym, shielded' \in BOOLEAN,
              UNCHANGED <<challengeVars, flips, fought, side, bag, fight>>
       PROVE  Typed'
  BY <1>17, WorkAnswered DEF challengeVars, TypeOK, AtType
<1>18. ASSUME NEW c \in Uses, ApplyCore(c) PROVE Typed'
  <2>1. Least(FullPoints, gym.points + CorePoints) \in Nat
    BY Numbers DEF TypeOK, Gym, Least
  <2>2. gym' \in Gym
    BY <1>18, <2>1 DEF ApplyCore, Left, TypeOK, Gym
  <2> QED BY <1>17, <1>18, <2>2 DEF ApplyCore, TypeOK
<1>19. ASSUME NEW c \in Uses, ApplyShield(c) PROVE Typed'
  <2>1. gym' \in Gym
    BY <1>19 DEF ApplyShield, VersionAfterShield, TypeOK, Gym
  <2> QED BY <1>17, <1>19, <2>1 DEF ApplyShield
<1>20. CASE ShieldLapses
  BY <1>20 DEF ShieldLapses, challengeVars, TypeOK, Ruled, Asked
<1>21. CASE UNCHANGED arenaVars
  BY <1>21 DEF arenaVars, TypeOK, Ruled, Asked
<1> QED BY <1>1, <1>2, <1>3, <1>4, <1>5, <1>6, <1>7, <1>8, <1>9, <1>11, <1>12, <1>13, <1>14,
           <1>15, <1>16, <1>18, <1>19, <1>20, <1>21 DEF Next
-----------------------------------------------------------------------------
(* Shields and sides                                                       *)

LEMMA NoFightIsUnread == ASSUME NEW p, NEW f, NEW n, NEW x
                         PROVE  Battle(p, f, n, x).read.version = 0 /\ NoFight.read.version = 0
BY DEF Battle, NoFight, NoGym

\* What a call's step does to the calls' places.
LEMMA AnswerMoves == ASSUME Typed, NEW c \in Battles, Answer(c)
                     PROVE  /\ \A d \in Calls : at'[d] = IF d = c THEN "done" ELSE at[d]
                            /\ \A d \in Battles : fight'[d] = IF d = c THEN NoFight ELSE fight[d]
BY Disjoint DEF Answer, Goto, Typed, TypeOK

LEMMA GotoMoves == ASSUME Typed, NEW c \in Calls, NEW s, Goto(c, s)
                   PROVE  \A d \in Calls : at'[d] = IF d = c THEN s ELSE at[d]
BY DEF Goto, Typed, TypeOK

LEMMA WorkMoves == ASSUME Typed, NEW c \in Judges \cup Uses, AnswerWork(c)
                   PROVE  /\ \A d \in Calls : at'[d] = IF d = c THEN "done" ELSE at[d]
                          /\ \A d \in Judges \cup Uses : work'[d] = IF d = c THEN NoWork(c) ELSE work[d]
BY Disjoint DEF AnswerWork, Goto, Typed, TypeOK

\* The steps of challenges, judges and power-ups leave the battles alone.
LEMMA BattlesApart ==
    ASSUME Typed,
           \/ \E x \in Attempts : Start(x) \/ Create(x) \/ Lapse(x)
           \/ \E c \in Judges : SubmitRead(c) \/ SubmitJudge(c) \/ SubmitSave(c)
           \/ \E c \in Uses : UseCheck(c) \/ UseTake(c) \/ ApplyCore(c) \/ ApplyShield(c)
           \/ ShieldLapses
    PROVE  fight' = fight /\ side' = side /\ fought' = fought /\ flips' = flips
           /\ \A d \in Battles : at'[d] = at[d]
<1>1. CASE \E x \in Attempts : Start(x) \/ Create(x) \/ Lapse(x)
  BY <1>1 DEF Start, Create, Lapse, groundVars
<1>2. CASE \E c \in Judges : SubmitRead(c) \/ SubmitJudge(c) \/ SubmitSave(c)
  BY <1>2, Disjoint, GotoMoves, WorkMoves
     DEF SubmitRead, SubmitJudge, SubmitSave, groundVars, challengeVars
<1>3. CASE \E c \in Uses : UseCheck(c) \/ UseTake(c) \/ ApplyCore(c) \/ ApplyShield(c)
  BY <1>3, Disjoint, GotoMoves, WorkMoves
     DEF UseCheck, UseTake, ApplyCore, ApplyShield, groundVars, challengeVars
<1>4. CASE ShieldLapses
  BY <1>4 DEF ShieldLapses
<1> QED BY <1>1, <1>2, <1>3, <1>4

\* No step moves a gym without moving its version, and only raising a shield
\* puts it under one.
LEMMA GymMoves ==
    ASSUME Typed,
           \/ \E x \in Attempts : Start(x) \/ Create(x) \/ Lapse(x)
           \/ \E c \in Judges : SubmitRead(c) \/ SubmitJudge(c) \/ SubmitSave(c)
           \/ \E c \in Uses : UseCheck(c) \/ UseTake(c) \/ ApplyCore(c) \/ ApplyShield(c)
           \/ ShieldLapses
    PROVE  \/ gym' = gym /\ (shielded' => shielded)
           \/ gym'.version = gym.version + 1
<1>1. CASE \E x \in Attempts : Start(x) \/ Create(x) \/ Lapse(x)
  BY <1>1 DEF Start, Create, Lapse, groundVars
<1>2. CASE \E c \in Judges : SubmitRead(c) \/ SubmitJudge(c) \/ SubmitSave(c)
  BY <1>2 DEF SubmitRead, SubmitJudge, SubmitSave, groundVars
<1>3. ASSUME NEW c \in Uses, UseCheck(c) \/ UseTake(c) PROVE gym' = gym /\ shielded' = shielded
  BY <1>3 DEF UseCheck, UseTake, groundVars
<1>4. ASSUME NEW c \in Uses, ApplyCore(c) PROVE gym'.version = gym.version + 1
  BY <1>4 DEF ApplyCore, Left
<1>5. ASSUME NEW c \in Uses, ApplyShield(c) PROVE gym'.version = gym.version + 1
  BY <1>5 DEF ApplyShield, VersionAfterShield, Typed, TypeOK, Gym
<1>6. CASE ShieldLapses
  BY <1>6 DEF ShieldLapses
<1> QED BY <1>1, <1>2, <1>3, <1>4, <1>5, <1>6

LEMMA ShieldStep == Typed /\ Typed' /\ ReadBeforeShield /\ [Next]_arenaVars => ReadBeforeShield'
<1> SUFFICES ASSUME Typed, Typed', ReadBeforeShield, [Next]_arenaVars, NEW d \in Battles
             PROVE  /\ fight'[d].read.version <= gym'.version
                    /\ at'[d] = "write" /\ fight'[d].read.version = gym'.version => ~shielded'
  BY DEF ReadBeforeShield
<1>1. /\ fight[d].read.version <= gym.version
      /\ at[d] = "write" /\ fight[d].read.version = gym.version => ~shielded
  BY DEF ReadBeforeShield
<1>2. fight[d].read.version \in Nat /\ gym.version \in Nat /\ gym'.version \in Nat
  BY DEF Typed, TypeOK, Gym, Fight
<1>3. d \in Calls
  BY Disjoint
<1>4. CASE \/ \E x \in Attempts : Start(x) \/ Create(x) \/ Lapse(x)
           \/ \E c \in Judges : SubmitRead(c) \/ SubmitJudge(c) \/ SubmitSave(c)
           \/ \E c \in Uses : UseCheck(c) \/ UseTake(c) \/ ApplyCore(c) \/ ApplyShield(c)
           \/ ShieldLapses
  <2>1. fight' = fight /\ at'[d] = at[d]
    BY <1>4, BattlesApart
  <2>2. (gym' = gym /\ (shielded' => shielded)) \/ gym'.version = gym.version + 1
    BY <1>4, GymMoves
  <2> QED BY <1>1, <1>2, <2>1, <2>2
<1>5. ASSUME NEW c \in Battles, gym' = gym, shielded' = shielded,
             GoOn(c, "bind") \/ GoOn(c, "claim") \/ GoOn(c, "read") \/ Answer(c)
      PROVE  /\ fight'[d].read.version <= gym'.version
             /\ at'[d] = "write" /\ fight'[d].read.version = gym'.version => ~shielded'
  <2>1. CASE Answer(c)
    BY <1>1, <1>2, <1>3, <1>5, <2>1, AnswerMoves, NoFightIsUnread
  <2>2. CASE GoOn(c, "bind") \/ GoOn(c, "claim") \/ GoOn(c, "read")
    BY <1>1, <1>3, <1>5, <2>2, GotoMoves, Disjoint DEF GoOn
  <2> QED BY <1>5, <2>1, <2>2
<1>6. ASSUME NEW c \in Spends, SpendCheck(c)
      PROVE  /\ fight'[d].read.version <= gym'.version
             /\ at'[d] = "write" /\ fight'[d].read.version = gym'.version => ~shielded'
  BY <1>1, <1>2, <1>3, <1>6, NoFightIsUnread, Disjoint
     DEF SpendCheck, Goto, groundVars, Typed, TypeOK
<1>7. ASSUME NEW c \in Strikes, Strike(c)
      PROVE  /\ fight'[d].read.version <= gym'.version
             /\ at'[d] = "write" /\ fight'[d].read.version = gym'.version => ~shielded'
  BY <1>1, <1>2, <1>3, <1>7, NoFightIsUnread, Disjoint
     DEF Strike, Goto, groundVars, Typed, TypeOK
<1>8. ASSUME NEW c \in Spends, SpendBurn(c)
      PROVE  /\ fight'[d].read.version <= gym'.version
             /\ at'[d] = "write" /\ fight'[d].read.version = gym'.version => ~shielded'
  BY <1>5, <1>8, Disjoint DEF SpendBurn, groundVars
<1>9. ASSUME NEW c \in Battles, BindRead(c) \/ BindClaim(c)
      PROVE  /\ fight'[d].read.version <= gym'.version
             /\ at'[d] = "write" /\ fight'[d].read.version = gym'.version => ~shielded'
  BY <1>5, <1>9 DEF BindRead, BindClaim, groundVars
<1>10. ASSUME NEW c \in Battles, ReadGym(c)
      PROVE  /\ fight'[d].read.version <= gym'.version
             /\ at'[d] = "write" /\ fight'[d].read.version = gym'.version => ~shielded'
  <2>1. CASE shielded
    BY <1>5, <1>10, <2>1 DEF ReadGym, groundVars
  <2>2. CASE ~shielded
    <3>1. gym' = gym /\ (d # c => fight'[d] = fight[d] /\ at'[d] = at[d])
      BY <1>3, <1>10, <2>2 DEF ReadGym, Goto, groundVars, Typed, TypeOK
    <3>2. d = c => fight'[d].read = gym
      BY <1>10, <2>2 DEF ReadGym, Typed, TypeOK, Fight
    <3> QED BY <1>1, <1>2, <1>10, <2>2, <3>1, <3>2 DEF ReadGym, groundVars
  <2> QED BY <2>1, <2>2
<1>11. ASSUME NEW c \in Battles, WriteGym(c)
      PROVE  /\ fight'[d].read.version <= gym'.version
             /\ at'[d] = "write" /\ fight'[d].read.version = gym'.version => ~shielded'
  <2>1. CASE VersionStands(c)
    <3>1. gym'.version = gym.version + 1
      BY <1>11, <2>1 DEF WriteGym, VersionStands, Struck, Left
    <3>2. Answer(c)
      BY <1>11, <2>1 DEF WriteGym
    <3> QED BY <1>1, <1>2, <1>3, <3>1, <3>2, AnswerMoves, NoFightIsUnread
  <2>2. CASE ~VersionStands(c)
    BY <1>5, <1>11, <2>2 DEF WriteGym
  <2> QED BY <2>1, <2>2
<1>12. CASE UNCHANGED arenaVars
  BY <1>1, <1>12 DEF arenaVars
<1> QED BY <1>4, <1>6, <1>7, <1>8, <1>9, <1>10, <1>11, <1>12 DEF Next

Sides == Bound /\ OneSide

\* A claim is the only step that settles a side, and it settles an open one,
\* for which nobody has fought.
LEMMA SidesStep == Typed /\ Typed' /\ Sides /\ [Next]_arenaVars => Sides'
<1> SUFFICES ASSUME Typed, Typed', Sides, [Next]_arenaVars PROVE Sides'
  OBVIOUS
<1>1. Undecided \notin Factions
  BY ArenaAssumption DEF ArenaAssumption
<1>2. \A c \in Battles : c \in Calls
  BY Disjoint
<1>3. CASE \/ \E x \in Attempts : Start(x) \/ Create(x) \/ Lapse(x)
           \/ \E c \in Judges : SubmitRead(c) \/ SubmitJudge(c) \/ SubmitSave(c)
           \/ \E c \in Uses : UseCheck(c) \/ UseTake(c) \/ ApplyCore(c) \/ ApplyShield(c)
           \/ ShieldLapses
  <2>1. fight' = fight /\ side' = side /\ fought' = fought /\ \A d \in Battles : at'[d] = at[d]
    BY <1>3, BattlesApart
  <2> QED BY <2>1 DEF Sides, Bound, OneSide
<1>4. ASSUME NEW c \in Battles, side' = side, Answer(c), \A p \in Players : fought'[p] \subseteq {side[p]}
      PROVE  Sides'
  BY <1>2, <1>4, AnswerMoves DEF Sides, Bound, OneSide
<1>5. ASSUME NEW c \in Battles, NEW s, s \notin {"read", "write"}, Goto(c, s),
             \A d \in Battles : d # c => fight'[d] = fight[d], side' = side, fought' = fought
      PROVE  Sides'
  BY <1>2, <1>5, GotoMoves DEF Sides, Bound, OneSide
<1>6. ASSUME NEW c \in Battles, NEW s, Goto(c, s), side[fight[c].by] = fight[c].for,
             \A d \in Battles : d # c => fight'[d] = fight[d],
             fight'[c].by = fight[c].by, fight'[c].for = fight[c].for,
             side' = side, fought' = fought
      PROVE  Sides'
  BY <1>2, <1>6, GotoMoves DEF Sides, Bound, OneSide
<1>7. ASSUME NEW c \in Spends, SpendCheck(c) PROVE Sides'
  <2>1. c \in Battles /\ side' = side /\ fought' = fought /\ Goto(c, "burn")
    BY <1>7, Disjoint DEF SpendCheck, groundVars
  <2>2. \A d \in Battles : d # c => fight'[d] = fight[d]
    BY <1>7 DEF SpendCheck, Typed, TypeOK
  <2> QED BY <1>5, <2>1, <2>2
<1>8. ASSUME NEW c \in Strikes, Strike(c) PROVE Sides'
  <2>1. c \in Battles /\ side' = side /\ fought' = fought /\ Goto(c, "bind")
    BY <1>8, Disjoint DEF Strike, groundVars
  <2>2. \A d \in Battles : d # c => fight'[d] = fight[d]
    BY <1>8 DEF Strike, Typed, TypeOK
  <2> QED BY <1>5, <2>1, <2>2
<1>9. ASSUME NEW c \in Spends, SpendBurn(c) PROVE Sides'
  <2>1. c \in Battles /\ side' = side /\ fought' = fought
    BY <1>9, Disjoint DEF SpendBurn, groundVars
  <2>2. \A p \in Players : fought'[p] \subseteq {side[p]}
    BY <2>1 DEF Sides, OneSide
  <2> QED BY <1>4, <1>5, <1>9, <2>1, <2>2 DEF SpendBurn, GoOn
<1>10. ASSUME NEW c \in Battles, BindRead(c) PROVE Sides'
  <2>1. side' = side /\ fought' = fought
    BY <1>10 DEF BindRead, groundVars
  <2>2. CASE Answer(c)
    BY <1>4, <2>1, <2>2 DEF Sides, OneSide
  <2>3. CASE GoOn(c, "claim")
    BY <1>5, <2>1, <2>3 DEF GoOn
  <2>4. CASE GoOn(c, "read") /\ side[fight[c].by] = fight[c].for
    BY <1>6, <2>1, <2>4 DEF GoOn
  <2> QED BY <1>10, <2>2, <2>3, <2>4 DEF BindRead
<1>11. ASSUME NEW c \in Battles, BindClaim(c) PROVE Sides'
  <2> DEFINE p == fight[c].by
             f == fight[c].for
  <2>1. p \in Players /\ f \in Factions /\ fought' = fought
    BY <1>11 DEF BindClaim, groundVars, Typed, Asked
  <2>2. \A q \in Players : q # p => side'[q] = side[q]
    BY <1>11 DEF BindClaim, Typed, TypeOK
  <2>3. side'[p] = side[p] \/ side[p] = Undecided
    BY <1>11 DEF BindClaim, MayClaim
  <2>4. OneSide'
    <3>1. side[p] = Undecided => fought[p] = {}
      BY <1>1, <2>1 DEF Sides, OneSide, Typed, TypeOK
    <3> QED BY <2>1, <2>2, <2>3, <3>1 DEF Sides, OneSide
  <2>5. \A d \in Battles : at[d] \in {"read", "write"} => side'[fight[d].by] = fight[d].for
    BY <1>1, <2>1, <2>2, <2>3 DEF Sides, Bound, Typed, Asked
  <2>6. CASE Answer(c)
    BY <1>2, <2>4, <2>5, <2>6, AnswerMoves DEF Sides, Bound
  <2>7. CASE side'[p] = f /\ GoOn(c, "read")
    <3>1. fight' = fight /\ Goto(c, "read")
      BY <2>7 DEF GoOn
    <3> QED BY <1>2, <2>4, <2>5, <2>7, <3>1, GotoMoves DEF Sides, Bound
  <2> QED BY <1>11, <2>6, <2>7 DEF BindClaim
<1>12. ASSUME NEW c \in Battles, ReadGym(c) PROVE Sides'
  <2>1. side' = side /\ fought' = fought
    BY <1>12 DEF ReadGym, groundVars
  <2>2. CASE shielded
    BY <1>4, <1>12, <2>1, <2>2 DEF ReadGym, Sides, OneSide
  <2>3. CASE ~shielded
    <3>1. \A d \in Battles : d # c => fight'[d] = fight[d]
      BY <1>12, <2>3 DEF ReadGym, Typed, TypeOK
    <3>2. fight'[c].by = fight[c].by /\ fight'[c].for = fight[c].for
      BY <1>12, <2>3 DEF ReadGym, Typed, TypeOK, Fight
    <3>3. side[fight[c].by] = fight[c].for
      BY <1>12 DEF ReadGym, Sides, Bound
    <3> QED BY <1>6, <1>12, <2>1, <2>3, <3>1, <3>2, <3>3 DEF ReadGym
  <2> QED BY <2>2, <2>3
<1>13. ASSUME NEW c \in Battles, WriteGym(c) PROVE Sides'
  <2>1. side' = side /\ side[fight[c].by] = fight[c].for
    BY <1>13 DEF WriteGym, Sides, Bound
  <2>2. CASE VersionStands(c)
    <3>1. \A p \in Players : fought'[p] \subseteq {side[p]}
      BY <1>13, <2>1, <2>2 DEF WriteGym, Sides, OneSide, Typed, TypeOK
    <3> QED BY <1>4, <1>13, <2>1, <2>2, <3>1 DEF WriteGym
  <2>3. CASE ~VersionStands(c)
    <3>1. fought' = fought /\ \A p \in Players : fought'[p] \subseteq {side[p]}
      BY <1>13, <2>3 DEF WriteGym, Sides, OneSide
    <3> QED BY <1>4, <1>6, <1>13, <2>1, <2>3, <3>1 DEF WriteGym, GoOn
  <2> QED BY <2>2, <2>3
<1>14. CASE UNCHANGED arenaVars
  BY <1>14 DEF arenaVars, Sides, Bound, OneSide
<1> QED BY <1>3, <1>7, <1>8, <1>9, <1>10, <1>11, <1>12, <1>13, <1>14 DEF Next
-----------------------------------------------------------------------------
(* Wins                                                                    *)

LEMMA NoAttemptFields == NoAttempt.status = "NONE" /\ NoAttempt.rev = 0
BY DEF NoAttempt

\* Judging and winning: an attempt is judged once, at its first version.
LEMMA WinsStep == Typed /\ Typed' /\ WinsAreJudged /\ [Next]_arenaVars => WinsAreJudged'
<1> SUFFICES ASSUME Typed, Typed', WinsAreJudged, [Next]_arenaVars PROVE WinsAreJudged'
  OBVIOUS
<1>1. \A c \in Judges : c \in Calls
  BY Disjoint
<1>2. ASSUME NEW x \in Attempts, Start(x) \/ Create(x) \/ Lapse(x) PROVE WinsAreJudged'
  <2>1. won' = won /\ work' = work /\ at' = at
    BY <1>2 DEF Start, Create, Lapse
  <2>2. \A y \in Attempts : attempt'[y].rev = attempt[y].rev
    BY <1>2 DEF Start, Create, Lapse, Typed, TypeOK, Challenge
  <2>3. \A y \in Attempts : attempt'[y].status \in {"NONE", "OPEN"}
                            => attempt[y].status \in {"NONE", "OPEN"}
    BY <1>2 DEF Start, Create, Lapse, Typed, TypeOK, Challenge
  <2>4. \A y \in won : y \in Attempts
    BY DEF Typed, TypeOK
  <2> QED BY <2>1, <2>2, <2>3, <2>4 DEF WinsAreJudged
<1>3. ASSUME NEW c \in Judges, SubmitRead(c) PROVE WinsAreJudged'
  <2>1. PICK x \in Attempts :
           /\ attempt[x].status = "OPEN"
           /\ work' = [work EXCEPT ![c] = [of |-> x, verdict |-> Undecided, rev |-> attempt[x].rev]]
    BY <1>3 DEF SubmitRead
  <2>2. /\ \A d \in Judges : d # c => at'[d] = at[d] /\ work'[d] = work[d]
        /\ work'[c].rev = 0
    BY <1>1, <1>3, <2>1, GotoMoves DEF SubmitRead, Typed, TypeOK, WinsAreJudged
  <2> QED BY <1>3, <2>2 DEF SubmitRead, challengeVars, WinsAreJudged
<1>4. ASSUME NEW c \in Judges, SubmitJudge(c) PROVE WinsAreJudged'
  <2>1. PICK v \in Verdicts : work' = [work EXCEPT ![c].verdict = v]
    BY <1>4 DEF SubmitJudge, Verdicts
  <2>2. /\ \A d \in Judges : d # c => at'[d] = at[d] /\ work'[d] = work[d]
        /\ work'[c].rev = work[c].rev
    BY <1>1, <1>4, <2>1, GotoMoves DEF SubmitJudge, Typed, TypeOK, Ruling
  <2> QED BY <1>4, <2>2 DEF SubmitJudge, challengeVars, WinsAreJudged
<1>5. ASSUME NEW c \in Judges, SubmitSave(c) PROVE WinsAreJudged'
  <2> DEFINE x == work[c].of
  <2>1. x \in Attempts /\ work[c].verdict \in Verdicts /\ work[c].rev = 0
    BY <1>5 DEF SubmitSave, Typed, Ruled, WinsAreJudged
  <2>2. \A d \in Judges : at'[d] = (IF d = c THEN "done" ELSE at[d]) /\ (d # c => work'[d] = work[d])
    BY <1>1, <1>5, WorkMoves DEF SubmitSave
  <2>3. CASE ~SaveMatches(c)
    BY <1>5, <2>2, <2>3 DEF SubmitSave, WinsAreJudged
  <2>4. CASE SaveMatches(c)
    <3>1. /\ \A y \in Attempts : y # x => attempt'[y] = attempt[y]
          /\ attempt'[x].status = work[c].verdict
          /\ attempt'[x].rev = IF work[c].verdict = "EXPIRED" THEN attempt[x].rev
                               ELSE attempt[x].rev + 1
      BY <1>5, <2>1, <2>4 DEF SubmitSave, Typed, TypeOK, Challenge
    <3>2. won' = IF work[c].verdict = "WON" THEN won \cup {x} ELSE won
      BY <1>5, <2>4 DEF SubmitSave
    <3>3. attempt[x].rev \in Nat /\ won \subseteq Attempts
      BY <2>1 DEF Typed, TypeOK, Challenge
    <3> QED BY <2>1, <2>2, <3>1, <3>2, <3>3 DEF WinsAreJudged, Verdicts
  <2> QED BY <2>3, <2>4
<1>6. ASSUME won' = won, \A d \in Judges : at'[d] = at[d] /\ work'[d] = work[d],
             attempt' = attempt
      PROVE  WinsAreJudged'
  BY <1>6 DEF WinsAreJudged
<1>7. ASSUME NEW c \in Battles, NEW s, Goto(c, s), work' = work
      PROVE  \A d \in Judges : at'[d] = at[d] /\ work'[d] = work[d]
  BY <1>7, GotoMoves, Disjoint
<1>8. ASSUME NEW c \in Spends, SpendBurn(c) PROVE WinsAreJudged'
  <2>1. /\ \A d \in Judges : at'[d] = at[d] /\ work'[d] = work[d]
        /\ won' = won
    BY <1>7, <1>8, Disjoint DEF SpendBurn, GoOn, Answer
  <2>2. fight[c].via \in Attempts
    BY <1>8 DEF SpendBurn, Typed, Asked
  <2>3. \A y \in Attempts : attempt'[y].rev = attempt[y].rev
    BY <1>8, <2>2 DEF SpendBurn, Typed, TypeOK, Challenge
  <2>4. \A y \in Attempts : attempt'[y].status \in {"NONE", "OPEN"}
                            => attempt[y].status \in {"NONE", "OPEN"}
    BY <1>8, <2>2 DEF SpendBurn, Typed, TypeOK, Challenge
  <2>5. \A y \in won : y \in Attempts
    BY DEF Typed, TypeOK
  <2> QED BY <2>1, <2>3, <2>4, <2>5 DEF WinsAreJudged
<1>9. ASSUME NEW c \in Spends, SpendCheck(c) PROVE WinsAreJudged'
  BY <1>6, <1>7, <1>9, Disjoint DEF SpendCheck, challengeVars
<1>10. ASSUME NEW c \in Strikes, Strike(c) PROVE WinsAreJudged'
  BY <1>6, <1>7, <1>10, Disjoint DEF Strike, challengeVars
<1>11. ASSUME NEW c \in Battles, BindRead(c) \/ BindClaim(c) \/ ReadGym(c) \/ WriteGym(c)
       PROVE  WinsAreJudged'
  <2>1. won' = won /\ attempt' = attempt /\ work' = work /\ \E s : Goto(c, s)
    BY <1>11 DEF BindRead, BindClaim, ReadGym, WriteGym, GoOn, Answer, challengeVars
  <2> QED BY <1>6, <1>7, <2>1
<1>12. ASSUME NEW c \in Uses, UseCheck(c) \/ UseTake(c) \/ ApplyCore(c) \/ ApplyShield(c)
       PROVE  WinsAreJudged'
  <2>1. won' = won /\ attempt' = attempt /\ \E s : Goto(c, s)
    BY <1>12 DEF UseCheck, UseTake, ApplyCore, ApplyShield, AnswerWork, challengeVars
  <2>2. \A d \in Judges : d # c /\ work'[d] = work[d]
    BY <1>12, Disjoint DEF UseCheck, UseTake, ApplyCore, ApplyShield, AnswerWork, Typed, TypeOK
  <2> QED BY <1>1, <1>6, <2>1, <2>2, GotoMoves, Disjoint
<1>13. CASE ShieldLapses \/ UNCHANGED arenaVars
  BY <1>6, <1>13 DEF ShieldLapses, challengeVars, arenaVars
<1> QED BY <1>2, <1>3, <1>4, <1>5, <1>8, <1>9, <1>10, <1>11, <1>12, <1>13 DEF Next

Counted == /\ IsFiniteSet(Armed) /\ IsFiniteSet(Unspent) /\ IsFiniteSet(won)
           /\ Cardinality(Armed) \in Nat /\ Cardinality(Unspent) \in Nat
           /\ Cardinality(won) \in Nat /\ flips \in Nat

LEMMA Finite == Typed => Counted
<1> SUFFICES ASSUME Typed
             PROVE  IsFiniteSet(Armed) /\ IsFiniteSet(Unspent) /\ IsFiniteSet(won) /\ flips \in Nat
  BY FS_CardinalityType DEF Counted
<1>1. IsFiniteSet(Attempts) /\ IsFiniteSet(Spends)
  BY ArenaAssumption DEF ArenaAssumption
<1>2. Armed \subseteq Spends /\ Unspent \subseteq Attempts /\ won \subseteq Attempts
  BY DEF Armed, Unspent, Typed, TypeOK
<1> QED BY <1>1, <1>2, FS_Subset DEF Typed, TypeOK

LEMMA FiniteNext == Typed' => Counted'
BY Finite, PTL

\* A step that captures nothing, arms nobody and wins nothing keeps the count.
LEMMA NothingSpent ==
    ASSUME Typed, Typed', WinsAreSpentOnce, flips' = flips,
           Armed' \subseteq Armed, Unspent' \subseteq Unspent, won \subseteq won'
    PROVE  WinsAreSpentOnce'
<1>1. Cardinality(Armed') <= Cardinality(Armed) /\ Cardinality(Unspent') <= Cardinality(Unspent)
      /\ Cardinality(won) <= Cardinality(won')
  BY Finite, FiniteNext, FS_Subset DEF Counted
<1> QED BY <1>1, Finite, FiniteNext DEF Counted, WinsAreSpentOnce

LEMMA SpentOnceStep ==
    Typed /\ Typed' /\ WinsAreJudged /\ WinsAreSpentOnce /\ [Next]_arenaVars => WinsAreSpentOnce'
<1> SUFFICES ASSUME Typed, Typed', WinsAreJudged, WinsAreSpentOnce, [Next]_arenaVars
             PROVE  WinsAreSpentOnce'
  OBVIOUS
<1>1. \A c \in Spends : c \in Calls /\ c \in Battles
  BY Disjoint
<1>2. ASSUME NEW x \in Attempts, Start(x) \/ Create(x) \/ Lapse(x) PROVE WinsAreSpentOnce'
  <2>1. won' = won /\ flips' = flips /\ at' = at
    BY <1>2 DEF Start, Create, Lapse, groundVars
  <2>2. \A y \in Attempts : attempt'[y].status = "WON" => attempt[y].status = "WON"
    BY <1>2 DEF Start, Create, Lapse, Typed, TypeOK, Challenge
  <2>3. Armed' \subseteq Armed /\ Unspent' \subseteq Unspent
    BY <2>1, <2>2 DEF Armed, Unspent
  <2> QED BY <2>1, <2>3, NothingSpent
<1>3. ASSUME NEW c \in Judges, SubmitRead(c) \/ SubmitJudge(c) \/ SubmitSave(c)
      PROVE  Armed' = Armed /\ flips' = flips
  <2>1. \A d \in Battles : at'[d] = at[d]
    BY <1>3, BattlesApart
  <2> QED BY <1>1, <1>3, <2>1 DEF SubmitRead, SubmitJudge, SubmitSave, groundVars, Armed
<1>4. ASSUME NEW c \in Judges, SubmitRead(c) \/ SubmitJudge(c) PROVE WinsAreSpentOnce'
  <2>1. won' = won /\ attempt' = attempt
    BY <1>4 DEF SubmitRead, SubmitJudge, challengeVars
  <2> QED BY <1>3, <1>4, <2>1, NothingSpent DEF Unspent
<1>5. ASSUME NEW c \in Judges, SubmitSave(c) PROVE WinsAreSpentOnce'
  <2> DEFINE x == work[c].of
  <2>1. x \in Attempts /\ work[c].rev = 0
    BY <1>5 DEF SubmitSave, Typed, Ruled, WinsAreJudged
  <2>2. CASE ~SaveMatches(c)
    <3>1. won' = won /\ attempt' = attempt
      BY <1>5, <2>2 DEF SubmitSave
    <3> QED BY <1>3, <1>5, <3>1, NothingSpent DEF Unspent
  <2>3. ASSUME SaveMatches(c)
        PROVE  /\ \A y \in Attempts : y # x => attempt'[y] = attempt[y]
               /\ attempt'[x].status = work[c].verdict
    BY <1>5, <2>1, <2>3 DEF SubmitSave, Typed, TypeOK, Challenge
  <2>4. CASE SaveMatches(c) /\ work[c].verdict # "WON"
    <3>1. won' = won /\ Unspent' \subseteq Unspent
      BY <1>5, <2>3, <2>4 DEF SubmitSave, Unspent
    <3> QED BY <1>3, <1>5, <3>1, NothingSpent
  <2>5. CASE SaveMatches(c) /\ work[c].verdict = "WON"
    <3>1. won' = won \cup {x} /\ attempt[x].rev = 0
      BY <1>5, <2>1, <2>5 DEF SubmitSave, SaveMatches
    <3>2. x \notin won
      BY <3>1 DEF WinsAreJudged
    <3>3. Unspent' \subseteq Unspent \cup {x}
      BY <2>3, <2>5 DEF Unspent
    <3>4. Cardinality(won') = Cardinality(won) + 1
      BY <3>1, <3>2, Finite, FS_AddElement DEF Counted
    <3>5. Cardinality(Unspent') <= Cardinality(Unspent) + 1
      <4> DEFINE U == Unspent \cup {x}
      <4>1. IsFiniteSet(U) /\ Cardinality(U) = IF x \in Unspent THEN Cardinality(Unspent)
                                               ELSE Cardinality(Unspent) + 1
        BY Finite, FS_AddElement DEF Counted
      <4>2. Cardinality(Unspent') <= Cardinality(U)
        BY <3>3, <4>1, FS_Subset
      <4> QED BY <4>1, <4>2, Finite, FiniteNext DEF Counted
    <3> QED BY <1>3, <1>5, <3>4, <3>5, Finite, FiniteNext DEF Counted, WinsAreSpentOnce
  <2> QED BY <2>2, <2>4, <2>5
<1>6. ASSUME NEW c \in Spends, SpendBurn(c) PROVE WinsAreSpentOnce'
  <2> DEFINE x == fight[c].via
  <2>1. x \in Attempts /\ won' = won /\ flips' = flips /\ at[c] = "burn"
    BY <1>6 DEF SpendBurn, groundVars, Typed, Asked
  <2>2. CASE Spendable(x)
    <3>1. attempt' = [attempt EXCEPT ![x].status = "SPENT"] /\ Goto(c, "bind")
      BY <1>6, <2>2 DEF SpendBurn, GoOn
    <3>2. Unspent' = Unspent \ {x} /\ x \in Unspent
      BY <2>1, <2>2, <3>1 DEF Unspent, Spendable, Typed, TypeOK, Challenge
    <3>3. Armed' = Armed \cup {c} /\ c \notin Armed
      BY <1>1, <2>1, <3>1, GotoMoves DEF Armed
    <3>4. Cardinality(Unspent') = Cardinality(Unspent) - 1
      BY <3>2, Finite, FS_RemoveElement DEF Counted
    <3>5. Cardinality(Armed') = Cardinality(Armed) + 1
      BY <3>3, Finite, FS_AddElement DEF Counted
    <3> QED BY <2>1, <3>4, <3>5, Finite DEF Counted, WinsAreSpentOnce
  <2>3. CASE ~Spendable(x)
    <3>1. Goto(c, "done") /\ attempt' = attempt
      BY <1>6, <2>3 DEF SpendBurn, Answer
    <3>2. Armed' \subseteq Armed
      BY <1>1, <3>1, GotoMoves DEF Armed
    <3> QED BY <2>1, <3>1, <3>2, NothingSpent DEF Unspent
  <2> QED BY <2>2, <2>3
<1>7. ASSUME NEW c \in Battles, NEW s, Goto(c, s), s \in {"burn", "done"} \/ c \notin Spends
             \/ at[c] \in {"bind", "claim", "read", "write"},
             UNCHANGED <<challengeVars, flips>>
      PROVE  WinsAreSpentOnce'
  <2>1. Armed' \subseteq Armed
    BY <1>1, <1>7, Disjoint, GotoMoves DEF Armed
  <2> QED BY <1>7, <2>1, NothingSpent DEF Unspent, challengeVars
<1>8. ASSUME NEW c \in Spends, SpendCheck(c) PROVE WinsAreSpentOnce'
  BY <1>1, <1>7, <1>8 DEF SpendCheck, groundVars
<1>9. ASSUME NEW c \in Strikes, Strike(c) PROVE WinsAreSpentOnce'
  BY <1>7, <1>9, Disjoint DEF Strike, groundVars
<1>10. ASSUME NEW c \in Battles, BindRead(c) \/ BindClaim(c) \/ ReadGym(c) PROVE WinsAreSpentOnce'
  <2>1. \E s : Goto(c, s)
    BY <1>10 DEF BindRead, BindClaim, ReadGym, GoOn, Answer
  <2>2. at[c] \in {"bind", "claim", "read", "write"} /\ UNCHANGED <<challengeVars, flips>>
    BY <1>10 DEF BindRead, BindClaim, ReadGym, groundVars
  <2> QED BY <1>7, <2>1, <2>2
<1>11. ASSUME NEW c \in Battles, WriteGym(c) PROVE WinsAreSpentOnce'
  <2>1. at[c] = "write" /\ attempt' = attempt /\ won' = won
    BY <1>11 DEF WriteGym, challengeVars
  <2>2. CASE flips' = flips
    <3>1. \E s : Goto(c, s)
      BY <1>11 DEF WriteGym, GoOn, Answer
    <3>2. UNCHANGED <<challengeVars, flips>>
      BY <1>11, <2>2 DEF WriteGym
    <3> QED BY <1>7, <2>1, <3>1, <3>2
  <2>3. CASE flips' # flips
    <3>1. /\ fight[c].read.holder \notin {Neutral, Struck(c).holder}
          /\ flips' = flips + 1 /\ Goto(c, "done")
      BY <1>11, <2>3, Finite DEF Counted, WriteGym, Answer
    <3>2. Taken(c)
      BY <3>1, FlipIsTaken
    <3>3. Required => c \in Armed
      <4>1. Required => fight[c].via # Undecided
        BY <3>2 DEF Taken
      <4>2. Required => c \in Spends
        BY <4>1 DEF Typed, Asked, Battles
      <4> QED BY <2>1, <4>2 DEF Armed
    <3>4. Armed' = Armed \ {c}
      <4>1. \A d \in Calls : at'[d] = IF d = c THEN "done" ELSE at[d]
        BY <3>1, GotoMoves, Disjoint
      <4> QED BY <1>1, <4>1 DEF Armed
    <3>5. Required => Cardinality(Armed') = Cardinality(Armed) - 1
      BY <3>3, <3>4, Finite, FS_RemoveElement DEF Counted
    <3> QED BY <2>1, <3>1, <3>5, Finite DEF Counted, WinsAreSpentOnce, Unspent
  <2> QED BY <2>2, <2>3
<1>12. ASSUME NEW c \in Uses, UseCheck(c) \/ UseTake(c) \/ ApplyCore(c) \/ ApplyShield(c)
       PROVE  WinsAreSpentOnce'
  <2>1. flips' = flips /\ \A d \in Battles : at'[d] = at[d]
    BY <1>12, BattlesApart
  <2>2. won' = won /\ attempt' = attempt
    BY <1>12 DEF UseCheck, UseTake, ApplyCore, ApplyShield, challengeVars
  <2> QED BY <1>1, <2>1, <2>2, NothingSpent DEF Armed, Unspent
<1>13. CASE ShieldLapses \/ UNCHANGED arenaVars
  BY <1>13, NothingSpent DEF ShieldLapses, challengeVars, arenaVars, Armed, Unspent
<1> QED BY <1>2, <1>4, <1>5, <1>6, <1>8, <1>9, <1>10, <1>11, <1>12, <1>13 DEF Next
-----------------------------------------------------------------------------
(* The invariant holds                                                     *)

LEMMA GuardInit == Init => ReadBeforeShield /\ Sides /\ WinsAreJudged /\ WinsAreSpentOnce
<1> SUFFICES ASSUME Init PROVE ReadBeforeShield /\ Sides /\ WinsAreJudged /\ WinsAreSpentOnce
  OBVIOUS
<1>1. Typed
  BY TypeInit
<1>2. /\ \A c \in Calls : at[c] = "idle"
      /\ \A c \in Battles : fight[c] = NoFight
      /\ \A x \in Attempts : attempt[x] = NoAttempt
      /\ flips = 0 /\ won = {}
  BY DEF Init
<1>3. gym.version \in Nat
  BY <1>1 DEF Typed, TypeOK, Gym
<1>4. ReadBeforeShield
  BY <1>2, <1>3, NoFightIsUnread, Disjoint DEF ReadBeforeShield
<1>5. Sides
  BY <1>2, Disjoint DEF Init, Sides, Bound, OneSide
<1>6. WinsAreJudged
  BY <1>2, NoAttemptFields, Disjoint DEF WinsAreJudged
<1>7. Armed = {} /\ Unspent = {}
  BY <1>2, NoAttemptFields, Disjoint DEF Armed, Unspent
<1>8. WinsAreSpentOnce
  BY <1>2, <1>7, FS_EmptySet DEF WinsAreSpentOnce
<1> QED BY <1>4, <1>5, <1>6, <1>8

LEMMA Invariance == Spec => []IInv
<1>1. Init => IInv
  BY TypeInit, GuardInit DEF IInv, Sides
<1>2. IInv /\ [Next]_arenaVars => IInv'
  BY TypeStep, ShieldStep, SidesStep, WinsStep, SpentOnceStep DEF IInv, Sides
<1> QED BY <1>1, <1>2, PTL DEF Spec

\* Every variable of the arena keeps its type (gym.service, gauntlet.service,
\* hackstop.service).
THEOREM TypeCorrect == Spec => []TypeOK
<1>1. IInv => TypeOK
  BY DEF IInv, Typed
<1> QED BY <1>1, Invariance, PTL

\* Every strike an account lands is for its one side, whatever factions its
\* racing requests name (bindFaction in faction.service).
THEOREM OneSideEach == Spec => []OneSide
<1>1. IInv => OneSide
  BY DEF IInv
<1> QED BY <1>1, Invariance, PTL

\* With the gauntlet on, captures never outnumber the challenges won: a win
\* is judged once, burnt once and buys one capture (spend in gauntlet.service,
\* battleOrContribute in gym.service).
THEOREM EveryCaptureIsWon == Spec => []CapturesAreWon
<1>1. IInv => CapturesAreWon
  BY Finite DEF Counted, IInv, WinsAreSpentOnce, CapturesAreWon
<1> QED BY <1>1, Invariance, PTL

\* No strike lands on a shielded gym: raising a shield moves the version a
\* strike in flight must find (applyShield against the compare-and-set of
\* battleOrContribute).
THEOREM ShieldedIsSpared == Spec => ShieldHolds
<1>1. ASSUME IInv, [Next]_arenaVars, NEW c \in Battles,
             at[c] = "write", at'[c] # "write", gym' # gym
      PROVE  ~shielded
  <2>1. Typed /\ ReadBeforeShield
    BY <1>1 DEF IInv
  <2>2. at'[c] # at[c]
    BY <1>1
  <2>3. ~(\/ \E x \in Attempts : Start(x) \/ Create(x) \/ Lapse(x)
          \/ \E e \in Judges : SubmitRead(e) \/ SubmitJudge(e) \/ SubmitSave(e)
          \/ \E e \in Uses : UseCheck(e) \/ UseTake(e) \/ ApplyCore(e) \/ ApplyShield(e)
          \/ ShieldLapses)
    BY <2>1, <2>2, BattlesApart
  <2>4. \/ \E e \in Spends : SpendCheck(e) \/ SpendBurn(e)
        \/ \E e \in Strikes : Strike(e)
        \/ \E e \in Battles : BindRead(e) \/ BindClaim(e) \/ ReadGym(e) \/ WriteGym(e)
    BY <1>1, <2>2, <2>3 DEF Next, arenaVars
  <2>5. PICK e \in Battles : WriteGym(e)
    BY <1>1, <2>4
       DEF SpendCheck, SpendBurn, Strike, BindRead, BindClaim, ReadGym, groundVars
  <2>6. at[e] = "write" /\ VersionStands(e)
    BY <1>1, <2>5 DEF WriteGym
  <2> QED BY <2>1, <2>6 DEF ReadBeforeShield, VersionStands
<1>2. IInv /\ [Next]_arenaVars =>
        [\A c \in Battles : at[c] = "write" /\ at'[c] # "write" /\ gym' # gym => ~shielded]_arenaVars
  BY <1>1
<1> QED BY <1>2, Invariance, PTL DEF Spec, ShieldHolds
=============================================================================
