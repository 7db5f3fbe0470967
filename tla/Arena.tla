-------------------------------- MODULE Arena --------------------------------
(***************************************************************************)
(* A gym, the accounts that fight for it and the challenges won at it:     *)
(* gym.service, gauntlet.service, faction.service and the two power-ups    *)
(* of hackstop.service that write a gym.  A gym is written by compare and  *)
(* set on its version, a win is a token burnt before the capture it buys,  *)
(* and an account's side is settled by its first battle.                   *)
(*                                                                         *)
(* One gym; its points are counted in units of a strike.  Leaders,         *)
(* defenders, geofences and the payout after a strike (Rewards) are left   *)
(* out.  The clock is free: a deadline or a shield may lapse at any time.  *)
(***************************************************************************)
EXTENDS Integers, FiniteSets

CONSTANTS
    Players, Factions,
    Attempts, OwnerOf,      \* challenge attempts that may be made, and by whom
    Strikes, Spends, Judges, Uses,  \* battle, spendGauntlet, submit, usePowerUp calls
    Items,                  \* what each player has spun so far
    Powers, CapturePower,   \* of a strike, and of a spent win
    FullPoints, FreshPoints, CorePoints,  \* maxControlPoints; after a capture; of a core
    MaxRetries,
    Required                \* GauntletService.requiredForCapture()

Neutral == "NEUTRAL"
Undecided == "none"
Battles == Strikes \cup Spends
Calls == Battles \cup Judges \cup Uses

VARIABLES
    gym,        \* controllingFaction, controlPoints, version
    shielded,   \* shieldExpiresAt is in the future
    side,       \* per player: Volunteer.faction
    attempt,    \* per attempt: status, __v, and whether expiresAt has passed
    starting,   \* attempts whose start call has swept and not yet created
    bag,        \* per player: items left of each kind
    at,         \* per call: its next step
    fight,      \* per battle: player, declared faction, power, gym as read, tries
    work,       \* per judge and use: what it read or was asked
    flips,      \* history: captures of a rival's gym
    won,        \* history: attempts ever judged WON
    fought      \* history: per player, the factions its landed strikes were for

ASSUME ArenaAssumption ==
    /\ IsFiniteSet(Attempts) /\ IsFiniteSet(Spends)
    /\ OwnerOf \in [Attempts -> Players] /\ Undecided \notin Attempts \cup Factions
    /\ Spends \cap Strikes = {} /\ Judges \cap Uses = {}
    /\ Battles \cap (Judges \cup Uses) = {}
    /\ Items \in [Players -> [core : Nat, shield : Nat]]
    /\ Powers \subseteq Nat
    /\ {CapturePower, FullPoints, FreshPoints, CorePoints, MaxRetries} \subseteq Nat

arenaVars == <<gym, shielded, side, attempt, starting, bag, at, fight, work, flips, won, fought>>

NoAttempt == [status |-> "NONE", rev |-> 0, late |-> FALSE]
NoGym == [holder |-> Neutral, points |-> 0, version |-> 0]
Battle(p, f, n, x) == [by |-> p, for |-> f, power |-> n, read |-> NoGym, tries |-> 0, via |-> x]
NoFight == Battle(Undecided, Neutral, 0, Undecided)
NoWork(c) == IF c \in Judges THEN [of |-> Undecided, verdict |-> Undecided, rev |-> 0]
             ELSE [by |-> Undecided, item |-> Undecided]

Init ==
    /\ gym \in [holder : Factions \cup {Neutral}, points : {FullPoints}, version : {0}]
    /\ shielded = FALSE
    /\ side = [p \in Players |-> Undecided]
    /\ attempt = [x \in Attempts |-> NoAttempt]
    /\ starting = {}
    /\ bag = Items
    /\ at = [c \in Calls |-> "idle"]
    /\ fight = [c \in Battles |-> NoFight]
    /\ work = [c \in Judges \cup Uses |-> NoWork(c)]
    /\ flips = 0 /\ won = {}
    /\ fought = [p \in Players |-> {}]

\* A gym that has been written: every write moves the version on.
Left(g, holder, points) == [holder |-> holder, points |-> points, version |-> g.version + 1]

Goto(c, step) == at' = [at EXCEPT ![c] = step]
GoOn(c, step) == Goto(c, step) /\ UNCHANGED fight
\* A call that has answered keeps nothing it read.
Answer(c) == Goto(c, "done") /\ fight' = [fight EXCEPT ![c] = NoFight]
AnswerWork(c) == Goto(c, "done") /\ work' = [work EXCEPT ![c] = NoWork(c)]
Least(a, b) == IF a < b THEN a ELSE b
Most(a, b) == IF a > b THEN a ELSE b

challengeVars == <<attempt, starting, won>>
groundVars == <<gym, shielded, flips, fought>>

-----------------------------------------------------------------------------
(* GauntletService.start: read the gym, expire one's own lapsed attempts,  *)
(* create.  The unique open key decides between two creations.             *)

Start(x) ==
    /\ attempt[x].status = "NONE" /\ x \notin starting
    /\ ~shielded
    /\ starting' = starting \cup {x}
    /\ attempt' = [y \in Attempts |->
         IF OwnerOf[y] = OwnerOf[x] /\ attempt[y].status = "OPEN" /\ attempt[y].late
         THEN [attempt[y] EXCEPT !.status = "EXPIRED"] ELSE attempt[y]]
    /\ UNCHANGED <<groundVars, side, bag, at, fight, work, won>>

KeyIsFree(x) == ~\E y \in Attempts : OwnerOf[y] = OwnerOf[x] /\ attempt[y].status = "OPEN"

Create(x) ==
    /\ x \in starting /\ attempt[x].status = "NONE"
    /\ KeyIsFree(x)
    /\ attempt' = [attempt EXCEPT ![x].status = "OPEN"]
    /\ UNCHANGED <<groundVars, starting, side, bag, at, fight, work, won>>

Lapse(x) ==
    /\ attempt[x].status = "OPEN" /\ ~attempt[x].late
    /\ attempt' = [attempt EXCEPT ![x].late = TRUE]
    /\ UNCHANGED <<groundVars, starting, side, bag, at, fight, work, won>>

(* GauntletService.submit: an OPEN attempt is read, judged, and saved.     *)
(* A judged save replaces perCase, so mongoose names __v in its filter;    *)
(* the save of an expiry replaces no array and names only the id.          *)

SubmitRead(c) ==
    /\ at[c] = "idle"
    /\ \E x \in Attempts :
        /\ attempt[x].status = "OPEN"
        /\ work' = [work EXCEPT ![c] = [of |-> x, verdict |-> Undecided, rev |-> attempt[x].rev]]
    /\ Goto(c, "judge")
    /\ UNCHANGED <<groundVars, challengeVars, side, bag, fight>>

SubmitJudge(c) ==
    /\ at[c] = "judge"
    /\ \E verdict \in IF attempt[work[c].of].late THEN {"EXPIRED"} ELSE {"WON", "LOST"} :
        work' = [work EXCEPT ![c].verdict = verdict]
    /\ Goto(c, "save")
    /\ UNCHANGED <<groundVars, challengeVars, side, bag, fight>>

SaveMatches(c) == work[c].verdict = "EXPIRED" \/ attempt[work[c].of].rev = work[c].rev

SubmitSave(c) ==
    LET x == work[c].of  verdict == work[c].verdict IN
    /\ at[c] = "save"
    /\ AnswerWork(c)
    /\ IF SaveMatches(c)
       THEN /\ attempt' = [attempt EXCEPT ![x].status = verdict,
                                          ![x].rev = IF verdict = "EXPIRED" THEN @ ELSE @ + 1]
            /\ won' = IF verdict = "WON" THEN won \cup {x} ELSE won
       ELSE UNCHANGED <<attempt, won>>
    /\ UNCHANGED <<groundVars, starting, side, bag, fight>>

-----------------------------------------------------------------------------
(* GauntletService.spend, then a battle with the challenge's own power.    *)

Rival(f) == gym.holder \notin {Neutral, f}

\* The pre-check reads the win and the gym and refuses a win too weak to
\* capture, before it is burnt.
TooWeak(x, f) == attempt[x].status = "WON" /\ Rival(f) /\ CapturePower < gym.points

SpendCheck(c) ==
    /\ at[c] = "idle"
    /\ \E x \in Attempts, f \in Factions :
        /\ attempt[x].status # "NONE" /\ ~TooWeak(x, f)
        /\ fight' = [fight EXCEPT ![c] = Battle(OwnerOf[x], f, CapturePower, x)]
    /\ Goto(c, "burn")
    /\ UNCHANGED <<groundVars, challengeVars, side, bag, work>>

\* Mutant: the filter does not name the status.
AlwaysSpendable(x) == attempt[x].status # "NONE"

Spendable(x) == attempt[x].status = "WON"

SpendBurn(c) ==
    LET x == fight[c].via IN
    /\ at[c] = "burn"
    /\ IF Spendable(x)
       THEN /\ attempt' = [attempt EXCEPT ![x].status = "SPENT"]
            /\ GoOn(c, "bind")
       ELSE Answer(c) /\ UNCHANGED attempt
    /\ UNCHANGED <<groundVars, starting, won, side, bag, work>>

-----------------------------------------------------------------------------
(* battleOrContribute: bind the faction, then read and compare-and-set.    *)

Strike(c) ==
    /\ at[c] = "idle"
    /\ \E p \in Players, f \in Factions, n \in Powers :
        fight' = [fight EXCEPT ![c] = Battle(p, f, n, Undecided)]
    /\ Goto(c, "bind")
    /\ UNCHANGED <<groundVars, challengeVars, side, bag, work>>

BindRead(c) ==
    /\ at[c] = "bind"
    /\ CASE side[fight[c].by] = Undecided -> GoOn(c, "claim")
         [] side[fight[c].by] = fight[c].for -> GoOn(c, "read")
         [] OTHER -> Answer(c)
    /\ UNCHANGED <<groundVars, challengeVars, side, bag, work>>

\* Mutant: the side is saved on the strength of the earlier read.
ClaimsAsRead(p) == p \in Players

MayClaim(p) == side[p] = Undecided

\* The loser of the claim re-reads; a side never changes, so the re-read may
\* as well happen with the failed claim.
BindClaim(c) ==
    LET p == fight[c].by  f == fight[c].for IN
    /\ at[c] = "claim"
    /\ IF MayClaim(p) THEN side' = [side EXCEPT ![p] = f] ELSE UNCHANGED side
    /\ IF side'[p] = f THEN GoOn(c, "read") ELSE Answer(c)
    /\ UNCHANGED <<groundVars, challengeVars, bag, work>>

ReadGym(c) ==
    /\ at[c] = "read"
    /\ IF shielded
       THEN Answer(c)
       ELSE /\ fight' = [fight EXCEPT ![c].read = gym, ![c].tries = @ + 1]
            /\ Goto(c, "write")
    /\ UNCHANGED <<groundVars, challengeVars, side, bag, work>>

\* What the strike makes of the gym it read: an ally's gym is strengthened, a
\* rival's worn down, and one worn out is taken, by the gauntlet only with a win.
Ally(c) == fight[c].read.holder \in {Neutral, fight[c].for}
Falls(c) == ~Ally(c) /\ fight[c].read.points <= fight[c].power
Taken(c) == Falls(c) /\ ~(Required /\ fight[c].via = Undecided)

PointsLeft(c) ==
    LET g == fight[c].read  n == fight[c].power IN
    CASE Ally(c) -> Least(FullPoints, g.points + n)
      [] Taken(c) -> Least(FullPoints, Most(FreshPoints, n))
      [] Falls(c) /\ ~Taken(c) -> 1
      [] OTHER -> g.points - n

Struck(c) == Left(fight[c].read, IF Ally(c) \/ Taken(c) THEN fight[c].for ELSE fight[c].read.holder,
                  PointsLeft(c))

VersionStands(c) == gym.version = fight[c].read.version

WriteGym(c) ==
    /\ at[c] = "write"
    /\ IF VersionStands(c)
       THEN /\ gym' = Struck(c)
            /\ flips' = flips + IF fight[c].read.holder \notin {Neutral, Struck(c).holder} THEN 1 ELSE 0
            /\ fought' = [fought EXCEPT ![fight[c].by] = @ \cup {fight[c].for}]
            /\ Answer(c)
       ELSE /\ IF fight[c].tries < MaxRetries THEN GoOn(c, "read") ELSE Answer(c)
            /\ UNCHANGED <<gym, flips, fought>>
    /\ UNCHANGED <<challengeVars, shielded, side, bag, work>>

-----------------------------------------------------------------------------
(* usePowerUp: check the target, take the item, then write the gym.        *)

UseCheck(c) ==
    /\ at[c] = "idle"
    /\ \E p \in Players, item \in {"core", "shield"} :
        /\ gym.holder \in {Neutral, side[p]}
        /\ work' = [work EXCEPT ![c] = [by |-> p, item |-> item]]
    /\ Goto(c, "take")
    /\ UNCHANGED <<groundVars, challengeVars, side, bag, fight>>

UseTake(c) ==
    LET p == work[c].by  item == work[c].item IN
    /\ at[c] = "take"
    /\ IF bag[p][item] >= 1
       THEN bag' = [bag EXCEPT ![p][item] = @ - 1] /\ Goto(c, "apply") /\ UNCHANGED work
       ELSE AnswerWork(c) /\ UNCHANGED bag
    /\ UNCHANGED <<groundVars, challengeVars, side, fight>>

ApplyCore(c) ==
    /\ at[c] = "apply" /\ work[c].item = "core"
    /\ gym' = Left(gym, gym.holder, Least(FullPoints, gym.points + CorePoints))
    /\ AnswerWork(c)
    /\ UNCHANGED <<challengeVars, shielded, flips, fought, side, bag, fight>>

\* Mutant: raising a shield is not a change of the gym.
VersionUntouched == gym.version

VersionAfterShield == gym.version + 1

ApplyShield(c) ==
    /\ at[c] = "apply" /\ work[c].item = "shield"
    /\ shielded' = TRUE
    /\ gym' = [gym EXCEPT !.version = VersionAfterShield]
    /\ AnswerWork(c)
    /\ UNCHANGED <<challengeVars, flips, fought, side, bag, fight>>

ShieldLapses ==
    /\ shielded
    /\ shielded' = FALSE
    /\ UNCHANGED <<gym, flips, fought, challengeVars, side, bag, at, fight, work>>

-----------------------------------------------------------------------------

Next ==
    \/ \E x \in Attempts : Start(x) \/ Create(x) \/ Lapse(x)
    \/ \E c \in Judges : SubmitRead(c) \/ SubmitJudge(c) \/ SubmitSave(c)
    \/ \E c \in Spends : SpendCheck(c) \/ SpendBurn(c)
    \/ \E c \in Strikes : Strike(c)
    \/ \E c \in Battles : BindRead(c) \/ BindClaim(c) \/ ReadGym(c) \/ WriteGym(c)
    \/ \E c \in Uses : UseCheck(c) \/ UseTake(c) \/ ApplyCore(c) \/ ApplyShield(c)
    \/ ShieldLapses

Spec == Init /\ [][Next]_arenaVars

-----------------------------------------------------------------------------

Gym == [holder : Factions \cup {Neutral}, points : Nat, version : Nat]
Verdicts == {"WON", "LOST", "EXPIRED"}
Challenge == [status : Verdicts \cup {"NONE", "OPEN", "SPENT"}, rev : Nat, late : BOOLEAN]
Fight == [by : Players \cup {Undecided}, for : Factions \cup {Neutral}, power : Nat,
          read : Gym, tries : Nat, via : Attempts \cup {Undecided}]
Ruling == [of : Attempts \cup {Undecided}, verdict : Verdicts \cup {Undecided}, rev : Nat]
Use == [by : Players \cup {Undecided}, item : {"core", "shield", Undecided}]

\* Every variable keeps its type.
TypeOK ==
    /\ gym \in Gym /\ shielded \in BOOLEAN
    /\ side \in [Players -> Factions \cup {Undecided}]
    /\ attempt \in [Attempts -> Challenge]
    /\ starting \subseteq Attempts
    /\ bag \in [Players -> [core : Nat, shield : Nat]]
    /\ at \in [Calls -> {"idle", "burn", "bind", "claim", "read", "write",
                         "judge", "save", "take", "apply", "done"}]
    /\ fight \in [Battles -> Fight]
    /\ work \in [Judges \cup Uses -> Ruling \cup Use]
    /\ \A c \in Judges : work[c] \in Ruling
    /\ \A c \in Uses : work[c] \in Use
    /\ flips \in Nat /\ won \subseteq Attempts
    /\ fought \in [Players -> SUBSET Factions]

\* With the gauntlet on, a rival's gym changes hands no more often than a
\* challenge was won at it, however often a win is submitted, spent twice at
\* once or raced by its own expiry.
CapturesAreWon == Required => flips <= Cardinality(won)

\* A strike never lands on a gym that is under a shield, although the shield
\* was looked at in an earlier read and every loser of the version race
\* retries.
ShieldHolds ==
    [][\A c \in Battles : at[c] = "write" /\ at'[c] # "write" /\ gym' # gym => ~shielded]_arenaVars

\* Everything an account ever did to a gym was done for one side, although
\* every request names its own and the side is bound by the first of them.
OneSide == \A p \in Players : fought[p] \subseteq {side[p]}
=============================================================================
